------------------------------- MODULE Sessions -------------------------------
(***************************************************************************)
(* The refresh tokens of one user, and the tabs of one browser that use    *)
(* them: AuthService's refresh, logout and issueTokens statement by        *)
(* statement, AuthController's cookie, and the web client, which keeps its *)
(* access token in the memory of a tab and shares the cookie among tabs.   *)
(*                                                                         *)
(* A family is named by its first token.  No code changes User.status, so  *)
(* the user is always ACTIVE.                                              *)
(***************************************************************************)
EXTENDS Integers, FiniteSets

CONSTANTS
    Tabs,         \* pages of the web client, with one cookie jar
    MaxTokens,    \* bound on the tokens issued
    MaxTroubles   \* bound on the troubles that are not overlaps

ASSUME ConstantsAssumption ==
    /\ IsFiniteSet(Tabs)
    /\ MaxTokens \in Nat \ {0}
    /\ MaxTroubles \in Nat

Tokens == 1..MaxTokens
NoToken == 0

VARIABLES
    row,       \* RefreshToken: none, live, rotated, revoked or purged
    family,    \* its familyId
    lapsed,    \* the tokens past their expiresAt
    cookie,    \* the browser's qalab_refresh
    access,    \* the tabs with an access token in memory
    pc,        \* the next statement of a tab's request, idle without one
    token,     \* the token its request carries, later the one its answer brings
    crossed,   \* history: two refreshes were past their checks at once
    calm,      \* history: requests did not overlap, and no trouble came
    troubles   \* how many came, overlaps and second logins aside

rows == <<row, family, lapsed>>
browser == <<cookie, access>>
history == <<crossed, calm, troubles>>
vars == <<rows, browser, pc, token, history>>

RowNames == {"none", "live", "rotated", "revoked", "purged"}
PcNames == {"idle", "find", "burn", "rotate", "issue", "enter", "answer", "revoke", "forget"}

TypeOK ==
    /\ row \in [Tokens -> RowNames]
    /\ family \in [Tokens -> 0..MaxTokens]
    /\ lapsed \subseteq Tokens
    /\ cookie \in 0..MaxTokens
    /\ access \subseteq Tabs
    /\ pc \in [Tabs -> PcNames]
    /\ token \in [Tabs -> 0..MaxTokens]
    /\ crossed \in BOOLEAN
    /\ calm \in BOOLEAN
    /\ troubles \in 0..MaxTroubles

Init ==
    /\ row = [k \in Tokens |-> "none"]
    /\ family = [k \in Tokens |-> NoToken]
    /\ lapsed = {}
    /\ cookie = NoToken
    /\ access = {}
    /\ pc = [t \in Tabs |-> "idle"]
    /\ token = [t \in Tabs |-> NoToken]
    /\ crossed = FALSE
    /\ calm = TRUE
    /\ troubles = 0

Live(k) == row[k] = "live"

\* The tabs whose refresh found its token good and has not inserted the next.
Checked(t) == pc[t] \in {"rotate", "issue"}

Idle(t) == pc[t] = "idle"

\* A request starts.  It is calm when it is the only one from its sending to
\* its answer, and no login of a browser whose session still works.
Send(t, where, k) ==
    /\ Idle(t)
    /\ pc' = [pc EXCEPT ![t] = where]
    /\ token' = [token EXCEPT ![t] = k]
    /\ calm' = (/\ calm
                /\ \A u \in Tabs : Idle(u)
                /\ where = "enter" => cookie = NoToken \/ ~Live(cookie))
    /\ UNCHANGED <<rows, browser, crossed, troubles>>

\* The request goes on to its next statement, or ends.
Goto(t, where) ==
    /\ pc' = [pc EXCEPT ![t] = where]
    /\ token' = IF where = "idle" THEN [token EXCEPT ![t] = NoToken] ELSE token

Trouble ==
    /\ troubles < MaxTroubles
    /\ troubles' = troubles + 1
    /\ calm' = FALSE
    /\ UNCHANGED crossed

-------------------------------------------------------------------------------
(***************************************************************************)
(* Opening a page: refresh                                                 *)
(***************************************************************************)

\* AppShell's boot asks for an access token when the tab has none.
Boot(t) == t \notin access /\ Send(t, "find", cookie)

\* Mutant: a replaced token is not taken for a reuse.
Find_NoReuse(t) ==
    /\ pc[t] = "find"
    /\ LET k == token[t] IN
       Goto(t, IF k = NoToken \/ row[k] = "purged" THEN "idle"
               ELSE IF row[k] = "revoked" THEN "burn"
               ELSE IF k \in lapsed THEN "idle" ELSE "rotate")
    /\ crossed' = (crossed \/ (pc'[t] = "rotate" /\ \E u \in Tabs : Checked(u)))
    /\ UNCHANGED <<rows, browser, calm, troubles>>

\* findUnique and the checks behind it.  No cookie, no row and a lapsed token
\* are a 401, a revoked or replaced token burns its family.  Two requests past
\* their checks at once have crossed.
Find(t) ==
    /\ pc[t] = "find"
    /\ LET k == token[t] IN
       Goto(t, IF k = NoToken \/ row[k] = "purged" THEN "idle"
               ELSE IF ~Live(k) THEN "burn"
               ELSE IF k \in lapsed THEN "idle" ELSE "rotate")
    /\ crossed' = (crossed \/ (pc'[t] = "rotate" /\ \E u \in Tabs : Checked(u)))
    /\ UNCHANGED <<rows, browser, calm, troubles>>

\* The answer is a 401 and leaves the cookie as it is.
Burn(t) ==
    /\ pc[t] = "burn"
    /\ row' = [k \in Tokens |-> IF Live(k) /\ family[k] = family[token[t]]
                                THEN "revoked" ELSE row[k]]
    /\ Goto(t, "idle")
    /\ UNCHANGED <<family, lapsed, browser, history>>

\* Mutant: the new token is inserted beside the old one.
Rotate_KeepsOld(t) ==
    /\ pc[t] = "rotate"
    /\ Goto(t, "issue")
    /\ UNCHANGED <<rows, browser, history>>

\* The update is by id alone, whatever became of the token since it was read.
Rotate(t) ==
    /\ pc[t] = "rotate"
    /\ row' = [row EXCEPT ![token[t]] = "rotated"]
    /\ Goto(t, "issue")
    /\ UNCHANGED <<family, lapsed, browser, history>>

-------------------------------------------------------------------------------
(***************************************************************************)
(* issueTokens, for a refresh or for a login or registration               *)
(***************************************************************************)

Fresh(k) == row[k] = "none" /\ \A j \in Tokens : row[j] = "none" => k <= j

IssueIn(t, k, f) ==
    /\ Fresh(k)
    /\ row' = [row EXCEPT ![k] = "live"]
    /\ family' = [family EXCEPT ![k] = f]
    /\ pc' = [pc EXCEPT ![t] = "answer"]
    /\ token' = [token EXCEPT ![t] = k]
    /\ UNCHANGED <<lapsed, browser, history>>

Issue(t) ==
    /\ pc[t] = "issue"
    /\ \E k \in Tokens : IssueIn(t, k, family[token[t]])

\* The login page; what login checks before is in Accounts.
Login(t) == t \notin access /\ Send(t, "enter", NoToken)

Enter(t) ==
    /\ pc[t] = "enter"
    /\ \E k \in Tokens : IssueIn(t, k, k)

\* setRefreshCookie and setStoredSession.
Answer(t) ==
    /\ pc[t] = "answer"
    /\ cookie' = token[t]
    /\ access' = access \cup {t}
    /\ Goto(t, "idle")
    /\ UNCHANGED <<rows, history>>

-------------------------------------------------------------------------------
(***************************************************************************)
(* Leaving                                                                 *)
(***************************************************************************)

Logout(t) == t \in access /\ Send(t, "revoke", cookie)

\* Mutant: the logout only clears the cookie.
Revoke_Nothing(t) ==
    /\ pc[t] = "revoke"
    /\ Goto(t, "forget")
    /\ UNCHANGED <<rows, browser, history>>

\* Only the token that came with the request is revoked.
Revoke(t) ==
    /\ pc[t] = "revoke"
    /\ row' = [k \in Tokens |-> IF k = token[t] /\ Live(k) THEN "revoked" ELSE row[k]]
    /\ Goto(t, "forget")
    /\ UNCHANGED <<family, lapsed, browser, history>>

\* clearRefreshCookie and clearSession.
Forget(t) ==
    /\ pc[t] = "forget"
    /\ cookie' = NoToken
    /\ access' = access \ {t}
    /\ Goto(t, "idle")
    /\ UNCHANGED <<rows, history>>

\* logoutAll, or the transaction of changePassword or resetPassword.  The
\* cookie stays, and so do access tokens.
RevokeAll ==
    /\ Trouble
    /\ row' = [k \in Tokens |-> IF Live(k) THEN "revoked" ELSE row[k]]
    /\ UNCHANGED <<family, lapsed, browser, pc, token>>

\* A reload forgets the access token, which is nowhere but in memory.
Reload(t) ==
    /\ Idle(t) /\ t \in access
    /\ access' = access \ {t}
    /\ UNCHANGED <<rows, cookie, pc, token, history>>

-------------------------------------------------------------------------------
(***************************************************************************)
(* Failures and time                                                       *)
(***************************************************************************)

\* The API fails between two statements; a logout ends in the client anyway.
Dies(t) ==
    /\ pc[t] \in {"find", "burn", "rotate", "issue", "enter", "revoke"}
    /\ Trouble
    /\ access' = IF pc[t] = "revoke" THEN access \ {t} ELSE access
    /\ Goto(t, "idle")
    /\ UNCHANGED <<rows, cookie>>

\* The answer is lost: no cookie is set or cleared.
AnswerLost(t) ==
    /\ pc[t] \in {"answer", "forget"}
    /\ Trouble
    /\ access' = IF pc[t] = "forget" THEN access \ {t} ELSE access
    /\ Goto(t, "idle")
    /\ UNCHANGED <<rows, cookie>>

\* A week passes; the cookie, set a little later, goes then or soon.
Lapse(k) ==
    /\ row[k] # "none" /\ k \notin lapsed
    /\ Trouble
    /\ lapsed' = lapsed \cup {k}
    /\ cookie' \in {cookie, IF cookie = k THEN NoToken ELSE cookie}
    /\ UNCHANGED <<row, family, access, pc, token>>

\* RetentionService deletes lapsed tokens and those long revoked, long after
\* every request that carries one.
Purge(k) ==
    /\ k \in lapsed \/ row[k] \in {"rotated", "revoked"}
    /\ row[k] # "purged"
    /\ \A t \in Tabs : Idle(t)
    /\ Trouble
    /\ row' = [row EXCEPT ![k] = "purged"]
    /\ UNCHANGED <<family, lapsed, browser, pc, token>>

TabNext(t) ==
    \/ Boot(t) \/ Find(t) \/ Burn(t) \/ Rotate(t) \/ Issue(t)
    \/ Login(t) \/ Enter(t) \/ Answer(t)
    \/ Logout(t) \/ Revoke(t) \/ Forget(t) \/ Reload(t)
    \/ Dies(t) \/ AnswerLost(t)

Next ==
    \/ \E t \in Tabs : TabNext(t)
    \/ \E k \in Tokens : Lapse(k) \/ Purge(k)
    \/ RevokeAll

Spec == Init /\ [][Next]_vars

-------------------------------------------------------------------------------
(***************************************************************************)
(* Properties                                                              *)
(***************************************************************************)

Member(k, f) == row[k] # "none" /\ family[k] = f

\* A token that still works.  Rotations that do not cross keep a family a
\* single token that moves: at most one usable token, and none while a refresh
\* of the family stands between the rotation and the insert.  About refresh,
\* whose check, rotation and insert are separate statements.
OneUsable ==
    ~crossed =>
        /\ \A j, k \in Tokens : Live(j) /\ Live(k) /\ family[j] = family[k] => j = k
        /\ \A t \in Tabs, k \in Tokens :
              pc[t] = "issue" /\ Live(k) => family[k] # family[token[t]]

\* Nothing of the family works, and no refresh is on its way to a new token.
Ended(f) ==
    /\ \A k \in Tokens : Member(k, f) => ~Live(k)
    /\ \A t \in Tabs : Checked(t) => family[token[t]] # f

\* An ended family never works again, in whatever order requests, a burn, a
\* logout, a password change and a crash come: only a refresh past its check
\* outlives them.  About refresh, logout, logoutAll and issueTokens.
FamilyEnds ==
    [][\A f \in Tokens : row[f] # "none" /\ Ended(f) => Ended(f)']_vars

\* While requests do not overlap and nothing else goes wrong, the browser's
\* cookie is, between requests, the one token of the user that works: an honest
\* client is never taken for a thief, and a logout leaves nothing behind.
\* About the cookie of AuthController against the rows of AuthService.
CookieWorks ==
    calm /\ (\A t \in Tabs : Idle(t)) =>
        { k \in Tokens : Live(k) } = {cookie} \ {NoToken}

===============================================================================
