---------------------------- MODULE SessionsProofs ----------------------------
(***************************************************************************)
(* Proofs about Sessions, for any number of tabs, tokens and troubles.     *)
(*                                                                         *)
(* What a token may still do is in three places: its row, the requests     *)
(* that carry it past their checks, and the family it passes on.  The      *)
(* inductive invariant ties them: a request past its check carries a token *)
(* that was issued, a family is named by a token that was issued, and      *)
(* until two refreshes cross the token a refresh is about to replace is    *)
(* the last of its family that works.  A second invariant, Calm, follows   *)
(* the cookie of a browser whose requests are alone.                       *)
(***************************************************************************)
EXTENDS Sessions, TLAPS

\* A refresh past its check carries a token that was issued.
Carried == \A t \in Tabs : Checked(t) => token[t] \in Tokens /\ row[token[t]] # "none"

\* The family of an issued token is named by an issued token.
Named ==
    \A k \in Tokens : row[k] # "none" => family[k] \in Tokens /\ row[family[k]] # "none"

\* Only what was issued lapses.
LapsedIssued == \A k \in lapsed : row[k] # "none"

\* Refreshes that have not crossed are past their checks one at a time.
Alone == \A t, u \in Tabs : Checked(t) /\ Checked(u) => t = u

OneLive == \A j, k \in Tokens : Live(j) /\ Live(k) /\ family[j] = family[k] => j = k

\* Only the token that is about to be replaced works in its family.
LastLive ==
    \A t \in Tabs, k \in Tokens :
        pc[t] = "rotate" /\ Live(k) /\ family[k] = family[token[t]] => k = token[t]

NoneLive ==
    \A t \in Tabs, k \in Tokens :
        pc[t] = "issue" /\ Live(k) => family[k] # family[token[t]]

IInv ==
    /\ TypeOK
    /\ Carried
    /\ Named
    /\ LapsedIssued
    /\ ~ crossed => Alone /\ OneLive /\ LastLive /\ NoneLive

-------------------------------------------------------------------------------

\* What TypeOK says of the histories, which are Boolean, and of the rest.
Histories == crossed \in BOOLEAN /\ calm \in BOOLEAN
Ranges ==
    /\ row \in [Tokens -> RowNames]
    /\ family \in [Tokens -> 0..MaxTokens]
    /\ lapsed \subseteq Tokens
    /\ cookie \in 0..MaxTokens
    /\ access \subseteq Tabs
    /\ pc \in [Tabs -> PcNames]
    /\ token \in [Tabs -> 0..MaxTokens]
    /\ troubles \in 0..MaxTroubles

\* Together they are TypeOK.
LEMMA TypeParts == TypeOK <=> Histories /\ Ranges
BY DEF TypeOK, Histories, Ranges

\* The bounds are numbers.
LEMMA Bounds == MaxTokens \in Nat /\ MaxTroubles \in Nat
BY ConstantsAssumption

\* The initial states satisfy the invariant: nothing is issued, no request is
\* on its way.
LEMMA InitInvariant == Init => IInv
<1> SUFFICES ASSUME Init PROVE IInv
  OBVIOUS
<1>1. Histories
  BY DEF Init, Histories
<1>2. Ranges
  BY Bounds DEF Init, Ranges, RowNames, PcNames, Tokens, NoToken
<1>3. Carried /\ Named /\ LapsedIssued /\ Alone /\ OneLive /\ LastLive /\ NoneLive
  BY DEF Init, Carried, Named, LapsedIssued, Alone, OneLive,
     LastLive, NoneLive, Checked, Live
<1> QED
  BY <1>1, <1>2, <1>3, TypeParts DEF IInv

\* No step makes a history anything but TRUE or FALSE.
LEMMA HistoriesStep == Histories /\ [Next]_vars => Histories'
<1> SUFFICES ASSUME Histories, [Next]_vars PROVE Histories'
  OBVIOUS
<1> USE DEF Histories, history
<1>1. ASSUME NEW t \in Tabs, Boot(t) \/ Login(t) \/ Logout(t) PROVE Histories'
  BY <1>1 DEF Boot, Login, Logout, Send
<1>2. ASSUME NEW t \in Tabs, Find(t) PROVE Histories'
  BY <1>2 DEF Find
<1>3. ASSUME NEW t \in Tabs,
             Burn(t) \/ Rotate(t) \/ Issue(t) \/ Enter(t) \/ Answer(t) \/ Revoke(t)
             \/ Forget(t) \/ Reload(t)
      PROVE  Histories'
  BY <1>3 DEF Burn, Rotate, Issue, Enter, IssueIn, Answer, Revoke, Forget, Reload
<1>4. ASSUME NEW t \in Tabs, Dies(t) \/ AnswerLost(t) PROVE Histories'
  BY <1>4 DEF Dies, AnswerLost, Trouble
<1>5. ASSUME NEW k \in Tokens, Lapse(k) \/ Purge(k) PROVE Histories'
  BY <1>5 DEF Lapse, Purge, Trouble
<1>6. CASE RevokeAll
  BY <1>6 DEF RevokeAll, Trouble
<1>7. CASE UNCHANGED vars
  BY <1>7 DEF vars
<1> QED
  BY <1>1, <1>2, <1>3, <1>4, <1>5, <1>6, <1>7 DEF Next, TabNext

\* No statement of a request, no failure and no lapse of time leaves the ranges.
LEMMA RangesStep == Ranges /\ Carried /\ [Next]_vars => Ranges'
<1> SUFFICES ASSUME Ranges, Carried, [Next]_vars PROVE Ranges'
  OBVIOUS
<1> USE Bounds DEF Ranges, RowNames, PcNames, Tokens, NoToken, rows, browser, history
<1>1. ASSUME NEW t \in Tabs, NEW where \in PcNames, NEW k \in 0..MaxTokens, Send(t, where, k)
      PROVE  Ranges'
  BY <1>1 DEF Send
<1>2. ASSUME NEW t \in Tabs, Boot(t) \/ Login(t) \/ Logout(t) PROVE Ranges'
  <2>1. PICK where \in PcNames, k \in 0..MaxTokens : Send(t, where, k)
    BY <1>2 DEF Boot, Login, Logout
  <2> QED
    BY <1>1, <2>1
<1>3. ASSUME NEW t \in Tabs, Find(t) PROVE Ranges'
  BY <1>3 DEF Find, Goto
<1>4. ASSUME NEW t \in Tabs, Burn(t) PROVE Ranges'
  BY <1>4 DEF Burn, Goto
<1>5. ASSUME NEW t \in Tabs, Rotate(t) PROVE Ranges'
  BY <1>5 DEF Rotate, Goto
<1>6. ASSUME NEW t \in Tabs, Revoke(t) PROVE Ranges'
  BY <1>6 DEF Revoke, Goto
<1>7. ASSUME NEW t \in Tabs, Issue(t) PROVE Ranges'
  <2>1. token[t] \in Tokens
    BY <1>7 DEF Issue, Carried, Checked
  <2>2. PICK k \in Tokens : IssueIn(t, k, family[token[t]])
    BY <1>7 DEF Issue
  <2> QED
    BY <2>1, <2>2 DEF IssueIn
<1>8. ASSUME NEW t \in Tabs, Enter(t) PROVE Ranges'
  BY <1>8 DEF Enter, IssueIn
<1>9. ASSUME NEW t \in Tabs, Answer(t) PROVE Ranges'
  BY <1>9 DEF Answer, Goto
<1>10. ASSUME NEW t \in Tabs, Forget(t) PROVE Ranges'
  BY <1>10 DEF Forget, Goto
<1>11. ASSUME NEW t \in Tabs, Reload(t) PROVE Ranges'
  BY <1>11 DEF Reload, Goto
<1>12. ASSUME NEW t \in Tabs, Dies(t) PROVE Ranges'
  BY <1>12 DEF Dies, Goto, Trouble
<1>13. ASSUME NEW t \in Tabs, AnswerLost(t) PROVE Ranges'
  BY <1>13 DEF AnswerLost, Goto, Trouble
<1>14. ASSUME NEW k \in Tokens, Lapse(k) PROVE Ranges'
  BY <1>14 DEF Lapse, Trouble
<1>15. ASSUME NEW k \in Tokens, Purge(k) PROVE Ranges'
  BY <1>15 DEF Purge, Trouble
<1>16. CASE RevokeAll
  BY <1>16 DEF RevokeAll, Trouble
<1>17. CASE UNCHANGED vars
  BY <1>17 DEF vars
<1> QED
  BY <1>2, <1>3, <1>4, <1>5, <1>6, <1>7, <1>8, <1>9, <1>10, <1>11, <1>12, <1>13, <1>14, <1>15,
     <1>16, <1>17 DEF Next, TabNext

-------------------------------------------------------------------------------

\* A token that was issued stays issued, and in its family.
LEMMA IssuedStays ==
    ASSUME Ranges, [Next]_vars, NEW k \in Tokens, row[k] # "none"
    PROVE  row'[k] # "none" /\ family'[k] = family[k]
<1> USE DEF Ranges, RowNames, rows, browser, history, Live
<1>1. ASSUME NEW t \in Tabs, Boot(t) \/ Login(t) \/ Logout(t) \/ Find(t) \/ Answer(t) \/ Forget(t)
                             \/ Reload(t) \/ Dies(t) \/ AnswerLost(t)
      PROVE  UNCHANGED <<row, family>>
  BY <1>1 DEF Boot, Login, Logout, Send, Find, Answer, Forget, Reload, Dies, AnswerLost
<1>2. ASSUME NEW t \in Tabs, Burn(t) \/ Rotate(t) \/ Revoke(t)
      PROVE  row'[k] # "none" /\ family'[k] = family[k]
  BY <1>2 DEF Burn, Rotate, Revoke
<1>3. ASSUME NEW t \in Tabs, Issue(t) \/ Enter(t)
      PROVE  row'[k] # "none" /\ family'[k] = family[k]
  <2>1. PICK j, f : j \in Tokens /\ IssueIn(t, j, f)
    BY <1>3 DEF Issue, Enter
  <2> QED
    BY <2>1 DEF IssueIn, Fresh
<1>4. ASSUME NEW j \in Tokens, Lapse(j) \/ Purge(j)
      PROVE  row'[k] # "none" /\ family'[k] = family[k]
  BY <1>4 DEF Lapse, Purge
<1>5. CASE RevokeAll
  BY <1>5 DEF RevokeAll
<1>6. CASE UNCHANGED vars
  BY <1>6 DEF vars
<1> QED
  BY <1>1, <1>2, <1>3, <1>4, <1>5, <1>6 DEF Next, TabNext

\* How a refresh can be past its check: it was before, or its token is found
\* to work.
Kept(u) == Checked(u) /\ token'[u] = token[u] /\ (pc'[u] = pc[u] \/ Rotate(u))
Passes(u) ==
    /\ Find(u) /\ pc'[u] = "rotate"
    /\ token[u] \in Tokens /\ Live(token[u]) /\ token'[u] = token[u]

\* There is no other way past the check.
LEMMA CheckedComes ==
    ASSUME Ranges, [Next]_vars, NEW u \in Tabs, Checked(u)'
    PROVE  Kept(u) \/ Passes(u)
<1> USE DEF Ranges, Checked, Kept, Tokens, NoToken
<1>1. ASSUME NEW t \in Tabs, Boot(t) \/ Login(t) \/ Logout(t) PROVE Kept(u)
  BY <1>1 DEF Boot, Login, Logout, Send
<1>2. ASSUME NEW t \in Tabs, Find(t), t # u PROVE Kept(u)
  BY <1>2 DEF Find, Goto
<1>3. ASSUME Find(u) PROVE Passes(u)
  BY <1>3, Bounds DEF Find, Goto, Passes
<1>4. ASSUME NEW t \in Tabs, Burn(t) \/ Revoke(t) PROVE Kept(u)
  BY <1>4 DEF Burn, Revoke, Goto
<1>5. ASSUME NEW t \in Tabs, Rotate(t) PROVE Kept(u)
  BY <1>5 DEF Rotate, Goto
<1>6. ASSUME NEW t \in Tabs, Issue(t) \/ Enter(t) PROVE Kept(u)
  BY <1>6 DEF Issue, Enter, IssueIn
<1>7. ASSUME NEW t \in Tabs, Answer(t) \/ Forget(t) PROVE Kept(u)
  BY <1>7 DEF Answer, Forget, Goto
<1>8. ASSUME NEW t \in Tabs, Dies(t) \/ AnswerLost(t) PROVE Kept(u)
  BY <1>8 DEF Dies, AnswerLost, Goto
<1>9. CASE \/ \E t \in Tabs : Reload(t)
           \/ \E k \in Tokens : Lapse(k) \/ Purge(k)
           \/ RevokeAll
           \/ UNCHANGED vars
  BY <1>9 DEF Reload, Lapse, Purge, RevokeAll, vars
<1> QED
  BY <1>1, <1>2, <1>3, <1>4, <1>5, <1>6, <1>7, <1>8, <1>9 DEF Next, TabNext

\* A refresh comes past its check with a token that works, and keeps it until
\* it ends or inserts the next one.
LEMMA CarriedStep == Ranges /\ Carried /\ [Next]_vars => Carried'
<1> SUFFICES ASSUME Ranges, Carried, [Next]_vars, NEW u \in Tabs, Checked(u)'
             PROVE  token'[u] \in Tokens /\ row'[token'[u]] # "none"
  BY DEF Carried
<1>1. CASE Kept(u)
  BY <1>1, IssuedStays DEF Carried, Kept
<1>2. CASE Passes(u)
  BY <1>2, IssuedStays DEF Passes, Live
<1> QED
  BY <1>1, <1>2, CheckedComes

\* How a token that was not issued can be: a refresh issues it into the family
\* of the token it carries, or a login into a family of its own.
Issued(k) ==
    /\ row[k] = "none"
    /\ \E t \in Tabs : \/ Issue(t) /\ IssueIn(t, k, family[token[t]])
                       \/ Enter(t) /\ IssueIn(t, k, k)

\* No other statement makes a token of nothing.
LEMMA IssuedOnly ==
    ASSUME Ranges, Carried, LapsedIssued, [Next]_vars,
           NEW k \in Tokens, row[k] = "none", row'[k] # "none"
    PROVE  Issued(k)
<1> USE DEF Ranges, RowNames, rows, browser, history, Live
<1>1. ASSUME NEW t \in Tabs, Boot(t) \/ Login(t) \/ Logout(t) \/ Find(t) \/ Answer(t) \/ Forget(t)
                             \/ Reload(t) \/ Dies(t) \/ AnswerLost(t)
      PROVE  FALSE
  BY <1>1 DEF Boot, Login, Logout, Send, Find, Answer, Forget, Reload, Dies, AnswerLost
<1>2. ASSUME NEW t \in Tabs, Burn(t) \/ Revoke(t) PROVE FALSE
  BY <1>2 DEF Burn, Revoke
<1>3. ASSUME NEW t \in Tabs, Rotate(t) PROVE FALSE
  BY <1>3 DEF Rotate, Carried, Checked
<1>4. ASSUME NEW t \in Tabs, Issue(t) PROVE Issued(k)
  <2>1. PICK j \in Tokens : IssueIn(t, j, family[token[t]])
    BY <1>4 DEF Issue
  <2>2. j = k
    BY <2>1 DEF IssueIn
  <2> QED
    BY <1>4, <2>1, <2>2 DEF Issued
<1>5. ASSUME NEW t \in Tabs, Enter(t) PROVE Issued(k)
  <2>1. PICK j \in Tokens : IssueIn(t, j, j)
    BY <1>5 DEF Enter
  <2>2. j = k
    BY <2>1 DEF IssueIn
  <2> QED
    BY <1>5, <2>1, <2>2 DEF Issued
<1>6. ASSUME NEW j \in Tokens, Lapse(j) \/ Purge(j) PROVE FALSE
  BY <1>6 DEF Lapse, Purge, LapsedIssued
<1>7. CASE RevokeAll
  BY <1>7 DEF RevokeAll
<1>8. CASE UNCHANGED vars
  BY <1>8 DEF vars
<1> QED
  BY <1>1, <1>2, <1>3, <1>4, <1>5, <1>6, <1>7, <1>8 DEF Next, TabNext

\* A token that was issued and does not work never works again.
LEMMA DeadStays ==
    ASSUME Ranges, [Next]_vars, NEW k \in Tokens, row[k] # "none", ~ Live(k)
    PROVE  ~ Live(k)'
<1> USE DEF Ranges, RowNames, rows, browser, history, Live
<1>1. ASSUME NEW t \in Tabs, Boot(t) \/ Login(t) \/ Logout(t) \/ Find(t) \/ Answer(t) \/ Forget(t)
                             \/ Reload(t) \/ Dies(t) \/ AnswerLost(t)
      PROVE  ~ Live(k)'
  BY <1>1 DEF Boot, Login, Logout, Send, Find, Answer, Forget, Reload, Dies, AnswerLost
<1>2. ASSUME NEW t \in Tabs, Burn(t) \/ Rotate(t) \/ Revoke(t) PROVE ~ Live(k)'
  BY <1>2 DEF Burn, Rotate, Revoke
<1>3. ASSUME NEW t \in Tabs, Issue(t) \/ Enter(t) PROVE ~ Live(k)'
  <2>1. PICK j, f : j \in Tokens /\ IssueIn(t, j, f)
    BY <1>3 DEF Issue, Enter
  <2> QED
    BY <2>1 DEF IssueIn, Fresh
<1>4. ASSUME NEW j \in Tokens, Lapse(j) \/ Purge(j) PROVE ~ Live(k)'
  BY <1>4 DEF Lapse, Purge
<1>5. CASE RevokeAll
  BY <1>5 DEF RevokeAll
<1>6. CASE UNCHANGED vars
  BY <1>6 DEF vars
<1> QED
  BY <1>1, <1>2, <1>3, <1>4, <1>5, <1>6 DEF Next, TabNext

\* How a token can work: it did before, in the same family, or it is issued.
LEMMA LiveComes ==
    ASSUME Ranges, Carried, LapsedIssued, [Next]_vars, NEW k \in Tokens, Live(k)'
    PROVE  (Live(k) /\ family'[k] = family[k]) \/ Issued(k)
<1>1. CASE row[k] = "none"
  BY <1>1, IssuedOnly DEF Live
<1>2. CASE row[k] # "none"
  BY <1>2, IssuedStays, DeadStays
<1> QED
  BY <1>1, <1>2

\* What is issued has the family it is issued into.
LEMMA IssuedFamily ==
    ASSUME Ranges, Carried, Named, NEW k \in Tokens, Issued(k)
    PROVE  /\ row'[k] = "live"
           /\ \/ family'[k] = k
              \/ \E t \in Tabs : /\ pc[t] = "issue" /\ pc'[t] = "answer"
                                 /\ token[t] \in Tokens /\ row[token[t]] # "none"
                                 /\ family'[k] = family[token[t]]
BY DEF Issued, Issue, IssueIn, Ranges, Carried, Checked

\* A family that is issued into is named already, or by the token itself.
LEMMA NamedStep == Ranges /\ Carried /\ Named /\ LapsedIssued /\ [Next]_vars => Named'
<1> SUFFICES ASSUME Ranges, Carried, Named, LapsedIssued, [Next]_vars,
                    NEW k \in Tokens, row'[k] # "none"
             PROVE  family'[k] \in Tokens /\ row'[family'[k]] # "none"
  BY DEF Named
<1>1. CASE row[k] # "none"
  BY <1>1, IssuedStays DEF Named
<1>2. CASE row[k] = "none"
  <2>1. Issued(k)
    BY <1>2, IssuedOnly
  <2>2. CASE family'[k] = k
    BY <2>1, <2>2, IssuedFamily
  <2>3. ASSUME NEW t \in Tabs, token[t] \in Tokens, row[token[t]] # "none",
               family'[k] = family[token[t]]
        PROVE  family'[k] \in Tokens /\ row'[family'[k]] # "none"
    BY <2>3, IssuedStays DEF Named
  <2> QED
    BY <2>1, <2>2, <2>3, IssuedFamily
<1> QED
  BY <1>1, <1>2

\* Lapse takes an issued token, and what was issued stays so.
LEMMA LapsedStep == Ranges /\ LapsedIssued /\ [Next]_vars => LapsedIssued'
<1> SUFFICES ASSUME Ranges, LapsedIssued, [Next]_vars, NEW k \in lapsed'
             PROVE  row'[k] # "none"
  BY DEF LapsedIssued
<1>1. k \in Tokens /\ row[k] # "none"
  BY DEF Next, TabNext, vars, rows, browser, history, Ranges, LapsedIssued, Boot, Login, Logout,
         Send, Find, Burn, Rotate, Issue, Enter, IssueIn, Answer, Revoke, Forget, Reload, Dies,
         AnswerLost, Lapse, Purge, RevokeAll
<1> QED
  BY <1>1, IssuedStays

-------------------------------------------------------------------------------

\* Once crossed, always crossed; and a check that passes beside another one
\* makes them cross.
LEMMA CrossedStep ==
    ASSUME Ranges, [Next]_vars, ~ crossed'
    PROVE  /\ ~ crossed
           /\ \A t, u \in Tabs : Passes(t) => ~ Checked(u)
<1>1. ~ crossed
  BY DEF Next, TabNext, vars, rows, browser, history, Boot, Login, Logout, Send, Find, Burn, Rotate,
         Issue, Enter, IssueIn, Answer, Revoke, Forget, Reload, Dies, AnswerLost, Lapse, Purge,
         RevokeAll, Trouble
<1>2. ASSUME NEW t \in Tabs, NEW u \in Tabs, Passes(t), Checked(u) PROVE FALSE
  BY <1>2 DEF Passes, Find
<1> QED
  BY <1>1, <1>2

Uncrossed == Alone /\ OneLive /\ LastLive /\ NoneLive

\* Until refreshes cross, one at a time is past its check.
LEMMA AloneStep == Ranges /\ Alone /\ [Next]_vars /\ ~ crossed' => Alone'
<1> SUFFICES ASSUME Ranges, Alone, [Next]_vars, ~ crossed',
                    NEW t \in Tabs, NEW u \in Tabs, Checked(t)', Checked(u)'
             PROVE  t = u
  BY DEF Alone
<1>1. CASE Kept(t) /\ Kept(u)
  BY <1>1 DEF Alone, Kept
<1>2. CASE Passes(t) /\ Passes(u)
  BY <1>2 DEF Passes, Find, Goto, Ranges
<1>3. ~ (Kept(t) /\ Passes(u)) /\ ~ (Passes(t) /\ Kept(u))
  BY CrossedStep DEF Kept
<1> QED
  BY <1>1, <1>2, <1>3, CheckedComes

\* What is issued is alone in its family.
LEMMA IssuedAlone ==
    ASSUME Ranges, Carried, Named, LapsedIssued, Uncrossed, [Next]_vars,
           NEW j \in Tokens, NEW k \in Tokens, Issued(j), Live(k)
    PROVE  family'[k] # family'[j]
<1>1. row[j] = "none" /\ row[k] # "none" /\ family'[k] = family[k]
  BY IssuedStays DEF Issued, Live
<1>2. CASE family'[j] = j
  BY <1>1, <1>2 DEF Named
<1>3. ASSUME NEW t \in Tabs, pc[t] = "issue", family'[j] = family[token[t]]
      PROVE  family'[k] # family'[j]
  BY <1>1, <1>3 DEF Uncrossed, NoneLive
<1> QED
  BY <1>2, <1>3, IssuedFamily

\* Two of a family that work were there before, or one of them is issued: alone.
LEMMA OneLiveStep ==
    Ranges /\ Carried /\ Named /\ LapsedIssued /\ Uncrossed /\ [Next]_vars => OneLive'
<1> SUFFICES ASSUME Ranges, Carried, Named, LapsedIssued, Uncrossed, [Next]_vars,
                    NEW j \in Tokens, NEW k \in Tokens, Live(j)', Live(k)', family'[j] = family'[k]
             PROVE  j = k
  BY DEF OneLive
<1>1. CASE Live(j) /\ family'[j] = family[j] /\ Live(k) /\ family'[k] = family[k]
  BY <1>1 DEF Uncrossed, OneLive
<1>2. CASE Issued(j) /\ Issued(k)
  <2>1. PICK t, f : t \in Tabs /\ IssueIn(t, j, f)
    BY <1>2 DEF Issued
  <2>2. row'[k] = "live" /\ row[k] = "none"
    BY <1>2, IssuedFamily DEF Issued
  <2> QED
    BY <2>1, <2>2 DEF IssueIn, Ranges
<1>3. ~ (Issued(j) /\ Live(k)) /\ ~ (Live(j) /\ Issued(k))
  BY IssuedAlone
<1> QED
  BY <1>1, <1>2, <1>3, LiveComes

\* Nothing is issued into the family of a token that a refresh carries past
\* its check, but by that refresh.
LEMMA CarriedFamily ==
    ASSUME Ranges, Carried, Named, LapsedIssued, Uncrossed, [Next]_vars,
           NEW u \in Tabs, Kept(u), Checked(u)', NEW k \in Tokens, Issued(k)
    PROVE  family'[k] # family'[token'[u]]
<1>1. /\ token'[u] \in Tokens /\ row[token'[u]] # "none"
      /\ family'[token'[u]] = family[token[u]] /\ token'[u] = token[u]
  BY IssuedStays DEF Kept, Carried
<1>2. CASE family'[k] = k
  BY <1>1, <1>2 DEF Named, Issued
<1>3. ASSUME NEW t \in Tabs, pc[t] = "issue", pc'[t] = "answer"
      PROVE  FALSE
  <2>1. t = u
    BY <1>3 DEF Uncrossed, Alone, Kept, Checked
  <2> QED
    BY <1>3, <2>1 DEF Checked
<1> QED
  BY <1>2, <1>3, IssuedFamily

\* The token found to work is the last of its family, and stays it.
LEMMA LastLiveStep ==
    Ranges /\ Carried /\ Named /\ LapsedIssued /\ Uncrossed /\ [Next]_vars => LastLive'
<1> SUFFICES ASSUME Ranges, Carried, Named, LapsedIssued, Uncrossed, [Next]_vars,
                    NEW t \in Tabs, NEW k \in Tokens,
                    pc'[t] = "rotate", Live(k)', family'[k] = family'[token'[t]]
             PROVE  k = token'[t]
  BY DEF LastLive
<1>1. Checked(t)'
  BY DEF Checked
<1>2. CASE Kept(t)
  <2>1. ~ Issued(k)
    BY <1>1, <1>2, CarriedFamily
  <2>2. Live(k) /\ family'[k] = family[k]
    BY <2>1, LiveComes
  <2>3. pc[t] = "rotate" /\ token'[t] = token[t]
    BY <1>2 DEF Kept, Rotate, Goto, Ranges
  <2>4. family'[token[t]] = family[token[t]]
    BY <1>2, IssuedStays DEF Kept, Carried
  <2> QED
    BY <2>2, <2>3, <2>4 DEF Uncrossed, LastLive
<1>3. CASE Passes(t)
  <2>1. UNCHANGED <<row, family>> /\ token[t] \in Tokens /\ Live(token[t]) /\ token'[t] = token[t]
    BY <1>3 DEF Passes, Find, rows
  <2> QED
    BY <2>1 DEF Uncrossed, OneLive, Live
<1> QED
  BY <1>1, <1>2, <1>3, CheckedComes

\* The rotation leaves none, and only the same refresh issues the next.
LEMMA NoneLiveStep ==
    Ranges /\ Carried /\ Named /\ LapsedIssued /\ Uncrossed /\ [Next]_vars => NoneLive'
<1> SUFFICES ASSUME Ranges, Carried, Named, LapsedIssued, Uncrossed, [Next]_vars,
                    NEW t \in Tabs, NEW k \in Tokens,
                    pc'[t] = "issue", Live(k)', family'[k] = family'[token'[t]]
             PROVE  FALSE
  BY DEF NoneLive
<1>1. Checked(t)' /\ Kept(t)
  BY CheckedComes DEF Checked, Passes
<1>2. ~ Issued(k)
  BY <1>1, CarriedFamily
<1>3. Live(k) /\ family'[k] = family[k]
  BY <1>2, LiveComes
<1>4. token'[t] = token[t] /\ family'[token[t]] = family[token[t]]
  BY <1>1, IssuedStays DEF Kept, Carried
<1>5. CASE pc[t] = "issue"
  BY <1>3, <1>4, <1>5 DEF Uncrossed, NoneLive
<1>6. CASE Rotate(t)
  <2>1. k = token[t]
    BY <1>3, <1>4, <1>6 DEF Uncrossed, LastLive, Rotate
  <2> QED
    BY <1>6, <2>1 DEF Rotate, Live, Ranges
<1> QED
  BY <1>1, <1>5, <1>6 DEF Kept

\* The invariant is inductive.
THEOREM Invariant == Spec => []IInv
<1>1. Init => IInv
  BY InitInvariant
<1>2. IInv /\ [Next]_vars => IInv'
  <2> SUFFICES ASSUME IInv, [Next]_vars PROVE IInv'
    OBVIOUS
  <2>1. Ranges /\ Histories /\ Carried /\ Named /\ LapsedIssued
    BY TypeParts DEF IInv
  <2>2. TypeOK'
    <3>1. Ranges' /\ Histories'
      BY <2>1, RangesStep, HistoriesStep
    <3> QED
      BY <3>1 DEF TypeOK, Ranges, Histories
  <2>3. Carried' /\ Named' /\ LapsedIssued'
    BY <2>1, CarriedStep, NamedStep, LapsedStep
  <2>4. ASSUME ~ crossed' PROVE (Alone /\ OneLive /\ LastLive /\ NoneLive)'
    <3>1. Uncrossed
      BY <2>1, <2>4, CrossedStep DEF IInv, Uncrossed
    <3> QED
      BY <2>1, <2>4, <3>1, AloneStep, OneLiveStep, LastLiveStep, NoneLiveStep DEF Uncrossed
  <2> QED
    BY <2>2, <2>3, <2>4 DEF IInv
<1> QED
  BY <1>1, <1>2, PTL DEF Spec

\* Every variable keeps its type: rows, requests and the cookie stay what the
\* statements of AuthService and the browser can make them.
THEOREM TypeCorrect == Spec => []TypeOK
<1>1. IInv => TypeOK
  BY DEF IInv
<1> QED
  BY <1>1, Invariant, PTL

\* However many tabs refresh, log in and out, fail and lose answers: until two
\* refreshes cross, a family has one token that works, and none while the next
\* one is about to be inserted.
THEOREM FamilyHasOne == Spec => []OneUsable
<1>1. IInv => OneUsable
  BY DEF IInv, OneUsable, OneLive, NoneLive
<1> QED
  BY <1>1, Invariant, PTL

\* An ended family stays ended: reuse, logout and a new password are final for
\* every refresh that is not past its check, crossed or not.
THEOREM EndIsFinal == Spec => FamilyEnds
<1>1. IInv /\ [Next]_vars
          => [\A f \in Tokens : row[f] # "none" /\ Ended(f) => Ended(f)']_vars
  <2> SUFFICES ASSUME IInv, [Next]_vars, NEW f \in Tokens, row[f] # "none", Ended(f)
               PROVE  Ended(f)'
    OBVIOUS
  <2>1. Ranges /\ Carried /\ Named /\ LapsedIssued
    BY TypeParts DEF IInv
  <2>2. ASSUME NEW k \in Tokens, Live(k)', family'[k] = f PROVE FALSE
    <3>1. CASE Live(k) /\ family'[k] = family[k]
      BY <2>2, <3>1 DEF Ended, Member, Live
    <3>2. CASE Issued(k)
      <4>1. CASE family'[k] = k
        BY <2>2, <3>2, <4>1 DEF Issued
      <4>2. ASSUME NEW t \in Tabs, pc[t] = "issue", family'[k] = family[token[t]] PROVE FALSE
        BY <2>2, <4>2 DEF Ended, Checked
      <4> QED
        BY <2>1, <3>2, <4>1, <4>2, IssuedFamily
    <3> QED
      BY <2>1, <2>2, <3>1, <3>2, LiveComes
  <2>3. ASSUME NEW t \in Tabs, Checked(t)', family'[token'[t]] = f PROVE FALSE
    <3>1. CASE Kept(t)
      <4>1. token'[t] = token[t] /\ family'[token[t]] = family[token[t]] /\ Checked(t)
        BY <2>1, <3>1, IssuedStays DEF Kept, Carried
      <4> QED
        BY <2>3, <4>1 DEF Ended
    <3>2. CASE Passes(t)
      <4>1. token'[t] = token[t] /\ family'[token[t]] = family[token[t]]
            /\ token[t] \in Tokens /\ Live(token[t])
        BY <2>1, <3>2, IssuedStays DEF Passes, Live
      <4> QED
        BY <2>3, <4>1 DEF Ended, Member, Live
    <3> QED
      BY <2>1, <2>3, <3>1, <3>2, CheckedComes
  <2> QED
    BY <2>2, <2>3 DEF Ended, Member
<1> QED
  BY <1>1, Invariant, PTL DEF Spec, FamilyEnds

-------------------------------------------------------------------------------
(***************************************************************************)
(* A browser that is left alone                                            *)
(***************************************************************************)

\* The cookie is the one token that works.
CookieIsIt == \A k \in Tokens : Live(k) <=> k = cookie

NothingWorks == \A k \in Tokens : ~ Live(k)

\* What a request without company and without trouble has found and done.
OnItsWay(t) ==
    /\ pc[t] # "burn"
    /\ pc[t] \in {"find", "rotate", "revoke"} => token[t] = cookie /\ CookieIsIt
    /\ pc[t] = "rotate" => token[t] \in Tokens
    /\ pc[t] \in {"issue", "enter", "forget"} => NothingWorks
    /\ pc[t] = "answer" => \A k \in Tokens : Live(k) <=> k = token[t]

\* One request at a time.
OneRequest == \A t, u \in Tabs : Idle(t) \/ Idle(u) \/ t = u

Calm ==
    calm =>
        /\ OneRequest
        /\ (\A t \in Tabs : Idle(t)) => CookieIsIt
        /\ \A t \in Tabs : OnItsWay(t)

\* A step of one tab leaves the others idle: what holds of its request and,
\* when it ends, of the cookie, is the whole of it.
LEMMA CalmFrom ==
    ASSUME Ranges, NEW t \in Tabs, \A u \in Tabs : u = t \/ Idle(u),
           NEW where \in PcNames, pc' = [pc EXCEPT ![t] = where],
           where = "idle" => CookieIsIt',
           OnItsWay(t)'
    PROVE  Calm'
<1>1. \A u \in Tabs : u = t \/ Idle(u)'
  BY DEF Ranges, Idle
<1>2. pc'[t] = where
  BY DEF Ranges
<1>3. \A u \in Tabs : OnItsWay(u)'
  <2> SUFFICES ASSUME NEW u \in Tabs, u # t PROVE OnItsWay(u)'
    OBVIOUS
  <2>1. pc'[u] = "idle"
    BY <1>1 DEF Idle
  <2> QED
    BY <2>1 DEF OnItsWay
<1>4. (\A u \in Tabs : Idle(u)') => CookieIsIt'
  BY <1>2 DEF Idle
<1> QED
  BY <1>1, <1>3, <1>4 DEF Calm, OneRequest

\* Requests that start, without company, from a cookie that is the token that works.
LEMMA CalmSent ==
    ASSUME Ranges, Calm, NEW t \in Tabs, Boot(t) \/ Login(t) \/ Logout(t)
    PROVE  Calm'
<1>1. PICK where \in {"find", "enter", "revoke"}, k \in 0..MaxTokens :
         Send(t, where, k) /\ (where # "enter" => k = cookie)
  BY Bounds DEF Boot, Login, Logout, Ranges, NoToken
<1> SUFFICES ASSUME calm' PROVE Calm'
  BY DEF Calm
<1>2. /\ calm /\ \A u \in Tabs : Idle(u)
      /\ where = "enter" => cookie = NoToken \/ ~ Live(cookie)
  BY <1>1 DEF Send
<1>3. CookieIsIt
  BY <1>2 DEF Calm
<1>4. /\ pc' = [pc EXCEPT ![t] = where] /\ token' = [token EXCEPT ![t] = k]
      /\ row' = row /\ cookie' = cookie
  BY <1>1 DEF Send, rows, browser
<1>5. pc'[t] = where /\ token'[t] = k
  BY <1>4 DEF Ranges
<1>6. CASE where = "enter"
  <2>1. NothingWorks'
    BY <1>2, <1>3, <1>4, <1>6, Bounds DEF CookieIsIt, NothingWorks, Live, NoToken, Tokens
  <2>2. OnItsWay(t)'
    BY <1>5, <1>6, <2>1 DEF OnItsWay
  <2> QED
    BY <1>2, <1>4, <1>6, <2>2, CalmFrom DEF PcNames
<1>7. CASE where # "enter"
  <2>1. CookieIsIt' /\ token'[t] = cookie'
    BY <1>1, <1>3, <1>4, <1>5, <1>7 DEF CookieIsIt, Live
  <2>2. OnItsWay(t)'
    BY <1>1, <1>5, <1>7, <2>1 DEF OnItsWay
  <2> QED
    BY <1>2, <1>4, <1>7, <2>2, CalmFrom DEF PcNames
<1> QED
  BY <1>6, <1>7

\* What is issued when nothing works is the one that works, and is answered.
LEMMA CalmIssued ==
    ASSUME Ranges, NothingWorks, NEW t \in Tabs, \A u \in Tabs : u = t \/ Idle(u),
           NEW k \in Tokens, NEW f, IssueIn(t, k, f)
    PROVE  Calm'
<1>1. /\ row' = [row EXCEPT ![k] = "live"] /\ token' = [token EXCEPT ![t] = k]
      /\ pc' = [pc EXCEPT ![t] = "answer"]
  BY DEF IssueIn
<1>2. \A j \in Tokens : Live(j)' <=> j = k
  BY <1>1 DEF NothingWorks, Live, Ranges
<1>3. token'[t] = k /\ pc'[t] = "answer"
  BY <1>1 DEF Ranges
<1>4. OnItsWay(t)'
  BY <1>2, <1>3 DEF OnItsWay
<1> QED
  BY <1>1, <1>4, CalmFrom DEF PcNames

\* The statements of a refresh.
LEMMA CalmRefresh ==
    ASSUME Ranges, Carried, calm, Calm, NEW t \in Tabs,
           Find(t) \/ Burn(t) \/ Rotate(t) \/ Issue(t)
    PROVE  Calm'
<1>1. \A u \in Tabs : u = t \/ Idle(u)
  BY DEF Calm, OneRequest, Idle, Find, Burn, Rotate, Issue
<1>2. OnItsWay(t)
  BY DEF Calm
<1>3. CASE Find(t)
  <2>1. token[t] = cookie /\ CookieIsIt /\ UNCHANGED <<row, cookie>>
    BY <1>2, <1>3 DEF OnItsWay, Find, rows, browser
  <2>2. PICK where \in {"idle", "rotate"} :
           Goto(t, where) /\ (where = "rotate" => token[t] \in Tokens)
    <3>1. cookie = NoToken \/ (cookie \in Tokens /\ Live(cookie))
      BY <2>1, Bounds DEF CookieIsIt, Ranges, NoToken, Tokens
    <3> QED
      BY <1>3, <2>1, <3>1 DEF Find, Live
  <2>3. /\ pc' = [pc EXCEPT ![t] = where]
        /\ where = "rotate" => token' = token
    BY <2>2 DEF Goto
  <2>4. CookieIsIt'
    BY <2>1 DEF CookieIsIt, Live
  <2>5. OnItsWay(t)'
    <3>1. pc'[t] = where
      BY <2>3 DEF Ranges
    <3> QED
      BY <2>1, <2>2, <2>3, <2>4, <3>1 DEF OnItsWay
  <2> QED
    BY <1>1, <2>3, <2>4, <2>5, CalmFrom DEF PcNames
<1>4. ~ Burn(t)
  BY <1>2 DEF OnItsWay, Burn
<1>5. CASE Rotate(t)
  <2>1. /\ token[t] = cookie /\ CookieIsIt /\ token[t] \in Tokens
        /\ row' = [row EXCEPT ![token[t]] = "rotated"]
        /\ pc' = [pc EXCEPT ![t] = "issue"]
    BY <1>2, <1>5 DEF OnItsWay, Rotate, Goto
  <2>2. NothingWorks'
    BY <2>1 DEF NothingWorks, CookieIsIt, Live, Ranges
  <2>3. pc'[t] = "issue"
    BY <2>1 DEF Ranges
  <2>4. OnItsWay(t)'
    BY <2>2, <2>3 DEF OnItsWay
  <2> QED
    BY <1>1, <2>1, <2>4, CalmFrom DEF PcNames
<1>6. CASE Issue(t)
  <2>1. PICK k \in Tokens : IssueIn(t, k, family[token[t]])
    BY <1>6 DEF Issue
  <2>2. NothingWorks
    BY <1>2, <1>6 DEF OnItsWay, Issue
  <2> QED
    BY <1>1, <2>1, <2>2, CalmIssued
<1> QED
  BY <1>3, <1>4, <1>5, <1>6

\* The statements of a login and of a logout, and the answers.
LEMMA CalmEnds ==
    ASSUME Ranges, calm, Calm, NEW t \in Tabs,
           Enter(t) \/ Answer(t) \/ Revoke(t) \/ Forget(t)
    PROVE  Calm'
<1>1. \A u \in Tabs : u = t \/ Idle(u)
  BY DEF Calm, OneRequest, Idle, Enter, Answer, Revoke, Forget
<1>2. OnItsWay(t)
  BY DEF Calm
<1>3. CASE Enter(t)
  <2>1. PICK k \in Tokens : IssueIn(t, k, k)
    BY <1>3 DEF Enter
  <2>2. NothingWorks
    BY <1>2, <1>3 DEF OnItsWay, Enter
  <2> QED
    BY <1>1, <2>1, <2>2, CalmIssued
<1>4. CASE Answer(t) \/ Forget(t)
  <2>1. pc' = [pc EXCEPT ![t] = "idle"]
    BY <1>4 DEF Answer, Forget, Goto
  <2>2. ASSUME Answer(t) PROVE CookieIsIt'
    BY <1>2, <2>2 DEF OnItsWay, Answer, CookieIsIt, Live, rows
  <2>3. ASSUME Forget(t) PROVE CookieIsIt'
    <3>1. NothingWorks /\ row' = row /\ cookie' = NoToken
      BY <1>2, <2>3 DEF OnItsWay, Forget, rows
    <3>2. \A k \in Tokens : k # NoToken
      BY Bounds DEF Tokens, NoToken
    <3> QED
      BY <3>1, <3>2 DEF CookieIsIt, NothingWorks, Live
  <2>4. OnItsWay(t)'
    <3>1. pc'[t] = "idle"
      BY <2>1 DEF Ranges
    <3> QED
      BY <3>1 DEF OnItsWay
  <2> QED
    BY <1>1, <1>4, <2>1, <2>2, <2>3, <2>4, CalmFrom DEF PcNames
<1>5. CASE Revoke(t)
  <2>1. /\ token[t] = cookie /\ CookieIsIt
        /\ row' = [k \in Tokens |-> IF k = token[t] /\ Live(k) THEN "revoked" ELSE row[k]]
        /\ pc' = [pc EXCEPT ![t] = "forget"]
    BY <1>2, <1>5 DEF OnItsWay, Revoke, Goto
  <2>2. NothingWorks'
    BY <2>1 DEF NothingWorks, CookieIsIt, Live
  <2>3. pc'[t] = "forget"
    BY <2>1 DEF Ranges
  <2>4. OnItsWay(t)'
    BY <2>2, <2>3 DEF OnItsWay
  <2> QED
    BY <1>1, <2>1, <2>4, CalmFrom DEF PcNames
<1> QED
  BY <1>3, <1>4, <1>5

\* A reload touches no token, and a trouble ends the calm.
LEMMA CalmStep == Ranges /\ Histories /\ Carried /\ Calm /\ [Next]_vars => Calm'
<1> SUFFICES ASSUME Ranges, Histories, Carried, Calm, [Next]_vars, calm' PROVE Calm'
  BY DEF Calm
<1>1. ASSUME NEW t \in Tabs, Boot(t) \/ Login(t) \/ Logout(t) PROVE Calm'
  BY <1>1, CalmSent
<1>2. ASSUME NEW t \in Tabs, Find(t) \/ Burn(t) \/ Rotate(t) \/ Issue(t) PROVE Calm'
  <2>1. calm
    BY <1>2 DEF Find, Burn, Rotate, Issue, IssueIn, history
  <2> QED
    BY <1>2, <2>1, CalmRefresh
<1>3. ASSUME NEW t \in Tabs, Enter(t) \/ Answer(t) \/ Revoke(t) \/ Forget(t) PROVE Calm'
  <2>1. calm
    BY <1>3 DEF Enter, Answer, Revoke, Forget, IssueIn, history
  <2> QED
    BY <1>3, <2>1, CalmEnds
<1>4. ASSUME NEW t \in Tabs, Dies(t) \/ AnswerLost(t) PROVE Calm'
  BY <1>4 DEF Dies, AnswerLost, Trouble
<1>5. ASSUME NEW k \in Tokens, Lapse(k) \/ Purge(k) PROVE Calm'
  BY <1>5 DEF Lapse, Purge, Trouble
<1>6. CASE RevokeAll
  BY <1>6 DEF RevokeAll, Trouble
<1>7. ASSUME UNCHANGED <<row, cookie, pc, token, calm>> PROVE Calm'
  BY <1>7 DEF Calm, OneRequest, OnItsWay, CookieIsIt, NothingWorks, Live, Idle
<1>8. ASSUME NEW t \in Tabs, Reload(t) PROVE Calm'
  BY <1>7, <1>8 DEF Reload, rows, history
<1>9. CASE UNCHANGED vars
  BY <1>7, <1>9 DEF vars, rows, browser, history
<1> QED
  BY <1>1, <1>2, <1>3, <1>4, <1>5, <1>6, <1>8, <1>9 DEF Next, TabNext

\* For any number of tabs and tokens, an honest client that is left alone holds
\* the one token that works: it is never taken for a thief.  About the cookie
\* of AuthController against the rows of AuthService.
THEOREM HonestClient == Spec => []CookieWorks
<1>1. Init => Calm
  BY DEF Init, Calm, OneRequest, OnItsWay, CookieIsIt, Live, Idle, Tokens, NoToken
<1>2. IInv => Ranges /\ Histories /\ Carried
  BY TypeParts DEF IInv
<1>3. IInv /\ Calm /\ [Next]_vars => Calm'
  BY <1>2, CalmStep
<1>4. IInv /\ Calm => CookieWorks
  <2> SUFFICES ASSUME IInv, CookieIsIt
               PROVE  { k \in Tokens : Live(k) } = {cookie} \ {NoToken}
    BY DEF Calm, CookieWorks
  <2> QED
    BY <1>2, Bounds DEF CookieIsIt, Ranges, Tokens, NoToken
<1> QED
  BY <1>1, <1>3, <1>4, Invariant, PTL DEF Spec

===============================================================================
