------------------------------- MODULE Accounts -------------------------------
(***************************************************************************)
(* The row of one user: registration, the failed-login counter and its     *)
(* lock, two-factor enrolment and password resets.  AuthService reads the  *)
(* row in one statement and writes it in another, so requests cross.  What *)
(* happens to the user's refresh tokens is in Sessions.                    *)
(*                                                                         *)
(* Passwords and codes are right or wrong as the request chooses; a        *)
(* request the service refuses without a write is no step.                 *)
(***************************************************************************)
EXTENDS Integers, FiniteSets

CONSTANTS
    Clients,      \* requests that may be in flight at once
    MaxFailed,    \* MAX_FAILED_LOGINS
    LockTicks,    \* LOCKOUT_MS, in ticks
    MaxTime,      \* bound on the clock
    MaxWrongs,    \* bound on the wrong passwords, and on the wrong codes, in a row
    MaxSecrets,   \* bound on the TOTP secrets generated
    MaxResets     \* bound on the password reset tokens

ASSUME ConstantsAssumption ==
    /\ IsFiniteSet(Clients)
    /\ MaxFailed \in Nat \ {0}
    /\ LockTicks \in Nat \ {0}
    /\ MaxTime \in Nat
    /\ MaxWrongs \in Nat
    /\ MaxSecrets \in Nat
    /\ MaxResets \in Nat

Resets == 1..MaxResets
None == 0

VARIABLES
    account,       \* the User row: none, unverified or verified
    failed,        \* failedLoginCount
    lockedUntil,   \* a time, 0 for null
    secret,        \* totpSecretEnc, the number of a secret, 0 for null
    enabled,       \* totpEnabled
    reset,         \* PasswordResetToken: none, open, used or lapsed
    now,           \* the clock
    pc,            \* the write a client's request has before it
    seen,          \* what it read: a count, a secret or a reset token
    wrongs,        \* history: wrong passwords since the last success or reset
    refused,       \* history: wrong codes with a right password since then
    inForce,       \* history: the secret of the last confirmation
    uses,          \* history: how often a reset token has set the password
    crossed        \* history: what was read while someone's write was under way;
                   \* logins that crossed are forgotten with the row they wrote

row == <<account, failed, lockedUntil, secret, enabled>>
request == <<pc, seen>>
history == <<wrongs, refused, inForce, uses, crossed>>
vars == <<row, reset, now, request, history>>

PcNames == {"idle", "register", "fail", "clear", "begin", "confirm", "reset"}

TypeOK ==
    /\ account \in {"none", "unverified", "verified"}
    /\ failed \in Nat
    /\ lockedUntil \in 0..(MaxTime + LockTicks)
    /\ secret \in 0..MaxSecrets
    /\ enabled \in BOOLEAN
    /\ reset \in [Resets -> {"none", "open", "used", "lapsed"}]
    /\ now \in 0..MaxTime
    /\ pc \in [Clients -> PcNames]
    /\ seen \in [Clients -> Nat]
    /\ wrongs \in Nat
    /\ refused \in Nat
    /\ inForce \in 0..MaxSecrets
    /\ uses \in [Resets -> Nat]
    /\ crossed \subseteq {"login", "totp", "reset"}

Init ==
    /\ account = "none"
    /\ failed = 0
    /\ lockedUntil = 0
    /\ secret = None
    /\ enabled = FALSE
    /\ reset = [k \in Resets |-> "none"]
    /\ now = 0
    /\ pc = [c \in Clients |-> "idle"]
    /\ seen = [c \in Clients |-> 0]
    /\ wrongs = 0
    /\ refused = 0
    /\ inForce = None
    /\ uses = [k \in Resets |-> 0]
    /\ crossed = {}

There == account # "none"

\* Someone is between the read and the write of these operations.
Between(names) == \E c \in Clients : pc[c] \in names

CrossesIf(condition, name) ==
    crossed' = IF condition THEN crossed \cup {name} ELSE crossed

\* The counter starts over.  Logins under way have read what it was before;
\* without any, nothing is left of those that have crossed.
CountsAfresh(c) ==
    /\ wrongs' = 0
    /\ refused' = 0
    /\ crossed' = IF \E d \in Clients \ {c} : pc[d] \in {"fail", "clear"}
                  THEN crossed \cup {"login"} ELSE crossed \ {"login"}

\* A request reads the row and has a write to make.
Reads(c, write, value) ==
    /\ pc[c] = "idle"
    /\ pc' = [pc EXCEPT ![c] = write]
    /\ seen' = [seen EXCEPT ![c] = value]
    /\ UNCHANGED <<row, reset, now, wrongs, refused, inForce, uses>>

\* It writes, and is done.
Writes(c, write) ==
    /\ pc[c] = write
    /\ pc' = [pc EXCEPT ![c] = "idle"]
    /\ seen' = [seen EXCEPT ![c] = 0]
    /\ UNCHANGED now

-------------------------------------------------------------------------------
(***************************************************************************)
(* register, verifyEmail                                                   *)
(***************************************************************************)

Register(c) ==
    /\ ~There
    /\ Reads(c, "register", 0)
    /\ UNCHANGED crossed

\* The transaction; of two for one email the second breaks the unique index.
Create(c) ==
    /\ Writes(c, "register")
    /\ account' = IF There THEN account ELSE "unverified"
    /\ UNCHANGED <<failed, lockedUntil, secret, enabled, reset, history>>

\* Find by token, then update: nobody else touches these columns.
VerifyEmail ==
    /\ account = "unverified"
    /\ account' = "verified"
    /\ UNCHANGED <<failed, lockedUntil, secret, enabled, reset, now, request, history>>

-------------------------------------------------------------------------------
(***************************************************************************)
(* login                                                                   *)
(***************************************************************************)

Locked == lockedUntil > now

\* Mutant: the lock is not looked at when the password is right.
Login_NoLockCheck(c) ==
    /\ There
    /\ \E write \in {"fail", "clear"} :
          /\ write = "fail" => ~Locked /\ wrongs < MaxWrongs
          /\ Reads(c, write, failed)
    /\ CrossesIf(Between({"fail", "clear"}), "login")

\* A locked account is refused.  Otherwise the password is compared, and with
\* a right one the code, where there is a second factor.
Login(c) ==
    /\ There /\ ~Locked
    /\ \E write \in {"fail", "clear"} :
          /\ write = "fail" => wrongs < MaxWrongs
          /\ Reads(c, write, failed)
    /\ CrossesIf(Between({"fail", "clear"}), "login")

\* A right password with a wrong code is refused without a write; one without a
\* code is asked for it, which is no guess.
RefuseCode(c) ==
    /\ There /\ ~Locked
    /\ pc[c] = "idle"
    /\ enabled
    /\ refused < MaxWrongs
    /\ refused' = refused + 1
    /\ UNCHANGED <<row, reset, now, request, wrongs, inForce, uses, crossed>>

\* Mutant: the count starts over with the failure that locks.
LoginFail_StartsOver(c) ==
    LET n == seen[c] + 1 IN
    /\ Writes(c, "fail")
    /\ failed' = IF n >= MaxFailed THEN 0 ELSE n
    /\ lockedUntil' = IF n >= MaxFailed THEN now + LockTicks ELSE 0
    /\ wrongs' = wrongs + 1
    /\ UNCHANGED <<account, secret, enabled, reset, refused, inForce, uses, crossed>>

\* The count that was read, plus one; a lock below the limit is lifted.
LoginFail(c) ==
    LET n == seen[c] + 1 IN
    /\ Writes(c, "fail")
    /\ failed' = n
    /\ lockedUntil' = IF n >= MaxFailed THEN now + LockTicks ELSE 0
    /\ wrongs' = wrongs + 1
    /\ UNCHANGED <<account, secret, enabled, reset, refused, inForce, uses, crossed>>

LoginClear(c) ==
    /\ Writes(c, "clear")
    /\ failed' = 0
    /\ lockedUntil' = 0
    /\ CountsAfresh(c)
    /\ UNCHANGED <<account, secret, enabled, reset, inForce, uses>>

-------------------------------------------------------------------------------
(***************************************************************************)
(* beginTotpEnrollment, confirmTotpEnrollment                              *)
(***************************************************************************)

\* Mutant: a second enrolment is not refused.
BeginTotp_Again(c) ==
    /\ There
    /\ Reads(c, "begin", 0)
    /\ CrossesIf(Between({"begin", "confirm"}), "totp")

BeginTotp(c) ==
    /\ There /\ ~enabled
    /\ Reads(c, "begin", 0)
    /\ CrossesIf(Between({"begin", "confirm"}), "totp")

\* A new secret, and totpEnabled false whatever it has become meanwhile.
StoreSecret(c) ==
    /\ secret < MaxSecrets
    /\ Writes(c, "begin")
    /\ secret' = secret + 1
    /\ enabled' = FALSE
    /\ UNCHANGED <<account, failed, lockedUntil, reset, history>>

\* The code is checked against the secret as it was read.
ConfirmTotp(c) ==
    /\ There /\ secret # None
    /\ Reads(c, "confirm", secret)
    /\ CrossesIf(Between({"begin", "confirm"}), "totp")

EnableTotp(c) ==
    /\ Writes(c, "confirm")
    /\ enabled' = TRUE
    /\ inForce' = seen[c]
    /\ UNCHANGED <<account, failed, lockedUntil, secret, reset, wrongs, refused, uses, crossed>>

-------------------------------------------------------------------------------
(***************************************************************************)
(* forgotPassword, resetPassword                                           *)
(***************************************************************************)

ForgotPassword(k) ==
    /\ There
    /\ reset[k] = "none"
    /\ reset' = [reset EXCEPT ![k] = "open"]
    /\ UNCHANGED <<row, now, request, history>>

Lapse(k) ==
    /\ reset[k] = "open"
    /\ reset' = [reset EXCEPT ![k] = "lapsed"]
    /\ UNCHANGED <<row, now, request, history>>

\* Two requests with one token cross, and so does a login.
ResetPassword(c, k) ==
    /\ reset[k] = "open"
    /\ Reads(c, "reset", k)
    /\ CrossesIf(\E d \in Clients : pc[d] = "reset" /\ seen[d] = k, "reset")

\* Mutant: the token is not marked as used.
SetPassword_Unmarked(c) ==
    /\ Writes(c, "reset")
    /\ failed' = 0
    /\ lockedUntil' = 0
    /\ uses' = [uses EXCEPT ![seen[c]] = @ + 1]
    /\ CountsAfresh(c)
    /\ UNCHANGED <<account, secret, enabled, reset, inForce>>

\* The transaction, which does not look at the token again.
SetPassword(c) ==
    /\ Writes(c, "reset")
    /\ failed' = 0
    /\ lockedUntil' = 0
    /\ reset' = [reset EXCEPT ![seen[c]] = "used"]
    /\ uses' = [uses EXCEPT ![seen[c]] = @ + 1]
    /\ CountsAfresh(c)
    /\ UNCHANGED <<account, secret, enabled, inForce>>

\* The API fails between the read and the write.
Dies(c) ==
    /\ pc[c] # "idle"
    /\ pc' = [pc EXCEPT ![c] = "idle"]
    /\ seen' = [seen EXCEPT ![c] = 0]
    /\ UNCHANGED <<row, reset, now, history>>

Tick ==
    /\ now < MaxTime
    /\ now' = now + 1
    /\ UNCHANGED <<row, reset, request, history>>

ClientNext(c) ==
    \/ Register(c) \/ Create(c)
    \/ Login(c) \/ RefuseCode(c) \/ LoginFail(c) \/ LoginClear(c)
    \/ BeginTotp(c) \/ StoreSecret(c) \/ ConfirmTotp(c) \/ EnableTotp(c)
    \/ \E k \in Resets : ResetPassword(c, k)
    \/ SetPassword(c)
    \/ Dies(c)

Next ==
    \/ \E c \in Clients : ClientNext(c)
    \/ \E k \in Resets : ForgotPassword(k) \/ Lapse(k)
    \/ VerifyEmail
    \/ Tick

Spec == Init /\ [][Next]_vars

-------------------------------------------------------------------------------
(***************************************************************************)
(* Properties                                                              *)
(***************************************************************************)

\* Until logins cross, and again from the next success or reset on, the
\* counter is the number of wrong passwords since the last of these, over any
\* number of locks, so that after a lock one more wrong password locks again;
\* and from the limit on there is a lock to wait for.  Wrong codes count for
\* nothing.  About login, which writes the count it has read before.
CountsWrongPasswords ==
    "login" \notin crossed =>
        /\ failed = wrongs
        /\ lockedUntil # 0 <=> failed >= MaxFailed

\* Unless logins have crossed since, only time and a reset lift a lock that
\* holds.
LockHolds ==
    [][ Locked /\ "login" \notin crossed =>
            lockedUntil' = lockedUntil \/ uses' # uses ]_vars

\* While enrolments do not cross, two-factor login is on from the first
\* confirmation on, and with the secret that was confirmed: nobody is locked
\* out by a secret he has never seen.  About beginTotpEnrollment, which turns
\* it off, and confirmTotpEnrollment, which turns it on for any secret.
ConfirmedIsInForce ==
    "totp" \notin crossed =>
        /\ enabled <=> inForce # None
        /\ enabled => secret = inForce

\* A reset link sets the password once, unless it is used twice at a time;
\* whatever else is in flight.  About resetPassword, which checks usedAt long
\* before it sets it.
ResetOnce == "reset" \notin crossed => \A k \in Resets : uses[k] <= 1

===============================================================================
