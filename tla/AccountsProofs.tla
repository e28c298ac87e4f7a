---------------------------- MODULE AccountsProofs ----------------------------
(***************************************************************************)
(* Proofs about Accounts, for any number of requests in flight and any     *)
(* bounds.                                                                 *)
(*                                                                         *)
(* Every property says what holds until two requests of one kind cross.    *)
(* Its invariant says why: until then there is one request of the kind     *)
(* between its read and its write, and what it read is still so.           *)
(***************************************************************************)
EXTENDS Accounts, TLAPS

\* What a request carries is what the code it comes from has read.
Carried ==
    /\ \A c \in Clients : pc[c] = "reset" => seen[c] \in Resets
    /\ \A c \in Clients : pc[c] = "confirm" => seen[c] \in 1..MaxSecrets

LoggingIn(c) == pc[c] \in {"fail", "clear"}

LoginInv ==
    "login" \notin crossed =>
        /\ failed = wrongs
        /\ lockedUntil # 0 <=> failed >= MaxFailed
        /\ \A c, d \in Clients : LoggingIn(c) /\ LoggingIn(d) => c = d
        /\ \A c \in Clients : LoggingIn(c) => lockedUntil <= now
        /\ \A c \in Clients : pc[c] = "fail" => seen[c] = failed

Enrolling(c) == pc[c] \in {"begin", "confirm"}

TotpInv ==
    "totp" \notin crossed =>
        /\ enabled = (inForce # None)
        /\ inForce # None => secret = inForce
        /\ \A c, d \in Clients : Enrolling(c) /\ Enrolling(d) => c = d
        /\ \A c \in Clients : pc[c] = "begin" => inForce = None
        /\ \A c \in Clients : pc[c] = "confirm" => seen[c] = secret

ResetInv ==
    "reset" \notin crossed =>
        /\ \A c, d \in Clients : pc[c] = "reset" /\ pc[d] = "reset" /\ seen[c] = seen[d] => c = d
        /\ \A k \in Resets : uses[k] <= 1
        /\ \A k \in Resets : reset[k] \in {"none", "open"} => uses[k] = 0
        /\ \A c \in Clients : pc[c] = "reset" => uses[seen[c]] = 0

\* What TypeOK says of the two-factor flag, which is Boolean, and of the rest.
Flag == enabled \in BOOLEAN
Ranges ==
    /\ account \in {"none", "unverified", "verified"}
    /\ failed \in Nat
    /\ lockedUntil \in 0..(MaxTime + LockTicks)
    /\ secret \in 0..MaxSecrets
    /\ reset \in [Resets -> {"none", "open", "used", "lapsed"}]
    /\ now \in 0..MaxTime
    /\ pc \in [Clients -> PcNames]
    /\ seen \in [Clients -> Nat]
    /\ wrongs \in Nat
    /\ refused \in Nat
    /\ inForce \in 0..MaxSecrets
    /\ uses \in [Resets -> Nat]
    /\ crossed \subseteq {"login", "totp", "reset"}

IInv == Flag /\ Ranges /\ Carried /\ LoginInv /\ TotpInv /\ ResetInv

\* Flag and Ranges together are TypeOK.
LEMMA TypeParts == TypeOK <=> Flag /\ Ranges
BY DEF TypeOK, Flag, Ranges

\* The bounds are numbers.
LEMMA Bounds ==
    /\ MaxFailed \in Nat /\ MaxFailed > 0
    /\ LockTicks \in Nat /\ LockTicks > 0
    /\ MaxTime \in Nat /\ MaxSecrets \in Nat /\ MaxResets \in Nat
BY ConstantsAssumption

\* No user, no request.
LEMMA InitInvariant == Init => IInv
<1> SUFFICES ASSUME Init PROVE IInv
  OBVIOUS
<1>1. Flag
  BY DEF Init, Flag
<1>2. Ranges
  BY Bounds DEF Init, Ranges, PcNames, None, Resets
<1>3. Carried /\ LoginInv /\ ResetInv
  BY Bounds DEF Init, Carried, LoginInv, ResetInv, LoggingIn, Resets
<1>4. TotpInv
  BY DEF Init, TotpInv, Enrolling, None
<1> QED
  BY <1>1, <1>2, <1>3, <1>4 DEF IInv

\* Only enrolments write the flag.
LEMMA FlagStep == Flag /\ [Next]_vars => Flag'
<1> SUFFICES ASSUME Flag, [Next]_vars PROVE Flag'
  OBVIOUS
<1> USE DEF Flag, row, history, request
<1>1. ASSUME NEW c \in Clients, ClientNext(c) PROVE Flag'
  BY <1>1 DEF ClientNext, Register, Create, Login, RefuseCode, LoginFail, LoginClear, BeginTotp, StoreSecret,
              ConfirmTotp, EnableTotp, ResetPassword, SetPassword, Dies, Reads
<1>2. ASSUME NEW k \in Resets, ForgotPassword(k) \/ Lapse(k) PROVE Flag'
  BY <1>2 DEF ForgotPassword, Lapse
<1>3. CASE VerifyEmail \/ Tick \/ UNCHANGED vars
  BY <1>3 DEF VerifyEmail, Tick, vars
<1> QED
  BY <1>1, <1>2, <1>3 DEF Next

\* Crossed is crossed, but for logins, of which the last to write forgets it.
LEMMA CrossedGrows == [Next]_vars => crossed \ {"login"} \subseteq crossed'
BY DEF Next, ClientNext, Register, Create, Login, RefuseCode, LoginFail, LoginClear, BeginTotp, StoreSecret,
       ConfirmTotp, EnableTotp, ResetPassword, SetPassword, Dies, ForgotPassword, Lapse,
       VerifyEmail, Tick, CrossesIf, CountsAfresh, history, vars

\* No statement leaves the ranges.
LEMMA RangesStep == Ranges /\ Carried /\ [Next]_vars => Ranges'
<1> SUFFICES ASSUME Ranges, Carried, [Next]_vars PROVE Ranges'
  OBVIOUS
<1> USE Bounds DEF Ranges, PcNames, Resets, None, row, request, history, CrossesIf, CountsAfresh
<1>1. ASSUME NEW c \in Clients, NEW write \in PcNames, NEW value \in Nat, Reads(c, write, value),
             crossed' \subseteq {"login", "totp", "reset"}
      PROVE  Ranges'
  BY <1>1 DEF Reads
<1>2. ASSUME NEW c \in Clients, Register(c) \/ Login(c) \/ BeginTotp(c) \/ ConfirmTotp(c)
                                \/ \E k \in Resets : ResetPassword(c, k)
      PROVE  Ranges'
  <2>1. PICK write \in PcNames, value \in Nat : Reads(c, write, value)
    BY <1>2 DEF Register, Login, BeginTotp, ConfirmTotp, ResetPassword
  <2>2. crossed' \subseteq {"login", "totp", "reset"}
    BY <1>2 DEF Register, Login, BeginTotp, ConfirmTotp, ResetPassword
  <2> QED
    BY <1>1, <2>1, <2>2
<1>3. ASSUME NEW c \in Clients, Create(c) PROVE Ranges'
  BY <1>3 DEF Create, Writes
<1>4. ASSUME NEW c \in Clients, LoginFail(c) PROVE Ranges'
  BY <1>4 DEF LoginFail, Writes
<1>5. ASSUME NEW c \in Clients, LoginClear(c) PROVE Ranges'
  BY <1>5 DEF LoginClear, Writes
<1>6. ASSUME NEW c \in Clients, StoreSecret(c) PROVE Ranges'
  BY <1>6 DEF StoreSecret, Writes
<1>7. ASSUME NEW c \in Clients, EnableTotp(c) PROVE Ranges'
  BY <1>7 DEF EnableTotp, Writes, Carried
<1>8. ASSUME NEW c \in Clients, SetPassword(c) PROVE Ranges'
  <2>1. reset' \in [Resets -> {"none", "open", "used", "lapsed"}]
    BY <1>8 DEF SetPassword
  <2>2. seen[c] \in Resets /\ uses[seen[c]] \in Nat
    BY <1>8 DEF SetPassword, Writes, Carried
  <2>3. uses' \in [Resets -> Nat]
    BY <1>8, <2>2 DEF SetPassword
  <2> QED
    BY <1>8, <2>1, <2>3 DEF SetPassword, Writes
<1>9. ASSUME NEW c \in Clients, Dies(c) PROVE Ranges'
  BY <1>9 DEF Dies
<1>10. ASSUME NEW k \in Resets, ForgotPassword(k) \/ Lapse(k) PROVE Ranges'
  BY <1>10 DEF ForgotPassword, Lapse
<1>11. CASE VerifyEmail
  BY <1>11 DEF VerifyEmail
<1>12. CASE Tick
  BY <1>12 DEF Tick
<1>13. CASE UNCHANGED vars
  BY <1>13 DEF vars
<1>14. ASSUME NEW c \in Clients, RefuseCode(c) PROVE Ranges'
  BY <1>14 DEF RefuseCode
<1> QED
  BY <1>2, <1>3, <1>4, <1>5, <1>6, <1>7, <1>8, <1>9, <1>10, <1>11, <1>12, <1>13, <1>14
     DEF Next, ClientNext

\* A reset carries a token, a confirmation the secret it has read.
LEMMA CarriedStep == Ranges /\ Carried /\ [Next]_vars => Carried'
<1> SUFFICES ASSUME Ranges, Carried, [Next]_vars PROVE Carried'
  OBVIOUS
<1> USE Bounds DEF Ranges, Carried, Resets, None, row, request, history
<1>1. ASSUME NEW c \in Clients, Register(c) \/ Login(c) \/ BeginTotp(c) PROVE Carried'
  BY <1>1 DEF Register, Login, BeginTotp, Reads
<1>2. ASSUME NEW c \in Clients, ConfirmTotp(c) PROVE Carried'
  BY <1>2 DEF ConfirmTotp, Reads
<1>3. ASSUME NEW c \in Clients, NEW k \in Resets, ResetPassword(c, k) PROVE Carried'
  BY <1>3 DEF ResetPassword, Reads
<1>4. ASSUME NEW c \in Clients, NEW write, Writes(c, write) PROVE Carried'
  BY <1>4 DEF Writes
<1>5. ASSUME NEW c \in Clients, Dies(c) PROVE Carried'
  BY <1>5 DEF Dies
<1>6. ASSUME UNCHANGED request PROVE Carried'
  BY <1>6
<1>7. ASSUME NEW c \in Clients, Create(c) \/ LoginFail(c) \/ LoginClear(c) \/ StoreSecret(c)
                                \/ EnableTotp(c) \/ SetPassword(c)
      PROVE  Carried'
  BY <1>4, <1>7 DEF Create, LoginFail, LoginClear, StoreSecret, EnableTotp, SetPassword
<1>8. ASSUME NEW k \in Resets, ForgotPassword(k) \/ Lapse(k) PROVE Carried'
  BY <1>6, <1>8 DEF ForgotPassword, Lapse
<1>9. CASE VerifyEmail \/ Tick \/ (\E c \in Clients : RefuseCode(c)) \/ UNCHANGED vars
  BY <1>6, <1>9 DEF VerifyEmail, Tick, RefuseCode, vars
<1> QED
  BY <1>1, <1>2, <1>3, <1>5, <1>7, <1>8, <1>9 DEF Next, ClientNext

-------------------------------------------------------------------------------

\* Where the counter starts over with nobody logging in, all is well again.
LEMMA AfreshInv ==
  ASSUME NEW c \in Clients, CountsAfresh(c), failed' = 0, lockedUntil' = 0,
         \A d \in Clients : pc'[d] \in {"fail", "clear"} => d # c /\ pc[d] = pc'[d]
  PROVE  LoginInv'
<1> SUFFICES ASSUME "login" \notin crossed' PROVE LoginInv'
  BY DEF LoginInv
<1>1. \A d \in Clients \ {c} : pc[d] \notin {"fail", "clear"}
  BY DEF CountsAfresh
<1>2. \A d \in Clients : ~ LoggingIn(d)' /\ pc'[d] # "fail"
  BY <1>1 DEF LoggingIn
<1>3. failed' = wrongs' /\ ~ lockedUntil' # 0 /\ ~ failed' >= MaxFailed
  BY Bounds DEF CountsAfresh
<1> QED
  BY <1>2, <1>3 DEF LoginInv

\* The login that is under way is the only one, and has read what it replaces.
LEMMA LoginStep == Ranges /\ Carried /\ LoginInv /\ [Next]_vars => LoginInv'
<1> SUFFICES ASSUME Ranges, Carried, LoginInv, [Next]_vars, "login" \notin crossed' PROVE LoginInv'
  BY DEF LoginInv
<1>1. ASSUME NEW c \in Clients, LoginClear(c) \/ SetPassword(c) PROVE LoginInv'
  <2>1. CountsAfresh(c) /\ failed' = 0 /\ lockedUntil' = 0
    BY <1>1 DEF LoginClear, SetPassword
  <2>2. \A d \in Clients : pc'[d] \in {"fail", "clear"} => d # c /\ pc[d] = pc'[d]
    BY <1>1 DEF LoginClear, SetPassword, Writes, Ranges
  <2> QED
    BY <2>1, <2>2, AfreshInv
<1>2. ASSUME "login" \notin crossed, ~ \E c \in Clients : LoginClear(c) \/ SetPassword(c) PROVE LoginInv'
  <2> USE <1>2, Bounds DEF Ranges, LoginInv, LoggingIn, row, request, history, CrossesIf, Between
  <2>2. ASSUME NEW c \in Clients, NEW write, NEW value, Reads(c, write, value), ~ write \in {"fail", "clear"}
        PROVE  LoginInv'
    BY <2>2 DEF Reads
  <2>3. ASSUME NEW c \in Clients, Register(c) \/ BeginTotp(c) \/ ConfirmTotp(c)
                                  \/ \E k \in Resets : ResetPassword(c, k)
        PROVE  LoginInv'
    BY <2>2, <2>3 DEF Register, BeginTotp, ConfirmTotp, ResetPassword
  <2>4. ASSUME NEW c \in Clients, Login(c) PROVE LoginInv'
    BY <2>4 DEF Login, Reads, Locked
  <2>5. ASSUME NEW c \in Clients, LoginFail(c) PROVE LoginInv'
    BY <2>5 DEF LoginFail, Writes
  <2>6. ASSUME NEW c \in Clients, RefuseCode(c) PROVE LoginInv'
    BY <2>6 DEF RefuseCode
  <2>8. ASSUME NEW c \in Clients, Create(c) \/ StoreSecret(c) \/ EnableTotp(c) PROVE LoginInv'
    BY <2>8 DEF Create, StoreSecret, EnableTotp, Writes
  <2>9. ASSUME NEW c \in Clients, Dies(c) PROVE LoginInv'
    BY <2>9 DEF Dies
  <2>10. ASSUME NEW k \in Resets, ForgotPassword(k) \/ Lapse(k) PROVE LoginInv'
    BY <2>10 DEF ForgotPassword, Lapse
  <2>11. CASE VerifyEmail \/ Tick \/ UNCHANGED vars
    BY <2>11 DEF VerifyEmail, Tick, vars
  <2> QED
    BY <2>3, <2>4, <2>5, <2>6, <2>8, <2>9, <2>10, <2>11 DEF Next, ClientNext
<1>3. ASSUME "login" \in crossed, ~ \E c \in Clients : LoginClear(c) \/ SetPassword(c) PROVE FALSE
  BY <1>3 DEF Next, ClientNext, Register, Create, Login, RefuseCode, LoginFail, BeginTotp, StoreSecret,
     ConfirmTotp, EnableTotp, ResetPassword, Dies, ForgotPassword, Lapse, VerifyEmail, Tick, CrossesIf,
     history, vars
<1> QED
  BY <1>1, <1>2, <1>3

\* The enrolment that is under way is the only one, and knows the secret.
LEMMA TotpStep == Ranges /\ Carried /\ TotpInv /\ [Next]_vars => TotpInv'
<1> SUFFICES ASSUME Ranges, Carried, TotpInv, [Next]_vars, "totp" \notin crossed' PROVE TotpInv'
  BY DEF TotpInv
<1>1. "totp" \notin crossed
  BY CrossedGrows
<1> USE <1>1, Bounds DEF Ranges, TotpInv, Enrolling, None, row, request, history, CrossesIf, CountsAfresh, Between
<1>2. ASSUME NEW c \in Clients, NEW write, NEW value, Reads(c, write, value), ~ write \in {"begin", "confirm"}
      PROVE  TotpInv'
  BY <1>2 DEF Reads
<1>3. ASSUME NEW c \in Clients, Register(c) \/ Login(c) \/ \E k \in Resets : ResetPassword(c, k)
      PROVE  TotpInv'
  BY <1>2, <1>3 DEF Register, Login, ResetPassword
<1>4. ASSUME NEW c \in Clients, BeginTotp(c) PROVE TotpInv'
  BY <1>4 DEF BeginTotp, Reads
<1>5. ASSUME NEW c \in Clients, ConfirmTotp(c) PROVE TotpInv'
  BY <1>5 DEF ConfirmTotp, Reads
<1>6. ASSUME NEW c \in Clients, StoreSecret(c) PROVE TotpInv'
  BY <1>6 DEF StoreSecret, Writes
<1>7. ASSUME NEW c \in Clients, EnableTotp(c) PROVE TotpInv'
  <2>1. seen[c] = secret /\ seen[c] \in 1..MaxSecrets /\ Enrolling(c)
    BY <1>7 DEF EnableTotp, Writes, Carried
  <2>2. \A d \in Clients : ~ (Enrolling(d))'
    BY <1>7, <2>1 DEF EnableTotp, Writes, PcNames
  <2>3. enabled' /\ inForce' = secret /\ secret' = secret /\ secret # 0
    BY <1>7, <2>1 DEF EnableTotp
  <2> QED
    BY <2>2, <2>3
<1>8. ASSUME NEW c \in Clients, Create(c) \/ LoginFail(c) \/ LoginClear(c) \/ SetPassword(c) PROVE TotpInv'
  BY <1>8 DEF Create, LoginFail, LoginClear, SetPassword, Writes
<1>9. ASSUME NEW c \in Clients, Dies(c) PROVE TotpInv'
  BY <1>9 DEF Dies
<1>10. ASSUME NEW k \in Resets, ForgotPassword(k) \/ Lapse(k) PROVE TotpInv'
  BY <1>10 DEF ForgotPassword, Lapse
<1>11. CASE VerifyEmail \/ Tick \/ (\E c \in Clients : RefuseCode(c)) \/ UNCHANGED vars
  BY <1>11 DEF VerifyEmail, Tick, RefuseCode, vars
<1> QED
  BY <1>3, <1>4, <1>5, <1>6, <1>7, <1>8, <1>9, <1>10, <1>11 DEF Next, ClientNext

\* The reset that is under way with a token is the only one with it, and the
\* token has set no password yet.
LEMMA ResetStep == Ranges /\ Carried /\ ResetInv /\ [Next]_vars => ResetInv'
<1> SUFFICES ASSUME Ranges, Carried, ResetInv, [Next]_vars, "reset" \notin crossed' PROVE ResetInv'
  BY DEF ResetInv
<1>1. "reset" \notin crossed
  BY CrossedGrows
<1> USE <1>1, Bounds DEF Ranges, Carried, ResetInv, Resets, row, request, history, CrossesIf, CountsAfresh
<1>2. ASSUME NEW c \in Clients, NEW write, NEW value, Reads(c, write, value), write # "reset"
      PROVE  ResetInv'
  BY <1>2 DEF Reads
<1>3. ASSUME NEW c \in Clients, Register(c) \/ Login(c) \/ BeginTotp(c) \/ ConfirmTotp(c) PROVE ResetInv'
  BY <1>2, <1>3 DEF Register, Login, BeginTotp, ConfirmTotp
<1>4. ASSUME NEW c \in Clients, NEW k \in Resets, ResetPassword(c, k) PROVE ResetInv'
  BY <1>4 DEF ResetPassword, Reads
<1>5. ASSUME NEW c \in Clients, SetPassword(c) PROVE ResetInv'
  <2>1. pc[c] = "reset" /\ seen[c] \in Resets /\ uses[seen[c]] = 0
    BY <1>5 DEF SetPassword, Writes
  <2>2. /\ \A k \in Resets : uses'[k] = IF k = seen[c] THEN 1 ELSE uses[k]
        /\ reset'[seen[c]] = "used"
        /\ \A k \in Resets : k # seen[c] => reset'[k] = reset[k]
    BY <1>5, <2>1 DEF SetPassword
  <2>3. \A d \in Clients : pc'[d] = "reset" => d # c /\ pc[d] = "reset" /\ seen'[d] = seen[d]
    BY <1>5 DEF SetPassword, Writes
  <2>4. \A d \in Clients : pc'[d] = "reset" => seen[d] # seen[c] /\ seen[d] \in Resets
    BY <2>1, <2>3
  <2>5. \A d, e \in Clients : pc'[d] = "reset" /\ pc'[e] = "reset" /\ seen'[d] = seen'[e] => d = e
    BY <2>3
  <2>6. ASSUME NEW k \in Resets
        PROVE  uses'[k] <= 1 /\ (reset'[k] \in {"none", "open"} => uses'[k] = 0)
    <3>1. CASE k = seen[c]
      BY <2>2, <3>1
    <3>2. CASE k # seen[c]
      BY <2>2, <3>2
    <3> QED
      BY <3>1, <3>2
  <2>7. \A d \in Clients : pc'[d] = "reset" => uses'[seen'[d]] = 0
    BY <2>2, <2>3, <2>4
  <2> QED
    BY <2>5, <2>6, <2>7
<1>6. ASSUME NEW c \in Clients, Create(c) \/ LoginFail(c) \/ LoginClear(c) \/ StoreSecret(c) \/ EnableTotp(c)
      PROVE  ResetInv'
  <2>1. PICK write \in PcNames : write # "reset" /\ Writes(c, write) /\ UNCHANGED <<reset, uses>>
    BY <1>6 DEF Create, LoginFail, LoginClear, StoreSecret, EnableTotp, PcNames
  <2>2. \A d \in Clients : pc'[d] = "reset" => pc[d] = "reset" /\ seen'[d] = seen[d]
    BY <2>1 DEF Writes
  <2> QED
    BY <2>1, <2>2
<1>7. ASSUME NEW c \in Clients, Dies(c) PROVE ResetInv'
  BY <1>7 DEF Dies
<1>8. ASSUME NEW k \in Resets, ForgotPassword(k) \/ Lapse(k) PROVE ResetInv'
  BY <1>8 DEF ForgotPassword, Lapse
<1>9. CASE VerifyEmail \/ Tick \/ (\E c \in Clients : RefuseCode(c)) \/ UNCHANGED vars
  BY <1>9 DEF VerifyEmail, Tick, RefuseCode, vars
<1> QED
  BY <1>3, <1>4, <1>5, <1>6, <1>7, <1>8, <1>9 DEF Next, ClientNext

-------------------------------------------------------------------------------

\* The invariant is inductive.
THEOREM Invariant == Spec => []IInv
<1>1. Init => IInv
  BY InitInvariant
<1>2. IInv /\ [Next]_vars => IInv'
  BY FlagStep, RangesStep, CarriedStep, LoginStep, TotpStep, ResetStep DEF IInv
<1> QED
  BY <1>1, <1>2, PTL DEF Spec

\* Every column and every request keeps its type.
THEOREM TypeCorrect == Spec => []TypeOK
<1>1. IInv => TypeOK
  BY TypeParts DEF IInv
<1> QED
  BY <1>1, Invariant, PTL

\* Until logins cross, and again from the next success or reset of one alone, the
\* counter is the number of wrong passwords, wrong codes counting for nothing, and
\* the account is locked from the limit on; whatever the limit is.
THEOREM WrongPasswordsCounted == Spec => []CountsWrongPasswords
<1>1. IInv => CountsWrongPasswords
  BY DEF IInv, LoginInv, CountsWrongPasswords
<1> QED
  BY <1>1, Invariant, PTL

\* Until enrolments cross, two-factor login asks for the secret last confirmed.
THEOREM ConfirmedInForce == Spec => []ConfirmedIsInForce
<1>1. IInv => ConfirmedIsInForce
  BY DEF IInv, TotpInv, Flag, ConfirmedIsInForce
<1> QED
  BY <1>1, Invariant, PTL

\* A reset token that is not used twice at a time sets one password.
THEOREM OneReset == Spec => []ResetOnce
<1>1. IInv => ResetOnce
  BY DEF IInv, ResetInv, ResetOnce
<1> QED
  BY <1>1, Invariant, PTL

\* Unless logins cross, a lock ends by time or by a reset of the password only.
THEOREM LocksHold == Spec => LockHolds
<1>1. IInv /\ [Next]_vars
          => [ Locked /\ "login" \notin crossed =>
                   lockedUntil' = lockedUntil \/ uses' # uses ]_vars
  <2> SUFFICES ASSUME IInv, [Next]_vars, Locked, "login" \notin crossed
               PROVE  lockedUntil' = lockedUntil \/ uses' # uses
    OBVIOUS
  <2>2. \A c \in Clients : ~ LoggingIn(c)
    BY DEF IInv, LoginInv, Locked, Ranges
  <2>3. ASSUME NEW c \in Clients, SetPassword(c) PROVE uses' # uses
    BY <2>3 DEF SetPassword, Writes, IInv, Carried, Ranges
  <2>4. ASSUME NEW c \in Clients, LoginFail(c) \/ LoginClear(c) PROVE FALSE
    BY <2>2, <2>4 DEF LoginFail, LoginClear, Writes, LoggingIn
  <2> QED
    BY <2>3, <2>4 DEF Next, ClientNext, Register, Create, Login, RefuseCode, BeginTotp, StoreSecret,
       ConfirmTotp, EnableTotp, ResetPassword, Dies, Reads, ForgotPassword, Lapse, VerifyEmail, Tick,
       row, vars
<1> QED
  BY <1>1, Invariant, PTL DEF Spec, LockHolds

===============================================================================
