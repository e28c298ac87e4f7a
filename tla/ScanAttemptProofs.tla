--------------------------- MODULE ScanAttemptProofs ---------------------------
(***************************************************************************)
(* Proofs about ScanAttempt, for a site of any size: its types, that no    *)
(* timer outlives the attempt, and that each of its steps is one of the    *)
(* call ScanCall describes, or none.  That the call does end one way or    *)
(* the other needs fairness and stays with TLC.                            *)
(***************************************************************************)
EXTENDS ScanAttempt, TLAPS

\* The scanner reports the pages it has counted; it has ended once its process
\* has; and the worker learns of an exit by the event that clears the timer.
Progressing == emitting => crawled \in 1..MaxPages
ExitEnds == exit # "none" => scanner = "ended"
SeenClears == exit = "seen" => timer # "armed"

IInv == TypeOK /\ Progressing /\ ExitEnds /\ SeenClears /\ NoStrayTimer

LEMMA InitInv == Init => IInv
<1>. SUFFICES ASSUME Init
              PROVE  IInv
  OBVIOUS
<1>1. TypeOK
  <2>1. row \in [status : {"RUNNING", "COMPLETED", "FAILED"}, pages : 0..MaxPages]
    BY ConstantsAssumption DEF Init
  <2>. QED  BY <2>1, ConstantsAssumption DEF Init, TypeOK
<1>2. Progressing /\ ExitEnds /\ SeenClears /\ NoStrayTimer
  BY DEF Init, Progressing, ExitEnds, SeenClears, NoStrayTimer
<1>. QED  BY <1>1, <1>2 DEF IInv

LEMMA StepInv ==
    ASSUME IInv, [Next]_vars
    PROVE  IInv'
<1> USE ConstantsAssumption
    DEF IInv, TypeOK, Progressing, ExitEnds, SeenClears, NoStrayTimer, Settled
<1>1. CASE CountPage BY <1>1 DEF CountPage
<1>2. CASE ReportPage BY <1>2 DEF ReportPage, Reported
<1>3. CASE InlineEnds BY <1>3 DEF InlineEnds, Settle, ClearTimer
<1>4. CASE ChildReplies BY <1>4 DEF ChildReplies
<1>5. CASE ChildCrashes BY <1>5 DEF ChildCrashes
<1>6. CASE Progress BY <1>6 DEF Progress, ProgressLands
<1>7. CASE OnMessage BY <1>7 DEF OnMessage, Settle, ClearTimer
<1>8. CASE OnExit BY <1>8 DEF OnExit, Settle, ClearTimer
<1>9. CASE OnError BY <1>9 DEF OnError, Settle, ClearTimer
<1>10. CASE OnTimeout BY <1>10 DEF OnTimeout, Stop, Settle
<1>11. CASE EndRow BY <1>11 DEF EndRow
<1>12. CASE UNCHANGED vars BY <1>12 DEF vars
<1>. QED
  BY <1>1, <1>2, <1>3, <1>4, <1>5, <1>6, <1>7, <1>8, <1>9, <1>10, <1>11, <1>12
  DEF Next, Scanner

LEMMA Invariant == Spec => []IInv
<1>1. IInv /\ [Next]_vars => IInv'
  BY StepInv
<1>. QED  BY InitInv, <1>1, PTL DEF Spec

\* The attempt's variables keep their types.
THEOREM TypeCorrect == Spec => []TypeOK
<1>1. IInv => TypeOK
  BY DEF IInv
<1>. QED  BY Invariant, <1>1, PTL

\* However exit, reply, error and timeout interleave, the timer is disarmed by
\* the time the attempt's promise has settled.
THEOREM TimerEndsWithAttempt == Spec => []NoStrayTimer
<1>1. IInv => NoStrayTimer
  BY DEF IInv
<1>. QED  BY Invariant, <1>1, PTL

-------------------------------------------------------------------------------

\* A child that has ended without a word stays without one.
LEMMA SilenceLasts ==
    ASSUME IInv, Silent, [Next]_vars
    PROVE  Silent'
<1> USE DEF IInv, TypeOK, ExitEnds, SeenClears, Silent, Settled
<1>1. CASE Scanner
  BY <1>1 DEF Scanner, CountPage, ReportPage, InlineEnds, ChildReplies, ChildCrashes
<1>2. CASE Progress BY <1>2 DEF Progress, ProgressLands
<1>3. CASE OnMessage \/ OnExit \/ OnError \/ OnTimeout
  BY <1>3 DEF OnMessage, OnExit, OnError, OnTimeout
<1>4. CASE EndRow BY <1>4 DEF EndRow
<1>5. CASE UNCHANGED vars BY <1>5 DEF vars
<1>. QED  BY <1>1, <1>2, <1>3, <1>4, <1>5 DEF Next

\* A promise settles once.
LEMMA SettledLasts ==
    ASSUME IInv, promise # "pending", [Next]_vars
    PROVE  promise' = promise
<1>1. CASE Scanner
  BY <1>1 DEF Scanner, CountPage, ReportPage, InlineEnds, ChildReplies, ChildCrashes, Settle
<1>2. CASE Progress BY <1>2 DEF Progress, ProgressLands
<1>3. CASE OnMessage \/ OnExit \/ OnError \/ OnTimeout
  BY <1>3 DEF OnMessage, OnExit, OnError, OnTimeout, Settle
<1>4. CASE EndRow BY <1>4 DEF EndRow
<1>5. CASE UNCHANGED vars BY <1>5 DEF vars
<1>. QED  BY <1>1, <1>2, <1>3, <1>4, <1>5 DEF Next

\* Every step of an attempt, inline or in a child, is a step of the call or
\* leaves what process(job) sees as it is: the call settles once, as what it
\* settles for the first time, and one that hangs hangs for good.
THEOREM AttemptIsCall == Spec => Call!Init /\ [][Call!Next]_Seen
<1>1. Init => Call!Init
  BY DEF Init, Call!Init, Seen, Silent
<1>2. IInv /\ IInv' /\ [Next]_vars => [Call!Next]_Seen
  <2>. SUFFICES ASSUME IInv, IInv', [Next]_vars
                PROVE  [Call!Next]_Seen
    OBVIOUS
  <2>1. CASE Silent
    BY <2>1, SilenceLasts DEF Seen
  <2>2. CASE promise # "pending"
    BY <2>2, SettledLasts DEF Seen, Silent
  <2>3. CASE promise = "pending" /\ ~ Silent
    <3>1. Seen = "scan"
      BY <2>3 DEF Seen
    <3>2. Seen' \in {"scan", "hung"} \cup Settled
      BY DEF Seen, IInv, TypeOK
    <3>. QED  BY <3>1, <3>2 DEF Call!Next, Settled
  <2>. QED  BY <2>1, <2>2, <2>3
<1>. QED  BY Invariant, <1>1, <1>2, PTL DEF Spec

===============================================================================
