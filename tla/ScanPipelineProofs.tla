-------------------------- MODULE ScanPipelineProofs --------------------------
(***************************************************************************)
(* Theorems about ScanPipeline, for any number of scans and workers, any   *)
(* limits and any number of faults of each kind.  The last two sections    *)
(* count: workers that hold a slot of the organization, and runs of a      *)
(* scan.  Each counts a set of workers, so the steps are first reduced to  *)
(* what they add to or remove from it.                                     *)
(***************************************************************************)
EXTENDS ScanPipeline, FiniteSetTheorems, TLAPS

-------------------------------------------------------------------------------
(***************************************************************************)
(* The base invariant: types, and what ties a worker's place in            *)
(* process(job) to its scan and a job's state to BullMQ's counters.        *)
(***************************************************************************)

\* A worker has a scan exactly when it is in process(job), a scan whose request
\* is past the enqueue; it carries a result only while it decides what to save,
\* and how to settle only once that is decided.
WorkerInv ==
    \A w \in Workers :
        /\ pc[w] = "idle" <=> at[w] = NoOne
        /\ at[w] # NoOne => submit[at[w]] \in {"catch", "done", "lost"}
        /\ pc[w] \in {"release", "zero", "settle"} <=> outcome[w] \in {"resolve", "reject"}
        /\ pc[w] \in {"save", "fail", "reread"} => outcome[w] \in {"completed", "failed"}

\* A scan has a row once it was submitted; before it is enqueued it has no job;
\* only an active job is locked; a live job has an attempt left and may stall.
QueueInv ==
    \A s \in Scans :
        /\ submit[s] = "new" <=> status[s] = "none"
        /\ submit[s] = "new" => cancel[s] = "idle"
        /\ submit[s] \in {"new", "enqueue", "tick"} =>
              job[s] = "none" /\ made[s] = 0 /\ stalled[s] = 0
        /\ lock[s] # NoOne => job[s] = "active"
        /\ job[s] \in Live => made[s] < Attempts /\ stalled[s] <= MaxStalled

BaseInv == TypeOK /\ WorkerInv /\ QueueInv

LEMMA BaseInit == Init => BaseInv
  BY ConstantsAssumption DEF Init, BaseInv, TypeOK, WorkerInv, QueueInv, Live,
     PcNames, InTry, Statuses

LEMMA BaseStep == BaseInv /\ [Next]_vars => BaseInv'
<1> SUFFICES ASSUME BaseInv, [Next]_vars PROVE BaseInv'
  OBVIOUS
<1> USE ConstantsAssumption
    DEF BaseInv, TypeOK, WorkerInv, QueueInv, Live, PcNames, InTry, Statuses,
        rowVars, apiVars, queueVars, wkVars, Fault, Goto, EndWith
<1>1. ASSUME NEW s \in Scans, Request(s) PROVE BaseInv'
  <2>1. CASE Create(s)            BY <2>1 DEF Create
  <2>2. CASE Enqueue(s)           BY <2>2 DEF Enqueue, AddJob
  <2>3. CASE EnqueueFails(s)      BY <2>3 DEF EnqueueFails, AddJob, AfterEnqueueError
  <2>4. CASE MarkEnqueueFailed(s) BY <2>4 DEF MarkEnqueueFailed
  <2>5. CASE SubmitDies(s)        BY <2>5 DEF SubmitDies, FaultKinds
  <2>6. CASE CancelRead(s)        BY <2>6 DEF CancelRead
  <2>7. CASE CancelRemove(s)      BY <2>7 DEF CancelRemove
  <2>8. CASE CancelWrite(s)       BY <2>8 DEF CancelWrite
  <2>9. CASE CancelDies(s)        BY <2>9 DEF CancelDies, FaultKinds
  <2> QED BY <1>1, <2>1, <2>2, <2>3, <2>4, <2>5, <2>6, <2>7, <2>8, <2>9 DEF Request
<1>2. ASSUME NEW s \in Scans, Queue(s) PROVE BaseInv'
  <2>1. CASE BackoffElapses(s) BY <2>1 DEF BackoffElapses
  <2>2. CASE LockExpires(s)    BY <2>2 DEF LockExpires, Renewed, FaultKinds
  <2>3. CASE StalledCheck(s)   BY <2>3 DEF StalledCheck, AfterStall
  <2> QED BY <1>2, <2>1, <2>2, <2>3 DEF Queue
<1>3. ASSUME NEW w \in Workers, NEW s \in Scans, Deliver(w, s) PROVE BaseInv'
  BY <1>3 DEF Deliver
<1>4. ASSUME NEW w \in Workers, Process(w) PROVE BaseInv'
  <2>1. CASE Read(w)    BY <2>1 DEF Read
  <2>2. CASE Acquire(w) BY <2>2 DEF Acquire
  <2>3. CASE Backoff(w) BY <2>3 DEF Backoff, Refusal
  <2>4. CASE Start(w)   BY <2>4 DEF Start, SetRunning
  <2>5. CASE Scan(w)    BY <2>5 DEF Scan
  <2>6. CASE Reread(w)  BY <2>6 DEF Reread
  <2>7. CASE Fail(w)    BY <2>7 DEF Fail
  <2>8. CASE Save(w)    BY <2>8 DEF Save, Commit
  <2>9. CASE Catch(w)   BY <2>9 DEF Catch
  <2>10. CASE Release(w) BY <2>10 DEF Release
  <2>11. CASE Zero(w)   BY <2>11 DEF Zero
  <2>12. CASE Settle(w) BY <2>12 DEF Settle, AfterReject
  <2> QED BY <1>4, <2>1, <2>2, <2>3, <2>4, <2>5, <2>6, <2>7, <2>8, <2>9,
             <2>10, <2>11, <2>12 DEF Process
<1>5. ASSUME NEW w \in Workers, WorkerFault(w) PROVE BaseInv'
  <2>1. CASE ChildLost(w)      BY <2>1 DEF ChildLost, FaultKinds
  <2>2. CASE StatementFails(w) BY <2>2 DEF StatementFails, SetRunning, Commit, FaultKinds
  <2>3. CASE LimiterFails(w)   BY <2>3 DEF LimiterFails, FaultKinds
  <2>4. CASE WorkerDies(w)     BY <2>4 DEF WorkerDies, FaultKinds
  <2> QED BY <1>5, <2>1, <2>2, <2>3, <2>4 DEF WorkerFault
<1>6. CASE SlotKeyExpires BY <1>6 DEF SlotKeyExpires, FaultKinds
<1>7. CASE Reap           BY <1>7 DEF Reap, Stuck
<1>8. CASE UNCHANGED vars BY <1>8 DEF vars
<1> QED BY <1>1, <1>2, <1>3, <1>4, <1>5, <1>6, <1>7, <1>8 DEF Next

LEMMA BaseAlways == Spec => []BaseInv
BY BaseInit, BaseStep, PTL DEF Spec

\* Every variable keeps its type in every execution; in particular BullMQ's
\* counters stay within the bounds the code configures.
THEOREM TypeCorrect == Spec => []TypeOK
<1>1. BaseInv => TypeOK BY DEF BaseInv
<1> QED BY <1>1, BaseAlways, PTL

-------------------------------------------------------------------------------
(***************************************************************************)
(* Facts about single steps.                                               *)
(***************************************************************************)

\* Faults are only ever added: what has not happened had not happened before.
LEMMA NoFaultBefore ==
  ASSUME BaseInv, [Next]_vars, NEW kinds \in SUBSET FaultKinds, NoFault(kinds)'
  PROVE  NoFault(kinds)
<1>1. \A k \in FaultKinds : Fault(k) => \A l \in FaultKinds : faults[l] <= faults'[l]
  BY DEF Fault, BaseInv, TypeOK
<1>2. \/ UNCHANGED faults
      \/ \E k \in FaultKinds : Fault(k)
  BY DEF Next, vars, Request, Create, Enqueue, EnqueueFails, MarkEnqueueFailed, SubmitDies,
     CancelRead, CancelRemove, CancelWrite, CancelDies, Queue, BackoffElapses, LockExpires,
     StalledCheck, Deliver, Process, Read, Acquire, Backoff, Start, Scan, Reread, Fail, Save,
     Catch, Release, Zero, Settle, WorkerFault, ChildLost, StatementFails, LimiterFails,
     WorkerDies, SlotKeyExpires, Reap, FaultKinds
<1>3. \A k \in FaultKinds : faults[k] <= faults'[k]
  BY <1>1, <1>2 DEF BaseInv, TypeOK
<1> QED BY <1>3 DEF NoFault, BaseInv, TypeOK

\* Who writes a row, and what: every step leaves the rows alone or is one of
\* these.  Everything else about a step is irrelevant to the row theorems.
RowWrite(s) ==
    \/ Create(s) \/ MarkEnqueueFailed(s) \/ CancelWrite(s)
    \/ \E w \in Workers :
          /\ at[w] = s
          /\ Start(w) \/ Fail(w) \/ Save(w) \/ Catch(w) \/ StatementFails(w)

LEMMA RowsOnlyBy ==
  ASSUME BaseInv, [Next]_vars
  PROVE  UNCHANGED rowVars \/ Reap \/ \E s \in Scans : RowWrite(s)
<1>1. \A w \in Workers : pc[w] # "idle" => at[w] \in Scans
  BY DEF BaseInv, TypeOK, WorkerInv
<1>2. ASSUME NEW w \in Workers, Process(w) \/ WorkerFault(w)
      PROVE  UNCHANGED rowVars \/ \E s \in Scans : RowWrite(s)
  <2>1. CASE Start(w) \/ Fail(w) \/ Save(w) \/ Catch(w)
    BY <2>1, <1>1 DEF RowWrite, Start, Fail, Save, Catch
  <2>2. CASE StatementFails(w)
    BY <2>2, <1>1 DEF RowWrite, StatementFails
  <2>3. CASE \/ Read(w) \/ Acquire(w) \/ Backoff(w) \/ Scan(w) \/ Reread(w)
             \/ Release(w) \/ Zero(w) \/ Settle(w)
             \/ ChildLost(w) \/ LimiterFails(w) \/ WorkerDies(w)
    BY <2>3 DEF Read, Acquire, Backoff, Scan, Reread, Release, Zero, Settle, ChildLost,
       LimiterFails, WorkerDies, rowVars
  <2> QED BY <1>2, <2>1, <2>2, <2>3 DEF Process, WorkerFault
<1>3. ASSUME NEW s \in Scans, Request(s) \/ Queue(s)
      PROVE  UNCHANGED rowVars \/ RowWrite(s)
  BY <1>3 DEF RowWrite, Request, Queue, Enqueue, EnqueueFails, SubmitDies, CancelRead,
     CancelRemove, CancelDies, BackoffElapses, LockExpires, StalledCheck, rowVars
<1>4. ASSUME NEW w \in Workers, NEW s \in Scans, Deliver(w, s) PROVE UNCHANGED rowVars
  BY <1>4 DEF Deliver
<1>5. CASE SlotKeyExpires BY <1>5 DEF SlotKeyExpires
<1>6. CASE UNCHANGED vars BY <1>6 DEF vars
<1> QED BY <1>2, <1>3, <1>4, <1>5, <1>6 DEF Next

-------------------------------------------------------------------------------
(***************************************************************************)
(* A completed scan has its report.                                        *)
(***************************************************************************)

\* The one transaction that completes a scan inserts its report, and no other
\* statement writes COMPLETED or takes a report away.
THEOREM CompletedReported == Spec => []CompletedHasReport
<1>1. Init => CompletedHasReport
  BY DEF Init, CompletedHasReport
<1>2. BaseInv /\ CompletedHasReport /\ [Next]_vars => CompletedHasReport'
  <2> SUFFICES ASSUME BaseInv, CompletedHasReport, [Next]_vars PROVE CompletedHasReport'
    OBVIOUS
  <2> USE DEF BaseInv, TypeOK, CompletedHasReport
  <2>1. CASE UNCHANGED rowVars BY <2>1 DEF rowVars
  <2>2. CASE Reap BY <2>2 DEF Reap
  <2>3. ASSUME NEW s \in Scans, RowWrite(s) PROVE CompletedHasReport'
    BY <2>3 DEF RowWrite, Create, MarkEnqueueFailed, CancelWrite, Start, Fail, Save, Catch,
       StatementFails, SetRunning, Commit, rowVars
  <2> QED BY <2>1, <2>2, <2>3, RowsOnlyBy
<1> QED BY <1>1, <1>2, BaseAlways, PTL DEF Spec

-------------------------------------------------------------------------------
(***************************************************************************)
(* One attempt at a time.                                                  *)
(***************************************************************************)

\* A worker in process(job) holds the lock of its job.
Owning ==
    NoFault({"lock"}) => \A w \in Workers : at[w] # NoOne => lock[at[w]] = w

LEMMA OwningStep == BaseInv /\ Owning /\ [Next]_vars => Owning'
<1> SUFFICES ASSUME BaseInv, Owning, [Next]_vars, NoFault({"lock"})'
             PROVE  \A w \in Workers : at'[w] # NoOne => lock'[at'[w]] = w
  BY DEF Owning
<1>0. /\ NoFault({"lock"})
      /\ \A w \in Workers : at[w] # NoOne => lock[at[w]] = w
  BY NoFaultBefore DEF Owning, FaultKinds
<1> USE ConstantsAssumption, <1>0 DEF BaseInv, TypeOK, WorkerInv, QueueInv, Live
<1>1. ASSUME NEW s \in Scans, LockExpires(s)
      PROVE  \A w \in Workers : at'[w] # NoOne => lock'[at'[w]] = w
  <2>1. at[lock[s]] # s
    BY <1>1 DEF LockExpires, Renewed, Fault, NoFault, FaultKinds
  <2> QED BY <1>1, <2>1 DEF LockExpires, wkVars
<1>2. ASSUME NEW s \in Scans, Request(s) \/ BackoffElapses(s) \/ StalledCheck(s)
      PROVE  UNCHANGED <<at, lock>>
  BY <1>2 DEF Request, Create, Enqueue, EnqueueFails, MarkEnqueueFailed, SubmitDies, CancelRead,
     CancelRemove, CancelWrite, CancelDies, BackoffElapses, StalledCheck, wkVars, queueVars
<1>3. ASSUME NEW w \in Workers, NEW s \in Scans, Deliver(w, s)
      PROVE  \A v \in Workers : at'[v] # NoOne => lock'[at'[v]] = v
  <2>1. \A v \in Workers : at[v] # s
    BY <1>3 DEF Deliver
  <2> QED BY <1>3, <2>1 DEF Deliver
<1>4. ASSUME NEW w \in Workers, Settle(w)
      PROVE  \A v \in Workers : at'[v] # NoOne => lock'[at'[v]] = v
  BY <1>4 DEF Settle
<1>5. ASSUME NEW w \in Workers, WorkerDies(w)
      PROVE  \A v \in Workers : at'[v] # NoOne => lock'[at'[v]] = v
  BY <1>5 DEF WorkerDies, queueVars
<1>6. ASSUME NEW w \in Workers, Process(w) \/ WorkerFault(w), ~ Settle(w), ~ WorkerDies(w)
      PROVE  UNCHANGED <<at, lock>>
  BY <1>6 DEF Process, Read, Acquire, Backoff, Start, Scan, Reread, Fail, Save, Catch, Release,
     Zero, WorkerFault, ChildLost, StatementFails, LimiterFails, queueVars
<1>7. SlotKeyExpires \/ Reap \/ UNCHANGED vars => UNCHANGED <<at, lock>>
  BY DEF SlotKeyExpires, Reap, vars, wkVars, queueVars
<1> QED BY <1>1, <1>2, <1>3, <1>4, <1>5, <1>6, <1>7 DEF Next, Queue

LEMMA OwningAlways == Spec => []Owning
<1>1. Init => Owning BY DEF Init, Owning
<1> QED BY <1>1, OwningStep, BaseAlways, PTL DEF Spec

\* Two workers on one scan would both hold its lock.
THEOREM AttemptsExclusive == Spec => []OneAttemptAtATime
<1>1. BaseInv /\ Owning => OneAttemptAtATime
  BY ConstantsAssumption DEF Owning, OneAttemptAtATime, On
<1> QED BY <1>1, OwningAlways, BaseAlways, PTL

-------------------------------------------------------------------------------
(***************************************************************************)
(* A committed report is final.                                            *)
(***************************************************************************)

\* The statements before which process(job) has decided to run the scan.
Undecided == {"acquire", "start", "scan", "hung", "reread", "save", "fail", "catch"}

\* Without the faults that let a report be committed behind the back of an
\* attempt or of the enqueuing request: a scan with a report is COMPLETED or
\* CANCELLED, no attempt is about to write anything else, and no request is.
Committed ==
    NoFault({"lock", "db", "reply"}) =>
        /\ \A s \in reports : status[s] \in {"COMPLETED", "CANCELLED"}
        /\ \A w \in Workers : pc[w] \in Undecided => at[w] \notin reports
        /\ \A s \in Scans : submit[s] \in {"new", "enqueue", "tick", "catch"} =>
              job[s] = "none" /\ s \notin reports

LEMMA CommittedStep == BaseInv /\ Owning /\ Committed /\ [Next]_vars => Committed'
<1> DEFINE Calm == NoFault({"lock", "db", "reply"})
           Final == \A s \in reports : status[s] \in {"COMPLETED", "CANCELLED"}
           Blind == \A w \in Workers : pc[w] \in Undecided => at[w] \notin reports
           Unsent == \A s \in Scans : submit[s] \in {"new", "enqueue", "tick", "catch"} =>
                        job[s] = "none" /\ s \notin reports
<1> SUFFICES ASSUME BaseInv, Owning, Committed, [Next]_vars, Calm'
             PROVE  (Final /\ Blind /\ Unsent)'
  BY DEF Committed
<1>0. Calm /\ Final /\ Blind /\ Unsent
  BY NoFaultBefore DEF Committed, FaultKinds
<1>a. \A w \in Workers : at[w] # NoOne => lock[at[w]] = w /\ job[at[w]] = "active"
  BY <1>0, ConstantsAssumption DEF Owning, NoFault, BaseInv, QueueInv, TypeOK
<1>b. ~ Fault("db") /\ ~ Fault("reply") /\ ~ Fault("lock")
  BY <1>0 DEF Fault, NoFault, BaseInv, TypeOK, FaultKinds
<1> USE ConstantsAssumption, <1>0, <1>a, <1>b
    DEF BaseInv, TypeOK, WorkerInv, QueueInv, Undecided
<1>1. ASSUME NEW s \in Scans, Request(s) PROVE (Final /\ Blind /\ Unsent)'
  BY <1>1 DEF Request, Create, Enqueue, EnqueueFails, AddJob, AfterEnqueueError,
     MarkEnqueueFailed, SubmitDies, CancelRead, CancelRemove, CancelWrite, CancelDies,
     rowVars, wkVars, queueVars
<1>2. ASSUME NEW s \in Scans, Queue(s) PROVE (Final /\ Blind /\ Unsent)'
  BY <1>2 DEF Queue, BackoffElapses, LockExpires, StalledCheck, rowVars, wkVars, apiVars
<1>3. ASSUME NEW w \in Workers, NEW s \in Scans, Deliver(w, s) PROVE (Final /\ Blind /\ Unsent)'
  BY <1>3 DEF Deliver, rowVars, apiVars
<1>4. ASSUME NEW w \in Workers, Process(w) PROVE (Final /\ Blind /\ Unsent)'
  <2> USE DEF rowVars, apiVars, queueVars, Goto, EndWith
  <2>1. CASE Read(w)   BY <2>1 DEF Read, Skipped
  <2>2. CASE Save(w)   BY <2>2 DEF Save, Commit
  <2>3. CASE Start(w)  BY <2>3 DEF Start, SetRunning
  <2>4. CASE Fail(w)   BY <2>4 DEF Fail
  <2>5. CASE Catch(w)  BY <2>5 DEF Catch
  <2>6. CASE Settle(w) BY <2>6 DEF Settle
  <2>7. CASE Acquire(w) \/ Backoff(w) \/ Scan(w) \/ Reread(w) \/ Release(w) \/ Zero(w)
    BY <2>7 DEF Acquire, Backoff, Scan, Reread, Release, Zero
  <2> QED BY <1>4, <2>1, <2>2, <2>3, <2>4, <2>5, <2>6, <2>7 DEF Process
<1>5. ASSUME NEW w \in Workers, WorkerFault(w) PROVE (Final /\ Blind /\ Unsent)'
  BY <1>5 DEF WorkerFault, ChildLost, StatementFails, LimiterFails, WorkerDies, Goto, EndWith,
     rowVars, apiVars, queueVars
<1>6. CASE SlotKeyExpires BY <1>6 DEF SlotKeyExpires, rowVars, apiVars, queueVars, wkVars
<1>7. CASE Reap BY <1>7 DEF Reap, Stuck, apiVars, queueVars, wkVars
<1>8. CASE UNCHANGED vars BY <1>8 DEF vars, rowVars, apiVars, queueVars, wkVars
<1> QED BY <1>1, <1>2, <1>3, <1>4, <1>5, <1>6, <1>7, <1>8 DEF Next

\* A scan whose report is committed stays COMPLETED, or is cancelled late: no
\* redelivery after a crash, no reaper and no failing request changes that.
THEOREM CommittedIsFinal == Spec => []CommittedStays
<1>1. Init => Committed
  BY DEF Init, Committed, Undecided
<1>2. BaseInv /\ Committed => CommittedStays
  BY DEF Committed, CommittedStays
<1> QED BY <1>1, <1>2, CommittedStep, OwningAlways, BaseAlways, PTL DEF Spec

-------------------------------------------------------------------------------
(***************************************************************************)
(* A completed job leaves a finished scan.                                 *)
(***************************************************************************)

\* A promise that will resolve has found or written a final status, and so had
\* the one whose job is completed.
Finishing ==
    NoFault({"lock"}) =>
        /\ \A w \in Workers : outcome[w] = "resolve" => status[at[w]] \in Ended
        /\ \A s \in Scans : job[s] = "completed" => status[s] \in Ended

LEMMA FinishingStep == BaseInv /\ Owning /\ Finishing /\ [Next]_vars => Finishing'
<1> DEFINE Resolved == \A w \in Workers : outcome[w] = "resolve" => status[at[w]] \in Ended
           Completed == \A s \in Scans : job[s] = "completed" => status[s] \in Ended
<1> SUFFICES ASSUME BaseInv, Owning, Finishing, [Next]_vars, NoFault({"lock"})'
             PROVE  (Resolved /\ Completed)'
  BY DEF Finishing
<1>0. NoFault({"lock"}) /\ Resolved /\ Completed
  BY NoFaultBefore DEF Finishing, FaultKinds
<1>a. \A w \in Workers : at[w] # NoOne => lock[at[w]] = w /\ job[at[w]] = "active"
  BY <1>0, ConstantsAssumption DEF Owning, BaseInv, QueueInv, TypeOK
<1> USE ConstantsAssumption, <1>0, <1>a
    DEF BaseInv, TypeOK, WorkerInv, QueueInv, Ended
<1>1. ASSUME NEW s \in Scans, Request(s) PROVE (Resolved /\ Completed)'
  BY <1>1 DEF Request, Create, Enqueue, EnqueueFails, AddJob, AfterEnqueueError,
     MarkEnqueueFailed, SubmitDies, CancelRead, CancelRemove, CancelWrite, CancelDies,
     rowVars, wkVars, queueVars
<1>2. ASSUME NEW s \in Scans, Queue(s) PROVE (Resolved /\ Completed)'
  BY <1>2 DEF Queue, BackoffElapses, LockExpires, StalledCheck, AfterStall, rowVars, wkVars
<1>3. ASSUME NEW w \in Workers, NEW s \in Scans, Deliver(w, s) PROVE (Resolved /\ Completed)'
  BY <1>3 DEF Deliver, rowVars
<1>4. ASSUME NEW w \in Workers, Process(w) PROVE (Resolved /\ Completed)'
  <2> USE DEF rowVars, queueVars, Goto, EndWith
  <2>1. CASE Read(w)   BY <2>1 DEF Read, Skipped
  <2>2. CASE Save(w)   BY <2>2 DEF Save, Commit
  <2>3. CASE Start(w)  BY <2>3 DEF Start, SetRunning
  <2>4. CASE Fail(w)   BY <2>4 DEF Fail
  <2>5. CASE Catch(w)  BY <2>5 DEF Catch
  <2>6. CASE Settle(w) BY <2>6 DEF Settle, AfterReject
  <2>7. CASE Acquire(w) \/ Backoff(w) \/ Scan(w) \/ Reread(w) \/ Release(w) \/ Zero(w)
    BY <2>7 DEF Acquire, Backoff, Refusal, Scan, Reread, Release, Zero
  <2> QED BY <1>4, <2>1, <2>2, <2>3, <2>4, <2>5, <2>6, <2>7 DEF Process
<1>5. ASSUME NEW w \in Workers, WorkerFault(w) PROVE (Resolved /\ Completed)'
  BY <1>5 DEF WorkerFault, ChildLost, StatementFails, SetRunning, Commit, LimiterFails,
     WorkerDies, Goto, EndWith, rowVars, queueVars
<1>6. CASE SlotKeyExpires BY <1>6 DEF SlotKeyExpires, rowVars, queueVars, wkVars
<1>7. CASE Reap BY <1>7 DEF Reap, Stuck, queueVars, wkVars
<1>8. CASE UNCHANGED vars BY <1>8 DEF vars, rowVars, queueVars, wkVars
<1> QED BY <1>1, <1>2, <1>3, <1>4, <1>5, <1>6, <1>7, <1>8 DEF Next

\* Every path on which process(job) resolves leaves the scan finished.
THEOREM CompletedJobFinished == Spec => []FinishedJobFinishedScan
<1>1. Init => Finishing
  BY DEF Init, Finishing
<1>2. Finishing => FinishedJobFinishedScan
  BY DEF Finishing, FinishedJobFinishedScan
<1> QED BY <1>1, <1>2, FinishingStep, OwningAlways, BaseAlways, PTL DEF Spec

-------------------------------------------------------------------------------
(***************************************************************************)
(* A queued scan is not forgotten.                                         *)
(***************************************************************************)

\* QUEUED is never written back, so what has resolved or completed once was not
\* about a QUEUED scan, whoever else has touched the row since.
PastQueue ==
    /\ \A w \in Workers : outcome[w] = "resolve" => status[at[w]] # "QUEUED"
    /\ \A s \in Scans : job[s] = "completed" => status[s] # "QUEUED"

LEMMA QueuedStep ==
  BaseInv /\ PastQueue /\ QueuedIsAccountedFor /\ [Next]_vars
    => PastQueue' /\ QueuedIsAccountedFor'
<1> DEFINE Accounted(s) ==
      status[s] = "QUEUED" =>
            \/ submit[s] \in {"enqueue", "tick", "catch", "lost"}
            \/ cancel[s] = "write"
            \/ job[s] \in Live
            \/ job[s] = "failed" /\ (made[s] = Attempts \/ stalled[s] > MaxStalled)
           Known == NoFault({"api"}) => \A s \in Scans : Accounted(s)
<1> SUFFICES ASSUME BaseInv, PastQueue, Known, [Next]_vars PROVE (PastQueue /\ Known)'
  BY DEF QueuedIsAccountedFor
<1>0. NoFault({"api"})' => NoFault({"api"}) /\ ~ Fault("api") /\ \A s \in Scans : Accounted(s)
  <2>1. NoFault({"api"})' => NoFault({"api"})
    BY NoFaultBefore DEF FaultKinds
  <2>2. NoFault({"api"})' => ~ Fault("api")
    BY DEF NoFault, Fault, FaultKinds, BaseInv, TypeOK
  <2> QED BY <2>1, <2>2
<1> USE ConstantsAssumption, <1>0
    DEF BaseInv, TypeOK, WorkerInv, QueueInv, PastQueue, Live
<1>1. ASSUME NEW s \in Scans, Request(s) PROVE (PastQueue /\ Known)'
  <2> USE DEF rowVars, apiVars, wkVars, queueVars
  <2>1. CASE Create(s) BY <2>1 DEF Create
  <2>2. CASE Enqueue(s) \/ EnqueueFails(s)
    BY <2>2 DEF Enqueue, EnqueueFails, AddJob, AfterEnqueueError
  <2>3. CASE MarkEnqueueFailed(s) \/ CancelWrite(s) BY <2>3 DEF MarkEnqueueFailed, CancelWrite
  <2>4. CASE SubmitDies(s) \/ CancelDies(s) BY <2>4 DEF SubmitDies, CancelDies
  <2>5. CASE CancelRead(s) BY <2>5 DEF CancelRead
  <2>6. CASE CancelRemove(s) BY <2>6 DEF CancelRemove
  <2> QED BY <1>1, <2>1, <2>2, <2>3, <2>4, <2>5, <2>6 DEF Request
<1>2. ASSUME NEW s \in Scans, Queue(s) PROVE (PastQueue /\ Known)'
  BY <1>2 DEF Queue, BackoffElapses, LockExpires, StalledCheck, AfterStall, rowVars, wkVars,
     apiVars
<1>3. ASSUME NEW w \in Workers, NEW s \in Scans, Deliver(w, s) PROVE (PastQueue /\ Known)'
  BY <1>3 DEF Deliver, rowVars, apiVars
<1>4. ASSUME NEW w \in Workers, Process(w) PROVE (PastQueue /\ Known)'
  <2> USE DEF rowVars, apiVars, queueVars, Goto, EndWith
  <2>1. CASE Read(w)   BY <2>1 DEF Read, Skipped
  <2>2. CASE Save(w)   BY <2>2 DEF Save, Commit
  <2>3. CASE Start(w)  BY <2>3 DEF Start, SetRunning
  <2>4. CASE Fail(w)   BY <2>4 DEF Fail
  <2>5. CASE Catch(w)  BY <2>5 DEF Catch
  <2>6. CASE Settle(w) BY <2>6 DEF Settle, AfterReject
  <2>7. CASE Acquire(w) \/ Backoff(w) \/ Scan(w) \/ Reread(w) \/ Release(w) \/ Zero(w)
    BY <2>7 DEF Acquire, Backoff, Refusal, Scan, Reread, Release, Zero
  <2> QED BY <1>4, <2>1, <2>2, <2>3, <2>4, <2>5, <2>6, <2>7 DEF Process
<1>5. ASSUME NEW w \in Workers, WorkerFault(w) PROVE (PastQueue /\ Known)'
  BY <1>5 DEF WorkerFault, ChildLost, StatementFails, SetRunning, Commit, LimiterFails,
     WorkerDies, Goto, EndWith, rowVars, queueVars, apiVars
<1>6. CASE SlotKeyExpires BY <1>6 DEF SlotKeyExpires, rowVars, queueVars, wkVars, apiVars
<1>7. CASE Reap BY <1>7 DEF Reap, Stuck, queueVars, wkVars, apiVars
<1>8. CASE UNCHANGED vars BY <1>8 DEF vars, rowVars, queueVars, wkVars, apiVars
<1> QED BY <1>1, <1>2, <1>3, <1>4, <1>5, <1>6, <1>7, <1>8 DEF Next

\* A QUEUED scan has a request under way, a live job, a cancel about to be
\* written, or was given up by the tick or by BullMQ.
THEOREM QueuedAccounted == Spec => []QueuedIsAccountedFor
<1>1. Init => PastQueue /\ QueuedIsAccountedFor
  BY DEF Init, PastQueue, QueuedIsAccountedFor
<1> QED BY <1>1, QueuedStep, BaseAlways, PTL DEF Spec

-------------------------------------------------------------------------------
(***************************************************************************)
(* A cancelled scan stays cancelled once it is at rest.                    *)
(***************************************************************************)

\* A delivered, retried or redelivered job finds CANCELLED and is skipped.
THEOREM CancelledRests == Spec => CancelledAtRest
<1>1. ASSUME BaseInv, [Next]_vars, NEW s \in Scans, AtRest(s) PROVE AtRest(s)'
  <2> USE <1>1, ConstantsAssumption
      DEF AtRest, On, BaseInv, TypeOK, WorkerInv, QueueInv, rowVars, apiVars, wkVars
  <2>1. ASSUME NEW r \in Scans, Request(r) PROVE AtRest(s)'
    BY <2>1 DEF Request, Create, Enqueue, EnqueueFails, AfterEnqueueError, MarkEnqueueFailed,
       SubmitDies, CancelRead, CancelRemove, CancelWrite, CancelDies
  <2>2. ASSUME NEW r \in Scans, Queue(r) PROVE AtRest(s)'
    BY <2>2 DEF Queue, BackoffElapses, LockExpires, StalledCheck
  <2>3. ASSUME NEW w \in Workers, NEW r \in Scans, Deliver(w, r) PROVE AtRest(s)'
    BY <2>3 DEF Deliver
  <2>4. ASSUME NEW w \in Workers, Process(w) PROVE AtRest(s)'
    <3>1. CASE at[w] = s
      BY <2>4, <3>1 DEF Process, Read, Skipped, Acquire, Backoff, Start, Scan, Reread, Fail,
         Save, Catch, Release, Zero, Settle, Goto, EndWith
    <3>2. CASE at[w] # s
      BY <2>4, <3>2 DEF Process, Read, Acquire, Backoff, Start, SetRunning, Scan, Reread, Fail,
         Save, Commit, Catch, Release, Zero, Settle, Goto, EndWith
    <3> QED BY <3>1, <3>2
  <2>5. ASSUME NEW w \in Workers, WorkerFault(w) PROVE AtRest(s)'
    BY <2>5 DEF WorkerFault, ChildLost, StatementFails, SetRunning, Commit, LimiterFails,
       WorkerDies, Goto, EndWith
  <2>6. CASE SlotKeyExpires BY <2>6 DEF SlotKeyExpires
  <2>7. CASE Reap BY <2>7 DEF Reap, Stuck
  <2>8. CASE UNCHANGED vars BY <2>8 DEF vars
  <2> QED BY <2>1, <2>2, <2>3, <2>4, <2>5, <2>6, <2>7, <2>8 DEF Next
<1>2. BaseInv /\ [Next]_vars => [\A s \in Scans : AtRest(s) => AtRest(s)']_vars
  BY <1>1
<1> QED BY <1>2, BaseAlways, PTL DEF Spec, CancelledAtRest

-------------------------------------------------------------------------------
(***************************************************************************)
(* The limiter's counter.                                                  *)
(***************************************************************************)

\* The workers counted at the limiter, the workers it admitted, those about to
\* reset the counter, and the counter itself stay as they are.
LimiterIdle == UNCHANGED <<Counted, Holders, slots>> /\ \A w \in Workers : pc'[w] = "zero" => pc[w] = "zero"

\* w's INCR: w is counted, and admitted if the count is within the limit.
Entered(w) ==
    /\ w \in Workers \ Counted
    /\ Counted' = Counted \cup {w}
    /\ Holders' = IF Admits THEN Holders \cup {w} ELSE Holders
    /\ slots' = slots + 1
    /\ \A v \in Workers : pc'[v] = "zero" => pc[v] = "zero"

\* w's DECR, of the refusal or of the release; below 0 a reset follows.
Left(w) ==
    /\ w \in Counted
    /\ Counted' = Counted \ {w}
    /\ Holders' = Holders \ {w}
    /\ slots' = slots - 1
    /\ \A v \in Workers : pc'[v] = "zero" => pc[v] = "zero" \/ slots < 1

\* w dies: it is no longer counted, its slot stays taken.
Lost(w) ==
    /\ Counted' = Counted \ {w}
    /\ Holders' = Holders \ {w}
    /\ slots' = slots
    /\ \A v \in Workers : pc'[v] = "zero" => pc[v] = "zero"

LEMMA LimiterStep ==
  ASSUME BaseInv, [Next]_vars
  PROVE  \/ LimiterIdle
         \/ \E w \in Workers : Entered(w) \/ Left(w)
         \/ \E w \in Workers : Fault("worker") /\ Lost(w)
         \/ Fault("redis") \/ Fault("expiry")
         \/ \E w \in Workers : pc[w] = "zero"
<1> USE DEF BaseInv, TypeOK, PcNames, Counted, Holders, InTry, LimiterIdle, Goto, EndWith
<1>1. ASSUME NEW w \in Workers, Acquire(w) PROVE Entered(w)
  BY <1>1 DEF Acquire, Entered, Admits
<1>2. ASSUME NEW w \in Workers, Backoff(w) PROVE Left(w)
  BY <1>2 DEF Backoff, Left
<1>3. ASSUME NEW w \in Workers, Release(w) PROVE Left(w)
  BY <1>3 DEF Release, Left
<1>4. ASSUME NEW w \in Workers, WorkerDies(w) PROVE Fault("worker") /\ Lost(w)
  BY <1>4 DEF WorkerDies, Lost
<1>5. ASSUME NEW w \in Workers, LimiterFails(w) PROVE Fault("redis")
  BY <1>5 DEF LimiterFails
<1>6. ASSUME NEW w \in Workers, Zero(w) PROVE pc[w] = "zero"
  BY <1>6 DEF Zero
<1>7. ASSUME NEW w \in Workers,
             Read(w) \/ Start(w) \/ Scan(w) \/ Reread(w) \/ Fail(w) \/ Save(w) \/ Catch(w)
             \/ Settle(w)
      PROVE  LimiterIdle
  BY <1>7 DEF Read, Start, Scan, Reread, Fail, Save, Catch, Settle
<1>8. ASSUME NEW w \in Workers, ChildLost(w) \/ StatementFails(w) PROVE LimiterIdle
  BY <1>8 DEF ChildLost, StatementFails
<1>9. ASSUME NEW s \in Scans, Request(s) \/ Queue(s) PROVE LimiterIdle
  BY <1>9 DEF Request, Create, Enqueue, EnqueueFails, MarkEnqueueFailed, SubmitDies, CancelRead,
     CancelRemove, CancelWrite, CancelDies, Queue, BackoffElapses, LockExpires, StalledCheck, wkVars
<1>10. ASSUME NEW w \in Workers, NEW s \in Scans, Deliver(w, s) PROVE LimiterIdle
  BY <1>10 DEF Deliver
<1>11. CASE SlotKeyExpires BY <1>11 DEF SlotKeyExpires
<1>12. CASE Reap BY <1>12 DEF Reap, wkVars
<1>13. CASE UNCHANGED vars BY <1>13 DEF vars, wkVars
<1> HIDE DEF LimiterIdle, Counted, Holders
<1> QED BY <1>1, <1>2, <1>3, <1>4, <1>5, <1>6, <1>7, <1>8, <1>9, <1>10, <1>11, <1>12, <1>13
        DEF Next, Process, WorkerFault

LEMMA CountedFinite ==
  /\ IsFiniteSet(Counted) /\ IsFiniteSet(Holders)
  /\ Cardinality(Counted) \in Nat /\ Cardinality(Holders) \in Nat
  /\ Holders \subseteq Counted
  /\ Cardinality(Holders) <= Cardinality(Counted)
<1>1. Counted \in SUBSET Workers /\ Holders \in SUBSET Counted
  BY DEF Counted, Holders
<1>2. IsFiniteSet(Counted)
  BY <1>1, FS_Subset, ConstantsAssumption
<1> QED BY <1>1, <1>2, FS_Subset, FS_CardinalityType

\* Until a command is applied twice or the key is lost, the counter is at least
\* the number of workers counted, so that it never goes below 0, and at most
\* MaxPerOrg of them were admitted.
Limited ==
    NoFault({"redis", "expiry"}) =>
        /\ Cardinality(Counted) <= slots
        /\ Cardinality(Holders) <= MaxPerOrg
        /\ \A w \in Workers : pc[w] # "zero"

LEMMA LimitedStep == BaseInv /\ Limited /\ [Next]_vars => Limited'
<1> SUFFICES ASSUME BaseInv, Limited, [Next]_vars, NoFault({"redis", "expiry"})'
             PROVE  /\ Cardinality(Counted') <= slots'
                    /\ Cardinality(Holders') <= MaxPerOrg
                    /\ \A w \in Workers : pc'[w] # "zero"
  BY DEF Limited
<1>1. NoFault({"redis", "expiry"})
  BY NoFaultBefore DEF FaultKinds
<1>2. ~ Fault("redis") /\ ~ Fault("expiry")
  BY DEF NoFault, Fault, FaultKinds, BaseInv, TypeOK
<1>3. /\ Cardinality(Counted) <= slots
      /\ Cardinality(Holders) <= MaxPerOrg
      /\ \A w \in Workers : pc[w] # "zero"
  BY <1>1 DEF Limited
<1>4. slots \in Int /\ MaxPerOrg \in Nat
  BY ConstantsAssumption DEF BaseInv, TypeOK
<1>5. CASE LimiterIdle
  BY <1>3, <1>5 DEF LimiterIdle
<1>6. ASSUME NEW w \in Workers, Entered(w)
      PROVE  /\ Cardinality(Counted') <= slots'
             /\ Cardinality(Holders') <= MaxPerOrg
             /\ \A v \in Workers : pc'[v] # "zero"
  <2>1. Cardinality(Counted') = Cardinality(Counted) + 1
    BY <1>6, CountedFinite, FS_AddElement DEF Entered
  <2>2. Cardinality(Holders') <= MaxPerOrg
    <3>1. CASE Admits
      <4>1. w \notin Holders /\ Holders' = Holders \cup {w}
        BY <1>6, <3>1, CountedFinite DEF Entered
      <4>2. Cardinality(Holders') = Cardinality(Holders) + 1
        BY <4>1, CountedFinite, FS_AddElement
      <4>3. Cardinality(Holders) < MaxPerOrg
        BY <3>1, <1>3, <1>4, CountedFinite DEF Admits
      <4> QED BY <4>2, <4>3, <1>4, CountedFinite
    <3>2. CASE ~ Admits
      BY <1>3, <1>6, <3>2 DEF Entered
    <3> QED BY <3>1, <3>2
  <2> QED BY <1>3, <1>4, <1>6, <2>1, <2>2, CountedFinite DEF Entered
<1>7. ASSUME NEW w \in Workers, Left(w)
      PROVE  /\ Cardinality(Counted') <= slots'
             /\ Cardinality(Holders') <= MaxPerOrg
             /\ \A v \in Workers : pc'[v] # "zero"
  <2>1. Cardinality(Counted') = Cardinality(Counted) - 1
    BY <1>7, CountedFinite, FS_RemoveElement DEF Left
  <2>2. Cardinality(Holders') <= Cardinality(Holders)
    BY <1>7, CountedFinite, FS_Subset DEF Left
  <2>3. slots >= 1
    <3>1. Cardinality({w}) = 1 BY FS_Singleton
    <3>2. {w} \in SUBSET Counted BY <1>7 DEF Left
    <3> QED BY <3>1, <3>2, <1>3, <1>4, CountedFinite, FS_Subset
  <2>4. Cardinality(Holders') \in Nat
    BY <1>7, CountedFinite, FS_Subset, FS_CardinalityType DEF Left
  <2> QED BY <1>3, <1>4, <1>7, <2>1, <2>2, <2>3, <2>4, CountedFinite DEF Left
<1>8. ASSUME NEW w \in Workers, Lost(w)
      PROVE  /\ Cardinality(Counted') <= slots'
             /\ Cardinality(Holders') <= MaxPerOrg
             /\ \A v \in Workers : pc'[v] # "zero"
  <2>1. /\ Cardinality(Counted') <= Cardinality(Counted)
        /\ Cardinality(Holders') <= Cardinality(Holders)
        /\ Cardinality(Counted') \in Nat /\ Cardinality(Holders') \in Nat
    BY <1>8, CountedFinite, FS_Subset, FS_CardinalityType DEF Lost
  <2> QED BY <1>3, <1>4, <1>8, <2>1, CountedFinite DEF Lost
<1> QED BY <1>2, <1>3, <1>5, <1>6, <1>7, <1>8, LimiterStep

\* At most MaxPerOrg attempts are between acquire and release.
THEOREM LimitHolds == Spec => []OrgLimitRespected
<1>1. Init => Limited
  <2> SUFFICES ASSUME Init PROVE Limited
    OBVIOUS
  <2>1. Counted = {} /\ Holders = {}
    BY DEF Init, Counted, Holders, InTry
  <2> QED BY <2>1, FS_EmptySet, ConstantsAssumption DEF Limited, Init
<1>2. Limited => OrgLimitRespected
  BY DEF Limited, OrgLimitRespected
<1> QED BY <1>1, <1>2, LimitedStep, BaseAlways, PTL DEF Spec

\* Without faults at the counter and without deaths the counter is exact.
Exact == NoFault({"worker", "redis", "expiry"}) => slots = Cardinality(Counted)

LEMMA ExactStep == BaseInv /\ Limited /\ Exact /\ [Next]_vars => Exact'
<1> SUFFICES ASSUME BaseInv, Limited, Exact, [Next]_vars, NoFault({"worker", "redis", "expiry"})'
             PROVE  slots' = Cardinality(Counted')
  BY DEF Exact
<1>1. NoFault({"worker", "redis", "expiry"})
  BY NoFaultBefore DEF FaultKinds
<1>2. ~ Fault("worker") /\ ~ Fault("redis") /\ ~ Fault("expiry")
  BY DEF NoFault, Fault, FaultKinds, BaseInv, TypeOK
<1>3. slots = Cardinality(Counted) /\ \A w \in Workers : pc[w] # "zero"
  BY <1>1 DEF Exact, Limited, NoFault
<1>4. CASE LimiterIdle BY <1>3, <1>4 DEF LimiterIdle
<1>5. ASSUME NEW w \in Workers, Entered(w) PROVE slots' = Cardinality(Counted')
  BY <1>3, <1>5, CountedFinite, FS_AddElement DEF Entered
<1>6. ASSUME NEW w \in Workers, Left(w) PROVE slots' = Cardinality(Counted')
  BY <1>3, <1>6, CountedFinite, FS_RemoveElement DEF Left
<1> QED BY <1>2, <1>3, <1>4, <1>5, <1>6, LimiterStep

\* Every increment of the counter is taken back, on every path.
THEOREM SlotsExact == Spec => []SlotsAccounted
<1>1. Init => Limited /\ Exact
  <2> SUFFICES ASSUME Init PROVE Limited /\ Exact
    OBVIOUS
  <2>1. Counted = {} /\ Holders = {}
    BY DEF Init, Counted, Holders, InTry
  <2> QED BY <2>1, FS_EmptySet, ConstantsAssumption DEF Limited, Exact, Init
<1>2. Exact => SlotsAccounted
  BY DEF Exact, SlotsAccounted
<1> QED BY <1>1, <1>2, LimitedStep, ExactStep, BaseAlways, PTL DEF Spec

-------------------------------------------------------------------------------
(***************************************************************************)
(* The runs of a scan.  A delivery is paid for by the attempt it will      *)
(* count as, or by the stall that will end it; each is limited by BullMQ,  *)
(* and a run needs a delivery of its own.                                  *)
(***************************************************************************)

\* The workers that were handed s and have still to set it RUNNING.
Pending(s) == { w \in Workers : at[w] = s /\ pc[w] \in {"read", "acquire", "start"} }

\* How often s has been handed out at most, as the counters of its job tell.
Budget(s) ==
    IF job[s] = "none" THEN IF submit[s] \in {"new", "enqueue", "tick"} THEN 0 ELSE Attempts + MaxStalled
    ELSE made[s] + stalled[s] + IF job[s] \in {"active", "completed"} THEN 1 ELSE 0

\* The budget never exceeds what BullMQ was configured to allow, and covers the
\* runs that have begun and those that may still begin.
RunsInv ==
    \A s \in Scans :
        /\ Budget(s) <= Attempts + MaxStalled
        /\ runs[s] + Cardinality(Pending(s)) <= Budget(s)

\* The three things a step can do to a scan's deliveries.
NoNewRun(s) == Pending(s)' \subseteq Pending(s) /\ runs'[s] = runs[s] /\ Budget(s)' >= Budget(s)

RunBegins(s) ==
    /\ \E w \in Pending(s) : Pending(s)' = Pending(s) \ {w}
    /\ runs'[s] = runs[s] + 1
    /\ Budget(s)' = Budget(s)

HandedOut(s) ==
    /\ \E w \in Workers \ Pending(s) : Pending(s)' = Pending(s) \cup {w}
    /\ runs'[s] = runs[s]
    /\ Budget(s)' = Budget(s) + 1

LEMMA RunsStep ==
  ASSUME BaseInv, RunsInv, [Next]_vars, NEW s \in Scans
  PROVE  NoNewRun(s) \/ RunBegins(s) \/ HandedOut(s)
<1> USE ConstantsAssumption
    DEF BaseInv, TypeOK, WorkerInv, QueueInv, PcNames, InTry, Live, Pending, Budget, Goto, EndWith
<1>1. ASSUME NEW r \in Scans, Request(r) PROVE NoNewRun(s)
  <2> USE DEF NoNewRun, queueVars, wkVars
  <2>1. CASE Create(r)            BY <2>1 DEF Create
  <2>2. CASE Enqueue(r)           BY <2>2 DEF Enqueue, AddJob
  <2>3. CASE EnqueueFails(r)
    <3>1. Pending(s)' = Pending(s) /\ runs'[s] = runs[s]
      BY <2>3 DEF EnqueueFails
    <3>2. CASE s # r BY <2>3, <3>1, <3>2 DEF EnqueueFails, AddJob
    <3>3. CASE s = r
      <4>1. Budget(s) = 0 /\ made'[s] = 0 /\ stalled'[s] = 0
        BY <2>3, <3>3 DEF EnqueueFails
      <4>2. job'[s] \in {"none", "waiting"}
        BY <2>3, <3>3 DEF EnqueueFails, AddJob
      <4>3. Budget(s)' >= 0
        BY <4>1, <4>2
      <4> QED BY <3>1, <4>1, <4>3
    <3> QED BY <3>2, <3>3
  <2>4. CASE MarkEnqueueFailed(r) BY <2>4 DEF MarkEnqueueFailed
  <2>5. CASE SubmitDies(r)        BY <2>5 DEF SubmitDies
  <2>6. CASE CancelRead(r)        BY <2>6 DEF CancelRead
  <2>7. CASE CancelRemove(r)
    <3>1. Pending(s)' = Pending(s) /\ runs'[s] = runs[s]
      BY <2>7 DEF CancelRemove
    <3>2. CASE job'[s] = job[s] BY <2>7, <3>1, <3>2 DEF CancelRemove
    <3>3. CASE job'[s] # job[s]
      <4>1. job'[s] = "none" /\ submit'[s] \notin {"new", "enqueue", "tick"}
        BY <2>7, <3>3 DEF CancelRemove
      <4>2. Budget(s)' = Attempts + MaxStalled
        BY <4>1
      <4>3. Budget(s) <= Attempts + MaxStalled
        BY DEF RunsInv
      <4> HIDE DEF Budget
      <4>4. Budget(s)' >= Budget(s)
        BY <4>2, <4>3
      <4> QED BY <3>1, <4>4
    <3> QED BY <3>2, <3>3
  <2>8. CASE CancelWrite(r)       BY <2>8 DEF CancelWrite
  <2>9. CASE CancelDies(r)        BY <2>9 DEF CancelDies
  <2> QED BY <1>1, <2>1, <2>2, <2>3, <2>4, <2>5, <2>6, <2>7, <2>8, <2>9 DEF Request
<1>2. ASSUME NEW r \in Scans, Queue(r) PROVE NoNewRun(s)
  BY <1>2 DEF NoNewRun, Queue, BackoffElapses, LockExpires, StalledCheck, AfterStall, apiVars, wkVars
<1>3. ASSUME NEW w \in Workers, NEW r \in Scans, Deliver(w, r) PROVE NoNewRun(s) \/ HandedOut(s)
  BY <1>3 DEF NoNewRun, HandedOut, Deliver, apiVars
<1>4. ASSUME NEW w \in Workers, Start(w) PROVE NoNewRun(s) \/ RunBegins(s)
  BY <1>4 DEF NoNewRun, RunBegins, Start, SetRunning, apiVars, queueVars
<1>5. ASSUME NEW w \in Workers, Settle(w) PROVE NoNewRun(s)
  BY <1>5 DEF NoNewRun, Settle, AfterReject, apiVars
<1>6. ASSUME NEW w \in Workers, StatementFails(w) PROVE NoNewRun(s) \/ RunBegins(s)
  BY <1>6 DEF NoNewRun, RunBegins, StatementFails, SetRunning, rowVars, apiVars, queueVars
<1>7. ASSUME NEW w \in Workers,
             \/ Read(w) \/ Acquire(w) \/ Backoff(w) \/ Scan(w) \/ Reread(w) \/ Fail(w) \/ Save(w)
             \/ Catch(w) \/ Release(w) \/ Zero(w) \/ ChildLost(w) \/ LimiterFails(w) \/ WorkerDies(w)
      PROVE  NoNewRun(s)
  BY <1>7 DEF NoNewRun, Read, Acquire, Backoff, Scan, Reread, Fail, Save, Catch, Release, Zero,
     ChildLost, LimiterFails, WorkerDies, rowVars, apiVars, queueVars
<1>8. CASE SlotKeyExpires BY <1>8 DEF NoNewRun, SlotKeyExpires, apiVars, queueVars, wkVars
<1>9. CASE Reap BY <1>9 DEF NoNewRun, Reap, apiVars, queueVars, wkVars
<1>10. CASE UNCHANGED vars BY <1>10 DEF NoNewRun, vars, apiVars, queueVars, wkVars
<1> QED BY <1>1, <1>2, <1>3, <1>4, <1>5, <1>6, <1>7, <1>8, <1>9, <1>10 DEF Next, Process, WorkerFault

LEMMA BudgetWithinLimits ==
  ASSUME BaseInv, RunsInv, [Next]_vars, NEW s \in Scans
  PROVE  Budget(s)' <= Attempts + MaxStalled
<1> USE ConstantsAssumption DEF BaseInv, TypeOK, QueueInv, Live, RunsInv, Budget
<1>1. ASSUME NEW r \in Scans, Request(r) PROVE Budget(s)' <= Attempts + MaxStalled
  BY <1>1 DEF Request, Create, Enqueue, AddJob, EnqueueFails, AfterEnqueueError,
     MarkEnqueueFailed, SubmitDies, CancelRead, CancelRemove, CancelWrite, CancelDies, queueVars
<1>2. ASSUME NEW r \in Scans, Queue(r) PROVE Budget(s)' <= Attempts + MaxStalled
  BY <1>2 DEF Queue, BackoffElapses, LockExpires, StalledCheck, AfterStall, apiVars
<1>3. ASSUME NEW w \in Workers, NEW r \in Scans, Deliver(w, r) PROVE Budget(s)' <= Attempts + MaxStalled
  BY <1>3 DEF Deliver, apiVars
<1>4. ASSUME NEW w \in Workers, Settle(w) PROVE Budget(s)' <= Attempts + MaxStalled
  BY <1>4 DEF Settle, AfterReject, apiVars
<1>5. ASSUME \/ \E w \in Workers : \/ Process(w) /\ ~ Settle(w)
                                   \/ WorkerFault(w)
             \/ SlotKeyExpires \/ Reap \/ UNCHANGED vars
      PROVE  Budget(s)' = Budget(s)
  BY <1>5 DEF Process, Read, Acquire, Backoff, Start, Scan, Reread, Fail, Save, Catch, Release, Zero,
     WorkerFault, ChildLost, StatementFails, LimiterFails, WorkerDies, SlotKeyExpires, Reap,
     vars, apiVars, queueVars
<1> QED BY <1>1, <1>2, <1>3, <1>4, <1>5 DEF Next

LEMMA RunsInvStep == BaseInv /\ RunsInv /\ [Next]_vars => RunsInv'
<1> SUFFICES ASSUME BaseInv, RunsInv, [Next]_vars, NEW s \in Scans
             PROVE  /\ Budget(s)' <= Attempts + MaxStalled
                    /\ runs'[s] + Cardinality(Pending(s)') <= Budget(s)'
  BY DEF RunsInv
<1>1. /\ runs[s] \in Nat /\ Budget(s) \in Int
      /\ runs[s] + Cardinality(Pending(s)) <= Budget(s)
  BY ConstantsAssumption DEF BaseInv, TypeOK, RunsInv, Budget
<1>2. IsFiniteSet(Pending(s)) /\ Cardinality(Pending(s)) \in Nat
  <2>1. Pending(s) \in SUBSET Workers BY DEF Pending
  <2> QED BY <2>1, FS_Subset, FS_CardinalityType, ConstantsAssumption
<1>3. Budget(s)' \in Int
  BY BaseStep, ConstantsAssumption DEF BaseInv, TypeOK, Budget
<1>4. CASE NoNewRun(s)
  <2>1. Cardinality(Pending(s)') <= Cardinality(Pending(s)) /\ Cardinality(Pending(s)') \in Nat
    BY <1>2, <1>4, FS_Subset, FS_CardinalityType DEF NoNewRun
  <2> QED BY <1>1, <1>2, <1>3, <1>4, <2>1, BudgetWithinLimits DEF NoNewRun
<1>5. CASE RunBegins(s)
  <2>1. PICK w \in Pending(s) : Pending(s)' = Pending(s) \ {w}
    BY <1>5 DEF RunBegins
  <2>2. Cardinality(Pending(s)') = Cardinality(Pending(s)) - 1
    BY <1>2, <2>1, FS_RemoveElement
  <2> QED BY <1>1, <1>2, <1>3, <1>5, <2>2, BudgetWithinLimits DEF RunBegins
<1>6. CASE HandedOut(s)
  <2>1. PICK w \in Workers \ Pending(s) : Pending(s)' = Pending(s) \cup {w}
    BY <1>6 DEF HandedOut
  <2>2. Cardinality(Pending(s)') = Cardinality(Pending(s)) + 1
    BY <1>2, <2>1, FS_AddElement
  <2> QED BY <1>1, <1>2, <1>3, <1>6, <2>2, BudgetWithinLimits DEF HandedOut
<1> QED BY <1>4, <1>5, <1>6, RunsStep

\* However often its workers die, stall, are deferred or fail, a scan is run at
\* most Attempts + MaxStalled times.
THEOREM RunsLimited == Spec => []RunsBounded
<1>1. Init => RunsInv
  <2> SUFFICES ASSUME Init, NEW s \in Scans
               PROVE  /\ Budget(s) <= Attempts + MaxStalled
                      /\ runs[s] + Cardinality(Pending(s)) <= Budget(s)
    BY DEF RunsInv
  <2>1. Pending(s) = {} BY DEF Init, Pending
  <2> QED BY <2>1, FS_EmptySet, ConstantsAssumption DEF Init, Budget
<1>2. BaseInv /\ RunsInv => RunsBounded
  <2> SUFFICES ASSUME BaseInv, RunsInv, NEW s \in Scans PROVE runs[s] <= Attempts + MaxStalled
    BY DEF RunsBounded
  <2>1. Cardinality(Pending(s)) \in Nat
    <3>1. Pending(s) \in SUBSET Workers BY DEF Pending
    <3> QED BY <3>1, FS_Subset, FS_CardinalityType, ConstantsAssumption
  <2> QED BY <2>1, ConstantsAssumption DEF BaseInv, TypeOK, RunsInv, Budget
<1> QED BY <1>1, <1>2, RunsInvStep, BaseAlways, PTL DEF Spec

===============================================================================
