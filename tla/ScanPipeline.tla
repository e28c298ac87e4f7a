----------------------------- MODULE ScanPipeline -----------------------------
(***************************************************************************)
(* The life of a scan, from the request that creates its row to the last   *)
(* attempt of its job.  Four programs share the row (PostgreSQL) and the   *)
(* job (BullMQ on Redis) of a scan, and none of them locks the row:        *)
(*                                                                         *)
(*   - the API request or schedule tick that inserts the row and then      *)
(*     enqueues the job                     (scans.service.ts, schedules)  *)
(*   - the API request that cancels a scan  (scans.service.ts)             *)
(*   - the worker's process(job), one instance per concurrently running    *)
(*     attempt                              (scan.processor.ts)            *)
(*   - the reaper, which fails rows stuck in RUNNING                       *)
(*                                                                         *)
(* Every await of the code is a step of its own, so that the others may    *)
(* run between any two of them.  All scans belong to one organization: the *)
(* limiter's counters of different organizations are independent keys.     *)
(*                                                                         *)
(* What can go wrong is counted per kind in `faults`, bounded by           *)
(* MaxFaults, and each property says which kinds it tolerates.             *)
(***************************************************************************)
EXTENDS Integers, FiniteSets

CONSTANTS
    Scans,       \* scan ids; a job has the id of its scan
    Workers,     \* attempts that may run at once, each in a process of its own
    NoOne,       \* neither a scan nor a worker
    MaxPerOrg,   \* ORG_SCAN_CONCURRENCY
    Attempts,    \* BullMQ's attempts option of a scan job
    MaxStalled,  \* BullMQ's maxStalledCount
    MaxFaults    \* how often each kind of fault may happen

FaultKinds ==
    { "api",      \* the API process dies, or loses the database, in a request
      "worker",   \* a worker process dies
      "lock",     \* a live worker does not renew its job's lock in time
      "db",       \* a statement of the worker fails, applied or not
      "redis",    \* a limiter command or an enqueue fails
      "reply",    \* an enqueue is applied but reported as failed
      "expiry",   \* the limiter's key outlives its TTL and disappears
      "child" }   \* the scan child ends without the runner settling

ASSUME ConstantsAssumption ==
    /\ NoOne \notin Scans \cup Workers
    /\ IsFiniteSet(Workers)
    /\ MaxPerOrg \in Nat \ {0}
    /\ Attempts \in Nat \ {0}
    /\ MaxStalled \in Nat
    /\ MaxFaults \in [FaultKinds -> Nat]

VARIABLES
    status,    \* Scan.status, "none" before the row is inserted
    reports,   \* the scans that have a Report row (scanId is unique)
    submit,    \* where the request or tick that creates the scan stands
    cancel,    \* where a cancel request for the scan stands
    job,       \* the state of the scan's BullMQ job
    made,      \* the job's attemptsMade
    stalled,   \* the job's stalledCounter
    lock,      \* the worker that holds the job's lock
    pc,        \* the statement of process(job) a worker has reached
    at,        \* the scan it works on
    outcome,   \* the scan's result, then how process(job) will settle
    slots,     \* the organization's counter in the limiter
    runs,      \* history: how often the scan was set RUNNING
    faults     \* how often each kind of fault has happened

rowVars   == <<status, reports>>
apiVars   == <<submit, cancel>>
queueVars == <<job, made, stalled, lock>>
wkVars    == <<pc, at, outcome>>
vars == <<rowVars, apiVars, queueVars, wkVars, slots, runs, faults>>

Statuses == {"QUEUED", "RUNNING", "COMPLETED", "FAILED", "CANCELLED"}
Ended    == {"COMPLETED", "FAILED", "CANCELLED"}
Live     == {"waiting", "active", "delayed"}

\* The statements of process(job) at which a worker can be interrupted.
InTry   == {"start", "scan", "hung", "reread", "save", "fail", "catch", "release"}
PcNames == {"idle", "read", "acquire", "backoff", "zero", "settle"} \cup InTry

TypeOK ==
    /\ status \in [Scans -> Statuses \cup {"none"}]
    /\ reports \in SUBSET Scans
    /\ submit \in [Scans -> {"new", "enqueue", "tick", "catch", "done", "lost"}]
    /\ cancel \in [Scans -> {"idle", "remove", "write"}]
    /\ job \in [Scans -> {"none", "completed", "failed"} \cup Live]
    /\ made \in [Scans -> 0..Attempts]
    /\ stalled \in [Scans -> 0..(MaxStalled + 1)]
    /\ lock \in [Scans -> Workers \cup {NoOne}]
    /\ pc \in [Workers -> PcNames]
    /\ at \in [Workers -> Scans \cup {NoOne}]
    /\ outcome \in [Workers -> {"none", "completed", "failed", "resolve", "reject"}]
    /\ slots \in Int
    /\ runs \in [Scans -> Nat]
    /\ faults \in [FaultKinds -> Nat]

Init ==
    /\ status = [s \in Scans |-> "none"]
    /\ reports = {}
    /\ submit = [s \in Scans |-> "new"]
    /\ cancel = [s \in Scans |-> "idle"]
    /\ job = [s \in Scans |-> "none"]
    /\ made = [s \in Scans |-> 0]
    /\ stalled = [s \in Scans |-> 0]
    /\ lock = [s \in Scans |-> NoOne]
    /\ pc = [w \in Workers |-> "idle"]
    /\ at = [w \in Workers |-> NoOne]
    /\ outcome = [w \in Workers |-> "none"]
    /\ slots = 0
    /\ runs = [s \in Scans |-> 0]
    /\ faults = [k \in FaultKinds |-> 0]

Fault(k) ==
    /\ faults[k] < MaxFaults[k]
    /\ faults' = [faults EXCEPT ![k] = @ + 1]

NoFault(kinds) == \A k \in kinds : faults[k] = 0

-------------------------------------------------------------------------------
(***************************************************************************)
(* Creating a scan.  The row is committed QUEUED before the job exists.    *)
(***************************************************************************)

\* The checks have passed; the row is inserted.  A request goes on to enqueue
\* and to mark the row FAILED if that fails; a schedule tick only logs it.
Create(s) ==
    /\ submit[s] = "new"
    /\ status' = [status EXCEPT ![s] = "QUEUED"]
    /\ \E by \in {"enqueue", "tick"} : submit' = [submit EXCEPT ![s] = by]
    /\ UNCHANGED <<reports, cancel, queueVars, wkVars, slots, runs, faults>>

\* A job of that id never existed before: one request enqueues one new id.
AddJob(s) == job' = [job EXCEPT ![s] = "waiting"]

Enqueue(s) ==
    /\ submit[s] \in {"enqueue", "tick"}
    /\ AddJob(s)
    /\ submit' = [submit EXCEPT ![s] = "done"]
    /\ UNCHANGED <<rowVars, cancel, made, stalled, lock, wkVars, slots, runs, faults>>

\* Mutant: the request reports the error without marking the row FAILED.
AfterEnqueueError_RowKept(by) == "done"

\* The request's catch block marks the row; the tick's only logs.
AfterEnqueueError(by) == IF by = "enqueue" THEN "catch" ELSE "lost"

\* queue.add rejects: Redis refused it, or applied it and the reply was lost.
EnqueueFails(s) ==
    /\ submit[s] \in {"enqueue", "tick"}
    /\ \/ Fault("redis") /\ UNCHANGED job
       \/ Fault("reply") /\ AddJob(s)
    /\ submit' = [submit EXCEPT ![s] = AfterEnqueueError(@)]
    /\ UNCHANGED <<rowVars, cancel, made, stalled, lock, wkVars, slots, runs>>

MarkEnqueueFailed(s) ==
    /\ submit[s] = "catch"
    /\ status' = [status EXCEPT ![s] = "FAILED"]
    /\ submit' = [submit EXCEPT ![s] = "done"]
    /\ UNCHANGED <<reports, cancel, queueVars, wkVars, slots, runs, faults>>

\* The process dies after the insert, or the update of the catch block fails.
SubmitDies(s) ==
    /\ submit[s] \in {"enqueue", "tick", "catch"}
    /\ Fault("api")
    /\ submit' = [submit EXCEPT ![s] = "lost"]
    /\ UNCHANGED <<rowVars, cancel, queueVars, wkVars, slots, runs>>

-------------------------------------------------------------------------------
(***************************************************************************)
(* Cancelling a scan: read the status, remove the job, write CANCELLED.    *)
(***************************************************************************)

CancelRead(s) ==
    /\ cancel[s] = "idle"
    /\ status[s] \in {"QUEUED", "RUNNING"}
    /\ cancel' = [cancel EXCEPT ![s] = "remove"]
    /\ UNCHANGED <<rowVars, submit, queueVars, wkVars, slots, runs, faults>>

\* job.remove() refuses a job whose lock is held; the refusal is swallowed.
CancelRemove(s) ==
    /\ cancel[s] = "remove"
    /\ job' = [job EXCEPT ![s] = IF lock[s] = NoOne THEN "none" ELSE @]
    /\ cancel' = [cancel EXCEPT ![s] = "write"]
    /\ UNCHANGED <<rowVars, submit, made, stalled, lock, wkVars, slots, runs, faults>>

\* The update names the row by id alone, whatever its status has become.
CancelWrite(s) ==
    /\ cancel[s] = "write"
    /\ status' = [status EXCEPT ![s] = "CANCELLED"]
    /\ cancel' = [cancel EXCEPT ![s] = "idle"]
    /\ UNCHANGED <<reports, submit, queueVars, wkVars, slots, runs, faults>>

CancelDies(s) ==
    /\ cancel[s] # "idle"
    /\ Fault("api")
    /\ cancel' = [cancel EXCEPT ![s] = "idle"]
    /\ UNCHANGED <<rowVars, submit, queueVars, wkVars, slots, runs>>

-------------------------------------------------------------------------------
(***************************************************************************)
(* BullMQ (external), as the options of the queue and the worker set it    *)
(* up: a job is handed to one worker under a lock the worker renews; an    *)
(* active job without a lock is stalled and is handed out again, at most   *)
(* MaxStalled times; a rejected attempt is retried after a backoff, until  *)
(* Attempts of them have been made.                                        *)
(***************************************************************************)

Deliver(w, s) ==
    /\ pc[w] = "idle"
    /\ job[s] = "waiting"
    /\ job' = [job EXCEPT ![s] = "active"]
    /\ lock' = [lock EXCEPT ![s] = w]
    /\ pc' = [pc EXCEPT ![w] = "read"]
    /\ at' = [at EXCEPT ![w] = s]
    /\ UNCHANGED <<rowVars, apiVars, made, stalled, outcome, slots, runs, faults>>

BackoffElapses(s) ==
    /\ job[s] = "delayed"
    /\ job' = [job EXCEPT ![s] = "waiting"]
    /\ UNCHANGED <<rowVars, apiVars, made, stalled, lock, wkVars, slots, runs, faults>>

\* Mutant: a lockDuration below the length of a scan, never renewed.
Renewed_Never(s) == FALSE

\* The holder of the lock is alive and on the job: it renews the lock.
Renewed(s) == at[lock[s]] = s

\* The lock of a dead worker runs out; that of a live one only by a fault.
LockExpires(s) ==
    /\ lock[s] # NoOne
    /\ IF Renewed(s) THEN Fault("lock") ELSE UNCHANGED faults
    /\ lock' = [lock EXCEPT ![s] = NoOne]
    /\ UNCHANGED <<rowVars, apiVars, job, made, stalled, wkVars, slots, runs>>

AfterStall(s) == IF stalled[s] < MaxStalled THEN "waiting" ELSE "failed"

StalledCheck(s) ==
    /\ job[s] = "active"
    /\ lock[s] = NoOne
    /\ stalled' = [stalled EXCEPT ![s] = @ + 1]
    /\ job' = [job EXCEPT ![s] = AfterStall(s)]
    /\ UNCHANGED <<rowVars, apiVars, made, lock, wkVars, slots, runs, faults>>

\* Mutant: without the attempts option.
AfterReject_Unlimited(s) == "delayed"

AfterReject(s) == IF made[s] + 1 < Attempts THEN "delayed" ELSE "failed"

\* The attempt's promise has settled.  Without its lock the worker may not
\* move the job, which stays active until the stalled check finds it.
Settle(w) ==
    LET s == at[w] IN
    /\ pc[w] = "settle"
    /\ IF lock[s] = w
       THEN /\ lock' = [lock EXCEPT ![s] = NoOne]
            /\ \/ /\ outcome[w] = "resolve"
                  /\ job' = [job EXCEPT ![s] = "completed"]
                  /\ UNCHANGED made
               \/ /\ outcome[w] = "reject"
                  /\ made' = [made EXCEPT ![s] = @ + 1]
                  /\ job' = [job EXCEPT ![s] = AfterReject(s)]
       ELSE UNCHANGED <<job, made, lock>>
    /\ pc' = [pc EXCEPT ![w] = "idle"]
    /\ at' = [at EXCEPT ![w] = NoOne]
    /\ outcome' = [outcome EXCEPT ![w] = "none"]
    /\ UNCHANGED <<rowVars, apiVars, stalled, slots, runs, faults>>

-------------------------------------------------------------------------------
(***************************************************************************)
(* process(job), from its first await to the limiter.                      *)
(***************************************************************************)

Goto(w, label) == pc' = [pc EXCEPT ![w] = label]

EndWith(w, label, o) == Goto(w, label) /\ outcome' = [outcome EXCEPT ![w] = o]

\* Mutants: only one of the two final statuses is skipped.
Skipped_NotCompleted == {"CANCELLED"}
Skipped_NotCancelled == {"COMPLETED"}

\* A delivered job is skipped when its scan has one of these.
Skipped == {"CANCELLED", "COMPLETED"}

Read(w) ==
    /\ pc[w] = "read"
    /\ IF status[at[w]] \in Skipped
       THEN EndWith(w, "settle", "resolve")
       ELSE Goto(w, "acquire") /\ UNCHANGED outcome
    /\ UNCHANGED <<rowVars, apiVars, queueVars, at, slots, runs, faults>>

\* Mutant: off by one at the limit.
Admits_OneTooMany == slots <= MaxPerOrg

\* The count after the INCR is not above the limit.
Admits == slots < MaxPerOrg

\* INCR; above the limit the increment is taken back in a second command.
Acquire(w) ==
    /\ pc[w] = "acquire"
    /\ slots' = slots + 1
    /\ Goto(w, IF Admits THEN "start" ELSE "backoff")
    /\ UNCHANGED <<rowVars, apiVars, queueVars, at, outcome, runs, faults>>

\* Mutants: the refused increment is not taken back; process waits for a
\* slot instead of throwing; process returns instead of throwing.
Backoff_KeepsSlot(w) ==
    /\ pc[w] = "backoff"
    /\ EndWith(w, "settle", "reject")
    /\ UNCHANGED <<rowVars, apiVars, queueVars, at, slots, runs, faults>>

Backoff_Waits(w) ==
    /\ pc[w] = "backoff"
    /\ slots' = slots - 1
    /\ Goto(w, "acquire")
    /\ UNCHANGED <<rowVars, apiVars, queueVars, at, outcome, runs, faults>>

Refusal_Returned == "resolve"

Refusal == "reject"

\* The refusal is thrown outside the try block: the attempt is spent and the
\* row keeps the status it had.
Backoff(w) ==
    /\ pc[w] = "backoff"
    /\ slots' = slots - 1
    /\ EndWith(w, "settle", Refusal)
    /\ UNCHANGED <<rowVars, apiVars, queueVars, at, runs, faults>>

-------------------------------------------------------------------------------
(***************************************************************************)
(* The try block.                                                          *)
(***************************************************************************)

SetRunning(w) ==
    /\ status' = [status EXCEPT ![at[w]] = "RUNNING"]
    /\ runs' = [runs EXCEPT ![at[w]] = @ + 1]

Start(w) ==
    /\ pc[w] = "start"
    /\ SetRunning(w)
    /\ Goto(w, "scan")
    /\ UNCHANGED <<reports, apiVars, queueVars, at, outcome, slots, faults>>

\* The scan returns a result, or throws: unsafe URL, wall-clock timeout, error.
\* The result "cancelled" needs an abort, which only the timeout issues, and
\* then the timeout has rejected already.
Scan(w) ==
    /\ pc[w] = "scan"
    /\ \/ \E r \in {"completed", "failed"} : EndWith(w, "reread", r)
       \/ Goto(w, "catch") /\ UNCHANGED outcome
    /\ UNCHANGED <<rowVars, apiVars, queueVars, at, slots, runs, faults>>

\* The child dies of a signal, or exits with 0 and its reply cut off: its exit
\* clears the timer and settles nothing.
ChildLost(w) ==
    /\ pc[w] = "scan"
    /\ Fault("child")
    /\ Goto(w, "hung")
    /\ UNCHANGED <<rowVars, apiVars, queueVars, at, outcome, slots, runs>>

Reread(w) ==
    /\ pc[w] = "reread"
    /\ \/ /\ status[at[w]] = "CANCELLED"
          /\ EndWith(w, "release", "resolve")
       \/ /\ status[at[w]] # "CANCELLED"
          /\ Goto(w, IF outcome[w] = "failed" THEN "fail" ELSE "save")
          /\ UNCHANGED outcome
    /\ UNCHANGED <<rowVars, apiVars, queueVars, at, slots, runs, faults>>

\* A failed result is an answer: the attempt resolves and is not retried.
Fail(w) ==
    /\ pc[w] = "fail"
    /\ status' = [status EXCEPT ![at[w]] = "FAILED"]
    /\ EndWith(w, "release", "resolve")
    /\ UNCHANGED <<reports, apiVars, queueVars, at, slots, runs, faults>>

\* Mutant: the report is left for a second transaction.
Commit_ScanOnly(s) ==
    /\ UNCHANGED reports
    /\ status' = [status EXCEPT ![s] = "COMPLETED"]

\* One transaction inserts the report and completes the scan.
Commit(s) ==
    /\ reports' = reports \cup {s}
    /\ status' = [status EXCEPT ![s] = "COMPLETED"]

\* A second report violates the unique scanId: nothing is applied.
Save(w) ==
    /\ pc[w] = "save"
    /\ \/ /\ at[w] \notin reports
          /\ Commit(at[w])
          /\ EndWith(w, "release", "resolve")
       \/ /\ at[w] \in reports
          /\ Goto(w, "catch")
          /\ UNCHANGED <<rowVars, outcome>>
    /\ UNCHANGED <<apiVars, queueVars, at, slots, runs, faults>>

Catch(w) ==
    /\ pc[w] = "catch"
    /\ status' = [status EXCEPT ![at[w]] = "FAILED"]
    /\ EndWith(w, "release", "reject")
    /\ UNCHANGED <<reports, apiVars, queueVars, at, slots, runs, faults>>

\* DECR; a negative count is set back to 0 in a second command.
Release(w) ==
    /\ pc[w] = "release"
    /\ slots' = slots - 1
    /\ Goto(w, IF slots < 1 THEN "zero" ELSE "settle")
    /\ UNCHANGED <<rowVars, apiVars, queueVars, at, outcome, runs, faults>>

Zero(w) ==
    /\ pc[w] = "zero"
    /\ slots' = 0
    /\ Goto(w, "settle")
    /\ UNCHANGED <<rowVars, apiVars, queueVars, at, outcome, runs, faults>>

-------------------------------------------------------------------------------
(***************************************************************************)
(* What fails in a worker.                                                 *)
(***************************************************************************)

\* A statement of process(job) fails; a write may have been applied before
\* the connection broke.  Inside the try block this leads to the catch block,
\* in the catch block to the release, and before the try it rejects at once.
StatementFails(w) ==
    /\ Fault("db")
    /\ \/ /\ pc[w] = "read"
          /\ EndWith(w, "settle", "reject")
          /\ UNCHANGED <<rowVars, runs>>
       \/ /\ pc[w] \in {"start", "reread", "fail", "save"}
          /\ Goto(w, "catch")
          /\ \/ UNCHANGED <<rowVars, runs>>
             \/ pc[w] = "start" /\ SetRunning(w) /\ UNCHANGED reports
             \/ pc[w] = "fail" /\ status' = [status EXCEPT ![at[w]] = "FAILED"]
                               /\ UNCHANGED <<reports, runs>>
             \/ pc[w] = "save" /\ at[w] \notin reports /\ Commit(at[w]) /\ UNCHANGED runs
          /\ UNCHANGED outcome
       \/ /\ pc[w] = "catch"
          /\ EndWith(w, "release", "reject")
          /\ \/ UNCHANGED status
             \/ status' = [status EXCEPT ![at[w]] = "FAILED"]
          /\ UNCHANGED <<reports, runs>>
    /\ UNCHANGED <<apiVars, queueVars, at, slots>>

\* A limiter command fails after the client has sent it 0, 1 or 2 times; the
\* error rejects the attempt, also from the finally block.
LimiterFails(w) ==
    /\ Fault("redis")
    /\ \E sent \in 0..2 :
          \/ pc[w] = "acquire" /\ slots' = slots + sent
          \/ pc[w] \in {"backoff", "release"} /\ slots' = slots - sent
          \/ pc[w] = "zero" /\ slots' = IF sent = 0 THEN slots ELSE 0
    /\ EndWith(w, "settle", "reject")
    /\ UNCHANGED <<rowVars, apiVars, queueVars, at, runs>>

WorkerDies(w) ==
    /\ pc[w] # "idle"
    /\ Fault("worker")
    /\ pc' = [pc EXCEPT ![w] = "idle"]
    /\ at' = [at EXCEPT ![w] = NoOne]
    /\ outcome' = [outcome EXCEPT ![w] = "none"]
    /\ UNCHANGED <<rowVars, apiVars, queueVars, slots, runs>>

\* EXPIRE is issued only by the INCR that created the key, so a counter that
\* never drains is deleted an hour later with its holders still running.
SlotKeyExpires ==
    /\ slots # 0
    /\ Fault("expiry")
    /\ slots' = 0
    /\ UNCHANGED <<rowVars, apiVars, queueVars, wkVars, runs>>

-------------------------------------------------------------------------------
(***************************************************************************)
(* The reaper.  startedAt is written by Start, and an attempt is in "scan" *)
(* for at most the wall-clock timeout (10 minutes): a row whose startedAt  *)
(* is older than the threshold (20 minutes) has no attempt in "scan".      *)
(***************************************************************************)

\* Mutant: a row is not reaped while any worker holds its job.
Stuck_Unattended ==
    { s \in Scans : status[s] = "RUNNING" /\ \A w \in Workers : at[w] # s }

Stuck ==
    { s \in Scans : /\ status[s] = "RUNNING"
                    /\ \A w \in Workers : at[w] = s => pc[w] # "scan" }

\* One updateMany fails the rows that are past the threshold.
Reap ==
    /\ \E old \in (SUBSET Stuck) \ {{}} :
          status' = [s \in Scans |-> IF s \in old THEN "FAILED" ELSE status[s]]
    /\ UNCHANGED <<reports, apiVars, queueVars, wkVars, slots, runs, faults>>

-------------------------------------------------------------------------------

Request(s) ==
    \/ Create(s) \/ Enqueue(s) \/ EnqueueFails(s) \/ MarkEnqueueFailed(s) \/ SubmitDies(s)
    \/ CancelRead(s) \/ CancelRemove(s) \/ CancelWrite(s) \/ CancelDies(s)

Queue(s) == BackoffElapses(s) \/ LockExpires(s) \/ StalledCheck(s)

\* process(job) without faults.
Process(w) ==
    \/ Read(w) \/ Acquire(w) \/ Backoff(w)
    \/ Start(w) \/ Scan(w) \/ Reread(w) \/ Fail(w) \/ Save(w) \/ Catch(w)
    \/ Release(w) \/ Zero(w) \/ Settle(w)

WorkerFault(w) ==
    \/ ChildLost(w) \/ StatementFails(w) \/ LimiterFails(w) \/ WorkerDies(w)

Next ==
    \/ \E s \in Scans : Request(s)
    \/ \E s \in Scans : Queue(s)
    \/ \E w \in Workers, s \in Scans : Deliver(w, s)
    \/ \E w \in Workers : Process(w)
    \/ \E w \in Workers : WorkerFault(w)
    \/ SlotKeyExpires
    \/ Reap

Spec == Init /\ [][Next]_vars

\* A worker that is alive keeps executing (Node's event loop), BullMQ keeps
\* delivering, promoting and checking, a dead worker's lock runs out, and the
\* reaper's interval keeps firing.  Nothing is assumed of users, and nothing
\* of the requests: a client's request may be the last step the API takes.
Fairness ==
    /\ \A w \in Workers : WF_vars(Process(w))
    /\ \A s \in Scans : /\ WF_vars(\E w \in Workers : Deliver(w, s))
                        /\ WF_vars(BackoffElapses(s))
                        /\ WF_vars(StalledCheck(s))
                        /\ WF_vars(lock[s] # NoOne /\ ~ Renewed(s) /\ LockExpires(s))
    /\ WF_vars(Reap)

FairSpec == Spec /\ Fairness

-------------------------------------------------------------------------------
(***************************************************************************)
(* Safety.                                                                 *)
(***************************************************************************)

On(s) == { w \in Workers : at[w] = s }

\* Workers past a successful acquire and before the release.
Holders == { w \in Workers : pc[w] \in InTry }

\* Workers whose INCR is in the counter.
Counted == { w \in Workers : pc[w] \in InTry \cup {"backoff"} }

\* "Limits concurrent RUNNING scans per organization": whatever dies between
\* acquire and release, and however INCR, DECR and the refusal's DECR
\* interleave, at most MaxPerOrg attempts are between them; only a command
\* applied twice or the loss of the key lets more in.
OrgLimitRespected ==
    NoFault({"redis", "expiry"}) => Cardinality(Holders) <= MaxPerOrg

\* Every increment is paid back on every path through process(job), the
\* early refusal and the finally block included: the counter is exact.
SlotsAccounted ==
    NoFault({"worker", "redis", "expiry"}) => slots = Cardinality(Counted)

\* A scan is run once per attempt, and once more per stall BullMQ allows:
\* redelivery, cancellation and the soft defer never add a run.
RunsBounded == \A s \in Scans : runs[s] <= Attempts + MaxStalled

\* The report and COMPLETED are written by one transaction and neither is
\* taken back apart: no interleaving leaves a COMPLETED scan without report.
CompletedHasReport == \A s \in Scans : status[s] = "COMPLETED" => s \in reports

\* Once the report is committed, crashes, redeliveries, the reaper and failed
\* requests leave the scan COMPLETED (or CANCELLED, by a late cancel): process
\* skips a scan it finds completed, so nothing runs it again or fails it.
CommittedStays ==
    NoFault({"lock", "db", "reply"}) =>
        \A s \in Scans : s \in reports => status[s] \in {"COMPLETED", "CANCELLED"}

\* While locks are renewed, a scan is never processed by two workers at once,
\* although a worker may die at any step and its job be handed out again.
OneAttemptAtATime ==
    NoFault({"lock"}) =>
        \A s \in Scans : \A v, w \in On(s) : v = w

\* A job BullMQ counts as completed leaves a finished scan: every path on which
\* process(job) resolves has found or written a final status.
FinishedJobFinishedScan ==
    NoFault({"lock"}) =>
        \A s \in Scans : job[s] = "completed" => status[s] \in Ended

\* A QUEUED scan is still on its way: its request is under way, its job is
\* live, or a cancel is about to be written.  It is stranded only if the
\* request died or the tick failed to enqueue it, or if BullMQ gave its job up.
QueuedIsAccountedFor ==
    NoFault({"api"}) =>
        \A s \in Scans : status[s] = "QUEUED" =>
            \/ submit[s] \in {"enqueue", "tick", "catch", "lost"}
            \/ cancel[s] = "write"
            \/ job[s] \in Live
            \/ job[s] = "failed" /\ (made[s] = Attempts \/ stalled[s] > MaxStalled)

\* A cancelled scan with no attempt past its first read and no enqueue that
\* might still fail.
AtRest(s) ==
    /\ status[s] = "CANCELLED"
    /\ submit[s] \notin {"enqueue", "catch"}
    /\ \A w \in On(s) : pc[w] \in {"read", "settle"}

\* Once a cancelled scan is at rest it stays so for ever: a job that is left in
\* the queue, retried or redelivered finds CANCELLED and is skipped.
CancelledAtRest == [][ \A s \in Scans : AtRest(s) => AtRest(s)' ]_vars

-------------------------------------------------------------------------------
(***************************************************************************)
(* Liveness, under FairSpec.                                               *)
(***************************************************************************)

\* No scan stays RUNNING for good: its attempts end or the reaper fails it,
\* also when its worker died, hangs, or lost the database.
RunningEnds == \A s \in Scans : status[s] = "RUNNING" ~> status[s] # "RUNNING"

\* A queued job is eventually completed, removed or given up: deferrals and
\* redeliveries do not go on for ever.  Only a worker hanging on a lost child,
\* which keeps the job's lock, can keep it from ending.
JobEnds ==
    \A s \in Scans : job[s] \in Live ~>
        (job[s] \notin Live \/ \E w \in Workers : pc[w] = "hung")

-------------------------------------------------------------------------------
(***************************************************************************)
(* What the repository says of the program and the code does not do.       *)
(***************************************************************************)

\* scans.service.ts:417 "Cannot cancel scan in status ${scan.status}": a
\* COMPLETED scan is not cancelled.
CompletedIsNotCancelled ==
    [][ \A s \in Scans : status[s] = "COMPLETED" => status'[s] # "CANCELLED" ]_vars

\* scan.processor.ts:131 "Soft defer: throw so BullMQ retries with backoff":
\* a scan deferred at the organization's limit is retried, so that one still
\* QUEUED without any fault has a live job or is about to have one.
DeferredIsRetried ==
    NoFault(FaultKinds) =>
        \A s \in Scans :
            status[s] = "QUEUED" /\ cancel[s] = "idle" /\ submit[s] = "done" => job[s] \in Live

===============================================================================
