------------------------------ MODULE ScanAttempt ------------------------------
(***************************************************************************)
(* How one attempt runs the scanner, in either of its two ways:            *)
(*                                                                         *)
(*   inline   scan() runs in the worker, raced against the wall-clock      *)
(*            timer by withTimeout (scan.processor.ts); every page is      *)
(*            reported by an update of the row that nobody awaits          *)
(*   child    scan() runs in a forked process (scan-child-entrypoint.ts);  *)
(*            runScanInChild settles a promise from the child's message,   *)
(*            its exit, an error of the fork, or the timer                 *)
(*                                                                         *)
(* and the updates of the row that follow.  Events of one process reach    *)
(* the worker in any order: Node keeps none between a child's exit and the *)
(* messages it sent before.                                                *)
(***************************************************************************)
EXTENDS Naturals

CONSTANTS
    Modes,       \* the values of SCAN_ISOLATION considered
    MaxPages     \* the pages of the site

ASSUME ConstantsAssumption ==
    /\ Modes \subseteq {"inline", "child"}
    /\ MaxPages \in Nat

VARIABLES
    mode,       \* how this attempt runs the scanner; no step changes it
    scanner,    \* whether scan() is still running
    crawled,    \* the pages it has scanned
    emitting,   \* it has counted a page it has not reported yet (inline)
    aborted,    \* the signal withTimeout hands to scan()
    writes,     \* progress updates sent to the database (inline)
    reply,      \* the message from the child on its way to the worker
    exit,       \* how the child ended, "seen" once the worker knows
    timer,      \* the wall-clock timer
    promise,    \* what the attempt awaits: pending, or how it settled
    row         \* status and pagesScanned of the row

vars == <<mode, scanner, crawled, emitting, aborted, writes, reply, exit, timer, promise, row>>

Settled == {"completed", "failed", "thrown"}

TypeOK ==
    /\ mode \in Modes
    /\ scanner \in {"running", "ended"}
    /\ crawled \in 0..MaxPages
    /\ emitting \in BOOLEAN
    /\ aborted \in BOOLEAN
    /\ writes \subseteq 1..MaxPages
    /\ reply \in {"none", "lost"} \cup Settled
    /\ exit \in {"none", "zero", "error", "signal", "seen"}
    /\ timer \in {"armed", "cleared", "fired"}
    /\ promise \in {"pending"} \cup Settled
    /\ row \in [status : {"RUNNING", "COMPLETED", "FAILED"}, pages : 0..MaxPages]

Init ==
    /\ mode \in Modes
    /\ scanner = "running"
    /\ crawled = 0
    /\ emitting = FALSE
    /\ aborted = FALSE
    /\ writes = {}
    /\ reply = "none"
    /\ exit = "none"
    /\ timer = "armed"
    /\ promise = "pending"
    /\ row = [status |-> "RUNNING", pages |-> 0]

\* Mutant: the last event wins, as with a callback or a plain variable.
Settle_LastWins(o) == promise' = o

\* resolve() and reject() of a promise that has settled do nothing.
Settle(o) == promise' = IF promise = "pending" THEN o ELSE promise

\* clearTimeout of a timer that has fired does nothing.
ClearTimer == timer' = IF timer = "armed" THEN "cleared" ELSE timer

-------------------------------------------------------------------------------
(***************************************************************************)
(* scan(), in the worker or in the child.                                  *)
(***************************************************************************)

\* onPage looks at the signal, counts the page and runs its rules.
CountPage ==
    /\ scanner = "running" /\ ~ emitting
    /\ ~ aborted
    /\ crawled < MaxPages
    /\ crawled' = crawled + 1
    /\ emitting' = (mode = "inline")
    /\ UNCHANGED <<mode, scanner, aborted, writes, reply, exit, timer, promise, row>>

Reported == crawled

\* Then it reports the page, aborted or not; in a child there is no listener.
ReportPage ==
    /\ scanner = "running" /\ emitting
    /\ writes' = writes \cup {Reported}
    /\ emitting' = FALSE
    /\ UNCHANGED <<mode, scanner, crawled, aborted, reply, exit, timer, promise, row>>

\* A progress update is applied or fails, whenever the database gets to it.
ProgressLands(n) ==
    /\ n \in writes
    /\ writes' = writes \ {n}
    /\ \/ row' = [row EXCEPT !.pages = n]
       \/ UNCHANGED row
    /\ UNCHANGED <<mode, scanner, crawled, emitting, aborted, reply, exit, timer, promise>>

\* scan() ends inline: with a result, or by throwing before its try block.
\* Once aborted its result is "cancelled", and the promise has settled.
InlineEnds ==
    /\ mode = "inline"
    /\ scanner = "running" /\ ~ emitting
    /\ scanner' = "ended"
    /\ \E o \in Settled : Settle(o)
    /\ ClearTimer
    /\ UNCHANGED <<mode, crawled, emitting, aborted, writes, reply, exit, row>>

\* The child replies and exits: 0 after a result, 1 after an error.  The exit
\* does not wait for the reply to be written: a long one may be cut off.
ChildReplies ==
    /\ mode = "child"
    /\ scanner = "running"
    /\ scanner' = "ended"
    /\ \/ exit' = "zero" /\ reply' \in {"completed", "failed", "lost"}
       \/ exit' = "error" /\ reply' \in {"thrown", "lost"}
    /\ UNCHANGED <<mode, crawled, emitting, aborted, writes, timer, promise, row>>

\* The child ends without replying: an uncaught error, or a signal, which is
\* how V8 gives up when the heap is full.
ChildCrashes ==
    /\ mode = "child"
    /\ scanner = "running"
    /\ scanner' = "ended"
    /\ exit' \in {"error", "signal"}
    /\ UNCHANGED <<mode, crawled, emitting, aborted, writes, reply, timer, promise, row>>

-------------------------------------------------------------------------------
(***************************************************************************)
(* What the worker hears of it.                                            *)
(***************************************************************************)

\* child.on('message')
OnMessage ==
    /\ reply \in Settled
    /\ reply' = "none"
    /\ Settle(reply)
    /\ ClearTimer
    /\ UNCHANGED <<mode, scanner, crawled, emitting, aborted, writes, exit, row>>

\* An exit rejects only with a code, and one other than 0; a signal has none.
Rejects(how) == how = "error"

\* child.on('exit')
OnExit ==
    /\ exit \in {"zero", "error", "signal"}
    /\ exit' = "seen"
    /\ IF Rejects(exit) THEN Settle("thrown") ELSE UNCHANGED promise
    /\ ClearTimer
    /\ UNCHANGED <<mode, scanner, crawled, emitting, aborted, writes, reply, row>>

\* child.on('error'): the process could not be forked, or sent its payload.
OnError ==
    /\ mode = "child"
    /\ crawled = 0 /\ exit = "none" /\ reply = "none" /\ timer = "armed"
    /\ scanner' = "ended"
    /\ exit' = "seen"
    /\ Settle("thrown")
    /\ ClearTimer
    /\ UNCHANGED <<mode, crawled, emitting, aborted, writes, reply, row>>

\* Mutant: the timer rejects the promise without stopping the scan.
Stop_Nothing == UNCHANGED <<aborted, scanner, exit>>

\* What the timer does to the scan: it aborts it, or kills its process.
Stop ==
    \/ mode = "inline" /\ aborted' = TRUE /\ UNCHANGED <<scanner, exit>>
    \/ /\ mode = "child"
       /\ IF scanner = "running" THEN scanner' = "ended" /\ exit' = "signal"
                                 ELSE UNCHANGED <<scanner, exit>>
       /\ UNCHANGED aborted

OnTimeout ==
    /\ timer = "armed"
    /\ timer' = "fired"
    /\ Stop
    /\ Settle("thrown")
    /\ UNCHANGED <<mode, crawled, emitting, writes, reply, row>>

-------------------------------------------------------------------------------
(***************************************************************************)
(* The update of the row that process(job) goes on to.                     *)
(***************************************************************************)

EndRow ==
    /\ row.status = "RUNNING"
    /\ \/ promise = "completed" /\ row' = [status |-> "COMPLETED", pages |-> crawled]
       \/ promise = "failed" /\ row' = [status |-> "FAILED", pages |-> 0]
       \/ promise = "thrown" /\ row' = [row EXCEPT !.status = "FAILED"]
    /\ UNCHANGED <<mode, scanner, crawled, emitting, aborted, writes, reply, exit, timer, promise>>

Scanner == CountPage \/ ReportPage \/ InlineEnds \/ ChildReplies \/ ChildCrashes
Progress == \E n \in writes : ProgressLands(n)

Next ==
    \/ Scanner \/ Progress \/ OnMessage \/ OnExit \/ OnError \/ OnTimeout
    \/ EndRow

Spec == Init /\ [][Next]_vars

\* Events are delivered, timers fire and the database answers.  Of scan() it is
\* assumed only that it notices an abort: a scan may well never end by itself.
\* Its requests that do not see the signal (Crawler) are few, and each has a
\* timeout of its own.
Fairness ==
    /\ WF_vars(OnMessage) /\ WF_vars(OnExit) /\ WF_vars(OnTimeout)
    /\ WF_vars(EndRow) /\ WF_vars(Progress)
    /\ WF_vars(aborted /\ (ReportPage \/ InlineEnds))

FairSpec == Spec /\ Fairness

-------------------------------------------------------------------------------
(***************************************************************************)
(* Properties.                                                             *)
(***************************************************************************)

\* The child has ended, the worker knows and has cleared its timer, and there
\* is nothing left that would settle the promise.
Silent ==
    /\ mode = "child" /\ promise = "pending"
    /\ exit = "seen" /\ reply \notin Settled /\ timer # "fired"

\* What process(job) sees of the attempt.
Seen == IF Silent THEN "hung" ELSE IF promise = "pending" THEN "scan" ELSE promise

Call == INSTANCE ScanCall WITH MayHang <- TRUE, call <- Seen

\* Either way of running the scanner is the call ScanPipeline describes: it
\* settles once, whatever comes later, or hangs for good; and one of the two
\* happens, even if the scan itself never ends.
ImplementsScanCall == Call!Spec

\* No timer survives the attempt, to kill or abort what runs later.
NoStrayTimer == promise # "pending" => timer # "armed"

\* A scan that is too long is stopped, not just forgotten: it does not go on
\* fetching beside the retry of its attempt.
TimeoutStopsScan == timer = "fired" ~> scanner = "ended"

\* scan-child-runner.ts:18 "The child is killed on wall-clock timeout": an
\* isolated scan is over after the timeout at the latest.
ChildScanSettles == <>(promise # "pending")

===============================================================================
