------------------------------- MODULE ScanCall -------------------------------
(***************************************************************************)
(* What process(job) sees of the scan it awaits: the call returns with a   *)
(* result, throws, or hangs for good.  These are the steps Scan and        *)
(* ChildLost of ScanPipeline; ScanAttempt shows that both ways to run the  *)
(* scanner implement them.                                                 *)
(***************************************************************************)
CONSTANT MayHang    \* whether the call may hang

VARIABLE call

Init == call = "scan"

Next ==
    /\ call = "scan"
    /\ \/ call' \in {"completed", "failed", "thrown"}
       \/ MayHang /\ call' = "hung"

Spec == Init /\ [][Next]_call /\ WF_call(Next)

===============================================================================
