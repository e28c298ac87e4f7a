---------------------------- MODULE MCScanPipeline ----------------------------
(***************************************************************************)
(* Small instances of ScanPipeline for TLC.                                *)
(***************************************************************************)
EXTENDS ScanPipeline, TLC, FiniteSetsExt

CONSTANT MaxFaultsInAll    \* bound on the faults of one behaviour

UpTo(n, kinds) == [k \in FaultKinds |-> IF k \in kinds THEN n ELSE 0]

\* Every kind of fault, the death of a worker twice.
AnyFault == [UpTo(1, FaultKinds) EXCEPT !["worker"] = 2]

NoFaults == UpTo(0, FaultKinds)

\* State constraint: combinations of at most so many faults.  Only a fault leads
\* to a state beyond it and no fault is fair, so it can be used with liveness:
\* what it cuts off are behaviours the fairness does not ask for.
FewFaults == MapThenSumSet(LAMBDA k : faults[k], FaultKinds) <= MaxFaultsInAll

===============================================================================
