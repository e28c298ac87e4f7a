----------------------------- MODULE MCOrgLimiter -----------------------------
(***************************************************************************)
(* Small instances of OrgLimiter for TLC.                                  *)
(***************************************************************************)
EXTENDS OrgLimiter, TLC

WorkerSymmetry == Permutations(Workers)

===============================================================================
