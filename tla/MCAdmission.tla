----------------------------- MODULE MCAdmission ------------------------------
(***************************************************************************)
(* Small instances of Admission for TLC.                                   *)
(***************************************************************************)
EXTENDS Admission, TLC

\* Bound: one of the websites is edited, verified, scheduled and scanned, with
\* at most two changes of its URL and its token, at
\* most one before its schedule runs; the other is there for the quota.
OneStudied ==
    LET Studied == { s \in Sites : token[s] # 0 \/ url[s] # 0 \/ s \in websites \ active
                                   \/ \E p \in Processes : about[p] = s } IN
    /\ Cardinality(Studied) <= 1
    /\ \A s \in Sites : token[s] + url[s] <= (IF lastRun[s] = Never THEN 2 ELSE 1)

Symmetry == Permutations(Callers) \cup Permutations(Tickers) \cup Permutations(Sites)

===============================================================================
