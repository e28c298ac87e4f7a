------------------------------- MODULE MCCrawler -------------------------------
(***************************************************************************)
(* Small instances of Crawler for TLC.  Paths are numbers, so that a set   *)
(* of links has one order.                                                 *)
(***************************************************************************)
EXTENDS Crawler

\* The sets of at most n links the page of p may have to other pages.
LinkSets(p, n) == UNION { kSubset(k, Paths \ {p}) : k \in 0..n }

\* Every site whose pages 1 and 2 have up to two links, page 4 up to one, and
\* the others none.
SmallSites ==
    { [p \in Paths |-> SetToSortSeq(CASE p = 1 -> a [] p = 2 -> b [] p = 4 -> c [] OTHER -> {}, <)] :
        a \in LinkSets(1, 2), b \in LinkSets(2, 2), c \in LinkSets(4, 1) }

ThirdAndLast == <<3, Cardinality(Paths)>>

===============================================================================
