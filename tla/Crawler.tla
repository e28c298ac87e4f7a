-------------------------------- MODULE Crawler --------------------------------
(***************************************************************************)
(* One scan of a site as the scanner library runs it: scan() of lib/scan   *)
(* with crawlSite() and its pool of fetches.  The crawl is breadth first,  *)
(* level by level; the pages of a level are fetched concurrently and       *)
(* handed to the rules one after the other, in the order of the level.     *)
(*                                                                         *)
(* Paths stands for the normalized paths of the site (urlNormalizer), so a *)
(* link that is relative, repeated or slashed is the path it resolves to.  *)
(* The start URL is crawled as given: Start is its path, Home that path    *)
(* normalized, and the two differ when it ends in a slash.                 *)
(*                                                                         *)
(* Beside the pages a scan requests robots.txt and sitemaps before the     *)
(* crawl, and assets and well-known paths after it.  Of these only how     *)
(* many are sent matters here; what they say is an input, or in Findings.  *)
(***************************************************************************)
EXTENDS Naturals, Sequences, FiniteSets, SequencesExt

CONSTANTS
    Paths,         \* the normalized paths that links may lead to
    Start, Home,   \* the start URL's path, as given and normalized
    Sites,         \* the sites considered: the links of each path, in order
    Sitemap,       \* the paths its sitemap lists, <<>> unless useSitemap
    Banned,        \* the paths robots.txt disallows, {} unless respected
    Excluded,      \* the paths the include and exclude patterns leave out
    MaxDepth, MaxPages, Concurrency,
    MaxLookups,    \* the most requests for robots.txt and sitemaps
    MaxProbes      \* the most requests of checkAssets and checkExposedPaths

ASSUME ConstantsAssumption ==
    /\ Home \in Paths
    /\ Start = Home \/ Start \notin Paths
    /\ Sites \subseteq [Paths -> Seq(Paths)]
    /\ Sitemap \in Seq(Paths)
    /\ Banned \subseteq Paths
    /\ Excluded \subseteq Paths
    /\ MaxDepth \in Nat
    /\ MaxPages \in Nat \ {0}
    /\ Concurrency \in Nat \ {0}
    /\ MaxLookups \in Nat
    /\ MaxProbes \in Nat

VARIABLES
    site,        \* the links of each path; no step changes it
    stage,       \* where the crawl stands
    depth,       \* the depth of the current level
    level,       \* the paths found for it
    batch,       \* those of them the page budget lets it fetch
    next,        \* the first index of batch no fetch has taken
    waiting,     \* the indices whose fetch waits for the rate limiter
    fetching,    \* the indices being fetched
    fetched,     \* the indices fetched, in the order they came in
    visited,     \* the paths seen anywhere in the crawl
    blocked,     \* robotsBlockedCount
    truncated,   \* some path was left out for the page budget
    pages,       \* the pages handed to the rules, in order
    aborted,     \* the caller's signal
    result,      \* the status scan() returns
    asked,       \* history: the requests sent for each path
    lookups,     \* the requests sent for robots.txt and sitemaps
    probed       \* the requests sent by checkAssets and checkExposedPaths

levelVars == <<depth, level, batch, visited, blocked, truncated>>
poolVars  == <<next, waiting, fetching, fetched>>
unsignalled == <<lookups, probed>>
vars == <<site, stage, levelVars, poolVars, pages, aborted, result, asked, unsignalled>>

TypeOK ==
    /\ site \in [Paths -> Seq(Paths)]
    /\ stage \in {"discover", "level", "fetch", "pages", "checks"}
    /\ depth \in 0..(MaxDepth + 1)
    /\ level \in Seq(Paths \cup {Start})
    /\ level # <<>> => depth <= MaxDepth
    /\ batch \in Seq(Paths \cup {Start})
    /\ next \in Nat
    /\ waiting \subseteq DOMAIN batch
    /\ fetching \subseteq DOMAIN batch
    /\ fetched \in Seq(DOMAIN batch)
    /\ visited \subseteq Paths \cup {Start}
    /\ blocked \in Nat
    /\ truncated \in BOOLEAN
    /\ pages \in Seq([path : Paths \cup {Start}, depth : 0..MaxDepth])
    /\ aborted \in BOOLEAN
    /\ result \in {"none", "completed", "partial", "cancelled", "failed"}
    /\ asked \in [Paths \cup {Start} -> Nat]
    /\ lookups \in 0..MaxLookups
    /\ probed \in 0..MaxProbes

Init ==
    /\ site \in Sites
    /\ stage = "discover"
    /\ depth = 0
    /\ level = <<Start>>
    /\ batch = <<>>
    /\ next = 1
    /\ waiting = {}
    /\ fetching = {}
    /\ fetched = <<>>
    /\ visited = {Start}
    /\ blocked = 0
    /\ truncated = FALSE
    /\ pages = <<>>
    /\ aborted = FALSE
    /\ result = "none"
    /\ asked = [p \in Paths \cup {Start} |-> 0]
    /\ lookups = 0
    /\ probed = 0

Running == result = "none"

\* Mutant: the AbortError is caught and dropped.
Cancel_Swallowed == UNCHANGED result

\* An AbortError reaches scan(), which has returned already or does so now.
Cancel == result' = IF Running THEN "cancelled" ELSE result

\* The caller's wall-clock timeout aborts the signal.
Abort ==
    /\ ~ aborted
    /\ aborted' = TRUE
    /\ UNCHANGED <<site, stage, levelVars, poolVars, pages, result, asked, unsignalled>>

\* One of the requests for robots.txt, the sitemaps and what an index of them
\* lists.  The HTTP client is called without the signal, and nobody looks at it.
Lookup ==
    /\ Running /\ stage = "discover"
    /\ lookups < MaxLookups
    /\ lookups' = lookups + 1
    /\ UNCHANGED <<site, stage, levelVars, poolVars, pages, aborted, result, asked, probed>>

\* They have been answered; one that fails counts as empty.
Discover ==
    /\ Running /\ stage = "discover"
    /\ stage' = "level"
    /\ UNCHANGED <<site, levelVars, poolVars, pages, aborted, result, asked, unsignalled>>

-------------------------------------------------------------------------------
(***************************************************************************)
(* A level is fetched by a pool of at most Concurrency fetches.            *)
(***************************************************************************)

Smaller(m, n) == IF m < n THEN m ELSE n

\* Mutant: the budget is not reduced by the pages of earlier levels.
Budget_PerLevel == MaxPages

\* The pages that may still be fetched.
Budget == MaxPages - Len(pages)

\* The pool starts with the first indices of the batch.
StartLevel ==
    /\ Running /\ stage = "level" /\ ~ aborted
    /\ level # <<>> /\ Budget > 0
    /\ batch' = SubSeq(level, 1, Smaller(Len(level), Budget))
    /\ truncated' = (truncated \/ Len(batch') < Len(level))
    /\ waiting' = 1..Smaller(Concurrency, Len(batch'))
    /\ next' = Smaller(Concurrency, Len(batch')) + 1
    /\ fetching' = {}
    /\ fetched' = <<>>
    /\ stage' = "fetch"
    /\ UNCHANGED <<site, depth, level, visited, blocked, pages, aborted, result, asked, unsignalled>>

\* Mutant: the signal is not looked at again after the wait.
Denied_BeforeWaitOnly == FALSE

\* The check between the rate limiter and the request.
Denied == aborted

\* The rate limiter lets the fetch of index i go.
Request(i) ==
    /\ i \in waiting
    /\ waiting' = waiting \ {i}
    /\ IF Denied
       THEN Cancel /\ UNCHANGED <<fetching, asked>>
       ELSE /\ fetching' = fetching \cup {i}
            /\ asked' = [asked EXCEPT ![batch[i]] = @ + 1]
            /\ UNCHANGED result
    /\ UNCHANGED <<site, stage, levelVars, next, fetched, pages, aborted, unsignalled>>

\* The page of index i is there, or its fetch failed and there is an empty
\* page; either way the same worker takes the next index.
Receive(i) ==
    /\ i \in fetching
    /\ fetching' = fetching \ {i}
    /\ fetched' = Append(fetched, i)
    /\ IF next > Len(batch)
       THEN UNCHANGED <<next, waiting, result>>
       ELSE /\ next' = next + 1
            /\ IF aborted THEN Cancel /\ UNCHANGED waiting
                          ELSE waiting' = waiting \cup {next} /\ UNCHANGED result
    /\ UNCHANGED <<site, stage, levelVars, pages, aborted, asked, unsignalled>>

\* All fetches of the batch are in.
Collect ==
    /\ Running /\ stage = "fetch"
    /\ Len(fetched) = Len(batch)
    /\ stage' = "pages"
    /\ UNCHANGED <<site, levelVars, poolVars, pages, aborted, result, asked, unsignalled>>

-------------------------------------------------------------------------------
(***************************************************************************)
(* The pages of a level are handed to the rules, then their links make up  *)
(* the next level.                                                         *)
(***************************************************************************)

\* Mutant: results are pushed as they come in.
ResultAt_Pushed(i) == batch[fetched[i]]

\* Results are stored at the index of their item.
ResultAt(i) == batch[i]

\* The pages of the batch handed on so far: the earlier levels have the rest.
Handed == Cardinality({ i \in DOMAIN pages : pages[i].depth = depth })

OnPage ==
    /\ Running /\ stage = "pages"
    /\ Handed < Len(batch)
    /\ IF aborted
       THEN Cancel /\ UNCHANGED pages
       ELSE /\ pages' = Append(pages, [path |-> ResultAt(Handed + 1), depth |-> depth])
            /\ UNCHANGED result
    /\ UNCHANGED <<site, stage, levelVars, poolVars, aborted, asked, unsignalled>>

LinksOf(p) == site[IF p = Start THEN Home ELSE p]

AtLimit == depth >= MaxDepth

\* What the batch leads to: nothing at the depth limit; below it the links of
\* its pages, and below the start page what the sitemap lists.
Found ==
    IF AtLimit THEN <<>>
    ELSE FlattenSeq([i \in DOMAIN batch |-> LinksOf(batch[i])])
         \o IF depth = 0 THEN Sitemap ELSE <<>>

Remember(seen, p) == seen \cup {p}

\* addCandidate: the state of the next level after considering path p.
AddCandidate(acc, p) ==
    IF Len(acc.level) >= MaxPages \/ p \in acc.visited \/ p \in Excluded THEN acc
    ELSE IF p \in Banned
    THEN [acc EXCEPT !.visited = @ \cup {p}, !.blocked = @ + 1]
    ELSE [acc EXCEPT !.visited = Remember(@, p), !.level = Append(@, p)]

NextLevel ==
    FoldLeft(AddCandidate, [level |-> <<>>, visited |-> visited, blocked |-> blocked], Found)

FollowLinks ==
    /\ Running /\ stage = "pages"
    /\ Handed = Len(batch)
    /\ level' = NextLevel.level
    /\ visited' = NextLevel.visited
    /\ blocked' = NextLevel.blocked
    /\ depth' = depth + 1
    /\ stage' = "level"
    /\ UNCHANGED <<site, batch, truncated, poolVars, pages, aborted, result, asked, unsignalled>>

-------------------------------------------------------------------------------

\* Mutants: only a batch cut short counts as truncated; spending the budget
\* counts, whether or not anything is left.
LeftOver_Ignored == FALSE
LeftOver_BudgetSpent == Budget = 0

\* The budget is spent and paths are left.
LeftOver == level # <<>>

\* The loop ends: no path is left, or no budget.
EndCrawl ==
    /\ Running /\ stage = "level"
    /\ level = <<>> \/ Budget = 0
    /\ truncated' = (truncated \/ LeftOver)
    /\ stage' = "checks"
    /\ UNCHANGED <<site, depth, level, batch, visited, blocked, poolVars, pages, aborted, result, asked, unsignalled>>

\* The head of the loop finds the signal aborted.
StopAtLevel ==
    /\ Running /\ stage = "level" /\ aborted
    /\ level # <<>> /\ Budget > 0
    /\ Cancel
    /\ UNCHANGED <<site, stage, levelVars, poolVars, pages, aborted, asked, unsignalled>>

\* One of the requests of checkAssets and checkExposedPaths, when asked for; they
\* do not see the signal either, and one that fails counts as no answer.
Probe ==
    /\ Running /\ stage = "checks"
    /\ probed < MaxProbes
    /\ probed' = probed + 1
    /\ UNCHANGED <<site, stage, levelVars, poolVars, pages, aborted, result, asked, lookups>>

\* All of them are back; the final rules, then the result.
Finish ==
    /\ Running /\ stage = "checks"
    /\ result' = IF truncated THEN "partial" ELSE "completed"
    /\ UNCHANGED <<site, stage, levelVars, poolVars, pages, aborted, asked, unsignalled>>

\* Normalization, a rule or a check throws.
Throw ==
    /\ Running /\ stage \in {"pages", "checks"}
    /\ result' = IF aborted THEN "cancelled" ELSE "failed"
    /\ UNCHANGED <<site, stage, levelVars, poolVars, pages, aborted, asked, unsignalled>>

Crawl ==
    \/ Lookup \/ Discover \/ StartLevel \/ Collect \/ OnPage \/ FollowLinks
    \/ EndCrawl \/ StopAtLevel \/ Probe \/ Finish

Pool == \E i \in DOMAIN batch : Request(i) \/ Receive(i)

Next == Crawl \/ Pool \/ Abort \/ Throw

Spec == Init /\ [][Next]_vars

\* Node runs what is ready, the rate limiter's timer fires, and a fetch ends at
\* the HTTP client's timeout at the latest.
Fairness == WF_vars(Crawl) /\ WF_vars(Pool)

FairSpec == Spec /\ Fairness

-------------------------------------------------------------------------------
(***************************************************************************)
(* The reference: what a crawl of the site is, without levels, pool or     *)
(* order.                                                                  *)
(***************************************************************************)

Allowed(p) == p \notin Banned /\ p \notin Excluded

\* The paths at most n links away from the start page.
Within[n \in Nat] ==
    IF n = 0 THEN {Start}
    ELSE Within[n - 1]
         \cup { p \in Paths : /\ Allowed(p)
                              /\ \/ \E q \in Within[n - 1] : p \in Range(LinksOf(q))
                                 \/ p \in Range(Sitemap) }

\* How far a path is from the start page.
Distance(p) == CHOOSE n \in 0..MaxDepth : p \in Within[n] /\ \A m \in 0..(n - 1) : p \notin Within[m]

Scanned == { pages[i].path : i \in DOMAIN pages }

-------------------------------------------------------------------------------
(***************************************************************************)
(* Properties.                                                             *)
(***************************************************************************)

Requested == { p \in DOMAIN asked : asked[p] > 0 }

\* At most MaxPages pages requested in the whole crawl, Concurrency at a time,
\* also after an abort, when the other workers of the pool go on for a while;
\* and none twice for a path, whatever links lead to it at whatever depth.
RequestsBounded ==
    /\ Cardinality(Requested) <= MaxPages
    /\ Cardinality(fetching \cup waiting) <= Concurrency
    /\ \A p \in DOMAIN asked : asked[p] <= 1

\* A completed crawl has scanned exactly the allowed paths within MaxDepth
\* links of the start page, each at its distance; it does not depend on the
\* order in which fetches end.
CompletedIsComplete ==
    result = "completed" =>
        /\ Scanned = Within[MaxDepth]
        /\ \A i \in DOMAIN pages : pages[i].depth = Distance(pages[i].path)

\* A partial crawl has used its whole budget, left something out, and scanned
\* no path before a nearer one.
PartialIsNearest ==
    result = "partial" =>
        /\ Len(pages) = MaxPages
        /\ \E p \in Within[MaxDepth] : p \notin Scanned
        /\ \A p \in Within[MaxDepth] \ Scanned, q \in Scanned : Distance(q) <= Distance(p)

\* The pages of a level reach the rules in the order of the level, whichever
\* fetch ends first: two scans of a site give the same report.
ReportOrder ==
    stage = "pages" =>
        \A i \in 1..Handed : pages[Len(pages) - Handed + i].path = batch[i]

\* An abort puts an end to the pages: none is requested nor handed to the rules
\* any more, from whatever point of the crawl.  What is still sent does not see
\* the signal, and comes before the first page, or after the last one a crawl
\* without an abort would have been on.
AbortStopsPages ==
    [][ aborted =>
            /\ UNCHANGED <<asked, pages>>
            /\ lookups' # lookups => Requested = {}
            /\ probed' # probed => Len(pages) = MaxPages \/ Scanned = Within[MaxDepth] ]_vars

\* Every crawl ends, also on a site with cycles, and also when it is aborted.
CrawlEnds == <>(result # "none")

===============================================================================
