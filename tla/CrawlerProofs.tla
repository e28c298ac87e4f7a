---------------------------- MODULE CrawlerProofs -----------------------------
(***************************************************************************)
(* Proofs about a crawl, for every site, budget, depth and pool: how many  *)
(* requests it sends, which pages a completed crawl and a partial one have *)
(* been on, the order of the report, and what an abort puts an end to.     *)
(*                                                                         *)
(* The levels are compared with Within, which knows neither levels nor     *)
(* pool: level d is what is d links from the start page and no nearer, as  *)
(* long as nothing was left out (LevelInv); what is left out is left out   *)
(* because the budget is spent (EndInv).  What a level holds is a fold of  *)
(* addCandidate over the links of the level before it, so the lemmas begin *)
(* with induction over the numbers and over the fold.                      *)
(***************************************************************************)
EXTENDS Crawler, FiniteSetTheorems, SequenceTheorems, TLAPS

\* What is nearer to the start page than n links, and what is n links away.
Nearer(n) == IF n = 0 THEN {} ELSE Within[n - 1]
At(n) == Within[n] \ Nearer(n)

\* The paths of the levels before the current one.
EarlierPaths == { pages[i].path : i \in { j \in DOMAIN pages : pages[j].depth < depth } }

\* Nothing has been left out of the levels up to the current one.
Whole == ~ truncated \/ stage \in {"fetch", "pages"}

\* Every page is listed once, and at its distance.
PagesPlaced ==
    /\ \A i \in DOMAIN pages : pages[i].path \in At(pages[i].depth)
    /\ \A i, j \in DOMAIN pages : pages[i].path = pages[j].path => i = j

\* The levels behind are complete, and the current one is of what is next.  All
\* of what is next, unless it has become as long as a level may; the budget, of
\* which the start page has had its part, then does not suffice for it.
EarlierComplete == Whole => EarlierPaths = Nearer(depth)
LevelPlaced == Whole => IsInjective(level) /\ Range(level) \subseteq At(depth)
LevelComplete ==
    ~ truncated /\ depth <= MaxDepth /\ (depth = 0 \/ Len(level) < MaxPages)
        => Range(level) = At(depth)

\* The paths seen are those of the levels so far, and some that are not allowed.
Seen ==
    /\ Start \in visited
    /\ Whole => \A p \in Paths :
                    Allowed(p) => (p \in visited <=> p \in Nearer(depth) \cup Range(level))

\* The batch is the part of the level that the budget has room for.
BatchOfLevel ==
    stage \in {"fetch", "pages"} =>
        /\ level # <<>> /\ Len(batch) \in 1..Len(level)
        /\ \A i \in DOMAIN batch : batch[i] = level[i]
        /\ Handed <= Len(batch)
        /\ Len(pages) - Handed + Len(batch) <= MaxPages
        /\ IF truncated
           THEN Len(batch) < Len(level) /\ Len(pages) - Handed + Len(batch) = MaxPages
           ELSE Len(batch) = Len(level)

\* A crawl that was cut off has spent its budget on what is nearest.
CutOff ==
    truncated /\ stage \notin {"fetch", "pages"} =>
        /\ Len(pages) = MaxPages
        /\ \E n \in 0..MaxDepth :
              /\ Nearer(n) \subseteq Scanned /\ Scanned \subseteq Within[n]
              /\ \E p \in Within[n] : p \notin Scanned

\* One that was not has come to a level without paths.
CameToEnd ==
    /\ stage = "checks" /\ ~ truncated => level = <<>>
    /\ result \in {"completed", "partial"} =>
           stage = "checks" /\ (result = "partial" <=> truncated)

\* The pool has every index of the batch at one place at most, and is empty
\* unless it is at work.
PoolInv ==
    /\ waiting \cap fetching = {}
    /\ (waiting \cup fetching) \cap Range(fetched) = {}
    /\ IsInjective(fetched)
    /\ \A i \in waiting \cup fetching \cup Range(fetched) : i < next
    /\ stage # "fetch" => waiting = {} /\ fetching = {}
    /\ Cardinality(fetching \cup waiting) <= Concurrency

\* What was requested is listed, or is of the batch.
RequestedPlaced ==
    /\ \A p \in DOMAIN asked : asked[p] <= 1
    /\ stage \notin {"fetch", "pages"} => Requested \subseteq Scanned /\ Len(pages) <= MaxPages
    /\ stage = "fetch" =>
           Requested \subseteq EarlierPaths \cup { batch[i] : i \in fetching \cup Range(fetched) }
    /\ stage = "pages" => Requested \subseteq EarlierPaths \cup Range(batch)

\* Nothing is requested of the site before its levels.
Fresh == stage = "discover" => Requested = {}

\* The levels before the current one are behind, and it begins where they end.
Behind ==
    /\ depth \in Nat
    /\ \A i \in DOMAIN pages : pages[i].depth \in Nat /\ pages[i].depth <= depth
    /\ stage # "pages" => \A i \in DOMAIN pages : pages[i].depth # depth

\* The pages of the current level, a part of the report.
OfLevel == { i \in DOMAIN pages : pages[i].depth = depth }

\* They are the last ones of the report.
AtEnd == OfLevel = (Len(pages) - Handed + 1)..Len(pages)

\* The inductive invariant: the order of the report, what the levels hold, how
\* the crawl ends, and what it has asked for.
OrderInv == Behind /\ (stage = "pages" => AtEnd) /\ ReportOrder
LevelInv == PagesPlaced /\ EarlierComplete /\ LevelPlaced /\ LevelComplete /\ Seen
EndInv == BatchOfLevel /\ CutOff /\ CameToEnd
AskInv == PoolInv /\ RequestedPlaced /\ Fresh
IInv == TypeOK /\ OrderInv /\ LevelInv /\ EndInv /\ AskInv

-------------------------------------------------------------------------------

\* Induction over the numbers, for a set of them.
LEMMA Induction ==
    ASSUME NEW S, 0 \in S, \A n \in Nat : n \in S => n + 1 \in S
    PROVE  Nat \subseteq S
<1> SUFFICES ASSUME Nat \ S # {} PROVE FALSE
  OBVIOUS
<1> DEFINE R == OpToRel(<, Nat)
<1>1. IsWellFoundedOn(R, Nat)
  BY NatLessThanWellFounded
<1>2. \A m, n \in Nat : m < n => <<m, n>> \in R
  BY DEF OpToRel
<1> HIDE DEF R
<1>3. PICK n \in Nat \ S : \A m \in Nat \ S : ~ (<<m, n>> \in R)
  BY <1>1, WFMin
<1>4. n # 0 /\ n - 1 \in Nat /\ n - 1 < n
  BY <1>3
<1>5. n - 1 \in S
  BY <1>2, <1>3, <1>4
<1> QED
  BY <1>3, <1>4, <1>5

\* A set that is mapped to itself has a sequence of iterates from each element.
LEMMA Iterates ==
    ASSUME NEW T, NEW b \in T, NEW step \in [T -> T]
    PROVE  \E f \in [Nat -> T] : f[0] = b /\ \A n \in Nat : f[n + 1] = step[f[n]]
<1> DEFINE UpTo(n, g) == /\ g \in [0..n -> T] /\ g[0] = b
                         /\ \A k \in 0..n : k + 1 <= n => g[k + 1] = step[g[k]]
<1>1. \A n \in Nat : \E g : UpTo(n, g)
  <2> DEFINE S == { n \in Nat : \E g : UpTo(n, g) }
  <2>1. 0 \in S
    <3>1. UpTo(0, [k \in 0..0 |-> b])
      OBVIOUS
    <3> QED
      BY <3>1
  <2>2. ASSUME NEW n \in Nat, n \in S PROVE n + 1 \in S
    <3>1. PICK g : UpTo(n, g)
      BY <2>2
    <3> DEFINE h == [k \in 0..(n + 1) |-> IF k = n + 1 THEN step[g[n]] ELSE g[k]]
    <3>2. UpTo(n + 1, h)
      BY <3>1
    <3> HIDE DEF h, UpTo
    <3> QED
      BY <3>2
  <2> HIDE DEF S
  <2>3. Nat \subseteq S
    BY <2>1, <2>2, Induction
  <2> QED
    BY <2>3 DEF S
<1>2. ASSUME NEW m \in Nat, NEW n \in Nat, m <= n, NEW g, NEW h, UpTo(m, g), UpTo(n, h)
      PROVE  \A k \in 0..m : g[k] = h[k]
  <2> DEFINE S == { k \in Nat : k <= m => g[k] = h[k] }
  <2>1. 0 \in S
    BY <1>2
  <2>2. ASSUME NEW k \in Nat, k \in S PROVE k + 1 \in S
    <3> SUFFICES ASSUME k + 1 <= m PROVE g[k + 1] = h[k + 1]
      OBVIOUS
    <3>1. g[k] = h[k]
      BY <2>2
    <3> QED
      BY <1>2, <3>1
  <2> HIDE DEF S
  <2>3. Nat \subseteq S
    BY <2>1, <2>2, Induction
  <2> QED
    BY <2>3 DEF S
<1> DEFINE G(n) == CHOOSE g : UpTo(n, g)
           f == [n \in Nat |-> G(n)[n]]
<1>3. \A n \in Nat : UpTo(n, G(n))
  BY <1>1
<1> HIDE DEF G
<1>4. f \in [Nat -> T] /\ f[0] = b
  BY <1>3
<1>5. ASSUME NEW n \in Nat PROVE f[n + 1] = step[f[n]]
  <2>1. UpTo(n, G(n)) /\ UpTo(n + 1, G(n + 1))
    BY <1>3
  <2>2. G(n)[n] = G(n + 1)[n]
    BY <2>1, <1>2, SMTT(30)
  <2>3. G(n + 1)[n + 1] = step[G(n + 1)[n]]
    BY <2>1
  <2> QED
    BY <2>2, <2>3
<1> QED
  BY <1>4, <1>5

\* The paths one link from q, or listed.
Leads(q) == { p \in Paths : /\ Allowed(p)
                            /\ \/ \E r \in q : p \in Range(LinksOf(r))
                               \/ p \in Range(Sitemap) }

\* Within satisfies the equations it is defined by.
LEMMA WithinDef ==
    /\ Within[0] = {Start}
    /\ \A n \in Nat : Within[n + 1] = Within[n] \cup Leads(Within[n])
    /\ \A n \in Nat : Within[n] \subseteq Paths \cup {Start}
<1> DEFINE T == SUBSET (Paths \cup {Start})
           step == [q \in T |-> q \cup Leads(q)]
<1>1. step \in [T -> T] /\ {Start} \in T
  BY DEF Leads
<1> HIDE DEF step, T
<1>2. PICK f \in [Nat -> T] : f[0] = {Start} /\ \A n \in Nat : f[n + 1] = step[f[n]]
  BY <1>1, Iterates
<1>3. \A n \in Nat : f[n + 1] = f[n] \cup Leads(f[n])
  <2>1. \A q \in T : step[q] = q \cup Leads(q)
    BY DEF step
  <2> QED
    BY <1>2, <2>1
<1>4. f = [n \in Nat |-> IF n = 0 THEN {Start} ELSE f[n - 1] \cup Leads(f[n - 1])]
  <2>1. \A n \in Nat : n # 0 => f[n] = f[n - 1] \cup Leads(f[n - 1])
    BY <1>3
  <2> QED
    BY <1>2, <2>1
<1>5. Within = [n \in Nat |-> IF n = 0 THEN {Start} ELSE Within[n - 1] \cup Leads(Within[n - 1])]
  BY <1>4, ZenonT(60) DEF Within, Leads
<1>6. \A n \in Nat : Within[n + 1] = Within[n] \cup Leads(Within[n])
  <2> SUFFICES ASSUME NEW n \in Nat PROVE Within[n + 1] = Within[n] \cup Leads(Within[n])
    OBVIOUS
  <2>1. n + 1 \in Nat /\ n + 1 # 0 /\ (n + 1) - 1 = n
    OBVIOUS
  <2>2. Within[n + 1] = IF n + 1 = 0 THEN {Start}
                        ELSE Within[(n + 1) - 1] \cup Leads(Within[(n + 1) - 1])
    BY <1>5, <2>1, Zenon
  <2> QED
    BY <2>1, <2>2, Zenon
<1>7. \A n \in Nat : Within[n] \in T
  <2> DEFINE S == { n \in Nat : Within[n] \in T }
  <2>1. 0 \in S
    BY <1>5 DEF T
  <2>2. \A n \in Nat : n \in S => n + 1 \in S
    BY <1>6 DEF Leads, T
  <2> HIDE DEF S
  <2> QED
    BY <2>1, <2>2, Induction DEF S
<1> QED
  BY <1>5, <1>6, <1>7 DEF T

\* More links lead to no fewer paths.
LEMMA WithinGrows == \A m, n \in Nat : m <= n => Within[m] \subseteq Within[n]
<1> SUFFICES ASSUME NEW m \in Nat PROVE \A n \in Nat : m <= n => Within[m] \subseteq Within[n]
  OBVIOUS
<1> DEFINE S == { n \in Nat : m <= n => Within[m] \subseteq Within[n] }
<1>1. 0 \in S
  OBVIOUS
<1>2. ASSUME NEW n \in Nat, n \in S PROVE n + 1 \in S
  <2>1. Within[n] \subseteq Within[n + 1]
    BY WithinDef
  <2> QED
    BY <1>2, <2>1
<1> HIDE DEF S
<1>3. Nat \subseteq S
  BY <1>1, <1>2, Induction
<1> QED
  BY <1>3 DEF S

\* Once a link more leads nowhere, no number of links does.
LEMMA WithinStays ==
    ASSUME NEW n \in Nat, Within[n + 1] = Within[n]
    PROVE  \A m \in Nat : n <= m => Within[m] = Within[n]
<1> DEFINE S == { k \in Nat : Within[n + k] = Within[n] }
<1>1. 0 \in S
  BY WithinDef
<1>2. ASSUME NEW k \in Nat, k \in S PROVE k + 1 \in S
  <2>1. Within[n + 1] = Within[n] \cup Leads(Within[n])
    BY WithinDef
  <2>2. Within[(n + k) + 1] = Within[n + k] \cup Leads(Within[n + k])
    BY WithinDef
  <2>3. Within[n + k] = Within[n]
    BY <1>2
  <2>4. Within[(n + k) + 1] = Within[n]
    BY <2>1, <2>2, <2>3
  <2>5. n + (k + 1) = (n + k) + 1
    OBVIOUS
  <2> QED
    BY <2>4, <2>5
<1> HIDE DEF S
<1>3. \A k \in Nat : Within[n + k] = Within[n]
  BY <1>1, <1>2, Induction DEF S
<1> SUFFICES ASSUME NEW m \in Nat, n <= m PROVE Within[m] = Within[n]
  OBVIOUS
<1>4. m - n \in Nat /\ n + (m - n) = m
  OBVIOUS
<1> QED
  BY <1>3, <1>4

\* What a path is found at is one number: its distance.
LEMMA AtIsDistance ==
    ASSUME NEW n \in 0..MaxDepth, NEW p \in At(n)
    PROVE  Distance(p) = n
<1>1. MaxDepth \in Nat /\ n \in Nat
  BY ConstantsAssumption
<1>2. p \in Within[n]
  BY DEF At
<1>3. \A m \in 0..(n - 1) : p \notin Within[m]
  <2> SUFFICES ASSUME NEW m \in 0..(n - 1), p \in Within[m] PROVE FALSE
    OBVIOUS
  <2>1. m \in Nat /\ n - 1 \in Nat /\ m <= n - 1 /\ n # 0
    BY <1>1
  <2>2. p \in Within[n - 1]
    BY <2>1, WithinGrows
  <2> QED
    BY <2>1, <2>2 DEF At, Nearer
<1> DEFINE Is(k) == p \in Within[k] /\ \A m \in 0..(k - 1) : p \notin Within[m]
<1>4. \A k \in 0..MaxDepth : Is(k) => k = n
  <2> SUFFICES ASSUME NEW k \in 0..MaxDepth, Is(k), k # n PROVE FALSE
    OBVIOUS
  <2>1. k < n \/ n < k
    BY <1>1
  <2>2. k \in Nat
    BY <1>1
  <2> QED
    BY <1>1, <1>2, <1>3, <2>1, <2>2
<1>5. Is(n)
  BY <1>2, <1>3
<1> HIDE DEF Is
<1>6. (CHOOSE k \in 0..MaxDepth : Is(k)) = n
  BY <1>4, <1>5
<1> QED
  BY <1>6 DEF Is, Distance

\* A sequence of sequences, flattened, has the elements of all of them.
LEMMA Flattened ==
    ASSUME NEW S, NEW ss \in Seq(Seq(S))
    PROVE  /\ FlattenSeq(ss) \in Seq(S)
           /\ \A x : x \in Range(FlattenSeq(ss)) <=> \E i \in DOMAIN ss : x \in Range(ss[i])
<1>1. CASE Len(ss) = 0
  <2>1. ss = <<>>
    BY <1>1, EmptySeq
  <2>2. FlattenSeq(ss) = <<>>
    BY <1>1, <2>1, Zenon DEF FlattenSeq
  <2>3. DOMAIN ss = {}
    BY <2>1
  <2>4. Range(FlattenSeq(ss)) = {}
    BY <2>1, <2>2, <2>3, Zenon DEF Range
  <2>5. <<>> \in Seq(S)
    OBVIOUS
  <2> QED
    BY <2>2, <2>3, <2>4, <2>5, Zenon
<1>2. CASE Len(ss) # 0
  <2> DEFINE n == Len(ss)
             Eq(k, f) == f = [i \in 1..k |-> IF i = 1 THEN ss[i] ELSE f[i - 1] \o ss[i]]
             flat == CHOOSE f : Eq(n, f)
  <2>1. n \in Nat \ {0} /\ DOMAIN ss = 1..n /\ \A i \in 1..n : ss[i] \in Seq(S)
    BY <1>2
  <2>2. FlattenSeq(ss) = flat[n]
    BY <1>2, Zenon DEF FlattenSeq
  <2>3. \E f : Eq(n, f)
    <3> DEFINE U == { k \in Nat : \E f : Eq(k, f) }
    <3>1. 0 \in U
      <4>1. Eq(0, <<>>)
        OBVIOUS
      <4> QED
        BY <4>1
    <3>2. ASSUME NEW k \in Nat, k \in U PROVE k + 1 \in U
      <4>1. PICK f : Eq(k, f)
        BY <3>2
      <4> DEFINE g == [i \in 1..(k + 1) |-> IF i = k + 1
                                            THEN IF i = 1 THEN ss[i] ELSE f[i - 1] \o ss[i]
                                            ELSE f[i]]
      <4>2. \A i \in 1..(k + 1) : g[i] = IF i = 1 THEN ss[i] ELSE g[i - 1] \o ss[i]
        <5> SUFFICES ASSUME NEW i \in 1..(k + 1)
                     PROVE  g[i] = IF i = 1 THEN ss[i] ELSE g[i - 1] \o ss[i]
          OBVIOUS
        <5>1. i # 1 => i - 1 \in 1..(k + 1) /\ i - 1 # k + 1 /\ i - 1 \in 1..k
          OBVIOUS
        <5>2. i # 1 => g[i - 1] = f[i - 1]
          BY <5>1
        <5>3. i # k + 1 => i \in 1..k /\ g[i] = f[i]
          OBVIOUS
        <5>4. i \in 1..k => f[i] = IF i = 1 THEN ss[i] ELSE f[i - 1] \o ss[i]
          BY <4>1
        <5>5. i = k + 1 => g[i] = IF i = 1 THEN ss[i] ELSE f[i - 1] \o ss[i]
          OBVIOUS
        <5> HIDE DEF g, Eq
        <5> QED
          BY <5>2, <5>3, <5>4, <5>5
      <4>3. g = [i \in 1..(k + 1) |-> g[i]]
        OBVIOUS
      <4> HIDE DEF g
      <4>4. Eq(k + 1, g)
        BY <4>2, <4>3
      <4> HIDE DEF Eq
      <4> QED
        BY <4>4
    <3> HIDE DEF U
    <3>3. n \in U
      BY <2>1, <3>1, <3>2, Induction
    <3> QED
      BY <3>3 DEF U
  <2>4. flat = [i \in 1..n |-> IF i = 1 THEN ss[i] ELSE flat[i - 1] \o ss[i]]
    BY <2>3, Zenon
  <2> HIDE DEF flat, Eq
  <2>5. flat[1] = ss[1]
    BY <2>1, <2>4
  <2>6. ASSUME NEW k \in Nat, k # 0, k + 1 <= n PROVE flat[k + 1] = flat[k] \o ss[k + 1]
    <3>1. k + 1 \in 1..n /\ k + 1 # 1 /\ (k + 1) - 1 = k
      BY <2>1, <2>6
    <3>2. flat[k + 1] = IF k + 1 = 1 THEN ss[k + 1] ELSE flat[(k + 1) - 1] \o ss[k + 1]
      BY <2>4, <3>1, Zenon
    <3> QED
      BY <3>1, <3>2, Zenon
  <2>0. n \in Nat
    BY <2>1
  <2> HIDE DEF n
  <2> DEFINE Good(k) == /\ flat[k] \in Seq(S)
                        /\ \A x : x \in Range(flat[k]) <=> \E i \in 1..k : x \in Range(ss[i])
             U == { k \in Nat : k \in 1..n => Good(k) }
  <2>7. 0 \in U
    OBVIOUS
  <2>8. ASSUME NEW k \in Nat, k \in U PROVE k + 1 \in U
    <3> SUFFICES ASSUME k + 1 \in 1..n PROVE Good(k + 1)
      OBVIOUS
    <3>1. CASE k = 0
      <4>1. flat[k + 1] = ss[1] /\ 1..(k + 1) = {1}
        <5>1. k + 1 = 1 /\ 1..1 = {1}
          BY <3>1
        <5> QED
          BY <2>5, <5>1, Zenon
      <4>2. 1 \in 1..n
        BY <2>0, <2>1
      <4>3. flat[k + 1] \in Seq(S)
        BY <2>1, <4>1, <4>2
      <4> HIDE DEF U
      <4> QED
        BY <4>1, <4>3, Zenon
    <3>2. CASE k # 0
      <4>0. k \in 1..n /\ k + 1 <= n
        BY <2>0, <3>2
      <4>1. Good(k)
        BY <2>8, <4>0
      <4>2. ss[k + 1] \in Seq(S) /\ flat[k + 1] = flat[k] \o ss[k + 1]
        BY <2>1, <2>6, <3>2, <4>0
      <4>3. flat[k + 1] \in Seq(S) /\ Range(flat[k + 1]) = Range(flat[k]) \cup Range(ss[k + 1])
        BY <4>1, <4>2, RangeConcatenation, ConcatProperties
      <4>4. \A i : i \in 1..(k + 1) <=> i \in 1..k \/ i = k + 1
        OBVIOUS
      <4>5. \A x : x \in Range(flat[k]) <=> \E i \in 1..k : x \in Range(ss[i])
        BY <4>1
      <4> HIDE DEF U
      <4>6. \A x : x \in Range(flat[k + 1]) <=> \E i \in 1..(k + 1) : x \in Range(ss[i])
        BY <4>3, <4>4, <4>5, Zenon
      <4> QED
        BY <4>3, <4>6
    <3> QED
      BY <3>1, <3>2
  <2> HIDE DEF U
  <2>9. n \in U
    BY <2>0, <2>7, <2>8, Induction
  <2>10. Good(n)
    BY <2>1, <2>9 DEF U, n
  <2> QED
    BY <2>1, <2>2, <2>10 DEF n
<1> QED
  BY <1>1, <1>2

\* The greatest of a set of numbers whose greatest is known.
LEMMA MaxIs ==
    ASSUME NEW s \in SUBSET Nat, NEW m \in s, \A k \in s : k <= m
    PROVE  Max(s) = m
<1>1. \A k \in s : m >= k
  OBVIOUS
<1>2. \A x \in s : (\A y \in s : x >= y) => x = m
  OBVIOUS
<1> QED
  BY <1>1, <1>2 DEF Max

\* What addCandidate makes of a sequence of paths.
Considered(base, seq) == FoldLeft(AddCandidate, base, seq)

\* It takes them one by one: acc[k] is what it makes of the first k.
OneByOne(acc, base, seq) ==
    /\ acc[0] = base
    /\ \A k \in 0..(Len(seq) - 1) : acc[k + 1] = AddCandidate(acc[k], seq[k + 1])
    /\ Considered(base, seq) = acc[Len(seq)]

\* The fold of addCandidate over a sequence takes its elements one by one.
LEMMA Folded ==
    ASSUME NEW base, NEW S, NEW seq \in Seq(S)
    PROVE  \E acc : OneByOne(acc, base, seq)
<1> DEFINE n == Len(seq)
           Eq(m, f) == f = [s \in SUBSET (1..m) |->
                              IF s = {} THEN base
                              ELSE AddCandidate(f[s \ {Max(s)}], seq[Max(s)])]
<1>1. n \in Nat /\ DOMAIN seq = 1..n
  OBVIOUS
<1>2. \E f : Eq(n, f)
  <2> DEFINE U == { m \in Nat : \E f : Eq(m, f) }
  <2>1. 0 \in U
    <3> DEFINE f == [s \in SUBSET (1..0) |-> base]
    <3>0. 1..0 = {}
      OBVIOUS
    <3>1. \A s \in SUBSET (1..0) : s = {}
      BY <3>0, Zenon
    <3>2. f = [s \in SUBSET (1..0) |->
                 IF s = {} THEN base ELSE AddCandidate(f[s \ {Max(s)}], seq[Max(s)])]
      BY <3>1, Zenon
    <3> HIDE DEF f
    <3> QED
      BY <3>2
  <2>2. ASSUME NEW m \in Nat, m \in U PROVE m + 1 \in U
    <3>1. PICK f : Eq(m, f)
      BY <2>2
    <3> DEFINE h == [s \in SUBSET (1..(m + 1)) |->
                       IF m + 1 \in s THEN AddCandidate(f[s \ {m + 1}], seq[m + 1]) ELSE f[s]]
    <3>2. ASSUME NEW s \in SUBSET (1..(m + 1))
          PROVE  h[s] = IF s = {} THEN base
                        ELSE AddCandidate(h[s \ {Max(s)}], seq[Max(s)])
      <4>1. CASE m + 1 \in s
        <5>1. Max(s) = m + 1
          <6>1. s \in SUBSET Nat /\ \A k \in s : k <= m + 1
            OBVIOUS
          <6> QED
            BY <4>1, <6>1, MaxIs
        <5>2. /\ s \ {m + 1} \in SUBSET (1..(m + 1)) /\ m + 1 \notin s \ {m + 1}
              /\ s # {}
          BY <4>1
        <5>3. h[s \ {m + 1}] = f[s \ {m + 1}]
          BY <5>2, Zenon
        <5>4. h[s] = AddCandidate(f[s \ {m + 1}], seq[m + 1])
          BY <4>1, Zenon
        <5> HIDE DEF h, Eq
        <5> QED
          BY <5>1, <5>2, <5>3, <5>4, Zenon
      <4>2. CASE m + 1 \notin s
        <5>1. s \in SUBSET (1..m)
          <6>1. \A k \in 1..(m + 1) : k # m + 1 => k \in 1..m
            OBVIOUS
          <6> QED
            BY <4>2, <6>1
        <5>2. s \ {Max(s)} \in SUBSET (1..(m + 1)) /\ m + 1 \notin s \ {Max(s)}
          BY <4>2
        <5>3. h[s] = f[s] /\ h[s \ {Max(s)}] = f[s \ {Max(s)}]
          BY <4>2, <5>2, Zenon
        <5>4. f[s] = IF s = {} THEN base
                     ELSE AddCandidate(f[s \ {Max(s)}], seq[Max(s)])
          BY <3>1, <5>1, Zenon
        <5> HIDE DEF h, Eq
        <5> QED
          BY <5>3, <5>4, Zenon
      <4> QED
        BY <4>1, <4>2
    <3>3. h = [s \in SUBSET (1..(m + 1)) |-> h[s]]
      OBVIOUS
    <3> HIDE DEF h
    <3>4. Eq(m + 1, h)
      BY <3>2, <3>3, Zenon
    <3> HIDE DEF Eq
    <3> QED
      BY <3>4
  <2> HIDE DEF U
  <2>3. n \in U
    BY <1>1, <2>1, <2>2, Induction
  <2> QED
    BY <2>3 DEF U
<1>3. PICK g : /\ g = [s \in SUBSET DOMAIN seq |->
                         IF s = {} THEN base
                         ELSE AddCandidate(g[s \ {Max(s)}], seq[Max(s)])]
               /\ Considered(base, seq) = g[DOMAIN seq]
  <2>1. PICK f : f = [s \in SUBSET DOMAIN seq |->
                         IF s = {} THEN base
                         ELSE AddCandidate(f[s \ {Max(s)}], seq[Max(s)])]
    BY <1>1, <1>2
  <2> QED
    BY <2>1, Zenon DEF Considered, FoldLeft, MapThenFoldSet
<1> DEFINE acc == [k \in 0..n |-> g[1..k]]
<1>4. acc[0] = base
  <2>1. 1..0 = {} /\ 0 \in 0..n
    BY <1>1
  <2>2. {} \in SUBSET DOMAIN seq
    OBVIOUS
  <2>3. g[{}] = base
    BY <1>3, <2>2, Zenon
  <2> QED
    BY <2>1, <2>3
<1>5. ASSUME NEW k \in 0..(n - 1) PROVE acc[k + 1] = AddCandidate(acc[k], seq[k + 1])
  <2>1. k \in 0..n /\ k + 1 \in 0..n /\ 1..(k + 1) \in SUBSET DOMAIN seq /\ 1..(k + 1) # {}
    BY <1>1
  <2>2. Max(1..(k + 1)) = k + 1
    <3>1. 1..(k + 1) \in SUBSET Nat /\ k + 1 \in 1..(k + 1) /\ \A j \in 1..(k + 1) : j <= k + 1
      BY <2>1, <1>1
    <3> QED
      BY <3>1, MaxIs
  <2>3. (1..(k + 1)) \ {k + 1} = 1..k
    BY <2>1, <1>1
  <2>4. g[1..(k + 1)] = AddCandidate(g[(1..(k + 1)) \ {Max(1..(k + 1))}], seq[Max(1..(k + 1))])
    BY <1>3, <2>1, Zenon
  <2>5. acc[k + 1] = g[1..(k + 1)] /\ acc[k] = g[1..k]
    BY <2>1
  <2> HIDE DEF acc
  <2> QED
    BY <2>2, <2>3, <2>4, <2>5, Zenon
<1>6. acc[n] = g[DOMAIN seq]
  BY <1>1
<1> HIDE DEF acc
<1> QED
  BY <1>3, <1>4, <1>5, <1>6 DEF OneByOne

\* What addCandidate has made of the paths of q: a level of allowed paths that
\* were not seen before, each once, and without a gap unless it is full.
Fits(acc, q) ==
    /\ acc \in [level : Seq(Paths), visited : SUBSET (Paths \cup {Start}), blocked : Nat]
    /\ Len(acc.level) <= MaxPages /\ IsInjective(acc.level)
    /\ \A p \in Range(acc.level) : p \in q /\ Allowed(p) /\ p \notin visited
    /\ visited \cup Range(acc.level) \subseteq acc.visited
    /\ \A p \in acc.visited : Allowed(p) => p \in visited \cup Range(acc.level)
    /\ Len(acc.level) < MaxPages => \A p \in q : Allowed(p) => p \in acc.visited

\* An element at the end of a sequence it is not in.
LEMMA AppendRange ==
    ASSUME NEW S, NEW s \in Seq(S), NEW x \in S
    PROVE  /\ Append(s, x) \in Seq(S) /\ Len(Append(s, x)) = Len(s) + 1
           /\ Range(Append(s, x)) = Range(s) \cup {x}
           /\ x \notin Range(s) /\ IsInjective(s) => IsInjective(Append(s, x))
<1>1. /\ Append(s, x) \in Seq(S) /\ Len(Append(s, x)) = Len(s) + 1
      /\ Len(s) \in Nat /\ DOMAIN s = 1..Len(s) /\ DOMAIN Append(s, x) = 1..(Len(s) + 1)
      /\ \A i \in 1..Len(s) : Append(s, x)[i] = s[i]
      /\ Append(s, x)[Len(s) + 1] = x
  OBVIOUS
<1>2. \A i : i \in 1..(Len(s) + 1) <=> i \in 1..Len(s) \/ i = Len(s) + 1
  BY <1>1
<1>3. Range(Append(s, x)) = Range(s) \cup {x}
  BY <1>1, <1>2, Zenon DEF Range
<1>4. ASSUME x \notin Range(s), IsInjective(s) PROVE IsInjective(Append(s, x))
  <2>1. \A i \in 1..Len(s) : s[i] # x
    BY <1>1, <1>4 DEF Range
  <2> QED
    BY <1>1, <1>2, <1>4, <2>1 DEF IsInjective
<1> QED
  BY <1>1, <1>3, <1>4

LEMMA AddCandidateFits ==
    ASSUME NEW acc, NEW q, NEW p \in Paths, Fits(acc, q)
    PROVE  Fits(AddCandidate(acc, p), q \cup {p})
<1>0. MaxPages \in Nat \ {0} /\ Len(acc.level) \in Nat
  BY ConstantsAssumption DEF Fits
<1>1. CASE Len(acc.level) >= MaxPages \/ p \in acc.visited \/ p \in Excluded
  <2>1. AddCandidate(acc, p) = acc
    BY <1>1, Zenon DEF AddCandidate
  <2>2. Len(acc.level) < MaxPages /\ Allowed(p) => p \in acc.visited
    BY <1>0, <1>1 DEF Allowed
  <2> QED
    BY <2>1, <2>2 DEF Fits
<1>2. CASE ~ (Len(acc.level) >= MaxPages \/ p \in acc.visited \/ p \in Excluded) /\ p \in Banned
  <2>1. AddCandidate(acc, p) = [acc EXCEPT !.visited = @ \cup {p}, !.blocked = @ + 1]
    BY <1>2, Zenon DEF AddCandidate
  <2> DEFINE new == AddCandidate(acc, p)
  <2>2. /\ new = [level |-> acc.level, visited |-> acc.visited \cup {p}, blocked |-> acc.blocked + 1]
        /\ acc.level \in Seq(Paths) /\ acc.visited \cup {p} \in SUBSET (Paths \cup {Start})
        /\ acc.blocked + 1 \in Nat
    <3>1. acc \in [level : Seq(Paths), visited : SUBSET (Paths \cup {Start}), blocked : Nat]
      BY DEF Fits
    <3>2. PICK l, v, b : acc = [level |-> l, visited |-> v, blocked |-> b]
      BY <3>1
    <3>3. /\ acc.level \in Seq(Paths) /\ acc.visited \in SUBSET (Paths \cup {Start})
          /\ acc.blocked \in Nat
      BY <3>1
    <3> DEFINE seen == acc.visited \cup {p}
               mid == [acc EXCEPT !.visited = seen]
    <3>4. mid = [level |-> acc.level, visited |-> seen, blocked |-> acc.blocked]
      <4> HIDE DEF seen
      <4> QED
        BY <3>2
    <3>5. [mid EXCEPT !.blocked = acc.blocked + 1]
            = [level |-> acc.level, visited |-> seen, blocked |-> acc.blocked + 1]
      <4> HIDE DEF mid, seen
      <4> QED
        BY <3>4
    <3> QED
      BY <2>1, <3>3, <3>5
  <2>3. ~ Allowed(p)
    BY <1>2 DEF Allowed
  <2> HIDE DEF new
  <2>4. /\ new \in [level : Seq(Paths), visited : SUBSET (Paths \cup {Start}), blocked : Nat]
        /\ new.level = acc.level /\ new.visited = acc.visited \cup {p}
    BY <2>2
  <2> QED
    BY <2>3, <2>4 DEF Fits, new
<1>3. CASE /\ ~ (Len(acc.level) >= MaxPages \/ p \in acc.visited \/ p \in Excluded)
           /\ p \notin Banned
  <2>1. AddCandidate(acc, p) = [acc EXCEPT !.visited = @ \cup {p}, !.level = Append(@, p)]
    BY <1>3, Zenon DEF AddCandidate, Remember
  <2> DEFINE new == AddCandidate(acc, p)
  <2>2. /\ new.level = Append(acc.level, p) /\ new.visited = acc.visited \cup {p}
        /\ new.blocked = acc.blocked
        /\ new = [level |-> new.level, visited |-> new.visited, blocked |-> new.blocked]
    BY <2>1 DEF Fits
  <2>3. p \notin Range(acc.level) /\ p \notin visited
    BY <1>3 DEF Fits
  <2>4. Append(acc.level, p) \in Seq(Paths)
    BY DEF Fits
  <2>5. Len(new.level) = Len(acc.level) + 1 /\ Range(new.level) = Range(acc.level) \cup {p}
    BY <2>2, AppendRange DEF Fits
  <2>6. IsInjective(new.level)
    BY <2>2, <2>3, AppendRange DEF Fits
  <2>7. Allowed(p)
    BY <1>3 DEF Allowed
  <2> HIDE DEF new
  <2>8. new \in [level : Seq(Paths), visited : SUBSET (Paths \cup {Start}), blocked : Nat]
    BY <2>2, <2>4 DEF Fits
  <2>9. Len(new.level) <= MaxPages
    BY <1>0, <1>3, <2>5
  <2>10. \A x \in Range(new.level) : x \in q \cup {p} /\ Allowed(x) /\ x \notin visited
    BY <2>3, <2>5, <2>7 DEF Fits
  <2>11. /\ visited \cup Range(new.level) \subseteq new.visited
         /\ \A x \in new.visited : Allowed(x) => x \in visited \cup Range(new.level)
    BY <2>2, <2>5 DEF Fits
  <2>12. Len(new.level) < MaxPages => \A x \in q \cup {p} : Allowed(x) => x \in new.visited
    BY <1>0, <2>2, <2>5 DEF Fits
  <2>13. Fits(new, q \cup {p})
    BY <2>6, <2>8, <2>9, <2>10, <2>11, <2>12 DEF Fits
  <2> QED
    BY <2>13 DEF new
<1> QED
  BY <1>1, <1>2, <1>3

\* What a batch leads to.
LEMMA FoundIs ==
    ASSUME site \in [Paths -> Seq(Paths)], batch \in Seq(Paths \cup {Start})
    PROVE  /\ Found \in Seq(Paths)
           /\ \A p : p \in Range(Found) <=>
                /\ ~ AtLimit
                /\ \/ \E i \in DOMAIN batch : p \in Range(LinksOf(batch[i]))
                   \/ depth = 0 /\ p \in Range(Sitemap)
<1>1. CASE AtLimit
  <2>1. Found = <<>>
    BY <1>1 DEF Found
  <2>2. Range(<<>>) = {} /\ <<>> \in Seq(Paths)
    BY DEF Range
  <2> QED
    BY <1>1, <2>1, <2>2
<1>2. CASE ~ AtLimit
  <2> DEFINE ss == [i \in DOMAIN batch |-> LinksOf(batch[i])]
             map == IF depth = 0 THEN Sitemap ELSE <<>>
  <2>1. \A i \in DOMAIN batch : LinksOf(batch[i]) \in Seq(Paths)
    BY ConstantsAssumption DEF LinksOf
  <2>2. ss \in Seq(Seq(Paths))
    BY <2>1
  <2>3. /\ FlattenSeq(ss) \in Seq(Paths)
        /\ \A x : x \in Range(FlattenSeq(ss)) <=> \E i \in DOMAIN ss : x \in Range(ss[i])
    BY <2>2, Flattened
  <2>4. map \in Seq(Paths) /\ \A x : x \in Range(map) <=> depth = 0 /\ x \in Range(Sitemap)
    <3>1. Range(<<>>) = {} /\ <<>> \in Seq(Paths)
      BY DEF Range
    <3> QED
      BY <3>1, ConstantsAssumption
  <2>5. DOMAIN ss = DOMAIN batch /\ \A i \in DOMAIN batch : ss[i] = LinksOf(batch[i])
    OBVIOUS
  <2>6. Found = FlattenSeq(ss) \o map
    BY <1>2, Zenon DEF Found
  <2> HIDE DEF ss, map
  <2>7. Found \in Seq(Paths) /\ Range(Found) = Range(FlattenSeq(ss)) \cup Range(map)
    BY <2>3, <2>4, <2>6, RangeConcatenation, ConcatProperties
  <2> QED
    BY <1>2, <2>3, <2>4, <2>5, <2>7
<1> QED
  BY <1>1, <1>2

\* The next level is what addCandidate makes of all of it.
LEMMA NextLevelFits ==
    ASSUME site \in [Paths -> Seq(Paths)], batch \in Seq(Paths \cup {Start}),
           visited \subseteq Paths \cup {Start}, blocked \in Nat
    PROVE  Fits(NextLevel, Range(Found))
<1> DEFINE base == [level |-> <<>>, visited |-> visited, blocked |-> blocked]
           n == Len(Found)
<1>1. Found \in Seq(Paths) /\ n \in Nat /\ DOMAIN Found = 1..n
  BY FoundIs
<1> HIDE DEF base
<1>2. PICK acc : /\ acc[0] = base
                 /\ \A k \in 0..(n - 1) : acc[k + 1] = AddCandidate(acc[k], Found[k + 1])
                 /\ Considered(base, Found) = acc[n]
  <2>1. \E acc : OneByOne(acc, base, Found)
    BY <1>1, Folded
  <2> QED
    BY <2>1 DEF OneByOne
<1> DEFINE q(k) == { Found[i] : i \in 1..k }
           U == { k \in Nat : k <= n => Fits(acc[k], q(k)) }
<1>3. 0 \in U
  <2>1. Range(<<>>) = {} /\ <<>> \in Seq(Paths) /\ Len(<<>>) = 0 /\ IsInjective(<<>>)
    BY DEF Range, IsInjective
  <2>2. q(0) = {}
    OBVIOUS
  <2>3. MaxPages \in Nat
    BY ConstantsAssumption
  <2>4. Fits(base, {})
    BY <2>1, <2>3 DEF Fits, base
  <2> QED
    BY <1>2, <2>2, <2>4 DEF base
<1>4. ASSUME NEW k \in Nat, k \in U PROVE k + 1 \in U
  <2> SUFFICES ASSUME k + 1 <= n PROVE Fits(acc[k + 1], q(k + 1))
    OBVIOUS
  <2>1. k <= n /\ k \in 0..(n - 1) /\ k + 1 \in DOMAIN Found
    BY <1>1
  <2>2. Fits(acc[k], q(k))
    BY <1>4, <2>1
  <2>3. acc[k + 1] = AddCandidate(acc[k], Found[k + 1]) /\ Found[k + 1] \in Paths
    BY <1>1, <1>2, <2>1
  <2>4. q(k + 1) = q(k) \cup {Found[k + 1]}
    <3>1. \A i : i \in 1..(k + 1) <=> i \in 1..k \/ i = k + 1
      OBVIOUS
    <3> QED
      BY <3>1, Zenon
  <2> HIDE DEF q, U
  <2> QED
    BY <2>2, <2>3, <2>4, AddCandidateFits
<1> HIDE DEF U, q
<1>5. n \in U
  BY <1>1, <1>3, <1>4, Induction
<1>6. Fits(acc[n], q(n))
  BY <1>1, <1>5 DEF U
<1>7. q(n) = Range(Found)
  BY <1>1 DEF q, Range
<1>8. NextLevel = acc[n]
  <2>1. NextLevel = Considered(base, Found)
    BY DEF NextLevel, Considered, base
  <2> QED
    BY <1>2, <2>1
<1> QED
  BY <1>6, <1>7, <1>8

-------------------------------------------------------------------------------

\* Counting the pages of a level gives a number.
LEMMA HandedCounts ==
    ASSUME TypeOK
    PROVE  /\ IsFiniteSet(OfLevel)
           /\ Handed = Cardinality(OfLevel)
           /\ Handed \in 0..Len(pages)
           /\ Len(pages) \in Nat
           /\ DOMAIN pages = 1..Len(pages)
<1>1. Len(pages) \in Nat /\ DOMAIN pages = 1..Len(pages)
  BY DEF TypeOK
<1>2. IsFiniteSet(1..Len(pages)) /\ Cardinality(1..Len(pages)) = Len(pages)
  <2>1. 1 \in Int /\ Len(pages) \in Int
    BY <1>1
  <2>2. /\ IsFiniteSet(1..Len(pages))
        /\ Cardinality(1..Len(pages)) = IF 1 > Len(pages) THEN 0 ELSE Len(pages) - 1 + 1
    BY <2>1, FS_Interval
  <2> QED
    BY <1>1, <2>2
<1>3. OfLevel \subseteq 1..Len(pages)
  BY <1>1 DEF OfLevel
<1>4. IsFiniteSet(OfLevel) /\ Cardinality(OfLevel) <= Len(pages)
  BY <1>2, <1>3, FS_Subset
<1> QED
  BY <1>1, <1>4, FS_CardinalityType DEF Handed, OfLevel

\* The batch that a level starts with.
LEMMA BatchIs ==
    ASSUME TypeOK, StartLevel
    PROVE  /\ batch' \in Seq(Paths \cup {Start})
           /\ Len(level) \in Nat \ {0} /\ Len(pages) \in Nat
           /\ Len(batch') \in 1..Len(level)
           /\ DOMAIN batch' = 1..Len(batch') /\ DOMAIN level = 1..Len(level)
           /\ \A i \in 1..Len(batch') : batch'[i] = level[i]
           /\ Len(pages) + Len(batch') <= MaxPages
           /\ Len(batch') < Len(level) => Len(pages) + Len(batch') = MaxPages
<1>1. /\ level \in Seq(Paths \cup {Start}) /\ Len(level) \in Nat \ {0}
      /\ DOMAIN level = 1..Len(level)
      /\ \A i \in 1..Len(level) : level[i] \in Paths \cup {Start}
  <2>1. level \in Seq(Paths \cup {Start}) /\ level # <<>>
    BY DEF StartLevel, TypeOK
  <2>2. Len(level) # 0
    BY <2>1, EmptySeq
  <2> QED
    BY <2>1, <2>2
<1>2. Len(pages) \in Nat /\ MaxPages \in Nat /\ Budget = MaxPages - Len(pages) /\ Budget > 0
  BY HandedCounts, ConstantsAssumption DEF StartLevel, Budget
<1> DEFINE n == Smaller(Len(level), Budget)
<1>3. n \in 1..Len(level) /\ n <= Budget /\ (n < Len(level) => n = Budget)
  BY <1>1, <1>2 DEF Smaller
<1> HIDE DEF n
<1>4. batch' = SubSeq(level, 1, n)
  BY DEF StartLevel, n
<1>5. /\ batch' = [i \in 1..n |-> level[i]] /\ n \in Nat
  BY <1>1, <1>3, <1>4
<1>6. /\ batch' \in Seq(Paths \cup {Start}) /\ Len(batch') = n /\ DOMAIN batch' = 1..n
      /\ \A i \in 1..n : batch'[i] = level[i]
  <2>1. \A i \in 1..n : level[i] \in Paths \cup {Start}
    BY <1>1, <1>3
  <2> QED
    BY <1>5, <2>1
<1> QED
  BY <1>1, <1>2, <1>3, <1>6

\* The requests that do not see the signal are as many as the run was given.
LEMMA CountsInvariant ==
    TypeOK /\ [Next]_vars => lookups' \in 0..MaxLookups /\ probed' \in 0..MaxProbes
<1> SUFFICES ASSUME TypeOK, [Next]_vars
             PROVE  lookups' \in 0..MaxLookups /\ probed' \in 0..MaxProbes
  OBVIOUS
<1>0. /\ lookups \in 0..MaxLookups /\ probed \in 0..MaxProbes
      /\ MaxLookups \in Nat /\ MaxProbes \in Nat
  BY ConstantsAssumption DEF TypeOK
<1>1. CASE Lookup
  BY <1>0, <1>1 DEF Lookup
<1>2. CASE Probe
  BY <1>0, <1>2 DEF Probe
<1>3. CASE \/ Discover \/ StartLevel \/ Collect \/ OnPage \/ FollowLinks \/ EndCrawl \/ StopAtLevel
           \/ Finish \/ Pool \/ Abort \/ Throw \/ UNCHANGED vars
  <2>1. UNCHANGED unsignalled
    BY <1>3 DEF Discover, StartLevel, Collect, OnPage, FollowLinks, EndCrawl, StopAtLevel, Finish, Pool,
                Request, Receive, Abort, Throw, vars
  <2> QED
    BY <1>0, <2>1 DEF unsignalled
<1> QED
  BY <1>1, <1>2, <1>3 DEF Next, Crawl

\* Every step keeps the types.
LEMMA TypeInvariant == IInv /\ [Next]_vars => TypeOK'
<1> SUFFICES ASSUME IInv, [Next]_vars PROVE TypeOK'
  OBVIOUS
<1>0. TypeOK /\ MaxDepth \in Nat /\ MaxPages \in Nat \ {0} /\ Concurrency \in Nat \ {0}
  BY ConstantsAssumption DEF IInv
<1>c. lookups' \in 0..MaxLookups /\ probed' \in 0..MaxProbes
  BY <1>0, CountsInvariant
<1>1. CASE StartLevel
  <2>1. /\ batch' \in Seq(Paths \cup {Start}) /\ Len(batch') \in Nat \ {0}
        /\ DOMAIN batch' = 1..Len(batch')
    BY <1>0, <1>1, BatchIs
  <2>2. waiting' \subseteq 1..Len(batch') /\ next' \in Nat
    BY <1>0, <1>1, <2>1 DEF StartLevel, Smaller
  <2>3. fetching' = {} /\ fetched' = <<>> /\ stage' = "fetch" /\ truncated' \in BOOLEAN
    BY <1>0, <1>1 DEF StartLevel, TypeOK
  <2>4. UNCHANGED <<site, depth, level, visited, blocked, pages, aborted, result, asked>>
    BY <1>1 DEF StartLevel
  <2>5. fetched' \in Seq(DOMAIN batch')
    BY <2>3
  <2> QED
    BY <1>0, <1>c, <2>1, <2>2, <2>3, <2>4, <2>5 DEF TypeOK
<1>2. ASSUME NEW i \in DOMAIN batch, Request(i) PROVE TypeOK'
  <2>1. batch[i] \in Paths \cup {Start}
    BY <1>0 DEF TypeOK
  <2>2. waiting' \subseteq DOMAIN batch /\ fetching' \subseteq DOMAIN batch
    BY <1>0, <1>2 DEF TypeOK, Request
  <2>3. asked' \in [Paths \cup {Start} -> Nat]
    <3>1. asked \in [Paths \cup {Start} -> Nat] /\ asked[batch[i]] \in Nat
      BY <1>0, <2>1 DEF TypeOK
    <3>2. asked' = asked \/ asked' = [asked EXCEPT ![batch[i]] = asked[batch[i]] + 1]
      BY <1>2 DEF Request
    <3> QED
      BY <2>1, <3>1, <3>2
  <2>4. result' \in {"none", "completed", "partial", "cancelled", "failed"}
    BY <1>0, <1>2 DEF TypeOK, Request, Cancel
  <2>5. UNCHANGED <<site, stage, depth, level, batch, visited, blocked, truncated, next, fetched,
                    pages, aborted>>
    BY <1>2 DEF Request, levelVars
  <2> QED
    BY <1>0, <1>c, <2>2, <2>3, <2>4, <2>5 DEF TypeOK
<1>3. ASSUME NEW i \in DOMAIN batch, Receive(i) PROVE TypeOK'
  <2>1. next \in Nat /\ DOMAIN batch = 1..Len(batch) /\ Len(batch) \in Nat
    BY <1>0 DEF TypeOK
  <2>2. i < next
    BY <1>3 DEF IInv, AskInv, PoolInv, Receive
  <2>3. next' \in Nat /\ waiting' \subseteq DOMAIN batch
    BY <1>0, <1>3, <2>1, <2>2 DEF TypeOK, Receive
  <2>4. fetching' \subseteq DOMAIN batch /\ fetched' \in Seq(DOMAIN batch)
    BY <1>0, <1>3 DEF TypeOK, Receive
  <2>5. result' \in {"none", "completed", "partial", "cancelled", "failed"}
    BY <1>0, <1>3 DEF TypeOK, Receive, Cancel
  <2>6. UNCHANGED <<site, stage, depth, level, batch, visited, blocked, truncated, pages, aborted, asked>>
    BY <1>3 DEF Receive, levelVars
  <2> QED
    BY <1>0, <1>c, <2>3, <2>4, <2>5, <2>6 DEF TypeOK
<1>4. ASSUME stage = "pages" PROVE depth \in 0..MaxDepth
  <2>1. level # <<>>
    BY <1>4 DEF IInv, EndInv, BatchOfLevel
  <2> QED
    BY <1>0, <2>1 DEF TypeOK
<1>5. CASE OnPage
  <2>1. ASSUME ~ aborted PROVE pages' \in Seq([path : Paths \cup {Start}, depth : 0..MaxDepth])
    <3>1. Handed \in Nat /\ Handed < Len(batch) /\ depth \in 0..MaxDepth
      BY <1>0, <1>4, <1>5, HandedCounts DEF OnPage
    <3>2. Handed + 1 \in DOMAIN batch
      BY <1>0, <3>1 DEF TypeOK
    <3>3. batch[Handed + 1] \in Paths \cup {Start}
      BY <1>0, <3>2 DEF TypeOK
    <3>4. pages' = Append(pages, [path |-> batch[Handed + 1], depth |-> depth])
      BY <1>5, <2>1 DEF OnPage, ResultAt
    <3> QED
      BY <1>0, <3>1, <3>3, <3>4 DEF TypeOK
  <2>2. pages' \in Seq([path : Paths \cup {Start}, depth : 0..MaxDepth])
    BY <1>0, <1>5, <2>1 DEF OnPage, TypeOK
  <2>3. result' \in {"none", "completed", "partial", "cancelled", "failed"}
    BY <1>0, <1>5 DEF TypeOK, OnPage, Cancel
  <2>4. UNCHANGED <<site, stage, depth, level, batch, visited, blocked, truncated, next, waiting,
                    fetching, fetched, aborted, asked>>
    BY <1>5 DEF OnPage, levelVars, poolVars
  <2> QED
    BY <1>0, <1>c, <2>2, <2>3, <2>4 DEF TypeOK
<1>6. CASE FollowLinks
  <2>1. Fits(NextLevel, Range(Found))
    BY <1>0, NextLevelFits DEF TypeOK
  <2>2. depth \in 0..MaxDepth
    BY <1>4, <1>6 DEF FollowLinks
  <2>3. level' \in Seq(Paths) /\ visited' \subseteq Paths \cup {Start} /\ blocked' \in Nat
    BY <1>6, <2>1 DEF FollowLinks, Fits
  <2>4. ASSUME level' # <<>> PROVE depth' <= MaxDepth
    <3>1. PICK p : p \in Range(NextLevel.level)
      <4>1. level'[1] \in Range(level')
        BY <2>3, <2>4 DEF Range
      <4> QED
        BY <4>1, <1>6 DEF FollowLinks
    <3>2. ~ AtLimit
      BY <1>0, <2>1, <3>1, FoundIs DEF Fits, TypeOK
    <3> QED
      BY <1>0, <1>6, <2>2, <3>2 DEF AtLimit, FollowLinks
  <2>5. level' \in Seq(Paths \cup {Start})
    BY <2>3
  <2>6. stage' = "level" /\ depth' \in 0..(MaxDepth + 1)
    BY <1>0, <1>6, <2>2 DEF FollowLinks
  <2>7. UNCHANGED <<site, batch, truncated, next, waiting, fetching, fetched, pages, aborted, result, asked>>
    BY <1>6 DEF FollowLinks, poolVars
  <2> QED
    BY <1>0, <1>c, <2>3, <2>4, <2>5, <2>6, <2>7 DEF TypeOK
<1>7. CASE \/ Discover \/ Collect \/ EndCrawl \/ StopAtLevel \/ Lookup \/ Probe \/ Finish
           \/ Abort \/ Throw \/ UNCHANGED vars
  <2>1. UNCHANGED <<site, depth, level, batch, visited, blocked, next, waiting, fetching, fetched,
                    pages, asked>>
    BY <1>7 DEF Discover, Collect, EndCrawl, StopAtLevel, Lookup, Probe, Finish, Abort, Throw,
                vars, levelVars, poolVars
  <2>2. /\ stage' \in {"discover", "level", "fetch", "pages", "checks"}
        /\ truncated' \in BOOLEAN /\ aborted' \in BOOLEAN
        /\ result' \in {"none", "completed", "partial", "cancelled", "failed"}
    BY <1>0, <1>7 DEF TypeOK, Discover, Collect, EndCrawl, StopAtLevel, Lookup, Probe, Finish,
                      Abort, Throw, Cancel, vars, levelVars, poolVars
  <2> QED
    BY <1>0, <1>c, <2>1, <2>2 DEF TypeOK
<1> QED
  BY <1>1, <1>2, <1>3, <1>5, <1>6, <1>7 DEF Next, Crawl, Pool

-------------------------------------------------------------------------------

\* What the pool has is finite, and it has something only while it fetches.
LEMMA PoolIs ==
    ASSUME IInv
    PROVE  /\ Len(batch) \in Nat /\ DOMAIN batch = 1..Len(batch)
           /\ IsFiniteSet(fetching \cup waiting)
           /\ IsFiniteSet(1..Len(batch)) /\ Cardinality(1..Len(batch)) = Len(batch)
           /\ Cardinality(fetching \cup waiting) \in Nat
           /\ fetching \cup waiting # {} => stage = "fetch"
<1>1. /\ Len(batch) \in Nat /\ DOMAIN batch = 1..Len(batch)
      /\ fetching \cup waiting \subseteq 1..Len(batch)
  BY DEF IInv, TypeOK
<1>2. IsFiniteSet(1..Len(batch)) /\ Cardinality(1..Len(batch)) = Len(batch)
  <2>1. 1 \in Int /\ Len(batch) \in Int
    BY <1>1
  <2>2. /\ IsFiniteSet(1..Len(batch))
        /\ Cardinality(1..Len(batch)) = IF 1 > Len(batch) THEN 0 ELSE Len(batch) - 1 + 1
    BY <2>1, FS_Interval
  <2> QED
    BY <1>1, <2>2
<1>3. IsFiniteSet(fetching \cup waiting)
  BY <1>1, <1>2, FS_Subset
<1> QED
  BY <1>1, <1>2, <1>3, FS_CardinalityType DEF IInv, AskInv, PoolInv

\* A page that is received makes room for the next index.
LEMMA ReceiveKeepsPool == \A i : IInv /\ Receive(i) => PoolInv'
<1> SUFFICES ASSUME NEW i, IInv, Receive(i) PROVE PoolInv'
  OBVIOUS
<1>1. /\ i \in fetching /\ fetching' = fetching \ {i} /\ fetched' = Append(fetched, i)
      /\ stage' = stage /\ stage = "fetch" /\ next \in Nat
      /\ fetched \in Seq(DOMAIN batch) /\ i \in DOMAIN batch
  BY PoolIs DEF Receive, IInv, TypeOK
<1>2. /\ Range(fetched') = Range(fetched) \cup {i}
      /\ i \notin Range(fetched) /\ IsInjective(fetched) => IsInjective(fetched')
  BY <1>1, AppendRange
<1>3. /\ waiting \cap fetching = {} /\ IsInjective(fetched)
      /\ (waiting \cup fetching) \cap Range(fetched) = {}
      /\ \A k \in waiting \cup fetching \cup Range(fetched) : k < next
      /\ Cardinality(fetching \cup waiting) <= Concurrency
  BY DEF IInv, AskInv, PoolInv
<1> DEFINE rest == (fetching \cup waiting) \ {i}
<1>4. IsFiniteSet(rest) /\ Cardinality(rest) = Cardinality(fetching \cup waiting) - 1
  BY <1>1, PoolIs, FS_RemoveElement
<1>5. Concurrency \in Nat /\ Cardinality(fetching \cup waiting) \in Nat
  BY ConstantsAssumption, PoolIs
<1>6. CASE waiting' = waiting
  <2>1. fetching' \cup waiting' = rest
    BY <1>1, <1>3, <1>6
  <2> HIDE DEF rest
  <2>2. Cardinality(fetching' \cup waiting') <= Concurrency
    <3>1. Cardinality(fetching' \cup waiting') = Cardinality(rest)
      BY <2>1, Zenon
    <3> QED
      BY <1>3, <1>4, <1>5, <3>1
  <2>3. next' \in Nat /\ next <= next'
    BY <1>1 DEF Receive
  <2>4. \A k \in waiting' \cup fetching' \cup Range(fetched') : k \in Nat /\ k < next'
    <3>1. \A k \in waiting \cup fetching \cup Range(fetched) : k \in Nat
      BY <1>1, SMTT(30) DEF IInv, TypeOK, Range
    <3> QED
      BY <1>1, <1>2, <1>3, <1>6, <2>3, <3>1
  <2> QED
    BY <1>1, <1>2, <1>3, <1>6, <2>2, <2>4 DEF PoolInv
<1>7. CASE waiting' = waiting \cup {next} /\ next' = next + 1
  <2>1. fetching' \cup waiting' = rest \cup {next}
    BY <1>1, <1>3, <1>7
  <2>2. next \notin fetching \cup waiting \cup Range(fetched)
    BY <1>1, <1>3
  <2>3. next \notin rest /\ next # i
    BY <1>1, <2>2
  <2> HIDE DEF rest
  <2>4. Cardinality(rest \cup {next}) = Cardinality(rest) + 1
    BY <1>4, <2>3, FS_AddElement
  <2>5. Cardinality(fetching' \cup waiting') <= Concurrency
    <3>1. Cardinality(fetching' \cup waiting') = Cardinality(rest \cup {next})
      BY <2>1, Zenon
    <3> QED
      BY <1>3, <1>4, <1>5, <2>4, <3>1
  <2>6. \A k \in waiting' \cup fetching' \cup Range(fetched') : k < next'
    <3>1. \A k \in waiting \cup fetching \cup Range(fetched) : k \in Nat
      BY <1>1, SMTT(30) DEF IInv, TypeOK, Range
    <3> QED
      BY <1>1, <1>2, <1>3, <1>7, <3>1
  <2> QED
    BY <1>1, <1>2, <1>3, <1>7, <2>2, <2>3, <2>5, <2>6 DEF PoolInv
<1> QED
  BY <1>6, <1>7 DEF Receive

\* A batch that is in has left the pool empty.
LEMMA Collected ==
    ASSUME IInv, Len(fetched) = Len(batch)
    PROVE  waiting = {} /\ fetching = {}
<1>1. /\ fetched \in Seq(DOMAIN batch) /\ DOMAIN fetched = 1..Len(batch)
      /\ DOMAIN batch = 1..Len(batch) /\ Len(batch) \in Nat
  BY PoolIs DEF IInv, TypeOK
<1>2. IsInjective(fetched) /\ Range(fetched) \subseteq 1..Len(batch)
  BY <1>1 DEF IInv, AskInv, PoolInv, Range
<1>3. Range(fetched) = 1..Len(batch)
  <2>1. fetched \in [1..Len(batch) -> 1..Len(batch)]
    BY <1>1
  <2>2. fetched \in Injection(1..Len(batch), 1..Len(batch))
    BY <1>2, <2>1 DEF Injection
  <2>3. fetched \in Surjection(1..Len(batch), 1..Len(batch))
    BY <2>2, PoolIs, FS_Injection
  <2> QED
    BY <1>1, <1>2, <2>3 DEF Surjection, Range
<1> QED
  BY <1>1, <1>3 DEF IInv, AskInv, PoolInv, TypeOK

\* Every step keeps the pool.
LEMMA PoolInvariant == IInv /\ [Next]_vars => PoolInv'
<1> SUFFICES ASSUME IInv, [Next]_vars PROVE PoolInv'
  OBVIOUS
<1>0. Concurrency \in Nat \ {0}
  BY ConstantsAssumption
<1>1. CASE StartLevel
  <2> DEFINE n == Smaller(Concurrency, Len(batch'))
  <2>1. Len(batch') \in Nat \ {0}
    BY <1>1, BatchIs DEF IInv
  <2>2. n \in Nat /\ n <= Concurrency
    BY <1>0, <2>1 DEF Smaller
  <2> HIDE DEF n
  <2>3. /\ waiting' = 1..n /\ next' = n + 1 /\ fetching' = {} /\ fetched' = <<>> /\ stage' = "fetch"
    BY <1>1 DEF StartLevel, n
  <2>4. Cardinality(1..n) = n
    <3>1. 1 \in Int /\ n \in Int
      BY <2>2
    <3>2. Cardinality(1..n) = IF 1 > n THEN 0 ELSE n - 1 + 1
      BY <3>1, FS_Interval
    <3> QED
      BY <2>2, <3>2
  <2>5. fetching' \cup waiting' = 1..n
    BY <2>3
  <2>6. Range(fetched') = {} /\ IsInjective(fetched')
    BY <2>3 DEF Range, IsInjective
  <2> QED
    BY <1>0, <2>2, <2>3, <2>4, <2>5, <2>6 DEF PoolInv
<1>2. ASSUME NEW i \in DOMAIN batch, Request(i) PROVE PoolInv'
  <2>1. /\ waiting' = waiting \ {i} /\ i \in waiting /\ stage = "fetch"
        /\ fetching' = fetching \/ fetching' = fetching \cup {i}
        /\ UNCHANGED <<stage, next, fetched>>
    BY <1>2, PoolIs DEF Request
  <2>2. fetching' \cup waiting' \subseteq fetching \cup waiting
    BY <2>1
  <2>3. /\ Cardinality(fetching' \cup waiting') \in Nat
        /\ Cardinality(fetching' \cup waiting') <= Cardinality(fetching \cup waiting)
    BY <2>2, PoolIs, FS_Subset, FS_CardinalityType
  <2>4. Cardinality(fetching' \cup waiting') <= Concurrency
    BY <1>0, <2>3, PoolIs DEF IInv, AskInv, PoolInv
  <2> QED
    BY <2>1, <2>4 DEF IInv, AskInv, PoolInv
<1>3. ASSUME NEW i \in DOMAIN batch, Receive(i) PROVE PoolInv'
  BY <1>3, ReceiveKeepsPool
<1>4. CASE Collect
  <2>1. waiting = {} /\ fetching = {} /\ UNCHANGED poolVars
    BY <1>4, Collected DEF Collect
  <2> QED
    BY <2>1 DEF IInv, AskInv, PoolInv, poolVars
<1>5. CASE \/ Discover \/ OnPage \/ FollowLinks \/ EndCrawl \/ StopAtLevel \/ Lookup \/ Probe \/ Finish
           \/ Abort \/ Throw \/ UNCHANGED vars
  <2>1. UNCHANGED poolVars /\ (stage' = stage \/ stage # "fetch")
    BY <1>5 DEF Discover, OnPage, FollowLinks, EndCrawl, StopAtLevel, Lookup, Probe, Finish, Abort,
                Throw, vars
  <2> QED
    BY <2>1 DEF IInv, AskInv, PoolInv, poolVars
<1> QED
  BY <1>1, <1>2, <1>3, <1>4, <1>5 DEF Next, Crawl, Pool

-------------------------------------------------------------------------------

\* The site does not change, nor what is within reach on it.
LEMMA SiteFixed ==
    ASSUME [Next]_vars
    PROVE  /\ site' = site /\ Within' = Within
           /\ \A n : Nearer(n)' = Nearer(n) /\ At(n)' = At(n)
<1>1. site' = site
  BY DEF Next, Crawl, Discover, StartLevel, Collect, OnPage, FollowLinks, EndCrawl, StopAtLevel,
         Lookup, Probe, Finish, Pool, Request, Receive, Abort, Throw, vars
<1>2. Within' = Within
  BY <1>1 DEF Within, LinksOf
<1> QED
  BY <1>1, <1>2 DEF Nearer, At

\* The page that is handed on, if one is.
LEMMA PageIs ==
    ASSUME TypeOK, OnPage, pages' # pages
    PROVE  /\ stage = "pages" /\ Len(batch) \in Nat /\ Handed + 1 \in 1..Len(batch)
           /\ DOMAIN batch = 1..Len(batch)
           /\ Len(pages') = Len(pages) + 1 /\ DOMAIN pages' = 1..(Len(pages) + 1)
           /\ \A i \in 1..Len(pages) : pages'[i] = pages[i]
           /\ pages'[Len(pages) + 1].path = batch[Handed + 1]
           /\ pages'[Len(pages) + 1].depth = depth
           /\ OfLevel' = OfLevel \cup {Len(pages) + 1}
           /\ Handed' = Handed + 1
<1> DEFINE page == [path |-> batch[Handed + 1], depth |-> depth]
           n == Len(pages)
<1>1. /\ stage = "pages" /\ depth' = depth
      /\ Handed < Len(batch) /\ Len(batch) \in Nat /\ DOMAIN batch = 1..Len(batch)
  BY DEF OnPage, levelVars, TypeOK
<1>8. pages' = Append(pages, page)
  BY DEF OnPage, ResultAt
<1>2. /\ n \in Nat /\ DOMAIN pages = 1..n /\ Handed \in 0..n
      /\ IsFiniteSet(OfLevel) /\ Handed = Cardinality(OfLevel)
  BY HandedCounts
<1>7. page.path = batch[Handed + 1] /\ page.depth = depth
  OBVIOUS
<1> HIDE DEF page
<1> DEFINE S == Range(pages) \cup {page}
<1>3. pages \in Seq(S)
  <2>1. \A i \in 1..n : pages[i] \in S
    BY <1>2 DEF Range
  <2>2. pages = [i \in 1..n |-> pages[i]]
    BY <1>2 DEF TypeOK
  <2> HIDE DEF S
  <2> QED
    BY <1>2, <2>1, <2>2
<1>4. /\ Len(pages') = n + 1 /\ DOMAIN pages' = 1..(n + 1)
      /\ \A i \in 1..n : pages'[i] = pages[i]
      /\ pages'[n + 1] = page
  <2>1. page \in S
    OBVIOUS
  <2> HIDE DEF S
  <2> QED
    BY <1>8, <1>3, <2>1
<1>5. OfLevel' = OfLevel \cup {n + 1}
  BY <1>1, <1>2, <1>4, <1>7 DEF OfLevel
<1>6. Handed' = Handed + 1
  <2>1. n + 1 \notin OfLevel
    BY <1>2 DEF OfLevel
  <2>2. Handed' = Cardinality(OfLevel')
    BY DEF Handed, OfLevel
  <2> QED
    BY <2>1, <2>2, <1>2, <1>5, FS_AddElement
<1> QED
  BY <1>1, <1>2, <1>4, <1>5, <1>6, <1>7

\* A page handed on is the last of the report, and one more of its level.
LEMMA OnPageKeepsOrder == IInv /\ OnPage => OrderInv'
<1> SUFFICES ASSUME IInv, OnPage PROVE OrderInv'
  OBVIOUS
<1>0. TypeOK /\ Behind /\ (stage = "pages" => AtEnd) /\ ReportOrder
  BY DEF IInv, OrderInv
<1>1. CASE pages' = pages
  BY <1>0, <1>1 DEF OnPage, OrderInv, Behind, AtEnd, OfLevel, ReportOrder, Handed, levelVars
<1>2. CASE pages' # pages
  <2> DEFINE n == Len(pages)
  <2>1. /\ stage = "pages" /\ Handed + 1 \in 1..Len(batch)
        /\ Len(pages') = n + 1 /\ DOMAIN pages' = 1..(n + 1)
        /\ \A i \in 1..n : pages'[i] = pages[i]
        /\ pages'[n + 1].path = batch[Handed + 1] /\ pages'[n + 1].depth = depth
        /\ OfLevel' = OfLevel \cup {n + 1} /\ Handed' = Handed + 1
    BY <1>0, <1>2, PageIs
  <2>2. n \in Nat /\ DOMAIN pages = 1..n /\ Handed \in 0..n
    BY <1>0, HandedCounts
  <2>3. stage' = stage /\ depth' = depth /\ batch' = batch
    BY DEF OnPage, levelVars
  <2>4. Behind'
    BY <1>0, <2>1, <2>2, <2>3 DEF Behind
  <2>5. AtEnd'
    BY <1>0, <2>1, <2>2, <2>3 DEF AtEnd
  <2>6. ReportOrder'
    <3> SUFFICES ASSUME NEW i \in 1..(Handed + 1)
                 PROVE  pages'[n - Handed + i].path = batch[i]
      BY <2>1, <2>2, <2>3 DEF ReportOrder
    <3>1. CASE i = Handed + 1
      BY <3>1, <2>1, <2>2
    <3>2. CASE i \in 1..Handed
      <4>1. n - Handed + i \in 1..n
        BY <3>2, <2>2
      <4> QED
        BY <4>1, <3>2, <1>0, <2>1, <2>2 DEF ReportOrder
    <3> QED
      BY <3>1, <3>2, <2>2
  <2> QED
    BY <2>3, <2>4, <2>5, <2>6 DEF OrderInv
<1> QED
  BY <1>1, <1>2

\* Every step keeps the order of the report.
LEMMA OrderInvariant == IInv /\ [Next]_vars => OrderInv'
<1> SUFFICES ASSUME IInv, [Next]_vars PROVE OrderInv'
  OBVIOUS
<1>0. TypeOK /\ Behind /\ (stage = "pages" => AtEnd) /\ ReportOrder
  BY DEF IInv, OrderInv
<1>1. CASE OnPage
  BY <1>1, OnPageKeepsOrder
<1>2. CASE Collect
  <2>1. UNCHANGED <<depth, batch, pages>> /\ stage = "fetch" /\ stage' = "pages"
    BY <1>2 DEF Collect, levelVars
  <2>2. OfLevel = {} /\ OfLevel' = {} /\ Handed' = 0
    <3>1. OfLevel = {} /\ OfLevel' = {}
      BY <1>0, <2>1 DEF Behind, OfLevel
    <3> QED
      BY <3>1, FS_EmptySet DEF Handed, OfLevel
  <2>3. Len(pages) \in Nat
    BY <1>0, HandedCounts
  <2> QED
    BY <1>0, <2>1, <2>2, <2>3 DEF OrderInv, Behind, AtEnd, ReportOrder
<1>3. CASE FollowLinks
  <2>1. depth' = depth + 1 /\ stage' = "level" /\ pages' = pages
    BY <1>3 DEF FollowLinks
  <2> QED
    BY <1>0, <2>1 DEF OrderInv, Behind, ReportOrder
<1>4. CASE Discover \/ StartLevel \/ EndCrawl
  <2>1. stage' # "pages" /\ UNCHANGED <<depth, pages>> /\ stage # "pages"
    BY <1>4 DEF Discover, StartLevel, EndCrawl, levelVars
  <2> QED
    BY <1>0, <2>1 DEF OrderInv, Behind, ReportOrder
<1>5. CASE StopAtLevel \/ Lookup \/ Probe \/ Finish \/ Pool \/ Abort \/ Throw \/ UNCHANGED vars
  <2>1. UNCHANGED <<stage, depth, batch, pages>>
    BY <1>5 DEF StopAtLevel, Lookup, Probe, Finish, Pool, Request, Receive, Abort, Throw, vars,
                levelVars
  <2> QED
    BY <1>0, <2>1 DEF OrderInv, Behind, AtEnd, OfLevel, Handed, ReportOrder
<1> QED
  BY <1>1, <1>2, <1>3, <1>4, <1>5 DEF Next, Crawl

-------------------------------------------------------------------------------

\* The levels stay placed when nothing of them changes.
LEMMA LevelInvKept ==
    ASSUME IInv, [Next]_vars, UNCHANGED <<depth, level, visited, pages>>,
           Whole' => Whole, ~ truncated' => ~ truncated
    PROVE  LevelInv'
<1>0. Within' = Within
  BY SiteFixed
<1>1. PagesPlaced'
  BY <1>0 DEF IInv, LevelInv, PagesPlaced, At, Nearer
<1>2. EarlierComplete'
  BY <1>0 DEF IInv, LevelInv, EarlierComplete, EarlierPaths, Nearer
<1>3. LevelPlaced'
  BY <1>0 DEF IInv, LevelInv, LevelPlaced, At, Nearer
<1>4. LevelComplete'
  BY <1>0 DEF IInv, LevelInv, LevelComplete, At, Nearer
<1>5. Seen'
  BY <1>0 DEF IInv, LevelInv, Seen, Nearer
<1> QED
  BY <1>1, <1>2, <1>3, <1>4, <1>5 DEF LevelInv

\* A path of an earlier level is nearer than those of the current one.
LEMMA EarlierIsNearer ==
    ASSUME IInv, NEW i \in DOMAIN pages, pages[i].depth < depth
    PROVE  pages[i].path \in Nearer(depth)
<1>1. pages[i].depth \in Nat /\ depth \in Nat /\ pages[i].path \in At(pages[i].depth)
  BY DEF IInv, OrderInv, Behind, LevelInv, PagesPlaced
<1>2. depth # 0 /\ depth - 1 \in Nat /\ pages[i].depth <= depth - 1
  BY <1>1
<1>3. Within[pages[i].depth] \subseteq Within[depth - 1]
  BY <1>1, <1>2, WithinGrows
<1> QED
  BY <1>1, <1>2, <1>3 DEF At, Nearer

\* The pages of the level are those of the batch, as far as they are handed on.
LEMMA LevelPages ==
    ASSUME IInv, stage = "pages"
    PROVE  /\ \A i \in DOMAIN pages : pages[i].depth = depth =>
                  \E k \in 1..Handed : pages[i].path = batch[k]
           /\ \A k \in 1..Handed : \E i \in DOMAIN pages :
                  pages[i].depth = depth /\ pages[i].path = batch[k]
<1>1. /\ DOMAIN pages = 1..Len(pages) /\ Len(pages) \in Nat /\ Handed \in 0..Len(pages)
      /\ OfLevel = (Len(pages) - Handed + 1)..Len(pages)
      /\ \A k \in 1..Handed : pages[Len(pages) - Handed + k].path = batch[k]
  BY HandedCounts DEF IInv, OrderInv, AtEnd, ReportOrder
<1>2. ASSUME NEW i \in DOMAIN pages, pages[i].depth = depth
      PROVE  \E k \in 1..Handed : pages[i].path = batch[k]
  <2>1. i \in (Len(pages) - Handed + 1)..Len(pages)
    BY <1>1, <1>2 DEF OfLevel
  <2> DEFINE k == i - (Len(pages) - Handed)
  <2>2. k \in 1..Handed /\ Len(pages) - Handed + k = i
    BY <1>1, <2>1
  <2> HIDE DEF k
  <2> QED
    BY <1>1, <2>2
<1>3. ASSUME NEW k \in 1..Handed
      PROVE  \E i \in DOMAIN pages : pages[i].depth = depth /\ pages[i].path = batch[k]
  <2> DEFINE i == Len(pages) - Handed + k
  <2>1. i \in (Len(pages) - Handed + 1)..Len(pages) /\ i \in DOMAIN pages
    BY <1>1
  <2>2. pages[i].path = batch[k]
    BY <1>1
  <2> HIDE DEF i
  <2>3. pages[i].depth = depth
    BY <1>1, <2>1 DEF OfLevel
  <2> QED
    BY <2>1, <2>2, <2>3
<1> QED
  BY <1>2, <1>3

\* A page that is handed on is at its distance, and was not listed before.
LEMMA OnPageKeepsLevel == IInv /\ OnPage => LevelInv'
<1> SUFFICES ASSUME IInv, OnPage PROVE LevelInv'
  OBVIOUS
<1>0. /\ [Next]_vars /\ Within' = Within
      /\ UNCHANGED <<depth, level, visited, truncated, stage>> /\ stage = "pages"
  BY SiteFixed DEF Next, Crawl, OnPage, levelVars
<1>1. CASE pages' = pages
  BY <1>0, <1>1, LevelInvKept DEF Whole
<1>2. CASE pages' # pages
  <2> DEFINE n == Len(pages)
             k == Handed + 1
  <2>1. /\ k \in 1..Len(batch) /\ DOMAIN batch = 1..Len(batch)
        /\ DOMAIN pages' = 1..(n + 1)
        /\ \A i \in 1..n : pages'[i] = pages[i]
        /\ pages'[n + 1].path = batch[k] /\ pages'[n + 1].depth = depth
    BY <1>2, PageIs DEF IInv
  <2>2. n \in Nat /\ DOMAIN pages = 1..n /\ k \in Nat /\ k - 1 = Handed
    BY HandedCounts DEF IInv
  <2>3. /\ \A i \in 1..Len(batch) : batch[i] = level[i] /\ i \in DOMAIN level
        /\ IsInjective(level) /\ Range(level) \subseteq At(depth)
    <3>1. Whole
      BY <1>0 DEF Whole
    <3>2. level \in Seq(Paths \cup {Start}) /\ batch \in Seq(Paths \cup {Start})
      BY DEF IInv, TypeOK
    <3>3. /\ \A i \in DOMAIN batch : batch[i] = level[i]
          /\ Len(batch) \in 1..Len(level)
      BY <1>0 DEF IInv, EndInv, BatchOfLevel
    <3> QED
      BY <2>1, <3>1, <3>2, <3>3 DEF IInv, LevelInv, LevelPlaced
  <2>4. batch[k] \in At(depth)
    BY <2>1, <2>3 DEF Range
  <2>5. \A i \in 1..n : pages[i].path # batch[k]
    <3> SUFFICES ASSUME NEW i \in 1..n, pages[i].path = batch[k] PROVE FALSE
      OBVIOUS
    <3>1. CASE pages[i].depth = depth
      <4>1. PICK j \in 1..Handed : batch[j] = batch[k]
        BY <1>0, <2>2, <3>1, LevelPages
      <4>2. j \in 1..Len(batch) /\ j # k
        BY <2>1, <2>2, <4>1
      <4> QED
        BY <2>1, <2>3, <4>1, <4>2 DEF IsInjective
    <3>2. CASE pages[i].depth # depth
      <4>1. pages[i].depth < depth
        BY <2>2, <3>2 DEF IInv, OrderInv, Behind
      <4>2. batch[k] \in Nearer(depth)
        BY <2>2, <4>1, EarlierIsNearer
      <4> QED
        BY <2>4, <4>2 DEF At
    <3> QED
      BY <3>1, <3>2
  <2>6. \A i \in 1..(n + 1) : i \in 1..n \/ i = n + 1
    BY <2>2
  <2> HIDE DEF n, k
  <2>7. PagesPlaced'
    <3>1. \A i \in 1..n : pages[i].path \in At(pages[i].depth)
      BY <2>2 DEF IInv, LevelInv, PagesPlaced
    <3>2. \A i \in 1..(n + 1) : pages'[i].path \in At(pages'[i].depth)
      BY <2>1, <2>4, <2>6, <3>1
    <3>3. \A i, j \in 1..n : pages[i].path = pages[j].path => i = j
      BY <2>2 DEF IInv, LevelInv, PagesPlaced
    <3>4. \A i, j \in 1..(n + 1) : pages'[i].path = pages'[j].path => i = j
      BY <2>1, <2>5, <2>6, <3>3
    <3> QED
      BY <1>0, <2>1, <3>2, <3>4 DEF PagesPlaced, At, Nearer
  <2>8. EarlierPaths' = EarlierPaths
    <3>1. depth \in Nat /\ ~ (depth < depth)
      BY DEF IInv, OrderInv, Behind
    <3> QED
      BY <1>0, <2>1, <2>2, <2>6, <3>1 DEF EarlierPaths
  <2>9. EarlierComplete'
    BY <1>0, <2>8 DEF IInv, LevelInv, EarlierComplete, Nearer, Whole
  <2> QED
    BY <1>0, <2>7, <2>9 DEF IInv, LevelInv, LevelPlaced, LevelComplete, Seen, At, Nearer, Whole
<1> QED
  BY <1>1, <1>2

\* Nearer and at a distance: within it.
LEMMA NearerOrAt == \A n \in Nat : Nearer(n) \cup At(n) = Within[n] /\ Nearer(n) \subseteq Within[n]
<1> SUFFICES ASSUME NEW n \in Nat PROVE Nearer(n) \subseteq Within[n]
  BY DEF At
<1>1. CASE n = 0
  BY <1>1 DEF Nearer
<1>2. CASE n # 0
  <2>1. n - 1 \in Nat /\ n - 1 <= n
    BY <1>2
  <2> QED
    BY <1>2, <2>1, WithinGrows DEF Nearer
<1> QED
  BY <1>1, <1>2

\* The level whose links are followed: all its pages of the batch are listed.
LEMMA LevelDone ==
    ASSUME IInv, FollowLinks
    PROVE  /\ stage = "pages" /\ Handed = Len(batch)
           /\ Len(batch) \in 1..Len(level) /\ DOMAIN batch = 1..Len(batch)
           /\ DOMAIN level = 1..Len(level)
           /\ \A i \in DOMAIN batch : batch[i] = level[i]
           /\ depth \in 0..MaxDepth
           /\ EarlierPaths = Nearer(depth) /\ IsInjective(level) /\ Range(level) \subseteq At(depth)
           /\ { pages[i].path : i \in { j \in DOMAIN pages : pages[j].depth = depth } } = Range(batch)
<1>1. stage = "pages" /\ Handed = Len(batch)
  BY DEF FollowLinks
<1>2. /\ level \in Seq(Paths \cup {Start}) /\ batch \in Seq(Paths \cup {Start})
      /\ level # <<>> /\ depth \in 0..MaxDepth
      /\ Len(batch) \in 1..Len(level)
      /\ \A i \in DOMAIN batch : batch[i] = level[i]
  BY <1>1, ConstantsAssumption DEF IInv, TypeOK, EndInv, BatchOfLevel
<1>3. Whole
  BY <1>1 DEF Whole
<1>4. EarlierPaths = Nearer(depth) /\ IsInjective(level) /\ Range(level) \subseteq At(depth)
  BY <1>3 DEF IInv, LevelInv, EarlierComplete, LevelPlaced
<1>5. DOMAIN batch = 1..Handed
  BY <1>1, <1>2
<1>6. { pages[i].path : i \in { j \in DOMAIN pages : pages[j].depth = depth } } = Range(batch)
  BY <1>1, <1>5, LevelPages, SMTT(30) DEF Range
<1> QED
  BY <1>1, <1>2, <1>4, <1>6

\* A level below the start page's that fills the budget is cut off.
LEMMA WholeLevel ==
    ASSUME IInv, FollowLinks, ~ truncated
    PROVE  /\ Range(level) = At(depth) /\ Range(batch) = At(depth)
           /\ Nearer(depth) \cup Range(level) = Within[depth]
<1>1. /\ stage = "pages" /\ Handed = Len(batch) /\ depth \in 0..MaxDepth
      /\ DOMAIN batch = 1..Len(batch) /\ DOMAIN level = 1..Len(level)
      /\ \A i \in DOMAIN batch : batch[i] = level[i]
      /\ EarlierPaths = Nearer(depth)
  BY LevelDone
<1>2. Len(batch) = Len(level) /\ Len(pages) - Handed + Len(batch) <= MaxPages
  BY <1>1 DEF IInv, EndInv, BatchOfLevel
<1>3. Range(batch) = Range(level)
  BY <1>1, <1>2 DEF Range
<1>4. MaxDepth \in Nat /\ MaxPages \in Nat /\ Len(level) \in Nat /\ Len(pages) \in Nat
  BY ConstantsAssumption DEF IInv, TypeOK
<1>5. ASSUME depth # 0 PROVE Len(level) < MaxPages
  <2>1. Start \in Nearer(depth)
    <3>1. 0 \in Nat /\ depth - 1 \in Nat /\ 0 <= depth - 1
      BY <1>1, <1>4, <1>5
    <3>2. Within[0] \subseteq Within[depth - 1]
      BY <3>1, WithinGrows
    <3> QED
      BY <1>5, <3>2, WithinDef DEF Nearer
  <2>2. PICK i \in DOMAIN pages : pages[i].depth < depth
    BY <1>1, <2>1 DEF EarlierPaths
  <2>3. i \notin OfLevel /\ i \in 1..Len(pages)
    BY <1>1, <1>4, <2>2, HandedCounts DEF OfLevel, IInv
  <2>4. Handed < Len(pages)
    <3>1. OfLevel \in SUBSET (1..Len(pages)) /\ IsFiniteSet(1..Len(pages))
          /\ Cardinality(1..Len(pages)) = Len(pages)
      <4>1. 1 \in Int /\ Len(pages) \in Int
        BY <1>4
      <4>2. /\ IsFiniteSet(1..Len(pages))
            /\ Cardinality(1..Len(pages)) = IF 1 > Len(pages) THEN 0 ELSE Len(pages) - 1 + 1
        BY <4>1, FS_Interval
      <4>3. OfLevel \subseteq 1..Len(pages)
        BY HandedCounts DEF OfLevel, IInv
      <4> QED
        BY <1>4, <4>2, <4>3
    <3>2. Cardinality(OfLevel) <= Len(pages) /\ Cardinality(OfLevel) # Len(pages)
      BY <2>3, <3>1, FS_Subset
    <3> QED
      BY <1>4, <3>2, HandedCounts DEF IInv
  <2> QED
    BY <1>1, <1>2, <1>4, <2>4
<1>6. Range(level) = At(depth)
  BY <1>1, <1>4, <1>5 DEF IInv, LevelInv, LevelComplete
<1>7. Nearer(depth) \cup At(depth) = Within[depth]
  BY <1>1, NearerOrAt
<1> QED
  BY <1>3, <1>6, <1>7

\* The next level is what is one link further, each path once.
LEMMA FollowLinksKeepsLevel == IInv /\ FollowLinks => LevelInv'
<1> SUFFICES ASSUME IInv, FollowLinks PROVE LevelInv'
  OBVIOUS
<1>0. /\ [Next]_vars /\ Within' = Within
      /\ depth' = depth + 1 /\ stage' = "level" /\ pages' = pages /\ truncated' = truncated
      /\ level' = NextLevel.level /\ visited' = NextLevel.visited
  BY SiteFixed DEF Next, Crawl, FollowLinks
<1>1. PagesPlaced'
  BY <1>0 DEF IInv, LevelInv, PagesPlaced, At, Nearer
<1>2. /\ depth \in Nat /\ depth' - 1 = depth /\ depth' # 0 /\ depth' \in Nat
      /\ depth \in 0..MaxDepth /\ MaxDepth \in Nat /\ MaxPages \in Nat
  BY <1>0, LevelDone, ConstantsAssumption
<1>10. Nearer(depth)' = Within[depth] /\ At(depth)' = Within[depth + 1] \ Within[depth]
  BY <1>0, <1>2, Zenon DEF Nearer, At
<1>3. EarlierPaths' = EarlierPaths \cup Range(batch)
  <2>1. \A i \in DOMAIN pages :
            pages[i].depth < depth' <=> pages[i].depth < depth \/ pages[i].depth = depth
    BY <1>0, <1>2 DEF IInv, OrderInv, Behind
  <2>2. EarlierPaths' = EarlierPaths \cup
          { pages[i].path : i \in { j \in DOMAIN pages : pages[j].depth = depth } }
    BY <1>0, <2>1 DEF EarlierPaths
  <2> QED
    BY <2>2, LevelDone
<1>4. Fits(NextLevel, Range(Found))
  BY NextLevelFits DEF IInv, TypeOK
<1>5. \A p : p \in Range(Found) <=>
          /\ ~ AtLimit
          /\ \/ \E i \in DOMAIN batch : p \in Range(LinksOf(batch[i]))
             \/ depth = 0 /\ p \in Range(Sitemap)
  BY FoundIs DEF IInv, TypeOK
<1>6. level' \in Seq(Paths) /\ Len(level') \in Nat /\ IsInjective(level')
  BY <1>0, <1>4 DEF Fits
<1>7. Start \in visited'
  <2>1. Start \in visited
    BY DEF IInv, LevelInv, Seen
  <2> QED
    BY <1>0, <1>4, <2>1 DEF Fits
<1>8. CASE truncated
  <2>1. ~ Whole' /\ truncated'
    BY <1>0, <1>8 DEF Whole
  <2> QED
    BY <1>1, <1>7, <2>1 DEF LevelInv, EarlierComplete, LevelPlaced, LevelComplete, Seen
<1>9. CASE ~ truncated
  <2>1. /\ Range(level) = At(depth) /\ Range(batch) = At(depth)
        /\ Nearer(depth) \cup Range(level) = Within[depth]
        /\ EarlierPaths = Nearer(depth)
    BY <1>9, WholeLevel, LevelDone
  <2>2. EarlierPaths' = Within[depth]
    BY <1>3, <2>1
  <2>3. EarlierComplete'
    BY <1>10, <2>2, <1>0 DEF EarlierComplete, Nearer
  <2>4. \A p \in Paths : Allowed(p) => (p \in visited <=> p \in Within[depth])
    BY <1>9, <2>1 DEF IInv, LevelInv, Seen, Whole
  <2>5. Within[depth + 1] = Within[depth] \cup Leads(Within[depth])
    BY <1>2, WithinDef
  <2>6. \A r \in Range(batch) : r \in Within[depth]
    BY <2>1
  <2>7. ASSUME NEW p \in Range(level')
        PROVE  p \in Paths /\ Allowed(p) /\ p \in Within[depth + 1] /\ p \notin Within[depth]
    <3>1. p \in Range(Found) /\ Allowed(p) /\ p \notin visited /\ p \in Paths
      BY <1>0, <1>4, <1>6, <2>7 DEF Fits, Range
    <3>2. p \in Leads(Within[depth])
      <4>1. \A i \in DOMAIN batch : batch[i] \in Range(batch)
        BY DEF Range
      <4> QED
        BY <1>5, <2>6, <3>1, <4>1 DEF Leads
    <3> QED
      BY <2>4, <2>5, <3>1, <3>2
  <2>8. Range(level') \subseteq Within[depth + 1] \ Within[depth]
    BY <2>7
  <2>9. LevelPlaced'
    BY <1>0, <1>2, <1>6, <2>8 DEF LevelPlaced, At, Nearer
  <2>10. ASSUME depth' <= MaxDepth, Len(level') < MaxPages,
                NEW p \in Within[depth + 1], p \notin Within[depth]
         PROVE  p \in Range(level')
    <3>1. ~ AtLimit
      BY <1>0, <1>2, <2>10 DEF AtLimit
    <3>2. p \in Paths /\ Allowed(p) /\ p \in Leads(Within[depth])
      BY <2>5, <2>10 DEF Leads
    <3>3. ASSUME depth # 0, p \in Leads(Nearer(depth)) PROVE FALSE
      <4>1. depth - 1 \in Nat /\ (depth - 1) + 1 = depth
        BY <1>2, <3>3
      <4>2. Within[(depth - 1) + 1] = Within[depth - 1] \cup Leads(Within[depth - 1])
        BY <4>1, WithinDef
      <4> QED
        BY <2>10, <3>3, <4>1, <4>2 DEF Nearer
    <3>4. p \in Range(Found)
      <4>1. CASE p \in Range(Sitemap)
        <5>1. depth = 0
          BY <3>2, <3>3, <4>1 DEF Leads
        <5> QED
          BY <1>5, <3>1, <4>1, <5>1
      <4>2. CASE p \notin Range(Sitemap)
        <5>1. PICK r \in Within[depth] : p \in Range(LinksOf(r))
          BY <3>2, <4>2 DEF Leads
        <5>2. r \notin Nearer(depth)
          <6>1. depth = 0 => Nearer(depth) = {}
            BY DEF Nearer
          <6> QED
            BY <3>2, <3>3, <5>1, <6>1 DEF Leads
        <5>3. r \in Range(batch)
          BY <2>1, <5>1, <5>2
        <5>4. PICK i \in DOMAIN batch : batch[i] = r
          BY <5>3 DEF Range
        <5> QED
          BY <1>5, <3>1, <5>1, <5>4
      <4> QED
        BY <4>1, <4>2
    <3>5. p \in visited \cup Range(level')
      BY <1>0, <2>10, <3>2, <3>4, <1>4 DEF Fits
    <3> QED
      BY <2>4, <2>10, <3>2, <3>5
  <2>11. LevelComplete'
    <3>1. depth' <= MaxDepth /\ Len(level') < MaxPages => Range(level') = Within[depth + 1] \ Within[depth]
      BY <2>8, <2>10
    <3> QED
      BY <1>0, <1>2, <3>1 DEF LevelComplete, At, Nearer
  <2>12. Seen'
    <3>1. \A p \in Paths : Allowed(p) => (p \in visited' <=> p \in Within[depth] \cup Range(level'))
      <4>1. \A p \in Paths : Allowed(p) => (p \in visited' <=> p \in visited \cup Range(level'))
        BY <1>0, <1>4 DEF Fits
      <4> QED
        BY <2>4, <4>1
    <3> QED
      BY <1>0, <1>2, <1>7, <3>1 DEF Seen, Nearer
  <2> QED
    BY <1>1, <2>3, <2>9, <2>11, <2>12 DEF LevelInv
<1> QED
  BY <1>8, <1>9

\* The budget is a number, spent when the report has MaxPages pages.
LEMMA BudgetIs ==
    ASSUME IInv
    PROVE  /\ Len(pages) \in Nat /\ MaxPages \in Nat
           /\ Budget > 0 => Len(pages) # MaxPages
           /\ Budget = 0 => Len(pages) = MaxPages
<1>1. Len(pages) \in Nat /\ MaxPages \in Nat
  BY ConstantsAssumption DEF IInv, TypeOK
<1> QED
  BY <1>1 DEF Budget

\* Every step keeps the levels.
LEMMA LevelInvariant == IInv /\ [Next]_vars => LevelInv'
<1> SUFFICES ASSUME IInv, [Next]_vars PROVE LevelInv'
  OBVIOUS
<1>1. CASE OnPage
  BY <1>1, OnPageKeepsLevel
<1>2. CASE FollowLinks
  BY <1>2, FollowLinksKeepsLevel
<1>3. CASE \/ Discover \/ StartLevel \/ Collect \/ EndCrawl \/ StopAtLevel \/ Lookup \/ Probe
           \/ Finish \/ Pool \/ Abort \/ Throw \/ UNCHANGED vars
  <2>1. UNCHANGED <<depth, level, visited, pages>>
    BY <1>3 DEF Discover, StartLevel, Collect, EndCrawl, StopAtLevel, Lookup, Probe, Finish, Pool,
                Request, Receive, Abort, Throw, vars, levelVars
  <2>2. ~ truncated' => ~ truncated
    BY <1>3 DEF Discover, StartLevel, Collect, EndCrawl, StopAtLevel, Lookup, Probe, Finish, Pool,
                Request, Receive, Abort, Throw, vars, levelVars
  <2>3. CASE StartLevel
    <3>1. Len(pages) # MaxPages
      BY <2>3, BudgetIs DEF StartLevel
    <3>2. Whole
      BY <2>3, <3>1 DEF StartLevel, Whole, IInv, EndInv, CutOff
    <3> QED
      BY <2>1, <2>2, <3>2, LevelInvKept
  <2>4. CASE ~ StartLevel
    <3>1. Whole' => Whole
      BY <1>3, <2>2, <2>4 DEF Discover, Collect, EndCrawl, StopAtLevel, Lookup, Probe, Finish,
                              Pool, Request, Receive, Abort, Throw, vars, levelVars, Whole
    <3> QED
      BY <2>1, <2>2, <3>1, LevelInvKept
  <2> QED
    BY <2>3, <2>4
<1> QED
  BY <1>1, <1>2, <1>3 DEF Next, Crawl

-------------------------------------------------------------------------------

\* Until a level is done, none of the pages is of the current level.
LEMMA AllEarlier ==
    ASSUME IInv, stage # "pages"
    PROVE  Scanned = EarlierPaths /\ Handed = 0
<1>1. \A i \in DOMAIN pages : pages[i].depth < depth /\ pages[i].depth # depth
  BY DEF IInv, OrderInv, Behind
<1>2. OfLevel = {}
  BY <1>1 DEF OfLevel
<1> QED
  BY <1>1, <1>2, FS_EmptySet DEF Scanned, EarlierPaths, Handed, OfLevel

\* What is scanned is within the depth of the level.
LEMMA ScannedIsWithin ==
    ASSUME IInv
    PROVE  Scanned \subseteq Within[depth]
<1> SUFFICES ASSUME NEW i \in DOMAIN pages PROVE pages[i].path \in Within[depth]
  BY DEF Scanned
<1>1. /\ pages[i].depth \in Nat /\ depth \in Nat /\ pages[i].depth <= depth
      /\ pages[i].path \in At(pages[i].depth)
  BY DEF IInv, OrderInv, Behind, LevelInv, PagesPlaced
<1> QED
  BY <1>1, WithinGrows DEF At

\* Every step keeps to the budget within a level.
LEMMA BatchInvariant == IInv /\ [Next]_vars => BatchOfLevel'
<1> SUFFICES ASSUME IInv, [Next]_vars PROVE BatchOfLevel'
  OBVIOUS
<1>0. BatchOfLevel
  BY DEF IInv, EndInv
<1>1. CASE StartLevel
  <2>1. stage = "level" /\ stage' = "fetch" /\ level # <<>> /\ UNCHANGED <<level, pages, depth>>
    BY <1>1 DEF StartLevel
  <2>2. Handed = 0 /\ Handed' = Handed
    BY <2>1, AllEarlier DEF Handed
  <2>3. /\ Len(batch') \in 1..Len(level) /\ DOMAIN batch' = 1..Len(batch')
        /\ \A i \in 1..Len(batch') : batch'[i] = level[i]
        /\ Len(pages) \in Nat /\ Len(level) \in Nat
        /\ Len(pages) + Len(batch') <= MaxPages
        /\ Len(batch') < Len(level) => Len(pages) + Len(batch') = MaxPages
    BY <1>1, BatchIs DEF IInv
  <2>4. ~ truncated
    <3>1. Len(pages) # MaxPages
      BY <1>1, BudgetIs DEF StartLevel
    <3> QED
      BY <2>1, <3>1 DEF IInv, EndInv, CutOff
  <2>5. truncated' <=> Len(batch') < Len(level)
    BY <1>1, <2>4 DEF StartLevel
  <2> QED
    <3>1. Len(batch') \in Nat /\ Handed' = 0
      BY <2>2, <2>3
    <3>2. /\ Handed' <= Len(batch') /\ Len(pages') - Handed' + Len(batch') <= MaxPages
          /\ Len(batch') < Len(level) => Len(pages') - Handed' + Len(batch') = MaxPages
          /\ ~ Len(batch') < Len(level) => Len(batch') = Len(level)
      BY <2>1, <2>3, <3>1
    <3> QED
      BY <2>1, <2>3, <2>5, <3>2 DEF BatchOfLevel
<1>2. CASE OnPage
  <2>1. UNCHANGED <<stage, level, batch, truncated, depth>> /\ stage = "pages"
    BY <1>2 DEF OnPage, levelVars
  <2>2. CASE pages' = pages
    BY <1>0, <2>1, <2>2 DEF BatchOfLevel, Handed
  <2>3. CASE pages' # pages
    <3>1. /\ Handed' = Handed + 1 /\ Len(pages') = Len(pages) + 1 /\ Handed + 1 \in 1..Len(batch)
          /\ Handed \in Nat /\ Len(pages) \in Nat /\ Len(batch) \in Nat
      BY <1>2, <2>3, PageIs, HandedCounts DEF IInv
    <3>2. Len(pages') - Handed' = Len(pages) - Handed /\ Handed' <= Len(batch)
      BY <3>1
    <3> QED
      BY <1>0, <2>1, <3>1, <3>2 DEF BatchOfLevel
  <2> QED
    BY <2>2, <2>3
<1>3. CASE \/ Discover \/ FollowLinks \/ EndCrawl
  <2>1. stage' \notin {"fetch", "pages"}
    BY <1>3 DEF Discover, FollowLinks, EndCrawl
  <2> QED
    BY <2>1 DEF BatchOfLevel
<1>4. CASE Collect \/ StopAtLevel \/ Lookup \/ Probe \/ Finish \/ Pool \/ Abort \/ Throw
      \/ UNCHANGED vars
  <2>1. /\ UNCHANGED <<level, batch, truncated, depth, pages>>
        /\ stage' \in {"fetch", "pages"} => stage \in {"fetch", "pages"}
    BY <1>4 DEF Collect, StopAtLevel, Lookup, Probe, Finish, Pool, Request, Receive, Abort, Throw,
                vars, levelVars
  <2> QED
    BY <1>0, <2>1 DEF BatchOfLevel, Handed
<1> QED
  BY <1>1, <1>2, <1>3, <1>4 DEF Next, Crawl

\* A level that does not fit the budget leaves a path of it out.
LEMMA FollowLinksCutsOff == IInv /\ FollowLinks => CutOff'
<1> SUFFICES ASSUME IInv, FollowLinks, truncated PROVE CutOff'
  BY DEF FollowLinks, CutOff
<1>1. /\ Handed = Len(batch) /\ stage = "pages" /\ Len(batch) \in 1..Len(level)
      /\ DOMAIN level = 1..Len(level) /\ DOMAIN batch = 1..Len(batch)
      /\ \A i \in DOMAIN batch : batch[i] = level[i]
      /\ EarlierPaths = Nearer(depth) /\ IsInjective(level) /\ Range(level) \subseteq At(depth)
      /\ depth \in 0..MaxDepth
  BY LevelDone
<1>2. Len(batch) < Len(level) /\ Len(pages) - Handed + Len(batch) = MaxPages
  BY <1>1 DEF IInv, EndInv, BatchOfLevel
<1>3. Len(pages) \in Nat /\ Len(batch) \in Nat /\ Len(level) \in Nat
  BY <1>1 DEF IInv, TypeOK
<1>4. Len(pages) = MaxPages
  BY <1>1, <1>2, <1>3
<1> DEFINE p == level[Len(batch) + 1]
<1>5. Len(batch) + 1 \in DOMAIN level
  BY <1>1, <1>2, <1>3
<1>6. p \in At(depth)
  BY <1>1, <1>5 DEF Range
<1>7. p \notin Scanned
  <2> SUFFICES ASSUME NEW i \in DOMAIN pages, pages[i].path = p PROVE FALSE
    BY DEF Scanned
  <2>1. CASE pages[i].depth = depth
    <3>1. PICK k \in 1..Handed : pages[i].path = batch[k]
      BY <1>1, <2>1, LevelPages
    <3>2. k \in DOMAIN batch /\ level[k] = p /\ k \in DOMAIN level /\ k # Len(batch) + 1
      BY <1>1, <1>3, <3>1
    <3> QED
      BY <1>1, <1>5, <3>2 DEF IsInjective
  <2>2. CASE pages[i].depth # depth
    <3>1. pages[i].depth < depth
      BY <2>2 DEF IInv, OrderInv, Behind
    <3>2. p \in Nearer(depth)
      BY <3>1, EarlierIsNearer
    <3> QED
      BY <1>6, <3>2 DEF At
  <2> QED
    BY <2>1, <2>2
<1>8. EarlierPaths \subseteq Scanned
  BY DEF EarlierPaths, Scanned
<1>9. /\ Nearer(depth) \subseteq Scanned /\ Scanned \subseteq Within[depth]
      /\ p \in Within[depth] /\ p \notin Scanned
  BY <1>1, <1>6, <1>7, <1>8, ScannedIsWithin DEF At
<1>10. Within' = Within /\ pages' = pages
  <2>1. [Next]_vars
    BY DEF Next, Crawl
  <2> QED
    BY <2>1, SiteFixed DEF FollowLinks
<1> HIDE DEF p
<1> QED
  BY <1>1, <1>4, <1>9, <1>10 DEF CutOff, Nearer, Scanned

\* A crawl that ends with paths left has no budget left.
LEMMA EndCrawlCutsOff == IInv /\ EndCrawl => CutOff'
<1> SUFFICES ASSUME IInv, EndCrawl PROVE CutOff'
  OBVIOUS
<1>1. Within' = Within /\ pages' = pages /\ stage = "level" /\ stage' = "checks"
  <2>1. [Next]_vars
    BY DEF Next, Crawl
  <2> QED
    BY <2>1, SiteFixed DEF EndCrawl
<1>2. CASE truncated
  BY <1>1, <1>2 DEF IInv, EndInv, CutOff, Nearer, Scanned
<1>3. CASE ~ truncated /\ level = <<>>
  <2>1. ~ truncated'
    BY <1>3 DEF EndCrawl, LeftOver
  <2> QED
    BY <2>1 DEF CutOff
<1>4. CASE ~ truncated /\ level # <<>>
  <2>1. Len(pages) = MaxPages
    BY <1>4, BudgetIs DEF EndCrawl
  <2>2. depth \in 0..MaxDepth
    BY <1>4, ConstantsAssumption DEF IInv, TypeOK
  <2>3. Scanned = Nearer(depth)
    BY <1>1, <1>4, AllEarlier DEF IInv, LevelInv, EarlierComplete, Whole
  <2>4. level[1] \in At(depth)
    <3>1. level \in Seq(Paths \cup {Start})
      BY DEF IInv, TypeOK
    <3>2. 1 \in DOMAIN level
      BY <1>4, <3>1
    <3> QED
      BY <1>4, <3>2 DEF IInv, LevelInv, LevelPlaced, Whole, Range
  <2>5. level[1] \in Within[depth] /\ level[1] \notin Scanned
    BY <2>3, <2>4 DEF At
  <2>6. Scanned \subseteq Within[depth]
    BY ScannedIsWithin
  <2> QED
    BY <1>1, <2>1, <2>2, <2>3, <2>5, <2>6 DEF CutOff, Nearer, Scanned
<1> QED
  BY <1>2, <1>3, <1>4

\* Every step keeps how the crawl is to end.
LEMMA EndInvariant == IInv /\ [Next]_vars => EndInv'
<1> SUFFICES ASSUME IInv, [Next]_vars PROVE EndInv'
  OBVIOUS
<1>0. CutOff /\ CameToEnd
  BY DEF IInv, EndInv
<1>1. CutOff'
  <2>1. CASE FollowLinks
    BY <2>1, FollowLinksCutsOff
  <2>2. CASE EndCrawl
    BY <2>2, EndCrawlCutsOff
  <2>3. CASE StartLevel \/ Collect \/ OnPage
    <3>1. stage' \in {"fetch", "pages"}
      BY <2>3 DEF StartLevel, Collect, OnPage
    <3> QED
      BY <3>1 DEF CutOff
  <2>4. CASE Discover \/ StopAtLevel \/ Lookup \/ Probe \/ Finish \/ Pool \/ Abort \/ Throw
        \/ UNCHANGED vars
    <3>1. /\ UNCHANGED <<truncated, pages>>
          /\ stage' \notin {"fetch", "pages"} => stage \notin {"fetch", "pages"}
      BY <2>4 DEF Discover, StopAtLevel, Lookup, Probe, Finish, Pool, Request, Receive, Abort,
                  Throw, vars, levelVars
    <3> QED
      BY <1>0, <3>1, SiteFixed DEF CutOff, Nearer, Scanned
  <2> QED
    BY <2>1, <2>2, <2>3, <2>4 DEF Next, Crawl
<1>2. CameToEnd'
  <2>1. CASE EndCrawl
    BY <2>1 DEF EndCrawl, LeftOver, Running, CameToEnd
  <2>2. CASE Finish
    <3>1. /\ stage = "checks" /\ UNCHANGED <<stage, level, truncated>>
          /\ result' = IF truncated THEN "partial" ELSE "completed"
      BY <2>2 DEF Finish, levelVars
    <3> QED
      BY <1>0, <3>1 DEF CameToEnd
  <2>3. CASE Discover \/ StartLevel \/ Collect \/ OnPage \/ FollowLinks \/ StopAtLevel
    <3>1. result' \in {"none", "cancelled"} /\ stage' # "checks"
      BY <2>3 DEF Discover, StartLevel, Collect, OnPage, FollowLinks, StopAtLevel, Cancel, Running
    <3> QED
      BY <3>1 DEF CameToEnd
  <2>4. CASE Lookup \/ Probe \/ Pool \/ Abort \/ Throw \/ UNCHANGED vars
    <3>1. /\ UNCHANGED <<stage, level, truncated>>
          /\ result' = result \/ result' \in {"cancelled", "failed"}
      BY <2>4 DEF Lookup, Probe, Pool, Request, Receive, Abort, Throw, Cancel, vars, levelVars
    <3> QED
      BY <1>0, <3>1 DEF CameToEnd
  <2> QED
    BY <2>1, <2>2, <2>3, <2>4 DEF Next, Crawl
<1> QED
  BY <1>1, <1>2, BatchInvariant DEF EndInv

-------------------------------------------------------------------------------

\* The path of a waiting index has not been requested.
LEMMA WaitingIsNew ==
    ASSUME IInv, NEW i \in waiting
    PROVE  stage = "fetch" /\ i \in DOMAIN batch /\ batch[i] \in DOMAIN asked /\ asked[batch[i]] = 0
<1>1. stage = "fetch" /\ i \in DOMAIN batch /\ batch[i] \in DOMAIN asked
  BY PoolIs DEF IInv, TypeOK
<1>2. /\ level \in Seq(Paths \cup {Start}) /\ DOMAIN level = 1..Len(level)
      /\ DOMAIN batch = 1..Len(batch) /\ Len(batch) \in 1..Len(level)
      /\ \A k \in DOMAIN batch : batch[k] = level[k]
  BY <1>1 DEF IInv, TypeOK, EndInv, BatchOfLevel
<1>3. /\ EarlierPaths = Nearer(depth) /\ IsInjective(level) /\ Range(level) \subseteq At(depth)
  BY <1>1 DEF IInv, LevelInv, EarlierComplete, LevelPlaced, Whole
<1>4. DOMAIN batch \subseteq DOMAIN level
  BY <1>2
<1>5. batch[i] \notin EarlierPaths
  <2>1. batch[i] \in At(depth)
    BY <1>1, <1>2, <1>3, <1>4 DEF Range
  <2> QED
    BY <1>3, <2>1 DEF At
<1>6. \A k \in fetching \cup Range(fetched) : k \in DOMAIN batch /\ k # i
  BY DEF IInv, TypeOK, AskInv, PoolInv, Range
<1>7. \A k \in fetching \cup Range(fetched) : batch[k] # batch[i]
  BY <1>1, <1>2, <1>3, <1>4, <1>6 DEF IsInjective
<1>8. batch[i] \notin Requested
  BY <1>1, <1>5, <1>7 DEF IInv, AskInv, RequestedPlaced
<1>9. asked[batch[i]] \in Nat
  BY <1>1 DEF IInv, TypeOK
<1> QED
  BY <1>1, <1>8, <1>9 DEF Requested

\* A request is for a path of the batch, and the first for it.
LEMMA RequestIsPlaced == \A i : IInv /\ Request(i) => RequestedPlaced'
<1> SUFFICES ASSUME NEW i, IInv, Request(i) PROVE RequestedPlaced'
  OBVIOUS
<1>1. /\ stage = "fetch" /\ i \in DOMAIN batch /\ batch[i] \in DOMAIN asked /\ asked[batch[i]] = 0
  BY WaitingIsNew DEF Request
<1>2. UNCHANGED <<stage, depth, batch, fetched, pages>>
  BY DEF Request, levelVars
<1>3. RequestedPlaced
  BY DEF IInv, AskInv
<1>4. EarlierPaths' = EarlierPaths
  BY <1>2 DEF EarlierPaths
<1>5. CASE asked' = asked /\ fetching' = fetching
  BY <1>1, <1>2, <1>3, <1>4, <1>5 DEF RequestedPlaced, Requested
<1>6. CASE asked' = [asked EXCEPT ![batch[i]] = @ + 1] /\ fetching' = fetching \cup {i}
  <2>1. /\ DOMAIN asked' = DOMAIN asked /\ asked'[batch[i]] = 1
        /\ \A p \in DOMAIN asked : p # batch[i] => asked'[p] = asked[p]
    BY <1>1, <1>6 DEF IInv, TypeOK
  <2>2. Requested' = Requested \cup {batch[i]}
    BY <1>1, <2>1 DEF Requested
  <2>3. \A p \in DOMAIN asked' : asked'[p] <= 1
    BY <1>3, <2>1 DEF RequestedPlaced
  <2>4. Requested' \subseteq EarlierPaths' \cup { batch'[k] : k \in fetching' \cup Range(fetched') }
    <3>1. { batch'[k] : k \in fetching' \cup Range(fetched') }
            = { batch[k] : k \in fetching \cup Range(fetched) } \cup {batch[i]}
      BY <1>2, <1>6
    <3>2. Requested \subseteq EarlierPaths \cup { batch[k] : k \in fetching \cup Range(fetched) }
      BY <1>1, <1>3 DEF RequestedPlaced
    <3> QED
      BY <1>4, <2>2, <3>1, <3>2
  <2> QED
    BY <1>1, <1>2, <2>3, <2>4 DEF RequestedPlaced
<1> QED
  BY <1>5, <1>6 DEF Request

\* What was requested stays placed when it does not change, nor the report.
LEMMA RequestedKept ==
    ASSUME IInv, UNCHANGED <<asked, pages, depth>>,
           stage' \notin {"fetch", "pages"}, stage \notin {"fetch", "pages"}
    PROVE  RequestedPlaced'
BY DEF IInv, AskInv, RequestedPlaced, Requested, Scanned

\* Every step keeps what was requested placed.
LEMMA RequestedInvariant == IInv /\ [Next]_vars => RequestedPlaced'
<1> SUFFICES ASSUME IInv, [Next]_vars PROVE RequestedPlaced'
  OBVIOUS
<1>0. RequestedPlaced
  BY DEF IInv, AskInv
<1>1. ASSUME NEW i \in DOMAIN batch, Request(i) PROVE RequestedPlaced'
  BY <1>1, RequestIsPlaced
<1>2. ASSUME NEW i \in DOMAIN batch, Receive(i) PROVE RequestedPlaced'
  <2>1. /\ UNCHANGED <<stage, depth, batch, pages, asked>> /\ i \in fetching /\ stage = "fetch"
        /\ fetching' = fetching \ {i} /\ fetched' = Append(fetched, i)
        /\ fetched \in Seq(DOMAIN batch)
    BY <1>2, PoolIs DEF Receive, levelVars, IInv, TypeOK
  <2>2. Range(fetched') = Range(fetched) \cup {i}
    BY <1>2, <2>1, AppendRange
  <2>3. fetching' \cup Range(fetched') = fetching \cup Range(fetched)
    BY <2>1, <2>2
  <2>4. Requested \subseteq EarlierPaths \cup { batch[k] : k \in fetching \cup Range(fetched) }
    BY <1>0, <2>1 DEF RequestedPlaced
  <2>5. EarlierPaths' = EarlierPaths /\ Requested' = Requested
    BY <2>1 DEF EarlierPaths, Requested
  <2>6. { batch'[k] : k \in fetching' \cup Range(fetched') }
          = { batch[k] : k \in fetching \cup Range(fetched) }
    BY <2>1, <2>3
  <2> QED
    BY <1>0, <2>1, <2>4, <2>5, <2>6 DEF RequestedPlaced
<1>3. CASE StartLevel
  <2>1. UNCHANGED <<asked, pages, depth>> /\ stage = "level" /\ stage' = "fetch"
    BY <1>3 DEF StartLevel
  <2>2. Requested \subseteq EarlierPaths
    BY <1>0, <2>1, AllEarlier DEF RequestedPlaced
  <2> QED
    BY <1>0, <2>1, <2>2 DEF RequestedPlaced, Requested, EarlierPaths
<1>4. CASE Collect
  <2>1. UNCHANGED <<asked, pages, depth, batch>> /\ stage = "fetch" /\ stage' = "pages"
    BY <1>4 DEF Collect, levelVars
  <2>2. fetching \cup Range(fetched) \subseteq DOMAIN batch
    BY DEF IInv, TypeOK, Range
  <2>3. { batch[k] : k \in fetching \cup Range(fetched) } \subseteq Range(batch)
    BY <2>2 DEF Range
  <2>4. Requested \subseteq EarlierPaths \cup Range(batch)
    BY <1>0, <2>1, <2>3 DEF RequestedPlaced
  <2> QED
    BY <1>0, <2>1, <2>4 DEF RequestedPlaced, Requested, EarlierPaths
<1>5. CASE OnPage
  <2>1. UNCHANGED <<asked, stage, depth, batch>> /\ stage = "pages"
    BY <1>5 DEF OnPage, levelVars
  <2>2. EarlierPaths \subseteq EarlierPaths'
    <3>1. CASE pages' = pages
      BY <2>1, <3>1 DEF EarlierPaths
    <3>2. CASE pages' # pages
      <4>1. /\ DOMAIN pages' = 1..(Len(pages) + 1) /\ Len(pages) \in Nat /\ DOMAIN pages = 1..Len(pages)
            /\ \A k \in 1..Len(pages) : pages'[k] = pages[k]
        BY <1>5, <3>2, PageIs, HandedCounts DEF IInv
      <4>2. \A k \in DOMAIN pages : k \in DOMAIN pages' /\ pages'[k] = pages[k]
        BY <4>1
      <4> QED
        BY <2>1, <4>2 DEF EarlierPaths
    <3> QED
      BY <3>1, <3>2
  <2> QED
    BY <1>0, <2>1, <2>2 DEF RequestedPlaced, Requested
<1>6. CASE FollowLinks
  <2>1. UNCHANGED <<asked, pages>> /\ stage = "pages" /\ stage' = "level"
    BY <1>6 DEF FollowLinks
  <2>2. Requested \subseteq EarlierPaths \cup Range(batch)
    BY <1>0, <2>1 DEF RequestedPlaced
  <2>3. EarlierPaths \cup Range(batch) \subseteq Scanned
    BY <1>6, LevelDone DEF EarlierPaths, Scanned
  <2>4. Len(pages) <= MaxPages
    <3>1. Handed = Len(batch) /\ Len(batch) \in Nat /\ Len(pages) \in Nat
      BY <1>6, <2>1, PoolIs, BudgetIs DEF FollowLinks
    <3>2. Len(pages) - Handed + Len(batch) <= MaxPages
      BY <2>1 DEF IInv, EndInv, BatchOfLevel
    <3> QED
      BY <3>1, <3>2
  <2> QED
    BY <1>0, <2>1, <2>2, <2>3, <2>4 DEF RequestedPlaced, Requested, Scanned
<1>7. CASE Discover \/ EndCrawl
  <2>1. /\ UNCHANGED <<asked, pages, depth>> /\ stage' \notin {"fetch", "pages"}
        /\ stage \notin {"fetch", "pages"}
    BY <1>7 DEF Discover, EndCrawl, levelVars
  <2> QED
    BY <2>1, RequestedKept
<1>8. CASE StopAtLevel \/ Lookup \/ Probe \/ Finish \/ Abort \/ Throw \/ UNCHANGED vars
  <2>1. UNCHANGED <<asked, pages, depth, stage, batch, fetching, fetched>>
    BY <1>8 DEF StopAtLevel, Lookup, Probe, Finish, Abort, Throw, vars, levelVars, poolVars
  <2> QED
    BY <1>0, <2>1 DEF RequestedPlaced, Requested, EarlierPaths, Scanned
<1> QED
  BY <1>1, <1>2, <1>3, <1>4, <1>5, <1>6, <1>7, <1>8 DEF Next, Crawl, Pool

\* No step leads back to before the levels.
LEMMA FreshInvariant == IInv /\ [Next]_vars => Fresh'
<1> SUFFICES ASSUME IInv, [Next]_vars, stage' = "discover" PROVE Requested' = {}
  BY DEF Fresh
<1>1. ASSUME NEW i \in DOMAIN batch, Request(i) PROVE FALSE
  BY <1>1, WaitingIsNew DEF Request
<1>2. stage = "discover" /\ asked' = asked
  <2>1. CASE Discover \/ StartLevel \/ Collect \/ FollowLinks \/ EndCrawl
    BY <2>1 DEF Discover, StartLevel, Collect, FollowLinks, EndCrawl
  <2>2. ASSUME NEW i \in DOMAIN batch, Receive(i) PROVE stage = "discover" /\ asked' = asked
    BY <2>2 DEF Receive
  <2>3. CASE OnPage \/ StopAtLevel \/ Lookup \/ Probe \/ Finish \/ Abort \/ Throw \/ UNCHANGED vars
    BY <2>3 DEF OnPage, StopAtLevel, Lookup, Probe, Finish, Abort, Throw, vars
  <2> QED
    BY <1>1, <2>1, <2>2, <2>3 DEF Next, Crawl, Pool
<1> QED
  BY <1>2 DEF IInv, AskInv, Fresh, Requested

-------------------------------------------------------------------------------

\* The invariant holds at first.
LEMMA InitInvariant == Init => IInv
<1> SUFFICES ASSUME Init PROVE IInv
  OBVIOUS
<1>0. /\ stage = "discover" /\ depth = 0 /\ level = <<Start>> /\ batch = <<>> /\ next = 1
      /\ waiting = {} /\ fetching = {} /\ fetched = <<>> /\ visited = {Start} /\ blocked = 0
      /\ ~ truncated /\ truncated \in BOOLEAN /\ pages = <<>>
      /\ ~ aborted /\ aborted \in BOOLEAN /\ result = "none"
      /\ asked = [p \in Paths \cup {Start} |-> 0]
      /\ lookups = 0 /\ probed = 0
  BY DEF Init
<1>1. /\ MaxDepth \in Nat /\ MaxPages \in Nat \ {0} /\ Concurrency \in Nat \ {0}
      /\ MaxLookups \in Nat /\ MaxProbes \in Nat
  BY ConstantsAssumption
<1>2. DOMAIN pages = {} /\ Range(fetched) = {} /\ Range(level) = {Start} /\ Len(level) = 1
  <2>1. level \in Seq({Start}) /\ DOMAIN level = {1}
    BY <1>0
  <2> QED
    BY <1>0, <2>1 DEF Range
<1>3. TypeOK
  <2>1. site \in [Paths -> Seq(Paths)]
    BY ConstantsAssumption DEF Init
  <2>2. /\ level \in Seq(Paths \cup {Start}) /\ batch \in Seq(Paths \cup {Start})
        /\ fetched \in Seq(DOMAIN batch)
        /\ pages \in Seq([path : Paths \cup {Start}, depth : 0..MaxDepth])
        /\ depth \in 0..(MaxDepth + 1) /\ depth <= MaxDepth
    BY <1>0, <1>1
  <2> QED
    BY <1>0, <1>1, <2>1, <2>2 DEF TypeOK
<1>4. OrderInv
  BY <1>0, <1>2 DEF OrderInv, Behind, ReportOrder
<1>5. LevelInv
  <2>1. Nearer(depth) = {} /\ At(depth) = {Start}
    BY <1>0, WithinDef DEF Nearer, At
  <2>2. EarlierPaths = {}
    BY <1>2 DEF EarlierPaths
  <2>3. IsInjective(level)
    <3>1. DOMAIN level = {1}
      BY <1>0
    <3> QED
      BY <3>1 DEF IsInjective
  <2> QED
    BY <1>0, <1>2, <2>1, <2>2, <2>3
       DEF LevelInv, PagesPlaced, EarlierComplete, LevelPlaced, LevelComplete, Seen
<1>6. EndInv
  BY <1>0 DEF EndInv, BatchOfLevel, CutOff, CameToEnd
<1>7. AskInv
  <2>1. Cardinality(fetching \cup waiting) = 0
    <3>1. fetching \cup waiting = {}
      BY <1>0
    <3> QED
      BY <3>1, FS_EmptySet
  <2>2. DOMAIN fetched = {} /\ Requested = {} /\ \A p \in DOMAIN asked : asked[p] <= 1
    BY <1>0 DEF Requested
  <2>3. Len(pages) <= MaxPages
    BY <1>0, <1>1
  <2> QED
    BY <1>0, <1>1, <1>2, <2>1, <2>2, <2>3
       DEF AskInv, PoolInv, RequestedPlaced, Fresh, IsInjective
<1> QED
  BY <1>3, <1>4, <1>5, <1>6, <1>7 DEF IInv

\* The invariant is inductive.
THEOREM Invariant == Spec => []IInv
<1>1. IInv /\ [Next]_vars => IInv'
  BY TypeInvariant, OrderInvariant, LevelInvariant, EndInvariant, PoolInvariant, RequestedInvariant,
     FreshInvariant DEF IInv, AskInv
<1> QED
  BY InitInvariant, <1>1, PTL DEF Spec

\* Every variable has its type.
THEOREM TypeCorrect == Spec => []TypeOK
<1>1. IInv => TypeOK
  BY DEF IInv
<1> QED
  BY <1>1, Invariant, PTL

\* Whatever the size of the site and of the pool, and however its fetches end:
\* the pages of a level reach the rules in the order of the level.
THEOREM ReportInOrder == Spec => []ReportOrder
<1>1. IInv => ReportOrder
  BY DEF IInv, OrderInv
<1> QED
  BY <1>1, Invariant, PTL

-------------------------------------------------------------------------------

\* A function of a finite set has no more values than the set has elements.
LEMMA ImageBounded ==
    ASSUME NEW S, IsFiniteSet(S), NEW f
    PROVE  /\ IsFiniteSet({ f[x] : x \in S })
           /\ Cardinality({ f[x] : x \in S }) <= Cardinality(S)
<1> DEFINE T == { f[x] : x \in S }
           g == [x \in S |-> f[x]]
<1>1. g \in [S -> T] /\ \A t \in T : \E x \in S : g[x] = t
  OBVIOUS
<1> HIDE DEF g, T
<1>2. g \in Surjection(S, T)
  BY <1>1 DEF Surjection
<1>3. IsFiniteSet(T) /\ Cardinality(T) <= Cardinality(S)
  BY <1>2, FS_Surjection
<1> QED
  BY <1>3 DEF T

\* The paths of some of the pages are no more than the pages are.
LEMMA PathsBounded ==
    ASSUME TypeOK, NEW I \in SUBSET DOMAIN pages
    PROVE  /\ IsFiniteSet(I) /\ IsFiniteSet({ pages[i].path : i \in I })
           /\ Cardinality({ pages[i].path : i \in I }) <= Cardinality(I)
           /\ IsFiniteSet(DOMAIN pages) /\ Cardinality(DOMAIN pages) = Len(pages)
<1>1. IsFiniteSet(DOMAIN pages) /\ Cardinality(DOMAIN pages) = Len(pages)
  <2>1. Len(pages) \in Nat /\ DOMAIN pages = 1..Len(pages) /\ 1 \in Int /\ Len(pages) \in Int
    BY DEF TypeOK
  <2>2. /\ IsFiniteSet(1..Len(pages))
        /\ Cardinality(1..Len(pages)) = IF 1 > Len(pages) THEN 0 ELSE Len(pages) - 1 + 1
    BY <2>1, FS_Interval
  <2> QED
    BY <2>1, <2>2
<1>2. IsFiniteSet(I)
  BY <1>1, FS_Subset
<1> DEFINE f == [i \in I |-> pages[i].path]
<1>3. { f[i] : i \in I } = { pages[i].path : i \in I }
  OBVIOUS
<1> HIDE DEF f
<1> QED
  BY <1>1, <1>2, <1>3, ImageBounded

\* However many links there are, whatever the pool does and whenever the crawl
\* is aborted: the requests stay within the budget, and none is repeated.
THEOREM RequestsAreBounded == Spec => []RequestsBounded
<1>1. IInv => RequestsBounded
  <2> SUFFICES ASSUME IInv PROVE Cardinality(Requested) <= MaxPages
    BY DEF RequestsBounded, IInv, AskInv, PoolInv, RequestedPlaced
  <2>1. TypeOK /\ RequestedPlaced /\ Len(pages) \in Nat /\ MaxPages \in Nat
    BY BudgetIs DEF IInv, AskInv
  <2>2. CASE stage \notin {"fetch", "pages"}
    <3>1. Requested \subseteq Scanned /\ Len(pages) <= MaxPages
      BY <2>1, <2>2 DEF RequestedPlaced
    <3>2. IsFiniteSet(Scanned) /\ Cardinality(Scanned) <= Len(pages)
      BY <2>1, PathsBounded DEF Scanned
    <3>3. /\ Cardinality(Requested) <= Cardinality(Scanned)
          /\ Cardinality(Requested) \in Nat /\ Cardinality(Scanned) \in Nat
      BY <3>1, <3>2, FS_Subset, FS_CardinalityType
    <3> QED
      BY <2>1, <3>1, <3>2, <3>3
  <2>3. CASE stage \in {"fetch", "pages"}
    <3>1. Requested \subseteq EarlierPaths \cup Range(batch)
      <4>1. fetching \cup Range(fetched) \subseteq DOMAIN batch
        BY DEF IInv, TypeOK, Range
      <4>2. { batch[k] : k \in fetching \cup Range(fetched) } \subseteq Range(batch)
        BY <4>1 DEF Range
      <4> QED
        BY <2>1, <2>3, <4>2 DEF RequestedPlaced
    <3> DEFINE I == { j \in DOMAIN pages : pages[j].depth < depth }
    <3>2. /\ IsFiniteSet(EarlierPaths) /\ IsFiniteSet(I)
          /\ Cardinality(EarlierPaths) <= Cardinality(I)
      <4>1. I \in SUBSET DOMAIN pages
        OBVIOUS
      <4>2. EarlierPaths = { pages[i].path : i \in I }
        BY DEF EarlierPaths
      <4> HIDE DEF I
      <4> QED
        BY <2>1, <4>1, <4>2, PathsBounded
    <3>3. Cardinality(I) = Len(pages) - Handed
      <4>1. I = DOMAIN pages \ OfLevel
        BY DEF OfLevel, IInv, OrderInv, Behind
      <4>2. OfLevel \in SUBSET DOMAIN pages /\ IsFiniteSet(OfLevel) /\ Handed = Cardinality(OfLevel)
        BY <2>1, HandedCounts DEF OfLevel
      <4>3. IsFiniteSet(DOMAIN pages) /\ Cardinality(DOMAIN pages) = Len(pages)
        BY <2>1, PathsBounded
      <4>4. DOMAIN pages \cap OfLevel = OfLevel
        BY <4>2
      <4>5. Cardinality(DOMAIN pages \ OfLevel)
              = Cardinality(DOMAIN pages) - Cardinality(DOMAIN pages \cap OfLevel)
        BY <4>2, <4>3, FS_Difference
      <4> HIDE DEF I
      <4> QED
        BY <4>1, <4>2, <4>3, <4>4, <4>5
    <3>4. IsFiniteSet(Range(batch)) /\ Cardinality(Range(batch)) <= Len(batch)
      <4>1. IsFiniteSet(DOMAIN batch) /\ Cardinality(DOMAIN batch) = Len(batch)
        BY PoolIs
      <4> QED
        BY <4>1, ImageBounded DEF Range
    <3>5. /\ IsFiniteSet(EarlierPaths \cup Range(batch))
          /\ Cardinality(EarlierPaths \cup Range(batch))
               <= Cardinality(EarlierPaths) + Cardinality(Range(batch))
      <4>1. Cardinality(EarlierPaths \cup Range(batch))
              = Cardinality(EarlierPaths) + Cardinality(Range(batch))
                  - Cardinality(EarlierPaths \cap Range(batch))
        BY <3>2, <3>4, FS_Union
      <4>2. /\ IsFiniteSet(EarlierPaths \cup Range(batch))
            /\ IsFiniteSet(EarlierPaths \cap Range(batch))
        BY <3>2, <3>4, FS_Union, FS_Intersection
      <4>3. /\ Cardinality(EarlierPaths \cap Range(batch)) \in Nat
            /\ Cardinality(EarlierPaths) \in Nat /\ Cardinality(Range(batch)) \in Nat
        BY <3>2, <3>4, <4>2, FS_CardinalityType
      <4> QED
        BY <4>1, <4>2, <4>3
    <3>6. /\ Cardinality(Requested) <= Cardinality(EarlierPaths \cup Range(batch))
          /\ Cardinality(Requested) \in Nat
      BY <3>1, <3>5, FS_Subset, FS_CardinalityType
    <3>7. Len(pages) - Handed + Len(batch) <= MaxPages
      BY <2>3 DEF IInv, EndInv, BatchOfLevel
    <3>8. /\ Cardinality(EarlierPaths) \in Nat /\ Cardinality(Range(batch)) \in Nat
          /\ Cardinality(EarlierPaths \cup Range(batch)) \in Nat
          /\ Cardinality(I) \in Nat /\ Len(batch) \in Nat
      BY <3>2, <3>4, <3>5, PoolIs, FS_CardinalityType
    <3> HIDE DEF I
    <3>9. Handed \in Nat
      BY <2>1, HandedCounts
    <3> QED
      BY <2>1, <3>2, <3>3, <3>4, <3>5, <3>6, <3>7, <3>8, <3>9
  <2> QED
    BY <2>2, <2>3
<1> QED
  BY <1>1, Invariant, PTL

\* At the end of a crawl that was not cut off, all of the site within reach is
\* behind.
LEMMA AllScanned ==
    ASSUME IInv, stage = "checks", ~ truncated
    PROVE  Scanned = Within[MaxDepth]
<1>1. level = <<>>
  BY DEF IInv, EndInv, CameToEnd
<1>2. Scanned = Nearer(depth)
  BY <1>1, AllEarlier DEF IInv, LevelInv, EarlierComplete, Whole
<1>3. depth \in Nat /\ depth <= MaxDepth + 1 /\ MaxDepth \in Nat /\ MaxPages \in Nat \ {0}
  BY ConstantsAssumption DEF IInv, TypeOK
<1>4. Nearer(depth) = Within[MaxDepth]
  <2>1. CASE depth = MaxDepth + 1
    BY <1>3, <2>1 DEF Nearer
  <2>2. CASE depth # MaxDepth + 1
    <3>1. At(depth) = {}
      <4>1. Range(level) = {} /\ Len(level) = 0
        BY <1>1 DEF Range
      <4>2. depth <= MaxDepth /\ Len(level) < MaxPages
        BY <1>3, <2>2, <4>1
      <4> QED
        BY <1>1, <4>1, <4>2 DEF IInv, LevelInv, LevelComplete
    <3>2. depth # 0
      BY <3>1, WithinDef DEF At, Nearer
    <3>3. depth - 1 \in Nat /\ (depth - 1) + 1 = depth /\ depth - 1 <= depth /\ depth - 1 <= MaxDepth
      BY <1>3, <2>2, <3>2
    <3>4. Within[depth] \subseteq Within[depth - 1]
      BY <3>1, <3>2 DEF At, Nearer
    <3>5. Within[(depth - 1) + 1] = Within[depth - 1]
      <4>1. Within[depth - 1] \subseteq Within[depth]
        BY <1>3, <3>3, WithinGrows
      <4>2. Within[depth - 1] = Within[depth]
        BY <3>4, <4>1
      <4> QED
        BY <3>3, <4>2, Zenon
    <3>6. Within[MaxDepth] = Within[depth - 1]
      BY <1>3, <3>3, <3>5, WithinStays
    <3> QED
      BY <3>2, <3>6 DEF Nearer
  <2> QED
    BY <2>1, <2>2
<1> QED
  BY <1>2, <1>4

\* However the fetches of a level end, on every site: a crawl that completes
\* has been on all of it that is within reach, each path at its distance.
THEOREM CompletedCrawlIsComplete == Spec => []CompletedIsComplete
<1>1. IInv => CompletedIsComplete
  <2> SUFFICES ASSUME IInv, result = "completed" PROVE CompletedIsComplete
    BY DEF CompletedIsComplete
  <2>1. stage = "checks" /\ ~ truncated
    BY DEF IInv, EndInv, CameToEnd
  <2>2. Scanned = Within[MaxDepth]
    BY <2>1, AllScanned
  <2>3. ASSUME NEW i \in DOMAIN pages PROVE pages[i].depth = Distance(pages[i].path)
    <3>1. pages[i].depth \in 0..MaxDepth
      <4> DEFINE Page == [path : Paths \cup {Start}, depth : 0..MaxDepth]
      <4>1. pages \in Seq(Page)
        BY DEF IInv, TypeOK
      <4>2. pages[i] \in Page
        <5> HIDE DEF Page
        <5> QED
          BY <4>1
      <4> QED
        BY <4>2
    <3>2. pages[i].path \in At(pages[i].depth)
      BY DEF IInv, LevelInv, PagesPlaced
    <3> QED
      BY <3>1, <3>2, AtIsDistance
  <2> QED
    BY <2>2, <2>3 DEF CompletedIsComplete
<1> QED
  BY <1>1, Invariant, PTL

\* However much waits and wherever the crawl is: after an abort no page is
\* requested nor handed on.  A robots or sitemap request that still goes out
\* comes before every page, and a probe after all that the crawl was to be on.
THEOREM AbortHolds == Spec => AbortStopsPages
<1> DEFINE Held == /\ UNCHANGED <<asked, pages>>
                   /\ lookups' # lookups => Requested = {}
                   /\ probed' # probed => Len(pages) = MaxPages \/ Scanned = Within[MaxDepth]
<1>1. IInv /\ [Next]_vars => [aborted => Held]_vars
  <2> SUFFICES ASSUME IInv, Next, aborted PROVE Held
    BY DEF vars
  <2>1. CASE Lookup
    BY <2>1 DEF Lookup, IInv, AskInv, Fresh
  <2>2. CASE Probe
    <3>1. stage = "checks" /\ UNCHANGED <<asked, pages, lookups>>
      BY <2>2 DEF Probe
    <3>2. CASE truncated
      BY <3>1, <3>2 DEF IInv, EndInv, CutOff
    <3>3. CASE ~ truncated
      BY <3>1, <3>3, AllScanned
    <3> QED
      BY <3>1, <3>2, <3>3
  <2>3. ASSUME NEW i \in DOMAIN batch, Request(i) PROVE Held
    BY <2>3 DEF Request, Denied, unsignalled
  <2>4. ASSUME NEW i \in DOMAIN batch, Receive(i) PROVE Held
    BY <2>4 DEF Receive, unsignalled
  <2>5. CASE \/ Discover \/ StartLevel \/ Collect \/ OnPage \/ FollowLinks \/ EndCrawl \/ StopAtLevel
             \/ Finish \/ Abort \/ Throw
    BY <2>5 DEF Discover, StartLevel, Collect, OnPage, FollowLinks, EndCrawl, StopAtLevel, Finish,
                Abort, Throw, unsignalled
  <2> QED
    BY <2>1, <2>2, <2>3, <2>4, <2>5 DEF Next, Crawl, Pool
<1> QED
  BY <1>1, Invariant, PTL DEF Spec, AbortStopsPages

\* What is within reach is at some distance, and that is its Distance.
LEMMA Reached ==
    ASSUME NEW n \in 0..MaxDepth, NEW p \in Within[n]
    PROVE  Distance(p) \in 0..n /\ p \in At(Distance(p))
<1>1. MaxDepth \in Nat /\ n \in Nat
  BY ConstantsAssumption
<1>2. \E k \in 0..n : p \in At(k)
  <2> DEFINE S == { m \in Nat : p \in Within[m] => \E k \in 0..m : p \in At(k) }
  <2>1. 0 \in S
    BY DEF At, Nearer
  <2>2. ASSUME NEW m \in Nat, m \in S PROVE m + 1 \in S
    <3> SUFFICES ASSUME p \in Within[m + 1] PROVE \E k \in 0..(m + 1) : p \in At(k)
      OBVIOUS
    <3>1. CASE p \in Within[m]
      <4>1. PICK k \in 0..m : p \in At(k)
        BY <2>2, <3>1
      <4>2. k \in 0..(m + 1)
        OBVIOUS
      <4> QED
        BY <4>1, <4>2
    <3>2. CASE p \notin Within[m]
      <4>1. m + 1 \in 0..(m + 1) /\ m + 1 # 0 /\ (m + 1) - 1 = m
        OBVIOUS
      <4>2. p \in At(m + 1)
        BY <3>2, <4>1 DEF At, Nearer
      <4> QED
        BY <4>1, <4>2
    <3> QED
      BY <3>1, <3>2
  <2> HIDE DEF S
  <2>3. n \in S
    BY <1>1, <2>1, <2>2, Induction
  <2> QED
    BY <2>3 DEF S
<1>3. PICK k \in 0..n : p \in At(k)
  BY <1>2
<1>4. k \in 0..MaxDepth
  BY <1>1
<1> QED
  BY <1>3, <1>4, AtIsDistance

\* However the fetches of a level end, on every site: a crawl the budget cuts
\* off has been on nothing further away than what it left out.
THEOREM PartialCrawlIsNearest == Spec => []PartialIsNearest
<1>1. IInv => PartialIsNearest
  <2> SUFFICES ASSUME IInv, result = "partial" PROVE PartialIsNearest
    BY DEF PartialIsNearest
  <2>1. stage = "checks" /\ truncated
    BY DEF IInv, EndInv, CameToEnd
  <2>2. /\ Len(pages) = MaxPages
        /\ \E n \in 0..MaxDepth :
              /\ Nearer(n) \subseteq Scanned /\ Scanned \subseteq Within[n]
              /\ \E p \in Within[n] : p \notin Scanned
    BY <2>1 DEF IInv, EndInv, CutOff
  <2>3. PICK n \in 0..MaxDepth :
              /\ Nearer(n) \subseteq Scanned /\ Scanned \subseteq Within[n]
              /\ \E p \in Within[n] : p \notin Scanned
    BY <2>2
  <2>4. MaxDepth \in Nat /\ n \in Nat /\ n <= MaxDepth
    BY ConstantsAssumption
  <2>5. \E p \in Within[MaxDepth] : p \notin Scanned
    BY <2>3, <2>4, WithinGrows
  <2>6. ASSUME NEW p \in Within[MaxDepth] \ Scanned, NEW q \in Scanned
        PROVE  Distance(q) <= Distance(p)
    <3>1. Distance(q) \in 0..n
      BY <2>3, Reached
    <3>2. Distance(p) \in 0..MaxDepth /\ p \in Within[Distance(p)]
      BY <2>4, Reached DEF At
    <3>3. ASSUME Distance(p) < n PROVE FALSE
      <4>1. n # 0 /\ n - 1 \in Nat /\ Distance(p) \in Nat /\ Distance(p) <= n - 1
        BY <2>4, <3>2, <3>3
      <4>2. p \in Nearer(n)
        BY <3>2, <4>1, WithinGrows DEF Nearer
      <4> QED
        BY <2>3, <4>2
    <3> QED
      BY <2>4, <3>1, <3>2, <3>3
  <2> QED
    BY <2>2, <2>5, <2>6 DEF PartialIsNearest
<1> QED
  BY <1>1, Invariant, PTL

===============================================================================
