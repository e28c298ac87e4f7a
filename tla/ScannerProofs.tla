---------------------------- MODULE ScannerProofs -----------------------------
(***************************************************************************)
(* Proofs about a scan, for all sites, command lines, requests and plugins *)
(* and any number of runs: the outputs of a command agree, its gate has a  *)
(* reason, the comparisons add up, the library answers in full, no finding *)
(* raises a score, and the rules applied page by page find what they would *)
(* find of all pages together.                                             *)
(*                                                                         *)
(* The rules return lists that Findings makes by flattening lists of       *)
(* lists, the score is a sum over the groups, so the first half is about   *)
(* data: what FlattenSeq and a fold return, by induction over the          *)
(* sequence; then every rule returns findings; then what one finding more  *)
(* does to the groups and the score.  The second half is the inductive     *)
(* invariant IInv: it says of every output from which step on it is        *)
(* written, and of the history in which order its snapshots are.  The last *)
(* part compares two orders of one sum of lists, page by page and rule by  *)
(* rule, by how often each finding is in them; StreamInv says what has     *)
(* been found so far.                                                      *)
(***************************************************************************)
EXTENDS Scanner, FiniteSetTheorems, SequenceTheorems, TLAPS

-------------------------------------------------------------------------------
(***************************************************************************)
(* Sequences and their sums.                                               *)
(***************************************************************************)

\* Induction over the numbers, for a set of them.
LEMMA Induction ==
    ASSUME NEW S, 0 \in S, \A n \in Nat : n \in S => n + 1 \in S
    PROVE  Nat \subseteq S
<1> SUFFICES ASSUME Nat \ S # {} PROVE FALSE
  OBVIOUS
<1> DEFINE R == OpToRel(<, Nat)
<1>1. IsWellFoundedOn(R, Nat)
  BY NatLessThanWellFounded
<1>2. \A m, n \in Nat : m < n => <<m, n>> \in R
  BY DEF OpToRel
<1> HIDE DEF R
<1>3. PICK n \in Nat \ S : \A m \in Nat \ S : ~ (<<m, n>> \in R)
  BY <1>1, WFMin
<1>4. n # 0 /\ n - 1 \in Nat /\ n - 1 < n
  BY <1>3
<1>5. n - 1 \in S
  BY <1>2, <1>3, <1>4
<1> QED
  BY <1>3, <1>4, <1>5

\* Induction over the sequences: S has the empty one and, with a sequence, any
\* that is longer by an element.
LEMMA SeqInduction ==
    ASSUME NEW T, NEW S, <<>> \in S,
           \A s \in Seq(T), x \in T : s \in S => Append(s, x) \in S
    PROVE  Seq(T) \subseteq S
<1> DEFINE U == { n \in Nat : \A s \in Seq(T) : Len(s) = n => s \in S }
<1>1. 0 \in U
  BY EmptySeq
<1>2. ASSUME NEW n \in Nat, n \in U PROVE n + 1 \in U
  <2> SUFFICES ASSUME NEW s \in Seq(T), Len(s) = n + 1 PROVE s \in S
    OBVIOUS
  <2>1. s # <<>>
    OBVIOUS
  <2>2. PICK r \in Seq(T), x \in T : s = Append(r, x)
    BY <2>1, SequenceEmptyOrAppend
  <2>3. Len(r) = n
    BY <2>2
  <2> QED
    BY <1>2, <2>2, <2>3
<1> HIDE DEF U
<1>3. Nat \subseteq U
  BY <1>1, <1>2, Induction
<1> QED
  BY <1>3 DEF U

\* An element more, at the end.
LEMMA AppendIs ==
    ASSUME NEW T, NEW s \in Seq(T), NEW x \in T
    PROVE  /\ Append(s, x) \in Seq(T) /\ Len(Append(s, x)) = Len(s) + 1
           /\ Len(s) \in Nat /\ DOMAIN s = 1..Len(s) /\ DOMAIN Append(s, x) = 1..(Len(s) + 1)
           /\ DOMAIN Append(s, x) = DOMAIN s \cup {Len(s) + 1}
           /\ Len(s) + 1 \notin DOMAIN s
           /\ \A i \in DOMAIN s : Append(s, x)[i] = s[i]
           /\ Append(s, x)[Len(s) + 1] = x
           /\ Range(Append(s, x)) = Range(s) \cup {x}
<1>1. /\ Append(s, x) \in Seq(T) /\ Len(Append(s, x)) = Len(s) + 1
      /\ Len(s) \in Nat /\ DOMAIN s = 1..Len(s) /\ DOMAIN Append(s, x) = 1..(Len(s) + 1)
      /\ \A i \in 1..Len(s) : Append(s, x)[i] = s[i]
      /\ Append(s, x)[Len(s) + 1] = x
  OBVIOUS
<1>2. \A i : i \in 1..(Len(s) + 1) <=> i \in 1..Len(s) \/ i = Len(s) + 1
  BY <1>1
<1>3. Range(Append(s, x)) = Range(s) \cup {x}
  BY <1>1, <1>2, Zenon DEF Range
<1>4. Len(s) + 1 \notin 1..Len(s)
  BY <1>1
<1> HIDE DEF Range
<1> QED
  BY <1>1, <1>2, <1>3, <1>4

\* The function FlattenSeq computes, up to the k-th of the sequences.
IsFlat(f, ss, k) ==
    \A i \in 1..k : f[i] = IF i = 1 THEN ss[i] ELSE f[i - 1] \o ss[i]

LEMMA FlatIs ==
    ASSUME NEW S, NEW ss \in Seq(Seq(S)), ss # <<>>
    PROVE  \E f : IsFlat(f, ss, Len(ss)) /\ FlattenSeq(ss) = f[Len(ss)]
<1> DEFINE n == Len(ss)
           Eq(k, f) == f = [i \in 1..k |-> IF i = 1 THEN ss[i] ELSE f[i - 1] \o ss[i]]
           flat == CHOOSE f : Eq(n, f)
<1>1. n \in Nat \ {0}
  BY EmptySeq
<1>2. FlattenSeq(ss) = flat[n]
  BY <1>1, Zenon DEF FlattenSeq
<1>3. \E f : Eq(n, f)
  <2> DEFINE U == { k \in Nat : \E f : Eq(k, f) }
  <2>1. 0 \in U
    <3>1. Eq(0, <<>>)
      OBVIOUS
    <3> QED
      BY <3>1
  <2>2. ASSUME NEW k \in Nat, k \in U PROVE k + 1 \in U
    <3>1. PICK f : Eq(k, f)
      BY <2>2
    <3> DEFINE g == [i \in 1..(k + 1) |-> IF i = k + 1
                                          THEN IF i = 1 THEN ss[i] ELSE f[i - 1] \o ss[i]
                                          ELSE f[i]]
    <3>2. \A i \in 1..(k + 1) : g[i] = IF i = 1 THEN ss[i] ELSE g[i - 1] \o ss[i]
      <4> SUFFICES ASSUME NEW i \in 1..(k + 1)
                   PROVE  g[i] = IF i = 1 THEN ss[i] ELSE g[i - 1] \o ss[i]
        OBVIOUS
      <4>1. i # 1 => i - 1 \in 1..(k + 1) /\ i - 1 # k + 1 /\ i - 1 \in 1..k
        OBVIOUS
      <4>2. i # 1 => g[i - 1] = f[i - 1]
        BY <4>1
      <4>3. i # k + 1 => i \in 1..k /\ g[i] = f[i]
        OBVIOUS
      <4>4. i \in 1..k => f[i] = IF i = 1 THEN ss[i] ELSE f[i - 1] \o ss[i]
        BY <3>1
      <4>5. i = k + 1 => g[i] = IF i = 1 THEN ss[i] ELSE f[i - 1] \o ss[i]
        OBVIOUS
      <4> HIDE DEF g, Eq
      <4> QED
        BY <4>2, <4>3, <4>4, <4>5
    <3>3. g = [i \in 1..(k + 1) |-> g[i]]
      OBVIOUS
    <3> HIDE DEF g
    <3>4. Eq(k + 1, g)
      BY <3>2, <3>3
    <3> HIDE DEF Eq
    <3> QED
      BY <3>4
  <2> HIDE DEF U
  <2>3. n \in U
    BY <1>1, <2>1, <2>2, Induction
  <2> QED
    BY <2>3 DEF U
<1>4. flat = [i \in 1..n |-> IF i = 1 THEN ss[i] ELSE flat[i - 1] \o ss[i]]
  BY <1>3, Zenon
<1> HIDE DEF flat, Eq
<1>5. IsFlat(flat, ss, n)
  BY <1>4, Zenon DEF IsFlat
<1> QED
  BY <1>2, <1>5

\* A sequence of sequences that is longer by one is, flattened, longer by that.
LEMMA FlattenAppend ==
    ASSUME NEW S, NEW ss \in Seq(Seq(S)), NEW s \in Seq(S)
    PROVE  FlattenSeq(Append(ss, s)) = FlattenSeq(ss) \o s
<1> DEFINE n == Len(ss)
           tt == Append(ss, s)
<1>1. /\ n \in Nat /\ tt \in Seq(Seq(S)) /\ Len(tt) = n + 1 /\ tt # <<>>
      /\ \A i \in 1..n : tt[i] = ss[i] /\ ss[i] \in Seq(S)
      /\ tt[n + 1] = s
  OBVIOUS
<1> HIDE DEF tt
<1>2. PICK g : IsFlat(g, tt, n + 1) /\ FlattenSeq(tt) = g[n + 1]
  BY <1>1, FlatIs
<1>3. g[n + 1] = IF n = 0 THEN s ELSE g[n] \o s
  <2>1. n + 1 \in 1..(n + 1) /\ (n + 1) - 1 = n /\ (n + 1 = 1 <=> n = 0)
    BY <1>1
  <2>2. g[n + 1] = IF n + 1 = 1 THEN tt[n + 1] ELSE g[(n + 1) - 1] \o tt[n + 1]
    BY <1>2, <2>1, Zenon DEF IsFlat
  <2> QED
    BY <1>1, <2>1, <2>2, Zenon
<1>4. CASE n = 0
  <2>1. ss = <<>> /\ FlattenSeq(ss) = ss
    BY <1>4, EmptySeq DEF FlattenSeq
  <2>2. <<>> \o s = s
    OBVIOUS
  <2> QED
    BY <1>2, <1>3, <1>4, <2>1, <2>2 DEF tt
<1>5. CASE n # 0
  <2>1. ss # <<>>
    BY <1>5
  <2>2. PICK f : IsFlat(f, ss, n) /\ FlattenSeq(ss) = f[n]
    BY <2>1, FlatIs
  <2> DEFINE U == { k \in Nat : k \in 1..n => f[k] = g[k] }
  <2>3. 0 \in U
    OBVIOUS
  <2>4. ASSUME NEW k \in Nat, k \in U PROVE k + 1 \in U
    <3> SUFFICES ASSUME k + 1 \in 1..n PROVE f[k + 1] = g[k + 1]
      OBVIOUS
    <3>1. k + 1 \in 1..(n + 1) /\ (k + 1) - 1 = k /\ (k + 1 = 1 <=> k = 0) /\ (k # 0 => k \in 1..n)
      BY <1>1
    <3>2. f[k + 1] = IF k + 1 = 1 THEN ss[k + 1] ELSE f[(k + 1) - 1] \o ss[k + 1]
      BY <2>2, Zenon DEF IsFlat
    <3>3. g[k + 1] = IF k + 1 = 1 THEN tt[k + 1] ELSE g[(k + 1) - 1] \o tt[k + 1]
      BY <1>2, <3>1, Zenon DEF IsFlat
    <3>4. k # 0 => f[k] = g[k]
      BY <2>4, <3>1
    <3>5. tt[k + 1] = ss[k + 1]
      BY <1>1
    <3> HIDE DEF n, U
    <3> QED
      BY <3>1, <3>2, <3>3, <3>4, <3>5, Zenon
  <2> HIDE DEF U
  <2>5. n \in U
    BY <1>1, <2>3, <2>4, Induction
  <2>6. f[n] = g[n]
    BY <1>1, <1>5, <2>5 DEF U
  <2> HIDE DEF n
  <2> QED
    BY <1>2, <1>3, <1>5, <2>2, <2>6 DEF tt
<1> QED
  BY <1>4, <1>5

LEMMA FlattenEmpty == FlattenSeq(<<>>) = <<>>
  BY DEF FlattenSeq

\* A sequence of sequences, flattened, has the elements of all of them.
LEMMA Flattened ==
    ASSUME NEW S, NEW ss \in Seq(Seq(S))
    PROVE  /\ FlattenSeq(ss) \in Seq(S)
           /\ \A x : x \in Range(FlattenSeq(ss)) <=> \E i \in DOMAIN ss : x \in Range(ss[i])
<1> DEFINE Good(q) == /\ FlattenSeq(q) \in Seq(S)
                      /\ \A x : x \in Range(FlattenSeq(q)) <=> \E i \in DOMAIN q : x \in Range(q[i])
           U == { q \in Seq(Seq(S)) : Good(q) }
<1>1. <<>> \in U
  <2>1. <<>> \in Seq(S) /\ <<>> \in Seq(Seq(S)) /\ Range(<<>>) = {} /\ DOMAIN <<>> = {}
    BY DEF Range
  <2> QED
    BY <2>1, FlattenEmpty, Zenon
<1>2. ASSUME NEW q \in Seq(Seq(S)), NEW s \in Seq(S), q \in U PROVE Append(q, s) \in U
  <2>1. FlattenSeq(Append(q, s)) = FlattenSeq(q) \o s
    BY FlattenAppend
  <2>2. Good(q)
    BY <1>2
  <2>3. /\ FlattenSeq(q) \o s \in Seq(S)
        /\ Range(FlattenSeq(q) \o s) = Range(FlattenSeq(q)) \cup Range(s)
    BY <2>2, RangeConcatenation, ConcatProperties
  <2>4. /\ Append(q, s) \in Seq(Seq(S))
        /\ DOMAIN Append(q, s) = DOMAIN q \cup {Len(q) + 1}
        /\ \A i \in DOMAIN q : Append(q, s)[i] = q[i]
        /\ Append(q, s)[Len(q) + 1] = s
    BY AppendIs
  <2>5. \A x : (\E i \in DOMAIN Append(q, s) : x \in Range(Append(q, s)[i]))
                  <=> (\E i \in DOMAIN q : x \in Range(q[i])) \/ x \in Range(s)
    BY <2>4, Zenon
  <2>6. \A x : x \in Range(FlattenSeq(q)) <=> \E i \in DOMAIN q : x \in Range(q[i])
    BY <2>2
  <2>7. \A x : x \in Range(FlattenSeq(Append(q, s)))
                  <=> \E i \in DOMAIN Append(q, s) : x \in Range(Append(q, s)[i])
    BY <2>1, <2>3, <2>5, <2>6, Zenon
  <2>8. FlattenSeq(Append(q, s)) \in Seq(S)
    BY <2>1, <2>3
  <2> QED
    BY <2>4, <2>7, <2>8
<1> HIDE DEF U
<1>3. ss \in U
  <2>1. \A q \in Seq(Seq(S)), s \in Seq(S) : q \in U => Append(q, s) \in U
    BY <1>2
  <2> QED
    BY <1>1, <2>1, SeqInduction
<1> QED
  BY <1>3 DEF U

-------------------------------------------------------------------------------
(***************************************************************************)
(* Lists without a type for their elements.                                *)
(***************************************************************************)

LEMMA SeqIs ==
    ASSUME NEW s, IsSeq(s)
    PROVE  /\ Len(s) \in Nat /\ DOMAIN s = 1..Len(s)
           /\ \A T : Range(s) \subseteq T => s \in Seq(T)
<1>1. s \in Seq(Range(s))
  BY DEF IsSeq
<1>2. Len(s) \in Nat /\ DOMAIN s = 1..Len(s)
  BY <1>1
<1>3. ASSUME NEW T, Range(s) \subseteq T PROVE s \in Seq(T)
  BY <1>1, <1>3
<1> QED
  BY <1>2, <1>3

LEMMA IsSeqOf == ASSUME NEW T, NEW s \in Seq(T) PROVE IsSeq(s)
  BY SeqOfRange DEF IsSeq

\* What is made of each number up to n, and of each element of a list.
LEMMA ListIs ==
    ASSUME NEW n \in Nat, NEW e, DOMAIN e = 1..n, e = [i \in 1..n |-> e[i]]
    PROVE  IsSeq(e) /\ Len(e) = n
<1>1. \A i \in 1..n : e[i] \in Range(e)
  BY Zenon DEF Range
<1>2. e \in [1..n -> Range(e)]
  BY <1>1
<1>3. e \in Seq(Range(e))
  BY <1>2
<1>4. Len(e) = n
  BY <1>2
<1> QED
  BY <1>3, <1>4 DEF IsSeq

\* Lists of lists, put together.
LEMMA ListOfLists ==
    ASSUME NEW n \in Nat, NEW e, DOMAIN e = 1..n, e = [i \in 1..n |-> e[i]],
           NEW T, \A i \in 1..n : e[i] \in Seq(T)
    PROVE  e \in Seq(Seq(T))
<1>1. e \in [1..n -> Seq(T)]
  OBVIOUS
<1> QED
  BY <1>1

LEMMA FlattenIs ==
    ASSUME NEW n \in Nat, NEW e, DOMAIN e = 1..n, e = [i \in 1..n |-> e[i]],
           \A i \in 1..n : IsSeq(e[i])
    PROVE  /\ IsSeq(FlattenSeq(e))
           /\ \A x : x \in Range(FlattenSeq(e)) <=> \E i \in 1..n : x \in Range(e[i])
<1> DEFINE T == UNION { Range(e[i]) : i \in 1..n }
<1>1. ASSUME NEW i \in 1..n PROVE e[i] \in Seq(T)
  <2>1. IsSeq(e[i]) /\ Range(e[i]) \subseteq T
    OBVIOUS
  <2> QED
    BY <2>1, SeqIs
<1> HIDE DEF T
<1>2. e \in Seq(Seq(T))
  BY <1>1, ListOfLists
<1> QED
  BY <1>2, Flattened, IsSeqOf

LEMMA ConcatIs ==
    ASSUME NEW s, NEW t, IsSeq(s), IsSeq(t)
    PROVE  /\ IsSeq(s \o t) /\ Range(s \o t) = Range(s) \cup Range(t)
           /\ Len(s \o t) = Len(s) + Len(t)
<1> DEFINE T == Range(s) \cup Range(t)
<1>1. s \in Seq(T) /\ t \in Seq(T)
  BY SeqIs
<1> HIDE DEF T
<1>2. s \o t \in Seq(T) /\ Range(s \o t) = Range(s) \cup Range(t) /\ Len(s \o t) = Len(s) + Len(t)
  BY <1>1, RangeConcatenation, ConcatProperties
<1> QED
  BY <1>2, IsSeqOf

LEMMA SingletonIs == ASSUME NEW x PROVE IsSeq(<<x>>) /\ Range(<<x>>) = {x} /\ <<x>> # <<>>
<1>1. <<x>> \in Seq({x})
  OBVIOUS
<1>2. Range(<<x>>) = {x}
  BY DEF Range
<1>3. <<x>> # <<>>
  BY <1>1
<1> QED
  BY <1>1, <1>2, <1>3 DEF IsSeq

LEMMA EmptyIs == IsSeq(<<>>) /\ Range(<<>>) = {}
<1>1. Range(<<>>) = {}
  BY DEF Range
<1> QED
  BY <1>1 DEF IsSeq

\* A list some of whose elements are left out.
LEMMA PickedIs ==
    ASSUME NEW s, IsSeq(s),
           NEW e, DOMAIN e = DOMAIN s, e = [i \in DOMAIN s |-> e[i]],
           \A i \in DOMAIN s : e[i] = <<>> \/ e[i] = <<s[i]>>
    PROVE  /\ IsSeq(FlattenSeq(e))
           /\ Range(FlattenSeq(e)) \subseteq Range(s)
           /\ \A i \in DOMAIN s : e[i] # <<>> => s[i] \in Range(FlattenSeq(e))
<1>1. Len(s) \in Nat /\ DOMAIN s = 1..Len(s)
  BY SeqIs
<1>2. \A i \in 1..Len(s) : /\ IsSeq(e[i])
                           /\ e[i] # <<>> => Range(e[i]) = {s[i]}
                           /\ e[i] = <<>> => Range(e[i]) = {}
  <2> SUFFICES ASSUME NEW i \in 1..Len(s)
               PROVE  /\ IsSeq(e[i])
                      /\ e[i] # <<>> => Range(e[i]) = {s[i]}
                      /\ e[i] = <<>> => Range(e[i]) = {}
    OBVIOUS
  <2>1. CASE e[i] = <<>>
    BY <2>1, EmptyIs
  <2>2. CASE e[i] = <<s[i]>>
    BY <2>2, SingletonIs
  <2> QED
    BY <1>1, <2>1, <2>2
<1>3. /\ IsSeq(FlattenSeq(e))
      /\ \A x : x \in Range(FlattenSeq(e)) <=> \E i \in 1..Len(s) : x \in Range(e[i])
  BY <1>1, <1>2, FlattenIs
<1>4. \A i \in 1..Len(s) : s[i] \in Range(s)
  BY <1>1 DEF Range
<1>5. ASSUME NEW x \in Range(FlattenSeq(e)) PROVE x \in Range(s)
  <2>1. PICK i \in 1..Len(s) : x \in Range(e[i])
    BY <1>3
  <2>2. x = s[i]
    BY <1>2, <2>1
  <2> QED
    BY <1>4, <2>2
<1>6. \A i \in 1..Len(s) : e[i] # <<>> => s[i] \in Range(FlattenSeq(e))
  BY <1>2, <1>3
<1> QED
  BY <1>1, <1>3, <1>5, <1>6

-------------------------------------------------------------------------------
(***************************************************************************)
(* What a rule returns is a list of findings.                              *)
(***************************************************************************)

\* Findings are a list, none of them a wrong one; so are none, one, and the
\* findings of several checks one after the other.
LEMMA AreFindingsIs ==
    ASSUME NEW s
    PROVE  AreFindings(s) <=> IsSeq(s) /\ \A f \in Range(s) : IsFinding(f)
  BY Zenon DEF AreFindings, Range

LEMMA NoFindings == AreFindings(<<>>)
  BY EmptyIs, AreFindingsIs

LEMMA FoundIs ==
    ASSUME NEW c, NEW id, NEW category, NEW severity \in Severities, NEW where
    PROVE  AreFindings(Found(c, id, category, severity, where))
<1> DEFINE f == [id |-> id, category |-> category, severity |-> severity, page |-> where]
<1>1. IsFinding(f)
  BY DEF IsFinding
<1> HIDE DEF f
<1>2. AreFindings(<<f>>)
  BY <1>1, SingletonIs, AreFindingsIs
<1> QED
  BY <1>2, NoFindings DEF Found, f

LEMMA Concatenated ==
    ASSUME NEW s, NEW t, AreFindings(s), AreFindings(t) PROVE AreFindings(s \o t)
  BY ConcatIs, AreFindingsIs

LEMMA FlattenedFindings ==
    ASSUME NEW n \in Nat, NEW e, DOMAIN e = 1..n, e = [i \in 1..n |-> e[i]],
           \A i \in 1..n : AreFindings(e[i])
    PROVE  AreFindings(FlattenSeq(e))
<1>1. \A i \in 1..n : IsSeq(e[i]) /\ \A f \in Range(e[i]) : IsFinding(f)
  BY AreFindingsIs
<1>2. /\ IsSeq(FlattenSeq(e))
      /\ \A x : x \in Range(FlattenSeq(e)) <=> \E i \in 1..n : x \in Range(e[i])
  BY <1>1, FlattenIs
<1>3. \A x \in Range(FlattenSeq(e)) : IsFinding(x)
  BY <1>1, <1>2
<1> QED
  BY <1>2, <1>3, AreFindingsIs

\* The built-in rules, page by page.
LEMMA AccessibilityIs == ASSUME NEW p PROVE AreFindings(Accessibility(p))
<1> DEFINE F(c, id, severity) == Found(c, id, "Accessibility", severity, p.url)
<1>1. \A c, id : AreFindings(F(c, id, "Low")) /\ AreFindings(F(c, id, "Medium"))
  BY FoundIs DEF Severities
<1> HIDE DEF F
<1> QED
  BY <1>1, Concatenated DEF Accessibility, F

LEMMA FoundAtIs ==
    ASSUME NEW s, IsSeq(s), NEW e, DOMAIN e = DOMAIN s, e = [i \in DOMAIN s |-> e[i]],
           \A i \in DOMAIN s : AreFindings(e[i])
    PROVE  AreFindings(FlattenSeq(e))
<1>1. Len(s) \in Nat /\ DOMAIN s = 1..Len(s)
  BY SeqIs
<1> QED
  BY <1>1, FlattenedFindings

LEMMA AssetsOnPageIs == ASSUME NEW p PROVE AreFindings(AssetsOnPage(p))
<1> DEFINE F(c, id) == Found(c, id, "Assets", "Low", p.url)
<1>1. \A c, id : AreFindings(F(c, id))
  BY FoundIs DEF Severities
<1> HIDE DEF F
<1> QED
  BY <1>1, Concatenated DEF AssetsOnPage, F

\* The findings of a check made of every element of a list.
LEMMA EachIs ==
    ASSUME NEW s, IsSeq(s), NEW Condition(_), NEW id, NEW category,
           NEW severity \in Severities, NEW where
    PROVE  AreFindings(FoundAt(s, Condition, id, category, severity, where))
<1> DEFINE e == [i \in DOMAIN s |-> Found(Condition(s[i]), id, category, severity, where)]
<1>1. DOMAIN e = DOMAIN s /\ e = [i \in DOMAIN s |-> e[i]]
  OBVIOUS
<1>2. \A i \in DOMAIN s : AreFindings(e[i])
  BY FoundIs
<1>3. FoundAt(s, Condition, id, category, severity, where) = FlattenSeq(e)
  BY DEF FoundAt
<1> HIDE DEF e
<1> QED
  BY <1>1, <1>2, <1>3, FoundAtIs

LEMMA FormsIs ==
    ASSUME NEW p, IsSeq(p.fields), IsSeq(p.forms) PROVE AreFindings(Forms(p))
<1> DEFINE Nameless(f) == "name" \notin f.has
           Forgetful(f) == f.type = "password" /\ "autocomplete" \notin f.has
           Weak(f) == f.type = "password" /\ f.has \cap {"minlength", "pattern"} = {}
           Mistyped(f) == f.type # "email" /\ "email name" \in f.has
           AnyFile(f) == f.type = "file" /\ "accept" \notin f.has
           Reveals(f) == f.method = "get" /\ "password" \in f.has
           Tokenless(f) == f.method = "post" /\ "csrf token" \notin f.has
           F == Found(Some(p.fields, Nameless), "FORM001", "Forms", "Low", p.url)
           E2 == FoundAt(p.fields, Forgetful, "FORM002", "Forms", "Low", p.url)
           E3 == FoundAt(p.fields, Weak, "FORM003", "Forms", "Low", p.url)
           E4 == FoundAt(p.fields, Mistyped, "FORM004", "Forms", "Low", p.url)
           E7 == FoundAt(p.fields, AnyFile, "FORM007", "Forms", "Low", p.url)
           E5 == FoundAt(p.forms, Reveals, "FORM005", "Forms", "High", p.url)
           E6 == FoundAt(p.forms, Tokenless, "FORM006", "Forms", "Info", p.url)
<1>1. AreFindings(F)
  BY FoundIs DEF Severities
<1>2. AreFindings(E2) /\ AreFindings(E3) /\ AreFindings(E4) /\ AreFindings(E7)
  BY EachIs DEF Severities
<1>3. AreFindings(E5) /\ AreFindings(E6)
  BY EachIs DEF Severities
<1>4. Forms(p) = F \o E2 \o E3 \o E4 \o E7 \o E5 \o E6
  BY DEF Forms
<1> HIDE DEF F, E2, E3, E4, E5, E6, E7
<1> QED
  BY <1>1, <1>2, <1>3, <1>4, Concatenated

LEMMA PageRulesAre ==
    ASSUME NEW p
    PROVE  /\ AreFindings(Functionality(p)) /\ AreFindings(Links(p))
           /\ AreFindings(Performance(p)) /\ AreFindings(Security(p)) /\ AreFindings(Seo(p))
<1> USE DEF Severities
<1>1. AreFindings(Functionality(p)) /\ AreFindings(Links(p))
  BY FoundIs DEF Functionality, Links
<1>2. AreFindings(Performance(p))
  <2> DEFINE
         Blocks(s) == s.src # "" /\ s.has \cap {"head", "async", "defer"} = {"head"}
         f1 == Found(p.responseTime > 5000, "PERF001", "Performance", "High", p.url)
         Slow == p.responseTime \in 2001..5000
         f2 == Found(Slow, "PERF002", "Performance", "Medium", p.url)
         f3 == Found(p.htmlSize > 1024 /\ "content-encoding" \notin p.headers, "PERF003",
                     "Performance", "Medium", p.url)
         f4 == Found("cache-control" \notin p.headers, "PERF004", "Performance", "Low", p.url)
         f5 == Found(p.htmlSize > 500 * 1024, "PERF005", "Performance", "Medium", p.url)
         f6 == Found(Some(p.scripts, Blocks), "PERF006", "Performance", "Medium", p.url)
  <2> HIDE DEF Slow
  <2>1. AreFindings(f1) /\ AreFindings(f2) /\ AreFindings(f3) /\ AreFindings(f4) /\ AreFindings(f5)
    BY FoundIs
  <2>2. AreFindings(f6)
    BY FoundIs
  <2>3. Performance(p) = f1 \o f2 \o f3 \o f4 \o f5 \o f6
    BY DEF Performance, Slow
  <2> HIDE DEF f1, f2, f3, f4, f5, f6
  <2> QED
    BY <2>1, <2>2, <2>3, Concatenated
<1>3. AreFindings(Security(p))
  <2> DEFINE
         Lacks(header) == header \notin p.headers
         Loose(cookie) == cookie # {"secure", "httpOnly"}
         f1 == Found(~ p.https, "SEC005", "Security", "High", p.url)
         f2 == Found(Lacks("content-security-policy"), "SEC001", "Security", "Medium", p.url)
         f3 == Found(~ Lacks("content-security-policy") /\ p.weakCsp, "SEC006",
                     "Security", "Medium", p.url)
         f4 == Found(Lacks("x-frame-options"), "SEC002", "Security", "Low", p.url)
         f5 == Found(Lacks("strict-transport-security"), "SEC003", "Security", "Medium", p.url)
         f6 == Found(Lacks("x-content-type-options"), "SEC004", "Security", "Low", p.url)
         f7 == Found(~ Lacks("server") /\ p.serverVersion, "SEC007", "Security", "Info", p.url)
         f8 == Found(\E c \in p.cookies : Loose(c), "SEC008", "Security", "Medium", p.url)
         f9 == Found(p.mixedContentCount > 0, "SEC009", "Security", "Medium", p.url)
         f10 == Found(p.disclosedError, "SEC010", "Security", "High", p.url)
  <2>1. AreFindings(f1) /\ AreFindings(f2) /\ AreFindings(f3) /\ AreFindings(f4) /\ AreFindings(f5)
    BY FoundIs
  <2>2. AreFindings(f6) /\ AreFindings(f7) /\ AreFindings(f8) /\ AreFindings(f9) /\ AreFindings(f10)
    BY FoundIs
  <2>3. Security(p) = f1 \o f2 \o f3 \o f4 \o f5 \o f6 \o f7 \o f8 \o f9 \o f10
    BY DEF Security
  <2> HIDE DEF f1, f2, f3, f4, f5, f6, f7, f8, f9, f10
  <2> QED
    BY <2>1, <2>2, <2>3, Concatenated
<1>4. AreFindings(Seo(p))
  <2> DEFINE
         Outside(text, shortest, longest) == text # "" /\ p.length[text] \notin shortest..longest
         f1 == Found(p.h1 = 0, "SEO001", "SEO", "Low", p.url)
         f2 == Found(p.h1 > 1, "SEO002", "SEO", "Medium", p.url)
         f3 == Found(p.title = "", "SEO003", "SEO", "Medium", p.url)
         f4 == Found(Outside(p.title, 10, 60), "SEO004", "SEO", "Low", p.url)
         f5 == Found(p.description = "", "SEO005", "SEO", "Medium", p.url)
         f6 == Found(Outside(p.description, 50, 160), "SEO006", "SEO", "Low", p.url)
         f7 == Found("canonical" \notin p.meta, "SEO007", "SEO", "Low", p.url)
         f8 == Found(p.meta \cap {"ogTitle", "ogDescription"} = {}, "SEO008", "SEO", "Info", p.url)
         f9 == Found(p.status = 200 /\ p.links = {}, "SEO011", "SEO", "Info", p.url)
  <2> HIDE DEF Outside
  <2>1. AreFindings(f1) /\ AreFindings(f2) /\ AreFindings(f3) /\ AreFindings(f4) /\ AreFindings(f5)
    BY FoundIs
  <2>2. AreFindings(f6) /\ AreFindings(f7) /\ AreFindings(f8) /\ AreFindings(f9)
    BY FoundIs
  <2>3. Seo(p) = f1 \o f2 \o f3 \o f4 \o f5 \o f6 \o f7 \o f8 \o f9
    BY DEF Seo, Outside
  <2> HIDE DEF f1, f2, f3, f4, f5, f6, f7, f8, f9
  <2> QED
    BY <2>1, <2>2, <2>3, Concatenated
<1> QED
  BY <1>1, <1>2, <1>3, <1>4

\* The elements of a list that pass a test, and the first ones of a key.
LEMMA WhereIs ==
    ASSUME NEW s, IsSeq(s), NEW Test(_)
    PROVE  /\ IsSeq(Where(s, Test)) /\ Range(Where(s, Test)) \subseteq Range(s)
           /\ \A i \in DOMAIN s : Test(s[i]) => s[i] \in Range(Where(s, Test))
<1> DEFINE e == [i \in DOMAIN s |-> IF Test(s[i]) THEN <<s[i]>> ELSE <<>>]
<1>1. DOMAIN e = DOMAIN s /\ e = [i \in DOMAIN s |-> e[i]]
  OBVIOUS
<1>2. \A i \in DOMAIN s : /\ e[i] = <<>> \/ e[i] = <<s[i]>>
                          /\ Test(s[i]) => e[i] # <<>>
  BY SingletonIs
<1>3. Where(s, Test) = FlattenSeq(e)
  BY DEF Where
<1> HIDE DEF e
<1> QED
  BY <1>1, <1>2, <1>3, PickedIs

LEMMA FirstsIs ==
    ASSUME NEW s, IsSeq(s), NEW Key(_)
    PROVE  IsSeq(Firsts(s, Key)) /\ Range(Firsts(s, Key)) \subseteq Range(s)
<1> DEFINE e == [i \in DOMAIN s |->
                    IF \E j \in 1..(i - 1) : Key(s[j]) = Key(s[i]) THEN <<>> ELSE <<s[i]>>]
<1>1. DOMAIN e = DOMAIN s /\ e = [i \in DOMAIN s |-> e[i]]
  OBVIOUS
<1>2. \A i \in DOMAIN s : e[i] = <<>> \/ e[i] = <<s[i]>>
  OBVIOUS
<1>3. Firsts(s, Key) = FlattenSeq(e)
  BY DEF Firsts
<1> HIDE DEF e
<1> QED
  BY <1>1, <1>2, <1>3, PickedIs

\* A list that is made of another.
LEMMA MapIs ==
    ASSUME NEW s, IsSeq(s), NEW e, DOMAIN e = DOMAIN s, e = [i \in DOMAIN s |-> e[i]]
    PROVE  IsSeq(e) /\ Len(e) = Len(s)
<1>1. Len(s) \in Nat /\ DOMAIN s = 1..Len(s)
  BY SeqIs
<1> QED
  BY <1>1, ListIs

\* The built-in rules, at the end.
LEMMA SharedIs ==
    ASSUME NEW s, IsSeq(s), NEW Text(_), NEW id, NEW severity \in Severities
    PROVE  AreFindings(Shared(s, Text, id, severity))
<1> DEFINE SharedFrom(i) == LET same == { j \in DOMAIN s : Text(s[j]) = Text(s[i]) }
                            IN  Text(s[i]) # "" /\ Cardinality(same) > 1 /\ i = Min(same)
           e == [i \in DOMAIN s |-> Found(SharedFrom(i), id, "SEO", severity, s[i].url)]
<1>1. DOMAIN e = DOMAIN s /\ e = [i \in DOMAIN s |-> e[i]]
  OBVIOUS
<1>2. Shared(s, Text, id, severity) = FlattenSeq(e)
  BY DEF Shared
<1> HIDE DEF SharedFrom
<1>3. \A i \in DOMAIN s : AreFindings(e[i])
  BY FoundIs
<1> HIDE DEF e
<1> QED
  BY <1>1, <1>2, <1>3, FoundAtIs

LEMMA SeoFinalIs == ASSUME NEW s, IsSeq(s) PROVE AreFindings(SeoFinal(s))
<1> DEFINE Title(x) == x.title
           Description(x) == x.description
           f1 == Shared(s, Title, "SEO009", "Medium")
           f2 == Shared(s, Description, "SEO010", "Low")
<1>1. AreFindings(f1) /\ AreFindings(f2)
  BY SharedIs DEF Severities
<1>2. SeoFinal(s) = f1 \o f2
  BY DEF SeoFinal
<1> HIDE DEF f1, f2
<1> QED
  BY <1>1, <1>2, Concatenated

LEMMA AssetsFinalIs == ASSUME NEW s, IsSeq(s) PROVE AreFindings(AssetsFinal(s))
<1> DEFINE Failing(c) == c.error \/ c.status >= 400
           Large(c) == ~ Failing(c) /\ (c.tooLarge \/ c.sizeKb > 300)
           Sizes(c) == Found(Failing(c), "AST004", "Assets", "Medium", c.url)
                       \o Found(Large(c), "AST005", "Assets",
                                IF c.tooLarge THEN "Medium" ELSE "Low", c.url)
           Hashed(c) == ~ Failing(c) /\ c.hash # ""
           hashed == Where(s, Hashed)
           Copies(i) == { j \in DOMAIN hashed : hashed[j].hash = hashed[i].hash }
           Copied(i) == Cardinality(Copies(i)) > 1 /\ i = Min(Copies(i))
           f1 == [i \in DOMAIN s |-> Sizes(s[i])]
           f2 == [i \in DOMAIN hashed |->
                     Found(Copied(i), "AST006", "Assets", "Low", hashed[i].url)]
<1>1. AssetsFinal(s) = FlattenSeq(f1) \o FlattenSeq(f2)
  BY DEF AssetsFinal
<1>2. IsSeq(hashed)
  BY WhereIs
<1> HIDE DEF Failing, Large, hashed, Copied
<1>3. \A c : AreFindings(Sizes(c))
  BY FoundIs, Concatenated DEF Severities
<1>4. \A i : AreFindings(Found(Copied(i), "AST006", "Assets", "Low", hashed[i].url))
  BY FoundIs DEF Severities
<1> HIDE DEF Sizes
<1>5. /\ DOMAIN f1 = DOMAIN s /\ f1 = [i \in DOMAIN s |-> f1[i]]
      /\ \A i \in DOMAIN s : AreFindings(f1[i])
  BY <1>3
<1>6. /\ DOMAIN f2 = DOMAIN hashed /\ f2 = [i \in DOMAIN hashed |-> f2[i]]
      /\ \A i \in DOMAIN hashed : AreFindings(f2[i])
  BY <1>4
<1> HIDE DEF f1, f2
<1>7. AreFindings(FlattenSeq(f1)) /\ AreFindings(FlattenSeq(f2))
  BY <1>2, <1>5, <1>6, FoundAtIs
<1> QED
  BY <1>1, <1>7, Concatenated

Kinds == {"sensitive-file", "directory-listing", "recon"}

\* The candidate paths that exist, each of a known kind.
AreExposed(paths) == IsSeq(paths) /\ \A i \in DOMAIN paths : paths[i].category \in Kinds

LEMMA ExposedFinalIs ==
    ASSUME NEW checks, AreExposed(checks.exposed) PROVE AreFindings(ExposedFinal(checks))
<1> DEFINE s == checks.exposed
           Of(kind) == CASE kind = "sensitive-file" -> <<"SEC011", "Critical">>
                         [] kind = "directory-listing" -> <<"SEC012", "Medium">>
                         [] kind = "recon" -> <<"SEC013", "Info">>
           One(c) == Found(TRUE, Of(c.category)[1], "Security", Of(c.category)[2], c.path)
           e == [i \in DOMAIN s |-> One(s[i])]
           f == Found(~ checks.hasSecurityTxt, "SEC014", "Security", "Info", "security.txt")
<1>1. ExposedFinal(checks) = FlattenSeq(e) \o f
  BY DEF ExposedFinal
<1>2. \A kind \in Kinds : Of(kind)[2] \in Severities
  BY DEF Kinds, Severities
<1> HIDE DEF Of
<1>3. \A i \in DOMAIN s : AreFindings(One(s[i]))
  BY <1>2, FoundIs DEF AreExposed
<1>4. AreFindings(f)
  BY FoundIs DEF Severities
<1> HIDE DEF One
<1>5. DOMAIN e = DOMAIN s /\ e = [i \in DOMAIN s |-> e[i]] /\ \A i \in DOMAIN s : AreFindings(e[i])
  BY <1>3
<1>6. IsSeq(s)
  BY DEF AreExposed
<1> HIDE DEF e, f, s
<1> QED
  BY <1>1, <1>4, <1>5, <1>6, FoundAtIs, Concatenated

\* A page whose lists are lists.
IsPage(p) ==
    /\ IsSeq(p.fields) /\ IsSeq(p.forms)
    /\ IsSeq(p.scripts) /\ IsSeq(p.stylesheets) /\ IsSeq(p.images)

HasSeverities(rule) ==
    /\ rule.final \in Severities \cup {NoFinal}
    /\ \A u \in DOMAIN rule.severityAt : rule.severityAt[u] \in Severities

LEMMA PluginPageIs ==
    ASSUME NEW rule, NEW p, HasSeverities(rule) PROVE AreFindings(PluginPage(rule, p))
<1> DEFINE severity == IF p.url \in DOMAIN rule.severityAt THEN rule.severityAt[p.url] ELSE "Info"
<1>1. severity \in Severities
  BY DEF HasSeverities, Severities
<1>2. PluginPage(rule, p)
        = Found(p.url \in DOMAIN rule.severityAt, rule.id, "Plugin", severity, p.url)
  BY DEF PluginPage
<1> HIDE DEF severity
<1> QED
  BY <1>1, <1>2, FoundIs

LEMMA PerPageIs ==
    ASSUME NEW rule, NEW p, HasSeverities(rule), IsPage(p) PROVE AreFindings(PerPage(rule, p))
<1>1. AreFindings(Forms(p))
  BY FormsIs DEF IsPage
<1> QED
  BY <1>1, AccessibilityIs, AssetsOnPageIs, PageRulesAre, PluginPageIs, NoFindings DEF PerPage

\* What the optional checks have to say is a list each.
IsContext(c) == IsSeq(c.assetChecks) /\ AreExposed(c.exposedPathChecks.exposed)

LEMMA FinalIs ==
    ASSUME NEW rule, NEW s, NEW c, HasSeverities(rule), IsSeq(s), IsContext(c)
    PROVE  AreFindings(Final(rule, s, c))
<1>1. AreFindings(SeoFinal(s)) /\ AreFindings(AssetsFinal(c.assetChecks))
      /\ AreFindings(ExposedFinal(c.exposedPathChecks))
  BY SeoFinalIs, AssetsFinalIs, ExposedFinalIs DEF IsContext
<1>2. AreFindings(PluginFinal(rule))
  BY FoundIs, NoFindings DEF PluginFinal, HasSeverities
<1> QED
  BY <1>1, <1>2 DEF Final

LEMMA ArePluginsIs ==
    ASSUME NEW s
    PROVE  ArePlugins(s) <=> IsSeq(s) /\ \A r \in Range(s) : HasSeverities(r)
  BY Zenon DEF ArePlugins, Range, HasSeverities

LEMMA HavingIs ==
    ASSUME NEW rs, NEW hook, ArePlugins(rs) PROVE ArePlugins(Having(rs, hook))
<1>1. IsSeq(Having(rs, hook)) /\ Range(Having(rs, hook)) \subseteq Range(rs)
  <2>1. IsSeq(rs)
    BY ArePluginsIs
  <2> QED
    BY <2>1, WhereIs DEF Having
<1> QED
  BY <1>1, ArePluginsIs

LEMMA RunPerPageRulesIs ==
    ASSUME NEW p, NEW rs, IsPage(p), ArePlugins(rs) PROVE AreFindings(RunPerPageRules(p, rs))
<1> DEFINE able == Where(Having(rs, "runPerPage"), LAMBDA r : ~ Throws(r, p))
           e == [i \in DOMAIN able |-> PerPage(able[i], p)]
<1>1. ArePlugins(Having(rs, "runPerPage"))
  BY HavingIs
<1>2. IsSeq(able) /\ Range(able) \subseteq Range(Having(rs, "runPerPage"))
  BY <1>1, ArePluginsIs, WhereIs
<1>3. ArePlugins(able)
  BY <1>1, <1>2, ArePluginsIs
<1>4. RunPerPageRules(p, rs) = FlattenSeq(e)
  BY DEF RunPerPageRules
<1> HIDE DEF able
<1>5. \A i \in DOMAIN able : HasSeverities(able[i])
  BY <1>3 DEF ArePlugins, HasSeverities
<1>6. DOMAIN e = DOMAIN able /\ e = [i \in DOMAIN able |-> e[i]]
      /\ \A i \in DOMAIN able : AreFindings(e[i])
  BY <1>5, PerPageIs
<1> HIDE DEF e
<1> QED
  BY <1>2, <1>4, <1>6, FoundAtIs

LEMMA RunFinalRulesIs ==
    ASSUME NEW rs, NEW s, NEW c, ArePlugins(rs), IsSeq(s), IsContext(c)
    PROVE  AreFindings(RunFinalRules(rs, s, c))
<1> DEFINE able == Where(Having(rs, "runFinal"), LAMBDA r : ~ r.finalThrows)
           e == [i \in DOMAIN able |-> Final(able[i], s, c)]
<1>1. ArePlugins(Having(rs, "runFinal"))
  BY HavingIs
<1>2. IsSeq(able) /\ Range(able) \subseteq Range(Having(rs, "runFinal"))
  BY <1>1, ArePluginsIs, WhereIs
<1>3. IsSeq(able) /\ \A i \in DOMAIN able : HasSeverities(able[i])
  BY <1>1, <1>2, ArePluginsIs DEF ArePlugins, HasSeverities
<1>4. RunFinalRules(rs, s, c) = FlattenSeq(e)
  BY DEF RunFinalRules
<1> HIDE DEF able
<1>5. DOMAIN e = DOMAIN able /\ e = [i \in DOMAIN able |-> e[i]]
      /\ \A i \in DOMAIN able : AreFindings(e[i])
  BY <1>3, FinalIs
<1> HIDE DEF e
<1> QED
  BY <1>3, <1>4, <1>5, FoundAtIs

\* The optional checks make lists, of the answers and of the candidate paths.
LEMMA NoContextIs == IsContext(NoContext)
  BY EmptyIs DEF IsContext, NoContext, AreExposed

LEMMA CheckAssetsIs ==
    ASSUME NEW ps, NEW answers, IsSeq(ps), \A i \in DOMAIN ps : IsPage(ps[i])
    PROVE  IsSeq(CheckAssets(ps, answers))
<1> DEFINE Of(p) == Sources(p) \o p.stylesheets \o p.images
           e == [i \in DOMAIN ps |-> Of(ps[i])]
           Itself(u) == u
           urls == CollectAssetUrls(ps)
           c == [i \in DOMAIN urls |-> answers[urls[i]]]
<1>1. ASSUME NEW p, IsPage(p) PROVE IsSeq(Of(p))
  <2> DEFINE t == [i \in DOMAIN p.scripts |-> p.scripts[i].src]
             Named(src) == src # ""
  <2>1. IsSeq(p.scripts) /\ IsSeq(p.stylesheets) /\ IsSeq(p.images)
    BY <1>1 DEF IsPage
  <2>2. DOMAIN t = DOMAIN p.scripts /\ t = [i \in DOMAIN p.scripts |-> t[i]]
    OBVIOUS
  <2>3. Sources(p) = Where(t, Named)
    BY DEF Sources
  <2> HIDE DEF t
  <2>4. IsSeq(Sources(p))
    BY <2>1, <2>2, <2>3, MapIs, WhereIs
  <2> QED
    BY <2>1, <2>4, ConcatIs
<1>2. DOMAIN e = DOMAIN ps /\ e = [i \in DOMAIN ps |-> e[i]] /\ \A i \in DOMAIN ps : IsSeq(e[i])
  BY <1>1
<1>3. urls = Firsts(FlattenSeq(e), Itself)
  BY DEF CollectAssetUrls
<1>4. CheckAssets(ps, answers) = c /\ DOMAIN c = DOMAIN urls /\ c = [i \in DOMAIN urls |-> c[i]]
  BY DEF CheckAssets
<1> HIDE DEF Of, e, urls, c
<1>5. Len(ps) \in Nat /\ DOMAIN ps = 1..Len(ps)
  BY SeqIs
<1>6. IsSeq(FlattenSeq(e))
  BY <1>2, <1>5, FlattenIs
<1>7. IsSeq(urls)
  BY <1>3, <1>6, FirstsIs
<1> QED
  BY <1>4, <1>7, MapIs

LEMMA CheckExposedPathsIs ==
    ASSUME NEW probes, AreExposed(probes.candidates)
    PROVE  AreExposed(CheckExposedPaths(probes).exposed)
<1> DEFINE Real(c) == LooksLikeRealFile(c.result, probes.baseline, c.signed)
           s == Where(probes.candidates, Real)
<1>1. CheckExposedPaths(probes).exposed = s
  BY DEF CheckExposedPaths
<1>2. IsSeq(s) /\ Range(s) \subseteq Range(probes.candidates)
  BY WhereIs DEF AreExposed
<1> HIDE DEF s
<1>3. \A x \in Range(probes.candidates) : x.category \in Kinds
  BY Zenon DEF AreExposed, Range
<1>4. \A i \in DOMAIN s : s[i] \in Range(s)
  BY Zenon DEF Range
<1> QED
  BY <1>1, <1>2, <1>3, <1>4 DEF AreExposed

-------------------------------------------------------------------------------
(***************************************************************************)
(* Groups and their score.                                                 *)
(***************************************************************************)

\* The greatest of a set of numbers whose greatest is known.
LEMMA MaxIs ==
    ASSUME NEW s \in SUBSET Int, NEW m \in s, \A k \in s : k <= m
    PROVE  Max(s) = m
<1>1. \A k \in s : m >= k
  OBVIOUS
<1>2. \A x \in s : (\A y \in s : x >= y) => x = m
  OBVIOUS
<1> QED
  BY <1>1, <1>2 DEF Max

\* The sum of a list, and of its first k elements.
Sum(s) == FoldLeft(+, 0, s)
IsSum(acc, s) ==
    /\ acc[0] = 0
    /\ \A k \in 0..(Len(s) - 1) : acc[k + 1] = acc[k] + s[k + 1]
    /\ Sum(s) = acc[Len(s)]

LEMMA SumIs == ASSUME NEW s \in Seq(Nat) PROVE \E acc : IsSum(acc, s)
<1> DEFINE n == Len(s)
           Eq(m, f) == f = [d \in SUBSET (1..m) |->
                              IF d = {} THEN 0 ELSE f[d \ {Max(d)}] + s[Max(d)]]
<1>1. n \in Nat /\ DOMAIN s = 1..n
  OBVIOUS
<1>2. \E f : Eq(n, f)
  <2> DEFINE U == { m \in Nat : \E f : Eq(m, f) }
  <2>1. 0 \in U
    <3> DEFINE f == [d \in SUBSET (1..0) |-> 0]
    <3>0. 1..0 = {}
      OBVIOUS
    <3>1. \A d \in SUBSET (1..0) : d = {}
      BY <3>0, Zenon
    <3>2. f = [d \in SUBSET (1..0) |-> IF d = {} THEN 0 ELSE f[d \ {Max(d)}] + s[Max(d)]]
      BY <3>1, Zenon
    <3> HIDE DEF f
    <3> QED
      BY <3>2
  <2>2. ASSUME NEW m \in Nat, m \in U PROVE m + 1 \in U
    <3>1. PICK f : Eq(m, f)
      BY <2>2
    <3> DEFINE h == [d \in SUBSET (1..(m + 1)) |->
                       IF m + 1 \in d THEN f[d \ {m + 1}] + s[m + 1] ELSE f[d]]
    <3>2. ASSUME NEW d \in SUBSET (1..(m + 1))
          PROVE  h[d] = IF d = {} THEN 0 ELSE h[d \ {Max(d)}] + s[Max(d)]
      <4>1. CASE m + 1 \in d
        <5>1. Max(d) = m + 1
          <6>1. d \in SUBSET Int /\ \A k \in d : k <= m + 1
            OBVIOUS
          <6> QED
            BY <4>1, <6>1, MaxIs
        <5>2. /\ d \ {m + 1} \in SUBSET (1..(m + 1)) /\ m + 1 \notin d \ {m + 1}
              /\ d # {}
          BY <4>1
        <5>3. h[d \ {m + 1}] = f[d \ {m + 1}]
          BY <5>2, Zenon
        <5>4. h[d] = f[d \ {m + 1}] + s[m + 1]
          BY <4>1, Zenon
        <5> HIDE DEF h, Eq
        <5> QED
          BY <5>1, <5>2, <5>3, <5>4, Zenon
      <4>2. CASE m + 1 \notin d
        <5>1. d \in SUBSET (1..m)
          <6>1. \A k \in 1..(m + 1) : k # m + 1 => k \in 1..m
            OBVIOUS
          <6> QED
            BY <4>2, <6>1
        <5>2. d \ {Max(d)} \in SUBSET (1..(m + 1)) /\ m + 1 \notin d \ {Max(d)}
          BY <4>2
        <5>3. h[d] = f[d] /\ h[d \ {Max(d)}] = f[d \ {Max(d)}]
          BY <4>2, <5>2, Zenon
        <5>4. f[d] = IF d = {} THEN 0 ELSE f[d \ {Max(d)}] + s[Max(d)]
          BY <3>1, <5>1, Zenon
        <5> HIDE DEF h, Eq
        <5> QED
          BY <5>3, <5>4, Zenon
      <4> QED
        BY <4>1, <4>2
    <3>3. h = [d \in SUBSET (1..(m + 1)) |-> h[d]]
      OBVIOUS
    <3> HIDE DEF h
    <3>4. Eq(m + 1, h)
      BY <3>2, <3>3, Zenon
    <3> HIDE DEF Eq
    <3> QED
      BY <3>4
  <2> HIDE DEF U
  <2>3. n \in U
    BY <1>1, <2>1, <2>2, Induction
  <2> QED
    BY <2>3 DEF U
<1>3. PICK g : /\ g = [d \in SUBSET DOMAIN s |->
                         IF d = {} THEN 0 ELSE g[d \ {Max(d)}] + s[Max(d)]]
               /\ Sum(s) = g[DOMAIN s]
  <2>1. PICK f : f = [d \in SUBSET DOMAIN s |->
                         IF d = {} THEN 0 ELSE f[d \ {Max(d)}] + s[Max(d)]]
    BY <1>1, <1>2
  <2> QED
    BY <2>1, Zenon DEF Sum, FoldLeft, MapThenFoldSet
<1> DEFINE acc == [k \in 0..n |-> g[1..k]]
<1>4. acc[0] = 0
  <2>1. 1..0 = {} /\ 0 \in 0..n
    BY <1>1
  <2>2. {} \in SUBSET DOMAIN s
    OBVIOUS
  <2>3. g[{}] = 0
    BY <1>3, <2>2, Zenon
  <2> QED
    BY <2>1, <2>3
<1>5. ASSUME NEW k \in 0..(n - 1) PROVE acc[k + 1] = acc[k] + s[k + 1]
  <2>1. k \in 0..n /\ k + 1 \in 0..n /\ 1..(k + 1) \in SUBSET DOMAIN s /\ 1..(k + 1) # {}
    <3>1. k \in 0..n /\ k + 1 \in 0..n /\ k + 1 \in 1..(k + 1)
      BY <1>1
    <3>2. \A i \in 1..(k + 1) : i \in 1..n
      BY <1>1
    <3> QED
      BY <1>1, <3>1, <3>2, Zenon
  <2>2. Max(1..(k + 1)) = k + 1
    <3>1. 1..(k + 1) \in SUBSET Int /\ k + 1 \in 1..(k + 1) /\ \A j \in 1..(k + 1) : j <= k + 1
      BY <2>1, <1>1
    <3> QED
      BY <3>1, MaxIs
  <2>3. (1..(k + 1)) \ {k + 1} = 1..k
    BY <2>1, <1>1
  <2>4. g[1..(k + 1)] = g[(1..(k + 1)) \ {Max(1..(k + 1))}] + s[Max(1..(k + 1))]
    BY <1>3, <2>1, Zenon
  <2>5. acc[k + 1] = g[1..(k + 1)] /\ acc[k] = g[1..k]
    BY <2>1
  <2> HIDE DEF acc
  <2> QED
    BY <2>2, <2>3, <2>4, <2>5, Zenon
<1>6. acc[n] = g[DOMAIN s]
  BY <1>1
<1> HIDE DEF acc
<1> QED
  BY <1>3, <1>4, <1>5, <1>6 DEF IsSum

LEMMA AddUp == \A x, y, u, v \in Nat : x <= y /\ u <= v => x + u \in Nat /\ x + u <= y + v
  OBVIOUS

\* A longer list of numbers, none of which is smaller, has no smaller sum.
LEMMA SumGrows ==
    ASSUME NEW s \in Seq(Nat), NEW t \in Seq(Nat), Len(s) <= Len(t),
           \A i \in DOMAIN s : s[i] <= t[i]
    PROVE  Sum(s) \in Nat /\ Sum(s) <= Sum(t)
<1>1. PICK a : IsSum(a, s)
  BY SumIs
<1>2. PICK b : IsSum(b, t)
  BY SumIs
<1> DEFINE m == Len(s)
           n == Len(t)
           U == { k \in Nat : k <= m => a[k] \in Nat /\ a[k] <= b[k] /\ b[k] \in Nat}
           V == { k \in Nat : m + k <= n => b[m + k] \in Nat /\ a[m] <= b[m + k] }
<1>3. m \in Nat /\ n \in Nat /\ m <= n /\ DOMAIN s = 1..m /\ DOMAIN t = 1..n
  OBVIOUS
<1>4. \A k \in Nat : k + 1 <= m => a[k + 1] = a[k] + s[k + 1]
  BY <1>1, <1>3 DEF IsSum
<1>5. \A k \in Nat : k + 1 <= n => b[k + 1] = b[k] + t[k + 1]
  BY <1>2, <1>3 DEF IsSum
<1>6. a[0] = 0 /\ b[0] = 0 /\ Sum(s) = a[m] /\ Sum(t) = b[n]
  BY <1>1, <1>2 DEF IsSum
<1>7. \A i \in 1..m : s[i] \in Nat /\ s[i] <= t[i]
  OBVIOUS
<1>8. \A i \in 1..n : t[i] \in Nat
  OBVIOUS
<1> HIDE DEF m, n
<1>9. Nat \subseteq U
  <2>1. 0 \in U
    BY <1>6
  <2>2. ASSUME NEW k \in Nat, k \in U PROVE k + 1 \in U
    <3> SUFFICES ASSUME k + 1 <= m
                 PROVE  a[k + 1] \in Nat /\ a[k + 1] <= b[k + 1] /\ b[k + 1] \in Nat
      OBVIOUS
    <3>1. k + 1 \in 1..m /\ k + 1 \in 1..n /\ k <= m
      BY <1>3
    <3>2. a[k + 1] = a[k] + s[k + 1] /\ b[k + 1] = b[k] + t[k + 1]
      BY <1>3, <1>4, <1>5, <3>1
    <3>3. a[k] \in Nat /\ a[k] <= b[k] /\ b[k] \in Nat
      BY <2>2, <3>1
    <3>4. s[k + 1] \in Nat /\ s[k + 1] <= t[k + 1] /\ t[k + 1] \in Nat
      BY <1>7, <1>8, <3>1
    <3>5. a[k] + s[k + 1] \in Nat /\ a[k] + s[k + 1] <= b[k] + t[k + 1]
      BY <3>3, <3>4, AddUp, Zenon
    <3>6. b[k] + t[k + 1] \in Nat
      BY <3>3, <3>4, AddUp
    <3> QED
      BY <3>2, <3>5, <3>6, Zenon
  <2> HIDE DEF U
  <2> QED
    BY <2>1, <2>2, Induction
<1>10. a[m] \in Nat /\ a[m] <= b[m] /\ b[m] \in Nat
  BY <1>3, <1>9
<1>11. Nat \subseteq V
  <2>1. 0 \in V
    BY <1>3, <1>10
  <2>2. ASSUME NEW k \in Nat, k \in V PROVE k + 1 \in V
    <3> SUFFICES ASSUME m + (k + 1) <= n
                 PROVE  b[m + (k + 1)] \in Nat /\ a[m] <= b[m + (k + 1)]
      OBVIOUS
    <3>1. m + k \in Nat /\ m + (k + 1) = (m + k) + 1 /\ (m + k) + 1 \in 1..n /\ m + k <= n
      BY <1>3
    <3>2. b[(m + k) + 1] = b[m + k] + t[(m + k) + 1]
      BY <1>3, <1>5, <3>1
    <3>3. b[m + k] \in Nat /\ a[m] <= b[m + k]
      BY <2>2, <3>1
    <3>4. t[(m + k) + 1] \in Nat
      BY <1>8, <3>1
    <3>5. \A x, y, z \in Nat : x <= y => x <= y + z /\ y + z \in Nat
      OBVIOUS
    <3>6. b[m + k] + t[(m + k) + 1] \in Nat /\ a[m] <= b[m + k] + t[(m + k) + 1]
      BY <1>10, <3>3, <3>4, <3>5, Zenon
    <3> QED
      BY <3>1, <3>2, <3>6, Zenon
  <2> HIDE DEF V
  <2> QED
    BY <2>1, <2>2, Induction
<1>12. n - m \in Nat /\ m + (n - m) = n
  BY <1>3
<1>13. a[m] <= b[n]
  <2>1. n - m \in V
    BY <1>11, <1>12
  <2>2. a[m] <= b[m + (n - m)]
    BY <1>3, <1>12, <2>1
  <2> QED
    BY <1>12, <2>2, Zenon
<1> QED
  BY <1>6, <1>10, <1>13

\* The first finding of each id.
IdOf(f) == f.id
FirstOfEach(fs) == Firsts(fs, IdOf)

\* With a finding more, the first ones of each id are the same, but for the
\* new one if its id is new.
LEMMA FirstsAppend ==
    ASSUME NEW T, NEW s \in Seq(T), NEW x \in T
    PROVE  FirstOfEach(Append(s, x)) = IF \E j \in DOMAIN s : s[j].id = x.id
                                       THEN FirstOfEach(s) ELSE Append(FirstOfEach(s), x)
<1> DEFINE n == Len(s)
           t == Append(s, x)
           d == [i \in DOMAIN s |-> IF \E j \in 1..(i - 1) : s[j].id = s[i].id
                                    THEN <<>> ELSE <<s[i]>>]
           e == [i \in DOMAIN t |-> IF \E j \in 1..(i - 1) : t[j].id = t[i].id
                                    THEN <<>> ELSE <<t[i]>>]
           new == IF \E j \in DOMAIN s : s[j].id = x.id THEN <<>> ELSE <<x>>
<1>1. /\ n \in Nat /\ DOMAIN s = 1..n /\ DOMAIN t = 1..(n + 1)
      /\ \A i \in 1..n : t[i] = s[i] /\ s[i] \in T
      /\ t[n + 1] = x
  BY AppendIs
<1>2. FirstOfEach(s) = FlattenSeq(d) /\ FirstOfEach(t) = FlattenSeq(e)
  BY DEF FirstOfEach, Firsts, IdOf
<1> HIDE DEF t
<1>3. \A y \in T : <<y>> \in Seq(T) /\ <<>> \in Seq(T)
  OBVIOUS
<1>4. d \in Seq(Seq(T)) /\ Len(d) = n /\ new \in Seq(T)
  <2>1. \A i \in 1..n : d[i] \in Seq(T)
    BY <1>1, <1>3
  <2>2. DOMAIN d = 1..n /\ d = [i \in 1..n |-> d[i]]
    BY <1>1
  <2>3. new \in Seq(T)
    BY <1>3
  <2> HIDE DEF d, new
  <2> QED
    BY <1>1, <2>1, <2>2, <2>3, ListOfLists, ListIs
<1>5. \A i \in 1..n : e[i] = d[i]
  <2> SUFFICES ASSUME NEW i \in 1..n PROVE e[i] = d[i]
    OBVIOUS
  <2>1. \A j \in 1..(i - 1) : t[j] = s[j]
    BY <1>1
  <2>2. t[i] = s[i] /\ i \in DOMAIN t
    BY <1>1
  <2> QED
    BY <1>1, <2>1, <2>2, Zenon
<1>6. e[n + 1] = new
  <2>1. n + 1 \in DOMAIN t /\ (n + 1) - 1 = n
    BY <1>1
  <2>2. \A j \in 1..n : t[j] = s[j]
    BY <1>1
  <2> QED
    BY <1>1, <2>1, <2>2, Zenon
<1>7. DOMAIN e = 1..(n + 1)
  BY <1>1
<1>8. e = [i \in 1..(n + 1) |-> e[i]]
  BY <1>1
<1> HIDE DEF d, e, new
<1>9. e = Append(d, new)
  <2>1. \A i \in 1..(n + 1) : e[i] \in Seq(T)
    <3>1. \A i \in 1..n : d[i] \in Seq(T)
      BY <1>1, <1>4
    <3>2. \A i \in 1..(n + 1) : i \in 1..n \/ i = n + 1
      BY <1>1
    <3> QED
      BY <1>4, <1>5, <1>6, <3>1, <3>2
  <2>2. e \in Seq(Seq(T)) /\ Len(e) = n + 1
    <3>1. n + 1 \in Nat
      BY <1>1
    <3> QED
      BY <1>7, <1>8, <2>1, <3>1, ListOfLists, ListIs
  <2>3. /\ Append(d, new) \in Seq(Seq(T)) /\ Len(Append(d, new)) = n + 1
        /\ \A i \in 1..n : Append(d, new)[i] = d[i]
        /\ Append(d, new)[n + 1] = new
    <3>1. DOMAIN d = 1..n
      BY <1>4
    <3> QED
      BY <1>4, <3>1, AppendIs
  <2>4. \A i \in 1..(n + 1) : e[i] = Append(d, new)[i]
    <3>1. \A i \in 1..(n + 1) : i \in 1..n \/ i = n + 1
      BY <1>1
    <3> QED
      BY <1>5, <1>6, <2>3, <3>1
  <2> QED
    BY <2>2, <2>3, <2>4, SeqEqual
<1>10. FirstOfEach(t) = FirstOfEach(s) \o new /\ FirstOfEach(s) \in Seq(T)
  BY <1>2, <1>4, <1>9, FlattenAppend, Flattened
<1>11. CASE \E j \in DOMAIN s : s[j].id = x.id
  <2>1. FirstOfEach(s) \o <<>> = FirstOfEach(s)
    BY <1>10
  <2> QED
    BY <1>10, <1>11, <2>1 DEF new, t
<1>12. CASE ~ \E j \in DOMAIN s : s[j].id = x.id
  <2>1. FirstOfEach(s) \o <<x>> = Append(FirstOfEach(s), x)
    BY <1>10
  <2> QED
    BY <1>10, <1>12, <2>1 DEF new, t
<1> QED
  BY <1>11, <1>12

\* The findings with the id of one, and the group that is made of them.
Like(fs, f) == { i \in DOMAIN fs : fs[i].id = f.id }
GroupOf(fs, f) == [id |-> f.id, category |-> f.category, severity |-> f.severity,
                   occurrenceCount |-> Cardinality(Like(fs, f)),
                   affectedPages |-> { fs[i].page : i \in Like(fs, f) }]

\* The groups are those of the first findings.
LEMMA GroupsAre ==
    ASSUME NEW T, NEW fs \in Seq(T)
    PROVE  /\ FirstOfEach(fs) \in Seq(T) /\ Range(FirstOfEach(fs)) \subseteq Range(fs)
           /\ DOMAIN AggregateFindings(fs) = DOMAIN FirstOfEach(fs)
           /\ IsSeq(AggregateFindings(fs)) /\ Len(AggregateFindings(fs)) = Len(FirstOfEach(fs))
           /\ \A i \in DOMAIN FirstOfEach(fs) :
                 AggregateFindings(fs)[i] = GroupOf(fs, FirstOfEach(fs)[i])
<1> DEFINE firsts == FirstOfEach(fs)
           e == [i \in DOMAIN firsts |-> GroupOf(fs, firsts[i])]
<1>1. AggregateFindings(fs) = e
  BY DEF AggregateFindings, FirstOfEach, IdOf, GroupOf, Like
<1>2. IsSeq(fs) /\ Range(fs) \subseteq T
  BY IsSeqOf, RangeOfSeq
<1>3. IsSeq(firsts) /\ Range(firsts) \subseteq Range(fs)
  BY <1>2, FirstsIs DEF FirstOfEach
<1> HIDE DEF firsts
<1>4. DOMAIN e = DOMAIN firsts /\ e = [i \in DOMAIN firsts |-> e[i]]
      /\ \A i \in DOMAIN firsts : e[i] = GroupOf(fs, firsts[i])
  OBVIOUS
<1> HIDE DEF e
<1>5. IsSeq(e) /\ Len(e) = Len(firsts)
  BY <1>3, <1>4, MapIs
<1>6. firsts \in Seq(T)
  BY <1>2, <1>3, SeqIs
<1> QED
  BY <1>1, <1>3, <1>4, <1>5, <1>6 DEF firsts

\* How often a finding occurs: once at least, and no less often among more.
LEMMA LikeIs ==
    ASSUME NEW T, NEW fs \in Seq(T), NEW f \in Range(fs)
    PROVE  Cardinality(Like(fs, f)) \in Nat \ {0}
<1>1. DOMAIN fs = 1..Len(fs) /\ Len(fs) \in Nat
  OBVIOUS
<1>2. Like(fs, f) \subseteq 1..Len(fs) /\ IsFiniteSet(1..Len(fs))
  BY <1>1, FS_Interval DEF Like
<1>3. IsFiniteSet(Like(fs, f)) /\ Cardinality(Like(fs, f)) \in Nat
  BY <1>2, FS_Subset, FS_CardinalityType
<1>4. PICK i \in DOMAIN fs : fs[i] = f
  BY Zenon DEF Range
<1>5. Like(fs, f) # {}
  BY <1>4, Zenon DEF Like
<1>6. Cardinality(Like(fs, f)) # 0
  BY <1>3, <1>5, FS_EmptySet
<1> QED
  BY <1>3, <1>6

LEMMA LikeGrows ==
    ASSUME NEW T, NEW fs \in Seq(T), NEW x \in T, NEW f \in Range(fs)
    PROVE  Cardinality(Like(fs, f)) <= Cardinality(Like(Append(fs, x), f))
<1> DEFINE gs == Append(fs, x)
<1>1. /\ gs \in Seq(T) /\ DOMAIN gs = 1..(Len(fs) + 1) /\ Len(fs) + 1 \in Nat
      /\ DOMAIN fs \subseteq DOMAIN gs /\ \A i \in DOMAIN fs : gs[i] = fs[i]
  BY AppendIs
<1> HIDE DEF gs
<1>2. Like(fs, f) \subseteq Like(gs, f)
  BY <1>1 DEF Like
<1>3. Like(gs, f) \subseteq 1..(Len(fs) + 1)
  BY <1>1 DEF Like
<1>4. IsFiniteSet(Like(gs, f))
  <2>1. \A n \in Nat : IsFiniteSet(1..n)
    BY FS_Interval
  <2> QED
    BY <1>1, <1>3, <2>1, FS_Subset
<1> QED
  BY <1>2, <1>4, FS_Subset DEF gs

\* What a group takes off the score.
CostOf(g) == Weight(g.severity) * (10 + Min({g.occurrenceCount - 1, BreadthCap}))
CostsOf(gs) == [i \in DOMAIN gs |-> CostOf(gs[i])]

LEMMA MinIs == \A a, b \in Int : Min({a, b}) = IF a <= b THEN a ELSE b
<1> SUFFICES ASSUME NEW a \in Int, NEW b \in Int
             PROVE  Min({a, b}) = IF a <= b THEN a ELSE b
  OBVIOUS
<1> DEFINE m == IF a <= b THEN a ELSE b
<1>1. m \in {a, b} /\ \A y \in {a, b} : m <= y
  OBVIOUS
<1>2. \A x \in {a, b} : (\A y \in {a, b} : x <= y) => x = m
  OBVIOUS
<1> HIDE DEF m
<1> QED
  BY <1>1, <1>2 DEF Min, m

LEMMA MaxZero == ASSUME NEW b \in Int PROVE Max({0, b}) = IF b >= 0 THEN b ELSE 0
<1> DEFINE m == IF b >= 0 THEN b ELSE 0
<1>1. m \in {0, b} /\ \A y \in {0, b} : m >= y
  OBVIOUS
<1>2. \A x \in {0, b} : (\A y \in {0, b} : x >= y) => x = m
  OBVIOUS
<1> HIDE DEF m
<1> QED
  BY <1>1, <1>2 DEF Max, m

LEMMA CostGrows ==
    ASSUME NEW g, NEW h, g.severity = h.severity,
           g.occurrenceCount \in Nat \ {0}, h.occurrenceCount \in Nat \ {0},
           g.occurrenceCount <= h.occurrenceCount
    PROVE  CostOf(g) \in Nat /\ CostOf(h) \in Nat /\ CostOf(g) <= CostOf(h)
<1> DEFINE a == Min({g.occurrenceCount - 1, BreadthCap})
           b == Min({h.occurrenceCount - 1, BreadthCap})
           w == Weight(g.severity)
<1>1. a \in 0..20 /\ b \in 0..20 /\ a <= b
  <2>1. g.occurrenceCount - 1 \in Nat /\ h.occurrenceCount - 1 \in Nat
    OBVIOUS
  <2>2. a = IF g.occurrenceCount - 1 <= 20 THEN g.occurrenceCount - 1 ELSE 20
    BY <2>1, MinIs DEF BreadthCap
  <2>3. b = IF h.occurrenceCount - 1 <= 20 THEN h.occurrenceCount - 1 ELSE 20
    BY <2>1, MinIs DEF BreadthCap
  <2> HIDE DEF a, b
  <2> QED
    BY <2>1, <2>2, <2>3
<1>2. w \in {20, 10, 5, 2, 0}
  BY DEF Weight
<1>3. CostOf(g) = w * (10 + a) /\ CostOf(h) = w * (10 + b)
  BY DEF CostOf
<1> HIDE DEF a, b, w
<1> QED
  BY <1>1, <1>2, <1>3

\* What the groups cost, and the score that is left.
LEMMA CostsAre ==
    ASSUME NEW T, NEW fs \in Seq(T)
    PROVE  /\ CostsOf(AggregateFindings(fs)) \in Seq(Nat)
           /\ DOMAIN CostsOf(AggregateFindings(fs)) = DOMAIN FirstOfEach(fs)
           /\ Len(CostsOf(AggregateFindings(fs))) = Len(FirstOfEach(fs))
           /\ \A i \in DOMAIN FirstOfEach(fs) :
                 /\ FirstOfEach(fs)[i] \in Range(fs)
                 /\ CostsOf(AggregateFindings(fs))[i] = CostOf(GroupOf(fs, FirstOfEach(fs)[i]))
<1> DEFINE firsts == FirstOfEach(fs)
           gs == AggregateFindings(fs)
           c == CostsOf(gs)
<1>1. /\ firsts \in Seq(T) /\ Range(firsts) \subseteq Range(fs)
      /\ DOMAIN gs = DOMAIN firsts /\ IsSeq(gs) /\ Len(gs) = Len(firsts)
      /\ \A i \in DOMAIN firsts : gs[i] = GroupOf(fs, firsts[i])
  BY GroupsAre
<1> HIDE DEF firsts, gs
<1>2. \A i \in DOMAIN firsts : firsts[i] \in Range(fs)
  BY <1>1, Zenon DEF Range
<1>3. \A i \in DOMAIN firsts : CostOf(GroupOf(fs, firsts[i])) \in Nat
  <2> SUFFICES ASSUME NEW i \in DOMAIN firsts PROVE CostOf(GroupOf(fs, firsts[i])) \in Nat
    OBVIOUS
  <2> DEFINE g == GroupOf(fs, firsts[i])
  <2>1. g.occurrenceCount \in Nat \ {0}
    BY <1>2, LikeIs DEF GroupOf
  <2> HIDE DEF g
  <2>2. CostOf(g) \in Nat
    BY <2>1, CostGrows
  <2> QED
    BY <2>2 DEF g
<1>4. /\ DOMAIN c = DOMAIN gs /\ c = [i \in DOMAIN gs |-> c[i]]
      /\ \A i \in DOMAIN gs : c[i] = CostOf(gs[i])
  BY DEF CostsOf
<1> HIDE DEF c
<1>5. IsSeq(c) /\ Len(c) = Len(gs)
  BY <1>1, <1>4, MapIs
<1>6. \A i \in DOMAIN c : c[i] \in Nat
  BY <1>1, <1>3, <1>4
<1>7. c \in Seq(Nat)
  <2>1. Range(c) \subseteq Nat
    BY <1>6 DEF Range
  <2> QED
    BY <1>5, <2>1, SeqIs
<1> QED
  BY <1>1, <1>2, <1>4, <1>5, <1>7 DEF c, gs, firsts

LEMMA TenthsIs ==
    ASSUME NEW T, NEW fs \in Seq(T)
    PROVE  /\ Sum(CostsOf(AggregateFindings(fs))) \in Nat
           /\ Tenths(fs) \in 0..1000
           /\ Tenths(fs) = IF Sum(CostsOf(AggregateFindings(fs))) <= 1000
                           THEN 1000 - Sum(CostsOf(AggregateFindings(fs))) ELSE 0
<1> DEFINE c == CostsOf(AggregateFindings(fs))
<1>1. c \in Seq(Nat)
  BY CostsAre
<1>2. Tenths(fs) = Max({0, 1000 - Sum(c)})
  BY DEF Tenths, CostsOf, CostOf, Sum
<1> HIDE DEF c
<1>3. Sum(c) \in Nat
  <2>1. Len(c) <= Len(c) /\ \A i \in DOMAIN c : c[i] <= c[i]
    BY <1>1
  <2> QED
    BY <1>1, <2>1, SumGrows
<1> DEFINE k == Sum(c)
           m == 1000 - k
<1> HIDE DEF k
<1>4. m \in Int /\ k \in Nat
  BY <1>3 DEF k
<1> HIDE DEF m
<1>5. Max({0, m}) = IF m >= 0 THEN m ELSE 0
  BY <1>4, MaxZero
<1>6. Tenths(fs) = Max({0, m})
  BY <1>2 DEF m, k
<1>7. /\ Tenths(fs) = (IF k <= 1000 THEN 1000 - k ELSE 0)
      /\ Tenths(fs) \in 0..1000
  <2>1. Tenths(fs) = IF m >= 0 THEN m ELSE 0
    BY <1>5, <1>6
  <2>2. m = 1000 - k
    BY DEF m
  <2> QED
    BY <1>4, <2>1, <2>2
<1> QED
  BY <1>3, <1>7, ZenonT(60) DEF c, k

LEMMA TenthsType ==
    ASSUME NEW fs, IsSeq(fs) PROVE Tenths(fs) \in 0..1000 /\ Tenths(fs) \in Int
<1> DEFINE T == Range(fs)
<1>1. fs \in Seq(T)
  BY DEF IsSeq
<1> HIDE DEF T
<1>2. Tenths(fs) \in 0..1000
  BY <1>1, TenthsIs, ZenonT(60)
<1> QED
  BY <1>2

\* A finding more takes something off the score, or nothing.
LEMMA TenthsAppend ==
    ASSUME NEW T, NEW fs \in Seq(T), NEW x \in T
    PROVE  Tenths(Append(fs, x)) <= Tenths(fs)
<1> DEFINE gs == Append(fs, x)
           a == FirstOfEach(fs)
           b == FirstOfEach(gs)
           c == CostsOf(AggregateFindings(fs))
           d == CostsOf(AggregateFindings(gs))
<1>1. gs \in Seq(T)
  OBVIOUS
<1>2. a \in Seq(T) /\ (b = a \/ b = Append(a, x))
  <2>1. a \in Seq(T)
    BY GroupsAre
  <2>2. b = IF \E j \in DOMAIN fs : fs[j].id = x.id THEN a ELSE Append(a, x)
    BY FirstsAppend
  <2> QED
    BY <2>1, <2>2
<1>3. /\ c \in Seq(Nat) /\ DOMAIN c = DOMAIN a /\ Len(c) = Len(a)
      /\ \A i \in DOMAIN a : a[i] \in Range(fs) /\ c[i] = CostOf(GroupOf(fs, a[i]))
  BY CostsAre
<1>4. /\ d \in Seq(Nat) /\ DOMAIN d = DOMAIN b /\ Len(d) = Len(b)
      /\ \A i \in DOMAIN b : b[i] \in Range(gs) /\ d[i] = CostOf(GroupOf(gs, b[i]))
  BY <1>1, CostsAre
<1>5. Range(fs) \subseteq Range(gs)
  BY AppendIs
<1>6. \A f \in Range(fs) : /\ Cardinality(Like(fs, f)) \in Nat \ {0}
                           /\ Cardinality(Like(gs, f)) \in Nat \ {0}
                           /\ Cardinality(Like(fs, f)) <= Cardinality(Like(gs, f))
  BY <1>1, <1>5, LikeIs, LikeGrows
<1> HIDE DEF a, b, c, d, gs
<1>7. \A f \in Range(fs) : CostOf(GroupOf(fs, f)) <= CostOf(GroupOf(gs, f))
  <2> SUFFICES ASSUME NEW f \in Range(fs) PROVE CostOf(GroupOf(fs, f)) <= CostOf(GroupOf(gs, f))
    OBVIOUS
  <2> DEFINE g == GroupOf(fs, f)
             h == GroupOf(gs, f)
  <2>1. /\ g.severity = h.severity
        /\ g.occurrenceCount = Cardinality(Like(fs, f))
        /\ h.occurrenceCount = Cardinality(Like(gs, f))
    BY DEF GroupOf
  <2> HIDE DEF g, h
  <2>2. CostOf(g) <= CostOf(h)
    BY <1>6, <2>1, CostGrows
  <2> QED
    BY <2>2 DEF g, h
<1>8. Len(a) <= Len(b) /\ \A i \in DOMAIN a : i \in DOMAIN b /\ b[i] = a[i]
  <2>1. CASE b = a
    BY <1>2, <2>1
  <2>2. CASE b = Append(a, x)
    BY <1>2, <2>2, AppendIs
  <2> QED
    BY <1>2, <2>1, <2>2
<1>9. Len(c) <= Len(d) /\ \A i \in DOMAIN c : c[i] <= d[i]
  BY <1>3, <1>4, <1>7, <1>8
<1>10. Sum(c) \in Nat /\ Sum(d) \in Nat /\ Sum(c) <= Sum(d)
  <2>1. Sum(c) \in Nat /\ Sum(c) <= Sum(d)
    BY <1>3, <1>4, <1>9, SumGrows
  <2>2. Sum(d) \in Nat
    BY <1>1, TenthsIs DEF d
  <2> QED
    BY <2>1, <2>2
<1>11. /\ Tenths(fs) = IF Sum(c) <= 1000 THEN 1000 - Sum(c) ELSE 0
       /\ Tenths(gs) = IF Sum(d) <= 1000 THEN 1000 - Sum(d) ELSE 0
  BY <1>1, TenthsIs DEF c, d
<1>12. \A m, n \in Nat : m <= n => (IF n <= 1000 THEN 1000 - n ELSE 0)
                                        <= (IF m <= 1000 THEN 1000 - m ELSE 0)
  OBVIOUS
<1>13. Tenths(gs) <= Tenths(fs)
  BY <1>10, <1>11, <1>12
<1> QED
  BY <1>13, Zenon DEF gs

LEMMA TenthsFall ==
    ASSUME NEW fs, NEW more, IsSeq(fs), IsSeq(more)
    PROVE  Tenths(fs \o more) <= Tenths(fs)
<1> DEFINE T == Range(fs) \cup Range(more)
<1>1. fs \in Seq(T) /\ more \in Seq(T)
  BY SeqIs
<1> HIDE DEF T
<1> DEFINE S == { m \in Seq(T) : Tenths(fs \o m) <= Tenths(fs) }
<1>2. <<>> \in S
  <2>1. fs \o <<>> = fs /\ <<>> \in Seq(T)
    BY <1>1
  <2>2. Tenths(fs) \in 0..1000
    BY <1>1, TenthsIs, ZenonT(60)
  <2>3. Tenths(fs) <= Tenths(fs)
    BY <2>2
  <2> QED
    BY <2>1, <2>3, Zenon
<1>3. ASSUME NEW m \in Seq(T), NEW x \in T, m \in S PROVE Append(m, x) \in S
  <2>1. fs \o Append(m, x) = Append(fs \o m, x) /\ fs \o m \in Seq(T) /\ Append(m, x) \in Seq(T)
    BY <1>1
  <2>2. Tenths(Append(fs \o m, x)) <= Tenths(fs \o m) /\ Tenths(fs \o m) <= Tenths(fs)
    BY <1>3, <2>1, TenthsAppend
  <2>3. Tenths(fs) \in Int /\ Tenths(fs \o m) \in Int /\ Tenths(Append(fs \o m, x)) \in Int
    <3>1. Append(fs \o m, x) \in Seq(T)
      BY <2>1
    <3>2. \A q \in Seq(T) : IsSeq(q)
      BY IsSeqOf
    <3>3. IsSeq(fs) /\ IsSeq(fs \o m) /\ IsSeq(Append(fs \o m, x))
      BY <1>1, <2>1, <3>1, <3>2
    <3> QED
      BY <3>3, TenthsType
  <2>4. \A i, j, k \in Int : i <= j /\ j <= k => i <= k
    OBVIOUS
  <2>5. Tenths(Append(fs \o m, x)) <= Tenths(fs)
    BY <2>2, <2>3, <2>4, Zenon
  <2> QED
    BY <2>1, <2>5
<1> HIDE DEF S
<1>4. Seq(T) \subseteq S
  BY <1>2, <1>3, SeqInduction
<1> QED
  BY <1>1, <1>4 DEF S

\* What calculateScore makes of the findings.
LEMMA ScoreIs ==
    ASSUME NEW fs, IsSeq(fs), NEW sc \in CalculateScore(fs)
    PROVE  /\ sc.score \in 0..100 /\ sc.grade \in {"A", "B", "C", "D", "F"}
           /\ sc.severity = CountBySeverity(fs)
<1>1. PICK n \in Rounded(Tenths(fs)) :
          sc = [score |-> n, grade |-> ScoreToGrade(n), severity |-> CountBySeverity(fs)]
  BY DEF CalculateScore
<1>2. Tenths(fs) \in 0..1000
  BY TenthsType
<1>3. \A t \in 0..1000 : Rounded(t) \subseteq 0..100
  <2> SUFFICES ASSUME NEW t \in 0..1000 PROVE Rounded(t) \subseteq 0..100
    BY ZenonT(60)
  <2>1. CASE t % 10 = 5
    <3>1. t \div 10 \in 0..99
      BY <2>1
    <3> QED
      BY <2>1, <3>1 DEF Rounded
  <2>2. CASE t % 10 # 5
    <3>1. (t + 5) \div 10 \in 0..100
      OBVIOUS
    <3> QED
      BY <2>2, <3>1 DEF Rounded
  <2> QED
    BY <2>1, <2>2
<1>4. n \in 0..100
  BY <1>2, <1>3, ZenonT(60)
<1>5. ScoreToGrade(n) \in {"A", "B", "C", "D", "F"}
  BY DEF ScoreToGrade
<1>6. sc.score = n /\ sc.grade = ScoreToGrade(n) /\ sc.severity = CountBySeverity(fs)
  BY <1>1
<1> QED
  BY <1>4, <1>5, <1>6

\* A group has the severity of one of the findings.
LEMMA GroupsHave ==
    ASSUME NEW fs, AreFindings(fs)
    PROVE  /\ IsSeq(AggregateFindings(fs))
           /\ \A i \in DOMAIN AggregateFindings(fs) :
                 /\ AggregateFindings(fs)[i].severity \in Severities
                 /\ \E j \in DOMAIN fs : fs[j].severity = AggregateFindings(fs)[i].severity
<1> DEFINE T == Range(fs)
           firsts == FirstOfEach(fs)
           gs == AggregateFindings(fs)
<1>1. fs \in Seq(T)
  BY DEF AreFindings, IsSeq
<1> HIDE DEF T
<1>2. /\ Range(firsts) \subseteq Range(fs) /\ DOMAIN gs = DOMAIN firsts /\ IsSeq(gs)
      /\ \A i \in DOMAIN firsts : gs[i] = GroupOf(fs, firsts[i])
  BY <1>1, GroupsAre
<1> HIDE DEF firsts, gs
<1>3. \A i \in DOMAIN firsts : \E j \in DOMAIN fs : firsts[i] = fs[j]
  BY <1>2, Zenon DEF Range
<1>4. \A j \in DOMAIN fs : fs[j].severity \in Severities
  BY DEF AreFindings, IsFinding
<1>5. ASSUME NEW i \in DOMAIN gs
      PROVE  /\ gs[i].severity \in Severities
             /\ \E j \in DOMAIN fs : fs[j].severity = gs[i].severity
  <2>1. PICK j \in DOMAIN fs : firsts[i] = fs[j]
    BY <1>2, <1>3
  <2>2. gs[i].severity = fs[j].severity
    BY <1>2, <2>1 DEF GroupOf
  <2> QED
    BY <1>4, <2>2
<1> QED
  BY <1>2, <1>5 DEF gs

\* No group is counted exactly if none has the severity.
LEMMA CountIs ==
    ASSUME NEW fs, AreFindings(fs), NEW s \in Counted
    PROVE  CountBySeverity(fs)[s] = 0
             <=> \A i \in DOMAIN AggregateFindings(fs) : AggregateFindings(fs)[i].severity # s
<1> DEFINE gs == AggregateFindings(fs)
           with == { i \in DOMAIN gs : gs[i].severity = s }
<1>1. CountBySeverity(fs)[s] = Cardinality(with)
  BY DEF CountBySeverity
<1>2. IsSeq(gs)
  BY GroupsHave
<1> HIDE DEF gs
<1>3. Len(gs) \in Nat /\ DOMAIN gs = 1..Len(gs)
  BY <1>2, SeqIs
<1>4. IsFiniteSet(with)
  <2>1. with \subseteq 1..Len(gs) /\ IsFiniteSet(1..Len(gs))
    BY <1>3, FS_Interval
  <2> QED
    BY <2>1, FS_Subset
<1>5. Cardinality(with) = 0 <=> with = {}
  BY <1>4, FS_EmptySet
<1> QED
  BY <1>1, <1>5 DEF gs

\* A gate that is passed has no group of the severity asked for, or worse.
LEMMA PassedIs ==
    ASSUME NEW fs, AreFindings(fs), NEW sc \in CalculateScore(fs), NEW failOn, NEW minScore,
           failOn \in Counted, GatePassed(sc, failOn, minScore)
    PROVE  \A i \in DOMAIN AggregateFindings(fs) :
               ~ SeverityRank[AggregateFindings(fs)[i].severity] >= SeverityRank[failOn]
<1> DEFINE gs == AggregateFindings(fs)
<1>1. \A s \in Counted : SeverityRank[s] >= SeverityRank[failOn] => sc.severity[s] = 0
  BY DEF GatePassed, Counted, NoThreshold
<1>2. sc.severity = CountBySeverity(fs)
  BY ScoreIs DEF AreFindings
<1>3. \A i \in DOMAIN gs : gs[i].severity = "Info" \/ gs[i].severity \in Counted
  BY GroupsHave DEF Severities, Counted
<1>4. \A s \in Counted : SeverityRank[s] >= SeverityRank[failOn]
                            => \A i \in DOMAIN gs : gs[i].severity # s
  BY <1>1, <1>2, CountIs
<1>a. ~ SeverityRank["Info"] >= SeverityRank[failOn]
  BY DEF SeverityRank, Severities, Counted
<1> HIDE DEF gs
<1>5. \A i \in DOMAIN gs : ~ SeverityRank[gs[i].severity] >= SeverityRank[failOn]
  BY <1>3, <1>4, <1>a, Zenon
<1> QED
  BY <1>5 DEF gs

\* One that is failed has a finding of that severity, or too low a score.
LEMMA FailedIs ==
    ASSUME NEW fs, AreFindings(fs), NEW sc \in CalculateScore(fs), NEW failOn,
           NEW minScore \in Int, ~ GatePassed(sc, failOn, minScore)
    PROVE  \/ /\ failOn # NoThreshold
              /\ \E j \in DOMAIN fs : SeverityRank[fs[j].severity] >= SeverityRank[failOn]
           \/ sc.score < minScore
<1>1. sc.severity = CountBySeverity(fs) /\ sc.score \in 0..100
  BY ScoreIs DEF AreFindings
<1>2. CASE ~ (sc.score >= minScore)
  BY <1>1, <1>2
<1>3. CASE sc.score >= minScore
  <2>1. PICK s \in Counted : /\ failOn # NoThreshold
                             /\ SeverityRank[s] >= SeverityRank[failOn]
                             /\ sc.severity[s] # 0
    BY <1>3, Zenon DEF GatePassed
  <2>2. PICK i \in DOMAIN AggregateFindings(fs) : AggregateFindings(fs)[i].severity = s
    BY <1>1, <2>1, CountIs
  <2>3. \E j \in DOMAIN fs : fs[j].severity = s
    BY <2>2, GroupsHave
  <2> QED
    BY <2>1, <2>3
<1> QED
  BY <1>2, <1>3

\* The rules that are loaded are rules.
LEMMA BuiltInIs == ArePlugins(BuiltIn)
<1> DEFINE
       r1 == BuiltInRule("ACCESSIBILITY", {"runPerPage"})
       r2 == BuiltInRule("ASSETS", {"runPerPage", "runFinal"})
       r3 == BuiltInRule("EXPOSED_PATHS", {"runFinal"})
       r4 == BuiltInRule("FORMS", {"runPerPage"})
       r5 == BuiltInRule("FUNCTIONALITY", {"runPerPage"})
       r6 == BuiltInRule("LINKS", {"runPerPage"})
       r7 == BuiltInRule("PERFORMANCE", {"runPerPage"})
       r8 == BuiltInRule("SECURITY", {"runPerPage"})
       r9 == BuiltInRule("SEO", {"runPerPage", "collectSummary", "runFinal"})
       T == {r1, r2, r3, r4, r5, r6, r7, r8, r9}
<1>1. \A id, hooks : HasSeverities(BuiltInRule(id, hooks))
  BY DEF HasSeverities, BuiltInRule
<1>2. BuiltIn = <<r1, r2, r3, r4, r5, r6, r7, r8, r9>>
  BY DEF BuiltIn
<1>3. \A r \in T : HasSeverities(r)
  BY <1>1
<1> HIDE DEF r1, r2, r3, r4, r5, r6, r7, r8, r9
<1>4. BuiltIn \in Seq(T)
  BY <1>2
<1> HIDE DEF T
<1> QED
  BY <1>3, <1>4, ArePluginsIs, IsSeqOf, RangeOfSeq

LEMMA LoadRulesIs == ASSUME NEW plugins, ArePlugins(plugins) PROVE ArePlugins(LoadRules(plugins))
<1> DEFINE Enabled(r) == r.enabled
           on == Where(plugins, Enabled)
           all == BuiltIn \o on
<1>1. LoadRules(plugins) = FirstOfEach(all)
  BY DEF LoadRules, FirstOfEach, IdOf
<1>2. IsSeq(plugins)
  BY ArePluginsIs
<1>3. IsSeq(on) /\ Range(on) \subseteq Range(plugins)
  BY <1>2, WhereIs
<1> HIDE DEF on
<1>4. IsSeq(BuiltIn)
  BY BuiltInIs, ArePluginsIs
<1>5. IsSeq(all) /\ Range(all) = Range(BuiltIn) \cup Range(on)
  BY <1>3, <1>4, ConcatIs
<1> HIDE DEF all
<1>6. IsSeq(FirstOfEach(all)) /\ Range(FirstOfEach(all)) \subseteq Range(all)
  BY <1>5, FirstsIs DEF FirstOfEach
<1>7. \A r \in Range(BuiltIn) \cup Range(plugins) : HasSeverities(r)
  BY BuiltInIs, ArePluginsIs
<1> QED
  BY <1>1, <1>3, <1>5, <1>6, <1>7, ArePluginsIs

-------------------------------------------------------------------------------
(***************************************************************************)
(* The inductive invariant.                                                *)
(***************************************************************************)

\* The steps of the command line that are left after one of them.
Ends == Ended({"done", "gate failed"})
FromReports ==
    pc \in {"reports", "history", "dashboard", "print", "comment", "webhooks", "gate"} \/ Ends
FromHistory == pc \in {"history", "dashboard", "print", "comment", "webhooks", "gate"} \/ Ends
FromDashboard == pc \in {"dashboard", "print", "comment", "webhooks", "gate"} \/ Ends
FromPrint == pc \in {"print", "comment", "webhooks", "gate"} \/ Ends
FromWebhooks == pc \in {"webhooks", "gate"} \/ Ends
FromGate == pc = "gate" \/ Ends

\* What a run goes by: a site, rules, and lists to check.
InputInv ==
    /\ site \in Sites /\ args \in CommandLines \cup Requests
    /\ ArePlugins(rules) /\ IsSeq(summaries) /\ IsContext(context)

\* The command line scans only what its arguments allow; it and the library
\* have steps of their own.
ArgsInv ==
    /\ pc \in {"answer", "catch"} => Library
    /\ pc \in {"json", "reports", "history", "dashboard", "print", "comment", "webhooks", "gate"} =>
          ~ Library
    /\ (pc # "idle" /\ ~ Library) \/ Ends => CheckArgs(args) = "scan"

\* After the crawl every page is through; a signal stops the library's crawl
\* where it is.
PageInv ==
    /\ pc \notin {"idle", "crawl", "catch"} \/ Ends => page = Len(site.pages)
    /\ aborted \in {NotAborted, page}
    /\ ~ Library => aborted = NotAborted

\* The score is that of the findings, and the exit code that of the gate.
ScoreInv ==
    /\ pc \in {"json", "answer"} \/ FromReports => score \in CalculateScore(findings)
    /\ Ended({"done"}) => Verdict # "failed"
    /\ Ended({"gate failed"}) => Verdict = "failed"

\* No snapshot is of a later run; all are of earlier ones until this run saves
\* its own, which is then the last.
HistoryInv ==
    /\ IsSeq(history)
    /\ \A i \in DOMAIN history :
          /\ history[i].run \in 0..run /\ history[i].whole \in BOOLEAN
          /\ pc \in {"crawl", "checks", "final", "json", "reports", "history"} =>
                history[i].run < run
    /\ (FromDashboard => (~ args.noHistory => Readable # {} /\ history[Max(Readable)].run = run))

\* What is written so far is of this run.
Fields == {"run", "whole", "pages", "issues", "score", "gate"}
ShapeInv ==
    /\ output = [o \in Outputs |-> output[o]]
    /\ \A o \in Outputs : DOMAIN output[o] = Fields
    /\ output["webhook"].run \in 0..run
JsonInv ==
    /\ (~ Library /\ pc \in {"crawl", "checks", "final", "json"} =>
           ("report.json" \in Formats(args) => output["report.json"].pages = page))
    /\ (FromReports =>
           ("report.json" \in Formats(args) =>
               output["report.json"] = Written(Shown(args), "none")))
WrittenInv ==
    /\ (FromHistory =>
           ("report.html" \in Formats(args) =>
               output["report.html"] = Written(Shown(args), "none")))
    /\ (FromPrint => (args.dashboard => output["dashboard.html"].pages = Cardinality(Readable)))
    /\ (FromWebhooks =>
           (args.prComment =>
               output["pr-comment.md"] = Written(Shown([category |-> ""]), Verdict)))
    /\ (pc \notin {"idle", "gate", "answer", "catch"} => output["webhook"].run < run)
    /\ (FromGate => (output["webhook"].run = run => output["webhook"].gate = Verdict))

\* Once the comparison that is saved is told, nobody misses more than before.
Told ==
    IF Untold THEN (open \ comparison.resolvedIssues) \cup comparison.newIssues ELSE open
LedgerInv == Apart(Told, Latest) \subseteq missed

IInv == /\ TypeOK /\ InputInv /\ ArgsInv /\ PageInv /\ ScoreInv /\ HistoryInv
        /\ ShapeInv /\ JsonInv /\ WrittenInv
        /\ LedgerInv /\ AnswersInFull

\* A site, an argument and a summary are what the assumptions and the code make
\* of them.
LEMMA SiteIs ==
    ASSUME NEW s \in Sites
    PROVE  /\ s.truncated \in BOOLEAN /\ IsSeq(s.pages)
           /\ \A i \in DOMAIN s.pages : IsPage(s.pages[i])
           /\ AreExposed(s.probes.candidates)
           /\ Len(s.pages) \in Nat /\ DOMAIN s.pages = 1..Len(s.pages)
<1>1. IsSeq(s.pages) /\ s.truncated \in BOOLEAN
  BY SitesAssumption
<1>2. \A i \in DOMAIN s.pages : IsPage(s.pages[i])
  BY SitesAssumption DEF IsPage
<1>3. AreExposed(s.probes.candidates)
  BY SitesAssumption DEF AreExposed, Kinds
<1>4. Len(s.pages) \in Nat /\ DOMAIN s.pages = 1..Len(s.pages)
  BY <1>1, SeqIs
<1> QED
  BY <1>1, <1>2, <1>3, <1>4

LEMMA CommandIs ==
    ASSUME NEW a \in CommandLines
    PROVE  /\ "rulesDirs" \notin DOMAIN a /\ ArePlugins(a.plugins)
           /\ a.formats \subseteq {"report.json", "report.html"}
           /\ Formats(a) \subseteq {"report.json", "report.html"}
           /\ {a.compare, a.noHistory, a.dashboard, a.prComment, a.webhook} \subseteq BOOLEAN
           /\ CheckArgs(a) \in {"shown", "refused", "died", "scan"}
<1>1. CheckArgs(a) \in {"shown", "refused", "died", "scan"}
  BY DEF CheckArgs
<1> QED
  BY <1>1, CommandLinesAssumption DEF Formats

LEMMA RequestIs ==
    ASSUME NEW r \in Requests
    PROVE  "rulesDirs" \in DOMAIN r /\ r.safe \in BOOLEAN /\ ArePlugins(r.rulesDirs)
BY RequestsAssumption

LEMMA CollectIs ==
    ASSUME NEW p, NEW s, IsSeq(s)
    PROVE  IsSeq(CollectSummaries(p, s)) /\ Len(CollectSummaries(p, s)) = Len(s) + 1
<1> DEFINE T == Range(s) \cup {Summary(p)}
<1>1. s \in Seq(T)
  BY SeqIs
<1>2. Append(s, Summary(p)) \in Seq(T) /\ Len(Append(s, Summary(p))) = Len(s) + 1
  <2> HIDE DEF T
  <2>1. Summary(p) \in T
    BY DEF T
  <2> QED
    BY <1>1, <2>1, AppendIs
<1> QED
  BY <1>2, IsSeqOf DEF CollectSummaries

\* Whoever is not the library is a command line.
LEMMA CommandLine ==
    ASSUME InputInv, ~ Library
    PROVE  args \in CommandLines
BY RequestIs DEF InputInv, Library

\* How far the crawl may be.
LEMMA PageIs ==
    ASSUME TypeOK, InputInv
    PROVE  /\ Len(site.pages) \in Nat /\ page \in Nat /\ page <= Len(site.pages)
           /\ page < Len(site.pages) =>
                 page + 1 \in 0..Len(site.pages) /\ IsPage(site.pages[page + 1])
<1>1. Len(site.pages) \in Nat /\ DOMAIN site.pages = 1..Len(site.pages)
  BY SiteIs DEF InputInv
<1>2. page \in Nat /\ page <= Len(site.pages)
  <2>1. page \in 0..Len(site.pages)
    BY DEF TypeOK
  <2> QED
    BY <1>1, <2>1
<1>3. ASSUME page < Len(site.pages)
      PROVE  page + 1 \in 0..Len(site.pages) /\ IsPage(site.pages[page + 1])
  <2>1. page + 1 \in 0..Len(site.pages) /\ page + 1 \in DOMAIN site.pages
    BY <1>1, <1>2, <1>3
  <2> QED
    BY <2>1, SiteIs DEF InputInv
<1> QED
  BY <1>1, <1>2, <1>3

\* A run that starts has seen nothing.
LEMMA FreshIs ==
    ASSUME TypeOK, InputInv, Fresh
    PROVE  /\ pc = "idle" /\ run \in Nat /\ run' = run + 1 /\ run' \in 0..MaxRuns /\ site' \in Sites
           /\ page' = 0 /\ page' \in 0..Len(site'.pages)
           /\ Len(summaries') = page' /\ IsSeq(summaries') /\ IsContext(context')
           /\ AreFindings(findings')
           /\ score'.score \in 0..100 /\ score'.grade \in {"A", "B", "C", "D", "F"}
           /\ aborted' = NotAborted /\ NotAborted \in NotAborted..Len(site'.pages)
           /\ result'.status = "none"
           /\ history' = history /\ open' = open /\ missed' = missed
<1>1. site' \in Sites /\ Len(site'.pages) \in Nat
  BY SiteIs DEF Fresh
<1>2. run \in Nat /\ run' = run + 1 /\ run' \in 0..MaxRuns
  <2>1. run \in 0..MaxRuns /\ run < MaxRuns /\ run' = run + 1
    BY DEF Fresh, TypeOK
  <2> QED
    BY <2>1, MaxRunsAssumption
<1>3. page' = 0 /\ page' \in 0..Len(site'.pages)
  BY <1>1 DEF Fresh
<1>4. Len(summaries') = page' /\ IsSeq(summaries') /\ IsContext(context')
  BY EmptyIs, NoContextIs DEF Fresh
<1>5. score'.score \in 0..100 /\ score'.grade \in {"A", "B", "C", "D", "F"}
  BY DEF Fresh, NoScore
<1>6. NotAborted \in NotAborted..Len(site'.pages)
  BY <1>1 DEF NotAborted
<1>7. aborted' = NotAborted /\ result'.status = "none" /\ AreFindings(findings')
  BY NoFindings DEF Fresh, NoResult
<1> QED
  BY <1>1, <1>2, <1>3, <1>4, <1>5, <1>6, <1>7 DEF Fresh

\* Every step keeps the types.
LEMMA TypeStep ==
    ASSUME TypeOK, InputInv, [Next]_vars
    PROVE  TypeOK'
<1>1. ASSUME NEW a \in CommandLines, Start(a) PROVE TypeOK'
  <2>1. pc' \in {"idle", "crawl"} /\ ended' \in {"none", "refused", "shown", "died"}
    BY <1>1, CommandIs DEF Start, Goto
  <2>2. DOMAIN output' = Outputs
    BY <1>1 DEF Start, TypeOK
  <2> QED
    BY <1>1, <2>1, <2>2, FreshIs DEF Start, TypeOK
<1>2. ASSUME NEW r \in Requests, Scan(r) PROVE TypeOK'
  <2>1. pc' \in {"idle", "crawl", "catch"} /\ ended' \in {"none", "refused"} /\ output' = output
    BY <1>2 DEF Scan, Goto
  <2> QED
    BY <1>2, <2>1, FreshIs DEF Scan, TypeOK
<1>3. CASE OnPage
  <2> DEFINE p == site.pages[page + 1]
  <2>1. IsPage(p) /\ page + 1 \in 0..Len(site.pages)
    BY <1>3, PageIs DEF OnPage
  <2>2. AreFindings(findings')
    <3> HIDE DEF p
    <3>1. AreFindings(RunPerPageRules(p, rules))
      BY <2>1, RunPerPageRulesIs DEF InputInv
    <3>2. findings' = findings \o RunPerPageRules(p, rules)
      BY <1>3 DEF OnPage, p
    <3> QED
      BY <3>1, <3>2, Concatenated DEF TypeOK
  <2>3. Len(summaries') = page'
    BY <1>3, CollectIs DEF OnPage, TypeOK, InputInv
  <2>4. DOMAIN output' = Outputs
    BY <1>3 DEF OnPage, TypeOK
  <2> QED
    BY <1>3, <2>1, <2>2, <2>3, <2>4
    DEF OnPage, TypeOK, scanVars, runVars, diskVars, endVars, vars
<1>4. CASE FinalRules
  <2>1. AreFindings(RunFinalRules(rules, summaries, context))
    BY RunFinalRulesIs DEF InputInv
  <2>2. AreFindings(findings')
    BY <1>4, <2>1, Concatenated DEF FinalRules, TypeOK
  <2>3. score'.score \in 0..100 /\ score'.grade \in {"A", "B", "C", "D", "F"}
    BY <1>4, <2>2, ScoreIs DEF FinalRules, AreFindings
  <2> QED
    BY <1>4, <2>2, <2>3 DEF FinalRules, Goto, TypeOK, scanVars, runVars, diskVars, endVars, vars
<1>5. CASE Abort
  <2>1. aborted' \in NotAborted..Len(site.pages)
    BY <1>5, PageIs DEF Abort, NotAborted
  <2> QED
    BY <1>5, <2>1, ZenonT(60) DEF Abort, TypeOK, scanVars, runVars, diskVars, endVars, vars
<1>6. CASE Answer
  BY <1>6 DEF Answer, Goto, Writes, Answers, TypeOK, scanVars, runVars, diskVars, endVars, vars
<1>7. CASE Catch
  BY <1>7 DEF Catch, Goto, Writes, Answers, TypeOK, scanVars, runVars, diskVars, endVars, vars
<1>8. CASE EndCrawl \/ Checks \/ WriteJson \/ WriteReports \/ SaveHistory \/ WriteDashboard
          \/ PrintComparison
  BY <1>8
  DEF EndCrawl, Checks, WriteJson, WriteReports, SaveHistory, WriteDashboard, PrintComparison,
      Goto, Writes, Answers, TypeOK, scanVars, runVars, diskVars, endVars, vars
<1>9. CASE WriteComment \/ SendWebhooks \/ Exit \/ Dies \/ Fails \/ UNCHANGED vars
  BY <1>9
  DEF WriteComment, SendWebhooks, Exit, Dies, Fails, Goto, Writes, Answers, TypeOK, scanVars,
      runVars, diskVars, endVars, vars
<1> QED
  BY <1>1, <1>2, <1>3, <1>4, <1>5, <1>6, <1>7, <1>8, <1>9 DEF Next
\* A run keeps to its site, its arguments and its rules.
LEMMA InputStep ==
    ASSUME TypeOK, InputInv, [Next]_vars
    PROVE  InputInv'
<1>1. ASSUME NEW a \in CommandLines, Start(a) PROVE InputInv'
  <2>1. ArePlugins(rules')
    BY <1>1, CommandIs, BuiltInIs, LoadRulesIs DEF Start
  <2> QED
    BY <1>1, <2>1, FreshIs DEF Start, InputInv
<1>2. ASSUME NEW r \in Requests, Scan(r) PROVE InputInv'
  <2>1. ArePlugins(rules')
    BY <1>2, RequestIs, BuiltInIs, LoadRulesIs DEF Scan
  <2> QED
    BY <1>2, <2>1, FreshIs DEF Scan, InputInv
<1>3. CASE OnPage
  <2>1. IsSeq(summaries')
    BY <1>3, CollectIs DEF OnPage, InputInv
  <2> QED
    BY <1>3, <2>1 DEF OnPage, InputInv, scanVars, runVars, diskVars, endVars, vars
<1>4. CASE Checks
  <2>1. IsSeq(context'.assetChecks)
    BY <1>4, SiteIs, CheckAssetsIs, EmptyIs DEF Checks, InputInv
  <2>2. AreExposed(context'.exposedPathChecks.exposed)
    BY <1>4, SiteIs, CheckExposedPathsIs, NoContextIs DEF Checks, InputInv, IsContext
  <2> QED
    BY <1>4, <2>1, <2>2
    DEF Checks, InputInv, IsContext, scanVars, runVars, diskVars, endVars, vars
<1>5. CASE EndCrawl \/ FinalRules \/ WriteJson \/ WriteReports \/ SaveHistory \/ WriteDashboard
          \/ PrintComparison \/ WriteComment \/ SendWebhooks
  BY <1>5
  DEF EndCrawl, FinalRules, WriteJson, WriteReports, SaveHistory, WriteDashboard,
      PrintComparison, WriteComment, SendWebhooks, Goto, Writes, Answers, InputInv, scanVars,
      runVars, diskVars, endVars, vars
<1>6. CASE Exit \/ Dies \/ Abort \/ Fails \/ Answer \/ Catch \/ UNCHANGED vars
  BY <1>6
  DEF Exit, Dies, Abort, Fails, Answer, Catch, Goto, Writes, Answers, InputInv, scanVars,
      runVars, diskVars, endVars, vars
<1> QED
  BY <1>1, <1>2, <1>3, <1>4, <1>5, <1>6 DEF Next

\* Only the command line goes on to the outputs.
LEMMA ArgsStep ==
    ASSUME InputInv, ArgsInv, [Next]_vars
    PROVE  ArgsInv'
<1>1. ASSUME NEW a \in CommandLines, Start(a) PROVE ArgsInv'
  BY <1>1, CommandIs DEF Start, Goto, Library, Ends, Ended, ArgsInv
<1>2. ASSUME NEW r \in Requests, Scan(r) PROVE ArgsInv'
  BY <1>2, RequestIs DEF Scan, Goto, Library, Ends, Ended, ArgsInv
<1>3. CASE OnPage \/ EndCrawl \/ Checks \/ FinalRules \/ WriteJson \/ WriteReports \/
          SaveHistory \/ WriteDashboard \/ PrintComparison \/ WriteComment
  BY <1>3
  DEF OnPage, EndCrawl, Checks, FinalRules, WriteJson, WriteReports, SaveHistory,
      WriteDashboard, PrintComparison, WriteComment, Goto, Writes, Answers, scanVars, runVars,
      diskVars, endVars, vars, Library, Ends, Ended, ArgsInv
<1>4. CASE SendWebhooks \/ Exit \/ Dies \/ Abort \/ Fails \/ Answer \/ Catch \/ UNCHANGED vars
  BY <1>4
  DEF SendWebhooks, Exit, Dies, Abort, Fails, Answer, Catch, Goto, Writes, Answers, scanVars,
      runVars, diskVars, endVars, vars, Library, Ends, Ended, ArgsInv
<1> QED
  BY <1>1, <1>2, <1>3, <1>4 DEF Next

\* What is after the crawl has all of its pages.
LEMMA PageStep ==
    ASSUME TypeOK, InputInv, ArgsInv, PageInv, [Next]_vars
    PROVE  PageInv'
<1>1. ASSUME NEW a \in CommandLines, Start(a) PROVE PageInv'
  BY <1>1, FreshIs, CommandIs DEF Start, Goto, Library, Ends, Ended, PageInv
<1>2. ASSUME NEW r \in Requests, Scan(r) PROVE PageInv'
  BY <1>2, FreshIs, RequestIs DEF Scan, Goto, Library, Ends, Ended, PageInv
<1>3. CASE OnPage
  BY <1>3, PageIs
  DEF OnPage, PageInv, NotAborted, scanVars, runVars, diskVars, endVars, vars, Library, Ends,
      Ended
<1>4. CASE EndCrawl \/ Checks \/ FinalRules \/ WriteJson \/ WriteReports \/ SaveHistory \/
          WriteDashboard \/ PrintComparison \/ WriteComment
  BY <1>4
  DEF EndCrawl, Checks, FinalRules, WriteJson, WriteReports, SaveHistory, WriteDashboard,
      PrintComparison, WriteComment, Goto, Writes, Answers, PageInv, ArgsInv, scanVars, runVars,
      diskVars, endVars, vars, Library, Ends, Ended
<1>5. CASE SendWebhooks \/ Exit \/ Dies \/ Abort \/ Fails \/ Answer \/ Catch \/ UNCHANGED vars
  BY <1>5
  DEF SendWebhooks, Exit, Dies, Abort, Fails, Answer, Catch, Goto, Writes, Answers, PageInv,
      ArgsInv, scanVars, runVars, diskVars, endVars, vars, Library, Ends, Ended
<1> QED
  BY <1>1, <1>2, <1>3, <1>4, <1>5 DEF Next

\* The score is computed once, of all the findings.
LEMMA ScoreStep ==
    ASSUME InputInv, ArgsInv, ScoreInv, [Next]_vars
    PROVE  ScoreInv'
<1>0. args' = args /\ score' = score => Verdict' = Verdict
  BY DEF Verdict, Gated
<1>1. ASSUME NEW a \in CommandLines, Start(a) PROVE ScoreInv'
  BY <1>1, CommandIs, <1>0 DEF Start, Fresh, Goto, Library, Ends, Ended, FromReports, ScoreInv
<1>2. ASSUME NEW r \in Requests, Scan(r) PROVE ScoreInv'
  BY <1>2, RequestIs DEF Scan, Fresh, Goto, Library, Ends, Ended, FromReports, ScoreInv
<1>3. CASE OnPage \/ EndCrawl \/ Checks \/ FinalRules \/ WriteJson \/ WriteReports \/
          SaveHistory \/ WriteDashboard \/ PrintComparison \/ WriteComment
  BY <1>3, <1>0
  DEF OnPage, EndCrawl, Checks, FinalRules, WriteJson, WriteReports, SaveHistory,
      WriteDashboard, PrintComparison, WriteComment, Goto, Writes, Answers, ScoreInv, scanVars,
      runVars, diskVars, endVars, vars, Library, Ends, Ended, FromReports
<1>4. CASE SendWebhooks \/ Exit \/ Dies \/ Abort \/ Fails \/ Answer \/ Catch \/ UNCHANGED vars
  BY <1>4, <1>0
  DEF SendWebhooks, Exit, Dies, Abort, Fails, Answer, Catch, Goto, Writes, Answers, ScoreInv,
      scanVars, runVars, diskVars, endVars, vars, Library, Ends, Ended, FromReports
<1> QED
  BY <1>1, <1>2, <1>3, <1>4 DEF Next

\* The largest of some numbers is one of them.
LEMMA MaxOf ==
    ASSUME NEW n \in Nat, NEW A \in SUBSET (1..n), A # {}
    PROVE  Max(A) \in A /\ \A k \in A : k <= Max(A)
<1> DEFINE HasMax(B) == \E m \in B : \A k \in B : k <= m
           S == { k \in Nat : \A B \in SUBSET (1..k) : B # {} => HasMax(B) }
<1>1. 0 \in S
  <2>1. 1..0 = {}
    OBVIOUS
  <2> HIDE DEF HasMax
  <2> QED
    BY <2>1
<1>2. ASSUME NEW k \in Nat, k \in S
      PROVE  k + 1 \in S
  <2>1. ASSUME NEW B \in SUBSET (1..(k + 1)), B # {}
        PROVE  HasMax(B)
    <3>1. CASE k + 1 \in B
      BY <2>1, <3>1
    <3>2. CASE k + 1 \notin B
      <4>1. B \in SUBSET (1..k)
        BY <2>1, <3>2
      <4> QED
        BY <1>2, <2>1, <4>1
    <3> QED
      BY <3>1, <3>2
  <2> HIDE DEF HasMax
  <2> QED
    BY <2>1
<1>3. Nat \subseteq S
  <2> HIDE DEF S
  <2> QED
    BY <1>1, <1>2, Induction
<1>4. HasMax(A)
  BY <1>3
<1>5. A \in SUBSET Int
  OBVIOUS
<1>6. PICK m \in A : \A k \in A : k <= m
  BY <1>4
<1>7. Max(A) = m
  BY <1>5, <1>6, MaxIs
<1> QED
  BY <1>6, <1>7

\* What a snapshot changes: one that is whole is the last that can be read, one
\* that is cut off is not read at all.
LEMMA Saved ==
    ASSUME IsSeq(history), NEW x, history' = Append(history, x)
    PROVE  /\ IsSeq(history')
           /\ Len(history) \in Nat /\ DOMAIN history = 1..Len(history)
           /\ DOMAIN history' = DOMAIN history \cup {Len(history) + 1}
           /\ \A i \in DOMAIN history : history'[i] = history[i]
           /\ history'[Len(history) + 1] = x
<1> DEFINE T == Range(history) \cup {x}
<1>1. history \in Seq(T) /\ Len(history) \in Nat /\ DOMAIN history = 1..Len(history)
  BY SeqIs
<1>2. x \in T
  OBVIOUS
<1> HIDE DEF T
<1>3. /\ history' \in Seq(T) /\ DOMAIN history' = DOMAIN history \cup {Len(history) + 1}
      /\ \A i \in DOMAIN history : history'[i] = history[i]
      /\ history'[Len(history) + 1] = x
  BY <1>1, <1>2, AppendIs
<1> QED
  BY <1>1, <1>3, IsSeqOf

Snapshot(whole, keys, n) == [run |-> run, whole |-> whole, keys |-> keys, score |-> n]

LEMMA SavedWhole ==
    ASSUME IsSeq(history), NEW keys, NEW n, history' = Append(history, Snapshot(TRUE, keys, n))
    PROVE  /\ Readable' # {} /\ Max(Readable') \in DOMAIN history'
           /\ history'[Max(Readable')] = Snapshot(TRUE, keys, n)
<1> DEFINE last == Len(history) + 1
<1>1. /\ Len(history) \in Nat /\ DOMAIN history = 1..Len(history)
      /\ DOMAIN history' = DOMAIN history \cup {last}
      /\ history'[last] = Snapshot(TRUE, keys, n)
  BY Saved
<1>2. history'[last].whole
  BY <1>1 DEF Snapshot
<1>3. last \in Readable' /\ Readable' \subseteq 1..Len(history) \cup {last}
  BY <1>1, <1>2 DEF Readable
<1>4. Readable' \in SUBSET Int /\ \A k \in Readable' : k <= last
  BY <1>1, <1>3
<1>5. Max(Readable') = last
  BY <1>3, <1>4, MaxIs
<1> QED
  BY <1>1, <1>3, <1>5

LEMMA SavedTorn ==
    ASSUME IsSeq(history), NEW keys, NEW n, history' = Append(history, Snapshot(FALSE, keys, n))
    PROVE  /\ Readable' = Readable
           /\ Readable # {} => history'[Max(Readable)] = history[Max(Readable)]
<1> DEFINE last == Len(history) + 1
<1>1. /\ Len(history) \in Nat /\ DOMAIN history = 1..Len(history)
      /\ DOMAIN history' = DOMAIN history \cup {last}
      /\ \A i \in DOMAIN history : history'[i] = history[i]
      /\ history'[last] = Snapshot(FALSE, keys, n)
  BY Saved
<1>2. ~ history'[last].whole
  BY <1>1 DEF Snapshot
<1>3. Readable' = Readable
  BY <1>1, <1>2 DEF Readable
<1>4. ASSUME Readable # {}
      PROVE  history'[Max(Readable)] = history[Max(Readable)]
  <2>1. Readable \in SUBSET (1..Len(history))
    BY <1>1 DEF Readable
  <2>2. Max(Readable) \in Readable
    BY <1>1, <1>4, <2>1, MaxOf
  <2> QED
    BY <1>1, <2>2 DEF Readable
<1> QED
  BY <1>3, <1>4

\* The snapshots stay in the order of the runs.
LEMMA HistoryStep ==
    ASSUME TypeOK, InputInv, ArgsInv, HistoryInv, [Next]_vars
    PROVE  HistoryInv'
<1>0. run \in Nat /\ (history' = history => Readable' = Readable)
  <2>1. run \in 0..MaxRuns
    BY DEF TypeOK
  <2> QED
    BY <2>1, MaxRunsAssumption DEF Readable
<1>1. ASSUME NEW a \in CommandLines, Start(a) PROVE HistoryInv'
  <2>1. ~ FromDashboard' /\ history' = history
    BY <1>1, FreshIs, CommandIs DEF Start, Goto, Library, Ends, Ended, FromDashboard
  <2>2. \A i \in DOMAIN history : history[i].run \in 0..run' /\ history[i].run < run'
    <3>1. \A k \in 0..run : k \in 0..(run + 1) /\ k < run + 1
      BY <1>0
    <3> QED
      BY <1>1, FreshIs, <3>1 DEF Start, HistoryInv
  <2> QED
    BY <2>1, <2>2 DEF HistoryInv
<1>2. ASSUME NEW r \in Requests, Scan(r) PROVE HistoryInv'
  <2>1. ~ FromDashboard' /\ history' = history
    BY <1>2, FreshIs, RequestIs DEF Scan, Goto, Library, Ends, Ended, FromDashboard
  <2>2. \A i \in DOMAIN history : history[i].run \in 0..run' /\ history[i].run < run'
    <3>1. \A k \in 0..run : k \in 0..(run + 1) /\ k < run + 1
      BY <1>0
    <3> QED
      BY <1>2, FreshIs, <3>1 DEF Scan, HistoryInv
  <2> QED
    BY <2>1, <2>2 DEF HistoryInv
<1>3. CASE SaveHistory
  <2>1. CASE args.noHistory
    BY <1>3, <2>1, <1>0
    DEF SaveHistory, Goto, HistoryInv, ArgsInv, scanVars, runVars, diskVars, endVars, vars,
        Library, Ends, Ended, FromDashboard
  <2>2. CASE ~ args.noHistory
    <3> DEFINE x == Snapshot(TRUE, Keys(findings), score.score)
    <3>1. history' = Append(history, x) /\ run' = run /\ args' = args /\ pc' = "dashboard"
      BY <1>3, <2>2 DEF SaveHistory, Goto, runVars, Snapshot
    <3>2. x.run = run /\ x.whole \in BOOLEAN
      BY DEF Snapshot
    <3>3. IsSeq(history)
      BY DEF HistoryInv
    <3>4. Readable' # {} /\ history'[Max(Readable')] = x
      BY <3>1, <3>3, SavedWhole
    <3> HIDE DEF x
    <3>5. /\ IsSeq(history') /\ DOMAIN history' = DOMAIN history \cup {Len(history) + 1}
          /\ \A i \in DOMAIN history : history'[i] = history[i]
          /\ history'[Len(history) + 1] = x
      BY <3>1, <3>3, Saved
    <3>6. x.run \in 0..run
      BY <3>2, <1>0
    <3>7. \A i \in DOMAIN history' : history'[i].run \in 0..run /\ history'[i].whole \in BOOLEAN
      BY <3>2, <3>5, <3>6 DEF HistoryInv
    <3> QED
      BY <3>1, <3>2, <3>4, <3>5, <3>7 DEF HistoryInv
  <2> QED
    BY <2>1, <2>2
<1>4. CASE Dies
  <2> DEFINE x == Snapshot(FALSE, {}, 0)
  <2>1. CASE history' = history
    BY <1>4, <2>1, <1>0
    DEF Dies, Goto, HistoryInv, ArgsInv, scanVars, runVars, diskVars, endVars, vars, Library,
        Ends, Ended, FromDashboard
  <2>2. CASE history' = Append(history, x)
    <3>1. run' = run /\ pc' = "idle" /\ ~ FromDashboard'
      BY <1>4 DEF Dies, Goto, runVars, FromDashboard, Ends, Ended
    <3>2. x.run = run /\ x.whole \in BOOLEAN
      BY DEF Snapshot
    <3>3. IsSeq(history)
      BY DEF HistoryInv
    <3> HIDE DEF x
    <3>5. /\ IsSeq(history') /\ DOMAIN history' = DOMAIN history \cup {Len(history) + 1}
          /\ \A i \in DOMAIN history : history'[i] = history[i]
          /\ history'[Len(history) + 1] = x
      BY <2>2, <3>3, Saved
    <3>6. x.run \in 0..run
      BY <3>2, <1>0
    <3>7. \A i \in DOMAIN history' : history'[i].run \in 0..run /\ history'[i].whole \in BOOLEAN
      BY <3>2, <3>5, <3>6 DEF HistoryInv
    <3> QED
      BY <3>1, <3>5, <3>7 DEF HistoryInv
  <2> QED
    BY <1>4, <2>1, <2>2 DEF Dies, Snapshot
<1>5. CASE OnPage \/ EndCrawl \/ Checks \/ FinalRules \/ WriteJson \/ WriteReports \/
          WriteDashboard \/ PrintComparison \/ WriteComment
  BY <1>5, <1>0
  DEF OnPage, EndCrawl, Checks, FinalRules, WriteJson, WriteReports, WriteDashboard,
      PrintComparison, WriteComment, Goto, Writes, Answers, HistoryInv, ArgsInv, scanVars,
      runVars, diskVars, endVars, vars, Library, Ends, Ended, FromDashboard
<1>6. CASE SendWebhooks \/ Exit \/ Abort \/ Fails \/ Answer \/ Catch \/ UNCHANGED vars
  BY <1>6, <1>0
  DEF SendWebhooks, Exit, Abort, Fails, Answer, Catch, Goto, Writes, Answers, HistoryInv,
      ArgsInv, scanVars, runVars, diskVars, endVars, vars, Library, Ends, Ended, FromDashboard
<1> QED
  BY <1>1, <1>2, <1>3, <1>4, <1>5, <1>6 DEF Next

\* An output is written as a whole, but for the pages of the JSON report.
LEMMA ShapeStep ==
    ASSUME TypeOK, InputInv, ShapeInv, [Next]_vars
    PROVE  ShapeInv'
<1>0. run \in Nat
  <2>1. run \in 0..MaxRuns
    BY DEF TypeOK
  <2> QED
    BY <2>1, MaxRunsAssumption
<1>1. ASSUME NEW a \in CommandLines, Start(a) PROVE ShapeInv'
  <2>1. output' = [output EXCEPT !["report.json"] = [NotWritten EXCEPT !.run = run']] \/ output' = output
    BY <1>1 DEF Start
  <2>2. DOMAIN [NotWritten EXCEPT !.run = run'] = Fields
    BY DEF NotWritten, Fields
  <2>3. output["webhook"].run \in 0..run'
    BY <1>1, <1>0, FreshIs DEF Start, ShapeInv
  <2> QED
    BY <2>1, <2>2, <2>3, <1>0 DEF ShapeInv, Outputs
<1>2. ASSUME NEW r \in Requests, Scan(r) PROVE ShapeInv'
  <2>3. output["webhook"].run \in 0..run'
    BY <1>2, <1>0, FreshIs DEF Scan, ShapeInv
  <2> QED
    BY <1>2, <2>3 DEF Scan, ShapeInv
<1>3. CASE OnPage
  <2>1. output' = [output EXCEPT !["report.json"].pages = @ + 1] \/ output' = output
    BY <1>3 DEF OnPage
  <2>2. run' = run
    BY <1>3 DEF OnPage, runVars
  <2> QED
    BY <2>1, <2>2, <1>0 DEF ShapeInv, Outputs
<1>4. CASE WriteJson
  <2> DEFINE content == [Written(Shown(args), "none") EXCEPT !.pages = output["report.json"].pages]
  <2>1. output' = [output EXCEPT !["report.json"] = content] \/ output' = output
    BY <1>4 DEF WriteJson, Writes
  <2>2. DOMAIN content = Fields /\ content.run = run
    BY DEF Written, Fields
  <2>3. run' = run
    BY <1>4 DEF WriteJson, Writes, runVars
  <2> HIDE DEF content
  <2> QED
    BY <2>1, <2>2, <2>3, <1>0 DEF ShapeInv, Outputs
<1>5. CASE WriteReports
  <2> DEFINE content == Written(Shown(args), "none")
  <2>1. output' = [output EXCEPT !["report.html"] = content] \/ output' = output
    BY <1>5 DEF WriteReports, Writes
  <2>2. DOMAIN content = Fields /\ content.run = run
    BY DEF Written, Fields
  <2>3. run' = run
    BY <1>5 DEF WriteReports, Writes, runVars
  <2> HIDE DEF content
  <2> QED
    BY <2>1, <2>2, <2>3, <1>0 DEF ShapeInv, Outputs
<1>6. CASE WriteDashboard
  <2> DEFINE content == [Written({}, "none") EXCEPT !.pages = Cardinality(Readable)]
  <2>1. output' = [output EXCEPT !["dashboard.html"] = content] \/ output' = output
    BY <1>6 DEF WriteDashboard, Writes
  <2>2. DOMAIN content = Fields /\ content.run = run
    BY DEF Written, Fields
  <2>3. run' = run
    BY <1>6 DEF WriteDashboard, Writes, runVars
  <2> HIDE DEF content
  <2> QED
    BY <2>1, <2>2, <2>3, <1>0 DEF ShapeInv, Outputs
<1>7. CASE WriteComment
  <2> DEFINE content == Written(Shown([category |-> ""]), Verdict)
  <2>1. output' = [output EXCEPT !["pr-comment.md"] = content] \/ output' = output
    BY <1>7 DEF WriteComment, Writes
  <2>2. DOMAIN content = Fields /\ content.run = run
    BY DEF Written, Fields
  <2>3. run' = run
    BY <1>7 DEF WriteComment, Writes, runVars
  <2> HIDE DEF content
  <2> QED
    BY <2>1, <2>2, <2>3, <1>0 DEF ShapeInv, Outputs
<1>8. CASE SendWebhooks
  <2> DEFINE content == Written(Shown([category |-> ""]), Verdict)
  <2>1. output' = [output EXCEPT !["webhook"] = content] \/ output' = output
    BY <1>8 DEF SendWebhooks, Writes
  <2>2. DOMAIN content = Fields /\ content.run = run
    BY DEF Written, Fields
  <2>3. run' = run
    BY <1>8 DEF SendWebhooks, Writes, runVars
  <2> HIDE DEF content
  <2> QED
    BY <2>1, <2>2, <2>3, <1>0 DEF ShapeInv, Outputs
<1>9. CASE EndCrawl \/ Checks \/ FinalRules \/ SaveHistory \/ PrintComparison \/ Exit \/ Dies
  BY <1>9, <1>0
  DEF EndCrawl, Checks, FinalRules, SaveHistory, PrintComparison, Exit, Dies, Goto, Writes,
      Answers, ShapeInv, scanVars, runVars, diskVars, endVars, vars
<1>10. CASE Abort \/ Fails \/ Answer \/ Catch \/ UNCHANGED vars
  BY <1>10, <1>0
  DEF Abort, Fails, Answer, Catch, Goto, Writes, Answers, ShapeInv, scanVars, runVars, diskVars,
      endVars, vars
<1> QED
  BY <1>1, <1>2, <1>3, <1>4, <1>5, <1>6, <1>7, <1>8, <1>9, <1>10 DEF Next

\* The JSON report has every page of the crawl when the groups are added to it.
LEMMA JsonStep ==
    ASSUME TypeOK, InputInv, ArgsInv, ShapeInv, JsonInv, [Next]_vars
    PROVE  JsonInv'
<1>0. <<args, run, page, findings, score>>' = <<args, run, page, findings, score>>
        => Written(Shown(args), "none")' = Written(Shown(args), "none")
  BY DEF Written, Shown
<1>1. ASSUME NEW a \in CommandLines, Start(a) PROVE JsonInv'
  <2>1. ~ FromReports'
    BY <1>1, CommandIs, FreshIs DEF Start, Goto, Library, Ends, Ended, FromReports
  <2>2. ASSUME pc' # "idle", "report.json" \in Formats(a)
        PROVE  output'["report.json"].pages = page'
    <3>1. output' = [output EXCEPT !["report.json"] = [NotWritten EXCEPT !.run = run']]
      BY <1>1, <2>2 DEF Start, Goto
    <3> QED
      BY <1>1, <3>1, FreshIs DEF Start, NotWritten, ShapeInv, Outputs
  <2> QED
    BY <1>1, <2>1, <2>2, FreshIs DEF Start, JsonInv
<1>2. ASSUME NEW r \in Requests, Scan(r) PROVE JsonInv'
  <2>1. ~ FromReports' /\ Library'
    BY <1>2, RequestIs DEF Scan, Goto, Library, Ends, Ended, FromReports
  <2> QED
    BY <2>1 DEF JsonInv
<1>3. CASE OnPage
  <2>1. pc' = "crawl" /\ args' = args /\ page' = page + 1 /\ ~ FromReports' /\ Library' = Library
    BY <1>3 DEF OnPage, runVars, FromReports, Ends, Ended, Library
  <2>2. ASSUME ~ Library, "report.json" \in Formats(args)
        PROVE  output'["report.json"].pages = page'
    <3>1. output["report.json"].pages = page
      BY <1>3, <2>2 DEF OnPage, JsonInv
    <3>2. output' = [output EXCEPT !["report.json"].pages = page + 1]
      BY <1>3, <2>2, <3>1 DEF OnPage, ShapeInv, Outputs
    <3> QED
      BY <2>1, <3>2 DEF ShapeInv, Outputs, Fields
  <2> QED
    BY <2>1, <2>2 DEF JsonInv
<1>4. CASE WriteJson
  <2>1. /\ pc = "json" /\ ~ Library /\ pc' = "reports" /\ args' = args
        /\ Written(Shown(args), "none")' = Written(Shown(args), "none")
    BY <1>4, <1>0 DEF WriteJson, Writes, Goto, ArgsInv, runVars, scanVars
  <2>2. ASSUME "report.json" \in Formats(args)
        PROVE  output'["report.json"] = Written(Shown(args), "none")
    <3> DEFINE content == [Written(Shown(args), "none") EXCEPT !.pages = output["report.json"].pages]
    <3>1. output["report.json"].pages = page
      BY <2>1, <2>2 DEF JsonInv
    <3>2. content = Written(Shown(args), "none")
      <4> DEFINE w == Written(Shown(args), "none")
      <4>1. w.pages = page /\ w = [f \in Fields |-> w[f]]
        BY DEF Written, Fields
      <4> HIDE DEF w
      <4>2. [w EXCEPT !.pages = page] = w
        BY <4>1
      <4> QED
        BY <3>1, <4>2 DEF w
    <3>3. output' = [output EXCEPT !["report.json"] = content]
      BY <1>4, <2>2 DEF WriteJson, Writes
    <3> HIDE DEF content
    <3> QED
      BY <3>2, <3>3 DEF ShapeInv, Outputs
  <2> QED
    BY <2>1, <2>2 DEF JsonInv
<1>5. CASE WriteReports
  <2> DEFINE content == Written(Shown(args), "none")
  <2>1. output' = [output EXCEPT !["report.html"] = content] \/ output' = output
    BY <1>5 DEF WriteReports, Writes
  <2> HIDE DEF content
  <2>2. output'["report.json"] = output["report.json"]
    BY <2>1 DEF ShapeInv, Outputs
  <2>3. /\ FromReports /\ args' = args
        /\ Written(Shown(args), "none")' = Written(Shown(args), "none")
        /\ pc' \notin {"crawl", "checks", "final", "json"}
    BY <1>5, <1>0 DEF WriteReports, Writes, Goto, FromReports, runVars, scanVars
  <2> QED
    BY <2>2, <2>3 DEF JsonInv
<1>6. CASE SaveHistory
  BY <1>6, <1>0
  DEF SaveHistory, Goto, JsonInv, ArgsInv, scanVars, runVars, diskVars, endVars, vars, Library,
      Ends, Ended, FromReports
<1>7. CASE WriteDashboard
  <2> DEFINE content == [Written({}, "none") EXCEPT !.pages = Cardinality(Readable)]
  <2>1. output' = [output EXCEPT !["dashboard.html"] = content] \/ output' = output
    BY <1>7 DEF WriteDashboard, Writes
  <2> HIDE DEF content
  <2>2. output'["report.json"] = output["report.json"]
    BY <2>1 DEF ShapeInv, Outputs
  <2>3. /\ FromReports /\ args' = args
        /\ Written(Shown(args), "none")' = Written(Shown(args), "none")
        /\ pc' \notin {"crawl", "checks", "final", "json"}
    BY <1>7, <1>0 DEF WriteDashboard, Writes, Goto, FromReports, runVars, scanVars
  <2> QED
    BY <2>2, <2>3 DEF JsonInv
<1>8. CASE WriteComment
  <2> DEFINE content == Written(Shown([category |-> ""]), Verdict)
  <2>1. output' = [output EXCEPT !["pr-comment.md"] = content] \/ output' = output
    BY <1>8 DEF WriteComment, Writes
  <2> HIDE DEF content
  <2>2. output'["report.json"] = output["report.json"]
    BY <2>1 DEF ShapeInv, Outputs
  <2>3. /\ FromReports /\ args' = args
        /\ Written(Shown(args), "none")' = Written(Shown(args), "none")
        /\ pc' \notin {"crawl", "checks", "final", "json"}
    BY <1>8, <1>0 DEF WriteComment, Writes, Goto, FromReports, runVars, scanVars
  <2> QED
    BY <2>2, <2>3 DEF JsonInv
<1>9. CASE SendWebhooks
  <2> DEFINE content == Written(Shown([category |-> ""]), Verdict)
  <2>1. output' = [output EXCEPT !["webhook"] = content] \/ output' = output
    BY <1>9 DEF SendWebhooks, Writes
  <2> HIDE DEF content
  <2>2. output'["report.json"] = output["report.json"]
    BY <2>1 DEF ShapeInv, Outputs
  <2>3. /\ FromReports /\ args' = args
        /\ Written(Shown(args), "none")' = Written(Shown(args), "none")
        /\ pc' \notin {"crawl", "checks", "final", "json"}
    BY <1>9, <1>0 DEF SendWebhooks, Writes, Goto, FromReports, runVars, scanVars
  <2> QED
    BY <2>2, <2>3 DEF JsonInv
<1>10. CASE EndCrawl \/ Checks \/ FinalRules \/ PrintComparison \/ Exit \/ Dies
  BY <1>10, <1>0
  DEF EndCrawl, Checks, FinalRules, PrintComparison, Exit, Dies, Goto, Writes, Answers, JsonInv,
      ArgsInv, scanVars, runVars, diskVars, endVars, vars, Library, Ends, Ended, FromReports
<1>11. CASE Abort \/ Fails \/ Answer \/ Catch \/ UNCHANGED vars
  BY <1>11, <1>0
  DEF Abort, Fails, Answer, Catch, Goto, Writes, Answers, JsonInv, ArgsInv, scanVars, runVars,
      diskVars, endVars, vars, Library, Ends, Ended, FromReports
<1> QED
  BY <1>1, <1>2, <1>3, <1>4, <1>5, <1>6, <1>7, <1>8, <1>9, <1>10, <1>11 DEF Next

\* An output is there when its step is past, and what it tells stays so.
LEMMA WrittenStep ==
    ASSUME TypeOK, InputInv, ArgsInv, ShapeInv, WrittenInv, [Next]_vars
    PROVE  WrittenInv'
<1> DEFINE Same == <<args, run, page, findings, score>>' = <<args, run, page, findings, score>>
<1>0. /\ run \in Nat
      /\ history' = history => Cardinality(Readable)' = Cardinality(Readable)
      /\ Same => /\ Written(Shown(args), "none")' = Written(Shown(args), "none")
                 /\ Written(Shown([category |-> ""]), Verdict)'
                       = Written(Shown([category |-> ""]), Verdict)
                 /\ Verdict' = Verdict
  <2>1. run \in 0..MaxRuns
    BY DEF TypeOK
  <2>2. run \in Nat
    BY <2>1, MaxRunsAssumption
  <2>3. history' = history => Cardinality(Readable)' = Cardinality(Readable)
    BY DEF Readable
  <2>4. ASSUME Same
        PROVE  /\ Written(Shown(args), "none")' = Written(Shown(args), "none")
               /\ Shown([category |-> ""])' = Shown([category |-> ""])
               /\ Verdict' = Verdict
    BY <2>4 DEF Written, Shown, Verdict, Gated
  <2>5. ASSUME Same
        PROVE  Written(Shown([category |-> ""]), Verdict)' = Written(Shown([category |-> ""]), Verdict)
    BY <2>4, <2>5 DEF Written
  <2> QED
    BY <2>2, <2>3, <2>4, <2>5
<1>a. \A k \in 0..run : k < run + 1 /\ (k < run => k # run)
  <2>1. run \in Nat
    BY <1>0
  <2> QED
    BY <2>1
<1>1. ASSUME NEW a \in CommandLines, Start(a) PROVE WrittenInv'
  <2>1. ~ FromHistory' /\ ~ FromPrint' /\ ~ FromWebhooks' /\ ~ FromGate'
    BY <1>1, CommandIs, FreshIs
    DEF Start, Goto, Library, Ends, Ended, FromHistory, FromPrint, FromWebhooks, FromGate
  <2>2. output'["webhook"] = output["webhook"]
    BY <1>1 DEF Start, ShapeInv, Outputs
  <2>3. output["webhook"].run < run'
    BY <1>1, <1>a, FreshIs DEF Start, ShapeInv
  <2> QED
    BY <2>1, <2>2, <2>3 DEF WrittenInv
<1>2. ASSUME NEW r \in Requests, Scan(r) PROVE WrittenInv'
  <2>1. ~ FromHistory' /\ ~ FromPrint' /\ ~ FromWebhooks' /\ ~ FromGate'
    BY <1>2, RequestIs, FreshIs
    DEF Scan, Goto, Library, Ends, Ended, FromHistory, FromPrint, FromWebhooks, FromGate
  <2>2. output' = output
    BY <1>2 DEF Scan
  <2>3. output["webhook"].run < run'
    BY <1>2, <1>a, FreshIs DEF Scan, ShapeInv
  <2> QED
    BY <2>1, <2>2, <2>3 DEF WrittenInv
<1>3. CASE OnPage
  <2>1. pc = "crawl" /\ pc' = "crawl" /\ run' = run
    BY <1>3 DEF OnPage, runVars
  <2>2. output'["webhook"] = output["webhook"]
    BY <1>3 DEF OnPage, ShapeInv, Outputs
  <2> QED
    BY <2>1, <2>2 DEF WrittenInv, Ends, Ended, FromHistory, FromPrint, FromWebhooks, FromGate
<1>4. CASE WriteJson
  <2> DEFINE content == [Written(Shown(args), "none") EXCEPT !.pages = output["report.json"].pages]
  <2>1. /\ output' = IF "report.json" \in Formats(args) THEN [output EXCEPT !["report.json"] = content] ELSE output
        /\ pc = "json" /\ pc' = "reports" /\ run' = run /\ args' = args /\ history' = history
    BY <1>4 DEF WriteJson, Writes, Goto, runVars
  <2>2. Same
    BY <1>4 DEF WriteJson, Writes, scanVars, runVars
  <2> HIDE DEF content
  <2>3. "report.json" \in Formats(args) => output'["report.json"] = content
    BY <2>1 DEF ShapeInv, Outputs
  <2>4. \A o \in Outputs \ {"report.json"} : output'[o] = output[o]
    BY <2>1 DEF ShapeInv
  <2> QED
    BY <1>0, <2>1, <2>2, <2>3, <2>4
    DEF content, WrittenInv, Outputs, Ends, Ended, FromHistory, FromPrint, FromWebhooks, FromGate
<1>5. CASE WriteReports
  <2> DEFINE content == Written(Shown(args), "none")
  <2>1. /\ output' = IF "report.html" \in Formats(args) THEN [output EXCEPT !["report.html"] = content] ELSE output
        /\ pc = "reports" /\ pc' = "history" /\ run' = run /\ args' = args /\ history' = history
    BY <1>5 DEF WriteReports, Writes, Goto, runVars
  <2>2. Same
    BY <1>5 DEF WriteReports, Writes, scanVars, runVars
  <2> HIDE DEF content
  <2>3. "report.html" \in Formats(args) => output'["report.html"] = content
    BY <2>1 DEF ShapeInv, Outputs
  <2>4. \A o \in Outputs \ {"report.html"} : output'[o] = output[o]
    BY <2>1 DEF ShapeInv
  <2> QED
    BY <1>0, <2>1, <2>2, <2>3, <2>4
    DEF content, WrittenInv, Outputs, Ends, Ended, FromHistory, FromPrint, FromWebhooks, FromGate
<1>6. CASE SaveHistory
  <2>1. pc = "history" /\ pc' = "dashboard" /\ output' = output
    BY <1>6 DEF SaveHistory, Goto
  <2>2. Same
    BY <1>6 DEF SaveHistory, scanVars, runVars
  <2> QED
    BY <1>0, <2>1, <2>2
    DEF Same, WrittenInv, Ends, Ended, FromHistory, FromPrint, FromWebhooks, FromGate
<1>7. CASE WriteDashboard
  <2> DEFINE content == [Written({}, "none") EXCEPT !.pages = Cardinality(Readable)]
  <2>1. /\ output' = IF args.dashboard THEN [output EXCEPT !["dashboard.html"] = content] ELSE output
        /\ pc = "dashboard" /\ pc' = "print" /\ run' = run /\ args' = args /\ history' = history
    BY <1>7 DEF WriteDashboard, Writes, Goto, runVars
  <2>2. Same
    BY <1>7 DEF WriteDashboard, Writes, scanVars, runVars
  <2>3. content.pages = Cardinality(Readable)
    BY DEF Written
  <2> HIDE DEF content
  <2>4. \A o \in Outputs \ {"dashboard.html"} : output'[o] = output[o]
    BY <2>1 DEF ShapeInv
  <2>5. args.dashboard => output'["dashboard.html"].pages = Cardinality(Readable)
    BY <2>1, <2>3 DEF ShapeInv, Outputs
  <2> QED
    BY <1>0, <2>1, <2>2, <2>4, <2>5
    DEF WrittenInv, Outputs, Ends, Ended, FromHistory, FromPrint, FromWebhooks, FromGate
<1>8. CASE WriteComment
  <2> DEFINE content == Written(Shown([category |-> ""]), Verdict)
  <2>1. /\ output' = IF args.prComment THEN [output EXCEPT !["pr-comment.md"] = content] ELSE output
        /\ pc = "comment" /\ pc' = "webhooks" /\ run' = run /\ args' = args /\ history' = history
    BY <1>8 DEF WriteComment, Writes, Goto, runVars
  <2>2. Same
    BY <1>8 DEF WriteComment, Writes, scanVars, runVars
  <2> HIDE DEF content
  <2>3. args.prComment => output'["pr-comment.md"] = content
    BY <2>1 DEF ShapeInv, Outputs
  <2>4. \A o \in Outputs \ {"pr-comment.md"} : output'[o] = output[o]
    BY <2>1 DEF ShapeInv
  <2> QED
    BY <1>0, <2>1, <2>2, <2>3, <2>4
    DEF content, WrittenInv, Outputs, Ends, Ended, FromHistory, FromPrint, FromWebhooks, FromGate
<1>9. CASE SendWebhooks
  <2> DEFINE content == Written(Shown([category |-> ""]), Verdict)
  <2>1. /\ output' = [output EXCEPT !["webhook"] = content] \/ output' = output
        /\ pc = "webhooks" /\ pc' = "gate" /\ run' = run /\ args' = args /\ history' = history
    BY <1>9 DEF SendWebhooks, Writes, Goto, runVars
  <2>2. Same
    BY <1>9 DEF SendWebhooks, Writes, scanVars, runVars
  <2>3. content.gate = Verdict
    BY DEF Written
  <2> HIDE DEF content
  <2>4. \A o \in Outputs \ {"webhook"} : output'[o] = output[o]
    BY <2>1 DEF ShapeInv
  <2>5. output'["webhook"] = content \/ output'["webhook"] = output["webhook"]
    BY <2>1 DEF ShapeInv, Outputs
  <2>6. output["webhook"].run < run
    BY <2>1 DEF WrittenInv
  <2>7. output["webhook"].run # run
    BY <1>a, <2>6 DEF ShapeInv
  <2>8. output'["webhook"].run = run => output'["webhook"].gate = Verdict
    BY <2>3, <2>5, <2>7
  <2> QED
    BY <1>0, <2>1, <2>2, <2>4, <2>8
    DEF WrittenInv, Outputs, Ends, Ended, FromHistory, FromPrint, FromWebhooks, FromGate
<1>10. CASE EndCrawl \/ Checks \/ FinalRules \/ PrintComparison \/ Exit \/ Dies
  BY <1>10, <1>0
  DEF EndCrawl, Checks, FinalRules, PrintComparison, Exit, Dies, Goto, Writes, Answers,
      WrittenInv, ArgsInv, scanVars, runVars, diskVars, endVars, vars, Library, Ends, Ended,
      FromHistory, FromPrint, FromWebhooks, FromGate
<1>11. CASE Abort \/ Fails \/ Answer \/ Catch \/ UNCHANGED vars
  BY <1>11, <1>0
  DEF Abort, Fails, Answer, Catch, Goto, Writes, Answers, WrittenInv, ArgsInv, scanVars,
      runVars, diskVars, endVars, vars, Library, Ends, Ended, FromHistory, FromPrint,
      FromWebhooks, FromGate
<1> QED
  BY <1>1, <1>2, <1>3, <1>4, <1>5, <1>6, <1>7, <1>8, <1>9, <1>10, <1>11 DEF Next

\* The ledger follows the history: a comparison is with the latest snapshot of the
\* other runs, which while this run has none is the latest of all.
LEMMA LedgerStep ==
    ASSUME TypeOK, InputInv, HistoryInv, LedgerInv, [Next]_vars
    PROVE  LedgerInv'
<1>0. history' = history => Readable' = Readable /\ Latest' = Latest
  BY DEF Readable, Latest
<1>a. run \in Nat
  <2>1. run \in 0..MaxRuns
    BY DEF TypeOK
  <2> QED
    BY <2>1, MaxRunsAssumption
<1>b. ASSUME ~ Untold, ~ Untold', UNCHANGED <<history, open, missed>> PROVE LedgerInv'
  BY <1>0, <1>b DEF LedgerInv, Told
<1>1. ASSUME NEW a \in CommandLines, Start(a) PROVE LedgerInv'
  <2>1. ~ Untold /\ ~ Untold' /\ UNCHANGED <<history, open, missed>>
    BY <1>1, FreshIs DEF Start, Goto, Untold
  <2> QED
    BY <1>b, <2>1
<1>2. ASSUME NEW r \in Requests, Scan(r) PROVE LedgerInv'
  <2>1. ~ Untold /\ ~ Untold' /\ UNCHANGED <<history, open, missed>>
    BY <1>2, FreshIs DEF Scan, Goto, Untold
  <2> QED
    BY <1>b, <2>1
<1>3. CASE SaveHistory
  <2>0. pc = "history" /\ pc' = "dashboard" /\ args' = args /\ ~ Untold
    BY <1>3 DEF SaveHistory, Goto, runVars, Untold
  <2>1. CASE args.noHistory
    <3>1. ~ Untold' /\ UNCHANGED <<history, open, missed>>
      BY <1>3, <2>0, <2>1 DEF SaveHistory, Untold
    <3> QED
      BY <1>b, <2>0, <3>1
  <2>2. CASE ~ args.noHistory
    <3>1. history' = Append(history, Snapshot(TRUE, Keys(findings), score.score))
      BY <1>3, <2>2 DEF SaveHistory, Snapshot
    <3>2. Readable' # {} /\ history'[Max(Readable')] = Snapshot(TRUE, Keys(findings), score.score)
      BY <3>1, SavedWhole DEF HistoryInv
    <3>3. Latest' = Keys(findings)
      BY <3>2 DEF Latest, Snapshot
    <3>4. CASE args.compare
      <4>1. \A i \in Readable : history[i].run # run
        <5>1. \A i \in DOMAIN history : history[i].run \in 0..run /\ history[i].run < run
          BY <2>0 DEF HistoryInv
        <5>2. \A k \in 0..run : k < run => k # run
          BY <1>a
        <5> QED
          BY <5>1, <5>2 DEF Readable
      <4>2. Previous = Latest
        BY <4>1 DEF Previous, Latest
      <4>3. comparison' = CompareScans(Latest, Keys(findings)) /\ open' = open /\ missed' = missed
        BY <1>3, <3>4, <4>2 DEF SaveHistory
      <4>4. Told' = (open \ (Latest \ Keys(findings))) \cup (Keys(findings) \ Latest)
        BY <2>0, <2>2, <3>4, <4>3 DEF Told, Untold, CompareScans
      <4>5. Apart(open, Latest) \subseteq missed
        BY <2>0 DEF LedgerInv, Told
      <4>6. Apart((open \ (Latest \ Keys(findings))) \cup (Keys(findings) \ Latest), Keys(findings))
              \subseteq missed
        BY <4>5 DEF Apart
      <4> QED
        BY <3>3, <4>3, <4>4, <4>6 DEF LedgerInv
    <3>5. CASE ~ args.compare
      <4>1. open' = Keys(findings) /\ ~ Untold'
        BY <1>3, <2>0, <2>2, <3>5 DEF SaveHistory, Untold
      <4> QED
        BY <3>3, <4>1 DEF LedgerInv, Told, Apart
    <3> QED
      BY <3>4, <3>5
  <2> QED
    BY <2>1, <2>2
<1>4. CASE PrintComparison
  <2>1. ~ Untold' /\ open' = Told /\ missed' = missed /\ history' = history
    BY <1>4 DEF PrintComparison, Goto, Untold, Told
  <2> QED
    BY <1>0, <2>1 DEF LedgerInv, Told
<1>5. CASE Dies
  <2>1. open' = open /\ ~ Untold'
    BY <1>5 DEF Dies, Goto, Untold
  <2>2. Latest' = Latest
    <3>1. CASE history' = history
      BY <1>0, <3>1
    <3>2. CASE history' = Append(history, Snapshot(FALSE, {}, 0))
      <4>1. Readable' = Readable /\ (Readable # {} => history'[Max(Readable)] = history[Max(Readable)])
        BY <3>2, SavedTorn DEF HistoryInv
      <4> QED
        BY <4>1 DEF Latest
    <3> QED
      BY <1>5, <3>1, <3>2 DEF Dies, Snapshot
  <2>3. CASE Untold
    <3>1. /\ missed' = missed \cup comparison.newIssues \cup comparison.resolvedIssues
          /\ Apart((open \ comparison.resolvedIssues) \cup comparison.newIssues, Latest) \subseteq missed
      BY <1>5, <2>3 DEF Dies, LedgerInv, Told
    <3>2. Apart(open, Latest) \subseteq missed'
      BY <3>1 DEF Apart
    <3> QED
      BY <2>1, <2>2, <3>2 DEF LedgerInv, Told
  <2>4. CASE ~ Untold
    BY <1>5, <2>1, <2>2, <2>4 DEF Dies, LedgerInv, Told
  <2> QED
    BY <2>3, <2>4
<1>6. ASSUME UNCHANGED <<args, comparison, history, open, missed>>, Untold' <=> Untold
      PROVE  LedgerInv'
  BY <1>0, <1>6 DEF LedgerInv, Told
<1>7. CASE OnPage \/ EndCrawl \/ Checks \/ FinalRules \/ WriteJson \/ WriteReports \/
          WriteDashboard \/ WriteComment
  BY <1>6, <1>7
  DEF OnPage, EndCrawl, Checks, FinalRules, WriteJson, WriteReports, WriteDashboard,
      WriteComment, Writes, Goto, Untold, runVars, diskVars
<1>8. CASE SendWebhooks \/ Exit \/ Abort \/ Fails \/ Answer \/ Catch \/ UNCHANGED vars
  BY <1>6, <1>8
  DEF SendWebhooks, Exit, Abort, Fails, Answer, Catch, Writes, Answers, Goto, Untold, runVars,
      diskVars, vars
<1> QED
  BY <1>1, <1>2, <1>3, <1>4, <1>5, <1>7, <1>8 DEF Next

\* An answer is given with every page through, or with nothing.
LEMMA AnswerStep ==
    ASSUME TypeOK, InputInv, ArgsInv, PageInv, AnswersInFull, [Next]_vars
    PROVE  AnswersInFull'
<1>0. findings' = findings => Shown([category |-> ""])' = Shown([category |-> ""])
  BY DEF Shown
<1>1. ASSUME NEW a \in CommandLines, Start(a) PROVE AnswersInFull'
  BY <1>1, CommandIs DEF Start, Goto, Library, AnswersInFull
<1>2. ASSUME NEW r \in Requests, Scan(r) PROVE AnswersInFull'
  BY <1>2 DEF Scan, Goto, AnswersInFull
<1>3. CASE Answer
  <2>1. /\ result' = [status |-> IF site.truncated THEN "partial" ELSE "completed", pages |-> page,
                      score |-> score.score, issues |-> Shown([category |-> ""]),
                      grade |-> LibraryGrade(score)]
        /\ site' = site /\ aborted' = aborted /\ Shown([category |-> ""])' = Shown([category |-> ""])
    BY <1>3 DEF Answer, Answers, Shown, scanVars, runVars
  <2>2. page = Len(site.pages) /\ aborted \in {NotAborted, page}
    BY <1>3 DEF Answer, PageInv
  <2>3. site.truncated \in BOOLEAN
    BY SiteIs DEF InputInv
  <2> QED
    BY <2>1, <2>2, <2>3 DEF AnswersInFull
<1>4. CASE Catch
  BY <1>4, <1>0
  DEF Catch, Goto, Writes, Answers, AnswersInFull, ArgsInv, scanVars, runVars, diskVars,
      endVars, vars, Library
<1>5. CASE OnPage \/ EndCrawl \/ Checks \/ FinalRules \/ WriteJson \/ WriteReports \/
          SaveHistory \/ WriteDashboard \/ PrintComparison
  BY <1>5, <1>0
  DEF OnPage, EndCrawl, Checks, FinalRules, WriteJson, WriteReports, SaveHistory,
      WriteDashboard, PrintComparison, Goto, Writes, Answers, AnswersInFull, ArgsInv, scanVars,
      runVars, diskVars, endVars, vars, Library
<1>6. CASE WriteComment \/ SendWebhooks \/ Exit \/ Dies \/ Abort \/ Fails \/ UNCHANGED vars
  BY <1>6, <1>0
  DEF WriteComment, SendWebhooks, Exit, Dies, Abort, Fails, Goto, Writes, Answers,
      AnswersInFull, ArgsInv, scanVars, runVars, diskVars, endVars, vars, Library
<1> QED
  BY <1>1, <1>2, <1>3, <1>4, <1>5, <1>6 DEF Next

LEMMA InitInv == ASSUME Init PROVE IInv
<1>1. Len(site.pages) \in Nat
  BY SiteIs DEF Init
<1>2. 0 \in 0..MaxRuns /\ 0 \in 0..Len(site.pages) /\ NotAborted \in NotAborted..Len(site.pages)
  BY <1>1, MaxRunsAssumption DEF NotAborted
<1>3. ~ Library /\ ~ Ended({"done", "gate failed"}) /\ ~ Ended({"done"}) /\ ~ Ended({"gate failed"})
  BY CommandIs DEF Init, Library, Ended
<1>4. TypeOK
  BY <1>1, <1>2, NoFindings DEF Init, TypeOK, NoScore, NoResult
<1>5. InputInv
  BY BuiltInIs, EmptyIs, NoContextIs DEF Init, InputInv
<1>6. ArgsInv /\ PageInv /\ ScoreInv
  BY <1>3 DEF Init, ArgsInv, PageInv, ScoreInv, Ends, FromReports
<1>7. HistoryInv
  <2>1. history = <<>> /\ pc = "idle" /\ ~ FromDashboard
    BY <1>3 DEF Init, Ends, FromDashboard
  <2>2. DOMAIN history = {} /\ IsSeq(history)
    BY <2>1, EmptyIs
  <2> QED
    BY <2>1, <2>2 DEF HistoryInv
<1>8. ShapeInv
  BY DEF Init, ShapeInv, NotWritten, Fields, Outputs
<1>9. JsonInv /\ WrittenInv
  BY <1>3 DEF Init, JsonInv, WrittenInv, Ends, FromReports, FromHistory, FromPrint, FromWebhooks,
              FromGate
<1>10. LedgerInv /\ AnswersInFull
  <2>1. Readable = {} /\ ~ Untold
    BY DEF Init, Readable, Untold
  <2>2. Latest = {} /\ Told = {} /\ missed = {}
    BY <2>1 DEF Init, Told, Latest
  <2>3. LedgerInv
    BY <2>2 DEF LedgerInv, Apart
  <2>4. AnswersInFull
    BY <1>3 DEF Init, AnswersInFull
  <2> QED
    BY <2>3, <2>4
<1> QED
  BY <1>4, <1>5, <1>6, <1>7, <1>8, <1>9, <1>10 DEF IInv

LEMMA StepInv == ASSUME IInv, [Next]_vars PROVE IInv'
BY TypeStep, InputStep, ArgsStep, PageStep, ScoreStep, HistoryStep, ShapeStep, JsonStep,
   WrittenStep, LedgerStep, AnswerStep DEF IInv

\* The inductive invariant holds.
THEOREM Invariant == Spec => []IInv
<1> QED
  BY InitInv, StepInv, PTL DEF Spec

\* Every variable keeps its type: the findings of any list of rules, built in or
\* plugins, are findings, the score is between 0 and 100.
THEOREM TypeCorrect == Spec => []TypeOK
<1>1. IInv => TypeOK
  BY DEF IInv
<1> QED
  BY <1>1, Invariant, PTL

\* Whoever follows the comparisons that were printed (index.js: compareScans and
\* saveScanToHistory, later printComparison) has the issues of the latest snapshot
\* that can be read, but for those of a comparison whose run was killed between
\* the two; after any number of runs, killed at any step.
THEOREM LedgerIsExact == Spec => []LedgerExact
<1>1. IInv => LedgerExact
  BY DEF IInv, LedgerInv, LedgerExact, Told, Untold
<1> QED
  BY <1>1, Invariant, PTL

\* scan() answers with the whole crawl or with none of it, and calls a scan
\* cancelled exactly if its signal fired before it failed.
THEOREM AnswersAreInFull == Spec => []AnswersInFull
<1>1. IInv => AnswersInFull
  BY DEF IInv
<1> QED
  BY <1>1, Invariant, PTL

LEMMA Agreed == ASSUME IInv PROVE OutputsAgree
<1> SUFFICES ASSUME Ends PROVE OutputsAgree
  BY DEF OutputsAgree, Ends
<1>1. FromReports /\ FromHistory /\ FromDashboard /\ FromPrint /\ FromWebhooks /\ FromGate
  BY DEF FromReports, FromHistory, FromDashboard, FromPrint, FromWebhooks, FromGate
<1>2. Formats(args) \subseteq {"report.json", "report.html"}
  BY CommandLine, CommandIs DEF IInv, Ends, Ended
<1>3. \A o \in Formats(args) : output[o] = Written(Shown(args), "none")
  BY <1>1, <1>2 DEF IInv, JsonInv, WrittenInv
<1> QED
  BY <1>1, <1>3 DEF IInv, HistoryInv, WrittenInv, OutputsAgree

\* When the command ends (main(), after the last await), the reports, the
\* comment, the dashboard, the webhook and the history are of this run and tell
\* the same, whatever was left of earlier runs.
THEOREM OutputsDoAgree == Spec => []OutputsAgree
BY Agreed, Invariant, PTL

LEMMA HasReason == ASSUME IInv PROVE GateHasReason
<1> DEFINE At(f) == SeverityRank[f.severity] >= SeverityRank[args.failOn]
           groups == AggregateFindings(findings)
<1>1. AreFindings(findings)
  BY DEF IInv, TypeOK
<1>2. ASSUME Ended({"done"}), args.failOn \in Counted
      PROVE  ~ Some(groups, At)
  <2>1. score \in CalculateScore(findings) /\ Verdict # "failed"
    BY <1>2 DEF IInv, ScoreInv, FromReports, Ends, Ended
  <2>2. GatePassed(score, args.failOn, args.minScore)
    BY <1>2, <2>1 DEF Verdict, Gated, Counted, NoThreshold
  <2>3. \A i \in DOMAIN groups :
           ~ SeverityRank[groups[i].severity] >= SeverityRank[args.failOn]
    BY <1>1, <1>2, <2>1, <2>2, PassedIs
  <2> QED
    BY <2>3 DEF Some
<1>3. ASSUME Ended({"gate failed"})
      PROVE  (args.failOn # NoThreshold /\ Some(findings, At)) \/ score.score < args.minScore
  <2>1. score \in CalculateScore(findings) /\ Verdict = "failed" /\ CheckArgs(args) = "scan"
    BY <1>3 DEF IInv, ScoreInv, ArgsInv, FromReports, Ends, Ended
  <2>2. ~ GatePassed(score, args.failOn, args.minScore)
    BY <2>1 DEF Verdict
  <2>3. args.minScore \in 0..100 \cup {NoMinimum}
    BY <2>1 DEF CheckArgs
  <2>4. args.minScore \in Int
    BY <2>3 DEF NoMinimum
  <2>5. \/ /\ args.failOn # NoThreshold
           /\ \E j \in DOMAIN findings :
                 SeverityRank[findings[j].severity] >= SeverityRank[args.failOn]
        \/ score.score < args.minScore
    BY <1>1, <2>1, <2>2, <2>4, FailedIs
  <2> QED
    BY <2>5 DEF Some
<1> QED
  BY <1>2, <1>3 DEF GateHasReason

\* The exit code has a reason in the findings, for every rule set, threshold and
\* minimum (utils/qualityGate.js on what scoring.js counts).
THEOREM GateAlwaysHasReason == Spec => []GateHasReason
BY HasReason, Invariant, PTL

LEMMA Falls ==
    ASSUME IInv, [Next]_vars, run' = run
    PROVE  Tenths(findings') <= Tenths(findings)
<1>1. AreFindings(findings) /\ IsSeq(findings)
  BY DEF IInv, TypeOK, AreFindings
<1>2. ASSUME findings' = findings
      PROVE  Tenths(findings') <= Tenths(findings)
  <2>1. Tenths(findings) \in Int
    BY <1>1, TenthsType
  <2> QED
    BY <1>2, <2>1
<1>3. CASE OnPage
  <2> DEFINE more == RunPerPageRules(site.pages[page + 1], rules)
  <2>1. IsPage(site.pages[page + 1])
    BY <1>3, PageIs DEF OnPage, IInv
  <2>2. AreFindings(more)
    BY <2>1, RunPerPageRulesIs DEF IInv, InputInv
  <2>3. findings' = findings \o more
    BY <1>3 DEF OnPage
  <2> HIDE DEF more
  <2> QED
    BY <1>1, <2>2, <2>3, TenthsFall DEF AreFindings
<1>4. CASE FinalRules
  <2> DEFINE more == RunFinalRules(rules, summaries, context)
  <2>1. AreFindings(more)
    BY RunFinalRulesIs DEF IInv, InputInv
  <2>2. findings' = findings \o more
    BY <1>4 DEF FinalRules
  <2> HIDE DEF more
  <2> QED
    BY <1>1, <2>1, <2>2, TenthsFall DEF AreFindings
<1>5. ASSUME Fresh
      PROVE  FALSE
  BY <1>5, FreshIs DEF IInv
<1>6. CASE Next /\ ~ OnPage /\ ~ FinalRules
  <2>1. findings' = findings
    BY <1>5, <1>6 DEF Next, Start, Scan, EndCrawl, Checks, WriteJson, WriteReports, SaveHistory,
       WriteDashboard, PrintComparison, WriteComment, SendWebhooks, Exit, Dies, Abort, Fails, Answer, Catch, Writes,
       Answers, scanVars
  <2> QED
    BY <1>2, <2>1
<1>7. CASE UNCHANGED vars
  BY <1>2, <1>7 DEF vars, scanVars
<1> QED
  BY <1>3, <1>4, <1>6, <1>7

\* Nothing that is found raises a score (scoring.js: calculateScore), for every
\* rule set and every site: the sum the penalties make only grows.
THEOREM ScoreNeverRises == Spec => ScoreOnlyFalls
<1>1. IInv /\ [Next]_vars
        => [run' = run /\ findings' # findings => Tenths(findings') <= Tenths(findings)]_vars
  BY Falls
<1> QED
  BY <1>1, Invariant, PTL DEF Spec, ScoreOnlyFalls

-------------------------------------------------------------------------------
(***************************************************************************)
(* The stream and the batch: how often an element is in a list, in lists   *)
(* that are put together, and in what the rules of a list have.            *)
(***************************************************************************)

\* How often an element is in a sequence.
Occ(s, x) == Cardinality({ i \in DOMAIN s : s[i] = x })

LEMMA OccEmpty == \A x : Occ(<<>>, x) = 0
<1>1. \A x : { i \in DOMAIN <<>> : <<>>[i] = x } = {}
  OBVIOUS
<1> QED
  BY <1>1, FS_EmptySet DEF Occ

\* An element is in a list if it is there at least once.
LEMMA OccIs ==
    ASSUME NEW S, NEW s \in Seq(S), NEW x
    PROVE  Occ(s, x) \in Nat /\ (Occ(s, x) > 0 <=> x \in Range(s))
<1> DEFINE at == { i \in DOMAIN s : s[i] = x }
<1>1. IsFiniteSet(DOMAIN s)
  <2>1. Len(s) \in Nat /\ DOMAIN s = 1..Len(s)
    OBVIOUS
  <2> QED
    BY <2>1, FS_Interval
<1>2. IsFiniteSet(at)
  <2>1. at \in SUBSET DOMAIN s
    OBVIOUS
  <2> HIDE DEF at
  <2> QED
    BY <1>1, <2>1, FS_Subset
<1>3. x \in Range(s) <=> at # {}
  BY Zenon DEF Range
<1>4. Occ(s, x) = Cardinality(at)
  BY DEF Occ
<1> HIDE DEF at
<1>5. Cardinality(at) \in Nat /\ (Cardinality(at) = 0 <=> at = {})
  BY <1>2, FS_CardinalityType, FS_EmptySet
<1> QED
  BY <1>3, <1>4, <1>5

\* One element more.
LEMMA OccAppend ==
    ASSUME NEW S, NEW s \in Seq(S), NEW y \in S, NEW x
    PROVE  Occ(Append(s, y), x) = Occ(s, x) + (IF y = x THEN 1 ELSE 0)
<1> DEFINE t == Append(s, y)
           at == { i \in DOMAIN s : s[i] = x }
           now == { i \in DOMAIN t : t[i] = x }
           n == Len(s) + 1
<1>1. /\ DOMAIN t = DOMAIN s \cup {n} /\ n \notin DOMAIN s
      /\ \A i \in DOMAIN s : t[i] = s[i]
      /\ t[n] = y
  BY AppendIs
<1>2. IsFiniteSet(at)
  <2>1. Len(s) \in Nat /\ DOMAIN s = 1..Len(s)
    OBVIOUS
  <2>2. IsFiniteSet(DOMAIN s) /\ at \in SUBSET DOMAIN s
    BY <2>1, FS_Interval
  <2> HIDE DEF at
  <2> QED
    BY <2>2, FS_Subset
<1>3. Occ(s, x) = Cardinality(at) /\ Occ(t, x) = Cardinality(now)
  BY DEF Occ
<1>4. now = IF y = x THEN at \cup {n} ELSE at
  <2> HIDE DEF t, n
  <2> QED
    BY <1>1
<1>5. n \notin at
  BY <1>1
<1> HIDE DEF t, n, at, now
<1>6. Cardinality(at) \in Nat
  BY <1>2, FS_CardinalityType
<1>7. CASE y = x
  BY <1>2, <1>3, <1>4, <1>5, <1>7, FS_AddElement DEF t
<1>8. CASE y # x
  BY <1>3, <1>4, <1>6, <1>8 DEF t
<1> QED
  BY <1>7, <1>8

\* One after the other.
LEMMA OccConcat ==
    ASSUME NEW S, NEW s \in Seq(S), NEW t \in Seq(S), NEW x
    PROVE  Occ(s \o t, x) = Occ(s, x) + Occ(t, x)
<1> DEFINE U == { q \in Seq(S) : Occ(s \o q, x) = Occ(s, x) + Occ(q, x) }
<1>1. <<>> \in U
  <2>1. s \o <<>> = s /\ <<>> \in Seq(S)
    OBVIOUS
  <2>2. Occ(s, x) \in Nat
    BY OccIs
  <2> QED
    BY <2>1, <2>2, OccEmpty
<1>2. ASSUME NEW q \in Seq(S), NEW y \in S, q \in U PROVE Append(q, y) \in U
  <2>1. s \o Append(q, y) = Append(s \o q, y) /\ s \o q \in Seq(S) /\ Append(q, y) \in Seq(S)
    OBVIOUS
  <2>2. Occ(s \o Append(q, y), x) = Occ(s \o q, x) + (IF y = x THEN 1 ELSE 0)
    <3>1. \A r \in Seq(S) : Occ(Append(r, y), x) = Occ(r, x) + (IF y = x THEN 1 ELSE 0)
      BY OccAppend
    <3> QED
      BY <2>1, <3>1, Zenon
  <2>3. Occ(Append(q, y), x) = Occ(q, x) + (IF y = x THEN 1 ELSE 0)
    BY OccAppend
  <2>4. Occ(s, x) \in Nat /\ Occ(q, x) \in Nat
    BY OccIs
  <2>5. Occ(s \o q, x) = Occ(s, x) + Occ(q, x)
    BY <1>2
  <2>6. Occ(s \o Append(q, y), x) = Occ(s, x) + Occ(Append(q, y), x)
    BY <2>2, <2>3, <2>4, <2>5
  <2> QED
    BY <2>1, <2>6
<1> HIDE DEF U
<1>3. t \in U
  BY <1>1, <1>2, SeqInduction
<1> QED
  BY <1>3 DEF U

\* Lists put together, one more of them.
LEMMA FlattenMore ==
    ASSUME NEW S, NEW k \in Nat, NEW g, \A i \in 1..(k + 1) : g[i] \in Seq(S)
    PROVE  /\ FlattenSeq([i \in 1..(k + 1) |-> g[i]]) = FlattenSeq([i \in 1..k |-> g[i]]) \o g[k + 1]
           /\ FlattenSeq([i \in 1..k |-> g[i]]) \in Seq(S)
           /\ g[k + 1] \in Seq(S)
<1> DEFINE d == [i \in 1..k |-> g[i]]
           e == [i \in 1..(k + 1) |-> g[i]]
           h == Append(d, g[k + 1])
<1>1. /\ \A i \in 1..(k + 1) : i \in 1..k \/ i = k + 1
      /\ \A i \in 1..k : i \in 1..(k + 1)
      /\ k + 1 \in 1..(k + 1) /\ k + 1 \in Nat
  OBVIOUS
<1>2. /\ DOMAIN d = 1..k /\ d = [i \in 1..k |-> d[i]]
      /\ \A i \in 1..k : d[i] = g[i] /\ d[i] \in Seq(S)
  BY <1>1
<1>3. /\ DOMAIN e = 1..(k + 1) /\ e = [i \in 1..(k + 1) |-> e[i]]
      /\ \A i \in 1..(k + 1) : e[i] = g[i] /\ e[i] \in Seq(S)
  OBVIOUS
<1> HIDE DEF d, e
<1>4. d \in Seq(Seq(S)) /\ Len(d) = k
  BY <1>2, ListOfLists, ListIs
<1>5. e \in Seq(Seq(S)) /\ Len(e) = k + 1
  BY <1>1, <1>3, ListOfLists, ListIs
<1>6. g[k + 1] \in Seq(S)
  BY <1>1
<1>7. /\ h \in Seq(Seq(S)) /\ Len(h) = k + 1
      /\ \A i \in 1..k : h[i] = d[i]
      /\ h[k + 1] = g[k + 1]
  BY <1>2, <1>4, <1>6, AppendIs
<1>8. \A i \in 1..(k + 1) : e[i] = h[i]
  BY <1>1, <1>2, <1>3, <1>7
<1> HIDE DEF h
<1>9. e = h
  BY <1>5, <1>7, <1>8, SeqEqual
<1>10. FlattenSeq(e) = FlattenSeq(d) \o g[k + 1] /\ FlattenSeq(d) \in Seq(S)
  BY <1>4, <1>6, <1>9, FlattenAppend, Flattened DEF h
<1> QED
  BY <1>6, <1>10 DEF d, e

\* A list for each number, and those up to the k-th put together.
AreLists(g, n, S) == \A i \in 1..n : g[i] \in Seq(S)
AreJoined(c, a, b, n) == \A i \in 1..n : c[i] = a[i] \o b[i]
UpTo(g, k) == FlattenSeq([i \in 1..k |-> g[i]])

\* One list more.
LEMMA UpToIs ==
    ASSUME NEW S, NEW n \in Nat, NEW g, AreLists(g, n, S), NEW m \in 1..n, NEW x
    PROVE  /\ Occ(UpTo(g, m), x) = Occ(UpTo(g, m - 1), x) + Occ(g[m], x)
           /\ Occ(UpTo(g, m - 1), x) \in Nat /\ Occ(g[m], x) \in Nat
<1> DEFINE k == m - 1
<1>1. UpTo(g, k) \in Seq(S) /\ UpTo(g, m) = UpTo(g, k) \o g[m] /\ g[m] \in Seq(S)
  <2>1. /\ \A i \in 1..(k + 1) : g[i] \in Seq(S)
        /\ k \in Nat /\ k + 1 = m
    BY DEF AreLists
  <2> HIDE DEF k
  <2> QED
    BY <2>1, FlattenMore DEF UpTo
<1> DEFINE s == UpTo(g, k)
           r == g[m]
<1>2. s \in Seq(S) /\ r \in Seq(S)
  BY <1>1
<1> HIDE DEF s, r
<1>3. Occ(s \o r, x) = Occ(s, x) + Occ(r, x) /\ Occ(s, x) \in Nat /\ Occ(r, x) \in Nat
  BY <1>2, OccConcat, OccIs
<1> QED
  BY <1>1, <1>3 DEF s, r

LEMMA UpToNone == \A g : UpTo(g, 0) = <<>>
<1>1. \A g : [i \in 1..0 |-> g[i]] = <<>>
  OBVIOUS
<1> QED
  BY <1>1, FlattenEmpty DEF UpTo

\* Lists put together pairwise: what is in them is in the ones or the others.
LEMMA OccPairs ==
    ASSUME NEW S, NEW n \in Nat, NEW x,
           NEW a, AreLists(a, n, S), NEW b, AreLists(b, n, S), NEW c, AreLists(c, n, S),
           AreJoined(c, a, b, n)
    PROVE  Occ(UpTo(c, n), x) = Occ(UpTo(a, n), x) + Occ(UpTo(b, n), x)
<1> DEFINE Of(g, k) == Occ(UpTo(g, k), x)
           U == { k \in Nat : k <= n => Of(c, k) = Of(a, k) + Of(b, k) }
<1>1. \A g : Of(g, 0) = 0
  BY UpToNone, OccEmpty
<1>2. ASSUME NEW m \in 1..n
      PROVE  /\ Of(a, m) = Of(a, m - 1) + Occ(a[m], x) /\ Of(a, m - 1) \in Nat /\ Occ(a[m], x) \in Nat
             /\ Of(b, m) = Of(b, m - 1) + Occ(b[m], x) /\ Of(b, m - 1) \in Nat /\ Occ(b[m], x) \in Nat
             /\ Of(c, m) = Of(c, m - 1) + Occ(c[m], x)
             /\ Occ(c[m], x) = Occ(a[m], x) + Occ(b[m], x)
  <2> HIDE DEF U
  <2>1. Of(a, m) = Of(a, m - 1) + Occ(a[m], x) /\ Of(a, m - 1) \in Nat /\ Occ(a[m], x) \in Nat
    BY UpToIs
  <2>2. Of(b, m) = Of(b, m - 1) + Occ(b[m], x) /\ Of(b, m - 1) \in Nat /\ Occ(b[m], x) \in Nat
    BY UpToIs
  <2>3. Of(c, m) = Of(c, m - 1) + Occ(c[m], x)
    BY UpToIs
  <2>4. a[m] \in Seq(S) /\ b[m] \in Seq(S) /\ c[m] = a[m] \o b[m]
    BY Zenon DEF AreLists, AreJoined
  <2>5. Occ(c[m], x) = Occ(a[m], x) + Occ(b[m], x)
    BY <2>4, OccConcat
  <2> HIDE DEF Of
  <2> QED
    BY <2>1, <2>2, <2>3, <2>5
<1> HIDE DEF Of
<1>3. 0 \in U
  BY <1>1
<1>4. ASSUME NEW k \in Nat, k \in U PROVE k + 1 \in U
  <2> SUFFICES ASSUME NEW m \in 1..n, m = k + 1 PROVE Of(c, m) = Of(a, m) + Of(b, m)
    OBVIOUS
  <2>1. m - 1 = k /\ Of(c, m - 1) = Of(a, m - 1) + Of(b, m - 1)
    BY <1>4
  <2> HIDE DEF U
  <2> QED
    BY <1>2, <2>1
<1> HIDE DEF U
<1>5. n \in U
  BY <1>3, <1>4, Induction
<1> QED
  BY <1>5 DEF U, Of

\* The elements of a list that are in a set, and the lists that a function has
\* for the elements of a list, put together.
Kept(s, K) == FlattenSeq([i \in DOMAIN s |-> IF s[i] \in K THEN <<s[i]>> ELSE <<>>])
All(s, F) == FlattenSeq([i \in DOMAIN s |-> F[s[i]]])
HasLists(F, T, S) == \A r \in T : F[r] \in Seq(S)

\* The elements that are kept are some of them; one more is kept or it is not.
LEMMA SomeKept == ASSUME NEW T, NEW s \in Seq(T), NEW K PROVE Kept(s, K) \in Seq(T)
<1> DEFINE e == [i \in DOMAIN s |-> IF s[i] \in K THEN <<s[i]>> ELSE <<>>]
           n == Len(s)
<1>1. n \in Nat /\ DOMAIN s = 1..n
  OBVIOUS
<1>2. DOMAIN e = 1..n /\ e = [i \in 1..n |-> e[i]] /\ \A i \in 1..n : e[i] \in Seq(T)
  BY <1>1
<1>3. Kept(s, K) = FlattenSeq(e)
  BY DEF Kept
<1> HIDE DEF e, n
<1>4. e \in Seq(Seq(T))
  BY <1>1, <1>2, ListOfLists
<1> QED
  BY <1>3, <1>4, Flattened

LEMMA KeptAppend ==
    ASSUME NEW T, NEW s \in Seq(T), NEW y \in T, NEW K
    PROVE  /\ y \in K => Kept(Append(s, y), K) = Append(Kept(s, K), y)
           /\ y \notin K => Kept(Append(s, y), K) = Kept(s, K)
<1> DEFINE n == Len(s)
           t == Append(s, y)
           g == [i \in 1..(n + 1) |-> IF t[i] \in K THEN <<t[i]>> ELSE <<>>]
           d == [i \in 1..n |-> g[i]]
<1>1. /\ n \in Nat /\ DOMAIN s = 1..n /\ DOMAIN t = 1..(n + 1)
      /\ \A i \in 1..n : t[i] = s[i]
      /\ t[n + 1] = y
      /\ \A i \in 1..(n + 1) : t[i] \in T
  <2>1. t \in Seq(T) /\ Len(t) = n + 1
    BY AppendIs
  <2> QED
    BY <2>1, AppendIs
<1> HIDE DEF t, n
<1>2. \A i \in 1..(n + 1) : g[i] \in Seq(T)
  <2>1. \A z \in T : <<z>> \in Seq(T) /\ <<>> \in Seq(T)
    OBVIOUS
  <2> QED
    BY <1>1, <2>1
<1>3. g = [i \in 1..(n + 1) |-> g[i]] /\ n + 1 \in 1..(n + 1) /\ \A i \in 1..n : i \in 1..(n + 1)
  BY <1>1
<1>4. Kept(t, K) = FlattenSeq(g)
  BY <1>1 DEF Kept
<1>5. Kept(s, K) = FlattenSeq(d)
  <2>1. d = [i \in DOMAIN s |-> IF s[i] \in K THEN <<s[i]>> ELSE <<>>]
    BY <1>1, <1>3
  <2> QED
    BY <2>1 DEF Kept
<1>6. g[n + 1] = IF y \in K THEN <<y>> ELSE <<>>
  BY <1>1, <1>3
<1> HIDE DEF g
<1>7. FlattenSeq(g) = FlattenSeq(d) \o g[n + 1] /\ FlattenSeq(d) \in Seq(T)
  BY <1>1, <1>2, <1>3, FlattenMore
<1> HIDE DEF d
<1>8. Kept(s, K) \o <<>> = Kept(s, K) /\ Kept(s, K) \o <<y>> = Append(Kept(s, K), y)
  BY <1>5, <1>7
<1> QED
  BY <1>4, <1>5, <1>6, <1>7, <1>8, Zenon DEF t

LEMMA KeptOne ==
    ASSUME NEW T, NEW s \in Seq(T), NEW y \in T, NEW K, y \in K
    PROVE  Kept(Append(s, y), K) = Append(Kept(s, K), y)
  BY KeptAppend

LEMMA KeptNotOne ==
    ASSUME NEW T, NEW s \in Seq(T), NEW y \in T, NEW K, y \notin K
    PROVE  Kept(Append(s, y), K) = Kept(s, K)
  BY KeptAppend

\* What a list that is longer by one has, put together, is longer by that.
LEMMA AllAppend ==
    ASSUME NEW T, NEW S, NEW F, HasLists(F, T, S), NEW s \in Seq(T), NEW y \in T
    PROVE  /\ All(s, F) \in Seq(S) /\ F[y] \in Seq(S)
           /\ All(Append(s, y), F) = All(s, F) \o F[y]
<1> DEFINE n == Len(s)
           t == Append(s, y)
           g == [i \in 1..(n + 1) |-> F[t[i]]]
           d == [i \in 1..n |-> g[i]]
<1>1. /\ n \in Nat /\ DOMAIN s = 1..n /\ DOMAIN t = 1..(n + 1)
      /\ \A i \in 1..n : t[i] = s[i]
      /\ t[n + 1] = y
      /\ \A i \in 1..(n + 1) : t[i] \in T
  <2>1. t \in Seq(T) /\ Len(t) = n + 1
    BY AppendIs
  <2> QED
    BY <2>1, AppendIs
<1> HIDE DEF t, n
<1>2. \A i \in 1..(n + 1) : g[i] \in Seq(S)
  BY <1>1 DEF HasLists
<1>3. g = [i \in 1..(n + 1) |-> g[i]] /\ n + 1 \in 1..(n + 1) /\ \A i \in 1..n : i \in 1..(n + 1)
  BY <1>1
<1>4. All(t, F) = FlattenSeq(g)
  BY <1>1 DEF All
<1>5. All(s, F) = FlattenSeq(d)
  <2>1. d = [i \in DOMAIN s |-> F[s[i]]]
    BY <1>1, <1>3
  <2> QED
    BY <2>1 DEF All
<1>6. g[n + 1] = F[y] /\ F[y] \in Seq(S)
  BY <1>1, <1>3 DEF HasLists
<1> HIDE DEF g
<1>7. FlattenSeq(g) = FlattenSeq(d) \o g[n + 1] /\ FlattenSeq(d) \in Seq(S)
  BY <1>1, <1>2, <1>3, FlattenMore
<1> QED
  BY <1>4, <1>5, <1>6, <1>7, Zenon DEF t

LEMMA NoneKept == \A K, F : Kept(<<>>, K) = <<>> /\ All(<<>>, F) = <<>>
<1>1. \A K, F : /\ [i \in DOMAIN <<>> |-> IF <<>>[i] \in K THEN <<<<>>[i]>> ELSE <<>>] = <<>>
                /\ [i \in DOMAIN <<>> |-> F[<<>>[i]]] = <<>>
  OBVIOUS
<1> QED
  BY <1>1, FlattenEmpty DEF Kept, All

\* Two tests, one after the other.
LEMMA KeptTwice ==
    ASSUME NEW T, NEW s \in Seq(T), NEW K, NEW L
    PROVE  Kept(Kept(s, K), L) = Kept(s, K \cap L)
<1> DEFINE U == { q \in Seq(T) : Kept(Kept(q, K), L) = Kept(q, K \cap L) }
<1>1. <<>> \in U
  BY NoneKept, EmptySeq
<1>2. ASSUME NEW q \in Seq(T), NEW y \in T, q \in U PROVE Append(q, y) \in U
  <2>1. Kept(q, K) \in Seq(T) /\ Append(q, y) \in Seq(T) /\ Kept(Kept(q, K), L) = Kept(q, K \cap L)
    BY <1>2, SomeKept
  <2> HIDE DEF U
  <2>2. Kept(Kept(Append(q, y), K), L) = Kept(Append(q, y), K \cap L)
    <3>1. CASE y \in K /\ y \in L
      <4>1. Kept(Append(q, y), K) = Append(Kept(q, K), y)
        BY <3>1, KeptOne
      <4>2. Kept(Append(Kept(q, K), y), L) = Append(Kept(Kept(q, K), L), y)
        BY <2>1, <3>1, KeptOne
      <4>3. y \in K \cap L
        BY <3>1
      <4>4. Kept(Append(q, y), K \cap L) = Append(Kept(q, K \cap L), y)
        BY <4>3, KeptOne
      <4> QED
        BY <2>1, <4>1, <4>2, <4>4
    <3>2. CASE y \in K /\ y \notin L
      <4>1. Kept(Append(q, y), K) = Append(Kept(q, K), y)
        BY <3>2, KeptOne
      <4>2. Kept(Append(Kept(q, K), y), L) = Kept(Kept(q, K), L)
        BY <2>1, <3>2, KeptNotOne
      <4>3. y \notin K \cap L
        BY <3>2
      <4>4. Kept(Append(q, y), K \cap L) = Kept(q, K \cap L)
        BY <4>3, KeptNotOne
      <4> QED
        BY <2>1, <4>1, <4>2, <4>4
    <3>3. CASE y \notin K
      <4>1. Kept(Append(q, y), K) = Kept(q, K)
        BY <3>3, KeptNotOne
      <4>2. y \notin K \cap L
        BY <3>3
      <4>3. Kept(Append(q, y), K \cap L) = Kept(q, K \cap L)
        BY <4>2, KeptNotOne
      <4> QED
        BY <2>1, <4>1, <4>3
    <3> QED
      BY <3>1, <3>2, <3>3
  <2> QED
    BY <2>1, <2>2 DEF U
<1> HIDE DEF U
<1>3. s \in U
  BY <1>1, <1>2, SeqInduction
<1> QED
  BY <1>3 DEF U

\* What the elements in K have, put together.
Gather(s, K, F) == All(Kept(s, K), F)

LEMMA GatherType ==
    ASSUME NEW T, NEW S, NEW F, HasLists(F, T, S), NEW s \in Seq(T), NEW K
    PROVE  Gather(s, K, F) \in Seq(S)
<1> DEFINE k == Kept(s, K)
           e == [i \in DOMAIN k |-> F[k[i]]]
           n == Len(k)
<1>1. k \in Seq(T)
  BY SomeKept
<1> HIDE DEF k
<1>2. n \in Nat /\ DOMAIN k = 1..n /\ \A i \in DOMAIN k : k[i] \in T
  BY <1>1
<1>3. DOMAIN e = 1..n /\ e = [i \in 1..n |-> e[i]] /\ \A i \in 1..n : e[i] \in Seq(S)
  BY <1>2 DEF HasLists
<1>4. Gather(s, K, F) = FlattenSeq(e)
  BY DEF Gather, All, k
<1> HIDE DEF e, n
<1>5. e \in Seq(Seq(S))
  BY <1>2, <1>3, ListOfLists
<1> QED
  BY <1>4, <1>5, Flattened

LEMMA GatherAppend ==
    ASSUME NEW T, NEW S, NEW F, HasLists(F, T, S), NEW s \in Seq(T), NEW y \in T, NEW K
    PROVE  /\ Gather(Append(s, y), K, F) = Gather(s, K, F) \o (IF y \in K THEN F[y] ELSE <<>>)
           /\ Gather(s, K, F) \in Seq(S) /\ Gather(Append(s, y), K, F) \in Seq(S)
           /\ F[y] \in Seq(S)
<1> DEFINE k == Kept(s, K)
           kk == Kept(Append(s, y), K)
<1>1. k \in Seq(T)
  BY SomeKept
<1>2. (y \in K => kk = Append(k, y)) /\ (y \notin K => kk = k)
  <2>1. ASSUME y \in K PROVE kk = Append(k, y)
    BY <2>1, KeptOne
  <2>2. ASSUME y \notin K PROVE kk = k
    BY <2>2, KeptNotOne
  <2> QED
    BY <2>1, <2>2
<1> HIDE DEF k, kk
<1>3. All(k, F) \in Seq(S) /\ F[y] \in Seq(S) /\ All(Append(k, y), F) = All(k, F) \o F[y]
  BY <1>1, AllAppend
<1> DEFINE a == All(k, F)
           b == F[y]
<1>4. /\ a \in Seq(S) /\ b \in Seq(S)
      /\ All(kk, F) = IF y \in K THEN a \o b ELSE a
  BY <1>2, <1>3, Zenon
<1> HIDE DEF a, b
<1>5. a \o <<>> = a /\ a \o b \in Seq(S)
  BY <1>4
<1>6. All(kk, F) = a \o (IF y \in K THEN b ELSE <<>>) /\ All(kk, F) \in Seq(S)
  BY <1>4, <1>5, Zenon
<1> QED
  BY <1>4, <1>6, Zenon DEF Gather, k, kk, a, b


LEMMA UpToList ==
    ASSUME NEW S, NEW n \in Nat, NEW g, AreLists(g, n, S), NEW x
    PROVE  UpTo(g, n) \in Seq(S) /\ Occ(UpTo(g, n), x) \in Nat
<1> DEFINE e == [i \in 1..n |-> g[i]]
<1>1. DOMAIN e = 1..n /\ e = [i \in 1..n |-> e[i]] /\ \A i \in 1..n : e[i] \in Seq(S)
  BY DEF AreLists
<1>2. UpTo(g, n) = FlattenSeq(e)
  BY DEF UpTo
<1> HIDE DEF e
<1>3. e \in Seq(Seq(S))
  BY <1>1, ListOfLists
<1>4. UpTo(g, n) \in Seq(S)
  BY <1>2, <1>3, Flattened
<1> QED
  BY <1>4, OccIs

\* For each of n numbers a set of rules and what each of these has.
AllHave(F, n, T, S) == \A i \in 1..n : HasLists(F[i], T, S)
Each(K, F, n, q) == [i \in 1..n |-> Gather(q, K[i], F[i])]
Part(K, F, n, r) == [i \in 1..n |-> IF r \in K[i] THEN F[i][r] ELSE <<>>]
Whole(F, n, r) == [i \in 1..n |-> F[i][r]]

\* With a rule more, the lists of each number are longer by its own.
LEMMA EachAppend ==
    ASSUME NEW T, NEW S, NEW n \in Nat, NEW F, AllHave(F, n, T, S), NEW K,
           NEW s \in Seq(T), NEW y \in T, NEW x
    PROVE  Occ(UpTo(Each(K, F, n, Append(s, y)), n), x)
             = Occ(UpTo(Each(K, F, n, s), n), x) + Occ(UpTo(Part(K, F, n, y), n), x)
<1> DEFINE a == Each(K, F, n, s)
           b == Part(K, F, n, y)
           c == Each(K, F, n, Append(s, y))
<1>1. ASSUME NEW i \in 1..n
      PROVE  a[i] \in Seq(S) /\ b[i] \in Seq(S) /\ c[i] \in Seq(S) /\ c[i] = a[i] \o b[i]
  <2> DEFINE f == F[i]
             k == K[i]
  <2>1. HasLists(f, T, S)
    BY DEF AllHave
  <2>2. /\ a[i] = Gather(s, k, f) /\ c[i] = Gather(Append(s, y), k, f)
        /\ b[i] = IF y \in k THEN f[y] ELSE <<>>
    BY DEF Each, Part
  <2> HIDE DEF f, k, a, b, c
  <2>3. /\ Gather(Append(s, y), k, f) = Gather(s, k, f) \o (IF y \in k THEN f[y] ELSE <<>>)
        /\ Gather(s, k, f) \in Seq(S) /\ Gather(Append(s, y), k, f) \in Seq(S)
        /\ f[y] \in Seq(S)
    BY <2>1, GatherAppend
  <2>4. <<>> \in Seq(S)
    OBVIOUS
  <2> QED
    BY <2>2, <2>3, <2>4, Zenon
<1> HIDE DEF a, b, c
<1>2. AreLists(a, n, S) /\ AreLists(b, n, S) /\ AreLists(c, n, S) /\ AreJoined(c, a, b, n)
  BY <1>1, Zenon DEF AreLists, AreJoined
<1>3. Occ(UpTo(c, n), x) = Occ(UpTo(a, n), x) + Occ(UpTo(b, n), x)
  BY <1>2, OccPairs
<1> QED
  BY <1>2, <1>3 DEF a, b, c

\* Empty lists put together are empty.
LEMMA OccNone ==
    ASSUME NEW n \in Nat, NEW g, \A i \in 1..n : g[i] = <<>>, NEW x
    PROVE  Occ(UpTo(g, n), x) = 0
<1>1. AreLists(g, n, {}) /\ AreJoined(g, g, g, n)
  <2>1. <<>> \in Seq({}) /\ <<>> \o <<>> = <<>>
    OBVIOUS
  <2> QED
    BY <2>1, Zenon DEF AreLists, AreJoined
<1>2. Occ(UpTo(g, n), x) = Occ(UpTo(g, n), x) + Occ(UpTo(g, n), x)
  BY <1>1, OccPairs
<1>3. Occ(UpTo(g, n), x) \in Nat
  BY <1>1, UpToList
<1> QED
  BY <1>2, <1>3

\* What a rule has on its own: all its lists and a last one.
Own(F, G, n, T) == [r \in T |-> UpTo(Whole(F, n, r), n) \o G[r]]

LEMMA OwnIs ==
    ASSUME NEW T, NEW S, NEW n \in Nat, NEW F, AllHave(F, n, T, S), NEW G, HasLists(G, T, S)
    PROVE  HasLists(Own(F, G, n, T), T, S)
<1>1. ASSUME NEW r \in T PROVE Own(F, G, n, T)[r] \in Seq(S)
  <2>1. AreLists(Whole(F, n, r), n, S) /\ G[r] \in Seq(S)
    BY DEF AreLists, Whole, AllHave, HasLists
  <2>2. UpTo(Whole(F, n, r), n) \in Seq(S)
    BY <2>1, UpToList
  <2>3. UpTo(Whole(F, n, r), n) \o G[r] \in Seq(S)
    BY <2>1, <2>2
  <2> QED
    BY <2>3 DEF Own
<1> QED
  BY <1>1 DEF HasLists

\* A rule in B is in every K[i] and in L, or has nothing there.
Covered(B, K, L, F, G, n, T) ==
    \A r \in T : r \in B =>
        /\ \A i \in 1..n : r \in K[i] \/ F[i][r] = <<>>
        /\ r \in L \/ G[r] = <<>>
Confined(B, K, L, F, G, n, T) ==
    \A r \in T : r \notin B =>
        /\ \A i \in 1..n : r \notin K[i] \/ F[i][r] = <<>>
        /\ r \notin L \/ G[r] = <<>>

\* What one rule has, taken either way.
LEMMA OneRule ==
    ASSUME NEW T, NEW S, NEW n \in Nat, NEW F, AllHave(F, n, T, S), NEW G, HasLists(G, T, S),
           NEW B, NEW K, NEW L, NEW y \in T, NEW x, Covered(B, K, L, F, G, n, T)
    PROVE  LET one == IF y \in B THEN Occ(Own(F, G, n, T)[y], x) ELSE 0
               parts == Occ(UpTo(Part(K, F, n, y), n), x) + (IF y \in L THEN Occ(G[y], x) ELSE 0)
           IN  /\ one <= parts
               /\ Confined(B, K, L, F, G, n, T) => one = parts
<1> DEFINE w == Whole(F, n, y)
           b == Part(K, F, n, y)
           g == G[y]
           o == Own(F, G, n, T)[y]
<1>1. \A i \in 1..n : /\ w[i] = F[i][y] /\ w[i] \in Seq(S)
                      /\ b[i] = IF y \in K[i] THEN F[i][y] ELSE <<>>
  BY DEF Whole, Part, AllHave, HasLists
<1>2. AreLists(w, n, S) /\ AreLists(b, n, S)
  <2>1. <<>> \in Seq(S)
    OBVIOUS
  <2> HIDE DEF w, b
  <2> QED
    BY <1>1, <2>1 DEF AreLists
<1>3. o = UpTo(w, n) \o g /\ g \in Seq(S) /\ UpTo(w, n) \in Seq(S)
  BY <1>2, UpToList DEF Own, HasLists
<1>4. Occ(UpTo(b, n), x) \in Nat
  BY <1>2, UpToList
<1>5. w = [i \in 1..n |-> w[i]] /\ b = [i \in 1..n |-> b[i]]
  BY DEF Whole, Part
<1> DEFINE u == UpTo(w, n)
<1>6. o = u \o g /\ u \in Seq(S) /\ g \in Seq(S)
  BY <1>3
<1> HIDE DEF w, b, o, u, g
<1>7. Occ(o, x) = Occ(u, x) + Occ(g, x) /\ Occ(u, x) \in Nat /\ Occ(g, x) \in Nat
  BY <1>6, OccConcat, OccIs
<1>8. y \in B => Occ(UpTo(b, n), x) = Occ(u, x) /\ (y \in L \/ Occ(g, x) = 0)
  <2> SUFFICES ASSUME y \in B PROVE Occ(UpTo(b, n), x) = Occ(u, x) /\ (y \in L \/ Occ(g, x) = 0)
    OBVIOUS
  <2>1. \A i \in 1..n : y \in K[i] \/ F[i][y] = <<>>
    BY DEF Covered
  <2>2. y \in L \/ g = <<>>
    BY DEF Covered, g
  <2>3. w = b
    BY <1>1, <1>5, <2>1
  <2> QED
    BY <2>2, <2>3, OccEmpty DEF u
<1>9. y \notin B /\ Confined(B, K, L, F, G, n, T)
        => Occ(UpTo(b, n), x) = 0 /\ (y \notin L \/ Occ(g, x) = 0)
  <2> SUFFICES ASSUME y \notin B, Confined(B, K, L, F, G, n, T)
               PROVE  Occ(UpTo(b, n), x) = 0 /\ (y \notin L \/ Occ(g, x) = 0)
    OBVIOUS
  <2>1. \A i \in 1..n : y \notin K[i] \/ F[i][y] = <<>>
    BY DEF Confined
  <2>2. y \notin L \/ g = <<>>
    BY DEF Confined, g
  <2>3. \A i \in 1..n : b[i] = <<>>
    BY <1>1, <2>1
  <2> QED
    BY <2>2, <2>3, OccNone, OccEmpty
<1>10. LET one == IF y \in B THEN Occ(o, x) ELSE 0
           parts == Occ(UpTo(b, n), x) + (IF y \in L THEN Occ(g, x) ELSE 0)
       IN  /\ one <= parts
           /\ Confined(B, K, L, F, G, n, T) => one = parts
  BY <1>4, <1>7, <1>8, <1>9
<1> QED
  BY <1>10 DEF o, b, g

LEMMA GatherStep ==
    \A F, T, S, K, x : HasLists(F, T, S) =>
        \A s \in Seq(T) : \A y \in T :
            /\ Occ(Gather(Append(s, y), K, F), x)
                 = Occ(Gather(s, K, F), x) + (IF y \in K THEN Occ(F[y], x) ELSE 0)
            /\ Occ(F[y], x) \in Nat
<1> SUFFICES ASSUME NEW F, NEW T, NEW S, NEW K, NEW x, HasLists(F, T, S),
                    NEW s \in Seq(T), NEW y \in T
             PROVE  /\ Occ(Gather(Append(s, y), K, F), x)
                         = Occ(Gather(s, K, F), x) + (IF y \in K THEN Occ(F[y], x) ELSE 0)
                    /\ Occ(F[y], x) \in Nat
  OBVIOUS
<1> DEFINE a == Gather(s, K, F)
           g == F[y]
<1>1. /\ Gather(Append(s, y), K, F) = a \o (IF y \in K THEN g ELSE <<>>)
      /\ a \in Seq(S) /\ g \in Seq(S)
  BY GatherAppend
<1> HIDE DEF a, g
<1>2. /\ Occ(a \o g, x) = Occ(a, x) + Occ(g, x) /\ Occ(a, x) \in Nat /\ Occ(g, x) \in Nat
      /\ a \o <<>> = a
  BY <1>1, OccConcat, OccIs
<1>3. Occ(Gather(Append(s, y), K, F), x) = Occ(a, x) + (IF y \in K THEN Occ(g, x) ELSE 0)
  <2>1. CASE y \in K
    BY <1>1, <1>2, <2>1
  <2>2. CASE y \notin K
    BY <1>1, <1>2, <2>2
  <2> QED
    BY <2>1, <2>2
<1> QED
  BY <1>2, <1>3 DEF a, g

LEMMA PartIs ==
    ASSUME NEW T, NEW S, NEW n \in Nat, NEW F, AllHave(F, n, T, S), NEW K, NEW y \in T
    PROVE  AreLists(Part(K, F, n, y), n, S)
<1>1. <<>> \in Seq(S)
  OBVIOUS
<1> QED
  BY <1>1 DEF AreLists, Part, AllHave, HasLists

\* Rule after rule all that a rule has, or number after number what each rule
\* has for it and then what each has at last: the same, in another order.
LEMMA Exchange ==
    ASSUME NEW T, NEW S, NEW n \in Nat, NEW F, AllHave(F, n, T, S), NEW G, HasLists(G, T, S),
           NEW B, NEW K, NEW L, Covered(B, K, L, F, G, n, T), NEW s \in Seq(T), NEW x
    PROVE  LET one == Occ(Gather(s, B, Own(F, G, n, T)), x)
               parts == Occ(UpTo(Each(K, F, n, s), n), x) + Occ(Gather(s, L, G), x)
           IN  /\ one <= parts
               /\ Confined(B, K, L, F, G, n, T) => one = parts
               /\ one \in Nat /\ parts \in Nat
<1> DEFINE H == Own(F, G, n, T)
           one(q) == Occ(Gather(q, B, H), x)
           each(q) == Occ(UpTo(Each(K, F, n, q), n), x)
           last(q) == Occ(Gather(q, L, G), x)
           strict == Confined(B, K, L, F, G, n, T)
           Fits(q) == /\ one(q) <= each(q) + last(q)
                      /\ strict => one(q) = each(q) + last(q)
                      /\ one(q) \in Nat /\ each(q) \in Nat /\ last(q) \in Nat
           U == { q \in Seq(T) : Fits(q) }
<1>1. HasLists(H, T, S)
  BY OwnIs
<1> HIDE DEF H
<1>2. Fits(<<>>)
  <2>1. Gather(<<>>, B, H) = <<>> /\ Gather(<<>>, L, G) = <<>>
    BY NoneKept DEF Gather
  <2>2. \A i \in 1..n : Each(K, F, n, <<>>)[i] = <<>>
    BY NoneKept DEF Gather, Each
  <2>3. one(<<>>) = 0 /\ last(<<>>) = 0
    BY <2>1, OccEmpty
  <2>4. each(<<>>) = 0
    BY <2>2, OccNone
  <2> QED
    BY <2>3, <2>4
<1>3. ASSUME NEW q \in Seq(T), NEW y \in T, Fits(q) PROVE Fits(Append(q, y))
  <2> HIDE DEF one, each, last, strict, U
  <2> DEFINE e == Occ(UpTo(Part(K, F, n, y), n), x)
             f == IF y \in L THEN Occ(G[y], x) ELSE 0
             d == IF y \in B THEN Occ(H[y], x) ELSE 0
  <2>1. one(Append(q, y)) = one(q) + d /\ Occ(H[y], x) \in Nat
    BY <1>1, GatherStep DEF one
  <2>2. last(Append(q, y)) = last(q) + f /\ Occ(G[y], x) \in Nat
    BY GatherStep DEF last
  <2>3. each(Append(q, y)) = each(q) + e
    BY EachAppend DEF each
  <2>4. e \in Nat
    <3>1. AreLists(Part(K, F, n, y), n, S)
      BY PartIs
    <3> QED
      BY <3>1, UpToList
  <2>5. d <= e + f /\ (strict => d = e + f)
    <3> HIDE DEF d, e, f
    <3> QED
      BY OneRule, SMTT(60) DEF H, strict, d, e, f
  <2>6. d \in Nat /\ f \in Nat
    BY <2>1, <2>2
  <2>7. /\ one(q) <= each(q) + last(q)
        /\ strict => one(q) = each(q) + last(q)
        /\ one(q) \in Nat /\ each(q) \in Nat /\ last(q) \in Nat
    BY <1>3
  <2> HIDE DEF d, e, f
  <2>8. /\ one(Append(q, y)) <= each(Append(q, y)) + last(Append(q, y))
        /\ one(Append(q, y)) \in Nat /\ each(Append(q, y)) \in Nat /\ last(Append(q, y)) \in Nat
    BY <2>1, <2>2, <2>3, <2>4, <2>5, <2>6, <2>7
  <2>9. ASSUME strict PROVE one(Append(q, y)) = each(Append(q, y)) + last(Append(q, y))
    BY <2>1, <2>2, <2>3, <2>4, <2>5, <2>6, <2>7, <2>9
  <2> QED
    BY <2>8, <2>9
<1>4. <<>> \in Seq(T)
  OBVIOUS
<1> HIDE DEF Fits
<1>5. s \in U
  <2>1. <<>> \in U
    BY <1>2, <1>4
  <2>2. ASSUME NEW q \in Seq(T), NEW y \in T, q \in U PROVE Append(q, y) \in U
    BY <1>3, <2>2
  <2> HIDE DEF U
  <2> QED
    BY <2>1, <2>2, SeqInduction
<1>6. Fits(s)
  BY <1>5
<1> QED
  BY <1>6 DEF Fits, H

-------------------------------------------------------------------------------
(***************************************************************************)
(* The rule engine: what each rule has on each page and at last, taken     *)
(* page by page or rule by rule.                                           *)
(***************************************************************************)

\* A list of none or one of each element, put together, keeps some of them.
LEMMA PickKept ==
    ASSUME NEW T, NEW s \in Seq(T), NEW K, NEW e, e = [i \in DOMAIN s |-> e[i]],
           \A i \in DOMAIN s : s[i] \in T => e[i] = IF s[i] \in K THEN <<s[i]>> ELSE <<>>
    PROVE  FlattenSeq(e) = Kept(s, K)
<1>1. \A i \in DOMAIN s : e[i] = IF s[i] \in K THEN <<s[i]>> ELSE <<>>
  OBVIOUS
<1>2. e = [i \in DOMAIN s |-> IF s[i] \in K THEN <<s[i]>> ELSE <<>>]
  BY <1>1
<1> QED
  BY <1>2 DEF Kept

\* What there is of a rule on each page and at last, and which rules run there.
PageLists(T, ps) == [i \in 1..Len(ps) |-> [r \in T |-> PerPage(r, ps[i])]]
LastLists(T, sums, c) == [r \in T |-> Final(r, sums, c)]
OnPages(T, ps) ==
    [i \in 1..Len(ps) |-> { r \in T : "runPerPage" \in r.hooks /\ ~ Throws(r, ps[i]) }]
AtLast(T) == { r \in T : "runFinal" \in r.hooks /\ ~ r.finalThrows }
InBatch(T, ps) ==
    { r \in T : /\ r.hooks \cap {"runPerPage", "runFinal"} # {}
                /\ ~ r.finalThrows /\ ~ Some(ps, LAMBDA p : Throws(r, p)) }
\* A rule throws on a page, or at last.
Thrown(rs, ps) == Some(rs, LAMBDA r : r.finalThrows \/ Some(ps, LAMBDA p : Throws(r, p)))

\* What the rules of a list have, put together.
LEMMA AllIs ==
    ASSUME NEW T, NEW s \in Seq(T), NEW F, NEW e, e = [i \in DOMAIN s |-> e[i]],
           \A i \in DOMAIN s : s[i] \in T => e[i] = F[s[i]]
    PROVE  FlattenSeq(e) = All(s, F)
<1>1. \A i \in DOMAIN s : e[i] = F[s[i]]
  OBVIOUS
<1>2. e = [i \in DOMAIN s |-> F[s[i]]]
  BY <1>1
<1> QED
  BY <1>2 DEF All

\* On a page, the rules with the hook that do not throw there have their lists.
LEMMA PageGathers ==
    ASSUME NEW rs, IsSeq(rs), NEW T, T = Range(rs), NEW ps, NEW i \in 1..Len(ps)
    PROVE  RunPerPageRules(ps[i], rs) = Gather(rs, OnPages(T, ps)[i], PageLists(T, ps)[i])
<1> DEFINE A == { r \in T : "runPerPage" \in r.hooks }
           C == { r \in T : ~ Throws(r, ps[i]) }
           F == [r \in T |-> PerPage(r, ps[i])]
           having == Having(rs, "runPerPage")
           able == Where(having, LAMBDA r : ~ Throws(r, ps[i]))
           e == [j \in DOMAIN able |-> PerPage(able[j], ps[i])]
<1>1. rs \in Seq(T)
  BY SeqIs
<1>2. having = Kept(rs, A)
  <2> DEFINE d == [j \in DOMAIN rs |-> IF "runPerPage" \in rs[j].hooks THEN <<rs[j]>> ELSE <<>>]
  <2>1. having = FlattenSeq(d)
    BY DEF Where, Having
  <2>2. \A j \in DOMAIN rs : rs[j] \in T => d[j] = IF rs[j] \in A THEN <<rs[j]>> ELSE <<>>
    OBVIOUS
  <2>3. d = [j \in DOMAIN rs |-> d[j]]
    OBVIOUS
  <2> HIDE DEF d, having
  <2> QED
    BY <1>1, <2>1, <2>2, <2>3, PickKept
<1>3. having \in Seq(T)
  BY <1>1, <1>2, SomeKept
<1>4. able = Kept(having, C)
  <2> DEFINE d == [j \in DOMAIN having |->
                      IF ~ Throws(having[j], ps[i]) THEN <<having[j]>> ELSE <<>>]
  <2>1. able = FlattenSeq(d)
    BY DEF Where
  <2>2. \A j \in DOMAIN having :
           having[j] \in T => d[j] = IF having[j] \in C THEN <<having[j]>> ELSE <<>>
    OBVIOUS
  <2>3. d = [j \in DOMAIN having |-> d[j]]
    OBVIOUS
  <2> HIDE DEF d, able
  <2> QED
    BY <1>3, <2>1, <2>2, <2>3, PickKept
<1>5. able = Kept(rs, A \cap C)
  <2> HIDE DEF A, C, having, able
  <2> QED
    BY <1>1, <1>2, <1>4, KeptTwice
<1>6. A \cap C = OnPages(T, ps)[i] /\ F = PageLists(T, ps)[i]
  BY DEF OnPages, PageLists
<1>7. RunPerPageRules(ps[i], rs) = FlattenSeq(e)
  BY DEF RunPerPageRules
<1>8. \A r \in T : F[r] = PerPage(r, ps[i])
  OBVIOUS
<1> HIDE DEF A, C, F, having, able
<1>9. able \in Seq(T)
  BY <1>1, <1>5, SomeKept
<1>10. e = [j \in DOMAIN able |-> e[j]] /\ \A j \in DOMAIN able : able[j] \in T => e[j] = F[able[j]]
  BY <1>8
<1> HIDE DEF e
<1>11. FlattenSeq(e) = All(able, F)
  BY <1>9, <1>10, AllIs
<1> QED
  BY <1>5, <1>6, <1>7, <1>11 DEF Gather

\* At last, the rules with the other hook that do not throw have theirs.
LEMMA LastGathers ==
    ASSUME NEW rs, IsSeq(rs), NEW T, T = Range(rs), NEW sums, NEW c
    PROVE  RunFinalRules(rs, sums, c) = Gather(rs, AtLast(T), LastLists(T, sums, c))
<1> DEFINE F == LastLists(T, sums, c)
           A == { r \in T : "runFinal" \in r.hooks }
           C == { r \in T : ~ r.finalThrows }
           having == Having(rs, "runFinal")
           able == Where(having, LAMBDA r : ~ r.finalThrows)
           e == [j \in DOMAIN able |-> Final(able[j], sums, c)]
<1>1. rs \in Seq(T)
  BY SeqIs
<1>2. having = Kept(rs, A)
  <2> DEFINE d == [i \in DOMAIN rs |-> IF "runFinal" \in rs[i].hooks THEN <<rs[i]>> ELSE <<>>]
  <2>1. having = FlattenSeq(d)
    BY DEF Where, Having
  <2>2. \A i \in DOMAIN rs : rs[i] \in T => d[i] = IF rs[i] \in A THEN <<rs[i]>> ELSE <<>>
    OBVIOUS
  <2>3. d = [i \in DOMAIN rs |-> d[i]]
    OBVIOUS
  <2> HIDE DEF d, having
  <2> QED
    BY <1>1, <2>1, <2>2, <2>3, PickKept
<1>3. having \in Seq(T)
  BY <1>1, <1>2, SomeKept
<1>4. able = Kept(having, C)
  <2> DEFINE d == [i \in DOMAIN having |-> IF ~ having[i].finalThrows THEN <<having[i]>> ELSE <<>>]
  <2>1. able = FlattenSeq(d)
    BY DEF Where
  <2>2. \A i \in DOMAIN having :
           having[i] \in T => d[i] = IF having[i] \in C THEN <<having[i]>> ELSE <<>>
    OBVIOUS
  <2>3. d = [i \in DOMAIN having |-> d[i]]
    OBVIOUS
  <2> HIDE DEF d, able, having, C
  <2> QED
    BY <1>3, <2>1, <2>2, <2>3, PickKept
<1>5. able = Kept(rs, AtLast(T))
  <2>1. A \cap C = AtLast(T)
    BY DEF AtLast
  <2> HIDE DEF A, C, having, able
  <2> QED
    BY <1>1, <1>2, <1>4, <2>1, KeptTwice
<1>6. RunFinalRules(rs, sums, c) = FlattenSeq(e)
  BY DEF RunFinalRules
<1>7. \A r \in T : F[r] = Final(r, sums, c)
  BY DEF LastLists
<1> HIDE DEF F, able
<1>8. able \in Seq(T)
  BY <1>1, <1>5, SomeKept
<1>9. e = [j \in DOMAIN able |-> e[j]] /\ \A j \in DOMAIN able : able[j] \in T => e[j] = F[able[j]]
  BY <1>7
<1> HIDE DEF e
<1>10. FlattenSeq(e) = All(able, F)
  BY <1>8, <1>9, AllIs
<1> QED
  BY <1>5, <1>6, <1>10 DEF Gather, F

\* The batch engine, of the rules that stream.
Streaming(rs) == Where(rs, LAMBDA r : r.hooks \cap {"runPerPage", "runFinal"} # {})
SummariesOf(ps, k) == [i \in 1..k |-> Summary(ps[i])]

\* The batch engine takes rule after rule, of those that throw nowhere.
LEMMA BatchGathers ==
    ASSUME NEW rs, IsSeq(rs), NEW T, T = Range(rs), NEW ps, IsSeq(ps), NEW n, n = Len(ps), NEW c
    PROVE  RunRules(ps, Streaming(rs), c)
             = Gather(rs, InBatch(T, ps),
                      Own(PageLists(T, ps), LastLists(T, SummariesOf(ps, n), c), n, T))
<1> DEFINE sums == SummariesOf(ps, n)
           A == { r \in T : r.hooks \cap {"runPerPage", "runFinal"} # {} }
           C == { r \in T : ~ r.finalThrows /\ ~ Some(ps, LAMBDA p : Throws(r, p)) }
           H == Own(PageLists(T, ps), LastLists(T, sums, c), n, T)
           streaming == Streaming(rs)
           Run(rule) == FlattenSeq([i \in DOMAIN ps |-> PerPage(rule, ps[i])])
                        \o Final(rule, sums, c)
           able == Where(streaming,
                         LAMBDA r : ~ r.finalThrows /\ ~ Some(ps, LAMBDA p : Throws(r, p)))
           e == [j \in DOMAIN able |-> Run(able[j])]
<1>1. rs \in Seq(T) /\ DOMAIN ps = 1..n
  BY SeqIs
<1>2. streaming = Kept(rs, A)
  <2> DEFINE d == [i \in DOMAIN rs |->
                      IF rs[i].hooks \cap {"runPerPage", "runFinal"} # {}
                      THEN <<rs[i]>> ELSE <<>>]
  <2>1. streaming = FlattenSeq(d)
    BY DEF Where, Streaming
  <2>2. \A i \in DOMAIN rs : rs[i] \in T => d[i] = IF rs[i] \in A THEN <<rs[i]>> ELSE <<>>
    OBVIOUS
  <2>3. d = [i \in DOMAIN rs |-> d[i]]
    OBVIOUS
  <2> HIDE DEF d, streaming
  <2> QED
    BY <1>1, <2>1, <2>2, <2>3, PickKept
<1>3. streaming \in Seq(T)
  BY <1>1, <1>2, SomeKept
<1>4. able = Kept(streaming, C)
  <2> DEFINE d == [i \in DOMAIN streaming |->
                      IF ~ streaming[i].finalThrows /\ ~ Some(ps, LAMBDA p : Throws(streaming[i], p))
                      THEN <<streaming[i]>> ELSE <<>>]
  <2>1. able = FlattenSeq(d)
    BY DEF Where
  <2>2. \A i \in DOMAIN streaming :
           streaming[i] \in T => d[i] = IF streaming[i] \in C THEN <<streaming[i]>> ELSE <<>>
    OBVIOUS
  <2>3. d = [i \in DOMAIN streaming |-> d[i]]
    OBVIOUS
  <2> HIDE DEF d, able, C, streaming
  <2> QED
    BY <1>3, <2>1, <2>2, <2>3, PickKept
<1>5. able = Kept(rs, A \cap C)
  <2> HIDE DEF A, C, streaming, able
  <2> QED
    BY <1>1, <1>2, <1>4, KeptTwice
<1>6. A \cap C = InBatch(T, ps)
  BY DEF InBatch
<1>7. RunRules(ps, streaming, c) = FlattenSeq(e)
  BY <1>1 DEF RunRules, SummariesOf
<1>8. ASSUME NEW r \in T PROVE H[r] = Run(r)
  <2>1. [i \in 1..n |-> Whole(PageLists(T, ps), n, r)[i]] = [i \in 1..n |-> PerPage(r, ps[i])]
    BY DEF Whole, PageLists
  <2>2. UpTo(Whole(PageLists(T, ps), n, r), n) = FlattenSeq([i \in 1..n |-> PerPage(r, ps[i])])
    BY <2>1 DEF UpTo
  <2>3. LastLists(T, sums, c)[r] = Final(r, sums, c)
    BY DEF LastLists
  <2> QED
    BY <1>1, <2>2, <2>3 DEF Own
<1> HIDE DEF A, C, H, streaming, able, Run
<1>9. able \in Seq(T)
  BY <1>1, <1>5, SomeKept
<1>10. e = [j \in DOMAIN able |-> e[j]] /\ \A j \in DOMAIN able : able[j] \in T => e[j] = H[able[j]]
  BY <1>8
<1> HIDE DEF e
<1>11. FlattenSeq(e) = All(able, H)
  BY <1>9, <1>10, AllIs
<1> QED
  BY <1>5, <1>6, <1>7, <1>11 DEF Gather, H, streaming

\* Whatever a rule that streams has, it has where its hooks are called.
BuiltInIds == { BuiltIn[i].id : i \in DOMAIN BuiltIn }
Heard(r) ==
    /\ \/ "runPerPage" \in r.hooks \/ "runFinal" \notin r.hooks \/ r.id = "EXPOSED_PATHS"
       \/ r.id \notin BuiltInIds /\ DOMAIN r.severityAt = {}
    /\ \/ "runFinal" \in r.hooks \/ "runPerPage" \notin r.hooks
       \/ r.id \notin {"ASSETS", "EXPOSED_PATHS", "SEO"} /\ r.final = NoFinal
AreHeard(rs) == \A i \in DOMAIN rs : Heard(rs[i])

\* The ids of the built-in rules, each of which is heard.
LEMMA NineIds ==
    BuiltInIds = {"ACCESSIBILITY", "ASSETS", "EXPOSED_PATHS", "FORMS", "FUNCTIONALITY", "LINKS",
                  "PERFORMANCE", "SECURITY", "SEO"}
<1>1. DOMAIN BuiltIn = 1..9
  BY DEF BuiltIn
<1>2. /\ BuiltIn[1].id = "ACCESSIBILITY" /\ BuiltIn[2].id = "ASSETS"
      /\ BuiltIn[3].id = "EXPOSED_PATHS" /\ BuiltIn[4].id = "FORMS"
      /\ BuiltIn[5].id = "FUNCTIONALITY" /\ BuiltIn[6].id = "LINKS"
      /\ BuiltIn[7].id = "PERFORMANCE" /\ BuiltIn[8].id = "SECURITY" /\ BuiltIn[9].id = "SEO"
  BY DEF BuiltIn, BuiltInRule
<1>3. 1..9 = {1, 2, 3, 4, 5, 6, 7, 8, 9}
  OBVIOUS
<1>4. BuiltInIds = { BuiltIn[i].id : i \in {1, 2, 3, 4, 5, 6, 7, 8, 9} }
  BY <1>1, <1>3 DEF BuiltInIds
<1> QED
  BY <1>2, <1>4

LEMMA BuiltInHeard == AreHeard(BuiltIn)
<1>1. DOMAIN BuiltIn = {1, 2, 3, 4, 5, 6, 7, 8, 9}
  BY DEF BuiltIn
<1>2. \A i \in {1, 2, 4, 5, 6, 7, 8, 9} : "runPerPage" \in BuiltIn[i].hooks
  BY DEF BuiltIn, BuiltInRule
<1>3. \A i \in {2, 3, 9} : "runFinal" \in BuiltIn[i].hooks
  BY DEF BuiltIn, BuiltInRule
<1>4. BuiltIn[3].id = "EXPOSED_PATHS"
  BY DEF BuiltIn, BuiltInRule
<1>5. \A i \in {1, 4, 5, 6, 7, 8} :
         BuiltIn[i].id \notin {"ASSETS", "EXPOSED_PATHS", "SEO"} /\ BuiltIn[i].final = NoFinal
  BY DEF BuiltIn, BuiltInRule
<1> QED
  BY <1>1, <1>2, <1>3, <1>4, <1>5 DEF AreHeard, Heard

\* The first of an id has none like it before.
LEMMA FirstsFrom ==
    ASSUME NEW s, IsSeq(s), NEW x \in Range(FirstOfEach(s))
    PROVE  \E i \in DOMAIN s : x = s[i] /\ \A j \in 1..(i - 1) : s[j].id # s[i].id
<1> DEFINE e == [i \in DOMAIN s |->
                    IF \E j \in 1..(i - 1) : s[j].id = s[i].id THEN <<>> ELSE <<s[i]>>]
           n == Len(s)
<1>1. n \in Nat /\ DOMAIN s = 1..n
  BY SeqIs
<1>2. /\ DOMAIN e = 1..n /\ e = [i \in 1..n |-> e[i]]
      /\ \A i \in 1..n : /\ e[i] = <<>> \/ e[i] = <<s[i]>>
                         /\ e[i] = <<>> \/ \A j \in 1..(i - 1) : s[j].id # s[i].id
  BY <1>1
<1>3. FirstOfEach(s) = FlattenSeq(e)
  BY DEF FirstOfEach, Firsts, IdOf
<1> HIDE DEF e, n
<1>4. \A i \in 1..n : IsSeq(e[i])
  BY <1>2, EmptyIs, SingletonIs
<1>5. PICK i \in 1..n : x \in Range(e[i])
  BY <1>1, <1>2, <1>3, <1>4, FlattenIs
<1>6. e[i] # <<>> /\ x = s[i]
  <2>1. Range(<<>>) = {} /\ Range(<<s[i]>>) = {s[i]}
    BY EmptyIs, SingletonIs
  <2> QED
    BY <1>2, <1>5, <2>1
<1> QED
  BY <1>1, <1>2, <1>5, <1>6

\* A rule that is loaded is built in, or a plugin with an id of its own.
LEMMA LoadedAreHeard ==
    ASSUME NEW plugins, IsSeq(plugins), \A i \in DOMAIN plugins : Delegates(plugins[i])
    PROVE  AreHeard(LoadRules(plugins))
<1> DEFINE Enabled(r) == r.enabled
           on == Where(plugins, Enabled)
           all == BuiltIn \o on
<1>1. LoadRules(plugins) = FirstOfEach(all)
  BY DEF LoadRules, FirstOfEach, IdOf
<1>2. IsSeq(on) /\ Range(on) \subseteq Range(plugins)
  BY WhereIs
<1>3. \A i \in DOMAIN on : Delegates(on[i])
  BY <1>2, Zenon DEF Range
<1> HIDE DEF on
<1>4. IsSeq(BuiltIn) /\ Len(BuiltIn) = 9 /\ DOMAIN BuiltIn = 1..9
  <2>1. IsSeq(BuiltIn)
    BY BuiltInIs, ArePluginsIs
  <2> QED
    BY <2>1 DEF BuiltIn
<1>5. /\ IsSeq(all) /\ Len(on) \in Nat /\ DOMAIN on = 1..Len(on) /\ DOMAIN all = 1..(9 + Len(on))
      /\ \A i \in 1..9 : all[i] = BuiltIn[i]
      /\ \A i \in 10..(9 + Len(on)) : all[i] = on[i - 9] /\ i - 9 \in DOMAIN on
  <2>1. IsSeq(all) /\ Len(all) = 9 + Len(on) /\ Len(on) \in Nat /\ DOMAIN on = 1..Len(on)
    BY <1>2, <1>4, ConcatIs, SeqIs
  <2>2. DOMAIN all = 1..(9 + Len(on))
    BY <2>1, SeqIs
  <2> DEFINE U == Range(BuiltIn) \cup Range(on)
  <2>3. BuiltIn \in Seq(U) /\ on \in Seq(U)
    BY <1>2, <1>4, SeqIs
  <2> HIDE DEF U
  <2>4. \A i \in 1..(9 + Len(on)) : all[i] = IF i <= 9 THEN BuiltIn[i] ELSE on[i - 9]
    BY <1>4, <2>1, <2>3, ConcatProperties
  <2> QED
    BY <2>1, <2>2, <2>4
<1> HIDE DEF all
<1>6. ASSUME NEW x \in Range(FirstOfEach(all)) PROVE Heard(x)
  <2>1. PICK i \in DOMAIN all : x = all[i] /\ \A j \in 1..(i - 1) : all[j].id # all[i].id
    BY <1>5, FirstsFrom
  <2>2. CASE i \in 1..9
    BY <1>4, <1>5, <2>1, <2>2, BuiltInHeard DEF AreHeard
  <2>3. CASE i \notin 1..9
    <3>1. i \in 10..(9 + Len(on)) /\ \A j \in 1..9 : j \in 1..(i - 1)
      BY <1>5, <2>1, <2>3
    <3>2. \A j \in 1..9 : BuiltIn[j].id # x.id
      BY <1>5, <2>1, <3>1
    <3>3. x.id \notin BuiltInIds
      BY <1>4, <3>2 DEF BuiltInIds
    <3>4. Delegates(x)
      BY <1>3, <1>5, <2>1, <3>1
    <3> QED
      BY <3>3, <3>4, NineIds DEF Heard, Delegates
  <2> QED
    BY <2>2, <2>3
<1> QED
  BY <1>1, <1>6, Zenon DEF AreHeard, Range

\* A list of rules, a list of pages and the context of a scan.
AreInputs(rs, ps, c) ==
    /\ ArePlugins(rs) /\ AreHeard(rs) /\ IsContext(c)
    /\ IsSeq(ps) /\ \A i \in DOMAIN ps : IsPage(ps[i])
Stream(rs, ps, c) ==
    UpTo([i \in 1..Len(ps) |-> RunPerPageRules(ps[i], rs)], Len(ps))
    \o RunFinalRules(rs, SummariesOf(ps, Len(ps)), c)

LEMMA SummariesAre ==
    ASSUME NEW ps, NEW n \in Nat PROVE IsSeq(SummariesOf(ps, n))
<1>1. DOMAIN SummariesOf(ps, n) = 1..n
      /\ SummariesOf(ps, n) = [i \in 1..n |-> SummariesOf(ps, n)[i]]
  BY DEF SummariesOf
<1> QED
  BY <1>1, ListIs

\* Findings of one kind for all the lists.
LEMMA HaveLists ==
    ASSUME NEW rs, NEW ps, NEW c, AreInputs(rs, ps, c), NEW n, n = Len(ps), NEW T, T = Range(rs)
    PROVE  \E S : /\ AllHave(PageLists(T, ps), n, T, S)
                  /\ HasLists(LastLists(T, SummariesOf(ps, n), c), T, S)
<1> DEFINE sums == SummariesOf(ps, n)
           R == UNION { Range(Final(r, sums, c)) : r \in T }
           P == UNION { Range(PerPage(r, ps[i])) : r \in T, i \in 1..n }
           S == P \cup R
<1>1. n \in Nat /\ DOMAIN ps = 1..n
  BY SeqIs DEF AreInputs
<1>2. ASSUME NEW r \in T, NEW i \in 1..n PROVE PerPage(r, ps[i]) \in Seq(S)
  <2>1. HasSeverities(r) /\ IsPage(ps[i])
    BY <1>1, ArePluginsIs DEF AreInputs
  <2>2. IsSeq(PerPage(r, ps[i]))
    BY <2>1, PerPageIs DEF AreFindings
  <2>3. Range(PerPage(r, ps[i])) \subseteq S
    OBVIOUS
  <2> HIDE DEF S
  <2> QED
    BY <2>2, <2>3, SeqIs
<1>3. ASSUME NEW r \in T PROVE Final(r, sums, c) \in Seq(S)
  <2>1. IsSeq(Final(r, sums, c))
    <3>1. HasSeverities(r)
      BY ArePluginsIs DEF AreInputs
    <3> QED
      BY <1>1, <3>1, SummariesAre, FinalIs DEF AreInputs, AreFindings
  <2>2. Range(Final(r, sums, c)) \subseteq S
    <3>1. Range(Final(r, sums, c)) \in { Range(Final(q, sums, c)) : q \in T }
      OBVIOUS
    <3>2. Range(Final(r, sums, c)) \subseteq R
      BY <3>1
    <3> HIDE DEF P, R
    <3> QED
      BY <3>2
  <2> HIDE DEF S
  <2> QED
    BY <2>1, <2>2, SeqIs
<1> HIDE DEF S
<1>4. AllHave(PageLists(T, ps), n, T, S)
  BY <1>2 DEF AllHave, HasLists, PageLists
<1>5. HasLists(LastLists(T, sums, c), T, S)
  BY <1>3 DEF HasLists, LastLists
<1> QED
  BY <1>4, <1>5

\* A rule that the batch runs has nothing where the stream does not call it, and
\* if none throws the stream calls no other.
LEMMA AreCovered ==
    ASSUME NEW rs, NEW ps, NEW c, AreInputs(rs, ps, c), NEW n, n = Len(ps), NEW T, T = Range(rs),
           NEW sums
    PROVE  /\ Covered(InBatch(T, ps), OnPages(T, ps), AtLast(T), PageLists(T, ps),
                      LastLists(T, sums, c), n, T)
           /\ ~ Thrown(rs, ps) =>
                 Confined(InBatch(T, ps), OnPages(T, ps), AtLast(T), PageLists(T, ps),
                          LastLists(T, sums, c), n, T)
<1>1. n \in Nat /\ DOMAIN ps = 1..n
  BY SeqIs DEF AreInputs
<1>2. \A r \in T : Heard(r)
  BY Zenon DEF AreInputs, AreHeard, Range
<1>3. ASSUME NEW r \in T
      PROVE  /\ \A i \in 1..n : /\ PageLists(T, ps)[i][r] = PerPage(r, ps[i])
                                /\ r \in OnPages(T, ps)[i]
                                      <=> "runPerPage" \in r.hooks /\ ~ Throws(r, ps[i])
             /\ LastLists(T, sums, c)[r] = Final(r, sums, c)
             /\ r \in AtLast(T) <=> "runFinal" \in r.hooks /\ ~ r.finalThrows
             /\ r \in InBatch(T, ps) <=>
                   /\ "runPerPage" \in r.hooks \/ "runFinal" \in r.hooks
                   /\ ~ r.finalThrows
                   /\ \A i \in 1..n : ~ Throws(r, ps[i])
  BY <1>1 DEF PageLists, OnPages, LastLists, AtLast, InBatch, Some
<1>4. ASSUME NEW r \in T, "runPerPage" \notin r.hooks, "runFinal" \in r.hooks, NEW p
      PROVE  PerPage(r, p) = <<>>
  <2>1. r.id = "EXPOSED_PATHS" \/ (r.id \notin BuiltInIds /\ DOMAIN r.severityAt = {})
    BY <1>2, <1>4 DEF Heard
  <2> QED
    BY <2>1, NineIds DEF PerPage, PluginPage, Found
<1>5. ASSUME NEW r \in T, "runFinal" \notin r.hooks, "runPerPage" \in r.hooks
      PROVE  Final(r, sums, c) = <<>>
  <2>1. r.id \notin {"ASSETS", "EXPOSED_PATHS", "SEO"} /\ r.final = NoFinal
    BY <1>2, <1>5 DEF Heard
  <2> QED
    BY <2>1 DEF Final, PluginFinal
<1>6. ASSUME NEW r \in T, r \in InBatch(T, ps)
      PROVE  /\ \A i \in 1..n : r \in OnPages(T, ps)[i] \/ PageLists(T, ps)[i][r] = <<>>
             /\ r \in AtLast(T) \/ LastLists(T, sums, c)[r] = <<>>
  BY <1>3, <1>4, <1>5, <1>6
<1>7. ASSUME ~ Thrown(rs, ps), NEW r \in T, r \notin InBatch(T, ps)
      PROVE  /\ \A i \in 1..n : r \notin OnPages(T, ps)[i]
             /\ r \notin AtLast(T)
  <2>1. ~ r.finalThrows /\ \A i \in 1..n : ~ Throws(r, ps[i])
    <3>1. \A j \in DOMAIN rs : /\ ~ rs[j].finalThrows
                              /\ \A i \in DOMAIN ps : ~ Throws(rs[j], ps[i])
      BY <1>7 DEF Thrown, Some
    <3>2. PICK j \in DOMAIN rs : rs[j] = r
      BY Zenon DEF Range
    <3> QED
      BY <1>1, <3>1, <3>2
  <2> QED
    BY <1>3, <1>7, <2>1
<1> QED
  BY <1>6, <1>7 DEF Covered, Confined

\* Page by page the rules find all that they find of the pages together.
LEMMA StreamIs ==
    ASSUME NEW rs, NEW ps, NEW c, AreInputs(rs, ps, c), NEW x
    PROVE  LET batch == Occ(RunRules(ps, Streaming(rs), c), x)
               stream == Occ(Stream(rs, ps, c), x)
           IN  /\ batch <= stream /\ batch \in Nat /\ stream \in Nat
               /\ ~ Thrown(rs, ps) => batch = stream
<1> DEFINE T == Range(rs)
           n == Len(ps)
           F == PageLists(T, ps)
           G == LastLists(T, SummariesOf(ps, n), c)
           K == OnPages(T, ps)
           L == AtLast(T)
           B == InBatch(T, ps)
           each == UpTo(Each(K, F, n, rs), n)
           last == Gather(rs, L, G)
           one == Gather(rs, B, Own(F, G, n, T))
           calm == ~ Thrown(rs, ps)
<1>1. n \in Nat /\ IsSeq(rs) /\ IsSeq(ps) /\ rs \in Seq(T)
  BY SeqIs, ArePluginsIs DEF AreInputs
<1>2. PICK S : AllHave(F, n, T, S) /\ HasLists(G, T, S)
  BY HaveLists
<1>3. Covered(B, K, L, F, G, n, T) /\ (calm => Confined(B, K, L, F, G, n, T))
  BY AreCovered
<1>4. RunRules(ps, Streaming(rs), c) = one
  BY <1>1, BatchGathers
<1>5. Stream(rs, ps, c) = each \o last
  <2>1. \A i \in 1..n : RunPerPageRules(ps[i], rs) = Gather(rs, K[i], F[i])
    BY <1>1, PageGathers
  <2>2. [i \in 1..n |-> RunPerPageRules(ps[i], rs)] = Each(K, F, n, rs)
    BY <2>1 DEF Each
  <2>3. RunFinalRules(rs, SummariesOf(ps, n), c) = last
    BY <1>1, LastGathers
  <2> QED
    BY <2>2, <2>3 DEF Stream
<1> HIDE DEF T, n, F, G, K, L, B, calm
<1>6. /\ Occ(one, x) <= Occ(each, x) + Occ(last, x)
      /\ Confined(B, K, L, F, G, n, T) => Occ(one, x) = Occ(each, x) + Occ(last, x)
      /\ Occ(one, x) \in Nat
  BY <1>1, <1>2, <1>3, Exchange
<1>7. each \in Seq(S) /\ last \in Seq(S)
  <2>1. ASSUME NEW i \in 1..n PROVE Each(K, F, n, rs)[i] \in Seq(S)
    <3>1. HasLists(F[i], T, S)
      BY <1>2 DEF AllHave
    <3>2. Gather(rs, K[i], F[i]) \in Seq(S)
      BY <1>1, <3>1, GatherType
    <3> QED
      BY <3>2 DEF Each
  <2>2. AreLists(Each(K, F, n, rs), n, S)
    BY <2>1 DEF AreLists
  <2>3. each \in Seq(S)
    BY <1>1, <2>2, UpToList
  <2>4. last \in Seq(S)
    BY <1>1, <1>2, GatherType
  <2> QED
    BY <2>3, <2>4
<1> HIDE DEF each, last, one
<1>8. /\ Occ(each \o last, x) = Occ(each, x) + Occ(last, x)
      /\ Occ(each, x) \in Nat /\ Occ(last, x) \in Nat
  BY <1>7, OccConcat, OccIs
<1>9. /\ Occ(one, x) <= Occ(each \o last, x)
      /\ Occ(one, x) \in Nat /\ Occ(each \o last, x) \in Nat
      /\ calm => Occ(one, x) = Occ(each \o last, x)
  BY <1>3, <1>6, <1>8
<1> QED
  BY <1>4, <1>5, <1>9 DEF calm

\* What the batch finds is a list.
LEMMA BatchIs ==
    ASSUME NEW rs, NEW ps, NEW c, AreInputs(rs, ps, c)
    PROVE  IsSeq(RunRules(ps, Streaming(rs), c))
<1> DEFINE T == Range(rs)
           n == Len(ps)
           F == PageLists(T, ps)
           G == LastLists(T, SummariesOf(ps, n), c)
           H == Own(F, G, n, T)
<1>1. n \in Nat /\ IsSeq(rs) /\ IsSeq(ps) /\ rs \in Seq(T)
  BY SeqIs, ArePluginsIs DEF AreInputs
<1>2. PICK S : AllHave(F, n, T, S) /\ HasLists(G, T, S)
  BY HaveLists
<1>3. RunRules(ps, Streaming(rs), c) = Gather(rs, InBatch(T, ps), H)
  BY <1>1, BatchGathers
<1> HIDE DEF F, G, n, T
<1>4. HasLists(H, T, S)
  BY <1>1, <1>2, OwnIs
<1> HIDE DEF H
<1> QED
  BY <1>1, <1>3, <1>4, GatherType, IsSeqOf

-------------------------------------------------------------------------------
(***************************************************************************)
(* What the scan has found, step by step.                                  *)
(***************************************************************************)

\* The findings so far: of each page the crawl has been through, and at last
\* of all that was kept of the pages.
PageFindings == [i \in 1..Len(site.pages) |-> RunPerPageRules(site.pages[i], rules)]
StreamInv ==
    /\ AreHeard(rules)
    /\ pc \in {"crawl", "checks", "final"} => findings = UpTo(PageFindings, page)
    /\ pc \in {"crawl", "checks", "final", "json", "answer"} =>
          summaries = SummariesOf(site.pages, page)
    /\ pc \in {"json", "answer"} => findings = Stream(rules, site.pages, context)

\* A page adds its findings and its summary; the end adds the final ones.
LEMMA StreamStep ==
    ASSUME TypeOK, InputInv, PageInv, StreamInv, [Next]_vars
    PROVE  StreamInv'
<1>1. ASSUME Fresh, AreHeard(rules'), pc' \in {"idle", "crawl", "catch"} PROVE StreamInv'
  <2>1. page' = 0 /\ findings' = <<>> /\ summaries' = <<>>
    BY <1>1 DEF Fresh
  <2>2. SummariesOf(site'.pages, 0) = <<>>
    BY DEF SummariesOf
  <2>3. UpTo(PageFindings', 0) = <<>>
    BY UpToNone
  <2> QED
    BY <1>1, <2>1, <2>2, <2>3 DEF StreamInv
<1>2. ASSUME NEW a \in CommandLines, Start(a) PROVE StreamInv'
  <2>1. AreHeard(rules')
    BY <1>2, CommandIs, DelegationAssumption, BuiltInHeard, LoadedAreHeard DEF Start, ArePlugins
  <2> QED
    BY <1>1, <1>2, <2>1 DEF Start, Goto
<1>3. ASSUME NEW r \in Requests, Scan(r) PROVE StreamInv'
  <2>1. AreHeard(rules')
    BY <1>3, RequestIs, DelegationAssumption, BuiltInHeard, LoadedAreHeard DEF Scan, ArePlugins
  <2> QED
    BY <1>1, <1>3, <2>1 DEF Scan, Goto
<1>4. CASE OnPage
  <2> DEFINE k == page
             g == PageFindings
  <2>1. /\ k \in Nat /\ k + 1 \in 1..Len(site.pages) /\ Len(site.pages) \in Nat
        /\ \A i \in 1..Len(site.pages) : IsPage(site.pages[i])
    BY <1>4, PageIs, SiteIs DEF OnPage, InputInv
  <2>2. /\ site' = site /\ rules' = rules /\ pc' = pc /\ pc = "crawl" /\ page' = k + 1
        /\ findings' = findings \o RunPerPageRules(site.pages[k + 1], rules)
        /\ summaries' = Append(summaries, Summary(site.pages[k + 1]))
    BY <1>4 DEF OnPage, runVars, CollectSummaries
  <2>3. g[k + 1] = RunPerPageRules(site.pages[k + 1], rules) /\ g' = g
    BY <2>1, <2>2 DEF PageFindings
  <2>4. UpTo(g, k + 1) = UpTo(g, k) \o g[k + 1]
    <3>1. \A i \in 1..Len(site.pages) : IsSeq(g[i])
      BY <2>1, RunPerPageRulesIs DEF PageFindings, AreFindings, InputInv
    <3> DEFINE S == UNION { Range(g[i]) : i \in 1..Len(site.pages) }
    <3>2. ASSUME NEW i \in 1..Len(site.pages) PROVE g[i] \in Seq(S)
      <4>1. Range(g[i]) \subseteq S
        OBVIOUS
      <4> HIDE DEF S
      <4> QED
        BY <3>1, <4>1, SeqIs
    <3> HIDE DEF S, g, k
    <3>3. \A i \in 1..(k + 1) : g[i] \in Seq(S)
      BY <2>1, <3>2
    <3> QED
      BY <2>1, <3>3, FlattenMore DEF UpTo
  <2>5. Append(SummariesOf(site.pages, k), Summary(site.pages[k + 1]))
          = SummariesOf(site.pages, k + 1)
    BY <2>1 DEF SummariesOf
  <2>6. AreHeard(rules) /\ findings = UpTo(g, k) /\ summaries = SummariesOf(site.pages, k)
    BY <2>2 DEF StreamInv
  <2> HIDE DEF g, k
  <2>7. findings' = UpTo(g, k + 1) /\ summaries' = SummariesOf(site.pages, k + 1)
    BY <2>2, <2>3, <2>4, <2>5, <2>6
  <2> QED
    BY <2>2, <2>3, <2>6, <2>7 DEF StreamInv, g
<1>5. CASE FinalRules
  <2>1. /\ page = Len(site.pages) /\ site' = site /\ rules' = rules /\ page' = page
        /\ context' = context /\ summaries' = summaries /\ pc = "final"
        /\ pc' \in {"json", "answer"}
        /\ findings' = findings \o RunFinalRules(rules, summaries, context)
    BY <1>5 DEF FinalRules, PageInv, runVars, Goto
  <2>2. /\ AreHeard(rules) /\ findings = UpTo(PageFindings, page)
        /\ summaries = SummariesOf(site.pages, page)
    BY <2>1 DEF StreamInv
  <2>3. findings' = Stream(rules, site.pages, context)
    BY <2>1, <2>2 DEF Stream, PageFindings
  <2> QED
    BY <2>1, <2>2, <2>3 DEF StreamInv
<1>6. CASE Checks
  BY <1>6 DEF Checks, Goto, runVars, StreamInv, PageFindings
<1>7. ASSUME UNCHANGED <<site, rules, page, summaries, context, findings>>,
             pc' \in {pc, "idle", "catch", "reports", "history", "dashboard", "print", "comment",
                      "webhooks", "gate"} \/ (pc = "crawl" /\ pc' = "checks")
      PROVE  StreamInv'
  <2>1. PageFindings' = PageFindings
    BY <1>7 DEF PageFindings
  <2> QED
    BY <1>7, <2>1 DEF StreamInv
<1>8. CASE EndCrawl \/ WriteJson \/ WriteReports \/ SaveHistory \/ WriteDashboard
          \/ PrintComparison
  BY <1>7, <1>8 DEF EndCrawl, WriteJson, WriteReports, SaveHistory, WriteDashboard,
                    PrintComparison, Writes, Goto, scanVars, runVars
<1>9. CASE WriteComment \/ SendWebhooks \/ Exit \/ Dies
  BY <1>7, <1>9 DEF WriteComment, SendWebhooks, Exit, Dies, Writes, Goto, scanVars, runVars
<1>10. CASE Abort \/ Fails \/ Answer \/ Catch \/ UNCHANGED vars
  BY <1>7, <1>10 DEF Abort, Fails, Answer, Catch, Answers, Goto, scanVars, runVars, vars
<1> QED
  BY <1>2, <1>3, <1>4, <1>5, <1>6, <1>8, <1>9, <1>10 DEF Next

\* Two lists in which everything is equally often, or more often in the second.
LEMMA AsBags ==
    ASSUME NEW s, NEW t, IsSeq(s), IsSeq(t),
           \A x : Occ(s, x) <= Occ(t, x)
    PROVE  /\ ToBag(s) \sqsubseteq ToBag(t)
           /\ (\A x : Occ(s, x) = Occ(t, x)) => ToBag(s) = ToBag(t)
<1>1. \A x : /\ Occ(s, x) \in Nat /\ (Occ(s, x) > 0 <=> x \in Range(s))
             /\ Occ(t, x) \in Nat /\ (Occ(t, x) > 0 <=> x \in Range(t))
  <2>1. s \in Seq(Range(s)) /\ t \in Seq(Range(t))
    BY DEF IsSeq
  <2> QED
    BY <2>1, OccIs
<1>2. /\ ToBag(s) = [x \in Range(s) |-> Occ(s, x)]
      /\ ToBag(t) = [x \in Range(t) |-> Occ(t, x)]
  BY DEF ToBag, Occ
<1>3. Range(s) \subseteq Range(t)
  BY <1>1
<1>4. ToBag(s) \sqsubseteq ToBag(t)
  BY <1>2, <1>3 DEF \sqsubseteq
<1>5. ASSUME \A x : Occ(s, x) = Occ(t, x) PROVE ToBag(s) = ToBag(t)
  <2>1. Range(s) = Range(t)
    BY <1>1, <1>5
  <2> QED
    BY <1>2, <1>5, <2>1
<1> QED
  BY <1>4, <1>5

\* StreamsAsBatch, of the pages that were seen.
StreamsOn(seen) ==
    LET batch == ToBag(RunRules(seen, Streaming(rules), context))
        stream == ToBag(findings)
    IN  pc \in {"json", "answer"} => /\ batch \sqsubseteq stream
                                     /\ Thrown(rules, seen) \/ batch = stream

LEMMA AsBatch == ASSUME IInv, StreamInv PROVE StreamsAsBatch
<1> DEFINE ps == site.pages
           batch == RunRules(ps, Streaming(rules), context)
           calm == ~ Thrown(rules, ps)
<1>1. StreamsAsBatch <=> StreamsOn(SubSeq(site.pages, 1, page))
  BY DEF StreamsAsBatch, StreamsOn, Streaming, Thrown
<1>2. pc \in {"json", "answer"} => SubSeq(site.pages, 1, page) = ps
  <2>1. page = Len(ps) \/ pc \notin {"json", "answer"}
    BY DEF IInv, PageInv
  <2>2. SubSeq(ps, 1, Len(ps)) = ps
    <3>1. ps \in Seq(Range(ps))
      BY SiteIs DEF IInv, InputInv, IsSeq
    <3> HIDE DEF ps
    <3> QED
      BY <3>1
  <2> QED
    BY <2>1, <2>2
<1>3. ASSUME pc \in {"json", "answer"} PROVE StreamsOn(ps)
  <2>1. AreInputs(rules, ps, context)
    BY SiteIs DEF AreInputs, IInv, InputInv, StreamInv
  <2>2. findings = Stream(rules, ps, context) /\ IsSeq(findings)
    BY <1>3 DEF StreamInv, IInv, TypeOK, AreFindings
  <2>3. IsSeq(batch)
    BY <2>1, BatchIs
  <2>4. \A x : /\ Occ(batch, x) <= Occ(findings, x)
               /\ calm => Occ(batch, x) = Occ(findings, x)
    BY <2>1, <2>2, StreamIs
  <2> HIDE DEF batch, calm, ps
  <2>5. /\ ToBag(batch) \sqsubseteq ToBag(findings)
        /\ calm => ToBag(batch) = ToBag(findings)
    BY <2>2, <2>3, <2>4, AsBags
  <2> QED
    BY <2>5 DEF StreamsOn, batch, calm
<1>4. pc \notin {"json", "answer"} => StreamsOn(SubSeq(site.pages, 1, page))
  BY DEF StreamsOn
<1> HIDE DEF ps
<1> QED
  BY <1>1, <1>2, <1>3, <1>4

LEMMA StreamInit == ASSUME Init PROVE StreamInv
BY BuiltInHeard DEF Init, StreamInv

\* Rules applied page by page, with the pages forgotten, find what the batch
\* engine finds with all pages at hand (ruleEngine.js: runPerPageRules and
\* runFinalRules against runRules), for all sites and all plugins.
THEOREM StreamsLikeBatch == Spec => []StreamsAsBatch
<1>1. Init => StreamInv
  BY StreamInit
<1>2. IInv /\ StreamInv /\ [Next]_vars => StreamInv'
  BY StreamStep DEF IInv
<1>3. IInv /\ StreamInv => StreamsAsBatch
  BY AsBatch
<1> QED
  BY <1>1, <1>2, <1>3, Invariant, PTL DEF Spec
===============================================================================
