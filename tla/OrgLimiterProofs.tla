--------------------------- MODULE OrgLimiterProofs ---------------------------
(***************************************************************************)
(* Theorems about OrgLimiter, for any number of workers and deaths, any    *)
(* limit, and any relation between TTL and MaxHold.                        *)
(***************************************************************************)
EXTENDS OrgLimiter, FiniteSetTheorems, TLAPS

\* The Boolean variables, and the rest of TypeOK.
Flags == there \in BOOLEAN /\ unarmed \in BOOLEAN /\ lost \in BOOLEAN

Ranges ==
    /\ count \in Int
    /\ ttl \in 0..TTL
    /\ pc \in [Workers -> PcNames]
    /\ held \in [Workers -> 0..MaxHold]
    /\ deaths \in 0..MaxDeaths

LEMMA TypeInit == Init => TypeOK
<1>1. Init => Flags
  BY Zenon DEF Init, Flags
<1>2. Init => Ranges
  BY ConstantsAssumption DEF Init, Ranges, PcNames
<1> QED BY <1>1, <1>2 DEF TypeOK, Flags, Ranges

LEMMA TypeStep == TypeOK /\ [Next]_vars => TypeOK'
<1>1. Flags /\ [Next]_vars => Flags'
  <2> SUFFICES ASSUME Flags, [Next]_vars PROVE Flags'
    OBVIOUS
  <2> USE DEF Flags, keyVars, history
  <2>1. ASSUME NEW w \in Workers, Incr(w) \/ Step(w) PROVE Flags'
    BY <2>1, Zenon DEF Incr, Step, Expire, Refuse, Release, Zero
  <2>2. ASSUME NEW w \in Workers, Die(w) PROVE Flags'
    BY <2>2, Zenon DEF Die
  <2>3. CASE Tick BY <2>3, Zenon DEF Tick
  <2>4. CASE UNCHANGED vars BY <2>4, Zenon DEF vars
  <2> QED BY <2>1, <2>2, <2>3, <2>4 DEF Next
<1>2. Ranges /\ [Next]_vars => Ranges'
  <2> SUFFICES ASSUME Ranges, [Next]_vars PROVE Ranges'
    OBVIOUS
  <2> USE ConstantsAssumption DEF Ranges, PcNames, keyVars, history
  <2>1. ASSUME NEW w \in Workers, Incr(w) PROVE Ranges' BY <2>1 DEF Incr
  <2>2. ASSUME NEW w \in Workers, Step(w) PROVE Ranges'
    BY <2>2 DEF Step, Expire, Refuse, Release, Zero
  <2>3. ASSUME NEW w \in Workers, Die(w) PROVE Ranges' BY <2>3 DEF Die
  <2>4. CASE Tick BY <2>4 DEF Tick, MayLast, Holders
  <2>5. CASE UNCHANGED vars BY <2>5 DEF vars
  <2> QED BY <2>1, <2>2, <2>3, <2>4, <2>5 DEF Next
<1> QED BY <1>1, <1>2 DEF TypeOK, Flags, Ranges

\* Every variable stays within its type.
THEOREM TypeCorrect == Spec => []TypeOK
  BY TypeInit, TypeStep, PTL DEF Spec

-------------------------------------------------------------------------------
(***************************************************************************)
(* What a step does to the workers that are counted.                       *)
(***************************************************************************)

LEMMA CountedFinite ==
  /\ IsFiniteSet(Counted) /\ IsFiniteSet(Holders)
  /\ Cardinality(Counted) \in Nat /\ Cardinality(Holders) \in Nat
  /\ Holders \subseteq Counted
  /\ Cardinality(Holders) <= Cardinality(Counted)
<1>1. Counted \in SUBSET Workers /\ Holders \in SUBSET Counted
  BY DEF Counted, Holders
<1>2. IsFiniteSet(Counted)
  BY <1>1, FS_Subset, ConstantsAssumption
<1> QED BY <1>1, <1>2, FS_Subset, FS_CardinalityType

LEMMA IncrCounts ==
  ASSUME TypeOK, NEW w \in Workers, Incr(w)
  PROVE  /\ Cardinality(Counted') = Cardinality(Counted) + 1
         /\ Cardinality(Holders') <= IF count < MaxPerOrg THEN Cardinality(Holders) + 1
                                     ELSE Cardinality(Holders)
<1>1. w \notin Counted /\ Counted' = Counted \cup {w}
  BY DEF TypeOK, Incr, Counted, Holders, PcNames
<1>2. Cardinality(Counted') = Cardinality(Counted) + 1
  BY <1>1, CountedFinite, FS_AddElement
<1>3. CASE count < MaxPerOrg
  <2>1. w \notin Holders /\ Holders' = Holders \cup {w}
    BY <1>3, ConstantsAssumption DEF TypeOK, Incr, Arms, Exceeds, Holders, PcNames
  <2>2. Cardinality(Holders') = Cardinality(Holders) + 1
    BY <2>1, CountedFinite, FS_AddElement
  <2> QED BY <1>2, <1>3, <2>2, CountedFinite
<1>4. CASE ~ (count < MaxPerOrg)
  <2>1. Holders' = Holders
    BY <1>4, ConstantsAssumption DEF TypeOK, Incr, Arms, Exceeds, Holders, PcNames
  <2> QED BY <1>2, <1>4, <2>1, CountedFinite
<1> QED BY <1>3, <1>4

\* A worker that sends its DECR, or dies, is no longer counted.
LEMMA LeaveCounts ==
  ASSUME TypeOK, NEW w \in Counted, Counted' = Counted \ {w}, Holders' = Holders \ {w}
  PROVE  /\ Cardinality(Counted') = Cardinality(Counted) - 1
         /\ Cardinality(Counted) >= 1
         /\ Cardinality(Holders') <= Cardinality(Holders)
<1>1. Cardinality(Counted') = Cardinality(Counted) - 1
  BY CountedFinite, FS_RemoveElement
<1>2. Cardinality(Counted') \in Nat
  BY CountedFinite, FS_RemoveElement, FS_CardinalityType
<1>3. Cardinality(Holders') <= Cardinality(Holders)
  BY CountedFinite, FS_Subset
<1> QED BY <1>1, <1>2, <1>3, CountedFinite

LEMMA Leaving ==
  ASSUME TypeOK, NEW w \in Workers, pc[w] # "zero", Refuse(w) \/ Release(w) \/ Die(w)
  PROVE  w \in Counted /\ Counted' = Counted \ {w} /\ Holders' = Holders \ {w}
BY DEF TypeOK, PcNames, Refuse, Release, Die, Counted, Holders

LEMMA Staying ==
  ASSUME TypeOK, NEW w \in Workers,
         Expire(w) \/ Zero(w) \/ (Die(w) /\ pc[w] = "zero") \/ Tick \/ UNCHANGED vars
  PROVE  Counted' = Counted /\ Holders' = Holders
BY DEF TypeOK, PcNames, Expire, Zero, Die, Tick, vars, Counted, Holders

-------------------------------------------------------------------------------
(***************************************************************************)
(* The counter is not too high.                                            *)
(***************************************************************************)

NotTooHigh == count <= Cardinality(Counted) + deaths

LEMMA NotTooHighStep == TypeOK /\ NotTooHigh /\ [Next]_vars => NotTooHigh'
<1> SUFFICES ASSUME TypeOK, NotTooHigh, [Next]_vars
             PROVE  count' <= Cardinality(Counted') + deaths'
  BY DEF NotTooHigh
<1>1. count \in Int /\ deaths \in Nat /\ Cardinality(Counted) \in Nat /\ Cardinality(Counted') \in Nat
      /\ count <= Cardinality(Counted) + deaths
  <2>1. Cardinality(Counted') \in Nat
    <3>1. Counted' \in SUBSET Workers BY DEF Counted, Holders
    <3> QED BY <3>1, FS_Subset, FS_CardinalityType, ConstantsAssumption
  <2> QED BY <2>1, CountedFinite, ConstantsAssumption DEF TypeOK, NotTooHigh
<1>2. ASSUME NEW w \in Workers, Incr(w) PROVE count' <= Cardinality(Counted') + deaths'
  <2>1. Cardinality(Counted') = Cardinality(Counted) + 1
    BY <1>2, IncrCounts
  <2>2. count' = count + 1 /\ deaths' = deaths
    BY <1>2 DEF Incr, history
  <2> QED BY <1>1, <2>1, <2>2
<1>3. ASSUME NEW w \in Workers, Refuse(w) \/ Release(w) \/ (Die(w) /\ pc[w] # "zero")
      PROVE  count' <= Cardinality(Counted') + deaths'
  <2>1. pc[w] # "zero" BY <1>3 DEF Refuse, Release
  <2>2. Cardinality(Counted') = Cardinality(Counted) - 1
    BY <1>3, <2>1, Leaving, LeaveCounts
  <2> QED BY <1>1, <1>3, <2>2 DEF Refuse, Release, Die, keyVars, history
<1>4. ASSUME NEW w \in Workers, Expire(w) \/ Zero(w) \/ (Die(w) /\ pc[w] = "zero")
      PROVE  count' <= Cardinality(Counted') + deaths'
  <2>1. Counted' = Counted
    BY <1>4, Staying
  <2>2. count' \in {0, count} /\ deaths' \in {deaths, deaths + 1}
    BY <1>4 DEF Expire, Zero, Die, keyVars, history
  <2> QED BY <1>1, <2>1, <2>2
<1>5. CASE Tick
  <2>1. Counted' = Counted BY <1>5 DEF Tick, Counted, Holders
  <2> QED BY <1>1, <1>5, <2>1 DEF Tick
<1>6. CASE UNCHANGED vars
  <2>1. Counted' = Counted BY <1>6 DEF vars, Counted, Holders
  <2> QED BY <1>1, <1>6, <2>1 DEF vars, keyVars, history
<1> QED BY <1>2, <1>3, <1>4, <1>5, <1>6 DEF Next, Step

\* A refusal has a cause: enough attempts at the limiter, or dead ones.
THEOREM RefusalsHaveCause == Spec => RefusedForCause
<1>1. Init => NotTooHigh
  <2> SUFFICES ASSUME Init PROVE NotTooHigh
    OBVIOUS
  <2>1. Counted = {} BY DEF Init, Counted, Holders
  <2> QED BY <2>1, FS_EmptySet DEF Init, NotTooHigh
<1>2. TypeOK /\ NotTooHigh /\ [Next]_vars =>
        [\A w \in Workers : pc[w] = "idle" /\ pc'[w] = "refuse"
            => Cardinality(Counted) + deaths >= MaxPerOrg]_vars
  <2> SUFFICES ASSUME TypeOK, NotTooHigh, Next, NEW w \in Workers, pc[w] = "idle", pc'[w] = "refuse"
               PROVE  Cardinality(Counted) + deaths >= MaxPerOrg
    BY DEF vars
  <2>1. Incr(w)
    BY DEF TypeOK, PcNames, Next, Step, Incr, Expire, Refuse, Release, Zero, Die, Tick
  <2>2. count + 1 > MaxPerOrg
    BY <2>1 DEF TypeOK, Incr, Exceeds
  <2> QED BY <2>2, CountedFinite, ConstantsAssumption DEF TypeOK, NotTooHigh
<1> QED BY <1>1, <1>2, NotTooHighStep, TypeInit, TypeStep, PTL DEF Spec, RefusedForCause

-------------------------------------------------------------------------------
(***************************************************************************)
(* The counter is not too low, until its key is lost.                      *)
(***************************************************************************)

NotTooLow ==
    ~ lost => /\ Cardinality(Counted) <= count
              /\ Cardinality(Holders) <= MaxPerOrg
              /\ \A w \in Workers : pc[w] # "zero"

LEMMA NotTooLowStep == TypeOK /\ NotTooLow /\ [Next]_vars => NotTooLow'
<1> SUFFICES ASSUME TypeOK, NotTooLow, [Next]_vars, ~ lost'
             PROVE  /\ Cardinality(Counted') <= count'
                    /\ Cardinality(Holders') <= MaxPerOrg
                    /\ \A w \in Workers : pc'[w] # "zero"
  BY DEF NotTooLow
<1>1. ~ lost
  BY DEF TypeOK, Next, Step, Incr, Expire, Refuse, Release, Zero, Die, Tick, vars, history
<1>2. /\ Cardinality(Counted) <= count
      /\ Cardinality(Holders) <= MaxPerOrg
      /\ \A w \in Workers : pc[w] # "zero"
  BY <1>1 DEF NotTooLow
<1>3. count \in Int /\ MaxPerOrg \in Nat
  BY ConstantsAssumption DEF TypeOK
<1>4. ASSUME NEW w \in Workers, Incr(w)
      PROVE  /\ Cardinality(Counted') <= count'
             /\ Cardinality(Holders') <= MaxPerOrg
             /\ \A v \in Workers : pc'[v] # "zero"
  <2>1. count' = count + 1 /\ \A v \in Workers : pc'[v] # "zero"
    BY <1>2, <1>4 DEF TypeOK, Incr
  <2>2. Cardinality(Counted') = Cardinality(Counted) + 1
    BY <1>4, IncrCounts
  <2>3. Cardinality(Holders') <= MaxPerOrg
    <3>1. Holders' \in SUBSET Workers BY DEF Holders
    <3>2. Cardinality(Holders') \in Nat
      BY <3>1, FS_Subset, FS_CardinalityType, ConstantsAssumption
    <3> QED BY <1>2, <1>3, <1>4, <3>2, IncrCounts, CountedFinite
  <2> QED BY <1>2, <1>3, <2>1, <2>2, <2>3, CountedFinite
<1>5. ASSUME NEW w \in Workers, Refuse(w) \/ Release(w) \/ Die(w)
      PROVE  /\ Cardinality(Counted') <= count'
             /\ Cardinality(Holders') <= MaxPerOrg
             /\ \A v \in Workers : pc'[v] # "zero"
  <2>1. w \in Counted /\ Counted' = Counted \ {w} /\ Holders' = Holders \ {w}
    BY <1>2, <1>5, Leaving
  <2>2. /\ Cardinality(Counted') = Cardinality(Counted) - 1
        /\ Cardinality(Counted) >= 1
        /\ Cardinality(Holders') <= Cardinality(Holders)
    BY <2>1, LeaveCounts
  <2>3. Cardinality(Holders') \in Nat
    BY <2>1, CountedFinite, FS_Subset, FS_CardinalityType
  <2>4. count >= 1
    BY <1>2, <1>3, <2>2, CountedFinite
  <2>5. count' >= count - 1 /\ \A v \in Workers : pc'[v] # "zero"
    BY <1>2, <1>3, <1>5, <2>4 DEF TypeOK, Refuse, Release, Die, keyVars
  <2>6. count' \in Int
    BY <1>3, <1>5 DEF Refuse, Release, Die, keyVars
  <2> QED BY <1>2, <1>3, <2>2, <2>3, <2>5, <2>6, CountedFinite
<1>6. ASSUME NEW w \in Workers, Expire(w) \/ Zero(w)
      PROVE  /\ Cardinality(Counted') <= count'
             /\ Cardinality(Holders') <= MaxPerOrg
             /\ \A v \in Workers : pc'[v] # "zero"
  BY <1>2, <1>6, Staying DEF TypeOK, Expire, Zero
<1>7. CASE Tick
  <2>1. Counted' = Counted /\ Holders' = Holders /\ pc' = pc
    BY <1>7 DEF Tick, Counted, Holders
  <2>2. CASE ttl = 1
    <3>1. Counted = {} /\ count' = 0
      BY <1>7, <2>2 DEF Tick, TypeOK
    <3>2. Cardinality(Counted) = 0
      BY <3>1, FS_EmptySet
    <3> QED BY <1>2, <2>1, <3>1, <3>2
  <2>3. CASE ttl # 1
    BY <1>2, <1>7, <2>1, <2>3 DEF Tick
  <2> QED BY <2>2, <2>3
<1>8. CASE UNCHANGED vars
  <2>1. Counted' = Counted /\ Holders' = Holders
    BY <1>8 DEF vars, Counted, Holders
  <2> QED BY <1>2, <1>8, <2>1 DEF vars, keyVars
<1> QED BY <1>4, <1>5, <1>6, <1>7, <1>8 DEF Next, Step

\* The limit holds until the key expires under its holders.
THEOREM LimitHolds == Spec => []LimitUnlessLost
<1>1. Init => NotTooLow
  <2> SUFFICES ASSUME Init PROVE NotTooLow
    OBVIOUS
  <2>1. Counted = {} /\ Holders = {} BY DEF Init, Counted, Holders
  <2> QED BY <2>1, FS_EmptySet, ConstantsAssumption DEF Init, NotTooLow
<1>2. NotTooLow => LimitUnlessLost
  BY DEF NotTooLow, LimitUnlessLost
<1> QED BY <1>1, <1>2, NotTooLowStep, TypeInit, TypeStep, PTL DEF Spec

-------------------------------------------------------------------------------
(***************************************************************************)
(* A positive counter expires.                                             *)
(***************************************************************************)

Armed == (~ there => count = 0) /\ PositiveExpires

LEMMA ArmedStep == TypeOK /\ Armed /\ [Next]_vars => Armed'
<1> SUFFICES ASSUME TypeOK, Armed, [Next]_vars PROVE Armed'
  OBVIOUS
<1> USE ConstantsAssumption DEF TypeOK, PcNames, Armed, PositiveExpires, keyVars, history
<1>1. ASSUME NEW w \in Workers, Incr(w) PROVE Armed' BY <1>1 DEF Incr, Arms
<1>2. ASSUME NEW w \in Workers, Expire(w) PROVE Armed' BY <1>2 DEF Expire
<1>3. ASSUME NEW w \in Workers, Refuse(w) \/ Release(w) PROVE Armed' BY <1>3 DEF Refuse, Release
<1>4. ASSUME NEW w \in Workers, Zero(w) PROVE Armed' BY <1>4 DEF Zero
<1>5. ASSUME NEW w \in Workers, Die(w) PROVE Armed' BY <1>5 DEF Die
<1>6. CASE Tick BY <1>6 DEF Tick
<1>7. CASE UNCHANGED vars BY <1>7 DEF vars
<1> QED BY <1>1, <1>2, <1>3, <1>4, <1>5, <1>6, <1>7 DEF Next, Step

\* Unless a worker died between INCR and EXPIRE, a positive counter expires.
THEOREM PositiveWillExpire == Spec => []PositiveExpires
<1>1. Init => Armed
  BY DEF Init, Armed, PositiveExpires
<1> QED BY <1>1, ArmedStep, TypeInit, TypeStep, PTL DEF Spec, Armed

===============================================================================
