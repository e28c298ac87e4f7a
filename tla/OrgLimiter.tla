------------------------------ MODULE OrgLimiter ------------------------------
(***************************************************************************)
(* OrgConcurrencyLimiter: the counter one organization has in Redis, and   *)
(* the workers that acquire and release its slots.  ScanPipeline uses the  *)
(* limiter through two commands and lets its key vanish at any time; here  *)
(* are the commands one by one, the key's time to live and the clock, to   *)
(* tell when it vanishes and what that does.                               *)
(*                                                                         *)
(* Time is counted in ticks.  TTL is the EXPIRE of an hour, MaxHold the    *)
(* longest an attempt keeps its slot: the wall-clock timeout of a scan     *)
(* (10 minutes) and the statements around it.                              *)
(***************************************************************************)
EXTENDS Integers, FiniteSets

CONSTANTS
    Workers,      \* attempts that may run at once, in any worker process
    MaxPerOrg,    \* ORG_SCAN_CONCURRENCY
    TTL,          \* seconds of EXPIRE, in ticks
    MaxHold,      \* ticks an attempt keeps its slot at most
    MaxDeaths     \* bound on the workers that die

ASSUME ConstantsAssumption ==
    /\ IsFiniteSet(Workers)
    /\ MaxPerOrg \in Nat \ {0}
    /\ TTL \in Nat \ {0}
    /\ MaxHold \in Nat
    /\ MaxDeaths \in Nat

VARIABLES
    there,     \* whether the key exists
    count,     \* its value; a command takes an absent key for 0
    ttl,       \* the ticks it has left, 0 when it does not expire
    pc,        \* the command a worker has to send next
    held,      \* the ticks it has had its slot
    deaths,    \* history: the workers that died
    unarmed,   \* history: one of them died between INCR and EXPIRE
    lost       \* history: the key expired with workers counted in it

keyVars == <<there, count, ttl>>
history == <<deaths, unarmed, lost>>
vars == <<keyVars, pc, held, history>>

PcNames == {"idle", "expire", "refuse", "hold", "zero"}

TypeOK ==
    /\ there \in BOOLEAN
    /\ count \in Int
    /\ ttl \in 0..TTL
    /\ pc \in [Workers -> PcNames]
    /\ held \in [Workers -> 0..MaxHold]
    /\ deaths \in 0..MaxDeaths
    /\ unarmed \in BOOLEAN
    /\ lost \in BOOLEAN

Init ==
    /\ there = FALSE
    /\ count = 0
    /\ ttl = 0
    /\ pc = [w \in Workers |-> "idle"]
    /\ held = [w \in Workers |-> 0]
    /\ deaths = 0
    /\ unarmed = FALSE
    /\ lost = FALSE

\* The workers between a successful acquire and their release.
Holders == { w \in Workers : pc[w] \in {"expire", "hold"} }

\* The workers whose INCR has not been taken back.
Counted == Holders \cup { w \in Workers : pc[w] = "refuse" }

-------------------------------------------------------------------------------
(***************************************************************************)
(* acquire                                                                 *)
(***************************************************************************)

\* Mutant: EXPIRE is sent when the second slot is taken.
Arms_Second(n) == n = 2

\* The INCR that creates the counter, or takes it from 0, sets its expiry.
Arms(n) == n = 1

\* Mutant: off by one at the limit.
Exceeds_OneTooMany(n) == n > MaxPerOrg + 1

Exceeds(n) == n > MaxPerOrg

Incr(w) ==
    LET n == count + 1 IN
    /\ pc[w] = "idle"
    /\ there' = TRUE
    /\ count' = n
    /\ pc' = [pc EXCEPT ![w] = IF Arms(n) THEN "expire"
                               ELSE IF Exceeds(n) THEN "refuse" ELSE "hold"]
    /\ UNCHANGED <<ttl, held, history>>

\* EXPIRE does nothing to a key that is gone again.
Expire(w) ==
    /\ pc[w] = "expire"
    /\ ttl' = IF there THEN TTL ELSE ttl
    /\ pc' = [pc EXCEPT ![w] = "hold"]
    /\ UNCHANGED <<there, count, held, history>>

\* Mutant: acquire returns false without its DECR.
Refuse_KeepsSlot(w) ==
    /\ pc[w] = "refuse"
    /\ pc' = [pc EXCEPT ![w] = "idle"]
    /\ UNCHANGED <<keyVars, held, history>>

\* The DECR of a refusal; unlike that of a release its reply is not looked at.
Refuse(w) ==
    /\ pc[w] = "refuse"
    /\ there' = TRUE
    /\ count' = count - 1
    /\ pc' = [pc EXCEPT ![w] = "idle"]
    /\ UNCHANGED <<ttl, held, history>>

-------------------------------------------------------------------------------
(***************************************************************************)
(* release                                                                 *)
(***************************************************************************)

Release(w) ==
    /\ pc[w] = "hold"
    /\ there' = TRUE
    /\ count' = count - 1
    /\ pc' = [pc EXCEPT ![w] = IF count < 1 THEN "zero" ELSE "idle"]
    /\ held' = [held EXCEPT ![w] = 0]
    /\ UNCHANGED <<ttl, history>>

\* SET drops the expiry of the key.
Zero(w) ==
    /\ pc[w] = "zero"
    /\ there' = TRUE
    /\ count' = 0
    /\ ttl' = 0
    /\ pc' = [pc EXCEPT ![w] = "idle"]
    /\ UNCHANGED <<held, history>>

-------------------------------------------------------------------------------

\* The process dies between two commands; what it counted stays counted.
Die(w) ==
    /\ pc[w] # "idle"
    /\ deaths < MaxDeaths
    /\ deaths' = deaths + 1
    /\ unarmed' = (unarmed \/ pc[w] = "expire")
    /\ pc' = [pc EXCEPT ![w] = "idle"]
    /\ held' = [held EXCEPT ![w] = 0]
    /\ UNCHANGED <<keyVars, lost>>

\* The timeout of its scan lets w keep its slot for another tick.
MayLast(w) == held[w] < MaxHold

\* Time passes, unless an attempt is due to give its slot back.
Tick ==
    /\ \A w \in Holders : MayLast(w)
    /\ held' = [w \in Workers |-> IF w \in Holders THEN held[w] + 1 ELSE held[w]]
    /\ ttl' = IF ttl = 0 THEN 0 ELSE ttl - 1
    /\ IF ttl = 1
       THEN there' = FALSE /\ count' = 0 /\ lost' = (lost \/ Counted # {})
       ELSE UNCHANGED <<there, count, lost>>
    /\ UNCHANGED <<pc, deaths, unarmed>>

Step(w) == Expire(w) \/ Refuse(w) \/ Release(w) \/ Zero(w)

Next ==
    \/ \E w \in Workers : Incr(w) \/ Step(w) \/ Die(w)
    \/ Tick

Spec == Init /\ [][Next]_vars

\* A live worker sends its next command, and time passes.
Fairness == WF_vars(Tick) /\ \A w \in Workers : WF_vars(Step(w))

FairSpec == Spec /\ Fairness

-------------------------------------------------------------------------------
(***************************************************************************)
(* Properties.                                                             *)
(***************************************************************************)

\* The limit holds as long as the key has not expired under its holders: the
\* commands of acquire and release may interleave in any way, and workers may
\* die between any two of them.
LimitUnlessLost == ~ lost => Cardinality(Holders) <= MaxPerOrg

\* acquire says no only to an organization that has MaxPerOrg other attempts
\* at the limiter, one fewer for every worker that died there: also after the
\* key was lost, and while a reset to 0 races with the INCRs of others, the
\* counter never runs higher than that.
RefusedForCause ==
    [][ \A w \in Workers : pc[w] = "idle" /\ pc'[w] = "refuse"
            => Cardinality(Counted) + deaths >= MaxPerOrg ]_vars

\* A counter above 0 has an expiry or is about to get it, so that a slot leaked
\* by a dead worker is not leaked for good; the exception is a worker that died
\* right between INCR and EXPIRE.
PositiveExpires ==
    ~ unarmed /\ count > 0 => ttl > 0 \/ \E w \in Workers : pc[w] = "expire"

\* Slots that no attempt holds are counted.
Leaked == count > Cardinality(Counted)

\* Leaked slots come back, however busy the organization is in the meantime.
LeakHeals == [](~ unarmed) => (Leaked ~> ~ Leaked)

===============================================================================
