--------------------------- MODULE AdmissionProofs ----------------------------
(***************************************************************************)
(* Proofs about Admission, for any number of requests, tickers, websites   *)
(* and schedules, and any limits.                                          *)
(***************************************************************************)
EXTENDS Admission, FiniteSetTheorems, TLAPS

\* What TypeOK says of the API key, which is Boolean, and of the rest.
Flag == key \in BOOLEAN
Ranges ==
    /\ now \in 0..MaxTime
    /\ websites \subseteq Sites
    /\ active \subseteq websites
    /\ verified \subseteq websites
    /\ url \in [Sites -> 0..MaxUrls]
    /\ token \in [Sites -> 0..MaxTokens]
    /\ schedule \in [Sites -> {"none", "off", "on"}]
    /\ hours \in [Sites -> Nat]
    /\ nextRun \in [Sites -> Int]
    /\ lastRun \in [Sites -> Int]
    /\ today \in Nat
    /\ byKey \in 0..today
    /\ pc \in [Processes -> PcNames]
    /\ about \in [Processes -> Sites \cup {NoSite}]
    /\ read \in [Processes -> Claims]
    /\ widest \in Nat
    /\ widestSites \in Nat
    /\ proof \in [Sites -> Claims]

\* A request past its first statement is about a website, and a verification
\* about one that exists.
Placed ==
    /\ \A p \in Processes : pc[p] \notin {"idle", "website"} => about[p] \in Sites
    /\ \A p \in Processes : pc[p] = "probe" => about[p] \in websites

\* A schedule keeps the plan's interval, and its next run that distance from
\* the last one.
Apart ==
    \A s \in Sites :
        /\ schedule[s] = "none" => lastRun[s] = Never
        /\ schedule[s] # "none" => hours[s] >= MinInterval
        /\ lastRun[s] <= now
        /\ lastRun[s] # Never /\ nextRun[s] # Never => nextRun[s] - lastRun[s] >= MinInterval

\* A look-up is for a token of its website, and whoever has passed the check for
\* a verification, or has a schedule by it, is about a website with a token found.
Found(s) == proof[s][2] \in 1..token[s]
Proved ==
    /\ \A p \in Processes : pc[p] = "probe" => read[p][2] \in 1..token[about[p]]
    /\ \A s \in verified : Found(s)
    /\ \A p \in Processes : pc[p] = "schedule" => Found(about[p])
    /\ ScheduledWasProved

\* Those past a check are at most the widest crowd there was, and no more than
\* a crowd exceeds the limit.
Crowds ==
    /\ Cardinality(PastScans(pc)) <= widest
    /\ Cardinality(PastSites(pc)) <= widestSites
    /\ QuotasHold

IInv == Flag /\ Ranges /\ Placed /\ Apart /\ Crowds /\ Proved

\* Flag and Ranges together are TypeOK.
LEMMA TypeParts == TypeOK <=> Flag /\ Ranges
BY DEF TypeOK, Flag, Ranges

\* The bounds are numbers.
LEMMA Bounds ==
    /\ MaxWebsites \in Nat /\ MaxWebsites > 0
    /\ MaxScansPerDay \in Nat /\ MaxScansPerDay > 0
    /\ DayHours \in Nat /\ DayHours > 0
    /\ Intervals \subseteq Nat
    /\ MinInterval \in Nat /\ MinInterval > 0
    /\ MaxTime \in Nat /\ MaxKeyScans \in Nat /\ MaxTokens \in Nat /\ MaxUrls \in Nat
BY ConstantsAssumption

\* There are finitely many processes, and so past a check.
LEMMA CrowdsFinite ==
    ASSUME NEW f
    PROVE  /\ IsFiniteSet(PastScans(f)) /\ Cardinality(PastScans(f)) \in Nat
           /\ IsFiniteSet(PastSites(f)) /\ Cardinality(PastSites(f)) \in Nat
<1>1. IsFiniteSet(Processes)
  BY ConstantsAssumption, FS_Union DEF Processes
<1>2. PastScans(f) \subseteq Processes /\ PastSites(f) \subseteq Processes
  BY DEF PastScans, PastSites
<1> QED
  BY <1>1, <1>2, FS_Subset, FS_CardinalityType

\* The websites are finitely many.
LEMMA WebsitesFinite == Ranges => IsFiniteSet(websites) /\ Cardinality(websites) \in Nat
BY ConstantsAssumption, FS_Subset, FS_CardinalityType DEF Ranges

\* At first there is nothing.
LEMMA InitInvariant == Init => IInv
<1> SUFFICES ASSUME Init PROVE IInv
  OBVIOUS
<1>1. Flag
  BY DEF Init, Flag
<1>2. Ranges
  BY Bounds DEF Init, Ranges, PcNames, Claims, Never
<1>3. Placed /\ Apart
  BY Bounds DEF Init, Placed, Apart, Never
<1>5. Proved
  BY DEF Init, Proved, ScheduledWasProved, Scheduled, Processes
<1>4. Crowds
  <2>1. PastScans(pc) = {} /\ PastSites(pc) = {} /\ websites = {}
    BY DEF Init, PastScans, PastSites
  <2>2. Cardinality({}) = 0
    BY FS_EmptySet
  <2>3. today = 0 /\ byKey = 0 /\ widest = 1 /\ widestSites = 1
    BY DEF Init
  <2> QED
    BY <2>1, <2>2, <2>3, Bounds DEF Crowds, QuotasHold
<1> QED
  BY <1>1, <1>2, <1>3, <1>4, <1>5 DEF IInv

\* Only the owner of the key writes its flag.
LEMMA FlagStep == Flag /\ [Next]_vars => Flag'
<1> SUFFICES ASSUME Flag, [Next]_vars PROVE Flag'
  OBVIOUS
<1> USE DEF Flag
<1>1. ASSUME NEW p \in Callers, CallerNext(p) PROVE Flag'
  BY <1>1 DEF CallerNext, AddWebsite, InsertWebsite, Verify, NewScan, KeyScan, NewSchedule, Stamp,
              Exposed, InsertKeyed, InsertSchedule
<1>2. ASSUME NEW p \in Tickers, TickerNext(p) PROVE Flag'
  BY <1>2 DEF TickerNext, LookAtSite, Claim
<1>3. ASSUME NEW p \in Processes, Quota(p) \/ Insert(p) \/ GivesUp(p) PROVE Flag'
  BY <1>3 DEF Quota, Insert, GivesUp
<1>4. ASSUME NEW s \in Sites, SiteNext(s) PROVE Flag'
  BY <1>4 DEF SiteNext, EditUrl, EditActive, StartVerification, RemoveSchedule, SetEnabled
<1>5. CASE CreateKey \/ RevokeKey \/ Tick \/ UNCHANGED vars
  BY <1>5 DEF CreateKey, RevokeKey, Tick, vars
<1> QED
  BY <1>1, <1>2, <1>3, <1>4, <1>5 DEF Next

\* What a process does next leaves its own ranges.
LEMMA WorkRanges ==
    ASSUME Ranges, NEW p \in Processes, NEW where \in PcNames,
           Goto(p, where) \/ \E s \in Sites : Takes(p, s, where) /\ read' \in [Processes -> Claims]
    PROVE  /\ pc' \in [Processes -> PcNames]
           /\ about' \in [Processes -> Sites \cup {NoSite}]
           /\ read' \in [Processes -> Claims]
<1>1. CASE Goto(p, where)
  <2>1. <<0, 0>> \in Claims
    BY Bounds DEF Claims
  <2> QED
    BY <1>1, <2>1 DEF Goto, Ranges
<1>2. CASE \E s \in Sites : Takes(p, s, where) /\ read' \in [Processes -> Claims]
  BY <1>2 DEF Takes, Ranges
<1> QED
  BY <1>1, <1>2

\* No statement leaves the ranges.
LEMMA RangesStep == Ranges /\ Placed /\ [Next]_vars => Ranges'
<1> SUFFICES ASSUME Ranges, Placed, [Next]_vars PROVE Ranges'
  OBVIOUS
<1> USE Bounds DEF Ranges, siteVars, scheduleVars, counts, work, history, Never
<1>1. \A f : \A n \in Nat : Widen(n, PastScans(f)) \in Nat /\ Widen(n, PastSites(f)) \in Nat
  BY CrowdsFinite DEF Widen
<1>2. ASSUME NEW p \in Processes, NEW where \in PcNames, Goto(p, where),
             UNCHANGED <<now, siteVars, scheduleVars, counts, history>>
      PROVE  Ranges'
  BY <1>2, WorkRanges
<1>3. ASSUME NEW p \in Processes, NEW s \in Sites, NEW where \in PcNames, Takes(p, s, where),
             UNCHANGED <<now, siteVars, scheduleVars, counts, history, read>>
      PROVE  Ranges'
  BY <1>3, WorkRanges
<1>4. ASSUME NEW p \in Callers, AddWebsite(p) PROVE Ranges'
  BY <1>1, <1>4, WorkRanges DEF AddWebsite, PcNames, Processes
<1>5. ASSUME NEW p \in Callers, NEW s \in Sites, InsertWebsite(p, s) PROVE Ranges'
  BY <1>5, WorkRanges DEF InsertWebsite, PcNames, Processes
<1>6. ASSUME NEW p \in Callers, NEW s \in Sites, Verify(p, s) PROVE Ranges'
  <2>1. read' \in [Processes -> Claims]
    BY <1>6 DEF Verify, Claims
  <2> QED
    BY <1>6, <2>1, WorkRanges DEF Verify, PcNames, Processes
<1>7. ASSUME NEW p \in Callers, NEW s \in Sites, NewScan(p, s) \/ KeyScan(p, s) \/ NewSchedule(p, s)
      PROVE  Ranges'
  BY <1>3, <1>7 DEF NewScan, KeyScan, NewSchedule, PcNames, Processes
<1>8. ASSUME NEW p \in Callers, Stamp(p) PROVE Ranges'
  <2>1. about[p] \in websites /\ about[p] \in Sites /\ read[p] \in Claims /\ p \in Processes
    BY <1>8 DEF Stamp, Placed, Processes
  <2>2. /\ proof' \in [Sites -> Claims] /\ verified' \subseteq websites'
    BY <1>8, <2>1 DEF Stamp
  <2> QED
    BY <1>8, <2>1, <2>2, WorkRanges DEF Stamp, PcNames
<1>9. ASSUME NEW p \in Callers, InsertKeyed(p) PROVE Ranges'
  BY <1>9, WorkRanges DEF InsertKeyed, PcNames, Processes
<1>10. ASSUME NEW p \in Callers, InsertSchedule(p) PROVE Ranges'
  <2>1. about[p] \in Sites /\ p \in Processes
    BY <1>10 DEF InsertSchedule, Placed, Processes
  <2>2. PICK state \in {"off", "on"}, h \in Intervals :
          /\ schedule' = [schedule EXCEPT ![about[p]] = state]
          /\ hours' = [hours EXCEPT ![about[p]] = h]
          /\ nextRun' = [nextRun EXCEPT ![about[p]] = now + h]
    BY <1>10 DEF InsertSchedule
  <2>3. /\ schedule' \in [Sites -> {"none", "off", "on"}]
        /\ hours' \in [Sites -> Nat]
        /\ nextRun' \in [Sites -> Int]
    BY <2>1, <2>2
  <2> QED
    BY <1>10, <2>1, <2>3, WorkRanges DEF InsertSchedule, PcNames
<1>11. ASSUME NEW p \in Processes, Quota(p) PROVE Ranges'
  <2>1. PICK where \in PcNames : Goto(p, where)
    BY <1>11 DEF Quota, PcNames
  <2> QED
    BY <1>1, <1>11, <2>1, WorkRanges DEF Quota
<1>12. ASSUME NEW p \in Processes, Insert(p) PROVE Ranges'
  BY <1>12, WorkRanges DEF Insert, PcNames
<1>13. ASSUME NEW p \in Processes, Exposed(p) \/ LookAtSite(p) \/ GivesUp(p) PROVE Ranges'
  <2>1. PICK where \in PcNames : Goto(p, where)
    BY <1>13 DEF Exposed, LookAtSite, GivesUp, PcNames
  <2> QED
    BY <1>2, <1>13, <2>1 DEF Exposed, LookAtSite, GivesUp
<1>14. ASSUME NEW p \in Tickers, NEW s \in Sites, Claim(p, s) PROVE Ranges'
  BY <1>14, WorkRanges DEF Claim, PcNames, Processes
<1>15. ASSUME NEW s \in Sites, EditUrl(s) PROVE Ranges'
  BY <1>15 DEF EditUrl
<1>16. ASSUME NEW s \in Sites, EditActive(s) \/ StartVerification(s) PROVE Ranges'
  BY <1>16 DEF EditActive, StartVerification
<1>17. ASSUME NEW s \in Sites, RemoveSchedule(s) PROVE Ranges'
  BY <1>17 DEF RemoveSchedule
<1>18. ASSUME NEW s \in Sites, NEW state \in {"off", "on"}, SetEnabled(s, state) PROVE Ranges'
  BY <1>18 DEF SetEnabled
<1>19. CASE Tick
  BY <1>19 DEF Tick
<1>20. CASE CreateKey \/ RevokeKey \/ UNCHANGED vars
  BY <1>20 DEF CreateKey, RevokeKey, vars
<1>21. Callers \subseteq Processes /\ Tickers \subseteq Processes
  BY DEF Processes
<1> QED
  BY <1>4, <1>5, <1>6, <1>7, <1>8, <1>9, <1>10, <1>11, <1>12, <1>13, <1>14, <1>15, <1>16, <1>17,
     <1>18, <1>19, <1>20, <1>21 DEF Next, CallerNext, TickerNext, SiteNext

\* A request says which website it is about before anything else, and websites
\* stay.
LEMMA PlacedStep == Ranges /\ Placed /\ [Next]_vars => Placed'
<1> SUFFICES ASSUME Ranges, Placed, [Next]_vars PROVE Placed'
  OBVIOUS
<1> USE DEF Ranges, Placed, siteVars, work
<1>1. Callers \subseteq Processes /\ Tickers \subseteq Processes
  BY DEF Processes
<1>2. ASSUME NEW p \in Processes, NEW where, Goto(p, where), websites \subseteq websites',
             where \in {"idle", "website"} \/ (where # "probe" /\ pc[p] \notin {"idle", "website"})
      PROVE  Placed'
  BY <1>2 DEF Goto
<1>3. ASSUME NEW p \in Processes, NEW s \in Sites, NEW where, Takes(p, s, where),
             UNCHANGED websites, where = "probe" => s \in websites
      PROVE  Placed'
  BY <1>3 DEF Takes
<1>4. ASSUME NEW p \in Callers, AddWebsite(p) \/ Stamp(p) \/ InsertKeyed(p) \/ InsertSchedule(p)
                                \/ \E s \in Sites : InsertWebsite(p, s)
      PROVE  Placed'
  BY <1>1, <1>2, <1>4 DEF AddWebsite, Stamp, InsertKeyed, InsertSchedule, InsertWebsite
<1>5. ASSUME NEW p \in Callers, NEW s \in Sites,
             Verify(p, s) \/ NewScan(p, s) \/ KeyScan(p, s) \/ NewSchedule(p, s)
      PROVE  Placed'
  BY <1>1, <1>3, <1>5 DEF Verify, NewScan, KeyScan, NewSchedule
<1>6. ASSUME NEW p \in Tickers, NEW s \in Sites, Claim(p, s) PROVE Placed'
  BY <1>1, <1>3, <1>6 DEF Claim
<1>7. ASSUME NEW p \in Processes, Quota(p) \/ Exposed(p) \/ LookAtSite(p) PROVE Placed'
  <2>1. PICK where : Goto(p, where) /\ where \in {"idle", "exposed", "insert", "quota"}
    BY <1>7 DEF Quota, Exposed, LookAtSite
  <2>2. UNCHANGED websites /\ pc[p] \notin {"idle", "website"}
    BY <1>7 DEF Quota, Exposed, LookAtSite
  <2> QED
    BY <1>2, <2>1, <2>2
<1>8. ASSUME NEW p \in Processes, Insert(p) \/ GivesUp(p) PROVE Placed'
  BY <1>2, <1>8 DEF Insert, GivesUp
<1>9. ASSUME NEW s \in Sites, SiteNext(s) PROVE Placed'
  BY <1>9 DEF SiteNext, EditUrl, EditActive, StartVerification, RemoveSchedule, SetEnabled
<1>10. CASE CreateKey \/ RevokeKey \/ Tick \/ UNCHANGED vars
  BY <1>10 DEF CreateKey, RevokeKey, Tick, vars
<1> QED
  BY <1>1, <1>4, <1>5, <1>6, <1>7, <1>8, <1>9, <1>10 DEF Next, CallerNext, TickerNext

\* Whatever sets a next run sets it an interval ahead, and a run is never later
\* than now.
LEMMA ApartStep == Ranges /\ Placed /\ Apart /\ [Next]_vars => Apart'
<1> SUFFICES ASSUME Ranges, Placed, Apart, [Next]_vars PROVE Apart'
  OBVIOUS
<1> USE Bounds DEF Ranges, Apart, scheduleVars, Never
<1>1. ASSUME UNCHANGED <<now, scheduleVars>> PROVE Apart'
  BY <1>1
<1>2. ASSUME NEW p \in Callers,
             \/ AddWebsite(p) \/ Stamp(p) \/ Exposed(p) \/ InsertKeyed(p)
             \/ \E s \in Sites : InsertWebsite(p, s) \/ Verify(p, s) \/ NewScan(p, s)
                                 \/ KeyScan(p, s) \/ NewSchedule(p, s)
      PROVE  Apart'
  BY <1>1, <1>2 DEF AddWebsite, Stamp, Exposed, InsertKeyed, InsertWebsite, Verify, NewScan, KeyScan,
                    NewSchedule
<1>3. ASSUME NEW p \in Callers, InsertSchedule(p) PROVE Apart'
  <2>1. about[p] \in Sites /\ schedule[about[p]] = "none" /\ UNCHANGED <<now, lastRun>>
    BY <1>3 DEF InsertSchedule, Placed, Processes
  <2>2. PICK state \in {"off", "on"}, h \in Intervals :
          /\ h >= MinInterval
          /\ schedule' = [schedule EXCEPT ![about[p]] = state]
          /\ hours' = [hours EXCEPT ![about[p]] = h]
          /\ nextRun' = [nextRun EXCEPT ![about[p]] = now + h]
    BY <1>3 DEF InsertSchedule
  <2> QED
    BY <2>1, <2>2
<1>4. ASSUME NEW p \in Tickers, NEW s \in Sites, Claim(p, s) PROVE Apart'
  BY <1>4 DEF Claim, Due
<1>5. ASSUME NEW p \in Processes, Quota(p) \/ Insert(p) \/ GivesUp(p) \/ LookAtSite(p) PROVE Apart'
  BY <1>1, <1>5 DEF Quota, Insert, GivesUp, LookAtSite
<1>6. ASSUME NEW s \in Sites, EditUrl(s) \/ EditActive(s) \/ StartVerification(s) PROVE Apart'
  BY <1>1, <1>6 DEF EditUrl, EditActive, StartVerification
<1>7. ASSUME NEW s \in Sites, RemoveSchedule(s) PROVE Apart'
  BY <1>7 DEF RemoveSchedule
<1>8. ASSUME NEW s \in Sites, NEW state \in {"off", "on"}, SetEnabled(s, state) PROVE Apart'
  BY <1>8 DEF SetEnabled
<1>9. CASE Tick
  BY <1>9 DEF Tick
<1>10. CASE CreateKey \/ RevokeKey \/ UNCHANGED vars
  BY <1>1, <1>10 DEF CreateKey, RevokeKey, vars
<1> QED
  BY <1>2, <1>3, <1>4, <1>5, <1>6, <1>7, <1>8, <1>9, <1>10
     DEF Next, CallerNext, TickerNext, SiteNext, Processes

-------------------------------------------------------------------------------

\* Who is past a check after a process went on.
LEMMA Past ==
    ASSUME Ranges, NEW p \in Processes, NEW where, pc' = [pc EXCEPT ![p] = where]
    PROVE  /\ PastScans(pc') = IF where \in {"exposed", "insert"} THEN PastScans(pc) \cup {p}
                               ELSE PastScans(pc) \ {p}
           /\ PastSites(pc') = IF where = "website" THEN PastSites(pc) \cup {p}
                               ELSE PastSites(pc) \ {p}
BY DEF Ranges, PastScans, PastSites

\* Fewer past a check, with as many rows.
LEMMA Fewer ==
    ASSUME NEW t \in Nat, NEW b \in Nat, NEW c \in Nat, NEW d \in Nat, NEW n \in Nat, d <= c,
           (t - b) + c < n
    PROVE  (t - b) + d < n
  OBVIOUS

\* A step that brings nobody past a check and no row keeps the crowds.
LEMMA CrowdsKept ==
    ASSUME Ranges, Crowds, websites' = websites, widest' = widest, widestSites' = widestSites,
           today' \in Nat, byKey' \in Nat, today' - byKey' = today - byKey,
           PastScans(pc') \subseteq PastScans(pc), PastSites(pc') \subseteq PastSites(pc)
    PROVE  Crowds'
<1>1. /\ Cardinality(PastScans(pc')) <= Cardinality(PastScans(pc))
      /\ Cardinality(PastSites(pc')) <= Cardinality(PastSites(pc))
  BY CrowdsFinite, FS_Subset
<1>2. /\ Cardinality(PastScans(pc')) \in Nat /\ Cardinality(PastScans(pc)) \in Nat
      /\ Cardinality(PastSites(pc')) \in Nat /\ Cardinality(PastSites(pc)) \in Nat
  BY CrowdsFinite
<1>3. /\ today \in Nat /\ byKey \in Nat /\ widest \in Nat /\ widestSites \in Nat
      /\ Cardinality(websites) \in Nat
  BY WebsitesFinite DEF Ranges
<1>4. MaxScansPerDay \in Nat /\ MaxWebsites \in Nat
  BY Bounds
<1>5. /\ Cardinality(PastScans(pc)) <= widest
      /\ Cardinality(PastSites(pc)) <= widestSites
      /\ (today - byKey) + Cardinality(PastScans(pc)) < MaxScansPerDay + widest
      /\ Cardinality(websites) + Cardinality(PastSites(pc)) < MaxWebsites + widestSites
  BY DEF Crowds, QuotasHold
<1>6. /\ Cardinality(PastScans(pc')) <= widest'
      /\ Cardinality(PastSites(pc')) <= widestSites'
  BY <1>1, <1>2, <1>3, <1>4, <1>5
<1>7. (today' - byKey') + Cardinality(PastScans(pc')) < MaxScansPerDay + widest'
  <2>1. (today' - byKey') + Cardinality(PastScans(pc)) < MaxScansPerDay + widest
    BY <1>5
  <2>2. widest' = widest
    OBVIOUS
  <2> QED
    BY <1>1, <1>2, <1>3, <1>4, <2>1, <2>2, Fewer
<1>8. Cardinality(websites') + Cardinality(PastSites(pc')) < MaxWebsites + widestSites'
  <2>1. websites' = websites /\ widestSites' = widestSites
    OBVIOUS
  <2> QED
    BY <1>1, <1>2, <1>3, <1>4, <1>5, <2>1
<1>9. QuotasHold'
  BY <1>7, <1>8 DEF QuotasHold
<1> QED
  BY <1>6, <1>9 DEF Crowds

\* No process passes its check of a quota.
NobodyPasses ==
    \A p \in Processes :
        \/ pc'[p] = pc[p]
        \/ pc'[p] \notin {"exposed", "insert", "website"}
        \/ pc[p] = "exposed" /\ pc'[p] = "insert"

\* So does one where a process gives up, or goes on to what is no insert.
LEMMA CrowdsMove ==
    ASSUME Ranges, Crowds,
           NobodyPasses,
           websites' = websites, today' = today, byKey' = byKey,
           widest' = widest, widestSites' = widestSites
    PROVE  Crowds'
<1>1. PastScans(pc') \subseteq PastScans(pc) /\ PastSites(pc') \subseteq PastSites(pc)
  BY DEF NobodyPasses, PastScans, PastSites
<1>2. today' \in Nat /\ byKey' \in Nat /\ today' - byKey' = today - byKey
  BY DEF Ranges
<1> QED
  BY <1>1, <1>2, CrowdsKept

\* The checks, the inserts and midnight are what changes the crowds.
LEMMA CrowdsStep == Ranges /\ Placed /\ Crowds /\ [Next]_vars => Crowds'
<1> SUFFICES ASSUME Ranges, Placed, Crowds, [Next]_vars PROVE Crowds'
  OBVIOUS
<1> USE Bounds
<1>0. /\ Callers \subseteq Processes /\ Tickers \subseteq Processes
      /\ today \in Nat /\ byKey \in Nat /\ byKey <= today /\ widest \in Nat /\ widestSites \in Nat
  BY DEF Processes, Ranges
<1>1. /\ Cardinality(PastScans(pc)) \in Nat /\ Cardinality(PastScans(pc')) \in Nat
      /\ Cardinality(PastSites(pc)) \in Nat /\ Cardinality(PastSites(pc')) \in Nat
      /\ Cardinality(websites) \in Nat
  BY CrowdsFinite, WebsitesFinite
<1>3. ASSUME NEW p \in Callers, AddWebsite(p) PROVE Crowds'
  <2>1. /\ PastScans(pc') = PastScans(pc) \ {p}
        /\ PastSites(pc') = PastSites(pc) \cup {p}
    BY <1>0, <1>3, Past DEF AddWebsite, Goto
  <2>2. Cardinality(PastScans(pc')) <= Cardinality(PastScans(pc))
    BY <2>1, CrowdsFinite, FS_Subset
  <2>3. /\ Cardinality(PastSites(pc')) <= widestSites' /\ widestSites' \in Nat
        /\ Cardinality(websites) < MaxWebsites
        /\ UNCHANGED <<websites, today, byKey, widest>>
    BY <1>0, <1>1, <1>3 DEF AddWebsite, Widen, siteVars, counts
  <2> QED
    BY <1>0, <1>1, <2>2, <2>3 DEF Crowds, QuotasHold
<1>4. ASSUME NEW p \in Callers, NEW s \in Sites, InsertWebsite(p, s) PROVE Crowds'
  <2>1. p \in PastSites(pc) /\ PastScans(pc') = PastScans(pc) \ {p} /\ PastSites(pc') = PastSites(pc) \ {p}
    BY <1>0, <1>4, Past DEF InsertWebsite, Goto, PastSites
  <2>2. /\ Cardinality(PastScans(pc')) <= Cardinality(PastScans(pc))
        /\ Cardinality(PastSites(pc')) = Cardinality(PastSites(pc)) - 1
    BY <2>1, CrowdsFinite, FS_Subset, FS_RemoveElement
  <2>3. Cardinality(websites') = Cardinality(websites) + 1
    BY <1>4, WebsitesFinite, FS_AddElement DEF InsertWebsite
  <2>4. UNCHANGED <<today, byKey, widest, widestSites>>
    BY <1>4 DEF InsertWebsite, counts, history
  <2> QED
    BY <1>0, <1>1, <2>2, <2>3, <2>4 DEF Crowds, QuotasHold
<1>5. ASSUME NEW p \in Processes, Quota(p) PROVE Crowds'
  <2>1. PICK where \in {"exposed", "insert", "idle"} :
            Goto(p, where) /\ (where # "idle" => today < MaxScansPerDay)
    BY <1>5 DEF Quota
  <2>2. CASE where = "idle"
    <3>1. PastScans(pc') \subseteq PastScans(pc) /\ PastSites(pc') \subseteq PastSites(pc)
      BY <2>1, <2>2, Past DEF Goto
    <3>2. /\ Cardinality(PastScans(pc')) <= Cardinality(PastScans(pc))
          /\ Cardinality(PastSites(pc')) <= Cardinality(PastSites(pc))
      BY <3>1, CrowdsFinite, FS_Subset
    <3>3. widest' = widest
      BY <1>0, <1>1, <1>5, <3>2 DEF Quota, Widen, Crowds
    <3> QED
      BY <1>0, <1>5, <3>1, <3>3, CrowdsKept DEF Quota, siteVars, counts
  <2>3. CASE where # "idle"
    <3>1. PastSites(pc') \subseteq PastSites(pc)
      BY <2>1, <2>3, Past DEF Goto
    <3>2. Cardinality(PastSites(pc')) <= Cardinality(PastSites(pc))
      BY <3>1, CrowdsFinite, FS_Subset
    <3>3. /\ Cardinality(PastScans(pc')) <= widest' /\ widest' \in Nat
          /\ UNCHANGED <<websites, today, byKey, widestSites>>
      BY <1>0, <1>1, <1>5 DEF Quota, Widen, siteVars, counts
    <3> QED
      BY <1>0, <1>1, <2>1, <2>3, <3>2, <3>3 DEF Crowds, QuotasHold
  <2> QED
    BY <2>2, <2>3
<1>6. ASSUME NEW p \in Processes, Insert(p) PROVE Crowds'
  <2>1. p \in PastScans(pc) /\ PastScans(pc') = PastScans(pc) \ {p} /\ PastSites(pc') = PastSites(pc) \ {p}
    BY <1>6, Past DEF Insert, Goto, PastScans
  <2>2. /\ Cardinality(PastScans(pc')) = Cardinality(PastScans(pc)) - 1
        /\ Cardinality(PastSites(pc')) <= Cardinality(PastSites(pc))
    BY <2>1, CrowdsFinite, FS_Subset, FS_RemoveElement
  <2>3. today' = today + 1 /\ UNCHANGED <<websites, byKey, widest, widestSites>>
    BY <1>6 DEF Insert, siteVars, history
  <2> QED
    BY <1>0, <1>1, <2>2, <2>3 DEF Crowds, QuotasHold
<1>7. ASSUME NEW p \in Callers, InsertKeyed(p) PROVE Crowds'
  <2>1. PastScans(pc') \subseteq PastScans(pc) /\ PastSites(pc') \subseteq PastSites(pc)
    BY <1>0, <1>7 DEF InsertKeyed, Goto, PastScans, PastSites, Ranges
  <2>2. /\ today' = today + 1 /\ byKey' = byKey + 1
        /\ websites' = websites /\ widest' = widest /\ widestSites' = widestSites
    BY <1>7 DEF InsertKeyed, siteVars, history
  <2>3. today' \in Nat /\ byKey' \in Nat /\ today' - byKey' = today - byKey
    BY <1>0, <2>2
  <2> QED
    BY <2>1, <2>2, <2>3, CrowdsKept
<1>8. ASSUME NEW p \in Callers, Stamp(p) \/ InsertSchedule(p) PROVE Crowds'
  <2>1. NobodyPasses
    <3>1. pc' = [pc EXCEPT ![p] = "idle"]
      BY <1>8 DEF Stamp, InsertSchedule, Goto
    <3> QED
      BY <1>0, <3>1 DEF Ranges, NobodyPasses
  <2>2. /\ websites' = websites /\ today' = today /\ byKey' = byKey
        /\ widest' = widest /\ widestSites' = widestSites
    BY <1>8 DEF Stamp, InsertSchedule, siteVars, counts, history
  <2> QED
    BY <2>1, <2>2, CrowdsMove
<1>9. ASSUME NEW p \in Processes, Exposed(p) \/ LookAtSite(p) \/ GivesUp(p) PROVE Crowds'
  <2>1. NobodyPasses
    <3>1. PICK where \in {"idle", "quota", "insert"} :
              Goto(p, where) /\ (where = "insert" => pc[p] = "exposed")
      BY <1>9 DEF Exposed, LookAtSite, GivesUp
    <3>2. pc' = [pc EXCEPT ![p] = where]
      BY <3>1 DEF Goto
    <3> QED
      BY <1>0, <3>1, <3>2 DEF Ranges, NobodyPasses
  <2>2. /\ websites' = websites /\ today' = today /\ byKey' = byKey
        /\ widest' = widest /\ widestSites' = widestSites
    BY <1>9 DEF Exposed, LookAtSite, GivesUp, siteVars, counts, history
  <2> QED
    BY <2>1, <2>2, CrowdsMove
<1>10. ASSUME NEW p \in Processes, NEW s \in Sites,
              Verify(p, s) \/ NewScan(p, s) \/ KeyScan(p, s) \/ NewSchedule(p, s) \/ Claim(p, s)
       PROVE  Crowds'
  <2>1. NobodyPasses
    <3>1. PICK where \in {"probe", "quota", "keyed", "schedule", "claimed"} : Takes(p, s, where)
      BY <1>10 DEF Verify, NewScan, KeyScan, NewSchedule, Claim
    <3>2. pc' = [pc EXCEPT ![p] = where]
      BY <3>1 DEF Takes
    <3> QED
      BY <1>0, <3>2 DEF Ranges, NobodyPasses
  <2>2. /\ websites' = websites /\ today' = today /\ byKey' = byKey
        /\ widest' = widest /\ widestSites' = widestSites
    BY <1>10 DEF Verify, NewScan, KeyScan, NewSchedule, Claim, siteVars, counts, history
  <2> QED
    BY <2>1, <2>2, CrowdsMove
<1>11. CASE \/ \E s \in Sites : SiteNext(s)
            \/ CreateKey \/ RevokeKey \/ UNCHANGED vars
  <2>1. UNCHANGED <<pc, websites, today, byKey, widest, widestSites>>
    BY <1>11 DEF SiteNext, EditUrl, EditActive, StartVerification, RemoveSchedule, SetEnabled,
                 CreateKey, RevokeKey, vars, siteVars, work, counts, history
  <2> QED
    BY <1>0, <2>1, CrowdsKept
<1>12. CASE Tick
  <2>1. UNCHANGED <<pc, websites, widest, widestSites>>
    BY <1>12 DEF Tick, siteVars, work, history
  <2>2. CASE today' = 0 /\ byKey' = 0
    BY <1>0, <1>1, <2>1, <2>2 DEF Crowds, QuotasHold
  <2>3. CASE UNCHANGED <<today, byKey>>
    BY <1>0, <2>1, <2>3, CrowdsKept
  <2> QED
    BY <1>12, <2>2, <2>3 DEF Tick, counts
<1> QED
  BY <1>0, <1>3, <1>4, <1>5, <1>6, <1>7, <1>8, <1>9, <1>10, <1>11, <1>12
     DEF Next, CallerNext, TickerNext

-------------------------------------------------------------------------------

\* What a step leaves found: no proof is given up, and no token taken back.
Kept == \A s \in Sites : Found(s) => Found(s)'

\* A token is issued after the ones before it.
LEMMA TokensGrow ==
    Ranges /\ [Next]_vars => \A s \in Sites : /\ token[s] \in Nat /\ token'[s] \in Nat
                                            /\ token[s] <= token'[s]
<1> SUFFICES ASSUME Ranges, [Next]_vars
             PROVE  \A s \in Sites : token[s] \in Nat /\ token'[s] \in Nat /\ token[s] <= token'[s]
  OBVIOUS
<1>1. ASSUME NEW s \in Sites, StartVerification(s)
      PROVE  \A r \in Sites : token[r] \in Nat /\ token'[r] \in Nat /\ token[r] <= token'[r]
  BY <1>1, Bounds DEF StartVerification, Ranges
<1>2. (\E s \in Sites : StartVerification(s)) \/ token' = token
  BY DEF Next, CallerNext, TickerNext, SiteNext, AddWebsite, InsertWebsite, Verify, Stamp, NewScan,
         KeyScan, NewSchedule, Exposed, InsertKeyed, InsertSchedule, LookAtSite, Claim, Quota, Insert,
         GivesUp, EditUrl, EditActive, RemoveSchedule, SetEnabled, CreateKey, RevokeKey, Tick, vars,
         siteVars
<1> QED
  BY <1>1, <1>2, Bounds DEF Ranges

\* A proof is of a token that was issued, and is replaced by another only.
LEMMA FoundKept == Ranges /\ Placed /\ Proved /\ [Next]_vars => Kept
<1> SUFFICES ASSUME Ranges, Placed, Proved, [Next]_vars PROVE Kept
  OBVIOUS
<1> USE DEF Found, Kept
<1>1. ASSUME NEW p \in Callers, Stamp(p) PROVE Kept
  <2>1. about[p] \in Sites /\ read[p][2] \in 1..token[about[p]]
    BY <1>1 DEF Stamp, Placed, Proved, Processes
  <2>2. proof' = [proof EXCEPT ![about[p]] = read[p]] /\ token' = token
    BY <1>1 DEF Stamp
  <2> QED
    BY <2>1, <2>2 DEF Ranges
<1>2. ASSUME NEW s \in Sites, StartVerification(s) PROVE Kept
  <2>1. token' = [token EXCEPT ![s] = @ + 1] /\ proof' = proof
    BY <1>2 DEF StartVerification, history
  <2>2. \A r \in Sites : token[r] \in Nat /\ token'[r] \in Nat /\ token[r] <= token'[r]
    BY <2>1, Bounds DEF Ranges
  <2> QED
    BY <2>1, <2>2
<1>3. \/ \E p \in Callers : Stamp(p)
      \/ \E s \in Sites : StartVerification(s)
      \/ UNCHANGED <<token, proof>>
  BY DEF Next, CallerNext, TickerNext, SiteNext, AddWebsite, InsertWebsite, Verify, NewScan, KeyScan,
         NewSchedule, Exposed, InsertKeyed, InsertSchedule, LookAtSite, Claim, Quota, Insert, GivesUp,
         EditUrl, EditActive, RemoveSchedule, SetEnabled, CreateKey, RevokeKey, Tick, vars, siteVars,
         history
<1> QED
  BY <1>1, <1>2, <1>3

\* What somebody has looked up, a website, a request or a schedule rests on, and
\* it stays found.
LEMMA ProvedStep == Ranges /\ Placed /\ Proved /\ [Next]_vars => Proved'
<1> SUFFICES ASSUME Ranges, Placed, Proved, [Next]_vars PROVE Proved'
  OBVIOUS
<1>0. Kept
  BY FoundKept
<1>a. Callers \subseteq Processes /\ Tickers \subseteq Processes
  BY DEF Processes
<1>b. \A s \in Sites : token[s] \in Nat /\ token'[s] \in Nat /\ token[s] <= token'[s]
  BY TokensGrow
<1>c. Callers \cap Tickers = {}
  BY ConstantsAssumption
<1> DEFINE Resting == /\ \A s \in verified' : Found(s)'
                      /\ \A s \in Sites : schedule'[s] # "none" => Found(s)'
           Looking(p) == pc[p] = "probe" => read[p][2] \in 1..token[about[p]]
           Planning(p) == pc[p] = "schedule" => Found(about[p])
           Ticking(p) == p \in Tickers /\ pc[p] \in {"quota", "insert"} => Found(about[p])
           Working(p) == Looking(p) /\ Planning(p) /\ Ticking(p)
<1>1. ASSUME Resting, \A p \in Processes : Working(p)' PROVE Proved'
  BY <1>a, <1>1 DEF Proved, ScheduledWasProved, Scheduled, Found
<1>2. ASSUME verified' \subseteq verified, \A s \in Sites : schedule'[s] # "none" => schedule[s] # "none"
      PROVE  Resting
  BY <1>0, <1>2 DEF Kept, Proved, ScheduledWasProved, Scheduled, Found, Ranges
<1>3. ASSUME NEW p \in Processes, UNCHANGED <<pc[p], about[p], read[p]>> PROVE Working(p)'
  <2>1. Working(p) /\ (pc[p] \notin {"idle", "website"} => about[p] \in Sites)
    BY <1>a DEF Proved, ScheduledWasProved, Scheduled, Found, Placed
  <2>2. Looking(p)'
    BY <1>3, <1>b, <2>1
  <2>3. Planning(p)' /\ Ticking(p)'
    BY <1>3, <1>0, <2>1 DEF Kept
  <2> QED
    BY <2>2, <2>3
<1>4. ASSUME NEW p \in Processes, NEW where, Goto(p, where), where \notin {"probe", "schedule"},
             p \in Tickers /\ where \in {"quota", "insert"} =>
                 about[p] \in Sites /\ Found(about[p])
      PROVE  \A q \in Processes : Working(q)'
  <2>1. ASSUME NEW q \in Processes, q # p PROVE Working(q)'
    BY <1>3, <1>4, <2>1 DEF Goto, Ranges
  <2>2. pc'[p] = where /\ (where # "idle" => about' = about)
    BY <1>4 DEF Goto, Ranges
  <2>3. Ticking(p)'
    BY <1>4, <1>0, <2>2 DEF Kept
  <2> QED
    BY <1>4, <2>1, <2>2, <2>3
<1>5. ASSUME NEW p \in Processes, NEW s \in Sites, NEW where, Takes(p, s, where),
             \/ where = "probe" /\ read' = [read EXCEPT ![p] = <<url[s], token[s]>>] /\ token[s] # 0
                /\ token' = token
             \/ where # "probe" /\ read' = read,
             where = "schedule" => s \in verified,
             where \in {"quota", "insert"} => p \notin Tickers
      PROVE  \A q \in Processes : Working(q)'
  <2>1. ASSUME NEW q \in Processes, q # p PROVE Working(q)'
    BY <1>3, <1>5, <2>1 DEF Takes, Ranges
  <2>2. pc'[p] = where /\ about'[p] = s
    BY <1>5 DEF Takes, Ranges
  <2>3. Looking(p)'
    <3>1. CASE where = "probe"
      <4>1. read'[p] = <<url[s], token[s]>> /\ token'[s] = token[s] /\ token[s] # 0
        BY <1>5, <3>1 DEF Ranges
      <4>2. read'[p][2] = token[s]
        BY <4>1
      <4> QED
        BY <1>b, <2>2, <4>1, <4>2
    <3> QED
      BY <2>2, <3>1
  <2>4. Planning(p)' /\ Ticking(p)'
    BY <1>0, <1>5, <2>2 DEF Kept, Proved
  <2> QED
    BY <2>1, <2>3, <2>4
<1>6. ASSUME NEW p \in Callers, NEW s \in Sites,
             Verify(p, s) \/ NewScan(p, s) \/ KeyScan(p, s) \/ NewSchedule(p, s)
      PROVE  Proved'
  <2>1. \A q \in Processes : Working(q)'
    BY <1>5, <1>6, <1>a, <1>c DEF Verify, NewScan, KeyScan, NewSchedule, siteVars
  <2>2. Resting
    BY <1>2, <1>6 DEF Verify, NewScan, KeyScan, NewSchedule, siteVars, scheduleVars
  <2> QED
    BY <1>1, <2>1, <2>2
<1>7. ASSUME NEW p \in Tickers, NEW s \in Sites, Claim(p, s) PROVE Proved'
  <2>1. \A q \in Processes : Working(q)'
    BY <1>5, <1>7, <1>a DEF Claim
  <2>2. Resting
    BY <1>2, <1>7 DEF Claim, siteVars
  <2> QED
    BY <1>1, <2>1, <2>2
<1>8. ASSUME NEW p \in Callers, AddWebsite(p) \/ (\E s \in Sites : InsertWebsite(p, s)) \/ InsertKeyed(p)
      PROVE  Proved'
  <2>1. \A q \in Processes : Working(q)'
    BY <1>4, <1>8, <1>a DEF AddWebsite, InsertWebsite, InsertKeyed
  <2>2. Resting
    BY <1>2, <1>8 DEF AddWebsite, InsertWebsite, InsertKeyed, siteVars, scheduleVars
  <2> QED
    BY <1>1, <2>1, <2>2
<1>9. ASSUME NEW p \in Callers, Stamp(p) PROVE Proved'
  <2>1. \A q \in Processes : Working(q)'
    BY <1>4, <1>9, <1>a DEF Stamp
  <2>2. about[p] \in Sites /\ proof'[about[p]][2] \in 1..token'[about[p]]
    <3>1. about[p] \in Sites /\ read[p][2] \in 1..token[about[p]]
      BY <1>9, <1>a DEF Stamp, Placed, Proved
    <3>2. proof'[about[p]] = read[p] /\ token' = token
      BY <1>9, <3>1 DEF Stamp, Ranges
    <3> QED
      BY <3>1, <3>2
  <2>3. verified' = verified \cup {about[p]} /\ schedule' = schedule
    BY <1>9 DEF Stamp, scheduleVars
  <2>4. Resting
    BY <1>0, <2>2, <2>3 DEF Kept, Proved, ScheduledWasProved, Scheduled, Found, Ranges
  <2> QED
    BY <1>1, <2>1, <2>4
<1>10. ASSUME NEW p \in Callers, InsertSchedule(p) PROVE Proved'
  <2>1. \A q \in Processes : Working(q)'
    BY <1>4, <1>10, <1>a DEF InsertSchedule
  <2>2. about[p] \in Sites /\ Found(about[p])
    BY <1>10, <1>a DEF InsertSchedule, Placed, Proved
  <2>3. verified' = verified /\ \A s \in Sites : schedule'[s] # "none" => schedule[s] # "none" \/ s = about[p]
    BY <1>10 DEF InsertSchedule, siteVars, Ranges
  <2>4. Resting
    BY <1>0, <2>2, <2>3 DEF Kept, Proved, ScheduledWasProved, Scheduled, Found, Ranges
  <2> QED
    BY <1>1, <2>1, <2>4
<1>11. ASSUME NEW p \in Processes, Quota(p) \/ Exposed(p) \/ LookAtSite(p), p \in Tickers => ~ Exposed(p)
       PROVE  Proved'
  <2>1. PICK where : Goto(p, where) /\ where \in {"idle", "exposed", "insert", "quota"}
                     /\ (p \in Tickers /\ where # "idle" => pc[p] = "quota" \/ about[p] \in verified)
    BY <1>11 DEF Quota, Exposed, LookAtSite
  <2>2. about[p] \in Sites
    BY <1>11 DEF Quota, Exposed, LookAtSite, Placed
  <2>3. p \in Tickers /\ where # "idle" => Found(about[p])
    BY <2>1, <2>2 DEF Proved, ScheduledWasProved, Scheduled, Found
  <2>4. \A q \in Processes : Working(q)'
    BY <1>4, <2>1, <2>2, <2>3
  <2>5. Resting
    BY <1>2, <1>11 DEF Quota, Exposed, LookAtSite, siteVars, scheduleVars
  <2> QED
    BY <1>1, <2>4, <2>5
<1>12. ASSUME NEW p \in Processes, Insert(p) \/ GivesUp(p) PROVE Proved'
  <2>1. \A q \in Processes : Working(q)'
    BY <1>4, <1>12 DEF Insert, GivesUp
  <2>2. Resting
    BY <1>2, <1>12 DEF Insert, GivesUp, siteVars, scheduleVars
  <2> QED
    BY <1>1, <2>1, <2>2
<1>13. CASE (\E s \in Sites : SiteNext(s)) \/ CreateKey \/ RevokeKey \/ Tick \/ UNCHANGED vars
  <2>1. UNCHANGED <<pc, about, read>>
    BY <1>13 DEF SiteNext, EditUrl, EditActive, StartVerification, RemoveSchedule, SetEnabled,
                 CreateKey, RevokeKey, Tick, vars, work
  <2>2. \A q \in Processes : Working(q)'
    BY <1>3, <2>1
  <2>3. verified' \subseteq verified
    BY <1>13 DEF SiteNext, EditUrl, EditActive, StartVerification, RemoveSchedule, SetEnabled,
                 CreateKey, RevokeKey, Tick, vars, siteVars
  <2>4. \A s \in Sites : schedule'[s] # "none" => schedule[s] # "none"
    BY <1>13 DEF SiteNext, EditUrl, EditActive, StartVerification, RemoveSchedule, SetEnabled,
                 CreateKey, RevokeKey, Tick, vars, scheduleVars, Ranges
  <2>5. Resting
    BY <1>2, <2>3, <2>4
  <2> QED
    BY <1>1, <2>2, <2>5
<1> QED
  <2>1. ASSUME NEW p \in Callers, CallerNext(p) PROVE Proved'
    BY <1>a, <1>c, <2>1, <1>6, <1>8, <1>9, <1>10, <1>11 DEF CallerNext
  <2>2. ASSUME NEW p \in Tickers, TickerNext(p) PROVE Proved'
    <3>1. CASE LookAtSite(p)
      <4>1. ~ Exposed(p)
        BY <3>1 DEF LookAtSite, Exposed
      <4> QED
        BY <1>a, <1>11, <3>1, <4>1
    <3> QED
      BY <1>7, <2>2, <3>1 DEF TickerNext
  <2>3. ASSUME NEW p \in Processes, Quota(p) PROVE Proved'
    <3>1. ~ Exposed(p)
      BY <2>3 DEF Quota, Exposed
    <3> QED
      BY <1>11, <2>3, <3>1
  <2> QED
    BY <2>1, <2>2, <2>3, <1>12, <1>13 DEF Next

\* The invariant is inductive.
THEOREM Invariant == Spec => []IInv
<1>1. Init => IInv
  BY InitInvariant
<1>2. IInv /\ [Next]_vars => IInv'
  BY FlagStep, RangesStep, PlacedStep, ApartStep, CrowdsStep, ProvedStep DEF IInv
<1> QED
  BY <1>1, <1>2, PTL DEF Spec

\* Every column and every request keeps its type.
THEOREM TypeCorrect == Spec => []TypeOK
<1>1. IInv => TypeOK
  BY TypeParts DEF IInv
<1> QED
  BY <1>1, Invariant, PTL

\* However many requests and tickers count before they insert, and whatever the
\* limits are: they exceed a quota by at most the widest crowd past its check,
\* less one.
THEOREM QuotasExceededByCrowd == Spec => []QuotasHold
<1>1. IInv => QuotasHold
  BY DEF IInv, Crowds
<1> QED
  BY <1>1, Invariant, PTL

\* Any number of requests and tickers: what is scheduled has been proved to be
\* somebody's, whatever becomes of its verification meanwhile.
THEOREM ScheduledProved == Spec => []ScheduledWasProved
<1>1. IInv => ScheduledWasProved
  BY DEF IInv, Proved
<1> QED
  BY <1>1, Invariant, PTL

\* Any number of tickers: no schedule is claimed twice within the interval its
\* organization's plan allows.
THEOREM ClaimsApart == Spec => RunsApart
<1>1. IInv /\ [Next]_vars
          => [ \A p \in Tickers, s \in Sites :
                 pc[p] = "idle" /\ pc'[p] = "claimed" /\ about'[p] = s /\ lastRun[s] # Never =>
                     now - lastRun[s] >= MinInterval ]_vars
  <2> SUFFICES ASSUME IInv, [Next]_vars, NEW p \in Tickers, NEW s \in Sites,
                      pc[p] = "idle", pc'[p] = "claimed", about'[p] = s, lastRun[s] # Never
               PROVE  now - lastRun[s] >= MinInterval
    OBVIOUS
  <2> USE DEF IInv, Ranges
  <2>1. Claim(p, s)
    <3> USE DEF Goto, Takes
    <3>0. p \in Processes
      BY DEF Processes
    <3>1. ASSUME NEW q \in Tickers, NEW r \in Sites, Claim(q, r) PROVE Claim(p, s)
      BY <3>0, <3>1 DEF Claim
    <3>2. ASSUME NEW q \in Callers, CallerNext(q) PROVE FALSE
      BY <3>0, <3>2 DEF CallerNext, AddWebsite, InsertWebsite, Verify, NewScan, KeyScan, NewSchedule,
                 Stamp, Exposed, InsertKeyed, InsertSchedule
    <3>3. ASSUME NEW q \in Processes, Quota(q) \/ Insert(q) \/ GivesUp(q) \/ LookAtSite(q) PROVE FALSE
      BY <3>0, <3>3 DEF Quota, Insert, GivesUp, LookAtSite
    <3>4. ASSUME NEW r \in Sites, SiteNext(r) PROVE FALSE
      BY <3>4 DEF SiteNext, EditUrl, EditActive, StartVerification, RemoveSchedule, SetEnabled, work
    <3>5. CASE CreateKey \/ RevokeKey \/ Tick \/ UNCHANGED vars
      BY <3>5 DEF CreateKey, RevokeKey, Tick, vars, work
    <3> QED
      BY <3>1, <3>2, <3>3, <3>4, <3>5 DEF Next, TickerNext, Processes
  <2>2. nextRun[s] # Never /\ nextRun[s] <= now
    BY <2>1 DEF Claim, Due
  <2> QED
    BY <2>2, Bounds DEF Apart
<1> QED
  BY <1>1, Invariant, PTL DEF Spec, RunsApart

===============================================================================
