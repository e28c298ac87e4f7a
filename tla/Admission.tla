------------------------------ MODULE Admission -------------------------------
(***************************************************************************)
(* How work gets into an organization: its websites and their quota, the   *)
(* scans that users, API keys and schedules start under the daily quota,   *)
(* the schedules and the tickers that claim them, and the verification of  *)
(* a website's domain.  What becomes of a scan's row is in ScanPipeline.   *)
(*                                                                         *)
(* Every caller is a member with the role its request requires; a request  *)
(* that is refused without a write just ends.  A website has at most one   *)
(* schedule here; nothing in the code relates two.  Time is in hours.      *)
(***************************************************************************)
EXTENDS Integers, FiniteSets, FiniteSetsExt

CONSTANTS
    Callers,          \* API requests that may be in flight at once
    Tickers,          \* processes with a ScheduleTickerService
    Sites,            \* websites that may ever be created
    MaxWebsites,      \* Organization.maxWebsites
    MaxScansPerDay,   \* Organization.maxScansPerDay
    DayHours,         \* the hours of a day
    Intervals,        \* the intervalHours that may be asked for
    MinInterval,      \* Organization.minScheduleIntervalHours
    MaxTime,          \* bound on the clock
    MaxKeyScans,      \* bound on the scans of the API key in a day
    MaxTokens,        \* bound on the verification tokens of a website
    MaxUrls           \* bound on the URLs a website is given

ASSUME ConstantsAssumption ==
    /\ IsFiniteSet(Callers) /\ IsFiniteSet(Tickers) /\ IsFiniteSet(Sites)
    /\ Callers \cap Tickers = {}
    /\ MaxWebsites \in Nat \ {0}
    /\ MaxScansPerDay \in Nat \ {0}
    /\ DayHours \in Nat \ {0}
    /\ Intervals \subseteq Nat
    /\ MinInterval \in Nat \ {0}
    /\ {MaxTime, MaxKeyScans, MaxTokens, MaxUrls} \subseteq Nat

Processes == Callers \cup Tickers
Never == -1
NoSite == "no website"

VARIABLES
    now,        \* the clock
    websites,   \* the Website rows
    active,     \* those with isActive
    url,        \* their URLs, numbered by host
    token,      \* their domainVerifyToken, 0 for null
    verified,   \* those with a domainVerifiedAt
    schedule,   \* a website's ScanSchedule: none, off or on
    hours,      \* its intervalHours
    nextRun,    \* its nextRunAt
    lastRun,    \* its lastRunAt
    key,        \* whether the organization has an API key that works
    today,      \* the scans created since the start of the day
    byKey,      \* those of them created with the API key
    pc,         \* what a request or a ticker does next
    about,      \* the website it is about
    read,       \* the URL and the token a verification has read
    widest,     \* history: most processes past the check of the scan quota at once
    widestSites,\* history: most requests past the check of the website quota
    proof       \* history: the URL and the token a website was last verified with

siteVars == <<websites, active, url, token, verified>>
scheduleVars == <<schedule, hours, nextRun, lastRun>>
counts == <<today, byKey>>
work == <<pc, about, read>>
history == <<widest, widestSites, proof>>
vars == <<now, siteVars, scheduleVars, key, counts, work, history>>

PcNames == {"idle", "website", "probe", "quota", "exposed", "insert", "keyed",
            "schedule", "claimed"}
Claims == (0..MaxUrls) \X (0..MaxTokens)

TypeOK ==
    /\ now \in 0..MaxTime
    /\ websites \subseteq Sites
    /\ active \subseteq websites
    /\ verified \subseteq websites
    /\ url \in [Sites -> 0..MaxUrls]
    /\ token \in [Sites -> 0..MaxTokens]
    /\ schedule \in [Sites -> {"none", "off", "on"}]
    /\ hours \in [Sites -> Nat]
    /\ nextRun \in [Sites -> Int]
    /\ lastRun \in [Sites -> Int]
    /\ key \in BOOLEAN
    /\ today \in Nat
    /\ byKey \in 0..today
    /\ pc \in [Processes -> PcNames]
    /\ about \in [Processes -> Sites \cup {NoSite}]
    /\ read \in [Processes -> Claims]
    /\ widest \in Nat
    /\ widestSites \in Nat
    /\ proof \in [Sites -> Claims]

Init ==
    /\ now = 0
    /\ websites = {} /\ active = {} /\ verified = {}
    /\ url = [s \in Sites |-> 0]
    /\ token = [s \in Sites |-> 0]
    /\ schedule = [s \in Sites |-> "none"]
    /\ hours = [s \in Sites |-> 0]
    /\ nextRun = [s \in Sites |-> Never]
    /\ lastRun = [s \in Sites |-> Never]
    /\ key = FALSE
    /\ today = 0 /\ byKey = 0
    /\ pc = [p \in Processes |-> "idle"]
    /\ about = [p \in Processes |-> NoSite]
    /\ read = [p \in Processes |-> <<0, 0>>]
    /\ widest = 1 /\ widestSites = 1
    /\ proof = [s \in Sites |-> <<0, 0>>]

\* Past the check of a quota, and not yet a row.
PastScans(state) == { p \in Processes : state[p] \in {"exposed", "insert"} }
PastSites(state) == { p \in Processes : state[p] = "website" }

Widen(n, S) == IF Cardinality(S) > n THEN Cardinality(S) ELSE n

\* The process goes on to its next statement, or is done.
Goto(p, where) ==
    /\ pc' = [pc EXCEPT ![p] = where]
    /\ about' = IF where = "idle" THEN [about EXCEPT ![p] = NoSite] ELSE about
    /\ read' = IF where = "idle" THEN [read EXCEPT ![p] = <<0, 0>>] ELSE read

\* A request about a website starts, or a ticker has claimed it.
Takes(p, s, where) ==
    /\ pc[p] = "idle"
    /\ pc' = [pc EXCEPT ![p] = where]
    /\ about' = [about EXCEPT ![p] = s]

-------------------------------------------------------------------------------
(***************************************************************************)
(* Websites                                                                *)
(***************************************************************************)

\* assertCanAddWebsite, then the check of the URL.
AddWebsite(p) ==
    /\ pc[p] = "idle"
    /\ Cardinality(websites) < MaxWebsites
    /\ Goto(p, "website")
    /\ widestSites' = Widen(widestSites, PastSites(pc'))
    /\ UNCHANGED <<now, siteVars, scheduleVars, key, counts, widest, proof>>

InsertWebsite(p, s) ==
    /\ pc[p] = "website"
    /\ s \notin websites
    /\ websites' = websites \cup {s}
    /\ active' = active \cup {s}
    /\ Goto(p, "idle")
    /\ UNCHANGED <<now, url, token, verified, scheduleVars, key, counts, history>>

\* update: one statement, which leaves domainVerifiedAt as it is.
EditUrl(s) ==
    /\ s \in websites
    /\ url[s] < MaxUrls
    /\ url' = [url EXCEPT ![s] = @ + 1]
    /\ UNCHANGED <<now, websites, active, token, verified, scheduleVars, key, counts, work, history>>

EditActive(s) ==
    /\ s \in websites
    /\ active' = IF s \in active THEN active \ {s} ELSE active \cup {s}
    /\ UNCHANGED <<now, websites, url, token, verified, scheduleVars, key, counts, work, history>>

-------------------------------------------------------------------------------
(***************************************************************************)
(* Domain verification                                                     *)
(***************************************************************************)

\* A new token ends the verification by the old one.
StartVerification(s) ==
    /\ s \in websites
    /\ token[s] < MaxTokens
    /\ token' = [token EXCEPT ![s] = @ + 1]
    /\ verified' = verified \ {s}
    /\ UNCHANGED <<now, websites, active, url, scheduleVars, key, counts, work, history>>

\* Mutant: a website without a token is looked up for null.
Verify_Unstarted(p, s) ==
    /\ s \in websites
    /\ Takes(p, s, "probe")
    /\ read' = [read EXCEPT ![p] = <<url[s], token[s]>>]
    /\ UNCHANGED <<now, siteVars, scheduleVars, key, counts, history>>

\* verify looks for the token it has read at the host it has read.
Verify(p, s) ==
    /\ s \in websites
    /\ token[s] # 0
    /\ Takes(p, s, "probe")
    /\ read' = [read EXCEPT ![p] = <<url[s], token[s]>>]
    /\ UNCHANGED <<now, siteVars, scheduleVars, key, counts, history>>

\* The token was there.  The update is by id alone.
Stamp(p) ==
    LET s == about[p] IN
    /\ pc[p] = "probe"
    /\ verified' = verified \cup {s}
    /\ proof' = [proof EXCEPT ![s] = read[p]]
    /\ Goto(p, "idle")
    /\ UNCHANGED <<now, websites, active, url, token, scheduleVars, key, counts, widest, widestSites>>

-------------------------------------------------------------------------------
(***************************************************************************)
(* Scans                                                                   *)
(***************************************************************************)

\* createForPrincipal for a user: the website is read.
NewScan(p, s) ==
    /\ s \in active
    /\ Takes(p, s, "quota")
    /\ UNCHANGED <<now, siteVars, scheduleVars, key, counts, read, history>>

\* Mutant: the rows of yesterday's limit are not counted up to the limit.
Quota_OneTooMany(p) ==
    /\ pc[p] = "quota"
    /\ \E where \in {"exposed", "insert"} :
          Goto(p, IF today <= MaxScansPerDay THEN where ELSE "idle")
    /\ widest' = Widen(widest, PastScans(pc'))
    /\ UNCHANGED <<now, siteVars, scheduleVars, key, counts, widestSites, proof>>

\* assertCanCreateScan, for a request and for a ticker; only a request may ask
\* for the exposed paths.
Quota(p) ==
    /\ pc[p] = "quota"
    /\ \E where \in IF p \in Tickers THEN {"insert"} ELSE {"exposed", "insert"} :
          Goto(p, IF today < MaxScansPerDay THEN where ELSE "idle")
    /\ widest' = Widen(widest, PastScans(pc'))
    /\ UNCHANGED <<now, siteVars, scheduleVars, key, counts, widestSites, proof>>

\* assertVerified.
Exposed(p) ==
    /\ pc[p] = "exposed"
    /\ Goto(p, IF about[p] \in verified THEN "insert" ELSE "idle")
    /\ UNCHANGED <<now, siteVars, scheduleVars, key, counts, history>>

Insert(p) ==
    /\ pc[p] = "insert"
    /\ today' = today + 1
    /\ Goto(p, "idle")
    /\ UNCHANGED <<now, siteVars, scheduleVars, key, byKey, history>>

\* With an API key neither the quota nor the verification is asked for.
KeyScan(p, s) ==
    /\ key
    /\ s \in active
    /\ byKey < MaxKeyScans
    /\ Takes(p, s, "keyed")
    /\ UNCHANGED <<now, siteVars, scheduleVars, key, counts, read, history>>

InsertKeyed(p) ==
    /\ pc[p] = "keyed"
    /\ today' = today + 1
    /\ byKey' = byKey + 1
    /\ Goto(p, "idle")
    /\ UNCHANGED <<now, siteVars, scheduleVars, key, history>>

CreateKey ==
    /\ ~key
    /\ key' = TRUE
    /\ UNCHANGED <<now, siteVars, scheduleVars, counts, work, history>>

RevokeKey ==
    /\ key
    /\ key' = FALSE
    /\ UNCHANGED <<now, siteVars, scheduleVars, counts, work, history>>

-------------------------------------------------------------------------------
(***************************************************************************)
(* Schedules                                                               *)
(***************************************************************************)

NewSchedule(p, s) ==
    /\ s \in verified
    /\ schedule[s] = "none"
    /\ Takes(p, s, "schedule")
    /\ UNCHANGED <<now, siteVars, scheduleVars, key, counts, read, history>>

InsertSchedule(p) ==
    LET s == about[p] IN
    /\ pc[p] = "schedule"
    /\ schedule[s] = "none"
    /\ \E state \in {"off", "on"}, h \in Intervals :
          /\ h >= MinInterval
          /\ schedule' = [schedule EXCEPT ![s] = state]
          /\ hours' = [hours EXCEPT ![s] = h]
          /\ nextRun' = [nextRun EXCEPT ![s] = now + h]
    /\ Goto(p, "idle")
    /\ UNCHANGED <<now, siteVars, lastRun, key, counts, history>>

\* Mutant: a schedule that is switched on is due at once.
SetEnabled_DueNow(s, state) ==
    /\ schedule[s] # "none"
    /\ schedule' = [schedule EXCEPT ![s] = state]
    /\ nextRun' = [nextRun EXCEPT ![s] = IF state = "on" THEN now ELSE Never]
    /\ UNCHANGED <<now, siteVars, hours, lastRun, key, counts, work, history>>

\* Also of a schedule that has that state: its next run moves away.
SetEnabled(s, state) ==
    /\ schedule[s] # "none"
    /\ schedule' = [schedule EXCEPT ![s] = state]
    /\ nextRun' = [nextRun EXCEPT ![s] = IF state = "on" THEN now + hours[s] ELSE Never]
    /\ UNCHANGED <<now, siteVars, hours, lastRun, key, counts, work, history>>

RemoveSchedule(s) ==
    /\ schedule[s] # "none"
    /\ schedule' = [schedule EXCEPT ![s] = "none"]
    /\ nextRun' = [nextRun EXCEPT ![s] = Never]
    /\ hours' = [hours EXCEPT ![s] = 0]
    /\ lastRun' = [lastRun EXCEPT ![s] = Never]
    /\ UNCHANGED <<now, siteVars, key, counts, work, history>>

Due(s) == schedule[s] = "on" /\ nextRun[s] # Never /\ nextRun[s] <= now

\* claimOneDueSchedule: the one due for longest, in one statement.
Claim(p, s) ==
    /\ Due(s)
    /\ \A other \in Sites : Due(other) => nextRun[s] <= nextRun[other]
    /\ Takes(p, s, "claimed")
    /\ nextRun' = [nextRun EXCEPT ![s] = now + hours[s]]
    /\ lastRun' = [lastRun EXCEPT ![s] = now]
    /\ UNCHANGED <<now, siteVars, schedule, hours, key, counts, read, history>>

\* The claim is spent also where nothing comes of it.
LookAtSite(p) ==
    /\ pc[p] = "claimed"
    /\ Goto(p, IF about[p] \in active \cap verified THEN "quota" ELSE "idle")
    /\ UNCHANGED <<now, siteVars, scheduleVars, key, counts, history>>

-------------------------------------------------------------------------------

\* The URL is refused or taken, the token is not found, the process dies or the
\* database fails: no more is done.
GivesUp(p) ==
    /\ pc[p] # "idle"
    /\ Goto(p, "idle")
    /\ UNCHANGED <<now, siteVars, scheduleVars, key, counts, history>>

\* An hour; at the start of a day nothing has been scanned.
Tick ==
    /\ now < MaxTime
    /\ now' = now + 1
    /\ IF now' % DayHours = 0 THEN today' = 0 /\ byKey' = 0 ELSE UNCHANGED counts
    /\ UNCHANGED <<siteVars, scheduleVars, key, work, history>>

CallerNext(p) ==
    \/ AddWebsite(p)
    \/ \E s \in Sites : \/ InsertWebsite(p, s) \/ Verify(p, s) \/ NewScan(p, s)
                        \/ KeyScan(p, s) \/ NewSchedule(p, s)
    \/ Stamp(p) \/ Exposed(p) \/ InsertKeyed(p) \/ InsertSchedule(p)

TickerNext(p) == LookAtSite(p) \/ \E s \in Sites : Claim(p, s)

SiteNext(s) ==
    \/ EditUrl(s) \/ EditActive(s) \/ StartVerification(s)
    \/ RemoveSchedule(s) \/ \E state \in {"off", "on"} : SetEnabled(s, state)

Next ==
    \/ \E p \in Callers : CallerNext(p)
    \/ \E p \in Tickers : TickerNext(p)
    \/ \E p \in Processes : Quota(p) \/ Insert(p) \/ GivesUp(p)
    \/ \E s \in Sites : SiteNext(s)
    \/ CreateKey \/ RevokeKey
    \/ Tick

Spec == Init /\ [][Next]_vars

-------------------------------------------------------------------------------
(***************************************************************************)
(* Properties                                                              *)
(***************************************************************************)

\* The quotas count before they insert, so processes that are past the check
\* together exceed them, but by no more than these are, less one: whatever
\* requests, tickers and midnights come in between, the rows and those still
\* to come are fewer than the limit and the widest such crowd together.  Scans
\* of API keys do not count among them.
QuotasHold ==
    /\ (today - byKey) + Cardinality(PastScans(pc)) < MaxScansPerDay + widest
    /\ Cardinality(websites) + Cardinality(PastSites(pc)) < MaxWebsites + widestSites

\* No schedule is claimed more often than the plan's minimum interval, however many tickers
\* look for due ones and however often it is switched off and on.
RunsApart ==
    [][ \A p \in Tickers, s \in Sites :
            pc[p] = "idle" /\ pc'[p] = "claimed" /\ about'[p] = s /\ lastRun[s] # Never =>
                now - lastRun[s] >= MinInterval ]_vars

\* The website has a schedule, or a ticker that has claimed one goes on to scan it.
Scheduled(s) ==
    schedule[s] # "none" \/ \E p \in Tickers : pc[p] \in {"quota", "insert"} /\ about[p] = s

\* No schedule is made, and no scan started for one that was claimed, for a
\* website none of whose own tokens anyone has ever found: whatever is started
\* over, edited, removed or claimed while a look-up or a request is under way.
\* At which URL it was found is another matter: an update of the URL, before or
\* after verify stamps the row by its id, leaves domainVerifiedAt in force.
ScheduledWasProved == \A s \in Sites : Scheduled(s) => proof[s][2] \in 1..token[s]

===============================================================================
