# QA Lab: specifications, model checks and proofs

QA Lab scans web sites. A scanner (plain JavaScript, `src/src`) crawls a site
and runs rules over its pages; a NestJS backend (`src/qa-lab-backend`) keeps
organizations, sites and scans in PostgreSQL, queues scans in Redis with BullMQ
and runs them in workers; a Next.js client (`src/apps/web`) shows them. This
directory holds TLA+ models of the parts where these meet, what TLC checks of
them on small instances, and what TLAPS proves of them for every instance.
Paths below are relative to the repository; the backend's omit
`qa-lab-backend/src/`, the scanner's `src/`.

## 1. The system

| Part | State it keeps | Operations | Hard about it |
|---|---|---|---|
| API: scans (`scans/scans.service.ts`) | `Scan` rows | create, cancel, list, get | the row is committed before the job exists; cancel reads, then writes |
| Schedules (`schedules/`) | `ScanSchedule` rows | claim due, insert, enqueue | several tickers; a claim that leads to nothing |
| Queue (`queue/scan-queue.service.ts`, BullMQ) | jobs, locks, attempts | add, remove, deliver, retry, stalled check | redelivery while the first attempt lives; attempts that run out |
| Worker (`scans/scan.processor.ts`) | none beside the row and the report | process(job) | some ten awaits between which everyone else runs |
| Limiter (`scans/org-concurrency.limiter.ts`) | a counter per organization in Redis | acquire, release | commands that are not atomic together, crashes, the key's expiry |
| Running the scanner (`scan.processor.ts` withTimeout, `scan-child-runner.ts`, `scan-child-entrypoint.ts`) | promise, timer, child process | run, abort, kill | exit, message, error and timeout in any order |
| Reaper (`scans/scan-reaper.service.ts`) | none | fail rows stuck in RUNNING | races with the attempt it gives up |
| Crawler (`siteCrawler.js`, `utils/concurrency.js`) | level, visited set, counters | crawl, abort | concurrent fetches, budget, deduplication |
| Scanner library (`lib/scan.js`) | findings of one scan | scan | errors and aborts at any point |
| Findings (`ruleEngine.js`, `findingAggregator.js`, `scoring.js`, `qualityGate.js`, `scanComparison.js`, `scanHistory.js`) | none | pure | a throwing rule, scores at their bounds, identity of a finding |
| Command line (`index.js`) | `reports/`, `reports/history/` | a run: crawl, outputs, gate | a run may die between two outputs; the next one compares with what it left |
| Quotas, sites, domain verification (`quotas/`, `websites/`, `domain-verify/`) | counts, `url`, `domainVerifiedAt` | check, insert, update, start, verify | check-then-insert; a token or URL replaced while it is looked up |
| Sessions (`auth/`), web client | refresh tokens, a cookie, access tokens in memory | login, refresh, logout, password change | rotation and reuse detection in several statements, several tabs |
| Accounts (`auth/`) | failed-login counter, lock, TOTP secret, reset tokens | login, enrol, reset | a row is read in one statement and written in another |
| API keys, retention | rows | create, revoke, use; delete | parts of the above |
| Organizations, projects, throttling | rows, counters | CRUD, INCR | single statements |
| Report formats, notifications, email, audit, health, configuration | none | formatting and I/O | not a matter of order or state |

A scan passes through them like this. The API (or a schedule's tick) inserts a
QUEUED row and adds a job with the row's id. BullMQ hands the job to a worker
under a lock. The worker reads the row, takes a slot of the organization, sets
RUNNING, runs the scanner, reads the row again, and writes the report together
with COMPLETED, or FAILED. A user may cancel at any time by writing CANCELLED
over whatever the row says; a reaper fails rows that are RUNNING for too long. No
two of them share a lock: all that keeps them apart is the order of their
statements. That is what `ScanPipeline` models, and the other modules take up
what it simplifies.

Makes it correct:

* **pipeline**: a COMPLETED scan has its report, and keeps both; a cancelled scan
  stays cancelled; a scan is run by one attempt at a time, boundedly often; a
  QUEUED scan has a job; RUNNING ends;
* **limiter**: never more than the limit, never a refusal without cause, leaks heal;
* **attempt**: it settles exactly once, within the timeout, and the scan stops;
* **crawler**: within budget and depth, each page once, the same report for the
  same site, ends, and asks for no page after an abort (other requests it does send);
* **scanner**: streaming finds what the batch would; a further finding never raises the
  score; the files, the gate and the exit code of a run agree; comparisons follow the site;
  the library answers in full or with nothing;
* **admission**: how far concurrent checks can exceed a quota; a schedule never runs too
  often, and for no site of which nobody has ever found a token;
* **sessions**: a family has at most one usable token, ends for good, and an honest client
  is not logged out;
* **accounts**: wrong passwords count unless logins cross (wrong codes do not), a lock holds, two-factor login asks for a secret
  its owner has confirmed, a reset link works once.

## 2. Modules

| Module | Lines | What it is |
|---|---|---|
| `ScanPipeline` | 640 | row, job, locks, attempts, limiter, cancel, reaper; every await a step |
| `MCScanPipeline` | 20 | its instances: which faults, how many |
| `ScanPipelineProofs` | 845 | proofs: statuses and attempts; counters |
| `OrgLimiter`, `MCOrgLimiter`, `OrgLimiterProofs` | 210, 15, 300 | the limiter's commands with expiry and clock |
| `ScanCall` | 20 | abstract specification: what process(job) may see of a scan it awaits |
| `ScanAttempt`, `ScanAttemptProofs` | 255, 120 | withTimeout and the child runner, which implement `ScanCall` |
| `Crawler`, `MCCrawler`, `CrawlerProofs` | 390, 20, 2605 | crawlSite with its pool, and scan() around it |
| `Findings` | 375 | the rules, both rule engines, groups, score, gate, comparison, as operators |
| `Scanner`, `MCScanner`, `ScannerProofs` | 460, 130, 4580 | the command line run after run, and the library's scan(), over `Findings` |
| `Admission`, `MCAdmission`, `AdmissionProofs` | 395, 20, 845 | quotas, websites, verification, API key, schedules and tickers |
| `Sessions`, `MCSessions`, `SessionsProofs` | 315, 10, 852 | refresh tokens of a user, the tabs of a browser |
| `Accounts`, `MCAccounts`, `AccountsProofs` | 340, 10, 410 | one user's row |

How they fit: `ScanPipeline` lets an attempt's scan return, throw or hang (its
steps `Scan` and `ChildLost`); these are the steps of `ScanCall`, and
`ScanAttempt` implements `ScanCall` (property `ImplementsScanCall`, theorem
`AttemptIsCall`). It uses the limiter as two commands and lets the key vanish at
any time (fault "expiry"); `OrgLimiter` shows when the key vanishes. `Scan` of
the attempt is, inline, the crawl of `Crawler`; the abort of `ScanAttempt`'s
timeout is `Crawler`'s `Abort`, and that of `Scanner`. `Scanner` takes up what `Crawler`
leaves open, what becomes of the pages: it goes through those of a site in the order of the
report. `Admission` ends where a scan's row is inserted, which is where `ScanPipeline`
begins. `Sessions` and `Accounts` divide AuthService by the rows it writes: a password reset
is `RevokeAll` in one and `SetPassword` in the other.

### ScanPipeline

| Variable | In the program |
|---|---|
| `status`, `reports` | `Scan.status`; the `Report` rows, unique by `scanId` |
| `submit`, `cancel` | the statement a create or cancel request has reached |
| `job`, `made`, `stalled`, `lock` | the BullMQ job: state, `attemptsMade`, `stalledCounter`, lock owner |
| `pc`, `at`, `outcome` | per worker: next statement of process(job), its scan, result |
| `slots` | the value of `org-scan-concurrency:<id>` |
| `runs`, `faults` | history: how often a scan was set RUNNING; faults so far |

Actions carry the names of the statements: `Create`, `Enqueue`, `EnqueueFails`,
`MarkEnqueueFailed`; `CancelRead`, `CancelRemove`, `CancelWrite`; `Read`, `Acquire`,
`Backoff`, `Start`, `Scan`, `Reread`, `Fail`, `Save`, `Catch`, `Release`, `Zero`;
`Reap`; and BullMQ's `Deliver`, `BackoffElapses`, `LockExpires`, `StalledCheck`,
`Settle`. A fault of each kind is an action of its own (`SubmitDies`, `CancelDies`,
`StatementFails`, `LimiterFails`, `WorkerDies`, `ChildLost`, `SlotKeyExpires`) or a
fault conjunct of one (`LockExpires` of a live worker, `EnqueueFails`). Every
property names the faults it tolerates by excluding the others with `NoFault`.

BullMQ is not in the repository; it is modelled from how the code sets it up:
`attempts: 3`, `lockDuration` above the scan timeout and renewed, `maxStalledCount:
2`, a job id equal to the scan's, `remove()` refused for a locked job.

Simplified: one organization (keys of different ones are independent); rows are
not deleted meanwhile; the Redis client may apply a command 0, 1 or 2 times when
it fails (more retries add nothing the properties distinguish); the result
"cancelled" cannot reach process(job), as only the timeout aborts and then has
rejected already; `pagesScanned` and the other columns are left out; old finished
jobs are not purged.

### OrgLimiter

`there`, `count`, `ttl` are the key; `pc` the command a worker has to send next;
`held` how long it has had its slot. `Incr`, `Expire`, `Refuse` are acquire's
commands, `Release` and `Zero` those of release. `Tick` is a unit of time: it waits
for attempts that are at the end of their wall-clock time (`MaxHold`), and takes the
key away when its `ttl` is over. `lost` and `unarmed` remember the two events the
properties make exceptions for: the key expired with attempts counted in it, and a
worker died between INCR and EXPIRE.

### ScanAttempt and ScanCall

`mode` is SCAN_ISOLATION; `scanner`, `crawled`, `emitting` are scan() in the worker
or the child; `reply` and `exit` are what a child leaves for the worker to hear of;
`timer` and `promise` are those of withTimeout and of runScanInChild; `writes` are
the progress updates nobody awaits, which land in any order, also after `EndRow`, the
row's last update. The worker hears of a child's exit and of its message in either
order. A child may exit with its message cut off, since it exits right after
`process.send` without waiting for it.

### Crawler

Paths are normalized paths, a site is its links per path. `level`, `batch`,
`visited`, `blocked`, `truncated`, `depth` are crawlSite's variables (`batch` is
`levelToFetch`); `next`, `waiting`, `fetching`, `fetched` are mapWithConcurrency's:
an index waits for the rate limiter, then is fetched, then is in; `pages` are those
handed to onPage; `asked` counts the requests for pages. `Abort` may come at any time. After
an abort scan() has returned, and the pool's other fetches go on until they notice,
as they do in the program. The requests that are sent without the signal have counters of
their own: `lookups` those for robots.txt and the sitemaps (`Lookup`, before the first page),
`probed` those of checkAssets and checkExposedPaths (`Probe`, after the last one). What a page
links to, what robots.txt disallows and what the sitemap lists are inputs.

### Findings and Scanner

A page is the record normalizePage makes, as far as a rule reads it: texts are names with
a length, what is only present or absent (headers, attributes, meta tags) is in a set.
Every rule of `rules/` is an operator from pages to findings with the conditions, ids and
severities of the code; titles and recommendations are left out. `RunPerPageRules`,
`CollectSummaries`, `RunFinalRules` are the streaming engine, `RunRules` the batch engine
it replaced, which is still exported. Plugins have findings of a severity per page and one
at the end (`PluginFinal`), and may throw in both places. The score is computed in tenths; its floating-point sum may fall to either side
where it ends in a half, so `Rounded` gives two results there.

In `Scanner`, `page`, `summaries`, `context`, `findings`, `score` are the locals of main()
and scan(); `history` and `output` the files of earlier and present runs, by what they
tell (run, pages, groups, score, verdict); `open` follows the comparisons that are printed,
`missed` holds the issues of those that were saved and whose run died before it printed them. `Start` checks
the arguments and opens report.json; `OnPage`, `EndCrawl`, `Checks`, `FinalRules`,
`WriteJson`, `WriteReports`, `SaveHistory`, `WriteDashboard`, `PrintComparison`,
`WriteComment`, `SendWebhooks`, `Exit` follow main(); `Dies` may come between any two and cut
a snapshot off. `SaveHistory` compares and saves, with nothing awaited in between; what it has
compared is told by `PrintComparison`, after the dashboard. `Scan`, `Abort`, `Fails`, `Answer`, `Catch` are the library's. Runs are one after
another, on one machine; concurrent ones would share the files of `reports/`, which no
document allows or forbids. CSV, Markdown and the executive summary are written by the
loop that writes HTML. Not modelled: a plugin's own collectSummary, `writeReports` of the
library (no caller sets it), what is printed but for the comparison.

### Admission

`websites`, `active`, `url`, `token`, `verified` are the columns of `Website`; `schedule`,
`hours`, `nextRun`, `lastRun` of `ScanSchedule`; `key` the API key; `today` and `byKey`
what countsToday would count. `pc`, `about`, `read` are a request's or ticker's next
statement and what it knows. `AddWebsite`/`InsertWebsite`, `NewScan`, `Quota`, `Exposed`,
`Insert` are check and insert; `KeyScan`, `InsertKeyed` the path of an API key, which asks
neither quota nor verification; `Claim`, `LookAtSite`, `Quota`, `Insert` a tick. `Verify`
reads, `Stamp` writes. `widest`, `widestSites` and `proof` (the URL and the token a
verification looked at) remember what the properties compare with. Roles and projects are left out: callers may do what they ask for.

### Sessions and Accounts

`row`, `family`, `lapsed` are `RefreshToken`; `cookie` and `access` the browser; `pc` and
`token` the requests of its tabs. A refresh is `Boot`, `Find`, then `Burn`, or `Rotate`,
`Issue`, `Answer`: each statement may be the last (`Dies`), and the answer be lost. `Logout`,
`Revoke`, `Forget` and `RevokeAll`, `Purge` are the other writers. `crossed` is set when two
refreshes are past their checks at once, `calm` is lost when requests overlap or anything
goes wrong.

`Accounts` has the columns of `User` that AuthService reads in one statement and writes in
another. `Login` is followed by `LoginFail` or `LoginClear`; a right password with a wrong
code is `RefuseCode`, which writes nothing and is counted in `refused` as wrong passwords are in
`wrongs`. `BeginTotp` is followed by `StoreSecret`, `ConfirmTotp` by `EnableTotp`,
`ResetPassword` by `SetPassword`; `crossed` names the
operations of which two were under way at once, logins until the counter next starts over
with none of them in between (`CountsAfresh`). Any other refused request that writes nothing is
no step.

## 3. Runs

| Run | Shows | Instance and why it is enough |
|---|---|---|
| `pipeline` | nine safety properties, and that RUNNING and jobs end, with at most two faults of eight kinds (`FewFaults`, which also bounds the liveness properties: no fault is fair, so it cuts off nothing that fairness asks for) | one scan, two workers, the real 3 attempts and 2 stalls. Nothing in the code relates two scans except the limiter, whose limit is 1 here, so that two attempts at one scan already compete for it; the proofs cover more |
| `limiter` | safety and healing of the counter | 3 workers at a limit of 2, TTL 3, up to 2 dying anywhere: a key may expire under 0 to 3 counted attempts, and an attempt outlive the key or the key the attempt |
| `attempt` | both ways implement `ScanCall`, and stop | four pages |
| `crawl` | six properties of a crawl | every site of six paths with up to two links from pages 1 and 2 and one from 4, one disallowed path, a sitemap, two fetches at a time, 4 pages, depth 2: sites beyond the budget, beyond the depth, with cycles, and abort at every step; one request without the signal before the first page (`MaxLookups`) and two after the last (`MaxProbes`), so that an abort may come before and between them |
| `scanner` | rules, score, gate, files, comparisons, answers, in 108,000 states | seven command lines and four requests over a site in any of three states, of one to three pages; two runs of any kind and a third that compares (`ThirdCompares`): the shortest history in which a comparison follows a run that died or kept no history. The sites show every id the built-in rules can give, assets that fail, are too large or are copies, and both kinds of answers to probes |
| `admission` | quotas, schedules, which sites are scheduled | two requests and a ticker, quotas of one website and one scan, two days; of two websites one is studied (`OneStudied`) with up to two changes. A crowd of two past a check exceeds each quota; a claim, a switch and an update can all come between any two statements of a third |
| `sessions` | refresh families, cookie | two tabs, four tokens (two families, or one rotated three times), two troubles of any kind |
| `accounts` | counter, lock, TOTP, reset | two requests at a time, a lock after two wrong passwords and up to four of them, so that a third and a fourth come after a lock; as many wrong codes, two secrets, one reset link |
| `pipeline_cancel` | finding 1 | no faults |
| `pipeline_defer` | finding 2 | no faults, limit 1 |
| `attempt_child` | finding 3 | one page |
| `scanner_gate` | finding 4 | one clean page without a security.txt |

Bounds: `MaxFaults` (per kind) and `MaxFaultsInAll` bound the faults of a behaviour of the
pipeline, `MaxDeaths` those of the limiter, `MaxHold` and `TTL` are ticks; `MaxTokens`,
`MaxTroubles`, `MaxWrongs`, `MaxSecrets`, `MaxResets`, `MaxKeyScans`, `MaxUrls`, `MaxTime`,
`MaxLookups`, `MaxProbes`,
`MaxRuns` bound what the code leaves unbounded; `MaxPages`, `MaxDepth`, `Concurrency`,
`MaxFailed` and the quotas are the program's own. Symmetry is used where processes, tabs or
websites are interchangeable and no liveness property is checked. CHECK_DEADLOCK is off
where the modelled thing ends (a scan, an attempt, a crawl) or a bound stops it.

### What the violations say

1. `pipeline_cancel`: cancel overwrites COMPLETED (`scans.service.ts:425`), which the
   code refuses to do when it can see it (`:418`).
2. `pipeline_defer`: the "soft defer" spends BullMQ attempts; three refusals within
   half a minute strand the scan in QUEUED (`scan.processor.ts:131`).
3. `attempt_child`: a child killed by a signal hangs its worker
   (`scan-child-runner.ts:67`).
4. `scanner_gate`: `--fail-on=info` passes a scan with an Info, as severities that are not
   counted count as none (`scoring.js:39`). `GateHasReason` is about those that are.

Observed on the way, and not kept as runs:

* `lib/scan.js:243`: the library grades every site F, as it grades an object. The worker
  rounds the same object to NaN for the report's score (`scan.processor.ts:275`); what the
  database makes of that is outside the repository, and `ScanPipeline` lets the statement
  succeed or fail.
* `lib/scan.js:226`, `siteCrawler.js:61`: assets, exposed paths, robots.txt and sitemaps are
  requested without the signal, also after an abort; `AbortStopsPages` says what the signal
  does stop.
* `auth.service.ts:163`: a wrong TOTP code is not counted, so that no number of them locks the
  account; `:143`: wrong passwords that cross are counted once, so that as many as
  `docs/AUTH.md:7` says may not lock it. `CountsWrongPasswords` says what is counted.
* `websites.service.ts:119`: an update of the URL keeps the verification of the old one, and
  `domain-verify.service.ts:116` stamps a row whose URL has changed meanwhile; `ScheduledWasProved`
  is about the token only.
* `scans.service.ts:45`: a scan of an API key is not held to the day's limit, although it counts
  in it, and may probe exposed paths of a site that is not verified.
* `findingAggregator.js:8` says that the severity of an id is fixed, but AST005 is Medium or Low
  (`assetRules.js:116`): the first asset decides what the group costs and what it fails.
* `index.js:433`, `:449`: a run that dies between its snapshot and its comparison has moved what
  the next one compares with (the exception of `LedgerExact`).
* `org-concurrency.limiter.ts:38`: the counter of a busy organization expires an hour after it
  was created and lets more in (the exception of `LimitUnlessLost`).
* `siteCrawler.js:73`: a start URL with a final slash is scanned twice.
* `schedules.service.ts:162`: scheduled scans do not use the capped `maxPages` that the quota
  check returns.

## 4. Fairness

* `ScanPipeline`: weak fairness of each worker's next statement (Node runs what is
  ready; the database client answers or fails), of BullMQ's delivery, promotion and
  stalled check, of the expiry of a *dead* worker's lock, and of the reaper, which are
  all timers or blocking reads that go on while a worker process is up. None of
  requests and users. None of `ChildLost`: a hung attempt hangs.
* `OrgLimiter`: a live worker sends its next command; time passes. Organizations need
  not be idle, and no acquire is assumed.
* `ScanAttempt`: events are delivered, timers fire, the database answers. A scan need
  not end by itself; only after an abort must it go on to notice. `AbortStopsPages` and
  `CrawlEnds` of `Crawler` say it does: what is sent without the signal is a bounded number
  of requests, each with the HTTP client's own timeout, so it delays the end and does not
  prevent it.
* `Scanner`, `Admission`, `Sessions`, `Accounts` state safety only: any request may stop
  anywhere.
* `Crawler`: the loop goes on, and some fetch of the pool does: the HTTP client has a
  timeout of its own, and the rate limiter's timers fire.

## 5. Proofs

Assumptions are `ConstantsAssumption` of each module: finite sets of workers,
positive limits, and a ticker is no request. Scans may be infinitely many. Those of `Scanner` say what its inputs are:
the pages, headers, fields and candidate paths of a site are lists, as the normalizer makes
them, and a candidate is of one of the three categories of `exposedPathsChecker.js`
(`SitesAssumption`); a command line has formats, flags and plugins (`CommandLinesAssumption`),
a request its plugins (`RequestsAssumption`), and what a plugin finds has one of the five
severities of `constants/severity.js`, which every rule in the repository uses (`ArePlugins`).
The code does not check the last: of a plugin with a severity of its own, which no counter and
no threshold knows, the theorems say nothing. Nor does it check `DelegationAssumption`, which only
`StreamsLikeBatch` uses: that a plugin's `run` finds what its streaming hooks find. The built-in rules
are written so ("delegates to runPerPage, collectSummary, and runFinal",
`src/src/rules/seoRules.js:17`); a plugin
with `runFinal` but a `run` that looks at the pages itself is heard by the batch engine and
not by the stream. Nothing is assumed of what is on a page, of how
many sites, commands, plugins and runs there are, nor that a set of them is finite.

* **ScanPipelineProofs.** Everything rests on `BaseInv`, which is `TypeOK` with `WorkerInv` (a
  worker has a scan exactly while it is in `process(job)`, and its outcome fits the step it is
  at) and `QueueInv` (a scan has a row exactly from its submission on, only an active job is
  locked, a live job has an attempt left). `TypeCorrect` and `CancelledRests` need no more.
  `AttemptsExclusive` adds `Owning`: without lock faults a worker on a scan holds its lock.
  `CommittedIsFinal` adds `Committed`: no attempt on a scan with a report is still
  undecided, so no `Start`, `Fail` or `Catch` is left to overwrite the status.
  `CompletedJobFinished` adds `Finishing`, what the attempts in flight still owe.
  `QueuedAccounted` adds `PastQueue`: an attempt that resolved, and a job that completed, left
  the scan not QUEUED, whatever happens to locks. `CompletedReported` needs no assumption
  on faults.
  The two sections that count reduce each step to what it adds to a set. `LimitHolds`: the counter is at least the number of counted
  workers, whatever dies, so an INCR that stays within the limit finds a free place; the
  refused INCR counts too. `SlotsExact`: equality without crashes. `RunsLimited`: runs so far,
  plus one for an attempt before its `Start`, never exceed the attempts made plus the
  stalls counted (plus one while active).
* **OrgLimiterProofs.** `LimitHolds` as above, as long as the key is not lost. `RefusalsHaveCause`:
  the counter is never more than the counted workers plus the dead ones, also after it was
  lost, since expiry and SET 0 only lower it, and a worker that is about to SET 0 has been
  uncounted. `PositiveWillExpire`: a counter rises above 0 only through 1.
* **ScanAttemptProofs.** `AttemptIsCall`: a settled promise keeps its value, a silent child
  stays silent, for which the invariant is that an exit ends the scanner and clears the timer.
* **CrawlerProofs.** `ReportInOrder`: the pages of the current depth are the last of the
  report (`AtEnd`), as many as were handed on, and no earlier level has their depth
  (`Behind`). `AbortHolds`: the check between the rate limiter and the request stops the pages; what is looked up comes while nothing has been asked for (`Fresh`), and a
  probe at a stage that is reached only with the budget spent or the crawl complete
  (`AllScanned`).
  `CompletedCrawlIsComplete` and `PartialCrawlIsNearest` compare the levels, made by a fold of
  addCandidate over links, with `Within`, a recursive function of the links alone: as long as
  nothing was left out, a level holds exactly what is at its distance (`LevelPlaced`,
  `LevelComplete`) and the levels behind it all that is nearer (`EarlierComplete`); a level is
  cut only when the budget does not reach (`BatchOfLevel`, `CutOff`). So what is left out is
  farther than what was scanned. `RequestsAreBounded` counts the paths asked for in the pages
  and the batch.
* **ScannerProofs.** Its first half is about data. Every rule, built in or plugin, returns
  findings, which rests on what `FlattenSeq` returns; the groups of more findings are the
  old groups, none cheaper, and perhaps a new one (`FirstsAppend`, `LikeGrows`), and a sum of
  greater numbers is greater (`SumGrows`): `TenthsFall`. `ScoreNeverRises` follows, as only
  `OnPage` and `FinalRules` add to the findings of a run. The second half is `IInv`, of one
  conjunct per concern. `OutputsDoAgree` needs `JsonInv` and `WrittenInv`, from which step on an
  output is of this run; that the report opened before the crawl counts the pages on the way;
  and that what a webhook was last sent is of an earlier run until this one sends. `LedgerIsExact` needs `HistoryInv`:
  before a run saves, every snapshot is of another run, so the latest of the others is the
  latest of all, and a snapshot that is cut off changes neither; and `LedgerInv`: while a
  comparison is saved and not printed, applying it to `open` gives what the snapshot has
  (`Told`), but for what was missed before, and a death adds it to `missed`. `GateAlwaysHasReason` needs that
  the score is that of the findings (`ScoreInv`) and that the arguments were checked
  (`ArgsInv`). `AnswersAreInFull` needs `PageInv`, that the steps after the crawl have all
  pages. `StreamsLikeBatch` exchanges two sums of lists: the stream puts together, page
  after page, what each rule has there and then what each has at last; the batch, rule after
  rule, all that a rule has. How often a finding is in either (`Occ`) is added up over the
  rules (`Exchange`, by induction over their list): what a rule has in the batch is at
  most what it has in the stream, and as much unless some rule throws (`AreCovered`). That
  rests on which rules are loaded: without `runFinal` a rule has nothing at last, since an id
  of a built-in rule is that rule's (`LoadedAreHeard`: a plugin with one is not the first of
  its id). `StreamInv` says what is found so far: at page k the findings of the first k pages and
  their summaries.
* **SessionsProofs.** `FamilyHasOne`: without crossing refreshes at most one is past its check
  (`Alone`), the token it is about to rotate is the last live one of its family (`LastLive`),
  and after the rotation there is none (`NoneLive`). `EndIsFinal` needs only that issued
  tokens are named by issued families (`Named`), and holds with crossings: a token comes
  into a family only through a refresh that is past its check. `HonestClient`: while requests
  are alone (`OneRequest`), each statement of one knows what works (`OnItsWay`): the cookie,
  nothing, or the token about to be answered.
* **AccountsProofs.** One invariant per operation, each under "no two of these crossed":
  `LoginInv` (what a login carries is the row's count, which is that of the wrong passwords;
  where the counter starts over with no login under way, also after some have crossed, it
  holds again: `AfreshInv`), `TotpInv` (what an enrolment carries is
  the row's secret, and none is in force before the first confirmation), `ResetInv` (a token in
  use has set no password). `WrongPasswordsCounted` and `LocksHold` follow from the first.
* **AdmissionProofs.** `QuotasExceededByCrowd`: `Crowds`, that those past a check are at most the
  widest crowd, and that the property itself counts them in, which makes it inductive: a
  process joins the crowd only below the limit. `ClaimsApart`: `Apart`, a schedule's next run
  is its interval after the last one, whatever it is switched or recreated. `ScheduledProved`:
  `Proved`, that a look-up is for a token the website was issued, and that a verified row, a
  request for a schedule and a schedule rest on one found; proofs and tokens are only replaced
  by later ones (`FoundKept`).

`TypeCorrect` is proved of every module of these, and is not a property of the runs.

Recursive functions and folds are within reach, though the library's induction theorems are
not: `Induction` (in both modules) is derived from the well-foundedness of `<` on Nat and
takes a set where they take an operator. A recursive function is unfolded once its equation is
shown to have a solution, by that induction.

The proofs changed the model where it said less than it seemed to. Three CASE expressions of
`Scanner` had guards that overlap (`--no-history` with `--compare`; help or `--history` with bad
arguments; an unsafe URL with valid plugins): TLC takes the first, the semantics any. They are
IFs now, in the order of the code. The lists of `Findings` are made with `Where` and `Firsts`,
over positions, which have no recursion.

Only model-checked: every liveness property, and that an attempt ends at all
(`ImplementsScanCall`'s fairness, `TimeoutStopsScan`), as the prover has no
rules for fairness. Every invariant and every action property of the runs that pass is a
theorem.

## 6. Not modelled

Organizations, projects and members, email, audit, health, metrics, configuration: CRUD and
I/O in single statements, with nothing between them that another request could change. The
throttler's INCR and PEXPIRE are the limiter's INCR and EXPIRE. CSRF, validation and the
checks of URLs are predicates of one request; where they refuse, the models have a refused
request or an error. HTML parsing, technology detection, report layout and the pages of the
web client turn data into data. Of API keys the scopes and the last-used time, of retention
the deletion of reports and audit rows are left out: `CompletedHasReport` is about scans
within the retention period.

What would come next: the polling of a scan's page against a cancel; the throttler's own
counters; a refinement of an abstract session (one token that moves) by `Sessions`.

## 7. Running it

    tlc -config PipelineScan.cfg MCScanPipeline      # and so on, see PROJECT.json "runs"
    tlapm ScanPipelineProofs.tla                     # and the other *Proofs

Operators named `X_Something` before a definition `X`, marked "Mutant", are wrong variants of
`X`: with one of them in its place, the run named in `PROJECT.json` finds the property violated.
