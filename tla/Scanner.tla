------------------------------- MODULE Scanner --------------------------------
(***************************************************************************)
(* A scan from its start to its outputs: the command line (index.js) on    *)
(* one machine, run after run against one site that changes in between,    *)
(* and the library's scan(), which the worker calls.  Both hand every page *)
(* of the crawl to the rules and forget it; what the rules say is in       *)
(* Findings, how the crawl finds its pages in Crawler.                     *)
(*                                                                         *)
(* A run may die at any step: it is killed, a disk is full, a page cannot  *)
(* be parsed.  Runs are one after the other.                               *)
(***************************************************************************)
EXTENDS Findings

CONSTANTS
    Sites,          \* what a crawl may find: pages, assets, answers to probes
    CommandLines,   \* command lines, parsed
    Requests,       \* requests to the library
    MaxRuns         \* bound on the runs

ASSUME MaxRunsAssumption == MaxRuns \in Nat

\* The checks go through lists; a candidate path is of a known kind.
ASSUME SitesAssumption ==
    \A s \in Sites :
        /\ s.truncated \in BOOLEAN
        /\ IsSeq(s.pages) /\ IsSeq(s.probes.candidates)
        /\ \A i \in DOMAIN s.pages :
              LET p == s.pages[i]
              IN  /\ IsSeq(p.fields) /\ IsSeq(p.forms)
                  /\ IsSeq(p.scripts) /\ IsSeq(p.stylesheets) /\ IsSeq(p.images)
        /\ \A i \in DOMAIN s.probes.candidates :
              s.probes.candidates[i].category \in {"sensitive-file", "directory-listing", "recon"}

\* Rule modules that were read, whether they are valid or not.
ArePlugins(plugins) ==
    /\ IsSeq(plugins)
    /\ \A i \in DOMAIN plugins :
          /\ plugins[i].final \in Severities \cup {NoFinal}
          /\ \A u \in DOMAIN plugins[i].severityAt : plugins[i].severityAt[u] \in Severities

\* Command lines and requests have different fields.
ASSUME CommandLinesAssumption ==
    \A a \in CommandLines :
        /\ "rulesDirs" \notin DOMAIN a
        /\ a.formats \subseteq {"report.json", "report.html"}
        /\ {a.compare, a.noHistory, a.dashboard, a.prComment, a.webhook} \subseteq BOOLEAN
        /\ ArePlugins(a.plugins)
ASSUME RequestsAssumption ==
    \A r \in Requests : "rulesDirs" \in DOMAIN r /\ r.safe \in BOOLEAN /\ ArePlugins(r.rulesDirs)

\* A plugin that streams finds with `run` what its streaming hooks find, as every
\* rule of src/src/rules does: without runPerPage it looks at no page, without
\* runFinal it has nothing to say at the end.
Delegates(rule) ==
    /\ "runFinal" \in rule.hooks => "runPerPage" \in rule.hooks \/ DOMAIN rule.severityAt = {}
    /\ "runPerPage" \in rule.hooks => "runFinal" \in rule.hooks \/ rule.final = NoFinal
ASSUME DelegationAssumption ==
    /\ \A a \in CommandLines : \A i \in DOMAIN a.plugins : Delegates(a.plugins[i])
    /\ \A r \in Requests : \A i \in DOMAIN r.rulesDirs : Delegates(r.rulesDirs[i])

VARIABLES
    pc,         \* the next step of the run, or "idle"
    run,        \* how many runs there were; also the timestamp of the last one
    args,       \* its command line or request
    site,       \* what its crawl finds
    page,       \* how many pages it has been through
    rules,      \* the rules it has loaded
    summaries,  \* what collectSummary kept of them
    context,    \* the results of the optional checks
    findings,   \* the findings so far
    score,      \* what calculateScore made of them
    comparison, \* the keys that are new and those that are resolved
    history,    \* the site's snapshots under reports/history
    output,     \* the other files, and what the webhook was sent
    ended,      \* how the last run ended
    aborted,    \* the pages the scan had been through when its signal fired
    result,     \* what scan() returned
    open,       \* history: the open issues as one has them who applies every
                \* comparison printed, and starts again from the snapshot of a
                \* run that does not compare
    missed      \* history: the issues of comparisons saved and never printed

scanVars == <<page, summaries, context, findings, score>>
runVars == <<run, args, site, rules>>
diskVars == <<comparison, history, output, open, missed>>
endVars == <<ended, aborted, result>>
vars == <<pc, scanVars, runVars, diskVars, endVars>>

Outputs == {"report.json", "report.html", "dashboard.html", "pr-comment.md", "webhook"}
NotWritten == [run |-> 0, whole |-> FALSE, pages |-> 0, issues |-> {}, score |-> 0, gate |-> "none"]
NoScore == [score |-> 0, grade |-> "F", severity |-> [s \in Counted |-> 0]]
NotAborted == -1
NoResult == [status |-> "none", pages |-> 0, score |-> 0, grade |-> "F", issues |-> {}]

TypeOK ==
    /\ pc \in {"idle", "crawl", "checks", "final", "json", "reports", "history", "dashboard",
               "print", "comment", "webhooks", "gate", "answer", "catch"}
    /\ run \in 0..MaxRuns
    /\ page \in 0..Len(site.pages)
    /\ Len(summaries) = page
    /\ AreFindings(findings)
    /\ score.score \in 0..100
    /\ score.grade \in {"A", "B", "C", "D", "F"}
    /\ DOMAIN output = Outputs
    /\ ended \in {"none", "refused", "shown", "died", "done", "gate failed", "answered"}
    /\ aborted \in NotAborted..Len(site.pages)
    /\ result.status \in {"none", "completed", "partial", "cancelled", "failed"}

Init ==
    /\ pc = "idle" /\ run = 0
    /\ args \in CommandLines /\ site \in Sites
    /\ page = 0 /\ rules = BuiltIn /\ summaries = <<>> /\ context = NoContext
    /\ findings = <<>> /\ score = NoScore
    /\ comparison = CompareScans({}, {})
    /\ history = <<>>
    /\ output = [o \in Outputs |-> NotWritten]
    /\ ended = "none" /\ aborted = NotAborted /\ result = NoResult
    /\ open = {} /\ missed = {}

Goto(step) == pc' = step

Library == "rulesDirs" \in DOMAIN args

\* A run starts: it has seen nothing yet.
Fresh ==
    /\ pc = "idle" /\ run < MaxRuns
    /\ run' = run + 1
    /\ site' \in Sites
    /\ page' = 0 /\ summaries' = <<>> /\ context' = NoContext
    /\ findings' = <<>> /\ score' = NoScore
    /\ comparison' = CompareScans({}, {})
    /\ aborted' = NotAborted /\ result' = NoResult
    /\ UNCHANGED <<history, open, missed>>

AllValid(plugins) == \A i \in DOMAIN plugins : ValidRule(plugins[i])

-------------------------------------------------------------------------------
(***************************************************************************)
(* The command line: main()                                                *)
(***************************************************************************)

\* What main() does with its arguments, in the order of its checks.
CheckArgs(a) ==
    IF a.help \/ a.url = "none" THEN "shown"
    ELSE IF \/ a.url = "bad" \/ a.failOn \notin Severities \cup {NoThreshold}
            \/ a.minScore \notin 0..100 \cup {NoMinimum} \/ a.rulesDir = "missing" THEN "refused"
    ELSE IF a.history THEN "shown"
    ELSE IF ~ AllValid(a.plugins) THEN "died"
    ELSE "scan"

\* Without a format the reports are JSON and HTML.
Formats(a) == IF a.formats = {} THEN {"report.json", "report.html"} ELSE a.formats

\* The JSON report is opened before the crawl, over the one of the last run.
Start(a) ==
    /\ Fresh
    /\ args' = a
    /\ rules' = IF CheckArgs(a) = "scan" THEN LoadRules(a.plugins) ELSE BuiltIn
    /\ output' = IF CheckArgs(a) = "scan" /\ "report.json" \in Formats(a)
                 THEN [output EXCEPT !["report.json"] = [NotWritten EXCEPT !.run = run']]
                 ELSE output
    /\ ended' = IF CheckArgs(a) = "scan" THEN "none" ELSE CheckArgs(a)
    /\ Goto(IF CheckArgs(a) = "scan" THEN "crawl" ELSE "idle")

\* A mutant of OnPage: the signal is not looked at between pages.
OnPage_AfterAbort ==
    LET p == site.pages[page + 1] IN
    /\ pc = "crawl"
    /\ page < Len(site.pages)
    /\ page' = page + 1
    /\ findings' = findings \o RunPerPageRules(p, rules)
    /\ summaries' = CollectSummaries(p, summaries)
    /\ output' = IF ~ Library /\ "report.json" \in Formats(args)
                 THEN [output EXCEPT !["report.json"].pages = @ + 1]
                 ELSE output
    /\ UNCHANGED <<pc, context, score, runVars, comparison, history, open, missed, endVars>>

\* onPage: the page is normalized, checked, summarized, written, forgotten.
OnPage ==
    LET p == site.pages[page + 1] IN
    /\ pc = "crawl"
    /\ page < Len(site.pages)
    /\ Library => aborted = NotAborted
    /\ page' = page + 1
    /\ findings' = findings \o RunPerPageRules(p, rules)
    /\ summaries' = CollectSummaries(p, summaries)
    /\ output' = IF ~ Library /\ "report.json" \in Formats(args)
                 THEN [output EXCEPT !["report.json"].pages = @ + 1]
                 ELSE output
    /\ UNCHANGED <<pc, context, score, runVars, comparison, history, open, missed, endVars>>

EndCrawl ==
    /\ pc = "crawl"
    /\ page = Len(site.pages)
    /\ Goto("checks")
    /\ UNCHANGED <<scanVars, runVars, diskVars, endVars>>

\* The library gives checkAssets an array, in which it looks for pages: it
\* throws, whatever the pages are.
Checks ==
    /\ pc = "checks"
    /\ context' = [assetChecks |-> IF args.checkAssets /\ ~ Library
                                   THEN CheckAssets(site.pages, site.assets) ELSE <<>>,
                   exposedPathChecks |-> IF args.checkExposedPaths
                                         THEN CheckExposedPaths(site.probes)
                                         ELSE NoContext.exposedPathChecks]
    /\ Goto(IF Library /\ args.checkAssets THEN "catch" ELSE "final")
    /\ UNCHANGED <<page, summaries, findings, score, runVars, diskVars, endVars>>

FinalRules ==
    /\ pc = "final"
    /\ findings' = findings \o RunFinalRules(rules, summaries, context)
    /\ score' \in CalculateScore(findings')
    /\ Goto(IF Library THEN "answer" ELSE "json")
    /\ UNCHANGED <<page, summaries, context, runVars, diskVars, endVars>>

\* The groups of a report, of one category if one was asked for.
Shown(a) ==
    LET groups == AggregateFindings(findings)
    IN  { groups[i].id : i \in { j \in DOMAIN groups : a.category \in {"", groups[j].category} } }

Gated == args.failOn # NoThreshold \/ args.minScore # NoMinimum
Verdict ==
    IF ~ Gated THEN "none"
    ELSE IF GatePassed(score, args.failOn, args.minScore) THEN "passed" ELSE "failed"

Written(issues, verdict) ==
    [run |-> run, whole |-> TRUE, pages |-> page, issues |-> issues, score |-> score.score,
     gate |-> verdict]

\* A step that writes one output, or passes it by.
Writes(step, next, o, asked, content) ==
    /\ pc = step
    /\ output' = IF asked THEN [output EXCEPT ![o] = content] ELSE output
    /\ Goto(next)
    /\ UNCHANGED <<scanVars, runVars, comparison, history, open, missed, endVars>>

\* finalize: the pages are there already.
WriteJson ==
    Writes("json", "reports", "report.json", "report.json" \in Formats(args),
           [Written(Shown(args), "none") EXCEPT !.pages = output["report.json"].pages])

WriteReports ==
    Writes("reports", "history", "report.html", "report.html" \in Formats(args),
           Written(Shown(args), "none"))

\* The snapshots that can be read back, by their place in the history.
Readable == { i \in DOMAIN history : history[i].whole }

\* A mutant of Previous: the list is sorted the other way.
Previous_First ==
    LET others == { i \in Readable : history[i].run # run }
    IN  IF others = {} THEN {} ELSE history[Min(others)].keys

\* getPreviousFullScan: the latest of the others.
Previous ==
    LET others == { i \in Readable : history[i].run # run }
    IN  IF others = {} THEN {} ELSE history[Max(others)].keys

\* compareScans before saveScanToHistory, with nothing awaited in between.  The
\* snapshot holds the single findings, whatever category the reports show.
SaveHistory ==
    /\ pc = "history"
    /\ comparison' = IF args.compare THEN CompareScans(Previous, Keys(findings)) ELSE comparison
    /\ history' = IF args.noHistory THEN history
                  ELSE Append(history, [run |-> run, whole |-> TRUE, keys |-> Keys(findings),
                                        score |-> score.score])
    /\ IF args.noHistory \/ args.compare THEN UNCHANGED <<open, missed>>
       ELSE open' = Keys(findings) /\ missed' = {}
    /\ Goto("dashboard")
    /\ UNCHANGED <<scanVars, runVars, output, endVars>>

WriteDashboard ==
    Writes("dashboard", "print", "dashboard.html", args.dashboard,
           [Written({}, "none") EXCEPT !.pages = Cardinality(Readable)])

\* The snapshot is saved, the comparison with the one before it still to be told.
Untold == pc \in {"dashboard", "print"} /\ args.compare /\ ~ args.noHistory

\* printComparison, after the summary.  One that no snapshot was saved with says
\* what the next one will say again.
PrintComparison ==
    /\ pc = "print"
    /\ open' = IF Untold THEN (open \ comparison.resolvedIssues) \cup comparison.newIssues ELSE open
    /\ Goto("comment")
    /\ UNCHANGED <<scanVars, runVars, comparison, history, output, missed, endVars>>

\* A mutant of WriteComment: only a gate that is passed has a comment.
WriteComment_IfPassed ==
    Writes("comment", "webhooks", "pr-comment.md", args.prComment /\ Verdict # "failed",
           Written(Shown([category |-> ""]), Verdict))

\* The gate is evaluated first; the comment and the webhooks tell its verdict.
WriteComment ==
    Writes("comment", "webhooks", "pr-comment.md", args.prComment,
           Written(Shown([category |-> ""]), Verdict))

\* A webhook that fails is only reported.
SendWebhooks ==
    \E delivered \in BOOLEAN :
        Writes("webhooks", "gate", "webhook", args.webhook /\ delivered,
               Written(Shown([category |-> ""]), Verdict))

Exit ==
    /\ pc = "gate"
    /\ ended' = IF Verdict = "failed" THEN "gate failed" ELSE "done"
    /\ Goto("idle")
    /\ UNCHANGED <<scanVars, runVars, diskVars, aborted, result>>

\* main() rejects, or the process is killed.  A snapshot may be cut off.
Dies ==
    /\ pc # "idle" /\ ~ Library
    /\ history' \in IF pc = "history" /\ ~ args.noHistory
                    THEN {history, Append(history, [run |-> run, whole |-> FALSE, keys |-> {},
                                                    score |-> 0])}
                    ELSE {history}
    /\ missed' = IF Untold THEN missed \cup comparison.newIssues \cup comparison.resolvedIssues
                 ELSE missed
    /\ ended' = "died"
    /\ Goto("idle")
    /\ UNCHANGED <<scanVars, runVars, comparison, output, open, aborted, result>>

-------------------------------------------------------------------------------
(***************************************************************************)
(* The library: scan()                                                     *)
(***************************************************************************)

\* An unsafe URL is refused before there is anything to return; after that
\* every error is caught.
Scan(r) ==
    /\ Fresh
    /\ args' = r
    /\ rules' = IF AllValid(r.rulesDirs) THEN LoadRules(r.rulesDirs) ELSE BuiltIn
    /\ ended' = IF r.safe THEN "none" ELSE "refused"
    /\ Goto(IF ~ r.safe THEN "idle" ELSE IF AllValid(r.rulesDirs) THEN "crawl" ELSE "catch")
    /\ UNCHANGED output

\* The caller's signal: a timeout, or a cancel.
Abort ==
    /\ pc # "idle" /\ Library
    /\ aborted = NotAborted
    /\ aborted' = page
    /\ UNCHANGED <<pc, scanVars, runVars, diskVars, ended, result>>

\* The crawl or onPage sees the signal, or anything fails.
Fails ==
    /\ pc \in {"crawl", "checks", "final", "answer"} /\ Library
    /\ Goto("catch")
    /\ UNCHANGED <<scanVars, runVars, diskVars, endVars>>

Answers(status, pages, n, issues) ==
    /\ result' = [status |-> status, pages |-> pages, score |-> n, issues |-> issues,
                  grade |-> LibraryGrade(score)]
    /\ ended' = "answered"
    /\ Goto("idle")
    /\ UNCHANGED <<scanVars, runVars, diskVars, aborted>>

\* A signal that fires after the last page changes nothing.
Answer ==
    /\ pc = "answer"
    /\ Answers(IF site.truncated THEN "partial" ELSE "completed", page, score.score,
               Shown([category |-> ""]))

\* Nothing of what was found is returned.
Catch ==
    /\ pc = "catch"
    /\ Answers(IF aborted # NotAborted THEN "cancelled" ELSE "failed", 0, 0, {})

-------------------------------------------------------------------------------

Next ==
    \/ \E a \in CommandLines : Start(a)
    \/ \E r \in Requests : Scan(r)
    \/ OnPage \/ EndCrawl \/ Checks \/ FinalRules
    \/ WriteJson \/ WriteReports \/ SaveHistory \/ WriteDashboard \/ PrintComparison
    \/ WriteComment \/ SendWebhooks \/ Exit \/ Dies
    \/ Abort \/ Fails \/ Answer \/ Catch

Spec == Init /\ [][Next]_vars

-------------------------------------------------------------------------------
(***************************************************************************)
(* Properties                                                              *)
(***************************************************************************)

\* The score of a site never rises by what else is found on it: whatever a page
\* or the final rules add, also to a group that has its severity already.
ScoreOnlyFalls ==
    [][ run' = run /\ findings' # findings => Tenths(findings') <= Tenths(findings) ]_vars

\* Rules applied page by page, with the pages forgotten, find what they would
\* find with all pages at hand, no less and, if none of them throws, no more.
\* Only a rule without streaming hooks is not heard.
StreamsAsBatch ==
    LET streaming == Where(rules, LAMBDA r : r.hooks \cap {"runPerPage", "runFinal"} # {})
        seen == SubSeq(site.pages, 1, page)
        batch == ToBag(RunRules(seen, streaming, context))
        stream == ToBag(findings)
        thrown == Some(rules, LAMBDA r : r.finalThrows \/ Some(seen, LAMBDA p : Throws(r, p)))
    IN  pc \in {"json", "answer"} => /\ batch \sqsubseteq stream
                                     /\ thrown \/ batch = stream

Ended(how) == pc = "idle" /\ ~ Library /\ ended \in how

\* When the command ends, with whichever exit code its gate gives it, all it
\* was asked for is written, is of this run, and tells the same of the scan.
OutputsAgree ==
    Ended({"done", "gate failed"}) =>
        /\ \A o \in Formats(args) : output[o] = Written(Shown(args), "none")
        /\ (args.prComment => output["pr-comment.md"] = Written(Shown([category |-> ""]), Verdict))
        /\ (output["webhook"].run = run => output["webhook"].gate = Verdict)
        /\ (args.dashboard => output["dashboard.html"].pages = Cardinality(Readable))
        /\ (~ args.noHistory => Readable # {} /\ history[Max(Readable)].run = run)

\* A scan passes --fail-on with a severity that is counted only without a group
\* of that severity or worse, and fails its gate only for a finding or a score
\* that is there.  What a severity that is not counted fails, and what a group
\* makes of findings of several severities, FailOnHolds asks.
GateHasReason ==
    LET At(f) == SeverityRank[f.severity] >= SeverityRank[args.failOn]
        groups == AggregateFindings(findings)
    IN  /\ (Ended({"done"}) /\ args.failOn \in Counted => ~ Some(groups, At))
        /\ (Ended({"gate failed"}) =>
               \/ args.failOn # NoThreshold /\ Some(findings, At)
               \/ score.score < args.minScore)

Latest == IF Readable = {} THEN {} ELSE history[Max(Readable)].keys
Apart(a, b) == (a \ b) \cup (b \ a)

\* Whoever follows the comparisons from scan to scan has the issues of the
\* latest snapshot that can be read, but for those a comparison told that was
\* saved and not printed.  A run that died earlier, also while it wrote its
\* snapshot, or later, or that kept no history, leaves nothing out and nothing
\* to be told twice, and what is missing never grows by a comparison printed.
LedgerExact ==
    pc \notin {"dashboard", "print"} => Apart(open, Latest) \subseteq missed

\* scan() answers with all the pages and groups of the crawl or with none; it
\* never completes a scan that was aborted with pages left, and never calls
\* one cancelled that was not.
AnswersInFull ==
    pc = "idle" /\ Library /\ ended = "answered" =>
        IF result.status \in {"completed", "partial"}
        THEN /\ result.pages = Len(site.pages)
             /\ result.issues = Shown([category |-> ""])
             /\ (result.status = "partial") = site.truncated
             /\ aborted \in {NotAborted, Len(site.pages)}
        ELSE /\ result.issues = {}
             /\ (result.status = "cancelled") = (aborted # NotAborted)

\* index.js:179 "Exit with code 1 if any finding at or above this severity exists
\* (critical, high, medium, low, or info)": with --fail-on a command that ends
\* with 0 has no finding of that severity or worse.
FailOnHolds ==
    Ended({"done"}) /\ args.failOn # NoThreshold =>
        ~ Some(findings, LAMBDA f : SeverityRank[f.severity] >= SeverityRank[args.failOn])

===============================================================================
