------------------------------- MODULE Findings -------------------------------
(***************************************************************************)
(* What the scanner says of a site: the rules of src/src/rules, the rule   *)
(* engine, and what is computed from the findings: the groups of a report, *)
(* the score and its grade, the quality gate, the comparison of two scans. *)
(*                                                                         *)
(* A page is the record normalizePage makes, as far as a rule reads it:    *)
(* texts are names with a length, what is only present or absent is in a   *)
(* set.  A finding keeps its id, category, severity and page.  A rule      *)
(* module is its id and the hooks it exports; a plugin's says in addition  *)
(* which severity its finding has on a page and which its final one, and   *)
(* where it throws.                                                        *)
(***************************************************************************)
EXTENDS Integers, Sequences, FiniteSets, SequencesExt

Severities == {"Critical", "High", "Medium", "Low", "Info"}

IsSeq(s) == s \in Seq(Range(s))
IsFinding(f) == DOMAIN f = {"id", "category", "severity", "page"} /\ f.severity \in Severities
AreFindings(s) == IsSeq(s) /\ \A i \in DOMAIN s : IsFinding(s[i])

\* The findings of one check: none or one.
Found(condition, id, category, severity, page) ==
    IF condition
    THEN <<[id |-> id, category |-> category, severity |-> severity, page |-> page]>>
    ELSE <<>>

\* The findings of a check made of every element of a sequence.  A form's checks
\* are made one after the other, which keeps the order of findings with one id.
FoundAt(s, Condition(_), id, category, severity, page) ==
    FlattenSeq([i \in DOMAIN s |-> Found(Condition(s[i]), id, category, severity, page)])

\* The elements of a sequence that pass a test, and those whose key no element
\* before them has.
Where(s, Test(_)) == FlattenSeq([i \in DOMAIN s |-> IF Test(s[i]) THEN <<s[i]>> ELSE <<>>])
Firsts(s, Key(_)) ==
    FlattenSeq([i \in DOMAIN s |->
        IF \E j \in 1..(i - 1) : Key(s[j]) = Key(s[i]) THEN <<>> ELSE <<s[i]>>])

Some(s, Condition(_)) == \E i \in DOMAIN s : Condition(s[i])
Twice(s) == \E i, j \in DOMAIN s : i # j /\ s[i] = s[j]

-------------------------------------------------------------------------------
(***************************************************************************)
(* The built-in rules: runPerPage.                                         *)
(***************************************************************************)

Accessibility(p) ==
    LET F(c, id, severity) == Found(c, id, "Accessibility", severity, p.url)
        Skips(i) == p.headings[i + 1] - p.headings[i] > 1
        Unlabeled(f) == /\ f.type \notin {"hidden", "submit", "button", "reset", "image"}
                        /\ f.has \cap {"aria-label", "aria-labelledby", "label"} = {}
    IN  F(p.missingAlt > 0, "ACC001", "Low")
        \o F(\E i \in 1..(Len(p.headings) - 1) : Skips(i), "ACC002", "Low")
        \o F(Some(p.fields, Unlabeled), "ACC003", "Medium")
        \o F(~ p.lang, "ACC004", "Low")

\* The scripts that are not inline.
Sources(p) ==
    Where([i \in DOMAIN p.scripts |-> p.scripts[i].src], LAMBDA src : src # "")

AssetsOnPage(p) ==
    LET F(c, id) == Found(c, id, "Assets", "Low", p.url)
    IN  F(Twice(Sources(p)), "AST002") \o F(Twice(p.stylesheets), "AST003")

Forms(p) ==
    LET Each(Test(_), id) == FoundAt(p.fields, Test, id, "Forms", "Low", p.url)
        Nameless(f) == "name" \notin f.has
        Forgetful(f) == f.type = "password" /\ "autocomplete" \notin f.has
        Weak(f) == f.type = "password" /\ f.has \cap {"minlength", "pattern"} = {}
        Mistyped(f) == f.type # "email" /\ "email name" \in f.has
        AnyFile(f) == f.type = "file" /\ "accept" \notin f.has
        Shown(f) == f.method = "get" /\ "password" \in f.has
        Tokenless(f) == f.method = "post" /\ "csrf token" \notin f.has
    IN  Found(Some(p.fields, Nameless), "FORM001", "Forms", "Low", p.url)
        \o Each(Forgetful, "FORM002") \o Each(Weak, "FORM003")
        \o Each(Mistyped, "FORM004") \o Each(AnyFile, "FORM007")
        \o FoundAt(p.forms, Shown, "FORM005", "Forms", "High", p.url)
        \o FoundAt(p.forms, Tokenless, "FORM006", "Forms", "Info", p.url)

\* The status of a page that did not answer is "Unknown", which is no number.
Unknown == 0

Functionality(p) ==
    Found(p.status # Unknown /\ p.status # 200, "FUNC001", "Functionality", "High", p.url)

Links(p) ==
    Found(p.status # Unknown /\ p.status >= 400, "LINK001", "Links", "High", p.url)

Performance(p) ==
    LET F(c, id, severity) == Found(c, id, "Performance", severity, p.url)
        Blocks(s) == s.src # "" /\ s.has \cap {"head", "async", "defer"} = {"head"}
    IN  F(p.responseTime > 5000, "PERF001", "High")
        \o F(p.responseTime \in 2001..5000, "PERF002", "Medium")
        \o F(p.htmlSize > 1024 /\ "content-encoding" \notin p.headers, "PERF003", "Medium")
        \o F("cache-control" \notin p.headers, "PERF004", "Low")
        \o F(p.htmlSize > 500 * 1024, "PERF005", "Medium")
        \o F(Some(p.scripts, Blocks), "PERF006", "Medium")

Security(p) ==
    LET F(c, id, severity) == Found(c, id, "Security", severity, p.url)
        Lacks(header) == header \notin p.headers
        Loose(cookie) == cookie # {"secure", "httpOnly"}
    IN  F(~ p.https, "SEC005", "High")
        \o F(Lacks("content-security-policy"), "SEC001", "Medium")
        \o F(~ Lacks("content-security-policy") /\ p.weakCsp, "SEC006", "Medium")
        \o F(Lacks("x-frame-options"), "SEC002", "Low")
        \o F(Lacks("strict-transport-security"), "SEC003", "Medium")
        \o F(Lacks("x-content-type-options"), "SEC004", "Low")
        \o F(~ Lacks("server") /\ p.serverVersion, "SEC007", "Info")
        \o F(\E c \in p.cookies : Loose(c), "SEC008", "Medium")
        \o F(p.mixedContentCount > 0, "SEC009", "Medium")
        \o F(p.disclosedError, "SEC010", "High")

\* page.links holds every href of the page: those of other sites count too.
Seo(p) ==
    LET F(c, id, severity) == Found(c, id, "SEO", severity, p.url)
        Outside(text, shortest, longest) == text # "" /\ p.length[text] \notin shortest..longest
    IN  F(p.h1 = 0, "SEO001", "Low")
        \o F(p.h1 > 1, "SEO002", "Medium")
        \o F(p.title = "", "SEO003", "Medium")
        \o F(Outside(p.title, 10, 60), "SEO004", "Low")
        \o F(p.description = "", "SEO005", "Medium")
        \o F(Outside(p.description, 50, 160), "SEO006", "Low")
        \o F("canonical" \notin p.meta, "SEO007", "Low")
        \o F(p.meta \cap {"ogTitle", "ogDescription"} = {}, "SEO008", "Info")
        \o F(p.status = 200 /\ p.links = {}, "SEO011", "Info")

-------------------------------------------------------------------------------
(***************************************************************************)
(* The built-in rules: collectSummary and runFinal.                        *)
(***************************************************************************)

Summary(p) == [url |-> p.url, title |-> p.title, description |-> p.description]

\* One finding per text that several summaries share, at the first of them.
Shared(summaries, Text(_), id, severity) ==
    LET SharedFrom(i) == LET same == { j \in DOMAIN summaries : Text(summaries[j]) = Text(summaries[i]) }
                         IN  Text(summaries[i]) # "" /\ Cardinality(same) > 1 /\ i = Min(same)
    IN  FlattenSeq([i \in DOMAIN summaries |->
            Found(SharedFrom(i), id, "SEO", severity, summaries[i].url)])

SeoFinal(summaries) ==
    Shared(summaries, LAMBDA s : s.title, "SEO009", "Medium")
    \o Shared(summaries, LAMBDA s : s.description, "SEO010", "Low")

\* `checks` lists what became of every asset, in the order they were found in.
AssetsFinal(checks) ==
    LET Fails(c) == c.error \/ c.status >= 400
        Large(c) == ~ Fails(c) /\ (c.tooLarge \/ c.sizeKb > 300)
        Sizes(c) == Found(Fails(c), "AST004", "Assets", "Medium", c.url)
                    \o Found(Large(c), "AST005", "Assets", IF c.tooLarge THEN "Medium" ELSE "Low", c.url)
        hashed == Where(checks, LAMBDA c : ~ Fails(c) /\ c.hash # "")
        Copies(i) == { j \in DOMAIN hashed : hashed[j].hash = hashed[i].hash }
    IN  FlattenSeq([i \in DOMAIN checks |-> Sizes(checks[i])])
        \o FlattenSeq([i \in DOMAIN hashed |->
               Found(Cardinality(Copies(i)) > 1 /\ i = Min(Copies(i)), "AST006", "Assets", "Low",
                     hashed[i].url)])

ExposedFinal(checks) ==
    LET Of(kind) == CASE kind = "sensitive-file" -> <<"SEC011", "Critical">>
                      [] kind = "directory-listing" -> <<"SEC012", "Medium">>
                      [] kind = "recon" -> <<"SEC013", "Info">>
        One(e) == Found(TRUE, Of(e.category)[1], "Security", Of(e.category)[2], e.path)
    IN  FlattenSeq([i \in DOMAIN checks.exposed |-> One(checks.exposed[i])])
        \o Found(~ checks.hasSecurityTxt, "SEC014", "Security", "Info", "security.txt")

\* siteContext before an optional check: what its rule makes of an absent result.
NoContext == [assetChecks |-> <<>>,
              exposedPathChecks |-> [exposed |-> <<>>, hasSecurityTxt |-> TRUE]]

-------------------------------------------------------------------------------
(***************************************************************************)
(* The optional checks.                                                    *)
(***************************************************************************)

\* Every asset of every page once, in the order of its first reference.
CollectAssetUrls(pages) ==
    LET OnPage(p) == Sources(p) \o p.stylesheets \o p.images
        all == FlattenSeq([i \in DOMAIN pages |-> OnPage(pages[i])])
    IN  Firsts(all, LAMBDA url : url)

CheckAssets(pages, answers) ==
    LET urls == CollectAssetUrls(pages) IN [i \in DOMAIN urls |-> answers[urls[i]]]

\* An answer that is the same for a path that cannot exist proves nothing,
\* unless the body has what only the real file has.
LooksLikeRealFile(result, baseline, signed) ==
    /\ result.status \in 1..399
    /\ IF baseline.status \in 1..399 /\ baseline.status = result.status
       THEN signed /\ result.signature /\ ~ baseline.signature
       ELSE signed => result.signature

\* `probes` says how the site answers the candidate paths, security.txt and a
\* path that does not exist.
CheckExposedPaths(probes) ==
    [exposed |-> Where(probes.candidates,
                       LAMBDA c : LooksLikeRealFile(c.result, probes.baseline, c.signed)),
     hasSecurityTxt |-> LooksLikeRealFile(probes.securityTxt, probes.baseline, FALSE)]

-------------------------------------------------------------------------------
(***************************************************************************)
(* The rule registry and the rule engine.                                  *)
(***************************************************************************)

\* A plugin that has nothing to say of the site as a whole.
NoFinal == "none"

BuiltInRule(id, hooks) ==
    [id |-> id, hooks |-> hooks \cup {"run"}, enabled |-> TRUE, severityAt |-> <<>>, throwsAt |-> {},
     final |-> NoFinal, finalThrows |-> FALSE]

\* In the order of their files.
BuiltIn == <<BuiltInRule("ACCESSIBILITY", {"runPerPage"}),
             BuiltInRule("ASSETS", {"runPerPage", "runFinal"}),
             BuiltInRule("EXPOSED_PATHS", {"runFinal"}),
             BuiltInRule("FORMS", {"runPerPage"}),
             BuiltInRule("FUNCTIONALITY", {"runPerPage"}),
             BuiltInRule("LINKS", {"runPerPage"}),
             BuiltInRule("PERFORMANCE", {"runPerPage"}),
             BuiltInRule("SECURITY", {"runPerPage"}),
             BuiltInRule("SEO", {"runPerPage", "collectSummary", "runFinal"})>>

ValidRule(rule) == "run" \in rule.hooks

\* loadRulesWithPlugins, of plugins that are all valid: no id twice.
LoadRules(plugins) ==
    Firsts(BuiltIn \o Where(plugins, LAMBDA r : r.enabled), LAMBDA r : r.id)

Throws(rule, p) == p.url \in rule.throwsAt

\* A plugin's own check: it has a finding on the pages it has a severity for.
PluginPage(rule, p) ==
    Found(p.url \in DOMAIN rule.severityAt, rule.id, "Plugin",
          IF p.url \in DOMAIN rule.severityAt THEN rule.severityAt[p.url] ELSE "Info", p.url)

\* Its finding when all pages are through.
PluginFinal(rule) ==
    IF rule.final = NoFinal THEN <<>> ELSE Found(TRUE, rule.id, "Plugin", rule.final, "site")

PerPage(rule, p) ==
    CASE rule.id = "ACCESSIBILITY" -> Accessibility(p)
      [] rule.id = "ASSETS" -> AssetsOnPage(p)
      [] rule.id = "EXPOSED_PATHS" -> <<>>
      [] rule.id = "FORMS" -> Forms(p)
      [] rule.id = "FUNCTIONALITY" -> Functionality(p)
      [] rule.id = "LINKS" -> Links(p)
      [] rule.id = "PERFORMANCE" -> Performance(p)
      [] rule.id = "SECURITY" -> Security(p)
      [] rule.id = "SEO" -> Seo(p)
      [] OTHER -> PluginPage(rule, p)

Final(rule, summaries, context) ==
    CASE rule.id = "ASSETS" -> AssetsFinal(context.assetChecks)
      [] rule.id = "EXPOSED_PATHS" -> ExposedFinal(context.exposedPathChecks)
      [] rule.id = "SEO" -> SeoFinal(summaries)
      [] OTHER -> PluginFinal(rule)

Having(rules, hook) == Where(rules, LAMBDA r : hook \in r.hooks)

\* A rule that throws is skipped for this page; the others run.
RunPerPageRules(p, rules) ==
    LET able == Where(Having(rules, "runPerPage"), LAMBDA r : ~ Throws(r, p))
    IN  FlattenSeq([i \in DOMAIN able |-> PerPage(able[i], p)])

\* A mutant of CollectSummaries: a page's summary replaces the last one.
CollectSummaries_Latest(p, summaries) ==
    IF summaries = <<>> THEN <<Summary(p)>>
    ELSE [summaries EXCEPT ![Len(summaries)] = Summary(p)]

\* Only SEO collects: one list of summaries is enough.
CollectSummaries(p, summaries) == Append(summaries, Summary(p))

RunFinalRules(rules, summaries, context) ==
    LET able == Where(Having(rules, "runFinal"), LAMBDA r : ~ r.finalThrows)
    IN  FlattenSeq([i \in DOMAIN able |-> Final(able[i], summaries, context)])

\* The batch engine: `run` of every rule on all the pages.  A rule that throws
\* on one of them, or at the end, is skipped altogether.
RunRules(pages, rules, context) ==
    LET summaries == [i \in DOMAIN pages |-> Summary(pages[i])]
        Run(rule) == FlattenSeq([i \in DOMAIN pages |-> PerPage(rule, pages[i])])
                     \o Final(rule, summaries, context)
        able == Where(rules, LAMBDA r : ~ r.finalThrows /\ ~ Some(pages, LAMBDA p : Throws(r, p)))
    IN  FlattenSeq([i \in DOMAIN able |-> Run(able[i])])

-------------------------------------------------------------------------------
(***************************************************************************)
(* Groups, score, gate and comparison.                                     *)
(***************************************************************************)

\* A mutant of AggregateFindings: a group has the severity of its last finding.
AggregateFindings_LastSeverity(findings) ==
    LET firsts == Firsts(findings, LAMBDA f : f.id)
        Like(f) == { i \in DOMAIN findings : findings[i].id = f.id }
        Group(f) == [id |-> f.id, category |-> f.category,
                     severity |-> findings[Max(Like(f))].severity,
                     occurrenceCount |-> Cardinality(Like(f)),
                     affectedPages |-> { findings[i].page : i \in Like(f) }]
    IN  [i \in DOMAIN firsts |-> Group(firsts[i])]

\* One group per id, in the order of the ids' first findings, whose category
\* and severity are the group's.
AggregateFindings(findings) ==
    LET firsts == Firsts(findings, LAMBDA f : f.id)
        Like(f) == { i \in DOMAIN findings : findings[i].id = f.id }
        Group(f) == [id |-> f.id, category |-> f.category, severity |-> f.severity,
                     occurrenceCount |-> Cardinality(Like(f)),
                     affectedPages |-> { findings[i].page : i \in Like(f) }]
    IN  [i \in DOMAIN firsts |-> Group(firsts[i])]

Weight(severity) ==
    CASE severity = "Critical" -> 20 [] severity = "High" -> 10
      [] severity = "Medium" -> 5 [] severity = "Low" -> 2 [] OTHER -> 0

BreadthCap == 20

\* The score before it is rounded, in tenths.
Tenths(findings) ==
    LET groups == AggregateFindings(findings)
        Cost(i) == Weight(groups[i].severity)
                   * (10 + Min({groups[i].occurrenceCount - 1, BreadthCap}))
    IN  Max({0, 1000 - FoldLeft(+, 0, [i \in DOMAIN groups |-> Cost(i)])})

\* Math.round of it.  The sum is one of floating-point numbers: a half may have
\* become a little less.
Rounded(tenths) ==
    IF tenths % 10 = 5 THEN {tenths \div 10, tenths \div 10 + 1} ELSE {(tenths + 5) \div 10}

ScoreToGrade(score) ==
    IF score >= 90 THEN "A" ELSE IF score >= 80 THEN "B"
    ELSE IF score >= 70 THEN "C" ELSE IF score >= 60 THEN "D" ELSE "F"

\* The library grades with its own scoreToGrade, which it gives the whole object
\* that calculateScore returns: no comparison with that is true.
LibraryGrade(score) == "F"

\* The severities that are counted: Info is not one of them.
Counted == {"Critical", "High", "Medium", "Low"}

CountBySeverity(findings) ==
    LET groups == AggregateFindings(findings)
    IN  [s \in Counted |-> Cardinality({ i \in DOMAIN groups : groups[i].severity = s })]

\* The scores calculateScore may give: one but for the halves.
CalculateScore(findings) ==
    { [score |-> n, grade |-> ScoreToGrade(n), severity |-> CountBySeverity(findings)] :
        n \in Rounded(Tenths(findings)) }

SeverityRank ==
    [s \in Severities |->
        CASE s = "Info" -> 0 [] s = "Low" -> 1 [] s = "Medium" -> 2 [] s = "High" -> 3 [] OTHER -> 4]

\* --fail-on= and --min-score= left out.
NoThreshold == ""
NoMinimum == -1

\* A mutant of GatePassed: a finding of the very severity asked for passes.
GatePassed_Above(score, failOn, minScore) ==
    /\ failOn # NoThreshold =>
          \A s \in Counted : SeverityRank[s] > SeverityRank[failOn] => score.severity[s] = 0
    /\ minScore # NoMinimum => score.score >= minScore

\* The gate is passed if it has no reason to fail.
GatePassed(score, failOn, minScore) ==
    /\ failOn # NoThreshold =>
          \A s \in Counted : SeverityRank[s] >= SeverityRank[failOn] => score.severity[s] = 0
    /\ minScore # NoMinimum => score.score >= minScore

FindingKey(f) == <<f.id, f.page>>
Keys(findings) == { FindingKey(findings[i]) : i \in DOMAIN findings }

\* By keys: the findings of one page with the same id are one issue.
CompareScans(previous, current) ==
    [newIssues |-> current \ previous, resolvedIssues |-> previous \ current]

===============================================================================
