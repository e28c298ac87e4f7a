------------------------------ MODULE MCScanner -------------------------------
(***************************************************************************)
(* A small site, in three states, and the commands run on it.              *)
(***************************************************************************)
EXTENDS Scanner

Names == {"Shop", "Home of the shop", "A long description", "Short"}
AllHeaders == {"content-security-policy", "x-frame-options", "strict-transport-security",
               "x-content-type-options", "content-encoding", "cache-control", "server"}

\* A page no rule has anything to say of.
Clean(name) ==
    [url |-> name, https |-> TRUE, status |-> 200, responseTime |-> 100,
     headers |-> AllHeaders, weakCsp |-> FALSE, serverVersion |-> FALSE, cookies |-> {},
     mixedContentCount |-> 0, disclosedError |-> FALSE, htmlSize |-> 900,
     h1 |-> 1, headings |-> <<1, 2>>, missingAlt |-> 0, lang |-> TRUE,
     title |-> "Home of the shop", description |-> "A long description",
     length |-> [n \in Names |-> CASE n = "Shop" -> 4 [] n = "Home of the shop" -> 16
                                   [] n = "A long description" -> 80 [] n = "Short" -> 49],
     meta |-> {"canonical", "ogTitle"}, links |-> {"b"},
     fields |-> <<>>, forms |-> <<>>, scripts |-> <<>>, stylesheets |-> <<>>, images |-> <<>>]

\* One with short texts, two forms and too much in its head.
Shop(name) ==
    [Clean(name) EXCEPT
        !.h1 = 2, !.headings = <<1, 1, 3>>, !.title = "Shop", !.description = "Short",
        !.weakCsp = TRUE, !.serverVersion = TRUE, !.cookies = {{"secure"}},
        !.meta = {}, !.links = {}, !.missingAlt = 1, !.responseTime = 2001, !.htmlSize = 600 * 1024,
        !.headers = AllHeaders \ {"content-encoding"},
        !.fields = << [type |-> "password", has |-> {"name"}],
                      [type |-> "text", has |-> {"name", "email name", "label"}],
                      [type |-> "file", has |-> {"aria-label"}] >>,
        !.forms = << [method |-> "get", has |-> {"password"}], [method |-> "post", has |-> {}] >>,
        !.scripts = << [src |-> "x.js", has |-> {"head"}], [src |-> "x.js", has |-> {}],
                       [src |-> "", has |-> {"head"}] >>,
        !.stylesheets = <<"y.css", "y.css">>, !.images = <<"z.png">>]

\* One over plain HTTP that fails, and one that does not answer at all.
Broken(name) ==
    [Clean(name) EXCEPT !.https = FALSE, !.status = 500, !.disclosedError = TRUE, !.lang = FALSE,
                        !.headers = {}, !.responseTime = 5001, !.mixedContentCount = 1]
Silent(name) ==
    [Clean(name) EXCEPT !.status = Unknown, !.responseTime = 0, !.headers = {}, !.h1 = 0,
                        !.headings = <<>>, !.title = "", !.description = "", !.meta = {},
                        !.links = {}, !.lang = FALSE, !.htmlSize = 0]

Asset(url, status, error, large, kb, hash) ==
    [url |-> url, status |-> status, error |-> error, tooLarge |-> large, sizeKb |-> kb, hash |-> hash]

Assets ==
    [u \in {"x.js", "y.css", "z.png"} |->
        CASE u = "x.js" -> Asset(u, 200, FALSE, FALSE, 301, "h")
          [] u = "y.css" -> Asset(u, 200, FALSE, TRUE, 0, "")
          [] u = "z.png" -> Asset(u, 200, FALSE, FALSE, 300, "h")]

Probe(status, signature) == [status |-> status, signature |-> signature]
Candidate(path, category, signed, answer) ==
    [path |-> path, category |-> category, signed |-> signed, result |-> answer]

\* A site that answers anything with 200, and one that has something to hide.
CatchAll ==
    [baseline |-> Probe(200, FALSE), securityTxt |-> Probe(200, FALSE),
     candidates |-> << Candidate(".env", "sensitive-file", TRUE, Probe(200, TRUE)),
                       Candidate("admin", "recon", FALSE, Probe(200, FALSE)) >>]
Careless ==
    [baseline |-> Probe(404, FALSE), securityTxt |-> Probe(404, FALSE),
     candidates |-> << Candidate("uploads", "directory-listing", TRUE, Probe(200, TRUE)),
                       Candidate("admin", "recon", FALSE, Probe(200, FALSE)) >>]

MCSites ==
    { [pages |-> <<Clean("a"), Shop("b"), Clean("c")>>, truncated |-> FALSE, assets |-> Assets,
       probes |-> CatchAll],
      [pages |-> <<Broken("a"), Shop("b")>>, truncated |-> FALSE,
       assets |-> [Assets EXCEPT !["z.png"] = Asset("z.png", 404, FALSE, FALSE, 0, "")],
       probes |-> Careless],
      [pages |-> <<Silent("a")>>, truncated |-> TRUE, assets |-> Assets, probes |-> CatchAll] }

\* A site whose only finding is an Info: it has no security.txt.
BareSites ==
    { [pages |-> <<Clean("a")>>, truncated |-> FALSE, assets |-> Assets,
       probes |-> [baseline |-> Probe(404, FALSE), securityTxt |-> Probe(404, FALSE),
                   candidates |-> <<>>]] }
QuietSites == MCSites \cup BareSites

\* A plugin whose finding is of another severity on each page, and others: one
\* that throws on a page, one that has no streaming hook, two that speak at the
\* end, one that throws there, one with an id that is taken, one that is invalid.
Plugin(id, hooks, severityAt, throwsAt) ==
    [id |-> id, hooks |-> hooks, enabled |-> TRUE, severityAt |-> severityAt, throwsAt |-> throwsAt,
     final |-> NoFinal, finalThrows |-> FALSE]
Uneven == Plugin("UNEVEN", {"run", "runPerPage"}, [u \in {"a", "c"} |-> IF u = "a" THEN "High" ELSE "Low"], {})
Throwing == Plugin("THROWING", {"run", "runPerPage"}, [u \in {"a", "c"} |-> "Critical"], {"b"})
RunOnly == Plugin("RUN_ONLY", {"run"}, [u \in {"a"} |-> "Critical"], {})
Closing == [Plugin("CLOSING", {"run", "runFinal"}, <<>>, {}) EXCEPT !.final = "High"]
Summing == [Plugin("SUMMING", {"run", "runPerPage", "runFinal"}, [u \in {"a", "b"} |-> "Medium"], {})
                EXCEPT !.final = "Low"]
Stumbling == [Summing EXCEPT !.id = "STUMBLING", !.finalThrows = TRUE]
SameId == Plugin("SEO", {"run", "runPerPage"}, [u \in {"a"} |-> "Critical"], {})
NoRun == Plugin("NO_RUN", {"runPerPage"}, <<>>, {})

Plain ==
    [help |-> FALSE, url |-> "ok", failOn |-> NoThreshold, minScore |-> NoMinimum,
     rulesDir |-> "ok", plugins |-> <<>>, history |-> FALSE, formats |-> {}, category |-> "",
     checkAssets |-> FALSE, checkExposedPaths |-> FALSE, compare |-> FALSE, noHistory |-> FALSE,
     dashboard |-> FALSE, prComment |-> FALSE, webhook |-> FALSE]

MCCommandLines ==
    { [Plain EXCEPT !.compare = TRUE, !.minScore = 60],
      [Plain EXCEPT !.checkAssets = TRUE, !.failOn = "Medium", !.prComment = TRUE, !.webhook = TRUE,
                    !.compare = TRUE, !.plugins = <<Uneven, SameId>>],
      [Plain EXCEPT !.failOn = "Info", !.category = "SEO", !.dashboard = TRUE, !.formats = {"report.html"},
                    !.checkExposedPaths = TRUE, !.plugins = <<Throwing, RunOnly, Closing, Stumbling>>,
                    !.prComment = TRUE],
      [Plain EXCEPT !.failOn = "Critical", !.compare = TRUE, !.noHistory = TRUE, !.webhook = TRUE,
                    !.checkExposedPaths = TRUE],
      [Plain EXCEPT !.plugins = <<NoRun>>],
      [Plain EXCEPT !.failOn = "severe"],
      [Plain EXCEPT !.history = TRUE] }

\* --fail-on=info, of a site with nothing but an Info.
GateCommandLines == { [Plain EXCEPT !.failOn = "Info", !.checkExposedPaths = TRUE] }

MCRequests ==
    { [safe |-> TRUE, rulesDirs |-> <<Uneven, Summing>>, checkAssets |-> FALSE, checkExposedPaths |-> TRUE],
      [safe |-> TRUE, rulesDirs |-> <<>>, checkAssets |-> TRUE, checkExposedPaths |-> FALSE],
      [safe |-> TRUE, rulesDirs |-> <<NoRun>>, checkAssets |-> FALSE, checkExposedPaths |-> FALSE],
      [safe |-> FALSE, rulesDirs |-> <<>>, checkAssets |-> FALSE, checkExposedPaths |-> FALSE] }

\* A third run, if there is one, is the plain command that compares.
ThirdCompares == run = 3 => args = [Plain EXCEPT !.compare = TRUE, !.minScore = 60]

===============================================================================
