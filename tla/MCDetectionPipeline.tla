------------------------- MODULE MCDetectionPipeline -------------------------
(* A small instance of IntentAssessment and of all it is made of: two brands  *)
(* and nine repositories, at most two of which a scan works on at once.        *)
EXTENDS IntentAssessment, TLC

W(t) == [of |-> t, as |-> "word"]
Inside(t) == [of |-> t, as |-> "inside"]
Near(t) == [of |-> t, as |-> "near"]
Secret(p) == [of |-> p, as |-> "secret"]

Acme == [name |-> "acme", names |-> {"acme", "acme pay"}, slug |-> "acme", owners |-> {"acme-org"},
         keywords |-> <<"acme", "coin">>, hosts |-> {"acme.com"}, phrases |-> <<>>]
Globex == [name |-> "globex", names |-> {"globex"}, slug |-> "globex", owners |-> {},
           keywords |-> <<>>, hosts |-> {}, phrases |-> <<>>]
TwoBrands == <<Acme, Globex>>

File(kind, words, lines) ==
  [kind |-> kind, words |-> words, root |-> TRUE, excluded |-> FALSE, big |-> FALSE, lines |-> lines]
Below(file) == [file EXCEPT !.root = FALSE]
Readme(words) == File("readme", {W("readme")}, <<words>>)

Plain(owner, name, files) ==
  [owner |-> owner, name |-> name, description |-> {}, topics |-> {}, stars |-> 3, forks |-> 0,
   fork |-> FALSE, age |-> 100, created |-> 5, pushed |-> 7, profile |-> "established",
   large |-> FALSE, files |-> files, commits |-> <<>>, live |-> {}, deployed |-> FALSE]

Mail == [of |-> "mail", as |-> "contact"]
Call == [of |-> "call", as |-> "contact"]

\* A popular project that has left a key behind; it mentions no brand, is large,
\* and its tree cannot always be had.
Leaky ==
  [Plain("corp", {W("toolkit")},
         <<File("env", {W(".env AKIA")}, <<{Secret("aws_access_key")}, {Secret("assignment")}>>),
           Below(File("data", {W("config")}, <<{Secret("stripe_live")}>>)),
           Readme({Secret("jwt")}), File("id_rsa", {W("id_rsa")}, <<>>)>>)
   EXCEPT !.stars = 5000, !.forks = 500, !.age = 2000, !.created = 0, !.large = TRUE]

\* The same, and its owner's name is that of a brand: nobody else's repository.
Popular ==
  [Plain("corp", {W("acme"), W("unofficial")}, <<File("secret", {W("secret")}, <<{Secret("github_pat")}>>)>>)
   EXCEPT !.stars = 5000, !.forks = 500]

\* A lure, new and unknown, that sends what it takes to a host that is up.
Lure ==
  [Plain("o2", {W("acme"), W("login")},
         <<Readme({W("acme"), W("verification"), Mail}),
           File("text", {W("index")}, <<{[of |-> "drop", as |-> "sent"], [of |-> "cdn", as |-> "sent"]}>>),
           File("deploy", {W("vercel")}, <<{W("slogan")}>>),
           File("apk", {Inside(".apk")}, <<>>)>>)
   EXCEPT !.stars = 0, !.age = 3, !.profile = "new and empty", !.live = {"drop"}, !.deployed = TRUE]

\* Made by the same hands for another brand; it only mentions the first in its text.
Twin ==
  [Plain("o3", {W("globex"), W("otp")},
         <<Readme({W("acme"), W("login"), Mail}), File("text", {W("page")}, <<{W("original")}>>)>>)
   EXCEPT !.stars = 1, !.profile = "empty"]
TwinLater == [Twin EXCEPT !.files = <<Readme({W("acme"), Mail, Call})>>]


Token == {Secret("generic_api_token")}

\* The names of both brands misspelt, that of one in its text and that of the other
\* in its history, and many tokens.
Misspelt ==
  [Plain("o6", {Near("globex"), W("gl0bex")},
         <<Readme({W("acme")}), File("text", {W("tokens")}, [n \in 1..7 |-> Token])>>)
   EXCEPT !.description = {Near("acme")},
          !.commits = <<[message |-> {W("globex")}, author |-> {W("o6")}, patches |-> <<>>]>>]
\* More of one kind of token than the budget, some outside of what is sampled,
\* in directories that are left out, and in the history.
Spill ==
  [Plain("o4", {W("acme"), W("bot"), W("apk")},
         <<File("env", {W("env")}, <<Token, {[of |-> "generic_api_token", as |-> "known"]}>>),
           Below(File("text", {W("deep")}, <<Token, {[of |-> "ssh_private_key", as |-> "opens"]}>>)),
           Below(File("text", {W("deeper")}, <<Token, {[of |-> "generic_api_token", as |-> "loose"]}, Token>>)),
           [File("text", {W("vendor")}, <<Token>>) EXCEPT !.excluded = TRUE],
           File("lock", {W("lock")}, <<Token>>),
           [File("manifest", {W("manifest")}, <<Token>>) EXCEPT !.big = TRUE]>>)
   EXCEPT !.commits = <<[message |-> {W("leak")}, author |-> {W("o4")}, patches |-> <<<<Token>>>>]>>]
Cleaned == [Spill EXCEPT !.files = <<File("text", {W("deep")}, <<{W("coin")}>>)>>, !.commits = <<>>]

\* One of the brand's own, two dates apart.
Internal == Plain("acme-org", {W("api")}, <<File("credentials", {W("credentials")}, <<{Secret("slack_token")}>>)>>)
Abandoned == [Internal EXCEPT !.created = 1, !.pushed = 2]

\* Malware of nobody's, without a brand.
Rat == [Plain("o7", {W("coin"), W("rat")},
              <<File("script", {W("run")}, <<{W("bypass")}>>),
                File("text", {W("cmd")}, <<{W("encoded command"), W("phishing")}>>)>>)
        EXCEPT !.stars = 5000, !.forks = 10]

\* The brand's own code, at two commits: wording is edited, a credential is
\* replaced by a placeholder, a page becomes too large.
Phrase(p) == [of |-> p, as |-> "phrase"]
Env(as) == File("env", {W("env")}, <<{[of |-> "generic_api_token", as |-> as]}>>)
Page == File("text", {W("page")}, <<{W("original")}>>)
Own1 == Plain("acme-org", {W("app")},
              <<[File("lock", {W("dist")}, <<{Phrase("claim")}>>) EXCEPT !.excluded = TRUE],
                Readme({W("slogan"), Phrase("slogan"), Phrase("motto"), Phrase("claim")}),
                Env("known"), Page, File("data", {W("zz"), W("locale")}, <<{Phrase("claim")}>>)>>)
Own2 == [Own1 EXCEPT !.files =
              <<Readme({W("slogan"), Phrase("slogan"), Phrase("motto2")}), Env("loose"),
                [Page EXCEPT !.big = TRUE]>>]

Instance ==
  "leaky" :> <<Leaky>> @@ "popular" :> <<Popular>> @@ "lure" :> <<Lure>> @@ "twin" :> <<Twin, TwinLater>>
  @@ "misspelt" :> <<Misspelt>> @@ "spill" :> <<Spill, Cleaned>> @@ "internal" :> <<Internal, Abandoned>>
  @@ "rat" :> <<Rat>> @@ "own" :> <<Own1, Own2>>

Always == [from |-> 0, to |-> 0]
Since(n) == [from |-> n, to |-> 0]
Until(n) == [from |-> 0, to |-> n]
All == [scoped |-> FALSE, onlyKeyword |-> NoKeyword, scope |-> "both", code |-> TRUE,
        keywords |-> <<>>, created |-> Always, pushed |-> Always, mode |-> "and",
        standing |-> {[axis |-> "pushed", from |-> 6, to |-> 0]}]
Term2(keyword, category, priority, enabled) ==
  [keyword |-> keyword, category |-> category, priority |-> priority, enabled |-> enabled]
Curated == <<Term2("acme", "brand", 2, TRUE), Term2("login", "phishing", 1, TRUE),
         Term2("otp", "phishing", 9, FALSE), Term2("AKIA", "secret", 3, TRUE)>>
Dated(mode) == [All EXCEPT !.scoped = TRUE, !.code = FALSE, !.created = Since(4), !.pushed = Until(6),
                           !.mode = mode]
Keyword(scope) == [All EXCEPT !.scoped = TRUE, !.onlyKeyword = "coin", !.scope = scope]

Keyword2 == [Dated("or") EXCEPT !.created = Always, !.pushed = Always]

Plan(repos, opts) == [repos |-> repos, opts |-> opts, audit |-> FALSE, branch |-> FALSE,
                       ingests |-> 0, calls |-> 0]

SomePlans ==
  { Plan({"lure", "twin"}, All),
    Plan({"leaky", "popular"}, All),
    Plan({"spill", "misspelt"}, [All EXCEPT !.keywords = Curated, !.code = FALSE]),
    Plan({"internal", "popular"}, Dated("and")), Plan({"internal", "popular"}, Dated("or")),
    Plan({"rat", "spill"}, Keyword("both")), Plan({"spill"}, Keyword("code")),
    Plan({"rat"}, Keyword("repositories")),
    [Plan({"internal"}, Dated("or")) EXCEPT !.audit = TRUE],
    [Plan({"popular", "spill"}, All) EXCEPT !.branch = TRUE],
    [Plan({}, All) EXCEPT !.audit = TRUE, !.ingests = 3], [Plan({"spill"}, Keyword("both")) EXCEPT !.ingests = 1],
    [Plan({"lure"}, Keyword2) EXCEPT !.calls = 2] }

Squats == [t \in {"acme", "globex"} |-> IF t = "acme" THEN <<"acm3", "acrne">> ELSE <<"gl0bex">>]

Terms == {"acme", "globex", "acm3", "acrne", "gl0bex", "coin", "slogan", "motto", "motto2", "claim", "acme-org",
          ".env", ".env AKIA", ".env ghp_", "credentials.json", "firebase.json",
          "google-services.json", "serviceAccount.json", "id_rsa", "pem", ".env sk_live_",
          "AKIA", "ghp_", "dotenv", "credentials", "private key",
          "clone", "spoof", "fake", "unofficial"}
         \cup SUSPICIOUS_KEYWORDS \cup PHISHING_TERMS \cup MALWARE_TERMS
Lengths == [t \in Terms |-> IF t = "slogan" THEN 300 ELSE 12]
Telling == "slogan" :> 5 @@ "motto" :> 4 @@ "motto2" :> 3 @@ "claim" :> 2
Blocks == {"ssh_private_key", "jwt"}

Answer(intent, score, conf, cites, deep) ==
  [readable |-> TRUE, intent |-> intent, score |-> score, conf |-> conf, cites |-> cites, deep |-> deep]
\* A sure answer, one that claims what it was not told, and one that is not JSON.
SomeAnswers ==
  { Answer("phishing_active", 95, 90, {"phishing-kit", "deployment"}, FALSE),
    Answer("scam", 120, 60, {"readme", "deploy", "hunch"}, FALSE),
    [Answer("", 0, 0, {}, FALSE) EXCEPT !.readable = FALSE] }
=============================================================================
