---------------------------- MODULE QueryFamilies ----------------------------
(* The queries a scan puts to GitHub (scans/discovery/query-families.ts and    *)
(* buildSearchQueries of scan-pipeline.service.ts). A query is                 *)
(* [kind, family, all, any, where, dates]: every term of "all" has to occur,    *)
(* and one of "any" unless it is empty, "where" the query looks; "dates" are    *)
(* the ranges [axis, from, to] that the repository has to lie in, 0 for an open *)
(* end. What a scan asks for is                                                 *)
(*   scoped     one brand only          onlyKeyword  one of its keywords only   *)
(*   scope      "both", "repositories" or "code", with onlyKeyword              *)
(*   code       whether code search is enabled                                  *)
(*   keywords   the workspace's [keyword, category, priority, enabled]          *)
(*   created, pushed    [from, to]      mode   "and" or "or"                    *)
(*   standing   the dates of the deployment, for scans without any              *)
EXTENDS BrandMatch

CONSTANTS Variants,    \* the typo variants of a term, in order, never the term itself
          TermLength,  \* the length of a term
          MAX_QUERIES, \* SCAN_MAX_QUERIES (200)
          MAX_LENGTH,  \* 250
          MAX_CUSTOM_KEYWORDS_PER_BRAND, \* 100
          NoKeyword    \* no restriction to one keyword

Open(window) == window.from = 0 /\ window.to = 0

BuildDateRangeQualifier(axis, window) == [axis |-> axis, from |-> window.from, to |-> window.to]

\* What the scan's dates become: nothing, ranges that must all hold, or with
\* "or" two alternatives, each for a query of its own.
BuildDateQualifierVariants(opts) ==
  LET present == {axis \in {"created", "pushed"} : ~Open(opts[axis])}
      Of(axis) == BuildDateRangeQualifier(axis, opts[axis])
  IN CASE present = {} -> <<>>
       [] opts.mode = "or" /\ Cardinality(present) = 2 -> <<{Of("created")}, {Of("pushed")}>>
       [] OTHER -> <<{Of(axis) : axis \in present}>>

\* Mutant: the deployment's dates are added to a scan's own.
StandingAlways(opts) ==
  LET own == BuildDateQualifierVariants(opts)
  IN IF own = <<>> THEN <<opts.standing>> ELSE [i \in DOMAIN own |-> own[i] \cup opts.standing]

\* The dates each repository query is put with. Those of the deployment stand in
\* only for a scan that has no dates at all.
RepoSuffixVariants(opts) ==
  LET own == BuildDateQualifierVariants(opts)
  IN IF own = <<>> THEN <<opts.standing>> ELSE own

InRange(date, window) ==
  /\ date # 0
  /\ window.from = 0 \/ date >= window.from
  /\ window.to = 0 \/ date <= window.to

\* The same question asked of a repository an audit already has, an unknown
\* date (0) lying in no range.
RepoMatchesActivityWindow(repo, opts) ==
  LET created == Open(opts.created) \/ InRange(repo.created, opts.created)
      pushed == Open(opts.pushed) \/ InRange(repo.pushed, opts.pushed)
  IN IF ~Open(opts.created) /\ ~Open(opts.pushed) /\ opts.mode = "or"
     THEN created \/ pushed ELSE created /\ pushed

\* What GitHub takes a query's dates to mean.
Admits(dates, repo) == \A d \in dates : InRange(repo[d.axis], d)

-----------------------------------------------------------------------------
Query(kind, family, all, any, where) ==
  [kind |-> kind, family |-> family, all |-> all, any |-> any, where |-> where, dates |-> {}]

QueryLength(q) ==
  MapThenSumSet(LAMBDA t : TermLength[t], q.all \cup q.any) + 25 * Cardinality(q.dates)

\* Queries that say the same are put once; a query too long, or over the
\* budget of the scan, is left out.
Put(queries, q) ==
  LET Text(x) == [x EXCEPT !.family = ""]
  IN IF \/ \E i \in DOMAIN queries : Text(queries[i]) = Text(q)
        \/ QueryLength(q) > MAX_LENGTH
        \/ Len(queries) >= MAX_QUERIES
     THEN queries ELSE Append(queries, q)

\* A query of repositories is put once for each of the dates' alternatives.
Push(queries, q, opts) ==
  IF q.kind = "code" THEN Put(queries, q)
  ELSE FoldLeft(LAMBDA qs, dates : Put(qs, [q EXCEPT !.dates = dates]),
                queries, RepoSuffixVariants(opts))

\* Keywords of a category by priority, then by name, up to a limit; what the
\* code knows by itself stands in for an empty list, the fallback for none.
TopKeywordsByCategory(keywords, category, limit) ==
  LET some == {i \in DOMAIN keywords : keywords[i].enabled /\ keywords[i].category = category}
      Before(i, j) == \/ keywords[i].priority > keywords[j].priority
                      \/ keywords[i].priority = keywords[j].priority /\ i < j
      ranked == UpTo(SetToSortSeq(some, Before), limit)
  IN [k \in DOMAIN ranked |-> keywords[ranked[k]].keyword]

Default(keyword, category) ==
  [keyword |-> keyword, category |-> category, priority |-> 5, enabled |-> TRUE]
DefaultKeywords ==
  <<Default("login", "phishing"), Default("otp", "phishing"), Default("payment", "phishing"),
    Default("verification", "phishing"), Default("wallet", "phishing"),
    Default("apk", "malware"), Default("mod", "malware"), Default("stealer", "malware")>>

Pick(opts, category, fallback, limit) ==
  LET top == TopKeywordsByCategory(IF opts.keywords = <<>> THEN DefaultKeywords ELSE opts.keywords,
                                   category, limit)
  IN IF top = <<>> THEN fallback ELSE top

NAME_OR_DESCRIPTION == "name, description"

Term(brand) == IF brand.keywords = <<>> THEN brand.name ELSE brand.keywords[1]

\* With one keyword only: that keyword by itself, without the brand, whether or
\* not it is the brand's own term.
OnlyKeywordQueries(brand, opts) ==
  (IF opts.scope # "code"
   THEN <<Query("repositories", "brand-keyword-custom", {opts.onlyKeyword}, {}, "anywhere")>>
   ELSE <<>>)
  \o (IF opts.code /\ opts.scope # "repositories"
      THEN <<Query("code", "brand-keyword-custom-code", {opts.onlyKeyword}, {}, "anywhere")>>
      ELSE <<>>)

\* Everything else about a brand, in the order the budget is spent: lures,
\* misspellings, its own keywords, secrets beside its name, its wording, and
\* last the accounts it owns.
BrandQueries(brand, opts) ==
  LET term == Term(brand)
      custom == UpTo(SelectSeq(brand.keywords, LAMBDA k : k # term), MAX_CUSTOM_KEYWORDS_PER_BRAND)
      variants == UpTo(Variants[term], 3)
      phrases == UpTo(brand.phrases, 5)
      owners == SetToSeq(brand.owners)
      Lure(family, any) == Query("repositories", family, {term}, any, NAME_OR_DESCRIPTION)
  IN <<Lure("phishing", ToSet(Pick(opts, "phishing", <<"phishing", "login">>, 4))),
       Lure("apk", ToSet(Pick(opts, "malware", <<"apk", "stealer">>, 4))),
       Lure("impersonation", {"clone", "spoof", "fake", "unofficial"})>>
     \o [i \in DOMAIN variants |-> Query("repositories", "typo-squat", {variants[i]}, {}, "name")]
     \o [i \in DOMAIN custom |-> Query("repositories", "brand-keyword-custom",
                                       {term, custom[i]}, {}, NAME_OR_DESCRIPTION)]
     \o (IF ~opts.code THEN <<>>
         ELSE <<Query("code", "brand-secret", {term},
                      ToSet(Pick(opts, "secret", <<"AKIA", "ghp_">>, 4)), "anywhere")>>
              \o [i \in DOMAIN custom |-> Query("code", "brand-keyword-custom-code",
                                                {term, custom[i]}, {}, "anywhere")]
              \o [i \in DOMAIN phrases |-> Query("code", "distinctive-content",
                                                 {phrases[i]}, {}, "anywhere")])
     \o [i \in 1..(2 * Len(owners)) |->
           Query("repositories", "trusted-account", {owners[(i + 1) \div 2]}, {},
                 IF i % 2 = 1 THEN "org" ELSE "user")]

\* Mutant: a scan of one brand sweeps the workspace's keywords too.
WorkspaceQueriesAlways(opts) ==
  LET kws == Pick(opts, "brand", <<>>, 5)
  IN [i \in DOMAIN kws |-> Query("repositories", "brand-keyword", {kws[i]},
                                 {"login", "apk", "phishing"}, NAME_OR_DESCRIPTION)]

\* What has nothing to do with any one brand, and is left out for a scan of one:
\* the workspace's brand keywords, and files that are named like secrets.
WorkspaceQueries(opts) ==
  LET kws == Pick(opts, "brand", <<>>, 5)
      secrets == Pick(opts, "secret", <<>>, 6)
      files == <<".env AKIA", ".env ghp_", "credentials.json", "firebase.json",
                 "google-services.json", "serviceAccount.json", "id_rsa", "pem", ".env sk_live_">>
      File(all) == Query("code", "secret-filename", all, {}, "filename")
  IN IF opts.scoped THEN <<>>
     ELSE [i \in DOMAIN kws |-> Query("repositories", "brand-keyword", {kws[i]},
                                      {"login", "apk", "phishing"}, NAME_OR_DESCRIPTION)]
          \o (IF opts.code
              THEN [i \in DOMAIN files |-> File({files[i]})]
                   \o [i \in DOMAIN secrets |-> File({".env", secrets[i]})]
              ELSE <<Query("repositories", "secret-filename", {},
                           ToSet(Pick(opts, "secret", <<"dotenv", "credentials", "private key">>, 5)),
                           NAME_OR_DESCRIPTION)>>)

BuildQueryFamilies(brands, opts) ==
  LET wanted == FoldLeft(LAMBDA all, b :
                           all \o IF opts.onlyKeyword # NoKeyword THEN OnlyKeywordQueries(b, opts)
                                  ELSE BrandQueries(b, opts),
                         <<>>, brands) \o WorkspaceQueries(opts)
  IN FoldLeft(LAMBDA qs, q : Push(qs, q, opts), <<>>, wanted)

-----------------------------------------------------------------------------
\* A repository query returns a repository whose name, description, topics or
\* owner say so, and whose dates its qualifiers admit; a code query looks at the
\* lines of its files instead and knows no dates.
Returns(q, repo) ==
  LET named == CASE q.where = "name" -> repo.name
                 [] q.where = NAME_OR_DESCRIPTION -> repo.name \cup repo.description
                 [] q.where \in {"org", "user"} -> {[of |-> repo.owner, as |-> "word"]}
                 [] q.where = "filename" -> UNION {f.words : f \in ToSet(repo.files)}
                 [] q.where = "anywhere" ->
                      IF q.kind = "code" THEN UNION {UNION ToSet(f.lines) : f \in ToSet(repo.files)}
                      ELSE repo.name \cup repo.description \cup UNION repo.topics
  IN /\ \A t \in q.all : HasWordBoundaryMatch(named, t)
     /\ q.any = {} \/ \E t \in q.any : HasWordBoundaryMatch(named, t)
     /\ Admits(q.dates, repo)
=============================================================================
