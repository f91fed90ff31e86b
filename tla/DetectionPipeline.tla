-------------------------- MODULE DetectionPipeline --------------------------
(* From the queries of a scan to the scored findings of the repositories they  *)
(* return: buildSearchQueries, matchBrand, fetchRepositoryContext,             *)
(* appendHistoricalSecretSignals and runDetectionAndPersist of                 *)
(* scan-pipeline.service.ts, as the analysis, branch and detection workers      *)
(* call them for several repositories at once. What a stored finding then goes *)
(* through is the subject of Findings; here it is what one repository's score   *)
(* reads of the others.                                                        *)
(*                                                                             *)
(* Repo[r][v] is what the repository r holds at its version v. A finding of a   *)
(* repository is identified by its rules; "ruled" is what the rules scored it,  *)
(* "score" the number in force, by its source.                                  *)
EXTENDS QueryFamilies, RiskScoring, ReferenceCorpus

CONSTANTS Repo,         \* the repositories, each a sequence of versions
          Brands,       \* the monitored brands, a sequence
          Reference,    \* the first brand's own repository, known as a whole
          Plans,        \* [repos, opts, audit, branch, ingests, calls]: what is scanned, how,
                        \*   and bounds on the ingests of Reference and the questions to a model
          MaxRounds,    \* bound: analyses of a repository
          MaxFaults,    \* bound: crashes of jobs and requests, clones that fail
          MaxVerdicts   \* bound: findings a user dismisses

\* A commit has one file of each path, and what a file is goes by its path: the
\* same path is a content file at every commit, or at none.
ASSUME PathsAssumption ==
  \A v, w \in DOMAIN Repo[Reference] :
    LET F == ReferenceFiles(Repo[Reference][v])
        G == ReferenceFiles(Repo[Reference][w])
    IN \A i \in DOMAIN F, j \in DOMAIN G :
         Path(F[i]) = Path(G[j]) => /\ v = w => i = j
                                    /\ ClassifyContentFile(F[i]) <=> ClassifyContentFile(G[j])

\* What selecting and sorting return are sequences.
ASSUME ListsAssumption ==
  /\ Brands \in Seq(ToSet(Brands)) /\ 1 \in DOMAIN Repo[Reference]
  /\ 1 \in DOMAIN Brands /\ \A b \in ToSet(Brands) : b.keywords \in Seq(ToSet(b.keywords))
  /\ \A v \in DOMAIN Repo[Reference] :
       LET F == ReferenceFiles(Repo[Reference][v])
       IN /\ F \in Seq(ToSet(F))
          /\ \A i \in DOMAIN F : LET phrases == ExtractDistinctivePhrases(F[i])
                                IN phrases \in Seq(ToSet(phrases))

\* A repository has a version; its files, their lines, its commits and what they
\* changed are in lists, its files are of the kinds that are told apart, and a
\* line has so many words.
IsList(s) == s \in Seq(ToSet(s))
AreLines(s) == IsList(s) /\ \A words \in ToSet(s) : IsFiniteSet(words)
ASSUME RepositoriesAssumption ==
  /\ IsFiniteSet(DOMAIN Repo)
  /\ \A r \in DOMAIN Repo :
       /\ IsList(Repo[r]) /\ Repo[r] # <<>>
       /\ \A repo \in ToSet(Repo[r]) :
            /\ IsList(repo.files) /\ IsList(repo.commits) /\ IsFiniteSet(repo.description)
            /\ \A f \in ToSet(repo.files) : f.kind \in DOMAIN KindPriority /\ AreLines(f.lines)
            /\ \A c \in ToSet(repo.commits) :
                 IsList(c.patches) /\ \A p \in ToSet(c.patches) : AreLines(p)

VARIABLES plan,      \* what is scanned
          queries,   \* the queries of the scan
          jobs,      \* the work on each repository
          prints,    \* operator fingerprints stored for each repository
          findings,  \* the findings of each repository
          tasks,     \* assessments asked of the queue, and the ids of all its jobs
          faults, verdicts

pipelineVars == <<plan, queries, jobs, prints, findings, tasks, faults, verdicts>>

Idle(round) == [stage |-> "idle", round |-> round, guess |-> 0]

BrandOf(i) == IF i = 0 THEN Nobody ELSE Brands[i]
AllNames == FoldLeft(LAMBDA all, b : all \o SetToSeq(b.names), <<>>, Brands)
AllKeywords == UNION {ToSet(b.keywords) : b \in ToSet(Brands)}

Held(r, round) == Repo[r][Min({round, Len(Repo[r])})]
Now(r) == Held(r, jobs[r].round)

PipelineInit ==
  /\ plan \in Plans
  /\ queries = <<>>
  /\ jobs = [r \in DOMAIN Repo |-> Idle(1)]
  /\ prints = [r \in DOMAIN Repo |-> {}]
  /\ findings = [r \in DOMAIN Repo |-> {}]
  /\ tasks = [waiting |-> {}, ids |-> {}]
  /\ faults = 0 /\ verdicts = 0
  /\ CorpusInit(IF plan.ingests = 0 THEN CorpusOf(Repo[Reference][1]) ELSE EmptyCorpus)

\* A scan of one brand is given that brand alone.
ScannedBrands == IF plan.opts.scoped THEN <<Brands[1]>> ELSE Brands

\* Every brand with the phrases that are stored for it.
WithPhrases(brands) == [i \in DOMAIN brands |->
  IF brands[i].name = Brands[1].name THEN [brands[i] EXCEPT !.phrases = TopPhrases(5)] ELSE brands[i]]

BuildSearchQueries ==
  /\ ~plan.audit /\ ~plan.branch
  /\ queries = <<>>
  /\ queries' = BuildQueryFamilies(WithPhrases(ScannedBrands), plan.opts)
  /\ UNCHANGED <<plan, tasks, jobs, prints, findings, faults, verdicts>>

Start(r, guess) ==
  /\ jobs[r].stage = "idle" /\ r \in plan.repos
  /\ jobs' = [jobs EXCEPT ![r].stage = "found", ![r].guess = guess]
  /\ UNCHANGED <<plan, tasks, queries, prints, findings, faults, verdicts>>

\* A query returns the repository, which is recorded under the first guess.
Find(r) ==
  /\ jobs[r].stage = "idle" /\ r \in plan.repos
  /\ \E i \in DOMAIN queries : Returns(queries[i], Now(r))
  /\ Start(r, MatchBrand(ScannedBrands, Now(r)))

\* An audit goes through the repositories of the brand's own accounts.
Enumerate(r) ==
  /\ plan.audit
  /\ Now(r).owner \in ScannedBrands[1].owners
  /\ RepoMatchesActivityWindow(Now(r), plan.opts)
  /\ Start(r, 1)

\* A user asks for one branch of a repository that is already known.
AskForBranch(r) == plan.branch /\ Start(r, 0)

-----------------------------------------------------------------------------
\* The brand is decided once the content is there; the account behind the
\* repository is only looked up for a brand, and not for an account of its own.
Attribute(job, ctx, profile) ==
  LET best == FindBestBrandMatch(ScannedBrands, ctx)
      looked == best # 0 /\ ctx.owner \notin BrandOf(best).owners
  IN [stage |-> "fetched", round |-> job.round, guess |-> job.guess, brand |-> best,
      ctx |-> [ctx EXCEPT !.profile = IF looked THEN profile ELSE "unknown"]]

\* A branch is analysed with no metadata: no stars, no forks, created just now.
OnBranch(ctx) ==
  [ctx EXCEPT !.description = {}, !.topics = {}, !.stars = 0, !.forks = 0,
              !.fork = FALSE, !.age = 0]

\* A clone of a repository that is not too large, each of its greps possibly
\* running out of time; any other failure leaves it to REST.
Clone(r, greps) ==
  /\ jobs[r].stage = "found" /\ ~Now(r).large
  /\ greps = {"brand", "keyword", "secret"} \/ faults < MaxFaults
  /\ faults' = IF greps = {"brand", "keyword", "secret"} THEN faults ELSE faults + 1
  /\ LET cloned == CloneContext(Now(r), AllNames, AllKeywords, greps)
     IN jobs' = [jobs EXCEPT ![r] = Attribute(@, IF plan.branch THEN OnBranch(cloned) ELSE cloned,
                                              Now(r).profile)]
  /\ UNCHANGED <<plan, tasks, queries, prints, findings, verdicts>>

\* Over REST, when there is no clone to be had. A branch has no such fallback.
FetchOverRest(r, treeKnown) ==
  /\ jobs[r].stage = "found" /\ ~plan.branch
  /\ Now(r).large \/ faults < MaxFaults
  /\ faults' = IF Now(r).large THEN faults ELSE faults + 1
  /\ jobs' = [jobs EXCEPT ![r] = Attribute(@, RestContext(Now(r), AllNames, treeKnown),
                                           Now(r).profile)]
  /\ UNCHANGED <<plan, tasks, queries, prints, findings, verdicts>>

\* The recent commits, where that is enabled and a brand has matched.
ReadHistory(r) ==
  /\ jobs[r].stage = "fetched" /\ jobs[r].brand # 0
  /\ Now(r).commits # <<>> /\ ~plan.branch
  /\ jobs' = [jobs EXCEPT ![r].ctx = AppendHistory(@, Now(r).commits), ![r].stage = "read"]
  /\ UNCHANGED <<plan, tasks, queries, prints, findings, faults, verdicts>>

-----------------------------------------------------------------------------
\* What of the brand's own the repository holds: wording, files, credentials.
Stored(brand) == IF brand.name = Brands[1].name THEN corpus ELSE EmptyCorpus

PhraseReuse(stored, ctx) ==
  LET held == {x \in stored.phrases \X DOMAIN ctx.haystacks :
                 \E words \in ToSet(ctx.haystacks[x[2]].lines) : Includes(words, x[1].text)}
  IN [k \in 1..Min({10, Cardinality(held)}) |->
        Detected("content-reuse-phrase", "content_reuse", "high", 75, 22)]

\* A file of a few bytes proves nothing.
FileReuse(stored, ctx) ==
  LET Trivial(h) == UNION ToSet(h.lines) = {}
      Copied(h) == /\ h.source \in {"file", "readme"} /\ ~Trivial(h)
                   /\ \E x \in stored.files : x.hash = h.lines
      copied == Those(ctx.haystacks, {k \in DOMAIN ctx.haystacks : Copied(ctx.haystacks[k])})
  IN [k \in DOMAIN UpTo(copied, 10) |->
        Detected("content-reuse-file", "content_reuse", "critical", 95, 35)]

Reuse(stored, ctx) ==
  FindCredentialReuseMatches(ctx, stored.secrets) \o PhraseReuse(stored, ctx) \o FileReuse(stored, ctx)

Meaningful(detections) ==
  SelectSeq(detections, LAMBDA d : d.rule # "low-reputation-new-repo")

\* Whether what the repository sends to, or its deployment, answers.
CheckLiveness(brand, ctx, repo) ==
  LET sentTo == UpTo(ExtractDataDestinations(brand, ctx), 3)
      live == Those(sentTo, {k \in DOMAIN sentTo : sentTo[k] \in repo.live})
  IN [k \in DOMAIN live |-> Detected("live-destination", "suspicious_destination", "critical", 90, 30)]
     \o When(repo.deployed,
             Detected("confirmed-live-deployment", "confirmed_live", "critical", 95, 32))

\* Rules, reuse of what is the brand's own, and liveness where there is
\* something to confirm. An audit has neither of the last two.
Detect(r) ==
  /\ jobs[r].stage \in {"fetched", "read"}
  /\ LET brand == BrandOf(jobs[r].brand)
         ctx == jobs[r].ctx
         ruled == Analyze(brand, ctx, IF plan.audit THEN IMPERSONATION_ONLY_RULE_IDS ELSE {})
         all == IF plan.audit \/ jobs[r].brand = 0 THEN ruled ELSE ruled \o Reuse(Stored(brand), ctx)
         confirmed == IF plan.audit \/ Meaningful(all) = <<>> THEN all
                      ELSE all \o CheckLiveness(brand, ctx, Now(r))
     IN jobs' = [jobs EXCEPT ![r] = [stage |-> "detected", round |-> @.round, guess |-> @.guess,
                                     brand |-> @.brand, ctx |-> @.ctx, detections |-> confirmed]]
  /\ UNCHANGED <<plan, tasks, queries, prints, findings, faults, verdicts>>

\* The contacts in what was read, placeholders left out.
ExtractOperatorFingerprints(ctx) ==
  {w.of : w \in {w \in UNION (LinesOf(ctx, "readme") \cup LinesOf(ctx, "file")) : w.as = "contact"}}

\* Mutant: what is stored is deleted before it is replaced.
StoreFingerprintsDeleteFirst(r) ==
  /\ jobs[r].stage = "detected"
  /\ prints' = [prints EXCEPT ![r] = {}]
  /\ jobs' = [jobs EXCEPT ![r].stage = "stored"]
  /\ UNCHANGED <<plan, tasks, queries, findings, faults, verdicts>>

\* The fingerprints are added (one by one in the code) before stale ones are deleted.
StoreFingerprints(r) ==
  /\ jobs[r].stage = "detected"
  /\ prints' = [prints EXCEPT ![r] = @ \cup ExtractOperatorFingerprints(jobs[r].ctx)]
  /\ jobs' = [jobs EXCEPT ![r].stage = "stored"]
  /\ UNCHANGED <<plan, tasks, queries, findings, faults, verdicts>>

\* Open findings that an analysis of the whole repository has not met again.
ResolveMissing(all, seen) ==
  IF plan.branch THEN all
  ELSE {[f EXCEPT !.status = IF @ = "open" /\ f.rules \notin seen THEN "resolved" ELSE @] : f \in all}

\* Without anything meaningful that is all that is left to do.
PruneFingerprints(r) ==
  /\ jobs[r].stage = "stored"
  /\ prints' = [prints EXCEPT ![r] = ExtractOperatorFingerprints(jobs[r].ctx)]
  /\ IF Meaningful(jobs[r].detections) # <<>>
     THEN jobs' = [jobs EXCEPT ![r].stage = "pruned"] /\ UNCHANGED findings
     ELSE /\ jobs' = [jobs EXCEPT ![r].stage = "done"]
          /\ findings' = [findings EXCEPT ![r] = ResolveMissing(@, {})]
  /\ UNCHANGED <<plan, tasks, queries, faults, verdicts>>

Stands(q) == \E f \in findings[q] : f.status # "false_positive"

\* Brands that the account's other repositories have findings for. The one at
\* hand is not left out of them, and a resolved finding counts.
GetOperatorContext(r) ==
  LET others == {q \in DOMAIN Repo \ {r} : Now(q).owner = Now(r).owner}
  IN {f.brand : f \in {f \in UNION {findings[q] : q \in others} : f.status # "false_positive"}} \ {""}

\* Other accounts with one of the same contacts, and a finding that stands.
GetCrossIdentityContext(r) ==
  {Now(q).owner : q \in {q \in DOMAIN Repo \ {r} :
                           /\ Now(q).owner # Now(r).owner
                           /\ prints[q] \cap ExtractOperatorFingerprints(jobs[r].ctx) # {}
                           /\ Stands(q)}}

Score(r) ==
  /\ jobs[r].stage = "pruned"
  /\ LET linked == GetCrossIdentityContext(r)
     IN jobs' = [jobs EXCEPT ![r] =
          [stage |-> "scored", round |-> @.round, guess |-> @.guess, brand |-> @.brand,
           ctx |-> @.ctx, detections |-> @.detections, linked |-> linked,
           score |-> Calculate(@.detections, @.ctx, Cardinality(GetOperatorContext(r)),
                               Cardinality(linked))]]
  /\ UNCHANGED <<plan, tasks, queries, prints, findings, faults, verdicts>>

\* The rules that fired, each as often as it did.
Fingerprint(detections) ==
  LET rules == {d.rule : d \in ToSet(detections)}
  IN [rule \in rules |-> Cardinality({k \in DOMAIN detections : detections[k].rule = rule})]

\* A finding that was dismissed stays dismissed, one that was resolved is opened
\* again. Its score is written anew, but not the source of the score.
Refreshed(f, job, brand) ==
  [f EXCEPT !.brand = IF job.brand = 0 THEN @ ELSE brand,
            !.score = job.score, !.ruled = job.score, !.severity = SeverityFromScore(job.score),
            !.classes = ClassifyThreat(Categories(job.detections)),
            !.status = IF @ = "false_positive" THEN @ ELSE "open"]

Created(job, brand) ==
  [rules |-> Fingerprint(job.detections), brand |-> brand,
   score |-> job.score, ruled |-> job.score, severity |-> SeverityFromScore(job.score),
   classes |-> ClassifyThreat(Categories(job.detections)), status |-> "open",
   source |-> "rules", intent |-> "none", deep |-> FALSE,
   files |-> {d.file : d \in ToSet(job.detections)} \ {0}]

\* One assessment job for a finding; while its id is taken nothing is added.
Enqueue(ids) == [tasks EXCEPT !.waiting = @ \cup (ids \ tasks.ids), !.ids = @ \cup ids]

\* The finding is looked up and saved, and its assessment asked for: three awaits, taken as
\* one.  (Mongoose saves what differs from the finding looked up, so a verdict applied in
\* between could leave its score beside the rules' severity: no property compares them.)
Persist(r) ==
  /\ jobs[r].stage = "scored"
  /\ LET rules == Fingerprint(jobs[r].detections)
         brand == BrandOf(jobs[r].brand).name
         existing == {f \in findings[r] : f.rules = rules}
         saved == IF existing = {} THEN {Created(jobs[r], brand)}
                  ELSE {Refreshed(f, jobs[r], brand) : f \in existing}
     IN /\ findings' = [findings EXCEPT ![r] = ResolveMissing((@ \ existing) \cup saved, {rules})]
        /\ tasks' = IF plan.audit \/ \E f \in existing : f.status # "resolved" THEN tasks
                    ELSE Enqueue({<<r, rules>>})
  /\ jobs' = [jobs EXCEPT ![r].stage = "done"]
  /\ UNCHANGED <<plan, queries, prints, faults, verdicts>>

\* The detection job is lost half-way and starts over with what the analysis had
\* read, its history included.
Crash(r) ==
  /\ jobs[r].stage \in {"detected", "stored", "pruned", "scored"} /\ faults < MaxFaults
  /\ faults' = faults + 1
  /\ jobs' = [jobs EXCEPT ![r] = [stage |-> "read", round |-> @.round, guess |-> @.guess,
                                  brand |-> @.brand, ctx |-> @.ctx]]
  /\ UNCHANGED <<plan, tasks, queries, prints, findings, verdicts>>

\* A user takes a finding for a false positive.
Dismiss(r) ==
  /\ verdicts < MaxVerdicts
  /\ verdicts' = verdicts + 1
  /\ \E f \in findings[r] :
       /\ f.status = "open"
       /\ findings' = [findings EXCEPT ![r] = (@ \ {f}) \cup {[f EXCEPT !.status = "false_positive"]}]
  /\ UNCHANGED <<plan, tasks, queries, jobs, prints, faults>>

\* The repository is pushed to, and a later scan comes by again.
Again(r) ==
  /\ jobs[r].stage = "done" /\ jobs[r].round < MaxRounds
  /\ jobs' = [jobs EXCEPT ![r] = Idle(@.round + 1)]
  /\ UNCHANGED <<plan, tasks, queries, prints, findings, faults, verdicts>>

\* An ingest or a removal of the reference repository, one at a time or two at once.
IngestNext ==
  \E c \in Callers :
    \/ \E v \in DOMAIN Repo[Reference] : IngestReferenceRepo(c, Repo[Reference][v], plan.ingests)
       /\ UNCHANGED pipelineVars
    \/ RemoveReferenceRepo(c, plan.ingests) /\ UNCHANGED pipelineVars
    \/ IngestStep(c) /\ UNCHANGED pipelineVars
    \/ /\ CrashIngest(c) /\ faults < MaxFaults /\ faults' = faults + 1
       /\ UNCHANGED <<plan, tasks, queries, jobs, prints, findings, verdicts>>

AnalysisNext ==
  \/ BuildSearchQueries
  \/ \E r \in DOMAIN Repo :
       \/ Find(r) \/ Enumerate(r) \/ AskForBranch(r)
       \/ \E greps \in SUBSET {"brand", "keyword", "secret"} : Clone(r, greps)
       \/ \E treeKnown \in BOOLEAN : FetchOverRest(r, treeKnown)
       \/ ReadHistory(r) \/ Detect(r) \/ StoreFingerprints(r) \/ PruneFingerprints(r)
       \/ Score(r) \/ Persist(r) \/ Crash(r) \/ Dismiss(r) \/ Again(r)

PipelineNext == (AnalysisNext /\ UNCHANGED corpusVars) \/ IngestNext

-----------------------------------------------------------------------------
Fetched(r) == jobs[r].stage = "fetched"
Examined(r) == jobs[r].stage = "detected"

\* A repository that a brand is found in by name, description, topics, paths or
\* account is never attributed to a brand its text merely mentions, however
\* exactly, nor to one it resembles where another is named (STRONG_LOCATIONS).
\* The content decides: what the history adds later is not compared.
NamedBrandWins ==
  \A r \in DOMAIN Repo : Fetched(r) =>
    LET e(b) == Evidence(b, jobs[r].ctx)
        chosen == e(BrandOf(jobs[r].brand))
    IN \A b \in ToSet(ScannedBrands) : e(b).location \in STRONG_LOCATIONS =>
         /\ chosen.location \in STRONG_LOCATIONS
         /\ e(b).type # "fuzzy" => chosen.type # "fuzzy"

\* The pass over the whole tree reports nothing that the pass over the sample
\* has reported already, and both keep to one budget for a pattern; the header
\* of a private key is always reported (findFullRepoSecretMatches).
NothingReportedTwice ==
  \A r \in DOMAIN Repo : Examined(r) =>
    LET sample == SampleMatches(jobs[r].ctx)
        whole == FindFullRepoSecretMatches(jobs[r].ctx.candidates, sample)
        Of(p) == {k \in 1..(Len(sample) + Len(whole)) : (sample \o whole)[k].rule = p}
    IN /\ \A k \in DOMAIN whole :
            /\ \A i \in DOMAIN sample : sample[i].file # 0 => Key(sample[i]) # Key(whole[k])
            /\ \A i \in DOMAIN whole : i # k => Key(whole[i]) # Key(whole[k])
       /\ \A p \in DOMAIN SECRET_PATTERNS \ {"ssh_private_key"} :
            Cardinality(Of(p)) <= MAX_MATCHES_PER_PATTERN

\* Repeats of one weak or moderate rule never make a repository critical by
\* themselves, however many there are (RULE_REPEAT_DECAY); and its reputation never
\* takes anything from a leak that comes without a malicious intent: the score is
\* at least what the leaks are worth.
ScoreIsFair ==
  \A r \in DOMAIN Repo :
    /\ Examined(r) =>
         \A rule \in {d.rule : d \in ToSet(jobs[r].detections)} :
           LET own == Those(jobs[r].detections,
                            {k \in DOMAIN jobs[r].detections : jobs[r].detections[k].rule = rule})
           IN (\A d \in ToSet(own) : d.points <= 25) => SeverityFromScore(Points(own)) # "critical"
    /\ /\ jobs[r].stage = "scored"
       /\ "malicious_intent" \notin ClassifyThreat(Categories(jobs[r].detections))
       => jobs[r].score >= Min({100, Points(jobs[r].detections)})

\* Whoever of two accounts is scored later is linked to the other by a contact
\* that both hold at every version, whatever has crashed or runs at the time,
\* and only by a contact that both have held, through a finding nobody dismissed.
Contacts(repo) ==
  {w.of : w \in {w \in UNION {UNION ToSet(f.lines) : f \in ToSet(repo.files)} : w.as = "contact"}}
Lasting(r) == {c \in Contacts(Repo[r][1]) : \A v \in DOMAIN Repo[r] : c \in Contacts(Repo[r][v])}
Ever(r) == UNION {Contacts(Repo[r][v]) : v \in DOMAIN Repo[r]}
LinksAreWeighed ==
  [][\A r, q \in DOMAIN Repo :
       /\ jobs[r].stage = "pruned" /\ jobs'[r].stage = "scored"
       /\ Now(q).owner # Now(r).owner
       => /\ Lasting(q) \cap Lasting(r) # {} /\ Stands(q) => Now(q).owner \in jobs'[r].linked
          /\ Now(q).owner \in jobs'[r].linked =>
               \E x \in DOMAIN Repo : /\ Now(x).owner = Now(q).owner /\ Stands(x)
                                      /\ Ever(x) \cap Ever(r) # {}]_pipelineVars

\* The queries of a scan stay with what it was asked for: with the brand, for a
\* scan of one brand, and with the repositories that an audit with the same
\* dates would take, the deployment's own dates only standing in for none, as
\* long as the budget lasts. They are put once: it is enough to look at them then.
QueriesKeepToTheScan ==
  LET own(b) == b.names \cup {b.name} \cup ToSet(b.keywords) \cup DOMAIN Significance \cup b.owners
                \cup ToSet(Variants[Term(b)])
      Undated(query) == [query EXCEPT !.dates = {}]
  IN (\A r \in DOMAIN Repo : jobs[r] = Idle(1)) =>
     /\ plan.opts.scoped =>
          \A i \in DOMAIN queries : queries[i].all \cap own(Brands[1]) # {}
     /\ Len(queries) < MAX_QUERIES /\ ~(Open(plan.opts.created) /\ Open(plan.opts.pushed)) =>
          \A repo \in UNION {ToSet(Repo[r]) : r \in DOMAIN Repo} :
            \A i \in DOMAIN queries : queries[i].kind = "repositories" =>
              (RepoMatchesActivityWindow(repo, plan.opts)
                 <=> \E j \in DOMAIN queries : /\ Undated(queries[j]) = Undated(queries[i])
                                               /\ Admits(queries[j].dates, repo))
=============================================================================
