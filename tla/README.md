# Verification of the GitHub OSINT scan platform

TLA+ models, TLC runs and TLAPS proofs for the scanning and detection side of this
repository (`src/apps/api`, and of the web client its progress panel): the NestJS API and its BullMQ workers, MongoDB (through Mongoose)
and Redis. Paths below are relative to `src/apps/api/src` unless they say otherwise.

## 1. The system

A scan is one `ScanJob` document and the jobs that work for it. They move through
queues: `scan-orchestrator` plans queries, `github-search` reads result pages,
`repository-analysis` fetches a repository, `detection-processing` stores what was
found and may lead to more repositories, `alert-dispatch` writes alerts. All of them
run concurrently in several worker processes and share only the documents and Redis.

| Component | State | Operations | What makes it correct |
|---|---|---|---|
| Scan state machine (`scans/scan-state.service.ts`) | status, cancelRequested, error, awaitingSearch, awaitingAnalysis, counts | markRunning, setQueries, record..., complete..., tryFinalize, finalize, requestCancel, markFailed | finished only when no page and no repository is outstanding; the verdict agrees with the counts; terminal is final; every scan ends |
| Orchestrator, search, analysis and detection processors (`queues/processors`) | their job, attempts | plan, page, split, claim, enqueue, report; retry and delay | each promised unit reports exactly once; credits come before what they pay for |
| Checkpoint and claims (`scans/incremental-scan.service.ts`) | the checkpoint's arrays | claim, mark completed, saveCheckpoint, decideRescan | a repository is claimed once per scan |
| Scan queue service (`queues/scan-queue.service.ts`) | the queues | enqueue, duplicate check, cancel, sweep, retry | an id is added once; a cancel leaves nothing waiting |
| Keyword rotation (`scans/keyword-rotation.service.ts`) | one document per workspace, delayed jobs | start, stop, add, pause, resume, remove, advance, watchdog | one scan at a time; every turn ends; nothing stays "on" without anything running |
| GitHub quota (`github/github-rate-limit.store.ts`, `github-http.client.ts`) | Redis keys: pace, pause, budget, concurrency, per-scan pause | reserve a slot, set/clear a pause, count requests | requests keep the minimum interval; limits hold across workers; a pause ends |
| Progress stream (`scans/progress`) | sequence numbers, last event, throttled event, subscribers | emit, publish, receive, stream, rebuild from the document | a client sees events in order and the final one last |
| Discovery (`scans/discovery*`, cursor, splitting) | a cursor per query, seen repositories | resume page, save cursor, split a range | halves cover the whole; the cursor does not lose results |
| Repository analysis (`scan-pipeline.service.ts`, `clone-scan.service.ts`) | the repository's marks (pending, failed, last commit and ruleset) | discover, skip or analyse, fetch by clone or REST, hand over | a processed repository shows what its commit shows; none drops out of every list |
| Findings and alerts (`findings`, `alerts`) | findings, evidence, alerts | upsert, re-open, resolve, judge, dispatch | one alert per finding; evidence is not lost; a user's verdict survives a re-scan |
| Branch analysis (`branch-analysis.processor.ts`) | a scan document of its own | as an analysis, of one branch | it leaves the default branch's findings alone |
| Queries (`scans/discovery/query-families.ts`) | none | build, split, date qualifiers | a scan's queries keep to what it was asked for |
| Brand matching, rules, score (`common`, `detection`) | none | attribute, detect, score | the named brand wins; nothing is reported twice; repeats stay weak and leaks keep their score |
| Fingerprints (`fingerprints`, `common/operator-fingerprint.ts`) | a brand's files, phrases, secrets; contacts per repository | ingest, prune, remove; replace | the corpus is the commit; links between accounts are not lost |
| Intent assessment (`intelligence`) | assessments, the finding's verdict | build context, ask, record, apply, deep review, backfill | a finding's verdict is one on record for it |

How they interact: a processor calls the state machine after each unit of work, the
one that drains the counters finalizes, a finalized watch goes back to the queue
service for its successor, the rotation starts and cancels scans through the queue
service, every GitHub call passes the quota store and may delay its job, and most
steps emit progress. An analysis reads what is stored of the brand and of other
repositories (fingerprints, findings), its detection job writes findings, and those
lead to alerts and to assessments, which write the finding's score back. Everything
else of the repository (CRUD modules, authentication, pages of the web UI) is listed in
`PROJECT.json` with the reason it is not modelled.

What is hard here: counters in one document updated by many workers; decisions taken
on a document that is read before and saved after an await; retries of jobs that have
already had some of their effects; delayed jobs racing with users; checkpoint and
queue (arrays in a document) rewritten as a whole. `PROJECT.json` lists the hazards
line by line.

## 2. Modules

| Module | Models | Composed of |
|---|---|---|
| `ScanLifecycle` | one scan, all its jobs, the user's cancel | – |
| `ScanContract` | what a scan promises: owed work, finish, abort | – |
| `ScanInductive` | the dependable scans, their inductive invariants, the refinement mapping | `ScanLifecycle`, `ScanContract` |
| `ScanSafetyProofs` | type correctness; `IInv` is inductive; no premature finish | `ScanInductive`, TLAPS |
| `ScanContractProofs` | `LInv` is inductive; the verdict, the ledger, the refinement | `ScanSafetyProofs` |
| `KeywordRotation` | the rotation document, its handlers, timers and watchdog | – |
| `RotationProofs` | `RotationInv` is inductive; one turn at a time; no slot change undone | `KeywordRotation`, TLAPS |
| `GitHubQuota` | one token's quota in Redis, the gates of a request, the delay of a job | – |
| `QuotaProofs` | `QInv` is inductive; slots, budget, spacing, pauses | `GitHubQuota`, TLAPS |
| `Findings` | detection jobs, findings, evidence, alerts, verdicts of users for one repository | – |
| `RepositoryAnalysis` | discovery, skip, content and marks of a repository that changes | `Findings` |
| `AnalysisProofs` | `AnalysisInv` is inductive; backlog, marks, alerts, evidence, verdicts, branches | `RepositoryAnalysis`, TLAPS |
| `ScanProgress` | events of one scan from the processes that emit them to one browser | – |
| `ProgressProofs` | `ProgressInv` is inductive; a client up to date, the end and the latest saved | `ScanProgress`, TLAPS |
| `Discovery` | search scans with paging, splits, bookmarks, the cap | – |
| `DiscoveryProofs` | `DiscoveryInv`, `PagingInv`, `NamingInv` are inductive; the cap, the bookmarks, nothing missed, every brand named | `Discovery`, TLAPS |
| `BrandMatch`, `QueryFamilies` | attribution to a brand; the queries of a scan | `BrandMatch` |
| `RepositoryContext`, `ReferenceCorpus` | what is read of a repository; what is stored of a brand's own | `BrandMatch` |
| `SecretRules`, `ThreatRules`, `RiskScoring` | the rules, the engine and the score | each the one before |
| `DetectionPipeline` | several repositories from query to finding | all seven above |
| `IntentAssessment` | the second opinion on a finding, beside rescans | `DetectionPipeline` |
| `PipelineProofs` | verdicts on record; a corpus that is the commit; the choice of a named brand; nothing reported twice; fair scores | `IntentAssessment`, TLAPS |
| `MC...` | small instances | the module named |

### ScanLifecycle and the code

Threads are the orchestrator job, one `github-search` job per page, a chain of
analysis and detection job per repository, and the cancel request. `pc[t]` is where a
thread is; a label stands for the code up to the next await on shared state, so two
workers interleave in the model where they do in the program.

* `status`, `cancelRequested`, `error`, `awaitingSearch`, `awaitingAnalysis`,
  `processed`, `failed` are the document's fields. `claimed` and `completed` are the
  checkpoint's arrays (`claimed` their union). `attempts` is BullMQ's `attemptsMade`.
* `finalize` is two reads and a save in the code and two steps here: `FinalizeRead`
  computes the verdict on what it read, `FinalizeSave` writes it later, the status
  only if it differs from the one read (Mongoose writes modified paths).
* The claim, `recordRepositoryDiscovered` and the add to the analysis queue are three
  steps (`ClaimItem`, `RecordItem`, `AddAnalysis`; `Expand`, `RecordExpanded`,
  `AddExpanded`); in between the repository is in `carry`, and `lost` is the history of the
  claims whose attempt threw before the record (`DropCarry`). A continuation page is credited (`CreditNextPage`), then added
  (`AddNextPage`). A split adds its halves, then credits them (`AddHalf`,
  `CreditSplit`): the code's order.
* `SearchFault`, `UnitFault`, `OrchFault` are the catch blocks: any await may throw; a
  quota pause delays the job without using up an attempt; the last attempt reports.
  `SearchLateFault` and `UnitLateFault` throw after the report was counted.
* `ReadCheckpoint`/`SaveCheckpoint` are `saveCheckpoint`, which reads the document and
  writes the whole checkpoint back.
* `RestartWatch`, `CreateSuccessor` are `maybeRestartKeywordWatch`.

Abstracted: answers of GitHub (any), texts, timestamps, progress events; a chain of
analysis and detection is one thread; a page's queries are its identity.

### KeywordRotation and the code

Every request, fired timer and watchdog pass is a handler that loads the document,
edits its copy (`my[h].doc`, modified paths in `dirty`) and saves. A save writes the
modified paths only. `slots` is always written as a whole array (`markModified`), and
Mongoose then demands the document version it was loaded with and increments it;
`stale` is this version check, and a `$push` (`addSlots`) increments without
demanding. This is behaviour of the library as the code uses it, marked external.
`startSlot` is the loop `SkipSlot`, `TrySlot`, `CreateScan`, `Save`, `AddTimer`, which
catches any error and goes on with the next slot. A fired `advance` job whose process
dies is delivered again (BullMQ's stalled jobs); a request is not. The watchdog's
45 s grace period is the guard `HasJustSaved`: it does not look at a rotation
that a handler has just saved and is still starting.

### GitHubQuota and the code

A step is what `GitHubHttpClient.request` does between two awaits; `pc[j]` names the
gate (budget, concurrency, pace, quota, sleep, request, answer, give back). Redis keys
keep the time left until they expire, so one `Tick` ages all of them and an expired key
is 0. `cache` is each process's copy of a pause (`readPause`), `handed` and `age` are
history: `handed` is the slot last used, `age` how long the pause of a key has been in
force (a pause that is extended counts from the extension, since a copy read before is
older than the extension). Delays of a job (`github-job.utils.ts`) end its attempt and
start it again.

### Findings, RepositoryAnalysis and the code

`run[r]` is one attempt of a detection job; an attempt that timed out goes on beside
the next. The steps of `runDetectionAndPersist` are the awaits: save the finding,
insert evidence, prune, list open findings, resolve each, mark the repository, queue the
alert. `RepositoryAnalysis` adds `upsertRepository`, `decideRescan`, the metadata, the
content and `clearPendingAnalysis`. A version of the repository stands for its commit;
`Shows[v][rules]` is what the rules of that time see in it. `disorder`, `doubled`,
`touched`, `newest` are history: what a property has to exempt, by name.

### ScanProgress, Discovery and the code

`ScanProgress` follows an event from the document it was built from through numbering,
throttle, save, Redis and local fan-out to the reducer of the panel
(`apps/web/src/lib/scan-progress.ts`); timers of a throttle state that was replaced are
`orphans`. `Discovery` has a number for a repository and a range of numbers for a query,
so that "covers" and "splits" are arithmetic; `cursor` is the bookmark of a query, `cut`
what a cap, a cancel or a failure passed over, `raced` what two scans took for new.

### DetectionPipeline, IntentAssessment and the code

Texts are sets of words, and a word carries the one fact a regular expression decides
about it (as a word of its own, inside another, misspelt, matched by pattern p, a
placeholder, a contact). All orders, budgets, thresholds, weights and exemptions are the
code's. `jobs[r]` takes a repository through the pipeline: found by a query, by an audit
or as a branch; content by clone (each grep may time out) or REST; the brand decided on
the content; history; rules, reuse and liveness; contacts added, then stale ones deleted;
score with what is stored of others at that time; the finding saved.

`ReferenceCorpus` is `reference-fingerprint.service.ts` write by write. A removal goes
through the same two deletes as the end of an ingest and is modelled as an ingest of no
files. `IntentAssessment` has the queue's worker and a user's request as two actors:
build the context and look for its hash, ask, record, apply to the finding, and for an
uncertain verdict once more with more context. A rescan in between writes the rules'
score and leaves the source of the score as it is.

## 3. Runs

| Run | Instance | Shows |
|---|---|---|
| `scan_safety` | one query with a second page, two repositories, two attempts, faults before promises and reports (also between a claim and its record), no cancel | `NoPrematureFinish`, `VerdictMatchesCounts`, `OnlyUnrecordedClaimsAreLost`, `TerminalIsFinal`, the refinement `ImplementsContract`, and the inductive `LInv` (which contains `IInv`) |
| `scan_live` | search, watch and backlog scans; faults also after reports; cancel after the fan-out; lost checkpoint updates in a watch | `EventuallyTerminal`, `WatchGoesOn` |
| `scan_pages` | a query with a second page or two halves, all kinds | `EventuallyTerminal` |
| `scan_split` | a split query | `NoPrematureFinish` is violated, see section 6 |
| `rotation_serial` | one handler at a time, four requests of any kind, two keywords in three queues (one with a keyword twice, one with a paused slot), one failure or crash | `OneTimedTurn`, `WindsDown`, `StallIsRecovered`, and the inductive `RotationInv` |
| `rotation_race` | two handlers in every interleaving, two requests and the timers, queues of two keywords and of one | `NoSlotChangeUndone` |
| `quota` | two jobs in two processes, one workspace, a paced and an unpaced resource, seven kinds of answer, one crash, abort or new token | `SlotsCounted`, `BudgetBounded`, `SlotsSpaced`, `PauseSeenInTime` |
| `analysis` | two scans of the default branch of any kind, two versions, two rulesets, one fault | `NothingMissed`, `BacklogKept`, `AlertedOnce`, and the inductive `AnalysisInv` |
| `branch` | a scan of the default branch that may be stopped and one of a side branch, two attempts each, one fault or timeout; one verdict of a user | `EvidenceKept`, `VerdictHolds`, `BranchApart` |
| `progress` | an API process and a worker, one emission each at a time, two counts of work, one crash, lost message or broken stream | `ClientUpToDate`, `EndIsSaved`, `LatestArrives`, `ClientFinishes` |
| `discovery` | two scans, two workers, three repositories, four plans: a split and a bookmark, code search, a cap, failures | `CapKept`, `BookmarkCovers`, `NothingMissed`, `EveryBrandNamed` |
| `rules` | thirteen plans over nine repositories and two brands | `NamedBrandWins`, `NothingReportedTwice`, `ScoreIsFair`, `QueriesKeepToTheScan`, `CorpusIsTheCommit`, `VerdictOnRecord`, `LinksAreWeighed` |

The type invariant of a module is a conjunct of one property of its run (`LInv`,
`RotationInv`, `SlotsCounted`, `AnalysisInv`, `EndIsSaved`, `CapKept`).

Bounds. Two pages or halves are enough for a page to race with its continuation, two
repositories for one to lead to the other and for "some failed, some not"; two
attempts give a retry and a last attempt. Both counters, the verdict and the claims
are covered for more by the proofs. In the rotation, two slots give a turn, a
successor, a wrap-around and an empty queue; one extension (the code allows three)
gives an extension and an exhausted budget; four requests reach start, a change while
running, a stop or a wind-down, and a resume. `Ids` is a pool of ids and tokens reused
when nothing refers to them; it is large enough that no handler ever waits for one.
`MaxRequests`, `MaxLen` and `Ids`, and the guard `~disturbed` in `Throw` and `Crash`, are
bounds, not code. `disturbed` is a history variable: it separates what holds while
handlers come one after another from what also holds when they overlap.

In the quota, intervals, waits and lifetimes of keys are one or two units, in the
relation the defaults have where a property depends on it (`PaceOutlivesWait`); a budget
of one and one slot per workspace make two jobs meet at every gate. In the analysis, two
versions and two rulesets give "changed" and "unchanged", two scans or two attempts
an overlap, one fault a retry (`branch`) or a last resort (`analysis`) at any point. In discovery three repositories in pages of one or two, with a
limit of two results, give a split, a range too narrow to split, a last page and a page
past it. In the rules, every budget (files, matches per pattern, phrases, queries) is
small enough to be exceeded by some repository of the instance; repositories are made
so that every rule, source and pass has something to find and something to leave. Plans
bound what is combined: assessments are asked (`calls`) only where one repository is
scanned, ingests (`ingests`) interleave only with each other or with one scan.
`MaxFaults`, `MaxRounds`, `MaxVerdicts`, `MaxRuleset`, `MaxVersion`, `asked` and `begun` are
bounds.

Deadlock is not checked: a finished scan and a rotation nobody touches do stop.

Fairness. Workers run their jobs and HTTP requests run on once begun (weak fairness
of each thread's steps). A job delayed for quota comes back again and again, and GitHub's
quota windows end, so the steps behind a GitHub call are strongly fair. Delayed jobs
fire and the watchdog's interval comes round. In `ScanProgress` an emission that has
begun goes on, Redis delivers, and the panel's polls and handlers run. Not fair: users,
faults, crashes, quota pauses, the sweep, the end of a scan under a rotation, new events.
The other modules are checked for safety only.

## 4. Proofs

All constants are arbitrary sets and numbers, with the assumptions their modules name and
TLC evaluates on every run. Where a property holds only of a part of the behaviours, the
part is a hypothesis with a name (`Dependable`) or a condition within the property
(`disturbed`, `lapsed`, `PaceOutlivesWait`), and section 6 shows what happens without it.

### The scan

Assumptions: `ConstantsOK` (finite sets, shapes) and `JobForest` (job ids are built from
query and page, so no page has two parents).

* `TypeCorrect` (`ScanSafetyProofs`): `Spec => []TypeOK`, for every kind of scan, with all
  faults, cancels and lost updates.
* `InvariantHolds`, `NeverFinishesEarly` (`ScanSafetyProofs`): `IInv`, and from it
  `NoPrematureFinish`.
* `LedgerHolds`, `VerdictIsRight`, `NothingLostOrDoubled`, `VerdictIsFinal`,
  `ScanKeepsContract` (`ScanContractProofs`): `LInv`, and from it
  `VerdictMatchesCounts`, `OnlyUnrecordedClaimsAreLost`, `TerminalIsFinal` and the refinement
  `ImplementsContract`.

All but the first are theorems `Dependable /\ Spec => ...`. `Dependable` names what the
code must be spared: no cancel, no split, one attempt of the orchestrator, no write
between a checkpoint's read and its save, throws only before something is promised
or reported, and an attempt that ends where it throws. The last is a limit of the model:
`withJobTimeout` (`queues/queue.utils.ts:85`) fails the attempt while its work goes on
beside the retry, and a scan in which that happens is not dependable. A throw between a
claim and its record is allowed: the code then finishes without that repository, so
`NothingLostOrDoubled` says only that no other claim is lost and none is counted twice.

`NoPrematureFinish` is not inductive: a `finalize` in progress has decided already.
`IInv` adds that both counters are the cardinalities of what is owed
(`CountersCount`), that each page and repository is promised once (`PagesPromisedOnce`,
`CarriedOnce`), that nothing is owed while a finalize is between its decision and its
save or the scan is over (`FinishedWhenDrained`), that nothing exists before the fan-out
(`PlanningIsQuiet`) and that the cancel's labels are not reached (`NoCancel`). Steps are
proved in groups: those that promise and report nothing (`NothingNew`), those that
claim or promise (`RepoClaimed`, `RepoRecorded`, `PageCredited`), hand over what was
promised (`RepoEnqueued`, `PageEnqueued`), report (`PageReported`, `UnitReported`), finalize (`Finalized`), and the
orchestrator's. With one unit fewer or more, cardinality facts about finite sets give the
counter.

The verdict needs more. A finalize computes it on counts it read earlier, several do so
at once, and only one that differs from the status it read writes. `LInv` adds the
ledger (`LedgerBalances`: the claims are what is completed, what is owed, what is between
claim and record (`Unrecorded`) and what was `lost` there, no two of these meet, and
`processed` is the number of the completed, so it stands still once nothing is owed) and
`VerdictSettled`: every finalize between its read and its save has the verdict of
today's counts, and so has the status once it is terminal. Hence a late save writes what
is there, which is `TerminalIsFinal`. For the refinement, `phaseBar` and `owedBar` map
the counters' owners to the contract's owed work; the two reports map to its `Report`,
records and credits to `Promise`, claims to nothing, the first save of a verdict to `Finish`, a failed
orchestrator to `Abort`, and all other steps to a stutter.

### The quota

Assumptions: `QuotaConstantsOK` (finitely many jobs, at least one; a budget of 0 is
allowed); any number of processes, workspaces, resources.

* `QuotaHolds`: `Spec => []QInv`. Its parts besides types and the counters: which gates a
  job can still be at with what in hand (`WaysOut`), a counter that counts has time to
  live (`CountersLive`), the pace's key remembers the last slot until it is an interval
  old (`PaceRemembers`), and a cached pause that ends before the real one was read
  before that came into force (`CacheIsYoung`).
* `SlotsAreCounted`: `SlotsCounted`. The counter is the cardinality of the requests that
  run; each gate adds or removes one job.
* `BudgetIsBounded`: `BudgetBounded`. The budget used and the requests between the
  check and the count stay below the limit and the number of jobs: a job joins those
  only when the count it read is below the limit.
* `SlotsAreSpaced`: `SlotsSpaced`, an action property. A slot is handed out behind the one
  the key holds; with `PaceOutlivesWait`, the key cannot have expired while that slot is
  less than an interval old.
* `PauseIsSeen`: `PauseSeenInTime`, from `CacheIsYoung`.

### The rotation

Assumptions: `RotationConstantsOK`; any number of handlers, keywords, slots, requests.

* `RotationHolds`: `Spec => []RotationInv`.
* `OneTurnAtATime`: `Spec => []OneTimedTurn`.
* `NothingUndone`: `Spec => NoSlotChangeUndone`, an action property.

`RotationInv` has two halves, one for each property. For `NoSlotChangeUndone`, `CopyOf`
says of every handler's copy that is not `stale` how its queue differs from the
document's: not at all unless it has modified the slots, and then only by what its own
request asked for (`MayBecome`). A save that passes Mongoose's version check is one of a
copy that is not stale, and a save of another handler makes it stale, so no case is left
in which two edits meet. For `OneTimedTurn`, `Alone` says that until handlers overlap or
one fails there is one handler, whose copy is the document but for the paths in `dirty`,
and `Phase` says for each label what there is of the turn (scan, timer, slot) and which
of the two documents names it: until the cancel the saved
document, from the new scan on the copy. The
property itself speaks only of rest and of second scans; `Phase` is the proof that the
seven steps from the end of one turn to the timer of the next fit together.

### Discovery

Assumptions: `DiscoveryConstantsOK`; any number of scans, workers, repositories, plans.

* `DiscoveryHolds`: `Spec => []DiscoveryInv`.
* `CapIsKept`: `CapKept`. Every job reads the total before it claims, so the cap is overrun,
  but by no more than the other jobs: `ScanSound` counts the claims together with the jobs
  that are about to claim, and a job joins those only while the total it reads is below.
* `BookmarksCover`: `BookmarkCovers`. A bookmark is put by whichever scan comes last, on
  pages it was given by a checkpoint, a split or a page before. `JobSound` says that a page
  is asked for only when those before it are through, `WorkSound` that a job's page is
  covered but for what the job still has in hand, `PagesDone` the same of the copies of
  bookmarks in checkpoints and jobs. With these, a save of any of them covers.

* `NothingIsMissed`: `NothingMissed`. `EveryBrandIsNamed`: `EveryBrandNamed`.

All hold with failures, retries, cancels and any order of the scans.

The last two are about rest, and about a tree of queries of any depth. `PagingInv` says of
every job that is over, of a scan that is `Clean`, that its page is covered and that it was
`Followed`: it has split its query and handed both halves down (`SplitsHanded`), or added
the page behind it, or nothing lies behind. At rest no job is pending, so this holds of every
job. From there on it is arithmetic. The ranks of a query's results are a bijection onto
1 to their number, so each result that GitHub returns is on one page, a page before the last
is full, and a chain of pages that was followed to its end has seen all of them. A query
that was split has its results in its halves or in its languages, which are smaller
(`Size`); so of the queries that would have a result left out take the smallest: it cannot
have been split, and then the result is out of reach. Well-foundedness of the numbers stands
in for an induction over the tree. `NamingInv` is the same for the names: what a scan
has dealt with names its brand, is being recorded, was passed over, or was raced, since a
`Record` that loses a name is one of two that took the repository for new.

The assumptions these need beyond types are the code's: a result has one of the languages
a query is split by or none of them; code queries carry no language (the filters of
`GITHUB_SEARCH_LANGUAGE` go to repository queries only, `query-families.ts:665-711`); a
range that is split is at least two wide (60000 ms, 16 bytes).

The proofs corrected the model twice. The number of pages GitHub gives is `MaxResults`
divided by the batch, rounded up: the bound in the types was one less where it does not
divide. And `NothingMissed`, as it was, does not hold of every instance:
`OutOfReach` now exempts what GitHub does not return of a query that was not split, and section
6 says how a scan comes to leave one unsplit.

### The progress stream

Assumptions: `ScanProgressConstantsOK`; any number of processes, emissions, units of work.

* `ProgressHolds`: `Spec => []ProgressInv`.
* `UpToDate`: `ClientUpToDate`, which exempts a client one of whose events was lost: that takes
  no failure, an event that another process publishes between the snapshot and the answer
  to the subscription is enough (section 6). `ClientSound` says of a stream past its snapshot that it has
  told the latest event, or that this is on its way: being published, in Redis, or about to
  be fanned out locally. `NumbersSound` is why an event is taken for the echo of another
  only when it is: numbers are drawn once, and `published` is one of the own.
* `EndSaved`: `EndIsSaved`. An end is forced, so neither a throttle nor an orphaned timer ever
  holds one (`EndSound`); it is saved or in the hands of an emission that will save it.
* `LatestSaved`: `LatestArrives`. While emissions come one after another (`SerialSound`), the one
  in flight, or else the one message a throttle holds back, carries the present count.

For the last, an emission overlaps when one begins while another is in flight or while
another process or an orphaned timer has a message pending. `Begun` counted only the first
as long as each process has one emission; the proof asked for the others.

### Analysis and findings

Assumptions: `FindingsConstantsOK`; any number of scans, branches, attempts, versions,
rulesets, failures and verdicts.

* `AnalysisHolds`: `Spec => []AnalysisInv`.
* `BacklogIsKept`, `NothingIsMissed`, `AlertedIsOnce`: the invariants `BacklogKept`,
  `NothingMissed`, `AlertedOnce`.
* `EvidenceIsKept`, `VerdictsHold`, `BranchesApart`: the action properties `EvidenceKept`,
  `VerdictHolds`, `BranchApart`.

`NothingMissed` speaks of one moment, when the mark on the document names the head and the
present rules; `AnalysisInv` follows how it comes to. `ContentSound`: what is analysed is not
older than the commit asked for before, and what an attempt found is what its content shows.
`StoringAlone`: unless `disorder` was recorded, one attempt of the default branch stores at a
time, and what it stores is of the newest version. `MarksSound`: every mark that names the
newest version and the present rules, in the document or in the hands of an analysis that
read it earlier and may skip for it, is one the findings agree with, and an attempt that
has listed the open findings will close all others. `AgesSound`: no mark names a version
or ruleset that has not been. `OneWayThrough` and `RunSound` are the order of the steps,
`BacklogSound` and `AlertSound` say where a repository, and an alert, is on its way.

`BacklogKept` needs that an attempt that completes its unit has marked the repository
before (`RunSound`); `AlertedOnce` that an attempt that announces a finding still has all of
its steps to the alert before it. `EvidenceKept`, `VerdictHolds` and `BranchApart` follow step by
step from the types, `RunSound` and `StoringAlone`.

The proofs corrected the properties. `VerdictHolds` had blamed only an attempt that had
listed the finding; one that looked it up as resolved re-opens it as well, and TLC shows
that on the instance of `branch`. `NothingMissed` had been stated only at rest and holds at any
time. `EvidenceKept` had exempted any overlap on a side branch and now names the attempt.

### Pipeline, corpus and second opinions

Assumptions: `PathsAssumption` (a commit has one file of each path, and the path decides
whether a file is of the kind that is fingerprinted, as in `ClassifyContentFile`'s code),
`ListsAssumption`, `RepositoriesAssumption`, `LimitsAssumption`, `BudgetAssumption`,
`CapsAssumption` and `ProvidersAssumption`; any repositories, brands, plans, answers.
`RepositoriesAssumption` is the shape of the data: there are finitely many repositories, each has
a version; files, lines, commits and patches are lists; a line and a description have
finitely many words; a file's kind is one of those ranked. The limits, budgets and caps are
natural numbers. `ListsAssumption` says that there is a brand, that its keywords are a list, and
that the files and phrases of the reference are sequences: the library
defines `SelectSeq` and `SortSeq` in a form the provers cannot open, so for the corpus this much
is assumed of the constants and evaluated by TLC. What an analysis reads is selected with
`Sorted` and `Those`, which they can open, and nothing of that kind is assumed there.

* `VerdictsAreOnRecord`: `Spec => []VerdictOnRecord`, from `VerdictInv`. Scans, users and two
  assessors write the same findings. `Listed`: the finding of given rules is unique, so a scan
  that writes it and an assessor that applies to it mean the same one. `ShownSound`: a verdict
  a finding shows is one on record. `AppliesRecorded`: who is about to apply a verdict has
  recorded it. `Settled`: unless two were at it or one broke off, the latest on record is the
  one shown or the one in hand. A rescan may replace the score, never the verdict.
* `CorpusIsReplaced`: `Spec => []CorpusIsTheCommit`, from `CorpusInv`. `Progressed` says for each
  write of an ingest what of its commit is in the corpus and what else may still be there;
  an ingest of another commit that writes in between takes `undisturbed` from the first.
  The folds over files and phrases are handled by what a fold has collected so far.
* `NamedBrandIsChosen`: `Spec => []NamedBrandWins`, from `AttributionInv`. `FindBestBrandMatch` is a
  fold that keeps the better of two; its invariant along the list (`FoldIs`) gives that no
  brand beats the one returned (`BestIsFound`), and a location that names beats one that mentions.
* `NothingIsReportedTwice`: `Spec => []NothingReportedTwice`. `ReadInv`: from the fetch to the end
  of an analysis what it has read is in lists, also after a retry or a crash took the
  repository up again. The places of an order are a bijection onto what is ordered
  (`PlacesAre`, `AscendingIs`), so that what is selected, filtered or flattened is a list
  (`ThoseListed`, `FlatWalks`). The first pass keeps to the budget of a pattern, as the counts
  of concatenated lists add up (`ConcatCounts`, `SampleKeepsBudget`). For the second the folds over lines and
  patterns are followed step by step (`FoldWalks`): `Fair`, which says that nothing has been
  repeated and no budget exceeded, holds of the empty list and is kept by each append.

* `ScoresAreFair`: `Spec => []ScoreIsFair`, from `FairInv`: from the moment a brand is chosen to
  the score, whatever an analysis has detected is a list of detections believed to 0 to 100
  percent and worth 0 to 45 points (`AreWeighed`), and the findings and phrases it is compared
  with are finite. Every rule is shown to report only such (`AnalyzeWeighed`, and the passes
  for secrets, reuse and liveness). By itself the n-th strongest of one rule counts 0.6 to the
  power of n - 1 of its points, rounded (`DecayedIs`); with at most 25 points that is 25, 15, 9, 5, 3,
  2, 1, 1 and nothing from then on, and as no two of a rule have the same rank
  (`RanksAre`), any number of them come to 61 at most (`CappedSum`), below the 85 of a critical
  score. Without a malicious intent only bonuses are added to the points, and none of them is
  negative (`ScoreTakesNothing`).

The proofs corrected the model here too. An analysis that was broken off was started again
with a second reading of the history although its content was still that of the first;
`Crash` now goes back to what had been read. `NamedBrandWins` holds from the moment
the content is there until the history is read, which may add a stronger mention, and says so.

### How the inductive invariants were checked

TLC checks `LInv` (which contains `IInv`), `RotationInv` and `AnalysisInv` on every run of
`scan_safety`, `rotation_serial` and `analysis`. The others were checked by adding them to the `.cfg`
of their module as an INVARIANT: `QInv` to `quota`, `DiscoveryInv`, `PagingInv` and `NamingInv` to
`discovery`, `ProgressInv` to `progress`, `VerdictInv`, `CorpusInv`, `AttributionInv`, `ReadInv` and
`FairInv` to `rules`, `RotationInv` also to `rotation_race`, `AnalysisInv` also to `branch`. They are not part of these
runs, because the properties that follow from them are.

### Only model-checked

Liveness (`EventuallyTerminal`, `WatchGoesOn`, `WindsDown`, `StallIsRecovered`,
`ClientFinishes`) is out of TLAPS's reach here. Of `rules`, two properties are only checked on the
instance. `QueriesKeepToTheScan` is about what is left of lists ordered and cut by the library's
sort, which the provers cannot open. `LinksAreWeighed` does not hold for every value of the
limits: a file that holds a contact and is beyond those that are read links nobody. The scan's theorems assume `Dependable`;
with cancels, splits and late faults the scan is model-checked only (`scan_live`,
`scan_pages`). No module has a recursive operator, so that all can be proved about.

## 5. Plan

1. The scan with cancels and late faults: an inductive invariant for what of
   `TerminalIsFinal` and `NoPrematureFinish` then still holds.
2. The contract of the quota's concurrency gate as an abstract specification, refined.

## 6. Where the code and its words disagree

* `scan_split`: halves of a split query are enqueued before they are counted, so the
  scan can be finalized with a half outstanding.

Scan lifecycle and rotation, met while modelling (the steps are in the modules, the
runs leave out or exempt the case):

* markRunning, markFailed, markCompletedEarly and finalize's save replace a terminal
  status written meanwhile (`scan-state.service.ts:75`; `enums.ts:75` says "never
  legitimately goes back").
* A retried orchestrator sets the counter to its number of queries, whose jobs have
  already run; the scan waits for ever (`scan-state.service.ts:170`, 413-414).
* `saveCheckpoint` drops a claim made since it read the checkpoint; the repository is
  claimed and counted again (`incremental-scan.service.ts:65`, "once per scan", 120).
* A slot change saved while `advance` is in flight makes each of its saves fail; the
  error is swallowed and the rotation stays on with nothing running, in a state the
  watchdog's query does not match (`keyword-rotation.service.ts:662`, 107-111).
* An await that throws between a claim and its record (`github-search.processor.ts:322`, 385;
  `discovery-expansion.service.ts:200`, 210) leaves a repository that the retry finds claimed
  and skips: the scan is COMPLETED without it. One that throws between the record and the
  job leaves a count that nobody gives back: the scan stays RUNNING.
* A backlog is enqueued before it is counted; a page or a detection that throws
  after its report counts twice; a continuation or split that is retried is credited
  twice; a watch can get two successors from concurrent finalizes; cancelling a FAILED
  scan may turn it COMPLETED.

Quota: the pace key can expire before the slots it handed out where the longest wait is
over three intervals (the defaults for search); after a new token the old one's
`code_search` snapshot stays; a job refused a slot is delayed until the latest pause of
any resource (`github-rate-limit.store.ts:180`, 255-260); retries bypass pacing; a late
answer with plenty left clears a newer pause and replaces a longer one; the budget counts
requests, not retries; a workspace called "global" shares the global counter.

Analysis and findings: dates are read before the content, so a retry with no head commit
takes a changed repository for unchanged; a scan of the default branch resolves findings
of side branches (`scan-pipeline.service.ts:983-992`); an alert is lost when the job
throws between the save and `enqueueAlert`, and a new finding stays without evidence when
its last attempt throws before `insertMany` (1307-1309 says it "must not"); a user's false
positive is undone by an attempt that listed the finding as open before, or looked it up as
resolved (1222-1277; 1237-1240 says it "must not auto-reopen"); a
repository found to be new is saved as pending after another scan has analysed it; a
stopped scan takes a repository out of the backlog; a job that timed out goes on. The
branch of `decideRescan` for failed repositories is never reached.

Progress: `stop()` ends the stream before the terminal event is passed on (comment
119-121); an event that another process publishes between the snapshot and Redis' answer to the
subscription is lost, without any failure (`scan-progress.service.ts:103-148`); a straggler after the end sets `progressTerminal` back; saves in another order leave an
older count (`docs/PROJECT_REPORT.md:527` says the latest always arrives).

Discovery: a cancel or the cap in the middle of a page still saves the bookmark; two
scans that take a repository for new overwrite each other's brand; a claim whose job dies
is never recorded by that scan; `checkpoint.searchCursors` is written from a stale copy;
`maxQueries` is spent brand by brand, trusted accounts last, and with "or" can fall between
a query's two date alternatives (contrary to `scan-pipeline.service.ts:206`). A retried
orchestrator asks for page 2 of a query whose page 1 was split (it takes the checkpoint's page
and adds one, `scan-orchestrator.processor.ts:715-727`, and only page 1 splits), although "this
original query must NOT also keep paging itself" (`github-search.processor.ts:219-227`). That
page puts a bookmark, a later scan continues behind it and does not split, and what the first
scan's halves did not reach beyond GitHub's limit stays unseen.

Rules: a README is read twice and its secrets are reported twice (`detection.engine.ts:73`);
multi-line patterns (private keys, certificates, service accounts) are matched line by
line and never match over REST; the history scan and the clone use other limits than
the sample; the entropy pass is never skipped, though a comment says so; a deployment
signal counts as malicious intent, so a leak in a popular repository with a deploy file
loses points; `.npmrc` and `id_rsa` are ranked but filtered out before; an exact match in
a weak place is preferred as evidence to a fuzzy one in a strong place; a live
destination that goes down changes a finding's identity; a branch is scored as a
repository with no stars created today (`branch-analysis.processor.ts:85`);
`getOperatorContext` counts the brand at hand among the "different" brands (728-735).

Reference corpus: an ingest stores the hashes of placeholders, which
`known-secret.util.ts:10-19` says it does not, so the same placeholder elsewhere is a
critical reuse; overlapping ingests of different commits can leave phrases without files
or drop newer files, and a crash between the two prunes leaves phrases of deleted files.

Assessment: a rescan writes the rules' score while `scoringSource` stays "ai"
(`finding.schema.ts:88-104` says the AI's score holds); the context that is hashed holds
the score and severity, so a completed assessment makes the next request a new one
(`intelligence.service.ts:444-450`); an assessment found by its hash is not applied again
after a rescan; a crash between record and update loses the verdict; two assessments of
one finding may be applied in the other order than recorded.

Web client: "Start" in `KeywordScheduleQueue.tsx` replaces the whole rotation by what the
last poll showed, so that a slot added elsewhere in between is deleted.

## 7. Not modelled

Of modelled components: the contributors and an analyst's agreement in the assessment,
its prompts and the cap on the deep context's length; promotion of keywords by the
expansion; tags, lists and statistics; child processes and temporary directories of
clones; quoting and wording of queries; texts and percentages of progress events.
How a regular expression finds what it finds, how a text is tokenised, hashed or
normalised is data: the models take it as a fact about a word or a line.

Coarser than the code, where no property tells the difference:

* A step that stands for several awaits: what an answer's headers change in the quota, and
  the deletion of an expired secondary pause (`github-rate-limit.store.ts:112-137`, 348-358);
  `markFailed` and the unit's report after it (`detection-processing.processor.ts:212-239`,
  `repository-analysis.processor.ts:319-328`), so a crash between the two is not in
  `BacklogKept`; the writes that record a discovery (`github-search.processor.ts:358-431`) and
  the two saves of a bookmark (442-478); the hashes and the fingerprints that are upserted
  one by one; the look-up and the save of a finding and the request for its assessment
  (`scan-pipeline.service.ts:1222`, 1277).
* What an attempt that timed out still does beside its retry (`withJobTimeout`): only detection
  jobs overlap like that, in `Findings`.
* Inputs that do not change: what is found in a version depends on the ruleset alone, not on
  brands, keywords or a corpus edited between two scans. A failing first poll or `SUBSCRIBE`
  of the panel, the forced full search, the failures in the checkpoint of FAILED_ONLY, and
  the completion of a cancelled branch job (`branch-analysis.processor.ts:163-185`) are left
  out; so are failed assessments and the date of a deep review.
* Data: halves of a range of dates are exact, though GitHub counts in seconds; a line holds
  one known credential of each pattern.

What properties exempt is named in their comments: a client whose event was lost
(`ClientUpToDate`), duplicate alerts after a fault (`AlertedOnce`), attempts that overlap
(`EvidenceKept`, `LatestArrives`), a verdict the attempt had read around (`VerdictHolds`), ends
overtaken by a later event (`EndIsSaved`), scans that were cut, hurt or raced (discovery), and a
key of the pace that outlives the wait (`SlotsSpaced`).

As a whole: credential verification (calls to providers, no shared state), workspaces,
users, authentication, brands, keywords and tracked users (single documents), dashboard,
health, seed and migrations, and the pages and forms of the web client. They have no
concurrency of their own beyond single updates. TLC cannot bound what durations would
show: outside of `GitHubQuota` timers may fire at any time, which includes every duration.
