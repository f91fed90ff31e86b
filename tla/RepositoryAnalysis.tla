------------------------- MODULE RepositoryAnalysis -------------------------
(***************************************************************************)
(* How a scan comes to analyse a repository that changes on GitHub, or to  *)
(* skip it: discovery, the backlog of repositories that wait for their     *)
(* analysis, the decision from the commit and the ruleset last processed,  *)
(* the content handed to the detection job.  Composed with Findings, which *)
(* takes it from there.                                                    *)
(*                                                                         *)
(* Abstracted: a version of the repository stands for its head commit and  *)
(* its dates; brand matching, the owner's profile, history and enrichment  *)
(* only add to what the rules see.  An attempt that is timed out stops at  *)
(* its next request (the signal is aborted), and is taken to have thrown.  *)
(***************************************************************************)
EXTENDS Findings

CONSTANT Kinds     \* the kinds of scan: search, backlog, retry, reanalyze, branch

VARIABLES
  head,         \* GitHub: the current version
  analysis,     \* the analysis job of each scan
  discovering,  \* has a search that only discovers found the repository to be new?
  swallowed     \* history: was a failed request ever taken for an empty answer?

vars == <<findingVars, head, analysis, discovering, swallowed>>

Stage == {"none", "queued", "head", "skip", "skipped", "store", "fetch", "enqueue", "failing",
          "ended"}

NoRepo == [known |-> FALSE, pending |-> FALSE, success |-> FALSE, failed |-> FALSE,
           sha |-> 0, dates |-> 0, ruleset |-> 0]
Unseen == [at |-> "none", kind |-> "none", attempt |-> 1, ruleset |-> 0, dates |-> 0,
           sha |-> 0, content |-> 0, existing |-> NoRepo]

TypeOK ==
  /\ FindingsTypeOK
  /\ head \in 1 .. MaxVersion /\ discovering \in BOOLEAN /\ swallowed \in BOOLEAN
  /\ analysis \in [Scan -> [at : Stage, kind : Kinds \cup {"none"}, attempt : Attempt,
                           ruleset : 0 .. MaxRuleset, dates : Version, sha : Version,
                           content : Version, existing : Repository]]

Init ==
  /\ FindingsInit
  /\ head = 1 /\ analysis = [s \in Scan |-> Unseen]
  /\ discovering = FALSE /\ swallowed = FALSE

outside == <<head, analysis, discovering, swallowed>>

-----------------------------------------------------------------------------
(* How a scan comes by the repository.                                     *)

\* FAILED_ONLY, ANALYZE_PENDING, REANALYZE_EXISTING: the orchestrator forces them, and
\* their payload is the repository's document.  (A FULL or forced search does so too, and
\* FAILED_ONLY takes the failures in its checkpoint as well: not modelled.)
Forced(kind) == kind \in {"backlog", "retry", "reanalyze"}
InBacklog(kind) ==
  CASE kind = "backlog"   -> repo.known /\ repo.pending
    [] kind = "retry"     -> repo.known /\ repo.failed
    [] kind = "reanalyze" -> repo.known /\ ~repo.pending
    [] OTHER              -> FALSE

\* A search that only discovers passes over a repository that is known; one that it
\* found to be new it saves as new, whatever has become of it since.
FindNew ==
  /\ ~repo.known /\ ~discovering /\ discovering' = TRUE
  /\ UNCHANGED <<findingVars, head, analysis, swallowed>>

Discover ==
  /\ discovering /\ discovering' = FALSE
  /\ repo' = [repo EXCEPT !.known = TRUE, !.pending = TRUE, !.dates = head]
  /\ UNCHANGED <<job, unit, run, finding, evidence, alerts, queue, creating, verdict, cancelled,
                 faults, ruleset, touched, newest, disorder, doubled, head, analysis, swallowed>>

\* The repository's analysis job is added, by a search, an expansion or an orchestrator.
Assign(s, kind) ==
  /\ analysis[s].at = "none" /\ BranchOf[s] = Default
  /\ kind \in Kinds /\ (kind = "search" \/ InBacklog(kind))
  /\ analysis' = [analysis EXCEPT ![s] = [Unseen EXCEPT
       !.at = "queued", !.kind = kind, !.ruleset = ruleset,
       !.dates = IF kind = "search" THEN head ELSE repo.dates]]
  /\ UNCHANGED <<findingVars, head, discovering, swallowed>>

\* startBranchAnalysis, and BranchAnalysisProcessor up to its detection: the clone is of
\* the branch, or the job fails; there is no other source for a branch.
AnalyseBranch(s) ==
  /\ BranchOf[s] # Default /\ job[s].state = "none" /\ repo.known
  /\ job' = [job EXCEPT ![s] = [NoJob EXCEPT !.state = "queued", !.content = 1]]
  /\ UNCHANGED <<repo, unit, run, finding, evidence, alerts, queue, creating, verdict, cancelled,
                 faults, ruleset, touched, newest, disorder, doubled, outside>>

-----------------------------------------------------------------------------
(* RepositoryAnalysisProcessor.                                            *)

Stay(s, stage) == analysis' = [analysis EXCEPT ![s].at = stage]
Return(s) == analysis' = [analysis EXCEPT ![s] = [Unseen EXCEPT !.at = "ended"]]
StoreUntouched == UNCHANGED <<job, run, finding, evidence, alerts, queue, creating, verdict,
                              cancelled, ruleset, touched, newest, disorder, doubled, head,
                              discovering>>

\* The checks at the entry, and findByGithubId.
Look(s) ==
  /\ analysis[s].at = "queued"
  /\ \/ /\ s \in cancelled
        /\ unit' = [unit EXCEPT ![s] = IF @ = "open" THEN "completed" ELSE @]
        /\ Return(s)
     \/ /\ s \notin cancelled /\ unit[s] # "open"
        /\ Return(s) /\ UNCHANGED unit
     \/ /\ s \notin cancelled /\ unit[s] = "open"
        /\ analysis' = [analysis EXCEPT ![s].at = "head", ![s].existing = repo]
        /\ UNCHANGED unit
  /\ StoreUntouched /\ UNCHANGED <<repo, faults, swallowed>>

\* As if the rules that were applied did not matter.
UnchangedOldRules(forced, existing, rules, sha, dates) ==
  /\ ~forced /\ existing.known /\ existing.success /\ ~existing.failed /\ existing.sha # 0
  /\ sha = existing.sha \/ (sha = 0 /\ dates = existing.dates)

\* decideRescan, where it says not to analyse.  sha 0: the head could not be read; then
\* the dates are those of the scan's own payload.
UnchangedSince(forced, existing, rules, sha, dates) ==
  /\ ~forced /\ existing.known /\ existing.success /\ ~existing.failed
  /\ existing.ruleset = rules /\ existing.sha # 0
  /\ sha = existing.sha \/ (sha = 0 /\ dates = existing.dates)

\* The head, by git or by REST; an error that is no quota error is no answer.
AskHead(s) ==
  /\ analysis[s].at = "head"
  /\ \E sha \in {0, head} :
       LET a == analysis[s]
           skips == UnchangedSince(Forced(a.kind), a.existing, a.ruleset, sha, a.dates)
       IN /\ analysis' = [analysis EXCEPT ![s].at = IF skips THEN "skip" ELSE "store", ![s].sha = sha,
                      ![s].existing = IF skips THEN @ ELSE NoRepo]
          /\ sha = 0 => faults < MaxFaults
          /\ faults' = faults + (IF sha = 0 THEN 1 ELSE 0)
          /\ swallowed' = (swallowed \/ sha = 0)
  /\ StoreUntouched /\ UNCHANGED <<repo, unit>>

Skip(s) ==
  /\ analysis[s].at = "skip"
  /\ LET a == analysis[s] IN repo' = MarkSuccess(a.existing.sha, a.ruleset, a.dates)
  /\ Stay(s, "skipped")
  /\ StoreUntouched /\ UNCHANGED <<unit, faults, swallowed>>

CompleteSkipped(s) ==
  /\ analysis[s].at = "skipped"
  /\ unit' = [unit EXCEPT ![s] = IF @ = "open" THEN "completed" ELSE @]
  /\ Return(s)
  /\ StoreUntouched /\ UNCHANGED <<repo, faults, swallowed>>

\* The metadata, with the dates, before any content has been seen.
StoreMetadata(s) ==
  /\ analysis[s].at = "store"
  /\ repo' = Upsert(analysis[s].dates) /\ Stay(s, "fetch")
  /\ StoreUntouched /\ UNCHANGED <<unit, faults, swallowed>>

\* fetchRepositoryContext: a clone of what is there now, or REST requests whose failures
\* are empty answers.
Fetch(s) ==
  /\ analysis[s].at = "fetch"
  /\ \E complete \in BOOLEAN :
       /\ analysis' = [analysis EXCEPT ![s].at = "enqueue",
            ![s].content = IF complete THEN head ELSE 0]
       /\ complete \/ faults < MaxFaults
       /\ faults' = faults + (IF complete THEN 0 ELSE 1)
       /\ swallowed' = (swallowed \/ ~complete)
  /\ StoreUntouched /\ UNCHANGED <<repo, unit>>

\* As if the commit were asked for once the content is there.
EnqueueDetectionAtHead(s) ==
  /\ analysis[s].at = "enqueue"
  /\ LET a == analysis[s] IN
     job' = [job EXCEPT ![s] = [NoJob EXCEPT !.state = "queued", !.content = a.content,
                                !.sha = head, !.dates = a.dates, !.ruleset = a.ruleset]]
  /\ Return(s)
  /\ UNCHANGED <<repo, unit, run, finding, evidence, alerts, queue, creating, verdict, cancelled,
                 faults, touched, newest, disorder, doubled, head, discovering, ruleset,
                 swallowed>>

EnqueueDetection(s) ==
  /\ analysis[s].at = "enqueue"
  /\ LET a == analysis[s] IN
     job' = IF job[s].state # "none" THEN job
            ELSE [job EXCEPT ![s] = [NoJob EXCEPT !.state = "queued", !.content = a.content,
                                     !.sha = a.sha, !.dates = a.dates, !.ruleset = a.ruleset]]
  /\ Return(s)
  /\ UNCHANGED <<repo, unit, run, finding, evidence, alerts, queue, creating, verdict, cancelled,
                 faults, touched, newest, disorder, doubled, head, discovering, ruleset,
                 swallowed>>

\* The catch clause: a scan that was stopped meanwhile completes its unit; otherwise
\* the job is tried again, or gives up.  (A fault may last for all attempts, and is
\* counted once.)
ThrowAnalysis(s) ==
  /\ analysis[s].at \in {"head", "skip", "skipped", "store", "fetch", "enqueue"}
  /\ \/ faults < MaxFaults /\ faults' = faults + 1
     \/ analysis[s].attempt > 1 /\ UNCHANGED faults
  /\ IF s \in cancelled
       THEN /\ unit' = [unit EXCEPT ![s] = IF @ = "open" THEN "completed" ELSE @]
            /\ Return(s)
       ELSE /\ UNCHANGED unit
            /\ IF analysis[s].attempt < MaxAttempts
                 THEN analysis' = [analysis EXCEPT ![s].at = "queued", ![s].attempt = @ + 1,
                                    ![s].existing = NoRepo, ![s].sha = 0, ![s].content = 0]
                 ELSE Stay(s, "failing")
  /\ StoreUntouched /\ UNCHANGED <<repo, swallowed>>

\* The catch of the last attempt: markFailed and then the unit's report, taken together.
GiveUpAnalysis(s) ==
  /\ analysis[s].at = "failing"
  /\ repo' = MarkFailed(analysis[s].dates)
  /\ unit' = [unit EXCEPT ![s] = IF @ = "open" THEN "failed" ELSE @]
  /\ Return(s)
  /\ StoreUntouched /\ UNCHANGED <<faults, swallowed>>

\* Someone pushes to the repository; the workers are deployed with new rules.
Push ==
  /\ head < MaxVersion /\ head' = head + 1
  /\ UNCHANGED <<findingVars, analysis, discovering, swallowed>>
Deploy ==
  /\ \A r \in Run : run[r].at \in {"none", "over"}      \* a worker is closed between attempts
  /\ ruleset < MaxRuleset /\ ruleset' = ruleset + 1
  /\ UNCHANGED <<repo, job, unit, run, finding, evidence, alerts, queue, creating, verdict, cancelled,
                 faults, touched, newest, disorder, doubled, outside>>

AnalysisWork(s) ==
  \/ Look(s) \/ AskHead(s) \/ Skip(s) \/ CompleteSkipped(s)
  \/ StoreMetadata(s) \/ Fetch(s) \/ EnqueueDetection(s) \/ GiveUpAnalysis(s)

Next ==
  \/ FindNew \/ Discover \/ Push \/ Deploy
  \/ \E s \in Scan : AnalysisWork(s) \/ ThrowAnalysis(s) \/ AnalyseBranch(s)
  \/ \E s \in Scan, kind \in Kinds : Assign(s, kind)
  \/ FindingsNext /\ UNCHANGED outside

Spec == Init /\ [][Next]_vars

-----------------------------------------------------------------------------
(* Properties.                                                             *)

Active(s) == analysis[s].at \notin {"none", "ended"}
AtWork(s) == job[s].state \notin {"none", "ended"}
Quiet == \A s \in Scan : /\ ~Active(s) /\ ~AtWork(s)
                         /\ \A n \in Attempt : run[<<s, n>>].at \in {"none", "over"}

Exists(f) == finding[f] # "none"
Reported == {f \in Fingerprint : f.branch = Default /\ finding[f] \in {"open", "acknowledged"}}

\* What is found on display, but for users' verdicts, is what a version shows.
Agrees(version) ==
  LET ofVersion == {f \in Fingerprint : f.branch = Default /\ f.rules \ LiveRules = Shows[version][ruleset]}
  IN /\ Reported \ touched \subseteq ofVersion
     /\ Shows[version][ruleset] # {} => \E f \in ofVersion : Exists(f)

\* A repository whose mark says "processed at this commit, with these rules" will be
\* skipped by every later scan: so its findings must be what this commit shows.  At any
\* time, unless a request's failure was taken for an empty repository or two analyses
\* stored at once, every finding on display (but for a user's verdict) is of the head,
\* and what the head shows has been found (decideRescan, runDetectionAndPersist, and the
\* marks of upsertRepository).
NothingMissed ==
  (~disorder /\ ~swallowed /\ repo.sha = head /\ repo.ruleset = ruleset) => Agrees(head)

\* A repository leaves the backlog of those that wait for an analysis when one begins:
\* it never drops out of every list.  It is analysed, or on the list of failed ones, or
\* an analysis is under way, or its scan was stopped, or only a branch was looked at
\* (pendingAnalysis, lastSuccessfulScanAt, lastProcessingFailed).  (With the type of every
\* variable.)
BacklogKept == TypeOK /\ (
  (repo.known /\ ~repo.pending) =>
    \/ repo.success \/ repo.failed \/ cancelled # {}
    \/ \E s \in Scan : Active(s) \/ AtWork(s) \/ (BranchOf[s] # Default /\ unit[s] # "open"))

\* Evidence once stored is only lost when attempts overlap, each deleting what the other
\* inserted (insertMany before deleteMany): on the default branch when two stored at once,
\* elsewhere when the one that prunes finds its own evidence gone.
EvidenceKept == [][\A f \in Fingerprint :
  (evidence[f] # {} /\ evidence'[f] = {}) =>
     \E r \in Run : /\ run[r].at = "prune" /\ Fp(r) = f
                    /\ IF OnDefault(r) THEN disorder ELSE r \notin evidence[f]]_vars

\* A user's FALSE_POSITIVE is only undone by a user, or by an attempt that read the finding
\* before the verdict: listed it as open, or looked it up as resolved (updateStatus,
\* resolveMissingFindings, runDetectionAndPersist).
VerdictHolds == [][\A f \in Fingerprint :
  (finding[f] = "falsePositive" /\ finding'[f] # "falsePositive") =>
     \/ verdict # NoVerdict /\ verdict' = NoVerdict
     \/ \E r \in Run : \/ f \in run[r].closing
                       \/ run[r].at = "save" /\ Fp(r) = f /\ run[r].known = "resolved"]_vars

\* The analysis of a side branch never touches what was found on the default branch.
BranchApart == [][\A r \in Run :
  (run'[r] # run[r] /\ ~OnDefault(r)) =>
     \A f \in Fingerprint : f.branch = Default =>
        finding'[f] = finding[f] /\ evidence'[f] = evidence[f]]_vars

\* A finding has one alert, unless two of its alert jobs overlapped (createForFinding);
\* and at rest, with no failure on the way, every severe finding of the default branch
\* that was ever stored has been alerted.
AlertedOnce ==
  /\ doubled \/ \A f \in Fingerprint : alerts[f] + creating[f] <= 1
  /\ (Quiet /\ faults = 0 /\ queue.waiting = {} /\ \A f \in Fingerprint : creating[f] = 0) =>
       \A f \in Fingerprint : (Exists(f) /\ f.branch = Default /\ IsHigh(f)) => alerts[f] > 0
-----------------------------------------------------------------------------
(* The inductive invariant of these properties.                            *)

\* A scan analyses first, then detects, in attempts that begin one after another; a unit
\* is open until then.
OneWayThrough == \A s \in Scan :
  /\ BranchOf[s] # Default => analysis[s].at = "none"
  /\ BranchOf[s] = Default /\ analysis[s].at # "ended" => job[s].state = "none" /\ unit[s] = "open"
  /\ job[s].state = "none" => job[s].attempt = 1
  /\ job[s].state = "ended" => unit[s] # "open"
  /\ \A n \in Attempt :
       n > job[s].attempt \/ (n = job[s].attempt /\ job[s].state \in {"none", "queued"}) =>
          run[<<s, n>>] = Idle

\* What an attempt has done when it is where it is.
RunSound(r) ==
  /\ run[r].at \in {"list", "resolve", "alert"} => OnDefault(r)
  /\ run[r].at \in {"lookup", "save", "insert", "prune", "alert"} => run[r].rules # {}
  /\ run[r].at = "save" /\ run[r].known # "none" => Exists(Fp(r))
  /\ run[r].at \in {"insert", "prune", "list", "resolve", "mark"} /\ run[r].rules # {} => Exists(Fp(r))
  /\ run[r].at # "resolve" => run[r].closing = {}
  /\ \A f \in run[r].closing : Exists(f)
  /\ run[r].at \in {"complete", "alert"} /\ OnDefault(r) => repo.success
  /\ run[r].at = "alert" => unit[r[1]] # "open"

BacklogSound ==
  /\ \A s \in Scan : analysis[s].at = "skipped" => repo.success
  /\ repo.known /\ ~repo.pending =>
       \/ repo.success \/ repo.failed \/ cancelled # {}
       \/ \E s \in Scan : Active(s) \/ AtWork(s) \/ (BranchOf[s] # Default /\ unit[s] # "open")

\* A new or re-opened finding that is severe is on its way to an alert.
Announcing(r) == run[r].news /\ run[r].at \in {"insert", "prune", "list", "resolve", "mark", "complete", "alert"}
AlertSound ==
  /\ doubled \/ \A f \in Fingerprint : alerts[f] + creating[f] <= 1
  /\ \A a \in queue.added : a \in queue.waiting \/ creating[a[2]] > 0 \/ alerts[a[2]] > 0
  /\ verdict # NoVerdict => Exists(verdict.finding)
  /\ faults = 0 => \A f \in Fingerprint : Exists(f) /\ f.branch = Default /\ IsHigh(f) =>
       \/ alerts[f] > 0 \/ creating[f] > 0 \/ \E a \in queue.waiting : a[2] = f
       \/ \E r \in Run : Announcing(r) /\ Fp(r) = f

\* One attempt of the default branch stores at a time, and has what it inserted.
StoringAlone == ~disorder =>
  /\ \A r, other \in Run : Storing(r) /\ OnDefault(r) /\ Storing(other) /\ OnDefault(other) => r = other
  /\ \A r \in Run : run[r].at = "prune" /\ OnDefault(r) => r \in evidence[Fp(r)]

\* Nothing is of a version or a ruleset that has not been.
AgesSound ==
  /\ repo.ruleset <= ruleset /\ (~swallowed => newest <= head)
  /\ ~disorder /\ ~swallowed => repo.sha <= newest
  /\ \A s \in Scan :
       /\ analysis[s].sha <= head /\ analysis[s].ruleset <= ruleset
       /\ analysis[s].existing.ruleset <= ruleset /\ job[s].ruleset <= ruleset
       /\ ~disorder /\ ~swallowed => analysis[s].existing.sha <= newest
       /\ analysis[s].at = "skip" => /\ analysis[s].existing.sha # 0
                                     /\ analysis[s].existing.ruleset = analysis[s].ruleset

\* What an attempt found is what its content shows, and the content is not older than the
\* commit that was asked for before.
FoundIs(r) ==
  LET shown == Shows[job[r[1]].content][ruleset] IN
  run[r].rules \ LiveRules = shown /\ (run[r].rules = {} <=> shown = {})

ContentSound == ~swallowed =>
  /\ \A s \in Scan : analysis[s].at = "enqueue" =>
       analysis[s].content # 0 /\ analysis[s].sha <= analysis[s].content /\ analysis[s].content <= head
  /\ \A s \in Scan : BranchOf[s] = Default /\ job[s].state # "none" =>
       job[s].content # 0 /\ job[s].sha <= job[s].content /\ job[s].content <= head
  /\ \A r \in Run : OnDefault(r) /\ (run[r].at = "lookup" \/ Storing(r)) => FoundIs(r)

\* A mark with the newest version and the present rules, in force or read by an analysis, is
\* a mark the findings agree with; an attempt that has listed leaves nothing else on display.
Holds(mark) == mark.sha # 0 /\ mark.sha = newest /\ mark.ruleset = ruleset => Agrees(newest)

MarksSound == ~disorder /\ ~swallowed =>
  /\ Holds(repo) /\ \A s \in Scan : Holds(analysis[s].existing)
  /\ \A r \in Run : OnDefault(r) /\ Storing(r) => job[r[1]].content = newest
  /\ \A r \in Run : OnDefault(r) /\ run[r].at \in {"resolve", "mark"} =>
       Reported \ touched \subseteq {Fp(r)} \cup run[r].closing

AnalysisInv ==
  /\ TypeOK /\ OneWayThrough /\ (\A r \in Run : RunSound(r)) /\ BacklogSound /\ AlertSound
  /\ StoringAlone /\ AgesSound /\ ContentSound /\ MarksSound
=============================================================================
