---------------------------- MODULE ScanLifecycle ----------------------------
(***************************************************************************)
(* One scan: its ScanJob document, the BullMQ jobs that work for it and    *)
(* the user who may cancel it.                                             *)
(*                                                                         *)
(* Every job, and the user's cancel request, is a thread.  A thread is at  *)
(* a label; a step from a label is what the handler does up to its next    *)
(* await on shared state (MongoDB or a queue), so threads interleave       *)
(* exactly where the handlers of several workers do.  The threads are the  *)
(* orchestrator job, one github-search job per search page, one chain of   *)
(* repository-analysis then detection-processing jobs per repository, and  *)
(* the HTTP request that cancels the scan.                                 *)
(*                                                                         *)
(* Abstracted: what GitHub answers (any answer), progress events, and the  *)
(* checkpoint beyond its arrays, of which "claimed" is the union.          *)
(***************************************************************************)
EXTENDS Integers, FiniteSets

CONSTANTS
  SearchJob,     \* every search-page job the scan could enqueue
  Root,          \* the first page of each planned query
  NextPage,      \* NextPage[j]: the continuation job of page j, or {}
  Halves,        \* Halves[j]: the jobs an oversized query is split into, or {}
  Repo,          \* repositories a search or a backlog can return
  Kinds,         \* the kinds of scan a user may start
  Attempts,      \* attempts of a search, analysis or detection job
  OrchAttempts,  \* attempts of the orchestrator job
  FaultPoints,   \* the labels at which an await may throw; "reported" is the
                 \* throw in a job whose report has already been counted
  StaleSaves,    \* kinds of scan in which other workers may write between
                 \* saveCheckpoint's read and its save
  CancelFrom,    \* the user cancels: "never", "anytime", or once "fannedOut"
  Orch, User     \* the two threads that are neither a page nor a repository

Thread == {Orch, User} \cup SearchJob \cup Repo

FinalLabel == {"tryFinalize", "finalize", "save", "restart", "create", "done"}
OrchLabel == {"queued", "mark", "config", "plan", "fanout", "addRoot", "tail",
              "planSave", "tailSave", "bulk", "bulkCredit", "early"} \cup FinalLabel
UserLabel == {"idle", "cancelSave"} \cup FinalLabel
SearchLabel == {"absent", "queued", "searching", "split", "creditSplit",
                "items", "lastItems", "itemsSave", "lastSave", "record", "recordLast",
                "add", "addLast", "decide", "addNext", "report"} \cup FinalLabel
UnitLabel == {"absent", "queued", "analysing", "detect", "detecting", "recordMore",
              "addMore", "report", "detected", "reportFailed", "acknowledge"} \cup FinalLabel
Label == OrchLabel \cup UserLabel \cup SearchLabel \cup UnitLabel

LabelOf(t) == IF t = Orch THEN OrchLabel
              ELSE IF t = User THEN UserLabel
              ELSE IF t \in SearchJob THEN SearchLabel ELSE UnitLabel

ASSUME ConstantsOK ==
  /\ IsFiniteSet(SearchJob) /\ IsFiniteSet(Repo)
  /\ Root \subseteq SearchJob
  /\ NextPage \in [SearchJob -> SUBSET SearchJob]
  /\ \A j \in SearchJob : \A k, l \in NextPage[j] : k = l
  /\ Halves \in [SearchJob -> SUBSET SearchJob]
  /\ Kinds \subseteq {"search", "watch", "bulk"}
  /\ Attempts \in Nat \ {0} /\ OrchAttempts \in Nat \ {0}
  /\ FaultPoints \subseteq Label \cup {"reported"}
  /\ StaleSaves \subseteq Kinds
  /\ CancelFrom \in {"never", "anytime", "fannedOut"}
  /\ Orch # User /\ {Orch, User} \cap (SearchJob \cup Repo) = {}
  /\ SearchJob \cap Repo = {}

\* Job ids are derived from query and page, so a job has one parent at most.
ASSUME JobForest ==
  /\ \A j, k \in SearchJob : j # k =>
       (NextPage[j] \cup Halves[j]) \cap (NextPage[k] \cup Halves[k]) = {}
  /\ \A j \in SearchJob : /\ NextPage[j] \cap Halves[j] = {}
                          /\ Root \cap (NextPage[j] \cup Halves[j]) = {}
                          /\ j \notin NextPage[j] \cup Halves[j]

Active == {"QUEUED", "RUNNING"}
Terminal == {"COMPLETED", "PARTIALLY_COMPLETED", "FAILED", "CANCELLED"}
Status == Active \cup Terminal

VARIABLES
  kind,              \* "search", "watch" (discovery-only keyword watch) or
                     \* "bulk" (a backlog: failed, pending or known repositories)
  status,            \* ScanJob.status
  cancelRequested,   \* ScanJob.cancelRequested
  error,             \* is ScanJob.error set?
  awaitingSearch,    \* ScanJob.awaitingSearch
  awaitingAnalysis,  \* ScanJob.awaitingAnalysis
  processed,         \* ScanJob.reposProcessed
  failed,            \* ScanJob.reposFailed
  claimed,           \* repositories in any checkpoint array
  completed,         \* checkpoint.completedGithubIds
  successors,        \* QUEUED scans enqueued by maybeRestartKeywordWatch
  pc,                \* where each thread is
  attempts,          \* attemptsMade of the thread's job
  handled,           \* jobs this orchestrator attempt has already enqueued
  copy,              \* checkpoint a thread has read and is going to save
  carry,             \* repository a thread has claimed and not yet enqueued
  lost,              \* history: claims whose attempt threw before their record
  seen               \* what a finalize in progress read, and will write

scanDoc == <<kind, status, cancelRequested, error, awaitingSearch, awaitingAnalysis,
             processed, failed>>
work == <<claimed, completed, copy, handled, carry, lost>>
vars == <<scanDoc, work, successors, pc, attempts, seen>>

Read == [was : Status, to : Status, err : BOOLEAN]
Arrays == [claimed : SUBSET Repo, completed : SUBSET Repo]
NoArrays == [claimed |-> {}, completed |-> {}]
NothingRead == [was |-> "QUEUED", to |-> "QUEUED", err |-> FALSE]

DataOK ==
  /\ kind \in Kinds /\ status \in Status
  /\ cancelRequested \in BOOLEAN /\ error \in BOOLEAN
  /\ awaitingSearch \in Int /\ awaitingAnalysis \in Int
  /\ processed \in Nat /\ failed \in Nat /\ successors \in Nat
  /\ claimed \in SUBSET Repo /\ completed \in SUBSET Repo
  /\ attempts \in [Thread -> Nat]
  /\ handled \in SUBSET (Root \cup Repo)
  /\ copy \in [Thread -> Arrays]
  /\ carry \in [Thread -> SUBSET Repo] /\ lost \in SUBSET Repo
  /\ seen \in [Thread -> Read]

PcOK == /\ pc \in [Thread -> Label]
        /\ \A t \in Thread : pc[t] \in LabelOf(t)

TypeOK == DataOK /\ PcOK

Init ==
  /\ kind \in Kinds
  /\ status = "QUEUED" /\ cancelRequested = FALSE /\ error = FALSE
  /\ awaitingSearch = 0 /\ awaitingAnalysis = 0
  /\ processed = 0 /\ failed = 0 /\ successors = 0
  /\ claimed = {} /\ completed = {} /\ handled = {} /\ lost = {}
  /\ pc = [t \in Thread |-> IF t = Orch THEN "queued"
                            ELSE IF t = User THEN "idle" ELSE "absent"]
  /\ attempts = [t \in Thread |-> 0]
  /\ copy = [t \in Thread |-> NoArrays]
  /\ carry = [t \in Thread |-> {}]
  /\ seen = [t \in Thread |-> NothingRead]

-----------------------------------------------------------------------------
(* Shared by the handlers.                                                 *)

isCancelled == cancelRequested \/ status = "CANCELLED"
isTerminal == status \in Terminal

Goto(t, l) == pc' = [pc EXCEPT ![t] = l]

\* Queue.add with a deterministic jobId: an id already known is not added.
Known(j) == pc[j] # "absent"
GotoAdding(t, l, js) ==
  pc' = [u \in Thread |-> IF u = t THEN l
                          ELSE IF u \in js /\ ~Known(u) THEN "queued" ELSE pc[u]]

\* saveCheckpoint reads the document and saves its checkpoint, one Mixed path,
\* as a whole: what others wrote to the arrays in between is lost.  Outside
\* StaleSaves nobody does, and the two are one step.
ReadCheckpoint(t, saving, next) ==
  IF kind \in StaleSaves
    THEN /\ copy' = [copy EXCEPT ![t] = [claimed |-> claimed, completed |-> completed]]
         /\ Goto(t, saving)
    ELSE copy' = copy /\ Goto(t, next)

SaveCheckpoint(t, saving, next) ==
  /\ pc[t] = saving
  /\ claimed' = copy[t].claimed /\ completed' = copy[t].completed
  /\ copy' = [copy EXCEPT ![t] = NoArrays]
  /\ Goto(t, next)
  /\ UNCHANGED <<scanDoc, handled, carry, lost, successors, attempts, seen>>

\* Mutant: one drained counter is enough.
TryFinalizeEither(t) ==
  /\ pc[t] = "tryFinalize"
  /\ Goto(t, IF ~isTerminal /\ ( \/ cancelRequested
                                 \/ awaitingSearch <= 0 \/ awaitingAnalysis <= 0 )
             THEN "finalize" ELSE "done")
  /\ UNCHANGED <<scanDoc, work, successors, attempts, seen>>

\* tryFinalize: a read of the document decides whether finalize is called.
TryFinalize(t) ==
  /\ pc[t] = "tryFinalize"
  /\ Goto(t, IF ~isTerminal /\ ( \/ cancelRequested
                                 \/ awaitingSearch <= 0 /\ awaitingAnalysis <= 0 )
             THEN "finalize" ELSE "done")
  /\ UNCHANGED <<scanDoc, work, successors, attempts, seen>>

\* Mutant: all failed counted as some failed.
VerdictTooMild ==
  IF isCancelled THEN "CANCELLED"
  ELSE IF failed > 0 THEN "PARTIALLY_COMPLETED" ELSE "COMPLETED"

Verdict ==
  CASE isCancelled -> "CANCELLED"
    [] ~isCancelled /\ failed > 0 /\ processed > failed -> "PARTIALLY_COMPLETED"
    [] ~isCancelled /\ failed > 0 /\ processed = failed -> "FAILED"
    [] OTHER -> "COMPLETED"

\* finalize reads the document a second time and computes the verdict on it;
\* the counters are not looked at again, nor is a terminal status.
FinalizeRead(t) ==
  /\ pc[t] = "finalize"
  /\ seen' = [seen EXCEPT ![t] = [was |-> status, to |-> Verdict, err |-> error]]
  /\ Goto(t, "save")
  /\ UNCHANGED <<scanDoc, work, successors, attempts>>

\* job.save() writes the paths finalize modified: status only if it differs
\* from the one read.  A clean COMPLETED goes on to maybeRestartKeywordWatch.
FinalizeSave(t) ==
  /\ pc[t] = "save"
  /\ LET s == seen[t] IN
       /\ status' = IF s.was = s.to THEN status ELSE s.to
       /\ error' = (error \/ s.to = "FAILED")
       /\ Goto(t, IF s.to = "COMPLETED" /\ ~s.err /\ kind = "watch"
                  THEN "restart" ELSE "done")
  /\ seen' = [seen EXCEPT ![t] = NothingRead]
  /\ UNCHANGED <<kind, cancelRequested, awaitingSearch, awaitingAnalysis, processed,
                 failed, work, successors, attempts>>

\* Mutant: the finished scan itself counts as the running duplicate.
RestartWatchNever(t) ==
  /\ pc[t] = "restart"
  /\ Goto(t, IF isTerminal \/ successors > 0 THEN "done" ELSE "create")
  /\ UNCHANGED <<scanDoc, work, successors, attempts, seen>>

\* enqueueManualScan with the same configuration: findActiveDuplicate, then
\* create.  A duplicate is a Conflict, swallowed by maybeRestartKeywordWatch.
RestartWatch(t) ==
  /\ pc[t] = "restart"
  /\ Goto(t, IF status \in Active \/ successors > 0 THEN "done" ELSE "create")
  /\ UNCHANGED <<scanDoc, work, successors, attempts, seen>>

CreateSuccessor(t) ==
  /\ pc[t] = "create"
  /\ successors' = successors + 1
  /\ Goto(t, "done")
  /\ UNCHANGED <<scanDoc, work, attempts, seen>>

Finalizing(t) == TryFinalize(t) \/ FinalizeRead(t) \/ FinalizeSave(t)
                 \/ RestartWatch(t) \/ CreateSuccessor(t)

-----------------------------------------------------------------------------
(* ScanOrchestratorProcessor.                                              *)

\* isCancelled, before anything else.
OrchBegin ==
  /\ pc[Orch] = "queued"
  /\ Goto(Orch, IF isCancelled THEN "finalize" ELSE "mark")
  /\ handled' = {}
  /\ UNCHANGED <<scanDoc, claimed, completed, copy, carry, lost, successors, attempts, seen>>

markRunning ==
  /\ pc[Orch] = "mark"
  /\ status' = "RUNNING"
  /\ Goto(Orch, "config")
  /\ UNCHANGED <<kind, cancelRequested, error, awaitingSearch, awaitingAnalysis,
                 processed, failed, work, successors, attempts, seen>>

\* No token: finish early.  Otherwise the mode decides.
OrchConfig ==
  /\ pc[Orch] = "config"
  /\ \/ Goto(Orch, "early")
     \/ Goto(Orch, IF kind = "bulk" THEN "bulk" ELSE "plan")
  /\ UNCHANGED <<scanDoc, work, successors, attempts, seen>>

\* Quota exhausted: the job is delayed and starts over, and no attempt is
\* used up.
OrchQuotaPause ==
  /\ pc[Orch] = "config"
  /\ Goto(Orch, "queued")
  /\ UNCHANGED <<scanDoc, work, successors, attempts, seen>>

markCompletedEarly ==
  /\ pc[Orch] = "early"
  /\ status' = "COMPLETED"
  /\ awaitingSearch' = 0 /\ awaitingAnalysis' = 0
  /\ Goto(Orch, "done")
  /\ UNCHANGED <<kind, cancelRequested, error, processed, failed, work, successors,
                 attempts, seen>>

AfterPlan == IF Root = {} THEN "early" ELSE "fanout"

\* Mutant: the pages that may follow are counted as well.
setQueriesAllPages ==
  /\ pc[Orch] = "plan"
  /\ awaitingSearch' = Cardinality(SearchJob)
  /\ ReadCheckpoint(Orch, "planSave", AfterPlan)
  /\ UNCHANGED <<kind, status, cancelRequested, error, awaitingAnalysis, processed,
                 failed, claimed, completed, handled, carry, lost, successors,
                 attempts, seen>>

setQueries ==
  /\ pc[Orch] = "plan"
  /\ awaitingSearch' = Cardinality(Root)
  /\ ReadCheckpoint(Orch, "planSave", AfterPlan)
  /\ UNCHANGED <<kind, status, cancelRequested, error, awaitingAnalysis, processed,
                 failed, claimed, completed, handled, carry, lost, successors,
                 attempts, seen>>

\* The enqueue loop looks at isCancelled before each query.
FanOut ==
  /\ pc[Orch] = "fanout"
  /\ Goto(Orch, IF isCancelled THEN "finalize" ELSE "addRoot")
  /\ UNCHANGED <<scanDoc, work, successors, attempts, seen>>

AddRoot(j) ==
  /\ pc[Orch] = "addRoot"
  /\ j \in Root \ handled
  /\ handled' = handled \cup {j}
  /\ GotoAdding(Orch, IF Root \subseteq handled' THEN "tail" ELSE "fanout", {j})
  /\ UNCHANGED <<scanDoc, claimed, completed, copy, carry, lost, successors, attempts, seen>>

\* The checkpoint save after the loop.
OrchTail ==
  /\ pc[Orch] = "tail"
  /\ ReadCheckpoint(Orch, "tailSave", "done")
  /\ UNCHANGED <<scanDoc, claimed, completed, handled, carry, lost, successors,
                 attempts, seen>>

\* FAILED_ONLY, ANALYZE_PENDING, REANALYZE_EXISTING: claim and enqueue the
\* backlog chunk by chunk, and only then add it to awaitingAnalysis.
BulkChunk(rs) ==
  /\ pc[Orch] = "bulk"
  /\ rs \subseteq Repo \ claimed /\ rs # {}
  /\ claimed' = claimed \cup rs
  /\ handled' = handled \cup rs
  /\ GotoAdding(Orch, "bulk", rs)
  /\ UNCHANGED <<scanDoc, completed, copy, carry, lost, successors, attempts, seen>>

BulkDone ==
  /\ pc[Orch] = "bulk"
  /\ Repo \subseteq claimed
  /\ Goto(Orch, "bulkCredit")
  /\ UNCHANGED <<scanDoc, work, successors, attempts, seen>>

BulkCredit ==
  /\ pc[Orch] = "bulkCredit"
  /\ awaitingAnalysis' = awaitingAnalysis + Cardinality(handled)
  /\ Goto(Orch, IF handled = {} THEN "early" ELSE "done")
  /\ UNCHANGED <<kind, status, cancelRequested, error, awaitingSearch, processed,
                 failed, work, successors, attempts, seen>>

\* markFailed, then BullMQ's next attempt, if there is one.
OrchFault ==
  /\ pc[Orch] \in FaultPoints \cap (OrchLabel \ {"queued", "done"})
  /\ status' = "FAILED" /\ error' = TRUE
  /\ awaitingSearch' = 0 /\ awaitingAnalysis' = 0
  /\ attempts' = [attempts EXCEPT ![Orch] = @ + 1]
  /\ Goto(Orch, IF attempts[Orch] + 1 < OrchAttempts THEN "queued" ELSE "done")
  /\ seen' = [seen EXCEPT ![Orch] = NothingRead]
  /\ UNCHANGED <<kind, cancelRequested, processed, failed, work, successors>>

Orchestrator ==
  \/ OrchBegin \/ markRunning \/ OrchConfig \/ OrchQuotaPause
  \/ markCompletedEarly
  \/ setQueries \/ FanOut \/ (\E j \in Root : AddRoot(j)) \/ OrchTail
  \/ SaveCheckpoint(Orch, "planSave", AfterPlan) \/ SaveCheckpoint(Orch, "tailSave", "done")
  \/ (\E rs \in SUBSET Repo : BulkChunk(rs)) \/ BulkDone \/ BulkCredit
  \/ Finalizing(Orch)

-----------------------------------------------------------------------------
(* GitHubSearchProcessor: one page of one query.                           *)

\* isCancelled reports the page as done; a terminal scan drops it unreported.
\* The two are separate reads, so a scan that is both may go either way.
SearchBegin(j) ==
  /\ pc[j] = "queued"
  /\ \/ isCancelled /\ Goto(j, "report")
     \/ isTerminal /\ Goto(j, "done")
     \/ ~isCancelled /\ ~isTerminal /\ Goto(j, "searching")
  /\ UNCHANGED <<scanDoc, work, successors, attempts, seen>>

\* The scan is at its cap or the page past GitHub's ceiling; or GitHub
\* answers, and a query that matches too much is split before its items are
\* looked at.
SearchAnswer(j) ==
  /\ pc[j] = "searching"
  /\ \/ Goto(j, "report")
     \/ Goto(j, "items")
     \/ Halves[j] # {} /\ Goto(j, "split")
  /\ UNCHANGED <<scanDoc, work, successors, attempts, seen>>

\* The halves are enqueued one by one, and credited when all of them are.
AddHalf(j, h) ==
  /\ pc[j] = "split"
  /\ h \in Halves[j] /\ ~Known(h)
  /\ GotoAdding(j, "split", {h})
  /\ UNCHANGED <<scanDoc, work, successors, attempts, seen>>

HalvesAdded(j) ==
  /\ pc[j] = "split"
  /\ \A h \in Halves[j] : Known(h)
  /\ Goto(j, "creditSplit")
  /\ UNCHANGED <<scanDoc, work, successors, attempts, seen>>

\* Mutant: the page that was split is credited with its halves.
CreditSplitAndSelf(j) ==
  /\ pc[j] = "creditSplit"
  /\ awaitingSearch' = awaitingSearch + Cardinality(Halves[j]) + 1
  /\ Goto(j, "lastItems")
  /\ UNCHANGED <<kind, status, cancelRequested, error, awaitingAnalysis, processed,
                 failed, work, successors, attempts, seen>>

CreditSplit(j) ==
  /\ pc[j] = "creditSplit"
  /\ awaitingSearch' = awaitingSearch + Cardinality(Halves[j])
  /\ Goto(j, "lastItems")
  /\ UNCHANGED <<kind, status, cancelRequested, error, awaitingAnalysis, processed,
                 failed, work, successors, attempts, seen>>

\* An item is claimed for this scan, and skipped where it already is.  (A page
\* lists a repository once; here it may come again, as on a second page.)
ClaimItem(j, r) ==
  /\ pc[j] \in {"items", "lastItems"}
  /\ ~isCancelled
  /\ r \in Repo \ claimed
  /\ claimed' = claimed \cup {r}
  /\ carry' = [carry EXCEPT ![j] = {r}]
  /\ Goto(j, IF pc[j] = "items" THEN "record" ELSE "recordLast")
  /\ UNCHANGED <<scanDoc, completed, copy, handled, lost, successors, attempts, seen>>

\* recordRepositoryDiscovered, awaits later: the claim is counted before its
\* analysis job is enqueued.  A discovery-only scan enqueues none.
RecordItem(j) ==
  /\ pc[j] \in {"record", "recordLast"}
  /\ \/ /\ kind = "watch"
        /\ carry' = [carry EXCEPT ![j] = {}]
        /\ Goto(j, IF pc[j] = "record" THEN "items" ELSE "lastItems")
        /\ UNCHANGED awaitingAnalysis
     \/ /\ kind # "watch"
        /\ awaitingAnalysis' = awaitingAnalysis + 1
        /\ Goto(j, IF pc[j] = "record" THEN "add" ELSE "addLast")
        /\ UNCHANGED carry
  /\ UNCHANGED <<kind, status, cancelRequested, error, awaitingSearch, processed,
                 failed, claimed, completed, copy, handled, lost, successors, attempts,
                 seen>>

AddAnalysis(j) ==
  /\ pc[j] \in {"add", "addLast"}
  /\ GotoAdding(j, IF pc[j] = "add" THEN "items" ELSE "lastItems", carry[j])
  /\ carry' = [carry EXCEPT ![j] = {}]
  /\ UNCHANGED <<scanDoc, claimed, completed, copy, handled, lost, successors, attempts,
                 seen>>

\* The page's items are done and the checkpoint is saved: a query that was
\* split does not page on.
EndOfPage(j) ==
  /\ \/ pc[j] = "items" /\ ReadCheckpoint(j, "itemsSave", "decide")
     \/ pc[j] = "lastItems" /\ ReadCheckpoint(j, "lastSave", "report")
  /\ UNCHANGED <<scanDoc, claimed, completed, handled, carry, lost, successors,
                 attempts, seen>>

\* The cursor is saved; a continuation is credited before it is enqueued.
NoMorePages(j) ==
  /\ pc[j] = "decide"
  /\ Goto(j, "report")
  /\ UNCHANGED <<scanDoc, work, successors, attempts, seen>>

\* Mutant: the continuation is enqueued without a credit.
CreditNextPageNot(j) ==
  /\ pc[j] = "decide"
  /\ NextPage[j] # {}
  /\ Goto(j, "addNext")
  /\ UNCHANGED <<scanDoc, work, successors, attempts, seen>>

CreditNextPage(j) ==
  /\ pc[j] = "decide"
  /\ NextPage[j] # {}
  /\ awaitingSearch' = awaitingSearch + 1
  /\ Goto(j, "addNext")
  /\ UNCHANGED <<kind, status, cancelRequested, error, awaitingAnalysis, processed,
                 failed, work, successors, attempts, seen>>

AddNextPage(j) ==
  /\ pc[j] = "addNext"
  /\ GotoAdding(j, "report", NextPage[j])
  /\ UNCHANGED <<scanDoc, work, successors, attempts, seen>>

completeSearchJob(j) ==
  /\ pc[j] = "report"
  /\ awaitingSearch' = awaitingSearch - 1
  /\ Goto(j, "tryFinalize")
  /\ UNCHANGED <<kind, status, cancelRequested, error, awaitingAnalysis, processed,
                 failed, work, successors, attempts, seen>>

CallsGitHub(t) == pc[t] \in {"searching", "analysing"}

\* What an attempt that throws leaves behind: the claim it has recorded keeps
\* its count, the claim it has not is skipped by the retry and never counted.
DropCarry(t) ==
  /\ carry' = [carry EXCEPT ![t] = {}]
  /\ lost' = IF pc[t] \in {"record", "recordLast", "recordMore"}
             THEN lost \cup carry[t] ELSE lost

\* Mutant: the final attempt does not report the page.
SearchFaultUnreported(j) ==
  /\ pc[j] \in FaultPoints \cap (SearchLabel \ ({"absent", "queued"} \cup FinalLabel))
  /\ attempts' = [attempts EXCEPT ![j] = @ + 1]
  /\ Goto(j, IF attempts[j] + 1 < Attempts THEN "queued" ELSE "done")
  /\ DropCarry(j)
  /\ attempts[j] < Attempts
  /\ UNCHANGED <<scanDoc, claimed, completed, copy, handled, successors, seen>>

\* The catch block: a cancelled scan, an AUTH error and the final attempt
\* report the page; a quota pause delays the job without using up an attempt.
\* What an attempt that timed out still does beside its retry is not modelled.
SearchFault(j) ==
  /\ pc[j] \in FaultPoints \cap (SearchLabel \ ({"absent", "queued"} \cup FinalLabel))
  /\ \/ isCancelled /\ Goto(j, "report") /\ UNCHANGED <<attempts, error>>
     \/ /\ ~isCancelled /\ CallsGitHub(j)
        /\ error' = TRUE
        /\ Goto(j, "report") /\ UNCHANGED attempts
     \/ /\ ~isCancelled /\ CallsGitHub(j)
        /\ Goto(j, "queued") /\ UNCHANGED <<attempts, error>>
     \/ /\ ~isCancelled
        /\ attempts' = [attempts EXCEPT ![j] = @ + 1]
        /\ Goto(j, IF attempts[j] + 1 < Attempts THEN "queued" ELSE "report")
        /\ UNCHANGED error
  /\ DropCarry(j)
  /\ attempts[j] < Attempts
  /\ UNCHANGED <<kind, status, cancelRequested, awaitingSearch, awaitingAnalysis,
                 processed, failed, claimed, completed, copy, handled, successors, seen>>

\* completeSearchJob has counted the page and throws in what follows (an
\* event, tryFinalize): the catch block cannot tell, and the page will report
\* again.  (Bound: only in a scan that is not cancelled.)
SearchLateFault(j) ==
  /\ "reported" \in FaultPoints
  /\ pc[j] = "report" /\ ~isCancelled
  /\ attempts[j] < Attempts
  /\ awaitingSearch' = awaitingSearch - 1
  /\ attempts' = [attempts EXCEPT ![j] = @ + 1]
  /\ Goto(j, IF attempts[j] + 1 < Attempts THEN "queued" ELSE "report")
  /\ UNCHANGED <<kind, status, cancelRequested, error, awaitingAnalysis, processed,
                 failed, work, successors, seen>>

SearchSteps(j) ==
  \/ SearchBegin(j) \/ SearchAnswer(j)
  \/ (\E h \in SearchJob : AddHalf(j, h)) \/ HalvesAdded(j) \/ CreditSplit(j)
  \/ (\E r \in Repo : ClaimItem(j, r)) \/ RecordItem(j) \/ AddAnalysis(j)
  \/ EndOfPage(j)
  \/ SaveCheckpoint(j, "itemsSave", "decide") \/ SaveCheckpoint(j, "lastSave", "report")
  \/ NoMorePages(j) \/ CreditNextPage(j) \/ AddNextPage(j)
  \/ completeSearchJob(j) \/ Finalizing(j)

-----------------------------------------------------------------------------
(* RepositoryAnalysisProcessor, then DetectionProcessingProcessor.         *)

AnalysisBegin(r) ==
  /\ pc[r] = "queued"
  /\ \/ isCancelled /\ Goto(r, "report")
     \/ isTerminal /\ Goto(r, "done")
     \/ ~isCancelled /\ ~isTerminal
        /\ Goto(r, IF r \in completed THEN "acknowledge" ELSE "analysing")
  /\ UNCHANGED <<scanDoc, work, successors, attempts, seen>>

\* acknowledgeAlreadyCompletedUnit decrements only a positive counter.
Acknowledge(r) ==
  /\ pc[r] = "acknowledge"
  /\ awaitingAnalysis' = IF awaitingAnalysis > 0 THEN awaitingAnalysis - 1
                                                 ELSE awaitingAnalysis
  /\ Goto(r, "tryFinalize")
  /\ UNCHANGED <<kind, status, cancelRequested, error, awaitingSearch, processed,
                 failed, work, successors, attempts, seen>>

\* decideRescan skips an unchanged repository; otherwise its content goes to
\* a detection job, which has attempts of its own.
AnalysisResult(r) ==
  /\ pc[r] = "analysing"
  /\ \/ Goto(r, "report") /\ UNCHANGED attempts
     \/ Goto(r, "detect") /\ attempts' = [attempts EXCEPT ![r] = 0]
  /\ UNCHANGED <<scanDoc, work, successors, seen>>

\* Detection looks at isCancelled only.
DetectionBegin(r) ==
  /\ pc[r] = "detect"
  /\ Goto(r, IF isCancelled THEN "detected" ELSE "detecting")
  /\ UNCHANGED <<scanDoc, work, successors, attempts, seen>>

\* expandFromFinding: a high-impact finding claims and records related
\* repositories, and enqueues each before the next.
Expand(r, s) ==
  /\ pc[r] = "detecting"
  /\ kind # "watch"
  /\ ~isCancelled /\ ~isTerminal
  /\ s \in Repo \ claimed
  /\ claimed' = claimed \cup {s}
  /\ carry' = [carry EXCEPT ![r] = {s}]
  /\ Goto(r, "recordMore")
  /\ UNCHANGED <<scanDoc, completed, copy, handled, lost, successors, attempts, seen>>

\* Mutant: a related repository is claimed and not counted.
RecordExpandedNot(r) ==
  /\ pc[r] = "recordMore"
  /\ Goto(r, "addMore")
  /\ UNCHANGED <<scanDoc, work, successors, attempts, seen>>

RecordExpanded(r) ==
  /\ pc[r] = "recordMore"
  /\ awaitingAnalysis' = awaitingAnalysis + 1
  /\ Goto(r, "addMore")
  /\ UNCHANGED <<kind, status, cancelRequested, error, awaitingSearch, processed,
                 failed, work, successors, attempts, seen>>

AddExpanded(r) ==
  /\ pc[r] = "addMore"
  /\ GotoAdding(r, "detecting", carry[r])
  /\ carry' = [carry EXCEPT ![r] = {}]
  /\ UNCHANGED <<scanDoc, claimed, completed, copy, handled, lost, successors, attempts,
                 seen>>

DetectionResult(r) ==
  /\ pc[r] = "detecting"
  /\ Goto(r, "detected")
  /\ UNCHANGED <<scanDoc, work, successors, attempts, seen>>

\* Mutant: the checkpoint is not told that the repository is done.
CountUnitUnmarked(r) ==
  /\ awaitingAnalysis' = awaitingAnalysis - 1
  /\ processed' = processed + 1
  /\ failed' = IF pc[r] = "reportFailed" THEN failed + 1 ELSE failed
  /\ UNCHANGED <<kind, status, cancelRequested, error, awaitingSearch, work>>

\* completeAnalysisUnit's update: the counters and the checkpoint at once.
CountUnit(r) ==
  /\ awaitingAnalysis' = awaitingAnalysis - 1
  /\ processed' = processed + 1
  /\ failed' = IF pc[r] = "reportFailed" THEN failed + 1 ELSE failed
  /\ completed' = completed \cup {r}
  /\ UNCHANGED <<kind, status, cancelRequested, error, awaitingSearch, claimed,
                 copy, handled, carry, lost>>

completeAnalysisUnit(r) ==
  /\ pc[r] \in {"report", "detected", "reportFailed"}
  /\ CountUnit(r)
  /\ Goto(r, "tryFinalize")
  /\ UNCHANGED <<successors, attempts, seen>>

\* The catch blocks: analysis reports a cancelled scan's repository as done
\* and can be delayed for quota; both report a failure on the final attempt.
UnitFault(r) ==
  /\ pc[r] \in FaultPoints \cap (UnitLabel \ ({"absent", "queued", "detect"} \cup FinalLabel))
  /\ LET detecting == pc[r] \in {"detecting", "recordMore", "addMore", "detected"}
         again == IF detecting THEN "detect" ELSE "queued"
     IN \/ /\ isCancelled /\ ~detecting
           /\ Goto(r, "report") /\ UNCHANGED attempts
        \/ /\ ~isCancelled /\ CallsGitHub(r)
           /\ Goto(r, "queued") /\ UNCHANGED attempts
        \/ /\ detecting \/ ~isCancelled
           /\ attempts' = [attempts EXCEPT ![r] = @ + 1]
           /\ Goto(r, IF attempts[r] + 1 < Attempts THEN again ELSE "reportFailed")
  /\ attempts[r] < Attempts
  /\ DropCarry(r)
  /\ UNCHANGED <<scanDoc, claimed, completed, copy, handled, successors, seen>>

\* The unit is counted, and the job throws in what follows (an event,
\* tryFinalize, enqueueAlert).  The next analysis attempt will acknowledge it;
\* detection does not look and counts it again.  (Bound: as SearchLateFault.)
UnitLateFault(r) ==
  /\ "reported" \in FaultPoints
  /\ pc[r] \in {"report", "detected"} /\ ~isCancelled
  /\ attempts[r] < Attempts
  /\ CountUnit(r)
  /\ attempts' = [attempts EXCEPT ![r] = @ + 1]
  /\ Goto(r, IF attempts[r] + 1 = Attempts THEN "reportFailed"
             ELSE IF pc[r] = "detected" THEN "detect" ELSE "queued")
  /\ UNCHANGED <<successors, seen>>

UnitSteps(r) ==
  \/ AnalysisBegin(r) \/ Acknowledge(r) \/ AnalysisResult(r)
  \/ DetectionBegin(r) \/ (\E s \in Repo : Expand(r, s))
  \/ RecordExpanded(r) \/ AddExpanded(r) \/ DetectionResult(r) \/ completeAnalysisUnit(r) \/ Finalizing(r)

-----------------------------------------------------------------------------
(* ScanQueueService.cancelScan.                                            *)

\* requestCancel reads the document; a terminal scan is left as it is.
RequestCancel ==
  /\ pc[User] = "idle"
  /\ \/ CancelFrom = "anytime"
     \/ CancelFrom = "fannedOut" /\ pc[Orch] = "done"
  /\ seen' = [seen EXCEPT ![User] = [NothingRead EXCEPT !.was = status]]
  /\ Goto(User, IF isTerminal THEN "finalize" ELSE "cancelSave")
  /\ UNCHANGED <<scanDoc, work, successors, attempts>>

\* ... and saves cancelRequested, with CANCELLED if it read QUEUED.
CancelSave ==
  /\ pc[User] = "cancelSave"
  /\ cancelRequested' = TRUE
  /\ status' = IF seen[User].was = "QUEUED" THEN "CANCELLED" ELSE status
  /\ Goto(User, "finalize")
  /\ UNCHANGED <<kind, error, awaitingSearch, awaitingAnalysis, processed, failed,
                 work, successors, attempts, seen>>

\* sweepQueuedJobsForScan is not awaited: it removes any job still waiting,
\* at any moment after requestCancel returned.
Sweep(t) ==
  /\ pc[User] \notin {"idle", "cancelSave"}
  /\ pc[t] \in {"queued", "detect"}
  /\ Goto(t, IF t = Orch \/ pc[t] = "detect" THEN "done" ELSE "absent")
  /\ UNCHANGED <<scanDoc, work, successors, attempts, seen>>

Cancel == RequestCancel \/ CancelSave \/ Finalizing(User)

Next ==
  \/ Orchestrator \/ OrchFault
  \/ \E j \in SearchJob : SearchSteps(j) \/ SearchFault(j) \/ SearchLateFault(j)
  \/ \E r \in Repo : UnitSteps(r) \/ UnitFault(r) \/ UnitLateFault(r)
  \/ Cancel
  \/ \E t \in Thread : Sweep(t)

Spec == Init /\ [][Next]_vars

\* Workers, and an HTTP request once it has begun, keep running.  A GitHub
\* quota window always ends, so a job that is delayed time and again gets
\* through in the end: the steps behind a GitHub call are strongly fair.
\* Faults, quota pauses, the sweep and the user's wish to cancel are not fair.
Fairness ==
  /\ WF_vars(Orchestrator) /\ SF_vars(OrchConfig)
  /\ WF_vars(CancelSave \/ Finalizing(User))
  /\ \A j \in SearchJob : WF_vars(SearchSteps(j)) /\ SF_vars(SearchAnswer(j))
  /\ \A r \in Repo : WF_vars(UnitSteps(r)) /\ SF_vars(AnalysisResult(r))

FairSpec == Spec /\ Fairness

-----------------------------------------------------------------------------
(* What the scan document owes to the work done for it.                    *)

Busy(t) == pc[t] \notin FinalLabel \cup {"absent"}

\* Search pages that have been promised and have not reported: enqueued or
\* running, planned and not yet enqueued, credited and not yet enqueued.
PendingSearch ==
  {j \in SearchJob :
     \/ Busy(j)
     \/ pc[Orch] \in {"fanout", "addRoot"} /\ j \in Root \ handled
     \/ \E k \in SearchJob : pc[k] = "addNext" /\ j \in NextPage[k]}

\* Repositories recorded for analysis that have not reported.
PendingUnits ==
  {r \in Repo :
     \/ Busy(r)
     \/ \E t \in Thread : pc[t] \in {"add", "addLast", "addMore"} /\ r \in carry[t]}

\* A scan is not called complete while a search page or a repository that
\* was promised is still to report (tryFinalize's two drained counters).
NoPrematureFinish ==
  status \in {"COMPLETED", "PARTIALLY_COMPLETED"} =>
    PendingSearch = {} /\ PendingUnits = {}

\* The final status agrees with the final counts: finalize's verdict is not
\* computed on counts that still change.  (attempts[Orch] > 0 is a scan
\* whose orchestrator failed, which is FAILED whatever its repositories did.)
VerdictMatchesCounts ==
  /\ status = "COMPLETED" => failed = 0
  /\ status = "PARTIALLY_COMPLETED" => 0 < failed /\ failed < processed
  /\ status = "FAILED" /\ attempts[Orch] = 0 => failed = processed /\ failed > 0

\* A finished scan has processed every repository it recorded, each once: none
\* is lost between record and enqueue or in a retry, none is counted twice.  A
\* claim is left unprocessed only where a throw came between the claim and its
\* record: the retry skips it, nothing was counted, and the scan is COMPLETED.
OnlyUnrecordedClaimsAreLost ==
  status \in {"COMPLETED", "PARTIALLY_COMPLETED"} /\ kind # "watch" =>
    completed = claimed \ lost /\ processed = Cardinality(completed)

\* "Once a scan reaches one of these, it never legitimately goes back to
\* QUEUED/RUNNING" (enums.ts), and no terminal status replaces another.
TerminalIsFinal == [][isTerminal => status' = status]_vars

\* A watch that ran its queries to a clean end is on again: "meant to stay on
\* until the user turns it off" (scan-state.service.ts).
WatchGoesOn ==
  (kind = "watch" /\ status = "COMPLETED" /\ ~error /\ handled # {})
    ~> successors > 0

\* Every scan ends: no path leaves a counter above zero for ever.
EventuallyTerminal == <>[]isTerminal
=============================================================================
