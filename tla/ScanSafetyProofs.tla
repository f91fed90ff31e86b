--------------------------- MODULE ScanSafetyProofs ---------------------------
(***************************************************************************)
(* ScanLifecycle for any number of queries, pages and repositories: its    *)
(* types, and that a dependable scan never finishes early. IInv is         *)
(* inductive, and implies the properties.                                  *)
(***************************************************************************)
EXTENDS ScanInductive, FiniteSetTheorems, TLAPS

-----------------------------------------------------------------------------
(* Type correctness.                                                       *)

\* A thread that goes to a label of its own keeps pc well typed.
LEMMA GotoTyped ==
  ASSUME PcOK, NEW t \in Thread, NEW l \in LabelOf(t), Goto(t, l)
  PROVE  PcOK'
<1>1. l \in Label
  BY DEF LabelOf, Label
<1>2. QED
  BY <1>1 DEF PcOK, Goto

\* Adding page or analysis jobs while going to a label does so too.
LEMMA GotoAddingTyped ==
  ASSUME PcOK, NEW t \in Thread, NEW l \in LabelOf(t),
         NEW js \in SUBSET (SearchJob \cup Repo), ConstantsOK, GotoAdding(t, l, js)
  PROVE  PcOK'
<1>1. l \in Label
  BY DEF LabelOf, Label
<1>2. \A u \in SearchJob \cup Repo : "queued" \in LabelOf(u)
  BY ConstantsOK DEF LabelOf, SearchLabel, UnitLabel, OrchLabel, UserLabel, ConstantsOK
<1>3. "queued" \in Label
  BY DEF Label, OrchLabel
<1>4. pc' \in [Thread -> Label]
  BY <1>1, <1>3 DEF PcOK, GotoAdding
<1>5. ASSUME NEW u \in Thread PROVE pc'[u] \in LabelOf(u)
  BY <1>2, <1>5 DEF PcOK, GotoAdding
<1>6. QED
  BY <1>4, <1>5 DEF PcOK

\* LabelOf, thread by thread.
LEMMA Labels ==
  /\ Orch \in Thread /\ LabelOf(Orch) = OrchLabel
  /\ User \in Thread /\ LabelOf(User) = UserLabel
  /\ \A j \in SearchJob : j \in Thread /\ LabelOf(j) = SearchLabel
  /\ \A r \in Repo : r \in Thread /\ LabelOf(r) = UnitLabel
BY ConstantsOK DEF ConstantsOK, LabelOf, Thread

LEMMA FinalLabels == \A t \in Thread : FinalLabel \subseteq LabelOf(t)
BY DEF FinalLabel, LabelOf, OrchLabel, UserLabel, SearchLabel, UnitLabel

\* The steps of a finalize keep the types, whoever takes them.
LEMMA FinalizingTyped ==
  ASSUME TypeOK, NEW t \in Thread, Finalizing(t)
  PROVE  TypeOK'
<1> USE DEF TypeOK
<1>1. CASE TryFinalize(t)
  <2>1. PcOK'
    BY <1>1, GotoTyped, FinalLabels DEF TryFinalize, FinalLabel
  <2>2. DataOK'
    BY <1>1 DEF TryFinalize, DataOK, scanDoc, work
  <2>3. QED
    BY <2>1, <2>2
<1>2. CASE FinalizeRead(t)
  <2>1. PcOK'
    BY <1>2, GotoTyped, FinalLabels DEF FinalizeRead, FinalLabel
  <2>2. Verdict \in Status
    BY DEF Verdict, Status, Terminal
  <2>3. DataOK'
    BY <1>2, <2>2 DEF FinalizeRead, DataOK, scanDoc, work, Read
  <2>4. QED
    BY <2>1, <2>3
<1>3. CASE FinalizeSave(t)
  <2>1. PcOK'
    BY <1>3, GotoTyped, FinalLabels DEF FinalizeSave, FinalLabel
  <2>2. seen[t] \in Read /\ NothingRead \in Read
    BY DEF DataOK, Read, NothingRead, Status, Active
  <2>3. DataOK'
    BY <1>3, <2>2 DEF FinalizeSave, DataOK, scanDoc, work, Read
  <2>4. QED
    BY <2>1, <2>3
<1>4. CASE RestartWatch(t)
  <2>1. PcOK'
    BY <1>4, GotoTyped, FinalLabels DEF RestartWatch, FinalLabel
  <2>2. DataOK'
    BY <1>4 DEF RestartWatch, DataOK, scanDoc, work
  <2>3. QED
    BY <2>1, <2>2
<1>5. CASE CreateSuccessor(t)
  <2>1. PcOK'
    BY <1>5, GotoTyped, FinalLabels DEF CreateSuccessor, FinalLabel
  <2>2. DataOK'
    BY <1>5 DEF CreateSuccessor, DataOK, scanDoc, work
  <2>3. QED
    BY <2>1, <2>2
<1>6. QED
  BY <1>1, <1>2, <1>3, <1>4, <1>5 DEF Finalizing

\* saveCheckpoint, read and save.
LEMMA CheckpointTyped ==
  ASSUME TypeOK, NEW t \in Thread, NEW saving \in LabelOf(t), NEW next \in LabelOf(t)
  PROVE  /\ ReadCheckpoint(t, saving, next) => PcOK' /\ copy' \in [Thread -> Arrays]
         /\ SaveCheckpoint(t, saving, next) => TypeOK'
<1> USE DEF TypeOK
<1>1. ASSUME ReadCheckpoint(t, saving, next)
      PROVE  PcOK' /\ copy' \in [Thread -> Arrays]
  <2>1. PcOK'
    BY <1>1, GotoTyped DEF ReadCheckpoint
  <2>2. [claimed |-> claimed, completed |-> completed] \in Arrays
    BY DEF DataOK, Arrays
  <2>3. QED
    BY <1>1, <2>1, <2>2 DEF ReadCheckpoint, DataOK
<1>2. ASSUME SaveCheckpoint(t, saving, next) PROVE TypeOK'
  <2>1. PcOK'
    BY <1>2, GotoTyped DEF SaveCheckpoint
  <2>2. copy[t] \in Arrays /\ NoArrays \in Arrays
    BY DEF DataOK, Arrays, NoArrays
  <2>3. DataOK'
    BY <1>2, <2>2 DEF SaveCheckpoint, DataOK, scanDoc, Arrays
  <2>4. QED
    BY <2>1, <2>3
<1>3. QED
  BY <1>1, <1>2

\* So do the orchestrator's steps.
LEMMA OrchestratorTyped ==
  ASSUME TypeOK, Orchestrator \/ OrchFault
  PROVE  TypeOK'
<1> USE Labels DEF TypeOK
<1>1. CASE OrchBegin \/ markRunning \/ OrchConfig \/ OrchQuotaPause
           \/ markCompletedEarly \/ FanOut \/ BulkDone \/ BulkCredit
  <2>1. PcOK'
    BY <1>1, GotoTyped DEF OrchBegin, markRunning, OrchConfig, OrchQuotaPause,
       markCompletedEarly, FanOut, BulkDone, BulkCredit, OrchLabel, FinalLabel
  <2>2. IsFiniteSet(handled)
    BY ConstantsOK, FS_Subset, FS_Union DEF ConstantsOK, DataOK
  <2>3. Cardinality(handled) \in Nat
    BY <2>2, FS_CardinalityType
  <2>4. DataOK'
    BY <1>1, <2>3 DEF OrchBegin, markRunning, OrchConfig, OrchQuotaPause,
       markCompletedEarly, FanOut, BulkDone, BulkCredit, DataOK, scanDoc, work, Status, Active, Terminal
  <2>5. QED
    BY <2>1, <2>4
<1>2. ASSUME NEW j \in Root, AddRoot(j) PROVE TypeOK'
  <2>1. {j} \in SUBSET (SearchJob \cup Repo)
    BY ConstantsOK DEF ConstantsOK
  <2>2. PcOK'
    BY <1>2, <2>1, GotoAddingTyped, ConstantsOK DEF AddRoot, OrchLabel
  <2>3. DataOK'
    BY <1>2 DEF AddRoot, DataOK, scanDoc, work
  <2>4. QED
    BY <2>2, <2>3
<1>3. ASSUME NEW rs \in SUBSET Repo, BulkChunk(rs) PROVE TypeOK'
  <2>1. PcOK'
    BY <1>3, GotoAddingTyped, ConstantsOK DEF BulkChunk, OrchLabel
  <2>2. DataOK'
    BY <1>3 DEF BulkChunk, DataOK, scanDoc, work
  <2>3. QED
    BY <2>1, <2>2
<1>4. CASE OrchFault
  <2>1. PcOK'
    BY <1>4, GotoTyped DEF OrchFault, OrchLabel, FinalLabel
  <2>2. NothingRead \in Read /\ attempts[Orch] + 1 \in Nat
    BY DEF DataOK, Read, NothingRead, Status, Active
  <2>3. DataOK'
    BY <1>4, <2>2 DEF OrchFault, DataOK, scanDoc, work, Status, Terminal
  <2>4. QED
    BY <2>1, <2>3
<1>5. CASE setQueries \/ OrchTail \/ SaveCheckpoint(Orch, "planSave", AfterPlan)
           \/ SaveCheckpoint(Orch, "tailSave", "done")
  <2>1. {"planSave", "tailSave", "done", AfterPlan} \subseteq LabelOf(Orch)
    BY DEF OrchLabel, FinalLabel, AfterPlan
  <2>2. setQueries \/ OrchTail => PcOK' /\ copy' \in [Thread -> Arrays]
    BY <2>1, CheckpointTyped DEF setQueries, OrchTail
  <2>3. Cardinality(Root) \in Nat
    BY ConstantsOK, FS_Subset, FS_CardinalityType DEF ConstantsOK
  <2>4. setQueries \/ OrchTail => DataOK'
    BY <2>2, <2>3 DEF setQueries, OrchTail, DataOK, scanDoc
  <2>5. QED
    BY <1>5, <2>1, <2>2, <2>4, CheckpointTyped
<1>6. QED
  BY <1>1, <1>2, <1>3, <1>4, <1>5, FinalizingTyped DEF Orchestrator

LEMMA SearchTyped ==
  ASSUME TypeOK, NEW j \in SearchJob, SearchSteps(j) \/ SearchFault(j) \/ SearchLateFault(j)
  PROVE  TypeOK'
<1> USE Labels DEF TypeOK
<1> DEFINE Plain == \/ SearchBegin(j) \/ SearchAnswer(j) \/ HalvesAdded(j)
                    \/ CreditSplit(j) \/ NoMorePages(j)
                    \/ CreditNextPage(j) \/ completeSearchJob(j)
<1>1. CASE Plain
  <2>1. PcOK'
    BY <1>1, GotoTyped DEF SearchBegin, SearchAnswer, HalvesAdded, CreditSplit,
       NoMorePages, CreditNextPage, completeSearchJob, SearchLabel,
       FinalLabel
  <2>2. IsFiniteSet(Halves[j])
    BY ConstantsOK, FS_Subset DEF ConstantsOK
  <2>3. Cardinality(Halves[j]) \in Nat
    BY <2>2, FS_CardinalityType
  <2>4. DataOK'
    BY <1>1, <2>3 DEF SearchBegin, SearchAnswer, HalvesAdded, CreditSplit,
       NoMorePages, CreditNextPage, completeSearchJob, DataOK, scanDoc,
       work
  <2>5. QED
    BY <2>1, <2>4
<1>2. ASSUME NEW h \in SearchJob, AddHalf(j, h) PROVE TypeOK'
  <2>1. {h} \in SUBSET (SearchJob \cup Repo)
    OBVIOUS
  <2>2. PcOK'
    BY <1>2, <2>1, GotoAddingTyped, ConstantsOK DEF AddHalf, SearchLabel
  <2>3. DataOK'
    BY <1>2 DEF AddHalf, DataOK, scanDoc, work
  <2>4. QED
    BY <2>2, <2>3
<1>3. ASSUME NEW r \in Repo, ClaimItem(j, r) PROVE TypeOK'
  <2>1. PcOK'
    BY <1>3, GotoTyped DEF ClaimItem, SearchLabel
  <2>2. DataOK'
    BY <1>3 DEF ClaimItem, DataOK, scanDoc
  <2>3. QED
    BY <2>1, <2>2
<1>4. CASE AddAnalysis(j)
  <2>1. carry[j] \in SUBSET (SearchJob \cup Repo)
    BY DEF DataOK
  <2>2. PcOK'
    BY <1>4, <2>1, GotoAddingTyped, ConstantsOK DEF AddAnalysis, SearchLabel
  <2>3. DataOK'
    BY <1>4 DEF AddAnalysis, DataOK, scanDoc
  <2>4. QED
    BY <2>2, <2>3
<1>5. CASE AddNextPage(j)
  <2>1. NextPage[j] \in SUBSET (SearchJob \cup Repo)
    BY ConstantsOK DEF ConstantsOK
  <2>2. PcOK'
    BY <1>5, <2>1, GotoAddingTyped, ConstantsOK DEF AddNextPage, SearchLabel
  <2>3. DataOK'
    BY <1>5 DEF AddNextPage, DataOK, scanDoc, work
  <2>4. QED
    BY <2>2, <2>3
<1>6. CASE SearchFault(j) \/ SearchLateFault(j)
  <2>1. PcOK'
    BY <1>6, GotoTyped DEF SearchFault, SearchLateFault, SearchLabel
  <2>2. attempts[j] + 1 \in Nat
    BY DEF DataOK
  <2>3. DataOK'
    <3>1. CASE SearchFault(j)
      BY <3>1, <2>2 DEF SearchFault, DropCarry, DataOK
    <3>2. CASE SearchLateFault(j)
      BY <3>2, <2>2 DEF SearchLateFault, DataOK, work
    <3>3. QED
      BY <1>6, <3>1, <3>2
  <2>4. QED
    BY <2>1, <2>3
<1>7. CASE EndOfPage(j) \/ SaveCheckpoint(j, "itemsSave", "decide")
           \/ SaveCheckpoint(j, "lastSave", "report")
  <2>1. {"itemsSave", "lastSave", "decide", "report"} \subseteq LabelOf(j)
    BY DEF SearchLabel
  <2>2. EndOfPage(j) => PcOK' /\ copy' \in [Thread -> Arrays]
    BY <2>1, CheckpointTyped DEF EndOfPage
  <2>3. EndOfPage(j) => DataOK'
    BY <2>2 DEF EndOfPage, DataOK, scanDoc
  <2>4. QED
    BY <1>7, <2>1, <2>2, <2>3, CheckpointTyped
<1>8. CASE RecordItem(j)
  <2>1. PcOK'
    BY <1>8, GotoTyped DEF RecordItem, SearchLabel
  <2>2. DataOK'
    BY <1>8 DEF RecordItem, DataOK
  <2>3. QED
    BY <2>1, <2>2
<1>9. QED
  BY <1>1, <1>2, <1>3, <1>4, <1>5, <1>6, <1>7, <1>8, FinalizingTyped DEF SearchSteps

LEMMA UnitTyped ==
  ASSUME TypeOK, NEW r \in Repo, UnitSteps(r) \/ UnitFault(r) \/ UnitLateFault(r)
  PROVE  TypeOK'
<1> USE Labels DEF TypeOK
<1> DEFINE Plain == \/ AnalysisBegin(r) \/ Acknowledge(r) \/ AnalysisResult(r)
                    \/ DetectionBegin(r) \/ RecordExpanded(r) \/ DetectionResult(r)
                    \/ completeAnalysisUnit(r)
<1>1. CASE Plain
  <2>1. PcOK'
    BY <1>1, GotoTyped DEF AnalysisBegin, Acknowledge, AnalysisResult,
       DetectionBegin, RecordExpanded, DetectionResult, completeAnalysisUnit, UnitLabel,
       FinalLabel
  <2>2. DataOK'
    BY <1>1 DEF AnalysisBegin, Acknowledge, AnalysisResult, DetectionBegin,
       RecordExpanded, DetectionResult, completeAnalysisUnit, CountUnit, DataOK, scanDoc,
       work
  <2>3. QED
    BY <2>1, <2>2
<1>2. ASSUME NEW s \in Repo, Expand(r, s) PROVE TypeOK'
  <2>1. PcOK'
    BY <1>2, GotoTyped DEF Expand, UnitLabel
  <2>2. DataOK'
    BY <1>2 DEF Expand, DataOK, scanDoc
  <2>3. QED
    BY <2>1, <2>2
<1>3. CASE AddExpanded(r)
  <2>1. carry[r] \in SUBSET (SearchJob \cup Repo)
    BY DEF DataOK
  <2>2. PcOK'
    BY <1>3, <2>1, GotoAddingTyped, ConstantsOK DEF AddExpanded, UnitLabel
  <2>3. DataOK'
    BY <1>3 DEF AddExpanded, DataOK, scanDoc
  <2>4. QED
    BY <2>2, <2>3
<1>4. CASE UnitFault(r) \/ UnitLateFault(r)
  <2>1. PcOK'
    BY <1>4, GotoTyped DEF UnitFault, UnitLateFault, UnitLabel
  <2>2. attempts[r] + 1 \in Nat
    BY DEF DataOK
  <2>3. DataOK'
    BY <1>4, <2>2 DEF UnitFault, UnitLateFault, DropCarry, CountUnit, DataOK, scanDoc
  <2>4. QED
    BY <2>1, <2>3
<1>5. QED
  BY <1>1, <1>2, <1>3, <1>4, FinalizingTyped DEF UnitSteps

LEMMA CancelTyped ==
  ASSUME TypeOK, Cancel \/ (\E t \in Thread : Sweep(t))
  PROVE  TypeOK'
<1> USE Labels DEF TypeOK
<1>1. CASE RequestCancel \/ CancelSave
  <2>1. PcOK'
    BY <1>1, GotoTyped DEF RequestCancel, CancelSave, UserLabel, FinalLabel
  <2>2. [NothingRead EXCEPT !.was = status] \in Read
    BY DEF DataOK, Read, NothingRead, Status, Active
  <2>3. DataOK'
    BY <1>1, <2>2 DEF RequestCancel, CancelSave, DataOK, scanDoc, work, Status,
       Terminal
  <2>4. QED
    BY <2>1, <2>3
<1>2. ASSUME NEW t \in Thread, Sweep(t) PROVE TypeOK'
  <2>1. pc[t] \in {"queued", "detect"} /\ pc[t] \in LabelOf(t)
    BY <1>2 DEF Sweep, PcOK
  <2>2. t # Orch => "absent" \in LabelOf(t)
    BY <2>1 DEF LabelOf, UserLabel, SearchLabel, UnitLabel, FinalLabel
  <2>3. "done" \in LabelOf(t)
    BY FinalLabels DEF FinalLabel
  <2>4. PcOK'
    BY <1>2, <2>2, <2>3, GotoTyped DEF Sweep
  <2>5. DataOK'
    BY <1>2 DEF Sweep, DataOK, scanDoc, work
  <2>6. QED
    BY <2>4, <2>5
<1>3. QED
  BY <1>1, <1>2, FinalizingTyped DEF Cancel

LEMMA InitTyped == ASSUME Init PROVE TypeOK
<1>1. PcOK
  <2>1. \A t \in Thread : pc[t] \in LabelOf(t)
    BY Labels, ConstantsOK DEF Init, LabelOf, OrchLabel, UserLabel, SearchLabel,
       UnitLabel
  <2>2. pc \in [Thread -> Label]
    BY DEF Init, Label, OrchLabel, UserLabel, SearchLabel
  <2>3. QED
    BY <2>1, <2>2 DEF PcOK
<1>2. DataOK
  <2>1. NothingRead \in Read /\ "QUEUED" \in Status /\ NoArrays \in Arrays
    BY DEF Status, Active, Read, NothingRead, Arrays, NoArrays
  <2>2. /\ attempts \in [Thread -> Nat]
        /\ carry \in [Thread -> SUBSET Repo]
        /\ copy \in [Thread -> Arrays]
        /\ seen \in [Thread -> Read]
    BY <2>1 DEF Init
  <2>3. cancelRequested \in BOOLEAN /\ error \in BOOLEAN
    BY DEF Init
  <2>4. /\ awaitingSearch \in Int /\ awaitingAnalysis \in Int
        /\ processed \in Nat /\ failed \in Nat /\ successors \in Nat
        /\ claimed \in SUBSET Repo /\ completed \in SUBSET Repo
        /\ handled \in SUBSET (Root \cup Repo) /\ lost \in SUBSET Repo
    BY DEF Init
  <2>5. kind \in Kinds /\ status \in Status
    BY <2>1 DEF Init
  <2>6. QED
    BY <2>2, <2>3, <2>4, <2>5, Zenon DEF DataOK
<1>3. QED
  BY <1>1, <1>2 DEF TypeOK

LEMMA NextTyped == ASSUME TypeOK, [Next]_vars PROVE TypeOK'
<1>1. CASE Next
  BY <1>1, OrchestratorTyped, SearchTyped, UnitTyped, CancelTyped DEF Next
<1>2. CASE UNCHANGED vars
  BY <1>2 DEF vars, scanDoc, work, TypeOK, DataOK, PcOK
<1>3. QED
  BY <1>1, <1>2

\* The scan document, the queues and every worker keep their types, in every
\* kind of scan, whatever is cancelled, split, retried or thrown.
THEOREM TypeCorrect == Spec => []TypeOK
<1>1. Init => TypeOK
  BY InitTyped
<1>2. TypeOK /\ [Next]_vars => TypeOK'
  BY NextTyped
<1>3. QED
  BY <1>1, <1>2, PTL DEF Spec

-----------------------------------------------------------------------------
(* A scan never finishes early.                                            *)

LEMMA Apart ==
  /\ \A j \in SearchJob : j # Orch /\ j # User /\ j \notin Repo /\ j \in Thread
  /\ \A r \in Repo : r # Orch /\ r # User /\ r \notin SearchJob /\ r \in Thread
  /\ Orch \in Thread /\ User \in Thread /\ Orch # User
BY ConstantsOK DEF ConstantsOK, Thread

LEMMA OwedFinite ==
  /\ IsFiniteSet(PendingSearch) /\ IsFiniteSet(PendingUnits)
  /\ Cardinality(PendingSearch) \in Nat /\ Cardinality(PendingUnits) \in Nat
<1>1. PendingSearch \in SUBSET SearchJob /\ PendingUnits \in SUBSET Repo
  BY DEF PendingSearch, PendingUnits
<1>2. IsFiniteSet(PendingSearch) /\ IsFiniteSet(PendingUnits)
  BY <1>1, ConstantsOK, FS_Subset DEF ConstantsOK
<1>3. QED
  BY <1>2, FS_CardinalityType

\* The last two conjuncts of IInv depend on the pending sets, the counters and
\* the status, and not on where the threads are.
LEMMA NothingNew ==
  ASSUME CountersCount, FinishedWhenDrained,
         PendingSearch' = PendingSearch, PendingUnits' = PendingUnits,
         UNCHANGED <<status, awaitingSearch, awaitingAnalysis>>,
         attempts'[Orch] = attempts[Orch],
         aborted => pc'[Orch] = pc[Orch],
         \A t \in Thread : pc'[t] \in {"finalize", "save"}
                             => pc[t] \in {"finalize", "save"}
  PROVE  CountersCount' /\ FinishedWhenDrained'
BY DEF CountersCount, FinishedWhenDrained, aborted, NothingOwed, isTerminal

\* saveCheckpoint writes back what is there.
LEMMA FreshRead ==
  ASSUME Dependable, NEW t, NEW saving, NEW next, ReadCheckpoint(t, saving, next)
  PROVE  copy' = copy /\ Goto(t, next)
BY DEF Dependable, ReadCheckpoint

\* A step of a scan that is not aborted, and owes afterwards what it did before.
SameOwed == ~aborted => PendingSearch' = PendingSearch /\ PendingUnits' = PendingUnits

-----------------------------------------------------------------------------
(* Steps that promise and report nothing.                                  *)

SearchStay == {"queued", "searching", "items", "decide", "report"}

LEMMA SearchMove ==
  ASSUME Dependable, IInv, TypeOK', NEW j \in SearchJob, NEW l \in SearchStay,
         Goto(j, l),
         \/ pc[j] \in SearchStay \ {"report"} /\ carry' = carry
         \/ /\ pc[j] \in {"record"} \cup (SearchStay \ {"report"})
            /\ carry' = [carry EXCEPT ![j] = {}],
         attempts'[Orch] = attempts[Orch],
         UNCHANGED <<status, cancelRequested, awaitingSearch, awaitingAnalysis,
                     claimed, handled, seen>>
  PROVE  IInv' /\ SameOwed
<1> USE Apart DEF IInv, TypeOK, PcOK, Goto, SearchStay
<1>0. \A u \in Thread : carry'[u] = IF u = j THEN {} ELSE carry[u]
  BY DEF CarriedOnce, DataOK
<1>1. \A u \in Thread : pc'[u] = IF u = j THEN l ELSE pc[u]
  OBVIOUS
<1>2. NoCancel'
  BY <1>1 DEF NoCancel
<1>3. PlanningIsQuiet'
  BY <1>1 DEF PlanningIsQuiet, Planning
<1>4. PagesPromisedOnce'
  BY <1>1, ConstantsOK DEF PagesPromisedOnce, FinalLabel, ConstantsOK
<1>5. CarriedOnce'
  BY <1>0, <1>1 DEF CarriedOnce
<1>6. PendingSearch' = PendingSearch
  BY <1>1 DEF PendingSearch, Busy, FinalLabel
<1>7. PendingUnits' = PendingUnits
  BY <1>0, <1>1 DEF PendingUnits, Busy
<1>8. CountersCount' /\ FinishedWhenDrained'
  BY <1>1, <1>6, <1>7, NothingNew
<1>9. QED
  BY <1>2, <1>3, <1>4, <1>5, <1>6, <1>7, <1>8 DEF SameOwed

UnitStay == {"queued", "analysing", "acknowledge", "detect", "detecting",
             "detected", "report", "reportFailed"}

LEMMA UnitMove ==
  ASSUME Dependable, IInv, TypeOK', NEW r \in Repo, NEW l \in UnitStay,
         Goto(r, l),
         \/ pc[r] \in UnitStay /\ carry' = carry
         \/ pc[r] \in {"recordMore"} \cup UnitStay /\ carry' = [carry EXCEPT ![r] = {}],
         attempts'[Orch] = attempts[Orch],
         UNCHANGED <<status, cancelRequested, awaitingSearch, awaitingAnalysis,
                     claimed, handled, seen>>
  PROVE  IInv' /\ SameOwed
<1> USE Apart DEF IInv, TypeOK, PcOK, Goto, UnitStay
<1>0. \A u \in Thread : carry'[u] = IF u = r THEN {} ELSE carry[u]
  BY DEF CarriedOnce, DataOK
<1>1. \A u \in Thread : pc'[u] = IF u = r THEN l ELSE pc[u]
  OBVIOUS
<1>2. NoCancel'
  BY <1>1 DEF NoCancel
<1>3. PlanningIsQuiet'
  BY <1>1 DEF PlanningIsQuiet, Planning
<1>4. PagesPromisedOnce'
  BY <1>1, ConstantsOK DEF PagesPromisedOnce, FinalLabel, ConstantsOK
<1>5. CarriedOnce'
  BY <1>0, <1>1 DEF CarriedOnce
<1>6. PendingSearch' = PendingSearch
  BY <1>1 DEF PendingSearch, Busy, FinalLabel
<1>7. PendingUnits' = PendingUnits
  BY <1>0, <1>1 DEF PendingUnits, Busy, FinalLabel
<1>8. CountersCount' /\ FinishedWhenDrained'
  BY <1>1, <1>6, <1>7, NothingNew
<1>9. QED
  BY <1>2, <1>3, <1>4, <1>5, <1>6, <1>7, <1>8 DEF SameOwed

\* A scan that is over while it still owes something was aborted.
LEMMA OwingIsAborted ==
  ASSUME IInv, isTerminal \/ (\E t \in Thread : pc[t] \in {"finalize", "save"}),
         ~NothingOwed
  PROVE  aborted
BY DEF IInv, FinishedWhenDrained

\* A job of an aborted scan is dropped at its start.
LEMMA Dropped ==
  ASSUME Dependable, IInv, TypeOK', NEW u \in SearchJob \cup Repo,
         pc[u] = "queued", isTerminal, Goto(u, "done"),
         UNCHANGED <<scanDoc, work, attempts, seen>>
  PROVE  IInv' /\ SameOwed
<1> USE Apart DEF IInv, TypeOK, PcOK, Goto, scanDoc, work
<1>1. \A t \in Thread : pc'[t] = IF t = u THEN "done" ELSE pc[t]
  OBVIOUS
<1>2. NoCancel'
  BY <1>1 DEF NoCancel
<1>3. PlanningIsQuiet'
  BY <1>1 DEF PlanningIsQuiet, Planning
<1>4. PagesPromisedOnce'
  BY <1>1, ConstantsOK DEF PagesPromisedOnce, FinalLabel, ConstantsOK
<1>5. CarriedOnce'
  BY <1>1 DEF CarriedOnce
<1>6. ~NothingOwed
  BY DEF NothingOwed, PendingSearch, PendingUnits, Busy, FinalLabel
<1>7. aborted /\ aborted'
  BY <1>6, OwingIsAborted DEF aborted
<1>8. CountersCount' /\ FinishedWhenDrained'
  BY <1>1, <1>7 DEF CountersCount, FinishedWhenDrained, aborted
<1>9. QED
  BY <1>2, <1>3, <1>4, <1>5, <1>7, <1>8 DEF SameOwed

\* The steps of a search page that neither promise nor report.
LEMMA SearchQuiet ==
  ASSUME Dependable, IInv, TypeOK', NEW j \in SearchJob,
         \/ SearchBegin(j) \/ SearchAnswer(j) \/ EndOfPage(j) \/ NoMorePages(j)
         \/ SearchFault(j)
  PROVE  IInv' /\ SameOwed
<1> USE Apart
<1>1. ~isCancelled
  BY DEF IInv, NoCancel, isCancelled
<1>2. pc[j] # "lastItems"
  BY DEF IInv, NoCancel
<1>3. CASE SearchBegin(j)
  <2>1. CASE Goto(j, "done")
    BY <1>1, <1>3, <2>1, Dropped DEF SearchBegin, Goto, IInv, TypeOK, PcOK
  <2>2. CASE Goto(j, "searching")
    BY <1>3, <2>2, SearchMove DEF SearchBegin, SearchStay, scanDoc, work
  <2>3. QED
    BY <1>1, <1>3, <2>1, <2>2 DEF SearchBegin
<1>4. CASE SearchAnswer(j)
  BY <1>4, SearchMove DEF SearchAnswer, SearchStay, scanDoc, work, Dependable
<1>5. CASE EndOfPage(j) \/ NoMorePages(j)
  BY <1>2, <1>5, FreshRead, SearchMove DEF EndOfPage, NoMorePages, SearchStay, scanDoc, work
<1>6. CASE SearchFault(j)
  <2>1. pc[j] \in {"searching", "items", "record", "decide"}
    BY <1>6, ConstantsOK DEF SearchFault, Dependable, EarlyFaults, SearchLabel, FinalLabel
  <2>2. carry' = [carry EXCEPT ![j] = {}]
    BY <1>6 DEF SearchFault, DropCarry
  <2>3. attempts'[Orch] = attempts[Orch]
    BY <1>6 DEF SearchFault, IInv, TypeOK, DataOK
  <2>4. Goto(j, "queued") \/ Goto(j, "report")
    BY <1>6 DEF SearchFault
  <2>5. QED
    BY <1>6, <2>1, <2>2, <2>3, <2>4, SearchMove DEF SearchFault, SearchStay
<1>7. QED
  BY <1>3, <1>4, <1>5, <1>6

LEMMA UnitQuiet ==
  ASSUME Dependable, IInv, TypeOK', NEW r \in Repo,
         \/ AnalysisBegin(r) \/ AnalysisResult(r) \/ DetectionBegin(r)
         \/ DetectionResult(r) \/ UnitFault(r)
  PROVE  IInv' /\ SameOwed
<1> USE Apart
<1>1. ~isCancelled
  BY DEF IInv, NoCancel, isCancelled
<1>2. CASE AnalysisBegin(r)
  <2>1. CASE Goto(r, "done")
    BY <1>1, <1>2, <2>1, Dropped DEF AnalysisBegin, Goto, IInv, TypeOK, PcOK
  <2>2. CASE Goto(r, "acknowledge") \/ Goto(r, "analysing")
    BY <1>2, <2>2, UnitMove DEF AnalysisBegin, UnitStay, scanDoc, work
  <2>3. QED
    BY <1>1, <1>2, <2>1, <2>2 DEF AnalysisBegin
<1>3. CASE AnalysisResult(r)
  <2>1. attempts'[Orch] = attempts[Orch]
    BY <1>3 DEF AnalysisResult, IInv, TypeOK, DataOK
  <2>2. QED
    BY <1>3, <2>1, UnitMove DEF AnalysisResult, UnitStay, scanDoc, work
<1>4. CASE DetectionBegin(r) \/ DetectionResult(r)
  BY <1>4, UnitMove DEF DetectionBegin, DetectionResult, UnitStay, scanDoc, work
<1>5. CASE UnitFault(r)
  <2>1. pc[r] \in {"analysing", "detecting", "recordMore"}
    BY <1>5, ConstantsOK DEF UnitFault, Dependable, EarlyFaults, UnitLabel, FinalLabel
  <2>2. carry' = [carry EXCEPT ![r] = {}]
    BY <1>5 DEF UnitFault, DropCarry
  <2>3. attempts'[Orch] = attempts[Orch]
    BY <1>5 DEF UnitFault, IInv, TypeOK, DataOK
  <2>4. \E l \in {"queued", "report", "detect", "reportFailed"} : Goto(r, l)
    BY <1>5 DEF UnitFault
  <2>5. QED
    BY <1>5, <2>1, <2>2, <2>3, <2>4, UnitMove DEF UnitFault, UnitStay, scanDoc
<1>6. QED
  BY <1>2, <1>3, <1>4, <1>5

-----------------------------------------------------------------------------
(* Steps that promise work.                                                *)

\* A busy thread of a scan that is not aborted keeps it from being finalized.
LEMMA BusyIsOpen ==
  ASSUME IInv, ~aborted, NEW u \in SearchJob \cup Repo, Busy(u)
  PROVE  ~isTerminal /\ \A t \in Thread : pc[t] \notin {"finalize", "save"}
BY OwingIsAborted, Apart DEF NothingOwed, PendingSearch, PendingUnits

\* A thread claims a repository, and owes nothing for it yet.
LEMMA Claims ==
  ASSUME Dependable, IInv, TypeOK', NEW u \in SearchJob \cup Repo,
         NEW s \in Repo, s \notin claimed, NEW l \in {"record", "recordMore"},
         pc[u] \in {"items", "detecting"}, Goto(u, l),
         claimed' = claimed \cup {s}, carry' = [carry EXCEPT ![u] = {s}],
         UNCHANGED <<status, cancelRequested, awaitingSearch, awaitingAnalysis, handled,
                     attempts, seen>>
  PROVE  IInv' /\ SameOwed
<1> USE Apart DEF IInv, TypeOK, PcOK, Goto
<1>1. \A t \in Thread : pc'[t] = IF t = u THEN l ELSE pc[t]
  OBVIOUS
<1>2. \A t \in Thread : carry'[t] = IF t = u THEN {s} ELSE carry[t]
  BY DEF DataOK
<1>3. NoCancel'
  BY <1>1 DEF NoCancel
<1>4. PlanningIsQuiet'
  BY <1>1 DEF PlanningIsQuiet, Planning
<1>5. PagesPromisedOnce'
  BY <1>1, ConstantsOK DEF PagesPromisedOnce, FinalLabel, ConstantsOK
<1>6. pc[s] = "absent" /\ s # u /\ \A t \in Thread : s \notin carry[t]
  BY DEF CarriedOnce
<1>7. CarriedOnce'
  BY <1>1, <1>2, <1>6 DEF CarriedOnce
<1>8. PendingSearch' = PendingSearch
  BY <1>1 DEF PendingSearch, Busy, FinalLabel
<1>9. PendingUnits' = PendingUnits
  <2>1. \A r \in Repo : Busy(r)' <=> Busy(r)
    BY <1>1 DEF Busy, FinalLabel
  <2>2. \A t \in Thread : pc'[t] \in {"add", "addLast", "addMore"} \/ pc[t] \in {"add", "addLast", "addMore"}
                           => pc'[t] = pc[t] /\ carry'[t] = carry[t]
    BY <1>1, <1>2
  <2>3. QED
    BY <2>1, <2>2 DEF PendingUnits
<1>10. CountersCount' /\ FinishedWhenDrained'
  BY <1>1, <1>8, <1>9, NothingNew
<1>11. QED
  BY <1>3, <1>4, <1>5, <1>7, <1>8, <1>9, <1>10 DEF SameOwed

\* ... and records it: from here on the repository is owed.
LEMMA Records ==
  ASSUME Dependable, IInv, TypeOK', NEW u \in SearchJob \cup Repo,
         NEW l \in {"add", "addMore"},
         pc[u] \in {"record", "recordMore"}, Goto(u, l),
         awaitingAnalysis' = awaitingAnalysis + 1,
         UNCHANGED <<status, cancelRequested, awaitingSearch, claimed, handled, carry,
                     attempts, seen>>
  PROVE  /\ IInv' /\ PendingSearch' = PendingSearch
         /\ \E s \in Repo \ PendingUnits : /\ carry[u] = {s}
                                           /\ PendingUnits' = PendingUnits \cup {s}
<1> USE Apart DEF IInv, TypeOK, PcOK, Goto
<1>1. \A t \in Thread : pc'[t] = IF t = u THEN l ELSE pc[t]
  OBVIOUS
<1>2. PICK s \in Repo : carry[u] = {s}
  BY DEF CarriedOnce
<1>3. NoCancel'
  BY <1>1 DEF NoCancel
<1>4. PlanningIsQuiet'
  BY <1>1 DEF PlanningIsQuiet, Planning
<1>5. PagesPromisedOnce'
  BY <1>1, ConstantsOK DEF PagesPromisedOnce, FinalLabel, ConstantsOK
<1>6. pc[s] = "absent" /\ s # u /\ \A t \in Thread : t # u => s \notin carry[t]
  BY <1>2 DEF CarriedOnce
<1>7. CarriedOnce'
  BY <1>1, <1>6 DEF CarriedOnce
<1>8. PendingSearch' = PendingSearch
  BY <1>1 DEF PendingSearch, Busy, FinalLabel
<1>9. PendingUnits' = PendingUnits \cup {s} /\ s \notin PendingUnits
  <2>1. s \notin PendingUnits
    BY <1>6 DEF PendingUnits, Busy
  <2>2. \A r \in Repo : Busy(r)' <=> Busy(r)
    BY <1>1 DEF Busy, FinalLabel
  <2>3. \A r \in Repo :
          (\E t \in Thread : pc'[t] \in {"add", "addLast", "addMore"} /\ r \in carry[t])
          <=> r = s \/ \E t \in Thread : pc[t] \in {"add", "addLast", "addMore"} /\ r \in carry[t]
    BY <1>1, <1>2
  <2>4. QED
    BY <2>1, <2>2, <2>3 DEF PendingUnits
<1>10. Cardinality(PendingUnits') = Cardinality(PendingUnits) + 1
  BY <1>9, OwedFinite, FS_AddElement
<1>11. CountersCount'
  BY <1>8, <1>10 DEF CountersCount, aborted
<1>12. FinishedWhenDrained'
  <2>1. Busy(u)
    BY DEF Busy, FinalLabel
  <2>2. CASE aborted
    BY <1>1, <2>2 DEF FinishedWhenDrained, aborted
  <2>3. CASE ~aborted
    BY <1>1, <2>1, <2>3, BusyIsOpen DEF FinishedWhenDrained, aborted, isTerminal
  <2>4. QED
    BY <2>2, <2>3
<1>13. QED
  BY <1>2, <1>3, <1>4, <1>5, <1>7, <1>8, <1>9, <1>11, <1>12

\* The repository is handed over to its analysis job.
LEMMA HandedOver ==
  ASSUME Dependable, IInv, TypeOK', NEW u \in SearchJob \cup Repo,
         pc[u] \in {"add", "addMore"}, NEW l \in {"items", "detecting"},
         GotoAdding(u, l, carry[u]), carry' = [carry EXCEPT ![u] = {}],
         UNCHANGED <<scanDoc, claimed, handled, attempts, seen>>
  PROVE  IInv' /\ SameOwed
<1> USE Apart DEF IInv, TypeOK, PcOK, scanDoc
<1>1. \A t \in Thread : pc'[t] = IF t = u THEN l
                                 ELSE IF t \in carry[u] THEN "queued" ELSE pc[t]
  BY DEF GotoAdding, Known, CarriedOnce
<1>2. \A t \in Thread : carry'[t] = IF t = u THEN {} ELSE carry[t]
  BY DEF DataOK
<1>3. carry[u] \subseteq Repo /\ u \notin carry[u]
  BY DEF DataOK, CarriedOnce
<1>4. NoCancel'
  BY <1>1, <1>3 DEF NoCancel
<1>5. PlanningIsQuiet'
  BY <1>1, <1>3 DEF PlanningIsQuiet, Planning
<1>6. PagesPromisedOnce'
  BY <1>1, <1>3, ConstantsOK DEF PagesPromisedOnce, FinalLabel, ConstantsOK
<1>7. CarriedOnce'
  <2>1. \A t \in Thread :
          /\ pc'[t] \notin {"record", "recordMore", "add", "addMore"} => carry'[t] = {}
          /\ pc'[t] \in {"record", "recordMore"} => \E r \in Repo : carry'[t] = {r}
    BY <1>1, <1>2, <1>3 DEF CarriedOnce
  <2>2. \A t \in Thread : \A r \in carry'[t] : pc'[r] = "absent" /\ r \in claimed
    BY <1>1, <1>2 DEF CarriedOnce, DataOK
  <2>3. \A t, v \in Thread : t # v => carry'[t] \cap carry'[v] = {}
    BY <1>2 DEF CarriedOnce
  <2>4. \A r \in Repo : pc'[r] # "absent" => r \in claimed
    BY <1>1 DEF CarriedOnce
  <2>5. QED
    BY <2>1, <2>2, <2>3, <2>4 DEF CarriedOnce
<1>8. PendingSearch' = PendingSearch
  BY <1>1, <1>3 DEF PendingSearch, Busy, FinalLabel
<1>9. PendingUnits' = PendingUnits
  <2>1. \A r \in Repo : Busy(r)' <=> Busy(r) \/ r \in carry[u]
    BY <1>1 DEF Busy, FinalLabel, CarriedOnce
  <2>2. \A t \in Thread \ {u} : /\ carry'[t] = carry[t]
                                /\ pc'[t] \in {"add", "addLast", "addMore"}
                                   <=> pc[t] \in {"add", "addLast", "addMore"}
    BY <1>1, <1>2, <1>3 DEF CarriedOnce
  <2>3. carry'[u] = {} /\ pc[u] \in {"add", "addLast", "addMore"}
    BY <1>2
  <2>4. QED
    BY <2>1, <2>2, <2>3 DEF PendingUnits
<1>10. CountersCount' /\ FinishedWhenDrained'
  BY <1>1, <1>3, <1>8, <1>9, NothingNew
<1>11. QED
  BY <1>4, <1>5, <1>6, <1>7, <1>8, <1>9, <1>10 DEF SameOwed

\* A search page claims an item, or an expansion a related repository, ...
LEMMA RepoClaimed ==
  ASSUME Dependable, IInv, TypeOK', NEW u \in SearchJob \cup Repo, NEW s \in Repo,
         \/ u \in SearchJob /\ ClaimItem(u, s)
         \/ u \in Repo /\ Expand(u, s)
  PROVE  IInv' /\ SameOwed
<1> USE Apart
<1>1. CASE u \in SearchJob /\ ClaimItem(u, s)
  <2>1. pc[u] = "items"
    BY <1>1 DEF ClaimItem, IInv, NoCancel
  <2>2. QED
    BY <1>1, <2>1, Claims DEF ClaimItem, scanDoc
<1>2. CASE u \in Repo /\ Expand(u, s)
  BY <1>2, Claims DEF Expand, scanDoc
<1>3. QED
  BY <1>1, <1>2

\* ... records it, ...
LEMMA RepoRecorded ==
  ASSUME Dependable, IInv, TypeOK', NEW u \in SearchJob \cup Repo,
         \/ u \in SearchJob /\ RecordItem(u)
         \/ u \in Repo /\ RecordExpanded(u)
  PROVE  /\ IInv' /\ PendingSearch' = PendingSearch
         /\ \E s \in Repo \ PendingUnits : /\ carry[u] = {s}
                                           /\ PendingUnits' = PendingUnits \cup {s}
         /\ pc[u] \in {"record", "recordMore"} /\ \E l \in {"add", "addMore"} : Goto(u, l)
         /\ UNCHANGED <<status, work, processed, failed, attempts, seen>>
<1> USE Apart
<1>1. CASE u \in SearchJob /\ RecordItem(u)
  <2>1. kind = "search" /\ pc[u] = "record"
    BY <1>1 DEF RecordItem, IInv, TypeOK, DataOK, Dependable, NoCancel
  <2>2. /\ Goto(u, "add") /\ awaitingAnalysis' = awaitingAnalysis + 1
        /\ UNCHANGED <<status, cancelRequested, awaitingSearch, processed, failed, work,
                       attempts, seen>>
    BY <1>1, <2>1 DEF RecordItem, work
  <2>3. QED
    BY <2>1, <2>2, Records DEF work
<1>2. CASE u \in Repo /\ RecordExpanded(u)
  BY <1>2, Records DEF RecordExpanded, work
<1>3. QED
  BY <1>1, <1>2

\* ... and enqueues its analysis.
LEMMA RepoEnqueued ==
  ASSUME Dependable, IInv, TypeOK', NEW u \in SearchJob \cup Repo,
         \/ u \in SearchJob /\ AddAnalysis(u)
         \/ u \in Repo /\ AddExpanded(u)
  PROVE  IInv' /\ SameOwed
<1> USE Apart
<1>1. CASE u \in SearchJob /\ AddAnalysis(u)
  <2>1. pc[u] = "add"
    BY <1>1 DEF AddAnalysis, IInv, NoCancel
  <2>2. QED
    BY <1>1, <2>1, HandedOver DEF AddAnalysis
<1>2. CASE u \in Repo /\ AddExpanded(u)
  BY <1>2, HandedOver DEF AddExpanded
<1>3. QED
  BY <1>1, <1>2

\* A continuation page is credited ...
LEMMA PageCredited ==
  ASSUME Dependable, IInv, TypeOK', NEW j \in SearchJob, CreditNextPage(j)
  PROVE  IInv' /\ PendingSearch \subseteq PendingSearch' /\ PendingUnits' = PendingUnits
<1> USE Apart DEF IInv, TypeOK, PcOK, Goto, CreditNextPage, work
<1>1. \A t \in Thread : pc'[t] = IF t = j THEN "addNext" ELSE pc[t]
  OBVIOUS
<1>2. PICK k \in NextPage[j] : NextPage[j] = {k}
  BY ConstantsOK DEF ConstantsOK
<1>3. k \in SearchJob /\ pc[k] = "absent"
  BY <1>2, ConstantsOK DEF ConstantsOK, PagesPromisedOnce, FinalLabel
<1>4. NoCancel'
  BY <1>1 DEF NoCancel
<1>5. PlanningIsQuiet'
  BY <1>1 DEF PlanningIsQuiet, Planning
<1>6. PagesPromisedOnce'
  BY <1>1, <1>2, <1>3, ConstantsOK DEF PagesPromisedOnce, FinalLabel, ConstantsOK
<1>7. CarriedOnce'
  BY <1>1 DEF CarriedOnce
<1>8. k \notin PendingSearch
  <2>1. k \notin Root
    BY <1>2, JobForest
  <2>2. \A i \in SearchJob : k \in NextPage[i] => i = j
    BY <1>2, JobForest
  <2>3. QED
    BY <1>3, <2>1, <2>2 DEF PendingSearch, Busy
<1>9. PendingSearch' = PendingSearch \cup {k}
  <2>1. \A i \in SearchJob : Busy(i)' <=> Busy(i)
    BY <1>1 DEF Busy, FinalLabel
  <2>2. \A i \in SearchJob : (\E h \in SearchJob : pc'[h] = "addNext" /\ i \in NextPage[h])
          <=> i = k \/ (\E h \in SearchJob : pc[h] = "addNext" /\ i \in NextPage[h])
    BY <1>1, <1>2
  <2>3. QED
    BY <1>1, <1>3, <2>1, <2>2 DEF PendingSearch
<1>10. Cardinality(PendingSearch') = Cardinality(PendingSearch) + 1
  BY <1>8, <1>9, OwedFinite, FS_AddElement
<1>11. PendingUnits' = PendingUnits
  BY <1>1 DEF PendingUnits, Busy
<1>12. CountersCount'
  BY <1>10, <1>11 DEF CountersCount, aborted
<1>13. FinishedWhenDrained'
  <2>1. Busy(j)
    BY DEF Busy, FinalLabel
  <2>2. CASE aborted
    BY <1>1, <2>2 DEF FinishedWhenDrained, aborted
  <2>3. CASE ~aborted
    BY <1>1, <2>1, <2>3, BusyIsOpen DEF FinishedWhenDrained, aborted, isTerminal
  <2>4. QED
    BY <2>2, <2>3
<1>14. QED
  BY <1>4, <1>5, <1>6, <1>7, <1>9, <1>11, <1>12, <1>13

\* ... and enqueued.
LEMMA PageEnqueued ==
  ASSUME Dependable, IInv, TypeOK', NEW j \in SearchJob, AddNextPage(j)
  PROVE  IInv' /\ SameOwed
<1> USE Apart DEF IInv, TypeOK, PcOK, AddNextPage, scanDoc, work
<1>1. \A t \in Thread : pc'[t] = IF t = j THEN "report"
                                 ELSE IF t \in NextPage[j] THEN "queued" ELSE pc[t]
  BY DEF GotoAdding, Known, PagesPromisedOnce
<1>2. /\ NextPage[j] \subseteq SearchJob /\ j \notin NextPage[j]
      /\ \A k \in NextPage[j] : pc[k] = "absent" /\ k \notin Root
  BY ConstantsOK, JobForest DEF ConstantsOK, PagesPromisedOnce
<1>3. NoCancel'
  BY <1>1, <1>2 DEF NoCancel
<1>4. PlanningIsQuiet'
  BY <1>1, <1>2 DEF PlanningIsQuiet, Planning
<1>5. PagesPromisedOnce'
  <2>1. \A i \in Root : pc'[i] # "absent" => i \in handled
    BY <1>1, <1>2, ConstantsOK DEF PagesPromisedOnce, ConstantsOK
  <2>2. pc'[Orch] \in {"fanout", "addRoot"} => ~ Root \subseteq handled
    BY <1>1, <1>2 DEF PagesPromisedOnce
  <2>3. ASSUME NEW i \in SearchJob, NEW k \in NextPage[i]
        PROVE  /\ pc'[k] # "absent" => pc'[i] \in {"report"} \cup FinalLabel
               /\ pc'[i] = "addNext" => pc'[k] = "absent"
    <3>1. k \in SearchJob /\ k # i
      BY ConstantsOK, JobForest DEF ConstantsOK
    <3>2. CASE i = j
      BY <1>1, <3>2
    <3>3. CASE i \in NextPage[j]
      <4>1. k \notin NextPage[j] /\ i # j /\ k # j
        BY <1>2, <3>1, <3>3, JobForest DEF PagesPromisedOnce, FinalLabel
      <4>2. QED
        BY <1>1, <1>2, <3>1, <3>3, <4>1 DEF PagesPromisedOnce, FinalLabel
    <3>4. CASE i # j /\ i \notin NextPage[j]
      <4>1. k \notin NextPage[j]
        BY <3>4, JobForest
      <4>2. QED
        BY <1>1, <3>1, <3>4, <4>1 DEF PagesPromisedOnce, FinalLabel
    <3>5. QED
      BY <3>2, <3>3, <3>4
  <2>4. QED
    BY <2>1, <2>2, <2>3 DEF PagesPromisedOnce
<1>6. CarriedOnce'
  BY <1>1, <1>2 DEF CarriedOnce, DataOK
<1>7. PendingSearch' = PendingSearch
  <2>1. \A i \in SearchJob : Busy(i)' <=> Busy(i) \/ i \in NextPage[j]
    BY <1>1, <1>2 DEF Busy, FinalLabel
  <2>2. \A i \in SearchJob : (\E h \in SearchJob : pc[h] = "addNext" /\ i \in NextPage[h])
          <=> \/ i \in NextPage[j]
              \/ \E h \in SearchJob : pc'[h] = "addNext" /\ i \in NextPage[h]
    BY <1>1, <1>2
  <2>3. QED
    BY <1>1, <1>2, <2>1, <2>2 DEF PendingSearch
<1>8. PendingUnits' = PendingUnits
  BY <1>1, <1>2 DEF PendingUnits, Busy
<1>9. CountersCount' /\ FinishedWhenDrained'
  BY <1>1, <1>2, <1>7, <1>8, NothingNew
<1>10. QED
  BY <1>3, <1>4, <1>5, <1>6, <1>7, <1>8, <1>9 DEF SameOwed

-----------------------------------------------------------------------------
(* Steps that report work.                                                 *)

LEMMA PageReported ==
  ASSUME Dependable, IInv, TypeOK', NEW j \in SearchJob, completeSearchJob(j)
  PROVE  IInv' /\ j \in PendingSearch /\ PendingSearch' = PendingSearch \ {j}
         /\ PendingUnits' = PendingUnits
<1> USE Apart DEF IInv, TypeOK, PcOK, Goto, completeSearchJob, work
<1>1. \A t \in Thread : pc'[t] = IF t = j THEN "tryFinalize" ELSE pc[t]
  OBVIOUS
<1>2. NoCancel'
  BY <1>1 DEF NoCancel
<1>3. PlanningIsQuiet'
  BY <1>1 DEF PlanningIsQuiet, Planning
<1>4. PagesPromisedOnce'
  BY <1>1, ConstantsOK DEF PagesPromisedOnce, FinalLabel, ConstantsOK
<1>5. CarriedOnce'
  BY <1>1 DEF CarriedOnce
<1>6. j \in PendingSearch
  BY DEF PendingSearch, Busy, FinalLabel
<1>7. PendingSearch' = PendingSearch \ {j}
  <2>1. j \notin Root \ handled
    BY DEF PagesPromisedOnce
  <2>2. ~ \E k \in SearchJob : pc[k] = "addNext" /\ j \in NextPage[k]
    BY DEF PagesPromisedOnce
  <2>3. \A i \in SearchJob : Busy(i)' <=> Busy(i) /\ i # j
    BY <1>1 DEF Busy, FinalLabel
  <2>4. QED
    BY <1>1, <2>1, <2>2, <2>3 DEF PendingSearch
<1>8. Cardinality(PendingSearch') = Cardinality(PendingSearch) - 1
  BY <1>6, <1>7, OwedFinite, FS_RemoveElement
<1>9. PendingUnits' = PendingUnits
  BY <1>1 DEF PendingUnits, Busy
<1>10. CountersCount'
  BY <1>8, <1>9 DEF CountersCount, aborted
<1>11. FinishedWhenDrained'
  <2>1. Busy(j)
    BY DEF Busy, FinalLabel
  <2>2. CASE aborted
    BY <1>1, <2>2 DEF FinishedWhenDrained, aborted
  <2>3. CASE ~aborted
    BY <1>1, <2>1, <2>3, BusyIsOpen DEF FinishedWhenDrained, aborted, isTerminal
  <2>4. QED
    BY <2>2, <2>3
<1>12. QED
  BY <1>2, <1>3, <1>4, <1>5, <1>6, <1>7, <1>9, <1>10, <1>11

LEMMA UnitReported ==
  ASSUME Dependable, IInv, TypeOK', NEW r \in Repo,
         completeAnalysisUnit(r) \/ Acknowledge(r)
  PROVE  IInv' /\ r \in PendingUnits /\ PendingUnits' = PendingUnits \ {r}
         /\ PendingSearch' = PendingSearch
<1> USE Apart DEF IInv, TypeOK, PcOK, Goto, CountUnit, work
<1>1. /\ \A t \in Thread : pc'[t] = IF t = r THEN "tryFinalize" ELSE pc[t]
      /\ pc[r] \in {"report", "detected", "reportFailed", "acknowledge"}
      /\ UNCHANGED <<status, cancelRequested, awaitingSearch, claimed, handled,
                     carry, attempts, seen>>
  BY DEF completeAnalysisUnit, Acknowledge
<1>2. NoCancel'
  BY <1>1 DEF NoCancel
<1>3. PlanningIsQuiet'
  BY <1>1 DEF PlanningIsQuiet, Planning
<1>4. PagesPromisedOnce'
  BY <1>1, ConstantsOK DEF PagesPromisedOnce, FinalLabel, ConstantsOK
<1>5. CarriedOnce'
  <2>1. \A t \in Thread :
          /\ pc'[t] \notin {"record", "recordMore", "add", "addMore"} => carry[t] = {}
          /\ pc'[t] \in {"record", "recordMore"} => \E q \in Repo : carry[t] = {q}
    BY <1>1 DEF CarriedOnce
  <2>2. \A t \in Thread : \A q \in carry[t] : pc'[q] = "absent" /\ q \in claimed
    BY <1>1 DEF CarriedOnce, DataOK
  <2>3. \A q \in Repo : pc'[q] # "absent" => q \in claimed
    BY <1>1 DEF CarriedOnce
  <2>4. QED
    BY <1>1, <2>1, <2>2, <2>3 DEF CarriedOnce
<1>6. r \in PendingUnits
  BY <1>1 DEF PendingUnits, Busy, FinalLabel
<1>7. PendingUnits' = PendingUnits \ {r}
  <2>1. \A t \in Thread : r \notin carry[t]
    BY <1>1 DEF CarriedOnce
  <2>2. \A q \in Repo : Busy(q)' <=> Busy(q) /\ q # r
    BY <1>1 DEF Busy, FinalLabel
  <2>3. QED
    BY <1>1, <2>1, <2>2 DEF PendingUnits
<1>8. /\ Cardinality(PendingUnits') = Cardinality(PendingUnits) - 1
      /\ Cardinality(PendingUnits') \in Nat
  <2>1. IsFiniteSet(PendingUnits')
    BY <1>7, OwedFinite, FS_RemoveElement
  <2>2. QED
    BY <1>6, <1>7, <2>1, OwedFinite, FS_RemoveElement, FS_CardinalityType
<1>9. PendingSearch' = PendingSearch
  BY <1>1 DEF PendingSearch, Busy, FinalLabel
<1>10. CountersCount'
  <2>1. ~aborted => awaitingAnalysis' = awaitingAnalysis - 1
    BY <1>8, OwedFinite DEF completeAnalysisUnit, Acknowledge, CountersCount
  <2>2. QED
    BY <1>1, <1>8, <1>9, <2>1 DEF CountersCount, aborted
<1>11. FinishedWhenDrained'
  <2>1. Busy(r)
    BY <1>1 DEF Busy, FinalLabel
  <2>2. CASE aborted
    BY <1>1, <2>2 DEF FinishedWhenDrained, aborted
  <2>3. CASE ~aborted
    BY <1>1, <2>1, <2>3, BusyIsOpen DEF FinishedWhenDrained, aborted, isTerminal
  <2>4. QED
    BY <2>2, <2>3
<1>12. QED
  BY <1>2, <1>3, <1>4, <1>5, <1>6, <1>7, <1>9, <1>10, <1>11

-----------------------------------------------------------------------------
(* Finalizing.                                                             *)

\* A finalize moves among the final labels, so it owes what it owed before.
LEMMA FinalMove ==
  ASSUME Dependable, IInv, NEW u \in SearchJob \cup Repo, NEW l \in FinalLabel,
         pc[u] \in FinalLabel, Goto(u, l), UNCHANGED <<handled, carry, claimed>>
  PROVE  /\ PendingSearch' = PendingSearch /\ PendingUnits' = PendingUnits
         /\ PlanningIsQuiet' /\ PagesPromisedOnce' /\ CarriedOnce'
<1> USE Apart DEF IInv, TypeOK, PcOK, Goto, FinalLabel
<1>1. \A t \in Thread : pc'[t] = IF t = u THEN l ELSE pc[t]
  OBVIOUS
<1>2. PlanningIsQuiet'
  BY <1>1 DEF PlanningIsQuiet, Planning
<1>3. PagesPromisedOnce'
  BY <1>1, ConstantsOK DEF PagesPromisedOnce, ConstantsOK
<1>4. CarriedOnce'
  BY <1>1 DEF CarriedOnce
<1>5. PendingSearch' = PendingSearch
  BY <1>1 DEF PendingSearch, Busy
<1>6. PendingUnits' = PendingUnits
  BY <1>1 DEF PendingUnits, Busy
<1>7. QED
  BY <1>2, <1>3, <1>4, <1>5, <1>6

LEMMA Finalized ==
  ASSUME Dependable, IInv, TypeOK', NEW u \in SearchJob \cup Repo, Finalizing(u)
  PROVE  IInv' /\ SameOwed
<1> USE Apart DEF IInv
<1>1. CASE TryFinalize(u)
  <2> USE <1>1 DEF TryFinalize, Goto, TypeOK, PcOK, scanDoc, work
  <2>1. PICK l \in {"finalize", "done"} : Goto(u, l)
    BY DEF FinalLabel
  <2>2. /\ PendingSearch' = PendingSearch /\ PendingUnits' = PendingUnits
        /\ PlanningIsQuiet' /\ PagesPromisedOnce' /\ CarriedOnce'
    BY <2>1, FinalMove DEF FinalLabel
  <2>3. \A t \in Thread : pc'[t] = IF t = u THEN l ELSE pc[t]
    BY <2>1
  <2>4. NoCancel'
    BY <2>1, <2>3 DEF NoCancel
  <2>5. l = "finalize" => ~aborted /\ NothingOwed
    <3>1. ASSUME l = "finalize"
          PROVE  ~isTerminal /\ awaitingSearch <= 0 /\ awaitingAnalysis <= 0
      BY <2>1, <3>1 DEF NoCancel
    <3>2. ASSUME l = "finalize" PROVE ~aborted
      BY <3>1, <3>2 DEF FinishedWhenDrained, isTerminal, Terminal
    <3>3. ASSUME l = "finalize" PROVE NothingOwed
      BY <3>1, <3>2, <3>3, OwedFinite, FS_EmptySet DEF CountersCount, NothingOwed
    <3>4. QED
      BY <3>2, <3>3
  <2>6. CountersCount'
    BY <2>2 DEF CountersCount, aborted
  <2>7. FinishedWhenDrained'
    BY <2>2, <2>3, <2>5 DEF FinishedWhenDrained, aborted, NothingOwed, isTerminal
  <2>8. QED
    BY <2>2, <2>4, <2>6, <2>7 DEF SameOwed
<1>2. CASE FinalizeRead(u)
  <2> USE <1>2 DEF FinalizeRead, Goto, TypeOK, PcOK, scanDoc, work
  <2>1. /\ PendingSearch' = PendingSearch /\ PendingUnits' = PendingUnits
        /\ PlanningIsQuiet' /\ PagesPromisedOnce' /\ CarriedOnce'
    BY FinalMove DEF FinalLabel
  <2>2. \A t \in Thread : pc'[t] = IF t = u THEN "save" ELSE pc[t]
    OBVIOUS
  <2>3. Verdict \notin Active \cup {"CANCELLED"}
    BY DEF Verdict, Active, isCancelled, NoCancel
  <2>4. NoCancel'
    BY <2>2, <2>3 DEF NoCancel, DataOK
  <2>5. CountersCount'
    BY <2>1 DEF CountersCount, aborted
  <2>6. FinishedWhenDrained'
    BY <2>1, <2>2 DEF FinishedWhenDrained, aborted, NothingOwed, isTerminal
  <2>7. QED
    BY <2>1, <2>4, <2>5, <2>6 DEF SameOwed
<1>3. CASE FinalizeSave(u)
  <2> USE <1>3 DEF FinalizeSave, TypeOK, PcOK, work
  <2>1. kind = "search" /\ Goto(u, "done")
    BY DEF Dependable, DataOK
  <2>2. /\ PendingSearch' = PendingSearch /\ PendingUnits' = PendingUnits
        /\ PlanningIsQuiet' /\ PagesPromisedOnce' /\ CarriedOnce'
    BY <2>1, FinalMove DEF FinalLabel
  <2>3. \A t \in Thread : pc'[t] = IF t = u THEN "done" ELSE pc[t]
    BY <2>1 DEF Goto
  <2>4. seen[u].to \notin Active \cup {"CANCELLED"} /\ status # "CANCELLED"
    BY DEF NoCancel
  <2>5. NoCancel'
    BY <2>3, <2>4 DEF NoCancel, DataOK
  <2>6. ~aborted /\ NothingOwed
    BY DEF FinishedWhenDrained
  <2>7. CountersCount'
    BY <2>2 DEF CountersCount, aborted
  <2>8. FinishedWhenDrained'
    BY <2>2, <2>3, <2>6 DEF FinishedWhenDrained, aborted, NothingOwed
  <2>9. QED
    BY <2>2, <2>5, <2>7, <2>8 DEF SameOwed
<1>4. CASE RestartWatch(u) \/ CreateSuccessor(u)
  BY <1>4 DEF RestartWatch, CreateSuccessor, NoCancel
<1>5. QED
  BY <1>1, <1>2, <1>3, <1>4 DEF Finalizing

-----------------------------------------------------------------------------
(* The orchestrator.                                                       *)

\* Before the fan-out nothing is owed.
LEMMA PlanningOwesNothing ==
  ASSUME Dependable, IInv, Planning
  PROVE  PendingSearch = {} /\ PendingUnits = {}
<1> USE Apart DEF IInv, PlanningIsQuiet, Planning
<1>1. \A t \in SearchJob \cup Repo : pc[t] = "absent"
  OBVIOUS
<1>2. pc[Orch] \notin {"fanout", "addRoot", "record", "recordMore", "add", "addMore"}
  OBVIOUS
<1>3. \A t \in Thread : carry[t] = {}
  BY <1>1, <1>2 DEF CarriedOnce, Thread, NoCancel
<1>4. QED
  BY <1>1, <1>2, <1>3 DEF PendingSearch, PendingUnits, Busy

\* The steps up to the fan-out.
LEMMA PlanningMove ==
  ASSUME Dependable, IInv, TypeOK', Planning,
         NEW l \in {"queued", "mark", "config", "plan", "early"}, Goto(Orch, l),
         status' \in Active, handled' = {},
         UNCHANGED <<cancelRequested, awaitingSearch, awaitingAnalysis, claimed, carry,
                     attempts, seen>>
  PROVE  IInv' /\ SameOwed
<1> USE Apart DEF IInv, TypeOK, PcOK, Goto
<1>1. \A t \in Thread : pc'[t] = IF t = Orch THEN l ELSE pc[t]
  OBVIOUS
<1>2. handled = {} /\ ~aborted /\ \A t \in SearchJob \cup Repo : pc[t] = "absent"
  BY DEF PlanningIsQuiet
<1>3. NoCancel'
  BY <1>1 DEF NoCancel, Active
<1>4. PlanningIsQuiet'
  BY <1>1, <1>2 DEF PlanningIsQuiet, Planning, aborted
<1>5. PagesPromisedOnce'
  BY <1>1, <1>2, ConstantsOK DEF PagesPromisedOnce, ConstantsOK
<1>6. CarriedOnce'
  BY <1>1 DEF CarriedOnce, DataOK, Planning
<1>7. PendingSearch = {} /\ PendingUnits = {}
  BY PlanningOwesNothing
<1>8. PendingSearch' = {} /\ PendingUnits' = {}
  BY <1>1, <1>7 DEF PendingSearch, PendingUnits, Busy
<1>9. CountersCount'
  BY <1>7, <1>8 DEF CountersCount, aborted
<1>10. FinishedWhenDrained'
  BY <1>1, <1>2, <1>8 DEF FinishedWhenDrained, NothingOwed, aborted
<1>11. QED
  BY <1>3, <1>4, <1>5, <1>6, <1>7, <1>8, <1>9, <1>10 DEF SameOwed

LEMMA Planned ==
  ASSUME Dependable, IInv, TypeOK',
         OrchBegin \/ markRunning \/ OrchConfig \/ OrchQuotaPause
  PROVE  IInv' /\ SameOwed
<1>1. Planning /\ status \in Active /\ ~isCancelled /\ handled = {} /\ kind = "search"
  BY DEF IInv, TypeOK, DataOK, Dependable, PlanningIsQuiet, Planning, NoCancel,
         OrchBegin, markRunning, OrchConfig, OrchQuotaPause, isCancelled
<1>2. CASE OrchBegin
  BY <1>1, <1>2, PlanningMove DEF OrchBegin, scanDoc
<1>3. CASE markRunning
  BY <1>1, <1>3, PlanningMove DEF markRunning, Active, work
<1>4. CASE OrchConfig
  BY <1>1, <1>4, PlanningMove DEF OrchConfig, scanDoc, work
<1>5. CASE OrchQuotaPause
  BY <1>1, <1>5, PlanningMove DEF OrchQuotaPause, scanDoc, work
<1>6. QED
  BY <1>2, <1>3, <1>4, <1>5

\* A scan with nothing to do is completed on the spot.
LEMMA CompletedEarly ==
  ASSUME Dependable, IInv, TypeOK', markCompletedEarly
  PROVE  IInv' /\ SameOwed
<1> USE Apart DEF IInv, TypeOK, PcOK, Goto, markCompletedEarly, work
<1>1. \A t \in Thread : pc'[t] = IF t = Orch THEN "done" ELSE pc[t]
  OBVIOUS
<1>2. Planning
  BY DEF Planning
<1>3. /\ handled = {} /\ claimed = {} /\ ~aborted
      /\ \A t \in SearchJob \cup Repo : pc[t] = "absent"
  BY <1>2 DEF PlanningIsQuiet
<1>4. NoCancel'
  BY <1>1 DEF NoCancel
<1>5. PlanningIsQuiet'
  BY <1>1 DEF PlanningIsQuiet, Planning
<1>6. PagesPromisedOnce'
  BY <1>1, <1>3, ConstantsOK DEF PagesPromisedOnce, ConstantsOK
<1>7. CarriedOnce'
  BY <1>1 DEF CarriedOnce, DataOK
<1>8. PendingSearch' = {} /\ PendingUnits' = {}
  BY <1>1, <1>2, PlanningOwesNothing DEF PendingSearch, PendingUnits, Busy
<1>9. CountersCount'
  BY <1>8, FS_EmptySet DEF CountersCount
<1>10. FinishedWhenDrained'
  BY <1>3, <1>8 DEF FinishedWhenDrained, NothingOwed, aborted
<1>11. QED
  BY <1>2, <1>4, <1>5, <1>6, <1>7, <1>8, <1>9, <1>10, PlanningOwesNothing DEF SameOwed

\* The planned queries are promised all at once.
LEMMA QueriesSet ==
  ASSUME Dependable, IInv, TypeOK', setQueries
  PROVE  IInv' /\ PendingSearch \subseteq PendingSearch' /\ PendingUnits' = PendingUnits
<1> USE Apart DEF IInv, TypeOK, PcOK, Goto, setQueries, work
<1>0. copy' = copy /\ Goto(Orch, AfterPlan)
  BY FreshRead
<1>1. PICK l \in {"early", "fanout"} :
        /\ \A t \in Thread : pc'[t] = IF t = Orch THEN l ELSE pc[t]
        /\ l = "early" <=> Root = {}
  BY <1>0 DEF AfterPlan
<1>2. Planning
  BY DEF Planning
<1>3. /\ handled = {} /\ claimed = {} /\ ~aborted /\ status \in Active
      /\ \A t \in SearchJob \cup Repo : pc[t] = "absent"
  BY <1>2 DEF PlanningIsQuiet
<1>4. NoCancel'
  BY <1>1 DEF NoCancel
<1>5. PlanningIsQuiet'
  BY <1>1, <1>3 DEF PlanningIsQuiet, aborted
<1>6. PagesPromisedOnce'
  BY <1>1, <1>3, ConstantsOK DEF PagesPromisedOnce, ConstantsOK
<1>7. CarriedOnce'
  BY <1>1 DEF CarriedOnce, DataOK
<1>8. PendingSearch = {} /\ PendingUnits = {}
  BY <1>2, PlanningOwesNothing
<1>9. PendingSearch' = Root
  <2>1. \A j \in SearchJob : ~Busy(j)' /\ pc'[j] = "absent"
    BY <1>1, <1>3 DEF Busy
  <2>2. Root \subseteq SearchJob
    BY ConstantsOK DEF ConstantsOK
  <2>3. QED
    BY <1>1, <1>3, <2>1, <2>2 DEF PendingSearch
<1>10. PendingUnits' = {}
  BY <1>1, <1>8 DEF PendingUnits, Busy
<1>11. CountersCount'
  BY <1>8, <1>9, <1>10 DEF CountersCount, aborted
<1>12. FinishedWhenDrained'
  <2>1. \A t \in Thread : pc'[t] \notin {"finalize", "save"}
    BY <1>1, <1>2, <1>3 DEF Thread, NoCancel
  <2>2. ~isTerminal'
    BY <1>3 DEF isTerminal, Active, Terminal
  <2>3. QED
    BY <1>3, <2>1, <2>2 DEF FinishedWhenDrained, aborted
<1>13. QED
  BY <1>4, <1>5, <1>6, <1>7, <1>8, <1>9, <1>10, <1>11, <1>12

\* The loop that enqueues them.
LEMMA RootAdded ==
  ASSUME Dependable, IInv, TypeOK', NEW j \in Root, AddRoot(j)
  PROVE  IInv' /\ SameOwed
<1> USE Apart DEF IInv, TypeOK, PcOK, AddRoot, scanDoc
<1>1. j \in SearchJob /\ pc[j] = "absent" /\ j \notin handled
  BY ConstantsOK DEF ConstantsOK, PagesPromisedOnce
<1>2. PICK l \in {"tail", "fanout"} :
        /\ \A t \in Thread : pc'[t] = IF t = Orch THEN l
                                      ELSE IF t = j THEN "queued" ELSE pc[t]
        /\ l = "tail" <=> Root \subseteq handled'
  BY <1>1 DEF GotoAdding, Known
<1>3. NoCancel'
  BY <1>1, <1>2 DEF NoCancel
<1>4. PlanningIsQuiet'
  BY <1>2 DEF PlanningIsQuiet, Planning
<1>5. PagesPromisedOnce'
  <2>1. \A i \in SearchJob : j \notin NextPage[i]
    BY JobForest
  <2>2. \A i \in SearchJob : \A k \in NextPage[i] : k \in SearchJob /\ k # j
    BY <2>1, ConstantsOK DEF ConstantsOK
  <2>3. \A k \in NextPage[j] : pc[k] = "absent"
    BY <1>1 DEF PagesPromisedOnce, FinalLabel
  <2>4. \A i \in Root : pc'[i] # "absent" => i \in handled'
    BY <1>1, <1>2, ConstantsOK DEF PagesPromisedOnce, ConstantsOK
  <2>5. ASSUME NEW i \in SearchJob, NEW k \in NextPage[i]
        PROVE  /\ pc'[k] # "absent" => pc'[i] \in {"report"} \cup FinalLabel
               /\ pc'[i] = "addNext" => pc'[k] = "absent"
    BY <1>1, <1>2, <2>2, <2>3 DEF PagesPromisedOnce, FinalLabel
  <2>6. QED
    BY <1>2, <2>4, <2>5 DEF PagesPromisedOnce
<1>6. CarriedOnce'
  BY <1>1, <1>2 DEF CarriedOnce, DataOK
<1>7. PendingSearch' = PendingSearch
  <2>1. \A i \in SearchJob : Busy(i)' <=> Busy(i) \/ i = j
    BY <1>1, <1>2 DEF Busy, FinalLabel
  <2>2. \A i \in SearchJob : (pc'[Orch] \in {"fanout", "addRoot"} /\ i \in Root \ handled')
                             <=> i \in Root \ handled /\ i # j
    BY <1>2
  <2>3. \A h \in SearchJob : pc'[h] = "addNext" <=> pc[h] = "addNext"
    BY <1>1, <1>2
  <2>4. QED
    BY <1>1, <2>1, <2>2, <2>3 DEF PendingSearch
<1>8. PendingUnits' = PendingUnits
  BY <1>1, <1>2 DEF PendingUnits, Busy
<1>9. ~aborted
  BY DEF FinishedWhenDrained
<1>10. CountersCount' /\ FinishedWhenDrained'
  BY <1>2, <1>7, <1>8, <1>9, NothingNew
<1>11. QED
  BY <1>3, <1>4, <1>5, <1>6, <1>7, <1>8, <1>10 DEF SameOwed

LEMMA FannedOut ==
  ASSUME Dependable, IInv, TypeOK', FanOut \/ OrchTail
  PROVE  IInv' /\ SameOwed
<1> USE Apart DEF IInv, TypeOK, PcOK, Goto, FanOut, OrchTail, scanDoc, work
<1>1. ~isCancelled
  BY DEF NoCancel, isCancelled
<1>2. PICK l \in {"addRoot", "done"} :
        /\ \A t \in Thread : pc'[t] = IF t = Orch THEN l ELSE pc[t]
        /\ l = "addRoot" <=> pc[Orch] = "fanout"
        /\ l = "done" <=> pc[Orch] = "tail"
  BY <1>1, FreshRead
<1>3. UNCHANGED <<scanDoc, work, attempts, seen>>
  BY FreshRead
<1>4. NoCancel'
  BY <1>2 DEF NoCancel
<1>5. PlanningIsQuiet'
  BY <1>2 DEF PlanningIsQuiet, Planning
<1>6. PagesPromisedOnce'
  BY <1>2, ConstantsOK DEF PagesPromisedOnce, ConstantsOK
<1>7. CarriedOnce'
  BY <1>2, <1>3 DEF CarriedOnce, DataOK
<1>8. PendingSearch' = PendingSearch
  BY <1>2 DEF PendingSearch, Busy
<1>9. PendingUnits' = PendingUnits
  BY <1>2 DEF PendingUnits, Busy
<1>10. ~aborted
  BY <1>2 DEF FinishedWhenDrained
<1>11. CountersCount' /\ FinishedWhenDrained'
  BY <1>2, <1>3, <1>8, <1>9, <1>10, NothingNew
<1>12. QED
  BY <1>4, <1>5, <1>6, <1>7, <1>8, <1>9, <1>11 DEF SameOwed

\* The one attempt of the orchestrator fails while it plans or fans out: no
\* job has found the counters drained yet, and none will be finalized.
LEMMA Aborted ==
  ASSUME Dependable, IInv, TypeOK', OrchFault
  PROVE  IInv' /\ aborted' /\ pc[Orch] \in {"mark", "config", "plan", "fanout"}
<1> USE Apart DEF IInv, TypeOK, PcOK, Goto, OrchFault, work
<1>1. pc[Orch] \in {"mark", "config", "plan", "fanout"}
  BY DEF Dependable, EarlyFaults, NoCancel
<1>2. \A t \in Thread : pc'[t] = IF t = Orch THEN "done" ELSE pc[t]
  BY DEF Dependable, DataOK
<1>3. ~aborted /\ aborted'
  BY <1>1 DEF FinishedWhenDrained, aborted, DataOK
<1>4. \A t \in Thread : pc[t] \notin {"finalize", "save"}
  <2>1. CASE Planning
    BY <1>1, <2>1 DEF PlanningIsQuiet, Thread, NoCancel
  <2>2. CASE pc[Orch] = "fanout"
    <3>1. ~NothingOwed
      BY <2>2, ConstantsOK DEF PagesPromisedOnce, NothingOwed, PendingSearch, ConstantsOK
    <3>2. QED
      BY <1>3, <3>1, OwingIsAborted
  <2>3. QED
    BY <1>1, <2>1, <2>2 DEF Planning
<1>5. NoCancel'
  BY <1>2, <1>4 DEF NoCancel
<1>6. PlanningIsQuiet'
  BY <1>2 DEF PlanningIsQuiet, Planning
<1>7. PagesPromisedOnce'
  BY <1>2, ConstantsOK DEF PagesPromisedOnce, ConstantsOK
<1>8. CarriedOnce'
  <2>1. \A t \in Thread :
          /\ pc'[t] \notin {"record", "recordMore", "add", "addMore"} => carry[t] = {}
          /\ pc'[t] \in {"record", "recordMore"} => \E q \in Repo : carry[t] = {q}
    BY <1>1, <1>2 DEF CarriedOnce
  <2>2. \A t \in Thread : \A q \in carry[t] : pc'[q] = "absent" /\ q \in claimed
    BY <1>2 DEF CarriedOnce, DataOK
  <2>3. \A q \in Repo : pc'[q] # "absent" => q \in claimed
    BY <1>2 DEF CarriedOnce
  <2>4. QED
    BY <2>1, <2>2, <2>3 DEF CarriedOnce
<1>9. CountersCount' /\ FinishedWhenDrained'
  BY <1>2, <1>3, <1>4 DEF CountersCount, FinishedWhenDrained
<1>10. QED
  BY <1>1, <1>3, <1>5, <1>6, <1>7, <1>8, <1>9

-----------------------------------------------------------------------------
(* The theorem.                                                            *)

\* Nothing is owed at first, and the counters say so.
LEMMA InitIInv ==
  ASSUME Dependable, Init
  PROVE  IInv
<1> USE Apart DEF Init
<1>1. TypeOK
  BY InitTyped
<1>2. \A t \in Thread : /\ pc[t] = IF t = Orch THEN "queued"
                                   ELSE IF t = User THEN "idle" ELSE "absent"
                        /\ attempts[t] = 0 /\ carry[t] = {}
  OBVIOUS
<1>3. NoCancel
  BY <1>2 DEF NoCancel
<1>4. PlanningIsQuiet
  BY <1>2 DEF PlanningIsQuiet, Active, aborted
<1>5. PagesPromisedOnce
  BY <1>2, ConstantsOK DEF PagesPromisedOnce, ConstantsOK
<1>6. CarriedOnce
  BY <1>2 DEF CarriedOnce
<1>7. PendingSearch = {} /\ PendingUnits = {}
  BY <1>2 DEF PendingSearch, PendingUnits, Busy
<1>8. CountersCount
  BY <1>7, FS_EmptySet DEF CountersCount
<1>9. FinishedWhenDrained
  BY <1>2, <1>7 DEF FinishedWhenDrained, NothingOwed, aborted
<1>10. QED
  BY <1>1, <1>3, <1>4, <1>5, <1>6, <1>8, <1>9 DEF IInv

\* What a dependable scan never does: cancel, split a query, work off a
\* backlog, or throw after a report.
LEMMA Unreached ==
  ASSUME Dependable, IInv
  PROVE  /\ ~Cancel /\ \A t \in Thread : ~Sweep(t)
         /\ ~BulkDone /\ ~BulkCredit /\ \A rs \in SUBSET Repo : ~BulkChunk(rs)
         /\ ~Finalizing(Orch) /\ ~SaveCheckpoint(Orch, "planSave", AfterPlan)
         /\ ~SaveCheckpoint(Orch, "tailSave", "done")
         /\ \A j \in SearchJob : /\ ~SearchLateFault(j) /\ ~HalvesAdded(j)
                                 /\ ~CreditSplit(j)
                                 /\ ~SaveCheckpoint(j, "itemsSave", "decide")
                                 /\ ~SaveCheckpoint(j, "lastSave", "report")
                                 /\ \A h \in SearchJob : ~AddHalf(j, h)
         /\ \A r \in Repo : ~UnitLateFault(r)
<1> USE Apart DEF IInv, NoCancel
<1>1. ~Cancel /\ \A t \in Thread : ~Sweep(t)
  BY DEF Cancel, RequestCancel, CancelSave, Finalizing, TryFinalize, FinalizeRead,
         FinalizeSave, RestartWatch, CreateSuccessor, Sweep, Dependable
<1>2. ~BulkDone /\ ~BulkCredit /\ \A rs \in SUBSET Repo : ~BulkChunk(rs)
  BY DEF BulkDone, BulkCredit, BulkChunk
<1>3. ~Finalizing(Orch)
  BY DEF Finalizing, TryFinalize, FinalizeRead, FinalizeSave, RestartWatch,
         CreateSuccessor
<1>4. "reported" \notin FaultPoints
  BY DEF Dependable, EarlyFaults
<1>5. /\ \A j \in SearchJob : ~SearchLateFault(j)
      /\ \A r \in Repo : ~UnitLateFault(r)
  BY <1>4 DEF SearchLateFault, UnitLateFault
<1>6. \A j \in SearchJob : /\ ~HalvesAdded(j) /\ ~CreditSplit(j)
                           /\ \A h \in SearchJob : ~AddHalf(j, h)
  BY DEF HalvesAdded, CreditSplit, AddHalf
<1>7. /\ ~SaveCheckpoint(Orch, "planSave", AfterPlan)
      /\ ~SaveCheckpoint(Orch, "tailSave", "done")
      /\ \A j \in SearchJob : /\ ~SaveCheckpoint(j, "itemsSave", "decide")
                              /\ ~SaveCheckpoint(j, "lastSave", "report")
  BY DEF SaveCheckpoint
<1>8. QED
  BY <1>1, <1>2, <1>3, <1>5, <1>6, <1>7

LEMMA NextIInv ==
  ASSUME Dependable, IInv, [Next]_vars
  PROVE  IInv'
<1>1. TypeOK /\ TypeOK'
  BY NextTyped DEF IInv
<1>2. CASE Orchestrator
  BY <1>1, <1>2, Unreached, Planned, CompletedEarly, QueriesSet, RootAdded, FannedOut
     DEF Orchestrator
<1>3. CASE OrchFault
  BY <1>1, <1>3, Aborted
<1>4. ASSUME NEW j \in SearchJob, SearchSteps(j) \/ SearchFault(j) \/ SearchLateFault(j)
      PROVE  IInv'
  <2>1. CASE \/ SearchBegin(j) \/ SearchAnswer(j) \/ EndOfPage(j) \/ NoMorePages(j)
             \/ SearchFault(j)
    BY <1>1, <2>1, SearchQuiet
  <2>2. CASE (\E r \in Repo : ClaimItem(j, r)) \/ RecordItem(j) \/ AddAnalysis(j)
    <3>1. ASSUME NEW r \in Repo, ClaimItem(j, r) PROVE IInv'
      BY <1>1, <3>1, RepoClaimed
    <3>2. ASSUME RecordItem(j) \/ AddAnalysis(j) PROVE IInv'
      BY <1>1, <3>2, RepoRecorded, RepoEnqueued
    <3>3. QED
      BY <2>2, <3>1, <3>2
  <2>3. CASE CreditNextPage(j) \/ AddNextPage(j) \/ completeSearchJob(j) \/ Finalizing(j)
    BY <1>1, <2>3, PageCredited, PageEnqueued, PageReported, Finalized
  <2>4. QED
    BY <1>4, <2>1, <2>2, <2>3, Unreached DEF SearchSteps
<1>5. ASSUME NEW r \in Repo, UnitSteps(r) \/ UnitFault(r) \/ UnitLateFault(r)
      PROVE  IInv'
  <2>1. CASE \/ AnalysisBegin(r) \/ AnalysisResult(r) \/ DetectionBegin(r)
             \/ DetectionResult(r) \/ UnitFault(r)
    BY <1>1, <2>1, UnitQuiet
  <2>2. CASE (\E s \in Repo : Expand(r, s)) \/ RecordExpanded(r) \/ AddExpanded(r)
    BY <1>1, <2>2, RepoClaimed, RepoRecorded, RepoEnqueued
  <2>3. CASE completeAnalysisUnit(r) \/ Acknowledge(r) \/ Finalizing(r)
    BY <1>1, <2>3, UnitReported, Finalized
  <2>4. QED
    BY <1>5, <2>1, <2>2, <2>3, Unreached DEF UnitSteps
<1>6. CASE UNCHANGED vars
  BY <1>6 DEF vars, scanDoc, work, IInv, TypeOK, DataOK, PcOK, NoCancel,
     PlanningIsQuiet, Planning, aborted, PagesPromisedOnce, CarriedOnce,
     CountersCount, FinishedWhenDrained, NothingOwed, PendingSearch, PendingUnits,
     Busy, isTerminal
<1>7. QED
  BY <1>2, <1>3, <1>4, <1>5, <1>6, Unreached DEF Next

\* The inductive invariant holds of every dependable scan, whatever the number
\* of its queries, pages, repositories and attempts, and whatever fails.
THEOREM InvariantHolds == Dependable /\ Spec => []IInv
<1>1. Dependable /\ Init => IInv
  BY InitIInv
<1>2. Dependable /\ IInv /\ [Next]_vars => IInv'
  BY NextIInv
<1>3. Dependable => []Dependable
  OBVIOUS
<1>4. QED
  BY <1>1, <1>2, <1>3, PTL DEF Spec

\* finalize's two drained counters are enough: a dependable scan is COMPLETED
\* or PARTIALLY_COMPLETED only when every promised page and repository has
\* reported (completeSearchJob, completeAnalysisUnit).
THEOREM NeverFinishesEarly == Dependable /\ Spec => []NoPrematureFinish
<1>1. IInv => NoPrematureFinish
  BY DEF IInv, FinishedWhenDrained, NoPrematureFinish, NothingOwed, isTerminal, Terminal
<1>2. QED
  BY <1>1, InvariantHolds, PTL
=============================================================================
