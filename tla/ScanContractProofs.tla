--------------------------- MODULE ScanContractProofs ---------------------------
(***************************************************************************)
(* A dependable scan, of any size, implements ScanContract, keeps its      *)
(* ledger balanced and does not revise its verdict.  The three are one     *)
(* argument: what a step does to the work that is owed decides what it     *)
(* does to the ledger and which step of the contract it is.                *)
(***************************************************************************)
EXTENDS ScanSafetyProofs

\* What a step of a scan that is not aborted may do to what is owed, and to
\* the claims and counts that must agree with it.
SameBooks == UNCHANGED <<claimed, completed, lost, processed, failed>>

Promises ==
  /\ PendingSearch \subseteq PendingSearch' /\ PendingUnits' = PendingUnits
  /\ Unrecorded' = Unrecorded /\ SameBooks

ClaimsRepo ==
  /\ PendingSearch' = PendingSearch /\ PendingUnits' = PendingUnits
  /\ \E s \in Repo \ claimed : /\ Unrecorded' = Unrecorded \cup {s}
                               /\ claimed' = claimed \cup {s}
  /\ UNCHANGED <<completed, lost, processed, failed>>

LosesRepo ==
  /\ PendingSearch' = PendingSearch /\ PendingUnits' = PendingUnits
  /\ \E s \in Unrecorded : /\ Unrecorded' = Unrecorded \ {s}
                           /\ lost' = lost \cup {s}
  /\ UNCHANGED <<claimed, completed, processed, failed>>

RecordsRepo ==
  /\ PendingSearch' = PendingSearch
  /\ \E s \in Unrecorded : /\ PendingUnits' = PendingUnits \cup {s}
                           /\ Unrecorded' = Unrecorded \ {s}
  /\ SameBooks

ReportsPage ==
  /\ \E j \in PendingSearch : PendingSearch' = PendingSearch \ {j}
  /\ PendingUnits' = PendingUnits
  /\ Unrecorded' = Unrecorded /\ SameBooks

ReportsRepo ==
  /\ PendingSearch' = PendingSearch
  /\ \E r \in PendingUnits : /\ PendingUnits' = PendingUnits \ {r}
                             /\ completed' = completed \cup {r}
  /\ processed' = processed + 1 /\ failed' \in {failed, failed + 1}
  /\ Unrecorded' = Unrecorded /\ UNCHANGED <<claimed, lost>>

\* What is to be shown of every step.
ContractStep == [Contract!Next]_<<phaseBar, owedBar>>
VerdictStays == isTerminal => status' = status
Kept == LedgerBalances' /\ VerdictSettled' /\ ContractStep /\ VerdictStays

-----------------------------------------------------------------------------
(* From the effect of a step to what it keeps.                              *)

\* No finalize reads anew, and no repository is to be acknowledged.
NoNewVerdict ==
  /\ \A t \in Thread : pc'[t] = "save" => pc[t] = "save" /\ seen'[t] = seen[t]
  /\ \A r \in Repo : pc'[r] = "acknowledge" => pc[r] = "acknowledge"

LEMMA PromisingKeeps ==
  ASSUME IInv, IInv', LedgerBalances, VerdictSettled, ~aborted, ~aborted',
         Promises, NoNewVerdict, isTerminal' <=> isTerminal, VerdictStays
  PROVE  Kept
<1>1. LedgerBalances'
  BY DEF LedgerBalances, Promises, SameBooks, NoNewVerdict
<1>2. VerdictSettled'
  BY DEF VerdictSettled, Outcome, Promises, SameBooks, NoNewVerdict, VerdictStays
<1>3. ContractStep
  <2>1. CASE isTerminal
    <3>1. NothingOwed /\ NothingOwed'
      BY <2>1 DEF IInv, FinishedWhenDrained
    <3>2. QED
      BY <3>1 DEF ContractStep, phaseBar, owedBar, NothingOwed
  <2>2. CASE ~isTerminal
    <3>1. phaseBar = "open" /\ phaseBar' = "open"
      BY <2>2 DEF phaseBar
    <3>2. owedBar \subseteq owedBar' /\ owedBar' \in SUBSET (SearchJob \cup Repo)
      BY DEF owedBar, Promises, PendingSearch, PendingUnits
    <3>3. Contract!Promise(owedBar')
      BY <3>1, <3>2 DEF Contract!Promise
    <3>4. QED
      BY <3>2, <3>3 DEF ContractStep, Contract!Next
  <2>3. QED
    BY <2>1, <2>2
<1>4. QED
  BY <1>1, <1>2, <1>3 DEF Kept

\* A claim, and a claim that is lost, are no business of the contract.
LEMMA ClaimingKeeps ==
  ASSUME IInv, IInv', LedgerBalances, ~aborted, ~aborted', ~isTerminal, ~isTerminal',
         ClaimsRepo \/ LosesRepo, NoNewVerdict, \A t \in Thread : pc[t] # "save"
  PROVE  Kept
<1>1. LedgerBalances'
  <2>1. CASE ClaimsRepo
    <3>1. PICK s \in Repo \ claimed : /\ Unrecorded' = Unrecorded \cup {s}
                                      /\ claimed' = claimed \cup {s}
      BY <2>1 DEF ClaimsRepo
    <3>2. QED
      BY <2>1, <3>1 DEF LedgerBalances, ClaimsRepo, NoNewVerdict
  <2>2. CASE LosesRepo
    <3>1. PICK s \in Unrecorded : Unrecorded' = Unrecorded \ {s} /\ lost' = lost \cup {s}
      BY <2>2 DEF LosesRepo
    <3>2. QED
      BY <2>2, <3>1 DEF LedgerBalances, LosesRepo, NoNewVerdict
  <2>3. QED
    BY <2>1, <2>2
<1>2. VerdictSettled'
  BY DEF VerdictSettled, NoNewVerdict
<1>3. ContractStep
  BY DEF ContractStep, phaseBar, owedBar, ClaimsRepo, LosesRepo
<1>4. QED
  BY <1>1, <1>2, <1>3 DEF Kept, VerdictStays

LEMMA RecordingKeeps ==
  ASSUME IInv, IInv', LedgerBalances, ~aborted, ~aborted', ~isTerminal, ~isTerminal',
         RecordsRepo, NoNewVerdict, \A t \in Thread : pc[t] # "save"
  PROVE  Kept
<1>1. PICK s \in Unrecorded : /\ PendingUnits' = PendingUnits \cup {s}
                             /\ Unrecorded' = Unrecorded \ {s}
  BY DEF RecordsRepo
<1>2. LedgerBalances'
  BY <1>1 DEF LedgerBalances, RecordsRepo, SameBooks, NoNewVerdict
<1>3. VerdictSettled'
  BY DEF VerdictSettled, NoNewVerdict
<1>4. phaseBar = "open" /\ phaseBar' = "open"
  BY DEF phaseBar
<1>5. owedBar' = owedBar \cup {s}
  BY <1>1 DEF owedBar, RecordsRepo
<1>6. Contract!Promise({s})
  BY <1>4, <1>5 DEF Contract!Promise
<1>7. {s} \in SUBSET (SearchJob \cup Repo)
  BY DEF Unrecorded
<1>8. ContractStep
  BY <1>6, <1>7 DEF ContractStep, Contract!Next
<1>9. QED
  BY <1>2, <1>3, <1>8 DEF Kept, VerdictStays

LEMMA ReportingKeeps ==
  ASSUME IInv, IInv', LedgerBalances, ~aborted, ~aborted', ~isTerminal, ~isTerminal',
         ReportsPage \/ ReportsRepo, NoNewVerdict, \A t \in Thread : pc[t] # "save"
  PROVE  Kept
<1>1. LedgerBalances'
  <2>1. CASE ReportsPage
    BY <2>1 DEF LedgerBalances, ReportsPage, SameBooks, NoNewVerdict
  <2>2. CASE ReportsRepo
    <3>1. PICK r \in PendingUnits : /\ PendingUnits' = PendingUnits \ {r}
                                    /\ completed' = completed \cup {r}
      BY <2>2 DEF ReportsRepo
    <3>2. r \notin completed
      BY <3>1 DEF LedgerBalances
    <3>3. completed \in SUBSET Repo /\ processed \in Nat /\ failed \in Nat
      BY DEF IInv, TypeOK, DataOK
    <3>4. IsFiniteSet(completed)
      BY <3>3, ConstantsOK, FS_Subset DEF ConstantsOK
    <3>5. Cardinality(completed') = Cardinality(completed) + 1
      BY <3>1, <3>2, <3>4, FS_AddElement
    <3>6. processed' = Cardinality(completed') /\ failed' <= processed'
      BY <2>2, <3>3, <3>5 DEF LedgerBalances, ReportsRepo
    <3>7. /\ claimed' = completed' \cup PendingUnits' \cup Unrecorded' \cup lost'
          /\ completed' \cap PendingUnits' = {}
          /\ Unrecorded' \cap (completed' \cup PendingUnits') = {}
          /\ lost' \cap (completed' \cup PendingUnits' \cup Unrecorded') = {}
      BY <2>2, <3>1, <3>2 DEF LedgerBalances, ReportsRepo
    <3>8. QED
      BY <3>6, <3>7 DEF LedgerBalances, NoNewVerdict
  <2>3. QED
    BY <2>1, <2>2
<1>2. VerdictSettled'
  BY DEF VerdictSettled, NoNewVerdict
<1>3. phaseBar = "open" /\ phaseBar' = "open"
  BY DEF phaseBar
<1>4. PendingSearch \cap PendingUnits = {} /\ owedBar \subseteq SearchJob \cup Repo
  BY ConstantsOK DEF ConstantsOK, PendingSearch, PendingUnits, owedBar
<1>5. \E w \in owedBar : owedBar' = owedBar \ {w}
  BY <1>4 DEF owedBar, ReportsPage, ReportsRepo
<1>6. \E w \in SearchJob \cup Repo : Contract!Report(w)
  BY <1>3, <1>4, <1>5 DEF Contract!Report
<1>7. ContractStep
  BY <1>6 DEF ContractStep, Contract!Next
<1>8. QED
  BY <1>1, <1>2, <1>7 DEF Kept, VerdictStays

-----------------------------------------------------------------------------
(* The pages and the repositories.                                          *)

\* A thread that is busy, and moves elsewhere than to a save or an
\* acknowledgement, in a scan that is open.
LEMMA BusyStep ==
  ASSUME IInv, ~aborted, NEW u \in SearchJob \cup Repo, Busy(u),
         NEW l, l \notin {"save", "acknowledge"},
         pc' = [pc EXCEPT ![u] = l]
         \/ (\E js \in SUBSET (SearchJob \cup Repo) : GotoAdding(u, l, js)),
         status' = status, attempts'[Orch] = attempts[Orch], UNCHANGED seen
  PROVE  /\ NoNewVerdict /\ ~isTerminal /\ ~isTerminal' /\ ~aborted'
         /\ \A t \in Thread : pc[t] # "save"
<1>1. ~isTerminal /\ \A t \in Thread : pc[t] # "save"
  BY BusyIsOpen
<1>2. ~isTerminal' /\ ~aborted'
  BY <1>1 DEF isTerminal, aborted
<1>3. \A t \in Thread : pc'[t] = l \/ pc'[t] = "queued" \/ pc'[t] = pc[t]
  BY DEF GotoAdding, IInv, TypeOK, PcOK
<1>4. NoNewVerdict
  BY <1>3, Apart DEF NoNewVerdict
<1>5. QED
  BY <1>1, <1>2, <1>4

\* A step that is taken outside the records changes nothing about what is to
\* be recorded.
LEMMA UnrecordedStays ==
  ASSUME \A t \in Thread : pc[t] \in {"record", "recordMore"} \/ pc'[t] \in {"record", "recordMore"}
                            => pc'[t] = pc[t] /\ carry'[t] = carry[t]
  PROVE  Unrecorded' = Unrecorded
BY DEF Unrecorded

\* A busy thread's step that owes as much as before, or more.
LEMMA PromisingStep ==
  ASSUME IInv, IInv', LedgerBalances, VerdictSettled, ~aborted,
         NEW u \in SearchJob \cup Repo, Busy(u), pc[u] \notin {"record", "recordMore"},
         NEW l, l \notin {"save", "acknowledge", "record", "recordMore"},
         \/ pc' = [pc EXCEPT ![u] = l]
         \/ \E js \in SUBSET (SearchJob \cup Repo) : GotoAdding(u, l, js),
         \A t \in Thread \ {u} : carry'[t] = carry[t],
         status' = status, attempts'[Orch] = attempts[Orch], UNCHANGED seen,
         SameOwed \/ (PendingSearch \subseteq PendingSearch' /\ PendingUnits' = PendingUnits),
         SameBooks
  PROVE  Kept
<1>1. /\ NoNewVerdict /\ ~isTerminal /\ ~isTerminal' /\ ~aborted'
  BY BusyStep
<1>2. \A t \in Thread : /\ pc'[t] = IF t = u THEN l ELSE pc'[t]
                        /\ t # u => pc'[t] = pc[t] \/ (pc[t] = "absent" /\ pc'[t] = "queued")
  BY DEF GotoAdding, Known, IInv, TypeOK, PcOK
<1>3. Unrecorded' = Unrecorded
  BY <1>2, UnrecordedStays
<1>4. Promises
  BY <1>3 DEF Promises, SameOwed
<1>5. QED
  BY <1>1, <1>4, PromisingKeeps DEF VerdictStays

\* A busy thread's step to claim a repository, or back from a claim that it
\* did not come to record.
LEMMA ClaimingStep ==
  ASSUME IInv, IInv', LedgerBalances, ~aborted, NEW u \in SearchJob \cup Repo, Busy(u),
         NEW l, l \notin {"save", "acknowledge"}, pc' = [pc EXCEPT ![u] = l],
         status' = status, attempts'[Orch] = attempts[Orch], UNCHANGED seen,
         ClaimsRepo \/ LosesRepo
  PROVE  Kept
BY BusyStep, ClaimingKeeps

LEMMA Claimed ==
  ASSUME Dependable, IInv, IInv', ~aborted, NEW u \in SearchJob \cup Repo, NEW s \in Repo,
         \/ u \in SearchJob /\ ClaimItem(u, s)
         \/ u \in Repo /\ Expand(u, s)
  PROVE  ClaimsRepo
<1> USE Apart DEF IInv, TypeOK, PcOK, DataOK
<1>1. pc[u] \in {"items", "detecting"}
  BY DEF ClaimItem, Expand, NoCancel
<1>2. \E l \in {"record", "recordMore"} : Goto(u, l)
  BY <1>1 DEF ClaimItem, Expand
<1>3. /\ carry' = [carry EXCEPT ![u] = {s}] /\ claimed' = claimed \cup {s} /\ s \notin claimed
      /\ UNCHANGED <<completed, lost, processed, failed>>
  BY DEF ClaimItem, Expand, scanDoc
<1>4. SameOwed
  BY RepoClaimed
<1>5. \A t \in Thread : t # u => pc'[t] = pc[t] /\ carry'[t] = carry[t]
  BY <1>2, <1>3 DEF Goto
<1>6. pc'[u] \in {"record", "recordMore"} /\ carry'[u] = {s}
  BY <1>2, <1>3 DEF Goto
<1>7. Unrecorded' = Unrecorded \cup {s}
  BY <1>1, <1>5, <1>6 DEF Unrecorded
<1>8. QED
  BY <1>3, <1>4, <1>7 DEF ClaimsRepo, SameOwed

LEMMA Dropping ==
  ASSUME Dependable, IInv, IInv', ~aborted, NEW u \in SearchJob \cup Repo,
         pc[u] \in {"record", "recordMore"}, SameOwed, DropCarry(u),
         NEW l, l \notin {"record", "recordMore"}, Goto(u, l),
         UNCHANGED <<claimed, completed, processed, failed>>
  PROVE  LosesRepo
<1> USE Apart DEF IInv, TypeOK, PcOK, DataOK
<1>1. PICK s \in Repo : carry[u] = {s}
  BY DEF CarriedOnce
<1>2. \A t \in Thread : t # u => pc'[t] = pc[t] /\ carry'[t] = carry[t] /\ s \notin carry[t]
  BY <1>1 DEF Goto, DropCarry, CarriedOnce
<1>3. pc'[u] \notin {"record", "recordMore"} /\ lost' = lost \cup {s}
  BY <1>1 DEF Goto, DropCarry
<1>4. s \in Unrecorded /\ Unrecorded' = Unrecorded \ {s}
  BY <1>1, <1>2, <1>3 DEF Unrecorded
<1>5. QED
  BY <1>3, <1>4 DEF LosesRepo, SameOwed

LEMMA Recorded ==
  ASSUME Dependable, IInv, IInv', NEW u \in SearchJob \cup Repo,
         \/ u \in SearchJob /\ RecordItem(u)
         \/ u \in Repo /\ RecordExpanded(u)
  PROVE  RecordsRepo
<1> USE Apart DEF IInv, TypeOK, PcOK, DataOK
<1>1. /\ PendingSearch' = PendingSearch
      /\ \E s \in Repo \ PendingUnits : carry[u] = {s} /\ PendingUnits' = PendingUnits \cup {s}
      /\ pc[u] \in {"record", "recordMore"} /\ \E l \in {"add", "addMore"} : Goto(u, l)
      /\ UNCHANGED <<work, processed, failed>>
  BY RepoRecorded
<1>2. PICK s \in Repo : carry[u] = {s} /\ PendingUnits' = PendingUnits \cup {s}
  BY <1>1
<1>3. carry' = carry /\ SameBooks
  BY <1>1 DEF work, SameBooks
<1>4. pc'[u] \notin {"record", "recordMore"} /\ \A t \in Thread : t # u => pc'[t] = pc[t]
  BY <1>1 DEF Goto
<1>5. \A t \in Thread : t # u => s \notin carry[t]
  BY <1>2 DEF CarriedOnce
<1>6. s \in Unrecorded /\ Unrecorded' = Unrecorded \ {s}
  BY <1>1, <1>2, <1>3, <1>4, <1>5 DEF Unrecorded
<1>7. QED
  BY <1>1, <1>2, <1>3, <1>6 DEF RecordsRepo

LEMMA PageKeeps ==
  ASSUME Dependable, IInv, IInv', LedgerBalances, VerdictSettled, ~aborted,
         NEW j \in SearchJob,
         \/ SearchSteps(j) /\ ~Finalizing(j)
         \/ SearchFault(j) \/ SearchLateFault(j)
  PROVE  Kept
<1> USE Apart
<1>1. TypeOK' /\ ~isCancelled /\ pc[j] # "lastItems" /\ kind = "search"
  BY DEF IInv, NoCancel, isCancelled, TypeOK, DataOK, Dependable
<1>2. CASE SearchBegin(j) \/ SearchAnswer(j) \/ NoMorePages(j)
  <2>1. Busy(j)
    BY <1>2 DEF Busy, FinalLabel, SearchBegin, SearchAnswer, NoMorePages
  <2>2. ~isTerminal
    BY <2>1, BusyIsOpen
  <2>3. \E l \in {"report", "searching", "items", "split"} : Goto(j, l)
    BY <1>1, <1>2, <2>2 DEF SearchBegin, SearchAnswer, NoMorePages
  <2>4. SameOwed
    BY <1>1, <1>2, SearchQuiet
  <2>5. status' = status /\ SameBooks /\ UNCHANGED <<attempts, seen, carry>>
    BY <1>2 DEF SearchBegin, SearchAnswer, NoMorePages, SameBooks, scanDoc, work
  <2>6. pc[j] \notin {"record", "recordMore"}
    BY <1>2 DEF SearchBegin, SearchAnswer, NoMorePages
  <2>7. QED
    BY <2>1, <2>3, <2>4, <2>5, <2>6, PromisingStep DEF Goto
<1>3. CASE EndOfPage(j)
  <2>1. Busy(j) /\ (\E l \in {"decide"} : Goto(j, l)) /\ pc[j] \notin {"record", "recordMore"}
    BY <1>1, <1>3, FreshRead DEF EndOfPage, Busy, FinalLabel
  <2>2. SameOwed
    BY <1>1, <1>3, SearchQuiet
  <2>3. status' = status /\ SameBooks /\ UNCHANGED <<attempts, seen, carry>>
    BY <1>3 DEF EndOfPage, SameBooks, scanDoc
  <2>4. QED
    BY <2>1, <2>2, <2>3, PromisingStep DEF Goto
<1>4. CASE SearchFault(j)
  <2>1. Busy(j) /\ \E l \in {"queued", "report"} : Goto(j, l)
    BY <1>4 DEF SearchFault, Busy, FinalLabel
  <2>2. SameOwed
    BY <1>1, <1>4, SearchQuiet
  <2>3. status' = status /\ UNCHANGED <<seen, claimed, completed, processed, failed>>
    BY <1>4 DEF SearchFault
  <2>4. attempts'[Orch] = attempts[Orch] /\ DropCarry(j)
    BY <1>4 DEF SearchFault, IInv, TypeOK, DataOK
  <2>5. CASE pc[j] = "record"
    BY <2>1, <2>2, <2>3, <2>4, <2>5, Dropping, ClaimingStep DEF Goto
  <2>6. CASE pc[j] # "record"
    <3>1. pc[j] \notin {"record", "recordLast", "recordMore"}
      BY <2>6, ConstantsOK DEF IInv, NoCancel, TypeOK, PcOK, LabelOf, SearchLabel, FinalLabel
    <3>2. SameBooks /\ \A t \in Thread \ {j} : carry'[t] = carry[t]
      BY <2>3, <2>4, <3>1 DEF SameBooks, DropCarry, IInv, TypeOK, DataOK
    <3>3. QED
      BY <2>1, <2>2, <2>3, <2>4, <3>1, <3>2, PromisingStep DEF Goto
  <2>7. QED
    BY <2>5, <2>6
<1>5. CASE AddAnalysis(j)
  <2>1. Busy(j) /\ carry[j] \in SUBSET (SearchJob \cup Repo)
    BY <1>5 DEF AddAnalysis, Busy, FinalLabel, IInv, TypeOK, DataOK
  <2>2. \E l \in {"items", "lastItems"} : GotoAdding(j, l, carry[j])
    BY <1>5 DEF AddAnalysis
  <2>3. SameOwed
    BY <1>1, <1>5, RepoEnqueued
  <2>4. /\ status' = status /\ SameBooks /\ UNCHANGED <<attempts, seen>>
        /\ pc[j] \notin {"record", "recordMore"}
        /\ \A t \in Thread \ {j} : carry'[t] = carry[t]
    BY <1>5 DEF AddAnalysis, SameBooks, scanDoc, IInv, TypeOK, DataOK
  <2>5. QED
    BY <2>1, <2>2, <2>3, <2>4, PromisingStep
<1>6. CASE CreditNextPage(j)
  <2>1. Busy(j) /\ (\E l \in {"addNext"} : Goto(j, l)) /\ pc[j] \notin {"record", "recordMore"}
    BY <1>6 DEF CreditNextPage, Busy, FinalLabel
  <2>2. PendingSearch \subseteq PendingSearch' /\ PendingUnits' = PendingUnits
    BY <1>1, <1>6, PageCredited
  <2>3. status' = status /\ SameBooks /\ UNCHANGED <<attempts, seen, carry>>
    BY <1>6 DEF CreditNextPage, SameBooks, work
  <2>4. QED
    BY <2>1, <2>2, <2>3, PromisingStep DEF Goto
<1>7. CASE AddNextPage(j)
  <2>1. Busy(j) /\ GotoAdding(j, "report", NextPage[j]) /\ pc[j] \notin {"record", "recordMore"}
    BY <1>7 DEF AddNextPage, Busy, FinalLabel
  <2>2. NextPage[j] \in SUBSET (SearchJob \cup Repo)
    BY ConstantsOK DEF ConstantsOK
  <2>3. SameOwed
    BY <1>1, <1>7, PageEnqueued
  <2>4. status' = status /\ SameBooks /\ UNCHANGED <<attempts, seen, carry>>
    BY <1>7 DEF AddNextPage, SameBooks, scanDoc, work
  <2>5. QED
    BY <2>1, <2>2, <2>3, <2>4, PromisingStep
<1>8. ASSUME NEW r \in Repo, ClaimItem(j, r) PROVE Kept
  <2>1. Busy(j) /\ \E l \in {"record", "recordLast"} : Goto(j, l)
    BY <1>8 DEF ClaimItem, Busy, FinalLabel
  <2>2. ClaimsRepo /\ UNCHANGED <<status, attempts, seen>>
    BY <1>8, Claimed DEF ClaimItem, scanDoc
  <2>3. QED
    BY <2>1, <2>2, ClaimingStep DEF Goto
<1>9. CASE RecordItem(j)
  <2>1. RecordsRepo /\ UNCHANGED <<status, attempts, seen>>
    BY <1>1, <1>9, Recorded DEF RecordItem
  <2>2. Busy(j) /\ \E l \in {"add", "addMore"} : Goto(j, l)
    BY <1>1, <1>9, RepoRecorded DEF Busy, FinalLabel
  <2>3. /\ NoNewVerdict /\ ~isTerminal /\ ~isTerminal' /\ ~aborted'
        /\ \A t \in Thread : pc[t] # "save"
    BY <2>1, <2>2, BusyStep DEF Goto
  <2>4. QED
    BY <2>1, <2>3, RecordingKeeps
<1>10. CASE completeSearchJob(j)
  <2>1. Busy(j) /\ \E l \in {"tryFinalize"} : Goto(j, l)
    BY <1>10 DEF completeSearchJob, Busy, FinalLabel
  <2>2. Unrecorded' = Unrecorded
    BY <1>1, <1>10, UnrecordedStays DEF completeSearchJob, Goto, work, IInv, TypeOK, PcOK
  <2>3. ReportsPage /\ UNCHANGED <<status, attempts, seen>>
    BY <1>1, <1>10, <2>2, PageReported DEF ReportsPage, SameBooks, completeSearchJob, work
  <2>4. /\ NoNewVerdict /\ ~isTerminal /\ ~isTerminal' /\ ~aborted'
        /\ \A t \in Thread : pc[t] # "save"
    BY <2>1, <2>3, BusyStep DEF Goto
  <2>5. QED
    BY <2>3, <2>4, ReportingKeeps
<1>11. QED
  BY <1>2, <1>3, <1>4, <1>5, <1>6, <1>7, <1>8, <1>9, <1>10, Unreached DEF SearchSteps

LEMMA UnitKeeps ==
  ASSUME Dependable, IInv, IInv', LedgerBalances, VerdictSettled, ~aborted,
         NEW r \in Repo,
         \/ UnitSteps(r) /\ ~Finalizing(r)
         \/ UnitFault(r) \/ UnitLateFault(r)
  PROVE  Kept
<1> USE Apart
<1>1. TypeOK' /\ ~isCancelled /\ (Busy(r) => r \notin completed)
  BY DEF IInv, NoCancel, isCancelled, LedgerBalances, PendingUnits
<1>2. CASE AnalysisBegin(r) \/ AnalysisResult(r) \/ DetectionBegin(r) \/ DetectionResult(r)
  <2>1. Busy(r)
    BY <1>2 DEF Busy, FinalLabel, AnalysisBegin, AnalysisResult, DetectionBegin,
                DetectionResult
  <2>2. ~isTerminal
    BY <2>1, BusyIsOpen
  <2>3. \E l \in {"analysing", "report", "detect", "detecting", "detected"} : Goto(r, l)
    BY <1>1, <1>2, <2>1, <2>2 DEF AnalysisBegin, AnalysisResult, DetectionBegin,
                                  DetectionResult
  <2>4. SameOwed
    BY <1>1, <1>2, UnitQuiet
  <2>5. /\ status' = status /\ SameBooks /\ UNCHANGED <<seen, carry>>
        /\ attempts'[Orch] = attempts[Orch] /\ pc[r] \notin {"record", "recordMore"}
    BY <1>2 DEF AnalysisBegin, AnalysisResult, DetectionBegin, DetectionResult,
                SameBooks, scanDoc, work, IInv, TypeOK, DataOK
  <2>6. QED
    BY <2>1, <2>3, <2>4, <2>5, PromisingStep DEF Goto
<1>3. CASE UnitFault(r)
  <2>1. Busy(r) /\ \E l \in {"queued", "report", "detect", "reportFailed"} : Goto(r, l)
    BY <1>3 DEF UnitFault, Busy, FinalLabel
  <2>2. SameOwed
    BY <1>1, <1>3, UnitQuiet
  <2>3. status' = status /\ UNCHANGED <<seen, claimed, completed, processed, failed>>
    BY <1>3 DEF UnitFault, scanDoc
  <2>4. attempts'[Orch] = attempts[Orch] /\ DropCarry(r)
    BY <1>3 DEF UnitFault, IInv, TypeOK, DataOK
  <2>5. CASE pc[r] = "recordMore"
    BY <2>1, <2>2, <2>3, <2>4, <2>5, Dropping, ClaimingStep DEF Goto
  <2>6. CASE pc[r] # "recordMore"
    <3>1. pc[r] \notin {"record", "recordLast", "recordMore"}
      BY <2>6, ConstantsOK DEF IInv, TypeOK, PcOK, LabelOf, UnitLabel, FinalLabel
    <3>2. SameBooks /\ \A t \in Thread \ {r} : carry'[t] = carry[t]
      BY <2>3, <2>4, <3>1 DEF SameBooks, DropCarry, IInv, TypeOK, DataOK
    <3>3. QED
      BY <2>1, <2>2, <2>3, <2>4, <3>1, <3>2, PromisingStep DEF Goto
  <2>7. QED
    BY <2>5, <2>6
<1>4. CASE AddExpanded(r)
  <2>1. /\ Busy(r) /\ carry[r] \in SUBSET (SearchJob \cup Repo)
        /\ GotoAdding(r, "detecting", carry[r])
    BY <1>4 DEF AddExpanded, Busy, FinalLabel, IInv, TypeOK, DataOK
  <2>2. SameOwed
    BY <1>1, <1>4, RepoEnqueued
  <2>3. /\ status' = status /\ SameBooks /\ UNCHANGED <<attempts, seen>>
        /\ pc[r] \notin {"record", "recordMore"}
        /\ \A t \in Thread \ {r} : carry'[t] = carry[t]
    BY <1>4 DEF AddExpanded, SameBooks, scanDoc, IInv, TypeOK, DataOK
  <2>4. QED
    BY <2>1, <2>2, <2>3, PromisingStep
<1>5. ASSUME NEW s \in Repo, Expand(r, s) PROVE Kept
  <2>1. Busy(r) /\ Goto(r, "recordMore")
    BY <1>5 DEF Expand, Busy, FinalLabel
  <2>2. ClaimsRepo /\ UNCHANGED <<status, attempts, seen>>
    BY <1>5, Claimed DEF Expand, scanDoc
  <2>3. QED
    BY <2>1, <2>2, ClaimingStep DEF Goto
<1>6. CASE RecordExpanded(r)
  <2>1. RecordsRepo /\ UNCHANGED <<status, attempts, seen>>
    BY <1>1, <1>6, Recorded DEF RecordExpanded
  <2>2. Busy(r) /\ \E l \in {"addMore"} : Goto(r, l)
    BY <1>6 DEF RecordExpanded, Busy, FinalLabel
  <2>3. /\ NoNewVerdict /\ ~isTerminal /\ ~isTerminal' /\ ~aborted'
        /\ \A t \in Thread : pc[t] # "save"
    BY <2>1, <2>2, BusyStep DEF Goto
  <2>4. QED
    BY <2>1, <2>3, RecordingKeeps
<1>7. CASE completeAnalysisUnit(r)
  <2>1. Busy(r) /\ \E l \in {"tryFinalize"} : Goto(r, l)
    BY <1>7 DEF completeAnalysisUnit, Busy, FinalLabel
  <2>2. Unrecorded' = Unrecorded
    BY <1>1, <1>7, UnrecordedStays DEF completeAnalysisUnit, CountUnit, Goto, IInv, TypeOK, PcOK
  <2>3. ReportsRepo /\ UNCHANGED <<status, attempts, seen>>
    BY <1>1, <1>7, <2>2, UnitReported DEF ReportsRepo, completeAnalysisUnit, CountUnit
  <2>4. /\ NoNewVerdict /\ ~isTerminal /\ ~isTerminal' /\ ~aborted'
        /\ \A t \in Thread : pc[t] # "save"
    BY <2>1, <2>3, BusyStep DEF Goto
  <2>5. QED
    BY <2>3, <2>4, ReportingKeeps
<1>8. ~Acknowledge(r)
  BY DEF Acknowledge, LedgerBalances
<1>9. QED
  BY <1>2, <1>3, <1>4, <1>5, <1>6, <1>7, <1>8, Unreached DEF UnitSteps

-----------------------------------------------------------------------------
(* The end of a scan.                                                       *)

\* The scan becomes, or is and stays, what the counts say.
LEMMA FinishingKeeps ==
  ASSUME IInv, LedgerBalances, ~aborted, ~aborted', NothingOwed, NothingOwed',
         status' = Outcome, isTerminal', isTerminal => status = Outcome,
         SameBooks, Unrecorded' = Unrecorded, \A r \in Repo : pc'[r] # "acknowledge",
         \A t \in Thread : pc'[t] = "save" => seen'[t].to = Outcome
  PROVE  Kept
<1>1. LedgerBalances'
  BY DEF LedgerBalances, SameBooks, NothingOwed
<1>2. Outcome' = Outcome
  BY DEF Outcome, SameBooks
<1>3. VerdictSettled'
  BY <1>2 DEF VerdictSettled
<1>4. owedBar = {} /\ owedBar' = {} /\ phaseBar' = "finished"
  BY DEF owedBar, phaseBar, NothingOwed
<1>5. phaseBar \in {"open", "finished"}
  BY DEF phaseBar
<1>6. ContractStep
  BY <1>4, <1>5 DEF ContractStep, Contract!Next, Contract!Finish
<1>7. QED
  BY <1>1, <1>3, <1>6 DEF Kept, VerdictStays

LEMMA FinalizingKeeps ==
  ASSUME Dependable, IInv, IInv', LedgerBalances, VerdictSettled, ~aborted,
         NEW u \in SearchJob \cup Repo, Finalizing(u)
  PROVE  Kept
<1> USE Apart
<1>1. /\ PendingSearch' = PendingSearch /\ PendingUnits' = PendingUnits
      /\ TypeOK /\ TypeOK'
  BY Finalized DEF SameOwed, IInv
<1>7. ASSUME NEW l \in {"finalize", "save", "done"}, Goto(u, l), UNCHANGED carry,
             pc[u] \in {"tryFinalize", "finalize", "save"}
      PROVE  Unrecorded' = Unrecorded
  BY <1>1, <1>7, UnrecordedStays DEF Goto, TypeOK, PcOK
<1>2. CASE TryFinalize(u)
  <2>1. /\ UNCHANGED <<status, attempts, seen, carry>> /\ SameBooks
        /\ pc[u] = "tryFinalize" /\ \E l \in {"finalize", "done"} : Goto(u, l)
    BY <1>2 DEF TryFinalize, SameBooks, scanDoc, work
  <2>2. NoNewVerdict
    BY <1>1, <2>1 DEF NoNewVerdict, Goto, TypeOK, PcOK
  <2>3. Promises
    BY <1>1, <1>7, <2>1 DEF Promises
  <2>4. ~aborted' /\ isTerminal' = isTerminal /\ VerdictStays
    BY <2>1 DEF aborted, isTerminal, VerdictStays
  <2>5. QED
    BY <2>2, <2>3, <2>4, PromisingKeeps
<1>3. CASE FinalizeRead(u)
  <2>1. /\ UNCHANGED <<status, attempts, carry>> /\ SameBooks /\ Goto(u, "save")
        /\ pc[u] = "finalize"
        /\ seen' = [seen EXCEPT ![u] = [was |-> status, to |-> Verdict, err |-> error]]
    BY <1>3 DEF FinalizeRead, SameBooks, scanDoc, work
  <2>2. ~aborted' /\ isTerminal' = isTerminal /\ Outcome' = Outcome
    BY <2>1 DEF aborted, isTerminal, Outcome, SameBooks
  <2>3. Verdict = Outcome
    BY <1>1 DEF Verdict, Outcome, isCancelled, IInv, NoCancel, LedgerBalances, TypeOK, DataOK
  <2>4. \A t \in Thread : /\ pc'[t] = IF t = u THEN "save" ELSE pc[t]
                          /\ t # u => seen'[t] = seen[t]
                          /\ t = u => seen'[t].to = Outcome /\ seen'[t].was = status
    BY <1>1, <2>1, <2>3 DEF Goto, TypeOK, PcOK, DataOK
  <2>5. LedgerBalances'
    BY <1>1, <1>7, <2>1, <2>4 DEF LedgerBalances, SameBooks
  <2>6. VerdictSettled'
    BY <2>1, <2>2, <2>4 DEF VerdictSettled, isTerminal
  <2>7. ContractStep
    BY <1>1, <2>2 DEF ContractStep, phaseBar, owedBar, aborted
  <2>8. QED
    BY <2>1, <2>5, <2>6, <2>7 DEF Kept, VerdictStays
<1>4. CASE FinalizeSave(u)
  <2>1. /\ kind = "search" /\ Goto(u, "done") /\ SameBooks /\ UNCHANGED <<attempts, carry>>
        /\ pc[u] = "save"
    BY <1>1, <1>4 DEF FinalizeSave, Dependable, TypeOK, DataOK, SameBooks, work
  <2>2. /\ seen[u].to = Outcome /\ (seen[u].was \in Terminal => isTerminal)
        /\ seen[u].to \in Terminal /\ (isTerminal => status = Outcome)
    BY <1>1, <1>4 DEF FinalizeSave, VerdictSettled, IInv, NoCancel, TypeOK, DataOK, Read,
                      Status
  <2>3. status' = Outcome /\ isTerminal'
    BY <1>4, <2>2 DEF FinalizeSave, isTerminal
  <2>4. \A t \in Thread : /\ pc'[t] = IF t = u THEN "done" ELSE pc[t]
                          /\ t # u => seen'[t] = seen[t]
    BY <1>1, <1>4, <2>1 DEF FinalizeSave, Goto, TypeOK, PcOK, DataOK
  <2>5. /\ \A r \in Repo : pc'[r] # "acknowledge"
        /\ \A t \in Thread : pc'[t] = "save" => seen'[t].to = Outcome
    BY <2>4 DEF LedgerBalances, VerdictSettled
  <2>6. ~aborted' /\ NothingOwed /\ NothingOwed'
    BY <1>1, <1>4, <2>1 DEF aborted, FinalizeSave, IInv, FinishedWhenDrained, NothingOwed
  <2>7. QED
    BY <1>7, <2>1, <2>2, <2>3, <2>5, <2>6, FinishingKeeps
<1>5. CASE RestartWatch(u) \/ CreateSuccessor(u)
  BY <1>5 DEF RestartWatch, CreateSuccessor, IInv, NoCancel
<1>6. QED
  BY <1>2, <1>3, <1>4, <1>5 DEF Finalizing

-----------------------------------------------------------------------------
(* The orchestrator.                                                        *)

\* A step of the orchestrator that promises no less and reports nothing.
LEMMA OrchPromises ==
  ASSUME IInv, IInv', LedgerBalances, VerdictSettled, ~aborted,
         PendingSearch \subseteq PendingSearch', PendingUnits' = PendingUnits, SameBooks,
         UNCHANGED <<attempts, seen, carry>>, isTerminal' <=> isTerminal, VerdictStays,
         NEW l \in OrchLabel \ {"save"},
         Goto(Orch, l) \/ (\E js \in SUBSET SearchJob : GotoAdding(Orch, l, js))
  PROVE  Kept
<1>1. \A t \in Thread : pc'[t] = l \/ pc'[t] = "queued" \/ pc'[t] = pc[t]
  BY DEF Goto, GotoAdding, IInv, TypeOK, PcOK
<1>2. Promises
  <2>1. pc[Orch] \in OrchLabel /\ OrchLabel \cap {"record", "recordMore"} = {}
    BY Apart DEF IInv, TypeOK, PcOK, LabelOf, OrchLabel, FinalLabel
  <2>2. \A t \in Thread : t # Orch => pc'[t] = pc[t] \/ (pc[t] = "absent" /\ pc'[t] = "queued")
    BY Apart DEF Goto, GotoAdding, Known, IInv, TypeOK, PcOK
  <2>3. pc'[Orch] \notin {"record", "recordMore"}
    <3>1. l \notin {"record", "recordMore"} /\ Orch \in Thread
      BY <2>1 DEF Thread
    <3>2. QED
      BY <1>1, <2>1, <3>1
  <2>4. Unrecorded' = Unrecorded
    BY <2>1, <2>2, <2>3, UnrecordedStays
  <2>5. QED
    BY <2>4 DEF Promises
<1>3. NoNewVerdict
  BY <1>1, Apart DEF NoNewVerdict, OrchLabel, FinalLabel
<1>4. ~aborted'
  BY DEF aborted
<1>5. QED
  BY <1>2, <1>3, <1>4, PromisingKeeps

LEMMA OrchKeeps ==
  ASSUME Dependable, IInv, IInv', LedgerBalances, VerdictSettled, ~aborted, Orchestrator
  PROVE  Kept
<1> USE Apart
<1>1. TypeOK /\ TypeOK' /\ ~isCancelled
  BY DEF IInv, NoCancel, isCancelled
<1>2. CASE OrchBegin \/ markRunning \/ OrchConfig \/ OrchQuotaPause
  <2>1. Planning /\ status \in Active /\ status' \in Active
    BY <1>1, <1>2 DEF OrchBegin, markRunning, OrchConfig, OrchQuotaPause, Planning, IInv,
                      PlanningIsQuiet, scanDoc, Active
  <2>2. VerdictStays /\ ~isTerminal /\ ~isTerminal'
    BY <2>1 DEF VerdictStays, isTerminal, Active, Terminal
  <2>3. SameOwed
    BY <1>1, <1>2, Planned
  <2>4. SameBooks /\ UNCHANGED <<attempts, seen, carry>>
    BY <1>2 DEF SameBooks, OrchBegin, markRunning, OrchConfig, OrchQuotaPause, scanDoc, work
  <2>5. \E l \in OrchLabel \ {"save"} : Goto(Orch, l)
    BY <1>2 DEF OrchBegin, markRunning, OrchConfig, OrchQuotaPause, OrchLabel, FinalLabel
  <2>6. QED
    BY <2>2, <2>3, <2>4, <2>5, OrchPromises DEF SameOwed
<1>3. CASE markCompletedEarly
  <2>1. Planning /\ NothingOwed /\ NothingOwed' /\ status \in Active /\ claimed = {}
    BY <1>1, <1>3, PlanningOwesNothing, CompletedEarly
       DEF markCompletedEarly, Planning, IInv, PlanningIsQuiet, NothingOwed, SameOwed
  <2>2. processed = 0 /\ failed = 0
    <3>1. completed = {} /\ processed = Cardinality(completed) /\ failed <= processed
      BY <2>1 DEF LedgerBalances
    <3>2. Cardinality(completed) = 0
      BY <3>1, FS_EmptySet
    <3>3. QED
      BY <1>1, <3>1, <3>2 DEF TypeOK, DataOK
  <2>3. status' = Outcome /\ isTerminal' /\ ~isTerminal
    BY <1>3, <2>1, <2>2 DEF markCompletedEarly, Outcome, isTerminal, Terminal, Active
  <2>4. /\ SameBooks /\ UNCHANGED <<attempts, seen, carry>> /\ Goto(Orch, "done") /\ ~aborted'
        /\ pc[Orch] = "early"
    BY <1>3 DEF markCompletedEarly, SameBooks, work, aborted
  <2>7. Unrecorded' = Unrecorded
    BY <1>1, <2>4, UnrecordedStays DEF Goto, TypeOK, PcOK
  <2>5. /\ \A r \in Repo : pc'[r] # "acknowledge"
        /\ \A t \in Thread : pc'[t] = "save" => seen'[t].to = Outcome
    BY <1>1, <2>4 DEF Goto, TypeOK, PcOK, LedgerBalances, VerdictSettled
  <2>6. QED
    BY <2>1, <2>3, <2>4, <2>5, <2>7, FinishingKeeps
<1>4. CASE setQueries
  <2>1. \E l \in OrchLabel \ {"save"} : Goto(Orch, l)
    BY <1>4, FreshRead DEF setQueries, AfterPlan, OrchLabel
  <2>2. SameBooks /\ UNCHANGED <<status, attempts, seen, carry>>
    BY <1>4 DEF setQueries, SameBooks, work
  <2>5. PendingSearch \subseteq PendingSearch' /\ PendingUnits' = PendingUnits
    BY <1>1, <1>4, QueriesSet
  <2>3. (isTerminal' <=> isTerminal) /\ VerdictStays
    BY <2>2 DEF isTerminal, VerdictStays
  <2>4. QED
    BY <2>1, <2>2, <2>3, <2>5, OrchPromises
<1>5. CASE FanOut \/ OrchTail
  <2>1. \E l \in OrchLabel \ {"save"} : Goto(Orch, l)
    BY <1>5, FreshRead DEF FanOut, OrchTail, OrchLabel, FinalLabel
  <2>2. SameOwed
    BY <1>1, <1>5, FannedOut
  <2>3. SameBooks /\ UNCHANGED <<status, attempts, seen, carry>>
    BY <1>5 DEF FanOut, OrchTail, SameBooks, scanDoc, work
  <2>4. (isTerminal' <=> isTerminal) /\ VerdictStays
    BY <2>3 DEF isTerminal, VerdictStays
  <2>5. QED
    BY <2>1, <2>2, <2>3, <2>4, OrchPromises DEF SameOwed
<1>6. ASSUME NEW j \in Root, AddRoot(j) PROVE Kept
  <2>1. \E l \in OrchLabel \ {"save"} : GotoAdding(Orch, l, {j})
    BY <1>6 DEF AddRoot, OrchLabel
  <2>2. {j} \in SUBSET SearchJob
    BY ConstantsOK DEF ConstantsOK
  <2>3. SameOwed
    BY <1>1, <1>6, RootAdded
  <2>4. SameBooks /\ UNCHANGED <<status, attempts, seen, carry>>
    BY <1>6 DEF AddRoot, SameBooks, scanDoc
  <2>5. (isTerminal' <=> isTerminal) /\ VerdictStays
    BY <2>4 DEF isTerminal, VerdictStays
  <2>6. QED
    BY <2>1, <2>2, <2>3, <2>4, <2>5, OrchPromises DEF SameOwed
<1>7. QED
  BY <1>2, <1>3, <1>4, <1>5, <1>6, Unreached DEF Orchestrator

-----------------------------------------------------------------------------
(* Every step.                                                              *)

\* A scan that is aborted stays so, whatever its jobs still do.
LEMMA AbortedStays ==
  ASSUME Dependable, IInv, IInv', aborted, Next
  PROVE  aborted'
<1> USE Apart DEF IInv, TypeOK, DataOK, aborted
<1>1. CASE Orchestrator
  BY <1>1, Unreached
     DEF FinishedWhenDrained, Orchestrator, OrchBegin, markRunning, OrchConfig,
         OrchQuotaPause, markCompletedEarly, setQueries, FanOut, AddRoot, OrchTail
<1>2. CASE OrchFault
  BY <1>2 DEF FinishedWhenDrained, OrchFault
<1>3. ASSUME NEW j \in SearchJob, SearchSteps(j) \/ SearchFault(j) \/ SearchLateFault(j)
      PROVE  attempts'[Orch] = attempts[Orch]
  BY <1>3, Unreached
     DEF SearchSteps, SearchBegin, SearchAnswer, ClaimItem, RecordItem, AddAnalysis,
         EndOfPage, NoMorePages, CreditNextPage, AddNextPage, completeSearchJob, Finalizing,
         TryFinalize, FinalizeRead, FinalizeSave, RestartWatch, CreateSuccessor,
         SearchFault
<1>4. ASSUME NEW r \in Repo, UnitSteps(r) \/ UnitFault(r) \/ UnitLateFault(r)
      PROVE  attempts'[Orch] = attempts[Orch]
  BY <1>4, Unreached
     DEF UnitSteps, AnalysisBegin, Acknowledge, AnalysisResult, DetectionBegin, Expand,
         RecordExpanded, AddExpanded, DetectionResult, completeAnalysisUnit, Finalizing, TryFinalize,
         FinalizeRead, FinalizeSave, RestartWatch, CreateSuccessor, UnitFault
<1>5. QED
  BY <1>1, <1>2, <1>3, <1>4, Unreached DEF Next

\* Nothing is promised of the ledger of an aborted scan: its verdict is FAILED.
LEMMA AbortedKeeps ==
  ASSUME IInv, IInv', aborted, aborted'
  PROVE  Kept
<1>1. status = "FAILED" /\ status' = "FAILED"
  BY DEF IInv, FinishedWhenDrained
<1>2. QED
  BY <1>1 DEF Kept, LedgerBalances, VerdictSettled, VerdictStays, ContractStep, phaseBar,
              owedBar

LEMMA AbortingKeeps ==
  ASSUME Dependable, IInv, ~aborted, OrchFault
  PROVE  Kept
<1>1. TypeOK' /\ aborted' /\ pc[Orch] \in {"mark", "config", "plan", "fanout"}
  BY NextTyped, Aborted DEF IInv, Next
<1>2. ~isTerminal
  <2>1. CASE pc[Orch] = "fanout"
    <3>1. PICK j \in Root : j \notin handled
      BY <2>1 DEF IInv, PagesPromisedOnce
    <3>2. ~NothingOwed
      BY <2>1, <3>1, ConstantsOK DEF NothingOwed, PendingSearch, ConstantsOK
    <3>3. QED
      BY <3>2, OwingIsAborted
  <2>2. CASE pc[Orch] # "fanout"
    BY <1>1, <2>2 DEF IInv, PlanningIsQuiet, Planning, isTerminal, Active, Terminal
  <2>3. QED
    BY <2>1, <2>2
<1>3. phaseBar = "open" /\ phaseBar' = "aborted" /\ owedBar' = {}
  BY <1>1, <1>2 DEF phaseBar, owedBar
<1>4. ContractStep
  BY <1>3 DEF ContractStep, Contract!Next, Contract!Abort
<1>5. QED
  BY <1>1, <1>2, <1>4 DEF Kept, LedgerBalances, VerdictSettled, VerdictStays

LEMMA NextKept ==
  ASSUME Dependable, LInv, [Next]_vars
  PROVE  LInv' /\ ContractStep /\ VerdictStays
<1>1. IInv /\ IInv' /\ LedgerBalances /\ VerdictSettled
  BY NextIInv DEF LInv
<1>2. CASE Next /\ aborted
  BY <1>1, <1>2, AbortedStays, AbortedKeeps DEF LInv, Kept
<1>3. CASE Next /\ ~aborted
  <2>1. ASSUME Orchestrator PROVE Kept
    BY <1>1, <1>3, <2>1, OrchKeeps
  <2>2. ASSUME OrchFault PROVE Kept
    BY <1>1, <1>3, <2>2, AbortingKeeps
  <2>3. ASSUME NEW j \in SearchJob, SearchSteps(j) \/ SearchFault(j) \/ SearchLateFault(j)
        PROVE  Kept
    BY <1>1, <1>3, <2>3, PageKeeps, FinalizingKeeps
  <2>4. ASSUME NEW r \in Repo, UnitSteps(r) \/ UnitFault(r) \/ UnitLateFault(r)
        PROVE  Kept
    BY <1>1, <1>3, <2>4, UnitKeeps, FinalizingKeeps
  <2>5. Kept
    BY <1>1, <1>3, <2>1, <2>2, <2>3, <2>4, Unreached DEF Next
  <2>6. QED
    BY <1>1, <2>5 DEF LInv, Kept
<1>4. CASE UNCHANGED vars
  BY <1>1, <1>4
     DEF LInv, vars, scanDoc, work, LedgerBalances, VerdictSettled, aborted, Outcome,
         isTerminal, PendingSearch, PendingUnits, Unrecorded, Busy, ContractStep, VerdictStays,
         phaseBar, owedBar
<1>5. QED
  BY <1>2, <1>3, <1>4

LEMMA InitLInv ==
  ASSUME Dependable, Init
  PROVE  LInv /\ Contract!Init
<1> USE Apart
<1>1. IInv
  BY InitIInv
<1>2. Planning /\ ~aborted /\ ~isTerminal
  BY DEF Init, Planning, aborted, isTerminal, Terminal
<1>3. PendingSearch = {} /\ PendingUnits = {}
  BY <1>1, <1>2, PlanningOwesNothing
<1>4. LedgerBalances
  <2>1. \A t \in Thread : pc[t] \in {"queued", "absent", "idle"}
    BY DEF Init
  <2>2. Unrecorded = {}
    BY <2>1 DEF Unrecorded
  <2>3. QED
    BY <1>3, <2>1, <2>2, FS_EmptySet DEF Init, LedgerBalances
<1>5. VerdictSettled
  BY <1>2 DEF Init, VerdictSettled
<1>6. Contract!Init
  BY <1>2, <1>3 DEF Contract!Init, phaseBar, owedBar
<1>7. QED
  BY <1>1, <1>4, <1>5, <1>6 DEF LInv

\* The ledger of a dependable scan always balances: every repository it has
\* claimed has been processed, once, or is owed, or is between its claim and
\* its record (github-search.processor.ts:322 and 385), or was left there by
\* an attempt that threw; and the finalizes that race have the same verdict.
THEOREM LedgerHolds == Dependable /\ Spec => []LInv
<1>1. Dependable /\ Init => LInv
  BY InitLInv
<1>2. Dependable /\ LInv /\ [Next]_vars => LInv'
  BY NextKept
<1>3. Dependable => []Dependable
  OBVIOUS
<1>4. QED
  BY <1>1, <1>2, <1>3, PTL DEF Spec

\* The status a dependable scan ends with agrees with its final counts:
\* finalize does not compute it on counts that still change.
THEOREM VerdictIsRight == Dependable /\ Spec => []VerdictMatchesCounts
<1>1. LInv => VerdictMatchesCounts
  <2>1. SUFFICES ASSUME LInv PROVE VerdictMatchesCounts
    OBVIOUS
  <2>2. processed \in Nat /\ failed \in Nat /\ attempts[Orch] \in Nat
    BY <2>1, Apart DEF LInv, IInv, TypeOK, DataOK
  <2>3. CASE aborted
    <3>1. status = "FAILED"
      BY <2>1, <2>3 DEF LInv, IInv, FinishedWhenDrained
    <3>2. QED
      BY <2>2, <2>3, <3>1 DEF VerdictMatchesCounts, aborted
  <2>4. CASE ~aborted
    <3>1. failed <= processed /\ (isTerminal => status = Outcome)
      BY <2>1, <2>4 DEF LInv, VerdictSettled, LedgerBalances
    <3>2. QED
      BY <2>2, <3>1 DEF VerdictMatchesCounts, Outcome, isTerminal, Terminal
  <2>5. QED
    BY <2>3, <2>4
<1>2. QED
  BY <1>1, LedgerHolds, PTL

\* When a dependable scan is called complete, every repository it claimed has
\* been processed, and counted, once, but for the claims whose attempt threw
\* before recordRepositoryDiscovered counted them: once a claim is recorded,
\* no throw, retry or race of the handlers loses it.
THEOREM NothingLostOrDoubled == Dependable /\ Spec => []OnlyUnrecordedClaimsAreLost
<1>1. LInv => OnlyUnrecordedClaimsAreLost
  <2>1. SUFFICES ASSUME LInv, status \in {"COMPLETED", "PARTIALLY_COMPLETED"}
                 PROVE  completed = claimed \ lost /\ processed = Cardinality(completed)
    BY DEF OnlyUnrecordedClaimsAreLost
  <2>2. isTerminal /\ ~aborted
    BY <2>1 DEF LInv, IInv, FinishedWhenDrained, isTerminal, Terminal
  <2>3. PendingUnits = {}
    BY <2>1, <2>2 DEF LInv, IInv, FinishedWhenDrained, NothingOwed
  <2>4. \A t \in SearchJob \cup Repo : ~Busy(t)
    BY <2>1, <2>2, BusyIsOpen DEF LInv
  <2>5. \A t \in Thread : pc[t] \notin {"record", "recordMore"}
    BY <2>1, <2>4, Apart
       DEF LInv, IInv, TypeOK, PcOK, LabelOf, OrchLabel, UserLabel, FinalLabel, Busy, Thread
  <2>6. Unrecorded = {}
    BY <2>5 DEF Unrecorded
  <2>7. QED
    BY <2>1, <2>2, <2>3, <2>6 DEF LInv, LedgerBalances
<1>2. QED
  BY <1>1, LedgerHolds, PTL

\* No finalize replaces the verdict of another: a dependable scan that has
\* reached a terminal status keeps it (enums.ts).
THEOREM VerdictIsFinal == Dependable /\ Spec => TerminalIsFinal
<1>1. Dependable /\ LInv /\ [Next]_vars => [isTerminal => status' = status]_vars
  BY NextKept DEF VerdictStays
<1>2. Dependable => []Dependable
  OBVIOUS
<1>3. QED
  BY <1>1, <1>2, LedgerHolds, PTL DEF Spec, TerminalIsFinal

\* A dependable scan implements the contract, step by step: what it promised
\* is reported before it is declared finished, and nothing is promised after.
THEOREM ScanKeepsContract == Dependable /\ Spec => ImplementsContract
<1>1. Dependable /\ Init => Contract!Init
  BY InitLInv
<1>2. Dependable /\ LInv /\ [Next]_vars => [Contract!Next]_<<phaseBar, owedBar>>
  BY NextKept DEF ContractStep
<1>3. Dependable => []Dependable
  OBVIOUS
<1>4. QED
  BY <1>1, <1>2, <1>3, LedgerHolds, PTL DEF Spec, ImplementsContract, Contract!Spec
=============================================================================
