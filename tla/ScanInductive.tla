----------------------------- MODULE ScanInductive -----------------------------
(***************************************************************************)
(* The dependable scans: a search scan whose queries stay under the split  *)
(* threshold, that nobody cancels, whose orchestrator is not retried,      *)
(* whose checkpoint is not saved over another worker's claim, whose        *)
(* handlers throw only before they have promised or reported work, and     *)
(* whose attempts end where they throw.  The last has no constant: a job   *)
(* that times out (withJobTimeout) is retried while its work goes on, and  *)
(* that is beyond ScanLifecycle.                                           *)
(* For these the scan keeps ScanContract.  This module states the          *)
(* inductive invariant that shows it, and the refinement mapping.          *)
(***************************************************************************)
EXTENDS ScanLifecycle

EarlyFaults == {"searching", "items", "record", "decide", "analysing", "detecting",
                "recordMore", "mark", "config", "plan", "fanout"}

Dependable ==
  /\ Kinds = {"search"} /\ CancelFrom = "never" /\ OrchAttempts = 1
  /\ StaleSaves = {}
  /\ FaultPoints \subseteq EarlyFaults
  /\ \A j \in SearchJob : Halves[j] = {}

aborted == attempts[Orch] > 0

\* Orchestration that has enqueued nothing yet.
Planning == pc[Orch] \in {"queued", "mark", "config", "plan", "early"}

\* Nobody cancels, so the labels of a cancel, a split, a watch and a backlog
\* are never reached.
NoCancel ==
  /\ ~cancelRequested /\ status # "CANCELLED" /\ pc[User] = "idle"
  /\ pc[Orch] \in {"queued", "mark", "config", "plan", "early", "fanout", "addRoot",
                   "tail", "done"}
  /\ \A t \in Thread :
       pc[t] \notin {"split", "creditSplit", "lastItems", "recordLast", "addLast", "itemsSave",
                 "lastSave", "restart", "create"}
  /\ \A t \in Thread : pc[t] = "save" => seen[t].to \notin Active \cup {"CANCELLED"}

\* Until the fan-out nothing is promised and the scan is not over.
PlanningIsQuiet ==
  Planning => /\ ~aborted /\ status \in Active
              /\ \A t \in SearchJob \cup Repo : pc[t] = "absent"
              /\ claimed = {} /\ handled = {}

\* A page that exists, or is owed, has an owner past the point of promising
\* it, so it is promised once.
PagesPromisedOnce ==
  /\ \A j \in Root : (pc[j] # "absent" => j \in handled)
  /\ pc[Orch] \in {"fanout", "addRoot"} => ~ Root \subseteq handled
  /\ \A j \in SearchJob : \A k \in NextPage[j] :
       /\ pc[k] # "absent" => pc[j] \in {"report"} \cup FinalLabel
       /\ pc[j] = "addNext" => pc[k] = "absent"

\* A repository a thread carries is claimed, not enqueued, and carried once.
CarriedOnce ==
  /\ \A t \in Thread : pc[t] \notin {"record", "recordMore", "add", "addMore"} => carry[t] = {}
  /\ \A t \in Thread : pc[t] \in {"record", "recordMore"} => \E r \in Repo : carry[t] = {r}
  /\ \A t \in Thread : \A r \in carry[t] : pc[r] = "absent" /\ r \in claimed
  /\ \A t, u \in Thread : t # u => carry[t] \cap carry[u] = {}
  /\ \A r \in Repo : pc[r] # "absent" => r \in claimed

\* The counters count the work that is owed.
CountersCount ==
  ~aborted => /\ awaitingSearch = Cardinality(PendingSearch)
              /\ awaitingAnalysis = Cardinality(PendingUnits)

NothingOwed == PendingSearch = {} /\ PendingUnits = {}

\* A finalize is under way, or the scan is over, only when nothing is owed;
\* an aborted scan stays FAILED.
FinishedWhenDrained ==
  /\ ~aborted => /\ \A t \in Thread : pc[t] \in {"finalize", "save"} => NothingOwed
                 /\ isTerminal => NothingOwed
  /\ aborted => /\ pc[Orch] = "done" /\ status = "FAILED"
                /\ \A t \in Thread : pc[t] \notin {"finalize", "save"}

IInv == /\ TypeOK /\ NoCancel /\ PlanningIsQuiet /\ PagesPromisedOnce
        /\ CarriedOnce /\ CountersCount /\ FinishedWhenDrained

-----------------------------------------------------------------------------
(* What the counts say of the claims, and the verdict of the counts.        *)

\* Claimed, and the record is still to come.
Unrecorded ==
  {r \in Repo : \E t \in Thread : pc[t] \in {"record", "recordMore"} /\ r \in carry[t]}

\* Every claimed repository has been processed, once, is owed, is about to be
\* recorded, or was lost to a throw before its record; the second attempt that
\* finds its repository processed is not needed.
LedgerBalances ==
  ~aborted => /\ claimed = completed \cup PendingUnits \cup Unrecorded \cup lost
              /\ completed \cap PendingUnits = {}
              /\ Unrecorded \cap (completed \cup PendingUnits) = {}
              /\ lost \cap (completed \cup PendingUnits \cup Unrecorded) = {}
              /\ processed = Cardinality(completed) /\ failed <= processed
              /\ \A r \in Repo : pc[r] # "acknowledge"

\* finalize's verdict where nobody cancels.
Outcome == IF failed = 0 THEN "COMPLETED"
           ELSE IF failed < processed THEN "PARTIALLY_COMPLETED" ELSE "FAILED"

\* Every finalize in progress, and the one that was first, has the same
\* verdict; one that will not write it has read it in a scan that is over.
VerdictSettled ==
  ~aborted => /\ \A t \in Thread :
                   pc[t] = "save" => /\ seen[t].to = Outcome
                                     /\ seen[t].was \in Terminal => isTerminal
              /\ isTerminal => status = Outcome

LInv == IInv /\ LedgerBalances /\ VerdictSettled

-----------------------------------------------------------------------------
(* Refinement.                                                             *)

phaseBar == IF aborted THEN "aborted" ELSE IF isTerminal THEN "finished" ELSE "open"
owedBar == IF aborted THEN {} ELSE PendingSearch \cup PendingUnits

Contract == INSTANCE ScanContract
              WITH Work <- SearchJob \cup Repo, phase <- phaseBar, owed <- owedBar

\* A dependable scan implements the contract: this is how the two counters,
\* the continuation that is credited before it is enqueued and the record
\* before the analysis job work together.
ImplementsContract == Contract!Spec
=============================================================================
