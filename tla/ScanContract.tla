----------------------------- MODULE ScanContract -----------------------------
(***************************************************************************)
(* What a scan promises its user, without jobs, counters or workers: work  *)
(* that was promised is reported before the scan is declared finished, and *)
(* a finished or aborted scan promises nothing more.                       *)
(***************************************************************************)
CONSTANT Work     \* search pages and repositories

VARIABLES
  phase,          \* "open", "finished" or "aborted"
  owed            \* work promised and not yet reported

TypeOK == phase \in {"open", "finished", "aborted"} /\ owed \in SUBSET Work

Init == phase = "open" /\ owed = {}

\* Queries are planned, a page is continued, a repository is recorded.
Promise(ws) ==
  /\ phase = "open"
  /\ owed' = owed \cup ws
  /\ UNCHANGED phase

Report(w) ==
  /\ phase = "open"
  /\ w \in owed
  /\ owed' = owed \ {w}
  /\ UNCHANGED phase

Finish ==
  /\ phase = "open" /\ owed = {}
  /\ phase' = "finished"
  /\ UNCHANGED owed

\* The orchestrator fails: what is still owed is dropped.
Abort ==
  /\ phase = "open"
  /\ phase' = "aborted"
  /\ owed' = {}

Next == \/ \E ws \in SUBSET Work : Promise(ws)
        \/ \E w \in Work : Report(w)
        \/ Finish \/ Abort

Spec == Init /\ [][Next]_<<phase, owed>>
=============================================================================
