--------------------------- MODULE MCScanLifecycle ---------------------------
(* Small instances of ScanLifecycle: q1 is the planned query; it             *)
(* has a second page, q1 can be split into h1 and h2.                        *)
EXTENDS ScanInductive, TLC

CONSTANTS q1, n1, h1, h2, r1, r2

OneQuery == {q1}

Pages == {q1, n1}
Family == {q1, n1, h1, h2}

NextOf(js) == [j \in js |-> IF j = q1 /\ n1 \in js THEN {n1} ELSE {}]
HalvesOf(js) == [j \in js |-> IF j = q1 THEN js \cap {h1, h2} ELSE {}]

NextPages == NextOf(SearchJob)
Splits == HalvesOf(SearchJob)

TwoRepos == {r1, r2}
OneRepo == {r1}

\* Throws also in jobs that have already reported.
LateFaults == EarlyFaults \cup {"reported"}
NoFaults == {}
=============================================================================
