-------------------------- MODULE MCKeywordRotation --------------------------
(* Small instances of KeywordRotation.                                       *)
EXTENDS KeywordRotation

CONSTANTS k1, k2, h1, h2

Turn(k) == [kw |-> k, paused |-> FALSE]
Rest(k) == [kw |-> k, paused |-> TRUE]

\* Two turns, the same keyword twice, a slot that starts paused.
SomeQueues == {<<Turn(k1), Turn(k2)>>, <<Turn(k1), Turn(k1)>>, <<Rest(k1), Turn(k2)>>}
\* Two turns, and one that leaves a keyword to add.
RaceQueues == {<<Turn(k1), Turn(k2)>>, <<Turn(k1)>>}
=============================================================================
