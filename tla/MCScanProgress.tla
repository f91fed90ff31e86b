--------------------------- MODULE MCScanProgress ---------------------------
(* A small instance of ScanProgress: one API process and one worker.       *)
EXTENDS ScanProgress, TLC
CONSTANTS api, worker

OneEach == {<<api, 1>>, <<worker, 1>>}
TwoAtWork == OneEach \cup {<<worker, 2>>}
BothAtWork == {<<worker, 1>>, <<worker, 2>>}
=============================================================================
