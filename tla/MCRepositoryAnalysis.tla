------------------------ MODULE MCRepositoryAnalysis ------------------------
(* Small instances of RepositoryAnalysis: two scans of the default branch,   *)
(* or one of it and one of a side branch.                                    *)
EXTENDS RepositoryAnalysis, TLC

CONSTANTS s1, s2, s3, main, side, leak, phish

OnMain == s1 :> main @@ s2 :> main
OneEach == s1 :> main @@ s3 :> side

\* What is found in the first version is gone in the second, where something else is;
\* new rules no longer report what the old ones did of the first.
Changes == 1 :> (1 :> {leak} @@ 2 :> {}) @@ 2 :> (1 :> {phish} @@ 2 :> {phish})

Steady == 1 :> (1 :> {leak})
=============================================================================
