--------------------------- MODULE MCGitHubQuota ---------------------------
(* A small instance of GitHubQuota: two jobs in two processes that ask for   *)
(* one paced resource, on one token.                                         *)
EXTENDS GitHubQuota, TLC

CONSTANTS j1, j2, p1, p2, w1, search, core, everyone, shared, noScan, scan

TwoProcs == j1 :> p1 @@ j2 :> p2
Of(w, r) == [workspace |-> w, resource |-> r]
Asked == j1 :> {Of(w1, search)} @@ j2 :> {Of(w1, search), Of(everyone, core)}
OneScan == j1 :> scan @@ j2 :> noScan

A(kind, remaining, reset, retry) ==
  [kind |-> kind, remaining |-> remaining, reset |-> reset, retry |-> retry]

Good == A("ok", "plenty", 0, 0)
SomeAnswers == {Good, A("ok", "exhausted", 1, 0), A("denied", "plenty", 0, 0),
                A("limited", "exhausted", 2, 0), A("secondary", "plenty", 0, 1),
                A("broken", "plenty", 0, 0), NoAnswer}
=============================================================================
