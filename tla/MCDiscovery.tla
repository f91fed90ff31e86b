---------------------------- MODULE MCDiscovery ----------------------------
(* A small instance of Discovery: two scans, the second of which continues *)
(* from the bookmarks.                                                     *)
EXTENDS Discovery

Three == 1 .. 3
Languages == [r \in Three |-> IF r = 2 THEN "js" ELSE "other"]
Js == {"js"}
All == Query("repositories", "any", 1, 3)
Late == Query("repositories", "any", 2, 3)
Last == Query("repositories", "any", 3, 3)
Code == Query("code", "any", 1, 3)
Of(first, second) == [s \in {"a", "b"} |-> IF s = "a" THEN {first} ELSE {second}]
Plan(only, root, maxRepos, batch, maxFaults) ==
  [only |-> only, root |-> root, maxRepos |-> maxRepos, batch |-> batch, maxFaults |-> maxFaults]
\* A split and a bookmark that another scan continues from; code search; a cap; failures.
FourPlans ==
  { Plan({"a", "b"}, Of(All, Late), 5, 1, 0), Plan({"a"}, Of(Last, Code), 5, 1, 0),
    Plan({"a"}, Of(All, Late), 1, 2, 0), Plan({"a", "b"}, Of(Late, Late), 5, 1, 2) }
=============================================================================
