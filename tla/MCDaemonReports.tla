-------------------------- MODULE MCDaemonReports --------------------------
EXTENDS DaemonReports, TLC
CONSTANTS j1, j2
Report(id, number, first, second) ==
  [id |-> id, sequence |-> number, results |-> j1 :> first @@ j2 :> second]
(* Three reports of a well-behaved daemon, the second one altered, and the *)
(* id of the first one under another sequence.                             *)
MCReports ==
  {Report("a", 1, "unknown", "none"), Report("b", 2, "confirmed", "unknown"),
   Report("c", 3, "none", "confirmed"), Report("b", 2, "none", "none"),
   Report("a", 3, "none", "none")}
Symmetry == Permutations(Handlers)
=============================================================================
