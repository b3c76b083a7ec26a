----------------------------- MODULE MCDaemonJobs -----------------------------
EXTENDS DaemonJobs, TLC
CONSTANTS n1
Proof(jti, iat, purpose) ==
  [jti |-> jti, nonce |-> n1, iat |-> iat, purpose |-> purpose]
report == Proof("a", 1, "report")
again == Proof("b", 2, "report")
poll == Proof("c", 2, "jobs")
MCProofs == {report, again, poll}
Request(id, content) == [id |-> id, content |-> content]
MCRequests == {Request("q", 1), Request("q", 2)}
Load(handlers, proofs, requests, reported, most) ==
  [handlers |-> handlers, proofs |-> proofs, requests |-> requests,
   reported |-> reported, changes |-> most]
(* Two reports of a device that changes; an id asked for with two contents; *)
(* a job issued, polled for and reported as confirmed at once; one request  *)
(* after the other, with two reports, or while more changes.                *)
MCLoads ==
  {Load(Handlers, {report, again}, {}, FALSE, 1),
   Load(Handlers, {}, {Request("q", 1), Request("q", 2)}, TRUE, 0),
   Load(Handlers, {report, poll}, {Request("q", 1)}, TRUE, 0)}
  \cup {Load({h}, MCProofs, {Request("q", 1)}, TRUE, 0) : h \in Handlers}
  \cup {Load({h}, {poll}, {Request("q", 1)}, TRUE, 2) : h \in Handlers}
Symmetry == Permutations(Handlers)
=============================================================================
