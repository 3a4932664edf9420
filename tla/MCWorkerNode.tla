----------------------------- MODULE MCWorkerNode -----------------------------
(* Three tasks one after the other on one node.  The first recovery may give   *)
(* it more blocks, because there are fewer nodes.                              *)
EXTENDS WorkerNode

MCSize   == <<1, 2, 1>>
MCSingle == <<1, 1>>

\* Nothing is left to call and the workers of the last task wait for ever; or
\* calls that overlapped wait for each other.
Terminated ==
  /\ \/ ~alive \/ tangled
     \/ \A t \in Task : init[t] = "returned" /\ ~Busy(t)
  /\ UNCHANGED nodeVars

\* Bounds: the broker gives up the calls of one task, and asks a node whose
\* calls overlapped for no turn before another Init came to it at rest.
Within ==
  /\ Cardinality(givenUp') <= 1
  /\ tangled /\ tangled' => \A t \in Task : next[t] = "idle" => next'[t] = "idle"

MCSpec == NodeInit /\ [][(NodeNext /\ Within) \/ Terminated]_nodeVars /\ NodeFairness

MCOverlapSpec == NodeInit /\ [][NodeNext \/ Terminated]_nodeVars /\ NodeFairness
==============================================================================
