------------------------ MODULE MCClusterReconciler ------------------------
(***************************************************************************)
(* Two nodes and two workloads, of which the second fits on one node only.  *)
(* Rooms that are enough, too small, and just enough if the first workload  *)
(* leaves the second its node.  With two retries and two edits a call can   *)
(* lose all its attempts.                                                   *)
(***************************************************************************)
EXTENDS ClusterReconciler, TLC

CONSTANTS k1, k2

TwoCalls == {k1, k2}
CallSymmetry == Permutations(TwoCalls)

Nobody == [free |-> [n \in {} |-> 0], workloads |-> [i \in {} |-> 0]]

Rooms == {[n \in {1, 2} |-> IF n = 1 THEN room ELSE 2] : room \in {1, 3}}

Work(replicas) ==
  [i \in {1, 2} |-> IF i = 1 THEN [replicas |-> replicas, weight |-> 1, hosts |-> {1, 2}]
                             ELSE [replicas |-> 1, weight |-> 2, hosts |-> {2}]]

\* The second gives back what the first takes, and more.
Giver == [free      |-> [n \in {1, 2} |-> 2],
          workloads |-> [Work(4) EXCEPT ![1].weight = 2, ![2].weight = -3]]

SomeClusters ==
  {Nobody, Giver} \cup {[free |-> room, workloads |-> Work(replicas)] :
                   room \in Rooms, replicas \in {1, 2, 4}}
=============================================================================
