-------------------------- MODULE ClusterReconciler --------------------------
(***************************************************************************)
(* sources/cluster-reconciler.go: calls of Reconcile read a snapshot, plan  *)
(* the placements anew and commit them, unless somebody else has committed  *)
(* in between; then they try again, a few times.                            *)
(*                                                                          *)
(* What else is in the store, the nodes and the workloads, is changed by    *)
(* others through the same Commit.  Nodes and workloads have distinct names *)
(* and are numbered in the order of these.  Of a node only Free() is kept,  *)
(* of a selector the nodes whose labels match it; the message is left out.  *)
(***************************************************************************)
EXTENDS Integers, FiniteSets

CONSTANTS
  Clusters,      \* free room of each node, and the workloads by their number
  NoCluster,     \* the one with neither nodes nor workloads
  MaxWorkloads,  \* bound on the number of a workload
  MaxRetries,    \* maxRetries, 4 in the source
  Calls,         \* calls of Reconcile that may be under way at a time
  MaxCalls,      \* bound on the calls of Reconcile
  MaxEdits       \* bound on the changes of the cluster

\* The room and the weights may be below 0, which nothing refuses; a number of
\* replicas below 0 is as 0.
IsCluster(c) ==
  /\ IsFiniteSet(DOMAIN c.free) /\ DOMAIN c.free \subseteq Nat
  /\ c.free \in [DOMAIN c.free -> Int]
  /\ DOMAIN c.workloads \subseteq 1..MaxWorkloads
  /\ \A i \in DOMAIN c.workloads :
       c.workloads[i].replicas \in Nat /\ c.workloads[i].weight \in Int

ASSUME ReconcilerAssumption ==
  /\ MaxWorkloads \in Nat /\ MaxRetries \in Nat \ {0}
  /\ MaxCalls \in Nat /\ MaxEdits \in Nat
  /\ NoCluster \in Clusters
  /\ \A c \in Clusters : IsCluster(c)

VARIABLES
  stored,        \* MemoryStore.state
  pc,            \* of each call: "idle", "read" (next) or "commit" (next)
  attempt,
  next,          \* what the call is about to commit
  cancelled,     \* is the context of the call cancelled?
  edited,        \* history: did the last commit change the cluster?
  edits, calls,  \* history: how many there were
  since          \* history: the revision at which the call began

callVars == <<pc, attempt, next, cancelled, since>>
reconcilerVars == <<stored, callVars, edited, edits, calls>>

-----------------------------------------------------------------------------
(* plan *)

\* sortNodes: the most room first, then the first name.
Before(free, m, n) ==
  \/ free[m] > free[n]
  \/ free[m] = free[n] /\ m < n

\* Faulty: a node that would be full is passed over.
Hosts_NeverFull(free, w) == {n \in DOMAIN free : free[n] > w.weight /\ n \in w.hosts}

Hosts(free, w) == {n \in DOMAIN free : free[n] >= w.weight /\ n \in w.hosts}

\* The replicas of one workload, in an order of the nodes that stays until all
\* have been tried.  For a replica that fits nowhere nothing happens.
PlaceReplicas(sofar, i, w) ==
  LET after[r \in 0..w.replicas] ==
        IF r = 0 THEN sofar
        ELSE LET before == after[r - 1]
                 hosts == Hosts(before.free, w)
                 chosen == CHOOSE n \in hosts :
                             \A m \in hosts \ {n} : Before(sofar.free, n, m)
             IN IF hosts = {} THEN before
                ELSE [free |-> [before.free EXCEPT ![chosen] = @ - w.weight],
                      placements |-> before.placements \cup
                        {[workload |-> i, ordinal |-> r - 1, node |-> chosen]}]
  IN after[w.replicas]

\* All workloads, in the order of their names.
PlaceAll(cluster) ==
  LET after[i \in 0..MaxWorkloads] ==
        IF i = 0 THEN [free |-> cluster.free, placements |-> {}]
        ELSE LET before == after[i - 1] IN
             IF i \notin DOMAIN cluster.workloads THEN before
             ELSE PlaceReplicas(before, i, cluster.workloads[i])
  IN after[MaxWorkloads]

\* Faulty: the room that was taken is taken for good.
plan_KeepsUsed(snapshot) ==
  [revision   |-> snapshot.revision + 1,
   cluster    |-> [snapshot.cluster EXCEPT !.free = PlaceAll(snapshot.cluster).free],
   placements |-> PlaceAll(snapshot.cluster).placements,
   phase      |-> "ready"]

\* The nodes go back as they came: what the plan takes from them is not used
\* until somebody else says so.  Whatever phase the loop had set is replaced.
plan(snapshot) ==
  LET placements == PlaceAll(snapshot.cluster).placements IN
  [revision   |-> snapshot.revision + 1,
   cluster    |-> snapshot.cluster,
   placements |-> placements,
   phase      |-> IF placements = {} /\ DOMAIN snapshot.cluster.workloads # {}
                  THEN "waiting" ELSE "ready"]

-----------------------------------------------------------------------------
(* NewMemoryStore, and the other callers of Commit *)

Empty == [revision |-> 0, cluster |-> NoCluster, placements |-> {},
          phase |-> "waiting"]

ReconcilerInit ==
  /\ stored = Empty
  /\ pc = [k \in Calls |-> "idle"]
  /\ attempt = [k \in Calls |-> 0]
  /\ next = [k \in Calls |-> Empty]
  /\ cancelled = [k \in Calls |-> FALSE]
  /\ edited = TRUE /\ edits = 0 /\ calls = 0
  /\ since = [k \in Calls |-> 0]

Edited(snapshot, cluster) ==
  [revision   |-> snapshot.revision + 1,
   cluster    |-> cluster,
   placements |-> snapshot.placements,
   phase      |-> snapshot.phase]

\* They commit what they read, with other nodes or workloads.
Edit(cluster) ==
  /\ edits < MaxEdits
  /\ edits' = edits + 1
  /\ stored' = Edited(stored, cluster)
  /\ edited' = TRUE
  /\ UNCHANGED <<callVars, calls>>

-----------------------------------------------------------------------------
(* Reconcile *)

Start(k) ==
  /\ pc[k] = "idle"
  /\ calls < MaxCalls
  /\ calls' = calls + 1
  /\ pc' = [pc EXCEPT ![k] = "read"]
  /\ attempt' = [attempt EXCEPT ![k] = 0]
  /\ cancelled' = [cancelled EXCEPT ![k] = FALSE]
  /\ since' = [since EXCEPT ![k] = stored.revision]
  /\ UNCHANGED <<stored, next, edited, edits>>

\* A cancelled context is looked at after a conflict only.
Cancel(k) ==
  /\ pc[k] # "idle"
  /\ cancelled' = [cancelled EXCEPT ![k] = TRUE]
  /\ UNCHANGED <<stored, pc, attempt, next, edited, edits, calls, since>>

Read(k) ==
  /\ pc[k] = "read"
  /\ next' = [next EXCEPT ![k] = plan(stored)]
  /\ pc' = [pc EXCEPT ![k] = "commit"]
  /\ UNCHANGED <<stored, attempt, cancelled, edited, edits, calls, since>>

\* Faulty: any newer revision will do.
Accepts_Newer(k) == next[k].revision >= stored.revision

\* MemoryStore.Commit
Accepts(k) == next[k].revision = stored.revision + 1

Commits(k) ==
  /\ pc[k] = "commit"
  /\ Accepts(k)
  /\ stored' = next[k]
  /\ edited' = FALSE
  /\ pc' = [pc EXCEPT ![k] = "idle"]
  /\ UNCHANGED <<attempt, next, cancelled, edits, calls, since>>

\* Faulty: an attempt is counted twice, in the loop and at the conflict.
Conflict_CountsTwice(k) ==
  /\ pc[k] = "commit"
  /\ ~Accepts(k)
  /\ attempt' = [attempt EXCEPT ![k] = @ + 2]
  /\ pc' = [pc EXCEPT ![k] =
              IF cancelled[k] \/ attempt[k] + 2 >= MaxRetries THEN "idle" ELSE "read"]
  /\ UNCHANGED <<stored, next, cancelled, edited, edits, calls, since>>

\* Once more, unless the call is cancelled or its attempts are used up.
Conflict(k) ==
  /\ pc[k] = "commit"
  /\ ~Accepts(k)
  /\ attempt' = [attempt EXCEPT ![k] = @ + 1]
  /\ pc' = [pc EXCEPT ![k] =
              IF cancelled[k] \/ attempt[k] + 1 >= MaxRetries THEN "idle" ELSE "read"]
  /\ UNCHANGED <<stored, next, cancelled, edited, edits, calls, since>>

ReconcilerNext ==
  \/ \E cluster \in Clusters : Edit(cluster)
  \/ \E k \in Calls :
       Start(k) \/ Cancel(k) \/ Read(k) \/ Commits(k) \/ Conflict(k)

ReconcilerSpec == ReconcilerInit /\ [][ReconcilerNext]_reconcilerVars

-----------------------------------------------------------------------------
(* Properties *)

\* The store changes as if each plan were made and committed in one step: no
\* plan is ever stored for nodes or workloads that somebody changed after the
\* call had read them.
PlansAreCurrent ==
  [][\/ stored' = plan(stored)
     \/ \E cluster \in Clusters : stored' = Edited(stored, cluster)]_stored

\* Until somebody changes the nodes or the workloads, placements stay where
\* they are, whichever calls plan them again.
PlansAreStable ==
  [][~edited /\ ~edited' => stored'.placements = stored.placements]_reconcilerVars

\* A call loses an attempt only to a commit of somebody else: when its retries
\* are exhausted, the store has moved on by as many revisions since it began.
RetriesMeanProgress ==
  \A k \in Calls : since[k] + attempt[k] <= stored.revision

Taken(n) ==
  LET weight[i \in 0..MaxWorkloads] ==
        IF i = 0 THEN 0
        ELSE weight[i - 1] + IF i \notin DOMAIN stored.cluster.workloads THEN 0
          ELSE stored.cluster.workloads[i].weight *
                 Cardinality({p \in stored.placements : p.workload = i /\ p.node = n})
  IN weight[MaxWorkloads]

Unplaced(i) ==
  Cardinality({p \in stored.placements : p.workload = i})
    < stored.cluster.workloads[i].replicas

NoneOverfull ==
  \A p \in stored.placements :
    /\ Taken(p.node) <= stored.cluster.free[p.node]
    /\ p.node \in stored.cluster.workloads[p.workload].hosts

\* Only a workload of negative weight gives room to those before it.
LaterOnesTake(i) ==
  \A j \in DOMAIN stored.cluster.workloads : j > i => stored.cluster.workloads[j].weight >= 0

LeftOutFitNowhere ==
  \A i \in DOMAIN stored.cluster.workloads : Unplaced(i) /\ LaterOnesTake(i) =>
    \A n \in stored.cluster.workloads[i].hosts \cap DOMAIN stored.cluster.free :
      stored.cluster.free[n] - Taken(n) < stored.cluster.workloads[i].weight

\* What is planned fits: no node is given more than it has room for, nor what
\* its labels do not allow, over all the workloads that share it; and a replica
\* is left out only where no node that may have it has room for it, even after
\* the workloads that come later had their turn.  Nothing refuses a workload of
\* negative weight, and after one of these there may be room.
PlacementsFit == ~edited => NoneOverfull /\ LeftOutFitNowhere
=============================================================================
