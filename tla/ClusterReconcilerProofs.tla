----------------------- MODULE ClusterReconcilerProofs -----------------------
(***************************************************************************)
(* What a call is about to commit was planned from the store as it was at   *)
(* the revision before; Commit accepts it only if the store still is at     *)
(* that revision, and the store is at each revision once.  For that nothing *)
(* is needed of the plan but that it keeps the cluster and that equal       *)
(* clusters have equal plans.  That its placements fit is an induction over *)
(* the replicas of a workload, and over the workloads.                      *)
(***************************************************************************)
EXTENDS ClusterReconciler, DataInduction, FiniteSetTheorems, TLAPS

\* The variables of the calls are functions, and the counters are numbers.
CallsAreTyped ==
  /\ pc \in [Calls -> {"idle", "read", "commit"}]
  /\ attempt \in [Calls -> Nat]
  /\ since \in [Calls -> Nat]
  /\ DOMAIN next = Calls
  /\ stored.revision \in Nat

\* What waits to be committed was read no later than now and paid for by that
\* revision, and if the store still is at it, it is what one would plan now.
Waiting(k) ==
  /\ next[k].revision \in Int
  /\ since[k] + attempt[k] <= next[k].revision - 1
  /\ next[k].revision - 1 <= stored.revision
  /\ next[k].revision = stored.revision + 1 => next[k] = plan(stored)

PlansWait == \A k \in Calls : pc[k] = "commit" => Waiting(k)

\* What was planned last is what would be planned now.
StoredIsPlanned ==
  ~edited => stored.placements = PlaceAll(stored.cluster).placements

ReconcilerInv ==
  CallsAreTyped /\ RetriesMeanProgress /\ PlansWait /\ StoredIsPlanned

-----------------------------------------------------------------------------

\* A plan is one revision on, keeps the cluster, and depends on nothing else.
LEMMA PlanFields ==
  ASSUME NEW s
  PROVE  /\ plan(s).revision = s.revision + 1
         /\ plan(s).cluster = s.cluster
         /\ plan(s).placements = PlaceAll(s.cluster).placements
BY DEF plan

\* Nothing has been begun.
LEMMA ReconcilerInitInv == ReconcilerInit => ReconcilerInv
BY DEF ReconcilerInit, Empty, ReconcilerInv, CallsAreTyped, RetriesMeanProgress,
       PlansWait, StoredIsPlanned

\* A new revision makes every waiting plan one that Commit refuses.
LEMMA NewRevisionKeepsWaiting ==
  ASSUME CallsAreTyped, NEW k \in Calls, Waiting(k),
         stored'.revision = stored.revision + 1,
         next'[k] = next[k], since' = since, attempt' = attempt
  PROVE  Waiting(k)'
BY DEF CallsAreTyped, Waiting

\* A change of the cluster keeps the invariant: no plan that waits is accepted
\* any more.
LEMMA EditKeepsInv ==
  ASSUME ReconcilerInv, NEW cluster \in Clusters, Edit(cluster)
  PROVE  ReconcilerInv'
<1>1. stored'.revision = stored.revision + 1
  BY DEF Edit, Edited
<1>2. UNCHANGED <<pc, attempt, next, since>> /\ edited' = TRUE
  BY DEF Edit, callVars
<1>3. CallsAreTyped'
  BY <1>1, <1>2 DEF ReconcilerInv, CallsAreTyped
<1>4. RetriesMeanProgress'
  BY <1>1, <1>2 DEF ReconcilerInv, CallsAreTyped, RetriesMeanProgress
<1>5. PlansWait'
  BY <1>1, <1>2, NewRevisionKeepsWaiting DEF ReconcilerInv, PlansWait
<1>6. StoredIsPlanned'
  BY <1>2 DEF StoredIsPlanned
<1>. QED  BY <1>3, <1>4, <1>5, <1>6 DEF ReconcilerInv

\* A call that begins has lost no attempt, and waits with no plan.
LEMMA StartKeepsInv ==
  ASSUME ReconcilerInv, NEW k \in Calls, Start(k)
  PROVE  ReconcilerInv'
<1>1. UNCHANGED <<stored, next, edited>>
  BY DEF Start
<1>2. CallsAreTyped'
  BY DEF Start, ReconcilerInv, CallsAreTyped
<1>3. RetriesMeanProgress'
  BY DEF Start, ReconcilerInv, CallsAreTyped, RetriesMeanProgress
<1>4. ASSUME NEW j \in Calls, pc'[j] = "commit"
      PROVE  Waiting(j)'
  <2>1. j # k /\ pc[j] = "commit"
    BY <1>4 DEF Start, ReconcilerInv, CallsAreTyped
  <2>2. since'[j] = since[j] /\ attempt'[j] = attempt[j]
    BY <2>1 DEF Start, ReconcilerInv, CallsAreTyped
  <2>3. Waiting(j)
    BY <2>1 DEF ReconcilerInv, PlansWait
  <2>. QED  BY <1>1, <2>2, <2>3 DEF Waiting
<1>5. StoredIsPlanned'
  BY <1>1 DEF ReconcilerInv, StoredIsPlanned
<1>. QED  BY <1>2, <1>3, <1>4, <1>5 DEF ReconcilerInv, PlansWait

\* What is planned from the store is what one would plan of it.
LEMMA ReadKeepsInv ==
  ASSUME ReconcilerInv, NEW k \in Calls, Read(k)
  PROVE  ReconcilerInv'
<1>1. UNCHANGED <<stored, attempt, since, edited>>
  BY DEF Read
<1>2. next'[k] = plan(stored) /\ \A j \in Calls \ {k} : next'[j] = next[j]
  BY DEF Read, ReconcilerInv, CallsAreTyped
<1>3. \A j \in Calls \ {k} : pc'[j] = pc[j]
  BY DEF Read, ReconcilerInv, CallsAreTyped
<1>4. CallsAreTyped'
  BY DEF Read, ReconcilerInv, CallsAreTyped
<1>5. RetriesMeanProgress'
  BY <1>1 DEF ReconcilerInv, RetriesMeanProgress
<1>6. ASSUME NEW j \in Calls, pc'[j] = "commit"
      PROVE  Waiting(j)'
  <2>1. CASE j = k
    BY <1>1, <1>2, <2>1, PlanFields
       DEF Waiting, ReconcilerInv, CallsAreTyped, RetriesMeanProgress
  <2>2. CASE j # k
    BY <1>1, <1>2, <1>3, <1>6, <2>2 DEF Waiting, ReconcilerInv, PlansWait
  <2>. QED  BY <2>1, <2>2
<1>7. StoredIsPlanned'
  BY <1>1 DEF ReconcilerInv, StoredIsPlanned
<1>. QED  BY <1>4, <1>5, <1>6, <1>7 DEF ReconcilerInv, PlansWait

\* The plan that is accepted is the one that would be made now.
LEMMA CommitIsPlan ==
  ASSUME ReconcilerInv, NEW k \in Calls, Commits(k)
  PROVE  stored' = plan(stored)
BY DEF Commits, Accepts, ReconcilerInv, PlansWait, Waiting

\* A commit is a new revision, and planning again would give the same.
LEMMA CommitKeepsInv ==
  ASSUME ReconcilerInv, NEW k \in Calls, Commits(k)
  PROVE  ReconcilerInv'
<1>1. stored' = plan(stored)
  BY CommitIsPlan
<1>2. /\ stored'.revision = stored.revision + 1
      /\ stored'.cluster = stored.cluster
      /\ stored'.placements = PlaceAll(stored.cluster).placements
  BY <1>1, PlanFields
<1>3. UNCHANGED <<attempt, next, since>>
  BY DEF Commits
<1>4. CallsAreTyped'
  BY <1>2 DEF Commits, ReconcilerInv, CallsAreTyped
<1>5. RetriesMeanProgress'
  BY <1>2, <1>3 DEF ReconcilerInv, CallsAreTyped, RetriesMeanProgress
<1>6. ASSUME NEW j \in Calls, pc'[j] = "commit"
      PROVE  Waiting(j)'
  <2>1. pc[j] = "commit"
    BY <1>6 DEF Commits, ReconcilerInv, CallsAreTyped
  <2>. QED  BY <1>2, <1>3, <2>1, NewRevisionKeepsWaiting DEF ReconcilerInv, PlansWait
<1>7. StoredIsPlanned'
  BY <1>2 DEF StoredIsPlanned
<1>. QED  BY <1>4, <1>5, <1>6, <1>7 DEF ReconcilerInv, PlansWait

\* An attempt is lost at a revision that is newer than the one that was read.
LEMMA ConflictKeepsInv ==
  ASSUME ReconcilerInv, NEW k \in Calls, Conflict(k)
  PROVE  ReconcilerInv'
<1>1. UNCHANGED <<stored, next, edited, since>>
  BY DEF Conflict
<1>2. \A j \in Calls \ {k} : attempt'[j] = attempt[j] /\ pc'[j] = pc[j]
  BY DEF Conflict, ReconcilerInv, CallsAreTyped
<1>3. attempt'[k] = attempt[k] + 1 /\ pc'[k] # "commit"
  BY DEF Conflict, ReconcilerInv, CallsAreTyped
<1>4. CallsAreTyped'
  BY DEF Conflict, ReconcilerInv, CallsAreTyped
<1>5. since[k] + attempt[k] + 1 <= stored.revision
  <2>1. Waiting(k)
    BY DEF Conflict, ReconcilerInv, PlansWait
  <2>2. next[k].revision # stored.revision + 1
    BY DEF Conflict, Accepts
  <2>. QED  BY <2>1, <2>2 DEF ReconcilerInv, CallsAreTyped, Waiting
<1>6. RetriesMeanProgress'
  BY <1>1, <1>2, <1>3, <1>5 DEF ReconcilerInv, CallsAreTyped, RetriesMeanProgress
<1>7. ASSUME NEW j \in Calls, pc'[j] = "commit"
      PROVE  Waiting(j)'
  BY <1>1, <1>2, <1>3, <1>7 DEF ReconcilerInv, PlansWait, Waiting
<1>8. StoredIsPlanned'
  BY <1>1 DEF ReconcilerInv, StoredIsPlanned
<1>. QED  BY <1>4, <1>6, <1>7, <1>8 DEF ReconcilerInv, PlansWait

\* Cancelling a call, or doing nothing, changes nothing of this.
LEMMA RestKeepsInv ==
  ASSUME ReconcilerInv, UNCHANGED <<stored, pc, attempt, next, edited, since>>
  PROVE  ReconcilerInv'
BY DEF ReconcilerInv, CallsAreTyped, RetriesMeanProgress, PlansWait, Waiting,
       StoredIsPlanned

LEMMA ReconcilerStepKeepsInv ==
  ReconcilerInv /\ [ReconcilerNext]_reconcilerVars => ReconcilerInv'
<1>. SUFFICES ASSUME ReconcilerInv, [ReconcilerNext]_reconcilerVars
              PROVE  ReconcilerInv'
  OBVIOUS
<1>1. ASSUME NEW cluster \in Clusters, Edit(cluster)
      PROVE  ReconcilerInv'
  BY <1>1, EditKeepsInv
<1>2. ASSUME NEW k \in Calls, Start(k)
      PROVE  ReconcilerInv'
  BY <1>2, StartKeepsInv
<1>3. ASSUME NEW k \in Calls, Cancel(k)
      PROVE  ReconcilerInv'
  BY <1>3, RestKeepsInv DEF Cancel
<1>4. ASSUME NEW k \in Calls, Read(k)
      PROVE  ReconcilerInv'
  BY <1>4, ReadKeepsInv
<1>5. ASSUME NEW k \in Calls, Commits(k)
      PROVE  ReconcilerInv'
  BY <1>5, CommitKeepsInv
<1>6. ASSUME NEW k \in Calls, Conflict(k)
      PROVE  ReconcilerInv'
  BY <1>6, ConflictKeepsInv
<1>7. CASE UNCHANGED reconcilerVars
  BY <1>7, RestKeepsInv DEF reconcilerVars, callVars
<1>. QED  BY <1>1, <1>2, <1>3, <1>4, <1>5, <1>6, <1>7 DEF ReconcilerNext

\* The invariant behind the theorems: what waits to be committed was planned
\* from the revision it claims, and what is stored is what one would plan.
THEOREM ReconcilerInvariant == ReconcilerSpec => []ReconcilerInv
<1>. QED  BY ReconcilerInitInv, ReconcilerStepKeepsInv, PTL DEF ReconcilerSpec

\* A call loses an attempt only to somebody else's commit: Reconcile gives up
\* only when the store has moved on by maxRetries revisions since it began.
THEOREM RetriesAlwaysMeanProgress == ReconcilerSpec => []RetriesMeanProgress
<1>1. ReconcilerInv => RetriesMeanProgress
  BY DEF ReconcilerInv
<1>. QED  BY <1>1, ReconcilerInvariant, PTL

\* Read, plan and commit are as good as one step, for any number of calls and
\* changes of the cluster.
THEOREM PlansAreAlwaysCurrent == ReconcilerSpec => PlansAreCurrent
<1>1. ReconcilerInv /\ [ReconcilerNext]_reconcilerVars
        => [\/ stored' = plan(stored)
            \/ \E cluster \in Clusters : stored' = Edited(stored, cluster)]_stored
  <2>. SUFFICES ASSUME ReconcilerInv, [ReconcilerNext]_reconcilerVars, stored' # stored
                PROVE  \/ stored' = plan(stored)
                       \/ \E cluster \in Clusters : stored' = Edited(stored, cluster)
    OBVIOUS
  <2>1. ASSUME NEW cluster \in Clusters, Edit(cluster)
        PROVE  stored' = Edited(stored, cluster)
    BY <2>1 DEF Edit
  <2>2. ASSUME NEW k \in Calls, Commits(k)
        PROVE  stored' = plan(stored)
    BY <2>2, CommitIsPlan
  <2>3. ASSUME NEW k \in Calls, Start(k) \/ Cancel(k) \/ Read(k) \/ Conflict(k)
        PROVE  FALSE
    BY <2>3 DEF Start, Cancel, Read, Conflict
  <2>. QED  BY <2>1, <2>2, <2>3 DEF ReconcilerNext, reconcilerVars
<1>. QED  BY <1>1, ReconcilerInvariant, PTL DEF ReconcilerSpec, PlansAreCurrent

\* Planning again moves nothing: placements change only after somebody has
\* changed the nodes or the workloads.
THEOREM PlansAreAlwaysStable == ReconcilerSpec => PlansAreStable
<1>1. ReconcilerInv /\ [ReconcilerNext]_reconcilerVars
        => [~edited /\ ~edited' => stored'.placements = stored.placements]_reconcilerVars
  <2>. SUFFICES ASSUME ReconcilerInv, ReconcilerNext, ~edited, ~edited'
                PROVE  stored'.placements = stored.placements
    OBVIOUS
  <2>1. ASSUME NEW k \in Calls, Commits(k)
        PROVE  stored'.placements = stored.placements
    BY <2>1, CommitIsPlan, PlanFields DEF ReconcilerInv, StoredIsPlanned
  <2>2. ASSUME NEW k \in Calls, Start(k) \/ Cancel(k) \/ Read(k) \/ Conflict(k)
        PROVE  stored' = stored
    BY <2>2 DEF Start, Cancel, Read, Conflict
  <2>3. ASSUME NEW cluster \in Clusters, Edit(cluster)
        PROVE  FALSE
    BY <2>3 DEF Edit
  <2>. QED  BY <2>1, <2>2, <2>3 DEF ReconcilerNext
<1>. QED  BY <1>1, ReconcilerInvariant, PTL DEF ReconcilerSpec, PlansAreStable

-----------------------------------------------------------------------------
(* What a plan places.  The functions that PlaceReplicas and PlaceAll are      *)
(* defined by go from step to step, and so do the inductions below.            *)

\* What sofar and before range over, and what a workload is.
Placings(N) == [free       : [N -> Int],
                placements : SUBSET [workload : Nat, ordinal : Nat, node : N]]

IsWork(w) == w.replicas \in Nat /\ w.weight \in Int

First(free, hosts) == CHOOSE n \in hosts : \A m \in hosts \ {n} : Before(free, n, m)

NextReplica(sofar, i, w, r, before) ==
  LET chosen == First(sofar.free, Hosts(before.free, w)) IN
  IF Hosts(before.free, w) = {} THEN before
  ELSE [free |-> [before.free EXCEPT ![chosen] = @ - w.weight],
        placements |-> before.placements \cup
          {[workload |-> i, ordinal |-> r - 1, node |-> chosen]}]

\* Among finitely many nodes one is the first.
LEMMA SomeNodeIsFirst ==
  ASSUME NEW N \in SUBSET Nat, NEW free \in [N -> Int],
         NEW S \in SUBSET N, IsFiniteSet(S), S # {}
  PROVE  First(free, S) \in S
<1>. DEFINE IsFirst(n, U) == \A m \in U \ {n} : Before(free, n, m)
            T == {U \in SUBSET S : U # {} => \E n \in U : IsFirst(n, U)}
<1>1. ASSUME NEW U \in SUBSET S, \A V \in SUBSET U : V # U => V \in T
      PROVE  U \in T
  <2>. SUFFICES ASSUME U # {} PROVE \E n \in U : IsFirst(n, U)
    OBVIOUS
  <2>1. PICK k \in U : TRUE
    OBVIOUS
  <2>2. CASE U = {k}
    BY <2>2
  <2>3. CASE U # {k}
    <3>1. PICK n \in U \ {k} : IsFirst(n, U \ {k})
      <4>1. U \ {k} \in T /\ U \ {k} # {}
        BY <1>1, <2>1, <2>3
      <4>. QED  BY <4>1
    <3>2. n \in N /\ k \in N /\ n \in Nat /\ k \in Nat /\ free[n] \in Int /\ free[k] \in Int
      OBVIOUS
    <3>3. CASE Before(free, n, k)
      <4>1. IsFirst(n, U)
        BY <3>1, <3>3
      <4>. QED  BY <4>1
    <3>4. CASE ~Before(free, n, k)
      <4>1. Before(free, k, n)
        BY <3>1, <3>2, <3>4 DEF Before
      <4>2. ASSUME NEW m \in U \ {k} PROVE Before(free, k, m)
        <5>1. m \in Nat /\ free[m] \in Int
          OBVIOUS
        <5>2. m = n \/ Before(free, n, m)
          BY <3>1
        <5>. QED  BY <3>2, <4>1, <5>1, <5>2 DEF Before
      <4>3. IsFirst(k, U)
        BY <4>2
      <4>. QED  BY <2>1, <4>3
    <3>. QED  BY <3>3, <3>4
  <2>. QED  BY <2>2, <2>3
<1>2. \A U \in SUBSET S : U \in T
  <2>. HIDE DEF T
  <2>. QED  BY <1>1, SubsetInduction
<1>3. \E n \in S : \A m \in S \ {n} : Before(free, n, m)
  BY <1>2
<1>. QED  BY <1>3 DEF First

LEMMA NextReplicaType ==
  ASSUME NEW N \in SUBSET Nat, IsFiniteSet(N), NEW sofar \in Placings(N),
         NEW i \in Nat, NEW w, IsWork(w), NEW r \in Nat \ {0}, NEW x \in Placings(N)
  PROVE  /\ NextReplica(sofar, i, w, r, x) \in Placings(N)
         /\ Hosts(x.free, w) # {} =>
              First(sofar.free, Hosts(x.free, w)) \in Hosts(x.free, w)
<1>1. x.free \in [N -> Int] /\ sofar.free \in [N -> Int] /\ w.weight \in Int
  BY DEF Placings, IsWork
<1>2. Hosts(x.free, w) \in SUBSET N /\ IsFiniteSet(Hosts(x.free, w))
  BY <1>1, FS_Subset DEF Hosts
<1>3. CASE Hosts(x.free, w) = {}
  BY <1>3 DEF NextReplica
<1>4. CASE Hosts(x.free, w) # {}
  <2>. DEFINE n == First(sofar.free, Hosts(x.free, w))
  <2>1. n \in Hosts(x.free, w) /\ n \in N
    BY <1>1, <1>2, <1>4, SomeNodeIsFirst
  <2>2. NextReplica(sofar, i, w, r, x) =
          [free |-> [x.free EXCEPT ![n] = @ - w.weight],
           placements |-> x.placements \cup {[workload |-> i, ordinal |-> r - 1, node |-> n]}]
    BY <1>4 DEF NextReplica
  <2>. HIDE DEF n
  <2>3. [x.free EXCEPT ![n] = @ - w.weight] \in [N -> Int]
    BY <1>1, <2>1
  <2>4. x.placements \cup {[workload |-> i, ordinal |-> r - 1, node |-> n]}
          \in SUBSET [workload : Nat, ordinal : Nat, node : N]
    BY <2>1 DEF Placings
  <2>5. NextReplica(sofar, i, w, r, x) \in Placings(N)
    BY <2>2, <2>3, <2>4 DEF Placings
  <2>. QED  BY <2>1, <2>5 DEF n
<1>. QED  BY <1>3, <1>4

ReplicaSteps(sofar, i, w, after) ==
  /\ PlaceReplicas(sofar, i, w) = after[w.replicas]
  /\ after[0] = sofar
  /\ \A r \in 1..w.replicas : after[r] = NextReplica(sofar, i, w, r, after[r - 1])

\* PlaceReplicas goes from replica to replica.
LEMMA PlaceReplicasSteps ==
  ASSUME NEW N \in SUBSET Nat, IsFiniteSet(N), NEW sofar \in Placings(N),
         NEW i \in Nat, NEW w, IsWork(w)
  PROVE  \E after : ReplicaSteps(sofar, i, w, after)
<1>. DEFINE n == w.replicas
            D == Placings(N)
            Goes(f) == f = [r \in 0..n |-> IF r = 0 THEN sofar
                                           ELSE NextReplica(sofar, i, w, r, f[r - 1])]
            step == [a \in (1..n) \X D |-> NextReplica(sofar, i, w, a[1], a[2])]
<1>1. n \in Nat
  BY DEF IsWork
<1>2. step \in [(1..n) \X D -> D]
  <2>1. ASSUME NEW a \in (1..n) \X D PROVE NextReplica(sofar, i, w, a[1], a[2]) \in D
    <3>1. a[1] \in Nat \ {0} /\ a[2] \in Placings(N)
      BY <1>1
    <3>. QED  BY <3>1, NextReplicaType
  <2>. QED  BY <2>1
<1>3. PICK f \in [0..n -> D] : Stepwise(f, n, sofar, step)
  BY <1>1, <1>2, StepwiseFunction
<1>4. ASSUME NEW r \in 0..n, r # 0
      PROVE  step[<<r, f[r - 1]>>] = NextReplica(sofar, i, w, r, f[r - 1])
  <2>1. r \in 1..n /\ r - 1 \in 0..n
    BY <1>1, <1>4
  <2>. QED  BY <1>3, <2>1
<1>5. Goes(f)
  <2>. HIDE DEF step, n, D
  <2>. QED  BY <1>3, <1>4 DEF Stepwise
<1>. DEFINE g == CHOOSE h : Goes(h)
<1>6. Goes(g)
  <2>. HIDE DEF Goes
  <2>. QED  BY <1>5
<1>7. PlaceReplicas(sofar, i, w) = g[w.replicas]
  BY DEF PlaceReplicas, NextReplica, First
<1>8. g[0] = sofar /\ \A r \in 1..n : g[r] = NextReplica(sofar, i, w, r, g[r - 1])
  <2>. HIDE DEF n, g
  <2>. QED  BY <1>1, <1>6
<1>9. ReplicaSteps(sofar, i, w, g)
  <2>. HIDE DEF g
  <2>. QED  BY <1>7, <1>8 DEF ReplicaSteps
<1>. QED  BY <1>9

Placed(x, i) == {p \in x.placements : p.workload = i}
PlacedOn(x, i, n) == {p \in x.placements : p.workload = i /\ p.node = n}
Others(x, i) == {p \in x.placements : p.workload # i}

RoomIsLeft(x) == \A p \in x.placements : x.free[p.node] >= 0

\* What sofar has become when r replicas of w have had their turn.
ReplicasPlaced(N, sofar, i, w, r, x) ==
  /\ x \in Placings(N)
  /\ Others(x, i) = sofar.placements
  /\ IsFiniteSet(Placed(x, i))
  /\ \A p \in Placed(x, i) : p.ordinal < r /\ p.node \in w.hosts
  /\ \A n \in N : x.free[n] = sofar.free[n] - w.weight * Cardinality(PlacedOn(x, i, n))
  /\ RoomIsLeft(x)
  /\ w.weight >= 0 => \A n \in N : x.free[n] <= sofar.free[n]
  /\ Cardinality(Placed(x, i)) = r \/ Hosts(x.free, w) = {}

LEMMA OneReplicaMore ==
  ASSUME NEW N \in SUBSET Nat, IsFiniteSet(N), NEW sofar \in Placings(N),
         NEW i \in Nat, NEW w, IsWork(w), NEW r \in Nat, NEW x,
         ReplicasPlaced(N, sofar, i, w, r, x)
  PROVE  ReplicasPlaced(N, sofar, i, w, r + 1, NextReplica(sofar, i, w, r + 1, x))
<1>1. /\ x \in Placings(N) /\ x.free \in [N -> Int] /\ sofar.free \in [N -> Int]
      /\ w.weight \in Int
      /\ x.placements \in SUBSET [workload : Nat, ordinal : Nat, node : N]
  BY DEF ReplicasPlaced, Placings, IsWork
<1>2. CASE Hosts(x.free, w) = {}
  <2>1. NextReplica(sofar, i, w, r + 1, x) = x
    BY <1>2 DEF NextReplica
  <2>2. \A p \in Placed(x, i) : p.ordinal < r + 1
    BY <1>1 DEF Placed, ReplicasPlaced
  <2>. QED  BY <1>2, <2>1, <2>2 DEF ReplicasPlaced
<1>3. CASE Hosts(x.free, w) # {}
  <2>. DEFINE y == NextReplica(sofar, i, w, r + 1, x)
              n == First(sofar.free, Hosts(x.free, w))
              q == [workload |-> i, ordinal |-> r, node |-> n]
  <2>1. y \in Placings(N) /\ n \in Hosts(x.free, w)
    <3>1. r + 1 \in Nat \ {0}
      OBVIOUS
    <3>. QED  BY <1>1, <1>3, <3>1, NextReplicaType
  <2>2. n \in N /\ x.free[n] >= w.weight /\ n \in w.hosts
    BY <1>1, <2>1 DEF Hosts
  <2>3. /\ y.free = [x.free EXCEPT ![n] = @ - w.weight]
        /\ y.placements = x.placements \cup {q}
    BY <1>3 DEF NextReplica
  <2>4. q.workload = i /\ q.ordinal = r /\ q.node = n
    OBVIOUS
  <2>. HIDE DEF y, n, q
  <2>5. q \notin x.placements
    BY <2>4 DEF ReplicasPlaced, Placed
  <2>6. Placed(y, i) = Placed(x, i) \cup {q} /\ q \notin Placed(x, i)
    BY <2>3, <2>4, <2>5 DEF Placed
  <2>7. /\ IsFiniteSet(Placed(y, i))
        /\ Cardinality(Placed(y, i)) = Cardinality(Placed(x, i)) + 1
    BY <2>6, FS_AddElement DEF ReplicasPlaced
  <2>8. Hosts(x.free, w) = {} \/ Cardinality(Placed(x, i)) = r
    BY DEF ReplicasPlaced
  <2>9. Others(y, i) = Others(x, i)
    BY <2>3, <2>4 DEF Others
  <2>10. \A p \in Placed(y, i) : p.ordinal < r + 1 /\ p.node \in w.hosts
    <3>1. \A p \in Placed(x, i) : p.ordinal \in Nat /\ p.ordinal < r /\ p.node \in w.hosts
      BY <1>1 DEF ReplicasPlaced, Placed
    <3>. QED  BY <2>2, <2>4, <2>6, <3>1
  <2>11. ASSUME NEW m \in N
         PROVE  y.free[m] = sofar.free[m] - w.weight * Cardinality(PlacedOn(y, i, m))
    <3>1. x.free[m] = sofar.free[m] - w.weight * Cardinality(PlacedOn(x, i, m))
      BY DEF ReplicasPlaced
    <3>2. IsFiniteSet(PlacedOn(x, i, m)) /\ Cardinality(PlacedOn(x, i, m)) \in Nat
      <4>1. PlacedOn(x, i, m) \subseteq Placed(x, i)
        BY DEF PlacedOn, Placed
      <4>. QED  BY <4>1, FS_Subset, FS_CardinalityType DEF ReplicasPlaced
    <3>3. CASE m = n
      <4>1. PlacedOn(y, i, m) = PlacedOn(x, i, m) \cup {q} /\ q \notin PlacedOn(x, i, m)
        BY <2>3, <2>4, <2>5, <3>3 DEF PlacedOn
      <4>2. Cardinality(PlacedOn(y, i, m)) = Cardinality(PlacedOn(x, i, m)) + 1
        BY <3>2, <4>1, FS_AddElement
      <4>3. y.free[m] = x.free[m] - w.weight
        BY <1>1, <2>2, <2>3, <3>3
      <4>4. \A k \in Nat, a, b, v \in Int : a = b - v * k => a - v = b - v * (k + 1)
        OBVIOUS
      <4>. QED  BY <1>1, <3>1, <3>2, <4>2, <4>3, <4>4
    <3>4. CASE m # n
      <4>1. PlacedOn(y, i, m) = PlacedOn(x, i, m)
        BY <2>3, <2>4, <3>4 DEF PlacedOn
      <4>2. y.free[m] = x.free[m]
        BY <1>1, <2>3, <3>4
      <4>. QED  BY <3>1, <4>1, <4>2
    <3>. QED  BY <3>3, <3>4
  <2>12. y.free[n] \in Int /\ y.free[n] >= 0 /\ \A m \in N \ {n} : y.free[m] = x.free[m]
    BY <1>1, <2>2, <2>3
  <2>13. RoomIsLeft(y)
    <3>1. \A p \in x.placements : p.node \in N /\ x.free[p.node] >= 0
      BY <1>1 DEF ReplicasPlaced, RoomIsLeft
    <3>. QED  BY <2>3, <2>4, <2>12, <3>1 DEF RoomIsLeft
  <2>14. w.weight >= 0 => \A m \in N : y.free[m] <= sofar.free[m]
    <3>. SUFFICES ASSUME w.weight >= 0, NEW m \in N PROVE y.free[m] <= sofar.free[m]
      OBVIOUS
    <3>1. x.free[m] <= sofar.free[m] /\ x.free[m] \in Int /\ sofar.free[m] \in Int
      BY <1>1 DEF ReplicasPlaced
    <3>2. y.free[m] = x.free[m] \/ y.free[m] = x.free[m] - w.weight
      BY <1>1, <2>2, <2>3
    <3>. QED  BY <1>1, <3>1, <3>2
  <2>15. Cardinality(Placed(y, i)) = r + 1
    BY <1>3, <2>7, <2>8
  <2>16. Others(y, i) = sofar.placements
    BY <2>9 DEF ReplicasPlaced
  <2>17. ReplicasPlaced(N, sofar, i, w, r + 1, y)
    BY <2>1, <2>7, <2>10, <2>11, <2>13, <2>14, <2>15, <2>16 DEF ReplicasPlaced
  <2>. QED  BY <2>17 DEF y
<1>. QED  BY <1>2, <1>3

\* All replicas of a workload of which none was placed before.
LEMMA AllReplicasPlaced ==
  ASSUME NEW N \in SUBSET Nat, IsFiniteSet(N), NEW sofar \in Placings(N),
         NEW i \in Nat, NEW w, IsWork(w), Placed(sofar, i) = {}, RoomIsLeft(sofar)
  PROVE  ReplicasPlaced(N, sofar, i, w, w.replicas, PlaceReplicas(sofar, i, w))
<1>0. PICK after : ReplicaSteps(sofar, i, w, after)
  BY PlaceReplicasSteps
<1>1. /\ PlaceReplicas(sofar, i, w) = after[w.replicas]
      /\ after[0] = sofar
      /\ \A r \in 1..w.replicas : after[r] = NextReplica(sofar, i, w, r, after[r - 1])
  BY <1>0 DEF ReplicaSteps
<1>. DEFINE T == {r \in 0..w.replicas : ReplicasPlaced(N, sofar, i, w, r, after[r])}
<1>2. w.replicas \in Nat /\ w.weight \in Int
  BY DEF IsWork
<1>3. 0 \in T
  <2>1. sofar.free \in [N -> Int]
    BY DEF Placings
  <2>2. Others(sofar, i) = sofar.placements
    BY DEF Others, Placed
  <2>3. \A n \in N : PlacedOn(sofar, i, n) = {}
    BY DEF PlacedOn, Placed
  <2>4. IsFiniteSet({}) /\ Cardinality({}) = 0
    BY FS_EmptySet
  <2>5. \A n \in N : sofar.free[n] = sofar.free[n] - w.weight * 0 /\ sofar.free[n] <= sofar.free[n]
    BY <1>2, <2>1
  <2>6. ReplicasPlaced(N, sofar, i, w, 0, sofar)
    BY <2>2, <2>3, <2>4, <2>5 DEF ReplicasPlaced
  <2>. QED  BY <1>1, <1>2, <2>6
<1>4. ASSUME NEW r \in 0..(w.replicas - 1), r \in T PROVE r + 1 \in T
  <2>1. r \in Nat /\ r + 1 \in 1..w.replicas /\ r + 1 \in 0..w.replicas /\ (r + 1) - 1 = r
    BY <1>2
  <2>2. after[r + 1] = NextReplica(sofar, i, w, r + 1, after[r])
    BY <1>1, <2>1
  <2>3. ReplicasPlaced(N, sofar, i, w, r, after[r])
    BY <1>4
  <2>. QED  BY <2>1, <2>2, <2>3, OneReplicaMore
<1>5. \A r \in 0..w.replicas : r \in T
  <2>. HIDE DEF T
  <2>. QED  BY <1>2, <1>3, <1>4, RangeSetInduction
<1>6. w.replicas \in 0..w.replicas
  BY <1>2
<1>. QED  BY <1>1, <1>5, <1>6

LEMMA PlaceReplicasType ==
  ASSUME NEW N \in SUBSET Nat, IsFiniteSet(N), NEW sofar \in Placings(N),
         NEW i \in Nat, NEW w, IsWork(w)
  PROVE  PlaceReplicas(sofar, i, w) \in Placings(N)
<1>0. PICK after : ReplicaSteps(sofar, i, w, after)
  BY PlaceReplicasSteps
<1>1. /\ PlaceReplicas(sofar, i, w) = after[w.replicas]
      /\ after[0] = sofar
      /\ \A r \in 1..w.replicas : after[r] = NextReplica(sofar, i, w, r, after[r - 1])
  BY <1>0 DEF ReplicaSteps
<1>. DEFINE T == {r \in 0..w.replicas : after[r] \in Placings(N)}
<1>2. w.replicas \in Nat
  BY DEF IsWork
<1>3. 0 \in T
  BY <1>1, <1>2
<1>4. ASSUME NEW r \in 0..(w.replicas - 1), r \in T PROVE r + 1 \in T
  <2>1. /\ r + 1 \in Nat \ {0} /\ r + 1 \in 1..w.replicas /\ r + 1 \in 0..w.replicas
        /\ (r + 1) - 1 = r
    BY <1>2
  <2>2. after[r + 1] = NextReplica(sofar, i, w, r + 1, after[r])
    BY <1>1, <2>1
  <2>. QED  BY <1>4, <2>1, <2>2, NextReplicaType
<1>5. \A r \in 0..w.replicas : r \in T
  <2>. HIDE DEF T
  <2>. QED  BY <1>2, <1>3, <1>4, RangeSetInduction
<1>6. w.replicas \in 0..w.replicas
  BY <1>2
<1>. QED  BY <1>1, <1>5, <1>6

NextWorkload(c, i, before) ==
  IF i \notin DOMAIN c.workloads THEN before
  ELSE PlaceReplicas(before, i, c.workloads[i])

Unused(c) == [free |-> c.free, placements |-> {}]

LEMMA NextWorkloadType ==
  ASSUME NEW c, IsCluster(c), NEW i \in 1..MaxWorkloads, NEW x \in Placings(DOMAIN c.free)
  PROVE  NextWorkload(c, i, x) \in Placings(DOMAIN c.free)
BY PlaceReplicasType DEF IsCluster, IsWork, NextWorkload

WorkloadSteps(c, after) ==
  /\ PlaceAll(c) = after[MaxWorkloads]
  /\ after[0] = Unused(c)
  /\ \A i \in 1..MaxWorkloads : after[i] = NextWorkload(c, i, after[i - 1])

\* PlaceAll goes from workload to workload.
LEMMA PlaceAllSteps ==
  ASSUME NEW c, IsCluster(c)
  PROVE  \E after : WorkloadSteps(c, after)
<1>. DEFINE n == MaxWorkloads
            D == Placings(DOMAIN c.free)
            Goes(f) == f = [i \in 0..n |-> IF i = 0 THEN Unused(c)
                                           ELSE NextWorkload(c, i, f[i - 1])]
            step == [a \in (1..n) \X D |-> NextWorkload(c, a[1], a[2])]
<1>1. n \in Nat
  BY ReconcilerAssumption
<1>2. step \in [(1..n) \X D -> D]
  BY NextWorkloadType
<1>3. Unused(c) \in D
  BY DEF Unused, Placings, IsCluster
<1>4. PICK f \in [0..n -> D] : Stepwise(f, n, Unused(c), step)
  <2>. HIDE DEF step, n, D
  <2>. QED  BY <1>1, <1>2, <1>3, StepwiseFunction
<1>5. ASSUME NEW i \in 0..n, i # 0
      PROVE  step[<<i, f[i - 1]>>] = NextWorkload(c, i, f[i - 1])
  <2>1. i \in 1..n /\ i - 1 \in 0..n
    BY <1>1, <1>5
  <2>. QED  BY <1>4, <2>1
<1>6. Goes(f)
  <2>. HIDE DEF step, n, D
  <2>. QED  BY <1>4, <1>5 DEF Stepwise
<1>. DEFINE g == CHOOSE h : Goes(h)
<1>7. Goes(g)
  <2>. HIDE DEF Goes
  <2>. QED  BY <1>6
<1>8. PlaceAll(c) = g[MaxWorkloads]
  BY DEF PlaceAll, NextWorkload, Unused
<1>9. g[0] = Unused(c) /\ \A i \in 1..n : g[i] = NextWorkload(c, i, g[i - 1])
  <2>. HIDE DEF n, g
  <2>. QED  BY <1>1, <1>7
<1>10. WorkloadSteps(c, g)
  <2>. HIDE DEF g
  <2>. QED  BY <1>8, <1>9 DEF WorkloadSteps
<1>. QED  BY <1>10

WeightOn(c, x, i, n) ==
  IF i \notin DOMAIN c.workloads THEN 0
  ELSE c.workloads[i].weight * Cardinality(PlacedOn(x, i, n))

\* What the first i workloads have got.  One that is not complete fits nowhere,
\* unless a later one gave back.
WorkloadsPlaced(c, i, x) ==
  /\ x \in Placings(DOMAIN c.free)
  /\ \A p \in x.placements :
       /\ p.workload \in DOMAIN c.workloads /\ p.workload <= i
       /\ p.node \in c.workloads[p.workload].hosts
  /\ RoomIsLeft(x)
  /\ \A j \in DOMAIN c.workloads :
       /\ j <= i
       /\ \A k \in DOMAIN c.workloads : j < k /\ k <= i => c.workloads[k].weight >= 0
       => \/ Cardinality(Placed(x, j)) = c.workloads[j].replicas
          \/ Hosts(x.free, c.workloads[j]) = {}

WorkloadAdds(c, i, x, y) ==
  /\ Others(y, i) = x.placements
  /\ \A n \in DOMAIN c.free :
       WeightOn(c, y, i, n) \in Int /\ y.free[n] = x.free[n] - WeightOn(c, y, i, n)

LEMMA OneWorkloadMore ==
  ASSUME NEW c, IsCluster(c), NEW i \in Nat, i + 1 \in 1..MaxWorkloads, NEW x,
         WorkloadsPlaced(c, i, x)
  PROVE  /\ WorkloadsPlaced(c, i + 1, NextWorkload(c, i + 1, x))
         /\ WorkloadAdds(c, i + 1, x, NextWorkload(c, i + 1, x))
<1>. DEFINE N == DOMAIN c.free
            y == NextWorkload(c, i + 1, x)
<1>1. /\ x \in Placings(N) /\ x.free \in [N -> Int]
      /\ x.placements \in SUBSET [workload : Nat, ordinal : Nat, node : N]
  BY DEF WorkloadsPlaced, Placings
<1>2. \A p \in x.placements : p.workload \in Nat /\ p.workload <= i
  BY <1>1 DEF WorkloadsPlaced
<1>3. \A j \in DOMAIN c.workloads : j \in Nat /\ (j <= i + 1 => j <= i \/ j = i + 1)
  BY DEF IsCluster
<1>4. CASE i + 1 \notin DOMAIN c.workloads
  <2>1. y = x
    BY <1>4 DEF NextWorkload
  <2>2. Others(x, i + 1) = x.placements
    BY <1>2 DEF Others
  <2>3. \A n \in N : x.free[n] = x.free[n] - 0
    BY <1>1
  <2>4. WorkloadAdds(c, i + 1, x, x)
    BY <1>4, <2>2, <2>3 DEF WorkloadAdds, WeightOn
  <2>5. \A p \in x.placements : p.workload <= i + 1
    BY <1>2
  <2>6. \A j \in DOMAIN c.workloads : j <= i + 1 => j <= i
    BY <1>3, <1>4
  <2>7. \A k \in DOMAIN c.workloads : k <= i => k <= i + 1
    BY <1>3
  <2>8. WorkloadsPlaced(c, i + 1, x)
    BY <2>5, <2>6, <2>7 DEF WorkloadsPlaced
  <2>. QED  BY <2>1, <2>4, <2>8
<1>5. CASE i + 1 \in DOMAIN c.workloads
  <2>. DEFINE w == c.workloads[i + 1]
  <2>1. y = PlaceReplicas(x, i + 1, w) /\ IsWork(w)
    BY <1>5 DEF NextWorkload, IsCluster, IsWork
  <2>2. Placed(x, i + 1) = {}
    BY <1>2 DEF Placed
  <2>3. ReplicasPlaced(N, x, i + 1, w, w.replicas, y)
    BY <1>1, <2>1, <2>2, AllReplicasPlaced DEF IsCluster, WorkloadsPlaced
  <2>. HIDE DEF y, w
  <2>4. /\ y \in Placings(N) /\ y.free \in [N -> Int]
        /\ y.placements \in SUBSET [workload : Nat, ordinal : Nat, node : N]
    BY <2>3 DEF ReplicasPlaced, Placings
  <2>5. Others(y, i + 1) = x.placements
    BY <2>3 DEF ReplicasPlaced
  <2>6. WorkloadAdds(c, i + 1, x, y)
    <3>. SUFFICES ASSUME NEW n \in N
                  PROVE  /\ WeightOn(c, y, i + 1, n) \in Int
                         /\ y.free[n] = x.free[n] - WeightOn(c, y, i + 1, n)
      BY <2>5 DEF WorkloadAdds
    <3>1. Cardinality(PlacedOn(y, i + 1, n)) \in Nat
      <4>1. PlacedOn(y, i + 1, n) \subseteq Placed(y, i + 1)
        BY DEF PlacedOn, Placed
      <4>. QED  BY <2>3, <4>1, FS_Subset, FS_CardinalityType DEF ReplicasPlaced
    <3>2. WeightOn(c, y, i + 1, n) = w.weight * Cardinality(PlacedOn(y, i + 1, n))
      BY <1>5 DEF WeightOn, w
    <3>3. w.weight \in Int
      BY <2>1 DEF IsWork
    <3>. QED  BY <2>3, <3>1, <3>2, <3>3 DEF ReplicasPlaced
  <2>7. \A p \in y.placements :
          /\ p.workload \in DOMAIN c.workloads /\ p.workload <= i + 1
          /\ p.node \in c.workloads[p.workload].hosts
    <3>. TAKE p \in y.placements
    <3>1. CASE p.workload = i + 1
      BY <1>5, <2>3, <3>1 DEF ReplicasPlaced, Placed, w
    <3>2. CASE p.workload # i + 1
      <4>1. p \in x.placements
        BY <2>5, <3>2 DEF Others
      <4>. QED  BY <1>2, <4>1 DEF WorkloadsPlaced
    <3>. QED  BY <3>1, <3>2
  <2>8. ASSUME NEW j \in DOMAIN c.workloads, j <= i + 1,
               \A k \in DOMAIN c.workloads : j < k /\ k <= i + 1 => c.workloads[k].weight >= 0
        PROVE  \/ Cardinality(Placed(y, j)) = c.workloads[j].replicas
               \/ Hosts(y.free, c.workloads[j]) = {}
    <3>1. CASE j = i + 1
      BY <2>3, <3>1 DEF ReplicasPlaced, w
    <3>2. CASE j <= i
      <4>1. \A k \in DOMAIN c.workloads : j < k /\ k <= i => c.workloads[k].weight >= 0
        BY <1>3, <2>8
      <4>2. \/ Cardinality(Placed(x, j)) = c.workloads[j].replicas
            \/ Hosts(x.free, c.workloads[j]) = {}
        BY <3>2, <4>1 DEF WorkloadsPlaced
      <4>3. j < i + 1 /\ j # i + 1
        BY <1>3, <3>2
      <4>4. Placed(y, j) = Placed(x, j)
        BY <2>5, <4>3 DEF Others, Placed
      <4>5. w.weight >= 0
        BY <1>5, <2>8, <4>3 DEF w
      <4>6. \A n \in N : y.free[n] <= x.free[n]
        BY <2>3, <4>5 DEF ReplicasPlaced
      <4>7. c.workloads[j].weight \in Int
        BY DEF IsCluster
      <4>8. Hosts(y.free, c.workloads[j]) \subseteq Hosts(x.free, c.workloads[j])
        BY <1>1, <2>4, <4>6, <4>7 DEF Hosts
      <4>. QED  BY <4>2, <4>4, <4>8
    <3>. QED  BY <1>3, <2>8, <3>1, <3>2
  <2>9. RoomIsLeft(y)
    BY <2>3 DEF ReplicasPlaced
  <2>10. WorkloadsPlaced(c, i + 1, y)
    BY <2>4, <2>7, <2>8, <2>9 DEF WorkloadsPlaced
  <2>. QED  BY <2>6, <2>10 DEF y
<1>. QED  BY <1>4, <1>5

\* The placings after 0, 1, ... workloads.
PlacingsOf(c, after) ==
  /\ \A i \in 0..MaxWorkloads : WorkloadsPlaced(c, i, after[i])
  /\ \A i \in 1..MaxWorkloads : WorkloadAdds(c, i, after[i - 1], after[i])
  /\ after[0] = Unused(c)
  /\ after[MaxWorkloads] = PlaceAll(c)

LEMMA AllWorkloadsPlaced ==
  ASSUME NEW c, IsCluster(c)
  PROVE  \E after : PlacingsOf(c, after)
<1>0. PICK after : WorkloadSteps(c, after)
  BY PlaceAllSteps
<1>1. /\ PlaceAll(c) = after[MaxWorkloads]
      /\ after[0] = Unused(c)
      /\ \A i \in 1..MaxWorkloads : after[i] = NextWorkload(c, i, after[i - 1])
  BY <1>0 DEF WorkloadSteps
<1>2. MaxWorkloads \in Nat
  BY ReconcilerAssumption
<1>. DEFINE T == {i \in 0..MaxWorkloads : WorkloadsPlaced(c, i, after[i])}
<1>3. 0 \in T
  <2>1. Unused(c) \in Placings(DOMAIN c.free) /\ Unused(c).placements = {}
    BY DEF Unused, Placings, IsCluster
  <2>2. \A j \in DOMAIN c.workloads : ~(j <= 0)
    BY DEF IsCluster
  <2>3. WorkloadsPlaced(c, 0, Unused(c))
    BY <2>1, <2>2 DEF WorkloadsPlaced, RoomIsLeft
  <2>. QED  BY <1>1, <1>2, <2>3
<1>4. ASSUME NEW i \in 0..(MaxWorkloads - 1), i \in T
      PROVE  i + 1 \in T /\ WorkloadAdds(c, i + 1, after[i], after[i + 1])
  <2>1. i \in Nat /\ i + 1 \in 1..MaxWorkloads /\ i + 1 \in 0..MaxWorkloads /\ (i + 1) - 1 = i
    BY <1>2
  <2>2. after[i + 1] = NextWorkload(c, i + 1, after[i])
    BY <1>1, <2>1
  <2>. QED  BY <1>4, <2>1, <2>2, OneWorkloadMore
<1>5. \A i \in 0..MaxWorkloads : i \in T
  <2>. HIDE DEF T
  <2>. QED  BY <1>2, <1>3, <1>4, RangeSetInduction
<1>6. ASSUME NEW i \in 1..MaxWorkloads PROVE WorkloadAdds(c, i, after[i - 1], after[i])
  <2>1. i - 1 \in 0..(MaxWorkloads - 1) /\ i - 1 \in 0..MaxWorkloads /\ (i - 1) + 1 = i
    BY <1>2
  <2>. HIDE DEF T
  <2>. QED  BY <1>4, <1>5, <2>1
<1>. QED  BY <1>1, <1>5, <1>6 DEF PlacingsOf

\* Later workloads leave the placements of the earlier ones as they are.
LEMMA PlacementsStay ==
  ASSUME NEW c, IsCluster(c), NEW after, PlacingsOf(c, after), NEW i \in 1..MaxWorkloads
  PROVE  \A n : WeightOn(c, PlaceAll(c), i, n) = WeightOn(c, after[i], i, n)
<1>. DEFINE Upto(m) == {p \in after[m].placements : p.workload <= i}
            T == {m \in 0..MaxWorkloads : i <= m => Upto(m) = after[i].placements}
<1>1. MaxWorkloads \in Nat /\ i \in Nat /\ i \in 1..MaxWorkloads
  BY ReconcilerAssumption
<1>2. \A m \in 0..MaxWorkloads : \A p \in after[m].placements :
        p.workload \in Nat /\ p.workload <= m
  BY DEF PlacingsOf, WorkloadsPlaced, IsCluster
<1>3. Upto(i) = after[i].placements
  BY <1>1, <1>2
<1>4. 0 \in T
  BY <1>1
<1>5. ASSUME NEW m \in 0..(MaxWorkloads - 1), m \in T PROVE m + 1 \in T
  <2>1. m \in Nat /\ m + 1 \in 1..MaxWorkloads /\ m + 1 \in 0..MaxWorkloads /\ (m + 1) - 1 = m
    BY <1>1
  <2>2. WorkloadAdds(c, m + 1, after[m], after[m + 1])
    BY <2>1 DEF PlacingsOf
  <2>3. Others(after[m + 1], m + 1) = after[m].placements
    BY <2>2 DEF WorkloadAdds
  <2>4. CASE i <= m
    <3>1. \A p \in after[m + 1].placements : p.workload \in Nat
      BY <1>2, <2>1
    <3>2. Upto(m + 1) = Upto(m)
      BY <1>1, <2>1, <2>3, <2>4, <3>1 DEF Others
    <3>. QED  BY <1>5, <2>1, <2>4, <3>2
  <2>5. CASE i = m + 1
    BY <1>3, <2>1, <2>5
  <2>6. CASE ~(i <= m + 1)
    BY <2>1, <2>6
  <2>. QED  BY <1>1, <2>1, <2>4, <2>5, <2>6
<1>6. \A m \in 0..MaxWorkloads : m \in T
  <2>. HIDE DEF T
  <2>. QED  BY <1>1, <1>4, <1>5, RangeSetInduction
<1>7. {p \in PlaceAll(c).placements : p.workload <= i} = after[i].placements
  <2>1. MaxWorkloads \in T /\ i <= MaxWorkloads
    BY <1>1, <1>6
  <2>. QED  BY <2>1 DEF PlacingsOf
<1>8. \A n : PlacedOn(PlaceAll(c), i, n) = PlacedOn(after[i], i, n)
  BY <1>1, <1>7 DEF PlacedOn
<1>. QED  BY <1>8 DEF WeightOn

\* What a plan takes from a node is what is gone from its room.
LEMMA TakenIsGone ==
  ASSUME IsCluster(stored.cluster),
         stored.placements = PlaceAll(stored.cluster).placements,
         NEW n \in DOMAIN stored.cluster.free
  PROVE  Taken(n) = stored.cluster.free[n] - PlaceAll(stored.cluster).free[n]
<1>. DEFINE c == stored.cluster
            x == PlaceAll(c)
            Goes(f) == f = [i \in 0..MaxWorkloads |->
                              IF i = 0 THEN 0 ELSE f[i - 1] + WeightOn(c, x, i, n)]
            step == [a \in (1..MaxWorkloads) \X Int |-> a[2] + WeightOn(c, x, a[1], n)]
<1>1. MaxWorkloads \in Nat
  BY ReconcilerAssumption
<1>2. PICK after : PlacingsOf(c, after)
  BY AllWorkloadsPlaced
<1>3. ASSUME NEW i \in 1..MaxWorkloads
      PROVE  /\ WeightOn(c, x, i, n) \in Int
             /\ after[i].free[n] = after[i - 1].free[n] - WeightOn(c, x, i, n)
  <2>1. WorkloadAdds(c, i, after[i - 1], after[i])
    BY <1>2 DEF PlacingsOf
  <2>2. WeightOn(c, x, i, n) = WeightOn(c, after[i], i, n)
    BY <1>2, PlacementsStay
  <2>. QED  BY <2>1, <2>2 DEF WorkloadAdds
<1>4. ASSUME NEW i \in 0..MaxWorkloads PROVE after[i].free[n] \in Int
  BY <1>2 DEF PlacingsOf, WorkloadsPlaced, Placings
<1>. HIDE DEF x
<1>5. \E f : Goes(f)
  <2>1. step \in [(1..MaxWorkloads) \X Int -> Int]
    BY <1>3
  <2>2. PICK f \in [0..MaxWorkloads -> Int] : Stepwise(f, MaxWorkloads, 0, step)
    <3>. HIDE DEF step
    <3>1. 0 \in Int
      OBVIOUS
    <3>. QED  BY <1>1, <2>1, <3>1, StepwiseFunction
  <2>3. ASSUME NEW i \in 0..MaxWorkloads, i # 0
        PROVE  step[<<i, f[i - 1]>>] = f[i - 1] + WeightOn(c, x, i, n)
    <3>1. i \in 1..MaxWorkloads /\ i - 1 \in 0..MaxWorkloads
      BY <1>1, <2>3
    <3>. QED  BY <2>2, <3>1
  <2>4. Goes(f)
    <3>. HIDE DEF step
    <3>. QED  BY <2>2, <2>3 DEF Stepwise
  <2>. QED  BY <2>4
<1>. DEFINE g == CHOOSE h : Goes(h)
<1>6. Goes(g)
  <2>. HIDE DEF Goes
  <2>. QED  BY <1>5
<1>7. Taken(n) = g[MaxWorkloads]
  BY DEF Taken, WeightOn, PlacedOn, x
<1>. HIDE DEF g
<1>8. g[0] = 0 /\ \A i \in 1..MaxWorkloads : g[i] = g[i - 1] + WeightOn(c, x, i, n)
  BY <1>1, <1>6
<1>. DEFINE T == {i \in 0..MaxWorkloads : g[i] = c.free[n] - after[i].free[n]}
<1>9. c.free[n] \in Int /\ after[0].free = c.free
  BY <1>2 DEF PlacingsOf, Unused, IsCluster
<1>10. 0 \in T
  BY <1>1, <1>8, <1>9
<1>11. ASSUME NEW i \in 0..(MaxWorkloads - 1), i \in T PROVE i + 1 \in T
  <2>1. i \in 0..MaxWorkloads /\ i + 1 \in 1..MaxWorkloads /\ i + 1 \in 0..MaxWorkloads /\ (i + 1) - 1 = i
    BY <1>1
  <2>2. /\ WeightOn(c, x, i + 1, n) \in Int
        /\ after[i + 1].free[n] = after[i].free[n] - WeightOn(c, x, i + 1, n)
    BY <1>3, <2>1
  <2>3. g[i + 1] = g[i] + WeightOn(c, x, i + 1, n) /\ g[i] = c.free[n] - after[i].free[n]
    BY <1>8, <1>11, <2>1
  <2>4. after[i].free[n] \in Int
    BY <1>4, <2>1
  <2>5. g[i + 1] = c.free[n] - after[i + 1].free[n]
    BY <1>9, <2>2, <2>3, <2>4
  <2>. QED  BY <2>1, <2>5
<1>12. \A i \in 0..MaxWorkloads : i \in T
  <2>. HIDE DEF T
  <2>. QED  BY <1>1, <1>10, <1>11, RangeSetInduction
<1>13. MaxWorkloads \in T
  BY <1>1, <1>12
<1>. QED  BY <1>2, <1>7, <1>13 DEF PlacingsOf, x

\* A plan that is stored for the cluster it was made for fits.
LEMMA PlanFits ==
  ASSUME IsCluster(stored.cluster),
         stored.placements = PlaceAll(stored.cluster).placements
  PROVE  NoneOverfull /\ LeftOutFitNowhere
<1>. DEFINE c == stored.cluster
            x == PlaceAll(c)
<1>1. WorkloadsPlaced(c, MaxWorkloads, x)
  <2>1. PICK after : PlacingsOf(c, after)
    BY AllWorkloadsPlaced
  <2>2. MaxWorkloads \in 0..MaxWorkloads
    BY ReconcilerAssumption
  <2>. QED  BY <2>1, <2>2 DEF PlacingsOf
<1>2. \A n \in DOMAIN c.free :
        c.free[n] \in Int /\ x.free[n] \in Int /\ Taken(n) = c.free[n] - x.free[n]
  BY <1>1, TakenIsGone DEF WorkloadsPlaced, Placings, IsCluster
<1>. HIDE DEF x
<1>3. NoneOverfull
  <2>. SUFFICES ASSUME NEW p \in x.placements
                PROVE  Taken(p.node) <= c.free[p.node] /\ p.node \in c.workloads[p.workload].hosts
    BY DEF NoneOverfull, x
  <2>1. p.node \in DOMAIN c.free /\ x.free[p.node] >= 0 /\ p.node \in c.workloads[p.workload].hosts
    BY <1>1 DEF WorkloadsPlaced, Placings, RoomIsLeft
  <2>. QED  BY <1>2, <2>1
<1>4. LeftOutFitNowhere
  <2>. SUFFICES ASSUME NEW i \in DOMAIN c.workloads, Unplaced(i), LaterOnesTake(i),
                       NEW n \in c.workloads[i].hosts \cap DOMAIN c.free
                PROVE  c.free[n] - Taken(n) < c.workloads[i].weight
    BY DEF LeftOutFitNowhere
  <2>1. i <= MaxWorkloads /\ c.workloads[i].replicas \in Nat /\ c.workloads[i].weight \in Int
    BY DEF IsCluster
  <2>2. \/ Cardinality(Placed(x, i)) = c.workloads[i].replicas
        \/ Hosts(x.free, c.workloads[i]) = {}
    BY <1>1, <2>1 DEF WorkloadsPlaced, LaterOnesTake, IsCluster
  <2>3. Cardinality(Placed(x, i)) # c.workloads[i].replicas
    BY <2>1 DEF Unplaced, Placed, x
  <2>4. DOMAIN x.free = DOMAIN c.free
    BY <1>1 DEF WorkloadsPlaced, Placings
  <2>5. ~(x.free[n] >= c.workloads[i].weight)
    BY <2>2, <2>3, <2>4 DEF Hosts
  <2>. QED  BY <1>2, <2>1, <2>5
<1>. QED  BY <1>3, <1>4

\* Whatever the nodes and the workloads are, and whichever calls and changes
\* there were: what is stored and planned for the cluster as it is puts no node
\* over its room, and leaves out only what fits nowhere.
THEOREM PlacementsAlwaysFit == ReconcilerSpec => []PlacementsFit
<1>. DEFINE Known == stored.cluster \in Clusters
<1>1. ReconcilerInit => Known
  BY ReconcilerAssumption DEF ReconcilerInit, Empty
<1>2. ReconcilerInv /\ Known /\ [ReconcilerNext]_reconcilerVars => Known'
  <2>. SUFFICES ASSUME ReconcilerInv, Known, [ReconcilerNext]_reconcilerVars
                PROVE  Known'
    OBVIOUS
  <2>1. ASSUME NEW cluster \in Clusters, Edit(cluster) PROVE Known'
    BY <2>1 DEF Edit, Edited
  <2>2. ASSUME NEW k \in Calls, Commits(k) PROVE Known'
    BY <2>2, CommitIsPlan, PlanFields
  <2>3. ASSUME NEW k \in Calls, Start(k) \/ Cancel(k) \/ Read(k) \/ Conflict(k)
        PROVE  Known'
    BY <2>3 DEF Start, Cancel, Read, Conflict
  <2>. QED  BY <2>1, <2>2, <2>3 DEF ReconcilerNext, reconcilerVars
<1>3. ReconcilerInv /\ Known => PlacementsFit
  BY PlanFits, ReconcilerAssumption DEF ReconcilerInv, StoredIsPlanned, PlacementsFit
<1>. QED  BY <1>1, <1>2, <1>3, ReconcilerInvariant, PTL DEF ReconcilerSpec
=============================================================================
