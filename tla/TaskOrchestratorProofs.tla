----------------------- MODULE TaskOrchestratorProofs -----------------------
(***************************************************************************)
(* Tasks are neither lost nor doubled, and they keep their order, for any   *)
(* number of tasks, workers, queues and attempts.                           *)
(***************************************************************************)
EXTENDS TaskOrchestrator, FiniteSetTheorems, TLAPS

States == {"new", "queued", "leased", "running", "succeeded", "retrying", "failed"}

TaskTypes ==
  /\ submitted \in 0..MaxTasks
  /\ kind \in [Tasks -> Kinds \cup {None}]
  /\ priority \in [Tasks -> Int]
  /\ createdAt \in [Tasks -> Nat]
  /\ state \in [Tasks -> States]
  /\ attempt \in [Tasks -> Nat]
  /\ entries \in [Tasks -> Nat]
  /\ reclaims \in [Tasks -> Nat]

\* What a task's own fields have to do with each other.  That a task which
\* waits has an attempt left, and that only a task never tried has none behind
\* it, is what makes the bound of the attempts and the order inductive.
TaskOK(t) ==
  /\ entries[t] = IF state[t] \in {"queued", "retrying"} THEN 1 ELSE 0
  /\ state[t] = "new" <=> t > submitted
  /\ state[t] = "new" => kind[t] = None
  /\ state[t] # "new" => kind[t] \in Kinds
  /\ attempt[t] = 0 <=> state[t] \in {"new", "queued"}
  /\ attempt[t] <= MaxAttempts + reclaims[t]
  /\ state[t] \in {"new", "queued", "retrying"} =>
       attempt[t] < MaxAttempts + reclaims[t]

\* Later tasks do not have earlier times of creation.
CreatedInOrder ==
  \A t, u \in 1..submitted : t <= u => createdAt[t] <= createdAt[u]

TaskInv ==
  /\ TaskTypes
  /\ \A t \in Tasks : TaskOK(t)
  /\ CreatedInOrder
  /\ OldestFirst

-----------------------------------------------------------------------------
(* A step that leaves a task alone *)

Alone(t) ==
  UNCHANGED <<state[t], kind[t], attempt[t], entries[t], reclaims[t]>>

LEMMA AloneKeeps ==
  ASSUME NEW t \in Tasks, TaskOK(t), Alone(t), submitted' = submitted
  PROVE  TaskOK(t)'
BY DEF TaskOK, Alone

\* Attempts that stay keep the order.
LEMMA OrderStays ==
  ASSUME OldestFirst, UNCHANGED <<kind, priority, createdAt, attempt>>
  PROVE  OldestFirst'
BY DEF OldestFirst

LEMMA CreationStays ==
  ASSUME CreatedInOrder, UNCHANGED <<submitted, createdAt>>
  PROVE  CreatedInOrder'
BY DEF CreatedInOrder

-----------------------------------------------------------------------------
(* The actions *)

LEMMA SubmitStep ==
  ASSUME TaskInv, NEW k \in Kinds, NEW p \in Priorities,
         NEW sameInstant \in BOOLEAN, Submit(k, p, sameInstant)
  PROVE  TaskInv'
<1> DEFINE t == submitted + 1
           now == (IF submitted = 0 THEN 0 ELSE createdAt[submitted])
                    + IF sameInstant THEN 0 ELSE 1
<1>1. /\ TaskTypes /\ CreatedInOrder /\ OldestFirst
      /\ \A u \in Tasks : TaskOK(u)
  BY DEF TaskInv
<1>2. /\ t \in Tasks /\ submitted' = t
      /\ kind' = [kind EXCEPT ![t] = k]
      /\ priority' = [priority EXCEPT ![t] = p]
      /\ createdAt' = [createdAt EXCEPT ![t] = now]
      /\ state' = [state EXCEPT ![t] = "queued"]
      /\ PushAll({t})
      /\ attempt' = attempt /\ reclaims' = reclaims
  BY DEF Submit
<1>3. submitted \in Nat /\ MaxTasks \in Nat /\ MaxAttempts \in Nat \ {0}
  BY <1>1, OrchestratorAssumption DEF TaskTypes
<1>4. \A u \in Tasks : entries'[u] = entries[u] + IF u = t THEN 1 ELSE 0
  BY <1>2 DEF PushAll
<1>5. now \in Nat /\ \A u \in 1..submitted : createdAt[u] <= now
  <2>1. CASE submitted = 0
    BY <1>3, <2>1
  <2>2. CASE submitted # 0
    <3>1. submitted \in Tasks /\ createdAt[submitted] \in Nat
      BY <1>1, <1>3, <2>2 DEF Tasks, TaskTypes
    <3>2. \A u \in 1..submitted : createdAt[u] \in Nat
      BY <1>1, <1>3, <3>1 DEF Tasks, TaskTypes
    <3>3. \A u \in 1..submitted : createdAt[u] <= createdAt[submitted]
      BY <1>1, <1>3, <2>2 DEF CreatedInOrder
    <3>4. now = createdAt[submitted] \/ now = createdAt[submitted] + 1
      BY <2>2, <3>1
    <3> HIDE DEF now
    <3> QED
      BY <3>1, <3>2, <3>3, <3>4
  <2> QED
    BY <2>1, <2>2
<1> HIDE DEF now
<1>6. TaskTypes'
  <2>1. p \in Int
    BY OrchestratorAssumption
  <2>2. entries' \in [Tasks -> Nat]
    BY <1>1, <1>2 DEF PushAll, TaskTypes
  <2>3. state' \in [Tasks -> States]
    BY <1>1, <1>2 DEF TaskTypes, States
  <2>4. createdAt' \in [Tasks -> Nat]
    BY <1>1, <1>2, <1>5 DEF TaskTypes
  <2>5. submitted' \in 0..MaxTasks
    BY <1>2, <1>3 DEF Tasks
  <2>6. kind' \in [Tasks -> Kinds \cup {None}] /\ priority' \in [Tasks -> Int]
    BY <1>1, <1>2, <2>1 DEF TaskTypes
  <2>7. attempt' \in [Tasks -> Nat] /\ reclaims' \in [Tasks -> Nat]
    BY <1>1, <1>2 DEF TaskTypes
  <2> QED
    BY <2>2, <2>3, <2>4, <2>5, <2>6, <2>7 DEF TaskTypes
<1>7. ASSUME NEW u \in Tasks PROVE TaskOK(u)'
  <2>0. TaskOK(u) /\ u \in Nat /\ attempt[u] \in Nat /\ reclaims[u] \in Nat
    BY <1>1 DEF Tasks, TaskTypes
  <2>1. CASE u = t
    <3>1. state[t] = "new" /\ entries[t] = 0 /\ attempt[t] = 0
      BY <1>3, <2>0, <2>1 DEF TaskOK
    <3>2. /\ state'[t] = "queued" /\ kind'[t] = k
          /\ attempt'[t] = 0 /\ reclaims'[t] = reclaims[t]
      BY <1>1, <1>2, <3>1 DEF TaskTypes
    <3>3. entries'[t] = 1
      BY <1>2, <1>4, <3>1
    <3>4. ~(t > submitted')
      BY <1>2, <1>3
    <3>5. 0 < MaxAttempts + reclaims[t] /\ 0 <= MaxAttempts + reclaims[t]
      BY <1>3, <2>0, <2>1
    <3> QED
      BY <2>1, <3>2, <3>3, <3>4, <3>5 DEF TaskOK
  <2>2. CASE u # t
    <3>1. /\ state'[u] = state[u] /\ kind'[u] = kind[u]
          /\ attempt'[u] = attempt[u] /\ reclaims'[u] = reclaims[u]
      BY <1>1, <1>2, <2>2 DEF TaskTypes
    <3>2. entries'[u] = entries[u]
      BY <1>1, <1>4, <2>2 DEF TaskTypes
    <3>3. u > submitted' <=> u > submitted
      BY <1>2, <1>3, <2>0, <2>2
    <3> QED
      BY <2>0, <3>1, <3>2, <3>3 DEF TaskOK
  <2> QED
    BY <2>1, <2>2
<1>8. CreatedInOrder'
  <2> SUFFICES ASSUME NEW u \in 1..t, NEW v \in 1..t, u <= v
               PROVE  createdAt'[u] <= createdAt'[v]
    BY <1>2 DEF CreatedInOrder
  <2>1. u \in Tasks /\ v \in Tasks
    BY <1>2, <1>3 DEF Tasks
  <2>2. CASE v = t
    BY <1>1, <1>2, <1>3, <1>5, <2>1, <2>2 DEF TaskTypes
  <2>3. CASE v # t
    <3>1. u \in 1..submitted /\ v \in 1..submitted /\ u # t
      BY <1>3, <2>3
    <3> QED
      BY <1>1, <1>2, <2>1, <2>3, <3>1 DEF TaskTypes, CreatedInOrder
  <2> QED
    BY <2>2, <2>3
<1>9. OldestFirst'
  <2> SUFFICES ASSUME NEW u \in Tasks, NEW v \in Tasks,
                      kind'[u] = kind'[v], priority'[u] = priority'[v],
                      createdAt'[u] < createdAt'[v], attempt'[v] > 0
               PROVE  attempt'[u] > 0
    BY DEF OldestFirst
  <2>1. attempt[t] = 0
    <3>1. TaskOK(t) /\ t > submitted
      BY <1>1, <1>2, <1>3
    <3> QED
      BY <3>1 DEF TaskOK
  <2>2. v # t
    BY <1>2, <2>1
  <2>3. v <= submitted /\ v \in 1..submitted
    <3>1. TaskOK(v) /\ attempt[v] # 0 /\ v \in Nat /\ v >= 1
      BY <1>1, <1>2 DEF TaskTypes, Tasks
    <3> QED
      BY <1>3, <3>1 DEF TaskOK
  <2>4. createdAt'[v] = createdAt[v]
    BY <1>1, <1>2, <2>2 DEF TaskTypes
  <2>5. u # t
    <3>1. createdAt'[t] = now /\ createdAt[v] <= now /\ createdAt[v] \in Nat
      BY <1>1, <1>2, <1>5, <2>3 DEF TaskTypes
    <3> QED
      BY <1>5, <2>4, <3>1
  <2> QED
    BY <1>1, <1>2, <2>2, <2>4, <2>5 DEF TaskTypes, OldestFirst
<1> QED
  BY <1>6, <1>7, <1>8, <1>9 DEF TaskInv

\* The worker's own report, a registration and draining reach no task.
LEMMA WorkerStep ==
  ASSUME TaskInv, UNCHANGED <<created, state, attempt, entries, reclaims>>
  PROVE  TaskInv'
<1>1. TaskTypes'
  BY DEF TaskInv, TaskTypes, created
<1>2. ASSUME NEW t \in Tasks PROVE TaskOK(t)'
  BY AloneKeeps DEF TaskInv, Alone, created
<1>3. CreatedInOrder' /\ OldestFirst'
  BY CreationStays, OrderStays DEF TaskInv, created
<1> QED
  BY <1>1, <1>2, <1>3 DEF TaskInv

\* One task changes its state, and perhaps its entries.
LEMMA OneTaskStep ==
  ASSUME TaskInv, NEW t \in Tasks, NEW s \in States, NEW n \in Nat,
         state' = [state EXCEPT ![t] = s],
         \A u \in Tasks : entries'[u] = IF u = t THEN n ELSE entries[u],
         entries' \in [Tasks -> Nat],
         UNCHANGED <<created, attempt, reclaims>>,
         state[t] \in {"leased", "running"},
         s \in {"running", "succeeded", "retrying", "failed"},
         n = IF s = "retrying" THEN 1 ELSE 0,
         s = "retrying" => attempt[t] < MaxAttempts + reclaims[t]
  PROVE  TaskInv'
<1>1. TaskTypes'
  BY DEF TaskInv, TaskTypes, created, States
<1>2. ASSUME NEW u \in Tasks PROVE TaskOK(u)'
  <2>1. TaskOK(u) /\ state \in [Tasks -> States]
    BY DEF TaskInv, TaskTypes
  <2>2. CASE u = t
    <3>1. /\ state'[t] = s /\ entries'[t] = n /\ kind'[t] = kind[t]
          /\ attempt'[t] = attempt[t] /\ reclaims'[t] = reclaims[t]
          /\ submitted' = submitted
      BY <2>1 DEF created
    <3> QED
      BY <2>1, <2>2, <3>1 DEF TaskOK
  <2>3. CASE u # t
    <3>1. Alone(u) /\ submitted' = submitted
      BY <2>1, <2>3 DEF Alone, created
    <3> QED
      BY <2>1, <3>1, AloneKeeps
  <2> QED
    BY <2>2, <2>3
<1>3. CreatedInOrder' /\ OldestFirst'
  BY CreationStays, OrderStays DEF TaskInv, created
<1> QED
  BY <1>1, <1>2, <1>3 DEF TaskInv

\* The task in front has not been preceded: each one created before it, of its
\* kind and priority, has had an attempt.
LEMMA LeaseStep ==
  ASSUME TaskInv, NEW w \in Workers, Lease(w)
  PROVE  TaskInv'
<1>1. /\ TaskTypes /\ CreatedInOrder /\ OldestFirst
      /\ \A u \in Tasks : TaskOK(u)
  BY DEF TaskInv
<1>a. PICK i \in DOMAIN workers[w].queues :
        \E t \in Front(workers[w].queues[i]) :
          /\ entries' = [entries EXCEPT ![t] = @ - 1]
          /\ state' = [state EXCEPT ![t] = "leased"]
          /\ attempt' = [attempt EXCEPT ![t] = @ + 1]
  BY DEF Lease
<1> DEFINE k == workers[w].queues[i]
<1>2. PICK t \in Front(k) :
        /\ entries' = [entries EXCEPT ![t] = @ - 1]
        /\ state' = [state EXCEPT ![t] = "leased"]
        /\ attempt' = [attempt EXCEPT ![t] = @ + 1]
  BY <1>a
<1> HIDE DEF k
<1>3. UNCHANGED <<created, reclaims>>
  BY DEF Lease
<1>4. /\ t \in Tasks /\ kind[t] = k /\ entries[t] > 0
      /\ \A u \in Queue(k) : ~Precedes(u, t)
  BY <1>2 DEF Front, Queue
<1>5. /\ entries[t] = 1
      /\ state[t] \in {"queued", "retrying"}
      /\ k \in Kinds
      /\ attempt[t] \in Nat /\ reclaims[t] \in Nat
      /\ attempt[t] < MaxAttempts + reclaims[t]
  BY <1>1, <1>4 DEF TaskOK, TaskTypes
<1>6. /\ attempt'[t] = attempt[t] + 1 /\ entries'[t] = 0
      /\ state'[t] = "leased"
      /\ \A u \in Tasks \ {t} : /\ attempt'[u] = attempt[u]
                                /\ entries'[u] = entries[u]
                                /\ state'[u] = state[u]
  BY <1>1, <1>2, <1>4, <1>5 DEF TaskTypes
<1>7. TaskTypes'
  <2>1. attempt' \in [Tasks -> Nat]
    BY <1>1, <1>2, <1>4 DEF TaskTypes
  <2>2. entries' \in [Tasks -> Nat]
    BY <1>1, <1>2, <1>4, <1>5 DEF TaskTypes
  <2>3. state' \in [Tasks -> States]
    BY <1>1, <1>2, <1>4 DEF TaskTypes, States
  <2> QED
    BY <1>1, <1>3, <2>1, <2>2, <2>3 DEF TaskTypes, created
<1>8. ASSUME NEW u \in Tasks PROVE TaskOK(u)'
  <2>1. CASE u = t
    <3>1. /\ kind'[t] = kind[t] /\ reclaims'[t] = reclaims[t]
          /\ submitted' = submitted
      BY <1>3 DEF created
    <3>2. attempt'[t] # 0 /\ attempt'[t] <= MaxAttempts + reclaims'[t]
      BY <1>5, <1>6, <3>1, OrchestratorAssumption
    <3>3. TaskOK(t)
      BY <1>1, <1>4
    <3> QED
      BY <1>5, <1>6, <2>1, <3>1, <3>2, <3>3 DEF TaskOK
  <2>2. CASE u # t
    <3>1. Alone(u) /\ submitted' = submitted
      BY <1>3, <1>6, <2>2 DEF Alone, created
    <3> QED
      BY <1>1, <3>1, AloneKeeps
  <2> QED
    BY <2>1, <2>2
<1>9. OldestFirst'
  <2> SUFFICES ASSUME NEW u \in Tasks, NEW v \in Tasks,
                      kind[u] = kind[v], priority[u] = priority[v],
                      createdAt[u] < createdAt[v], attempt'[v] > 0
               PROVE  attempt'[u] > 0
    BY <1>3 DEF OldestFirst, created
  <2>1. attempt[u] \in Nat /\ attempt[v] \in Nat
    BY <1>1 DEF TaskTypes
  <2>2. CASE u = t
    BY <1>5, <1>6, <2>2
  <2>3. CASE v # t /\ u # t
    BY <1>1, <1>6, <2>3 DEF OldestFirst
  <2>4. CASE v = t /\ u # t
    <3>1. kind[u] = k
      BY <1>4, <2>4
    <3>2. u \notin Queue(k)
      BY <1>4, <2>4 DEF Precedes
    <3>3. entries[u] = 0
      BY <1>1, <3>1, <3>2 DEF Queue, TaskTypes
    <3>4. TaskOK(u)
      BY <1>1
    <3>5. state[u] \notin {"queued", "retrying"}
      BY <3>3, <3>4 DEF TaskOK
    <3>6. state[u] # "new"
      BY <1>5, <3>1, <3>4, OrchestratorAssumption DEF TaskOK
    <3>7. attempt[u] # 0
      BY <3>4, <3>5, <3>6 DEF TaskOK
    <3> QED
      BY <1>6, <2>1, <2>4, <3>7
  <2> QED
    BY <2>2, <2>3, <2>4
<1>10. CreatedInOrder'
  BY <1>1, <1>3, CreationStays DEF created
<1> QED
  BY <1>7, <1>8, <1>9, <1>10 DEF TaskInv

LEMMA EndStep ==
  ASSUME TaskInv, NEW t \in Tasks, NEW w \in Workers,
         Begin(t, w) \/ Complete(t, w) \/ Fail(t, w)
  PROVE  TaskInv'
<1>0. /\ TaskTypes /\ TaskOK(t)
      /\ attempt[t] \in Nat /\ reclaims[t] \in Nat /\ MaxAttempts \in Nat
  BY OrchestratorAssumption DEF TaskInv, TaskTypes
<1>1. CASE Begin(t, w) \/ Complete(t, w)
  <2>1. PICK s \in {"running", "succeeded"} : state' = [state EXCEPT ![t] = s]
    BY <1>1 DEF Begin, Complete
  <2>2. /\ UNCHANGED <<created, attempt, entries, reclaims>>
        /\ state[t] \in {"leased", "running"}
    BY <1>1 DEF Begin, Complete, assertOwner
  <2>3. entries[t] = 0 /\ entries' \in [Tasks -> Nat]
    BY <1>0, <2>2 DEF TaskOK, TaskTypes
  <2>4. \A u \in Tasks : entries'[u] = IF u = t THEN 0 ELSE entries[u]
    BY <2>2, <2>3
  <2>5. s \in States
    BY DEF States
  <2> QED
    BY <2>1, <2>2, <2>3, <2>4, <2>5, OneTaskStep
<1>2. CASE Fail(t, w)
  <2>1. /\ state[t] \in {"leased", "running"}
        /\ UNCHANGED <<created, attempt, reclaims>>
    BY <1>2 DEF Fail, assertOwner
  <2>2. entries[t] = 0 /\ entries \in [Tasks -> Nat]
    BY <1>0, <2>1 DEF TaskOK, TaskTypes
  <2>3. CASE isTerminal(t)
    <3>1. state' = [state EXCEPT ![t] = "failed"] /\ PushAll({})
      BY <1>2, <2>3 DEF Fail
    <3>2. /\ \A u \in Tasks : entries'[u] = IF u = t THEN 0 ELSE entries[u]
          /\ entries' \in [Tasks -> Nat]
      BY <2>2, <3>1 DEF PushAll
    <3>3. "failed" \in States
      BY DEF States
    <3> QED
      BY <2>1, <3>1, <3>2, <3>3, OneTaskStep
  <2>4. CASE ~isTerminal(t)
    <3>1. state' = [state EXCEPT ![t] = "retrying"] /\ PushAll({t})
      BY <1>2, <2>4 DEF Fail
    <3>2. /\ \A u \in Tasks : entries'[u] = IF u = t THEN 1 ELSE entries[u]
          /\ entries' \in [Tasks -> Nat]
      BY <2>2, <3>1 DEF PushAll
    <3>3. "retrying" \in States
      BY DEF States
    <3>4. attempt[t] < MaxAttempts + reclaims[t]
      BY <1>0, <2>4 DEF isTerminal
    <3> QED
      BY <2>1, <3>1, <3>2, <3>3, <3>4, OneTaskStep
  <2> QED
    BY <2>3, <2>4
<1> QED
  BY <1>1, <1>2

\* All leases that ran out, at once.
LEMMA ReclaimStep ==
  ASSUME TaskInv, ReclaimExpired
  PROVE  TaskInv'
<1>1. /\ TaskTypes /\ CreatedInOrder /\ OldestFirst
      /\ \A u \in Tasks : TaskOK(u)
  BY DEF TaskInv
<1>2. /\ state' = [t \in Tasks |-> IF t \in Expired THEN "retrying" ELSE state[t]]
      /\ entries' = [t \in Tasks |->
                       entries[t] + IF t \in Expired THEN 1 ELSE 0]
      /\ reclaims' = [t \in Tasks |->
                        reclaims[t] + IF t \in Expired THEN 1 ELSE 0]
      /\ UNCHANGED <<created, attempt>>
  BY DEF ReclaimExpired, PushAll
<1>3. TaskTypes'
  <2>1. state' \in [Tasks -> States]
    BY <1>1, <1>2 DEF TaskTypes, States
  <2>2. entries' \in [Tasks -> Nat] /\ reclaims' \in [Tasks -> Nat]
    BY <1>1, <1>2 DEF TaskTypes
  <2> QED
    BY <1>1, <1>2, <2>1, <2>2 DEF TaskTypes, created
<1>4. ASSUME NEW u \in Tasks PROVE TaskOK(u)'
  <2>0. /\ TaskOK(u) /\ entries[u] \in Nat /\ reclaims[u] \in Nat
        /\ attempt[u] \in Nat /\ MaxAttempts \in Nat
    BY <1>1, OrchestratorAssumption DEF TaskTypes
  <2>1. CASE u \in Expired
    <3>1. /\ state'[u] = "retrying" /\ entries'[u] = entries[u] + 1
          /\ reclaims'[u] = reclaims[u] + 1
          /\ attempt'[u] = attempt[u] /\ kind'[u] = kind[u]
          /\ submitted' = submitted
      BY <1>2, <2>1 DEF created
    <3>2. state[u] \in {"leased", "running"}
      BY <2>1 DEF Expired
    <3>3. entries'[u] = 1
      BY <2>0, <3>1, <3>2 DEF TaskOK
    <3>4. attempt'[u] < MaxAttempts + reclaims'[u]
      BY <2>0, <3>1 DEF TaskOK
    <3>5. attempt'[u] <= MaxAttempts + reclaims'[u]
      BY <2>0, <3>1 DEF TaskOK
    <3> QED
      BY <2>0, <3>1, <3>2, <3>3, <3>4, <3>5 DEF TaskOK
  <2>2. CASE u \notin Expired
    <3>1. Alone(u) /\ submitted' = submitted
      BY <1>2, <2>0, <2>2 DEF Alone, created
    <3> QED
      BY <2>0, <3>1, AloneKeeps
  <2> QED
    BY <2>1, <2>2
<1>5. CreatedInOrder' /\ OldestFirst'
  BY <1>1, <1>2, CreationStays, OrderStays DEF created
<1> QED
  BY <1>3, <1>4, <1>5 DEF TaskInv

-----------------------------------------------------------------------------
(* Every step *)

LEMMA OrchestratorInitInv == OrchestratorInit => TaskInv
<1> SUFFICES ASSUME OrchestratorInit PROVE TaskInv
  OBVIOUS
<1>1. MaxTasks \in Nat /\ MaxAttempts \in Nat \ {0}
  BY OrchestratorAssumption
<1>2. TaskTypes
  <2>1. state \in [Tasks -> States]
    BY DEF OrchestratorInit, States
  <2>2. /\ submitted \in 0..MaxTasks
        /\ kind \in [Tasks -> Kinds \cup {None}]
        /\ priority \in [Tasks -> Int]
        /\ createdAt \in [Tasks -> Nat]
        /\ attempt \in [Tasks -> Nat]
        /\ entries \in [Tasks -> Nat]
        /\ reclaims \in [Tasks -> Nat]
    BY <1>1 DEF OrchestratorInit
  <2> QED
    BY <2>1, <2>2 DEF TaskTypes
<1>3. ASSUME NEW t \in Tasks PROVE TaskOK(t)
  <2>1. /\ state[t] = "new" /\ kind[t] = None
        /\ attempt[t] = 0 /\ entries[t] = 0 /\ reclaims[t] = 0
        /\ submitted = 0
    BY DEF OrchestratorInit
  <2>2. t > submitted
    BY <2>1 DEF Tasks
  <2> QED
    BY <1>1, <2>1, <2>2 DEF TaskOK
<1>4. CreatedInOrder
  BY DEF OrchestratorInit, CreatedInOrder
<1>5. OldestFirst
  BY DEF OrchestratorInit, OldestFirst
<1> QED
  BY <1>2, <1>3, <1>4, <1>5 DEF TaskInv

LEMMA OrchestratorStepKeepsInv ==
  TaskInv /\ [OrchestratorNext]_orchestratorVars => TaskInv'
<1> SUFFICES ASSUME TaskInv, [OrchestratorNext]_orchestratorVars PROVE TaskInv'
  OBVIOUS
<1>1. ASSUME NEW w \in Workers,
             \/ \E r \in Registrations : RegisterWorker(w, r)
             \/ \E active \in Reports : Heartbeat(w, active)
      PROVE  TaskInv'
  BY <1>1, WorkerStep DEF RegisterWorker, Heartbeat, taskVars
<1>2. ASSUME NEW t \in Tasks, LeaseRunsOut(t) PROVE TaskInv'
  BY <1>2, WorkerStep DEF LeaseRunsOut
<1>3. CASE Drain
  BY <1>3, WorkerStep DEF Drain, taskVars
<1>4. CASE UNCHANGED orchestratorVars
  BY <1>4, WorkerStep DEF orchestratorVars, taskVars
<1> QED
  BY <1>1, <1>2, <1>3, <1>4, SubmitStep, LeaseStep, EndStep, ReclaimStep
     DEF OrchestratorNext

THEOREM TaskInvariant == OrchestratorSpec => []TaskInv
BY OrchestratorInitInv, OrchestratorStepKeepsInv, PTL DEF OrchestratorSpec

\* No sequence of leases, failures, reclaims and late reports loses a task or
\* puts it into its queue twice.
THEOREM AlwaysQueuedOnce == OrchestratorSpec => []QueuedOnce
<1>1. TaskInv => QueuedOnce
  BY DEF TaskInv, TaskOK, QueuedOnce
<1> QED
  BY <1>1, TaskInvariant, PTL

\* Equal priorities are served in the order of creation, retries included.
THEOREM AlwaysOldestFirst == OrchestratorSpec => []OldestFirst
<1>1. TaskInv => OldestFirst
  BY DEF TaskInv
<1> QED
  BY <1>1, TaskInvariant, PTL

\* fail stops at maxAttempts; only leases that ran out add attempts to that.
THEOREM AttemptsAlwaysBounded == OrchestratorSpec => []AttemptsAreBounded
<1>1. TaskInv => AttemptsAreBounded
  BY DEF TaskInv, TaskOK, AttemptsAreBounded
<1> QED
  BY <1>1, TaskInvariant, PTL

\* assertOwner and the guard of begin keep a finished task as it is, whoever
\* still reports about it; lease reaches it not, because it is in no queue.
THEOREM TerminalAlwaysFinal == OrchestratorSpec => TerminalIsFinal
<1>1. ASSUME TaskInv, [OrchestratorNext]_orchestratorVars,
             NEW t \in Tasks, state[t] \in {"succeeded", "failed"}
      PROVE  state'[t] = state[t]
  <2>0. /\ TaskOK(t) /\ state \in [Tasks -> States] /\ entries[t] = 0
    BY <1>1 DEF TaskInv, TaskTypes, TaskOK
  <2>1. ASSUME NEW k \in Kinds, NEW p \in Priorities, NEW b \in BOOLEAN,
               Submit(k, p, b)
        PROVE  state'[t] = state[t]
    <3>1. TaskOK(submitted + 1) /\ submitted \in Nat
      BY <1>1, <2>1 DEF Submit, TaskInv, TaskTypes
    <3>2. state[submitted + 1] = "new"
      BY <3>1 DEF TaskOK
    <3> QED
      BY <1>1, <2>0, <2>1, <3>2 DEF Submit
  <2>2. ASSUME NEW w \in Workers, Lease(w) PROVE state'[t] = state[t]
    <3>1. PICK u \in Tasks : /\ \E k : u \in Front(k)
                             /\ state' = [state EXCEPT ![u] = "leased"]
      BY <2>2 DEF Lease, Front, Queue
    <3>2. entries[u] > 0
      BY <3>1 DEF Front, Queue
    <3> QED
      BY <2>0, <3>1, <3>2
  <2>3. ASSUME NEW u \in Tasks, NEW w \in Workers,
               Begin(u, w) \/ Complete(u, w) \/ Fail(u, w)
        PROVE  state'[t] = state[t]
    <3>1. u # t
      BY <1>1, <2>3 DEF Begin, Complete, Fail, assertOwner
    <3> QED
      BY <2>0, <2>3, <3>1 DEF Begin, Complete, Fail
  <2>4. CASE ReclaimExpired
    BY <1>1, <2>4 DEF ReclaimExpired, Expired
  <2>5. ASSUME UNCHANGED state PROVE state'[t] = state[t]
    BY <2>5
  <2> QED
    BY <1>1, <2>1, <2>2, <2>3, <2>4, <2>5
       DEF OrchestratorNext, RegisterWorker, Heartbeat, LeaseRunsOut, Drain,
           taskVars, orchestratorVars
<1>2. TaskInv /\ [OrchestratorNext]_orchestratorVars =>
        \A t \in Tasks :
          state[t] \in {"succeeded", "failed"} => state'[t] = state[t]
  BY <1>1
<1> QED
  BY <1>2, TaskInvariant, PTL DEF OrchestratorSpec, TerminalIsFinal

-----------------------------------------------------------------------------
(* The workers' counts *)

WorkerSnapshots ==
  [queues : {r.queues : r \in Registrations}, capacity : Nat, active : Nat,
   draining : BOOLEAN]

WorkerTypes ==
  /\ accepting \in BOOLEAN
  /\ leaseOwner \in [Tasks -> Workers \cup {None}]
  /\ overdue \in [Tasks -> BOOLEAN]
  /\ DOMAIN workers \subseteq Workers
  /\ \A w \in DOMAIN workers : workers[w] \in WorkerSnapshots
  /\ counted \in [Workers -> BOOLEAN]

WorkerInv == WorkerTypes /\ ActiveIsHeld

LEMMA HeldIsFinite ==
  ASSUME NEW w PROVE IsFiniteSet(Held(w)) /\ Cardinality(Held(w)) \in Nat
<1>1. Held(w) \subseteq Tasks /\ IsFiniteSet(Tasks)
  BY OrchestratorAssumption, FS_Interval DEF Held, Tasks
<1> QED
  BY <1>1, FS_Subset, FS_CardinalityType

\* What an assignment to the count of one worker does to the table of workers.
LEMMA CountSet ==
  ASSUME WorkerTypes, NEW w \in DOMAIN workers, NEW n \in Nat,
         workers' = [workers EXCEPT ![w].active = n]
  PROVE  /\ DOMAIN workers' = DOMAIN workers
         /\ \A x \in DOMAIN workers : workers'[x] \in WorkerSnapshots
         /\ workers'[w].active = n
         /\ \A x \in DOMAIN workers : x # w => workers'[x] = workers[x]
<1>1. workers[w] \in WorkerSnapshots
  BY DEF WorkerTypes
<1>2. workers' = [x \in DOMAIN workers |->
                    IF x = w THEN [workers[w] EXCEPT !.active = n]
                             ELSE workers[x]]
  OBVIOUS
<1>3. /\ [workers[w] EXCEPT !.active = n] \in WorkerSnapshots
      /\ [workers[w] EXCEPT !.active = n].active = n
  BY <1>1 DEF WorkerSnapshots
<1> QED
  BY <1>2, <1>3 DEF WorkerTypes

\* A report about a held task takes it from what its owner holds, and from the
\* owner's count if the owner is registered.
LEMMA ReleaseStep ==
  ASSUME WorkerInv, NEW w \in Workers, NEW t \in Held(w),
         \A x \in Workers : Held(x)' = IF x = w THEN Held(w) \ {t} ELSE Held(x),
         Release(w), UNCHANGED <<accepting, leaseOwner, counted>>,
         overdue' \in [Tasks -> BOOLEAN]
  PROVE  WorkerInv'
<1>1. WorkerTypes /\ ActiveIsHeld
  BY DEF WorkerInv
<1>2. /\ Cardinality(Held(w) \ {t}) = Cardinality(Held(w)) - 1
      /\ Cardinality(Held(w)) \in Nat /\ Cardinality(Held(w) \ {t}) \in Nat
  BY HeldIsFinite, FS_RemoveElement, FS_CardinalityType
<1>3. CASE w \in DOMAIN workers
  <2>1. workers[w].active \in Nat
    BY <1>1, <1>3 DEF WorkerTypes, WorkerSnapshots
  <2>2. PICK n \in Nat : n = AtLeastZero(workers[w].active - 1)
    BY <2>1 DEF AtLeastZero
  <2>3. workers' = [workers EXCEPT ![w].active = n]
    BY <1>3, <2>2 DEF Release
  <2>4. /\ DOMAIN workers' = DOMAIN workers
        /\ \A x \in DOMAIN workers : workers'[x] \in WorkerSnapshots
        /\ workers'[w].active = n
        /\ \A x \in DOMAIN workers : x # w => workers'[x] = workers[x]
    BY <1>1, <1>3, <2>3, CountSet
  <2>5. counted[w] => n = Cardinality(Held(w) \ {t})
    BY <1>1, <1>2, <1>3, <2>1, <2>2 DEF ActiveIsHeld, AtLeastZero
  <2>6. WorkerTypes'
    BY <1>1, <2>4 DEF WorkerTypes
  <2>7. ActiveIsHeld'
    BY <1>1, <2>4, <2>5 DEF ActiveIsHeld, WorkerTypes
  <2> QED
    BY <2>6, <2>7 DEF WorkerInv
<1>4. CASE w \notin DOMAIN workers
  <2>1. UNCHANGED workers
    BY <1>4 DEF Release
  <2>2. \A x \in DOMAIN workers : Held(x)' = Held(x)
    BY <1>1, <1>4 DEF WorkerTypes
  <2> QED
    BY <1>1, <2>1, <2>2 DEF WorkerInv, WorkerTypes, ActiveIsHeld
<1> QED
  BY <1>3, <1>4

\* Nobody's tasks and nobody's count change.
LEMMA CountsStay ==
  ASSUME WorkerInv, \A x \in Workers : Held(x)' = Held(x),
         UNCHANGED <<workers, counted, leaseOwner>>,
         accepting' \in BOOLEAN, overdue' \in [Tasks -> BOOLEAN]
  PROVE  WorkerInv'
BY DEF WorkerInv, WorkerTypes, ActiveIsHeld

LEMMA SubmitCounts ==
  ASSUME TaskInv, WorkerInv, NEW k \in Kinds, NEW p \in Priorities,
         NEW sameInstant \in BOOLEAN, Submit(k, p, sameInstant)
  PROVE  WorkerInv'
<1> DEFINE t == submitted + 1
<1>1. /\ t \in Tasks /\ state' = [state EXCEPT ![t] = "queued"]
      /\ UNCHANGED <<accepting, leaseOwner, overdue, workers, counted>>
  BY DEF Submit, workerVars
<1>2. state[t] = "new" /\ state \in [Tasks -> States]
  BY <1>1 DEF TaskInv, TaskTypes, TaskOK
<1>3. \A x \in Workers : Held(x)' = Held(x)
  BY <1>1, <1>2 DEF Held
<1> QED
  BY <1>1, <1>3, CountsStay DEF WorkerInv, WorkerTypes

LEMMA RegisterCounts ==
  ASSUME WorkerInv, NEW w \in Workers, NEW r \in Registrations,
         RegisterWorker(w, r)
  PROVE  WorkerInv'
<1> DEFINE fresh == [queues |-> r.queues, capacity |-> r.capacity,
                     active |-> 0, draining |-> FALSE]
<1>1. /\ workers' = [x \in DOMAIN workers \cup {w} |->
                       IF x = w THEN fresh ELSE workers[x]]
      /\ counted' = [counted EXCEPT ![w] = (Held(w) = {})]
      /\ UNCHANGED <<accepting, leaseOwner, overdue, state>>
  BY DEF RegisterWorker, taskVars
<1>2. fresh \in WorkerSnapshots /\ fresh.active = 0
  BY OrchestratorAssumption DEF WorkerSnapshots
<1> HIDE DEF fresh
<1>3. \A x : Held(x)' = Held(x)
  BY <1>1 DEF Held
<1>4. WorkerTypes'
  <2>1. (Held(w) = {}) \in BOOLEAN
    OBVIOUS
  <2>2. counted' \in [Workers -> BOOLEAN]
    BY <1>1, <2>1 DEF WorkerInv, WorkerTypes
  <2>3. /\ DOMAIN workers' \subseteq Workers
        /\ \A x \in DOMAIN workers' : workers'[x] \in WorkerSnapshots
    BY <1>1, <1>2 DEF WorkerInv, WorkerTypes
  <2> QED
    BY <1>1, <2>2, <2>3 DEF WorkerInv, WorkerTypes
<1>5. ASSUME NEW x \in DOMAIN workers', counted'[x]
      PROVE  workers'[x].active = Cardinality(Held(x)')
  <2>1. CASE x = w
    <3>1. Held(w) = {}
      BY <1>1, <1>5, <2>1 DEF WorkerInv, WorkerTypes
    <3> QED
      BY <1>1, <1>2, <1>3, <2>1, <3>1, FS_EmptySet
  <2>2. CASE x # w
    BY <1>1, <1>3, <1>5, <2>2 DEF WorkerInv, WorkerTypes, ActiveIsHeld
  <2> QED
    BY <2>1, <2>2
<1> QED
  BY <1>4, <1>5 DEF WorkerInv, ActiveIsHeld

LEMMA HeartbeatCounts ==
  ASSUME WorkerInv, NEW w \in Workers, NEW active \in Reports,
         Heartbeat(w, active)
  PROVE  WorkerInv'
<1>1. PICK n \in Nat : n = AtLeastZero(active)
  BY OrchestratorAssumption DEF AtLeastZero
<1>2. /\ w \in DOMAIN workers
      /\ workers' = [workers EXCEPT ![w].active = n]
      /\ counted' = [counted EXCEPT ![w] = (n = Cardinality(Held(w)))]
      /\ UNCHANGED <<accepting, leaseOwner, overdue, state>>
  BY <1>1 DEF Heartbeat, taskVars
<1>3. /\ DOMAIN workers' = DOMAIN workers
      /\ \A x \in DOMAIN workers : workers'[x] \in WorkerSnapshots
      /\ workers'[w].active = n
      /\ \A x \in DOMAIN workers : x # w => workers'[x] = workers[x]
  BY <1>2, CountSet DEF WorkerInv
<1>4. \A x : Held(x)' = Held(x)
  BY <1>2 DEF Held
<1>5. WorkerTypes'
  <2>1. (n = Cardinality(Held(w))) \in BOOLEAN
    OBVIOUS
  <2>2. counted' \in [Workers -> BOOLEAN]
    BY <1>2, <2>1 DEF WorkerInv, WorkerTypes
  <2> QED
    BY <1>2, <1>3, <2>2 DEF WorkerInv, WorkerTypes
<1>6. ASSUME NEW x \in DOMAIN workers, counted'[x]
      PROVE  workers'[x].active = Cardinality(Held(x))
  <2>1. CASE x = w
    BY <1>2, <1>3, <1>6, <2>1 DEF WorkerInv, WorkerTypes
  <2>2. CASE x # w
    BY <1>2, <1>3, <1>6, <2>2 DEF WorkerInv, WorkerTypes, ActiveIsHeld
  <2> QED
    BY <2>1, <2>2
<1>7. ActiveIsHeld'
  BY <1>3, <1>4, <1>6 DEF ActiveIsHeld
<1> QED
  BY <1>5, <1>7 DEF WorkerInv

\* A task that is leased waited before, so nobody held it, whoever stands as
\* its owner since an earlier attempt.
LEMMA LeaseCounts ==
  ASSUME TaskInv, WorkerInv, NEW w \in Workers, Lease(w)
  PROVE  WorkerInv'
<1>1. PICK t \in Tasks :
        /\ entries[t] > 0
        /\ state' = [state EXCEPT ![t] = "leased"]
        /\ leaseOwner' = [leaseOwner EXCEPT ![t] = w]
        /\ overdue' = [overdue EXCEPT ![t] = FALSE]
  BY DEF Lease, Front, Queue
<1>2. /\ w \in DOMAIN workers
      /\ workers' = [workers EXCEPT ![w].active = @ + 1]
      /\ UNCHANGED <<accepting, counted>>
  BY DEF Lease
<1>3. state[t] \in {"queued", "retrying"} /\ state \in [Tasks -> States]
  BY <1>1 DEF TaskInv, TaskTypes, TaskOK
<1>4. leaseOwner \in [Tasks -> Workers \cup {None}]
  BY DEF WorkerInv, WorkerTypes
<1>5. Held(w)' = Held(w) \cup {t} /\ t \notin Held(w)
  BY <1>1, <1>3, <1>4 DEF Held
<1>6. ASSUME NEW x, x # w PROVE Held(x)' = Held(x)
  BY <1>1, <1>3, <1>4, <1>6 DEF Held
<1>7. Cardinality(Held(w)') = Cardinality(Held(w)) + 1
  BY <1>5, HeldIsFinite, FS_AddElement
<1>8. PICK n \in Nat : n = workers[w].active + 1
  BY <1>2 DEF WorkerInv, WorkerTypes, WorkerSnapshots
<1>9. /\ DOMAIN workers' = DOMAIN workers
      /\ \A x \in DOMAIN workers : workers'[x] \in WorkerSnapshots
      /\ workers'[w].active = n
      /\ \A x \in DOMAIN workers : x # w => workers'[x] = workers[x]
  <2>1. workers' = [workers EXCEPT ![w].active = n]
    BY <1>2, <1>8
  <2> QED
    BY <1>2, <2>1, CountSet DEF WorkerInv
<1>10. WorkerTypes'
  <2>1. leaseOwner' \in [Tasks -> Workers \cup {None}]
    BY <1>1, <1>4
  <2>2. overdue' \in [Tasks -> BOOLEAN]
    BY <1>1 DEF WorkerInv, WorkerTypes
  <2> QED
    BY <1>2, <1>9, <2>1, <2>2 DEF WorkerInv, WorkerTypes
<1>11. ASSUME NEW x \in DOMAIN workers, counted[x]
       PROVE  workers'[x].active = Cardinality(Held(x)')
  <2>0. workers[x].active = Cardinality(Held(x))
    BY <1>11 DEF WorkerInv, ActiveIsHeld
  <2>1. CASE x = w
    BY <1>7, <1>8, <1>9, <2>0, <2>1
  <2>2. CASE x # w
    BY <1>6, <1>9, <2>0, <2>2
  <2> QED
    BY <2>1, <2>2
<1>12. ActiveIsHeld'
  BY <1>2, <1>9, <1>11 DEF ActiveIsHeld
<1> QED
  BY <1>10, <1>12 DEF WorkerInv

LEMMA ReportCounts ==
  ASSUME TaskInv, WorkerInv, NEW t \in Tasks, NEW w \in Workers,
         Begin(t, w) \/ Complete(t, w) \/ Fail(t, w)
  PROVE  WorkerInv'
<1>1. /\ state \in [Tasks -> States]
      /\ leaseOwner \in [Tasks -> Workers \cup {None}]
      /\ overdue \in [Tasks -> BOOLEAN] /\ accepting \in BOOLEAN
  BY DEF TaskInv, TaskTypes, WorkerInv, WorkerTypes
<1>2. CASE Begin(t, w)
  <2>1. \A x : Held(x)' = Held(x)
    BY <1>1, <1>2 DEF Begin, Held
  <2> QED
    BY <1>1, <1>2, <2>1, CountsStay DEF Begin, workerVars
<1>3. CASE Complete(t, w) \/ Fail(t, w)
  <2>1. /\ t \in Held(w) /\ Release(w)
        /\ overdue' = [overdue EXCEPT ![t] = FALSE]
        /\ UNCHANGED <<accepting, leaseOwner, counted>>
    BY <1>3 DEF Complete, Fail, assertOwner, Held
  <2>2. PICK s \in {"succeeded", "failed", "retrying"} :
          state' = [state EXCEPT ![t] = s]
    BY <1>3 DEF Complete, Fail
  <2>3. ASSUME NEW x
        PROVE  Held(x)' = IF x = w THEN Held(w) \ {t} ELSE Held(x)
    BY <1>1, <2>1, <2>2 DEF Held
  <2>4. overdue' \in [Tasks -> BOOLEAN]
    BY <1>1, <2>1
  <2> QED
    BY <2>1, <2>3, <2>4, ReleaseStep
<1> QED
  BY <1>2, <1>3

\* The count of each owner falls by what is taken from it, all at once.
LEMMA ReclaimCounts ==
  ASSUME TaskInv, WorkerInv, ReclaimExpired
  PROVE  WorkerInv'
<1>1. /\ state' = [t \in Tasks |-> IF t \in Expired THEN "retrying" ELSE state[t]]
      /\ leaseOwner' = [t \in Tasks |-> IF t \in Expired THEN None
                                                         ELSE leaseOwner[t]]
      /\ overdue' = [t \in Tasks |-> overdue[t] /\ t \notin Expired]
      /\ workers' = [w \in DOMAIN workers |->
           [workers[w] EXCEPT
              !.active = AtLeastZero(@ - Cardinality(Expired \cap Held(w)))]]
      /\ UNCHANGED <<accepting, counted>>
  BY DEF ReclaimExpired
<1>2. ASSUME NEW w
      PROVE  /\ Held(w)' = Held(w) \ Expired
             /\ Cardinality(Held(w)') =
                  Cardinality(Held(w)) - Cardinality(Expired \cap Held(w))
             /\ Cardinality(Held(w)') \in Nat
             /\ Cardinality(Expired \cap Held(w)) \in Nat
  <2>1. Held(w)' = Held(w) \ Expired
    BY <1>1 DEF Held, Expired
  <2>2. Expired \cap Held(w) = Held(w) \cap Expired
    OBVIOUS
  <2>3. IsFiniteSet(Held(w)) /\ IsFiniteSet(Held(w) \ Expired)
    BY HeldIsFinite, FS_Difference
  <2>4. IsFiniteSet(Held(w) \cap Expired)
    BY <2>3, FS_Subset
  <2> QED
    BY <2>1, <2>2, <2>3, <2>4, FS_Difference, FS_CardinalityType
<1>3. ASSUME NEW w \in DOMAIN workers
      PROVE  /\ workers'[w] \in WorkerSnapshots
             /\ counted[w] => workers'[w].active = Cardinality(Held(w)')
  <2>1. workers[w] \in WorkerSnapshots /\ workers[w].active \in Nat
    BY DEF WorkerInv, WorkerTypes, WorkerSnapshots
  <2>2. PICK n \in Nat :
          n = AtLeastZero(workers[w].active - Cardinality(Expired \cap Held(w)))
    BY <1>2, <2>1 DEF AtLeastZero
  <2>3. workers'[w] = [workers[w] EXCEPT !.active = n]
    BY <1>1, <2>2
  <2>4. workers'[w] \in WorkerSnapshots /\ workers'[w].active = n
    BY <2>1, <2>3 DEF WorkerSnapshots
  <2>5. counted[w] => n = Cardinality(Held(w)')
    <3>1. counted[w] => workers[w].active = Cardinality(Held(w))
      BY DEF WorkerInv, ActiveIsHeld
    <3> QED
      BY <1>2, <2>2, <3>1 DEF AtLeastZero
  <2> QED
    BY <2>4, <2>5
<1>4. WorkerTypes'
  <2>1. leaseOwner' \in [Tasks -> Workers \cup {None}]
    BY <1>1 DEF WorkerInv, WorkerTypes
  <2>2. overdue' \in [Tasks -> BOOLEAN]
    BY <1>1 DEF WorkerInv, WorkerTypes
  <2>3. DOMAIN workers' = DOMAIN workers
    BY <1>1
  <2> QED
    BY <1>1, <1>3, <2>1, <2>2, <2>3 DEF WorkerInv, WorkerTypes
<1>5. ActiveIsHeld'
  BY <1>1, <1>3 DEF ActiveIsHeld
<1> QED
  BY <1>4, <1>5 DEF WorkerInv

LEMMA DrainCounts ==
  ASSUME WorkerInv, Drain
  PROVE  WorkerInv'
<1>1. /\ accepting' = FALSE
      /\ workers' = [w \in DOMAIN workers |-> [workers[w] EXCEPT !.draining = TRUE]]
      /\ UNCHANGED <<state, leaseOwner, overdue, counted>>
  BY DEF Drain, taskVars
<1>2. \A x : Held(x)' = Held(x)
  BY <1>1 DEF Held
<1>3. ASSUME NEW w \in DOMAIN workers
      PROVE  /\ workers'[w] \in WorkerSnapshots
             /\ workers'[w].active = workers[w].active
  BY <1>1 DEF WorkerInv, WorkerTypes, WorkerSnapshots
<1>4. WorkerTypes'
  BY <1>1, <1>3 DEF WorkerInv, WorkerTypes
<1>5. ActiveIsHeld'
  BY <1>1, <1>2, <1>3 DEF WorkerInv, ActiveIsHeld
<1> QED
  BY <1>4, <1>5 DEF WorkerInv

LEMMA WorkerInit == OrchestratorInit => WorkerInv
BY DEF OrchestratorInit, WorkerInv, WorkerTypes, ActiveIsHeld

LEMMA WorkerStepKeepsInv ==
  TaskInv /\ WorkerInv /\ [OrchestratorNext]_orchestratorVars => WorkerInv'
<1> SUFFICES ASSUME TaskInv, WorkerInv, [OrchestratorNext]_orchestratorVars
             PROVE  WorkerInv'
  OBVIOUS
<1>1. ASSUME NEW k \in Kinds, NEW p \in Priorities, NEW b \in BOOLEAN,
             Submit(k, p, b)
      PROVE  WorkerInv'
  BY <1>1, SubmitCounts
<1>2. ASSUME NEW w \in Workers,
             \/ \E r \in Registrations : RegisterWorker(w, r)
             \/ \E active \in Reports : Heartbeat(w, active)
             \/ Lease(w)
      PROVE  WorkerInv'
  BY <1>2, RegisterCounts, HeartbeatCounts, LeaseCounts
<1>3. ASSUME NEW t \in Tasks, NEW w \in Workers,
             Begin(t, w) \/ Complete(t, w) \/ Fail(t, w)
      PROVE  WorkerInv'
  BY <1>3, ReportCounts
<1>4. ASSUME NEW t \in Tasks, LeaseRunsOut(t) PROVE WorkerInv'
  <2>1. /\ overdue' = [overdue EXCEPT ![t] = TRUE]
        /\ UNCHANGED <<accepting, state, leaseOwner, workers, counted>>
    BY <1>4 DEF LeaseRunsOut, workerVars
  <2>2. \A x : Held(x)' = Held(x)
    BY <2>1 DEF Held
  <2> QED
    BY <2>1, <2>2, CountsStay DEF WorkerInv, WorkerTypes
<1>5. CASE ReclaimExpired
  BY <1>5, ReclaimCounts
<1>6. CASE Drain
  BY <1>6, DrainCounts
<1>7. CASE UNCHANGED orchestratorVars
  <2>1. UNCHANGED <<accepting, state, leaseOwner, overdue, workers, counted>>
    BY <1>7 DEF orchestratorVars, taskVars, workerVars
  <2>2. \A x : Held(x)' = Held(x)
    BY <2>1 DEF Held
  <2> QED
    BY <2>1, <2>2, CountsStay DEF WorkerInv, WorkerTypes
<1> QED
  BY <1>1, <1>2, <1>3, <1>4, <1>5, <1>6, <1>7 DEF OrchestratorNext

LEMMA WorkerInvariant == OrchestratorSpec => [](TaskInv /\ WorkerInv)
BY OrchestratorInitInv, OrchestratorStepKeepsInv, WorkerInit, WorkerStepKeepsInv,
   PTL DEF OrchestratorSpec

\* Tasks, workers and queues keep their types; a count is never negative.
THEOREM OrchestratorTypeCorrect == OrchestratorSpec => []OrchestratorTypeOK
<1>1. TaskInv /\ WorkerInv => OrchestratorTypeOK
  BY DEF TaskInv, TaskTypes, WorkerInv, WorkerTypes, WorkerSnapshots,
     OrchestratorTypeOK, States
<1> QED
  BY <1>1, WorkerInvariant, PTL

\* complete, fail and reclaimExpired release each lease once: a worker whose
\* count started from the truth is counted for the tasks it holds, no more and
\* no fewer, for any number of workers and tasks.
THEOREM ActiveAlwaysHeld == OrchestratorSpec => []ActiveIsHeld
<1>1. WorkerInv => ActiveIsHeld
  BY DEF WorkerInv
<1> QED
  BY <1>1, WorkerInvariant, PTL
=============================================================================
