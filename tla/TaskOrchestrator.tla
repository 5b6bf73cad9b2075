-------------------------- MODULE TaskOrchestrator --------------------------
(***************************************************************************)
(* sources/task-orchestrator.ts: tasks that workers lease from priority     *)
(* queues, with leases that run out, retries and draining.                  *)
(*                                                                          *)
(* Tasks are numbered in the order of their creation.  A queue is an array  *)
(* that is sorted at each push; it is modelled by how many entries of each  *)
(* task it holds, and its pop by taking an entry that no other precedes in  *)
(* the sort's order, so entries that the sort holds for equal may leave in  *)
(* any order.  A task is only ever pushed to the queue of its kind.  The    *)
(* clock is reduced to whether a lease has run out; it is not set back.     *)
(* Payloads, traces, errors, the journal and the shard are left out.        *)
(***************************************************************************)
EXTENDS Integers, FiniteSets

CONSTANTS
  Kinds,            \* QueueName
  Workers,          \* ids that workers register with
  Registrations,    \* what a worker registers: the order of its queues, capacity
  Priorities,
  MaxTasks,         \* bound on the tasks submitted
  MaxAttempts,      \* maxAttempts, 4 in the source
  MaxReclaims,      \* bound on the leases of a task that run out
  Reports,          \* what workers report as their active tasks
  None              \* undefined

Tasks == 1..MaxTasks

ASSUME OrchestratorAssumption ==
  /\ MaxTasks \in Nat /\ MaxAttempts \in Nat \ {0} /\ MaxReclaims \in Nat
  /\ Priorities \subseteq Int /\ Reports \subseteq Int
  /\ \A r \in Registrations : r.capacity \in Nat
  /\ None \notin Workers \cup Kinds

VARIABLES
  accepting,
  submitted,     \* number of tasks in the table
  kind, priority, createdAt,
  state,         \* "new" before the task is created
  leaseOwner,
  overdue,       \* is leaseUntil in the past?
  attempt,
  entries,       \* entries of the task in the queue of its kind
  workers,       \* registered workers: queues, capacity, active, draining
  reclaims,      \* history: how often the lease of the task ran out
  counted        \* history: did the worker's count start from the truth?

created     == <<submitted, kind, priority, createdAt>>
taskVars    == <<state, leaseOwner, overdue, attempt, entries>>
workerVars  == <<workers, counted>>
orchestratorVars ==
  <<accepting, created, taskVars, workerVars, reclaims>>

Held(w)  == {t \in Tasks : state[t] \in {"leased", "running"} /\ leaseOwner[t] = w}
Queue(k) == {t \in Tasks : kind[t] = k /\ entries[t] > 0}

OrchestratorInit ==
  /\ accepting = TRUE
  /\ submitted = 0
  /\ kind = [t \in Tasks |-> None]
  /\ priority = [t \in Tasks |-> 0]
  /\ createdAt = [t \in Tasks |-> 0]
  /\ state = [t \in Tasks |-> "new"]
  /\ leaseOwner = [t \in Tasks |-> None]
  /\ overdue = [t \in Tasks |-> FALSE]
  /\ attempt = [t \in Tasks |-> 0]
  /\ entries = [t \in Tasks |-> 0]
  /\ workers = [w \in {} |-> None]
  /\ reclaims = [t \in Tasks |-> 0]
  /\ counted = [w \in Workers |-> FALSE]

-----------------------------------------------------------------------------
(* The queues and the workers' counts *)

AtLeastZero(n) == IF n < 0 THEN 0 ELSE n

PushAll(tasks) ==
  entries' = [t \in Tasks |-> entries[t] + IF t \in tasks THEN 1 ELSE 0]

\* Faulty: the sort compares nothing but the priority.
Precedes_ByPriority(t, u) == priority[t] > priority[u]

\* The order of the sort: higher priority first, then earlier creation.
Precedes(t, u) ==
  \/ priority[t] > priority[u]
  \/ priority[t] = priority[u] /\ createdAt[t] < createdAt[u]

\* Entries that may be the first of the sorted array.
Front(k) == {t \in Queue(k) : \A u \in Queue(k) : ~Precedes(u, t)}

Release(w) ==
  IF w \in DOMAIN workers
  THEN workers' = [workers EXCEPT ![w].active = AtLeastZero(@ - 1)]
  ELSE UNCHANGED workers

-----------------------------------------------------------------------------
(* submit, registerWorker, heartbeat *)

\* Tasks created within one millisecond have the same createdAt.
Submit(k, p, sameInstant) ==
  LET t == submitted + 1 IN
  /\ accepting
  /\ t \in Tasks
  /\ submitted' = t
  /\ kind' = [kind EXCEPT ![t] = k]
  /\ priority' = [priority EXCEPT ![t] = p]
  /\ createdAt' = [createdAt EXCEPT ![t] =
       (IF submitted = 0 THEN 0 ELSE createdAt[submitted])
         + IF sameInstant THEN 0 ELSE 1]
  /\ state' = [state EXCEPT ![t] = "queued"]
  /\ PushAll({t})
  /\ UNCHANGED <<accepting, leaseOwner, overdue, attempt, workerVars, reclaims>>

\* A worker that registers again starts from zero, whatever it holds, and even
\* while the others are drained.
RegisterWorker(w, r) ==
  /\ workers' = [x \in DOMAIN workers \cup {w} |->
                   IF x = w THEN [queues |-> r.queues, capacity |-> r.capacity,
                                  active |-> 0, draining |-> FALSE]
                   ELSE workers[x]]
  /\ counted' = [counted EXCEPT ![w] = (Held(w) = {})]
  /\ UNCHANGED <<accepting, created, taskVars, reclaims>>

\* The worker's own report overwrites the count.
Heartbeat(w, active) ==
  /\ w \in DOMAIN workers
  /\ workers' = [workers EXCEPT ![w].active = AtLeastZero(active)]
  /\ counted' = [counted EXCEPT
       ![w] = (AtLeastZero(active) = Cardinality(Held(w)))]
  /\ UNCHANGED <<accepting, created, taskVars, reclaims>>

-----------------------------------------------------------------------------
(* lease, begin, complete, fail *)

\* The first of the worker's queues that has an entry gives its front.
Lease(w) ==
  /\ w \in DOMAIN workers
  /\ ~workers[w].draining
  /\ workers[w].active < workers[w].capacity
  /\ \E i \in DOMAIN workers[w].queues :
       /\ \A j \in 1..(i - 1) : Queue(workers[w].queues[j]) = {}
       /\ \E t \in Front(workers[w].queues[i]) :
            /\ entries' = [entries EXCEPT ![t] = @ - 1]
            /\ state' = [state EXCEPT ![t] = "leased"]
            /\ leaseOwner' = [leaseOwner EXCEPT ![t] = w]
            /\ overdue' = [overdue EXCEPT ![t] = FALSE]
            /\ attempt' = [attempt EXCEPT ![t] = @ + 1]
  /\ workers' = [workers EXCEPT ![w].active = @ + 1]
  /\ UNCHANGED <<accepting, created, counted, reclaims>>

Begin(t, w) ==
  /\ leaseOwner[t] = w /\ state[t] = "leased"
  /\ state' = [state EXCEPT ![t] = "running"]
  /\ UNCHANGED <<accepting, created, leaseOwner, overdue, attempt, entries,
                 workerVars, reclaims>>

\* Faulty: the owner is all that is asked for.
assertOwner_OwnerOnly(t, w) == leaseOwner[t] = w

assertOwner(t, w) == leaseOwner[t] = w /\ state[t] \in {"leased", "running"}

\* The owner stays on record after the end of a task.
Complete(t, w) ==
  /\ assertOwner(t, w)
  /\ state' = [state EXCEPT ![t] = "succeeded"]
  /\ overdue' = [overdue EXCEPT ![t] = FALSE]
  /\ Release(w)
  /\ UNCHANGED <<accepting, created, leaseOwner, attempt, entries, counted,
                 reclaims>>

\* Faulty: one attempt too many.
isTerminal_Late(t) == attempt[t] > MaxAttempts

isTerminal(t) == attempt[t] >= MaxAttempts

Fail(t, w) ==
  /\ assertOwner(t, w)
  /\ state' = [state EXCEPT ![t] = IF isTerminal(t) THEN "failed" ELSE "retrying"]
  /\ overdue' = [overdue EXCEPT ![t] = FALSE]
  /\ PushAll(IF isTerminal(t) THEN {} ELSE {t})
  /\ Release(w)
  /\ UNCHANGED <<accepting, created, leaseOwner, attempt, counted, reclaims>>

-----------------------------------------------------------------------------
(* The clock, reclaimExpired, drain *)

LeaseRunsOut(t) ==
  /\ state[t] \in {"leased", "running"}
  /\ ~overdue[t] /\ reclaims[t] < MaxReclaims
  /\ overdue' = [overdue EXCEPT ![t] = TRUE]
  /\ UNCHANGED <<accepting, created, state, leaseOwner, attempt, entries,
                 workerVars, reclaims>>

Expired == {t \in Tasks : state[t] \in {"leased", "running"} /\ overdue[t]}

\* Faulty: the workers keep the count of what they lost.
ReclaimExpired_KeepsActive ==
  /\ Expired # {}
  /\ state' = [t \in Tasks |-> IF t \in Expired THEN "retrying" ELSE state[t]]
  /\ leaseOwner' = [t \in Tasks |-> IF t \in Expired THEN None ELSE leaseOwner[t]]
  /\ overdue' = [t \in Tasks |-> overdue[t] /\ t \notin Expired]
  /\ PushAll(Expired)
  /\ reclaims' = [t \in Tasks |-> reclaims[t] + IF t \in Expired THEN 1 ELSE 0]
  /\ UNCHANGED <<accepting, created, attempt, workerVars>>

\* All leases that ran out, in one call; attempts are not looked at.
ReclaimExpired ==
  /\ Expired # {}
  /\ state' = [t \in Tasks |-> IF t \in Expired THEN "retrying" ELSE state[t]]
  /\ leaseOwner' = [t \in Tasks |-> IF t \in Expired THEN None ELSE leaseOwner[t]]
  /\ overdue' = [t \in Tasks |-> overdue[t] /\ t \notin Expired]
  /\ PushAll(Expired)
  /\ workers' = [w \in DOMAIN workers |->
       [workers[w] EXCEPT
          !.active = AtLeastZero(@ - Cardinality(Expired \cap Held(w)))]]
  /\ reclaims' = [t \in Tasks |-> reclaims[t] + IF t \in Expired THEN 1 ELSE 0]
  /\ UNCHANGED <<accepting, created, attempt, counted>>

Drain ==
  /\ accepting' = FALSE
  /\ workers' = [w \in DOMAIN workers |-> [workers[w] EXCEPT !.draining = TRUE]]
  /\ UNCHANGED <<created, taskVars, counted, reclaims>>

OrchestratorNext ==
  \/ \E k \in Kinds, p \in Priorities, sameInstant \in BOOLEAN :
       Submit(k, p, sameInstant)
  \/ \E w \in Workers :
       \/ \E r \in Registrations : RegisterWorker(w, r)
       \/ \E active \in Reports : Heartbeat(w, active)
       \/ Lease(w)
  \/ \E t \in Tasks, w \in Workers : Begin(t, w) \/ Complete(t, w) \/ Fail(t, w)
  \/ \E t \in Tasks : LeaseRunsOut(t)
  \/ ReclaimExpired
  \/ Drain

OrchestratorSpec == OrchestratorInit /\ [][OrchestratorNext]_orchestratorVars

-----------------------------------------------------------------------------
(* Properties *)

OrchestratorTypeOK ==
  /\ accepting \in BOOLEAN
  /\ submitted \in 0..MaxTasks
  /\ kind \in [Tasks -> Kinds \cup {None}]
  /\ priority \in [Tasks -> Int]
  /\ createdAt \in [Tasks -> Nat]
  /\ state \in [Tasks -> {"new", "queued", "leased", "running", "succeeded",
                          "retrying", "failed"}]
  /\ leaseOwner \in [Tasks -> Workers \cup {None}]
  /\ overdue \in [Tasks -> BOOLEAN]
  /\ attempt \in [Tasks -> Nat]
  /\ entries \in [Tasks -> Nat]
  /\ DOMAIN workers \subseteq Workers
  /\ \A w \in DOMAIN workers : workers[w].active \in Nat
  /\ reclaims \in [Tasks -> Nat]
  /\ counted \in [Workers -> BOOLEAN]

\* A task that waits is in its queue exactly once and a task that does not wait
\* is in none: no lease, failure or reclaim loses a task or has it run twice at
\* a time, in whatever order they meet.
QueuedOnce ==
  \A t \in Tasks :
    entries[t] = IF state[t] \in {"queued", "retrying"} THEN 1 ELSE 0

\* A task that succeeded or failed for good stays so: a late complete, fail or
\* reclaim of a worker that still stands as its owner changes nothing.
TerminalIsFinal ==
  [][\A t \in Tasks :
       state[t] \in {"succeeded", "failed"} => state'[t] = state[t]
    ]_orchestratorVars

\* Of two tasks of one kind and priority the later is not tried before the
\* earlier has been.
OldestFirst ==
  \A t, u \in Tasks :
    /\ kind[t] = kind[u] /\ priority[t] = priority[u]
    /\ createdAt[t] < createdAt[u]
    /\ attempt[u] > 0
    => attempt[t] > 0

\* maxAttempts bounds the attempts of a task, but for those that ended because
\* the lease ran out, which nothing bounds.
AttemptsAreBounded ==
  \A t \in Tasks : attempt[t] <= MaxAttempts + reclaims[t]

\* A worker whose count started from the truth is counted for exactly the tasks
\* it holds, so its capacity is neither exceeded nor lost: each lease is
\* released once, by complete, fail or reclaimExpired.
ActiveIsHeld ==
  \A w \in DOMAIN workers :
    counted[w] => workers[w].active = Cardinality(Held(w))
=============================================================================
