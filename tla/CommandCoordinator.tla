------------------------- MODULE CommandCoordinator -------------------------
(***************************************************************************)
(* sources/CommandCoordinator.cs: commands are dispatched to nodes under    *)
(* leases that expire.                                                      *)
(*                                                                          *)
(* DispatchAsync gives the thread up once, at Task.Yield(), and has changed *)
(* the node and the leases before; other calls run in between.  The class   *)
(* takes no locks, so it is modelled as its callers must run it, with no    *)
(* two calls at the same moment.  A dispatch keeps the node object it       *)
(* chose, which may be another one than the node that has that id later;    *)
(* node objects are therefore told apart from node ids.                     *)
(*                                                                          *)
(* Roles and capabilities are reduced to which ids can run a command, the   *)
(* clock to whether a lease has expired; the journal is left out.           *)
(***************************************************************************)
EXTENDS Integers, FiniteSets

CONSTANTS
  NodeIds,        \* node ids, numbered in their ordinal order
  Objects,        \* NodeState objects
  Commands,       \* command ids
  Capable,        \* Capable[c]: the ids with the role and capabilities of c
  Calls,          \* calls of DispatchAsync that may be under way at a time
  MaxOverflows,   \* bound on the overflows of an expiry time on one object
  None

\* CommandLease: the node, and whether ExpiresAt has passed.
Leases == [nodeId : NodeIds, expired : BOOLEAN]

ASSUME CoordinatorAssumption ==
  /\ NodeIds \subseteq Int
  /\ Capable \in [Commands -> SUBSET NodeIds]
  /\ IsFiniteSet(Calls) /\ IsFiniteSet(Commands)
  /\ MaxOverflows \in Nat
  /\ None \notin Objects \cup Commands \cup NodeIds \cup Leases

VARIABLES
  nodes,        \* _nodes: the object of each id, or None
  status, load, \* of each object
  leases,       \* _leases: None, or the node id and whether it has expired
  command,      \* the command of each call under way, or None
  target,       \* the object that the call chose, or None
  overflows,    \* history: expiry times that overflowed on an object
  reaped,       \* history: how often an object was reaped while it was in use
  lost          \* history: how often a command lost its lease while it ran

callVars == <<command, target>>
coordinatorVars ==
  <<nodes, status, load, leases, callVars, overflows, reaped, lost>>

Present    == {id \in NodeIds : nodes[id] # None}
Leased     == {c \in Commands : leases[c] # None}
UnderWay   == {k \in Calls : command[k] # None}
RunningOn(o) == {k \in UnderWay : target[k] = o}
CallsOf(c)   == {k \in UnderWay : command[k] = c}
InUse      == {nodes[id] : id \in Present} \cup {target[k] : k \in UnderWay}

LessLoad(n) == IF n > 0 THEN n - 1 ELSE 0

\* The two histories count no further than there are calls.
OnceMore(n) == IF n < Cardinality(Calls) THEN n + 1 ELSE n

CoordinatorInit ==
  /\ nodes = [id \in NodeIds |-> None]
  /\ status = [o \in Objects |-> "Ready"]
  /\ load = [o \in Objects |-> 0]
  /\ leases = [c \in Commands |-> None]
  /\ command = [k \in Calls |-> None]
  /\ target = [k \in Calls |-> None]
  /\ overflows = [o \in Objects |-> 0]
  /\ reaped = [o \in Objects |-> 0]
  /\ lost = [c \in Commands |-> 0]

-----------------------------------------------------------------------------
(* AddNode, RemoveNode *)

\* A new object, also when the id has been a node before.
AddNode(id) ==
  /\ id \notin Present
  /\ \E o \in Objects \ InUse :
       /\ nodes' = [nodes EXCEPT ![id] = o]
       /\ status' = [status EXCEPT ![o] = "Ready"]
       /\ load' = [load EXCEPT ![o] = 0]
       /\ overflows' = [overflows EXCEPT ![o] = 0]
  /\ UNCHANGED <<leases, callVars, reaped, lost>>

\* Faulty: the leases on the node stay.
RemoveNode_KeepsLeases(id) ==
  /\ id \in Present
  /\ nodes' = [nodes EXCEPT ![id] = None]
  /\ UNCHANGED <<status, load, leases, callVars, overflows, reaped, lost>>

\* What the commands in cs have lost: the histories of their leases.
Lose(cs) == lost' = [c \in Commands |-> IF c \in cs THEN OnceMore(lost[c])
                                                   ELSE lost[c]]

\* The leases on the node go with it; the dispatches that run on it go on.
RemoveNode(id) ==
  /\ id \in Present
  /\ nodes' = [nodes EXCEPT ![id] = None]
  /\ LET gone == {c \in Leased : leases[c].nodeId = id} IN
       /\ leases' = [c \in Commands |-> IF c \in gone THEN None ELSE leases[c]]
       /\ Lose(gone)
  /\ UNCHANGED <<status, load, callVars, overflows, reaped>>

-----------------------------------------------------------------------------
(* DispatchAsync *)

\* Faulty: nodes that are reserved may be chosen, too.
Eligible_AnyStatus(c) == {id \in Present : id \in Capable[c]}

Eligible(c) ==
  {id \in Present : status[nodes[id]] = "Ready" /\ id \in Capable[c]}

\* The least load first, then the first id.
SelectNode(c) ==
  {id \in Eligible(c) :
     \A other \in Eligible(c) :
       \/ load[nodes[id]] < load[nodes[other]]
       \/ load[nodes[id]] = load[nodes[other]] /\ id <= other}

Reserve(o) ==
  /\ status' = [status EXCEPT ![o] = "Reserved"]
  /\ load' = [load EXCEPT ![o] = @ + 1]

\* Faulty: an id that has a lease already is dispatched again.
Dispatch_Duplicate(k, c) ==
  /\ k \notin UnderWay
  /\ \E id \in SelectNode(c) :
       /\ Reserve(nodes[id])
       /\ leases' = [leases EXCEPT ![c] = [nodeId |-> id, expired |-> FALSE]]
       /\ command' = [command EXCEPT ![k] = c]
       /\ target' = [target EXCEPT ![k] = nodes[id]]
  /\ UNCHANGED <<nodes, overflows, reaped, lost>>

\* What is denied changes nothing: a duplicate id, or no capable node.  A call
\* that is cancelled before its first step takes back all it did, too.
Dispatch(k, c) ==
  /\ k \notin UnderWay
  /\ c \notin Leased
  /\ \E id \in SelectNode(c) :
       /\ Reserve(nodes[id])
       /\ leases' = [leases EXCEPT ![c] = [nodeId |-> id, expired |-> FALSE]]
       /\ command' = [command EXCEPT ![k] = c]
       /\ target' = [target EXCEPT ![k] = nodes[id]]
  /\ UNCHANGED <<nodes, overflows, reaped, lost>>

\* The sum of the time and the ttl may be no DateTimeOffset.  It is computed
\* when the node is reserved already, and before the try block.
DispatchOverflows(c) ==
  /\ c \notin Leased
  /\ \E id \in SelectNode(c) :
       /\ overflows[nodes[id]] < MaxOverflows
       /\ Reserve(nodes[id])
       /\ overflows' = [overflows EXCEPT ![nodes[id]] = @ + 1]
  /\ UNCHANGED <<nodes, leases, callVars, reaped, lost>>

\* The finally block: by the id of the command, whoever's lease that is.
Finally(k) ==
  /\ load' = [load EXCEPT ![target[k]] = LessLoad(@)]
  /\ leases' = [leases EXCEPT ![command[k]] = None]
  /\ command' = [command EXCEPT ![k] = None]
  /\ target' = [target EXCEPT ![k] = None]
  /\ reaped' = [reaped EXCEPT ![target[k]] =
                  IF RunningOn(target[k]) = {k} THEN 0 ELSE @]
  /\ lost' = [lost EXCEPT ![command[k]] =
                IF CallsOf(command[k]) = {k} THEN 0 ELSE @]

Accepted(k) ==
  /\ k \in UnderWay
  /\ status' = [status EXCEPT ![target[k]] = "Ready"]
  /\ Finally(k)
  /\ UNCHANGED <<nodes, overflows>>

\* Faulty: a command that is cancelled leaves its node reserved.
Cancelled_KeepsNode(k) ==
  /\ k \in UnderWay
  /\ Finally(k)
  /\ UNCHANGED <<nodes, status, overflows>>

\* Cancelled during the yield or between two of its actions.
Cancelled(k) ==
  /\ k \in UnderWay
  /\ status' = [status EXCEPT ![target[k]] = "Ready"]
  /\ Finally(k)
  /\ UNCHANGED <<nodes, overflows>>

Resume(k) == Accepted(k) \/ Cancelled(k)

-----------------------------------------------------------------------------
(* The clock and ReapExpiredLeases *)

LeaseExpires(c) ==
  /\ c \in Leased
  /\ ~leases[c].expired
  /\ leases' = [leases EXCEPT ![c].expired = TRUE]
  /\ UNCHANGED <<nodes, status, load, callVars, overflows, reaped, lost>>

Expired == {c \in Leased : leases[c].expired}

ExpiredOn(o) == {c \in Expired : nodes[leases[c].nodeId] = o}

\* Each expired lease gives its node back, though the dispatch goes on.
ReapExpiredLeases ==
  /\ Expired # {}
  /\ leases' = [c \in Commands |-> IF c \in Expired THEN None ELSE leases[c]]
  /\ load' = [o \in Objects |->
                IF load[o] > Cardinality(ExpiredOn(o))
                THEN load[o] - Cardinality(ExpiredOn(o)) ELSE 0]
  /\ status' = [o \in Objects |->
                  IF ExpiredOn(o) # {} THEN "Ready" ELSE status[o]]
  /\ reaped' = [o \in Objects |->
                  IF ExpiredOn(o) # {} THEN OnceMore(reaped[o]) ELSE reaped[o]]
  /\ Lose(Expired)
  /\ UNCHANGED <<nodes, callVars, overflows>>

CoordinatorNext ==
  \/ \E id \in NodeIds : AddNode(id) \/ RemoveNode(id)
  \/ \E c \in Commands :
       \/ \E k \in Calls : Dispatch(k, c)
       \/ DispatchOverflows(c)
       \/ LeaseExpires(c)
  \/ \E k \in Calls : Resume(k)
  \/ ReapExpiredLeases

\* The scheduler runs what was yielded to it.
CoordinatorSpec ==
  /\ CoordinatorInit
  /\ [][CoordinatorNext]_coordinatorVars
  /\ \A k \in Calls : WF_coordinatorVars(Resume(k))

-----------------------------------------------------------------------------
(* Properties *)

CoordinatorTypeOK ==
  /\ nodes \in [NodeIds -> Objects \cup {None}]
  /\ status \in [Objects -> {"Ready", "Reserved"}]
  /\ load \in [Objects -> Nat]
  /\ leases \in [Commands -> Leases \cup {None}]
  /\ command \in [Calls -> Commands \cup {None}]
  /\ target \in [Calls -> Objects \cup {None}]
  /\ overflows \in [Objects -> Nat]
  /\ reaped \in [Objects -> Nat]
  /\ lost \in [Commands -> Nat]

\* The load of a node is never more than what runs on it, nor below zero where
\* the reaper and the dispatch both take it back, and a node on which nothing
\* runs is free, however reaping, removal and cancellation met the dispatches
\* that ran on it.  Only an expiry time that overflows leaves a node reserved
\* for good.
IdleNodesAreFree ==
  \A o \in Objects :
    /\ 0 <= load[o] /\ load[o] <= Cardinality(RunningOn(o)) + overflows[o]
    /\ RunningOn(o) = {} /\ overflows[o] = 0 => status[o] = "Ready"

\* A lease is one of a dispatch under way on the node that it names, and that
\* node is one of the coordinator's: none survives its command or its node.
LeasesAreLive ==
  \A c \in Leased :
    /\ leases[c].nodeId \in Present
    /\ \E k \in UnderWay :
         command[k] = c /\ target[k] = nodes[leases[c].nodeId]

\* A node runs one dispatch at a time, and one more for each time that the reaper
\* gave it back while it was in use.  Each dispatch that ends frees the node
\* under those that still run, but frees room for one only: while the node is
\* free, what runs on it is no more than the reaps account for, however long the
\* chain of dispatches that took it over from one another.
ReapsBoundOverlap ==
  \A o \in Objects :
    /\ Cardinality(RunningOn(o)) <= reaped[o] + 1
    /\ status[o] = "Ready" => Cardinality(RunningOn(o)) <= reaped[o]

\* A command runs once at a time, and once more for each time that it lost its
\* lease while it ran, to the reaper or with its node; it may begin again only
\* in the place of a run that lost its lease.  A run that ends takes away the
\* lease of its id, even if another run holds it, and yet lets in no more.
LossesBoundRuns ==
  \A c \in Commands :
    /\ Cardinality(CallsOf(c)) <= lost[c] + 1
    /\ c \notin Leased => Cardinality(CallsOf(c)) <= lost[c]

\* Every reservation ends, unless an expiry time overflowed.
ReservationsEnd ==
  \A o \in Objects :
    status[o] = "Reserved" ~> status[o] = "Ready" \/ overflows[o] > 0
=============================================================================
