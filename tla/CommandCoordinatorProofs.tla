---------------------- MODULE CommandCoordinatorProofs ----------------------
(***************************************************************************)
(* Leases, loads and reservations of the coordinator agree, for any number  *)
(* of nodes, commands and dispatches under way at a time.                   *)
(***************************************************************************)
EXTENDS CommandCoordinator, FiniteSetTheorems, TLAPS

\* A call under way has chosen an object.
CallsHaveTargets == \A k \in UnderWay : target[k] \in Objects

CoordinatorInv ==
  /\ CoordinatorTypeOK
  /\ CallsHaveTargets
  /\ IdleNodesAreFree
  /\ LeasesAreLive
  /\ ReapsBoundOverlap
  /\ LossesBoundRuns

\* The load and the status of one object, seen against what runs on it.
ObjectOK(o) ==
  /\ 0 <= load[o] /\ load[o] <= Cardinality(RunningOn(o)) + overflows[o]
  /\ RunningOn(o) = {} /\ overflows[o] = 0 => status[o] = "Ready"
  /\ Cardinality(RunningOn(o)) <= reaped[o] + 1
  /\ status[o] = "Ready" => Cardinality(RunningOn(o)) <= reaped[o]

\* The runs of one command, seen against the leases that it lost.
CommandOK(c) ==
  /\ Cardinality(CallsOf(c)) <= lost[c] + 1
  /\ c \notin Leased => Cardinality(CallsOf(c)) <= lost[c]

LEMMA ObjectByObject ==
  (IdleNodesAreFree /\ ReapsBoundOverlap) <=> \A o \in Objects : ObjectOK(o)
BY DEF IdleNodesAreFree, ReapsBoundOverlap, ObjectOK

LEMMA CommandByCommand ==
  LossesBoundRuns <=> \A c \in Commands : CommandOK(c)
BY DEF LossesBoundRuns, CommandOK

\* Calls are finitely many, and so are those among them that run.
LEMMA SomeCallsAreFinite ==
  ASSUME NEW S \in SUBSET Calls
  PROVE  /\ IsFiniteSet(S) /\ Cardinality(S) \in Nat
         /\ Cardinality(Calls) \in Nat /\ Cardinality(S) <= Cardinality(Calls)
BY CoordinatorAssumption, FS_Subset, FS_CardinalityType

LEMMA RunningIsFinite ==
  ASSUME NEW o
  PROVE  /\ IsFiniteSet(RunningOn(o)) /\ Cardinality(RunningOn(o)) \in Nat
         /\ Cardinality(RunningOn(o)) <= Cardinality(Calls)
<1>1. RunningOn(o) \in SUBSET Calls
  BY DEF RunningOn, UnderWay
<1> QED
  BY <1>1, SomeCallsAreFinite

LEMMA CallsOfAreFinite ==
  ASSUME NEW c
  PROVE  /\ IsFiniteSet(CallsOf(c)) /\ Cardinality(CallsOf(c)) \in Nat
         /\ Cardinality(CallsOf(c)) <= Cardinality(Calls)
<1>1. CallsOf(c) \in SUBSET Calls
  BY DEF CallsOf, UnderWay
<1> QED
  BY <1>1, SomeCallsAreFinite

\* Counting no further than the calls is counting far enough.
LEMMA OnceMoreIsEnough ==
  ASSUME NEW n \in Nat
  PROVE  /\ OnceMore(n) \in Nat /\ n <= OnceMore(n)
         /\ \A m \in Nat : m <= n + 1 /\ m <= Cardinality(Calls) => m <= OnceMore(n)
<1>1. Cardinality(Calls) \in Nat
  BY CoordinatorAssumption, FS_CardinalityType
<1> QED
  BY <1>1 DEF OnceMore

\* An object keeps its standing when nothing about it changes.
LEMMA ObjectStays ==
  ASSUME NEW o, ObjectOK(o), RunningOn(o)' = RunningOn(o),
         UNCHANGED <<load[o], status[o], overflows[o], reaped[o]>>
  PROVE  ObjectOK(o)'
BY DEF ObjectOK

\* So does a command.
LEMMA CommandStays ==
  ASSUME NEW c, CommandOK(c), CallsOf(c)' = CallsOf(c),
         (c \in Leased)' <=> c \in Leased, UNCHANGED lost[c]
  PROVE  CommandOK(c)'
BY DEF CommandOK

\* A command that loses its lease may run once more.
LEMMA CommandLoses ==
  ASSUME NEW c, CommandOK(c), CallsOf(c)' = CallsOf(c),
         lost[c] \in Nat, lost'[c] = OnceMore(lost[c])
  PROVE  CommandOK(c)'
<1>1. Cardinality(CallsOf(c)) <= lost'[c]
  BY CallsOfAreFinite, OnceMoreIsEnough DEF CommandOK
<1>2. Cardinality(CallsOf(c)) \in Nat /\ lost'[c] \in Nat
  BY CallsOfAreFinite, OnceMoreIsEnough
<1> QED
  BY <1>1, <1>2 DEF CommandOK

LEMMA NoneIsNoObject == None \notin Objects \cup Commands \cup Leases
BY CoordinatorAssumption

-----------------------------------------------------------------------------
(* AddNode, RemoveNode *)

LEMMA AddNodeStep ==
  ASSUME CoordinatorInv, NEW id \in NodeIds, AddNode(id)
  PROVE  CoordinatorInv'
<1> USE DEF CoordinatorInv
<1>1. PICK o \in Objects \ InUse :
        /\ nodes' = [nodes EXCEPT ![id] = o]
        /\ status' = [status EXCEPT ![o] = "Ready"]
        /\ load' = [load EXCEPT ![o] = 0]
        /\ overflows' = [overflows EXCEPT ![o] = 0]
  BY DEF AddNode
<1>2. id \notin Present /\ UNCHANGED <<leases, command, target, reaped, lost>>
  BY DEF AddNode, callVars
<1>3. CoordinatorTypeOK'
  BY <1>1, <1>2 DEF CoordinatorTypeOK
<1>4. /\ UnderWay' = UnderWay /\ Leased' = Leased
      /\ \A x : RunningOn(x)' = RunningOn(x) /\ CallsOf(x)' = CallsOf(x)
  BY <1>2 DEF UnderWay, Leased, RunningOn, CallsOf
<1>5. CallsHaveTargets'
  BY <1>2, <1>4 DEF CallsHaveTargets
<1>6. RunningOn(o) = {}
  BY <1>1 DEF InUse, RunningOn
<1>7. ASSUME NEW x \in Objects PROVE ObjectOK(x)'
  <2>0. ObjectOK(x)
    BY ObjectByObject
  <2>1. CASE x = o
    <3>1. load'[o] = 0 /\ status'[o] = "Ready" /\ overflows'[o] = 0
      BY <1>1 DEF CoordinatorTypeOK
    <3>2. Cardinality(RunningOn(o)) = 0 /\ reaped'[o] \in Nat
      BY <1>2, <1>6, FS_EmptySet DEF CoordinatorTypeOK
    <3> QED
      BY <1>4, <1>6, <2>1, <3>1, <3>2 DEF ObjectOK
  <2>2. CASE x # o
    <3>1. UNCHANGED <<load[x], status[x], overflows[x], reaped[x]>>
      BY <1>1, <1>2, <2>2 DEF CoordinatorTypeOK
    <3> QED
      BY <1>4, <2>0, <3>1, ObjectStays
  <2> QED
    BY <2>1, <2>2
<1>8. LeasesAreLive'
  <2>1. ASSUME NEW c \in Leased
        PROVE  /\ nodes'[leases[c].nodeId] = nodes[leases[c].nodeId]
               /\ leases[c].nodeId \in Present'
    BY <1>1, <1>2, <2>1, NoneIsNoObject
    DEF LeasesAreLive, Present, CoordinatorTypeOK
  <2> QED
    BY <1>2, <1>4, <2>1 DEF LeasesAreLive
<1>9. (IdleNodesAreFree /\ ReapsBoundOverlap)'
  BY <1>7 DEF IdleNodesAreFree, ReapsBoundOverlap, ObjectOK
<1>10. LossesBoundRuns'
  <2>1. \A x \in Commands : CommandOK(x)'
    BY <1>2, <1>4, CommandByCommand, CommandStays
  <2> QED
    BY <2>1 DEF LossesBoundRuns, CommandOK
<1> QED
  BY <1>3, <1>5, <1>8, <1>9, <1>10

LEMMA RemoveNodeStep ==
  ASSUME CoordinatorInv, NEW id \in NodeIds, RemoveNode(id)
  PROVE  CoordinatorInv'
<1> USE DEF CoordinatorInv
<1> DEFINE gone == {c \in Leased : leases[c].nodeId = id}
<1>1. /\ nodes' = [nodes EXCEPT ![id] = None]
      /\ leases' = [c \in Commands |-> IF c \in gone THEN None ELSE leases[c]]
      /\ lost' = [c \in Commands |-> IF c \in gone THEN OnceMore(lost[c])
                                                   ELSE lost[c]]
      /\ UNCHANGED <<status, load, command, target, overflows, reaped>>
  BY DEF RemoveNode, Lose, callVars
<1>2. CoordinatorTypeOK'
  <2>1. lost' \in [Commands -> Nat]
    BY <1>1, OnceMoreIsEnough DEF CoordinatorTypeOK
  <2>2. leases' \in [Commands -> Leases \cup {None}]
    BY <1>1 DEF CoordinatorTypeOK
  <2> QED
    BY <1>1, <2>1, <2>2 DEF CoordinatorTypeOK
<1>3. UnderWay' = UnderWay /\ \A x : RunningOn(x)' = RunningOn(x) /\ CallsOf(x)' = CallsOf(x)
  BY <1>1 DEF UnderWay, RunningOn, CallsOf
<1>4. CallsHaveTargets'
  BY <1>1, <1>3 DEF CallsHaveTargets
<1>5. ASSUME NEW x \in Objects PROVE ObjectOK(x)'
  BY <1>1, <1>3, ObjectByObject, ObjectStays
<1>6. LeasesAreLive'
  <2>1. ASSUME NEW c \in Leased'
        PROVE  c \in Leased /\ leases'[c] = leases[c] /\ leases[c].nodeId # id
    BY <1>1 DEF Leased
  <2>2. ASSUME NEW c \in Leased, leases[c].nodeId # id
        PROVE  /\ nodes'[leases[c].nodeId] = nodes[leases[c].nodeId]
               /\ leases[c].nodeId \in Present'
    BY <1>1, <2>2 DEF LeasesAreLive, Present, CoordinatorTypeOK
  <2> QED
    BY <1>1, <1>3, <2>1, <2>2 DEF LeasesAreLive
<1>7. (IdleNodesAreFree /\ ReapsBoundOverlap)'
  BY <1>5 DEF IdleNodesAreFree, ReapsBoundOverlap, ObjectOK
<1>8. ASSUME NEW c \in Commands PROVE CommandOK(c)'
  <2>0. CommandOK(c) /\ lost[c] \in Nat
    BY CommandByCommand DEF CoordinatorTypeOK
  <2>1. CASE c \in gone
    BY <1>1, <1>3, <2>0, <2>1, CommandLoses
  <2>2. CASE c \notin gone
    <3>1. ((c \in Leased)' <=> c \in Leased) /\ lost'[c] = lost[c]
      BY <1>1, <2>2 DEF Leased
    <3> QED
      BY <1>3, <2>0, <3>1, CommandStays
  <2> QED
    BY <2>1, <2>2
<1>9. LossesBoundRuns'
  BY <1>8 DEF LossesBoundRuns, CommandOK
<1> QED
  BY <1>2, <1>4, <1>6, <1>7, <1>9

-----------------------------------------------------------------------------
(* DispatchAsync: the start *)

LEMMA SelectedNode ==
  ASSUME CoordinatorTypeOK, NEW c, NEW id \in SelectNode(c)
  PROVE  /\ id \in NodeIds /\ id \in Present
         /\ nodes[id] \in Objects /\ status[nodes[id]] = "Ready"
BY DEF SelectNode, Eligible, Present, CoordinatorTypeOK

LEMMA DispatchStep ==
  ASSUME CoordinatorInv, NEW k \in Calls, NEW c \in Commands, Dispatch(k, c)
  PROVE  CoordinatorInv'
<1> USE DEF CoordinatorInv
<1>1. PICK id \in SelectNode(c) :
        /\ Reserve(nodes[id])
        /\ leases' = [leases EXCEPT ![c] = [nodeId |-> id, expired |-> FALSE]]
        /\ command' = [command EXCEPT ![k] = c]
        /\ target' = [target EXCEPT ![k] = nodes[id]]
  BY DEF Dispatch
<1>2. PICK o \in Objects :
        o = nodes[id] /\ status[o] = "Ready" /\ id \in NodeIds /\ id \in Present
  BY SelectedNode
<1>3. /\ k \notin UnderWay /\ c \notin Leased
      /\ UNCHANGED <<nodes, overflows, reaped, lost>>
      /\ status' = [status EXCEPT ![o] = "Reserved"]
      /\ load' = [load EXCEPT ![o] = @ + 1]
  BY <1>1, <1>2 DEF Dispatch, Reserve
<1>4. CoordinatorTypeOK'
  <2>1. leases' \in [Commands -> Leases \cup {None}]
    BY <1>1, <1>2 DEF CoordinatorTypeOK, Leases
  <2>2. status' \in [Objects -> {"Ready", "Reserved"}]
    BY <1>2, <1>3 DEF CoordinatorTypeOK
  <2>3. load' \in [Objects -> Nat]
    BY <1>2, <1>3 DEF CoordinatorTypeOK
  <2>4. target' \in [Calls -> Objects \cup {None}]
    BY <1>1, <1>2 DEF CoordinatorTypeOK
  <2>5. command' \in [Calls -> Commands \cup {None}]
    BY <1>1 DEF CoordinatorTypeOK
  <2> QED
    BY <1>3, <2>1, <2>2, <2>3, <2>4, <2>5 DEF CoordinatorTypeOK
<1>5. UnderWay' = UnderWay \cup {k}
  BY <1>1, NoneIsNoObject DEF UnderWay, CoordinatorTypeOK
<1>6. /\ target'[k] = o /\ command'[k] = c
      /\ \A j \in UnderWay : target'[j] = target[j] /\ command'[j] = command[j]
  BY <1>1, <1>2, <1>3 DEF UnderWay, CoordinatorTypeOK
<1>7. CallsHaveTargets'
  BY <1>2, <1>5, <1>6 DEF CallsHaveTargets
<1>8. /\ RunningOn(o)' = RunningOn(o) \cup {k}
      /\ \A x : x # o => RunningOn(x)' = RunningOn(x)
  <2>1. ASSUME NEW x
        PROVE  RunningOn(x)' = RunningOn(x) \cup IF x = o THEN {k} ELSE {}
    BY <1>3, <1>5, <1>6 DEF RunningOn
  <2> QED
    BY <2>1
<1>9. Cardinality(RunningOn(o)') = Cardinality(RunningOn(o)) + 1
  <2>1. k \notin RunningOn(o)
    BY <1>3 DEF RunningOn
  <2> QED
    BY <1>8, <2>1, RunningIsFinite, FS_AddElement
<1>10. ASSUME NEW x \in Objects PROVE ObjectOK(x)'
  <2>0. ObjectOK(x)
    BY ObjectByObject
  <2>1. CASE x = o
    <3>1. /\ load[o] \in Nat /\ overflows[o] \in Nat
          /\ load'[o] = load[o] + 1 /\ status'[o] = "Reserved"
          /\ overflows'[o] = overflows[o] /\ reaped'[o] = reaped[o]
      BY <1>2, <1>3 DEF CoordinatorTypeOK
    <3>2. Cardinality(RunningOn(o)') <= reaped'[o] + 1
      BY <1>2, <1>9, <2>0, <2>1, <3>1, RunningIsFinite DEF ObjectOK, CoordinatorTypeOK
    <3>3. 0 <= load'[o] /\ load'[o] <= Cardinality(RunningOn(o)') + overflows'[o]
      BY <1>9, <2>0, <2>1, <3>1, RunningIsFinite DEF ObjectOK
    <3>4. RunningOn(o)' # {}
      BY <1>8
    <3>5. ObjectOK(o)'
      BY <3>1, <3>2, <3>3, <3>4 DEF ObjectOK
    <3> QED
      BY <2>1, <3>5
  <2>2. CASE x # o
    <3>1. UNCHANGED <<load[x], status[x], overflows[x], reaped[x]>>
      BY <1>2, <1>3, <2>2 DEF CoordinatorTypeOK
    <3> QED
      BY <1>8, <2>0, <2>2, <3>1, ObjectStays
  <2> QED
    BY <2>1, <2>2
<1>11. LeasesAreLive'
  <2>1. /\ Leased' = Leased \cup {c}
        /\ leases'[c].nodeId = id
        /\ \A d \in Leased : leases'[d] = leases[d]
    <3>1. [nodeId |-> id, expired |-> FALSE] \in Leases
      BY <1>2 DEF Leases
    <3>2. /\ leases'[c] = [nodeId |-> id, expired |-> FALSE]
          /\ \A d \in Commands : d # c => leases'[d] = leases[d]
      BY <1>1 DEF CoordinatorTypeOK
    <3>3. leases'[c].nodeId = id
      BY <3>2
    <3>4. leases'[c] \in Leases
      BY <3>1, <3>2
    <3>5. leases'[c] # None
      BY <3>4, NoneIsNoObject
    <3> QED
      BY <1>3, <3>2, <3>3, <3>5 DEF Leased
  <2>2. ASSUME NEW d \in Leased
        PROVE  /\ leases[d].nodeId \in Present
               /\ \E j \in UnderWay' :
                    command'[j] = d /\ target'[j] = nodes[leases[d].nodeId]
    BY <1>5, <1>6 DEF LeasesAreLive
  <2>3. Present' = Present
    BY <1>3 DEF Present
  <2> QED
    BY <1>2, <1>3, <1>5, <1>6, <2>1, <2>2, <2>3 DEF LeasesAreLive
<1>12. (IdleNodesAreFree /\ ReapsBoundOverlap)'
  BY <1>10 DEF IdleNodesAreFree, ReapsBoundOverlap, ObjectOK
<1>13. ASSUME NEW d \in Commands PROVE CommandOK(d)'
  <2>0. CommandOK(d) /\ lost[d] \in Nat /\ lost'[d] = lost[d]
    BY <1>3, CommandByCommand DEF CoordinatorTypeOK
  <2>1. CASE d = c
    <3>1. CallsOf(c)' = CallsOf(c) \cup {k} /\ k \notin CallsOf(c)
      BY <1>3, <1>5, <1>6 DEF CallsOf
    <3>2. Cardinality(CallsOf(c)') = Cardinality(CallsOf(c)) + 1
      BY <3>1, CallsOfAreFinite, FS_AddElement
    <3>3. Cardinality(CallsOf(d)') <= lost'[d] + 1
      BY <1>3, <2>0, <2>1, <3>2, CallsOfAreFinite DEF CommandOK
    <3>4. c \in Leased'
      <4>1. [nodeId |-> id, expired |-> FALSE] \in Leases
        BY <1>2 DEF Leases
      <4>2. leases'[c] = [nodeId |-> id, expired |-> FALSE]
        BY <1>1 DEF CoordinatorTypeOK
      <4> QED
        BY <4>1, <4>2, NoneIsNoObject DEF Leased
    <3> QED
      BY <2>1, <3>3, <3>4 DEF CommandOK
  <2>2. CASE d # c
    <3>1. CallsOf(d)' = CallsOf(d)
      BY <1>3, <1>5, <1>6, <2>2 DEF CallsOf
    <3>2. (d \in Leased)' <=> d \in Leased
      BY <1>1, <2>2 DEF Leased, CoordinatorTypeOK
    <3> QED
      BY <2>0, <3>1, <3>2, CommandStays
  <2> QED
    BY <2>1, <2>2
<1>14. LossesBoundRuns'
  BY <1>13 DEF LossesBoundRuns, CommandOK
<1> QED
  BY <1>4, <1>7, <1>11, <1>12, <1>14

LEMMA DispatchOverflowsStep ==
  ASSUME CoordinatorInv, NEW c \in Commands, DispatchOverflows(c)
  PROVE  CoordinatorInv'
<1> USE DEF CoordinatorInv
<1>1. PICK id \in SelectNode(c) :
        /\ Reserve(nodes[id])
        /\ overflows' = [overflows EXCEPT ![nodes[id]] = @ + 1]
  BY DEF DispatchOverflows
<1>2. PICK o \in Objects : o = nodes[id] /\ status[o] = "Ready"
  BY SelectedNode
<1>3. /\ UNCHANGED <<nodes, leases, command, target, reaped, lost>>
      /\ status' = [status EXCEPT ![o] = "Reserved"]
      /\ load' = [load EXCEPT ![o] = @ + 1]
      /\ overflows' = [overflows EXCEPT ![o] = @ + 1]
  BY <1>1, <1>2 DEF DispatchOverflows, Reserve, callVars
<1>4. CoordinatorTypeOK'
  BY <1>2, <1>3 DEF CoordinatorTypeOK
<1>5. UnderWay' = UnderWay /\ \A x : RunningOn(x)' = RunningOn(x)
  BY <1>3 DEF UnderWay, RunningOn
<1>6. CallsHaveTargets' /\ LeasesAreLive' /\ LossesBoundRuns'
  BY <1>3, <1>5
  DEF CallsHaveTargets, LeasesAreLive, Leased, Present, LossesBoundRuns, CallsOf
<1>7. ASSUME NEW x \in Objects PROVE ObjectOK(x)'
  <2>0. ObjectOK(x)
    BY ObjectByObject
  <2>1. CASE x = o
    <3>1. /\ load[o] \in Nat /\ overflows[o] \in Nat
          /\ load'[o] = load[o] + 1 /\ status'[o] = "Reserved"
          /\ overflows'[o] = overflows[o] + 1 /\ reaped'[o] = reaped[o]
      BY <1>2, <1>3 DEF CoordinatorTypeOK
    <3>2. Cardinality(RunningOn(o)) <= reaped'[o] + 1
      BY <2>0, <2>1, <3>1 DEF ObjectOK
    <3>3. load'[o] <= Cardinality(RunningOn(o)) + overflows'[o]
      BY <2>0, <2>1, <3>1, RunningIsFinite DEF ObjectOK
    <3>4. overflows'[o] # 0
      BY <3>1
    <3> QED
      BY <1>5, <2>1, <3>1, <3>2, <3>3, <3>4 DEF ObjectOK
  <2>2. CASE x # o
    <3>1. UNCHANGED <<load[x], status[x], overflows[x], reaped[x]>>
      BY <1>2, <1>3, <2>2 DEF CoordinatorTypeOK
    <3> QED
      BY <1>5, <2>0, <3>1, ObjectStays
  <2> QED
    BY <2>1, <2>2
<1>8. (IdleNodesAreFree /\ ReapsBoundOverlap)'
  BY <1>7 DEF IdleNodesAreFree, ReapsBoundOverlap, ObjectOK
<1> QED
  BY <1>4, <1>6, <1>8

-----------------------------------------------------------------------------
(* DispatchAsync: the end *)

LEMMA ResumeStep ==
  ASSUME CoordinatorInv, NEW k \in Calls, Resume(k)
  PROVE  CoordinatorInv'
<1> USE DEF CoordinatorInv
<1>1. /\ k \in UnderWay /\ Finally(k)
      /\ status' = [status EXCEPT ![target[k]] = "Ready"]
      /\ UNCHANGED <<nodes, overflows>>
  BY DEF Resume, Accepted, Cancelled
<1>2. PICK o \in Objects, c \in Commands : o = target[k] /\ c = command[k]
  BY <1>1 DEF CallsHaveTargets, UnderWay, CoordinatorTypeOK
<1>3. /\ load' = [load EXCEPT ![o] = LessLoad(@)]
      /\ leases' = [leases EXCEPT ![c] = None]
      /\ command' = [command EXCEPT ![k] = None]
      /\ target' = [target EXCEPT ![k] = None]
      /\ status' = [status EXCEPT ![o] = "Ready"]
      /\ reaped' = [reaped EXCEPT ![o] = IF RunningOn(o) = {k} THEN 0 ELSE @]
      /\ lost' = [lost EXCEPT ![c] = IF CallsOf(c) = {k} THEN 0 ELSE @]
  BY <1>1, <1>2 DEF Finally
<1>4. CoordinatorTypeOK'
  <2>1. load' \in [Objects -> Nat]
    BY <1>3 DEF CoordinatorTypeOK, LessLoad
  <2>2. status' \in [Objects -> {"Ready", "Reserved"}]
    BY <1>3 DEF CoordinatorTypeOK
  <2>3. reaped' \in [Objects -> Nat] /\ lost' \in [Commands -> Nat]
    BY <1>3 DEF CoordinatorTypeOK
  <2> QED
    BY <1>1, <1>3, <2>1, <2>2, <2>3 DEF CoordinatorTypeOK
<1>5. /\ UnderWay' = UnderWay \ {k}
      /\ \A j \in UnderWay' : target'[j] = target[j] /\ command'[j] = command[j]
  BY <1>3 DEF UnderWay, CoordinatorTypeOK
<1>6. CallsHaveTargets'
  BY <1>5 DEF CallsHaveTargets
<1>7. RunningOn(o)' = RunningOn(o) \ {k} /\ k \in RunningOn(o)
  BY <1>1, <1>2, <1>5 DEF RunningOn
<1>8. ASSUME NEW x, x # o PROVE RunningOn(x)' = RunningOn(x)
  BY <1>2, <1>5, <1>8 DEF RunningOn
<1>9. Cardinality(RunningOn(o)') = Cardinality(RunningOn(o)) - 1
  BY <1>7, RunningIsFinite, FS_RemoveElement
<1>10. ASSUME NEW x \in Objects PROVE ObjectOK(x)'
  <2>0. ObjectOK(x)
    BY ObjectByObject
  <2>1. CASE x = o
    <3>1. /\ load[o] \in Nat /\ overflows[o] \in Nat
          /\ load'[o] = LessLoad(load[o]) /\ status'[o] = "Ready"
          /\ overflows'[o] = overflows[o]
      BY <1>1, <1>3 DEF CoordinatorTypeOK
    <3>2. IsFiniteSet(RunningOn(o)') /\ Cardinality(RunningOn(o)') \in Nat
      BY <1>7, RunningIsFinite, FS_RemoveElement, FS_CardinalityType
    <3>3. 0 <= load'[o] /\ load'[o] <= Cardinality(RunningOn(o)') + overflows'[o]
      BY <1>9, <2>0, <2>1, <3>1, <3>2, RunningIsFinite DEF ObjectOK, LessLoad
    <3>4. Cardinality(RunningOn(o)') <= reaped'[o] /\ reaped'[o] \in Nat
      <4>1. CASE RunningOn(o) = {k}
        <5>1. Cardinality(RunningOn(o)') = 0
          BY <1>7, <4>1, FS_EmptySet
        <5>2. reaped'[o] = 0
          BY <1>3, <4>1 DEF CoordinatorTypeOK
        <5> QED
          BY <5>1, <5>2
      <4>2. CASE RunningOn(o) # {k}
        <5>1. reaped'[o] = reaped[o] /\ reaped[o] \in Nat
          BY <1>3, <4>2 DEF CoordinatorTypeOK
        <5>2. Cardinality(RunningOn(o)) <= reaped[o] + 1
          BY <2>0, <2>1 DEF ObjectOK
        <5> QED
          BY <1>9, <5>1, <5>2, RunningIsFinite
      <4> QED
        BY <4>1, <4>2
    <3>5. ObjectOK(o)'
      BY <3>1, <3>2, <3>3, <3>4 DEF ObjectOK
    <3> QED
      BY <2>1, <3>5
  <2>2. CASE x # o
    <3>1. UNCHANGED <<load[x], status[x], overflows[x], reaped[x]>>
      BY <1>1, <1>3, <2>2 DEF CoordinatorTypeOK
    <3> QED
      BY <1>8, <2>0, <2>2, <3>1, ObjectStays
  <2> QED
    BY <2>1, <2>2
<1>11. LeasesAreLive'
  <2>1. Leased' = Leased \ {c} /\ \A d \in Leased' : leases'[d] = leases[d]
    BY <1>3 DEF Leased, CoordinatorTypeOK
  <2>2. ASSUME NEW d \in Leased, d # c
        PROVE  /\ leases[d].nodeId \in Present
               /\ \E j \in UnderWay' :
                    command'[j] = d /\ target'[j] = nodes[leases[d].nodeId]
    <3>1. PICK j \in UnderWay :
            command[j] = d /\ target[j] = nodes[leases[d].nodeId]
      BY DEF LeasesAreLive
    <3>2. j # k
      BY <1>2, <2>2, <3>1
    <3> QED
      BY <1>5, <3>1, <3>2 DEF LeasesAreLive
  <2>3. Present' = Present
    BY <1>1 DEF Present
  <2> QED
    BY <1>1, <2>1, <2>2, <2>3 DEF LeasesAreLive
<1>12. (IdleNodesAreFree /\ ReapsBoundOverlap)'
  BY <1>10 DEF IdleNodesAreFree, ReapsBoundOverlap, ObjectOK
<1>13. ASSUME NEW d \in Commands PROVE CommandOK(d)'
  <2>0. CommandOK(d) /\ lost[d] \in Nat
    BY CommandByCommand DEF CoordinatorTypeOK
  <2>1. CASE d = c
    <3>1. CallsOf(c)' = CallsOf(c) \ {k} /\ k \in CallsOf(c)
      BY <1>1, <1>2, <1>5 DEF CallsOf
    <3>2. /\ Cardinality(CallsOf(c)') = Cardinality(CallsOf(c)) - 1
          /\ Cardinality(CallsOf(c)') \in Nat
      BY <3>1, CallsOfAreFinite, FS_RemoveElement, FS_CardinalityType
    <3>3. CASE CallsOf(c) = {k}
      <4>1. Cardinality(CallsOf(c)') = 0
        BY <3>1, <3>3, FS_EmptySet
      <4>2. lost'[c] = 0
        BY <1>3, <3>3 DEF CoordinatorTypeOK
      <4> QED
        BY <2>1, <4>1, <4>2 DEF CommandOK
    <3>4. CASE CallsOf(c) # {k}
      <4>1. lost'[c] = lost[c]
        BY <1>3, <3>4 DEF CoordinatorTypeOK
      <4>2. Cardinality(CallsOf(c)') <= lost'[c]
        BY <2>0, <2>1, <3>2, <4>1, CallsOfAreFinite DEF CommandOK
      <4>3. Cardinality(CallsOf(c)') <= lost'[c] + 1
        BY <2>0, <2>1, <3>2, <4>1, <4>2
      <4> QED
        BY <2>1, <4>2, <4>3 DEF CommandOK
    <3> QED
      BY <3>3, <3>4
  <2>2. CASE d # c
    <3>1. CallsOf(d)' = CallsOf(d)
      BY <1>2, <1>5, <2>2 DEF CallsOf
    <3>2. ((d \in Leased)' <=> d \in Leased) /\ lost'[d] = lost[d]
      BY <1>3, <2>2 DEF Leased, CoordinatorTypeOK
    <3> QED
      BY <2>0, <3>1, <3>2, CommandStays
  <2> QED
    BY <2>1, <2>2
<1>14. LossesBoundRuns'
  BY <1>13 DEF LossesBoundRuns, CommandOK
<1> QED
  BY <1>4, <1>6, <1>11, <1>12, <1>14

-----------------------------------------------------------------------------
(* The clock and ReapExpiredLeases *)

LEMMA LeaseExpiresStep ==
  ASSUME CoordinatorInv, NEW c \in Commands, LeaseExpires(c)
  PROVE  CoordinatorInv'
<1> USE DEF CoordinatorInv
<1>1. /\ c \in Leased
      /\ leases' = [leases EXCEPT ![c].expired = TRUE]
      /\ UNCHANGED <<nodes, status, load, command, target, overflows, reaped, lost>>
  BY DEF LeaseExpires, callVars
<1>2. /\ leases'[c] \in Leases /\ leases'[c].nodeId = leases[c].nodeId
      /\ \A d \in Commands : d # c => leases'[d] = leases[d]
  BY <1>1 DEF CoordinatorTypeOK, Leased, Leases
<1>3. CoordinatorTypeOK'
  <2>1. leases' \in [Commands -> Leases \cup {None}]
    BY <1>1, <1>2 DEF CoordinatorTypeOK
  <2> QED
    BY <1>1, <2>1 DEF CoordinatorTypeOK
<1>4. UnderWay' = UnderWay /\ Present' = Present
  BY <1>1 DEF UnderWay, Present
<1>5. \A x : RunningOn(x)' = RunningOn(x) /\ CallsOf(x)' = CallsOf(x)
  BY <1>1, <1>4 DEF RunningOn, CallsOf
<1>6. CallsHaveTargets'
  BY <1>1, <1>4 DEF CallsHaveTargets
<1>7. Leased' = Leased
  BY <1>1, <1>2, NoneIsNoObject DEF Leased
<1>8. LeasesAreLive'
  <2>1. \A d \in Leased : leases'[d].nodeId = leases[d].nodeId
    BY <1>2 DEF Leased
  <2> QED
    BY <1>1, <1>4, <1>7, <2>1 DEF LeasesAreLive
<1>9. \A x \in Objects : ObjectOK(x)'
  BY <1>1, <1>5, ObjectByObject, ObjectStays
<1>10. (IdleNodesAreFree /\ ReapsBoundOverlap)'
  BY <1>9 DEF IdleNodesAreFree, ReapsBoundOverlap, ObjectOK
<1>11. LossesBoundRuns'
  <2>1. \A x \in Commands : CommandOK(x)'
    BY <1>1, <1>5, <1>7, CommandByCommand, CommandStays
  <2> QED
    BY <2>1 DEF LossesBoundRuns, CommandOK
<1> QED
  BY <1>3, <1>6, <1>8, <1>10, <1>11

LEMMA ReapStep ==
  ASSUME CoordinatorInv, ReapExpiredLeases
  PROVE  CoordinatorInv'
<1> USE DEF CoordinatorInv
<1>1. /\ leases' = [c \in Commands |-> IF c \in Expired THEN None ELSE leases[c]]
      /\ load' = [o \in Objects |->
                    IF load[o] > Cardinality(ExpiredOn(o))
                    THEN load[o] - Cardinality(ExpiredOn(o)) ELSE 0]
      /\ status' = [o \in Objects |->
                      IF ExpiredOn(o) # {} THEN "Ready" ELSE status[o]]
      /\ reaped' = [o \in Objects |->
                      IF ExpiredOn(o) # {} THEN OnceMore(reaped[o]) ELSE reaped[o]]
      /\ lost' = [c \in Commands |-> IF c \in Expired THEN OnceMore(lost[c])
                                                      ELSE lost[c]]
      /\ UNCHANGED <<nodes, command, target, overflows>>
  BY DEF ReapExpiredLeases, Lose, callVars
<1>2. ASSUME NEW o PROVE Cardinality(ExpiredOn(o)) \in Nat
  <2>1. ExpiredOn(o) \subseteq Commands
    BY DEF ExpiredOn, Expired, Leased
  <2> QED
    BY <2>1, CoordinatorAssumption, FS_Subset, FS_CardinalityType
<1>3. CoordinatorTypeOK'
  <2>1. leases' \in [Commands -> Leases \cup {None}]
    BY <1>1 DEF CoordinatorTypeOK
  <2>2. load' \in [Objects -> Nat]
    BY <1>1, <1>2 DEF CoordinatorTypeOK
  <2>3. status' \in [Objects -> {"Ready", "Reserved"}]
    BY <1>1 DEF CoordinatorTypeOK
  <2>4. reaped' \in [Objects -> Nat] /\ lost' \in [Commands -> Nat]
    BY <1>1, OnceMoreIsEnough DEF CoordinatorTypeOK
  <2> QED
    BY <1>1, <2>1, <2>2, <2>3, <2>4 DEF CoordinatorTypeOK
<1>4. UnderWay' = UnderWay /\ Present' = Present
  BY <1>1 DEF UnderWay, Present
<1>5. \A x : RunningOn(x)' = RunningOn(x) /\ CallsOf(x)' = CallsOf(x)
  BY <1>1, <1>4 DEF RunningOn, CallsOf
<1>6. CallsHaveTargets'
  BY <1>1, <1>4 DEF CallsHaveTargets
<1>7. LeasesAreLive'
  <2>1. \A d \in Leased' : d \in Leased /\ leases'[d] = leases[d]
    BY <1>1 DEF Leased
  <2> QED
    BY <1>1, <1>4, <2>1 DEF LeasesAreLive
<1>8. ASSUME NEW o \in Objects PROVE ObjectOK(o)'
  <2>0. /\ ObjectOK(o) /\ load[o] \in Nat
        /\ overflows[o] \in Nat /\ reaped[o] \in Nat
    BY ObjectByObject DEF CoordinatorTypeOK
  <2>1. CASE ExpiredOn(o) = {}
    <3>1. Cardinality(ExpiredOn(o)) = 0
      BY <2>1, FS_EmptySet
    <3>2. load'[o] = load[o]
      BY <1>1, <2>0, <3>1
    <3>3. UNCHANGED <<status[o], overflows[o]>>
      BY <1>1, <2>1
    <3>4. reaped'[o] = reaped[o]
      BY <1>1, <2>1
    <3> QED
      BY <1>5, <2>0, <3>2, <3>3, <3>4 DEF ObjectOK
  <2>2. CASE ExpiredOn(o) # {}
    <3>1. /\ status'[o] = "Ready" /\ overflows'[o] = overflows[o]
          /\ reaped'[o] = OnceMore(reaped[o])
      BY <1>1, <2>2
    <3>2. /\ Cardinality(RunningOn(o)) <= reaped'[o]
          /\ Cardinality(RunningOn(o)) \in Nat /\ reaped'[o] \in Nat
      BY <2>0, <3>1, RunningIsFinite, OnceMoreIsEnough DEF ObjectOK
    <3>3. load'[o] <= load[o]
      BY <1>1, <1>2, <2>0
    <3>4. load'[o] \in Nat
      BY <1>3 DEF CoordinatorTypeOK
    <3>5. 0 <= load'[o] /\ load'[o] <= Cardinality(RunningOn(o)) + overflows[o]
      BY <2>0, <3>3, <3>4, RunningIsFinite DEF ObjectOK
    <3> QED
      BY <1>5, <3>1, <3>5, <3>2 DEF ObjectOK
  <2> QED
    BY <2>1, <2>2
<1>9. (IdleNodesAreFree /\ ReapsBoundOverlap)'
  BY <1>8 DEF IdleNodesAreFree, ReapsBoundOverlap, ObjectOK
<1>10. ASSUME NEW c \in Commands PROVE CommandOK(c)'
  <2>0. CommandOK(c) /\ lost[c] \in Nat
    BY CommandByCommand DEF CoordinatorTypeOK
  <2>1. CASE c \in Expired
    BY <1>1, <1>5, <2>0, <2>1, CommandLoses
  <2>2. CASE c \notin Expired
    <3>1. ((c \in Leased)' <=> c \in Leased) /\ lost'[c] = lost[c]
      BY <1>1, <2>2 DEF Leased
    <3> QED
      BY <1>5, <2>0, <3>1, CommandStays
  <2> QED
    BY <2>1, <2>2
<1>11. LossesBoundRuns'
  BY <1>10 DEF LossesBoundRuns, CommandOK
<1> QED
  BY <1>3, <1>6, <1>7, <1>9, <1>11

-----------------------------------------------------------------------------
(* The theorems *)

LEMMA CoordinatorInitOK == CoordinatorInit => CoordinatorInv
<1> SUFFICES ASSUME CoordinatorInit PROVE CoordinatorInv
  OBVIOUS
<1>1. CoordinatorTypeOK
  BY DEF CoordinatorInit, CoordinatorTypeOK
<1>2. UnderWay = {} /\ Leased = {}
  BY DEF CoordinatorInit, UnderWay, Leased
<1>3. ASSUME NEW o \in Objects PROVE ObjectOK(o)
  <2>1. RunningOn(o) = {}
    BY <1>2 DEF RunningOn
  <2>2. Cardinality(RunningOn(o)) = 0
    BY <2>1, FS_EmptySet
  <2> QED
    BY <2>1, <2>2 DEF CoordinatorInit, ObjectOK
<1>4. ASSUME NEW c \in Commands PROVE CommandOK(c)
  <2>1. Cardinality(CallsOf(c)) = 0
    BY <1>2, FS_EmptySet DEF CallsOf
  <2> QED
    BY <2>1 DEF CoordinatorInit, CommandOK
<1> QED
  BY <1>1, <1>2, <1>3, <1>4, ObjectByObject, CommandByCommand
  DEF CoordinatorInv, CallsHaveTargets, LeasesAreLive

LEMMA CoordinatorStep ==
  CoordinatorInv /\ [CoordinatorNext]_coordinatorVars => CoordinatorInv'
<1> SUFFICES ASSUME CoordinatorInv, [CoordinatorNext]_coordinatorVars
             PROVE  CoordinatorInv'
  OBVIOUS
<1>1. ASSUME NEW id \in NodeIds, AddNode(id) \/ RemoveNode(id)
      PROVE  CoordinatorInv'
  BY <1>1, AddNodeStep, RemoveNodeStep
<1>2. ASSUME NEW c \in Commands, NEW k \in Calls, Dispatch(k, c)
      PROVE  CoordinatorInv'
  BY <1>2, DispatchStep
<1>3. ASSUME NEW c \in Commands, DispatchOverflows(c) \/ LeaseExpires(c)
      PROVE  CoordinatorInv'
  BY <1>3, DispatchOverflowsStep, LeaseExpiresStep
<1>4. ASSUME NEW k \in Calls, Resume(k) PROVE CoordinatorInv'
  BY <1>4, ResumeStep
<1>5. CASE ReapExpiredLeases
  BY <1>5, ReapStep
<1>6. CASE UNCHANGED coordinatorVars
  <2>1. CoordinatorTypeOK'
    BY <1>6 DEF coordinatorVars, callVars, CoordinatorInv, CoordinatorTypeOK
  <2>2. /\ UnderWay' = UnderWay /\ Leased' = Leased /\ Present' = Present
        /\ \A x : RunningOn(x)' = RunningOn(x) /\ CallsOf(x)' = CallsOf(x)
    BY <1>6 DEF coordinatorVars, callVars, RunningOn, CallsOf, UnderWay, Leased,
       Present
  <2>3. IdleNodesAreFree'
    BY <1>6, <2>2 DEF coordinatorVars, CoordinatorInv, IdleNodesAreFree
  <2>4. ReapsBoundOverlap' /\ LossesBoundRuns'
    BY <1>6, <2>2 DEF coordinatorVars, CoordinatorInv, ReapsBoundOverlap,
       LossesBoundRuns
  <2>5. CallsHaveTargets' /\ LeasesAreLive'
    BY <1>6, <2>2 DEF coordinatorVars, callVars, CoordinatorInv, CallsHaveTargets,
       LeasesAreLive
  <2> QED
    BY <2>1, <2>3, <2>4, <2>5 DEF CoordinatorInv
<1> QED
  BY <1>1, <1>2, <1>3, <1>4, <1>5, <1>6 DEF CoordinatorNext

LEMMA CoordinatorInvariant == CoordinatorSpec => []CoordinatorInv
<1> QED
  BY CoordinatorInitOK, CoordinatorStep, PTL DEF CoordinatorSpec

\* The tables of the coordinator keep their types: nodes are objects or absent,
\* loads are never negative, leases name nodes.
THEOREM CoordinatorTypeCorrect == CoordinatorSpec => []CoordinatorTypeOK
<1>1. CoordinatorInv => CoordinatorTypeOK
  BY DEF CoordinatorInv
<1> QED
  BY <1>1, CoordinatorInvariant, PTL

\* A node on which nothing runs is free and bears no load, but for what an
\* overflowing expiry time leaves on it.
THEOREM IdleNodesAreFreeAlways == CoordinatorSpec => []IdleNodesAreFree
<1>1. CoordinatorInv => IdleNodesAreFree
  BY DEF CoordinatorInv
<1> QED
  BY <1>1, CoordinatorInvariant, PTL

\* No lease outlives its command or its node, although finally removes leases
\* by the command's id alone.
THEOREM LeasesAreLiveAlways == CoordinatorSpec => []LeasesAreLive
<1>1. CoordinatorInv => LeasesAreLive
  BY DEF CoordinatorInv
<1> QED
  BY <1>1, CoordinatorInvariant, PTL

\* Dispatches overlap on a node by no more than the reaper gave it back.
THEOREM ReapsAlwaysBoundOverlap == CoordinatorSpec => []ReapsBoundOverlap
<1>1. CoordinatorInv => ReapsBoundOverlap
  BY DEF CoordinatorInv
<1> QED
  BY <1>1, CoordinatorInvariant, PTL

\* A command runs at once by no more than once for each lease that it lost, and
\* once besides, although a run takes away whatever lease its id has.
THEOREM LossesAlwaysBoundRuns == CoordinatorSpec => []LossesBoundRuns
<1>1. CoordinatorInv => LossesBoundRuns
  BY DEF CoordinatorInv
<1> QED
  BY <1>1, CoordinatorInvariant, PTL
=============================================================================
