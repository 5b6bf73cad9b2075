------------------------ MODULE TelemetryEngineProofs ------------------------
(***************************************************************************)
(* Each sample is in one place, and stop leaves nothing behind but what     *)
(* came too late, for any number of threads and samples and any ring.       *)
(***************************************************************************)
EXTENDS TelemetryEngine, DataInduction, FiniteSetTheorems, TLAPS

Places == {"none", "loop", "drain", "deliver", "empty", "tested", "dozing", "asleep", "done"}

\* A worker holds samples exactly while it delivers them.
TypeInv ==
  /\ running_ \in BOOLEAN /\ stopping \in BOOLEAN
  /\ next_sequence_ \in 1..(MaxSamples + 1)
  /\ published_ \in Nat /\ delivered_ \in Nat
  /\ ring \in Seq(Samples) /\ Len(ring) <= Capacity
  /\ publishing \in [Publishers -> Samples \cup {None}]
  /\ uncounted \subseteq Publishers
  /\ at \in [Workers -> Places]
  /\ batch \in [Workers -> Seq(Samples)]
  /\ \A w \in Workers : Len(batch[w]) <= BatchLimit
  /\ \A w \in Workers : batch[w] # <<>> <=> at[w] = "deliver"
  /\ sunk \in [Samples -> Nat]
  /\ overwritten \subseteq Samples /\ late \subseteq Samples

LEMMA InitTypeInv == TelemetryInit => TypeInv
<1>. SUFFICES ASSUME TelemetryInit PROVE TypeInv
  OBVIOUS
<1>1. publishing \in [Publishers -> Samples \cup {None}] /\ at \in [Workers -> Places]
  BY DEF TelemetryInit, Places
<1>2. batch \in [Workers -> Seq(Samples)] /\ sunk \in [Samples -> Nat]
  BY DEF TelemetryInit
<1>3. ring \in Seq(Samples) /\ Len(ring) <= Capacity
  BY TelemetryAssumption DEF TelemetryInit
<1>4. \A w \in Workers : batch[w] = <<>> /\ at[w] = "none"
  BY DEF TelemetryInit
<1>5. \A w \in Workers : Len(batch[w]) <= BatchLimit
  BY <1>4, TelemetryAssumption
<1>6. \A w \in Workers : batch[w] # <<>> <=> at[w] = "deliver"
  BY <1>4
<1>7. next_sequence_ \in 1..(MaxSamples + 1) /\ published_ \in Nat /\ delivered_ \in Nat
  BY TelemetryAssumption DEF TelemetryInit
<1>8. /\ running_ \in BOOLEAN /\ stopping \in BOOLEAN
      /\ uncounted \subseteq Publishers /\ overwritten \subseteq Samples /\ late \subseteq Samples
  BY DEF TelemetryInit
<1>. QED  BY <1>1, <1>2, <1>3, <1>5, <1>6, <1>7, <1>8 DEF TypeInv

-----------------------------------------------------------------------------
(* The types *)

\* A step of the form Go moves one worker.
LEMMA GoTypes ==
  ASSUME TypeInv, NEW w \in Workers, NEW from, NEW to \in Places, Go(w, from, to)
  PROVE  /\ at[w] = from /\ at'[w] = to
         /\ at' \in [Workers -> Places]
         /\ \A v \in Workers \ {w} : at'[v] = at[v]
BY DEF TypeInv, Go

\* A step of a worker that holds nothing before and after it.
LEMMA IdleStepTypes ==
  ASSUME TypeInv, NEW w \in Workers, NEW from \in Places \ {"deliver"},
         NEW to \in Places \ {"deliver"}, Go(w, from, to),
         UNCHANGED <<publishVars, batch, delivered_, sunk, controlVars, ring,
                     overwritten>>
  PROVE  TypeInv'
<1>1. /\ at[w] = from /\ at'[w] = to /\ at' \in [Workers -> Places]
      /\ \A v \in Workers \ {w} : at'[v] = at[v]
  BY GoTypes
<1>2. UNCHANGED <<publishing, next_sequence_, published_, uncounted, batch,
                  delivered_, sunk, running_, stopping, late, ring, overwritten>>
  BY DEF publishVars, controlVars
<1>3. \A v \in Workers : batch'[v] # <<>> <=> at'[v] = "deliver"
  BY <1>1, <1>2 DEF TypeInv
<1>. QED  BY <1>1, <1>2, <1>3 DEF TypeInv

\* What is taken from the ring, and what is left of it.
LEMMA TakenTypes ==
  ASSUME TypeInv
  PROVE  /\ Taken \in Nat /\ Taken <= Len(ring) /\ Taken <= BatchLimit
         /\ ring # <<>> => Taken > 0
         /\ Len(ring) \in Nat
         /\ SubSeq(ring, 1, Taken) \in Seq(Samples)
         /\ Len(SubSeq(ring, 1, Taken)) = Taken
         /\ SubSeq(ring, Taken + 1, Len(ring)) \in Seq(Samples)
         /\ Len(SubSeq(ring, Taken + 1, Len(ring))) = Len(ring) - Taken
<1>1. ring \in Seq(Samples) /\ Len(ring) \in Nat /\ (ring # <<>> => Len(ring) > 0)
  BY DEF TypeInv
<1>2. BatchLimit \in Nat \ {0}
  BY TelemetryAssumption
<1>3. /\ Taken \in Nat /\ Taken <= Len(ring) /\ Taken <= BatchLimit
      /\ ring # <<>> => Taken > 0
  BY <1>1, <1>2 DEF Taken
<1>. QED  BY <1>1, <1>3

LEMMA DrainTypes ==
  ASSUME TypeInv, NEW w \in Workers, Drain(w)
  PROVE  TypeInv'
<1>1. UNCHANGED <<publishing, next_sequence_, published_, uncounted,
                  delivered_, sunk, running_, stopping, late, overwritten>>
  BY DEF Drain, publishVars, controlVars
<1>2. /\ at' \in [Workers -> Places] /\ at[w] = "drain"
      /\ at'[w] = IF ring = <<>> THEN "empty" ELSE "deliver"
      /\ \A v \in Workers \ {w} : at'[v] = at[v]
  BY GoTypes DEF Drain, Places
<1>3. /\ batch' \in [Workers -> Seq(Samples)]
      /\ batch'[w] = SubSeq(ring, 1, Taken)
      /\ \A v \in Workers \ {w} : batch'[v] = batch[v]
  BY TakenTypes DEF Drain, TypeInv
<1>4. batch'[w] # <<>> <=> ring # <<>>
  BY <1>3, TakenTypes DEF TypeInv
<1>5. \A v \in Workers : batch'[v] # <<>> <=> at'[v] = "deliver"
  BY <1>2, <1>3, <1>4 DEF TypeInv
<1>6. \A v \in Workers : Len(batch'[v]) <= BatchLimit
  BY <1>3, TakenTypes DEF TypeInv
<1>7. ring' \in Seq(Samples) /\ Len(ring') <= Capacity
  <2>1. ring' = SubSeq(ring, Taken + 1, Len(ring))
    BY DEF Drain
  <2>2. Len(ring) <= Capacity /\ Capacity \in Nat
    BY TelemetryAssumption DEF TypeInv
  <2>3. ring' \in Seq(Samples) /\ Len(ring') = Len(ring) - Taken
    BY <2>1, TakenTypes
  <2>. QED  BY <2>2, <2>3, TakenTypes
<1>. QED  BY <1>1, <1>2, <1>3, <1>5, <1>6, <1>7 DEF TypeInv

\* The first sample of a batch, and the rest of it.
LEMMA BatchTypes ==
  ASSUME TypeInv, NEW w \in Workers, at[w] = "deliver"
  PROVE  /\ batch[w] \in Seq(Samples) /\ Len(batch[w]) \in Nat /\ Len(batch[w]) > 0
         /\ Head(batch[w]) \in Samples
         /\ Tail(batch[w]) \in Seq(Samples)
         /\ Len(Tail(batch[w])) = Len(batch[w]) - 1
         /\ Tail(batch[w]) = <<>> <=> Len(batch[w]) = 1
<1>1. batch[w] \in Seq(Samples) /\ batch[w] # <<>>
  BY DEF TypeInv
<1>2. /\ Len(batch[w]) \in Nat /\ Len(batch[w]) > 0
      /\ Head(batch[w]) \in Samples /\ Tail(batch[w]) \in Seq(Samples)
      /\ Len(Tail(batch[w])) = Len(batch[w]) - 1
  BY <1>1
<1>3. ASSUME NEW rest \in Seq(Samples) PROVE rest = <<>> <=> Len(rest) = 0
  OBVIOUS
<1>4. Tail(batch[w]) = <<>> <=> Len(Tail(batch[w])) = 0
  BY <1>2, <1>3
<1>5. Len(Tail(batch[w])) = 0 <=> Len(batch[w]) = 1
  BY <1>2
<1>. QED  BY <1>1, <1>2, <1>4, <1>5

LEMMA DeliverTypes ==
  ASSUME TypeInv, NEW w \in Workers, Deliver(w)
  PROVE  TypeInv'
<1>1. UNCHANGED <<publishing, next_sequence_, published_, uncounted,
                  ring, running_, stopping, late, overwritten>>
  BY DEF Deliver, publishVars, controlVars
<1>2. /\ at' \in [Workers -> Places] /\ at[w] = "deliver"
      /\ at'[w] = IF Len(batch[w]) = 1 THEN "loop" ELSE "deliver"
      /\ \A v \in Workers \ {w} : at'[v] = at[v]
  BY GoTypes DEF Deliver, Places
<1>3. /\ batch' \in [Workers -> Seq(Samples)]
      /\ batch'[w] = Tail(batch[w])
      /\ \A v \in Workers \ {w} : batch'[v] = batch[v]
  <2>1. batch \in [Workers -> Seq(Samples)]
    BY DEF TypeInv
  <2>2. batch' = [batch EXCEPT ![w] = Tail(batch[w])]
    BY <2>1 DEF Deliver
  <2>3. Tail(batch[w]) \in Seq(Samples)
    BY <1>2, BatchTypes
  <2>. QED  BY <2>1, <2>2, <2>3
<1>4. \A v \in Workers : batch'[v] # <<>> <=> at'[v] = "deliver"
  BY <1>2, <1>3, BatchTypes DEF TypeInv
<1>5. \A v \in Workers : Len(batch'[v]) <= BatchLimit
  <2>1. BatchLimit \in Nat /\ \A v \in Workers : Len(batch[v]) <= BatchLimit
    BY TelemetryAssumption DEF TypeInv
  <2>2. Len(batch[w]) \in Nat /\ Len(Tail(batch[w])) = Len(batch[w]) - 1
    BY <1>2, BatchTypes
  <2>3. Len(batch'[w]) <= BatchLimit
    BY <1>3, <2>1, <2>2
  <2>. QED  BY <1>3, <2>1, <2>3
<1>6. sunk' \in [Samples -> Nat] /\ delivered_' \in Nat
  BY <1>2, BatchTypes DEF Deliver, TypeInv
<1>. QED  BY <1>1, <1>2, <1>3, <1>4, <1>5, <1>6 DEF TypeInv

LEMMA TakeNumberTypes ==
  ASSUME TypeInv, NEW p \in Publishers, TakeNumber(p)
  PROVE  TypeInv'
<1>1. UNCHANGED <<at, batch, delivered_, sunk, running_, stopping, late, ring,
                  overwritten, published_, uncounted>>
  BY DEF TakeNumber, workerVars, controlVars
<1>2. next_sequence_ \in Samples /\ next_sequence_' \in 1..(MaxSamples + 1)
  BY TelemetryAssumption DEF TakeNumber, TypeInv, Samples
<1>3. publishing' \in [Publishers -> Samples \cup {None}]
  BY <1>2 DEF TakeNumber, TypeInv
<1>. QED  BY <1>1, <1>2, <1>3 DEF TypeInv

\* What a push does to the ring.
LEMMA PushedRing ==
  ASSUME TypeInv, NEW p \in Publishers, Push(p)
  PROVE  /\ publishing[p] \in Samples
         /\ ring' \in Seq(Samples) /\ Len(ring') <= Capacity
         /\ Len(ring) = Capacity =>
              /\ Head(ring) = ring[1] /\ 1 \in DOMAIN ring
              /\ overwritten' = overwritten \cup {ring[1]}
              /\ Len(ring') = Len(ring)
              /\ \A i \in 1..(Len(ring) - 1) : ring'[i] = ring[i + 1]
              /\ ring'[Len(ring)] = publishing[p]
         /\ Len(ring) # Capacity =>
              /\ overwritten' = overwritten
              /\ Len(ring') = Len(ring) + 1
              /\ \A i \in 1..Len(ring) : ring'[i] = ring[i]
              /\ ring'[Len(ring) + 1] = publishing[p]
<1>1. publishing[p] \in Samples
  BY DEF Push, TypeInv
<1>2. ring \in Seq(Samples) /\ Len(ring) \in Nat /\ Len(ring) <= Capacity
  BY DEF TypeInv
<1>3. Capacity \in Nat \ {0}
  BY TelemetryAssumption
<1>4. CASE Len(ring) = Capacity
  <2>1. ring # <<>> /\ Tail(ring) \in Seq(Samples) /\ Len(Tail(ring)) = Len(ring) - 1
    BY <1>2, <1>3, <1>4
  <2>2. \A i \in 1..(Len(ring) - 1) : Tail(ring)[i] = ring[i + 1]
    BY <1>2, <2>1
  <2>3. ring' = Append(Tail(ring), publishing[p]) /\ overwritten' = overwritten \cup {Head(ring)}
    BY <1>4 DEF Push
  <2>4. Head(ring) = ring[1] /\ 1 \in DOMAIN ring
    BY <1>2, <1>3, <1>4
  <2>. QED  BY <1>1, <1>2, <1>3, <1>4, <2>1, <2>2, <2>3, <2>4
<1>5. CASE Len(ring) # Capacity
  <2>1. ring' = Append(ring, publishing[p]) /\ overwritten' = overwritten
    BY <1>5 DEF Push
  <2>. QED  BY <1>1, <1>2, <1>3, <1>5, <2>1
<1>. QED  BY <1>4, <1>5

LEMMA PushTypes ==
  ASSUME TypeInv, NEW p \in Publishers, Push(p)
  PROVE  TypeInv'
<1>1. UNCHANGED <<at, batch, delivered_, sunk, running_, stopping, late,
                  next_sequence_, published_>>
  BY DEF Push, workerVars, controlVars
<1>2. /\ publishing' \in [Publishers -> Samples \cup {None}]
      /\ uncounted' \subseteq Publishers
  BY DEF Push, TypeInv
<1>3. overwritten' \subseteq Samples
  <2>1. 1 \in DOMAIN ring => ring[1] \in Samples
    BY DEF TypeInv
  <2>. QED  BY <2>1, PushedRing DEF TypeInv
<1>4. ring' \in Seq(Samples) /\ Len(ring') <= Capacity
  BY PushedRing
<1>. QED  BY <1>1, <1>2, <1>3, <1>4 DEF TypeInv

LEMMA CountTypes ==
  ASSUME TypeInv, NEW p \in Publishers, CountAndWake(p)
  PROVE  TypeInv'
<1>1. UNCHANGED <<batch, delivered_, sunk, running_, stopping, late, ring,
                  overwritten, publishing, next_sequence_>>
  BY DEF CountAndWake, controlVars
<1>2. published_' \in Nat /\ uncounted' \subseteq Publishers
  BY DEF CountAndWake, TypeInv
<1>3. /\ at' \in [Workers -> Places]
      /\ \A v \in Workers : at'[v] = "deliver" <=> at[v] = "deliver"
  <2>1. CASE UNCHANGED at
    BY <2>1 DEF TypeInv
  <2>2. ASSUME NEW w \in Workers, at[w] = "asleep",
               at' = [at EXCEPT ![w] = "empty"]
        PROVE  /\ at' \in [Workers -> Places]
               /\ \A v \in Workers : at'[v] = "deliver" <=> at[v] = "deliver"
    BY <2>2 DEF TypeInv, Places
  <2>. QED  BY <2>1, <2>2 DEF CountAndWake
<1>. QED  BY <1>1, <1>2, <1>3 DEF TypeInv

\* Workers are there from start to the join of stop.
ControlOK ==
  /\ stopping => ~running_
  /\ ~running_ /\ ~stopping => \A w \in Workers : at[w] = "none"
  /\ running_ \/ stopping => \A w \in Workers : at[w] # "none"
  /\ running_ => \A w \in Workers : at[w] # "done"

LEMMA ControlTypes ==
  ASSUME TypeInv, ControlOK, Start \/ Stop \/ Join
  PROVE  TypeInv'
<1>1. UNCHANGED <<batch, delivered_, sunk, ring, overwritten, publishing,
                  next_sequence_, published_, uncounted>>
  BY DEF Start, Stop, Join, publishVars
<1>2. running_' \in BOOLEAN /\ stopping' \in BOOLEAN
  BY DEF Start, Stop, Join, TypeInv
<1>3. late' \subseteq Samples
  BY DEF Start, Stop, Join, TypeInv
<1>4. /\ at' \in [Workers -> Places]
      /\ \A v \in Workers : at'[v] = "deliver" <=> at[v] = "deliver"
  <2>1. CASE Start
    BY <2>1 DEF Start, ControlOK, Places
  <2>2. CASE Stop
    BY <2>2 DEF Stop, TypeInv, Places
  <2>3. CASE Join
    BY <2>3 DEF Join, Places
  <2>. QED  BY <2>1, <2>2, <2>3
<1>. QED  BY <1>1, <1>2, <1>3, <1>4 DEF TypeInv

\* One step of one worker that takes or hands on nothing.
LEMMA IdleSteps ==
  ASSUME TypeInv, NEW w \in Workers,
         Loop(w) \/ TestRunning(w) \/ TestRing(w) \/ FallAsleep(w) \/ TimeOut(w)
  PROVE  TypeInv'
<1>1. CASE Loop(w)
  BY <1>1, IdleStepTypes DEF Loop, Places
<1>2. CASE TestRunning(w) \/ TestRing(w)
  BY <1>2, IdleStepTypes DEF TestRunning, TestRing, Places
<1>3. CASE FallAsleep(w)
  BY <1>3, IdleStepTypes DEF FallAsleep, Places
<1>4. CASE TimeOut(w)
  BY <1>4, IdleStepTypes DEF TimeOut, Places
<1>. QED  BY <1>1, <1>2, <1>3, <1>4

LEMMA StepKeepsTypes ==
  ASSUME TypeInv, ControlOK, [TelemetryNext]_telemetryVars
  PROVE  TypeInv'
<1>1. ASSUME NEW p \in Publishers, TakeNumber(p) \/ Push(p) \/ CountAndWake(p)
      PROVE  TypeInv'
  BY <1>1, TakeNumberTypes, PushTypes, CountTypes
<1>2. ASSUME NEW w \in Workers, WorkerStep(w)
      PROVE  TypeInv'
  BY <1>2, DrainTypes, DeliverTypes, IdleSteps DEF WorkerStep
<1>3. CASE Start \/ Stop \/ Join
  BY <1>3, ControlTypes
<1>4. CASE UNCHANGED telemetryVars
  BY <1>4 DEF telemetryVars, publishVars, workerVars, controlVars, TypeInv
<1>. QED  BY <1>1, <1>2, <1>3, <1>4 DEF TelemetryNext

-----------------------------------------------------------------------------
(* stop *)

\* The steps of a running worker neither bring it back nor end it, but for the
\* loop's test.
LEMMA WorkerPlaces ==
  ASSUME TypeInv, NEW w \in Workers, WorkerStep(w)
  PROVE  /\ at[w] \notin {"none", "done"} /\ at'[w] # "none"
         /\ at'[w] = "done" => ~running_ /\ ring = <<>> /\ ring' = ring
         /\ \A v \in Workers \ {w} : at'[v] = at[v]
         /\ UNCHANGED controlVars
<1>1. \A v \in Workers \ {w} : at'[v] = at[v]
  BY DEF WorkerStep, Loop, Drain, Deliver, TestRunning, TestRing, FallAsleep, TimeOut, Go, TypeInv
<1>2. UNCHANGED controlVars
  BY DEF WorkerStep, Loop, Drain, Deliver, TestRunning, TestRing, FallAsleep, TimeOut
<1>3. CASE Loop(w)
  BY <1>1, <1>2, <1>3 DEF Loop, Go, TypeInv
<1>4. CASE Drain(w) \/ Deliver(w) \/ TestRunning(w) \/ TestRing(w) \/ FallAsleep(w) \/ TimeOut(w)
  BY <1>1, <1>2, <1>4 DEF Drain, Deliver, TestRunning, TestRing, FallAsleep, TimeOut, Go, TypeInv
<1>. QED  BY <1>1, <1>2, <1>3, <1>4 DEF WorkerStep

LEMMA StepKeepsControl ==
  ASSUME TypeInv, ControlOK, [TelemetryNext]_telemetryVars
  PROVE  ControlOK'
<1>1. ASSUME NEW p \in Publishers, TakeNumber(p) \/ Push(p)
      PROVE  ControlOK'
  BY <1>1 DEF TakeNumber, Push, workerVars, controlVars, ControlOK
<1>2. ASSUME NEW p \in Publishers, CountAndWake(p)
      PROVE  ControlOK'
  <2>1. running_' = running_ /\ stopping' = stopping
    BY <1>2 DEF CountAndWake, controlVars
  <2>2. \A v \in Workers : at'[v] # at[v] => at[v] = "asleep" /\ at'[v] = "empty"
    BY <1>2 DEF CountAndWake, TypeInv
  <2>. QED  BY <2>1, <2>2 DEF ControlOK
<1>3. ASSUME NEW w \in Workers, WorkerStep(w)
      PROVE  ControlOK'
  <2>1. running_' = running_ /\ stopping' = stopping
    BY <1>3, WorkerPlaces DEF controlVars
  <2>. QED  BY <1>3, <2>1, WorkerPlaces DEF ControlOK
<1>4. CASE Start
  BY <1>4 DEF Start, ControlOK
<1>5. CASE Stop
  BY <1>5 DEF Stop, ControlOK, TypeInv
<1>6. CASE Join
  BY <1>6 DEF Join, ControlOK
<1>7. CASE UNCHANGED telemetryVars
  BY <1>7 DEF telemetryVars, workerVars, controlVars, ControlOK
<1>. QED  BY <1>1, <1>2, <1>3, <1>4, <1>5, <1>6, <1>7 DEF TelemetryNext

\* After stop, who still has to push comes late, and a worker ends on an empty
\* ring: from then on only late samples get in.
RingIsLate == \A i \in DOMAIN ring : ring[i] \in late

LateOK ==
  /\ ~running_ => \A p \in Publishers : publishing[p] # None => publishing[p] \in late
  /\ ~running_ /\ (~stopping \/ \E w \in Workers : at[w] = "done") => RingIsLate

LEMMA StepKeepsLate ==
  ASSUME TypeInv, ControlOK, LateOK, [TelemetryNext]_telemetryVars
  PROVE  LateOK'
<1>1. ASSUME NEW p \in Publishers, TakeNumber(p)
      PROVE  LateOK'
  BY <1>1 DEF TakeNumber, controlVars, LateOK
<1>2. ASSUME NEW p \in Publishers, Push(p)
      PROVE  LateOK'
  <2>1. UNCHANGED <<running_, stopping, late, at>>
    BY <1>2 DEF Push, workerVars, controlVars
  <2>2. \A q \in Publishers : publishing'[q] # None => publishing'[q] = publishing[q]
    BY <1>2 DEF Push, TypeInv
  <2>3. ~running_ /\ RingIsLate => RingIsLate'
    <3>. SUFFICES ASSUME ~running_, RingIsLate, NEW i \in DOMAIN ring'
                  PROVE  ring'[i] \in late
      BY <2>1 DEF RingIsLate
    <3>1. publishing[p] \in late
      BY <1>2, <2>1 DEF LateOK, Push
    <3>2. ring \in Seq(Samples) /\ Len(ring) \in Nat /\ ring' \in Seq(Samples)
      BY <1>2, PushedRing DEF TypeInv
    <3>3. CASE Len(ring) = Capacity
      BY <1>2, <3>1, <3>2, <3>3, PushedRing DEF RingIsLate
    <3>4. CASE Len(ring) # Capacity
      BY <1>2, <3>1, <3>2, <3>4, PushedRing DEF RingIsLate
    <3>. QED  BY <3>3, <3>4
  <2>. QED  BY <2>1, <2>2, <2>3 DEF LateOK
<1>3. ASSUME NEW p \in Publishers, CountAndWake(p)
      PROVE  LateOK'
  <2>1. UNCHANGED <<running_, stopping, late, ring, publishing>>
    BY <1>3 DEF CountAndWake, controlVars
  <2>2. \A v \in Workers : at'[v] = "done" => at[v] = "done"
    BY <1>3 DEF CountAndWake, TypeInv
  <2>. QED  BY <2>1, <2>2 DEF LateOK, RingIsLate
<1>4. ASSUME NEW w \in Workers, WorkerStep(w)
      PROVE  LateOK'
  <2>1. UNCHANGED <<running_, stopping, late, publishing>>
    BY <1>4, WorkerPlaces
       DEF controlVars, WorkerStep, Loop, Drain, Deliver, TestRunning, TestRing, FallAsleep,
           TimeOut, publishVars
  <2>2. RingIsLate => RingIsLate'
    <3>1. CASE Drain(w)
      <4>1. /\ ring \in Seq(Samples)
            /\ ring' = SubSeq(ring, Taken + 1, Len(ring))
            /\ Taken \in Nat /\ Taken <= Len(ring)
        BY <3>1, TakenTypes DEF Drain, TypeInv
      <4>2. \A i \in DOMAIN ring' : i + Taken \in DOMAIN ring /\ ring'[i] = ring[i + Taken]
        BY <4>1
      <4>. QED  BY <2>1, <4>2 DEF RingIsLate
    <3>2. CASE UNCHANGED ring
      BY <2>1, <3>2 DEF RingIsLate
    <3>. QED  BY <1>4, <3>1, <3>2
              DEF WorkerStep, Loop, Deliver, TestRunning, TestRing, FallAsleep, TimeOut
  <2>3. ASSUME ~running_, NEW v \in Workers, at'[v] = "done"
        PROVE  RingIsLate'
    <3>1. CASE v = w
      <4>1. ring' = <<>>
        BY <1>4, <2>3, <3>1, WorkerPlaces
      <4>. QED  BY <4>1 DEF RingIsLate
    <3>2. CASE v # w
      BY <1>4, <2>2, <2>3, <3>2, WorkerPlaces DEF LateOK
    <3>. QED  BY <3>1, <3>2
  <2>. QED  BY <2>1, <2>2, <2>3 DEF LateOK
<1>5. CASE Start
  BY <1>5 DEF Start, LateOK
<1>6. CASE Stop
  <2>1. \A w \in Workers : at'[w] # "done"
    BY <1>6 DEF Stop, ControlOK, TypeInv
  <2>2. \A p \in Publishers : publishing'[p] # None => publishing'[p] \in late'
    BY <1>6 DEF Stop, publishVars
  <2>. QED  BY <1>6, <2>1, <2>2 DEF Stop, LateOK
<1>7. CASE Join
  <2>1. RingIsLate
    BY <1>7, TelemetryAssumption DEF Join, LateOK, ControlOK
  <2>. QED  BY <1>7, <2>1 DEF Join, publishVars, LateOK, RingIsLate
<1>8. CASE UNCHANGED telemetryVars
  BY <1>8 DEF telemetryVars, publishVars, workerVars, controlVars, LateOK, RingIsLate
<1>. QED  BY <1>1, <1>2, <1>3, <1>4, <1>5, <1>6, <1>7, <1>8 DEF TelemetryNext

EngineInv == TypeInv /\ ControlOK /\ LateOK

LEMMA EngineInitInv == TelemetryInit => EngineInv
BY InitTypeInv DEF TelemetryInit, EngineInv, ControlOK, LateOK, RingIsLate

LEMMA EngineStepKeepsInv ==
  EngineInv /\ [TelemetryNext]_telemetryVars => EngineInv'
BY StepKeepsTypes, StepKeepsControl, StepKeepsLate DEF EngineInv

\* The invariant of threads and control: workers hold samples exactly while
\* they deliver, and what is in the ring once a worker has ended came late.
THEOREM EngineInvariant == TelemetrySpec => []EngineInv
BY EngineInitInv, EngineStepKeepsInv, PTL DEF TelemetrySpec

\* The ring and the batches keep their limits, and all variables their types.
THEOREM TelemetryTypeCorrect == TelemetrySpec => []TelemetryTypeOK
<1>1. EngineInv => TelemetryTypeOK
  BY DEF EngineInv, TypeInv, TelemetryTypeOK, Places
<1>. QED  BY <1>1, EngineInvariant, PTL

\* When stop has returned nothing is left in the ring but samples of publishers
\* that were between their test of running_ and their push when it was called.
THEOREM StopAlwaysLeavesNothing == TelemetrySpec => []StopLeavesNothing
<1>1. EngineInv => StopLeavesNothing
  BY DEF EngineInv, LateOK, RingIsLate, StopLeavesNothing
<1>. QED  BY <1>1, EngineInvariant, PTL

-----------------------------------------------------------------------------
(* Where the samples are *)

Elements(seq) == {seq[i] : i \in DOMAIN seq}

OnceEach(seq) == \A i, j \in DOMAIN seq : seq[i] = seq[j] => i = j

Pushing == {publishing[p] : p \in Publishers} \ {None}
Ringed  == Elements(ring)
Batched == [w \in Workers |-> Elements(batch[w])]
Sunk    == {s \in Samples : sunk[s] # 0}

\* No number is in two of the sets.
Apart(P, R, B, S, O) ==
  /\ P \cap R = {} /\ P \cap S = {} /\ P \cap O = {}
  /\ R \cap S = {} /\ R \cap O = {} /\ S \cap O = {}
  /\ \A w \in Workers :
       P \cap B[w] = {} /\ R \cap B[w] = {} /\ S \cap B[w] = {} /\ O \cap B[w] = {}
  /\ \A v, w \in Workers : v # w => B[v] \cap B[w] = {}

InOne(s, P, R, B, S, O) ==
  s \in P \/ s \in R \/ (\E w \in Workers : s \in B[w]) \/ s \in S \/ s \in O

\* Nor is it twice in one of them, and what was taken is somewhere.
PlacesInv ==
  /\ Apart(Pushing, Ringed, Batched, Sunk, overwritten)
  /\ \A s \in Samples :
       InOne(s, Pushing, Ringed, Batched, Sunk, overwritten) <=> s < next_sequence_
  /\ \A p, q \in Publishers :
       publishing[p] = publishing[q] /\ publishing[p] # None => p = q
  /\ OnceEach(ring)
  /\ \A w \in Workers : OnceEach(batch[w])
  /\ \A s \in Samples : sunk[s] <= 1

LEMMA InitPlaces == TelemetryInit => PlacesInv
<1>. SUFFICES ASSUME TelemetryInit PROVE PlacesInv
  OBVIOUS
<1>1. Elements(<<>>) = {} /\ OnceEach(<<>>)
  BY DEF Elements, OnceEach
<1>2. Pushing = {} /\ Ringed = {} /\ overwritten = {}
  BY <1>1 DEF TelemetryInit, Pushing, Ringed
<1>3. Sunk = {} /\ \A s \in Samples : sunk[s] <= 1
  BY DEF TelemetryInit, Sunk
<1>4. \A w \in Workers : batch[w] = <<>>
  BY DEF TelemetryInit
<1>5. \A w \in Workers : Batched[w] = {} /\ OnceEach(batch[w])
  BY <1>1, <1>4 DEF Batched
<1>6. \A p, q \in Publishers :
        publishing[p] = publishing[q] /\ publishing[p] # None => p = q
  BY DEF TelemetryInit
<1>7. OnceEach(ring)
  BY <1>1 DEF TelemetryInit
<1>8. \A s \in Samples : ~(s < next_sequence_)
  BY DEF TelemetryInit, Samples
<1>9. Apart(Pushing, Ringed, Batched, Sunk, overwritten)
  BY <1>2, <1>3, <1>5 DEF Apart
<1>10. ASSUME NEW s PROVE ~InOne(s, Pushing, Ringed, Batched, Sunk, overwritten)
  BY <1>2, <1>3, <1>5 DEF InOne
<1>. QED  BY <1>3, <1>5, <1>6, <1>7, <1>8, <1>9, <1>10 DEF PlacesInv

LEMMA TakeNumberPlaces ==
  ASSUME TypeInv, PlacesInv, NEW p \in Publishers, TakeNumber(p)
  PROVE  PlacesInv'
<1>1. UNCHANGED <<Ringed, Batched, Sunk, overwritten, ring, batch, sunk>>
  BY DEF TakeNumber, workerVars, Ringed, Batched, Sunk
<1>2. /\ next_sequence_ \in Samples /\ next_sequence_' = next_sequence_ + 1
      /\ next_sequence_ # None
  BY TelemetryAssumption DEF TakeNumber, TypeInv, Samples
<1>3. /\ publishing'[p] = next_sequence_ /\ publishing[p] = None
      /\ \A q \in Publishers \ {p} : publishing'[q] = publishing[q]
  BY DEF TakeNumber, TypeInv
<1>4. Pushing' = Pushing \cup {next_sequence_}
  BY <1>2, <1>3 DEF Pushing
<1>5. \A s \in Samples : s < next_sequence_' <=> s < next_sequence_ \/ s = next_sequence_
  BY <1>2 DEF Samples
<1>6. ~InOne(next_sequence_, Pushing, Ringed, Batched, Sunk, overwritten)
  BY <1>2 DEF PlacesInv, Samples
<1>7. Apart(Pushing, Ringed, Batched, Sunk, overwritten)'
  <2>1. /\ next_sequence_ \notin Ringed \cup Sunk \cup overwritten
        /\ \A w \in Workers : next_sequence_ \notin Batched[w]
    BY <1>6 DEF InOne
  <2>2. Apart(Pushing \cup {next_sequence_}, Ringed, Batched, Sunk, overwritten)
    BY <2>1 DEF Apart, PlacesInv
  <2>. QED  BY <1>1, <1>4, <2>2 DEF Apart
<1>8. \A s \in Samples :
        InOne(s, Pushing, Ringed, Batched, Sunk, overwritten)' <=> s < next_sequence_'
  BY <1>1, <1>4, <1>5 DEF InOne, PlacesInv
<1>9. \A q \in Publishers : publishing[q] # next_sequence_
  BY <1>2, <1>6 DEF InOne, Pushing
<1>10. \A q, r \in Publishers :
         publishing'[q] = publishing'[r] /\ publishing'[q] # None => q = r
  BY <1>2, <1>3, <1>9 DEF PlacesInv
<1>. QED  BY <1>1, <1>7, <1>8, <1>10 DEF PlacesInv, OnceEach

\* The elements of the sequences that the engine makes of others.
LEMMA AppendElements ==
  ASSUME NEW seq \in Seq(Samples), NEW s
  PROVE  /\ Elements(Append(seq, s)) = Elements(seq) \cup {s}
         /\ OnceEach(seq) /\ s \notin Elements(seq) => OnceEach(Append(seq, s))
<1>1. /\ Len(seq) \in Nat /\ DOMAIN Append(seq, s) = 1..(Len(seq) + 1)
      /\ DOMAIN seq = 1..Len(seq)
      /\ Append(seq, s)[Len(seq) + 1] = s
      /\ \A i \in 1..Len(seq) : Append(seq, s)[i] = seq[i]
  OBVIOUS
<1>. QED  BY <1>1 DEF Elements, OnceEach

LEMMA SubSeqElements ==
  ASSUME NEW seq \in Seq(Samples), NEW n \in 0..Len(seq), OnceEach(seq)
  PROVE  LET front == SubSeq(seq, 1, n)
             rest  == SubSeq(seq, n + 1, Len(seq))
         IN /\ Elements(front) \cup Elements(rest) = Elements(seq)
            /\ Elements(front) \cap Elements(rest) = {}
            /\ OnceEach(front) /\ OnceEach(rest)
<1>1. PICK front, rest : /\ front = SubSeq(seq, 1, n)
                         /\ rest = SubSeq(seq, n + 1, Len(seq))
  OBVIOUS
<1>2. /\ Len(seq) \in Nat /\ n \in Nat /\ n <= Len(seq) /\ DOMAIN seq = 1..Len(seq)
      /\ DOMAIN front = 1..n /\ \A i \in 1..n : front[i] = seq[i]
      /\ DOMAIN rest = 1..(Len(seq) - n)
      /\ \A i \in 1..(Len(seq) - n) : rest[i] = seq[i + n]
  BY <1>1
<1>3. OnceEach(front)
  BY <1>2 DEF OnceEach
<1>4. OnceEach(rest)
  <2>. SUFFICES ASSUME NEW i \in DOMAIN rest, NEW j \in DOMAIN rest, rest[i] = rest[j]
                PROVE  i = j
    BY DEF OnceEach
  <2>1. i + n \in DOMAIN seq /\ j + n \in DOMAIN seq /\ seq[i + n] = seq[j + n]
    BY <1>2
  <2>2. i + n = j + n
    BY <2>1 DEF OnceEach
  <2>. QED  BY <1>2, <2>2
<1>5. Elements(front) \cap Elements(rest) = {}
  <2>. SUFFICES ASSUME NEW i \in DOMAIN front, NEW j \in DOMAIN rest
                PROVE  front[i] # rest[j]
    BY DEF Elements
  <2>1. i \in DOMAIN seq /\ j + n \in DOMAIN seq /\ i # j + n
    BY <1>2
  <2>. QED  BY <1>2, <2>1 DEF OnceEach
<1>6. Elements(front) \cup Elements(rest) = Elements(seq)
  <2>1. ASSUME NEW i \in DOMAIN seq PROVE seq[i] \in Elements(front) \cup Elements(rest)
    <3>1. CASE i <= n
      BY <1>2, <3>1 DEF Elements
    <3>2. CASE i > n
      <4>1. i - n \in DOMAIN rest /\ rest[i - n] = seq[i]
        BY <1>2, <3>2
      <4>. QED  BY <4>1 DEF Elements
    <3>. QED  BY <1>2, <3>1, <3>2
  <2>2. Elements(front) \subseteq Elements(seq)
    BY <1>2 DEF Elements
  <2>3. Elements(rest) \subseteq Elements(seq)
    <3>1. ASSUME NEW j \in DOMAIN rest PROVE rest[j] \in Elements(seq)
      <4>1. j + n \in DOMAIN seq /\ rest[j] = seq[j + n]
        BY <1>2
      <4>. QED  BY <4>1 DEF Elements
    <3>. QED  BY <3>1 DEF Elements
  <2>. QED  BY <2>1, <2>2, <2>3 DEF Elements
<1>. QED  BY <1>1, <1>3, <1>4, <1>5, <1>6

LEMMA TailElements ==
  ASSUME NEW seq \in Seq(Samples), seq # <<>>, OnceEach(seq)
  PROVE  /\ Head(seq) \in Elements(seq)
         /\ Elements(Tail(seq)) = Elements(seq) \ {Head(seq)}
         /\ OnceEach(Tail(seq))
<1>1. /\ Len(seq) \in Nat /\ Len(seq) > 0 /\ DOMAIN seq = 1..Len(seq)
      /\ Head(seq) = seq[1]
      /\ DOMAIN Tail(seq) = 1..(Len(seq) - 1)
      /\ \A i \in 1..(Len(seq) - 1) : Tail(seq)[i] = seq[i + 1]
  OBVIOUS
<1>2. OnceEach(Tail(seq))
  <2>. SUFFICES ASSUME NEW i \in DOMAIN Tail(seq), NEW j \in DOMAIN Tail(seq),
                       Tail(seq)[i] = Tail(seq)[j]
                PROVE  i = j
    BY DEF OnceEach
  <2>1. i + 1 \in DOMAIN seq /\ j + 1 \in DOMAIN seq /\ seq[i + 1] = seq[j + 1]
    BY <1>1
  <2>2. i + 1 = j + 1
    BY <2>1 DEF OnceEach
  <2>. QED  BY <1>1, <2>2
<1>3. Head(seq) \in Elements(seq)
  BY <1>1 DEF Elements
<1>4. ASSUME NEW i \in DOMAIN Tail(seq)
      PROVE  Tail(seq)[i] \in Elements(seq) \ {Head(seq)}
  <2>1. i + 1 \in DOMAIN seq /\ 1 \in DOMAIN seq /\ i + 1 # 1 /\ Tail(seq)[i] = seq[i + 1]
    BY <1>1
  <2>. QED  BY <1>1, <2>1 DEF Elements, OnceEach
<1>5. ASSUME NEW i \in DOMAIN seq, seq[i] # Head(seq)
      PROVE  seq[i] \in Elements(Tail(seq))
  <2>1. i - 1 \in DOMAIN Tail(seq) /\ Tail(seq)[i - 1] = seq[i]
    BY <1>1, <1>5
  <2>. QED  BY <2>1 DEF Elements
<1>. QED  BY <1>2, <1>3, <1>4, <1>5 DEF Elements

LEMMA PushPlaces ==
  ASSUME TypeInv, PlacesInv, NEW p \in Publishers, Push(p)
  PROVE  PlacesInv'
<1>1. UNCHANGED <<Batched, Sunk, batch, sunk, next_sequence_>>
  BY DEF Push, workerVars, controlVars, Batched, Sunk
<1>2. PICK s \in Samples : s = publishing[p] /\ s # None
  BY TelemetryAssumption DEF Push, TypeInv
<1>3. /\ publishing'[p] = None
      /\ \A q \in Publishers \ {p} : publishing'[q] = publishing[q]
  BY DEF Push, TypeInv
<1>4. s \in Pushing /\ \A q \in Publishers \ {p} : publishing[q] # s
  BY <1>2 DEF Pushing, PlacesInv
<1>5. Pushing' = Pushing \ {s}
  BY <1>2, <1>3, <1>4 DEF Pushing
<1>6. \A q, r \in Publishers :
        publishing'[q] = publishing'[r] /\ publishing'[q] # None => q = r
  BY <1>3 DEF PlacesInv
<1>7. ring \in Seq(Samples) /\ OnceEach(ring) /\ s \notin Ringed
  BY <1>4 DEF TypeInv, PlacesInv, Apart
<1>8. CASE Len(ring) = Capacity
  <2>1. ring # <<>>
    BY <1>8, TelemetryAssumption
  <2>2. ring' = Append(Tail(ring), s) /\ overwritten' = overwritten \cup {Head(ring)}
    BY <1>2, <1>8 DEF Push
  <2>3. /\ Head(ring) \in Ringed /\ OnceEach(Tail(ring))
        /\ Elements(Tail(ring)) = Ringed \ {Head(ring)}
        /\ Tail(ring) \in Seq(Samples)
    BY <1>7, <2>1, TailElements DEF Ringed
  <2>4. OnceEach(ring') /\ Ringed' = (Ringed \ {Head(ring)}) \cup {s}
    BY <1>7, <2>2, <2>3, AppendElements DEF Ringed
  <2>5. Apart(Pushing, Ringed, Batched, Sunk, overwritten)'
    BY <1>1, <1>4, <1>5, <2>2, <2>3, <2>4 DEF PlacesInv, Apart
  <2>6. ASSUME NEW t
        PROVE  InOne(t, Pushing, Ringed, Batched, Sunk, overwritten)'
                 <=> InOne(t, Pushing, Ringed, Batched, Sunk, overwritten)
    BY <1>1, <1>4, <1>5, <2>2, <2>3, <2>4 DEF InOne
  <2>. QED  BY <1>1, <1>6, <2>4, <2>5, <2>6 DEF PlacesInv, OnceEach
<1>9. CASE Len(ring) # Capacity
  <2>1. ring' = Append(ring, s) /\ overwritten' = overwritten
    BY <1>2, <1>9 DEF Push
  <2>2. OnceEach(ring') /\ Ringed' = Ringed \cup {s}
    BY <1>7, <2>1, AppendElements DEF Ringed
  <2>3. Apart(Pushing, Ringed, Batched, Sunk, overwritten)'
    BY <1>1, <1>4, <1>5, <2>1, <2>2 DEF PlacesInv, Apart
  <2>4. ASSUME NEW t
        PROVE  InOne(t, Pushing, Ringed, Batched, Sunk, overwritten)'
                 <=> InOne(t, Pushing, Ringed, Batched, Sunk, overwritten)
    BY <1>1, <1>4, <1>5, <2>1, <2>2 DEF InOne
  <2>. QED  BY <1>1, <1>6, <2>2, <2>3, <2>4 DEF PlacesInv, OnceEach
<1>. QED  BY <1>8, <1>9

LEMMA DrainPlaces ==
  ASSUME TypeInv, PlacesInv, NEW w \in Workers, Drain(w)
  PROVE  PlacesInv'
<1>1. UNCHANGED <<Pushing, Sunk, overwritten, publishing, sunk, next_sequence_>>
  BY DEF Drain, publishVars, controlVars, Pushing, Sunk
<1>2. batch[w] = <<>>
  BY DEF Drain, Go, TypeInv
<1>3. Batched[w] = {}
  BY <1>2 DEF Batched, Elements
<1>4. PICK front, rest : /\ front = SubSeq(ring, 1, Taken)
                         /\ rest = SubSeq(ring, Taken + 1, Len(ring))
  OBVIOUS
<1>5. /\ batch'[w] = front /\ ring' = rest
      /\ \A v \in Workers \ {w} : batch'[v] = batch[v]
  BY <1>4 DEF Drain, TypeInv
<1>6. ring \in Seq(Samples) /\ OnceEach(ring) /\ Taken \in 0..Len(ring)
  BY TakenTypes DEF TypeInv, PlacesInv
<1>7. /\ Elements(front) \cup Elements(rest) = Ringed
      /\ Elements(front) \cap Elements(rest) = {}
      /\ OnceEach(front) /\ OnceEach(rest)
  BY <1>4, <1>6, SubSeqElements DEF Ringed
<1>8. Ringed' = Elements(rest)
  BY <1>5 DEF Ringed
<1>9. /\ Batched'[w] = Elements(front)
      /\ \A v \in Workers \ {w} : Batched'[v] = Batched[v]
  BY <1>5 DEF Batched
<1>10. Apart(Pushing, Ringed, Batched, Sunk, overwritten)'
  BY <1>1, <1>7, <1>8, <1>9 DEF Apart, PlacesInv
<1>11. ASSUME NEW t
       PROVE  InOne(t, Pushing, Ringed, Batched, Sunk, overwritten)'
                <=> InOne(t, Pushing, Ringed, Batched, Sunk, overwritten)
  BY <1>1, <1>3, <1>7, <1>8, <1>9 DEF InOne
<1>12. OnceEach(ring') /\ \A v \in Workers : OnceEach(batch'[v])
  BY <1>5, <1>7 DEF PlacesInv
<1>. QED  BY <1>1, <1>10, <1>11, <1>12 DEF PlacesInv, OnceEach

LEMMA DeliverPlaces ==
  ASSUME TypeInv, PlacesInv, NEW w \in Workers, Deliver(w)
  PROVE  PlacesInv'
<1>1. UNCHANGED <<Pushing, Ringed, overwritten, publishing, ring, next_sequence_>>
  BY DEF Deliver, publishVars, controlVars, Pushing, Ringed
<1>2. batch[w] \in Seq(Samples) /\ batch[w] # <<>> /\ OnceEach(batch[w])
  BY DEF Deliver, Go, TypeInv, PlacesInv
<1>3. PICK h \in Samples : h = Head(batch[w])
  BY <1>2
<1>4. /\ batch'[w] = Tail(batch[w])
      /\ \A v \in Workers \ {w} : batch'[v] = batch[v]
  BY DEF Deliver, TypeInv
<1>5. /\ h \in Batched[w] /\ OnceEach(batch'[w])
      /\ Batched'[w] = Batched[w] \ {h}
      /\ \A v \in Workers \ {w} : Batched'[v] = Batched[v]
  BY <1>2, <1>3, <1>4, TailElements DEF Batched
<1>6. /\ sunk'[h] = sunk[h] + 1
      /\ \A s \in Samples \ {h} : sunk'[s] = sunk[s]
  BY <1>3 DEF Deliver, TypeInv
<1>7. h \notin Sunk /\ sunk[h] = 0
  BY <1>5 DEF PlacesInv, Apart, Sunk
<1>8. Sunk' = Sunk \cup {h} /\ \A s \in Samples : sunk'[s] <= 1
  BY <1>6, <1>7 DEF Sunk, PlacesInv
<1>9. Apart(Pushing, Ringed, Batched, Sunk, overwritten)'
  BY <1>1, <1>5, <1>8 DEF Apart, PlacesInv
<1>10. ASSUME NEW t
       PROVE  InOne(t, Pushing, Ringed, Batched, Sunk, overwritten)'
                <=> InOne(t, Pushing, Ringed, Batched, Sunk, overwritten)
  BY <1>1, <1>5, <1>8 DEF InOne
<1>11. \A v \in Workers : OnceEach(batch'[v])
  BY <1>4, <1>5 DEF PlacesInv
<1>. QED  BY <1>1, <1>8, <1>9, <1>10, <1>11 DEF PlacesInv, OnceEach

\* Every other step leaves the samples where they are.
LEMMA OtherPlaces ==
  ASSUME PlacesInv, UNCHANGED <<publishing, ring, batch, sunk, overwritten, next_sequence_>>
  PROVE  PlacesInv'
<1>1. UNCHANGED <<Pushing, Ringed, Batched, Sunk, overwritten>>
  BY DEF Pushing, Ringed, Batched, Sunk
<1>. QED  BY <1>1 DEF PlacesInv, OnceEach, InOne, Apart

LEMMA StepKeepsPlaces ==
  ASSUME TypeInv, PlacesInv, [TelemetryNext]_telemetryVars
  PROVE  PlacesInv'
<1>1. ASSUME NEW p \in Publishers, TakeNumber(p) \/ Push(p) \/ CountAndWake(p)
      PROVE  PlacesInv'
  <2>1. CASE CountAndWake(p)
    BY <2>1, OtherPlaces DEF CountAndWake
  <2>. QED  BY <1>1, <2>1, TakeNumberPlaces, PushPlaces
<1>2. ASSUME NEW w \in Workers, WorkerStep(w)
      PROVE  PlacesInv'
  <2>1. CASE Loop(w) \/ TestRunning(w) \/ TestRing(w) \/ FallAsleep(w) \/ TimeOut(w)
    BY <2>1, OtherPlaces DEF Loop, TestRunning, TestRing, FallAsleep, TimeOut, publishVars
  <2>. QED  BY <1>2, <2>1, DrainPlaces, DeliverPlaces DEF WorkerStep
<1>3. CASE Start \/ Stop \/ Join
  BY <1>3, OtherPlaces DEF Start, Stop, Join, publishVars
<1>4. CASE UNCHANGED telemetryVars
  BY <1>4, OtherPlaces DEF telemetryVars, publishVars, workerVars
<1>. QED  BY <1>1, <1>2, <1>3, <1>4 DEF TelemetryNext

-----------------------------------------------------------------------------
(* Counting the places *)

LEMMA CountNone == ASSUME NEW S, S = {} PROVE Cardinality(S) = 0
BY FS_EmptySet

LEMMA CountOne == ASSUME NEW S, NEW x, S = {x} PROVE Cardinality(S) = 1
BY FS_Singleton

InBatches(s) ==
  {held \in Workers \X (1..BatchLimit) : held[2] \in Positions(s, batch[held[1]])}

\* The places of one sequence that has each element once.
LEMMA PositionsCount ==
  ASSUME NEW seq, OnceEach(seq), NEW s
  PROVE  Cardinality(Positions(s, seq)) = IF s \in Elements(seq) THEN 1 ELSE 0
<1>1. CASE s \notin Elements(seq)
  <2>1. Positions(s, seq) = {}
    BY <1>1 DEF Positions, Elements
  <2>. QED  BY <1>1, <2>1, CountNone
<1>2. CASE s \in Elements(seq)
  <2>1. PICK i \in DOMAIN seq : seq[i] = s
    BY <1>2 DEF Elements
  <2>2. Positions(s, seq) = {i}
    BY <2>1 DEF Positions, OnceEach
  <2>. QED  BY <1>2, <2>2, CountOne
<1>. QED  BY <1>1, <1>2

LEMMA PublishersCount ==
  ASSUME TypeInv, PlacesInv, NEW s \in Samples
  PROVE  Cardinality({p \in Publishers : publishing[p] = s})
           = IF s \in Pushing THEN 1 ELSE 0
<1>1. s # None
  BY TelemetryAssumption DEF Samples
<1>2. CASE s \notin Pushing
  <2>1. {p \in Publishers : publishing[p] = s} = {}
    BY <1>1, <1>2 DEF Pushing
  <2>. QED  BY <1>2, <2>1, CountNone
<1>3. CASE s \in Pushing
  <2>1. PICK p \in Publishers : publishing[p] = s
    BY <1>3 DEF Pushing
  <2>2. {q \in Publishers : publishing[q] = s} = {p}
    BY <1>1, <2>1 DEF PlacesInv
  <2>. QED  BY <1>3, <2>2, CountOne
<1>. QED  BY <1>2, <1>3

LEMMA BatchesCount ==
  ASSUME TypeInv, PlacesInv, NEW s \in Samples
  PROVE  Cardinality(InBatches(s))
           = IF \E w \in Workers : s \in Batched[w] THEN 1 ELSE 0
<1>1. CASE \A w \in Workers : s \notin Batched[w]
  <2>1. \A w \in Workers : Positions(s, batch[w]) = {}
    BY <1>1 DEF Batched, Elements, Positions
  <2>2. InBatches(s) = {}
    BY <2>1 DEF InBatches
  <2>. QED  BY <1>1, <2>2, CountNone
<1>2. ASSUME NEW w \in Workers, s \in Batched[w]
      PROVE  Cardinality(InBatches(s)) = 1
  <2>1. PICK i \in DOMAIN batch[w] : batch[w][i] = s
    BY <1>2 DEF Batched, Elements
  <2>2. i \in 1..BatchLimit
    <3>1. batch[w] \in Seq(Samples) /\ Len(batch[w]) <= BatchLimit /\ BatchLimit \in Nat
      BY TelemetryAssumption DEF TypeInv
    <3>. QED  BY <2>1, <3>1
  <2>3. Positions(s, batch[w]) = {i}
    BY <2>1 DEF Positions, PlacesInv, OnceEach
  <2>4. \A v \in Workers \ {w} : Positions(s, batch[v]) = {}
    <3>1. \A v \in Workers \ {w} : s \notin Batched[v]
      BY <1>2 DEF PlacesInv, Apart
    <3>. QED  BY <3>1 DEF Batched, Elements, Positions
  <2>5. InBatches(s) = {<<w, i>>}
    BY <2>2, <2>3, <2>4 DEF InBatches
  <2>. QED  BY <2>5, CountOne
<1>. QED  BY <1>1, <1>2

LEMMA PlacesCount ==
  ASSUME TypeInv, PlacesInv
  PROVE  EachSampleOnce
<1>. SUFFICES ASSUME NEW s \in 1..(next_sequence_ - 1)
              PROVE  Cardinality({p \in Publishers : publishing[p] = s})
                       + Cardinality(Positions(s, ring)) + Cardinality(InBatches(s))
                       + sunk[s] + Cardinality({s} \cap overwritten) = 1
  BY DEF EachSampleOnce, InBatches
<1>1. s \in Samples /\ s < next_sequence_
  BY TelemetryAssumption DEF TypeInv, Samples
<1>2. InOne(s, Pushing, Ringed, Batched, Sunk, overwritten)
  BY <1>1 DEF PlacesInv
<1>3. Cardinality(Positions(s, ring)) = IF s \in Ringed THEN 1 ELSE 0
  BY PositionsCount DEF PlacesInv, Ringed
<1>4. sunk[s] = IF s \in Sunk THEN 1 ELSE 0
  BY <1>1 DEF Sunk, TypeInv, PlacesInv
<1>5. Cardinality({s} \cap overwritten) = IF s \in overwritten THEN 1 ELSE 0
  <2>1. CASE s \in overwritten
    <3>1. {s} \cap overwritten = {s}
      BY <2>1
    <3>. QED  BY <2>1, <3>1, CountOne
  <2>2. CASE s \notin overwritten
    <3>1. {s} \cap overwritten = {}
      BY <2>2
    <3>. QED  BY <2>2, <3>1, CountNone
  <2>. QED  BY <2>1, <2>2
<1>6. Apart(Pushing, Ringed, Batched, Sunk, overwritten)
  BY DEF PlacesInv
<1>. QED  BY <1>1, <1>2, <1>3, <1>4, <1>5, <1>6, PublishersCount, BatchesCount
          DEF InOne, Apart

PlacedInv == EngineInv /\ PlacesInv

\* Each sample is in one place at every time, for any number of threads, any
\* ring and any limit of the batches.
THEOREM EachSampleAlwaysOnce == TelemetrySpec => []EachSampleOnce
<1>1. TelemetryInit => PlacedInv
  BY EngineInitInv, InitPlaces DEF PlacedInv
<1>2. PlacedInv /\ [TelemetryNext]_telemetryVars => PlacedInv'
  BY EngineStepKeepsInv, StepKeepsPlaces DEF PlacedInv, EngineInv
<1>3. PlacedInv => EachSampleOnce
  BY PlacesCount DEF PlacedInv, EngineInv
<1>. QED  BY <1>1, <1>2, <1>3, PTL DEF TelemetrySpec

-----------------------------------------------------------------------------
(* The two counters: what the workers hold is a sum over them, which changes  *)
(* by what changes in the batch of one of them.                               *)

Held(b) == FoldFunction(LAMBDA seq, sum : Len(seq) + sum, 0, b)

Picks == [U \in SUBSET Workers |-> CHOOSE w \in U : TRUE]

LEMMA PickIsIn == \A U \in SUBSET Workers : U # {} => Picks[U] \in U
BY DEF Picks

IsFold(f, b) ==
  f = [U \in SUBSET Workers |-> IF U = {} THEN 0
                                ELSE Len(b[Picks[U]]) + f[U \ {Picks[U]}]]

\* The fold, and the equation of the function it is made with.
LEMMA HeldIsFold ==
  ASSUME NEW b \in [Workers -> Seq(Samples)]
  PROVE  \E f : IsFold(f, b) /\ Held(b) = f[Workers]
<1>. DEFINE Goes(f) == f = [U \in SUBSET Workers |-> IF U = {} THEN 0
                     ELSE Len(b[CHOOSE w \in U : TRUE]) + f[U \ {CHOOSE w \in U : TRUE}]]
<1>1. Held(b) = (CHOOSE f : Goes(f))[Workers]
  BY DEF Held, FoldFunction, FoldFunctionOnSet, MapThenFoldSet
<1>2. \E f : IsFold(f, b)
  <2>. DEFINE step == [x \in Workers \X Nat |-> Len(b[x[1]]) + x[2]]
  <2>1. step \in [Workers \X Nat -> Nat]
    <3>1. \A w \in Workers : Len(b[w]) \in Nat
      OBVIOUS
    <3>. QED  BY <3>1
  <2>2. PICK f \in [SUBSET Workers -> Nat] :
          Elementwise(f, Workers, 0, Picks, step)
    <3>. HIDE DEF step
    <3>1. 0 \in Nat
      OBVIOUS
    <3>2. IsFiniteSet(Workers)
      BY TelemetryAssumption
    <3>. QED  BY <2>1, <3>1, <3>2, PickIsIn, ElementwiseFunction
  <2>3. ASSUME NEW U \in SUBSET Workers, U # {}
        PROVE  step[<<Picks[U], f[U \ {Picks[U]}]>>] = Len(b[Picks[U]]) + f[U \ {Picks[U]}]
    BY <2>3, PickIsIn
  <2>4. IsFold(f, b)
    <3>. HIDE DEF step
    <3>. QED  BY <2>2, <2>3 DEF IsFold, Elementwise
  <2>. QED  BY <2>4
<1>3. \A f : IsFold(f, b) <=> Goes(f)
  BY DEF IsFold, Picks
<1>4. Goes(CHOOSE f : Goes(f))
  <2>. HIDE DEF Goes
  <2>. QED  BY <1>2, <1>3
<1>. HIDE DEF Goes
<1>. QED  BY <1>1, <1>3, <1>4

FoldsAgree(f, g, b, c, v, U) ==
  /\ f[U] \in Nat /\ g[U] \in Nat
  /\ g[U] = IF v \in U THEN f[U] + Len(c[v]) - Len(b[v]) ELSE f[U]

\* Batches that differ in one worker at most.
LEMMA FoldsCompare ==
  ASSUME NEW b \in [Workers -> Seq(Samples)], NEW c \in [Workers -> Seq(Samples)],
         NEW v \in Workers, \A w \in Workers \ {v} : c[w] = b[w],
         NEW f, IsFold(f, b), NEW g, IsFold(g, c)
  PROVE  \A U \in SUBSET Workers : FoldsAgree(f, g, b, c, v, U)
<1>. DEFINE Agree(U) == FoldsAgree(f, g, b, c, v, U)
            T == {U \in SUBSET Workers : Agree(U)}
<1>. USE DEF FoldsAgree
<1>1. \A w \in Workers : Len(b[w]) \in Nat /\ Len(c[w]) \in Nat
  OBVIOUS
<1>2. f[{}] = 0 /\ g[{}] = 0
  BY DEF IsFold
<1>3. ASSUME NEW U \in SUBSET Workers, \A V \in SUBSET U : V # U => V \in T
      PROVE  U \in T
  <2>1. CASE U = {}
    BY <1>2, <2>1
  <2>2. CASE U # {}
    <3>. DEFINE w == Picks[U]
                V == U \ {w}
    <3>1. w \in U /\ V \in SUBSET U /\ V # U /\ w \in Workers
      BY <2>2, PickIsIn
    <3>2. f[U] = Len(b[w]) + f[V] /\ g[U] = Len(c[w]) + g[V]
      BY <2>2 DEF IsFold
    <3>3. Agree(V)
      BY <1>3, <3>1
    <3>4. w # v => Len(c[w]) = Len(b[w]) /\ (v \in U <=> v \in V)
      BY <3>1
    <3>5. w = v => v \in U /\ v \notin V
      BY <3>1
    <3>6. Len(b[w]) \in Nat /\ Len(c[w]) \in Nat /\ Len(b[v]) \in Nat /\ Len(c[v]) \in Nat
      BY <1>1, <3>1
    <3>7. Agree(U)
      <4>. HIDE DEF w, V
      <4>1. CASE w = v
        BY <3>2, <3>3, <3>5, <3>6, <4>1
      <4>2. CASE w # v
        BY <3>2, <3>3, <3>4, <3>6, <4>2
      <4>. QED  BY <4>1, <4>2
    <3>. QED  BY <3>7
  <2>. QED  BY <2>1, <2>2
<1>4. \A U \in SUBSET Workers : U \in T
  <2>. HIDE DEF T
  <2>1. IsFiniteSet(Workers)
    BY TelemetryAssumption
  <2>. QED  BY <1>3, <2>1, SubsetInduction
<1>. QED  BY <1>4

\* What is held changes by what changes in one batch.
LEMMA HeldChanges ==
  ASSUME NEW b \in [Workers -> Seq(Samples)], NEW c \in [Workers -> Seq(Samples)],
         NEW v \in Workers, \A w \in Workers \ {v} : c[w] = b[w]
  PROVE  Held(b) \in Nat /\ Held(c) = Held(b) + Len(c[v]) - Len(b[v])
<1>1. PICK f : IsFold(f, b) /\ Held(b) = f[Workers]
  BY HeldIsFold
<1>2. PICK g : IsFold(g, c) /\ Held(c) = g[Workers]
  BY HeldIsFold
<1>3. \A U \in SUBSET Workers : FoldsAgree(f, g, b, c, v, U)
  BY <1>1, <1>2, FoldsCompare
<1>4. FoldsAgree(f, g, b, c, v, Workers)
  BY <1>3
<1>. QED  BY <1>1, <1>2, <1>4 DEF FoldsAgree

LEMMA NothingHeld ==
  ASSUME NEW b \in [Workers -> Seq(Samples)], \A w \in Workers : b[w] = <<>>
  PROVE  Held(b) = 0
<1>1. PICK f : IsFold(f, b) /\ Held(b) = f[Workers]
  BY HeldIsFold
<1>. DEFINE T == {U \in SUBSET Workers : f[U] = 0}
<1>2. ASSUME NEW U \in SUBSET Workers, \A V \in SUBSET U : V # U => V \in T
      PROVE  U \in T
  <2>1. CASE U = {}
    BY <1>1, <2>1 DEF IsFold
  <2>2. CASE U # {}
    <3>1. Picks[U] \in U /\ Picks[U] \in Workers
      BY <2>2, PickIsIn
    <3>2. f[U] = Len(b[Picks[U]]) + f[U \ {Picks[U]}]
      BY <1>1, <2>2 DEF IsFold
    <3>3. Len(b[Picks[U]]) = 0
      BY <3>1
    <3>4. f[U \ {Picks[U]}] = 0
      BY <1>2, <3>1
    <3>. QED  BY <3>2, <3>3, <3>4
  <2>. QED  BY <2>1, <2>2
<1>3. \A U \in SUBSET Workers : U \in T
  <2>. HIDE DEF T
  <2>1. IsFiniteSet(Workers)
    BY TelemetryAssumption
  <2>. QED  BY <1>2, <2>1, SubsetInduction
<1>. QED  BY <1>1, <1>3

\* What was pushed was delivered, or is in the ring, overwritten or held.
Balanced(counted, pushed, delivered, inRing, gone, held) ==
  counted + pushed = delivered + inRing + gone + held

\* A publisher that still has to count has nothing to push.
CountsOK ==
  /\ \A p \in uncounted : publishing[p] = None
  /\ Balanced(published_, Cardinality(uncounted), delivered_, Len(ring),
              Cardinality(overwritten), Held(batch))

LEMMA CountsAgree == CountsOK => CountersAgree
BY DEF CountsOK, CountersAgree, Held, Balanced

\* The numbers that are added.
LEMMA CountTerms ==
  ASSUME TypeInv
  PROVE  /\ published_ \in Nat /\ delivered_ \in Nat /\ Len(ring) \in Nat
         /\ IsFiniteSet(uncounted) /\ Cardinality(uncounted) \in Nat
         /\ IsFiniteSet(overwritten) /\ Cardinality(overwritten) \in Nat
         /\ Held(batch) \in Nat
         /\ \A w \in Workers : Len(batch[w]) \in Nat
<1>1. IsFiniteSet(uncounted) /\ Cardinality(uncounted) \in Nat
  <2>1. uncounted \in SUBSET Publishers /\ IsFiniteSet(Publishers)
    BY TelemetryAssumption DEF TypeInv
  <2>. QED  BY <2>1, FS_Subset, FS_CardinalityType
<1>2. IsFiniteSet(overwritten) /\ Cardinality(overwritten) \in Nat
  <2>1. overwritten \in SUBSET Samples /\ IsFiniteSet(Samples)
    BY TelemetryAssumption, FS_Interval DEF TypeInv, Samples
  <2>. QED  BY <2>1, FS_Subset, FS_CardinalityType
<1>3. batch \in [Workers -> Seq(Samples)]
  BY DEF TypeInv
<1>4. Held(batch) \in Nat
  <2>1. PICK w \in Workers : TRUE
    BY TelemetryAssumption
  <2>. QED  BY <1>3, HeldChanges
<1>5. published_ \in Nat /\ delivered_ \in Nat /\ ring \in Seq(Samples)
  BY DEF TypeInv
<1>. QED  BY <1>1, <1>2, <1>3, <1>4, <1>5

LEMMA OneMore ==
  ASSUME NEW a \in Nat, NEW b \in Nat, NEW c \in Nat, NEW d \in Nat, NEW e \in Nat,
         NEW f \in Nat, Balanced(a, b, c, d, e, f)
  PROVE  Balanced(a, b + 1, c, d + 1, e, f) /\ Balanced(a, b + 1, c, d, e + 1, f)
BY DEF Balanced

LEMMA PushCounts ==
  ASSUME TypeInv, PlacesInv, CountsOK, NEW p \in Publishers, Push(p)
  PROVE  CountsOK'
<1>1. published_' = published_ /\ delivered_' = delivered_ /\ Held(batch') = Held(batch)
  BY DEF Push, workerVars
<1>2. /\ p \notin uncounted /\ uncounted' = uncounted \cup {p}
      /\ \A q \in uncounted' : publishing'[q] = None
  BY DEF Push, CountsOK, TypeInv
<1>3. Cardinality(uncounted') = Cardinality(uncounted) + 1
  BY <1>2, CountTerms, FS_AddElement
<1>4. ring \in Seq(Samples) /\ publishing[p] \in Samples
  BY DEF TypeInv, Push
<1>5. \/ Len(ring') = Len(ring) + 1 /\ Cardinality(overwritten') = Cardinality(overwritten)
      \/ Len(ring') = Len(ring) /\ Cardinality(overwritten') = Cardinality(overwritten) + 1
  <2>1. CASE Len(ring) # Capacity
    <3>1. ring' = Append(ring, publishing[p]) /\ overwritten' = overwritten
      BY <2>1 DEF Push
    <3>2. Len(ring') = Len(ring) + 1
      BY <1>4, <3>1
    <3>. QED  BY <3>1, <3>2
  <2>2. CASE Len(ring) = Capacity
    <3>1. Len(ring) > 0 /\ ring # <<>>
      BY <1>4, <2>2, TelemetryAssumption
    <3>2. Len(Tail(ring)) = Len(ring) - 1 /\ Tail(ring) \in Seq(Samples)
      BY <1>4, <3>1
    <3>3. Len(ring') = Len(ring)
      BY <1>4, <2>2, <3>2, CountTerms DEF Push
    <3>4. Head(ring) \in Ringed
      BY <1>4, <3>1 DEF Ringed, Elements
    <3>5. Head(ring) \notin overwritten /\ overwritten' = overwritten \cup {Head(ring)}
      BY <2>2, <3>4 DEF PlacesInv, Apart, Push
    <3>6. Cardinality(overwritten') = Cardinality(overwritten) + 1
      BY <3>5, CountTerms, FS_AddElement
    <3>. QED  BY <3>3, <3>6
  <2>. QED  BY <2>1, <2>2
<1>6. Balanced(published_, Cardinality(uncounted), delivered_, Len(ring),
               Cardinality(overwritten), Held(batch))
  BY DEF CountsOK
<1>7. /\ Balanced(published_, Cardinality(uncounted) + 1, delivered_, Len(ring) + 1,
                  Cardinality(overwritten), Held(batch))
      /\ Balanced(published_, Cardinality(uncounted) + 1, delivered_, Len(ring),
                  Cardinality(overwritten) + 1, Held(batch))
  BY <1>6, CountTerms, OneMore
<1>8. Balanced(published_', Cardinality(uncounted'), delivered_', Len(ring'),
               Cardinality(overwritten'), Held(batch'))
  BY <1>1, <1>3, <1>5, <1>7
<1>. QED  BY <1>2, <1>8 DEF CountsOK

LEMMA CountAndWakeCounts ==
  ASSUME TypeInv, CountsOK, NEW p \in Publishers, CountAndWake(p)
  PROVE  CountsOK'
<1>1. UNCHANGED <<publishing, delivered_, batch, ring, overwritten>>
  BY DEF CountAndWake
<1>2. p \in uncounted /\ uncounted' = uncounted \ {p} /\ published_' = published_ + 1
  BY DEF CountAndWake
<1>3. Cardinality(uncounted') = Cardinality(uncounted) - 1
  BY <1>2, CountTerms, FS_RemoveElement
<1>4. Held(batch') = Held(batch)
  BY <1>1
<1>. QED  BY <1>1, <1>2, <1>3, <1>4, CountTerms DEF CountsOK, Balanced

\* What leaves the ring is in a batch that was empty.
LEMMA DrainCounts ==
  ASSUME TypeInv, CountsOK, NEW w \in Workers, Drain(w)
  PROVE  CountsOK'
<1>1. UNCHANGED <<publishing, uncounted, published_, delivered_, overwritten>>
  BY DEF Drain, publishVars
<1>2. /\ batch \in [Workers -> Seq(Samples)] /\ batch' \in [Workers -> Seq(Samples)]
      /\ \A v \in Workers \ {w} : batch'[v] = batch[v]
      /\ batch'[w] = SubSeq(ring, 1, Taken)
  BY TakenTypes DEF Drain, TypeInv
<1>3. batch[w] = <<>>
  BY DEF Drain, Go, TypeInv
<1>4. Held(batch') = Held(batch) + Len(batch'[w]) - Len(batch[w])
  BY <1>2, HeldChanges
<1>5. Len(batch'[w]) = Taken /\ Len(batch[w]) = 0 /\ Taken \in Nat
  BY <1>2, <1>3, TakenTypes
<1>6. Len(ring') = Len(ring) - Taken
  BY TakenTypes DEF Drain
<1>. QED  BY <1>1, <1>4, <1>5, <1>6, CountTerms DEF CountsOK, Balanced

LEMMA DeliverCounts ==
  ASSUME TypeInv, CountsOK, NEW w \in Workers, Deliver(w)
  PROVE  CountsOK'
<1>1. UNCHANGED <<publishing, uncounted, published_, ring, overwritten>>
  BY DEF Deliver, publishVars
<1>2. delivered_' = delivered_ + 1 /\ at[w] = "deliver"
  BY DEF Deliver, Go
<1>3. /\ batch \in [Workers -> Seq(Samples)] /\ batch' \in [Workers -> Seq(Samples)]
      /\ \A v \in Workers \ {w} : batch'[v] = batch[v]
      /\ batch'[w] = Tail(batch[w])
  BY <1>2, BatchTypes DEF Deliver, TypeInv
<1>4. Held(batch') = Held(batch) + Len(batch'[w]) - Len(batch[w])
  BY <1>3, HeldChanges
<1>5. Len(batch'[w]) = Len(batch[w]) - 1
  BY <1>2, <1>3, BatchTypes
<1>6. published_' + Cardinality(uncounted')
       = delivered_' + Len(ring') + Cardinality(overwritten') + Held(batch')
  <2>1. published_ + Cardinality(uncounted)
          = delivered_ + Len(ring) + Cardinality(overwritten) + Held(batch)
    BY DEF CountsOK, Balanced
  <2>2. Len(batch[w]) \in Nat
    BY CountTerms
  <2>3. /\ published_' = published_ /\ delivered_' = delivered_ + 1
        /\ Cardinality(uncounted') = Cardinality(uncounted) /\ Len(ring') = Len(ring)
        /\ Cardinality(overwritten') = Cardinality(overwritten)
    BY <1>1, <1>2
  <2>4. /\ published_ \in Nat /\ delivered_ \in Nat /\ Len(ring) \in Nat
        /\ Cardinality(uncounted) \in Nat /\ Cardinality(overwritten) \in Nat
        /\ Held(batch) \in Nat
    BY CountTerms
  <2>. QED  BY <1>4, <1>5, <2>1, <2>2, <2>3, <2>4
<1>. QED  BY <1>1, <1>6 DEF CountsOK, Balanced

LEMMA InitCounts == TelemetryInit => CountsOK
<1>. SUFFICES ASSUME TelemetryInit PROVE CountsOK
  OBVIOUS
<1>1. batch \in [Workers -> Seq(Samples)] /\ \A w \in Workers : batch[w] = <<>>
  BY DEF TelemetryInit
<1>2. Held(batch) = 0
  BY <1>1, NothingHeld
<1>3. Cardinality(uncounted) = 0 /\ Cardinality(overwritten) = 0 /\ Len(ring) = 0
  BY FS_EmptySet DEF TelemetryInit
<1>. QED  BY <1>2, <1>3 DEF CountsOK, TelemetryInit, Balanced

LEMMA StepKeepsCounts ==
  ASSUME TypeInv, PlacesInv, CountsOK, [TelemetryNext]_telemetryVars
  PROVE  CountsOK'
<1>1. ASSUME NEW p \in Publishers, TakeNumber(p) PROVE CountsOK'
  <2>1. UNCHANGED <<uncounted, published_, delivered_, ring, overwritten, batch>>
    BY <1>1 DEF TakeNumber, workerVars
  <2>2. \A q \in uncounted : publishing'[q] = None
    BY <1>1 DEF TakeNumber, CountsOK, TypeInv
  <2>. QED  BY <2>1, <2>2 DEF CountsOK
<1>2. ASSUME NEW p \in Publishers, Push(p) PROVE CountsOK'
  BY <1>2, PushCounts
<1>3. ASSUME NEW p \in Publishers, CountAndWake(p) PROVE CountsOK'
  BY <1>3, CountAndWakeCounts
<1>4. ASSUME NEW w \in Workers, WorkerStep(w) PROVE CountsOK'
  <2>1. CASE Drain(w)
    BY <2>1, DrainCounts
  <2>2. CASE Deliver(w)
    BY <2>2, DeliverCounts
  <2>3. CASE Loop(w) \/ TestRunning(w) \/ TestRing(w) \/ FallAsleep(w) \/ TimeOut(w)
    BY <2>3 DEF Loop, TestRunning, TestRing, FallAsleep, TimeOut, publishVars, CountsOK
  <2>. QED  BY <1>4, <2>1, <2>2, <2>3 DEF WorkerStep
<1>5. CASE Start \/ Stop \/ Join
  BY <1>5 DEF Start, Stop, Join, publishVars, CountsOK
<1>6. CASE UNCHANGED telemetryVars
  BY <1>6 DEF telemetryVars, publishVars, workerVars, CountsOK
<1>. QED  BY <1>1, <1>2, <1>3, <1>4, <1>5, <1>6 DEF TelemetryNext

\* The counters of published and delivered samples differ by what the engine
\* holds and has overwritten, at every time, for any number of threads.
THEOREM CountersAlwaysAgree == TelemetrySpec => []CountersAgree
<1>1. TelemetryInit => PlacedInv /\ CountsOK
  BY EngineInitInv, InitPlaces, InitCounts DEF PlacedInv
<1>2. PlacedInv /\ CountsOK /\ [TelemetryNext]_telemetryVars => (PlacedInv /\ CountsOK)'
  BY EngineStepKeepsInv, StepKeepsPlaces, StepKeepsCounts DEF PlacedInv, EngineInv
<1>3. CountsOK => CountersAgree
  BY CountsAgree
<1>. QED  BY <1>1, <1>2, <1>3, PTL DEF TelemetrySpec
=============================================================================
