-------------------------- MODULE TelemetryEngine --------------------------
(***************************************************************************)
(* sources/telemetry-engine.cpp: threads publish samples into a ring of     *)
(* bounded size, and workers drain it into a sink until they are stopped.   *)
(*                                                                          *)
(* A sample is its sequence number.  start and stop are called by one       *)
(* thread, publish by any.  Each step below takes a lock or touches an      *)
(* atomic variable once, but for four that join two accesses: the test of   *)
(* running_ with the taking of a number, the count with the wake-up, stop's *)
(* exchange with its wake-up, and the condition of the loop, which reads    *)
(* the ring only when running_ is false and will stay so until the worker   *)
(* has ended.  A spurious wake-up is no more than an early time-out.        *)
(* Left out: the relaxed order of the atomic loads, which lets a thread     *)
(* see a stop later than it happened, and a ring of capacity 0, which       *)
(* refuses every sample.                                                    *)
(***************************************************************************)
EXTENDS Integers, Sequences, FiniteSets, SequencesExt

CONSTANTS
  Publishers,   \* threads that publish
  Workers,      \* the worker threads, worker_count of them
  Capacity,     \* ring_capacity
  BatchLimit,   \* 32 in the source
  MaxSamples,   \* bound on the samples published
  None

ASSUME TelemetryAssumption ==
  /\ Capacity \in Nat \ {0} /\ BatchLimit \in Nat \ {0} /\ MaxSamples \in Nat
  /\ IsFiniteSet(Publishers) /\ IsFiniteSet(Workers) /\ Workers # {}
  /\ None \notin 1..MaxSamples

Samples == 1..MaxSamples

VARIABLES
  running_, next_sequence_, published_, delivered_,
  ring,          \* items_, the oldest first
  publishing,    \* the sample that each publisher has not pushed yet, or None
  uncounted,     \* publishers that pushed and have not counted it yet
  at,            \* where each worker is
  batch,         \* what each worker has still to deliver
  stopping,      \* is stop waiting for the workers?
  sunk,          \* history: how often each sample went into the sink
  overwritten,   \* history: samples that gave way to younger ones
  late           \* history: samples not pushed yet when stop was called

publishVars   == <<next_sequence_, published_, publishing, uncounted>>
workerVars    == <<at, batch, delivered_, sunk>>
controlVars   == <<running_, stopping, late>>
telemetryVars == <<publishVars, workerVars, controlVars, ring, overwritten>>

TelemetryInit ==
  /\ running_ = FALSE /\ stopping = FALSE
  /\ next_sequence_ = 1 /\ published_ = 0 /\ delivered_ = 0
  /\ ring = <<>>
  /\ publishing = [p \in Publishers |-> None]
  /\ uncounted = {}
  /\ at = [w \in Workers |-> "none"]
  /\ batch = [w \in Workers |-> <<>>]
  /\ sunk = [s \in Samples |-> 0]
  /\ overwritten = {} /\ late = {}

-----------------------------------------------------------------------------
(* publish *)

TakeNumber(p) ==
  /\ publishing[p] = None /\ p \notin uncounted
  /\ running_
  /\ next_sequence_ <= MaxSamples
  /\ publishing' = [publishing EXCEPT ![p] = next_sequence_]
  /\ next_sequence_' = next_sequence_ + 1
  /\ UNCHANGED <<published_, uncounted, workerVars, controlVars, ring, overwritten>>

\* A full ring gives up its oldest sample, and nobody is told.
Push(p) ==
  /\ publishing[p] # None
  /\ LET full == Len(ring) = Capacity IN
       /\ ring' = Append(IF full THEN Tail(ring) ELSE ring, publishing[p])
       /\ overwritten' = overwritten \cup IF full THEN {Head(ring)} ELSE {}
  /\ uncounted' = uncounted \cup {p}
  /\ publishing' = [publishing EXCEPT ![p] = None]
  /\ UNCHANGED <<next_sequence_, published_, workerVars, controlVars>>

\* notify_one wakes a worker that sleeps; one that is about to is not woken.
CountAndWake(p) ==
  /\ p \in uncounted
  /\ uncounted' = uncounted \ {p}
  /\ published_' = published_ + 1
  /\ \/ /\ \A w \in Workers : at[w] # "asleep"
        /\ UNCHANGED at
     \/ \E w \in Workers :
          at[w] = "asleep" /\ at' = [at EXCEPT ![w] = "empty"]
  /\ UNCHANGED <<next_sequence_, publishing, batch, delivered_, sunk,
                 controlVars, ring, overwritten>>

-----------------------------------------------------------------------------
(* worker_loop *)

Go(w, from, to) == at[w] = from /\ at' = [at EXCEPT ![w] = to]

\* Faulty: a worker that is stopped leaves the ring as it is.
Loop_RunningOnly(w) ==
  /\ Go(w, "loop", IF running_ THEN "drain" ELSE "done")
  /\ UNCHANGED <<publishVars, batch, delivered_, sunk, controlVars, ring,
                 overwritten>>

Loop(w) ==
  /\ Go(w, "loop", IF running_ \/ ring # <<>> THEN "drain" ELSE "done")
  /\ UNCHANGED <<publishVars, batch, delivered_, sunk, controlVars, ring,
                 overwritten>>

Taken == IF Len(ring) < BatchLimit THEN Len(ring) ELSE BatchLimit

\* Faulty: what is drained stays in the ring.
Drain_Copies(w) ==
  /\ Go(w, "drain", IF ring = <<>> THEN "empty" ELSE "deliver")
  /\ batch' = [batch EXCEPT ![w] = SubSeq(ring, 1, Taken)]
  /\ UNCHANGED <<publishVars, delivered_, sunk, controlVars, ring, overwritten>>

\* Another worker may have been faster since the loop's test.
Drain(w) ==
  /\ Go(w, "drain", IF ring = <<>> THEN "empty" ELSE "deliver")
  /\ batch' = [batch EXCEPT ![w] = SubSeq(ring, 1, Taken)]
  /\ ring' = SubSeq(ring, Taken + 1, Len(ring))
  /\ UNCHANGED <<publishVars, delivered_, sunk, controlVars, overwritten>>

\* Faulty: a batch is counted as one.
Deliver_OncePerBatch(w) ==
  /\ Go(w, "deliver", IF Len(batch[w]) = 1 THEN "loop" ELSE "deliver")
  /\ sunk' = [sunk EXCEPT ![Head(batch[w])] = @ + 1]
  /\ delivered_' = delivered_ + IF Len(batch[w]) = 1 THEN 1 ELSE 0
  /\ batch' = [batch EXCEPT ![w] = Tail(@)]
  /\ UNCHANGED <<publishVars, controlVars, ring, overwritten>>

Deliver(w) ==
  /\ Go(w, "deliver", IF Len(batch[w]) = 1 THEN "loop" ELSE "deliver")
  /\ sunk' = [sunk EXCEPT ![Head(batch[w])] = @ + 1]
  /\ delivered_' = delivered_ + 1
  /\ batch' = [batch EXCEPT ![w] = Tail(@)]
  /\ UNCHANGED <<publishVars, controlVars, ring, overwritten>>

\* The predicate is tested under a lock that neither publish nor stop takes, so
\* that a stop may come between its two reads, and a wake-up between the test
\* and the sleep, and is lost.
TestRunning(w) ==
  /\ Go(w, "empty", IF running_ THEN "tested" ELSE "loop")
  /\ UNCHANGED <<publishVars, batch, delivered_, sunk, controlVars, ring,
                 overwritten>>

TestRing(w) ==
  /\ Go(w, "tested", IF ring # <<>> THEN "loop" ELSE "dozing")
  /\ UNCHANGED <<publishVars, batch, delivered_, sunk, controlVars, ring,
                 overwritten>>

FallAsleep(w) ==
  /\ Go(w, "dozing", "asleep")
  /\ UNCHANGED <<publishVars, batch, delivered_, sunk, controlVars, ring,
                 overwritten>>

\* Faulty: after a time-out the worker sleeps on.
TimeOut_SleepsOn(w) ==
  /\ Go(w, "asleep", "dozing")
  /\ UNCHANGED <<publishVars, batch, delivered_, sunk, controlVars, ring,
                 overwritten>>

TimeOut(w) ==
  /\ Go(w, "asleep", "loop")
  /\ UNCHANGED <<publishVars, batch, delivered_, sunk, controlVars, ring,
                 overwritten>>

WorkerStep(w) ==
  \/ Loop(w) \/ Drain(w) \/ Deliver(w)
  \/ TestRunning(w) \/ TestRing(w) \/ FallAsleep(w) \/ TimeOut(w)

-----------------------------------------------------------------------------
(* start, stop *)

Start ==
  /\ ~running_ /\ ~stopping
  /\ running_' = TRUE
  /\ at' = [w \in Workers |-> "loop"]
  /\ UNCHANGED <<publishVars, batch, delivered_, sunk, stopping, late, ring,
                 overwritten>>

Stop ==
  /\ running_
  /\ running_' = FALSE
  /\ stopping' = TRUE
  /\ late' = late \cup ({publishing[p] : p \in Publishers} \ {None})
  /\ at' = [w \in Workers |-> IF at[w] = "asleep" THEN "empty" ELSE at[w]]
  /\ UNCHANGED <<publishVars, batch, delivered_, sunk, ring, overwritten>>

Join ==
  /\ stopping
  /\ \A w \in Workers : at[w] = "done"
  /\ stopping' = FALSE
  /\ at' = [w \in Workers |-> "none"]
  /\ UNCHANGED <<publishVars, batch, delivered_, sunk, running_, late, ring,
                 overwritten>>

TelemetryNext ==
  \/ \E p \in Publishers : TakeNumber(p) \/ Push(p) \/ CountAndWake(p)
  \/ \E w \in Workers : WorkerStep(w)
  \/ Start \/ Stop \/ Join

\* The system runs every thread that can run, and wait_for ends.
TelemetrySpec ==
  /\ TelemetryInit
  /\ [][TelemetryNext]_telemetryVars
  /\ \A w \in Workers : WF_telemetryVars(WorkerStep(w))
  /\ WF_telemetryVars(Join)

-----------------------------------------------------------------------------
(* Properties *)

TelemetryTypeOK ==
  /\ running_ \in BOOLEAN /\ stopping \in BOOLEAN
  /\ next_sequence_ \in 1..(MaxSamples + 1)
  /\ published_ \in Nat /\ delivered_ \in Nat
  /\ ring \in Seq(Samples) /\ Len(ring) <= Capacity
  /\ publishing \in [Publishers -> Samples \cup {None}]
  /\ uncounted \subseteq Publishers
  /\ at \in [Workers -> {"none", "loop", "drain", "deliver", "empty", "tested",
                         "dozing", "asleep", "done"}]
  /\ \A w \in Workers : batch[w] \in Seq(Samples) /\ Len(batch[w]) <= BatchLimit
  /\ sunk \in [Samples -> Nat]
  /\ overwritten \subseteq Samples /\ late \subseteq Samples

Positions(s, seq) == {i \in DOMAIN seq : seq[i] = s}

\* Each sample is in one place, whichever threads pass it on at the same time:
\* on its way into the ring, in the ring, in the batch of one worker, or gone,
\* delivered once or overwritten.
EachSampleOnce ==
  \A s \in 1..(next_sequence_ - 1) :
    Cardinality({p \in Publishers : publishing[p] = s})
      + Cardinality(Positions(s, ring))
      + Cardinality({held \in Workers \X (1..BatchLimit) :
                       held[2] \in Positions(s, batch[held[1]])})
      + sunk[s]
      + Cardinality({s} \cap overwritten) = 1

\* The two counters differ by what the engine still holds and by what it has
\* overwritten, for which there is no counter; a sample may be delivered before
\* it is counted as published.
CountersAgree ==
  published_ + Cardinality(uncounted)
    = delivered_ + Len(ring) + Cardinality(overwritten)
        + FoldFunction(LAMBDA seq, sum : Len(seq) + sum, 0, batch)

\* stop returns when everything is delivered, but for samples whose publishers
\* had seen the engine running and pushed too late.
StopLeavesNothing ==
  ~running_ /\ ~stopping => \A i \in DOMAIN ring : ring[i] \in late

\* A sample in the ring goes to a worker or is overwritten, although wake-ups
\* may be lost, unless the workers have ended.
SamplesLeave ==
  \A s \in Samples :
    s \in ToSet(ring) ~> s \notin ToSet(ring) \/ \A w \in Workers : at[w] = "none"

\* stop returns.
StopEnds == stopping ~> ~stopping
=============================================================================
