--------------------------- MODULE EventBusProofs ---------------------------
(***************************************************************************)
(* Proofs about EventBus, for any events, workers, handlers and queue      *)
(* size.  The argument: IInv is inductive; the worker steps are reduced by *)
(* three lemmas to what they do to the set of events in hand, the queue    *)
(* steps by two lemmas to what they do to the set of queued events.        *)
(***************************************************************************)
EXTENDS EventBus, SequenceTheorems, TLAPS

(* No worker task exists while the bus is stopped: start() never replaces a  *)
(* worker that still has an event in hand.                                   *)
StoppedHasNoWorkers == phase = "stopped" => \A w \in Workers : wpc[w] = "none"

(* The inductive invariant.                                                  *)
IInv == TypeOK /\ EventsConserved /\ StoppedHasNoWorkers

-----------------------------------------------------------------------------
(* Lemmas on the queue.                                                      *)

Injective(q) == \A i, j \in DOMAIN q : q[i] = q[j] => i = j

LEMMA AppendQueue ==
  ASSUME NEW q \in Seq(Events), NEW e \in Events
  PROVE  /\ Append(q, e) \in Seq(Events)
         /\ Len(Append(q, e)) = Len(q) + 1
         /\ Range(Append(q, e)) = Range(q) \cup {e}
         /\ Injective(q) /\ e \notin Range(q) => Injective(Append(q, e))
<1>1. /\ Append(q, e) \in Seq(Events)
      /\ Len(Append(q, e)) = Len(q) + 1
      /\ DOMAIN Append(q, e) = 1 .. Len(q) + 1
      /\ DOMAIN q = 1 .. Len(q) /\ Len(q) \in Nat
      /\ \A i \in 1 .. Len(q) : Append(q, e)[i] = q[i]
      /\ Append(q, e)[Len(q) + 1] = e
  BY AppendProperties, LenProperties
<1>2. Range(Append(q, e)) \subseteq Range(q) \cup {e}
  <2>1. SUFFICES ASSUME NEW i \in 1 .. Len(q) + 1
                 PROVE  Append(q, e)[i] \in Range(q) \cup {e}
    BY <1>1 DEF Range
  <2>2. CASE i \in 1 .. Len(q)
    BY <2>2, <1>1 DEF Range
  <2>3. CASE i = Len(q) + 1
    BY <2>3, <1>1
  <2>4. QED BY <2>2, <2>3, <1>1
<1>3. Range(q) \cup {e} \subseteq Range(Append(q, e))
  <2>1. SUFFICES ASSUME NEW i \in 1 .. Len(q)
                 PROVE  q[i] \in Range(Append(q, e))
    BY <1>1 DEF Range
  <2>2. i \in 1 .. Len(q) + 1 /\ Append(q, e)[i] = q[i]
    BY <1>1
  <2>3. QED BY <2>2, <1>1 DEF Range
<1>4. Injective(q) /\ e \notin Range(q) => Injective(Append(q, e))
  BY <1>1 DEF Injective, Range
<1>5. QED BY <1>1, <1>2, <1>3, <1>4

LEMMA TailQueue ==
  ASSUME NEW q \in Seq(Events), q # <<>>, Injective(q)
  PROVE  /\ Tail(q) \in Seq(Events)
         /\ Len(Tail(q)) = Len(q) - 1
         /\ Head(q) \in Range(q) /\ Head(q) \in Events
         /\ Range(Tail(q)) = Range(q) \ {Head(q)}
         /\ Injective(Tail(q))
<1>1. /\ Tail(q) \in Seq(Events) /\ Len(Tail(q)) = Len(q) - 1
      /\ DOMAIN q = 1 .. Len(q) /\ Len(q) \in Nat \ {0}
      /\ DOMAIN Tail(q) = 1 .. Len(q) - 1
      /\ \A i \in 1 .. Len(q) - 1 : Tail(q)[i] = q[i + 1]
      /\ Head(q) = q[1] /\ Head(q) \in Events
  BY HeadTailProperties, LenProperties, EmptySeq
<1>2. Head(q) \in Range(q)
  BY <1>1 DEF Range
<1>3. Range(Tail(q)) \subseteq Range(q) \ {Head(q)}
  <2>1. SUFFICES ASSUME NEW i \in 1 .. Len(q) - 1
                 PROVE  q[i + 1] \in Range(q) /\ q[i + 1] # Head(q)
    BY <1>1 DEF Range
  <2>2. i + 1 \in 1 .. Len(q) /\ i + 1 # 1
    BY <1>1
  <2>3. QED BY <2>2, <1>1 DEF Range, Injective
<1>4. Range(q) \ {Head(q)} \subseteq Range(Tail(q))
  <2>1. SUFFICES ASSUME NEW j \in 1 .. Len(q), j # 1
                 PROVE  q[j] \in Range(Tail(q))
    BY <1>1 DEF Range
  <2>2. j - 1 \in 1 .. Len(q) - 1 /\ (j - 1) + 1 = j
    BY <1>1, <2>1
  <2>3. Tail(q)[j - 1] = q[j]
    BY <1>1, <2>2
  <2>4. QED BY <2>2, <2>3, <1>1 DEF Range
<1>5. Injective(Tail(q))
  BY <1>1 DEF Injective
<1>6. QED BY <1>1, <1>2, <1>3, <1>4, <1>5

-----------------------------------------------------------------------------
(* Lemmas on the events in hand.                                             *)

\* A step that moves no worker in or out of a dispatch keeps them.
LEMMA SameInHand ==
  ASSUME JobsApart, job' = job,
         \A w \in Workers : Busy(w)' <=> Busy(w)
  PROVE  InHand' = InHand /\ JobsApart'
BY DEF JobsApart, InHand

\* A worker that was not busy takes an event no worker has.
LEMMA TakeInHand ==
  ASSUME JobsApart, TypeOK, NEW w \in Workers, NEW e \in Events,
         ~Busy(w), e \notin InHand,
         job' = [job EXCEPT ![w] = e],
         wpc' = [wpc EXCEPT ![w] = "handling"]
  PROVE  InHand' = InHand \cup {e} /\ JobsApart'
<1>1. /\ \A v \in Workers : v # w => (Busy(v)' <=> Busy(v)) /\ job'[v] = job[v]
      /\ Busy(w)' /\ job'[w] = e
  BY DEF TypeOK, Busy
<1>2. e # NoEvent
  BY EventsAssumption
<1>3. JobsApart'
  BY <1>1, <1>2 DEF JobsApart, InHand
<1>4. InHand' = InHand \cup {e}
  BY <1>1 DEF InHand
<1>5. QED BY <1>3, <1>4

\* A worker whose dispatch is over lets go of its event.
LEMMA FreeInHand ==
  ASSUME JobsApart, TypeOK, NEW w \in Workers, NEW pc,
         Busy(w), pc \notin {"handling", "reporting"},
         job' = [job EXCEPT ![w] = NoEvent],
         wpc' = [wpc EXCEPT ![w] = pc]
  PROVE  /\ InHand' = InHand \ {job[w]}
         /\ job[w] \in InHand /\ job[w] \in Events
         /\ JobsApart'
<1>1. /\ \A v \in Workers : v # w => (Busy(v)' <=> Busy(v)) /\ job'[v] = job[v]
      /\ ~Busy(w)' /\ job'[w] = NoEvent
  BY DEF TypeOK, Busy
<1>2. JobsApart'
  BY <1>1 DEF JobsApart
<1>3. job[w] \in InHand /\ job[w] \in Events
  BY DEF InHand, JobsApart, TypeOK
<1>4. InHand' = InHand \ {job[w]}
  BY <1>1 DEF InHand, JobsApart
<1>5. QED BY <1>2, <1>3, <1>4

-----------------------------------------------------------------------------
(* What the sub-actions of Next do to the places of an event.               *)

LEMMA EnqueueStep ==
  ASSUME IInv, NEW e \in Events, Enqueue(e),
         InHand' = InHand, UNCHANGED <<abandoned, done, aborted>>
  PROVE  /\ queue' \in Seq(Events) /\ Len(queue') <= QueueSize
         /\ waiting' \subseteq Lifecycle /\ emitted' \subseteq Events
         /\ QueueInjective' /\ PlacesApart'
         /\ emitted' = (Queued \cup waiting \cup InHand \cup dropped
                          \cup abandoned \cup done \cup aborted)'
<1> USE EventsAssumption, SizeAssumption
<1>1. /\ e \notin emitted /\ emitted' = emitted \cup {e}
      /\ e \notin Queued \cup waiting \cup InHand \cup dropped \cup abandoned \cup done \cup aborted
  BY DEF IInv, EventsConserved, Enqueue
<1>2. CASE PutNow(e)
  <2>1. /\ queue' \in Seq(Events) /\ Len(queue') <= QueueSize
        /\ Queued' = Queued \cup {e} /\ QueueInjective'
        /\ UNCHANGED <<waiting, dropped>>
    <3>1. queue \in Seq(Events) /\ Injective(queue) /\ e \notin Range(queue)
      BY <1>1 DEF IInv, TypeOK, EventsConserved, QueueInjective, Injective, Queued
    <3>2. queue' = Append(queue, e) /\ Len(queue) < QueueSize /\ Len(queue) \in Nat
      BY <1>2, <3>1, LenProperties DEF PutNow, HasRoom
    <3>3. QED BY <1>2, <3>1, <3>2, AppendQueue DEF PutNow, QueueInjective, Injective, Queued
  <2>2. QED BY <1>1, <2>1 DEF IInv, TypeOK, EventsConserved, PlacesApart
<1>3. CASE PutLater(e)
  BY <1>1, <1>3 DEF PutLater, IInv, TypeOK, EventsConserved, PlacesApart, Queued, QueueInjective
<1>4. CASE DropEvent(e)
  BY <1>1, <1>4 DEF DropEvent, IInv, TypeOK, EventsConserved, PlacesApart, Queued, QueueInjective
<1>5. QED BY <1>2, <1>3, <1>4 DEF Enqueue

LEMMA AdvanceStep ==
  ASSUME IInv, NEW w \in Workers, Busy(w), Advance(w),
         UNCHANGED <<phase, queue, waiting, emitted, dropped, abandoned, aborted>>
  PROVE  /\ wpc' \in [Workers -> WorkerStates]
         /\ job' \in [Workers -> Events \cup {NoEvent}]
         /\ notice' \in [Workers -> Lifecycle \cup {NoEvent}]
         /\ EventsConserved' /\ StoppedHasNoWorkers'
<1> USE EventsAssumption
<1>1. phase # "stopped"
  BY DEF IInv, StoppedHasNoWorkers, Busy
<1>2. CASE Len(todo[w]) > 1
  <2>1. /\ wpc' = [wpc EXCEPT ![w] = "handling"]
        /\ notice' = [notice EXCEPT ![w] = NoEvent]
        /\ UNCHANGED <<job, done>>
    BY <1>2 DEF Advance
  <2>2. \A v \in Workers : Busy(v)' <=> Busy(v)
    BY <2>1 DEF IInv, TypeOK, Busy
  <2>3. InHand' = InHand /\ JobsApart'
    BY <2>1, <2>2, SameInHand DEF IInv, EventsConserved
  <2>4. EventsConserved'
    BY <2>1, <2>3 DEF IInv, EventsConserved, PlacesApart, Queued, QueueInjective
  <2>5. QED BY <1>1, <2>1, <2>4 DEF IInv, TypeOK, StoppedHasNoWorkers, WorkerStates
<1>3. CASE ~(Len(todo[w]) > 1)
  <2>1. /\ done' = done \cup {job[w]}
        /\ wpc' = [wpc EXCEPT ![w] = AfterJob]
        /\ job' = [job EXCEPT ![w] = NoEvent]
        /\ notice' = [notice EXCEPT ![w] = NoEvent]
    BY <1>3 DEF Advance, Clear
  <2>2. /\ InHand' = InHand \ {job[w]} /\ JobsApart'
        /\ job[w] \in InHand /\ job[w] \in Events
    <3>1. AfterJob \notin {"handling", "reporting"}
      BY DEF AfterJob
    <3>2. QED BY <2>1, <3>1, FreeInHand DEF IInv, EventsConserved
  <2>3. EventsConserved'
    BY <2>1, <2>2 DEF IInv, EventsConserved, PlacesApart, Queued, QueueInjective
  <2>4. QED BY <1>1, <2>1, <2>3 DEF IInv, TypeOK, StoppedHasNoWorkers, WorkerStates, AfterJob
<1>4. QED BY <1>2, <1>3

LEMMA AbortStep ==
  ASSUME IInv, NEW w \in Workers, NEW pc \in {"idle", "dead"}, Busy(w), Abort(w, pc),
         UNCHANGED <<phase, queue, emitted, dropped, done>>,
         \/ UNCHANGED <<waiting, abandoned>>
         \/ /\ abandoned' = abandoned \cup ({notice[w]} \cap waiting)
            /\ waiting' = waiting \ {notice[w]}
  PROVE  /\ wpc' \in [Workers -> WorkerStates]
         /\ job' \in [Workers -> Events \cup {NoEvent}]
         /\ notice' \in [Workers -> Lifecycle \cup {NoEvent}]
         /\ waiting' \subseteq Lifecycle
         /\ EventsConserved' /\ StoppedHasNoWorkers'
<1>1. phase # "stopped"
  BY DEF IInv, StoppedHasNoWorkers, Busy
<1>2. /\ aborted' = aborted \cup {job[w]}
      /\ wpc' = [wpc EXCEPT ![w] = pc]
      /\ job' = [job EXCEPT ![w] = NoEvent]
      /\ notice' = [notice EXCEPT ![w] = NoEvent]
  BY DEF Abort, Clear
<1>3. /\ InHand' = InHand \ {job[w]} /\ JobsApart'
      /\ job[w] \in InHand /\ job[w] \in Events
  BY <1>2, FreeInHand DEF IInv, EventsConserved
<1>4. EventsConserved'
  BY <1>2, <1>3 DEF IInv, EventsConserved, PlacesApart, Queued, QueueInjective
<1>5. QED BY <1>1, <1>2, <1>4 DEF IInv, TypeOK, StoppedHasNoWorkers, WorkerStates

-----------------------------------------------------------------------------
LEMMA InitInv == Init => IInv
<1> SUFFICES ASSUME Init PROVE IInv
  OBVIOUS
<1> USE EventsAssumption, SizeAssumption DEF Init
<1>1. TypeOK
  BY EmptySeq DEF TypeOK, WorkerStates
<1>2. Queued = {} /\ InHand = {}
  BY DEF Queued, Range, InHand, Busy
<1>3. EventsConserved
  BY <1>2 DEF EventsConserved, PlacesApart, QueueInjective, JobsApart, Busy
<1>4. QED BY <1>1, <1>3 DEF IInv, StoppedHasNoWorkers

\* A step that leaves the events where they are and starts no worker.
LEMMA QuietStep ==
  ASSUME IInv,
         UNCHANGED <<queue, waiting, emitted, dropped, abandoned, done, aborted,
                     wpc, job, notice>>,
         phase' \in {"stopped", "up", "draining"}, window' \in Windows,
         phase' = "stopped" => phase = "stopped",
         cancelled' \in [Workers -> BOOLEAN]
  PROVE  IInv'
<1>1. InHand' = InHand /\ JobsApart'
  BY SameInHand DEF IInv, EventsConserved, Busy
<1>2. QED
  BY <1>1 DEF IInv, TypeOK, EventsConserved, PlacesApart, Queued, QueueInjective,
              StoppedHasNoWorkers

LEMMA NextInv == IInv /\ [Next]_vars => IInv'
<1> SUFFICES ASSUME IInv, [Next]_vars PROVE IInv'
  OBVIOUS
<1> USE EventsAssumption, SizeAssumption DEF emitVars, workerVars
<1>1. CASE Start
  <2>1. /\ wpc' = [w \in Workers |-> "idle"] /\ job' = job
        /\ \A w \in Workers : ~Busy(w) /\ ~Busy(w)'
    BY <1>1 DEF Start, IInv, StoppedHasNoWorkers, Busy
  <2>2. InHand' = InHand /\ JobsApart'
    BY <2>1, SameInHand DEF IInv, EventsConserved
  <2>3. QED
    BY <1>1, <2>1, <2>2 DEF Start, IInv, TypeOK, WorkerStates, EventsConserved,
                            PlacesApart, Queued, QueueInjective, StoppedHasNoWorkers
<1>2. CASE Shutdown
  BY <1>2, QuietStep DEF Shutdown, IInv, TypeOK
<1>3. CASE ShutdownDone
  <2>1. /\ wpc' = [w \in Workers |-> "none"] /\ job' = job
        /\ \A w \in Workers : ~Busy(w) /\ ~Busy(w)'
    BY <1>3 DEF ShutdownDone, Busy
  <2>2. InHand' = InHand /\ JobsApart'
    BY <2>1, SameInHand DEF IInv, EventsConserved
  <2>3. QED
    BY <1>3, <2>1, <2>2 DEF ShutdownDone, IInv, TypeOK, WorkerStates, EventsConserved,
                            PlacesApart, Queued, QueueInjective, StoppedHasNoWorkers
<1>4. ASSUME NEW t \in Windows, Configure(t) PROVE IInv'
  BY <1>4, QuietStep DEF Configure, IInv, TypeOK
<1>5. ASSUME NEW k \in Keys, NEW h \in Handlers, Subscribe(k, h) \/ Unsubscribe(k, h)
      PROVE  IInv'
  BY <1>5, QuietStep DEF Subscribe, Unsubscribe, IInv, TypeOK
<1>6. ASSUME NEW e \in Events, Emit(e) PROVE IInv'
  <2>1. InHand' = InHand /\ JobsApart'
    BY <1>6, SameInHand DEF Emit, IInv, EventsConserved, Busy
  <2>2. Enqueue(e) /\ UNCHANGED <<phase, window, abandoned, done, aborted, wpc, job, notice, cancelled>>
    BY <1>6 DEF Emit
  <2>3. QED
    BY <2>1, <2>2, EnqueueStep DEF IInv, TypeOK, EventsConserved, StoppedHasNoWorkers
<1>7. ASSUME NEW e \in Events, PutResumes(e) PROVE IInv'
  <2>1. InHand' = InHand /\ JobsApart'
    BY <1>7, SameInHand DEF PutResumes, IInv, EventsConserved, Busy
  <2>2. /\ queue' \in Seq(Events) /\ Len(queue') <= QueueSize
        /\ Queued' = Queued \cup {e} /\ QueueInjective'
    <3>1. queue \in Seq(Events) /\ Injective(queue) /\ e \notin Range(queue)
      BY <1>7 DEF PutResumes, IInv, TypeOK, EventsConserved, PlacesApart,
                  QueueInjective, Injective, Queued
    <3>2. queue' = Append(queue, e) /\ Len(queue) < QueueSize /\ Len(queue) \in Nat
      BY <1>7, <3>1, LenProperties DEF PutResumes, HasRoom
    <3>3. QED BY <3>1, <3>2, AppendQueue DEF QueueInjective, Injective, Queued
  <2>3. EventsConserved'
    BY <1>7, <2>1, <2>2 DEF PutResumes, IInv, EventsConserved, PlacesApart
  <2>4. QED
    BY <1>7, <2>2, <2>3 DEF PutResumes, IInv, TypeOK, StoppedHasNoWorkers
<1>8. ASSUME NEW e \in Events, PutTimesOut(e) \/ PutCancelled(e) PROVE IInv'
  <2>1. InHand' = InHand /\ JobsApart'
    BY <1>8, SameInHand DEF PutTimesOut, PutCancelled, IInv, EventsConserved, Busy
  <2>2. EventsConserved'
    BY <1>8, <2>1 DEF PutTimesOut, PutCancelled, IInv, EventsConserved, PlacesApart,
                      Queued, QueueInjective
  <2>3. QED
    BY <1>8, <2>2 DEF PutTimesOut, PutCancelled, IInv, TypeOK, StoppedHasNoWorkers
<1>9. ASSUME NEW w \in Workers, Get(w) PROVE IInv'
  <2> DEFINE e == Head(queue)
  <2>1. /\ queue' = Tail(queue) /\ queue' \in Seq(Events) /\ Len(queue') <= QueueSize
        /\ e \in Queued /\ e \in Events /\ Queued' = Queued \ {e} /\ QueueInjective'
    <3>1. queue \in Seq(Events) /\ queue # <<>> /\ Injective(queue) /\ queue' = Tail(queue)
      BY <1>9 DEF Get, IInv, TypeOK, EventsConserved, QueueInjective, Injective
    <3>2. Len(queue) \in Nat /\ Len(queue) <= QueueSize
      BY <3>1, LenProperties DEF IInv, TypeOK
    <3>3. QED BY <3>1, <3>2, TailQueue DEF QueueInjective, Injective, Queued
  <2>2. phase # "stopped"
    BY <1>9 DEF Get, IInv, StoppedHasNoWorkers
  <2>3. CASE Snapshot(e) = <<>>
    <3>1. done' = done \cup {e} /\ UNCHANGED <<wpc, job>>
      BY <1>9, <2>3 DEF Get
    <3>2. InHand' = InHand /\ JobsApart'
      BY <3>1, SameInHand DEF IInv, EventsConserved, Busy
    <3>3. EventsConserved'
      BY <1>9, <2>1, <3>1, <3>2 DEF Get, IInv, EventsConserved, PlacesApart
    <3>4. QED
      BY <1>9, <2>1, <2>2, <3>1, <3>3 DEF Get, IInv, TypeOK, StoppedHasNoWorkers
  <2>4. CASE Snapshot(e) # <<>>
    <3>1. /\ wpc' = [wpc EXCEPT ![w] = "handling"] /\ job' = [job EXCEPT ![w] = e]
          /\ done' = done
      BY <1>9, <2>4 DEF Get
    <3>2. ~Busy(w) /\ e \notin InHand
      BY <1>9, <2>1 DEF Get, Busy, IInv, EventsConserved, PlacesApart
    <3>3. InHand' = InHand \cup {e} /\ JobsApart'
      BY <2>1, <3>1, <3>2, TakeInHand DEF IInv, EventsConserved
    <3>4. EventsConserved'
      BY <1>9, <2>1, <3>1, <3>3 DEF Get, IInv, EventsConserved, PlacesApart
    <3>5. QED
      BY <1>9, <2>1, <2>2, <3>1, <3>4 DEF Get, IInv, TypeOK, StoppedHasNoWorkers, WorkerStates
  <2>5. QED BY <2>3, <2>4
<1>10. ASSUME NEW w \in Workers, HandlerReturns(w) \/ ReportReturns(w) PROVE IInv'
  <2>1. /\ Busy(w) /\ Advance(w)
        /\ UNCHANGED <<phase, window, queue, waiting, emitted, dropped, abandoned,
                       aborted, cancelled>>
    BY <1>10 DEF HandlerReturns, ReportReturns, Busy
  <2>2. QED BY <2>1, AdvanceStep DEF IInv, TypeOK
<1>11. ASSUME NEW w \in Workers, HandlerFails(w) PROVE IInv'
  <2>1. CASE Head(todo[w]) \in Owned
    <3>1. /\ wpc' = [wpc EXCEPT ![w] = "reporting"] /\ wpc[w] = "handling"
          /\ UNCHANGED <<phase, window, queue, waiting, emitted, dropped, abandoned,
                         done, aborted, job, notice, cancelled>>
      BY <1>11, <2>1 DEF HandlerFails
    <3>2. \A v \in Workers : Busy(v)' <=> Busy(v)
      BY <3>1 DEF IInv, TypeOK, Busy
    <3>3. InHand' = InHand /\ JobsApart'
      BY <3>1, <3>2, SameInHand DEF IInv, EventsConserved
    <3>4. QED
      BY <3>1, <3>3 DEF IInv, TypeOK, WorkerStates, EventsConserved, PlacesApart,
                        Queued, QueueInjective, StoppedHasNoWorkers
  <2>2. CASE Head(todo[w]) \notin Owned
    <3>1. /\ Busy(w) /\ Advance(w)
          /\ UNCHANGED <<phase, window, queue, waiting, emitted, dropped, abandoned,
                         aborted, cancelled>>
      BY <1>11, <2>2 DEF HandlerFails, Busy
    <3>2. QED BY <3>1, AdvanceStep DEF IInv, TypeOK
  <2>3. QED BY <2>1, <2>2
<1>12. ASSUME NEW w \in Workers, HandlerEscapes(w) \/ ReportRaises(w) PROVE IInv'
  <2>1. PICK pc \in {"idle", "dead"} : Abort(w, pc)
    BY <1>12 DEF HandlerEscapes, ReportRaises, AfterJob
  <2>2. /\ Busy(w)
        /\ UNCHANGED <<phase, window, queue, waiting, emitted, dropped, abandoned,
                       done, cancelled>>
    BY <1>12 DEF HandlerEscapes, ReportRaises, Busy
  <2>3. QED BY <2>1, <2>2, AbortStep DEF IInv, TypeOK
<1>13. ASSUME NEW w \in Workers, CancelDelivered(w) PROVE IInv'
  <2>1. /\ cancelled' \in [Workers -> BOOLEAN]
        /\ abandoned' = abandoned \cup ({notice[w]} \cap waiting)
        /\ waiting' = waiting \ {notice[w]}
        /\ UNCHANGED <<phase, window, queue, emitted, dropped, done>>
    BY <1>13 DEF CancelDelivered, IInv, TypeOK
  <2>2. CASE Busy(w)
    BY <1>13, <2>1, <2>2, AbortStep DEF CancelDelivered, IInv, TypeOK
  <2>3. CASE ~Busy(w)
    <3>1. wpc[w] = "idle" /\ wpc' = [wpc EXCEPT ![w] = "dead"] /\ UNCHANGED <<aborted, job, notice>>
      BY <1>13, <2>3 DEF CancelDelivered, Busy
    <3>2. \A v \in Workers : Busy(v)' <=> Busy(v)
      BY <3>1 DEF IInv, TypeOK, Busy
    <3>3. InHand' = InHand /\ JobsApart'
      BY <3>1, <3>2, SameInHand DEF IInv, EventsConserved
    <3>4. EventsConserved'
      BY <2>1, <3>1, <3>3 DEF IInv, EventsConserved, PlacesApart, Queued, QueueInjective
    <3>5. QED
      BY <2>1, <3>1, <3>4 DEF IInv, TypeOK, WorkerStates, StoppedHasNoWorkers
  <2>4. QED BY <2>2, <2>3
<1>14. ASSUME NEW w \in Workers, CancelAbsorbed(w) PROVE IInv'
  BY <1>14, QuietStep DEF CancelAbsorbed, IInv, TypeOK
<1>15. ASSUME NEW w \in Workers, NEW e \in Events, ReportEmits(w, e) PROVE IInv'
  <2>1. /\ Enqueue(e) /\ notice' = [notice EXCEPT ![w] = e] /\ e \in Lifecycle
        /\ UNCHANGED <<phase, window, abandoned, done, aborted, wpc, job, cancelled>>
    BY <1>15 DEF ReportEmits
  <2>2. InHand' = InHand /\ JobsApart'
    BY <2>1, SameInHand DEF IInv, EventsConserved, Busy
  <2>3. QED
    BY <2>1, <2>2, EnqueueStep DEF IInv, TypeOK, EventsConserved, StoppedHasNoWorkers
<1>16. CASE UNCHANGED vars
  BY <1>16, QuietStep DEF vars, IInv, TypeOK
<1>17. QED
  BY <1>1, <1>2, <1>3, <1>4, <1>5, <1>6, <1>7, <1>8, <1>9, <1>10, <1>11, <1>12,
     <1>13, <1>14, <1>15, <1>16 DEF Next, HandlerEnds

(* The inductive invariant holds in every reachable state.                   *)
THEOREM InductiveInvariant == Spec => []IInv
<1>1. QED BY InitInv, NextInv, PTL DEF Spec

(* The queue never outgrows its bound, only lifecycle events ever wait, and  *)
(* the workers' program counters and jobs stay in their types.               *)
THEOREM TypeCorrect == Spec => []TypeOK
<1>1. IInv => TypeOK
  BY DEF IInv
<1>2. QED BY <1>1, InductiveInvariant, PTL

(* No event is lost track of, duplicated, or dispatched by two workers, for  *)
(* any number of events, workers and handlers (bus.py emit, _enqueue,        *)
(* _worker_loop, _dispatch, shutdown).                                       *)
THEOREM Conservation == Spec => []EventsConserved
<1>1. IInv => EventsConserved
  BY DEF IInv
<1>2. QED BY <1>1, InductiveInvariant, PTL

-----------------------------------------------------------------------------
(* An event is dropped only because the queue is full, provided that the     *)
(* lifecycle events have a window at all (config.py accepts a window of 0,   *)
(* and then the statement is false: run bus_zero_window).                    *)
LEMMA DropStep ==
  ASSUME 0 \notin Windows, TypeOK, [Next]_vars, NEW e \in dropped' \ dropped
  PROVE  e \in waiting \/ ~HasRoom
<1> USE DEF emitVars, workerVars
<1>1. window # 0
  BY DEF TypeOK
<1>2. ASSUME NEW f \in Events, Enqueue(f) PROVE e \in waiting \/ ~HasRoom
  BY <1>1, <1>2 DEF Enqueue, PutNow, PutLater, DropEvent
<1>3. ASSUME NEW f \in Events, PutTimesOut(f) PROVE e \in waiting
  BY <1>3 DEF PutTimesOut
<1>4. ASSUME NEW f \in Events, Emit(f) PROVE e \in waiting \/ ~HasRoom
  BY <1>2, <1>4 DEF Emit
<1>5. ASSUME NEW w \in Workers, NEW f \in Events, ReportEmits(w, f)
      PROVE  e \in waiting \/ ~HasRoom
  BY <1>2, <1>5 DEF ReportEmits
<1>6. CASE dropped' = dropped
  BY <1>6
<1>7. \/ dropped' = dropped
      \/ \E f \in Events : Emit(f) \/ PutTimesOut(f)
      \/ \E w \in Workers, f \in Events : ReportEmits(w, f)
  BY DEF Next, vars, Start, Shutdown, ShutdownDone, Configure, Subscribe, Unsubscribe,
         PutResumes, PutCancelled, Get, HandlerEnds, HandlerReturns, HandlerFails,
         HandlerEscapes, ReportReturns, ReportRaises, CancelDelivered, CancelAbsorbed
<1>8. QED BY <1>3, <1>4, <1>5, <1>6, <1>7

THEOREM DropsOnlyWhenFull ==
  ASSUME 0 \notin Windows
  PROVE  Spec => DroppedOnlyWhenFull
<1>1. TypeOK /\ [Next]_vars => [\A e \in dropped' \ dropped : e \in waiting \/ ~HasRoom]_vars
  BY DropStep
<1>2. QED BY <1>1, TypeCorrect, PTL DEF Spec, DroppedOnlyWhenFull

-----------------------------------------------------------------------------
(* Refinement: every step of the bus is a step of the channel or none.       *)

LEMMA ChannelStutter ==
  ASSUME UNCHANGED <<queue, waiting, dropped, abandoned, done, aborted>>,
         InHand' = InHand
  PROVE  UNCHANGED Channel!vars
BY DEF Channel!vars

LEMMA ChannelEnqueue ==
  ASSUME IInv, 0 \notin Windows, NEW e \in Events, Enqueue(e),
         InHand' = InHand, UNCHANGED <<abandoned, done, aborted>>
  PROVE  Channel!Accept(e) \/ Channel!Wait(e) \/ Channel!Refuse(e)
<1>1. Channel!Fresh(e)
  BY DEF Enqueue, IInv, EventsConserved, Queued, Range, Channel!Fresh, Channel!InLine
<1>2. window # 0
  BY DEF IInv, TypeOK
<1>3. CASE PutNow(e)
  BY <1>1, <1>3 DEF PutNow, HasRoom, Channel!Accept, Channel!HasRoom
<1>4. CASE PutLater(e)
  BY <1>1, <1>4 DEF PutLater, HasRoom, Channel!Wait, Channel!HasRoom
<1>5. CASE DropEvent(e)
  BY <1>1, <1>2, <1>5 DEF DropEvent, HasRoom, Channel!Refuse, Channel!HasRoom
<1>6. QED BY <1>3, <1>4, <1>5 DEF Enqueue

LEMMA ChannelAdvance ==
  ASSUME IInv, NEW w \in Workers, Busy(w), Advance(w),
         UNCHANGED <<queue, waiting, dropped, abandoned, aborted>>
  PROVE  \/ UNCHANGED Channel!vars
         \/ \E e \in Events : Channel!Settle(e)
<1>1. CASE Len(todo[w]) > 1
  <2>1. wpc' = [wpc EXCEPT ![w] = "handling"] /\ UNCHANGED <<job, done>>
    BY <1>1 DEF Advance
  <2>2. \A v \in Workers : Busy(v)' <=> Busy(v)
    BY <2>1 DEF IInv, TypeOK, Busy
  <2>3. QED BY <2>1, <2>2, SameInHand, ChannelStutter DEF IInv, EventsConserved
<1>2. CASE ~(Len(todo[w]) > 1)
  <2>1. /\ done' = done \cup {job[w]}
        /\ wpc' = [wpc EXCEPT ![w] = AfterJob]
        /\ job' = [job EXCEPT ![w] = NoEvent]
    BY <1>2 DEF Advance, Clear
  <2>2. AfterJob \notin {"handling", "reporting"}
    BY DEF AfterJob
  <2>3. InHand' = InHand \ {job[w]} /\ job[w] \in InHand /\ job[w] \in Events
    BY <2>1, <2>2, FreeInHand DEF IInv, EventsConserved
  <2>4. Channel!Settle(job[w])
    BY <2>1, <2>3 DEF Channel!Settle
  <2>5. QED BY <2>3, <2>4
<1>3. QED BY <1>1, <1>2

LEMMA ChannelAbort ==
  ASSUME IInv, NEW w \in Workers, NEW pc \in {"idle", "dead"}, Busy(w), Abort(w, pc),
         UNCHANGED <<queue, dropped, done>>,
         \/ UNCHANGED <<waiting, abandoned>>
         \/ /\ abandoned' = abandoned \cup ({notice[w]} \cap waiting)
            /\ waiting' = waiting \ {notice[w]}
  PROVE  \/ \E e \in Events : Channel!Settle(e)
         \/ \E e, f \in Events : Channel!SettleAndGiveUp(e, f)
<1>1. /\ aborted' = aborted \cup {job[w]}
      /\ InHand' = InHand \ {job[w]} /\ job[w] \in InHand /\ job[w] \in Events
  BY FreeInHand DEF Abort, Clear, IInv, EventsConserved
<1>2. CASE UNCHANGED <<waiting, abandoned>>
  <2>1. Channel!Settle(job[w])
    BY <1>1, <1>2 DEF Channel!Settle
  <2>2. QED BY <1>1, <2>1
<1>3. CASE /\ abandoned' = abandoned \cup ({notice[w]} \cap waiting)
           /\ waiting' = waiting \ {notice[w]}
           /\ notice[w] \in waiting
  <2>1. notice[w] \in Events
    BY <1>3, EventsAssumption DEF IInv, TypeOK
  <2>2. Channel!SettleAndGiveUp(job[w], notice[w])
    BY <1>1, <1>3 DEF Channel!SettleAndGiveUp
  <2>3. QED BY <1>1, <2>1, <2>2
<1>4. QED BY <1>2, <1>3

LEMMA ChannelNext ==
  ASSUME IInv, 0 \notin Windows, [Next]_vars
  PROVE  [Channel!Next]_Channel!vars
<1> USE DEF emitVars, workerVars
<1>1. CASE Start \/ ShutdownDone
  <2>1. job' = job /\ \A w \in Workers : ~Busy(w) /\ ~Busy(w)'
    BY <1>1 DEF Start, ShutdownDone, IInv, StoppedHasNoWorkers, Busy
  <2>2. InHand' = InHand
    BY <2>1, SameInHand DEF IInv, EventsConserved
  <2>3. QED BY <1>1, <2>2, ChannelStutter DEF Start, ShutdownDone
<1>2. CASE \/ Shutdown
           \/ \E t \in Windows : Configure(t)
           \/ \E k \in Keys, h \in Handlers : Subscribe(k, h) \/ Unsubscribe(k, h)
           \/ \E w \in Workers : CancelAbsorbed(w)
           \/ UNCHANGED vars
  <2>1. UNCHANGED <<queue, waiting, dropped, abandoned, done, aborted, wpc, job>>
    BY <1>2 DEF Shutdown, Configure, Subscribe, Unsubscribe, CancelAbsorbed, vars
  <2>2. InHand' = InHand
    BY <2>1, SameInHand DEF IInv, EventsConserved, Busy
  <2>3. QED BY <2>1, <2>2, ChannelStutter
<1>3. ASSUME NEW e \in Events, \/ Emit(e) \/ \E w \in Workers : ReportEmits(w, e)
      PROVE  Channel!Next
  <2>1. Enqueue(e) /\ UNCHANGED <<abandoned, done, aborted, wpc, job>>
    BY <1>3 DEF Emit, ReportEmits
  <2>2. InHand' = InHand
    BY <2>1, SameInHand DEF IInv, EventsConserved, Busy
  <2>3. QED BY <2>1, <2>2, ChannelEnqueue DEF Channel!Next
<1>4. ASSUME NEW e \in Events, PutResumes(e) \/ PutTimesOut(e) \/ PutCancelled(e)
      PROVE  Channel!Next
  <2>1. UNCHANGED <<wpc, job, done, aborted>>
    BY <1>4 DEF PutResumes, PutTimesOut, PutCancelled
  <2>2. InHand' = InHand
    BY <2>1, SameInHand DEF IInv, EventsConserved, Busy
  <2>3. Channel!Admit(e) \/ Channel!GiveUp(e)
    BY <1>4, <2>1, <2>2 DEF PutResumes, PutTimesOut, PutCancelled, HasRoom,
                            Channel!Admit, Channel!GiveUp, Channel!HasRoom
  <2>4. QED BY <2>3 DEF Channel!Next
<1>5. ASSUME NEW w \in Workers, Get(w) PROVE Channel!Next
  <2> DEFINE e == Head(queue)
  <2>1. /\ queue # <<>> /\ queue' = Tail(queue) /\ ~Busy(w)
        /\ UNCHANGED <<waiting, dropped, abandoned, aborted>>
    BY <1>5 DEF Get, Busy
  <2>2. e \in Queued /\ e \in Events
    BY <2>1, TailQueue DEF IInv, TypeOK, EventsConserved, QueueInjective, Injective, Queued
  <2>3. CASE Snapshot(e) = <<>>
    <3>1. done' = done \cup {e} /\ UNCHANGED <<wpc, job>>
      BY <1>5, <2>3 DEF Get
    <3>2. InHand' = InHand
      BY <3>1, SameInHand DEF IInv, EventsConserved, Busy
    <3>3. Channel!TakeUnwanted
      BY <2>1, <3>1, <3>2 DEF Channel!TakeUnwanted
    <3>4. QED BY <3>3 DEF Channel!Next
  <2>4. CASE Snapshot(e) # <<>>
    <3>1. /\ wpc' = [wpc EXCEPT ![w] = "handling"] /\ job' = [job EXCEPT ![w] = e]
          /\ done' = done
      BY <1>5, <2>4 DEF Get
    <3>2. e \notin InHand
      BY <2>2 DEF IInv, EventsConserved, PlacesApart
    <3>3. InHand' = InHand \cup {e}
      BY <2>1, <2>2, <3>1, <3>2, TakeInHand DEF IInv, EventsConserved
    <3>4. Channel!Take
      BY <2>1, <3>1, <3>3 DEF Channel!Take
    <3>5. QED BY <3>4 DEF Channel!Next
  <2>5. QED BY <2>3, <2>4
<1>6. ASSUME NEW w \in Workers, HandlerReturns(w) \/ HandlerFails(w) \/ ReportReturns(w)
      PROVE  [Channel!Next]_Channel!vars
  <2>1. Busy(w) /\ UNCHANGED <<queue, waiting, dropped, abandoned, aborted>>
    BY <1>6 DEF HandlerReturns, HandlerFails, ReportReturns, Busy
  <2>2. CASE Advance(w)
    BY <2>1, <2>2, ChannelAdvance DEF Channel!Next
  <2>3. CASE ~Advance(w)
    <3>1. /\ wpc[w] = "handling" /\ wpc' = [wpc EXCEPT ![w] = "reporting"]
          /\ UNCHANGED <<job, done>>
      BY <1>6, <2>3 DEF HandlerReturns, HandlerFails, ReportReturns
    <3>2. \A v \in Workers : Busy(v)' <=> Busy(v)
      BY <3>1 DEF IInv, TypeOK, Busy
    <3>3. QED BY <2>1, <3>1, <3>2, SameInHand, ChannelStutter DEF IInv, EventsConserved
  <2>4. QED BY <2>2, <2>3
<1>7. ASSUME NEW w \in Workers, HandlerEscapes(w) \/ ReportRaises(w)
      PROVE  Channel!Next
  <2>1. PICK pc \in {"idle", "dead"} : Abort(w, pc)
    BY <1>7 DEF HandlerEscapes, ReportRaises, AfterJob
  <2>2. Busy(w) /\ UNCHANGED <<queue, waiting, dropped, abandoned, done>>
    BY <1>7 DEF HandlerEscapes, ReportRaises, Busy
  <2>3. QED BY <2>1, <2>2, ChannelAbort DEF Channel!Next
<1>8. ASSUME NEW w \in Workers, CancelDelivered(w)
      PROVE  [Channel!Next]_Channel!vars
  <2>1. /\ abandoned' = abandoned \cup ({notice[w]} \cap waiting)
        /\ waiting' = waiting \ {notice[w]}
        /\ UNCHANGED <<queue, dropped, done>>
    BY <1>8 DEF CancelDelivered
  <2>2. CASE Busy(w)
    BY <1>8, <2>1, <2>2, ChannelAbort DEF CancelDelivered, Channel!Next
  <2>3. CASE ~Busy(w)
    <3>1. /\ wpc[w] = "idle" /\ wpc' = [wpc EXCEPT ![w] = "dead"]
          /\ UNCHANGED <<aborted, job>>
      BY <1>8, <2>3 DEF CancelDelivered, Busy
    <3>2. \A v \in Workers : Busy(v)' <=> Busy(v)
      BY <3>1 DEF IInv, TypeOK, Busy
    <3>3. InHand' = InHand
      BY <3>1, <3>2, SameInHand DEF IInv, EventsConserved
    <3>4. CASE notice[w] \in waiting
      <4>1. Channel!GiveUp(notice[w])
        BY <2>1, <3>1, <3>3, <3>4 DEF Channel!GiveUp
      <4>2. notice[w] \in Events
        BY <3>4, EventsAssumption DEF IInv, TypeOK
      <4>3. QED BY <4>1, <4>2 DEF Channel!Next
    <3>5. CASE notice[w] \notin waiting
      BY <2>1, <3>1, <3>3, <3>5, ChannelStutter
    <3>6. QED BY <3>4, <3>5
  <2>4. QED BY <2>2, <2>3
<1>9. QED
  BY <1>1, <1>2, <1>3, <1>4, <1>5, <1>6, <1>7, <1>8 DEF Next, HandlerEnds

(* The event bus implements the event channel: accepted events leave in the  *)
(* order in which they were accepted, each once; only a full queue makes an  *)
(* event wait or get lost; a taken event is settled once.                    *)
THEOREM BusImplementsChannel ==
  ASSUME 0 \notin Windows
  PROVE  Spec => ImplementsChannel
<1>1. Init => Channel!Init
  BY DEF Init, InHand, Busy, Channel!Init
<1>2. IInv /\ [Next]_vars => [Channel!Next]_Channel!vars
  BY ChannelNext
<1>3. QED
  BY <1>1, <1>2, InductiveInvariant, PTL DEF Spec, ImplementsChannel, Channel!Spec

=============================================================================
