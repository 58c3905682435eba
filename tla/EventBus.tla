------------------------------ MODULE EventBus ------------------------------
(***************************************************************************)
(* trackhelm.eventbus.EventBus: a bounded asyncio queue, the subscription  *)
(* tables and the pool of worker tasks that dispatch queued events.        *)
(*                                                                         *)
(* Every event is an instance of its own, emitted at most once.  An action *)
(* is the code between two awaits that really suspend; the events that     *)
(* happen while a worker is suspended (other emissions, subscriptions,     *)
(* shutdown) are the steps of the other actions.                           *)
(*                                                                         *)
(* An operator whose name starts with Bug is the definition below it with  *)
(* a plausible mistake; no other definition uses it.                       *)
(***************************************************************************)
EXTENDS Naturals, Sequences, FiniteSets, Functions

CONSTANTS Events,       \* event instances
          Lifecycle,    \* those of class ControllerStateChanged
          Typed,        \* instances of BaseEvent; the others are legacy events
          Keys,         \* subscription keys: event classes and GBX names
          ClassOf,      \* [Typed -> Keys], the class of a typed event
          NameOf,       \* [Events -> Keys], gbx_name or the legacy name
          Handlers,     \* callables that may be subscribed
          Owned,        \* those subscribed with an owner (a plugin)
          Workers,      \* one model value per worker task
          Outcomes,     \* what a handler may do: "returns", "fails", "escapes"
          QueueSize,    \* event_bus.queue_size
          Windows,      \* values high_priority_timeout may be configured to
          MaxSubs,      \* bound: registrations under one key
          NoEvent

ASSUME EventsAssumption == /\ Lifecycle \subseteq Typed
                           /\ Typed \subseteq Events
                           /\ NoEvent \notin Events
                           /\ ClassOf \in [Typed -> Keys]
                           /\ NameOf \in [Events -> Keys]
ASSUME HandlersAssumption == Owned \subseteq Handlers
ASSUME SizeAssumption == /\ QueueSize \in Nat \ {0}
                         /\ Windows \subseteq Nat
                         /\ MaxSubs \in Nat
ASSUME OutcomesAssumption == Outcomes \subseteq {"returns", "fails", "escapes"}

VARIABLES phase,        \* "stopped", "up", or "draining" inside shutdown()
          window,       \* _high_priority_timeout
          queue,        \* _queue
          waiting,      \* events whose emitter is suspended in queue.put
          subs,         \* _handlers_by_type and _handlers_by_name
          emitted,      \* what the metric `emitted` counts
          dropped,      \* what the metric `dropped` counts
          abandoned,    \* events whose emitter was cancelled inside emit
          done,         \* events whose dispatch ran to its end
          aborted,      \* events whose dispatch was cut short
          wpc,          \* [Workers -> where the worker task is]
          job,          \* [Workers -> the event the worker dispatches]
          todo,         \* [Workers -> the handlers left, the running one first]
          notice,       \* [Workers -> the event its fault handler emits]
          cancelled     \* [Workers -> task.cancel() not delivered yet]

emitVars == <<emitted, dropped>>
workerVars == <<wpc, job, todo, notice, cancelled>>
vars == <<phase, window, queue, waiting, subs, emitted, dropped, abandoned,
          done, aborted, wpc, job, todo, notice, cancelled>>

WorkerStates == {"none", "idle", "handling", "reporting", "dead"}

Busy(w) == wpc[w] \in {"handling", "reporting"}

HasRoom == Len(queue) < QueueSize

\* The handlers _dispatch copies: those of the event's class, then those of
\* its GBX name; a legacy event has a name only.
Snapshot(e) == (IF e \in Typed THEN subs[ClassOf[e]] ELSE <<>>) \o subs[NameOf[e]]

-----------------------------------------------------------------------------
Init == /\ phase = "stopped"
        /\ window \in Windows
        /\ queue = <<>>
        /\ waiting = {}
        /\ subs = [k \in Keys |-> <<>>]
        /\ emitted = {} /\ dropped = {} /\ abandoned = {}
        /\ done = {} /\ aborted = {}
        /\ wpc = [w \in Workers |-> "none"]
        /\ job = [w \in Workers |-> NoEvent]
        /\ todo = [w \in Workers |-> <<>>]
        /\ notice = [w \in Workers |-> NoEvent]
        /\ cancelled = [w \in Workers |-> FALSE]

\* start(): nothing when already running, else one task per worker.
Start == /\ phase = "stopped"
         /\ phase' = "up"
         /\ wpc' = [w \in Workers |-> "idle"]
         /\ cancelled' = [w \in Workers |-> FALSE]
         /\ UNCHANGED <<window, queue, waiting, subs, emitVars, abandoned,
                        done, aborted, job, todo, notice>>

\* Workers that wait for an event are not cancelled.
BugShutdown == /\ phase = "up"
               /\ phase' = "draining"
               /\ cancelled' = [w \in Workers |-> Busy(w)]
               /\ UNCHANGED <<window, queue, waiting, subs, emitVars, abandoned,
                              done, aborted, wpc, job, todo, notice>>

\* shutdown() up to its await: every worker that still runs is cancelled.
Shutdown == /\ phase = "up"
            /\ phase' = "draining"
            /\ cancelled' = [w \in Workers |-> wpc[w] # "dead"]
            /\ UNCHANGED <<window, queue, waiting, subs, emitVars, abandoned,
                           done, aborted, wpc, job, todo, notice>>

\* gather() returns when every worker task is done.  What is still queued
\* stays there, for a later start().
ShutdownDone == /\ phase = "draining"
                /\ \A w \in Workers : wpc[w] = "dead"
                /\ phase' = "stopped"
                /\ wpc' = [w \in Workers |-> "none"]
                /\ UNCHANGED <<window, queue, waiting, subs, emitVars, abandoned,
                               done, aborted, job, todo, notice, cancelled>>

\* configure(), called by a configuration reload.
Configure(t) == /\ window' = t
                /\ UNCHANGED <<phase, queue, waiting, subs, emitVars, abandoned,
                               done, aborted, workerVars>>

\* subscribe() appends, whatever is registered already.
Subscribe(k, h) == /\ Len(subs[k]) < MaxSubs
                   /\ subs' = [subs EXCEPT ![k] = Append(@, h)]
                   /\ UNCHANGED <<phase, window, queue, waiting, emitVars,
                                  abandoned, done, aborted, workerVars>>

\* unsubscribe() removes every registration of the handler under the key.
Without(s, h) == SelectSeq(s, LAMBDA x : x # h)

Unsubscribe(k, h) == /\ subs' = [subs EXCEPT ![k] = Without(@, h)]
                     /\ UNCHANGED <<phase, window, queue, waiting, emitVars,
                                    abandoned, done, aborted, workerVars>>

-----------------------------------------------------------------------------
(* emit() and _enqueue().  A normal event is queued or dropped at once.  A   *)
(* lifecycle event goes through wait_for(queue.put): put does not suspend    *)
(* while there is room, even when other emitters wait, and wait_for with a   *)
(* timeout of 0 cancels put before it starts, room or not.                   *)

PutNow(e) == /\ HasRoom
             /\ e \in Lifecycle => window > 0
             /\ queue' = Append(queue, e)
             /\ UNCHANGED <<waiting, dropped>>

PutLater(e) == /\ ~HasRoom /\ e \in Lifecycle /\ window > 0
               /\ waiting' = waiting \cup {e}
               /\ UNCHANGED <<queue, dropped>>

\* A normal event makes way for the emitters that wait.
BugDropEvent(e) == /\ \/ e \in Lifecycle /\ window = 0
                      \/ e \notin Lifecycle /\ (~HasRoom \/ waiting # {})
                   /\ dropped' = dropped \cup {e}
                   /\ UNCHANGED <<queue, waiting>>

DropEvent(e) == /\ \/ e \in Lifecycle /\ window = 0
                   \/ e \notin Lifecycle /\ ~HasRoom
                /\ dropped' = dropped \cup {e}
                /\ UNCHANGED <<queue, waiting>>

Enqueue(e) == /\ e \notin emitted
              /\ emitted' = emitted \cup {e}
              /\ PutNow(e) \/ PutLater(e) \/ DropEvent(e)

\* Any task other than a worker's fault handler: the controller, the GBX
\* listener, a chat route, a plugin.
Emit(e) == /\ Enqueue(e)
           /\ UNCHANGED <<phase, window, subs, abandoned, done, aborted, workerVars>>

\* A woken put does not look for room again.
BugPutResumes(e) == /\ e \in waiting
                    /\ waiting' = waiting \ {e}
                    /\ queue' = Append(queue, e)
                    /\ UNCHANGED <<phase, window, subs, emitVars, abandoned,
                                   done, aborted, workerVars>>

\* A suspended put finds room.  asyncio wakes the putters in order, but one
\* that finds the queue full again waits anew at the end, so any may be next.
PutResumes(e) == /\ e \in waiting /\ HasRoom
                 /\ waiting' = waiting \ {e}
                 /\ queue' = Append(queue, e)
                 /\ UNCHANGED <<phase, window, subs, emitVars, abandoned,
                                done, aborted, workerVars>>

\* The put that timed out is not cancelled.
BugPutTimesOut(e) == /\ e \in waiting
                     /\ dropped' = dropped \cup {e}
                     /\ UNCHANGED <<phase, window, queue, waiting, subs, emitted,
                                    abandoned, done, aborted, workerVars>>

\* The put is awaited without a timeout.
BugPutWaits(e) == /\ e \in waiting /\ HasRoom
                  /\ waiting' = waiting \ {e}
                  /\ queue' = Append(queue, e)
                  /\ UNCHANGED <<phase, window, subs, emitVars, abandoned,
                                 done, aborted, workerVars>>

\* high_priority_timeout expires; it can win the race against a wake-up.
PutTimesOut(e) == /\ e \in waiting
                  /\ waiting' = waiting \ {e}
                  /\ dropped' = dropped \cup {e}
                  /\ UNCHANGED <<phase, window, queue, subs, emitted, abandoned,
                                 done, aborted, workerVars>>

\* The emitting task (the supervisor inside stop(), say) is cancelled: the
\* CancelledError leaves emit() and the event is counted nowhere.
PutCancelled(e) == /\ e \in waiting
                   /\ \A w \in Workers : notice[w] # e
                   /\ waiting' = waiting \ {e}
                   /\ abandoned' = abandoned \cup {e}
                   /\ UNCHANGED <<phase, window, queue, subs, emitVars,
                                  done, aborted, workerVars>>

-----------------------------------------------------------------------------
(* _worker_loop() and _dispatch().                                          *)

BugAfterJob == "dead"                       \* `if` for `while`
\* Where a worker whose dispatch is over goes: round `while self._running`.
AfterJob == IF phase = "up" THEN "idle" ELSE "dead"

Clear(w) == /\ job' = [job EXCEPT ![w] = NoEvent]
            /\ todo' = [todo EXCEPT ![w] = <<>>]
            /\ notice' = [notice EXCEPT ![w] = NoEvent]

\* queue.get() returns and _dispatch copies the handlers; without handlers
\* the event is done with.
Get(w) == /\ wpc[w] = "idle" /\ ~cancelled[w] /\ queue # <<>>
          /\ queue' = Tail(queue)
          /\ LET e == Head(queue) IN
             IF Snapshot(e) = <<>>
             THEN /\ done' = done \cup {e}
                  /\ UNCHANGED <<wpc, job, todo>>
             ELSE /\ wpc' = [wpc EXCEPT ![w] = "handling"]
                  /\ job' = [job EXCEPT ![w] = e]
                  /\ todo' = [todo EXCEPT ![w] = Snapshot(e)]
                  /\ UNCHANGED done
          /\ UNCHANGED <<phase, window, waiting, subs, emitVars, abandoned,
                         aborted, notice, cancelled>>

\* On to the next handler of the copy, or the end of the dispatch.
Advance(w) == IF Len(todo[w]) > 1
              THEN /\ todo' = [todo EXCEPT ![w] = Tail(@)]
                   /\ wpc' = [wpc EXCEPT ![w] = "handling"]
                   /\ notice' = [notice EXCEPT ![w] = NoEvent]
                   /\ UNCHANGED <<job, done>>
              ELSE /\ done' = done \cup {job[w]}
                   /\ wpc' = [wpc EXCEPT ![w] = AfterJob]
                   /\ Clear(w)

\* The dispatch ends early and the worker goes to `pc`.
Abort(w, pc) == /\ aborted' = aborted \cup {job[w]}
                /\ wpc' = [wpc EXCEPT ![w] = pc]
                /\ Clear(w)

HandlerReturns(w) == /\ wpc[w] = "handling" /\ "returns" \in Outcomes
                     /\ Advance(w)
                     /\ UNCHANGED <<phase, window, queue, waiting, subs, emitVars,
                                    abandoned, aborted, cancelled>>

\* The handler raises, or wait_for ends it after handler_timeout: the fault
\* is reported when the registration has an owner.
HandlerFails(w) == /\ wpc[w] = "handling" /\ "fails" \in Outcomes
                   /\ IF Head(todo[w]) \in Owned
                      THEN /\ wpc' = [wpc EXCEPT ![w] = "reporting"]
                           /\ UNCHANGED <<job, todo, notice, done>>
                      ELSE Advance(w)
                   /\ UNCHANGED <<phase, window, queue, waiting, subs, emitVars,
                                  abandoned, aborted, cancelled>>

\* A CancelledError that is not the worker's own leaves the handler (it
\* awaited a task that someone cancelled).  `except Exception` does not catch
\* it and _worker_loop re-raises it: the worker task ends.
HandlerEscapes(w) == /\ wpc[w] = "handling" /\ "escapes" \in Outcomes
                     /\ Abort(w, "dead")
                     /\ UNCHANGED <<phase, window, queue, waiting, subs, emitVars,
                                    abandoned, done, cancelled>>

\* The fault handler runs inside the worker, with no timeout of its own, and
\* emits lifecycle events (DEGRADED) into the queue this worker drains.
NotSuspended(w) == notice[w] \notin waiting

ReportEmits(w, e) == /\ wpc[w] = "reporting" /\ NotSuspended(w)
                     /\ e \in Lifecycle /\ Enqueue(e)
                     /\ notice' = [notice EXCEPT ![w] = e]
                     /\ UNCHANGED <<phase, window, subs, abandoned, done, aborted,
                                    wpc, job, todo, cancelled>>

ReportReturns(w) == /\ wpc[w] = "reporting" /\ NotSuspended(w)
                    /\ Advance(w)
                    /\ UNCHANGED <<phase, window, queue, waiting, subs, emitVars,
                                   abandoned, aborted, cancelled>>

\* An exception of the fault handler is logged by _worker_loop; the handlers
\* that were left are skipped.
ReportRaises(w) == /\ wpc[w] = "reporting" /\ NotSuspended(w)
                   /\ Abort(w, AfterJob)
                   /\ UNCHANGED <<phase, window, queue, waiting, subs, emitVars,
                                  abandoned, done, cancelled>>

\* The cancellation of shutdown() ends the worker wherever it is suspended;
\* what it had in hand, and the event its fault handler was emitting, are lost.
CancelDelivered(w) == /\ cancelled[w] /\ wpc[w] \in {"idle", "handling", "reporting"}
                      /\ cancelled' = [cancelled EXCEPT ![w] = FALSE]
                      /\ IF Busy(w)
                         THEN Abort(w, "dead")
                         ELSE /\ wpc' = [wpc EXCEPT ![w] = "dead"]
                              /\ UNCHANGED <<aborted, job, todo, notice>>
                      /\ abandoned' = abandoned \cup ({notice[w]} \cap waiting)
                      /\ waiting' = waiting \ {notice[w]}
                      /\ UNCHANGED <<phase, window, queue, subs, emitVars, done>>

\* Code of a plugin (a handler, a teardown) swallows the CancelledError.
CancelAbsorbed(w) == /\ cancelled[w] /\ Busy(w) /\ NotSuspended(w)
                     /\ cancelled' = [cancelled EXCEPT ![w] = FALSE]
                     /\ UNCHANGED <<phase, window, queue, waiting, subs, emitVars,
                                    abandoned, done, aborted, wpc, job, todo, notice>>

-----------------------------------------------------------------------------
HandlerEnds(w) == HandlerReturns(w) \/ HandlerFails(w) \/ HandlerEscapes(w)

Next == \/ Start \/ Shutdown \/ ShutdownDone
        \/ \E t \in Windows : Configure(t)
        \/ \E k \in Keys, h \in Handlers : Subscribe(k, h) \/ Unsubscribe(k, h)
        \/ \E e \in Events : Emit(e) \/ PutResumes(e) \/ PutTimesOut(e) \/ PutCancelled(e)
        \/ \E w \in Workers : \/ Get(w) \/ HandlerEnds(w)
                              \/ ReportReturns(w) \/ ReportRaises(w)
                              \/ CancelDelivered(w) \/ CancelAbsorbed(w)
        \/ \E w \in Workers, e \in Events : ReportEmits(w, e)

Spec == Init /\ [][Next]_vars

(***************************************************************************)
(* Fairness.  The event loop runs every ready task: a worker that can go   *)
(* on goes on, a suspended put is woken or times out, a cancellation is    *)
(* thrown into its task.  handler_timeout (at least 0.1 s) ends every      *)
(* handler.  Nothing ends the fault handler, which awaits                  *)
(* plugin.teardown(): that it returns is the assumption ReportFairness.    *)
(***************************************************************************)
LoopFairness == /\ \A w \in Workers : /\ WF_vars(Get(w))
                                      /\ WF_vars(HandlerEnds(w))
                                      /\ WF_vars(CancelDelivered(w))
                /\ \A e \in Events : WF_vars(PutResumes(e) \/ PutTimesOut(e))
                /\ WF_vars(ShutdownDone)

ReportFairness == \A w \in Workers : WF_vars(ReportReturns(w) \/ ReportRaises(w))

LoopSpec == Spec /\ LoopFairness
FairSpec == LoopSpec /\ ReportFairness

-----------------------------------------------------------------------------
(* Type invariant.                                                          *)
TypeOK == /\ phase \in {"stopped", "up", "draining"}
          /\ window \in Windows
          /\ queue \in Seq(Events) /\ Len(queue) <= QueueSize
          /\ waiting \subseteq Lifecycle
          /\ emitted \subseteq Events
          /\ wpc \in [Workers -> WorkerStates]
          /\ job \in [Workers -> Events \cup {NoEvent}]
          /\ notice \in [Workers -> Lifecycle \cup {NoEvent}]
          /\ cancelled \in [Workers -> BOOLEAN]

Queued == Range(queue)
InHand == {job[w] : w \in {v \in Workers : Busy(v)}}

\* A worker dispatches an event exactly while it is busy, and no two workers
\* have the same event in hand.
JobsApart == /\ \A w \in Workers : Busy(w) <=> job[w] # NoEvent
             /\ \A v, w \in Workers : Busy(v) /\ job[v] = job[w] => v = w

\* No event stands in the queue twice.
QueueInjective == \A i, j \in DOMAIN queue : queue[i] = queue[j] => i = j

\* Each event emitted is in one place only.
PlacesApart == /\ Queued \cap (waiting \cup InHand \cup dropped \cup abandoned \cup done \cup aborted) = {}
               /\ waiting \cap (InHand \cup dropped \cup abandoned \cup done \cup aborted) = {}
               /\ InHand \cap (dropped \cup abandoned \cup done \cup aborted) = {}
               /\ dropped \cap (abandoned \cup done \cup aborted) = {}
               /\ abandoned \cap (done \cup aborted) = {}
               /\ done \cap aborted = {}

(* Every event given to emit() is accounted for, in exactly one way: queued, *)
(* held by a suspended emitter, in the hands of one worker, dropped,         *)
(* abandoned by a cancelled emitter, dispatched, or cut short.  Nothing is   *)
(* dispatched twice and nothing vanishes, whatever the order of emissions,   *)
(* timeouts, cancellations and restarts (_enqueue, _worker_loop, shutdown).  *)
EventsConserved ==
  /\ emitted = Queued \cup waiting \cup InHand \cup dropped \cup abandoned \cup done \cup aborted
  /\ PlacesApart /\ QueueInjective /\ JobsApart

(* An event is dropped for the reason the log gives ("the queue is full"):   *)
(* the queue is full at that moment, or the event had waited for room.       *)
DroppedOnlyWhenFull ==
  [][\A e \in dropped' \ dropped : e \in waiting \/ ~HasRoom]_vars

(* A worker task ends because shutdown() cancelled it or it saw the bus      *)
(* stopped, never because of what a handler did.                             *)
WorkersOutliveHandlers ==
  [][\A w \in Workers : wpc[w] # "dead" /\ wpc'[w] = "dead" => phase = "draining"]_vars

(* While the bus stays up, an event that was accepted is dispatched, however *)
(* many handlers before it raise or time out.                                *)
AcceptedIsDispatched ==
  \A e \in Events : e \in Queued ~> (e \in done \cup aborted \/ phase # "up")

(* emit() returns: no emitter of a lifecycle event is suspended for ever,    *)
(* not even a worker whose own fault handler waits for room in the queue     *)
(* that only this worker could empty.                                        *)
EmitReturns == \A e \in Lifecycle : e \in waiting ~> e \notin waiting

(* shutdown() returns, whatever the workers were doing.                      *)
ShutdownReturns == phase = "draining" ~> phase = "stopped"

(* The bus implements the bounded event channel, when lifecycle events have  *)
(* a window at all.                                                          *)
Channel == INSTANCE EventChannel WITH
             Protected <- Lifecycle, Capacity <- QueueSize,
             line <- queue, taken <- InHand,
             settled <- done \cup aborted, lost <- dropped \cup abandoned
ImplementsChannel == Channel!Spec

=============================================================================
