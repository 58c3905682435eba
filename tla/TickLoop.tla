------------------------------ MODULE TickLoop ------------------------------
(***************************************************************************)
(* The heartbeat of the controller: _tick_loop emits a ControllerTick per  *)
(* second.  It sleeps until the next tick is due, may be woken late, since *)
(* the event loop runs other coroutines, and time may pass while it emits. *)
(* Time is counted in units of which Second make one second.               *)
(*                                                                         *)
(* An operator whose name starts with Bug is the definition below it with  *)
(* a plausible mistake; no other definition uses it.                       *)
(***************************************************************************)
EXTENDS Integers

CONSTANTS Second,
          Horizon       \* bound: the time a run ends

ASSUME SecondAssumption == Second \in Nat \ {0}
ASSUME HorizonAssumption == Horizon \in Nat

VARIABLES now,          \* loop.time()
          next_tick,    \* when the next tick is due
          ticking,      \* where the loop is: asleep, emitting or cancelled
          ticks,        \* how many there were
          last,         \* the times of the last two
          slipped       \* a tick was late by a second or more

tickVars == <<now, next_tick, ticking, ticks, last, slipped>>

TickInit == /\ now = 0 /\ next_tick = Second
            /\ ticking = "asleep" /\ ticks = 0
            /\ last = [earlier |-> -Second - 1, later |-> -1]
            /\ slipped = FALSE

TimePasses == /\ now < Horizon
              /\ now' = now + 1
              /\ UNCHANGED <<next_tick, ticking, ticks, last, slipped>>

BugTicks == /\ ticking = "asleep"         \* a sleep of whole seconds
            /\ next_tick < now + Second
            /\ ticking' = "emitting" /\ ticks' = ticks + 1
            /\ last' = [earlier |-> last.later, later |-> now]
            /\ UNCHANGED <<now, next_tick, slipped>>

\* sleep() is over.  A ControllerTick is a normal event: emit() does not wait.
Ticks == /\ ticking = "asleep" /\ next_tick <= now
         /\ ticking' = "emitting" /\ ticks' = ticks + 1
         /\ last' = [earlier |-> last.later, later |-> now]
         /\ UNCHANGED <<now, next_tick, slipped>>

BugReschedules == /\ ticking = "emitting" \* ticks that were missed are made up for
                  /\ next_tick' = next_tick + Second
                  /\ slipped' = (slipped \/ next_tick + Second <= now)
                  /\ ticking' = "asleep"
                  /\ UNCHANGED <<now, ticks, last>>

Reschedules == /\ ticking = "emitting"
               /\ LET next == next_tick + Second
                  IN  /\ next_tick' = IF next <= now THEN now + Second ELSE next
                      /\ slipped' = (slipped \/ next <= now)
               /\ ticking' = "asleep"
               /\ UNCHANGED <<now, ticks, last>>

\* stop() cancels the loop, which can only be asleep then.
StopsTicking == /\ ticking = "asleep"
                /\ ticking' = "cancelled"
                /\ UNCHANGED <<now, next_tick, ticks, last, slipped>>

TickNext == TimePasses \/ Ticks \/ Reschedules \/ StopsTicking

TickSpec == TickInit /\ [][TickNext]_tickVars

-----------------------------------------------------------------------------
(* However late the loop is woken and however long an emission takes, any  *)
(* three ticks in a row span more than a second: ticks that were missed    *)
(* are not caught up (README.md:119).                                      *)
NoBursts == ticks >= 2 /\ ticking = "asleep" /\ next_tick <= now => now - last.earlier > Second

(* There are never more ticks than seconds went by, and while no tick was  *)
(* late by a second the lateness of one does not delay the ones after it:  *)
(* each is due a whole number of seconds after the start.                  *)
NoDrift == /\ ticks * Second <= now
           /\ ~slipped => next_tick = (IF ticking = "emitting" THEN ticks ELSE ticks + 1) * Second
=============================================================================
