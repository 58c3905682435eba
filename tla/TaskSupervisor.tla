--------------------------- MODULE TaskSupervisor ---------------------------
(***************************************************************************)
(* trackhelm.tasks: tasks with an owner, cancelled together, their crashes *)
(* reported through one handler.  A task that is over stays recorded until *)
(* its done callback has run, in a later round of the event loop.          *)
(*                                                                         *)
(* An operator whose name starts with Bug is the definition below it with  *)
(* a plausible mistake; no other definition uses it.                       *)
(***************************************************************************)
EXTENDS Naturals, FiniteSets

CONSTANTS Tasks,        \* bound: the tasks there will ever be
          Owners,       \* plugins that own tasks
          Core,         \* the owner of the controller's tasks (None)
          Cancellers    \* coroutines that call cancel_owner or cancel_all

ASSUME TasksAssumption == IsFiniteSet(Tasks)

VARIABLES owner,        \* [Tasks -> owner]
          life,         \* [Tasks -> "none", "running", or how the task ended]
          asked,        \* the tasks cancel() was called for
          records,      \* TaskSupervisor._tasks
          crashedCount, \* _crashed
          faults,       \* tasks whose crash is to be reported, in a task of its own
          reported,     \* tasks whose crash was reported
          awaits        \* [Cancellers -> the tasks it awaits, in a set, or {}]

taskVars == <<owner, life, asked, records, crashedCount, faults, reported, awaits>>

Ended == {"returned", "raised", "cancelled"}

TasksInit == /\ owner = [t \in Tasks |-> Core]
             /\ life = [t \in Tasks |-> "none"]
             /\ asked = {} /\ records = {} /\ crashedCount = 0
             /\ faults = {} /\ reported = {}
             /\ awaits = [c \in Cancellers |-> {}]

\* create_task.
Create(t, o) == /\ life[t] = "none"
                /\ life' = [life EXCEPT ![t] = "running"]
                /\ owner' = [owner EXCEPT ![t] = o]
                /\ records' = records \cup {t}
                /\ UNCHANGED <<asked, crashedCount, faults, reported, awaits>>

\* A task returns, raises, or lets a CancelledError out, be it the supervisor's
\* or another's; it may ignore one, or raise something else because of it.
Ends(t, how) == /\ life[t] = "running"
                /\ how \in Ended
                /\ life' = [life EXCEPT ![t] = how]
                /\ UNCHANGED <<owner, asked, records, crashedCount, faults, reported, awaits>>

\* A task that was cancelled is not looked at any more.
BugOnDone(t) == /\ t \in records /\ life[t] \in Ended
                /\ records' = records \ {t}
                /\ IF life[t] = "raised" /\ t \notin asked
                   THEN /\ crashedCount' = crashedCount + 1
                        /\ faults' = faults \cup {t}
                   ELSE UNCHANGED <<crashedCount, faults>>
                /\ UNCHANGED <<owner, life, asked, reported, awaits>>

\* The done callback.
OnDone(t) == /\ t \in records /\ life[t] \in Ended
             /\ records' = records \ {t}
             /\ IF life[t] = "raised"
                THEN /\ crashedCount' = crashedCount + 1
                     /\ faults' = faults \cup {t}
                ELSE UNCHANGED <<crashedCount, faults>>
             /\ UNCHANGED <<owner, life, asked, reported, awaits>>

\* The fault handler runs for the crash of t.
Reports(t) == /\ t \in faults
              /\ faults' = faults \ {t}
              /\ reported' = reported \cup {t}
              /\ UNCHANGED <<owner, life, asked, records, crashedCount, awaits>>

\* _cancel_records, for the records of some owners: it does not suspend when
\* all their tasks are over.
CancelRecords(c, of) ==
  /\ awaits[c] = {}
  /\ LET live == {t \in records : owner[t] \in of /\ life[t] = "running"}
     IN /\ live # {}
        /\ asked' = asked \cup live
        /\ awaits' = [awaits EXCEPT ![c] = live]
  /\ UNCHANGED <<owner, life, records, crashedCount, faults, reported>>

\* The gather() ends when all of its tasks have, and their done callbacks have
\* run: neither cancel_timeout nor the TimeoutError that follows ends it
\* before (wait_for waits for what it cancels).
CancelReturns(c) == /\ awaits[c] # {} /\ awaits[c] \cap records = {}
                    /\ awaits' = [awaits EXCEPT ![c] = {}]
                    /\ UNCHANGED <<owner, life, asked, records, crashedCount, faults, reported>>

-----------------------------------------------------------------------------
TasksTypeOK ==
  /\ owner \in [Tasks -> Owners \cup {Core}]
  /\ life \in [Tasks -> {"none", "running"} \cup Ended]
  /\ asked \subseteq Tasks /\ records \subseteq Tasks
  /\ crashedCount \in 0..Cardinality(Tasks)
  /\ faults \subseteq Tasks /\ reported \subseteq Tasks
  /\ awaits \in [Cancellers -> SUBSET asked]

(* Every crash is counted and reported once, whoever cancels the task while  *)
(* it crashes, and nothing else is; a running task is on record, so that a   *)
(* cancellation finds it (_on_done).                                         *)
CrashesExact ==
  /\ \A t \in Tasks : life[t] = "running" => t \in records
  /\ faults \cap reported = {}
  /\ faults \cup reported = {t \in Tasks : life[t] = "raised" /\ t \notin records}
  /\ crashedCount = Cardinality(faults \cup reported)

=============================================================================
