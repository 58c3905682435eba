---------------------------- MODULE EventChannel ----------------------------
(***************************************************************************)
(* What the event bus promises to those who emit events and to those who   *)
(* handle them, with workers, handlers and subscriptions left out: a       *)
(* bounded line of accepted events.                                        *)
(*                                                                         *)
(*  - An event is offered once.  It is accepted while the line has room;   *)
(*    when the line is full an ordinary event is lost at once and a        *)
(*    protected one may wait for room, or give up.                         *)
(*  - Accepted events leave the line in the order in which they entered    *)
(*    it, each one once, and an event that was taken is settled: it is     *)
(*    never offered, taken or lost again.                                  *)
(***************************************************************************)
EXTENDS Naturals, Sequences

CONSTANTS Events,       \* every event that can be emitted
          Protected,    \* the events that may wait for room
          Capacity      \* the length of the line

VARIABLES line,         \* the accepted events, oldest first
          waiting,      \* protected events that wait for room
          taken,        \* events being handled
          settled,      \* events whose handling is over
          lost          \* events that were refused or gave up

vars == <<line, waiting, taken, settled, lost>>

InLine == {line[i] : i \in DOMAIN line}

\* An event nobody has offered yet.
Fresh(e) == e \notin InLine \cup waiting \cup taken \cup settled \cup lost

HasRoom == Len(line) < Capacity

Init == /\ line = <<>>
        /\ waiting = {} /\ taken = {} /\ settled = {} /\ lost = {}

Accept(e) == /\ Fresh(e) /\ HasRoom
             /\ line' = Append(line, e)
             /\ UNCHANGED <<waiting, taken, settled, lost>>

Wait(e) == /\ Fresh(e) /\ e \in Protected /\ ~HasRoom
           /\ waiting' = waiting \cup {e}
           /\ UNCHANGED <<line, taken, settled, lost>>

Refuse(e) == /\ Fresh(e) /\ e \notin Protected /\ ~HasRoom
             /\ lost' = lost \cup {e}
             /\ UNCHANGED <<line, waiting, taken, settled>>

Admit(e) == /\ e \in waiting /\ HasRoom
            /\ waiting' = waiting \ {e}
            /\ line' = Append(line, e)
            /\ UNCHANGED <<taken, settled, lost>>

GiveUp(e) == /\ e \in waiting
             /\ waiting' = waiting \ {e}
             /\ lost' = lost \cup {e}
             /\ UNCHANGED <<line, taken, settled>>

Take == /\ line # <<>>
        /\ taken' = taken \cup {Head(line)}
        /\ line' = Tail(line)
        /\ UNCHANGED <<waiting, settled, lost>>

\* Nobody wants the event: it is settled as soon as it is taken.
TakeUnwanted == /\ line # <<>>
                /\ settled' = settled \cup {Head(line)}
                /\ line' = Tail(line)
                /\ UNCHANGED <<waiting, taken, lost>>

Settle(e) == /\ e \in taken
             /\ taken' = taken \ {e}
             /\ settled' = settled \cup {e}
             /\ UNCHANGED <<line, waiting, lost>>

\* A taken event that settles while its handler's own protected event, which
\* was waiting for room, is given up: both happen when a worker is cancelled.
SettleAndGiveUp(e, f) == /\ e \in taken /\ f \in waiting
                         /\ taken' = taken \ {e}
                         /\ settled' = settled \cup {e}
                         /\ waiting' = waiting \ {f}
                         /\ lost' = lost \cup {f}
                         /\ UNCHANGED line

Next == \/ \E e \in Events : \/ Accept(e) \/ Wait(e) \/ Refuse(e)
                             \/ Admit(e) \/ GiveUp(e) \/ Settle(e)
        \/ \E e, f \in Events : SettleAndGiveUp(e, f)
        \/ Take \/ TakeUnwanted

Spec == Init /\ [][Next]_vars

=============================================================================
