---------------------------- MODULE GbxCallbacks ----------------------------
(***************************************************************************)
(* From the packets of the server to events: GbxClient._read_packet with   *)
(* the codec, the event classes and the models their parameters become.    *)
(* The listener reads one packet after the other and emits what is to be   *)
(* dispatched; lines of chat that are routed have a task of their own.     *)
(*                                                                         *)
(* A parameter of a callback is plain, a structure, or a list with one     *)
(* structure; of a structure it matters which keys hold no number.         *)
(* Callbacks are named without their prefix.                               *)
(*                                                                         *)
(* An operator whose name starts with Bug is the definition below it with  *)
(* a plausible mistake; no other definition uses it.                       *)
(***************************************************************************)
EXTENDS Naturals, Sequences, FiniteSets, GbxTables

CONSTANTS Packets,      \* bound: what the server may send
          MaxPackets,   \* bound: how many packets
          Msb           \* the top bit of a handle

ASSUME MaxPacketsAssumption == MaxPackets \in Nat
ASSUME MsbAssumption == Msb \in Nat \ {0}

VARIABLES chat_router,  \* whether lines of chat are routed
          sent,         \* the packets, in the order they were sent
          read,         \* how many of them were read
          listening,    \* the listener has not failed
          emitted,      \* what was emitted on the bus, and for which packet
          routing       \* the lines that have a task

callbackVars == <<chat_router, sent, read, listening, emitted, routing>>

-----------------------------------------------------------------------------
(* models.py: the keys whose values become numbers, or raise.              *)

NumberKeys == [
  ChallengeInfo |-> {"BronzeTime", "SilverTime", "GoldTime", "AuthorTime", "CopperPrice",
                     "NbLaps", "NbCheckpoints"},
  PlayerRanking |-> {"PlayerId", "Rank", "BestTime", "BestCheckpoints", "Score",
                     "NbrLapsFinished", "LadderScore"},
  PlayerInfo    |-> {"PlayerId", "TeamId", "SpectatorStatus", "LadderRanking", "Flags"}]

(* events.py: what the annotations of the fields make of the parameters.   *)

Plain(n) == [i \in 1..n |-> "plain"]

PlayerEvents == [PlayerConnect |-> Plain(2), PlayerDisconnect |-> Plain(1), PlayerChat |-> Plain(4)]

ControllerEvents == [ChatCommand |-> Plain(5), ControllerTick |-> Plain(0),
                     ControllerStateChanged |-> Plain(3)]

RaceEvents == [
  PlayerManialinkPageAnswer |-> Plain(3), Echo |-> Plain(2),
  ServerStart |-> Plain(0), ServerStop |-> Plain(0),
  BeginRace |-> <<"ChallengeInfo">>, EndRace |-> <<"PlayerRanking", "ChallengeInfo">>,
  BeginChallenge |-> <<"ChallengeInfo", "plain", "plain">>,
  EndChallenge |-> <<"PlayerRanking", "ChallengeInfo", "plain", "plain", "plain">>,
  BeginRound |-> Plain(0), EndRound |-> Plain(0)]

StatusEvents == [
  StatusChanged |-> Plain(2), PlayerCheckpoint |-> Plain(5), PlayerFinish |-> Plain(3),
  PlayerIncoherence |-> Plain(2), BillUpdated |-> Plain(4), TunnelDataReceived |-> Plain(3),
  ChallengeListModified |-> Plain(3), PlayerInfoChanged |-> <<"PlayerInfo">>,
  ManualFlowControlTransition |-> Plain(1), VoteUpdated |-> Plain(4)]

EventFields == Merge(Merge(PlayerEvents, ControllerEvents), Merge(RaceEvents, StatusEvents))

Lists == {"PlayerRanking"}      \* annotated as lists of the model

\* Whether a parameter becomes a model, or stays what it is.
Converted(annotation, param) ==
  /\ annotation # "plain"
  /\ param.sort = IF annotation \in Lists THEN "list" ELSE "struct"

\* from_gbx_params: missing parameters are None, parameters in excess ignored.
FieldsOf(class, params) ==
  [i \in DOMAIN EventFields[class] |->
     IF i > Len(params) THEN "None"
     ELSE IF Converted(EventFields[class][i], params[i]) THEN "model" ELSE "as sent"]

Raises(class, params) ==
  \E i \in DOMAIN EventFields[class] \cap DOMAIN params :
     /\ Converted(EventFields[class][i], params[i])
     /\ params[i].texts \cap NumberKeys[EventFields[class][i]] # {}

-----------------------------------------------------------------------------
(* protocol.py and codec.py                                                *)

IsCallback(packet) == packet.handle < Msb

\* What makes _read_packet raise: the listener ends and the session with it.
EndsSession(packet) == \/ packet.large
                       \/ packet.body \in {"garbage", "fault"}
                       \/ IsCallback(packet) /\ packet.body = "answer"

CallbacksInit == /\ chat_router \in BOOLEAN
                 /\ sent = <<>> /\ read = 0 /\ listening = TRUE
                 /\ emitted = <<>> /\ routing = {}

Sends == /\ Len(sent) < MaxPackets
         /\ \E packet \in Packets : sent' = Append(sent, packet)
         /\ UNCHANGED <<chat_router, read, listening, emitted, routing>>

BugTyped(packet) == packet.method \in DOMAIN EventFields        \* whatever it holds
Typed(packet) == packet.method \in DOMAIN EventFields /\ ~Raises(packet.method, packet.params)

Routed(packet) == Typed(packet) /\ packet.method = "PlayerChat" /\ chat_router

Emits(i, event) == emitted' = Append(emitted, [packet |-> i, event |-> event])

ReadsPacket ==
  /\ listening /\ read < Len(sent)
  /\ read' = read + 1
  /\ LET packet == sent[read + 1]
     IN  \/ /\ EndsSession(packet)
            /\ listening' = FALSE
            /\ UNCHANGED <<emitted, routing>>
         \/ /\ ~EndsSession(packet) /\ ~IsCallback(packet)
            /\ UNCHANGED <<listening, emitted, routing>>
         \/ /\ ~EndsSession(packet) /\ IsCallback(packet)
            /\ IF Routed(packet)
               THEN routing' = routing \cup {read + 1} /\ UNCHANGED emitted
               ELSE /\ Emits(read + 1, IF Typed(packet) THEN "typed" ELSE "raw")
                    /\ UNCHANGED routing
            /\ UNCHANGED listening
  /\ UNCHANGED <<chat_router, sent>>

\* The router is done with a line: cancelled by a plugin or failed, a command,
\* or forwarded.  A line without a text fails.
RouteEnds(i) == /\ i \in routing /\ routing' = routing \ {i}
                /\ \/ UNCHANGED emitted
                   \/ /\ FieldsOf("PlayerChat", sent[i].params)[3] # "None"
                      /\ \E event \in {"typed", "command"} : Emits(i, event)
                /\ UNCHANGED <<chat_router, sent, read, listening>>

CallbacksNext == Sends \/ ReadsPacket \/ \E i \in routing : RouteEnds(i)

CallbacksSpec == CallbacksInit /\ [][CallbacksNext]_callbackVars

-----------------------------------------------------------------------------
(* While the session lasts every callback is emitted once: typed if its    *)
(* class is known and its parameters can be converted, as it came if not   *)
(* (README.md:29), in the order in which the server sent them; except for  *)
(* lines of chat that are routed, which are emitted at most once, when     *)
(* their route has ended, and in any order.  Nothing else is emitted.      *)
EachCallbackOnce ==
  /\ \A i \in 1..read :
       LET packet == sent[i]
           events == {emitted[j].event : j \in {j \in DOMAIN emitted : emitted[j].packet = i}}
           count  == Cardinality({j \in DOMAIN emitted : emitted[j].packet = i})
       IN  IF EndsSession(packet) \/ ~IsCallback(packet) THEN count = 0
           ELSE IF Routed(packet) THEN count <= (IF i \in routing THEN 0 ELSE 1) /\ "raw" \notin events
           ELSE /\ count = 1
                /\ events = {IF packet.method \in DOMAIN EventFields
                                /\ ~Raises(packet.method, packet.params) THEN "typed" ELSE "raw"}
  /\ \A j, k \in DOMAIN emitted :
       j < k => \/ emitted[j].packet < emitted[k].packet
                \/ Routed(sent[emitted[j].packet]) \/ Routed(sent[emitted[k].packet])
=============================================================================
