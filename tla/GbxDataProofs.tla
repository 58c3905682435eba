--------------------------- MODULE GbxDataProofs ---------------------------
(***************************************************************************)
(* Theorems of GbxCallbacks, for any packets, as many as the server sends, *)
(* and however long the routes of lines of chat take: each callback is     *)
(* emitted once.  Theorems of GbxSettings, for any number of plugins and   *)
(* for every setting of the tables: each reads back as it was asked for.   *)
(***************************************************************************)
EXTENDS GbxSettings, GbxCallbacks, FiniteSetTheorems, TLAPS

\* What is emitted for a packet; the parts of ReadsPacket.
EventOf(packet) == IF Typed(packet) THEN "typed" ELSE "raw"
IsIgnored(packet) == EndsSession(packet) \/ ~IsCallback(packet)
IsRouted(packet) == ~IsIgnored(packet) /\ Routed(packet)

Emission(n) == [packet : 1..n, event : {"typed", "raw", "command"}]

CallbackTypeOK ==
  /\ chat_router \in BOOLEAN
  /\ sent \in Seq(Packets) /\ read \in 0..Len(sent)
  /\ listening \in BOOLEAN
  /\ emitted \in Seq(Emission(read))
  /\ routing \subseteq 1..read

EmittedFor(i) == {j \in DOMAIN emitted : emitted[j].packet = i}

\* Which packet an emission may be for.
EmissionsOK ==
  \A j \in DOMAIN emitted :
    LET i == emitted[j].packet
    IN  /\ ~IsIgnored(sent[i])
        /\ IsRouted(sent[i]) => i \notin routing /\ emitted[j].event # "raw"
        /\ ~IsRouted(sent[i]) => emitted[j].event = EventOf(sent[i])

\* Every callback that is not routed was emitted, and no packet was twice.
NoneMissing == \A i \in 1..read : ~IsIgnored(sent[i]) /\ ~IsRouted(sent[i])
                                    => \E j \in DOMAIN emitted : emitted[j].packet = i
NoneTwice == \A j, k \in DOMAIN emitted : emitted[j].packet = emitted[k].packet => j = k

InOrder == \A j, k \in DOMAIN emitted :
             j < k => \/ emitted[j].packet < emitted[k].packet
                      \/ IsRouted(sent[emitted[j].packet]) \/ IsRouted(sent[emitted[k].packet])

RoutesOK == \A i \in routing : IsRouted(sent[i])

CallbackInv == CallbackTypeOK /\ EmissionsOK /\ NoneMissing /\ NoneTwice /\ InOrder /\ RoutesOK

-----------------------------------------------------------------------------
(* One more emission.                                                      *)

LEMMA Appended ==
  ASSUME NEW S, NEW s \in Seq(S), NEW e
  PROVE  /\ DOMAIN Append(s, e) = DOMAIN s \cup {Len(s) + 1}
         /\ \A j \in DOMAIN s : Append(s, e)[j] = s[j] /\ j < Len(s) + 1 /\ j \in Nat
         /\ Append(s, e)[Len(s) + 1] = e /\ Len(s) + 1 \in Nat
         /\ Len(s) + 1 \notin DOMAIN s
OBVIOUS

LEMMA EmittedPackets ==
  ASSUME NEW n \in Nat, NEW s \in Seq(Emission(n)), NEW j \in DOMAIN s
  PROVE  s[j].packet \in 1..n
<1>1. s[j] \in Emission(n)
  OBVIOUS
<1> QED
  BY <1>1 DEF Emission

LEMMA MorePackets ==
  ASSUME NEW n \in Nat, NEW m \in Nat, n <= m, NEW s \in Seq(Emission(n))
  PROVE  s \in Seq(Emission(m))
<1>1. Emission(n) \subseteq Emission(m)
  BY DEF Emission
<1> QED
  BY <1>1

LEMMA CallbacksStart == CallbacksInit => CallbackInv
BY DEF CallbacksInit, CallbackInv, CallbackTypeOK, EmissionsOK, NoneMissing, NoneTwice, InOrder,
       RoutesOK

LEMMA SendsKeeps == CallbackInv /\ Sends => CallbackInv'
<1> SUFFICES ASSUME CallbackInv, Sends PROVE CallbackInv'
  OBVIOUS
<1>0. read \in Nat /\ emitted \in Seq(Emission(read)) /\ sent \in Seq(Packets) /\ read \in 0..Len(sent)
  BY DEF CallbackInv, CallbackTypeOK
<1>1. PICK packet \in Packets : sent' = Append(sent, packet)
  BY DEF Sends
<1>2. UNCHANGED <<chat_router, read, listening, emitted, routing>>
  BY DEF Sends
<1>3. /\ sent' \in Seq(Packets) /\ read \in 0..Len(sent')
      /\ \A i \in 1..read : sent'[i] = sent[i]
  BY <1>0, <1>1
<1>4. \A i \in 1..read : IsIgnored(sent[i])' = IsIgnored(sent[i]) /\ IsRouted(sent[i])' = IsRouted(sent[i])
                         /\ EventOf(sent[i])' = EventOf(sent[i])
  BY <1>2, <1>3 DEF IsIgnored, IsRouted, EventOf, Routed, Typed
<1>5. \A j \in DOMAIN emitted : emitted[j].packet \in 1..read
  BY <1>0, EmittedPackets
<1>6. CallbackTypeOK'
  BY <1>2, <1>3 DEF CallbackInv, CallbackTypeOK
<1>7. EmissionsOK' /\ InOrder'
  BY <1>2, <1>3, <1>4, <1>5 DEF CallbackInv, EmissionsOK, InOrder
<1>8. NoneMissing' /\ NoneTwice'
  BY <1>2, <1>3, <1>4 DEF CallbackInv, NoneMissing, NoneTwice
<1>9. RoutesOK'
  BY <1>2, <1>3, <1>4 DEF CallbackInv, CallbackTypeOK, RoutesOK
<1> QED
  BY <1>6, <1>7, <1>8, <1>9 DEF CallbackInv

\* An emission for a packet that was emitted for none before.
LEMMA EmissionKeeps ==
  ASSUME CallbackInv, NEW i \in 1..Len(sent), NEW event \in {"typed", "raw", "command"},
         read' \in {read, i}, read' \in 0..Len(sent), i <= read', read <= read',
         \A k \in 1..read' : k <= read \/ k = i,
         UNCHANGED <<chat_router, sent>>, listening' \in BOOLEAN,
         Emits(i, event), ~IsIgnored(sent[i]),
         IF IsRouted(sent[i]) THEN event # "raw" ELSE i > read /\ event = EventOf(sent[i]),
         routing' = routing \ {i}, i \in routing \/ i > read
  PROVE  CallbackInv'
<1>1. /\ emitted \in Seq(Emission(read))
      /\ sent \in Seq(Packets) /\ read \in Nat /\ read' \in Nat /\ i \in Nat
      /\ routing \subseteq 1..read
      /\ emitted' = Append(emitted, [packet |-> i, event |-> event])
  BY DEF CallbackInv, CallbackTypeOK, Emits
<1> DEFINE n == Len(emitted) + 1
<1>2. /\ DOMAIN emitted' = DOMAIN emitted \cup {n}
      /\ \A j \in DOMAIN emitted : emitted'[j] = emitted[j] /\ j < n /\ j \in Nat
      /\ emitted'[n] = [packet |-> i, event |-> event] /\ n \in Nat
      /\ n \notin DOMAIN emitted
  BY <1>1, Appended
<1>3. \A j \in DOMAIN emitted : emitted[j].packet \in 1..read /\ emitted[j].packet # i
  <2>1. \A j \in DOMAIN emitted : emitted[j].packet \in 1..read
    BY <1>1, EmittedPackets
  <2>2. ASSUME NEW j \in DOMAIN emitted, emitted[j].packet = i PROVE FALSE
    <3>1. i <= read
      BY <1>1, <2>1, <2>2
    <3>2. i \in routing /\ IsRouted(sent[i])
      BY <1>1, <3>1
    <3> QED
      BY <2>2, <3>2 DEF CallbackInv, EmissionsOK
  <2> QED
    BY <2>1, <2>2
<1>4. \A packet : /\ IsIgnored(packet)' = IsIgnored(packet) /\ IsRouted(packet)' = IsRouted(packet)
                  /\ EventOf(packet)' = EventOf(packet)
  BY DEF IsIgnored, IsRouted, EventOf, Routed, Typed
<1> HIDE DEF n
<1>5. CallbackTypeOK'
  <2>1. emitted' \in Seq(Emission(read'))
    <3>1. i \in 1..read'
      BY <1>1
    <3>2. emitted \in Seq(Emission(read'))
      BY <1>1, MorePackets
    <3>3. [packet |-> i, event |-> event] \in Emission(read')
      BY <3>1 DEF Emission
    <3> QED
      BY <1>1, <3>2, <3>3
  <2>2. routing' \subseteq 1..read'
    BY <1>1
  <2> QED
    BY <2>1, <2>2 DEF CallbackInv, CallbackTypeOK
<1>6. EmissionsOK'
  <2> SUFFICES ASSUME NEW j \in DOMAIN emitted'
               PROVE  LET m == emitted'[j].packet
                      IN  /\ ~IsIgnored(sent[m])
                          /\ IsRouted(sent[m]) => m \notin routing' /\ emitted'[j].event # "raw"
                          /\ ~IsRouted(sent[m]) => emitted'[j].event = EventOf(sent[m])
    BY <1>4 DEF EmissionsOK
  <2>1. CASE j = n
    BY <1>2, <2>1
  <2>2. CASE j \in DOMAIN emitted
    BY <1>2, <2>2 DEF CallbackInv, EmissionsOK
  <2> QED
    BY <1>2, <2>1, <2>2
<1>7. NoneMissing'
  <2> SUFFICES ASSUME NEW m \in 1..read', ~IsIgnored(sent[m]), ~IsRouted(sent[m])
               PROVE  \E j \in DOMAIN emitted' : emitted'[j].packet = m
    BY <1>4 DEF NoneMissing
  <2>1. CASE m = i
    BY <1>2, <2>1
  <2>2. CASE m # i
    <3>1. m \in 1..read
      BY <1>1, <2>2
    <3> QED
      BY <1>2, <3>1 DEF CallbackInv, NoneMissing
  <2> QED
    BY <2>1, <2>2
<1>8. NoneTwice'
  BY <1>2, <1>3 DEF CallbackInv, NoneTwice
<1>9. InOrder'
  <2> SUFFICES ASSUME NEW j \in DOMAIN emitted', NEW k \in DOMAIN emitted', j < k
               PROVE  \/ emitted'[j].packet < emitted'[k].packet
                      \/ IsRouted(sent[emitted'[j].packet]) \/ IsRouted(sent[emitted'[k].packet])
    BY <1>4 DEF InOrder
  <2>1. CASE k \in DOMAIN emitted
    <3>1. j \in DOMAIN emitted
      BY <1>2, <2>1
    <3> QED
      BY <1>2, <2>1, <3>1 DEF CallbackInv, InOrder
  <2>2. CASE k = n
    <3>1. j \in DOMAIN emitted
      BY <1>2, <2>2
    <3>2. emitted'[j].packet \in 1..read /\ emitted'[k].packet = i
      BY <1>2, <1>3, <2>2, <3>1
    <3> QED
      BY <1>1, <3>2
  <2> QED
    BY <1>2, <2>1, <2>2
<1>10. RoutesOK'
  BY <1>4 DEF CallbackInv, RoutesOK
<1> QED
  BY <1>5, <1>6, <1>7, <1>8, <1>9, <1>10 DEF CallbackInv

\* A packet that nothing is emitted for, not yet or not at all.
LEMMA SilenceKeeps ==
  ASSUME CallbackInv, read' \in {read, read + 1}, read' \in 0..Len(sent),
         UNCHANGED <<chat_router, sent, emitted>>, listening' \in BOOLEAN,
         read' # read => \/ IsIgnored(sent[read']) /\ routing' = routing
                         \/ IsRouted(sent[read']) /\ routing' = routing \cup {read'},
         read' = read => routing' \subseteq routing
  PROVE  CallbackInv'
<1>1. /\ emitted \in Seq(Emission(read))
      /\ read \in Nat /\ read' \in Nat /\ routing \subseteq 1..read /\ routing' \subseteq 1..read'
  <2>1. /\ emitted \in Seq(Emission(read)) /\ read \in Nat /\ read' \in Nat /\ routing \subseteq 1..read
        /\ read' = read \/ read' = read + 1
    BY DEF CallbackInv, CallbackTypeOK
  <2>2. routing' \subseteq routing \/ (routing' = routing \cup {read'} /\ read' # read)
    BY Zenon
  <2>3. 1..read \subseteq 1..read'
    BY <2>1
  <2>4. routing' \subseteq 1..read'
    <3>1. CASE routing' \subseteq routing
      BY <2>1, <2>3, <3>1, Zenon
    <3>2. CASE routing' = routing \cup {read'} /\ read' # read
      <4>1. read' \in 1..read'
        BY <2>1, <3>2
      <4> QED
        BY <2>1, <2>3, <3>2, <4>1, Zenon
    <3> QED
      BY <2>2, <3>1, <3>2
  <2> QED
    BY <2>1, <2>4
<1>2. \A packet : /\ IsIgnored(packet)' = IsIgnored(packet) /\ IsRouted(packet)' = IsRouted(packet)
                  /\ EventOf(packet)' = EventOf(packet)
  BY DEF IsIgnored, IsRouted, EventOf, Routed, Typed
<1>3. \A j \in DOMAIN emitted : emitted[j].packet \in 1..read
  BY <1>1, EmittedPackets
<1>4. CallbackTypeOK'
  <2>2. emitted' \in Seq(Emission(read'))
    BY <1>1, MorePackets
  <2> QED
    BY <1>1, <2>2 DEF CallbackInv, CallbackTypeOK
<1>5. EmissionsOK'
  <2>1. \A j \in DOMAIN emitted : emitted[j].packet \notin routing => emitted[j].packet \notin routing'
    BY <1>1, <1>3
  <2> QED
    BY <1>2, <2>1 DEF CallbackInv, EmissionsOK
<1>6. NoneMissing'
  <2> SUFFICES ASSUME NEW m \in 1..read', ~IsIgnored(sent[m]), ~IsRouted(sent[m])
               PROVE  \E j \in DOMAIN emitted : emitted[j].packet = m
    BY <1>2 DEF NoneMissing
  <2>1. m \in 1..read
    BY <1>1
  <2> QED
    BY <2>1 DEF CallbackInv, NoneMissing
<1>7. NoneTwice' /\ InOrder'
  BY <1>2 DEF CallbackInv, NoneTwice, InOrder
<1>8. RoutesOK'
  BY <1>2 DEF CallbackInv, RoutesOK, IsRouted
<1> QED
  BY <1>4, <1>5, <1>6, <1>7, <1>8 DEF CallbackInv

LEMMA ReadsPacketKeeps == CallbackInv /\ ReadsPacket => CallbackInv'
<1> SUFFICES ASSUME CallbackInv, ReadsPacket PROVE CallbackInv'
  OBVIOUS
<1> DEFINE i == read + 1
           packet == sent[i]
<1>1. /\ read < Len(sent) /\ read' = i /\ UNCHANGED <<chat_router, sent>>
      /\ \/ EndsSession(packet) /\ listening' = FALSE /\ UNCHANGED <<emitted, routing>>
         \/ ~EndsSession(packet) /\ ~IsCallback(packet) /\ UNCHANGED <<listening, emitted, routing>>
         \/ /\ ~EndsSession(packet) /\ IsCallback(packet) /\ UNCHANGED listening
            /\ IF Routed(packet) THEN routing' = routing \cup {i} /\ UNCHANGED emitted
               ELSE Emits(i, EventOf(packet)) /\ UNCHANGED routing
  BY DEF ReadsPacket, EventOf
<1>2. /\ read \in Nat /\ Len(sent) \in Nat /\ i \in 1..Len(sent) /\ i > read /\ i # read
      /\ listening' \in BOOLEAN /\ routing \subseteq 1..read /\ i \notin routing
  <2>1. read \in Nat /\ sent \in Seq(Packets) /\ routing \subseteq 1..read /\ listening \in BOOLEAN
    BY DEF CallbackInv, CallbackTypeOK
  <2>2. listening' \in BOOLEAN
    BY <1>1, <2>1, Zenon
  <2> QED
    BY <1>1, <2>1, <2>2
<1> HIDE DEF i, packet
<1>3. CASE IsIgnored(packet) \/ IsRouted(packet)
  <2>1. /\ UNCHANGED emitted
        /\ \/ IsIgnored(packet) /\ routing' = routing
           \/ IsRouted(packet) /\ routing' = routing \cup {i}
    BY <1>1, <1>3 DEF IsIgnored, IsRouted
  <2> QED
    BY <1>1, <1>2, <2>1, SilenceKeeps DEF i, packet
<1>4. CASE ~IsIgnored(packet) /\ ~IsRouted(packet)
  <2>1. Emits(i, EventOf(packet)) /\ routing' = routing \ {i}
    BY <1>1, <1>2, <1>4 DEF IsIgnored, IsRouted
  <2>2. EventOf(packet) \in {"typed", "raw", "command"}
    BY DEF EventOf
  <2>3. /\ read' \in {read, i} /\ read' \in 0..Len(sent) /\ i <= read' /\ read <= read'
        /\ \A k \in 1..read' : k <= read \/ k = i
    BY <1>1, <1>2 DEF i
  <2> QED
    BY <1>1, <1>2, <1>4, <2>1, <2>2, <2>3, EmissionKeeps DEF packet
<1> QED
  BY <1>3, <1>4

LEMMA RouteEndsKeeps == ASSUME CallbackInv, NEW i \in routing, RouteEnds(i) PROVE CallbackInv'
<1>1. /\ i \in 1..Len(sent) /\ i <= read /\ read \in 0..Len(sent) /\ read \in Nat
      /\ IsRouted(sent[i]) /\ ~IsIgnored(sent[i]) /\ listening \in BOOLEAN
  BY DEF CallbackInv, CallbackTypeOK, RoutesOK, IsRouted
<1>2. routing' = routing \ {i} /\ UNCHANGED <<chat_router, sent, read, listening>>
  BY DEF RouteEnds
<1>3. CASE UNCHANGED emitted
  BY <1>1, <1>2, <1>3, SilenceKeeps
<1>4. ASSUME NEW event \in {"typed", "command"}, Emits(i, event) PROVE CallbackInv'
  <2>1. /\ read' \in {read, i} /\ read' \in 0..Len(sent) /\ i <= read' /\ read <= read'
        /\ \A k \in 1..read' : k <= read \/ k = i
    BY <1>1, <1>2
  <2> QED
    BY <1>1, <1>2, <1>4, <2>1, EmissionKeeps
<1> QED
  BY <1>3, <1>4 DEF RouteEnds

LEMMA CallbacksAlways == CallbacksSpec => []CallbackInv
<1>1. CallbackInv /\ [CallbacksNext]_callbackVars => CallbackInv'
  <2>1. CallbackInv /\ UNCHANGED callbackVars => CallbackInv'
    BY DEF callbackVars, CallbackInv, CallbackTypeOK, EmissionsOK, NoneMissing, NoneTwice, InOrder,
           RoutesOK, IsIgnored, IsRouted, EventOf, Routed, Typed
  <2> QED
    BY <2>1, SendsKeeps, ReadsPacketKeeps, RouteEndsKeeps DEF CallbacksNext
<1> QED
  BY <1>1, CallbacksStart, PTL DEF CallbacksSpec

(* However many packets the server sends, whatever they hold and however   *)
(* long lines of chat are routed, each callback of a session is emitted    *)
(* once, in order (GbxClient._read_packet).                                *)
THEOREM CallbacksOnce == CallbacksSpec => []EachCallbackOnce
<1>1. CallbackInv => EachCallbackOnce
  <2> SUFFICES ASSUME CallbackInv PROVE EachCallbackOnce
    OBVIOUS
  <2>1. ASSUME NEW i \in 1..read
        PROVE  \/ EmittedFor(i) = {}
               \/ \E j \in DOMAIN emitted : EmittedFor(i) = {j} /\ emitted[j].packet = i
    BY DEF CallbackInv, NoneTwice, EmittedFor
  <2>2. ASSUME NEW i \in 1..read
        PROVE  LET packet == sent[i]
                   events == {emitted[j].event : j \in EmittedFor(i)}
                   count  == Cardinality(EmittedFor(i))
               IN  IF EndsSession(packet) \/ ~IsCallback(packet) THEN count = 0
                   ELSE IF Routed(packet)
                        THEN count <= (IF i \in routing THEN 0 ELSE 1) /\ "raw" \notin events
                   ELSE /\ count = 1
                        /\ events = {IF packet.method \in DOMAIN EventFields
                                        /\ ~Raises(packet.method, packet.params)
                                     THEN "typed" ELSE "raw"}
    <3>1. CASE EmittedFor(i) = {}
      <4>1. Cardinality(EmittedFor(i)) = 0 /\ {emitted[j].event : j \in EmittedFor(i)} = {}
        BY <3>1, FS_EmptySet
      <4>2. IsIgnored(sent[i]) \/ IsRouted(sent[i])
        BY <3>1 DEF CallbackInv, NoneMissing, EmittedFor
      <4> QED
        BY <4>1, <4>2 DEF IsIgnored, IsRouted
    <3>2. ASSUME NEW j \in DOMAIN emitted, EmittedFor(i) = {j}, emitted[j].packet = i
          PROVE  LET packet == sent[i]
                     events == {emitted[k].event : k \in EmittedFor(i)}
                     count  == Cardinality(EmittedFor(i))
                 IN  IF EndsSession(packet) \/ ~IsCallback(packet) THEN count = 0
                     ELSE IF Routed(packet)
                          THEN count <= (IF i \in routing THEN 0 ELSE 1) /\ "raw" \notin events
                     ELSE /\ count = 1
                          /\ events = {IF packet.method \in DOMAIN EventFields
                                          /\ ~Raises(packet.method, packet.params)
                                       THEN "typed" ELSE "raw"}
      <4>1. Cardinality(EmittedFor(i)) = 1 /\ {emitted[k].event : k \in EmittedFor(i)} = {emitted[j].event}
        <5>1. {emitted[k].event : k \in EmittedFor(i)} = {emitted[j].event}
          BY <3>2
        <5>2. Cardinality({j}) = 1
          BY FS_Singleton
        <5> QED
          BY <3>2, <5>1, <5>2
      <4>2. /\ ~IsIgnored(sent[i])
            /\ IsRouted(sent[i]) => i \notin routing /\ emitted[j].event # "raw"
            /\ ~IsRouted(sent[i]) => emitted[j].event = EventOf(sent[i])
        BY <3>2 DEF CallbackInv, EmissionsOK
      <4> QED
        BY <4>1, <4>2 DEF IsIgnored, IsRouted, EventOf, Typed
    <3> QED
      BY <2>1, <3>1, <3>2
  <2>3. \A j, k \in DOMAIN emitted :
          j < k => \/ emitted[j].packet < emitted[k].packet
                   \/ Routed(sent[emitted[j].packet]) \/ Routed(sent[emitted[k].packet])
    BY DEF CallbackInv, InOrder, IsRouted
  <2> QED
    BY <2>2, <2>3 DEF EachCallbackOnce, EmittedFor
<1> QED
  BY <1>1, CallbacksAlways, PTL

-----------------------------------------------------------------------------
(* GbxSettings.  The tables: the fields of a group that are written have   *)
(* keys of their own, the ones that are read, and the wrappers agree.      *)

GroupNames == {"game", "options", "mods", "skins"}
DeferredIn(name, f) == name = "game" \/ f \in DOMAIN CurrentFields
TwoValued(f) == f \in BoolFields \cup {"use_changing_validation_seed"}

GameKeys == WrittenKeys("game")
OptionKeys == WrittenKeys("options")
ModKeys == WrittenKeys("mods")
SkinKeys == WrittenKeys("skins")

LEMMA GroupsAre == DOMAIN Required = GroupNames
BY DEF Required, GroupNames

LEMMA GameKeysSound ==
  /\ \A f \in DOMAIN GameKeys : GameKeys[f] \in DOMAIN GameServed
  /\ \A f \in DOMAIN GameKeys : f \in DOMAIN GameInfoKeys /\ GameInfoKeys[f] = GameKeys[f]
BY DEF GameKeys, WrittenKeys, Required, Optional, Merge, GameInfoSettingsRequired,
       GameInfoSettingsOptional, GameInfoKeys, GameServed

LEMMA GameKeysDiffer == \A f, g \in DOMAIN GameKeys : GameKeys[f] = GameKeys[g] => f = g
<1>1. \A f, g \in DOMAIN GameInfoKeys : GameInfoKeys[f] = GameInfoKeys[g] => f = g
  BY DEF GameInfoKeys
<1> QED
  BY <1>1, GameKeysSound

LEMMA OptionKeysSound ==
  /\ \A f \in DOMAIN OptionKeys : OptionKeys[f] \in DOMAIN OptionsServed
  /\ \A f \in DOMAIN OptionKeys : OptionKeys[f] \in DOMAIN OptionPairs <=> f \in DOMAIN CurrentFields
  /\ \A f \in DOMAIN OptionKeys : OptionKeys[f] \notin DOMAIN GameServed
BY DEF OptionKeys, WrittenKeys, Required, Optional, Merge, ServerOptionsUpdateRequired,
       ServerOptionsUpdateOptional, OptionsServed, OptionPairs, CurrentFields, GameServed

LEMMA OptionKeysDiffer == \A f, g \in DOMAIN OptionKeys : OptionKeys[f] = OptionKeys[g] => f = g
BY DEF OptionKeys, WrittenKeys, Required, Optional, Merge, ServerOptionsUpdateRequired,
       ServerOptionsUpdateOptional

\* Where a field of an update is found in the options that are read.
LEMMA OptionsRead ==
  \A f \in DOMAIN OptionKeys :
    /\ NextField(f) \in DOMAIN ServerOptionsKeys
    /\ f \notin DOMAIN CurrentFields =>
         /\ f \in DOMAIN ServerOptionsKeys /\ ServerOptionsKeys[f] = OptionKeys[f] /\ NextField(f) = f
    /\ f \in DOMAIN CurrentFields =>
         /\ CurrentFields[f] \in DOMAIN ServerOptionsKeys
         /\ OptionPairs[OptionKeys[f]] = <<ServerOptionsKeys[CurrentFields[f]],
                                           ServerOptionsKeys[NextField(f)]>>
    /\ CurrentFields[f] \in BoolFields /\ f \in DOMAIN CurrentFields => TwoValued(f)
    /\ NextField(f) \in BoolFields => TwoValued(f)
BY DEF OptionKeys, WrittenKeys, Required, Optional, Merge, ServerOptionsUpdateRequired,
       ServerOptionsUpdateOptional, ServerOptionsKeys, OptionPairs, CurrentFields, NextField,
       BoolFields, TwoValued

\* The keys of the pairs differ, and no setting of one value has one of them.
LEMMA PairsDiffer ==
  /\ \A k, m \in DOMAIN OptionPairs : OptionPairs[k][1] = OptionPairs[m][1] => k = m
  /\ \A k, m \in DOMAIN OptionPairs : OptionPairs[k][2] = OptionPairs[m][2] => k = m
  /\ \A k, m \in DOMAIN OptionPairs : OptionPairs[k][1] # OptionPairs[m][2]
  /\ \A k \in DOMAIN OptionPairs : k \in DOMAIN OptionsServed
  /\ \A k \in DOMAIN OptionPairs, i \in {1, 2} :
       OptionPairs[k][i] \notin DOMAIN OptionsServed \ DOMAIN OptionPairs
BY DEF OptionPairs, OptionsServed

LEMMA ListKeysSound ==
  /\ \A f \in DOMAIN ModKeys : /\ ModKeys[f] \in ServerKeys["mods"] \ DeferredKeys
                               /\ f \in DOMAIN ForcedModsKeys /\ ForcedModsKeys[f] = ModKeys[f]
                               /\ f \notin DOMAIN CurrentFields
  /\ \A f, g \in DOMAIN ModKeys : ModKeys[f] = ModKeys[g] => f = g
  /\ \A f \in DOMAIN SkinKeys : /\ SkinKeys[f] \in ServerKeys["skins"] \ DeferredKeys
                                /\ f \in DOMAIN ForcedSkinKeys /\ ForcedSkinKeys[f] = SkinKeys[f]
                                /\ f \notin DOMAIN CurrentFields
  /\ \A f, g \in DOMAIN SkinKeys : SkinKeys[f] = SkinKeys[g] => f = g
BY DEF ModKeys, SkinKeys, WrittenKeys, Required, Optional, Merge, Override, NoKeys, ForcedModDict,
       ForcedModKeys, ForcedModsKeys, ForcedSkinDict, ForcedSkinKeys, ServerKeys, DeferredKeys,
       GameServed, OptionPairs, CurrentFields

LEMMA KeysSound ==
  ASSUME NEW name \in GroupNames
  PROVE  LET keys == WrittenKeys(name)
         IN  /\ \A f \in DOMAIN keys : keys[f] \in ServerKeys[name]
             /\ \A f, g \in DOMAIN keys : keys[f] = keys[g] => f = g
             /\ \A f \in DOMAIN keys : keys[f] \in DeferredKeys <=> DeferredIn(name, f)
<1>1. CASE name = "game"
  <2>1. ServerKeys[name] = DOMAIN GameServed /\ DeferredKeys = DOMAIN GameServed \cup DOMAIN OptionPairs
    BY <1>1 DEF ServerKeys, DeferredKeys
  <2> QED
    BY <1>1, <2>1, GameKeysSound, GameKeysDiffer DEF GameKeys, DeferredIn
<1>2. CASE name = "options"
  <2>1. ServerKeys[name] = DOMAIN OptionsServed /\ DeferredKeys = DOMAIN GameServed \cup DOMAIN OptionPairs
    BY <1>2 DEF ServerKeys, DeferredKeys
  <2> QED
    BY <1>2, <2>1, OptionKeysSound, OptionKeysDiffer DEF OptionKeys, DeferredIn
<1>3. CASE name \in {"mods", "skins"}
  BY <1>3, ListKeysSound DEF ModKeys, SkinKeys, DeferredIn
<1> QED
  BY <1>1, <1>2, <1>3 DEF GroupNames

-----------------------------------------------------------------------------
(* The wrappers of one setting.                                            *)

LEMMA MethodsDiffer ==
  /\ \A k, m \in DOMAIN GameServed : GameServed[k] \cap GameServed[m] # {} => k = m
  /\ \A k, m \in DOMAIN OptionsServed : OptionsServed[k] \cap OptionsServed[m] # {} => k = m
  /\ \A k \in DOMAIN GameServed, m \in DOMAIN OptionsServed :
       k # m /\ GameServed[k] \cap OptionsServed[m] = {}
<1>1. \A k, m \in DOMAIN GameServed : GameServed[k] \cap GameServed[m] # {} => k = m
  BY DEF GameServed
<1>2. \A k, m \in DOMAIN OptionsServed : OptionsServed[k] \cap OptionsServed[m] # {} => k = m
  BY DEF OptionsServed
<1>3. \A k \in DOMAIN GameServed, m \in DOMAIN OptionsServed :
        k # m /\ GameServed[k] \cap OptionsServed[m] = {}
  BY DEF GameServed, OptionsServed
<1> QED
  BY <1>1, <1>2, <1>3

LEMMA KeyOfIs ==
  /\ \A k \in DOMAIN GameServed : \A m \in GameServed[k] : KeyOf(m) = k
  /\ \A k \in DOMAIN OptionsServed : \A m \in OptionsServed[k] : KeyOf(m) = k
<1>1. /\ DOMAIN Served = DOMAIN GameServed \cup DOMAIN OptionsServed
      /\ \A k \in DOMAIN GameServed : Served[k] = GameServed[k]
      /\ \A k \in DOMAIN OptionsServed : Served[k] = OptionsServed[k]
  BY MethodsDiffer DEF Served, Merge
<1>2. \A j, k \in DOMAIN Served : Served[j] \cap Served[k] # {} => j = k
  BY <1>1, MethodsDiffer
<1>3. \A k \in DOMAIN Served : \A m \in Served[k] : KeyOf(m) = k
  <2> SUFFICES ASSUME NEW k \in DOMAIN Served, NEW m \in Served[k] PROVE KeyOf(m) = k
    OBVIOUS
  <2>1. KeyOf(m) \in DOMAIN Served /\ m \in Served[KeyOf(m)]
    BY DEF KeyOf
  <2> QED
    BY <1>2, <2>1
<1> QED
  BY <1>1, <1>3

Wraps(accessors, served, keys) ==
  \A f \in DOMAIN accessors :
    /\ f \in DOMAIN keys /\ keys[f] \in DOMAIN served
    /\ accessors[f][1] \in served[keys[f]] /\ accessors[f][2] \in served[keys[f]]
    /\ accessors[f][3] \in {"bool", "BoolSetting"} => TwoValued(f)

LEMMA RaceWraps == Wraps(RaceAccessors, GameServed, GameKeys)
BY DEF Wraps, RaceAccessors, GameServed, TwoValued, BoolFields, GameKeys, WrittenKeys, Required,
       Optional, Merge, GameInfoSettingsRequired, GameInfoSettingsOptional

LEMMA RuleWraps == Wraps(RuleAccessors, GameServed, GameKeys)
BY DEF Wraps, RuleAccessors, GameServed, TwoValued, BoolFields, GameKeys, WrittenKeys, Required,
       Optional, Merge, GameInfoSettingsRequired, GameInfoSettingsOptional

LEMMA VoteWraps == Wraps(VoteAccessors, OptionsServed, OptionKeys)
BY DEF Wraps, VoteAccessors, OptionsServed, TwoValued, BoolFields, OptionKeys, WrittenKeys, Required,
       Optional, Merge, ServerOptionsUpdateRequired, ServerOptionsUpdateOptional

LEMMA NameWraps == Wraps(NameAccessors, OptionsServed, OptionKeys)
BY DEF Wraps, NameAccessors, OptionsServed, TwoValued, BoolFields, OptionKeys, WrittenKeys, Required,
       Optional, Merge, ServerOptionsUpdateRequired, ServerOptionsUpdateOptional

LEMMA SlotWraps == Wraps(SlotAccessors, OptionsServed, OptionKeys)
BY DEF Wraps, SlotAccessors, OptionsServed, TwoValued, BoolFields, OptionKeys, WrittenKeys, Required,
       Optional, Merge, ServerOptionsUpdateRequired, ServerOptionsUpdateOptional

LEMMA LadderWraps == Wraps(LadderAccessors, OptionsServed, OptionKeys)
BY DEF Wraps, LadderAccessors, OptionsServed, TwoValued, BoolFields, OptionKeys, WrittenKeys,
       Required, Optional, Merge, ServerOptionsUpdateRequired, ServerOptionsUpdateOptional

LEMMA RefereeWraps == Wraps(RefereeAccessors, OptionsServed, OptionKeys)
BY DEF Wraps, RefereeAccessors, OptionsServed, TwoValued, BoolFields, OptionKeys, WrittenKeys,
       Required, Optional, Merge, ServerOptionsUpdateRequired, ServerOptionsUpdateOptional

LEMMA MergedWraps ==
  ASSUME NEW a, NEW b, NEW served, NEW keys, Wraps(a, served, keys), Wraps(b, served, keys)
  PROVE  Wraps(Merge(a, b), served, keys)
BY DEF Wraps, Merge

LEMMA Wrapped ==
  ASSUME group.name \in GroupNames, NEW f \in Alone
  PROVE  /\ f \in Fields
         /\ KeyOf(Accessors[f][1]) = WrittenKeys(group.name)[f]
         /\ KeyOf(Accessors[f][2]) = WrittenKeys(group.name)[f]
         /\ Accessors[f][3] \in {"bool", "BoolSetting"} => TwoValued(f)
<1>1. Wraps(GameAccessors, GameServed, GameKeys)
  BY RaceWraps, RuleWraps, MergedWraps DEF GameAccessors
<1>2. Wraps(OptionAccessors, OptionsServed, OptionKeys)
  <2>1. Wraps(Merge(VoteAccessors, NameAccessors), OptionsServed, OptionKeys)
    BY VoteWraps, NameWraps, MergedWraps
  <2>2. Wraps(Merge(LadderAccessors, RefereeAccessors), OptionsServed, OptionKeys)
    BY LadderWraps, RefereeWraps, MergedWraps
  <2>3. Wraps(Merge(SlotAccessors, Merge(LadderAccessors, RefereeAccessors)), OptionsServed, OptionKeys)
    BY <2>2, SlotWraps, MergedWraps
  <2> QED
    BY <2>1, <2>3, MergedWraps DEF OptionAccessors
<1>3. CASE group.name = "game"
  <2>1. f \in DOMAIN GameAccessors
    BY <1>3 DEF Alone
  <2>2. f \notin DOMAIN OptionAccessors
    <3>1. SUFFICES ASSUME f \in DOMAIN OptionAccessors PROVE FALSE
      OBVIOUS
    <3>2. f \in DOMAIN GameKeys /\ f \in DOMAIN OptionKeys
      BY <1>1, <1>2, <2>1, <3>1 DEF Wraps
    <3> QED
      BY <3>2 DEF GameKeys, OptionKeys, WrittenKeys, Required, Optional, Merge,
                  GameInfoSettingsRequired, GameInfoSettingsOptional, ServerOptionsUpdateRequired,
                  ServerOptionsUpdateOptional
  <2>3. Accessors[f] = GameAccessors[f]
    BY <2>1, <2>2 DEF Accessors, Merge
  <2> QED
    BY <1>1, <1>3, <2>1, <2>3, KeyOfIs DEF Wraps, Fields, GameKeys
<1>4. CASE group.name = "options"
  <2>1. f \in DOMAIN OptionAccessors
    BY <1>4 DEF Alone
  <2>2. Accessors[f] = OptionAccessors[f]
    BY <2>1 DEF Accessors, Merge
  <2> QED
    BY <1>2, <1>4, <2>1, <2>2, KeyOfIs DEF Wraps, Fields, OptionKeys
<1>5. CASE group.name \in {"mods", "skins"}
  BY <1>5 DEF Alone
<1> QED
  BY <1>3, <1>4, <1>5 DEF GroupNames

-----------------------------------------------------------------------------
(* The inductive invariant.  What was asked for is what the server has     *)
(* under the key of the field, unless a stale copy overwrote it; settings  *)
(* that are not deferred have one value; and a copy holds, of the fields   *)
(* nobody changed since, what the server has for the next challenge.       *)

Key(f) == WrittenKeys(group.name)[f]
When == {"now", "next"}

SettingTypeOK ==
  /\ group \in Watched
  /\ server \in [ServerKeys[group.name] -> [When -> Nat]]
  /\ DOMAIN wish = Fields
  /\ copy \in [Writers -> {None} \cup [Fields -> Nat]]
  /\ stale \in [Writers -> SUBSET Fields]

ValuesOK ==
  \A f \in Fields : /\ \A h \in When : server[Key(f)][h] \in Values(f)
                    /\ \A p \in Writers : copy[p] # None => copy[p][f] \in Values(f)

AsAsked == \A f \in Fields, h \in When :
             <<f, h>> \notin overwritten => server[Key(f)][h] = wish[f][h]

AtOnce == \A f \in Fields : ~Deferred(f) => server[Key(f)].now = server[Key(f)].next

CopiesOK == \A p \in Writers : \A f \in Fields :
              copy[p] # None /\ f \notin stale[p] => copy[p][f] = server[Key(f)].next

SettingInv == SettingTypeOK /\ ValuesOK /\ AsAsked /\ AtOnce /\ CopiesOK

LEMMA GroupFacts ==
  ASSUME group \in Watched
  PROVE  /\ group.name \in GroupNames /\ group.fields \subseteq Fields
         /\ \A f \in Fields : Key(f) \in ServerKeys[group.name]
         /\ \A f, g \in Fields : Key(f) = Key(g) => f = g
         /\ \A f \in Fields : Key(f) \in DeferredKeys <=> Deferred(f)
         /\ Fields = DOMAIN WrittenKeys(group.name)
<1>1. group.name \in GroupNames /\ group.fields \subseteq Fields
  BY WatchedAssumption, GroupsAre DEF Fields
<1> QED
  BY <1>1, KeysSound DEF Fields, Key, Deferred, DeferredIn

LEMMA ValueFacts ==
  /\ \A f : Values(f) \subseteq Nat /\ 0 \in Values(f)
  /\ \A f : \A v \in Values(f) : AsNumber(v) = v /\ (TwoValued(f) => AsBool(v) = v)
BY NoneAssumption DEF Values, TwoValued, AsNumber, AsBool

LEMMA SettingsStart == SettingsInit => SettingInv
<1> SUFFICES ASSUME SettingsInit PROVE SettingInv
  OBVIOUS
<1>1. group \in Watched /\ \A f \in Fields : Key(f) \in ServerKeys[group.name]
  BY GroupFacts DEF SettingsInit
<1>2. SettingTypeOK
  BY <1>1 DEF SettingsInit, SettingTypeOK, When
<1>3. \A f \in Fields : server[Key(f)] = [now |-> 0, next |-> 0] /\ wish[f] = [now |-> 0, next |-> 0]
  BY <1>1 DEF SettingsInit
<1>4. \A p \in Writers : copy[p] = None
  BY DEF SettingsInit
<1> QED
  BY <1>2, <1>3, <1>4, ValueFacts DEF SettingInv, ValuesOK, AsAsked, AtOnce, CopiesOK, When

\* The server after a call that gives values to some fields.
LEMMA ExecutedIs ==
  ASSUME SettingTypeOK, NEW dict, \A k \in DOMAIN dict : dict[k] \in Nat
  PROVE  /\ Executed(dict) \in [ServerKeys[group.name] -> [When -> Nat]]
         /\ \A f \in Fields :
              /\ Key(f) \notin DOMAIN dict => Executed(dict)[Key(f)] = server[Key(f)]
              /\ Key(f) \in DOMAIN dict =>
                   /\ Executed(dict)[Key(f)].next = dict[Key(f)]
                   /\ Executed(dict)[Key(f)].now = IF Deferred(f) THEN server[Key(f)].now
                                                   ELSE dict[Key(f)]
<1>1. server \in [ServerKeys[group.name] -> [When -> Nat]] /\ group \in Watched
  BY DEF SettingTypeOK
<1>2. \A k \in ServerKeys[group.name] : server[k].now \in Nat
  BY <1>1 DEF When
<1>3. Executed(dict) \in [ServerKeys[group.name] -> [When -> Nat]]
  BY <1>1, <1>2 DEF Executed, When
<1> QED
  BY <1>1, <1>3, GroupFacts DEF Executed

LEMMA ToDictIs ==
  ASSUME group \in Watched, NEW update, DOMAIN update = Fields
  PROVE  /\ \A f \in Fields : Key(f) \in DOMAIN ToDict(update) <=> update[f] # None
         /\ \A f \in Fields : update[f] # None => ToDict(update)[Key(f)] = update[f]
         /\ \A k \in DOMAIN ToDict(update) : \E f \in Fields : k = Key(f)
<1> DEFINE given == {f \in DOMAIN update : update[f] # None}
           named(k) == CHOOSE f \in given : Key(f) = k
<1>1. ToDict(update) = [k \in {Key(f) : f \in given} |-> update[named(k)]]
  BY DEF ToDict, Key
<1>2. \A f \in given : named(Key(f)) \in given /\ Key(named(Key(f))) = Key(f)
  OBVIOUS
<1>3. \A f \in given : named(Key(f)) = f
  BY <1>2, GroupFacts
<1> HIDE DEF named
<1> QED
  BY <1>1, <1>3, GroupFacts

\* What Asks does to the values that are to be read back.
LEMMA AsksIs ==
  ASSUME NEW p, NEW asked, NEW lost, Asks(p, asked, lost), NEW f, NEW h
  PROVE  /\ <<f, h>> \in overwritten' <=>
              \/ <<f, h>> \in overwritten /\ ~(f \in DOMAIN asked /\ h \in Halves(f))
              \/ f \in lost /\ h \in Halves(f)
         /\ DOMAIN wish' = DOMAIN wish
         /\ f \in DOMAIN wish /\ h \in When =>
              wish'[f][h] = IF f \in DOMAIN asked /\ h \in Halves(f) THEN asked[f] ELSE wish[f][h]
<1>1. /\ wish' = [g \in DOMAIN wish |->
                    IF g \notin DOMAIN asked THEN wish[g]
                    ELSE [k \in When |-> IF k \in Halves(g) THEN asked[g] ELSE wish[g][k]]]
      /\ overwritten' = (overwritten \ UNION {{g} \X Halves(g) : g \in DOMAIN asked})
                        \cup UNION {{g} \X Halves(g) : g \in lost}
  BY DEF Asks, When
<1>2. \A S : <<f, h>> \in UNION {{g} \X Halves(g) : g \in S} <=> f \in S /\ h \in Halves(f)
  <2> TAKE S
  <2>1. ASSUME <<f, h>> \in UNION {{g} \X Halves(g) : g \in S} PROVE f \in S /\ h \in Halves(f)
    <3>1. PICK g \in S : <<f, h>> \in {g} \X Halves(g)
      BY <2>1
    <3> QED
      BY <3>1
  <2>2. ASSUME f \in S, h \in Halves(f) PROVE <<f, h>> \in UNION {{g} \X Halves(g) : g \in S}
    <3>1. <<f, h>> \in {f} \X Halves(f)
      BY <2>2
    <3> QED
      BY <2>2, <3>1
  <2> QED
    BY <2>1, <2>2
<1> QED
  BY <1>1, <1>2

\* A call that gives values to the fields of `given': asked for, stale, or as
\* they are on the server.
Gives(asked, lost, given, value) ==
  /\ lost \subseteq Fields /\ given \subseteq Fields /\ DOMAIN asked \subseteq given
  /\ \A f \in given : /\ value[f] \in Values(f)
                      /\ f \in DOMAIN asked => value[f] = asked[f]
                      /\ f \notin DOMAIN asked => f \in lost \/ value[f] = server[Key(f)].next
  /\ server' \in [ServerKeys[group.name] -> [When -> Nat]]
  /\ \A f \in Fields \ given : server'[Key(f)] = server[Key(f)]
  /\ \A f \in given :
       /\ server'[Key(f)].next = value[f]
       /\ server'[Key(f)].now = IF Deferred(f) THEN server[Key(f)].now ELSE value[f]

LEMMA WriteKeeps ==
  ASSUME SettingInv, NEW p, NEW asked, NEW lost, NEW given, NEW value,
         Asks(p, asked, lost), Gives(asked, lost, given, value),
         copy' \in [Writers -> {None} \cup [Fields -> Nat]],
         \A q \in Writers : copy'[q] \in {None, copy[q]}
  PROVE  SettingInv'
<1> USE DEF Gives
<1>1. /\ SettingTypeOK /\ group' = group /\ group \in Watched
      /\ stale' = [q \in Writers |-> IF copy'[q] = None THEN {}
                                     ELSE stale[q] \cup DOMAIN asked \cup lost]
      /\ copy \in [Writers -> {None} \cup [Fields -> Nat]] /\ stale \in [Writers -> SUBSET Fields]
  BY DEF SettingInv, SettingTypeOK, Asks
<1>2. /\ Fields' = Fields
      /\ \A f : Key(f)' = Key(f) /\ Deferred(f)' = Deferred(f) /\ Values(f)' = Values(f)
  BY <1>1 DEF Fields, Key, Deferred, Values
<1>3. DOMAIN asked \subseteq Fields
  OBVIOUS
<1>4. SettingTypeOK'
  <2>2. stale' \in [Writers -> SUBSET Fields]
    BY <1>1, <1>3
  <2>3. DOMAIN wish' = Fields
    BY <1>1, AsksIs DEF SettingTypeOK
  <2> QED
    BY <1>1, <1>2, <2>2, <2>3 DEF SettingTypeOK
<1>5. \A f \in Fields : server[Key(f)].now \in Values(f) /\ server[Key(f)].next \in Values(f)
  BY DEF SettingInv, ValuesOK, When
<1>6. \A f \in Fields : server'[Key(f)].now \in Values(f) /\ server'[Key(f)].next \in Values(f)
  BY <1>5
<1>7. ValuesOK'
  <2>1. \A f \in Fields, q \in Writers : copy'[q] # None => copy'[q][f] \in Values(f)
    BY DEF SettingInv, ValuesOK
  <2> QED
    BY <1>2, <1>6, <2>1 DEF ValuesOK, When
<1>8. AtOnce'
  <2>1. \A f \in Fields : ~Deferred(f) => server'[Key(f)].now = server'[Key(f)].next
    BY DEF SettingInv, AtOnce
  <2> QED
    BY <1>2, <2>1 DEF AtOnce
<1>9. AsAsked'
  <2> SUFFICES ASSUME NEW f \in Fields, NEW h \in When, <<f, h>> \notin overwritten'
               PROVE  server'[Key(f)][h] = wish'[f][h]
    BY <1>2 DEF AsAsked
  <2>1. f \in DOMAIN wish
    BY <1>1 DEF SettingTypeOK
  <2>2. CASE f \in DOMAIN asked /\ h \in Halves(f)
    <3>1. wish'[f][h] = asked[f]
      BY <2>1, <2>2, AsksIs
    <3>2. f \in given /\ value[f] = asked[f]
      BY <2>2
    <3>3. Deferred(f) => h = "next"
      BY <2>2 DEF Halves
    <3> QED
      BY <3>1, <3>2, <3>3 DEF When
  <2>3. CASE ~(f \in DOMAIN asked /\ h \in Halves(f))
    <3>1. /\ wish'[f][h] = wish[f][h] /\ <<f, h>> \notin overwritten
          /\ ~(f \in lost /\ h \in Halves(f))
      BY <2>1, <2>3, AsksIs
    <3>2. server[Key(f)][h] = wish[f][h]
      BY <3>1 DEF SettingInv, AsAsked
    <3>3. CASE f \notin given
      BY <3>1, <3>2, <3>3
    <3>4. CASE f \in given /\ h \notin Halves(f)
      <4>1. Deferred(f) /\ h = "now"
        BY <3>4 DEF Halves, When
      <4> QED
        BY <3>1, <3>2, <3>4, <4>1
    <3>5. CASE f \in given /\ h \in Halves(f)
      <4>1. value[f] = server[Key(f)].next
        BY <2>3, <3>1, <3>5
      <4>2. CASE Deferred(f)
        <5>1. h = "next"
          BY <3>5, <4>2 DEF Halves
        <5> QED
          BY <3>1, <3>2, <3>5, <4>1, <5>1
      <4>3. CASE ~Deferred(f)
        <5>1. server[Key(f)].now = server[Key(f)].next
          BY <4>3 DEF SettingInv, AtOnce
        <5> QED
          BY <3>1, <3>2, <3>5, <4>1, <4>3, <5>1 DEF When
      <4> QED
        BY <4>2, <4>3
    <3> QED
      BY <3>3, <3>4, <3>5
  <2> QED
    BY <2>2, <2>3
<1>10. CopiesOK'
  <2> SUFFICES ASSUME NEW q \in Writers, NEW f \in Fields, copy'[q] # None, f \notin stale'[q]
               PROVE  copy'[q][f] = server'[Key(f)].next
    BY <1>2 DEF CopiesOK
  <2>1. copy'[q] = copy[q] /\ f \notin stale[q] /\ f \notin DOMAIN asked /\ f \notin lost
    BY <1>1
  <2>2. copy[q][f] = server[Key(f)].next
    BY <2>1 DEF SettingInv, CopiesOK
  <2> QED
    BY <2>1, <2>2
<1> QED
  BY <1>4, <1>7, <1>8, <1>9, <1>10 DEF SettingInv

LEMMA SetsOneKeeps == ASSUME SettingInv, NEW p \in Writers, SetsOne(p) PROVE SettingInv'
<1>0. PICK f \in group.fields \cap Alone : \E v \in Values(f) :
        /\ server' = Executed(Entry(KeyOf(Accessors[f][1]), v))
        /\ UNCHANGED copy
        /\ Asks(p, Entry(f, v), {})
  BY DEF SetsOne
<1>1. PICK v \in Values(f) :
        /\ server' = Executed(Entry(KeyOf(Accessors[f][1]), v))
        /\ UNCHANGED copy
        /\ Asks(p, Entry(f, v), {})
  BY <1>0
<1>2. SettingTypeOK /\ group \in Watched /\ group.name \in GroupNames
  BY GroupFacts DEF SettingInv, SettingTypeOK
<1>3. f \in Fields /\ KeyOf(Accessors[f][1]) = Key(f)
  BY <1>1, <1>2, Wrapped DEF Key
<1> DEFINE dict == Entry(Key(f), v)
<1>4. DOMAIN dict = {Key(f)} /\ dict[Key(f)] = v /\ v \in Nat
  BY ValueFacts DEF Entry
<1>5. server' = Executed(dict)
  BY <1>1, <1>3
<1> HIDE DEF dict
<1>6. \A k \in DOMAIN dict : dict[k] \in Nat
  BY <1>4
<1>7. \A g \in Fields : Key(g) \in DOMAIN dict <=> g = f
  BY <1>2, <1>3, <1>4, GroupFacts
<1>8. /\ server' \in [ServerKeys[group.name] -> [When -> Nat]]
      /\ \A g \in Fields \ {f} : server'[Key(g)] = server[Key(g)]
      /\ server'[Key(f)].next = v
      /\ server'[Key(f)].now = IF Deferred(f) THEN server[Key(f)].now ELSE v
  BY <1>2, <1>3, <1>4, <1>5, <1>6, <1>7, ExecutedIs
<1>9. DOMAIN Entry(f, v) = {f} /\ Entry(f, v)[f] = v
  BY DEF Entry
<1>10. /\ copy' \in [Writers -> {None} \cup [Fields -> Nat]]
       /\ \A q \in Writers : copy'[q] \in {None, copy[q]}
  BY <1>1, <1>2 DEF SettingTypeOK
<1> DEFINE value == Entry(f, v)
<1>11. Gives(value, {}, {f}, value)
  BY <1>3, <1>8, <1>9 DEF Gives
<1>13. Asks(p, value, {})
  BY <1>1
<1> HIDE DEF value
<1> QED
  BY <1>10, <1>11, <1>13, WriteKeeps

LEMMA WritesBackKeeps == ASSUME SettingInv, NEW p \in Writers, WritesBack(p) PROVE SettingInv'
<1>0. PICK changed \in SUBSET group.fields :
        \E asked \in [changed -> {0, 1, 2}],
           left \in SUBSET ((group.fields \cap DOMAIN Optional[group.name]) \ changed) :
          /\ \A f \in changed : asked[f] \in Values(f)
          /\ server' = Executed(ToDict([f \in Fields |->
                         IF f \in left THEN None
                         ELSE IF f \in changed THEN asked[f] ELSE copy[p][f]]))
          /\ copy' = [copy EXCEPT ![p] = None]
          /\ Asks(p, asked, stale[p] \ (changed \cup left))
  BY DEF WritesBack
<1>1. PICK asked \in [changed -> {0, 1, 2}],
           left \in SUBSET ((group.fields \cap DOMAIN Optional[group.name]) \ changed) :
        /\ \A f \in changed : asked[f] \in Values(f)
        /\ server' = Executed(ToDict([f \in Fields |->
                       IF f \in left THEN None
                       ELSE IF f \in changed THEN asked[f] ELSE copy[p][f]]))
        /\ copy' = [copy EXCEPT ![p] = None]
        /\ Asks(p, asked, stale[p] \ (changed \cup left))
  BY <1>0
<1>2. /\ SettingTypeOK /\ group \in Watched /\ group.fields \subseteq Fields
      /\ copy \in [Writers -> {None} \cup [Fields -> Nat]] /\ stale[p] \subseteq Fields
      /\ copy[p] # None
  BY GroupFacts DEF SettingInv, SettingTypeOK, WritesBack
<1> DEFINE value == [f \in Fields |-> IF f \in changed THEN asked[f] ELSE copy[p][f]]
           update == [f \in Fields |-> IF f \in left THEN None
                                       ELSE IF f \in changed THEN asked[f] ELSE copy[p][f]]
           given == Fields \ left
           lost == stale[p] \ (changed \cup left)
           dict == ToDict(update)
<1>3. \A f \in Fields : value[f] \in Values(f)
  BY <1>1, <1>2 DEF SettingInv, ValuesOK
<1>4. \A f \in Fields : value[f] \in Nat /\ value[f] # None
  BY <1>3, ValueFacts, NoneAssumption
<1>5. \A f \in Fields : update[f] = IF f \in left THEN None ELSE value[f]
  OBVIOUS
<1>6. server' = Executed(dict) /\ DOMAIN update = Fields /\ Asks(p, asked, lost)
  BY <1>1
<1>7. /\ lost \in SUBSET Fields /\ given \in SUBSET Fields /\ DOMAIN asked = changed
      /\ changed \subseteq given
  BY <1>1, <1>2
<1>8. \A f \in given : /\ value[f] \in Values(f)
                       /\ f \in DOMAIN asked => value[f] = asked[f]
                       /\ f \notin DOMAIN asked => f \in lost \/ value[f] = server[Key(f)].next
  <2> SUFFICES ASSUME NEW f \in given
               PROVE  /\ f \in changed => value[f] = asked[f]
                      /\ f \notin changed => f \in lost \/ value[f] = server[Key(f)].next
    BY <1>3, <1>7
  <2>1. f \notin changed /\ f \notin lost => f \notin stale[p] /\ value[f] = copy[p][f]
    OBVIOUS
  <2>2. f \notin stale[p] => copy[p][f] = server[Key(f)].next
    BY <1>2 DEF SettingInv, CopiesOK
  <2> QED
    BY <1>7, <2>1, <2>2
<1> HIDE DEF value, update
<1>9. /\ \A f \in Fields : Key(f) \in DOMAIN dict <=> f \in given
      /\ \A f \in given : dict[Key(f)] = value[f]
      /\ \A k \in DOMAIN dict : dict[k] \in Nat
  <2>1. /\ \A f \in Fields : Key(f) \in DOMAIN dict <=> update[f] # None
        /\ \A f \in Fields : update[f] # None => dict[Key(f)] = update[f]
        /\ \A k \in DOMAIN dict : \E f \in Fields : k = Key(f)
    BY <1>2, <1>6, ToDictIs
  <2> HIDE DEF dict
  <2> QED
    BY <1>4, <1>5, <2>1
<1> HIDE DEF dict
<1>10. /\ server' \in [ServerKeys[group.name] -> [When -> Nat]]
       /\ \A f \in Fields \ given : server'[Key(f)] = server[Key(f)]
       /\ \A f \in given : /\ server'[Key(f)].next = value[f]
                           /\ server'[Key(f)].now = IF Deferred(f) THEN server[Key(f)].now
                                                    ELSE value[f]
  BY <1>2, <1>6, <1>7, <1>9, ExecutedIs
<1>11. /\ copy' \in [Writers -> {None} \cup [Fields -> Nat]]
       /\ \A q \in Writers : copy'[q] \in {None, copy[q]}
  BY <1>1, <1>2
<1> HIDE DEF given, lost
<1>12. Gives(asked, lost, given, value)
  BY <1>7, <1>8, <1>10 DEF Gives
<1> QED
  BY <1>6, <1>11, <1>12, WriteKeeps

LEMMA NextChallengeKeeps == SettingInv /\ NextChallenge => SettingInv'
<1> SUFFICES ASSUME SettingInv, NextChallenge PROVE SettingInv'
  OBVIOUS
<1>1. /\ group' = group /\ copy' = copy /\ stale' = stale
      /\ server' = [k \in DOMAIN server |-> [now |-> server[k].next, next |-> server[k].next]]
      /\ wish' = [f \in DOMAIN wish |-> [now |-> wish[f].next, next |-> wish[f].next]]
      /\ overwritten' = {f \in Fields : <<f, "next">> \in overwritten} \X When
  BY DEF NextChallenge, When
<1>2. /\ SettingTypeOK /\ group \in Watched /\ DOMAIN wish = Fields
      /\ server \in [ServerKeys[group.name] -> [When -> Nat]]
      /\ \A f \in Fields : Key(f) \in ServerKeys[group.name]
  BY GroupFacts DEF SettingInv, SettingTypeOK
<1>3. /\ Fields' = Fields
      /\ \A f : Key(f)' = Key(f) /\ Deferred(f)' = Deferred(f) /\ Values(f)' = Values(f)
  BY <1>1 DEF Fields, Key, Deferred, Values
<1>4. /\ server' \in [ServerKeys[group.name] -> [When -> Nat]]
      /\ \A f \in Fields : /\ server'[Key(f)].now = server[Key(f)].next
                           /\ server'[Key(f)].next = server[Key(f)].next
  BY <1>1, <1>2 DEF When
<1>5. SettingTypeOK'
  BY <1>1, <1>2, <1>3, <1>4 DEF SettingTypeOK
<1>6. ValuesOK'
  BY <1>1, <1>3, <1>4 DEF SettingInv, ValuesOK, When
<1>7. AtOnce' /\ CopiesOK'
  BY <1>1, <1>3, <1>4 DEF SettingInv, AtOnce, CopiesOK
<1>8. AsAsked'
  <2> SUFFICES ASSUME NEW f \in Fields, NEW h \in When, <<f, h>> \notin overwritten'
               PROVE  server'[Key(f)][h] = wish'[f][h]
    BY <1>3 DEF AsAsked
  <2>1. <<f, "next">> \notin overwritten
    BY <1>1
  <2>2. server[Key(f)].next = wish[f].next
    BY <2>1 DEF SettingInv, AsAsked, When
  <2>3. wish'[f].now = wish[f].next /\ wish'[f].next = wish[f].next
    BY <1>1, <1>2
  <2> QED
    BY <1>4, <2>2, <2>3 DEF When
<1> QED
  BY <1>5, <1>6, <1>7, <1>8 DEF SettingInv

-----------------------------------------------------------------------------
(* Reading.                                                                *)

LEMMA FromDictIs ==
  ASSUME NEW keys, NEW dict, NEW f \in DOMAIN keys, NEW g, keys[f] \in DOMAIN dict,
         dict[keys[f]] \in Values(g), f \in BoolFields => TwoValued(g)
  PROVE  FromDict(keys, dict)[f] = dict[keys[f]]
BY ValueFacts DEF FromDict, Lookup

LEMMA HalfIs ==
  ASSUME NEW h
  PROVE  DOMAIN Half(h) = DOMAIN server /\ \A k \in DOMAIN server : Half(h)[k] = server[k][h]
BY DEF Half

LEMMA OptionsAnswerIs ==
  ASSUME DOMAIN server = DOMAIN OptionsServed
  PROVE  /\ \A k \in DOMAIN server \ DOMAIN OptionPairs :
              k \in DOMAIN OptionsAnswer /\ OptionsAnswer[k] = server[k].now
         /\ \A k \in DOMAIN OptionPairs :
              /\ OptionPairs[k][1] \in DOMAIN OptionsAnswer
              /\ OptionPairs[k][2] \in DOMAIN OptionsAnswer
              /\ OptionsAnswer[OptionPairs[k][1]] = server[k].now
              /\ OptionsAnswer[OptionPairs[k][2]] = server[k].next
<1> DEFINE first(c) == CHOOSE k \in DOMAIN OptionPairs : OptionPairs[k][1] = c
           second(n) == CHOOSE k \in DOMAIN OptionPairs : OptionPairs[k][2] = n
           kept == [k \in DOMAIN server \ DOMAIN OptionPairs |-> server[k].now]
           inUse == [c \in {OptionPairs[k][1] : k \in DOMAIN OptionPairs} |-> server[first(c)].now]
           chosen == [n \in {OptionPairs[k][2] : k \in DOMAIN OptionPairs} |-> server[second(n)].next]
<1>1. OptionsAnswer = Merge(kept, Merge(inUse, chosen))
  BY DEF OptionsAnswer
<1>2. \A k \in DOMAIN OptionPairs : first(OptionPairs[k][1]) = k
  <2> TAKE k \in DOMAIN OptionPairs
  <2>1. /\ first(OptionPairs[k][1]) \in DOMAIN OptionPairs
        /\ OptionPairs[first(OptionPairs[k][1])][1] = OptionPairs[k][1]
    OBVIOUS
  <2> QED
    BY <2>1, PairsDiffer
<1>3. \A k \in DOMAIN OptionPairs : second(OptionPairs[k][2]) = k
  <2> TAKE k \in DOMAIN OptionPairs
  <2>1. /\ second(OptionPairs[k][2]) \in DOMAIN OptionPairs
        /\ OptionPairs[second(OptionPairs[k][2])][2] = OptionPairs[k][2]
    OBVIOUS
  <2> QED
    BY <2>1, PairsDiffer
<1> HIDE DEF first, second
<1>4. /\ DOMAIN kept = DOMAIN server \ DOMAIN OptionPairs
      /\ \A k \in DOMAIN server \ DOMAIN OptionPairs : kept[k] = server[k].now
  OBVIOUS
<1>5. \A k \in DOMAIN OptionPairs : /\ OptionPairs[k][1] \in DOMAIN inUse
                                    /\ inUse[OptionPairs[k][1]] = server[k].now
                                    /\ OptionPairs[k][1] \notin DOMAIN kept
  BY <1>2, PairsDiffer
<1>6. \A k \in DOMAIN OptionPairs : /\ OptionPairs[k][2] \in DOMAIN chosen
                                    /\ chosen[OptionPairs[k][2]] = server[k].next
                                    /\ OptionPairs[k][2] \notin DOMAIN kept
                                    /\ OptionPairs[k][2] \notin DOMAIN inUse
  BY <1>3, PairsDiffer
<1> HIDE DEF kept, inUse, chosen
<1> QED
  BY <1>1, <1>4, <1>5, <1>6 DEF Merge

LEMMA TogetherIs ==
  ASSUME SettingInv, NEW f \in Fields, NEW h \in When
  PROVE  ReadsTogether[h][f] = server[Key(f)][h]
<1>1. /\ group \in Watched /\ group.name \in GroupNames /\ Key(f) \in DOMAIN server
      /\ DOMAIN server = ServerKeys[group.name] /\ f \in DOMAIN WrittenKeys(group.name)
      /\ \A k \in When : server[Key(f)][k] \in Values(f)
  BY GroupFacts DEF SettingInv, SettingTypeOK, ValuesOK
<1>2. CASE group.name = "game"
  <2>1. f \in DOMAIN GameInfoKeys /\ GameInfoKeys[f] = Key(f)
    BY <1>1, <1>2, GameKeysSound DEF Key, GameKeys
  <2>2. ReadsTogether[h] = FromDict(GameInfoKeys, Half(h))
    BY <1>2 DEF ReadsTogether, GameInfos, GameInfosAnswer, When
  <2>3. f \in BoolFields => TwoValued(f)
    BY DEF TwoValued
  <2> QED
    BY <1>1, <2>1, <2>2, <2>3, FromDictIs, HalfIs
<1>3. CASE group.name = "mods"
  <2>1. f \in DOMAIN ForcedModsKeys /\ ForcedModsKeys[f] = Key(f)
    BY <1>1, <1>3, ListKeysSound DEF Key, ModKeys
  <2>2. ReadsTogether[h] = FromDict(ForcedModsKeys, Half(h))
    BY <1>3 DEF ReadsTogether, When
  <2>3. f \in BoolFields => TwoValued(f)
    BY DEF TwoValued
  <2> QED
    BY <1>1, <2>1, <2>2, <2>3, FromDictIs, HalfIs
<1>4. CASE group.name = "skins"
  <2>1. f \in DOMAIN ForcedSkinKeys /\ ForcedSkinKeys[f] = Key(f)
    BY <1>1, <1>4, ListKeysSound DEF Key, SkinKeys
  <2>2. ReadsTogether[h] = FromDict(ForcedSkinKeys, Half(h))
    BY <1>4 DEF ReadsTogether, When
  <2>3. f \in BoolFields => TwoValued(f)
    BY DEF TwoValued
  <2> QED
    BY <1>1, <2>1, <2>2, <2>3, FromDictIs, HalfIs
<1>5. CASE group.name = "options"
  <2>1. DOMAIN server = DOMAIN OptionsServed /\ f \in DOMAIN OptionKeys /\ OptionKeys[f] = Key(f)
    BY <1>1, <1>5 DEF ServerKeys, Key, OptionKeys
  <2> DEFINE options == FromDict(ServerOptionsKeys, OptionsAnswer)
  <2>2. /\ ReadsTogether["now"][f] = options[IF f \in DOMAIN CurrentFields THEN CurrentFields[f] ELSE f]
        /\ ReadsTogether["next"][f] = options[NextField(f)]
    BY <1>5 DEF ReadsTogether
  <2>3. CASE f \in DOMAIN CurrentFields
    <3>1. /\ Key(f) \in DOMAIN OptionPairs
          /\ OptionPairs[Key(f)] = <<ServerOptionsKeys[CurrentFields[f]],
                                     ServerOptionsKeys[NextField(f)]>>
      BY <2>1, <2>3, OptionKeysSound, OptionsRead
    <3>2. /\ ServerOptionsKeys[CurrentFields[f]] \in DOMAIN OptionsAnswer
          /\ ServerOptionsKeys[NextField(f)] \in DOMAIN OptionsAnswer
          /\ OptionsAnswer[ServerOptionsKeys[CurrentFields[f]]] = server[Key(f)].now
          /\ OptionsAnswer[ServerOptionsKeys[NextField(f)]] = server[Key(f)].next
      BY <2>1, <3>1, OptionsAnswerIs
    <3>3. options[CurrentFields[f]] = server[Key(f)].now
      BY <1>1, <2>1, <2>3, <3>2, OptionsRead, FromDictIs DEF When
    <3>4. options[NextField(f)] = server[Key(f)].next
      BY <1>1, <2>1, <2>3, <3>2, OptionsRead, FromDictIs DEF When
    <3> QED
      BY <2>2, <2>3, <3>3, <3>4 DEF When
  <2>4. CASE f \notin DOMAIN CurrentFields
    <3>1. /\ Key(f) \notin DOMAIN OptionPairs /\ NextField(f) = f
          /\ f \in DOMAIN ServerOptionsKeys /\ ServerOptionsKeys[f] = Key(f)
      BY <2>1, <2>4, OptionKeysSound, OptionsRead
    <3>2. Key(f) \in DOMAIN OptionsAnswer /\ OptionsAnswer[Key(f)] = server[Key(f)].now
      BY <1>1, <2>1, <3>1, OptionsAnswerIs
    <3>3. options[f] = server[Key(f)].now
      BY <1>1, <3>1, <3>2, FromDictIs DEF When, TwoValued
    <3>4. server[Key(f)].now = server[Key(f)].next
      BY <1>5, <2>4 DEF SettingInv, AtOnce, Deferred
    <3> QED
      BY <2>2, <2>4, <3>1, <3>3, <3>4 DEF When
  <2> QED
    BY <2>3, <2>4
<1> QED
  BY <1>1, <1>2, <1>3, <1>4, <1>5 DEF GroupNames

LEMMA OneIs ==
  ASSUME SettingInv, NEW f \in Alone, NEW h \in When, h \in DOMAIN ReadsOne(f)
  PROVE  f \in Fields /\ ReadsOne(f)[h] = server[Key(f)][h]
<1>1. group \in Watched /\ group.name \in GroupNames
  BY GroupFacts DEF SettingInv, SettingTypeOK
<1>2. /\ f \in Fields /\ KeyOf(Accessors[f][2]) = Key(f)
      /\ Accessors[f][3] \in {"bool", "BoolSetting"} => TwoValued(f)
  BY <1>1, Wrapped DEF Key
<1>3. \A k \in When : /\ AsNumber(server[Key(f)][k]) = server[Key(f)][k]
                      /\ TwoValued(f) => AsBool(server[Key(f)][k]) = server[Key(f)][k]
  BY <1>2, ValueFacts DEF SettingInv, ValuesOK
<1>4. CASE Accessors[f][3] = "IntSetting"
  <2>1. ReadsOne(f) = IntSetting(SettingAnswer(Key(f)))
    BY <1>2, <1>4 DEF ReadsOne
  <2> QED
    BY <1>2, <1>3, <2>1 DEF IntSetting, SettingAnswer, Lookup, When
<1>5. CASE Accessors[f][3] = "BoolSetting"
  <2>1. ReadsOne(f) = BoolSetting(SettingAnswer(Key(f)))
    BY <1>2, <1>5 DEF ReadsOne
  <2> QED
    BY <1>2, <1>3, <1>5, <2>1 DEF BoolSetting, SettingAnswer, Lookup, When
<1>6. CASE Accessors[f][3] = "bool"
  <2>1. ReadsOne(f) = [now |-> AsBool(server[Key(f)].now)]
    BY <1>2, <1>6 DEF ReadsOne
  <2> QED
    BY <1>2, <1>3, <1>6, <2>1 DEF When
<1>7. CASE Accessors[f][3] \notin {"IntSetting", "BoolSetting", "bool"}
  <2>1. ReadsOne(f) = [now |-> AsNumber(server[Key(f)].now)]
    BY <1>2, <1>7 DEF ReadsOne
  <2> QED
    BY <1>2, <1>3, <2>1 DEF When
<1> QED
  BY <1>4, <1>5, <1>6, <1>7

LEMMA ReadsKeeps == ASSUME SettingInv, NEW p \in Writers, Reads(p) PROVE SettingInv'
<1>1. /\ copy' = [copy EXCEPT ![p] = [f \in Fields |-> ReadsTogether["next"][f]]]
      /\ stale' = [stale EXCEPT ![p] = {}]
      /\ UNCHANGED <<group, server, wish, overwritten>>
  BY DEF Reads
<1>2. \A f \in Fields : /\ ReadsTogether["next"][f] = server[Key(f)].next
                        /\ server[Key(f)].next \in Values(f) /\ server[Key(f)].next \in Nat
  BY TogetherIs, ValueFacts DEF When, SettingInv, ValuesOK
<1>3. copy' = [copy EXCEPT ![p] = [f \in Fields |-> server[Key(f)].next]]
  BY <1>1, <1>2
<1>4. /\ copy \in [Writers -> {None} \cup [Fields -> Nat]] /\ stale \in [Writers -> SUBSET Fields]
      /\ [f \in Fields |-> server[Key(f)].next] \in [Fields -> Nat]
  BY <1>2 DEF SettingInv, SettingTypeOK
<1>5. /\ Fields' = Fields
      /\ \A f : Key(f)' = Key(f) /\ Deferred(f)' = Deferred(f) /\ Values(f)' = Values(f)
  BY <1>1 DEF Fields, Key, Deferred, Values
<1>6. SettingTypeOK'
  BY <1>1, <1>3, <1>4, <1>5 DEF SettingInv, SettingTypeOK
<1>7. ValuesOK'
  BY <1>1, <1>2, <1>3, <1>4, <1>5 DEF SettingInv, ValuesOK
<1>8. AsAsked' /\ AtOnce'
  BY <1>1, <1>5 DEF SettingInv, AsAsked, AtOnce
<1>9. CopiesOK'
  BY <1>1, <1>3, <1>4, <1>5 DEF SettingInv, CopiesOK
<1> QED
  BY <1>6, <1>7, <1>8, <1>9 DEF SettingInv

LEMMA SettingsAlways == SettingsSpec => []SettingInv
<1>1. SettingInv /\ [SettingsNext]_settingVars => SettingInv'
  <2>1. SettingInv /\ UNCHANGED settingVars => SettingInv'
    BY DEF settingVars, SettingInv, SettingTypeOK, ValuesOK, AsAsked, AtOnce, CopiesOK, Fields, Key,
           Deferred, Values
  <2> QED
    BY <2>1, SetsOneKeeps, ReadsKeeps, WritesBackKeeps, NextChallengeKeeps DEF SettingsNext
<1> QED
  BY <1>1, SettingsStart, PTL DEF SettingsSpec

(* Whatever settings are changed, by however many plugins, one by one or   *)
(* all of a group, each reads back as it was last asked for, unless a      *)
(* stale copy was written over it: the tables of GbxMethods and of the     *)
(* data classes agree for every setting of every group.                    *)
THEOREM SettingsReadBack == SettingsSpec => []ReadsBack
<1>1. SettingInv => ReadsBack
  <2> SUFFICES ASSUME SettingInv, NEW f \in Fields, NEW h \in When, <<f, h>> \notin overwritten
               PROVE  /\ ReadsTogether[h][f] = wish[f][h]
                      /\ f \in Alone /\ h \in DOMAIN ReadsOne(f) => ReadsOne(f)[h] = wish[f][h]
    BY DEF ReadsBack, When
  <2>1. server[Key(f)][h] = wish[f][h]
    BY DEF SettingInv, AsAsked
  <2> QED
    BY <2>1, TogetherIs, OneIs
<1> QED
  BY <1>1, SettingsAlways, PTL
=============================================================================
