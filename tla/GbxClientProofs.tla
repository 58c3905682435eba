--------------------------- MODULE GbxClientProofs ---------------------------
(***************************************************************************)
(* Theorems of GbxClient, for any callers and chat routes, any number of   *)
(* requests below TopBit and any number of sessions: the table of pending  *)
(* requests is exact, answers reach the call that asked, and shutdown()    *)
(* leaves nobody waiting.                                                  *)
(***************************************************************************)
EXTENDS GbxClient, TLAPS

CallsOK == /\ serial \in Nat
           /\ cpc \in [Everyone -> {"idle", "draining", "waiting"}]
           /\ mine \in [Everyone -> 0..serial]
           /\ got \in [Everyone -> Nat]
           /\ future \in [Everyone -> {"none", "open", "answer", "closed"}]

\* A call that is over has no request and no future; no two share a request.
OneRequestEach ==
  /\ \A c \in Everyone : (cpc[c] = "idle" <=> mine[c] = 0) /\ (cpc[c] = "idle" <=> future[c] = "none")
  /\ \A c, d \in Everyone : mine[c] = mine[d] /\ mine[c] # 0 => c = d

CallInv == CallsOK /\ OneRequestEach /\ PendingExact /\ AnswersMatch

\* Where shutdown() is, and what can still happen to a session then.
SessionInv ==
  /\ pc \in {"greeting", "asking", "asked", "up", "listening"} => writer = TRUE
  /\ listener \in {"running", "cancelled"} => writer = TRUE
  /\ pc \in {"halting", "gathering", "closing"} => connected = FALSE /\ listener # "running"
  /\ pc \in {"gathering", "closing"} => listener # "cancelled"
  /\ pc = "closing" \/ writer = FALSE => InFlight = {} /\ routes = {}
  /\ writer \in BOOLEAN /\ connected \in BOOLEAN

Kinds == {"answer", "fault", "callback", "garbage"}
WireInv == sent \subseteq Nat /\ inbox \in Seq(Kinds \X Nat)

ClientInv == CallInv /\ SessionInv /\ WireInv

-----------------------------------------------------------------------------
(* What each part of call(), shutdown() and the listener does to the calls. *)

LEMMA HandlesDiffer == \A m, n \in Nat : Handle(m) = Handle(n) => m = n
BY BoundsAssumption DEF Handle

LEMMA AskKeeps ==
  ASSUME CallInv, NEW c \in Everyone, Asks(c)
  PROVE  CallInv'
<1> USE DEF CallInv, CallsOK
<1> DEFINE n == serial + 1
<1>1. /\ cpc[c] = "idle" /\ n \in Nat
      /\ serial' = n /\ mine' = [mine EXCEPT ![c] = n]
      /\ future' = [future EXCEPT ![c] = "open"] /\ cpc' = [cpc EXCEPT ![c] = "draining"]
      /\ pending' = [h \in DOMAIN pending \cup {Handle(n)} |->
                       IF h = Handle(n) THEN c ELSE pending[h]]
      /\ got' = got
      BY DEF Asks
<1>2. CallsOK'
      BY <1>1
<1>3. future[c] = "none" /\ \A d \in Everyone : mine[d] \in Nat /\ mine[d] # n
      BY <1>1 DEF OneRequestEach
<1>4. OneRequestEach'
      BY <1>1, <1>3 DEF OneRequestEach
<1>5. InFlight' = InFlight \cup {c} /\ c \notin InFlight
      BY <1>1, <1>3 DEF InFlight
<1>6. PendingExact'
      <2>1. \A d \in InFlight : mine'[d] = mine[d] /\ Handle(mine[d]) # Handle(n)
            BY <1>1, <1>3, <1>5, HandlesDiffer DEF InFlight
      <2>2. mine'[c] = n
            BY <1>1
      <2>3. DOMAIN pending' = {Handle(mine'[d]) : d \in InFlight'}
            BY <1>1, <1>5, <2>1, <2>2 DEF PendingExact
      <2>4. \A d \in InFlight' : pending'[Handle(mine'[d])] = d
            BY <1>1, <1>5, <2>1, <2>2 DEF PendingExact
      <2>5. \A d : Handle(d)' = Handle(d)
            BY DEF Handle
      <2> QED BY <2>3, <2>4, <2>5 DEF PendingExact
<1>7. AnswersMatch'
      BY <1>1 DEF AnswersMatch
<1> QED BY <1>2, <1>4, <1>6, <1>7

LEMMA ForgetKeeps ==
  ASSUME CallInv, NEW c \in Everyone, Forgets(c)
  PROVE  CallInv' /\ InFlight' \subseteq InFlight
<1> USE DEF CallInv, CallsOK
<1>1. /\ cpc' = [cpc EXCEPT ![c] = "idle"] /\ mine' = [mine EXCEPT ![c] = 0]
      /\ future' = [future EXCEPT ![c] = "none"] /\ got' = [got EXCEPT ![c] = 0]
      /\ pending' = [h \in DOMAIN pending \ {Handle(mine[c])} |-> pending[h]]
      /\ serial' = serial
      BY DEF Forgets, Restrict
<1>2. CallsOK'
      BY <1>1
<1>3. OneRequestEach'
      BY <1>1 DEF OneRequestEach
<1>4. InFlight' = InFlight \ {c}
      BY <1>1 DEF InFlight
<1>5. PendingExact'
      <2>1. \A d \in InFlight \ {c} : mine'[d] = mine[d] /\ Handle(mine[d]) # Handle(mine[c])
            <3> SUFFICES ASSUME NEW d \in InFlight \ {c}
                         PROVE  mine'[d] = mine[d] /\ Handle(mine[d]) # Handle(mine[c])
                OBVIOUS
            <3>1. mine[d] # 0
                  BY DEF InFlight, OneRequestEach
            <3>2. mine[d] # mine[c] /\ mine[d] \in Nat /\ mine[c] \in Nat
                  BY <3>1 DEF InFlight, OneRequestEach
            <3> QED BY <1>1, <3>2, HandlesDiffer DEF InFlight
      <2>2. DOMAIN pending' = {Handle(mine'[d]) : d \in InFlight'}
            BY <1>1, <1>4, <2>1 DEF PendingExact
      <2>3. \A d \in InFlight' : pending'[Handle(mine'[d])] = d
            BY <1>1, <1>4, <2>1 DEF PendingExact
      <2>4. \A d : Handle(d)' = Handle(d)
            BY DEF Handle
      <2> QED BY <2>2, <2>3, <2>4 DEF PendingExact
<1>6. AnswersMatch'
      BY <1>1 DEF AnswersMatch
<1> QED BY <1>2, <1>3, <1>4, <1>5, <1>6

LEMMA FailKeeps ==
  ASSUME CallInv, FailPending
  PROVE  CallInv' /\ InFlight' = {}
<1> USE DEF CallInv, CallsOK
<1>1. /\ pending' = <<>> /\ UNCHANGED <<serial, cpc, mine, got>>
      /\ future' = [c \in Everyone |-> IF c \in Range(pending) /\ future[c] = "open"
                                       THEN "closed" ELSE future[c]]
      BY DEF FailPending
<1>2. CallsOK'
      BY <1>1
<1>3. \A c \in InFlight : c \in Range(pending)
      BY DEF PendingExact, Range
<1>4. InFlight' = {}
      BY <1>1, <1>3 DEF InFlight
<1>5. OneRequestEach'
      BY <1>1 DEF OneRequestEach
<1>6. PendingExact'
      BY <1>1, <1>4 DEF PendingExact
<1>7. AnswersMatch'
      BY <1>1 DEF AnswersMatch
<1> QED BY <1>2, <1>4, <1>5, <1>6, <1>7

LEMMA ReadKeeps ==
  ASSUME CallInv, NEW n, ReadsAnswer(n), n \in Nat
  PROVE  CallInv' /\ InFlight' \subseteq InFlight
<1> USE DEF CallInv, CallsOK
<1>1. CASE Handle(n) \notin DOMAIN pending
      BY <1>1 DEF ReadsAnswer, callVars, OneRequestEach, PendingExact, AnswersMatch, InFlight, Handle
<1>2. CASE Handle(n) \in DOMAIN pending
      <2>1. PICK c \in InFlight : Handle(mine[c]) = Handle(n)
            BY <1>2 DEF PendingExact
      <2>2. c \in Everyone /\ future[c] = "open" /\ mine[c] = n /\ pending[Handle(n)] = c
            BY <2>1, HandlesDiffer DEF InFlight, PendingExact
      <2>3. /\ pending' = [h \in DOMAIN pending \ {Handle(n)} |-> pending[h]]
            /\ future' = [future EXCEPT ![c] = "answer"] /\ got' = [got EXCEPT ![c] = n]
            /\ UNCHANGED <<serial, cpc, mine>>
            BY <1>2, <2>2 DEF ReadsAnswer, Restrict
      <2>4. CallsOK' /\ OneRequestEach'
            BY <2>2, <2>3 DEF OneRequestEach
      <2>5. InFlight' = InFlight \ {c}
            BY <2>2, <2>3 DEF InFlight
      <2>6. \A d \in InFlight \ {c} : Handle(mine[d]) # Handle(n)
            BY <2>1, <2>2, HandlesDiffer DEF OneRequestEach, InFlight
      <2>7. DOMAIN pending' = {Handle(mine'[d]) : d \in InFlight'}
            BY <2>2, <2>3, <2>5, <2>6 DEF PendingExact
      <2>8. \A d \in InFlight' : pending'[Handle(mine'[d])] = d
            BY <2>3, <2>5, <2>6 DEF PendingExact
      <2>9. PendingExact'
            BY <2>7, <2>8 DEF PendingExact, Handle
      <2>10. AnswersMatch'
            BY <2>2, <2>3 DEF AnswersMatch
      <2> QED BY <2>4, <2>5, <2>9, <2>10
<1> QED BY <1>1, <1>2

LEMMA DrainKeeps ==
  ASSUME CallInv, NEW c \in Everyone, Drained(c)
  PROVE  CallInv' /\ InFlight' = InFlight
<1>1. cpc[c] = "draining" /\ cpc' = [cpc EXCEPT ![c] = "waiting"]
      /\ UNCHANGED <<serial, pending, mine, future, got>>
      BY DEF Drained
<1> QED BY <1>1 DEF CallInv, CallsOK, OneRequestEach, PendingExact, AnswersMatch, InFlight, Handle

LEMMA SameCalls ==
  ASSUME CallInv, UNCHANGED callVars
  PROVE  CallInv' /\ InFlight' = InFlight
BY DEF callVars, CallInv, CallsOK, OneRequestEach, PendingExact, AnswersMatch, InFlight, Handle

-----------------------------------------------------------------------------
(* The sessions.                                                             *)

LEMMA ClientStart == Init => ClientInv
<1> SUFFICES ASSUME Init PROVE ClientInv
    OBVIOUS
<1>1. CallsOK /\ OneRequestEach
      BY DEF Init, CallsOK, OneRequestEach
<1>2. InFlight = {}
      BY DEF Init, InFlight
<1>3. PendingExact /\ AnswersMatch
      BY <1>2 DEF Init, PendingExact, AnswersMatch
<1>4. SessionInv
      BY <1>2 DEF Init, SessionInv
<1>5. WireInv
      BY DEF Init, WireInv
<1> QED BY <1>1, <1>3, <1>4, <1>5 DEF ClientInv, CallInv

\* A call can be made only while its session is open.
LEMMA CallsNeedSession ==
  ASSUME SessionInv, MayCall
  PROVE  pc # "closing" /\ writer = TRUE
BY DEF SessionInv, MayCall

\* Steps that open, close and end nothing.
LEMMA SameSession ==
  ASSUME SessionInv, UNCHANGED <<pc, writer, listener>>, connected' \in {connected, FALSE},
         InFlight' \subseteq InFlight, routes' \subseteq routes
  PROVE  SessionInv'
BY DEF SessionInv

\* The beginning of shutdown().
LEMMA ShutdownKeeps ==
  ASSUME SessionInv, NEW w, ShutdownBegins(w), InFlight' \subseteq InFlight
  PROVE  SessionInv'
<1>1. /\ pc' = "halting" /\ connected' = FALSE /\ UNCHANGED <<writer, routes>>
      /\ listener' = IF listener = "running" THEN "cancelled" ELSE listener
      BY DEF ShutdownBegins
<1> QED BY <1>1 DEF SessionInv

LEMMA CallStepKeeps ==
  ASSUME ClientInv, NEW c \in Everyone, CallBegins(c) \/ CallStep(c) \/ CallTimesOut(c)
  PROVE  ClientInv'
<1> USE DEF ClientInv
<1>1. CASE CallBegins(c)
      <2>1. Asks(c) /\ UNCHANGED <<pc, writer, listener, connected, routes>>
            BY <1>1 DEF CallBegins, controlVars, sessionVars
      <2>2. CallInv'
            BY <2>1, AskKeeps
      <2>3. pc # "closing" /\ writer = TRUE
            BY <2>1, CallsNeedSession DEF Asks
      <2>4. SessionInv'
            BY <2>1, <2>3 DEF SessionInv
      <2>5. WireInv'
            BY <2>1 DEF Asks, WireInv, CallInv, CallsOK
      <2> QED BY <2>2, <2>4, <2>5
<1>2. CASE CallReturns(c) \/ CallTimesOut(c) \/ CallBreaks(c)
      <2>1. /\ Forgets(c) /\ UNCHANGED <<pc, writer, listener, routes, sent, inbox>>
            /\ connected' \in {connected, FALSE}
            BY <1>2 DEF CallReturns, CallTimesOut, CallBreaks, controlVars, sessionVars, wireVars
      <2>2. CallInv' /\ InFlight' \subseteq InFlight
            BY <2>1, ForgetKeeps
      <2>3. SessionInv'
            BY <2>1, <2>2, SameSession
      <2> QED BY <2>1, <2>2, <2>3 DEF WireInv
<1>3. CASE Drained(c)
      <2>1. UNCHANGED <<pc, writer, listener, connected, routes, sent, inbox>>
            BY <1>3 DEF Drained, controlVars, sessionVars, wireVars
      <2>2. CallInv' /\ InFlight' = InFlight
            BY <1>3, DrainKeeps
      <2> QED BY <2>1, <2>2, SameSession DEF WireInv
<1> QED BY <1>1, <1>2, <1>3 DEF CallStep

LEMMA ShutdownStepKeeps ==
  ASSUME ClientInv, ShutdownStep
  PROVE  ClientInv'
<1> USE DEF ClientInv
<1>1. CASE ListenerHalted
      <2>1. /\ pc = "halting" /\ listener # "cancelled" /\ pc' = "gathering"
            /\ UNCHANGED <<writer, listener, connected, routes, sent, inbox, callVars>>
            BY <1>1 DEF ListenerHalted, sessionVars, wireVars
      <2>2. CallInv' /\ InFlight' = InFlight
            BY <2>1, SameCalls
      <2> QED BY <2>1, <2>2 DEF SessionInv, WireInv
<1>2. CASE RoutesGathered
      <2>1. /\ pc = "gathering" /\ routes = {} /\ FailPending /\ pc' = "closing"
            /\ sent' = {} /\ inbox' = <<>>
            /\ UNCHANGED <<writer, listener, connected, routes>>
            BY <1>2 DEF RoutesGathered, sessionVars
      <2>2. CallInv' /\ InFlight' = {}
            BY <2>1, FailKeeps
      <2>3. WireInv'
            BY <2>1 DEF WireInv
      <2> QED BY <2>1, <2>2, <2>3 DEF SessionInv
<1>3. CASE Closed
      <2>1. /\ pc = "closing" /\ writer' = FALSE /\ listener' = "none"
            /\ pc' \in {"opening", "closed", "idle"}
            /\ UNCHANGED <<connected, routes, sent, inbox, callVars>>
            BY <1>3 DEF Closed, wireVars
      <2>2. CallInv' /\ InFlight' = InFlight
            BY <2>1, SameCalls
      <2> QED BY <2>1, <2>2 DEF SessionInv, WireInv
<1>4. ASSUME NEW c \in Routes, RouteCancelled(c) PROVE ClientInv'
      <2>1. /\ Forgets(c) /\ routes' \subseteq routes
            /\ UNCHANGED <<pc, writer, listener, connected, sent, inbox>>
            BY <1>4 DEF RouteCancelled, controlVars, wireVars
      <2>2. CallInv' /\ InFlight' \subseteq InFlight
            BY <2>1, ForgetKeeps DEF Everyone
      <2> QED BY <2>1, <2>2, SameSession DEF WireInv
<1> QED BY <1>1, <1>2, <1>3, <1>4 DEF ShutdownStep

LEMMA ConnectorKeeps ==
  ASSUME ClientInv,
         Connect \/ Opens \/ Greeted \/ AskBegins \/ AskAnswered \/ ConnectFails
         \/ Listens \/ SessionEnds \/ Interrupted
  PROVE  ClientInv'
<1> USE DEF ClientInv
<1>0. Connector \in Everyone
      BY DEF Everyone
<1>1. ASSUME NEW w, ShutdownBegins(w), UNCHANGED callVars \/ Forgets(Connector),
             UNCHANGED <<sent, inbox>>
      PROVE  ClientInv'
      <2>1. CallInv' /\ InFlight' \subseteq InFlight
            BY <1>0, <1>1, SameCalls, ForgetKeeps
      <2> QED BY <1>1, <2>1, ShutdownKeeps DEF WireInv
<1>2. CASE Connect \/ ConnectFails \/ SessionEnds
      <2>1. \E w : ShutdownBegins(w)
            BY <1>2 DEF Connect, ConnectFails, SessionEnds
      <2>2. UNCHANGED callVars \/ Forgets(Connector)
            BY <1>2 DEF Connect, ConnectFails, SessionEnds
      <2>3. UNCHANGED <<sent, inbox>>
            BY <1>2 DEF Connect, ConnectFails, SessionEnds, wireVars
      <2> QED BY <1>1, <2>1, <2>2, <2>3
<1>3. CASE Interrupted
      <2>1. UNCHANGED <<sent, inbox>>
            BY <1>3 DEF Interrupted, wireVars
      <2>2. CASE pc = "halting" /\ listener = "cancelled"
            <3>1. UNCHANGED <<pc, writer, listener, connected, routes, callVars>>
                  BY <1>3, <2>2 DEF Interrupted, controlVars, sessionVars
            <3> QED BY <2>1, <3>1, SameCalls, SameSession DEF WireInv
      <2>3. CASE ~(pc = "halting" /\ listener = "cancelled")
            <3>1. ShutdownBegins("stop") /\ (UNCHANGED callVars \/ Forgets(Connector))
                  BY <1>3, <2>3 DEF Interrupted
            <3> QED BY <1>1, <2>1, <3>1
      <2> QED BY <2>2, <2>3
<1>4. CASE Opens
      <2>1. /\ pc' = "greeting" /\ writer' = TRUE
            /\ UNCHANGED <<listener, connected, routes, sent, inbox, callVars>>
            BY <1>4 DEF Opens
      <2> QED BY <2>1, SameCalls DEF SessionInv, WireInv
<1>5. CASE Greeted
      <2>1. /\ pc = "greeting" /\ pc' = "asking" /\ listener' = "running"
            /\ UNCHANGED <<writer, connected, routes, sent, inbox, callVars>>
            BY <1>5 DEF Greeted, wireVars
      <2> QED BY <2>1, SameCalls DEF SessionInv, WireInv
<1>6. CASE AskBegins
      <2>1. /\ pc = "asking" /\ pc' = "asked" /\ Asks(Connector)
            /\ UNCHANGED <<writer, listener, connected, routes>>
            BY <1>6 DEF AskBegins, sessionVars
      <2>2. CallInv'
            BY <1>0, <2>1, AskKeeps
      <2>3. WireInv'
            BY <2>1 DEF Asks, WireInv, CallInv, CallsOK
      <2> QED BY <2>1, <2>2, <2>3 DEF SessionInv
<1>7. CASE AskAnswered
      <2>1. /\ pc = "asked" /\ pc' \in {"up", "asking"} /\ Forgets(Connector)
            /\ connected' \in {connected, TRUE}
            /\ UNCHANGED <<writer, listener, routes, sent, inbox>>
            BY <1>7 DEF AskAnswered, wireVars
      <2>2. CallInv'
            BY <1>0, <2>1, ForgetKeeps
      <2> QED BY <2>1, <2>2 DEF SessionInv, WireInv
<1>8. CASE Listens
      <2>1. /\ pc = "up" /\ pc' = "listening"
            /\ UNCHANGED <<writer, listener, connected, routes, sent, inbox, callVars>>
            BY <1>8 DEF Listens, sessionVars, wireVars
      <2> QED BY <2>1, SameCalls DEF SessionInv, WireInv
<1> QED BY <1>2, <1>3, <1>4, <1>5, <1>6, <1>7, <1>8

LEMMA ListenerKeeps ==
  ASSUME ClientInv, ListenerStep
  PROVE  ClientInv'
<1> USE DEF ClientInv
<1>1. CASE ListenerReads
      <2>1. /\ listener = "running" /\ inbox # <<>> /\ inbox' = Tail(inbox)
            /\ UNCHANGED <<pc, writer, sent>>
            /\ listener' \in {"running", "dead"} /\ connected' \in {connected, FALSE}
            BY <1>1 DEF ListenerReads, ListenerDies, controlVars
      <2>2. Head(inbox)[2] \in Nat /\ WireInv'
            BY <2>1 DEF WireInv
      <2>3. UNCHANGED callVars \/ ReadsAnswer(Head(inbox)[2])
            BY <1>1 DEF ListenerReads
      <2>4. CallInv'
            BY <2>2, <2>3, SameCalls, ReadKeeps
      <2>5. pc \notin {"halting", "gathering", "closing"} /\ writer = TRUE
            BY <2>1 DEF SessionInv
      <2>6. SessionInv'
            BY <2>1, <2>5 DEF SessionInv
      <2> QED BY <2>2, <2>4, <2>6
<1>2. CASE ListenerLoses
      <2>1. /\ listener = "running" /\ listener' = "dead" /\ connected' = FALSE
            /\ UNCHANGED <<pc, writer, routes, sent, inbox, callVars>>
            BY <1>2 DEF ListenerLoses, ListenerDies, controlVars, wireVars
      <2>2. CallInv' /\ InFlight' = InFlight
            BY <2>1, SameCalls
      <2> QED BY <2>1, <2>2 DEF SessionInv, WireInv
<1>3. CASE ListenerCancelled
      <2>1. /\ listener = "cancelled" /\ listener' = "dead"
            /\ UNCHANGED <<pc, connected, writer, routes, sent, inbox, callVars>>
            BY <1>3 DEF ListenerCancelled, controlVars, wireVars
      <2>2. CallInv' /\ InFlight' = InFlight
            BY <2>1, SameCalls
      <2> QED BY <2>1, <2>2 DEF SessionInv, WireInv
<1> QED BY <1>1, <1>2, <1>3 DEF ListenerStep

LEMMA OthersKeep ==
  ASSUME ClientInv,
         \/ \E c \in Routes : RouteEnds(c)
         \/ \E n \in sent : ServerAnswers(n)
         \/ ServerSpeaks \/ ServerHangsUp
  PROVE  ClientInv'
<1> USE DEF ClientInv
<1>1. /\ UNCHANGED <<pc, writer, listener, connected, callVars>> /\ routes' \subseteq routes
      BY DEF RouteEnds, ServerAnswers, ServerSpeaks, ServerHangsUp, Sends, controlVars, sessionVars
<1>2. CallInv' /\ InFlight' = InFlight
      BY <1>1, SameCalls
<1>3. SessionInv'
      BY <1>1, <1>2, SameSession
<1>4. WireInv'
      <2>1. CASE \E c \in Routes : RouteEnds(c)
            BY <2>1 DEF RouteEnds, wireVars, WireInv
      <2>2. ASSUME NEW n \in sent, ServerAnswers(n) PROVE WireInv'
            <3>1. Answer(n) \in Kinds \X Nat /\ Fault(n) \in Kinds \X Nat
                  BY DEF Answer, Fault, WireInv, Kinds
            <3>2. sent' \subseteq sent /\ \E m \in Kinds \X Nat : inbox' = Append(inbox, m)
                  BY <2>2, <3>1 DEF ServerAnswers, Sends
            <3> QED BY <3>2 DEF WireInv
      <2>3. CASE ServerSpeaks
            <3>1. Callback \in Kinds \X Nat /\ Garbage \in Kinds \X Nat
                  BY DEF Callback, Garbage, Kinds
            <3>2. sent' = sent /\ \E m \in Kinds \X Nat : inbox' = Append(inbox, m)
                  BY <2>3, <3>1 DEF ServerSpeaks, Sends
            <3> QED BY <3>2 DEF WireInv
      <2>4. CASE ServerHangsUp
            BY <2>4 DEF ServerHangsUp, WireInv
      <2> QED BY <2>1, <2>2, <2>3, <2>4
<1> QED BY <1>2, <1>3, <1>4

LEMMA ClientGoesOn == ClientInv /\ [Next]_vars => ClientInv'
<1> SUFFICES ASSUME ClientInv, [Next]_vars PROVE ClientInv'
    OBVIOUS
<1>1. CASE UNCHANGED vars
      <2>1. UNCHANGED <<pc, writer, listener, connected, routes, sent, inbox, callVars>>
            BY <1>1 DEF vars, controlVars, sessionVars, wireVars
      <2> QED BY <2>1, SameCalls, SameSession DEF ClientInv, WireInv
<1> QED BY <1>1, CallStepKeeps, ShutdownStepKeeps, ConnectorKeeps, ListenerKeeps, OthersKeep
        DEF Next, Finished

LEMMA ClientAlways == Spec => []ClientInv
BY ClientStart, ClientGoesOn, PTL DEF Spec

(* The table of pending requests holds exactly the calls that wait for an  *)
(* answer, whatever times out, breaks or is cancelled (client.py:216).     *)
THEOREM PendingTableExact == Spec => []PendingExact
<1>1. ClientInv => PendingExact
      BY DEF ClientInv, CallInv
<1> QED BY <1>1, ClientAlways, PTL

(* An answer reaches the call that asked, however late and in whatever     *)
(* order answers come, while requests stay below TopBit (client.py:307).   *)
THEOREM AnswersReachTheirCall == Spec => []AnswersMatch
<1>1. ClientInv => AnswersMatch
      BY DEF ClientInv, CallInv
<1> QED BY <1>1, ClientAlways, PTL

(* After shutdown() no call waits and no chat route runs, though calls are *)
(* admitted while it awaits the listener (client.py:158).                  *)
THEOREM ShutdownLeavesNobody == Spec => []NobodyLeftWaiting
<1>1. ClientInv => NobodyLeftWaiting
      BY DEF ClientInv, SessionInv, NobodyLeftWaiting
<1> QED BY <1>1, ClientAlways, PTL

-----------------------------------------------------------------------------
(* Types and bounds.                                                       *)

\* Where the Connector is, and how far connect() has got.
PlacesOK ==
  /\ pc \in {"idle", "opening", "greeting", "asking", "asked", "up", "listening",
             "halting", "gathering", "closing", "closed"}
  /\ why \in {"none", "connect", "undo", "disconnect", "stop"}
  /\ stage \in 0..Requests /\ interrupted \in BOOLEAN
  /\ pc \in {"asking", "asked"} => stage < Requests
  /\ pc \notin {"asking", "asked", "up", "listening"} => stage = 0
  /\ listener \in {"none", "running", "cancelled", "dead"}
  /\ routes \subseteq Routes
  /\ sessions \in 0..MaxSessions /\ link \in {"none", "up", "down"}
  /\ pc = "opening" \/ (pc \in {"halting", "gathering", "closing"} /\ why = "connect")
       => sessions < MaxSessions

\* Nothing on the wire answers a request that was not asked.
NumbersOK == /\ serial \in 0..MaxCalls
             /\ got \in [Everyone -> 0..serial]
             /\ sent \subseteq 1..serial
             /\ inbox \in Seq(Kinds \X (0..serial))

LEMMA PlacesStay ==
  ASSUME PlacesOK, pc' = pc \/ (pc' = "listening" /\ pc = "up"), UNCHANGED <<why, stage>>,
         interrupted' \in BOOLEAN,
         listener' \in {listener, "none", "running", "cancelled", "dead"}, routes' \subseteq Routes,
         sessions' = sessions, link' \in {link, "none", "down"}
  PROVE  PlacesOK'
BY DEF PlacesOK

LEMMA PlacesShutDown ==
  ASSUME PlacesOK, NEW w \in {"connect", "undo", "disconnect", "stop"}, ShutdownBegins(w),
         w = "connect" => sessions < MaxSessions, interrupted' \in BOOLEAN, UNCHANGED link
  PROVE  PlacesOK'
BY BoundsAssumption DEF PlacesOK, ShutdownBegins

LEMMA PlacesKept == ASSUME PlacesOK, [Next]_vars PROVE PlacesOK'
<1>1. ASSUME NEW c \in Everyone, CallBegins(c) \/ CallStep(c) \/ CallTimesOut(c) PROVE PlacesOK'
  <2>1. UNCHANGED <<pc, why, stage, listener, routes, sessions, link, interrupted>>
    BY <1>1 DEF CallBegins, CallStep, CallTimesOut, CallReturns, CallBreaks, Drained, Asks,
                controlVars, sessionVars, wireVars
  <2> QED
    BY <2>1, PlacesStay DEF PlacesOK
<1>2. CASE Connect
  BY <1>2, PlacesShutDown DEF Connect, PlacesOK, wireVars
<1>3. CASE SessionEnds
  BY <1>3, PlacesShutDown DEF SessionEnds, PlacesOK, wireVars
<1>4. CASE ConnectFails
  BY <1>4, PlacesShutDown DEF ConnectFails, PlacesOK, wireVars
<1>5. CASE Interrupted
  <2>1. /\ interrupted' \in BOOLEAN /\ UNCHANGED link
        /\ UNCHANGED <<controlVars, sessionVars>> \/ ShutdownBegins("stop")
    BY <1>5 DEF Interrupted, wireVars
  <2> QED
    BY <2>1, PlacesStay, PlacesShutDown DEF PlacesOK, controlVars, sessionVars
<1>6. CASE Opens
  BY <1>6, BoundsAssumption DEF Opens, PlacesOK
<1>7. CASE Greeted \/ AskBegins \/ AskAnswered
  <2>1. /\ stage' \in 0..Requests
        /\ pc' \in {"asking", "asked"} => stage' < Requests
    BY <1>7, BoundsAssumption DEF Greeted, AskBegins, AskAnswered, PlacesOK
  <2>2. /\ pc' \in {"asking", "asked", "up"} /\ listener' \in {listener, "running"}
        /\ UNCHANGED <<why, routes, sessions, link, interrupted>>
    BY <1>7 DEF Greeted, AskBegins, AskAnswered, Asks, sessionVars, wireVars
  <2> QED
    BY <2>1, <2>2 DEF PlacesOK
<1>8. CASE Listens
  BY <1>8, PlacesStay DEF Listens, PlacesOK, sessionVars, wireVars
<1>9. CASE ListenerHalted \/ RoutesGathered \/ Closed
  <2>1. /\ pc \in {"halting", "gathering", "closing"}
        /\ pc' \in {"gathering", "closing", "opening", "closed", "idle"}
        /\ why' \in {why, "none"} /\ (pc' = "opening" => why = "connect")
        /\ stage' = stage /\ listener' \in {listener, "none"}
        /\ link' \in {link, "none"} /\ UNCHANGED <<routes, sessions, interrupted>>
    BY <1>9 DEF ListenerHalted, RoutesGathered, Closed, sessionVars, wireVars
  <2> QED
    BY <2>1 DEF PlacesOK
<1>10. CASE (\E c \in Routes : RouteCancelled(c)) \/ (\E c \in Routes : RouteEnds(c))
  <2>1. /\ UNCHANGED <<pc, why, stage, listener, sessions, link, interrupted>>
        /\ routes' \subseteq routes
    BY <1>10 DEF RouteCancelled, RouteEnds, controlVars, wireVars
  <2> QED
    BY <2>1, PlacesStay DEF PlacesOK
<1>11. CASE ListenerStep
  <2>1. UNCHANGED <<pc, why, stage, sessions, link, interrupted>>
    BY <1>11 DEF ListenerStep, ListenerReads, ListenerLoses, ListenerCancelled, controlVars,
                 wireVars
  <2>2. listener' \in {listener, "dead"}
    BY <1>11 DEF ListenerStep, ListenerReads, ListenerLoses, ListenerCancelled, ListenerDies
  <2>3. routes' \subseteq Routes
    BY <1>11 DEF ListenerStep, ListenerReads, ListenerLoses, ListenerCancelled, ListenerDies,
                 PlacesOK
  <2> QED
    BY <2>1, <2>2, <2>3, PlacesStay DEF PlacesOK
<1>12. CASE (\E n \in sent : ServerAnswers(n)) \/ ServerSpeaks \/ ServerHangsUp \/ UNCHANGED vars
  <2>1. /\ UNCHANGED <<pc, why, stage, listener, routes, sessions, interrupted>>
        /\ link' \in {link, "down"}
    BY <1>12 DEF ServerAnswers, ServerSpeaks, ServerHangsUp, Sends, controlVars, sessionVars,
                 wireVars, vars
  <2> QED
    BY <2>1, PlacesStay DEF PlacesOK
<1> QED
  BY <1>1, <1>2, <1>3, <1>4, <1>5, <1>6, <1>7, <1>8, <1>9, <1>10, <1>11, <1>12
  DEF Next, Finished, ShutdownStep

LEMMA NumbersStay ==
  ASSUME NumbersOK, UNCHANGED serial, got' \in [Everyone -> 0..serial], sent' \subseteq sent,
         inbox' = inbox \/ inbox' = <<>>
  PROVE  NumbersOK'
<1>1. <<>> \in Seq(Kinds \X (0..serial))
  OBVIOUS
<1>2. inbox' \in Seq(Kinds \X (0..serial))
  BY <1>1 DEF NumbersOK
<1> QED
  BY <1>2 DEF NumbersOK

LEMMA NumbersAsked == ASSUME NumbersOK, NEW c \in Everyone, Asks(c) PROVE NumbersOK'
<1>1. /\ serial' = serial + 1 /\ serial < MaxCalls /\ got' = got /\ inbox' = inbox
      /\ sent' \subseteq sent \cup {serial + 1}
  BY DEF Asks
<1>2. serial \in Nat /\ serial' \in 0..MaxCalls /\ 0..serial \subseteq 0..serial'
  BY <1>1, BoundsAssumption DEF NumbersOK
<1>3. inbox' \in Seq(Kinds \X (0..serial'))
  <2>1. Kinds \X (0..serial) \subseteq Kinds \X (0..serial')
    BY <1>2
  <2> QED
    BY <1>1, <2>1 DEF NumbersOK
<1>4. got' \in [Everyone -> 0..serial'] /\ sent' \subseteq 1..serial'
  BY <1>1, <1>2 DEF NumbersOK
<1> QED
  BY <1>2, <1>3, <1>4 DEF NumbersOK

LEMMA NumbersForgotten ==
  ASSUME NumbersOK, NEW c \in Everyone, Forgets(c), UNCHANGED <<sent, inbox>>
  PROVE  NumbersOK'
<1>1. got' \in [Everyone -> 0..serial]
  BY DEF NumbersOK, Forgets
<1> QED
  BY <1>1, NumbersStay DEF Forgets

LEMMA NumbersKept == ASSUME CallInv, NumbersOK, [Next]_vars PROVE NumbersOK'
<1>1. ASSUME UNCHANGED <<callVars, sent, inbox>> PROVE NumbersOK'
  BY <1>1, NumbersStay DEF callVars, NumbersOK
<1>2. ASSUME NEW c \in Everyone, CallBegins(c) \/ CallStep(c) \/ CallTimesOut(c) PROVE NumbersOK'
  <2>1. Asks(c) \/ (Forgets(c) /\ UNCHANGED <<sent, inbox>>)
        \/ UNCHANGED <<serial, got, sent, inbox>>
    BY <1>2 DEF CallBegins, CallStep, CallTimesOut, CallReturns, CallBreaks, Drained, wireVars
  <2> QED
    BY <2>1, NumbersAsked, NumbersForgotten, NumbersStay DEF NumbersOK
<1>3. CASE Connect \/ Opens \/ Greeted \/ Listens \/ SessionEnds \/ ListenerHalted \/ Closed
  <2>1. UNCHANGED <<callVars, sent, inbox>>
    BY <1>3 DEF Connect, Opens, Greeted, Listens, SessionEnds, ListenerHalted, Closed, wireVars
  <2> QED
    BY <1>1, <2>1
<1>4. CASE AskBegins
  BY <1>4, NumbersAsked DEF AskBegins, Everyone
<1>5. CASE AskAnswered \/ ConnectFails \/ Interrupted
  <2>1. Connector \in Everyone
    BY DEF Everyone
  <2>2. (Forgets(Connector) \/ UNCHANGED callVars) /\ UNCHANGED <<sent, inbox>>
    BY <1>5 DEF AskAnswered, ConnectFails, Interrupted, wireVars
  <2> QED
    BY <1>1, <2>1, <2>2, NumbersForgotten
<1>6. CASE RoutesGathered
  BY <1>6, NumbersStay DEF RoutesGathered, FailPending, NumbersOK
<1>7. ASSUME NEW c \in Routes, RouteCancelled(c) PROVE NumbersOK'
  BY <1>7, NumbersForgotten DEF RouteCancelled, Everyone, wireVars
<1>8. ASSUME NEW c \in Routes, RouteEnds(c) PROVE NumbersOK'
  BY <1>1, <1>8 DEF RouteEnds, wireVars
<1>9. CASE ListenerReads
  <2>1. /\ inbox # <<>> /\ inbox' = Tail(inbox) /\ sent' = sent
        /\ UNCHANGED callVars \/ ReadsAnswer(Head(inbox)[2])
    BY <1>9 DEF ListenerReads
  <2>2. /\ Head(inbox)[2] \in 0..serial /\ inbox' \in Seq(Kinds \X (0..serial))
    BY <2>1 DEF NumbersOK
  <2>3. serial' = serial
    BY <2>1 DEF ReadsAnswer, callVars
  <2>4. got' \in [Everyone -> 0..serial]
    <3>1. CASE UNCHANGED callVars
      BY <3>1 DEF callVars, NumbersOK
    <3>2. CASE ReadsAnswer(Head(inbox)[2])
      BY <2>2, <3>2 DEF ReadsAnswer, callVars, NumbersOK
    <3> QED
      BY <2>1, <3>1, <3>2
  <2> QED
    BY <2>1, <2>2, <2>3, <2>4 DEF NumbersOK
<1>10. CASE ListenerLoses \/ ListenerCancelled
  BY <1>1, <1>10 DEF ListenerLoses, ListenerCancelled, wireVars
<1>11. ASSUME NEW packet \in Kinds \X (0..serial), Sends(packet), sent' \subseteq sent
       PROVE  NumbersOK'
  <2>1. inbox' \in Seq(Kinds \X (0..serial)) /\ UNCHANGED <<serial, got>>
    BY <1>11 DEF Sends, NumbersOK, callVars
  <2> QED
    BY <1>11, <2>1 DEF NumbersOK
<1>12. ASSUME NEW n \in sent, ServerAnswers(n) PROVE NumbersOK'
  <2>1. Answer(n) \in Kinds \X (0..serial) /\ Fault(n) \in Kinds \X (0..serial)
    BY DEF Answer, Fault, Kinds, NumbersOK
  <2> QED
    BY <1>11, <1>12, <2>1 DEF ServerAnswers
<1>13. CASE ServerSpeaks
  <2>1. Callback \in Kinds \X (0..serial) /\ Garbage \in Kinds \X (0..serial)
    BY BoundsAssumption DEF Callback, Garbage, Kinds, NumbersOK
  <2> QED
    BY <1>11, <1>13, <2>1 DEF ServerSpeaks
<1>14. CASE ServerHangsUp \/ UNCHANGED vars
  BY <1>1, <1>14 DEF ServerHangsUp, vars, wireVars
<1> QED
  BY <1>2, <1>3, <1>4, <1>5, <1>6, <1>7, <1>8, <1>9, <1>10, <1>12, <1>13, <1>14
  DEF Next, Finished, ShutdownStep, ListenerStep

(* Every variable keeps its type; among others, connect() asks no more than  *)
(* its requests, and no number is on the wire, in the table or in an answer  *)
(* that was not given to a request before (client.py:192).                   *)
THEOREM ClientTypes == Spec => []TypeOK
<1>1. Init => PlacesOK /\ NumbersOK
  <2> SUFFICES ASSUME Init PROVE PlacesOK /\ NumbersOK
    OBVIOUS
  <2>1. PlacesOK
    <3>1. stage \in 0..Requests /\ sessions \in 0..MaxSessions
      BY BoundsAssumption DEF Init
    <3> QED
      BY <3>1 DEF Init, PlacesOK
  <2>2. inbox \in Seq(Kinds \X (0..serial))
    BY DEF Init
  <2>3. /\ serial \in 0..MaxCalls /\ sent \subseteq 1..serial
        /\ got \in [Everyone -> 0..serial]
    BY BoundsAssumption DEF Init
  <2> QED
    BY <2>1, <2>2, <2>3 DEF NumbersOK
<1>2. ClientInv /\ PlacesOK /\ NumbersOK /\ [Next]_vars => PlacesOK' /\ NumbersOK'
  BY PlacesKept, NumbersKept DEF ClientInv
<1>3. ClientInv /\ PlacesOK /\ NumbersOK => TypeOK
  <2> SUFFICES ASSUME ClientInv, PlacesOK, NumbersOK PROVE TypeOK
    OBVIOUS
  <2>1. /\ CallsOK /\ OneRequestEach /\ PendingExact
        /\ writer \in BOOLEAN /\ connected \in BOOLEAN
    BY DEF ClientInv, CallInv, SessionInv
  <2>2. ASSUME NEW c \in InFlight PROVE mine[c] \in 1..serial /\ c \in Everyone
    BY <2>1, <2>2 DEF CallsOK, OneRequestEach, InFlight
  <2>3. DOMAIN pending \subseteq {Handle(n) : n \in 1..serial}
    BY <2>1, <2>2 DEF PendingExact
  <2>4. Range(pending) \subseteq Everyone
    BY <2>1, <2>2 DEF PendingExact, Range
  <2> QED
    BY <2>1, <2>3, <2>4 DEF TypeOK, PlacesOK, NumbersOK, CallsOK
<1> QED
  BY <1>1, <1>2, <1>3, ClientAlways, PTL DEF Spec

=============================================================================
