------------------------------ MODULE GbxClient ------------------------------
(***************************************************************************)
(* trackhelm.gbx.GbxClient: the session with the game server, the listener *)
(* task that reads it, and the calls in flight.  Coroutines: the Connector *)
(* (the controller's startup and supervisor, one after the other), which   *)
(* connects, listens and disconnects; the listener; chat routes, which the *)
(* listener starts; and other callers (plugins).                           *)
(*                                                                         *)
(* A request is known by its number: its handle on the wire is the number  *)
(* with the top bit set.  _pending_lock is never contended, for nobody     *)
(* awaits while holding it.                                                *)
(*                                                                         *)
(* An operator whose name starts with Bug is the definition below it with  *)
(* a plausible mistake; no other definition uses it.                       *)
(***************************************************************************)
EXTENDS Naturals, Sequences, Functions

CONSTANTS Callers,      \* plugin coroutines that call methods
          Routes,       \* tasks that route a line of chat
          Connector,
          Requests,     \* requests of connect(): authenticate, enable_callbacks, ...
          TopBit,       \* 2^31
          MaxCalls,     \* bound: requests in all
          MaxSessions,  \* bound: connections in all
          Faults,       \* does the server answer requests with a fault?
          MaxInbox      \* bound: packets on their way

Everyone == Callers \cup Routes \cup {Connector}

ASSUME CallersAssumption == /\ Callers \cap Routes = {}
                            /\ Connector \notin Callers \cup Routes
ASSUME BoundsAssumption == /\ Requests \in Nat \ {0} /\ TopBit \in Nat
                           /\ MaxCalls \in Nat /\ MaxCalls < TopBit
                           /\ MaxSessions \in Nat /\ MaxInbox \in Nat
                           /\ Faults \in BOOLEAN

VARIABLES pc,           \* where the Connector is
          why,          \* who called the shutdown() that runs
          stage,        \* how many requests of connect() were answered
          connected,    \* _connected
          writer,       \* _reader and _writer are set
          listener,     \* _listener_task
          routes,       \* _callback_tasks
          serial,       \* the last of _request_id
          pending,      \* _pending: handles to callers
          cpc,          \* [Everyone -> "idle", "draining" or "waiting"]
          mine,         \* [Everyone -> number of the current request, or 0]
          future,       \* [Everyone -> "none", "open", "answer" or "closed"]
          got,          \* [Everyone -> the request the answer received answers]
          link,         \* the connection: "none", "up", "down" (server hung up)
          sent,         \* requests the server has not answered
          inbox,        \* packets to be read
          sessions,     \* how many connections were opened
          interrupted   \* stop() has cancelled the Connector

controlVars == <<pc, why, stage>>
callVars == <<serial, pending, cpc, mine, future, got>>
wireVars == <<link, sent, inbox>>
sessionVars == <<connected, writer, listener, routes, sessions>>
vars == <<controlVars, sessionVars, callVars, wireVars, interrupted>>

BugHandle(n) == TopBit + (n % 2)             \* handles are used again too soon
Handle(n) == TopBit + n

Answer(n) == <<"answer", n>>
Fault(n) == <<"fault", n>>
Callback == <<"callback", 0>>
Garbage == <<"garbage", 0>>

Init == /\ pc = "idle" /\ why = "none" /\ stage = 0
        /\ connected = FALSE /\ writer = FALSE /\ listener = "none" /\ routes = {}
        /\ serial = 0 /\ pending = <<>>
        /\ cpc = [c \in Everyone |-> "idle"]
        /\ mine = [c \in Everyone |-> 0]
        /\ future = [c \in Everyone |-> "none"]
        /\ got = [c \in Everyone |-> 0]
        /\ link = "none" /\ sent = {} /\ inbox = <<>>
        /\ sessions = 0 /\ interrupted = FALSE

-----------------------------------------------------------------------------
(* call().                                                                   *)

MayCall == writer /\ (connected \/ listener \in {"running", "cancelled"})

\* A request is registered and written; what is written to a connection that
\* the server closed is lost.
Asks(c) == /\ cpc[c] = "idle" /\ MayCall /\ serial < MaxCalls
           /\ serial' = serial + 1
           /\ mine' = [mine EXCEPT ![c] = serial + 1]
           /\ pending' = [h \in DOMAIN pending \cup {Handle(serial + 1)} |->
                            IF h = Handle(serial + 1) THEN c ELSE pending[h]]
           /\ future' = [future EXCEPT ![c] = "open"]
           /\ cpc' = [cpc EXCEPT ![c] = "draining"]
           /\ sent' = IF link = "up" THEN sent \cup {serial + 1} ELSE sent
           /\ UNCHANGED <<got, link, inbox>>

\* The request stays in _pending.
BugForgets(c) == /\ cpc' = [cpc EXCEPT ![c] = "idle"]
                 /\ mine' = [mine EXCEPT ![c] = 0]
                 /\ future' = [future EXCEPT ![c] = "none"]
                 /\ got' = [got EXCEPT ![c] = 0]
                 /\ UNCHANGED <<serial, pending>>

\* The finally clause: whatever the end of the call, its request is forgotten.
Forgets(c) == /\ cpc' = [cpc EXCEPT ![c] = "idle"]
              /\ mine' = [mine EXCEPT ![c] = 0]
              /\ future' = [future EXCEPT ![c] = "none"]
              /\ got' = [got EXCEPT ![c] = 0]
              /\ pending' = Restrict(pending, DOMAIN pending \ {Handle(mine[c])})
              /\ UNCHANGED serial

Answered(c) == cpc[c] = "waiting" /\ future[c] = "answer"

\* The call raises: ConnectionClosed from its future or RequestTimeout, which
\* can overtake an answer.
Fails(c) == /\ cpc[c] = "waiting"
            /\ future[c] = "closed"
TimesOut(c) == cpc[c] = "waiting"

\* drain() raises, for the connection is closed.
Breaks(c) == cpc[c] = "draining" /\ link # "up"

Drained(c) == /\ cpc[c] = "draining"
              /\ cpc' = [cpc EXCEPT ![c] = "waiting"]
              /\ UNCHANGED <<controlVars, sessionVars, serial, pending, mine, future, got,
                             wireVars, interrupted>>

\* Calls of plugins and of chat routes.
CallBegins(c) == /\ c \in Callers \cup routes
                 /\ Asks(c)
                 /\ UNCHANGED <<controlVars, sessionVars, interrupted>>

CallReturns(c) == /\ c # Connector /\ (Answered(c) \/ Fails(c))
                  /\ Forgets(c)
                  /\ UNCHANGED <<controlVars, sessionVars, wireVars, interrupted>>

CallTimesOut(c) == /\ c # Connector /\ TimesOut(c)
                   /\ Forgets(c)
                   /\ UNCHANGED <<controlVars, sessionVars, wireVars, interrupted>>

CallBreaks(c) == /\ c # Connector /\ Breaks(c)
                 /\ Forgets(c)
                 /\ connected' = FALSE
                 /\ UNCHANGED <<controlVars, writer, listener, routes, wireVars, sessions,
                                interrupted>>

-----------------------------------------------------------------------------
(* shutdown(), called by connect() first of all and when it fails, by        *)
(* disconnect() after a session, and by stop().                              *)

\* The listener is cancelled and awaited.
ShutdownBegins(w) == /\ pc' = "halting" /\ why' = w /\ stage' = 0
                     /\ connected' = FALSE
                     /\ listener' = IF listener = "running" THEN "cancelled" ELSE listener
                     /\ UNCHANGED <<writer, routes, sessions>>

\* The cancelled listener is not awaited.
BugListenerHalted == /\ pc = "halting"
                     /\ pc' = "gathering"
                     /\ UNCHANGED <<why, stage, sessionVars, callVars, wireVars, interrupted>>

\* The chat routes are cancelled and awaited.
ListenerHalted == /\ pc = "halting" /\ listener # "cancelled"
                  /\ pc' = "gathering"
                  /\ UNCHANGED <<why, stage, sessionVars, callVars, wireVars, interrupted>>

\* The chat routes are awaited, not cancelled.
BugRouteCancelled(c) == /\ pc = "gathering" /\ c \in routes /\ cpc[c] = "idle"
                        /\ routes' = routes \ {c}
                        /\ UNCHANGED <<controlVars, connected, writer, listener, callVars,
                                       wireVars, sessions, interrupted>>

RouteCancelled(c) == /\ pc = "gathering" /\ c \in routes
                     /\ routes' = routes \ {c}
                     /\ Forgets(c)
                     /\ UNCHANGED <<controlVars, connected, writer, listener, wireVars, sessions,
                                    interrupted>>

\* _pending is cleared, and nobody is told.
BugFailPending == /\ pending' = <<>>
                  /\ UNCHANGED <<serial, cpc, mine, future, got>>

\* The calls in flight fail with ConnectionClosed.
FailPending == /\ future' = [c \in Everyone |->
                               IF c \in Range(pending) /\ future[c] = "open"
                               THEN "closed" ELSE future[c]]
               /\ pending' = <<>>
               /\ UNCHANGED <<serial, cpc, mine, got>>

\* Then the writer is closed.
RoutesGathered == /\ pc = "gathering" /\ routes = {}
                  /\ FailPending
                  /\ pc' = "closing"
                  /\ link' = "none" /\ sent' = {} /\ inbox' = <<>>
                  /\ UNCHANGED <<why, stage, sessionVars, interrupted>>

\* wait_closed() returns, and the caller of shutdown() goes on.
Closed == /\ pc = "closing"
          /\ writer' = FALSE /\ listener' = "none"
          /\ pc' = CASE why = "connect" -> "opening"
                     [] why = "stop" -> "closed"
                     [] OTHER -> "idle"
          /\ why' = "none"
          /\ UNCHANGED <<stage, connected, routes, sessions, callVars, wireVars, interrupted>>

-----------------------------------------------------------------------------
(* The Connector: connect() and listen(), called by the controller.          *)

\* A new session; the supervisor does not listen to a session that a failed
\* call has declared lost.
Connect == /\ pc = "idle" \/ (pc = "up" /\ ~connected)
           /\ sessions < MaxSessions
           /\ ShutdownBegins("connect")
           /\ UNCHANGED <<callVars, wireVars, interrupted>>

\* The end of the old connection has woken those who drained into it.
Opens == /\ pc = "opening" /\ \A c \in Everyone : cpc[c] # "draining"
         /\ pc' = "greeting" /\ writer' = TRUE /\ link' = "up" /\ sessions' = sessions + 1
         /\ UNCHANGED <<why, stage, connected, listener, routes, callVars, sent, inbox,
                        interrupted>>

\* The server sends its greeting, and the listener starts.
Greeted == /\ pc = "greeting"
           /\ pc' = "asking" /\ listener' = "running"
           /\ UNCHANGED <<why, stage, connected, writer, routes, sessions, callVars, wireVars,
                          interrupted>>

AskBegins == /\ pc = "asking" /\ Asks(Connector)
             /\ pc' = "asked"
             /\ UNCHANGED <<why, stage, sessionVars, interrupted>>

AskAnswered == /\ pc = "asked" /\ Answered(Connector)
               /\ Forgets(Connector)
               /\ stage' = stage + 1
               /\ IF stage + 1 = Requests
                  THEN pc' = "up" /\ connected' = TRUE
                  ELSE pc' = "asking" /\ UNCHANGED connected
               /\ UNCHANGED <<why, writer, listener, routes, sessions, wireVars, interrupted>>

\* connect() fails: no connection, no greeting or a wrong one, the listener
\* has ended, a request fails or the login is refused.
ConnectFails == /\ \/ /\ \/ pc \in {"opening", "greeting"}
                         \/ pc = "asking" /\ ~MayCall
                      /\ UNCHANGED callVars
                   \/ /\ pc = "asked"
                      /\ \/ Answered(Connector) /\ stage = 0
                         \/ Fails(Connector) \/ TimesOut(Connector) \/ Breaks(Connector)
                      /\ Forgets(Connector)
                /\ ShutdownBegins("undo")
                /\ UNCHANGED <<wireVars, interrupted>>

Listens == /\ pc = "up" /\ connected
           /\ pc' = "listening"
           /\ UNCHANGED <<why, stage, sessionVars, callVars, wireVars, interrupted>>

\* listen() raises what the listener task died of; disconnect().
SessionEnds == /\ pc = "listening" /\ listener = "dead"
               /\ ShutdownBegins("disconnect")
               /\ UNCHANGED <<callVars, wireVars, interrupted>>

\* stop() cancels the Connector wherever it is and disconnects, unless the
\* CancelledError is suppressed together with that of the listener.
Interrupted == /\ ~interrupted /\ pc # "closed"
               /\ interrupted' = TRUE
               /\ IF pc = "halting" /\ listener = "cancelled"
                  THEN UNCHANGED <<controlVars, sessionVars, callVars>>
                  ELSE /\ ShutdownBegins("stop")
                       /\ IF pc = "asked" THEN Forgets(Connector) ELSE UNCHANGED callVars
               /\ UNCHANGED wireVars

-----------------------------------------------------------------------------
(* The listener: _listen_loop and _read_packet.  Emitting an event never     *)
(* suspends it: callbacks are no lifecycle events.                           *)

\* The listener dies and the session with it.
ListenerDies == listener' = "dead" /\ connected' = FALSE /\ UNCHANGED routes

\* An answer nobody waits for is ignored.
ReadsAnswer(n) ==
  IF Handle(n) \in DOMAIN pending
  THEN LET c == pending[Handle(n)] IN
       /\ pending' = Restrict(pending, DOMAIN pending \ {Handle(n)})
       /\ future' = [future EXCEPT ![c] = IF @ = "open" THEN "answer" ELSE @]
       /\ got' = [got EXCEPT ![c] = IF future[c] = "open" THEN n ELSE @]
       /\ UNCHANGED <<serial, cpc, mine>>
  ELSE UNCHANGED callVars

\* A line of chat is routed by a task of its own, other events are emitted.
\* Decoding a fault raises, like a packet that is too large or no XML.
ListenerReads ==
  /\ listener = "running" /\ inbox # <<>>
  /\ inbox' = Tail(inbox)
  /\ LET packet == Head(inbox) IN
     \/ /\ packet[1] = "answer"
        /\ ReadsAnswer(packet[2])
        /\ UNCHANGED <<connected, listener, routes>>
     \/ /\ packet[1] \in {"fault", "garbage"}
        /\ ListenerDies /\ UNCHANGED callVars
     \/ /\ packet = Callback
        /\ \/ \E c \in Routes \ routes : routes' = routes \cup {c}
           \/ UNCHANGED routes
        /\ UNCHANGED <<connected, listener, callVars>>
  /\ UNCHANGED <<controlVars, writer, link, sent, sessions, interrupted>>

\* The end of the stream.
ListenerLoses == /\ listener = "running" /\ inbox = <<>> /\ link = "down"
                 /\ ListenerDies
                 /\ UNCHANGED <<controlVars, writer, callVars, wireVars, sessions, interrupted>>

ListenerCancelled == /\ listener = "cancelled"
                     /\ listener' = "dead"
                     /\ UNCHANGED <<controlVars, connected, writer, routes, callVars, wireVars,
                                    sessions, interrupted>>

\* route_player_chat returns.
RouteEnds(c) == /\ c \in routes /\ cpc[c] = "idle"
                /\ routes' = routes \ {c}
                /\ UNCHANGED <<controlVars, connected, writer, listener, callVars, wireVars,
                               sessions, interrupted>>

-----------------------------------------------------------------------------
(* The server (external): it answers in any order, calls back, sends what is *)
(* no packet, hangs up.                                                      *)
Sends(packet) == /\ link = "up" /\ Len(inbox) < MaxInbox
                 /\ inbox' = Append(inbox, packet)
                 /\ UNCHANGED <<controlVars, sessionVars, callVars, link, interrupted>>

ServerAnswers(n) == /\ n \in sent
                    /\ Sends(Answer(n)) \/ (Faults /\ Sends(Fault(n)))
                    /\ sent' = sent \ {n}
ServerSpeaks == /\ pc # "greeting"
                /\ Sends(Callback) \/ Sends(Garbage)
                /\ UNCHANGED sent
ServerHangsUp == /\ link = "up" /\ link' = "down"
                 /\ UNCHANGED <<controlVars, sessionVars, callVars, sent, inbox, interrupted>>

\* The end of the program, or of what the bounds allow.
Finished == /\ pc = "closed" \/ serial = MaxCalls \/ sessions = MaxSessions
            /\ UNCHANGED vars

-----------------------------------------------------------------------------
CallStep(c) == CallReturns(c) \/ CallBreaks(c) \/ Drained(c)
ShutdownStep == \/ ListenerHalted \/ RoutesGathered \/ Closed
                \/ \E c \in Routes : RouteCancelled(c)
ListenerStep == ListenerReads \/ ListenerLoses \/ ListenerCancelled

Next == \/ \E c \in Everyone : CallBegins(c) \/ CallStep(c) \/ CallTimesOut(c)
        \/ Connect \/ Opens \/ Greeted \/ AskBegins \/ AskAnswered \/ ConnectFails
        \/ Listens \/ SessionEnds \/ Interrupted
        \/ ShutdownStep \/ ListenerStep
        \/ \E c \in Routes : RouteEnds(c)
        \/ \E n \in sent : ServerAnswers(n)
        \/ ServerSpeaks \/ ServerHangsUp
        \/ Finished

Spec == Init /\ [][Next]_vars

(***************************************************************************)
(* Fairness: the event loop runs the tasks that can go on.  No timeout is  *)
(* promised, no answer, no call and no end of a chat route.                *)
(***************************************************************************)
PromptSpec == /\ Spec
              /\ \A c \in Everyone : WF_vars(CallStep(c))
              /\ WF_vars(ShutdownStep) /\ WF_vars(ListenerStep)
              /\ WF_vars(SessionEnds)

-----------------------------------------------------------------------------
(* Type invariant.                                                           *)
TypeOK == /\ pc \in {"idle", "opening", "greeting", "asking", "asked", "up", "listening",
                     "halting", "gathering", "closing", "closed"}
          /\ why \in {"none", "connect", "undo", "disconnect", "stop"}
          /\ stage \in 0..Requests
          /\ connected \in BOOLEAN /\ writer \in BOOLEAN /\ interrupted \in BOOLEAN
          /\ listener \in {"none", "running", "cancelled", "dead"}
          /\ routes \subseteq Routes
          /\ serial \in 0..MaxCalls /\ sessions \in 0..MaxSessions
          /\ DOMAIN pending \subseteq {Handle(n) : n \in 1..serial}
          /\ Range(pending) \subseteq Everyone
          /\ cpc \in [Everyone -> {"idle", "draining", "waiting"}]
          /\ mine \in [Everyone -> 0..serial] /\ got \in [Everyone -> 0..serial]
          /\ future \in [Everyone -> {"none", "open", "answer", "closed"}]
          /\ link \in {"none", "up", "down"} /\ sent \subseteq 1..serial

InFlight == {c \in Everyone : future[c] = "open"}

(* The table of pending requests holds exactly the calls that wait for an    *)
(* answer, each one under its own handle: none is forgotten that could still *)
(* be answered or failed, none stays behind after a timeout or an error.     *)
PendingExact == /\ DOMAIN pending = {Handle(mine[c]) : c \in InFlight}
                /\ \A c \in InFlight : pending[Handle(mine[c])] = c

(* A call returns the answer to its own request, also when an answer comes   *)
(* after its call timed out and others are in flight.                        *)
AnswersMatch == \A c \in Everyone :
                  future[c] = "answer" => got[c] = mine[c]

(* When shutdown() has returned no call waits for an answer and no chat      *)
(* route of the old session runs, though calls were admitted while the       *)
(* listener was being cancelled.                                             *)
NobodyLeftWaiting == ~writer => InFlight = {} /\ routes = {}

(* When a session is lost, the calls in flight fail without waiting for      *)
(* their timeouts, once the controller listens to the session.               *)
FailsFast == \A c \in Everyone :
  cpc[c] # "idle" /\ pc = "listening" /\ listener = "dead" ~> cpc[c] = "idle"

(* shutdown() returns, whatever calls and chat routes are in flight.         *)
ShutdownReturns == pc = "halting" ~> ~writer

(* A session ends because the connection is lost, the server sends what is   *)
(* no packet, or shutdown() was called, and not because it answered the      *)
(* request of some plugin with an error.                                     *)
ErrorsEndOneCall ==
  [][listener = "running" /\ listener' = "dead"
       => link = "down" \/ (inbox # <<>> /\ Head(inbox) = Garbage)]_vars

=============================================================================
