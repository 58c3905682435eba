---------------------------- MODULE Supervision -----------------------------
(***************************************************************************)
(* The connection side of trackhelm.controller.Controller: the first       *)
(* connection of start(), the supervisor task that keeps the GBX session   *)
(* up, and how stop() ends it.  Two coroutines: Main (mpc) and the         *)
(* supervisor (spc).  An action runs a coroutine from one suspension to    *)
(* the next.                                                               *)
(*                                                                         *)
(* Time is counted in ticks by timers that matter to a decision: age,      *)
(* since retry_started_at; left, of the current sleep; down, since the     *)
(* session was lost.  They stop counting at Horizon, from where on the     *)
(* code treats all values alike.                                           *)
(*                                                                         *)
(* The loops keep the ReconnectConfig they started with, but ask           *)
(* self.config for the retry time: of a reload, a running supervisor sees  *)
(* the retry time (budget) and nothing else.                               *)
(*                                                                         *)
(* lapses, which the code does not have, records what has happened during  *)
(* an outage that the properties except: the session was lost while nobody *)
(* watched it, the server hung up during authentication, a cancellation    *)
(* was swallowed.                                                          *)
(*                                                                         *)
(* An operator whose name starts with Bug is the definition below it with  *)
(* a plausible mistake; no other definition uses it.                       *)
(***************************************************************************)
EXTENDS Naturals

CONSTANTS Initial,      \* reconnect.initial_delay_seconds, in ticks
          Multiplier,   \* reconnect.multiplier
          MaxDelay,     \* reconnect.max_delay_seconds
          MaxRetry,     \* reconnect.max_retry_time_seconds
          RetryTimes,   \* what a reload may set it to
          Horizon,      \* bound: no retry time is longer
          Answers,      \* how the server may answer connect(), see below
          LossInSetup   \* may the session end while plugins are set up?

\* connect() succeeds; open_connection raises OSError; the handshake fails
\* with another error; the server hangs up during authentication
\* (ConnectionClosed); a request times out; the login is refused
\* (AuthenticationError).
AllAnswers == {"ok", "refused", "garbled", "hangs_up", "silent", "rejected"}

ASSUME BackoffAssumption == /\ Initial \in Nat /\ MaxDelay \in Nat /\ Horizon \in Nat
                            /\ Multiplier \in Nat \ {0}
                            /\ MaxRetry \in RetryTimes /\ RetryTimes \subseteq 0..Horizon
ASSUME ServerAssumption == /\ Answers \subseteq AllAnswers
                           /\ LossInSetup \in BOOLEAN

VARIABLES enabled,      \* reconnect.enabled, read when the loops begin
          budget,       \* self.config.reconnect.max_retry_time_seconds
          state,        \* Controller._state
          connected,    \* GbxClient.connected
          pluginsUp,    \* are there plugins set up and not torn down?
          mpc,          \* where Main is
          spc,          \* where the supervisor is
          failure,      \* how the connect() failed that is being undone
          retrying,     \* retry_started_at is not None
          age, left, down,
          delay,        \* the supervisor's (in start(), Main's) next delay
          cancelling,   \* a CancelledError is on its way to the supervisor
          crashed,      \* the supervisor's fault task has not run yet
          requested,    \* _shutdown_event is set
          lapses        \* see above

config == <<enabled, budget>>
timers == <<retrying, age, left, down, delay>>
vars == <<config, state, connected, pluginsUp, mpc, spc, failure, timers,
          cancelling, crashed, requested, lapses>>

States == {"starting", "connected", "plugins_ready", "degraded", "failed",
           "stopping", "stopped"}

Lesser(a, b) == IF a <= b THEN a ELSE b
Grown(d) == Lesser(d * Multiplier, MaxDelay)

\* _reconnect_time_exceeded and _next_reconnect_sleep, `a` ticks after the
\* retries started.
Exceeded(a) == a >= budget
NextSleep(a, d) == Lesser(d, IF a < budget THEN budget - a ELSE 0)

-----------------------------------------------------------------------------
Init == /\ enabled \in BOOLEAN /\ budget = MaxRetry
        /\ state = "starting" /\ connected = FALSE /\ pluginsUp = FALSE
        /\ mpc = "connecting" /\ spc = "none" /\ failure = "none"
        /\ retrying = TRUE /\ age = 0 /\ left = 0 /\ down = 0
        /\ delay = Initial
        /\ cancelling = FALSE /\ crashed = FALSE /\ requested = FALSE
        /\ lapses = {}

\* A tick of the event loop's clock.
Tick == /\ mpc # "closed"
        /\ age' = Lesser(age + 1, Horizon)
        /\ down' = IF connected THEN 0 ELSE Lesser(down + 1, Horizon)
        /\ left' = IF left = 0 THEN 0 ELSE left - 1
        /\ UNCHANGED <<config, state, connected, pluginsUp, mpc, spc, failure, retrying,
                       delay, cancelling, crashed, requested, lapses>>

-----------------------------------------------------------------------------
(* Main: start().                                                            *)

\* start() fails: FAILED, whatever was set up is rolled back; _main goes on
\* to stop().
StartFails == /\ state' = "failed" /\ pluginsUp' = FALSE /\ mpc' = "stop"

\* One attempt of _connect_gbx_for_startup.
StartConnects(a) ==
  /\ mpc = "connecting" /\ a \in Answers
  /\ \/ /\ a = "ok"
        /\ connected' = TRUE /\ mpc' = "checking" /\ down' = 0
        /\ UNCHANGED <<state, pluginsUp, left, delay>>
     \/ /\ a = "rejected" \/ (a # "ok" /\ (~enabled \/ Exceeded(age)))
        /\ StartFails
        /\ UNCHANGED <<connected, left, down, delay>>
     \/ /\ a \notin {"ok", "rejected"} /\ enabled /\ ~Exceeded(age)
        /\ left' = NextSleep(age, delay)
        /\ delay' = Grown(delay)
        /\ mpc' = "backing_off"
        /\ UNCHANGED <<state, connected, pluginsUp, down>>
  /\ UNCHANGED <<config, spc, failure, retrying, age, cancelling, crashed, requested, lapses>>

StartSleepEnds == /\ mpc = "backing_off" /\ left = 0
                  /\ mpc' = "connecting"
                  /\ UNCHANGED <<config, state, connected, pluginsUp, spc, failure, timers,
                                 cancelling, crashed, requested, lapses>>

\* _check_capabilities has asked the server.
CapabilitiesChecked == /\ mpc = "checking"
                       /\ state' = "connected" /\ mpc' = "setup"
                       /\ UNCHANGED <<config, connected, pluginsUp, spc, failure, timers,
                                      cancelling, crashed, requested, lapses>>

\* Plugins are loaded, the database is initialised and the plugins are set up;
\* the supervisor task is created and starts with a delay of its own.
SetupReturns == /\ mpc = "setup"
                /\ pluginsUp' = TRUE /\ state' = "plugins_ready"
                /\ mpc' = "running" /\ spc' = "new"
                /\ retrying' = FALSE /\ age' = 0 /\ left' = 0 /\ delay' = Initial
                /\ UNCHANGED <<config, connected, failure, down, cancelling, crashed,
                               requested, lapses>>

SetupFails == /\ mpc \in {"checking", "setup"}
              /\ StartFails
              /\ UNCHANGED <<config, connected, spc, failure, timers, cancelling, crashed,
                             requested, lapses>>

\* The server ends the session while nobody supervises it yet.
LostInSetup == /\ LossInSetup /\ mpc \in {"checking", "setup"} /\ connected
               /\ connected' = FALSE /\ down' = 0
               /\ lapses' = {"unwatched"}
               /\ UNCHANGED <<config, state, pluginsUp, mpc, spc, failure, retrying, age, left,
                              delay, cancelling, crashed, requested>>

-----------------------------------------------------------------------------
(* The supervisor: _gbx_supervision_loop.                                    *)

\* Every round of the loop takes retry_started_at anew.
BugLoopHead(a, d, s) ==
  /\ retrying' = TRUE /\ age' = 0 /\ delay' = d
  /\ \/ /\ Exceeded(a)
        /\ spc' = "returned" /\ state' = "failed" /\ requested' = TRUE /\ left' = 0
     \/ /\ ~Exceeded(a)
        /\ spc' = "sleeping" /\ state' = s /\ left' = NextSleep(a, d)
        /\ UNCHANGED requested

\* Nobody is told that the retry time is over.
BugLoopHeadSilent(a, d, s) ==
  /\ retrying' = TRUE /\ age' = a /\ delay' = d
  /\ spc' = IF Exceeded(a) THEN "returned" ELSE "sleeping"
  /\ state' = IF Exceeded(a) THEN "failed" ELSE s
  /\ left' = NextSleep(a, d)
  /\ UNCHANGED requested

\* The loop head without a session: give up, or sleep before the next
\* attempt; `a` is the age of the retries, `d` the delay, `s` the state so far.
LoopHead(a, d, s) ==
  /\ retrying' = TRUE /\ age' = a /\ delay' = d
  /\ \/ /\ Exceeded(a)
        /\ spc' = "returned" /\ state' = "failed" /\ requested' = TRUE /\ left' = 0
     \/ /\ ~Exceeded(a)
        /\ spc' = "sleeping" /\ state' = s /\ left' = NextSleep(a, d)
        /\ UNCHANGED requested

\* The state stays as it was, and reconnect.enabled is not looked at.
BugSessionOver(kind) ==
  \/ /\ kind = "hangs_up"
     /\ LoopHead(0, Initial, state)
  \/ /\ kind # "hangs_up"
     /\ LoopHead(IF retrying THEN age ELSE 0, Grown(delay), state)

\* The two handlers of a session that ended, or of a connect() that raised:
\* DEGRADED, disconnect, and, when reconnecting is disabled, FAILED.
SessionOver(kind) ==
  \/ /\ ~enabled
     /\ state' = "failed" /\ spc' = "returned"
     /\ UNCHANGED <<retrying, age, left, delay, requested>>
  \/ /\ enabled /\ kind = "hangs_up"
     /\ LoopHead(0, Initial, "degraded")
  \/ /\ enabled /\ kind # "hangs_up"
     /\ LoopHead(IF retrying THEN age ELSE 0, Grown(delay), "degraded")

SupervisorBegins ==
  /\ spc = "new" /\ ~cancelling
  /\ IF connected
     THEN /\ spc' = "listening"
          /\ UNCHANGED <<state, retrying, age, left, delay, requested>>
     ELSE LoopHead(0, delay, state)
  /\ UNCHANGED <<config, connected, pluginsUp, mpc, failure, down, cancelling, crashed, lapses>>

\* The listener task ends: the connection is lost, or a packet is garbage.
SessionEnds(kind) ==
  /\ spc = "listening" /\ ~cancelling
  /\ SessionOver(kind)
  /\ connected' = FALSE /\ down' = 0 /\ lapses' = {}
  /\ UNCHANGED <<config, pluginsUp, mpc, failure, cancelling, crashed>>

\* The time is not looked at after the sleep, only before it.
BugSleepEnds ==
  /\ spc = "sleeping" /\ left = 0 /\ ~cancelling
  /\ spc' = "connecting"
  /\ UNCHANGED <<state, requested>>
  /\ UNCHANGED <<config, connected, pluginsUp, mpc, failure, timers, cancelling, crashed,
                 lapses>>

\* The return after FAILED is missing.
BugSleepEndsGoesOn ==
  /\ spc = "sleeping" /\ left = 0 /\ ~cancelling
  /\ spc' = "connecting"
  /\ IF Exceeded(age)
     THEN state' = "failed" /\ requested' = TRUE
     ELSE UNCHANGED <<state, requested>>
  /\ UNCHANGED <<config, connected, pluginsUp, mpc, failure, timers, cancelling, crashed,
                 lapses>>

SleepEnds ==
  /\ spc = "sleeping" /\ left = 0 /\ ~cancelling
  /\ IF Exceeded(age)
     THEN spc' = "returned" /\ state' = "failed" /\ requested' = TRUE
     ELSE spc' = "connecting" /\ UNCHANGED <<state, requested>>
  /\ UNCHANGED <<config, connected, pluginsUp, mpc, failure, timers, cancelling, crashed,
                 lapses>>

\* connect() returns or raises.  When it fails with a listener alive, its
\* shutdown() first waits for that listener to be cancelled.
Reconnects ==
  /\ spc = "connecting" /\ ~cancelling /\ "ok" \in Answers
  /\ connected' = TRUE /\ state' = "plugins_ready" /\ spc' = "listening"
  /\ retrying' = FALSE /\ delay' = Initial /\ down' = 0 /\ lapses' = {}
  /\ UNCHANGED <<config, pluginsUp, mpc, failure, age, left, cancelling, crashed, requested>>

\* A refused connection starts the delays over.
BugConnectRefused ==
  /\ spc = "connecting" /\ ~cancelling /\ "refused" \in Answers
  /\ LoopHead(age, Initial, state)
  /\ UNCHANGED <<config, connected, pluginsUp, mpc, failure, down, cancelling, crashed, lapses>>

ConnectRefused ==
  /\ spc = "connecting" /\ ~cancelling /\ "refused" \in Answers
  /\ LoopHead(age, Grown(delay), state)
  /\ UNCHANGED <<config, connected, pluginsUp, mpc, failure, down, cancelling, crashed, lapses>>

ConnectBreaks(a) ==
  /\ spc = "connecting" /\ ~cancelling /\ a \in Answers \cap {"garbled", "hangs_up"}
  /\ SessionOver(a)
  /\ lapses' = lapses \cup ({a} \cap {"hangs_up"})
  /\ UNCHANGED <<config, connected, pluginsUp, mpc, failure, down, cancelling, crashed>>

ConnectUndoes(a) ==
  /\ spc = "connecting" /\ ~cancelling /\ a \in Answers \cap {"silent", "rejected"}
  /\ spc' = "undoing" /\ failure' = a
  /\ UNCHANGED <<config, state, connected, pluginsUp, mpc, timers, cancelling, crashed,
                 requested, lapses>>

\* shutdown() inside connect() returns and the failure is raised on; an
\* AuthenticationError ends the task and runs _handle_task_fault later.
Undone ==
  /\ spc = "undoing" /\ ~cancelling
  /\ failure' = "none"
  /\ \/ /\ failure = "silent" /\ SessionOver("silent")
        /\ UNCHANGED crashed
     \/ /\ failure = "rejected"
        /\ state' = "failed" /\ spc' = "crashed" /\ crashed' = TRUE
        /\ UNCHANGED <<retrying, age, left, delay, requested>>
  /\ UNCHANGED <<config, connected, pluginsUp, mpc, down, cancelling, lapses>>

\* A supervisor that sleeps or listens swallows the CancelledError.
BugCancelled ==
  /\ cancelling
  /\ cancelling' = FALSE
  /\ IF spc \in {"undoing", "sleeping", "listening"} THEN UNCHANGED spc ELSE spc' = "cancelled"
  /\ UNCHANGED <<config, state, connected, pluginsUp, mpc, failure, timers, crashed,
                 requested, lapses>>

\* The CancelledError arrives.  Inside shutdown() it is suppressed together
\* with the one of the listener, and the supervisor carries on.
Cancelled ==
  /\ cancelling
  /\ cancelling' = FALSE
  /\ \/ /\ spc = "undoing"
        /\ lapses' = lapses \cup {"swallowed"}
        /\ UNCHANGED spc
     \/ /\ spc # "undoing"
        /\ spc' = "cancelled"
        /\ UNCHANGED lapses
  /\ UNCHANGED <<config, state, connected, pluginsUp, mpc, failure, timers, crashed, requested>>

\* _handle_task_fault for the core task, in a task of its own.
CrashHandled ==
  /\ crashed /\ mpc # "closed"
  /\ crashed' = FALSE /\ state' = "failed" /\ requested' = TRUE
  /\ UNCHANGED <<config, connected, pluginsUp, mpc, spc, failure, timers, cancelling, lapses>>

-----------------------------------------------------------------------------
(* Main: _main waits for the shutdown event, then stop().                    *)

Alive == spc \in {"new", "listening", "sleeping", "connecting", "undoing"}

\* stop() sets STOPPING and waits for the tick task; Interrupted is Ctrl-C.
StopBegins == /\ state' = "stopping" /\ mpc' = "stopping"
              /\ UNCHANGED <<config, connected, pluginsUp, spc, failure, timers, cancelling,
                             crashed, requested, lapses>>

ShutdownSeen == (mpc = "stop" \/ (mpc = "running" /\ requested)) /\ StopBegins
Interrupted == /\ mpc \in {"connecting", "backing_off", "checking", "setup", "running"}
               /\ StopBegins

\* The ticks have stopped; the supervisor is cancelled and awaited.
CancelSupervisor == /\ mpc = "stopping"
                    /\ mpc' = "awaiting" /\ cancelling' = Alive
                    /\ UNCHANGED <<config, state, connected, pluginsUp, spc, failure, timers,
                                   crashed, requested, lapses>>

\* `await self._gbx_task` lets the CancelledError of the supervisor through.
BugStopGoesOn == /\ mpc = "awaiting" /\ ~Alive
                 /\ pluginsUp' = IF spc \in {"crashed", "cancelled"}
                                 THEN pluginsUp ELSE FALSE
                 /\ mpc' = "closing"
                 /\ UNCHANGED <<config, state, connected, spc, failure, timers, cancelling,
                                crashed, requested, lapses>>

\* The supervisor is over: cancel_all and the teardown of the plugins.  If it
\* died of an AuthenticationError, `await self._gbx_task` raises it again and
\* only the finally clause runs.
StopGoesOn == /\ mpc = "awaiting" /\ ~Alive
              /\ pluginsUp' = IF spc = "crashed" THEN pluginsUp ELSE FALSE
              /\ mpc' = "closing"
              /\ UNCHANGED <<config, state, connected, spc, failure, timers, cancelling,
                             crashed, requested, lapses>>

StopEnds == /\ mpc = "closing"
            /\ connected' = FALSE /\ state' = "stopped" /\ mpc' = "closed"
            /\ UNCHANGED <<config, pluginsUp, spc, failure, timers, cancelling, crashed,
                           requested, lapses>>

Finished == mpc = "closed" /\ UNCHANGED vars

\* reload_config, called by a plugin, gives another retry time.
Reload == /\ mpc \in {"setup", "running"}
          /\ budget' \in RetryTimes \ {budget}
          /\ UNCHANGED <<enabled, state, connected, pluginsUp, mpc, spc, failure, timers,
                         cancelling, crashed, requested, lapses>>

-----------------------------------------------------------------------------
StartStep == \/ \E a \in Answers : StartConnects(a)
             \/ StartSleepEnds \/ CapabilitiesChecked \/ SetupReturns \/ SetupFails
StopStep == ShutdownSeen \/ CancelSupervisor \/ StopGoesOn \/ StopEnds
Connecting == \/ Reconnects \/ ConnectRefused
              \/ \E a \in Answers : ConnectBreaks(a) \/ ConnectUndoes(a)
SupervisorStep == \/ SupervisorBegins \/ SleepEnds \/ Connecting \/ Undone \/ Cancelled

Next == \/ Tick \/ StartStep \/ LostInSetup \/ SupervisorStep
        \/ \E kind \in {"hangs_up", "garbled"} : SessionEnds(kind)
        \/ CrashHandled \/ StopStep \/ Interrupted \/ Reload \/ Finished

Spec == Init /\ [][Next]_vars

(***************************************************************************)
(* Fairness: the clock advances, coroutines that can go on do, connect()   *)
(* returns (every request has a timeout) and so does the setup of plugins. *)
(* A session need not end and nobody need press Ctrl-C.                    *)
(***************************************************************************)
FairSpec == /\ Spec
            /\ WF_vars(Tick) /\ WF_vars(StartStep) /\ WF_vars(SupervisorStep)
            /\ WF_vars(StopStep) /\ WF_vars(CrashHandled)

-----------------------------------------------------------------------------
(* Type invariant.                                                           *)
ControlOK ==
  /\ enabled \in BOOLEAN
  /\ state \in States
  /\ connected \in BOOLEAN /\ pluginsUp \in BOOLEAN
  /\ mpc \in {"connecting", "backing_off", "checking", "setup", "running", "stop",
              "stopping", "awaiting", "closing", "closed"}
  /\ spc \in {"none", "new", "listening", "sleeping", "connecting", "undoing",
              "returned", "crashed", "cancelled"}
  /\ failure \in {"none", "silent", "rejected"}
  /\ retrying \in BOOLEAN /\ cancelling \in BOOLEAN
  /\ crashed \in BOOLEAN /\ requested \in BOOLEAN
TimersOK == /\ age \in 0..Horizon /\ down \in 0..Horizon
            /\ left \in 0..Horizon
            /\ delay \in (0..MaxDelay) \cup {Initial}
TypeOK == /\ ControlOK /\ TimersOK
          /\ budget \in RetryTimes
          /\ lapses \subseteq {"unwatched", "hangs_up", "swallowed"}

\* The retries of this outage began after it did, or began anew.
Late == lapses \cap {"unwatched", "hangs_up"} # {}

(* An attempt to reconnect starts only while the session has been down for   *)
(* less than the retry time that is configured now, reloaded meanwhile or    *)
(* not: every loss, failure and sleep in between counts against one budget   *)
(* (_reconnect_time_exceeded, controller.py:550-638), unless the retries     *)
(* began late.                                                               *)
AttemptsWithinBudget ==
  [][spc = "sleeping" /\ spc' = "connecting" /\ ~Late => down < budget]_vars

(* The delay of the supervisor shrinks only when a session starts or ends,   *)
(* or together with the retry time: while the server stays away, the         *)
(* attempts get rarer.                                                       *)
BackoffGrows ==
  [][delay' < delay => \/ connected' # connected \/ spc' = "new" \/ Initial > MaxDelay
                       \/ age' = 0 /\ "hangs_up" \in lapses']_vars

(* A failure is final: from FAILED the controller only stops.                *)
FailedIsFinal == [][state = "failed" => state' \in {"failed", "stopping", "stopped"}]_vars

(* With reconnecting enabled: if the server does not come back within the    *)
(* retry time, the controller shuts down.                                    *)
GivesUp == enabled /\ spc \in {"sleeping", "connecting"} ~> connected \/ mpc = "closed"

(* The same, unless the server hangs up during authentication.               *)
GivesUpUnlessHungUp ==
  enabled /\ spc \in {"sleeping", "connecting"}
    ~> connected \/ mpc = "closed" \/ "hangs_up" \in lapses

(* With reconnecting enabled, a controller that FAILED shuts down, whichever *)
(* of the supervisor, its crash or start() set that state.                   *)
FailureShutsDown == enabled /\ state = "failed" ~> mpc = "closed"

(* stop() returns, unless the supervisor swallows its cancellation.          *)
StopReturns == mpc = "stopping" ~> mpc = "closed" \/ "swallowed" \in lapses

(* stop() tears the plugins down, however the supervisor ended.              *)
PluginsTornDown == mpc = "closed" => ~pluginsUp

(* stop() tears the plugins down, unless the supervisor died of a refused    *)
(* login.                                                                    *)
TornDownUnlessCrashed == mpc = "closed" => ~pluginsUp \/ spc = "crashed"

(* The controller reports PLUGINS_READY only while it has a session or has   *)
(* not been able to see yet that the session ended, unless it ended before   *)
(* anybody watched it.                                                       *)
ReadyHasSession ==
  state = "plugins_ready" /\ "unwatched" \notin lapses
    => spc \notin {"sleeping", "connecting", "undoing"}

=============================================================================
