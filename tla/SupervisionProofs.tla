------------------------- MODULE SupervisionProofs --------------------------
(***************************************************************************)
(* Proofs about Supervision, for every back-off, every server and any      *)
(* number of reloads: no attempt starts past the retry time, the delays    *)
(* between the attempts only grow, what the controller reports agrees with *)
(* its session, a failure is final, and stop() tears the plugins down.     *)
(***************************************************************************)
EXTENDS Supervision, TLAPS

\* Main and the supervisor overlap only where they should, and only a
\* supervisor that is alive is being cancelled.
Phases == /\ mpc \in {"connecting", "backing_off", "checking", "setup"} => spc = "none"
          /\ mpc \in {"closing", "closed"} => ~Alive
          /\ cancelling = TRUE => Alive
          /\ mpc \in {"closing", "closed"} => pluginsUp = FALSE \/ spc = "crashed"

\* A supervisor that listens has a session; one that retries has none and
\* counts the time.
Session ==
  /\ spc = "listening" => connected = TRUE
  /\ spc \in {"sleeping", "connecting", "undoing"} => connected = FALSE /\ retrying = TRUE

Delays == (0..MaxDelay) \cup {Initial}
Control == ControlOK /\ Phases /\ Session
Timing == TimersOK /\ budget \in RetryTimes
Lapses == lapses \subseteq {"unwatched", "hangs_up", "swallowed"}
IInv == Control /\ Timing /\ Lapses

-----------------------------------------------------------------------------
(* The arithmetic of the back-off.                                           *)

LEMMA GrownFacts ==
  ASSUME NEW d \in Nat
  PROVE  /\ Grown(d) \in 0..MaxDelay
         /\ d <= MaxDelay => d <= Grown(d)
  <1>1. MaxDelay \in Nat /\ Multiplier \in Nat /\ Multiplier >= 1
    BY BackoffAssumption
  <1>2. d * Multiplier \in Nat /\ d * Multiplier >= d
    BY <1>1
  <1> QED BY <1>1, <1>2 DEF Grown, Lesser

LEMMA NextSleepFacts ==
  ASSUME NEW a \in 0..Horizon, NEW d \in Nat, budget \in RetryTimes, ~Exceeded(a)
  PROVE  NextSleep(a, d) \in 0..Horizon
  <1>1. budget \in 0..Horizon /\ a < budget
    BY BackoffAssumption DEF Exceeded
  <1> QED BY <1>1, BackoffAssumption DEF NextSleep, Lesser

\* A head of the supervision loop keeps the timers in order.
LEMMA LoopHeadTiming ==
  ASSUME NEW a \in 0..Horizon, NEW d \in Delays, NEW s, LoopHead(a, d, s),
         TimersOK, down' \in 0..Horizon, budget \in RetryTimes, UNCHANGED budget
  PROVE  Timing'
  <1> USE DEF Delays
  <1> d \in Nat
    BY BackoffAssumption
  <1>1. left' \in 0..Horizon
    <2>1. CASE Exceeded(a)
      BY <2>1, BackoffAssumption DEF LoopHead
    <2>2. CASE ~Exceeded(a)
      BY <2>2, NextSleepFacts DEF LoopHead
    <2> QED BY <2>1, <2>2
  <1>2. age' = a /\ delay' = d
    BY DEF LoopHead
  <1> QED BY <1>1, <1>2 DEF Timing, TimersOK, Delays

\* So does the end of a session, or of an attempt to open one.
LEMMA SessionOverTiming ==
  ASSUME NEW kind, SessionOver(kind), Timing, down' \in 0..Horizon, UNCHANGED budget
  PROVE  Timing'
  <1> USE DEF Timing, TimersOK, Delays, config
  <1>1. CASE UNCHANGED <<age, left, delay>>
    BY <1>1
  <1>2. CASE LoopHead(0, Initial, "degraded")
    BY <1>2, BackoffAssumption, LoopHeadTiming
  <1>3. CASE LoopHead(IF retrying THEN age ELSE 0, Grown(delay), "degraded")
    <2>1. (IF retrying THEN age ELSE 0) \in 0..Horizon
      BY BackoffAssumption
    <2>2. Grown(delay) \in Delays
      BY GrownFacts, BackoffAssumption DEF Delays
    <2> QED BY <1>3, <2>1, <2>2, LoopHeadTiming
  <1> QED BY <1>1, <1>2, <1>3 DEF SessionOver

-----------------------------------------------------------------------------
(* The inductive invariant: its timers.                                      *)

LEMMA TickTiming == Timing /\ Tick => Timing'
  <1> SUFFICES ASSUME Timing, Tick PROVE Timing'
    OBVIOUS
  <1>1. /\ age' \in 0..Horizon /\ age' <= age + 1
        /\ down' \in 0..Horizon /\ left' \in 0..Horizon
        /\ left' > 0 => left' = left - 1
    BY BackoffAssumption DEF Timing, TimersOK, Tick, Lesser
  <1> QED BY <1>1, BackoffAssumption
          DEF Timing, TimersOK, Delays, Tick, config

LEMMA StartTiming == Timing /\ StartStep => Timing'
  <1> SUFFICES ASSUME Timing, StartStep PROVE Timing'
    OBVIOUS
  <1> USE BackoffAssumption DEF Timing, TimersOK, Delays, config
  <1>1. ASSUME NEW a \in Answers, StartConnects(a) PROVE Timing'
    <2> UNCHANGED budget
      BY <1>1 DEF StartConnects
    <2>1. CASE UNCHANGED <<age, left, delay>> /\ down' \in {0, down}
      BY <2>1
    <2>2. CASE /\ UNCHANGED <<age, down>> /\ ~Exceeded(age)
               /\ left' = NextSleep(age, delay) /\ delay' = Grown(delay)
      BY <2>2, GrownFacts, NextSleepFacts
    <2> QED BY <1>1, <2>1, <2>2 DEF StartConnects
  <1>2. CASE StartSleepEnds \/ CapabilitiesChecked \/ SetupFails
    BY <1>2 DEF StartSleepEnds, CapabilitiesChecked, SetupFails, timers
  <1>3. CASE SetupReturns
    BY <1>3 DEF SetupReturns
  <1> QED BY <1>1, <1>2, <1>3 DEF StartStep

LEMMA SupervisorTiming ==
  ASSUME Timing
  PROVE  /\ SupervisorStep => Timing'
         /\ \A kind : SessionEnds(kind) => Timing'
  <1> USE BackoffAssumption DEF Timing, TimersOK, Delays, config
  <1>1. ASSUME SupervisorBegins PROVE Timing'
    <2> UNCHANGED budget
      BY <1>1 DEF SupervisorBegins
    <2>1. CASE UNCHANGED <<age, left, delay, down>>
      BY <2>1
    <2>2. CASE LoopHead(0, delay, state) /\ UNCHANGED down
      <3>1. 0 \in 0..Horizon /\ down' \in 0..Horizon
        BY <2>2
      <3> QED BY <2>2, <3>1, LoopHeadTiming
    <2> QED BY <1>1, <2>1, <2>2 DEF SupervisorBegins
  <1>2. ASSUME ConnectRefused PROVE Timing'
    <2>1. LoopHead(age, Grown(delay), state) /\ down' \in 0..Horizon /\ UNCHANGED budget
      BY <1>2 DEF ConnectRefused
    <2> QED BY <2>1, GrownFacts, LoopHeadTiming
  <1>3. ASSUME NEW a, ConnectBreaks(a) PROVE Timing'
    <2>1. SessionOver(a) /\ down' \in 0..Horizon /\ UNCHANGED budget
      BY <1>3 DEF ConnectBreaks
    <2> QED BY <2>1, SessionOverTiming
  <1>4. ASSUME NEW kind, SessionEnds(kind) PROVE Timing'
    <2>1. SessionOver(kind) /\ down' \in 0..Horizon /\ UNCHANGED budget
      BY <1>4 DEF SessionEnds
    <2> QED BY <2>1, SessionOverTiming
  <1>5. ASSUME Undone PROVE Timing'
    <2> UNCHANGED budget
      BY <1>5 DEF Undone
    <2>1. CASE SessionOver("silent") /\ UNCHANGED down
      BY <2>1, SessionOverTiming
    <2>2. CASE UNCHANGED <<age, left, delay, down>>
      BY <2>2
    <2> QED BY <1>5, <2>1, <2>2 DEF Undone
  <1>6. ASSUME NEW a, SleepEnds \/ ConnectUndoes(a) \/ Cancelled PROVE Timing'
    BY <1>6 DEF SleepEnds, ConnectUndoes, Cancelled, timers
  <1>7. ASSUME Reconnects PROVE Timing'
    BY <1>7 DEF Reconnects
  <1> QED BY <1>1, <1>2, <1>3, <1>4, <1>5, <1>6, <1>7 DEF SupervisorStep, Connecting

LEMMA StopTiming ==
  Timing /\ (LostInSetup \/ CrashHandled \/ StopStep \/ Interrupted \/ Reload
             \/ UNCHANGED vars)
    => Timing'
  <1> SUFFICES ASSUME Timing,
                      \/ LostInSetup \/ CrashHandled \/ StopStep \/ Interrupted
                      \/ Reload \/ UNCHANGED vars
               PROVE  Timing'
    OBVIOUS
  <1>1. /\ UNCHANGED <<age, left, delay>> /\ down' \in {0, down}
        /\ budget' = budget \/ budget' \in RetryTimes
    BY DEF LostInSetup, CrashHandled, StopStep, ShutdownSeen, Interrupted, StopBegins,
           CancelSupervisor, StopGoesOn, StopEnds, Reload, timers, config, vars
  <1> QED BY <1>1, BackoffAssumption DEF Timing, TimersOK, Delays

-----------------------------------------------------------------------------
(* The inductive invariant: its control.                                     *)

LEMMA LoopHeadControl ==
  ASSUME NEW a, NEW d, NEW s \in States, ControlOK, LoopHead(a, d, s)
  PROVE  /\ spc' \in {"returned", "sleeping"} /\ retrying' = TRUE
         /\ state' \in States /\ requested' \in BOOLEAN
  BY DEF LoopHead, ControlOK, States

LEMMA SessionOverControl ==
  ASSUME NEW kind, ControlOK, SessionOver(kind)
  PROVE  /\ \/ spc' = "returned" /\ retrying' \in BOOLEAN
            \/ spc' = "sleeping" /\ retrying' = TRUE
         /\ state' \in States /\ requested' \in BOOLEAN
  <1>1. "degraded" \in States /\ "failed" \in States
    BY DEF States
  <1>2. CASE ~enabled
    BY <1>1, <1>2 DEF SessionOver, ControlOK
  <1>3. CASE enabled
    <2>1. \E a, d : LoopHead(a, d, "degraded")
      BY <1>3 DEF SessionOver
    <2> QED BY <2>1, <1>1, LoopHeadControl
  <1> QED BY <1>2, <1>3

LEMMA StartControl == Control /\ (Tick \/ StartStep \/ LostInSetup) => Control'
  <1> USE DEF Control, ControlOK, Phases, Session, Alive, States, config
  <1>1. ASSUME Control, Tick PROVE Control'
    BY <1>1 DEF Tick
  <1>2. ASSUME Control, NEW a \in Answers, StartConnects(a) PROVE Control'
    <2>1. CASE connected' = TRUE /\ mpc' = "checking" /\ UNCHANGED <<state, pluginsUp>>
      BY <1>2, <2>1 DEF StartConnects
    <2>2. CASE StartFails /\ UNCHANGED connected
      BY <1>2, <2>2 DEF StartConnects, StartFails
    <2>3. CASE mpc' = "backing_off" /\ UNCHANGED <<state, connected, pluginsUp>>
      BY <1>2, <2>3 DEF StartConnects
    <2> QED BY <1>2, <2>1, <2>2, <2>3 DEF StartConnects
  <1>3. ASSUME Control, StartSleepEnds PROVE Control'
    BY <1>3 DEF StartSleepEnds, timers
  <1>4. ASSUME Control, CapabilitiesChecked PROVE Control'
    BY <1>4 DEF CapabilitiesChecked, timers
  <1>5. ASSUME Control, SetupReturns PROVE Control'
    BY <1>5 DEF SetupReturns
  <1>6. ASSUME Control, SetupFails PROVE Control'
    BY <1>6 DEF SetupFails, StartFails, timers
  <1>7. ASSUME Control, LostInSetup PROVE Control'
    <2>1. /\ UNCHANGED <<enabled, state, pluginsUp, mpc, spc, failure, retrying,
                         cancelling, crashed, requested>>
          /\ mpc \in {"checking", "setup"} /\ connected' = FALSE
      BY <1>7 DEF LostInSetup
    <2>2. spc = "none" /\ ControlOK'
      BY <1>7, <2>1
    <2> QED BY <1>7, <2>1, <2>2
  <1> QED BY <1>1, <1>2, <1>3, <1>4, <1>5, <1>6, <1>7 DEF StartStep

LEMMA SupervisorControl ==
  ASSUME Control
  PROVE  /\ SupervisorStep => Control'
         /\ \A kind : SessionEnds(kind) => Control'
  <1> USE DEF Control, Phases, Session, Alive, config
  <1>1. ASSUME SupervisorBegins PROVE Control'
    <2>1. CASE connected = TRUE
      BY <1>1, <2>1 DEF SupervisorBegins, ControlOK
    <2>2. CASE connected = FALSE
      <3>1. LoopHead(0, delay, state) /\ state \in States
        BY <1>1, <2>2 DEF SupervisorBegins, ControlOK
      <3> QED BY <1>1, <2>2, <3>1, LoopHeadControl DEF SupervisorBegins, ControlOK
    <2> QED BY <2>1, <2>2 DEF ControlOK
  <1>2. ASSUME ConnectRefused PROVE Control'
    <2>1. LoopHead(age, Grown(delay), state) /\ state \in States
      BY <1>2 DEF ConnectRefused, ControlOK
    <2> QED BY <1>2, <2>1, LoopHeadControl DEF ConnectRefused, ControlOK
  <1>3. ASSUME NEW a, ConnectBreaks(a) PROVE Control'
    BY <1>3, SessionOverControl DEF ConnectBreaks, ControlOK
  <1>4. ASSUME NEW kind, SessionEnds(kind) PROVE Control'
    BY <1>4, SessionOverControl DEF SessionEnds, ControlOK
  <1>5. ASSUME Undone PROVE Control'
    <2>1. CASE SessionOver("silent") /\ UNCHANGED crashed
      BY <1>5, <2>1, SessionOverControl DEF Undone, ControlOK
    <2>2. CASE spc' = "crashed" /\ state' = "failed" /\ crashed' = TRUE /\ UNCHANGED <<retrying, requested>>
      BY <1>5, <2>2 DEF Undone, ControlOK, States
    <2> QED BY <1>5, <2>1, <2>2 DEF Undone
  <1>6. ASSUME SleepEnds PROVE Control'
    <2>1. /\ UNCHANGED <<enabled, connected, pluginsUp, mpc, failure, retrying, cancelling, crashed>>
          /\ spc = "sleeping" /\ spc' \in {"returned", "connecting"}
          /\ cancelling = FALSE
      BY <1>6 DEF SleepEnds, timers, ControlOK
    <2>2. state' \in States /\ requested' \in BOOLEAN
      BY <1>6 DEF SleepEnds, ControlOK, States
    <2> QED BY <2>1, <2>2 DEF ControlOK
  <1>7. ASSUME NEW a, ConnectUndoes(a) PROVE Control'
    BY <1>7 DEF ConnectUndoes, timers, ControlOK
  <1>8. ASSUME Cancelled PROVE Control'
    <2>1. /\ UNCHANGED <<enabled, state, connected, pluginsUp, mpc, failure, retrying, crashed, requested>>
          /\ cancelling' = FALSE
          /\ spc' \in {spc, "cancelled"} /\ cancelling = TRUE
      BY <1>8 DEF Cancelled, timers, ControlOK
    <2>2. ControlOK'
      BY <2>1 DEF ControlOK
    <2>3. Phases' /\ Session'
      BY <2>1
    <2> QED BY <2>2, <2>3
  <1>9. ASSUME Reconnects PROVE Control'
    BY <1>9 DEF Reconnects, ControlOK, States
  <1> QED BY <1>1, <1>2, <1>3, <1>4, <1>5, <1>6, <1>7, <1>8, <1>9
          DEF SupervisorStep, Connecting

LEMMA StopControl ==
  Control /\ (CrashHandled \/ StopStep \/ Interrupted \/ Reload \/ UNCHANGED vars) => Control'
  <1> USE DEF Control, ControlOK, Phases, Session, Alive, timers, config
  <1>1. ASSUME Control, CrashHandled PROVE Control'
    <2>1. state' \in States
      BY <1>1 DEF CrashHandled, States
    <2>2. UNCHANGED <<enabled, connected, pluginsUp, mpc, spc, failure, retrying, cancelling>>
          /\ crashed' = FALSE /\ requested' = TRUE
      BY <1>1 DEF CrashHandled
    <2>3. Phases' /\ Session'
      BY <1>1, <2>2
    <2>4. /\ enabled' \in BOOLEAN /\ connected' \in BOOLEAN /\ pluginsUp' \in BOOLEAN
          /\ retrying' \in BOOLEAN /\ cancelling' \in BOOLEAN
          /\ crashed' \in BOOLEAN /\ requested' \in BOOLEAN
      BY <1>1, <2>2
    <2> QED BY <1>1, <2>1, <2>2, <2>3, <2>4
  <1>2. ASSUME Control, ShutdownSeen \/ Interrupted PROVE Control'
    BY <1>2 DEF ShutdownSeen, Interrupted, StopBegins, States
  <1>3. ASSUME Control, CancelSupervisor PROVE Control'
    BY <1>3 DEF CancelSupervisor
  <1>4. ASSUME Control, StopGoesOn PROVE Control'
    BY <1>4 DEF StopGoesOn
  <1>5. ASSUME Control, StopEnds PROVE Control'
    BY <1>5 DEF StopEnds, States
  <1>6. ASSUME Control, UNCHANGED vars PROVE Control'
    BY <1>6 DEF vars
  <1>7. ASSUME Control, Reload PROVE Control'
    BY <1>7 DEF Reload
  <1> QED BY <1>1, <1>2, <1>3, <1>4, <1>5, <1>6, <1>7 DEF StopStep

LEMMA NextLapses == Lapses /\ [Next]_vars => Lapses'
  <1> SUFFICES ASSUME Lapses, [Next]_vars PROVE Lapses'
    OBVIOUS
  <1>1. \/ lapses' \in {lapses, {}, {"unwatched"}, lapses \cup {"swallowed"}}
        \/ \E a : lapses' = lapses \cup ({a} \cap {"hangs_up"})
    BY DEF Next, StartStep, SupervisorStep, Connecting, StopStep, Tick, StartConnects,
       StartSleepEnds, CapabilitiesChecked, SetupReturns, SetupFails, LostInSetup,
       SupervisorBegins, SleepEnds, Reconnects, ConnectRefused, ConnectBreaks, ConnectUndoes,
       Undone, Cancelled, SessionEnds, CrashHandled, ShutdownSeen, Interrupted, StopBegins,
       CancelSupervisor, StopGoesOn, StopEnds, Reload, Finished, vars
  <1> QED BY <1>1 DEF Lapses

LEMMA InitInv == Init => IInv
  <1> SUFFICES ASSUME Init PROVE IInv
    OBVIOUS
  <1>1. Control
    BY DEF Init, Control, ControlOK, Phases, Session, States
  <1>2. Timing
    BY BackoffAssumption DEF Init, Timing, TimersOK
  <1>3. Lapses
    BY DEF Init, Lapses
  <1> QED BY <1>1, <1>2, <1>3 DEF IInv

LEMMA NextInv == IInv /\ [Next]_vars => IInv'
  BY TickTiming, StartTiming, SupervisorTiming, StopTiming,
     StartControl, SupervisorControl, StopControl, NextLapses
  DEF IInv, Next, Finished

-----------------------------------------------------------------------------
(* The strengthened invariant holds of every behaviour.                      *)
THEOREM InductiveInvariant == Spec => []IInv
  BY InitInv, NextInv, PTL DEF Spec

(* Type correctness, for every configuration of the back-off.                *)
THEOREM TypeCorrect == Spec => []TypeOK
  <1>1. IInv => TypeOK
    BY DEF IInv, Control, Timing, Lapses, TypeOK
  <1> QED BY InductiveInvariant, <1>1, PTL

-----------------------------------------------------------------------------
(* Action properties.                                                        *)

\* Unless the server hung up, a round of the loop does not shrink the delay.
LEMMA SessionOverDelay ==
  ASSUME NEW kind, SessionOver(kind), Timing
  PROVE  delay' >= delay \/ Initial > MaxDelay \/ (kind = "hangs_up" /\ age' = 0)
  <1>1. delay' = delay \/ delay' = Grown(delay) \/ (kind = "hangs_up" /\ age' = 0)
    <2>1. \A a, d, s : LoopHead(a, d, s) => age' = a /\ delay' = d
      BY DEF LoopHead
    <2> QED BY <2>1 DEF SessionOver
  <1> QED BY <1>1, GrownFacts, BackoffAssumption DEF Timing, TimersOK, Delays

LEMMA BackoffStep ==
  ASSUME IInv, [Next]_vars, UNCHANGED connected, spc' # "new", Initial <= MaxDelay,
         ~(age' = 0 /\ "hangs_up" \in lapses')
  PROVE  delay' >= delay
  <1> USE BackoffAssumption DEF IInv, Control, Session, Timing, TimersOK
  <1>1. CASE UNCHANGED delay
    BY <1>1
  <1>2. CASE delay' = Grown(delay)
    BY <1>2, GrownFacts
  <1>3. ASSUME NEW kind \in {"hangs_up", "garbled"}, SessionEnds(kind) PROVE FALSE
    BY <1>3 DEF SessionEnds
  <1>4. CASE Reconnects
    BY <1>4 DEF Reconnects
  <1>5. ASSUME NEW a \in Answers, ConnectBreaks(a) PROVE delay' >= delay
    <2>1. SessionOver(a) /\ (a = "hangs_up" => "hangs_up" \in lapses')
      BY <1>5 DEF ConnectBreaks
    <2> QED BY <2>1, SessionOverDelay
  <1>6. CASE Undone
    <2>1. CASE SessionOver("silent")
      BY <2>1, SessionOverDelay
    <2>2. CASE UNCHANGED delay
      BY <2>2
    <2> QED BY <1>6, <2>1, <2>2 DEF Undone
  <1>7. ASSUME NEW a \in Answers, StartConnects(a)
        PROVE  UNCHANGED delay \/ delay' = Grown(delay)
    BY <1>7 DEF StartConnects
  <1>8. CASE SupervisorBegins \/ ConnectRefused
    BY <1>1, <1>2, <1>8 DEF SupervisorBegins, ConnectRefused, LoopHead
  <1>9. CASE SetupReturns
    BY <1>9 DEF SetupReturns
  <1>10. ASSUME NEW a,
                \/ Tick \/ StartSleepEnds \/ CapabilitiesChecked \/ SetupFails \/ LostInSetup
                \/ SleepEnds \/ ConnectUndoes(a) \/ Cancelled \/ CrashHandled
                \/ StopStep \/ Interrupted \/ Reload \/ UNCHANGED vars
         PROVE  UNCHANGED delay
    BY <1>10 DEF Tick, StartSleepEnds, CapabilitiesChecked, SetupFails, LostInSetup, SleepEnds,
       ConnectUndoes, Cancelled, CrashHandled, StopStep, ShutdownSeen, Interrupted, StopBegins,
       CancelSupervisor, StopGoesOn, StopEnds, Reload, timers, vars
  <1> QED BY <1>1, <1>2, <1>3, <1>4, <1>5, <1>6, <1>7, <1>8, <1>9, <1>10
          DEF Next, StartStep, SupervisorStep, Connecting, Finished

(* While the server stays away the attempts get rarer, for every back-off    *)
(* whose initial delay is not above its maximum, unless the server hangs up  *)
(* during authentication (_gbx_supervision_loop).                            *)
THEOREM DelaysGrow == Spec => BackoffGrows
  <1>1. IInv /\ IInv' /\ [Next]_vars =>
          [delay' < delay => \/ connected' # connected \/ spc' = "new" \/ Initial > MaxDelay
                             \/ age' = 0 /\ "hangs_up" \in lapses']_vars
    BY BackoffStep, BackoffAssumption DEF IInv, Timing, TimersOK
  <1> QED BY InductiveInvariant, <1>1, PTL DEF Spec, BackoffGrows

-----------------------------------------------------------------------------
(* One budget for all attempts, and a state that agrees with the session.    *)

\* While the supervisor has no session, the retries have lasted at least as
\* long as the session has been down, unless they began late, and the state
\* is not PLUGINS_READY, unless the session was lost unwatched.
Counted ==
  /\ spc \in {"sleeping", "connecting", "undoing"} =>
       /\ ~Late => down <= age
       /\ "unwatched" \notin lapses => state # "plugins_ready"
  /\ (mpc \in {"checking", "setup"} \/ spc = "new") /\ "unwatched" \notin lapses
       => connected = TRUE

LEMMA CountedInit == Init => Counted
  BY DEF Init, Counted

\* When a session or an attempt is over the age of the retries is kept, and
\* the state is DEGRADED or FAILED.
LEMMA SessionOverCounted ==
  ASSUME NEW kind, SessionOver(kind)
  PROVE  /\ spc' \in {"returned", "sleeping"} /\ state' # "plugins_ready"
         /\ kind # "hangs_up" /\ retrying = TRUE => spc' = "returned" \/ age' = age
  BY DEF SessionOver, LoopHead

LEMMA CountedStep ==
  ASSUME IInv, Counted, [Next]_vars
  PROVE  Counted'
  <1> USE BackoffAssumption
      DEF IInv, Control, Session, Phases, Alive, Timing, TimersOK, Counted, Late
  <1>1. CASE Tick
    <2>1. /\ age' = Lesser(age + 1, Horizon)
          /\ down' = 0 \/ down' = Lesser(down + 1, Horizon)
          /\ UNCHANGED <<mpc, spc, connected, state, lapses>>
      BY <1>1 DEF Tick
    <2>2. down <= age => down' <= age'
      BY <2>1 DEF Lesser
    <2> QED BY <2>1, <2>2
  <1>2. ASSUME NEW a \in Answers, StartConnects(a) PROVE Counted'
    <2>1. spc = "none" /\ spc' = "none"
      BY <1>2 DEF StartConnects
    <2>2. mpc' \in {"checking", "setup"} => connected' = TRUE
      BY <1>2 DEF StartConnects, StartFails
    <2> QED BY <2>1, <2>2
  <1>3. CASE CapabilitiesChecked \/ SetupReturns \/ SetupFails \/ StartSleepEnds
    BY <1>3 DEF CapabilitiesChecked, SetupReturns, SetupFails, StartFails, StartSleepEnds, timers
  <1>4. CASE LostInSetup
    BY <1>4 DEF LostInSetup
  <1>5. CASE SupervisorBegins
    <2>1. CASE connected = TRUE
      BY <1>5, <2>1 DEF SupervisorBegins
    <2>2. CASE connected = FALSE
      BY <1>5, <2>2 DEF SupervisorBegins, LoopHead
    <2> QED BY <2>1, <2>2 DEF ControlOK
  <1>6. CASE ConnectRefused
    BY <1>6 DEF ConnectRefused, LoopHead
  <1>7. ASSUME NEW a \in Answers, ConnectBreaks(a) PROVE Counted'
    <2>1. /\ SessionOver(a) /\ retrying = TRUE
          /\ UNCHANGED <<mpc, connected, down>> /\ spc = "connecting"
          /\ lapses' = lapses \cup ({a} \cap {"hangs_up"})
      BY <1>7 DEF ConnectBreaks
    <2> QED BY <2>1, SessionOverCounted
  <1>8. CASE Undone
    <2>1. /\ UNCHANGED <<mpc, connected, down, lapses>> /\ spc = "undoing" /\ retrying = TRUE
          /\ SessionOver("silent") \/ spc' = "crashed"
      BY <1>8 DEF Undone
    <2> QED BY <2>1, SessionOverCounted
  <1>9. ASSUME NEW kind, SessionEnds(kind) PROVE Counted'
    <2>1. SessionOver(kind) /\ down' = 0 /\ spc = "listening" /\ UNCHANGED mpc
      BY <1>9 DEF SessionEnds
    <2>2. mpc \notin {"checking", "setup"}
      BY <2>1
    <2>3. age' \in 0..Horizon
      BY <1>9, SupervisorTiming
    <2>4. spc' \in {"returned", "sleeping"} /\ state' # "plugins_ready"
      BY <2>1, SessionOverCounted
    <2> QED BY <2>1, <2>2, <2>3, <2>4
  <1>10. CASE SleepEnds \/ Reconnects
    BY <1>10 DEF SleepEnds, Reconnects, timers
  <1>11. ASSUME NEW a, ConnectUndoes(a) PROVE Counted'
    BY <1>11 DEF ConnectUndoes, timers
  <1>12. CASE Cancelled
    <2>1. /\ spc' \in {spc, "cancelled"} /\ UNCHANGED <<mpc, connected, state, age, down>>
          /\ lapses' \in {lapses, lapses \cup {"swallowed"}}
      BY <1>12 DEF Cancelled, timers
    <2> QED BY <2>1
  <1>13. CASE CrashHandled \/ Interrupted \/ StopStep \/ Reload \/ UNCHANGED vars
    BY <1>13 DEF CrashHandled, Interrupted, StopStep, ShutdownSeen, StopBegins,
       CancelSupervisor, StopGoesOn, StopEnds, Reload, timers, vars
  <1> QED BY <1>1, <1>2, <1>3, <1>4, <1>5, <1>6, <1>7, <1>8, <1>9, <1>10, <1>11, <1>12, <1>13
          DEF Next, StartStep, SupervisorStep, Connecting, Finished

LEMMA CountedInvariant == Spec => []Counted
  BY InductiveInvariant, CountedInit, CountedStep, PTL DEF Spec

\* An attempt follows a sleep only when the age was checked after it.
LEMMA AttemptStep ==
  ASSUME IInv, Counted, [Next]_vars, spc = "sleeping", spc' = "connecting", ~Late
  PROVE  down < budget
  <1>1. SleepEnds /\ ~Exceeded(age)
    <2>1. \A a, d, s : LoopHead(a, d, s) => spc' # "connecting"
      BY DEF LoopHead
    <2> QED BY <2>1 DEF Next, StartStep, SupervisorStep, Connecting, StopStep, Tick,
            StartConnects, StartSleepEnds, CapabilitiesChecked, SetupReturns, SetupFails,
            LostInSetup, SupervisorBegins, SleepEnds, Reconnects, ConnectRefused,
            ConnectBreaks, ConnectUndoes, Undone, Cancelled, SessionEnds, CrashHandled,
            ShutdownSeen, Interrupted, StopBegins, CancelSupervisor, StopGoesOn, StopEnds,
            Reload, Finished, vars
  <1>2. budget \in Nat
    BY BackoffAssumption DEF IInv, Timing
  <1> QED BY <1>1, <1>2, BackoffAssumption DEF IInv, Timing, TimersOK, Counted, Exceeded

(* Every attempt to reconnect starts while the session has been down for     *)
(* less than the retry time in force, however often it is reloaded, unless   *)
(* the retries began late: every loss, failure and sleep counts against one  *)
(* budget (_gbx_supervision_loop).                                           *)
THEOREM AttemptsInTime == Spec => AttemptsWithinBudget
  <1>1. IInv /\ Counted /\ [Next]_vars =>
          [spc = "sleeping" /\ spc' = "connecting" /\ ~Late => down < budget]_vars
    BY AttemptStep
  <1> QED BY InductiveInvariant, CountedInvariant, <1>1, PTL DEF Spec, AttemptsWithinBudget

(* A controller that reports PLUGINS_READY has a session or has not been     *)
(* able to see that it ended, unless it ended before anybody watched it.     *)
THEOREM ReadyMeansSession == Spec => []ReadyHasSession
  <1>1. Counted => ReadyHasSession
    BY DEF Counted, ReadyHasSession
  <1> QED BY CountedInvariant, <1>1, PTL

(* When stop() is over the plugins are torn down, unless the supervisor died *)
(* of a refused login (stop, controller.py:117-133).                         *)
THEOREM StopTearsDown == Spec => []TornDownUnlessCrashed
  <1>1. IInv => TornDownUnlessCrashed
    BY DEF IInv, Control, Phases, TornDownUnlessCrashed
  <1> QED BY InductiveInvariant, <1>1, PTL

-----------------------------------------------------------------------------
(* A failure is final.                                                       *)

\* Nobody who could set another state than STOPPING is left in FAILED.
Dead == /\ state = "failed" => /\ ~Alive
                               /\ mpc \notin {"connecting", "backing_off", "checking", "setup"}
        /\ crashed = TRUE => spc = "crashed"

LEMMA SupervisorDead ==
  ASSUME IInv, Dead, SupervisorStep \/ \E kind : SessionEnds(kind)
  PROVE  Dead' /\ state # "failed"
  <1> USE DEF IInv, Control, ControlOK, Phases, Session, Dead, Alive
  <1>1. state # "failed" /\ UNCHANGED mpc /\ crashed = FALSE
    BY DEF SupervisorStep, Connecting, SupervisorBegins, SleepEnds, Reconnects, ConnectRefused,
           ConnectBreaks, ConnectUndoes, Undone, Cancelled, SessionEnds
  <1>2. mpc \notin {"connecting", "backing_off", "checking", "setup"}
    BY DEF SupervisorStep, Connecting, SupervisorBegins, SleepEnds, Reconnects, ConnectRefused,
           ConnectBreaks, ConnectUndoes, Undone, Cancelled, SessionEnds
  <1>3. ASSUME NEW a, NEW d, NEW s, LoopHead(a, d, s), s # "failed"
        PROVE  state' = "failed" => spc' = "returned"
    BY <1>3 DEF LoopHead
  <1>4. ASSUME NEW kind, SessionOver(kind) PROVE state' = "failed" => spc' = "returned"
    BY <1>3, <1>4 DEF SessionOver
  <1>5. CASE Undone
    BY <1>1, <1>2, <1>4, <1>5 DEF Undone
  <1>6. ASSUME NEW a, ConnectBreaks(a) \/ ConnectUndoes(a) \/ SessionEnds(a) PROVE Dead'
    BY <1>1, <1>2, <1>4, <1>6 DEF ConnectBreaks, ConnectUndoes, SessionEnds
  <1>7. CASE SupervisorBegins \/ SleepEnds \/ Reconnects \/ ConnectRefused
    BY <1>1, <1>2, <1>3, <1>7 DEF SupervisorBegins, SleepEnds, Reconnects, ConnectRefused
  <1>8. CASE Cancelled
    BY <1>1, <1>2, <1>8 DEF Cancelled
  <1> QED BY <1>1, <1>5, <1>6, <1>7, <1>8 DEF SupervisorStep, Connecting

LEMMA DeadStep ==
  ASSUME IInv, Dead, [Next]_vars
  PROVE  /\ Dead'
         /\ state = "failed" => state' \in {"failed", "stopping", "stopped"}
  <1> USE DEF IInv, Control, ControlOK, Phases, Dead, Alive
  <1>1. CASE SupervisorStep \/ \E kind : SessionEnds(kind)
    BY <1>1, SupervisorDead
  <1>2. ASSUME NEW a \in Answers, StartConnects(a) PROVE Dead' /\ state # "failed"
    BY <1>2 DEF StartConnects, StartFails
  <1>3. CASE StartSleepEnds \/ CapabilitiesChecked \/ SetupReturns \/ SetupFails
    BY <1>3 DEF StartSleepEnds, CapabilitiesChecked, SetupReturns, SetupFails, StartFails
  <1>4. CASE CrashHandled
    BY <1>4 DEF CrashHandled
  <1>5. CASE StopStep \/ Interrupted
    BY <1>5 DEF StopStep, Interrupted, ShutdownSeen, StopBegins, CancelSupervisor, StopGoesOn,
            StopEnds
  <1>6. CASE Tick \/ LostInSetup \/ Reload \/ UNCHANGED vars
    BY <1>6 DEF Tick, LostInSetup, Reload, vars
  <1> QED BY <1>1, <1>2, <1>3, <1>4, <1>5, <1>6 DEF Next, StartStep, Finished

(* From FAILED the controller only stops, whatever failed and whatever still *)
(* runs or happens then: start(), the supervisor and the handler of its      *)
(* crash, stop() and Ctrl-C, in any order.                                   *)
THEOREM FailureIsFinal == Spec => FailedIsFinal
  <1>1. Init => Dead
    BY DEF Init, Dead
  <1>2. IInv /\ Dead /\ [Next]_vars => Dead'
    BY DeadStep
  <1>3. IInv /\ Dead /\ [Next]_vars =>
          [state = "failed" => state' \in {"failed", "stopping", "stopped"}]_vars
    BY DeadStep
  <1> QED BY InductiveInvariant, <1>1, <1>2, <1>3, PTL DEF Spec, FailedIsFinal

=============================================================================
