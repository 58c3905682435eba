-------------------------- MODULE PluginLifecycle ---------------------------
(***************************************************************************)
(* The plugin side of trackhelm.controller.Controller: setting plugins up, *)
(* rolling a failed start back, disabling a plugin whose handlers or tasks *)
(* fail too often together with the plugins that require it, following a   *)
(* reloaded configuration, and tearing the rest down in stop().            *)
(*                                                                         *)
(* Actors are coroutines of one event loop: Main (Controller._main: start, *)
(* wait, stop), the runs of the fault handler, which live in event bus     *)
(* workers or in tasks of their own, and the calls of reload_config() that *)
(* plugins make.  `turn` names the coroutine that runs without having      *)
(* suspended; the others move only when it is NoOne.  The connection and   *)
(* the event queue are left out: an emission of a lifecycle event does not *)
(* suspend here.                                                           *)
(*                                                                         *)
(* A reload makes new instances under the old names.  Statuses, tasks and  *)
(* chat commands belong to the name, and so do the variables here; only    *)
(* subscriptions belong to an instance (see effects).                      *)
(*                                                                         *)
(* An operator whose name starts with Bug is the definition below it with  *)
(* a plausible mistake; no other definition uses it.                       *)
(***************************************************************************)
EXTENDS Naturals, Sequences, FiniteSets, SequencesExt

CONSTANTS Plugins,
          Order,        \* the loader's order: a sequence of all plugins
          Names,        \* the same plugins, sorted by name
          Requires,     \* [Plugins -> the plugins each one requires]
          Runs,         \* runs of the fault handler that may overlap
          MaxFailures,  \* plugin_faults.max_failures
          MaxFaults,    \* bound: faults of one plugin
          FaultsWhen,   \* where Main may be when a plugin fails
          SetupMayFail, \* may setup() raise?
          Reloaders,    \* calls of reload_config() that may overlap
          Configs,      \* sets of plugins a reloaded file may resolve to
          Tasked,       \* the plugins that create supervised tasks
          Obedient,     \* do the plugins' tasks end once they are cancelled?
          Main, NoOne, None

\* Where Main is suspended before the event loop ends.
Suspended == {"in_setup", "running", "in_rollback", "stopping", "in_cancel",
              "in_unload", "closing"}

ASSUME PluginsAssumption == /\ IsFiniteSet(Plugins)
                            /\ Requires \in [Plugins -> SUBSET Plugins]
                            /\ None \notin Plugins \cup {"faults", "reload"}
                            /\ {"faults", "reload"} \cap Plugins = {}
                            /\ Order \in Seq(Plugins) /\ Order # <<>>
ASSUME OrderAssumption == \A i \in 1..Len(Order) :
                            /\ Requires[Order[i]] \subseteq Range(Order)
                            /\ \A j \in 1..Len(Order) :
                                 /\ Order[i] = Order[j] => i = j
                                 /\ Order[j] \in Requires[Order[i]] => j < i
ASSUME NamesAssumption == /\ Names \in Seq(Plugins) /\ Range(Names) = Range(Order)
                          /\ \A i, j \in 1..Len(Names) : Names[i] = Names[j] => i = j
ASSUME ConfigsAssumption == \A cfg \in Configs : /\ cfg \subseteq Range(Order)
                                                 /\ \A p \in cfg : Requires[p] \subseteq cfg
ASSUME RunsAssumption == /\ Main \notin Runs \cup Reloaders /\ Runs \cap Reloaders = {}
                         /\ NoOne \notin Runs \cup Reloaders \cup {Main}
ASSUME FaultsAssumption == /\ MaxFailures \in Nat \ {0} /\ MaxFaults \in Nat
                           /\ FaultsWhen \subseteq Suspended
                           /\ Tasked \subseteq Plugins
                           /\ SetupMayFail \in BOOLEAN /\ Obedient \in BOOLEAN

VARIABLES state,        \* Controller._state
          status,       \* _plugin_statuses
          registry,     \* PluginRegistry._plugins, in insertion order
          count,        \* _plugin_fault_counts
          reason,       \* _plugin_disabled_reasons: None, "faults", "reload" or a plugin
          effects,      \* does the plugin have subscriptions and chat commands?
          tasks,        \* its supervised tasks: "none", "running", "cancelled"
          setUp,        \* [Plugins -> calls of setup() that returned]
          torn,         \* [Plugins -> calls of teardown() so far]
          turn,         \* the coroutine that is running, or NoOne
          mpc,          \* where Main is
          list,         \* plugins left in Main's loop, the current one first
          pc,           \* [Others -> where the run, or the reload, is]
          agenda,       \* [Others -> what is left of it]
          found,        \* [Others -> did _disable_plugin find a registered plugin?]
          waits,        \* [Others and Main -> plugins whose cancelled tasks it awaits]
          config,       \* the plugins self.config resolves to
          disturbed     \* history: the reloads that did not have the plugins to themselves

Others == Runs \cup Reloaders
pluginVars == <<status, registry, reason, effects, tasks, setUp, torn>>
mainVars == <<mpc, list>>
reloadVars == <<config, disturbed>>
runVars == <<pc, agenda, found, waits, reloadVars>>
vars == <<state, status, registry, count, reason, effects, tasks, setUp, torn,
          turn, mpc, list, runVars>>

States == {"connected", "plugins_ready", "degraded", "failed", "stopping", "stopped"}
Statuses == {"discovered", "setup_started", "ready", "failed",
             "teardown_started", "torn_down", "disabled"}

Registered == Range(registry)

\* A plugin that requires p, and one whose teardown has run.
BugDepends(q, p) == q \in Requires[p]       \* the wrong way round
Depends(q, p) == p \in Requires[q]
BugAlreadyTorn(p) == FALSE                  \* the status is not looked at
AlreadyTorn(p) == status[p] = "torn_down"

\* stop() runs over a copy of the registry, the last plugin first.
BugUnloadOrder == registry                  \* in the order of the setup
UnloadOrder == Reverse(registry)

\* PluginRegistry.register and remove: a dictionary keeps the place of a key.
Registering(p) == IF p \in Registered THEN registry ELSE Append(registry, p)
BugRemoving(p) == registry                  \* the plugin stays
Removing(p) == IF p \in Registered
               THEN RemoveAt(registry, CHOOSE i \in DOMAIN registry : registry[i] = p)
               ELSE registry

\* What is left of a run of _register_plugin_fault, as a sequence of items:
\* a call of _disable_plugin, a call of _disable_dependent_plugins, the rest
\* of that one's loop over its copy of the registry, the last _set_state.
Disable(p, why) == [do |-> "disable", plugin |-> p, why |-> why, rest |-> <<>>]
Dependents(p) == [do |-> "dependents", plugin |-> p, why |-> None, rest |-> <<>>]
Loop(p, rest) == [do |-> "loop", plugin |-> p, why |-> None, rest |-> rest]
Degrade == [do |-> "degrade", plugin |-> None, why |-> None, rest |-> <<>>]

\* What is left of a reload: calls of _disable_plugin, db.initialize(), and
\* calls of _setup_plugins with one plugin.
Initialize == [do |-> "initialize", plugin |-> None, why |-> None, rest |-> <<>>]
Setup(p) == [do |-> "setup", plugin |-> p, why |-> None, rest |-> <<>>]

\* The members of S in the order of a list they are on: one sequence.
InOrder(S, names) ==
  {s \in [1..Cardinality(S) -> S] : \A i, j \in DOMAIN s : i < j =>
     \E k, m \in DOMAIN names : k < m /\ names[k] = s[i] /\ names[m] = s[j]}

-----------------------------------------------------------------------------
\* Connected, plugins loaded and tracked, the first setup() about to run.
Init == /\ state = "connected"
        /\ status = [p \in Plugins |-> "discovered"]
        /\ registry = <<>>
        /\ count = [p \in Plugins |-> 0]
        /\ reason = [p \in Plugins |-> None]
        /\ effects = [p \in Plugins |-> FALSE]
        /\ tasks = [p \in Plugins |-> "none"]
        /\ setUp = [p \in Plugins |-> 0]
        /\ torn = [p \in Plugins |-> 0]
        /\ turn = Main
        /\ mpc = "setup" /\ list = Order
        /\ pc = [f \in Others |-> "idle"]
        /\ agenda = [f \in Others |-> <<>>]
        /\ found = [f \in Others |-> FALSE]
        /\ waits = [w \in Others \cup {Main} |-> {}]
        /\ config = Range(Order) /\ disturbed = {}

\* The reloads under way.
Reloading == {r \in Reloaders : agenda[r] # <<>>}

\* _set_state: nothing when the state is the same already.
SetState(s) == state' = s

-----------------------------------------------------------------------------
(* Main: _setup_plugins, _rollback_plugin_setup, stop.                       *)

SetupBegins == /\ turn = Main /\ mpc = "setup" /\ list # <<>>
               /\ status' = [status EXCEPT ![Head(list)] = "setup_started"]
               /\ turn' = NoOne
               /\ mpc' = "in_setup"
               /\ UNCHANGED <<state, registry, count, reason, effects, tasks,
                              setUp, torn, list, runVars>>

\* setup() returns: the plugin is registered and ready, whatever happened to
\* its status meanwhile.
SetupReturns == /\ turn = NoOne /\ mpc = "in_setup"
                /\ registry' = Registering(Head(list))
                /\ status' = [status EXCEPT ![Head(list)] = "ready"]
                /\ setUp' = [setUp EXCEPT ![Head(list)] = @ + 1]
                /\ list' = Tail(list)
                /\ mpc' = "setup" /\ turn' = Main
                /\ UNCHANGED <<state, count, reason, effects, tasks, torn, runVars>>

SetupDone == /\ turn = Main /\ mpc = "setup" /\ list = <<>>
             /\ SetState("plugins_ready")
             /\ mpc' = "running" /\ turn' = NoOne
             /\ UNCHANGED <<pluginVars, count, list, runVars>>

\* The start goes on with the next plugin.
BugSetupFails == /\ turn = NoOne /\ mpc = "in_setup" /\ SetupMayFail
                 /\ status' = [status EXCEPT ![Head(list)] = "failed"]
                 /\ list' = Tail(list)
                 /\ mpc' = "setup" /\ turn' = Main
                 /\ UNCHANGED <<state, registry, count, reason, effects, tasks,
                                setUp, torn, runVars>>

\* setup() raises: start() goes to FAILED and rolls back all known plugins,
\* the last one first.
SetupFails == /\ turn = NoOne /\ mpc = "in_setup" /\ SetupMayFail
              /\ status' = [status EXCEPT ![Head(list)] = "failed"]
              /\ SetState("failed")
              /\ list' = Reverse(Order)
              /\ mpc' = "rollback" /\ turn' = Main
              /\ UNCHANGED <<registry, count, reason, effects, tasks, setUp, torn,
                             runVars>>

\* _teardown_plugin up to its await, and what its finally clause does.
TeardownBegins(p) == /\ status' = [status EXCEPT ![p] = "teardown_started"]
                     /\ torn' = [torn EXCEPT ![p] = @ + 1]
                     /\ UNCHANGED <<registry, effects, setUp>>

TeardownEnds(p) == /\ effects' = [effects EXCEPT ![p] = FALSE]
                   /\ status' = [status EXCEPT ![p] = "torn_down"]
                   /\ UNCHANGED <<registry, setUp, torn>>

\* One plugin of the rollback loop: a ready one is torn down, one that did
\* not get there only loses its registrations.
RollbackNext == /\ turn = Main /\ mpc = "rollback" /\ list # <<>>
                /\ LET p == Head(list) IN
                   \/ /\ status[p] = "ready"
                      /\ TeardownBegins(p)
                      /\ mpc' = "in_rollback" /\ turn' = NoOne
                      /\ UNCHANGED <<list, effects>>
                   \/ /\ status[p] # "ready"
                      /\ effects' = IF status[p] \in {"setup_started", "failed"}
                                    THEN [effects EXCEPT ![p] = FALSE] ELSE effects
                      /\ list' = Tail(list)
                      /\ UNCHANGED <<status, torn, registry, setUp, mpc, turn>>
                /\ UNCHANGED <<state, count, reason, tasks, runVars>>

\* plugin.teardown() returns or raises, which _teardown_plugin logs; Main goes
\* on with its loop.
MainTeardownReturns == /\ turn = NoOne /\ mpc \in {"in_rollback", "in_unload"}
                       /\ TeardownEnds(Head(list))
                       /\ list' = Tail(list)
                       /\ mpc' = IF mpc = "in_rollback" THEN "rollback" ELSE "unload"
                       /\ turn' = Main
                       /\ UNCHANGED <<state, count, reason, tasks, runVars>>

\* _main reaches stop(): the start failed and was rolled back, shutdown was
\* requested, or the main task was interrupted (Ctrl-C), in a setup() too.
StopBegins == /\ \/ turn = Main /\ mpc = "rollback" /\ list = <<>>
                 \/ turn = NoOne /\ mpc \in {"running", "in_setup"}
              /\ SetState("stopping")
              /\ mpc' = "stopping" /\ turn' = NoOne
              /\ list' = <<>>
              /\ disturbed' = disturbed \cup Reloading
              /\ UNCHANGED <<pluginVars, count, pc, agenda, found, waits, config>>

\* The tick loop and the supervisor have ended (their awaits suspend);
\* tasks.cancel_all cancels what plugins still run.
CancelAll == /\ turn = NoOne /\ mpc = "stopping"
             /\ tasks' = [p \in Plugins |-> IF tasks[p] = "none" THEN "none" ELSE "cancelled"]
             /\ waits' = [waits EXCEPT ![Main] = {p \in Plugins : tasks[p] # "none"}]
             /\ mpc' = "in_cancel"
             /\ UNCHANGED <<state, status, registry, count, reason, effects, setUp,
                            torn, turn, list, pc, agenda, found, reloadVars>>

\* cancel_all also waits for the tasks that were created after it began.
BugCancelAllReturns == /\ turn = NoOne /\ mpc = "in_cancel"
                       /\ \A p \in Plugins : tasks[p] = "none"
                       /\ list' = UnloadOrder
                       /\ mpc' = "unload" /\ turn' = Main
                       /\ UNCHANGED <<state, pluginVars, count, runVars>>

\* All tasks it cancelled are done.  cancel_timeout makes no difference: when
\* it is over, wait_for cancels the gather(), which cancels the tasks again
\* and ends only when they do.
CancelAllReturns == /\ turn = NoOne /\ mpc = "in_cancel"
                    /\ waits[Main] = {}
                    /\ list' = UnloadOrder
                    /\ mpc' = "unload" /\ turn' = Main
                    /\ UNCHANGED <<state, pluginVars, count, runVars>>

UnloadNext == /\ turn = Main /\ mpc = "unload" /\ list # <<>>
              /\ LET p == Head(list) IN
                 \/ /\ AlreadyTorn(p)
                    /\ list' = Tail(list)
                    /\ UNCHANGED <<status, registry, torn, effects, setUp, mpc, turn>>
                 \/ /\ ~AlreadyTorn(p)
                    /\ TeardownBegins(p)
                    /\ mpc' = "in_unload" /\ turn' = NoOne
                    /\ UNCHANGED list
              /\ UNCHANGED <<state, count, reason, tasks, runVars>>

\* gbx.disconnect() and db.dispose() suspend; then STOPPED and bus.shutdown().
Close == /\ \/ turn = Main /\ mpc = "unload" /\ list = <<>> /\ mpc' = "closing"
               /\ UNCHANGED state
            \/ turn = NoOne /\ mpc = "closing" /\ mpc' = "closed"
               /\ SetState("stopped")
         /\ turn' = NoOne
         /\ UNCHANGED <<pluginVars, count, list, runVars>>

-----------------------------------------------------------------------------
(* Plugin code: what a plugin may do while it runs.                          *)

InSetup(p) == \/ mpc = "in_setup" /\ Head(list) = p
              \/ \E r \in Reloaders : pc[r] = "setting_up" /\ Head(agenda[r]).plugin = p

\* setup() subscribes handlers and registers commands.
Registers(p) == /\ turn = NoOne /\ InSetup(p)
                /\ ~effects[p]
                /\ effects' = [effects EXCEPT ![p] = TRUE]
                /\ UNCHANGED <<state, status, registry, count, reason, tasks, setUp,
                               torn, turn, mainVars, runVars>>

\* setup(), or a handler of the plugin, creates a supervised task.
CreatesTask(p) == /\ p \in Tasked
                  /\ turn = NoOne /\ mpc # "closed" /\ tasks[p] = "none"
                  /\ effects[p] \/ InSetup(p)
                  /\ tasks' = [tasks EXCEPT ![p] = "running"]
                  /\ UNCHANGED <<state, status, registry, count, reason, effects,
                                 setUp, torn, turn, mainVars, runVars>>

\* The tasks of p are over: whoever cancelled them need not wait any more.
TasksGone(p) == /\ tasks[p] # "none"
                /\ tasks' = [tasks EXCEPT ![p] = "none"]
                /\ waits' = [w \in DOMAIN waits |-> waits[w] \ {p}]

\* They end, of their own or because they were cancelled.
TasksEnd(p) == /\ turn = NoOne
               /\ TasksGone(p)
               /\ UNCHANGED <<state, status, registry, count, reason, effects,
                              setUp, torn, turn, mainVars, pc, agenda, found, reloadVars>>

-----------------------------------------------------------------------------
(* The fault handler: _register_plugin_fault and what it calls.              *)

\* A subscribed handler fails (the bus reports it) or a task crashes.
FaultArises(f, p) ==
  /\ turn = NoOne /\ pc[f] = "idle" /\ mpc \in FaultsWhen /\ count[p] < MaxFaults
  /\ \/ effects[p] /\ UNCHANGED <<tasks, waits>>
     \/ TasksGone(p)
  /\ count' = [count EXCEPT ![p] = @ + 1]
  /\ IF count[p] + 1 < MaxFailures
     THEN UNCHANGED <<turn, pc, agenda, disturbed>>
     ELSE /\ turn' = f
          /\ disturbed' = disturbed \cup Reloading
          /\ pc' = [pc EXCEPT ![f] = "on"]
          /\ agenda' = [agenda EXCEPT ![f] =
                          <<Disable(p, "faults"), Dependents(p), Degrade>>]
  /\ UNCHANGED <<state, status, registry, reason, effects, setUp, torn,
                 mainVars, found, config>>

\* The run f takes up its next item, without suspending before it.
Takes(f, do) == turn = f /\ pc[f] = "on" /\ agenda[f] # <<>> /\ Head(agenda[f]).do = do

Target(f) == Head(agenda[f]).plugin
PopItem(f) == agenda' = [agenda EXCEPT ![f] = Tail(@)]

\* The result of registry.remove is not looked at.
BugDisableBegins(f) ==
  /\ Takes(f, "disable")
  /\ LET p == Target(f) IN
     /\ registry' = Removing(p)
     /\ reason' = [reason EXCEPT ![p] = Head(agenda[f]).why]
     /\ found' = [found EXCEPT ![f] = TRUE]
     /\ status' = [status EXCEPT ![p] = "disabled"]
     /\ tasks' = [tasks EXCEPT ![p] = IF @ = "none" THEN @ ELSE "cancelled"]
     /\ waits' = [waits EXCEPT ![f] = IF tasks[p] = "none" THEN {} ELSE {p}]
     /\ pc' = [pc EXCEPT ![f] = IF tasks[p] = "none" THEN "cleared" ELSE "cancelling"]
     /\ turn' = IF tasks[p] = "none" THEN f ELSE NoOne
  /\ UNCHANGED <<state, count, effects, setUp, torn, mainVars, agenda, reloadVars>>

\* _disable_plugin up to its first suspension: the registry, the reason and
\* the status change at once; cancel_owner suspends only when there are tasks.
DisableBegins(f) ==
  /\ Takes(f, "disable")
  /\ LET p == Target(f) IN
     /\ registry' = Removing(p)
     /\ reason' = [reason EXCEPT ![p] = Head(agenda[f]).why]
     /\ found' = [found EXCEPT ![f] = p \in Registered]
     /\ status' = [status EXCEPT ![p] = "disabled"]
     /\ tasks' = [tasks EXCEPT ![p] = IF @ = "none" THEN @ ELSE "cancelled"]
     /\ waits' = [waits EXCEPT ![f] = IF tasks[p] = "none" THEN {} ELSE {p}]
     /\ pc' = [pc EXCEPT ![f] = IF tasks[p] = "none" THEN "cleared" ELSE "cancelling"]
     /\ turn' = IF tasks[p] = "none" THEN f ELSE NoOne
  /\ UNCHANGED <<state, count, effects, setUp, torn, mainVars, agenda, reloadVars>>

\* cancel_owner returns: the tasks it cancelled are done (see CancelAllReturns).
CancelReturns(f) == /\ turn = NoOne /\ pc[f] = "cancelling" /\ waits[f] = {}
                    /\ pc' = [pc EXCEPT ![f] = "cleared"]
                    /\ turn' = f
                    /\ UNCHANGED <<state, pluginVars, count, mainVars, agenda, found, waits,
                                       reloadVars>>

\* The plugin that was removed is torn down, unless that has been done.
DisableTearsDown(f) == /\ turn = f /\ pc[f] = "cleared"
                       /\ found[f] /\ ~AlreadyTorn(Target(f))
                       /\ TeardownBegins(Target(f))
                       /\ pc' = [pc EXCEPT ![f] = "tearing"]
                       /\ turn' = NoOne
                       /\ UNCHANGED <<state, count, reason, tasks, mainVars, agenda, found, waits,
                                       reloadVars>>

\* Nothing to tear down: the status is set again and the run goes on.
DisableSkips(f) == /\ turn = f /\ pc[f] = "cleared"
                   /\ ~found[f] \/ AlreadyTorn(Target(f))
                   /\ status' = [status EXCEPT ![Target(f)] = "disabled"]
                   /\ pc' = [pc EXCEPT ![f] = "on"]
                   /\ PopItem(f)
                   /\ UNCHANGED <<state, registry, count, reason, effects, tasks,
                                  setUp, torn, turn, mainVars, found, waits, reloadVars>>

\* teardown() returned or raised: registrations removed, status DISABLED.
DisableEnds(f) == /\ turn = NoOne /\ pc[f] = "tearing"
                  /\ effects' = [effects EXCEPT ![Target(f)] = FALSE]
                  /\ status' = [status EXCEPT ![Target(f)] = "disabled"]
                  /\ pc' = [pc EXCEPT ![f] = "on"]
                  /\ turn' = f
                  /\ PopItem(f)
                  /\ UNCHANGED <<state, registry, count, reason, tasks, setUp, torn,
                                 mainVars, found, waits, reloadVars>>

\* _disable_dependent_plugins copies the registry.
DependentsBegin(f) ==
  /\ Takes(f, "dependents")
  /\ agenda' = [agenda EXCEPT ![f] = <<Loop(Target(f), registry)>> \o Tail(@)]
  /\ UNCHANGED <<state, pluginVars, count, turn, mainVars, pc, found, waits, reloadVars>>

\* One round of its loop: a plugin that requires p is disabled, then those
\* that require it in turn.
LoopNext(f) ==
  /\ Takes(f, "loop")
  /\ LET p == Target(f)
         rest == Head(agenda[f]).rest
         onwards == Loop(p, Tail(rest))
     IN agenda' = [agenda EXCEPT ![f] =
          IF rest = <<>> THEN Tail(@)
          ELSE (IF Depends(Head(rest), p)
                THEN <<Disable(Head(rest), p), Dependents(Head(rest)), onwards>>
                ELSE <<onwards>>) \o Tail(@)]
  /\ UNCHANGED <<state, pluginVars, count, turn, mainVars, pc, found, waits, reloadVars>>

Degrades(f) == /\ Takes(f, "degrade")
               /\ SetState("degraded")
               /\ PopItem(f)
               /\ pc' = [pc EXCEPT ![f] = "idle"]
               /\ turn' = NoOne
               /\ UNCHANGED <<pluginVars, count, mainVars, found, waits, reloadVars>>

\* bus.shutdown() cancels the workers, the end of the event loop the other
\* tasks, and the handler timeout, or a cancelled task, a reload at any time:
\* what is suspended ends there; only a finally clause still runs.
Cancelled(f) == /\ turn = NoOne /\ (mpc = "closed" \/ f \in Reloaders)
                /\ pc[f] \in {"cancelling", "tearing", "initializing", "setting_up"}
                /\ waits[f] = {}
                /\ IF pc[f] = "tearing" THEN TeardownEnds(Target(f))
                   ELSE UNCHANGED <<status, registry, effects, setUp, torn>>
                /\ pc' = [pc EXCEPT ![f] = IF f \in Runs THEN "idle" ELSE "cut"]
                /\ agenda' = [agenda EXCEPT ![f] = <<>>]
                /\ UNCHANGED <<state, count, reason, tasks, turn, mainVars, found, waits,
                               reloadVars>>

-----------------------------------------------------------------------------
(* reload_config, called by a handler or a task of a plugin.                 *)

\* What a reload has to do, from the registry as it is when it begins: the
\* plugins that are gone, sorted by name, then the new ones, in the loader's
\* order.
Gone(cfg) == Registered \ cfg
BugNewAll(cfg) == cfg                       \* those that run, too
BugNewInFile(cfg) == cfg \ config           \* by the files
New(cfg) == cfg \ Registered
ReloadAgenda(gone, new) == [i \in DOMAIN gone |-> Disable(gone[i], "reload")]
                             \o (IF new = <<>> THEN <<>> ELSE <<Initialize>>)
                             \o [i \in DOMAIN new |-> Setup(new[i])]

\* The file is read and its plugins are resolved and instantiated, without
\* suspending; when that fails the old configuration is put back.
ReloadRejected(r) == /\ turn = NoOne /\ pc[r] = "idle" /\ mpc = "running"
                     /\ pc' = [pc EXCEPT ![r] = "rejected"]
                     /\ UNCHANGED <<state, pluginVars, count, turn, mainVars, agenda, found,
                                    waits, reloadVars>>

ReloadBegins(r) ==
  /\ turn = NoOne /\ pc[r] = "idle" /\ mpc = "running"
  /\ \E cfg \in Configs :
       /\ config' = cfg
       /\ \E gone \in InOrder(Gone(cfg), Names), new \in InOrder(New(cfg), Order) :
            agenda' = [agenda EXCEPT ![r] = ReloadAgenda(gone, new)]
  /\ pc' = [pc EXCEPT ![r] = "on"] /\ turn' = r
  /\ disturbed' = IF \A o \in Others : agenda[o] = <<>> THEN disturbed
                  ELSE disturbed \cup Reloading \cup {r}
  /\ UNCHANGED <<state, pluginVars, count, mainVars, found, waits>>

InitializeBegins(r) == /\ Takes(r, "initialize")
                       /\ pc' = [pc EXCEPT ![r] = "initializing"]
                       /\ turn' = NoOne
                       /\ UNCHANGED <<state, pluginVars, count, mainVars, agenda, found, waits,
                                      reloadVars>>

InitializeReturns(r) == /\ turn = NoOne /\ pc[r] = "initializing"
                        /\ pc' = [pc EXCEPT ![r] = "on"] /\ turn' = r
                        /\ PopItem(r)
                        /\ UNCHANGED <<state, pluginVars, count, mainVars, found, waits,
                                       reloadVars>>

ReloadSetupBegins(r) == /\ Takes(r, "setup")
                        /\ status' = [status EXCEPT ![Target(r)] = "setup_started"]
                        /\ pc' = [pc EXCEPT ![r] = "setting_up"]
                        /\ turn' = NoOne
                        /\ UNCHANGED <<state, registry, count, reason, effects, tasks, setUp,
                                       torn, mainVars, agenda, found, waits, reloadVars>>

ReloadSetupReturns(r) ==
  /\ turn = NoOne /\ pc[r] = "setting_up"
  /\ registry' = Registering(Target(r))
  /\ status' = [status EXCEPT ![Target(r)] = "ready"]
  /\ setUp' = [setUp EXCEPT ![Target(r)] = @ + 1]
  /\ pc' = [pc EXCEPT ![r] = "on"] /\ turn' = r
  /\ PopItem(r)
  /\ UNCHANGED <<state, count, reason, effects, tasks, torn, mainVars, found, waits,
                 reloadVars>>

\* db.initialize() or a setup() raises, and so does reload_config(): the
\* configuration stays, and so does what the plugin has registered.
ReloadRaises(r) ==
  /\ turn = NoOne /\ pc[r] \in {"initializing", "setting_up"} /\ SetupMayFail
  /\ status' = IF pc[r] = "initializing" THEN status
               ELSE [status EXCEPT ![Target(r)] = "failed"]
  /\ pc' = [pc EXCEPT ![r] = "raised"]
  /\ agenda' = [agenda EXCEPT ![r] = <<>>]
  /\ UNCHANGED <<state, registry, count, reason, effects, tasks, setUp, torn, turn, mainVars,
                 found, waits, reloadVars>>

ReloadReturns(r) == /\ turn = r /\ pc[r] = "on" /\ agenda[r] = <<>>
                    /\ pc' = [pc EXCEPT ![r] = "applied"]
                    /\ turn' = NoOne
                    /\ UNCHANGED <<state, pluginVars, count, mainVars, agenda, found, waits,
                                   reloadVars>>

\* The end: Main has returned from stop() and nothing is left.
Finished == /\ mpc = "closed" /\ \A f \in Others : agenda[f] = <<>>
            /\ UNCHANGED vars

-----------------------------------------------------------------------------
MainStep == \/ SetupBegins \/ SetupReturns \/ SetupDone \/ SetupFails
            \/ RollbackNext \/ MainTeardownReturns
            \/ StopBegins \/ CancelAll \/ CancelAllReturns \/ UnloadNext \/ Close

RunStep(f) == \/ DisableBegins(f) \/ CancelReturns(f) \/ DisableTearsDown(f)
              \/ DisableSkips(f) \/ DisableEnds(f)
              \/ DependentsBegin(f) \/ LoopNext(f) \/ Degrades(f)
              \/ InitializeBegins(f) \/ InitializeReturns(f)
              \/ ReloadSetupBegins(f) \/ ReloadSetupReturns(f) \/ ReloadReturns(f)

Next == \/ MainStep
        \/ \E p \in Plugins : Registers(p) \/ CreatesTask(p) \/ TasksEnd(p)
        \/ \E f \in Runs, p \in Plugins : FaultArises(f, p)
        \/ \E f \in Others : RunStep(f) \/ Cancelled(f)
        \/ \E r \in Reloaders : ReloadRejected(r) \/ ReloadBegins(r) \/ ReloadRaises(r)
        \/ Finished

Spec == Init /\ [][Next]_vars

(***************************************************************************)
(* Fairness: a coroutine that can go on goes on.  setup() and teardown()   *)
(* of the plugins are assumed to return (nothing in the controller bounds  *)
(* them), and tasks that are Obedient end when they are cancelled.         *)
(***************************************************************************)
Stopping == StopBegins /\ mpc = "rollback"
FairSpec == /\ Spec
            /\ WF_vars(SetupBegins \/ SetupReturns \/ SetupDone \/ RollbackNext
                       \/ MainTeardownReturns \/ Stopping \/ CancelAll
                       \/ CancelAllReturns \/ UnloadNext \/ Close)
            /\ \A f \in Others : WF_vars(RunStep(f))
            /\ \A p \in Plugins : WF_vars(Obedient /\ tasks[p] = "cancelled" /\ TasksEnd(p))

-----------------------------------------------------------------------------
(* Type invariant.                                                           *)
Working == {"cancelling", "cleared", "tearing", "initializing", "setting_up"}
Outcomes == {"applied", "rejected", "raised", "cut"}
TypeOK == /\ state \in States
          /\ status \in [Plugins -> Statuses]
          /\ registry \in Seq(Plugins) /\ IsInjective(registry)
          /\ count \in [Plugins -> 0..MaxFaults]
          /\ reason \in [Plugins -> Plugins \cup {None, "faults", "reload"}]
          /\ effects \in [Plugins -> BOOLEAN]
          /\ tasks \in [Plugins -> {"none", "running", "cancelled"}]
          /\ setUp \in [Plugins -> Nat] /\ torn \in [Plugins -> Nat]
          /\ turn \in Others \cup {Main, NoOne}
          /\ pc \in [Others -> Working \cup {"idle", "on"} \cup Outcomes]
          /\ \A f \in Others : /\ agenda[f] # <<>> => pc[f] \in Working \cup {"on"}
                               /\ agenda[f] = <<>> => pc[f] \notin Working
                               /\ f \in Runs => (pc[f] = "on" => agenda[f] # <<>>)
          /\ found \in [Others -> BOOLEAN]
          /\ waits \in [Others \cup {Main} -> SUBSET Plugins]
          /\ \A w \in Others \cup {Main} : \A p \in waits[w] : tasks[p] = "cancelled"
          /\ config \subseteq Plugins /\ disturbed \subseteq Reloaders

\* Somebody is at work on the plugin.
UnderDisable(p) == \E f \in Others : pc[f] \in {"cancelling", "cleared", "tearing"} /\ Target(f) = p
UnderUnload(p) == mpc \in {"in_rollback", "in_unload"} /\ Head(list) = p

(* Faults are isolated: a plugin is disabled because it failed max_failures  *)
(* times, because a plugin it requires was disabled for a reason of its own, *)
(* or by a reload, which FollowsConfig is about, and for nothing else        *)
(* (_register_plugin_fault, _disable_dependent_plugins).                     *)
OnlyFaultyDisabled ==
  \A p \in Plugins :
    /\ status[p] = "disabled" => reason[p] # None
    /\ reason[p] = "faults" => count[p] >= MaxFailures
    /\ reason[p] \in Plugins => /\ reason[p] \in Requires[p]
                                /\ reason[reason[p]] # None

(* The registry and the statuses agree: a registered plugin is ready or is   *)
(* being torn down by stop(), and a ready plugin is registered.              *)
RegistryAgrees ==
  \A p \in Plugins :
    /\ p \in Registered => status[p] \in {"ready", "teardown_started", "torn_down"}
    /\ status[p] = "ready" => p \in Registered

(* teardown() is called once at most for a plugin, and only after its        *)
(* setup() returned.                                                         *)
TeardownOnce == \A p \in Plugins : torn[p] <= setUp[p]

(* While the controller runs, whatever runs of the fault handler overlap, a  *)
(* disabled plugin nobody is at work on any more was torn down, once, and    *)
(* its registrations (subscriptions, chat commands) are gone.                *)
DisabledIsUndone ==
  mpc = "running" =>
    /\ TeardownOnce
    /\ \A p \in Plugins : status[p] = "disabled" /\ ~UnderDisable(p)
                             => torn[p] = setUp[p] /\ ~effects[p]

\* No plugin has been disabled so far: no fault handler has torn one down.
NoneDisabled == \A p \in Plugins : reason[p] = None

(* As long as no plugin has been disabled, a plugin is torn down before the  *)
(* plugins it requires, by the rollback and by stop(): when teardown() of p  *)
(* is called, no plugin that requires p is still set up.                     *)
DependentsTornFirst ==
  [][\A p, q \in Plugins :
       NoneDisabled /\ torn'[p] > torn[p] /\ p \in Requires[q] /\ setUp[q] > 0
         => torn[q] > 0]_vars

(* A plugin is set up only while every plugin it requires is ready.          *)
SetupNeedsRequired ==
  [][\A p \in Plugins : status[p] # "setup_started" /\ status'[p] = "setup_started"
                          => \A r \in Requires[p] : status[r] = "ready"]_vars

(* stop() leaves nothing behind: unless plugins were disabled, each one that *)
(* was set up has been torn down once, by the rollback or by stop() and not  *)
(* by both, no other one has, and its registrations are gone.                *)
CleanAfterStop ==
  mpc = "closed" /\ NoneDisabled
    => /\ TeardownOnce
       /\ \A p \in Plugins : setUp[p] > 0 => torn[p] > 0 /\ ~effects[p]

(* A disabled plugin takes the plugins that require it along, unless the     *)
(* controller stops.                                                         *)
DependentsAreDisabled ==
  \A p, q \in Plugins :
    (p \in Requires[q] /\ reason[p] # None /\ mpc = "running")
      ~> (q \notin Registered \/ mpc # "running")

\* No reload has been cancelled or has raised.
NoneBroken == \A r \in Reloaders : pc[r] \notin {"cut", "raised"}

(* If every reload so far had the plugins to itself, one that is applied     *)
(* leaves exactly the configured plugins set up, whatever was disabled,      *)
(* failed or broke off before it, and, if no reload broke off, nothing of    *)
(* the ones that reloads disabled (reload_config).                           *)
FollowsConfig ==
  [][\A r \in Reloaders :
       disturbed = {} /\ pc[r] # "applied" /\ pc'[r] = "applied"
         => /\ Registered = config
            /\ \A p \in config : status[p] = "ready"
            /\ NoneBroken =>
                 \A p \in Plugins \ config :
                   reason[p] = "reload" => torn[p] = setUp[p] /\ ~effects[p]]_vars

(* However faults, reloads and stop() follow each other, at most one         *)
(* instance of a plugin is set up at a time and none is torn down twice,     *)
(* unless a reload overlaps with one of them or breaks off; stop() can       *)
(* promise it only if no fault has disabled a plugin.                        *)
OneInstance ==
  /\ disturbed = {} /\ NoneBroken
  /\ mpc = "running" \/ \A p \in Plugins : reason[p] \in {None, "reload"}
  => \A p \in Plugins : torn[p] <= setUp[p] /\ setUp[p] <= torn[p] + 1

(* The controller comes to an end: once it is stopping, or its start failed, *)
(* every loop of stop() and of the rollback terminates.                      *)
StopReturns == mpc \in {"rollback", "stopping"} ~> mpc = "closed"

=============================================================================
