--------------------------- MODULE PluginServices ---------------------------
(***************************************************************************)
(* What the controller offers the plugins it has loaded (trackhelm.plugin. *)
(* base.Plugin): subscriptions, chat commands, route handlers, tasks; and  *)
(* how it takes them back.  The composition of PluginLoader, ChatRouter    *)
(* and TaskSupervisor.                                                     *)
(*                                                                         *)
(* A plugin may use what it is offered whenever code of it runs, and the   *)
(* controller may cancel tasks and clean a plugin up at any time: the      *)
(* order in which it does so is the subject of PluginLifecycle.            *)
(***************************************************************************)
EXTENDS PluginLoader, ChatRouter, TaskSupervisor

CONSTANTS Namings       \* bound: the names and aliases of commands plugins try

VARIABLES inside,       \* plugins that use services, from their setup to their clean-up
          busy,         \* plugins with a handler that a bus worker runs
          gone          \* plugins that no code was left of when they were cleaned up

serviceVars == <<inside, busy, gone>>
vars == <<requested, available, requires, enabled, pending, level, order, plugins,
          loading, commands, registrations, handlers, lpc, walk, live, due, seen,
          cancelled, edited, sent, published, owner, life, asked, records,
          crashedCount, faults, reported, awaits, inside, busy, gone>>

ASSUME OwnersAssumption == ChatPlugins \subseteq Plugins /\ Owners = ChatPlugins
                           /\ Core \notin Owners
ASSUME NamingsAssumption == Namings \subseteq Seq(Keys) /\ <<>> \notin Namings

Init == /\ LoaderInit /\ ChatInit /\ TasksInit
        /\ inside = {} /\ busy = {} /\ gone = {}

\* Code of p that runs besides setup() and teardown(), or will because a line
\* of chat has its route handler before it.
Lingers(p) == \/ p \in busy
              \/ \E t \in Tasks : owner[t] = p /\ life[t] = "running"
              \/ \E l \in Lines : lpc[l] = "handling" /\ p \in Range(walk[l])

\* Code of p that runs.
Acts(p) == \/ p \in inside \cup busy
           \/ \E t \in Tasks : owner[t] = p /\ life[t] = "running"
           \/ \E l \in Lines : lpc[l] = "handling" /\ Head(walk[l]) = p

-----------------------------------------------------------------------------
Loading == LoaderStep /\ UNCHANGED <<chatVars, taskVars, serviceVars>>

\* load_enabled_plugins has returned: its variables are gone, nothing looks at
\* the list of plugins of the configuration any more.
Starts == /\ loading = "loaded" /\ plugins # <<>>
          /\ inside' = {plugins[i] : i \in DOMAIN plugins} \cap ChatPlugins
          /\ requested' = {} /\ available' = {} /\ enabled' = {} /\ pending' = {}
          /\ requires' = [p \in Plugins |-> {}]
          /\ order' = <<>> /\ plugins' = <<>>
          /\ UNCHANGED <<level, loading, chatVars, taskVars, busy, gone>>

-----------------------------------------------------------------------------
(* The plugins.                                                              *)

RegistersCommand(p) == /\ Acts(p)
                       /\ \E names \in Namings : RegisterCommand(p, names)
                       /\ UNCHANGED <<loaderVars, taskVars, serviceVars>>

RegistersHandler(p) == /\ Acts(p)
                       /\ RegisterHandler(p)
                       /\ UNCHANGED <<loaderVars, taskVars, serviceVars>>

CreatesTask(p) == /\ Acts(p)
                  /\ \E t \in Tasks : Create(t, p)
                  /\ UNCHANGED <<loaderVars, chatVars, serviceVars>>

\* A bus worker calls, and comes back from, a handler of p.  Subscriptions
\* and what becomes of them are the subject of EventBus.
BusCalls(p) == /\ p \in inside /\ busy' = busy \cup {p}
               /\ UNCHANGED <<loaderVars, chatVars, taskVars, inside, gone>>
BusReturns(p) == /\ p \in busy /\ busy' = busy \ {p}
                 /\ UNCHANGED <<loaderVars, chatVars, taskVars, inside, gone>>

-----------------------------------------------------------------------------
(* The controller.                                                           *)

CreatesCoreTask == /\ inside # {}
                   /\ \E t \in Tasks : Create(t, Core)
                   /\ UNCHANGED <<loaderVars, chatVars, serviceVars>>

Cancelling(c) == /\ \/ \E p \in Owners : CancelRecords(c, {p})
                    \/ CancelRecords(c, Owners \cup {Core})
                 /\ UNCHANGED <<loaderVars, chatVars, serviceVars>>

\* cleanup_registered_side_effects, at the end of a teardown() or after a
\* setup() that failed.
Cleanup(p) == /\ p \in inside
              /\ UnregisterPlugin(p)
              /\ inside' = inside \ {p}
              /\ gone' = IF Lingers(p) THEN gone ELSE gone \cup {p}
              /\ UNCHANGED <<loaderVars, taskVars, busy>>

-----------------------------------------------------------------------------
PluginStep(p) == \/ RegistersCommand(p) \/ RegistersHandler(p)
                 \/ CreatesTask(p) \/ BusCalls(p) \/ BusReturns(p)

ChatStep(l) == /\ inside # {} \/ lpc[l] # "none"
               /\ \/ Commands(l) \/ Arrives(l) \/ Edits(l) \/ Cancels(l) \/ HandlerEnds(l)
                  \/ Forwarded(l) \/ Killed(l) \/ Leaves(l)
               /\ UNCHANGED <<loaderVars, taskVars, serviceVars>>

TaskStep(t) == /\ (\E how \in Ended : Ends(t, how)) \/ OnDone(t) \/ Reports(t)
               /\ UNCHANGED <<loaderVars, chatVars, serviceVars>>

Returning(c) == CancelReturns(c) /\ UNCHANGED <<loaderVars, chatVars, serviceVars>>

\* The start was refused, or nothing need happen.
Rests == loading \in Errors \cup {"loaded"} /\ UNCHANGED vars

Next == \/ Loading \/ Starts \/ CreatesCoreTask \/ Rests
        \/ \E p \in ChatPlugins : PluginStep(p) \/ Cleanup(p)
        \/ \E l \in Lines : ChatStep(l)
        \/ \E t \in Tasks : TaskStep(t)
        \/ \E c \in Cancellers : Cancelling(c) \/ Returning(c)

Spec == Init /\ [][Next]_vars

-----------------------------------------------------------------------------
TypeOK == /\ LoaderTypeOK /\ ChatTypeOK /\ TasksTypeOK
          /\ inside \subseteq ChatPlugins /\ gone \subseteq ChatPlugins
          /\ busy \subseteq ChatPlugins
          /\ inside \cap gone = {}

(* A plugin that was cleaned up stays gone: unless a task, a bus handler or  *)
(* a line of chat kept code of it alive at that moment, it never again has a *)
(* command, a route handler or a task, and no line of chat will call it      *)
(* (Plugin.cleanup_registered_side_effects).                                 *)
GoneStaysGone ==
  \A p \in gone :
    /\ p \notin Range(handlers)
    /\ \A k \in DOMAIN commands : commands[k].plugin # p
    /\ \A r \in registrations : r.plugin # p
    /\ ~Lingers(p)

=============================================================================
