---------------------------- MODULE PluginLoader ----------------------------
(***************************************************************************)
(* trackhelm.plugin.loader.load_enabled_plugins: from the plugins the      *)
(* configuration enables and those that are installed, to the instances in *)
(* the order of their setup.  Three loops: the worklist of                 *)
(* _resolve_dependencies, the levels of graphlib's TopologicalSorter, and  *)
(* the construction of the plugins.  What a loop pops or yields first is   *)
(* the iteration order of a set, which the models leave open.              *)
(*                                                                         *)
(* An operator whose name starts with Bug is the definition below it with  *)
(* a plausible mistake; no other definition uses it.                       *)
(***************************************************************************)
EXTENDS Naturals, Sequences

CONSTANT Plugins        \* the names of plugins, installed or not

VARIABLES requested,    \* config.plugins.enabled
          available,    \* discover_plugins(): the entry points that loaded
          requires,     \* required_plugins of each available class
          enabled, pending,     \* the two sets of _resolve_dependencies
          level,        \* what the sorter has made ready and not yet yielded
          order,        \* what it has yielded
          plugins,      \* the instances, by name
          loading       \* where load_enabled_plugins is

loaderVars == <<requested, available, requires, enabled, pending, level, order,
                plugins, loading>>

Errors == {"missing", "cycle", "invalid"}

Placed == {order[i] : i \in DOMAIN order}

\* The sorter's get_ready(): what is not placed and requires nothing that is
\* not; dependencies that are not enabled are no edges of its graph.
BugReady == enabled \ Placed            \* the graph has no edges
Ready == {p \in enabled \ Placed : requires[p] \cap enabled \subseteq Placed}

-----------------------------------------------------------------------------
LoaderInit == /\ requested \in SUBSET Plugins
              /\ available \in SUBSET Plugins
              /\ requires \in [Plugins -> SUBSET Plugins]
              /\ \A p \in Plugins \ available : requires[p] = {}
              /\ enabled = requested /\ pending = requested
              /\ level = {} /\ order = <<>> /\ plugins = <<>>
              /\ loading = "resolving"

\* One round of the worklist: a plugin that is missing, or requires one that
\* is, ends the start.
Resolve(p) ==
  /\ loading = "resolving" /\ p \in pending
  /\ \/ /\ {p} \cup requires[p] \subseteq available
        /\ enabled' = enabled \cup requires[p]
        /\ pending' = (pending \ {p}) \cup (requires[p] \ enabled)
        /\ UNCHANGED loading
     \/ /\ ~({p} \cup requires[p] \subseteq available)
        /\ loading' = "missing"
        /\ UNCHANGED <<enabled, pending>>
  /\ UNCHANGED <<requested, available, requires, level, order, plugins>>

Resolved == /\ loading = "resolving" /\ pending = {}
            /\ loading' = "sorting"
            /\ UNCHANGED <<requested, available, requires, enabled, pending, level, order, plugins>>

\* The sorter's next group.  That there is none although plugins are left is
\* a cycle, which the sorter finds, and _topological_sort reports, beforehand.
NextLevel == /\ loading = "sorting" /\ level = {} /\ enabled # Placed
             /\ level' = Ready
             /\ loading' = IF Ready = {} THEN "cycle" ELSE "sorting"
             /\ UNCHANGED <<requested, available, requires, enabled, pending, order, plugins>>

Yield(p) == /\ loading = "sorting" /\ p \in level
            /\ level' = level \ {p}
            /\ order' = Append(order, p)
            /\ UNCHANGED <<requested, available, requires, enabled, pending, plugins, loading>>

Sorted == /\ loading = "sorting" /\ level = {} /\ enabled = Placed
          /\ loading' = "building"
          /\ UNCHANGED <<requested, available, requires, enabled, pending, level, order, plugins>>

\* The next plugin gets its controller and its validated configuration; the
\* constructor or the validation may raise.
Build == /\ loading = "building" /\ Len(plugins) < Len(order)
         /\ \/ plugins' = Append(plugins, order[Len(plugins) + 1]) /\ UNCHANGED loading
            \/ loading' = "invalid" /\ UNCHANGED plugins
         /\ UNCHANGED <<requested, available, requires, enabled, pending, level, order>>

Loaded == /\ loading = "building" /\ Len(plugins) = Len(order)
          /\ loading' = "loaded"
          /\ UNCHANGED <<requested, available, requires, enabled, pending, level, order, plugins>>

LoaderStep == \/ \E p \in Plugins : Resolve(p) \/ Yield(p)
              \/ Resolved \/ NextLevel \/ Sorted \/ Build \/ Loaded

LoaderSpec == LoaderInit /\ [][LoaderStep]_loaderVars

-----------------------------------------------------------------------------
LoaderTypeOK ==
  /\ requested \subseteq Plugins /\ available \subseteq Plugins
  /\ requires \in [Plugins -> SUBSET Plugins]
  /\ enabled \subseteq Plugins /\ pending \subseteq enabled /\ level \subseteq enabled
  /\ order \in Seq(enabled) /\ plugins \in Seq(Plugins)
  /\ loading \in {"resolving", "sorting", "building", "loaded"} \cup Errors

\* S has what its members require.
Closed(S) == \A p \in S : requires[p] \subseteq S

\* What the configuration asks for, directly or through what plugins require.
Wanted(p) == \A S \in SUBSET Plugins : requested \subseteq S /\ Closed(S) => p \in S

(* What load_enabled_plugins returns: the plugins that are enabled and those *)
(* they require, directly or not, and no others, all of them installed, each *)
(* one once and after those it requires (_resolve_dependencies,              *)
(* _topological_sort).                                                       *)
LoadedInOrder ==
  loading = "loaded" =>
    /\ {plugins[i] : i \in DOMAIN plugins} = {p \in Plugins : Wanted(p)}
    /\ \A p \in Plugins : Wanted(p) => p \in available
    /\ \A i, j \in DOMAIN plugins : plugins[i] = plugins[j] => i = j
    /\ \A i \in DOMAIN plugins : \A q \in requires[plugins[i]] :
         \E j \in DOMAIN plugins : j < i /\ plugins[j] = q

(* It refuses a configuration only for a reason: a plugin that is wanted is  *)
(* not installed, or some of the wanted plugins require each other in a      *)
(* circle, every one of them another.                                        *)
RefusedForReason ==
  /\ loading = "missing" => \E p \in Plugins : Wanted(p) /\ p \notin available
  /\ loading = "cycle" => \E C \in (SUBSET Plugins) \ {{}} :
                            \A p \in C : Wanted(p) /\ requires[p] \cap C # {}

LoadSound == LoadedInOrder /\ RefusedForReason

=============================================================================
