------------------------ MODULE PluginServicesProofs ------------------------
(***************************************************************************)
(* Proofs about PluginServices and the loader it begins with.              *)
(*                                                                         *)
(* For any set of plugins, finite or not, whatever they require and        *)
(* whichever are installed and enabled: what load_enabled_plugins returns  *)
(* is right, and what it refuses is wrong.                                 *)
(*                                                                         *)
(* For any names of commands, lines of chat, tasks and coroutines that     *)
(* cancel tasks: the records of the task supervisor and the table of       *)
(* commands are exact, no route handler is bypassed, nothing of a plugin   *)
(* that is gone comes back, and the services leave what the loader         *)
(* promises alone.                                                         *)
(***************************************************************************)
EXTENDS PluginServices, FiniteSetTheorems, TLAPS

(* The loader.                                                               *)

\* The two sets of _resolve_dependencies: all that is enabled is wanted, and
\* what is enabled and done with has what it requires.
ResolveInv ==
  /\ requested \subseteq enabled
  /\ \A p \in enabled : Wanted(p)
  /\ \A p \in enabled \ pending : p \in available /\ requires[p] \subseteq enabled
  /\ loading \in {"resolving", "missing"} \/ pending = {}
  /\ loading \in {"resolving", "missing"} => level = {} /\ order = <<>>

\* The order so far: each plugin once, after those it requires, and the
\* members of the level are free to follow in any order.
SortInv ==
  /\ \A i, j \in 1..Len(order) : order[i] = order[j] => i = j
  /\ \A i \in 1..Len(order) : \A q \in requires[order[i]] \cap enabled :
       \E j \in 1..Len(order) : j < i /\ order[j] = q
  /\ \A p \in level : p \notin Placed /\ requires[p] \cap enabled \subseteq Placed
  /\ loading \in {"building", "loaded", "invalid"} => Placed = enabled

\* The plugins that are built so far are the first ones of the order.
BuildInv ==
  /\ Len(plugins) <= Len(order)
  /\ \A i \in 1..Len(plugins) : plugins[i] = order[i]
  /\ loading \in {"building", "loaded", "invalid"} \/ plugins = <<>>
  /\ loading = "loaded" => Len(plugins) = Len(order)

LoaderInv == LoaderTypeOK /\ ResolveInv /\ SortInv /\ BuildInv /\ RefusedForReason

-----------------------------------------------------------------------------
(* Whatever a wanted plugin requires is wanted.                              *)
LEMMA WantedRequires ==
  ASSUME requires \in [Plugins -> SUBSET Plugins],
         NEW p \in Plugins, Wanted(p), NEW q \in requires[p]
  PROVE  Wanted(q)
BY DEF Wanted, Closed

(* A closed set of plugins that has what is requested has all that is wanted. *)
LEMMA WantedIn ==
  ASSUME NEW S \in SUBSET Plugins, requested \subseteq S, Closed(S),
         NEW p, Wanted(p)
  PROVE  p \in S
BY DEF Wanted

(* Appending a plugin to the order places it and nothing else.               *)
LEMMA PlacedAppend ==
  ASSUME NEW s \in Seq(Plugins), NEW p \in Plugins, NEW t, t = Append(s, p)
  PROVE  /\ t \in Seq(Plugins) /\ Len(t) = Len(s) + 1
         /\ t[Len(s) + 1] = p
         /\ \A i \in 1..Len(s) : t[i] = s[i]
         /\ {t[i] : i \in DOMAIN t} = {s[i] : i \in DOMAIN s} \cup {p}
<1>1. /\ t \in Seq(Plugins) /\ Len(t) = Len(s) + 1
      /\ t[Len(s) + 1] = p
      /\ \A i \in 1..Len(s) : t[i] = s[i]
      /\ DOMAIN t = 1..(Len(s) + 1) /\ DOMAIN s = 1..Len(s) /\ Len(s) \in Nat
  OBVIOUS
<1>2. {t[i] : i \in DOMAIN t} = {s[i] : i \in DOMAIN s} \cup {p}
  <2>1. ASSUME NEW x \in {t[i] : i \in DOMAIN t}
        PROVE  x \in {s[i] : i \in DOMAIN s} \cup {p}
    <3>1. PICK i \in 1..(Len(s) + 1) : x = t[i]
      BY <1>1, <2>1
    <3>2. CASE i = Len(s) + 1
      BY <1>1, <3>1, <3>2
    <3>3. CASE i \in 1..Len(s)
      BY <1>1, <3>1, <3>3
    <3> QED
      BY <1>1, <3>1, <3>2, <3>3
  <2>2. ASSUME NEW x \in {s[i] : i \in DOMAIN s} \cup {p}
        PROVE  x \in {t[i] : i \in DOMAIN t}
    BY <1>1, <2>2
  <2> QED
    BY <2>1, <2>2
<1> QED
  BY <1>1, <1>2

LEMMA InitInv == ASSUME LoaderInit PROVE LoaderInv
<1> USE DEF LoaderInit
<1>1. LoaderTypeOK
  BY DEF LoaderTypeOK, Errors
<1>2. ResolveInv
  BY DEF ResolveInv, Wanted
<1>3. SortInv
  BY DEF SortInv, Placed
<1>4. BuildInv
  BY DEF BuildInv
<1>5. RefusedForReason
  BY DEF RefusedForReason
<1> QED
  BY <1>1, <1>2, <1>3, <1>4, <1>5 DEF LoaderInv

-----------------------------------------------------------------------------
(* The worklist.                                                             *)

LEMMA ResolveInvStep ==
  ASSUME LoaderInv, NEW p \in Plugins, Resolve(p)
  PROVE  LoaderInv'
<1> USE DEF LoaderInv
<1>1. /\ UNCHANGED <<requested, available, requires, level, order, plugins>>
      /\ loading = "resolving" /\ p \in pending /\ p \in enabled
      /\ requires[p] \subseteq Plugins /\ level = {} /\ order = <<>> /\ plugins = <<>>
  BY DEF Resolve, LoaderTypeOK, ResolveInv, BuildInv
<1>2. Wanted(p) /\ \A q \in requires[p] : Wanted(q)
  BY <1>1, WantedRequires DEF LoaderTypeOK, ResolveInv
<1>3. CASE /\ {p} \cup requires[p] \subseteq available
           /\ enabled' = enabled \cup requires[p]
           /\ pending' = (pending \ {p}) \cup (requires[p] \ enabled)
           /\ UNCHANGED loading
  <2>1. LoaderTypeOK'
    BY <1>1, <1>3 DEF LoaderTypeOK
  <2>2. ResolveInv'
    <3>1. \A q \in enabled' : Wanted(q)'
      BY <1>1, <1>2, <1>3 DEF ResolveInv, Wanted, Closed
    <3>2. \A q \in enabled' \ pending' : q \in available' /\ requires'[q] \subseteq enabled'
      BY <1>1, <1>3 DEF ResolveInv
    <3> QED
      BY <1>1, <1>3, <3>1, <3>2 DEF ResolveInv
  <2>3. SortInv' /\ BuildInv'
    BY <1>1, <1>3 DEF SortInv, BuildInv, Placed
  <2>4. RefusedForReason'
    BY <1>1, <1>3 DEF RefusedForReason
  <2> QED
    BY <2>1, <2>2, <2>3, <2>4
<1>4. CASE /\ ~({p} \cup requires[p] \subseteq available)
           /\ loading' = "missing"
           /\ UNCHANGED <<enabled, pending>>
  <2>1. LoaderTypeOK'
    BY <1>1, <1>4 DEF LoaderTypeOK, Errors
  <2>2. ResolveInv'
    BY <1>1, <1>4 DEF ResolveInv, Wanted, Closed
  <2>3. SortInv' /\ BuildInv'
    BY <1>1, <1>4 DEF SortInv, BuildInv, Placed
  <2>4. RefusedForReason'
    <3>1. \E q \in Plugins : Wanted(q) /\ q \notin available
      BY <1>1, <1>2, <1>4
    <3> QED
      BY <1>1, <1>4, <3>1 DEF RefusedForReason, Wanted, Closed
  <2> QED
    BY <2>1, <2>2, <2>3, <2>4
<1> QED
  BY <1>3, <1>4 DEF Resolve

LEMMA ResolvedInvStep == ASSUME LoaderInv, Resolved PROVE LoaderInv'
<1> USE DEF LoaderInv, Resolved
<1>1. LoaderTypeOK'
  BY DEF LoaderTypeOK
<1>2. ResolveInv'
  BY DEF ResolveInv, Wanted, Closed
<1>3. SortInv' /\ BuildInv'
  BY DEF SortInv, BuildInv, Placed
<1>4. RefusedForReason'
  BY DEF RefusedForReason
<1> QED
  BY <1>1, <1>2, <1>3, <1>4

-----------------------------------------------------------------------------
(* The sorter.                                                               *)

LEMMA NextLevelInvStep == ASSUME LoaderInv, NextLevel PROVE LoaderInv'
<1> USE DEF LoaderInv
<1>1. /\ UNCHANGED <<requested, available, requires, enabled, pending, order, plugins>>
      /\ loading = "sorting" /\ enabled # Placed
      /\ level' = Ready /\ loading' \in {"sorting", "cycle"}
      /\ loading' = "cycle" => Ready = {}
  BY DEF NextLevel
<1>2. LoaderTypeOK'
  BY <1>1 DEF LoaderTypeOK, Ready, Errors
<1>3. ResolveInv'
  BY <1>1 DEF ResolveInv, Wanted, Closed
<1>4. SortInv' /\ BuildInv'
  BY <1>1 DEF SortInv, BuildInv, Placed, Ready
<1>5. RefusedForReason'
  <2>1. CASE Ready = {}
    <3> DEFINE C == enabled \ Placed
    <3>1. Placed \subseteq enabled
      BY DEF Placed, LoaderTypeOK
    <3>2. C \in (SUBSET Plugins) \ {{}}
      <4>1. \E p \in enabled : p \notin Placed
        BY <1>1, <3>1
      <4> QED
        BY <4>1 DEF LoaderTypeOK
    <3>3. \A p \in C : Wanted(p) /\ requires[p] \cap C # {}
      BY <2>1 DEF Ready, ResolveInv
    <3>4. \E D \in (SUBSET Plugins) \ {{}} : \A p \in D : Wanted(p) /\ requires[p] \cap D # {}
      BY <3>2, <3>3
    <3> QED
      BY <1>1, <3>4 DEF RefusedForReason, Wanted, Closed
  <2>2. CASE Ready # {}
    BY <1>1, <2>2 DEF RefusedForReason
  <2> QED
    BY <2>1, <2>2
<1> QED
  BY <1>2, <1>3, <1>4, <1>5

LEMMA YieldInvStep ==
  ASSUME LoaderInv, NEW p \in Plugins, Yield(p)
  PROVE  LoaderInv'
<1> USE DEF LoaderInv
<1>1. /\ UNCHANGED <<requested, available, requires, enabled, pending, plugins, loading>>
      /\ loading = "sorting" /\ p \in level /\ p \in enabled
      /\ level' = level \ {p} /\ order' = Append(order, p)
      /\ plugins = <<>>
  BY DEF Yield, LoaderTypeOK, BuildInv
<1>2. order \in Seq(Plugins) /\ order' \in Seq(enabled)
  BY <1>1 DEF LoaderTypeOK
<1>3. /\ Len(order) \in Nat /\ Len(order') = Len(order) + 1
      /\ order'[Len(order) + 1] = p
      /\ \A i \in 1..Len(order) : order'[i] = order[i]
      /\ Placed' = Placed \cup {p}
  BY <1>1, <1>2, PlacedAppend DEF Placed
<1>4. \A q \in Placed : \E i \in 1..Len(order) : order[i] = q
  BY <1>2 DEF Placed
<1>5. \A i \in 1..Len(order) : order[i] \in Placed
  BY <1>2 DEF Placed
<1>6. LoaderTypeOK'
  BY <1>1, <1>2 DEF LoaderTypeOK
<1>7. ResolveInv'
  BY <1>1 DEF ResolveInv, Wanted, Closed
<1>8. SortInv'
  <2>1. \A i, j \in 1..Len(order') : order'[i] = order'[j] => i = j
    BY <1>1, <1>3, <1>5 DEF SortInv
  <2>2. ASSUME NEW i \in 1..Len(order'), NEW q \in requires'[order'[i]] \cap enabled'
        PROVE  \E j \in 1..Len(order') : j < i /\ order'[j] = q
    <3>1. CASE i = Len(order) + 1
      BY <1>1, <1>3, <1>4, <2>2, <3>1 DEF SortInv
    <3>2. CASE i \in 1..Len(order)
      <4>1. PICK j \in 1..Len(order) : j < i /\ order[j] = q
        BY <1>1, <1>3, <2>2, <3>2 DEF SortInv
      <4> QED
        BY <1>3, <4>1
    <3> QED
      BY <1>3, <3>1, <3>2
  <2>3. \A q \in level' : q \notin Placed' /\ requires'[q] \cap enabled' \subseteq Placed'
    BY <1>1, <1>3 DEF SortInv
  <2> QED
    BY <1>1, <2>1, <2>2, <2>3 DEF SortInv
<1>9. BuildInv'
  BY <1>1, <1>3 DEF BuildInv
<1>10. RefusedForReason'
  BY <1>1 DEF RefusedForReason
<1> QED
  BY <1>6, <1>7, <1>8, <1>9, <1>10

LEMMA SortedInvStep == ASSUME LoaderInv, Sorted PROVE LoaderInv'
<1> USE DEF LoaderInv, Sorted
<1>1. LoaderTypeOK'
  BY DEF LoaderTypeOK
<1>2. ResolveInv'
  BY DEF ResolveInv, Wanted, Closed
<1>3. SortInv' /\ BuildInv'
  BY DEF SortInv, BuildInv, Placed
<1>4. RefusedForReason'
  BY DEF RefusedForReason
<1> QED
  BY <1>1, <1>2, <1>3, <1>4

-----------------------------------------------------------------------------
(* The construction of the plugins.                                          *)

LEMMA BuildInvStep == ASSUME LoaderInv, Build PROVE LoaderInv'
<1> USE DEF LoaderInv
<1>1. /\ UNCHANGED <<requested, available, requires, enabled, pending, level, order>>
      /\ loading = "building" /\ Len(plugins) < Len(order)
      /\ order \in Seq(Plugins) /\ plugins \in Seq(Plugins)
      /\ Len(order) \in Nat /\ Len(plugins) \in Nat
  BY DEF Build, LoaderTypeOK
<1>2. ResolveInv'
  BY <1>1 DEF Build, ResolveInv, Wanted, Closed
<1>3. SortInv'
  BY <1>1 DEF Build, SortInv, Placed
<1>4. RefusedForReason'
  BY <1>1 DEF Build, RefusedForReason
<1>5. CASE plugins' = Append(plugins, order[Len(plugins) + 1]) /\ UNCHANGED loading
  <2>1. order[Len(plugins) + 1] \in Plugins
    BY <1>1
  <2>2. /\ plugins' \in Seq(Plugins) /\ Len(plugins') = Len(plugins) + 1
        /\ plugins'[Len(plugins) + 1] = order[Len(plugins) + 1]
        /\ \A i \in 1..Len(plugins) : plugins'[i] = plugins[i]
    BY <1>1, <1>5, <2>1
  <2>3. LoaderTypeOK'
    BY <1>1, <1>5, <2>2 DEF LoaderTypeOK
  <2>4. BuildInv'
    BY <1>1, <1>5, <2>2 DEF BuildInv
  <2> QED
    BY <1>2, <1>3, <1>4, <2>3, <2>4
<1>6. CASE loading' = "invalid" /\ UNCHANGED plugins
  <2>1. LoaderTypeOK' /\ BuildInv'
    BY <1>1, <1>6 DEF LoaderTypeOK, BuildInv, Errors
  <2> QED
    BY <1>2, <1>3, <1>4, <2>1
<1> QED
  BY <1>5, <1>6 DEF Build

LEMMA LoadedInvStep == ASSUME LoaderInv, Loaded PROVE LoaderInv'
<1> USE DEF LoaderInv, Loaded
<1>1. LoaderTypeOK'
  BY DEF LoaderTypeOK
<1>2. ResolveInv'
  BY DEF ResolveInv, Wanted, Closed
<1>3. SortInv' /\ BuildInv'
  BY DEF SortInv, BuildInv, Placed
<1>4. RefusedForReason'
  BY DEF RefusedForReason
<1> QED
  BY <1>1, <1>2, <1>3, <1>4

LEMMA StepInv == ASSUME LoaderInv, [LoaderStep]_loaderVars PROVE LoaderInv'
<1>1. CASE UNCHANGED loaderVars
  <2>1. LoaderTypeOK'
    BY <1>1 DEF LoaderInv, LoaderTypeOK, loaderVars
  <2>2. ResolveInv' /\ RefusedForReason'
    BY <1>1 DEF LoaderInv, ResolveInv, RefusedForReason, Wanted, Closed, loaderVars
  <2>3. SortInv' /\ BuildInv'
    BY <1>1 DEF LoaderInv, SortInv, BuildInv, Placed, loaderVars
  <2> QED
    BY <2>1, <2>2, <2>3 DEF LoaderInv
<1>2. ASSUME NEW p \in Plugins, Resolve(p) \/ Yield(p) PROVE LoaderInv'
  BY <1>2, ResolveInvStep, YieldInvStep
<1>3. CASE Resolved \/ NextLevel \/ Sorted \/ Build \/ Loaded
  BY <1>3, ResolvedInvStep, NextLevelInvStep, SortedInvStep, BuildInvStep, LoadedInvStep
<1> QED
  BY <1>1, <1>2, <1>3 DEF LoaderStep

-----------------------------------------------------------------------------
LEMMA InvImpliesLoadSound == ASSUME LoaderInv PROVE LoadSound
<1> USE DEF LoaderInv
<1> SUFFICES ASSUME loading = "loaded" PROVE LoadedInOrder
  BY DEF LoadSound, LoadedInOrder
<1>1. /\ enabled \subseteq Plugins /\ requires \in [Plugins -> SUBSET Plugins]
      /\ order \in Seq(enabled) /\ plugins \in Seq(Plugins)
  BY DEF LoaderTypeOK
<1>2. /\ DOMAIN plugins = 1..Len(plugins) /\ DOMAIN order = 1..Len(order)
      /\ Len(plugins) = Len(order)
      /\ \A i \in 1..Len(order) : plugins[i] = order[i]
  BY <1>1 DEF BuildInv
<1>3. Closed(enabled) /\ \A p \in enabled : p \in available
  BY DEF Closed, ResolveInv
<1>4. \A p \in Plugins : Wanted(p) <=> p \in enabled
  BY <1>1, <1>3, WantedIn DEF ResolveInv
<1>5. {plugins[i] : i \in DOMAIN plugins} = enabled
  BY <1>2 DEF SortInv, Placed
<1>6. {plugins[i] : i \in DOMAIN plugins} = {p \in Plugins : Wanted(p)}
  BY <1>1, <1>4, <1>5
<1>7. \A p \in Plugins : Wanted(p) => p \in available
  BY <1>3, <1>4
<1>8. \A i, j \in DOMAIN plugins : plugins[i] = plugins[j] => i = j
  BY <1>2 DEF SortInv
<1>9. ASSUME NEW i \in DOMAIN plugins, NEW q \in requires[plugins[i]]
      PROVE  \E j \in DOMAIN plugins : j < i /\ plugins[j] = q
  <2>1. plugins[i] \in enabled
    BY <1>5, <1>9
  <2>2. q \in requires[order[i]] \cap enabled
    BY <1>2, <1>3, <1>9, <2>1 DEF Closed
  <2> QED
    BY <1>2, <1>9, <2>2 DEF SortInv
<1> QED
  BY <1>6, <1>7, <1>8, <1>9 DEF LoadedInOrder

(* What load_enabled_plugins returns is the plugins that are wanted, each    *)
(* once and after those it requires, and it refuses a configuration only     *)
(* for plugins that are missing or require each other in a circle            *)
(* (plugin/loader.py).                                                       *)
THEOREM LoaderSound == LoaderSpec => []LoadSound
<1>1. LoaderInit => LoaderInv
  BY InitInv
<1>2. LoaderInv /\ [LoaderStep]_loaderVars => LoaderInv'
  BY StepInv
<1>3. LoaderInv => LoadSound
  BY InvImpliesLoadSound
<1> QED
  BY <1>1, <1>2, <1>3, PTL DEF LoaderSpec

-----------------------------------------------------------------------------
(* The records of the task supervisor.                                       *)

\* The part of TasksTypeOK the count of the crashes rests on.
TasksInv == /\ life \in [Tasks -> {"none", "running"} \cup Ended]
            /\ records \subseteq Tasks /\ faults \subseteq Tasks /\ reported \subseteq Tasks
            /\ CrashesExact

-----------------------------------------------------------------------------
(* One more crash is one more to report.                                     *)
LEMMA OneMoreCrash ==
  ASSUME NEW S \in SUBSET Tasks, NEW t \in Tasks, t \notin S
  PROVE  Cardinality(S \cup {t}) = Cardinality(S) + 1
BY TasksAssumption, FS_Subset, FS_AddElement

LEMMA CreateInv ==
  ASSUME TasksInv, NEW t \in Tasks, NEW o, Create(t, o)
  PROVE  TasksInv'
BY DEF TasksInv, CrashesExact, Create, Ended

LEMMA EndsInv ==
  ASSUME TasksInv, NEW t \in Tasks, NEW how \in Ended, Ends(t, how)
  PROVE  TasksInv'
BY DEF TasksInv, CrashesExact, Ends, Ended

\* The crash moves from the records to the faults, and is counted.
LEMMA OnDoneInv ==
  ASSUME TasksInv, NEW t \in Tasks, OnDone(t)
  PROVE  TasksInv'
<1>1. /\ UNCHANGED <<life, reported>> /\ records' = records \ {t}
      /\ t \in records /\ life[t] \in Ended
  BY DEF OnDone
<1>2. /\ life' \in [Tasks -> {"none", "running"} \cup Ended]
      /\ records' \subseteq Tasks /\ reported' \subseteq Tasks
      /\ \A u \in Tasks : life'[u] = "running" => u \in records'
  BY <1>1 DEF TasksInv, CrashesExact, Ended
<1>3. CASE life[t] = "raised"
  <2>1. faults' = faults \cup {t} /\ crashedCount' = crashedCount + 1
    BY <1>3 DEF OnDone
  <2>2. t \notin faults \cup reported
    BY <1>1 DEF TasksInv, CrashesExact
  <2>3. Cardinality((faults \cup reported) \cup {t}) = Cardinality(faults \cup reported) + 1
    BY <2>2, OneMoreCrash DEF TasksInv
  <2>4. faults' \cup reported' = (faults \cup reported) \cup {t}
    BY <1>1, <2>1
  <2>5. crashedCount' = Cardinality(faults' \cup reported')
    BY <2>1, <2>3, <2>4 DEF TasksInv, CrashesExact
  <2>6. faults' \cup reported' = {u \in Tasks : life'[u] = "raised" /\ u \notin records'}
    BY <1>1, <1>3, <2>4 DEF TasksInv, CrashesExact
  <2>7. faults' \cap reported' = {} /\ faults' \subseteq Tasks
    BY <1>1, <2>1, <2>2 DEF TasksInv, CrashesExact
  <2> QED
    BY <1>2, <2>5, <2>6, <2>7 DEF TasksInv, CrashesExact
<1>4. CASE life[t] # "raised"
  <2>1. UNCHANGED <<faults, crashedCount>>
    BY <1>4 DEF OnDone
  <2>2. {u \in Tasks : life'[u] = "raised" /\ u \notin records'}
          = {u \in Tasks : life[u] = "raised" /\ u \notin records}
    BY <1>1, <1>4
  <2> QED
    BY <1>1, <1>2, <2>1, <2>2 DEF TasksInv, CrashesExact
<1> QED
  BY <1>3, <1>4

LEMMA ReportsInv ==
  ASSUME TasksInv, NEW t \in Tasks, Reports(t)
  PROVE  TasksInv'
<1>1. /\ UNCHANGED <<life, records, crashedCount>>
      /\ t \in faults /\ faults' = faults \ {t} /\ reported' = reported \cup {t}
  BY DEF Reports
<1>2. faults' \cup reported' = faults \cup reported /\ faults' \cap reported' = {}
  BY <1>1 DEF TasksInv, CrashesExact
<1> QED
  BY <1>1, <1>2 DEF TasksInv, CrashesExact

\* Nothing else touches what the invariant is about.
LEMMA OtherInv ==
  ASSUME TasksInv, UNCHANGED <<life, records, crashedCount, faults, reported>>
  PROVE  TasksInv'
BY DEF TasksInv, CrashesExact

LEMMA TasksStep == ASSUME TasksInv, [Next]_vars PROVE TasksInv'
<1>1. ASSUME UNCHANGED vars PROVE TasksInv'
  BY <1>1, OtherInv DEF vars
<1>2. ASSUME Loading PROVE TasksInv'
  BY <1>2, OtherInv DEF Loading, taskVars
<1>3. ASSUME Starts PROVE TasksInv'
  BY <1>3, OtherInv DEF Starts, taskVars
<1>4. ASSUME CreatesCoreTask PROVE TasksInv'
  BY <1>4, CreateInv DEF CreatesCoreTask
<1>5. ASSUME NEW p \in ChatPlugins, PluginStep(p) PROVE TasksInv'
  <2>1. CASE RegistersCommand(p)
    BY <2>1, OtherInv DEF RegistersCommand, taskVars
  <2>2. CASE RegistersHandler(p)
    BY <2>2, OtherInv DEF RegistersHandler, taskVars
  <2>3. CASE CreatesTask(p)
    BY <2>3, CreateInv DEF CreatesTask
  <2>4. CASE BusCalls(p) \/ BusReturns(p)
    BY <2>4, OtherInv DEF BusCalls, BusReturns, taskVars
  <2> QED
    BY <1>5, <2>1, <2>2, <2>3, <2>4 DEF PluginStep
<1>6. ASSUME NEW p \in ChatPlugins, Cleanup(p) PROVE TasksInv'
  BY <1>6, OtherInv DEF Cleanup, taskVars
<1>7. ASSUME NEW l \in Lines, ChatStep(l) PROVE TasksInv'
  BY <1>7, OtherInv DEF ChatStep, taskVars
<1>8. ASSUME NEW t \in Tasks, TaskStep(t) PROVE TasksInv'
  BY <1>8, EndsInv, OnDoneInv, ReportsInv DEF TaskStep
<1>9. ASSUME NEW c \in Cancellers, Cancelling(c) \/ Returning(c) PROVE TasksInv'
  <2>1. UNCHANGED <<life, records, crashedCount, faults, reported>>
    BY <1>9 DEF Cancelling, Returning, CancelRecords, CancelReturns
  <2> QED
    BY <2>1, OtherInv
<1>10. ASSUME Rests PROVE TasksInv'
  BY <1>10, OtherInv DEF Rests, vars
<1> QED
  BY <1>1, <1>2, <1>3, <1>4, <1>5, <1>6, <1>7, <1>8, <1>9, <1>10 DEF Next

(* Every crash of a supervised task is counted and reported once, and no     *)
(* running task is off the records, whatever is cancelled meanwhile          *)
(* (tasks.py, TaskSupervisor._on_done).                                      *)
THEOREM CrashesCounted == Spec => []CrashesExact
<1>1. Init => TasksInv
  BY FS_EmptySet DEF Init, TasksInit, TasksInv, CrashesExact, Ended
<1>2. TasksInv /\ [Next]_vars => TasksInv'
  BY TasksStep
<1>3. TasksInv => CrashesExact
  BY DEF TasksInv
<1> QED
  BY <1>1, <1>2, <1>3, PTL DEF Spec

-----------------------------------------------------------------------------
(* The table of commands.                                                    *)

LEMMA RegisterInv ==
  ASSUME CommandsExact, NEW p, NEW names, RegisterCommand(p, names)
  PROVE  CommandsExact'
<1> DEFINE r == Registration(p, names)
<1>1. /\ KeysOf(r) = Range(names)
      /\ KeysOf(r) \cap DOMAIN commands = {}
      /\ registrations' = registrations \cup {r}
      /\ commands' = [k \in DOMAIN commands \cup KeysOf(r) |->
                        IF k \in KeysOf(r) THEN r ELSE commands[k]]
  BY DEF RegisterCommand, MayRegister, Registration, KeysOf
<1> HIDE DEF r
<1>2. \A s \in registrations : KeysOf(s) \subseteq DOMAIN commands
  BY DEF CommandsExact
<1>3. DOMAIN commands' = UNION {KeysOf(s) : s \in registrations'}
  BY <1>1 DEF CommandsExact
<1>4. \A k \in DOMAIN commands' : commands'[k] \in registrations' /\ k \in KeysOf(commands'[k])
  BY <1>1 DEF CommandsExact
<1>5. \A s, t \in registrations' : KeysOf(s) \cap KeysOf(t) # {} => s = t
  BY <1>1, <1>2 DEF CommandsExact
<1> QED
  BY <1>3, <1>4, <1>5 DEF CommandsExact, KeysOf

\* A key is freed exactly when its registration is the plugin's.
LEMMA UnregisterInv ==
  ASSUME CommandsExact, NEW p, UnregisterPlugin(p)
  PROVE  CommandsExact'
<1>1. /\ registrations' = {r \in registrations : r.plugin # p}
      /\ commands' = [k \in DOMAIN commands \ KeysFreed(p) |-> commands[k]]
  BY DEF UnregisterPlugin
<1>2. \A k \in DOMAIN commands : k \in KeysFreed(p) <=> commands[k].plugin = p
  BY DEF KeysFreed, CommandsExact
<1>3. \A k \in DOMAIN commands' : commands'[k] \in registrations' /\ k \in KeysOf(commands'[k])
  BY <1>1, <1>2 DEF CommandsExact
<1>4. ASSUME NEW r \in registrations', NEW k \in KeysOf(r)
      PROVE  k \in DOMAIN commands'
  <2>1. k \in DOMAIN commands /\ commands[k] = r
    BY <1>1, <1>4 DEF CommandsExact
  <2> QED
    BY <1>1, <1>2, <1>4, <2>1
<1>5. DOMAIN commands' = UNION {KeysOf(r) : r \in registrations'}
  BY <1>3, <1>4
<1>6. \A r, s \in registrations' : KeysOf(r) \cap KeysOf(s) # {} => r = s
  BY <1>1 DEF CommandsExact
<1> QED
  BY <1>3, <1>5, <1>6 DEF CommandsExact, KeysOf

LEMMA TableUnchanged ==
  ASSUME CommandsExact, UNCHANGED <<commands, registrations>>
  PROVE  CommandsExact'
BY DEF CommandsExact, KeysOf

LEMMA TableStep == ASSUME CommandsExact, [Next]_vars PROVE CommandsExact'
<1>1. ASSUME UNCHANGED vars \/ Rests PROVE CommandsExact'
  BY <1>1, TableUnchanged DEF vars, Rests
<1>2. ASSUME Loading \/ Starts \/ CreatesCoreTask PROVE CommandsExact'
  BY <1>2, TableUnchanged DEF Loading, Starts, CreatesCoreTask, chatVars
<1>3. ASSUME NEW p \in ChatPlugins, PluginStep(p) PROVE CommandsExact'
  <2>1. CASE RegistersCommand(p)
    BY <2>1, RegisterInv DEF RegistersCommand
  <2>2. CASE RegistersHandler(p)
    BY <2>2, TableUnchanged DEF RegistersHandler, RegisterHandler
  <2>3. CASE CreatesTask(p) \/ BusCalls(p) \/ BusReturns(p)
    BY <2>3, TableUnchanged DEF CreatesTask, BusCalls, BusReturns, chatVars
  <2> QED
    BY <1>3, <2>1, <2>2, <2>3 DEF PluginStep
<1>4. ASSUME NEW p \in ChatPlugins, Cleanup(p) PROVE CommandsExact'
  BY <1>4, UnregisterInv DEF Cleanup
<1>5. ASSUME NEW l \in Lines, ChatStep(l) PROVE CommandsExact'
  <2>1. UNCHANGED <<commands, registrations>>
    BY <1>5 DEF ChatStep, Commands, Arrives, Edits, Cancels, HandlerEnds, Forwarded,
                Killed, Leaves, tableVars
  <2> QED
    BY <2>1, TableUnchanged
<1>6. ASSUME NEW t \in Tasks, TaskStep(t) PROVE CommandsExact'
  BY <1>6, TableUnchanged DEF TaskStep, chatVars
<1>7. ASSUME NEW c \in Cancellers, Cancelling(c) \/ Returning(c) PROVE CommandsExact'
  BY <1>7, TableUnchanged DEF Cancelling, Returning, chatVars
<1> QED
  BY <1>1, <1>2, <1>3, <1>4, <1>5, <1>6, <1>7 DEF Next

(* Whatever plugins register, fail to register and take back, every name and *)
(* alias leads to the one registration that has it (chat.py,                 *)
(* ChatRouter.register_command and unregister_plugin).                       *)
THEOREM TableExact == Spec => []CommandsExact
<1>1. Init => CommandsExact
  BY DEF Init, ChatInit, CommandsExact
<1>2. CommandsExact /\ [Next]_vars => CommandsExact'
  BY TableStep
<1> QED
  BY <1>1, <1>2, PTL DEF Spec

-----------------------------------------------------------------------------
(* What the loader promises.                                                 *)

\* Once its variables are gone, the loader's invariant holds of nothing.
LEMMA StartsInv == ASSUME LoaderInv, Starts PROVE LoaderInv'
<1>1. /\ loading' = "loaded" /\ level' = level /\ requires' = [p \in Plugins |-> {}]
      /\ requested' = {} /\ available' = {} /\ enabled' = {} /\ pending' = {}
      /\ order' = <<>> /\ plugins' = <<>> /\ loading = "loaded"
  BY DEF Starts
<1>2. level = {}
  BY <1>1 DEF LoaderInv, LoaderTypeOK, SortInv
<1>3. LoaderTypeOK'
  BY <1>1, <1>2 DEF LoaderTypeOK
<1>4. ResolveInv' /\ RefusedForReason'
  BY <1>1, <1>2 DEF ResolveInv, RefusedForReason
<1>5. SortInv' /\ BuildInv'
  BY <1>1, <1>2 DEF SortInv, BuildInv, Placed
<1> QED
  BY <1>3, <1>4, <1>5 DEF LoaderInv

LEMMA LoaderStays ==
  ASSUME LoaderInv, [Next]_vars
  PROVE  LoaderInv'
<1>1. ASSUME UNCHANGED loaderVars \/ Loading PROVE LoaderInv'
  BY <1>1, StepInv DEF Loading
<1>2. UNCHANGED loaderVars \/ Loading \/ Starts
  BY DEF Next, vars, loaderVars, Rests, CreatesCoreTask, PluginStep, RegistersCommand,
         RegistersHandler, CreatesTask, BusCalls, BusReturns, Cleanup, ChatStep, TaskStep,
         Cancelling, Returning
<1> QED
  BY <1>1, <1>2, StartsInv

(* The same of the loader within the whole: its result is right, and its     *)
(* refusals are, until its variables are gone (plugin/loader.py).            *)
THEOREM ServicesLoadSound == Spec => []LoadSound
<1>1. Init => LoaderInv
  BY InitInv DEF Init
<1>2. LoaderInv /\ [Next]_vars => LoaderInv'
  BY LoaderStays
<1>3. LoaderInv => LoadSound
  BY InvImpliesLoadSound
<1> QED
  BY <1>1, <1>2, <1>3, PTL DEF Spec

-----------------------------------------------------------------------------
(* The lines of chat.                                                        *)

Covers(d, s) == Len(d) <= Len(s) /\ \A i \in 1..Len(d) : d[i] = s[i]

\* The handlers a line has met and those before it make up what was due.
LineInv(l) ==
  /\ lpc[l] = "none" => l \notin cancelled /\ published[l] = "none"
  /\ lpc[l] = "handling" => /\ walk[l] # <<>> /\ published[l] = "none"
                            /\ Covers(due[l], seen[l] \o Tail(walk[l]))
  /\ lpc[l] = "forwarding" => /\ l \notin cancelled /\ sent[l] = Text(l)
                              /\ Covers(due[l], seen[l])
  /\ lpc[l] = "over" => l \notin cancelled
  /\ published[l] \notin {"none", "command"} => published[l] = sent[l]

Texts == {"none", "original", "edited", "command"}
LinesTypeOK == /\ handlers \in Seq(ChatPlugins)
               /\ lpc \in [Lines -> {"none", "handling", "forwarding", "over"}]
               /\ walk \in [Lines -> Seq(ChatPlugins)]
               /\ due \in [Lines -> Seq(ChatPlugins)]
               /\ seen \in [Lines -> Seq(ChatPlugins)]
               /\ sent \in [Lines -> Texts] /\ published \in [Lines -> Texts]

LinesInv == LinesTypeOK /\ \A l \in Lines : LineInv(l)

\* What is left of a list is a list of the handlers of others.
LEMMA WithoutIsList ==
  ASSUME NEW S, NEW s \in Seq(S), NEW p, NEW t \in Without(p, s)
  PROVE  t \in Seq(S) /\ Range(t) \subseteq Range(s) \ {p}
<1> DEFINE kept == {i \in DOMAIN s : s[i] # p}
<1>1. Cardinality(kept) \in Nat
  <2>1. Len(s) \in Nat /\ DOMAIN s = 1..Len(s)
    OBVIOUS
  <2>2. IsFiniteSet(kept)
    <3>1. IsFiniteSet(1..Len(s))
      BY <2>1, FS_Interval
    <3>2. kept \in SUBSET (1..Len(s))
      BY <2>1
    <3> QED
      BY <3>1, <3>2, FS_Subset
  <2> QED
    BY <2>2, FS_CardinalityType
<1>2. PICK at \in [1..Cardinality(kept) -> kept] : t = [i \in DOMAIN at |-> s[at[i]]]
  BY DEF Without
<1> HIDE DEF kept
<1>3. \A i \in 1..Cardinality(kept) : at[i] \in DOMAIN s /\ s[at[i]] # p
  BY <1>2 DEF kept
<1>4. t \in [1..Cardinality(kept) -> S]
  BY <1>2, <1>3
<1>5. t \in Seq(S)
  BY <1>1, <1>4
<1> QED
  BY <1>2, <1>3, <1>5 DEF Range

LEMMA CoversMore ==
  ASSUME NEW S, NEW d \in Seq(S), NEW s \in Seq(S), NEW p \in S, Covers(d, s)
  PROVE  Covers(d, Append(s, p))
BY DEF Covers

LEMMA CoversPrefix ==
  ASSUME NEW S, NEW d \in Seq(S), NEW s \in Seq(S), Covers(d, s)
  PROVE  IsPrefix(d, s)
BY DEF Covers, IsPrefix

\* The list of a line grows at its end.
LEMMA TailGrows ==
  ASSUME NEW S, NEW p \in S, NEW s \in Seq(S), NEW w \in Seq(S), w # <<>>
  PROVE  /\ Append(w, p) # <<>>
         /\ s \o Tail(Append(w, p)) = Append(s \o Tail(w), p)
<1>1. Append(w, p) \in Seq(S) /\ Append(w, p) # <<>> /\ Tail(w) \in Seq(S)
  OBVIOUS
<1>2. Tail(Append(w, p)) = Append(Tail(w), p)
  OBVIOUS
<1>3. s \o Append(Tail(w), p) = Append(s \o Tail(w), p)
  BY <1>1
<1> QED
  BY <1>1, <1>2, <1>3

\* The next handler goes from what is before a line to what it has met.
LEMMA HeadMoves ==
  ASSUME NEW S, NEW s \in Seq(S), NEW w \in Seq(S), w # <<>>
  PROVE  Append(s, Head(w)) \o Tail(w) = s \o w
OBVIOUS

\* A step that leaves a line alone.
LEMMA LineUnchanged ==
  ASSUME NEW l \in Lines, LineInv(l),
         UNCHANGED <<lpc[l], walk[l], due[l], seen[l], sent[l], published[l]>>,
         (l \in cancelled') = (l \in cancelled), (l \in edited') = (l \in edited)
  PROVE  LineInv(l)'
BY DEF LineInv, Text

LEMMA LinesUnchanged ==
  ASSUME LinesInv, UNCHANGED <<lineVars, handlers>>
  PROVE  LinesInv'
BY DEF LinesInv, LinesTypeOK, LineInv, Text, lineVars

LEMMA RegisterHandlerLines ==
  ASSUME LinesInv, NEW p \in ChatPlugins, RegisterHandler(p)
  PROVE  LinesInv'
<1>1. LinesTypeOK'
  BY DEF LinesInv, LinesTypeOK, RegisterHandler
<1>2. ASSUME NEW l \in Lines PROVE LineInv(l)'
  <2>1. /\ UNCHANGED <<lpc, due, seen, sent, published, cancelled, edited>>
        /\ walk'[l] = IF l \in live THEN Append(walk[l], p) ELSE walk[l]
    BY DEF RegisterHandler
  <2>2. CASE lpc[l] # "handling" \/ l \notin live
    BY <2>1, <2>2 DEF LinesInv, LineInv, Text
  <2>3. CASE lpc[l] = "handling" /\ l \in live
    <3>1. /\ walk[l] \in Seq(ChatPlugins) /\ seen[l] \in Seq(ChatPlugins)
          /\ due[l] \in Seq(ChatPlugins) /\ walk[l] # <<>>
          /\ Covers(due[l], seen[l] \o Tail(walk[l]))
      BY <2>3 DEF LinesInv, LinesTypeOK, LineInv
    <3>2. seen[l] \o Tail(walk[l]) \in Seq(ChatPlugins)
      BY <3>1
    <3>3. Covers(due[l], Append(seen[l] \o Tail(walk[l]), p))
      BY <3>1, <3>2, CoversMore
    <3>4. /\ Append(walk[l], p) # <<>>
          /\ seen[l] \o Tail(Append(walk[l], p)) = Append(seen[l] \o Tail(walk[l]), p)
      <4>1. \A w \in Seq(ChatPlugins), s \in Seq(ChatPlugins) :
              w # <<>> => /\ Append(w, p) # <<>>
                          /\ s \o Tail(Append(w, p)) = Append(s \o Tail(w), p)
        BY TailGrows
      <4> QED
        BY <3>1, <4>1
    <3>5. walk'[l] # <<>> /\ Covers(due'[l], seen'[l] \o Tail(walk'[l]))
      BY <2>1, <2>3, <3>3, <3>4
    <3> QED
      BY <2>1, <2>3, <3>5 DEF LinesInv, LineInv, Text
  <2> QED
    BY <2>2, <2>3
<1> QED
  BY <1>1, <1>2 DEF LinesInv

LEMMA UnregisterLines ==
  ASSUME LinesInv, NEW p, UnregisterPlugin(p)
  PROVE  LinesInv'
<1>1. handlers' \in Seq(ChatPlugins)
  BY WithoutIsList DEF LinesInv, LinesTypeOK, UnregisterPlugin
<1>2. UNCHANGED <<lpc, walk, due, seen, cancelled, edited, sent, published>>
  BY DEF UnregisterPlugin, NewList
<1> QED
  BY <1>1, <1>2 DEF LinesInv, LinesTypeOK, LineInv, Text

LEMMA NothingLeft == ASSUME NEW S, NEW s \in Seq(S) PROVE s \o <<>> = s
OBVIOUS

LEMMA OverLines ==
  ASSUME LinesInv, NEW l \in Lines, Over(l), UNCHANGED <<handlers, sent>>,
         published' \in [Lines -> Texts],
         \A k \in Lines \ {l} : published'[k] = published[k],
         published'[l] \notin {"none", "command"} => published'[l] = sent[l]
  PROVE  LinesInv'
<1>1. LinesTypeOK'
  <2>1. handlers' \in Seq(ChatPlugins) /\ sent' \in [Lines -> Texts]
    BY DEF LinesInv, LinesTypeOK
  <2>2. /\ walk' \in [Lines -> Seq(ChatPlugins)] /\ due' \in [Lines -> Seq(ChatPlugins)]
        /\ seen' \in [Lines -> Seq(ChatPlugins)]
        /\ lpc' \in [Lines -> {"none", "handling", "forwarding", "over"}]
    BY DEF LinesInv, LinesTypeOK, Over
  <2> QED
    BY <2>1, <2>2 DEF LinesTypeOK
<1>2. LineInv(l)'
  BY DEF LinesInv, LinesTypeOK, LineInv, Over
<1>3. ASSUME NEW k \in Lines \ {l} PROVE LineInv(k)'
  <2>1. /\ UNCHANGED <<lpc[k], walk[k], due[k], seen[k], sent[k], published[k]>>
        /\ (k \in cancelled') = (k \in cancelled) /\ (k \in edited') = (k \in edited)
    BY DEF LinesInv, LinesTypeOK, Over
  <2> QED
    BY <2>1, LineUnchanged DEF LinesInv
<1> QED
  BY <1>1, <1>2, <1>3 DEF LinesInv

LEMMA HandlerEndsLines ==
  ASSUME LinesInv, NEW l \in Lines, HandlerEnds(l)
  PROVE  LinesInv'
<1> DEFINE left == Tail(walk[l])
<1>1. /\ walk[l] \in Seq(ChatPlugins) /\ seen[l] \in Seq(ChatPlugins)
      /\ due[l] \in Seq(ChatPlugins) /\ walk[l] # <<>> /\ published[l] = "none"
      /\ Covers(due[l], seen[l] \o left) /\ left \in Seq(ChatPlugins)
      /\ UNCHANGED <<handlers, published>>
  BY DEF LinesInv, LinesTypeOK, LineInv, HandlerEnds, tableVars
<1>2. CASE l \in cancelled
  <2>1. Over(l) /\ UNCHANGED sent
    BY <1>2 DEF HandlerEnds, GoesOn
  <2> QED
    BY <1>1, <2>1, OverLines DEF LinesInv, LinesTypeOK
<1>3. CASE l \notin cancelled /\ left # <<>>
  <2>1. /\ lpc' = [lpc EXCEPT ![l] = "handling"] /\ walk' = [walk EXCEPT ![l] = left]
        /\ seen' = [seen EXCEPT ![l] = Append(@, Head(left))]
        /\ UNCHANGED <<due, cancelled, edited, sent>>
    BY <1>3 DEF HandlerEnds, GoesOn
  <2>2. LinesTypeOK'
    BY <1>1, <1>3, <2>1 DEF LinesInv, LinesTypeOK
  <2>3. Append(seen[l], Head(left)) \o Tail(left) = seen[l] \o left
    BY <1>1, <1>3, HeadMoves
  <2>4. walk'[l] = left /\ seen'[l] = Append(seen[l], Head(left)) /\ lpc'[l] = "handling"
    BY <2>1 DEF LinesInv, LinesTypeOK
  <2>5. LineInv(l)'
    BY <1>1, <1>3, <2>1, <2>3, <2>4 DEF LineInv
  <2>6. ASSUME NEW k \in Lines \ {l} PROVE LineInv(k)'
    BY <1>1, <2>1, LineUnchanged DEF LinesInv, LinesTypeOK
  <2> QED
    BY <2>2, <2>5, <2>6 DEF LinesInv
<1>4. CASE l \notin cancelled /\ left = <<>>
  <2>1. /\ lpc' = [lpc EXCEPT ![l] = "forwarding"] /\ walk' = [walk EXCEPT ![l] = <<>>]
        /\ sent' = [sent EXCEPT ![l] = Text(l)]
        /\ UNCHANGED <<due, seen, cancelled, edited>>
    BY <1>4 DEF HandlerEnds, GoesOn
  <2>2. LinesTypeOK'
    BY <1>1, <2>1 DEF LinesInv, LinesTypeOK, Texts, Text
  <2>3. seen[l] \o left = seen[l]
    BY <1>1, <1>4, NothingLeft
  <2>4. sent'[l] = Text(l) /\ Text(l)' = Text(l) /\ lpc'[l] = "forwarding"
    BY <2>1 DEF LinesInv, LinesTypeOK, Text
  <2>5. LineInv(l)'
    BY <1>1, <1>4, <2>1, <2>3, <2>4 DEF LineInv
  <2>6. ASSUME NEW k \in Lines \ {l} PROVE LineInv(k)'
    BY <1>1, <2>1, LineUnchanged DEF LinesInv, LinesTypeOK
  <2> QED
    BY <2>2, <2>5, <2>6 DEF LinesInv
<1> QED
  BY <1>2, <1>3, <1>4

LEMMA ArrivesLines ==
  ASSUME LinesInv, NEW l \in Lines, Arrives(l)
  PROVE  LinesInv'
<1>1. /\ handlers \in Seq(ChatPlugins) /\ l \notin cancelled /\ published[l] = "none"
      /\ due' = [due EXCEPT ![l] = handlers] /\ walk' = [walk EXCEPT ![l] = handlers]
      /\ UNCHANGED <<handlers, cancelled, edited, published>>
  BY DEF LinesInv, LinesTypeOK, LineInv, Arrives, tableVars
<1>2. due'[l] = handlers /\ walk'[l] = handlers
  BY <1>1 DEF LinesInv, LinesTypeOK
<1>3. CASE handlers = <<>>
  <2>1. /\ lpc' = [lpc EXCEPT ![l] = "forwarding"] /\ sent' = [sent EXCEPT ![l] = Text(l)]
        /\ UNCHANGED seen
    BY <1>3 DEF Arrives
  <2>2. LinesTypeOK'
    BY <1>1, <2>1 DEF LinesInv, LinesTypeOK, Texts, Text
  <2>3. /\ lpc'[l] = "forwarding" /\ sent'[l] = Text(l) /\ Text(l)' = Text(l)
        /\ Covers(due'[l], seen'[l])
    BY <1>1, <1>2, <1>3, <2>1, <2>2 DEF LinesInv, LinesTypeOK, Text, Covers
  <2>4. LineInv(l)'
    BY <1>1, <2>3 DEF LineInv
  <2>5. ASSUME NEW k \in Lines \ {l} PROVE LineInv(k)'
    BY <1>1, <2>1, LineUnchanged DEF LinesInv, LinesTypeOK
  <2> QED
    BY <2>2, <2>4, <2>5 DEF LinesInv
<1>4. CASE handlers # <<>>
  <2>1. /\ lpc' = [lpc EXCEPT ![l] = "handling"]
        /\ seen' = [seen EXCEPT ![l] = <<Head(handlers)>>]
        /\ UNCHANGED sent
    BY <1>4 DEF Arrives
  <2>2. LinesTypeOK'
    BY <1>1, <1>4, <2>1 DEF LinesInv, LinesTypeOK
  <2>3. <<Head(handlers)>> \o Tail(handlers) = handlers
    BY <1>1, <1>4
  <2>4. Covers(handlers, handlers)
    BY <1>1 DEF Covers
  <2>5. lpc'[l] = "handling" /\ seen'[l] = <<Head(handlers)>>
    BY <2>1 DEF LinesInv, LinesTypeOK
  <2>6. LineInv(l)'
    BY <1>1, <1>2, <1>4, <2>3, <2>4, <2>5 DEF LineInv
  <2>7. ASSUME NEW k \in Lines \ {l} PROVE LineInv(k)'
    BY <1>1, <2>1, LineUnchanged DEF LinesInv, LinesTypeOK
  <2> QED
    BY <2>2, <2>6, <2>7 DEF LinesInv
<1> QED
  BY <1>3, <1>4

LEMMA ChatStepLines ==
  ASSUME LinesInv, NEW l \in Lines, ChatStep(l)
  PROVE  LinesInv'
<1>1. CASE Commands(l)
  <2>1. LinesTypeOK'
    BY <1>1 DEF LinesInv, LinesTypeOK, Commands, tableVars, Texts
  <2>2. LineInv(l)'
    BY <1>1 DEF LinesInv, LinesTypeOK, LineInv, Commands
  <2>3. ASSUME NEW k \in Lines \ {l} PROVE LineInv(k)'
    BY <1>1, LineUnchanged DEF LinesInv, LinesTypeOK, Commands
  <2> QED
    BY <2>1, <2>2, <2>3 DEF LinesInv
<1>2. CASE Edits(l) \/ Cancels(l)
  <2>1. LinesTypeOK'
    BY <1>2 DEF LinesInv, LinesTypeOK, Edits, Cancels, tableVars
  <2>2. LineInv(l)'
    BY <1>2 DEF LinesInv, LinesTypeOK, LineInv, Edits, Cancels
  <2>3. ASSUME NEW k \in Lines \ {l} PROVE LineInv(k)'
    <3>1. /\ UNCHANGED <<lpc, walk, due, seen, sent, published>>
          /\ (k \in cancelled') = (k \in cancelled) /\ (k \in edited') = (k \in edited)
      BY <1>2 DEF Edits, Cancels
    <3> QED
      BY <3>1, LineUnchanged DEF LinesInv
  <2> QED
    BY <2>1, <2>2, <2>3 DEF LinesInv
<1>3. CASE Forwarded(l) \/ Killed(l)
  <2>1. Over(l) /\ UNCHANGED <<handlers, sent>>
    BY <1>3 DEF Forwarded, Killed, tableVars
  <2>2. \/ published' = published
        \/ lpc[l] = "forwarding" /\ published' = [published EXCEPT ![l] = Text(l)]
    BY <1>3 DEF Forwarded, Killed
  <2>3. lpc[l] = "forwarding" => sent[l] = Text(l)
    BY DEF LinesInv, LineInv
  <2>4. /\ published' \in [Lines -> Texts]
        /\ \A k \in Lines \ {l} : published'[k] = published[k]
        /\ published'[l] \notin {"none", "command"} => published'[l] = sent[l]
    BY <2>2, <2>3 DEF LinesInv, LinesTypeOK, LineInv, Texts, Text
  <2> QED
    BY <2>1, <2>4, OverLines
<1>4. CASE Leaves(l)
  <2>1. LinesTypeOK'
    BY <1>4 DEF LinesInv, LinesTypeOK, Leaves, tableVars, Texts
  <2>2. LineInv(l)'
    BY <1>4 DEF LinesInv, LinesTypeOK, LineInv, Leaves
  <2>3. ASSUME NEW k \in Lines \ {l} PROVE LineInv(k)'
    BY <1>4, LineUnchanged DEF LinesInv, LinesTypeOK, Leaves
  <2> QED
    BY <2>1, <2>2, <2>3 DEF LinesInv
<1> QED
  BY <1>1, <1>2, <1>3, <1>4, ArrivesLines, HandlerEndsLines DEF ChatStep

LEMMA LinesStep == ASSUME LinesInv, [Next]_vars PROVE LinesInv'
<1>1. ASSUME UNCHANGED vars \/ Rests PROVE LinesInv'
  BY <1>1, LinesUnchanged DEF vars, lineVars, Rests
<1>2. ASSUME Loading \/ Starts \/ CreatesCoreTask PROVE LinesInv'
  BY <1>2, LinesUnchanged DEF Loading, Starts, CreatesCoreTask, chatVars, lineVars
<1>3. ASSUME NEW p \in ChatPlugins, PluginStep(p) PROVE LinesInv'
  <2>1. CASE RegistersCommand(p)
    BY <2>1, LinesUnchanged DEF RegistersCommand, RegisterCommand
  <2>2. CASE RegistersHandler(p)
    BY <2>2, RegisterHandlerLines DEF RegistersHandler
  <2>3. CASE CreatesTask(p) \/ BusCalls(p) \/ BusReturns(p)
    BY <2>3, LinesUnchanged DEF CreatesTask, BusCalls, BusReturns, chatVars, lineVars
  <2> QED
    BY <1>3, <2>1, <2>2, <2>3 DEF PluginStep
<1>4. ASSUME NEW p \in ChatPlugins, Cleanup(p) PROVE LinesInv'
  BY <1>4, UnregisterLines DEF Cleanup
<1>5. ASSUME NEW l \in Lines, ChatStep(l) PROVE LinesInv'
  BY <1>5, ChatStepLines
<1>6. ASSUME NEW t \in Tasks, TaskStep(t) PROVE LinesInv'
  BY <1>6, LinesUnchanged DEF TaskStep, chatVars, lineVars
<1>7. ASSUME NEW c \in Cancellers, Cancelling(c) \/ Returning(c) PROVE LinesInv'
  BY <1>7, LinesUnchanged DEF Cancelling, Returning, chatVars, lineVars
<1> QED
  BY <1>1, <1>2, <1>3, <1>4, <1>5, <1>6, <1>7 DEF Next

(* However route handlers are registered and plugins unregistered while a    *)
(* line of chat is under way, it reaches public chat only after every        *)
(* handler that was registered when it came (chat.py, route_player_chat).    *)
THEOREM NoHandlerBypassed == Spec => []HandlersNotBypassed
<1>1. Init => LinesInv
  BY DEF Init, ChatInit, LinesInv, LinesTypeOK, LineInv, Texts
<1>2. LinesInv /\ [Next]_vars => LinesInv'
  BY LinesStep
<1>3. LinesInv => HandlersNotBypassed
  BY CoversPrefix DEF LinesInv, LinesTypeOK, LineInv, HandlersNotBypassed
<1> QED
  BY <1>1, <1>2, <1>3, PTL DEF Spec

-----------------------------------------------------------------------------
(* Plugins that are gone.                                                    *)

\* Nothing of p is left, and nothing that could bring any of it back.
Out(p) == /\ p \notin Range(handlers)
          /\ \A r \in registrations : r.plugin # p
          /\ ~Lingers(p)

\* Nobody is gone before the plugins are set up, which happens once.
GoneInv ==
  /\ owner \in [Tasks -> Owners \cup {Core}] /\ life \in [Tasks -> {"none", "running"} \cup Ended]
  /\ inside \subseteq ChatPlugins /\ busy \subseteq ChatPlugins /\ gone \subseteq ChatPlugins
  /\ inside \cap gone = {}
  /\ inside \cup gone # {} => loading = "loaded" /\ plugins = <<>>
  /\ \A p \in gone : Out(p)

ServicesInv == GoneInv /\ LinesInv /\ CommandsExact

LEMMA GoneDoNotAct ==
  ASSUME GoneInv, LinesInv, NEW p \in gone
  PROVE  ~Acts(p)
<1>1. p \notin inside /\ ~Lingers(p)
  BY DEF GoneInv, Out
<1>2. ASSUME NEW l \in Lines, lpc[l] = "handling" PROVE Head(walk[l]) \in Range(walk[l])
  <2>1. walk[l] \in Seq(ChatPlugins) /\ walk[l] # <<>>
    BY <1>2 DEF LinesInv, LinesTypeOK, LineInv
  <2>2. Head(walk[l]) = walk[l][1] /\ 1 \in DOMAIN walk[l]
    BY <2>1
  <2> QED
    BY <2>2 DEF Range
<1> QED
  BY <1>1, <1>2 DEF Acts, Lingers

LEMMA RangeOfAppend ==
  ASSUME NEW S, NEW s \in Seq(S), NEW p \in S
  PROVE  Range(Append(s, p)) = Range(s) \cup {p}
<1>1. \A i \in 1..Len(s) : Append(s, p)[i] = s[i]
  OBVIOUS
<1>2. Append(s, p)[Len(s) + 1] = p /\ DOMAIN Append(s, p) = 1..(Len(s) + 1)
  OBVIOUS
<1>3. Len(s) \in Nat /\ DOMAIN s = 1..Len(s)
  OBVIOUS
<1>4. 1..(Len(s) + 1) = (1..Len(s)) \cup {Len(s) + 1}
  BY <1>3
<1> QED
  BY <1>1, <1>2, <1>3, <1>4 DEF Range

LEMMA RangeOfTail ==
  ASSUME NEW S, NEW s \in Seq(S), s # <<>>
  PROVE  Range(Tail(s)) \subseteq Range(s)
<1>1. \A i \in DOMAIN Tail(s) : i + 1 \in DOMAIN s /\ Tail(s)[i] = s[i + 1]
  OBVIOUS
<1> QED
  BY <1>1 DEF Range

\* A step that leaves the records of a plugin alone.
LEMMA OutUnchanged ==
  ASSUME NEW p, Out(p), UNCHANGED <<handlers, registrations, busy, owner, life, lpc, walk>>
  PROVE  Out(p)'
BY DEF Out, Lingers

LEMMA GoneUnchanged ==
  ASSUME GoneInv, UNCHANGED <<handlers, registrations, owner, life, lpc, walk>>,
         UNCHANGED <<inside, busy, gone, loading, plugins>>
  PROVE  GoneInv'
BY OutUnchanged DEF GoneInv

\* A task of somebody who is not gone.
LEMMA GoneCreate ==
  ASSUME GoneInv, NEW t \in Tasks, NEW o \in (Owners \cup {Core}) \ gone, Create(t, o),
         UNCHANGED <<chatVars, loaderVars, serviceVars>>
  PROVE  GoneInv'
<1>1. /\ life' = [life EXCEPT ![t] = "running"] /\ owner' = [owner EXCEPT ![t] = o]
      /\ UNCHANGED <<handlers, registrations, busy, lpc, walk, inside, gone, loading, plugins>>
  BY DEF Create, chatVars, loaderVars, serviceVars
<1>2. ASSUME NEW p \in gone PROVE Out(p)'
  <2>1. Out(p)
    BY DEF GoneInv
  <2>2. ~\E u \in Tasks : owner'[u] = p /\ life'[u] = "running"
    BY <1>1, <2>1 DEF GoneInv, Out, Lingers
  <2> QED
    BY <1>1, <2>1, <2>2 DEF Out, Lingers
<1> QED
  BY <1>1, <1>2 DEF GoneInv

LEMMA GonePluginStep ==
  ASSUME ServicesInv, NEW q \in ChatPlugins, PluginStep(q)
  PROVE  GoneInv'
<1>1. CASE RegistersCommand(q)
  <2>1. q \notin gone
    BY <1>1, GoneDoNotAct DEF RegistersCommand, ServicesInv
  <2>2. \A r \in registrations' : r \in registrations \/ r.plugin = q
    BY <1>1 DEF RegistersCommand, RegisterCommand, Registration
  <2>3. /\ UNCHANGED <<handlers, owner, life, lpc, walk, inside, busy, gone, loading, plugins>>
    BY <1>1 DEF RegistersCommand, RegisterCommand, lineVars, taskVars, serviceVars, loaderVars
  <2> QED
    BY <2>1, <2>2, <2>3 DEF ServicesInv, GoneInv, Out, Lingers
<1>2. CASE RegistersHandler(q)
  <2>1. q \notin gone
    BY <1>2, GoneDoNotAct DEF RegistersHandler, ServicesInv
  <2>2. /\ handlers' = Append(handlers, q)
        /\ walk' = [l \in Lines |-> IF l \in live THEN Append(walk[l], q) ELSE walk[l]]
        /\ UNCHANGED <<registrations, owner, life, lpc, inside, busy, gone, loading, plugins>>
    BY <1>2 DEF RegistersHandler, RegisterHandler, taskVars, serviceVars, loaderVars
  <2>3. handlers \in Seq(ChatPlugins) /\ \A l \in Lines : walk[l] \in Seq(ChatPlugins)
    BY DEF ServicesInv, LinesInv, LinesTypeOK
  <2>4. /\ Range(handlers') = Range(handlers) \cup {q}
        /\ \A l \in Lines : Range(walk'[l]) \subseteq Range(walk[l]) \cup {q}
    BY <2>2, <2>3, RangeOfAppend
  <2>5. ASSUME NEW p \in gone PROVE Out(p)'
    BY <2>1, <2>2, <2>4 DEF ServicesInv, GoneInv, Out, Lingers
  <2> QED
    BY <2>2, <2>5 DEF ServicesInv, GoneInv
<1>3. CASE CreatesTask(q)
  <2>1. q \notin gone
    BY <1>3, GoneDoNotAct DEF CreatesTask, ServicesInv
  <2> QED
    BY <1>3, <2>1, GoneCreate, OwnersAssumption DEF CreatesTask, ServicesInv
<1>4. CASE BusCalls(q) \/ BusReturns(q)
  <2>1. /\ UNCHANGED <<handlers, registrations, owner, life, lpc, walk, inside, gone,
                       loading, plugins>>
        /\ busy' \subseteq busy \cup {q} /\ (q \in gone => busy' \subseteq busy)
    BY <1>4 DEF BusCalls, BusReturns, chatVars, taskVars, loaderVars, ServicesInv, GoneInv
  <2>2. ASSUME NEW p \in gone PROVE Out(p)'
    BY <2>1 DEF ServicesInv, GoneInv, Out, Lingers
  <2> QED
    BY <2>1, <2>2 DEF ServicesInv, GoneInv
<1> QED
  BY <1>1, <1>2, <1>3, <1>4 DEF PluginStep

LEMMA GoneCleanup ==
  ASSUME ServicesInv, NEW q \in ChatPlugins, Cleanup(q)
  PROVE  GoneInv'
<1>1. /\ registrations' = {r \in registrations : r.plugin # q}
      /\ handlers' \in Without(q, handlers) /\ inside' = inside \ {q}
      /\ gone' = IF Lingers(q) THEN gone ELSE gone \cup {q}
      /\ q \in inside
      /\ UNCHANGED <<owner, life, lpc, walk, busy, loading, plugins>>
  BY DEF Cleanup, UnregisterPlugin, NewList, loaderVars, taskVars
<1>2. Range(handlers') \subseteq Range(handlers) \ {q}
  BY <1>1, WithoutIsList DEF ServicesInv, LinesInv, LinesTypeOK
<1>3. ASSUME NEW p \in gone' PROVE Out(p)'
  <2>1. Lingers(p)' = Lingers(p)
    BY <1>1 DEF Lingers
  <2>2. CASE p \in gone
    BY <1>1, <1>2, <2>1, <2>2 DEF ServicesInv, GoneInv, Out
  <2>3. CASE p = q /\ ~Lingers(q)
    BY <1>1, <1>2, <2>1, <2>3 DEF Out
  <2> QED
    BY <1>1, <2>2, <2>3
<1> QED
  BY <1>1, <1>3 DEF ServicesInv, GoneInv

LEMMA GoneChatStep ==
  ASSUME ServicesInv, NEW l \in Lines, ChatStep(l)
  PROVE  GoneInv'
<1>1. UNCHANGED <<handlers, registrations, owner, life, inside, busy, gone, loading, plugins>>
  BY DEF ChatStep, Commands, Arrives, Edits, Cancels, HandlerEnds, Forwarded, Killed, Leaves,
         tableVars, taskVars, serviceVars, loaderVars
<1>2. /\ lpc' \in [Lines -> {"none", "handling", "forwarding", "over"}]
      /\ walk' \in [Lines -> Seq(ChatPlugins)]
  BY ChatStepLines DEF ServicesInv, LinesInv, LinesTypeOK
<1>3. \A k \in Lines \ {l} : lpc'[k] = lpc[k] /\ walk'[k] = walk[k]
  BY DEF ChatStep, Commands, Arrives, Edits, Cancels, HandlerEnds, GoesOn, Over, Forwarded,
         Killed, Leaves, ServicesInv, LinesInv, LinesTypeOK
<1>4. lpc'[l] = "handling" => \/ Range(walk'[l]) \subseteq Range(handlers)
                              \/ lpc[l] = "handling" /\ Range(walk'[l]) \subseteq Range(walk[l])
  <2>1. CASE Arrives(l)
    BY <2>1 DEF Arrives, ServicesInv, LinesInv, LinesTypeOK
  <2>2. CASE HandlerEnds(l)
    <3>1. walk[l] \in Seq(ChatPlugins) /\ walk[l] # <<>> /\ lpc[l] = "handling"
      BY <2>2 DEF HandlerEnds, ServicesInv, LinesInv, LinesTypeOK, LineInv
    <3>2. lpc'[l] = "handling" => walk'[l] = Tail(walk[l])
      BY <2>2 DEF HandlerEnds, GoesOn, Over, ServicesInv, LinesInv, LinesTypeOK
    <3> QED
      BY <3>1, <3>2, RangeOfTail
  <2>3. CASE ~Arrives(l) /\ ~HandlerEnds(l)
    <3>1. lpc'[l] = "handling" => lpc[l] = "handling" /\ walk'[l] = walk[l]
      BY <2>3 DEF ChatStep, Commands, Edits, Cancels, Forwarded, Over, Killed, Leaves,
                  ServicesInv, LinesInv, LinesTypeOK
    <3> QED
      BY <3>1
  <2> QED
    BY <2>1, <2>2, <2>3
<1>5. ASSUME NEW p \in gone PROVE Out(p)'
  BY <1>1, <1>3, <1>4 DEF ServicesInv, GoneInv, Out, Lingers
<1> QED
  BY <1>1, <1>5 DEF ServicesInv, GoneInv

LEMMA GoneStep == ASSUME ServicesInv, [Next]_vars PROVE GoneInv'
<1>1. ASSUME UNCHANGED vars \/ Rests PROVE GoneInv'
  BY <1>1, GoneUnchanged DEF vars, Rests, ServicesInv
<1>2. ASSUME Loading PROVE GoneInv'
  <2>1. inside \cup gone = {}
    BY <1>2 DEF Loading, LoaderStep, Resolve, Resolved, NextLevel, Yield, Sorted, Build, Loaded,
                ServicesInv, GoneInv
  <2>2. UNCHANGED <<owner, life, inside, busy, gone>>
    BY <1>2 DEF Loading, taskVars, serviceVars
  <2> QED
    BY <2>1, <2>2 DEF ServicesInv, GoneInv
<1>3. ASSUME Starts PROVE GoneInv'
  <2>1. /\ gone = {} /\ gone' = {} /\ inside' \subseteq ChatPlugins
        /\ loading' = "loaded" /\ plugins' = <<>>
        /\ UNCHANGED <<owner, life, busy>>
    BY <1>3 DEF Starts, ServicesInv, GoneInv, taskVars
  <2> QED
    BY <2>1 DEF ServicesInv, GoneInv
<1>4. ASSUME CreatesCoreTask PROVE GoneInv'
  BY <1>4, GoneCreate, OwnersAssumption DEF CreatesCoreTask, ServicesInv, GoneInv
<1>5. ASSUME NEW t \in Tasks, TaskStep(t) PROVE GoneInv'
  <2>1. UNCHANGED <<handlers, registrations, busy, lpc, walk, inside, gone, loading, plugins, owner>>
    BY <1>5 DEF TaskStep, Ends, OnDone, Reports, chatVars, loaderVars, serviceVars
  <2>2. /\ life' \in [Tasks -> {"none", "running"} \cup Ended]
        /\ \A u \in Tasks : life'[u] = "running" => life[u] = "running"
    BY <1>5 DEF TaskStep, Ends, OnDone, Reports, ServicesInv, GoneInv, Ended
  <2>3. ASSUME NEW p \in gone PROVE Out(p)'
    BY <2>1, <2>2 DEF ServicesInv, GoneInv, Out, Lingers
  <2> QED
    BY <2>1, <2>2, <2>3 DEF ServicesInv, GoneInv
<1>6. ASSUME NEW c \in Cancellers, Cancelling(c) \/ Returning(c) PROVE GoneInv'
  BY <1>6, GoneUnchanged DEF Cancelling, Returning, CancelRecords, CancelReturns, chatVars,
                             loaderVars, serviceVars, ServicesInv
<1> QED
  BY <1>1, <1>2, <1>3, <1>4, <1>5, <1>6, GonePluginStep, GoneCleanup, GoneChatStep DEF Next

(* A plugin that is cleaned up when no code of it runs any more never has a  *)
(* command, a route handler or a task again, and no line of chat will call   *)
(* it, whatever the other plugins do (plugin/base.py,                        *)
(* Plugin.cleanup_registered_side_effects).                                  *)
THEOREM NothingComesBack == Spec => []GoneStaysGone
<1>1. Init => ServicesInv
  <2>1. Init => GoneInv
    BY DEF Init, TasksInit, GoneInv, Ended
  <2> QED
    BY <2>1 DEF Init, ChatInit, ServicesInv, LinesInv, LinesTypeOK, LineInv, Texts, CommandsExact
<1>2. ServicesInv /\ [Next]_vars => ServicesInv'
  BY GoneStep, LinesStep, TableStep DEF ServicesInv
<1>3. ServicesInv => GoneStaysGone
  BY DEF ServicesInv, GoneInv, Out, CommandsExact, GoneStaysGone
<1> QED
  BY <1>1, <1>2, <1>3, PTL DEF Spec

=============================================================================
