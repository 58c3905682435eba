----------------------- MODULE PluginLifecycleProofs ------------------------
(***************************************************************************)
(* Proofs about PluginLifecycle, for any plugins, requirements, runs of    *)
(* the fault handler and reloads that overlap: why plugins are disabled.   *)
(***************************************************************************)
EXTENDS PluginLifecycle, FiniteSetTheorems, TLAPS

Reasons == Plugins \cup {None, "faults", "reload"}
Items == [do : {"disable", "dependents", "loop", "degrade", "initialize", "setup"},
          plugin : Plugins \cup {None}, why : Reasons, rest : Seq(Plugins)]

LifeTypeOK ==
  /\ status \in [Plugins -> Statuses]
  /\ registry \in Seq(Plugins)
  /\ count \in [Plugins -> Nat]
  /\ reason \in [Plugins -> Reasons]
  /\ list \in Seq(Plugins)
  /\ mpc \in {"in_setup", "in_rollback", "in_unload"} => list # <<>>
  /\ pc \in [Others -> Working \cup {"idle", "on"} \cup Outcomes]
  /\ agenda \in [Others -> Seq(Items)]

\* q has been disabled, or will be before the i-th item of the agenda.
Announced(f, i, q) ==
  \/ reason[q] # None
  \/ \E j \in 1..(i - 1) : agenda[f][j].do = "disable" /\ agenda[f][j].plugin = q

\* An item names a plugin, and a plugin is disabled for a reason.
ItemOK(f, i) ==
  LET item == agenda[f][i]
  IN  /\ item.do \in {"disable", "dependents", "loop", "setup"} => item.plugin \in Plugins
      /\ item.do = "disable" =>
           /\ item.why # None
           /\ item.why = "faults" => count[item.plugin] >= MaxFailures
           /\ item.why \in Plugins => item.why \in Requires[item.plugin]
                                      /\ Announced(f, i, item.why)
      /\ item.do \in {"dependents", "loop"} => Announced(f, i, item.plugin)

\* What the agenda says of a suspended coroutine.
PlaceOK(f) ==
  /\ pc[f] \in Working => agenda[f] # <<>>
  /\ pc[f] \in {"cancelling", "cleared", "tearing"} =>
       Head(agenda[f]).do = "disable" /\ reason[Target(f)] # None
  /\ pc[f] = "setting_up" => Head(agenda[f]).do = "setup"
  /\ pc[f] = "initializing" => Head(agenda[f]).do = "initialize"

AgendasOK == \A f \in Others : PlaceOK(f) /\ \A i \in 1..Len(agenda[f]) : ItemOK(f, i)

LifeInv == LifeTypeOK /\ AgendasOK /\ OnlyFaultyDisabled

-----------------------------------------------------------------------------
(* Lists and items.                                                          *)

LEMMA AtHead == ASSUME NEW S, NEW s \in Seq(S), s # <<>>
                PROVE  /\ Head(s) \in S /\ Head(s) = s[1] /\ Tail(s) \in Seq(S)
                       /\ Len(s) \in Nat \ {0} /\ Len(Tail(s)) = Len(s) - 1
                       /\ \A i \in 1..Len(Tail(s)) : Tail(s)[i] = s[i + 1]
OBVIOUS

LEMMA ReverseIsList == ASSUME NEW S, NEW s \in Seq(S) PROVE Reverse(s) \in Seq(S)
<1>1. Len(s) \in Nat /\ \A i \in 1..Len(s) : s[(Len(s) - i) + 1] \in S
  OBVIOUS
<1>2. Reverse(s) \in [1..Len(s) -> S]
  BY <1>1 DEF Reverse
<1> QED
  BY <1>1, <1>2

LEMMA RegistryIsList ==
  ASSUME registry \in Seq(Plugins), NEW p \in Plugins
  PROVE  Registering(p) \in Seq(Plugins) /\ Removing(p) \in Seq(Plugins)
<1>1. Registering(p) \in Seq(Plugins)
  BY DEF Registering
<1>2. ASSUME NEW i \in 1..Len(registry) PROVE RemoveAt(registry, i) \in Seq(Plugins)
  <2>1. /\ SubSeq(registry, 1, i - 1) \in Seq(Plugins)
        /\ SubSeq(registry, i + 1, Len(registry)) \in Seq(Plugins)
    OBVIOUS
  <2> QED
    BY <2>1 DEF RemoveAt
<1>3. CASE p \in Registered
  <2>1. \E i \in DOMAIN registry : registry[i] = p
    BY <1>3 DEF Registered, Range
  <2>2. (CHOOSE i \in DOMAIN registry : registry[i] = p) \in 1..Len(registry)
    BY <2>1
  <2> QED
    BY <1>1, <1>2, <1>3, <2>2 DEF Removing
<1>4. CASE p \notin Registered
  BY <1>1, <1>4 DEF Removing
<1> QED
  BY <1>3, <1>4

LEMMA InOrderIsList ==
  ASSUME NEW S \in SUBSET Plugins, NEW names, NEW s \in InOrder(S, names)
  PROVE  s \in Seq(Plugins)
<1>1. Cardinality(S) \in Nat
  BY PluginsAssumption, FS_Subset, FS_CardinalityType
<1>2. s \in [1..Cardinality(S) -> S]
  BY DEF InOrder
<1> QED
  BY <1>1, <1>2

\* What a reload has to do is to disable for the reload, and to set up.
LEMMA ReloadAgendaItems ==
  ASSUME NEW gone \in Seq(Plugins), NEW new \in Seq(Plugins)
  PROVE  LET items == ReloadAgenda(gone, new)
         IN  /\ items \in Seq(Items)
             /\ \A i \in 1..Len(items) :
                  /\ items[i].do \in {"disable", "initialize", "setup"}
                  /\ items[i].do # "initialize" => items[i].plugin \in Plugins
                  /\ items[i].do = "disable" => items[i].why = "reload"
<1> DEFINE Simple == {item \in Items :
                        /\ item.do \in {"disable", "initialize", "setup"}
                        /\ item.do # "initialize" => item.plugin \in Plugins
                        /\ item.do = "disable" => item.why = "reload"}
<1>1. \A p \in Plugins : Disable(p, "reload") \in Simple /\ Setup(p) \in Simple
  BY DEF Disable, Setup, Items, Reasons
<1>2. Initialize \in Simple
  BY DEF Initialize, Items, Reasons
<1> HIDE DEF Simple
<1>3. [i \in DOMAIN gone |-> Disable(gone[i], "reload")] \in Seq(Simple)
  <2>1. \A i \in 1..Len(gone) : gone[i] \in Plugins
    OBVIOUS
  <2>2. Len(gone) \in Nat /\ DOMAIN gone = 1..Len(gone)
    OBVIOUS
  <2>3. [i \in DOMAIN gone |-> Disable(gone[i], "reload")] \in [1..Len(gone) -> Simple]
    BY <1>1, <2>1, <2>2
  <2> QED
    BY <2>2, <2>3
<1>4. [i \in DOMAIN new |-> Setup(new[i])] \in Seq(Simple)
  <2>1. \A i \in 1..Len(new) : new[i] \in Plugins
    OBVIOUS
  <2>2. Len(new) \in Nat /\ DOMAIN new = 1..Len(new)
    OBVIOUS
  <2>3. [i \in DOMAIN new |-> Setup(new[i])] \in [1..Len(new) -> Simple]
    BY <1>1, <2>1, <2>2
  <2> QED
    BY <2>2, <2>3
<1>5. (IF new = <<>> THEN <<>> ELSE <<Initialize>>) \in Seq(Simple)
  BY <1>2
<1>6. ReloadAgenda(gone, new) \in Seq(Simple)
  BY <1>3, <1>4, <1>5 DEF ReloadAgenda
<1>7. Simple \subseteq Items /\ \A item \in Simple :
        /\ item.do \in {"disable", "initialize", "setup"}
        /\ item.do # "initialize" => item.plugin \in Plugins
        /\ item.do = "disable" => item.why = "reload"
  BY DEF Simple
<1> QED
  BY <1>6, <1>7

-----------------------------------------------------------------------------
(* Agendas.                                                                  *)

\* An agenda that is not touched stays in order when reasons and faults are added.
LEMMA ItemKept ==
  ASSUME LifeTypeOK, NEW f \in Others, NEW i \in 1..Len(agenda[f]), ItemOK(f, i),
         agenda'[f] = agenda[f],
         \A p \in Plugins : reason[p] # None => reason'[p] # None,
         \A p \in Plugins : count'[p] \in Nat /\ count'[p] >= count[p]
  PROVE  ItemOK(f, i)'
<1>1. agenda[f][i] \in Items /\ MaxFailures \in Nat
  BY FaultsAssumption DEF LifeTypeOK
<1>2. \A q \in Plugins : Announced(f, i, q) => Announced(f, i, q)'
  BY DEF Announced
<1>3. \A p \in Plugins : count[p] >= MaxFailures => count'[p] >= MaxFailures
  BY <1>1 DEF LifeTypeOK
<1> QED
  BY <1>1, <1>2, <1>3 DEF ItemOK, Items

\* The first item is done with: what it announced has happened.
LEMMA ItemMovesUp ==
  ASSUME LifeTypeOK, NEW f \in Others, agenda[f] # <<>>,
         Head(agenda[f]).do = "disable" => reason[Target(f)] # None,
         NEW i \in 1..Len(agenda[f]), i > 1, ItemOK(f, i),
         NEW k \in Nat \ {0}, k <= Len(agenda'[f]), agenda'[f][k] = agenda[f][i],
         \A j \in 2..(i - 1) : \E m \in 1..(k - 1) : agenda'[f][m] = agenda[f][j],
         UNCHANGED <<reason, count>>
  PROVE  ItemOK(f, k)'
<1>1. agenda[f][i] \in Items /\ Head(agenda[f]) = agenda[f][1] /\ i \in Nat
  BY AtHead DEF LifeTypeOK
<1>2. ASSUME NEW q, Announced(f, i, q) PROVE Announced(f, k, q)'
  <2>1. CASE reason[q] # None
    BY <2>1 DEF Announced
  <2>2. CASE reason[q] = None
    <3>1. PICK j \in 1..(i - 1) : agenda[f][j].do = "disable" /\ agenda[f][j].plugin = q
      BY <1>2, <2>2 DEF Announced
    <3>2. j # 1
      BY <1>1, <2>2, <3>1 DEF Target
    <3>3. PICK m \in 1..(k - 1) : agenda'[f][m] = agenda[f][j]
      BY <1>1, <3>1, <3>2
    <3> QED
      BY <3>1, <3>3 DEF Announced
  <2> QED
    BY <2>1, <2>2
<1> QED
  BY <1>1, <1>2 DEF ItemOK

LEMMA Pops ==
  ASSUME LifeInv, NEW f \in Others, agenda[f] # <<>>, PopItem(f),
         Head(agenda[f]).do = "disable" => reason[Target(f)] # None,
         UNCHANGED <<reason, count>>
  PROVE  /\ agenda' \in [Others -> Seq(Items)]
         /\ \A g \in Others : \A i \in 1..Len(agenda'[g]) : ItemOK(g, i)'
<1>1. /\ agenda[f] \in Seq(Items) /\ agenda'[f] = Tail(agenda[f])
      /\ \A g \in Others \ {f} : agenda'[g] = agenda[g]
  BY DEF LifeInv, LifeTypeOK, PopItem
<1>2. agenda' \in [Others -> Seq(Items)]
  BY <1>1, AtHead DEF LifeInv, LifeTypeOK, PopItem
<1>3. ASSUME NEW i \in 1..Len(agenda'[f]) PROVE ItemOK(f, i)'
  <2>1. /\ i + 1 \in 1..Len(agenda[f]) /\ i + 1 > 1 /\ i \in Nat \ {0}
        /\ i <= Len(agenda'[f]) /\ agenda'[f][i] = agenda[f][i + 1]
    BY <1>1, AtHead
  <2>2. ASSUME NEW j \in 2..((i + 1) - 1)
        PROVE \E m \in 1..(i - 1) : agenda'[f][m] = agenda[f][j]
    <3>1. j - 1 \in 1..(i - 1) /\ j - 1 \in 1..Len(Tail(agenda[f])) /\ (j - 1) + 1 = j
      BY <1>1, <2>1
    <3>2. agenda'[f][j - 1] = agenda[f][(j - 1) + 1]
      BY <1>1, <3>1, AtHead
    <3> QED
      BY <3>1, <3>2
  <2>3. ItemOK(f, i + 1)
    BY <2>1 DEF LifeInv, AgendasOK
  <2> QED
    BY <2>1, <2>2, <2>3, ItemMovesUp DEF LifeInv
<1>4. ASSUME NEW g \in Others \ {f}, NEW i \in 1..Len(agenda'[g]) PROVE ItemOK(g, i)'
  <2>1. \A p \in Plugins : count'[p] \in Nat /\ count'[p] >= count[p]
    BY DEF LifeInv, LifeTypeOK
  <2> QED
    BY <1>1, <2>1, ItemKept DEF LifeInv, AgendasOK
<1> QED
  BY <1>2, <1>3, <1>4

\* A step that leaves the agendas and the reasons alone.
LEMMA QuietStep ==
  ASSUME LifeInv, UNCHANGED <<agenda, reason>>,
         count' \in [Plugins -> Nat], \A p \in Plugins : count'[p] >= count[p],
         status' \in [Plugins -> Statuses],
         \A p \in Plugins : status'[p] = "disabled" => reason[p] # None,
         registry' \in Seq(Plugins), list' \in Seq(Plugins),
         mpc' \in {"in_setup", "in_rollback", "in_unload"} => list' # <<>>,
         pc' \in [Others -> Working \cup {"idle", "on"} \cup Outcomes],
         \A f \in Others : PlaceOK(f)'
  PROVE  LifeInv'
<1>1. LifeTypeOK'
  BY DEF LifeInv, LifeTypeOK
<1>2. AgendasOK'
  BY ItemKept DEF LifeInv, AgendasOK
<1>3. MaxFailures \in Nat /\ OnlyFaultyDisabled'
  BY FaultsAssumption DEF LifeInv, LifeTypeOK, OnlyFaultyDisabled
<1> QED
  BY <1>1, <1>2, <1>3 DEF LifeInv

-----------------------------------------------------------------------------
(* The steps.                                                                *)

LEMMA MainKeeps == ASSUME LifeInv, MainStep PROVE LifeInv'
<1>1. UNCHANGED <<agenda, reason, count, pc>>
  BY DEF MainStep, SetupBegins, SetupReturns, SetupDone, SetupFails, RollbackNext,
         MainTeardownReturns, StopBegins, CancelAll, CancelAllReturns, UnloadNext, Close,
         runVars, pluginVars
<1>2. status' \in [Plugins -> Statuses]
  BY DEF MainStep, SetupBegins, SetupReturns, SetupDone, SetupFails, RollbackNext,
         TeardownBegins, MainTeardownReturns, TeardownEnds, StopBegins, CancelAll,
         CancelAllReturns, UnloadNext, Close, pluginVars, Statuses, LifeInv, LifeTypeOK
<1>3. \A p \in Plugins : status'[p] = "disabled" => status[p] = "disabled"
  BY DEF MainStep, SetupBegins, SetupReturns, SetupDone, SetupFails, RollbackNext,
         TeardownBegins, MainTeardownReturns, TeardownEnds, StopBegins, CancelAll,
         CancelAllReturns, UnloadNext, Close, pluginVars, LifeInv, LifeTypeOK
<1>4. list # <<>> => Head(list) \in Plugins /\ Tail(list) \in Seq(Plugins)
  BY AtHead DEF LifeInv, LifeTypeOK
<1>5. registry' \in Seq(Plugins)
  <2>1. CASE SetupReturns
    BY <1>4, <2>1, RegistryIsList DEF SetupReturns, LifeInv, LifeTypeOK
  <2>2. CASE ~SetupReturns
    BY <2>2 DEF MainStep, SetupBegins, SetupDone, SetupFails, RollbackNext, TeardownBegins,
                MainTeardownReturns, TeardownEnds, StopBegins, CancelAll, CancelAllReturns,
                UnloadNext, Close, pluginVars, LifeInv, LifeTypeOK
  <2> QED
    BY <2>1, <2>2
<1>6. /\ list' \in Seq(Plugins)
      /\ mpc' \in {"in_setup", "in_rollback", "in_unload"} => list' # <<>>
  <2>1. CASE SetupFails
    BY <2>1, ReverseIsList, PluginsAssumption DEF SetupFails
  <2>2. CASE CancelAllReturns
    BY <2>2, ReverseIsList DEF CancelAllReturns, UnloadOrder, LifeInv, LifeTypeOK
  <2>3. CASE SetupReturns \/ MainTeardownReturns \/ StopBegins
    <3>1. CASE SetupReturns
      BY <1>4, <3>1 DEF SetupReturns, LifeInv, LifeTypeOK
    <3>2. CASE MainTeardownReturns
      <4>1. list' = Tail(list) /\ list # <<>> /\ mpc' \in {"rollback", "unload"}
        BY <3>2 DEF MainTeardownReturns, LifeInv, LifeTypeOK
      <4> QED
        BY <1>4, <4>1
    <3>3. CASE StopBegins
      BY <3>3 DEF StopBegins
    <3> QED
      BY <2>3, <3>1, <3>2, <3>3
  <2>4. CASE SetupBegins \/ SetupDone \/ CancelAll \/ Close
    BY <2>4 DEF SetupBegins, SetupDone, CancelAll, Close, LifeInv, LifeTypeOK
  <2>5. CASE RollbackNext \/ UnloadNext
    BY <1>4, <2>5 DEF RollbackNext, UnloadNext, LifeInv, LifeTypeOK
  <2> QED
    BY <2>1, <2>2, <2>3, <2>4, <2>5 DEF MainStep
<1>7. \A f \in Others : PlaceOK(f)'
  BY <1>1 DEF LifeInv, AgendasOK, PlaceOK, Target
<1> QED
  BY <1>1, <1>2, <1>3, <1>5, <1>6, <1>7, QuietStep DEF LifeInv, LifeTypeOK, OnlyFaultyDisabled

\* A step that leaves all of what the invariant is about alone.
LEMMA Stays ==
  ASSUME LifeInv, UNCHANGED <<status, registry, count, reason, mainVars, pc, agenda>>
  PROVE  LifeInv'
<1>1. \A f \in Others : PlaceOK(f)'
  BY DEF LifeInv, AgendasOK, PlaceOK, Target, mainVars
<1> QED
  BY <1>1, QuietStep DEF LifeInv, LifeTypeOK, OnlyFaultyDisabled, mainVars

LEMMA FaultKeeps ==
  ASSUME LifeInv, NEW f \in Runs, NEW p \in Plugins, FaultArises(f, p)
  PROVE  LifeInv'
<1>1. /\ count' = [count EXCEPT ![p] = @ + 1] /\ f \in Others
      /\ UNCHANGED <<status, registry, reason, mainVars>>
  BY DEF FaultArises, Others
<1>2. /\ count' \in [Plugins -> Nat] /\ count'[p] = count[p] + 1
      /\ \A q \in Plugins : count'[q] \in Nat /\ count'[q] >= count[q]
  BY <1>1 DEF LifeInv, LifeTypeOK
<1>3. CASE count[p] + 1 < MaxFailures
  <2>1. UNCHANGED <<pc, agenda>>
    BY <1>3 DEF FaultArises
  <2>2. \A g \in Others : PlaceOK(g)'
    BY <1>1, <2>1 DEF LifeInv, AgendasOK, PlaceOK, Target
  <2> QED
    BY <1>1, <1>2, <2>1, <2>2, QuietStep DEF LifeInv, LifeTypeOK, OnlyFaultyDisabled, mainVars
<1>4. CASE ~(count[p] + 1 < MaxFailures)
  <2> DEFINE items == <<Disable(p, "faults"), Dependents(p), Degrade>>
  <2>1. /\ pc' = [pc EXCEPT ![f] = "on"] /\ agenda' = [agenda EXCEPT ![f] = items]
    BY <1>4 DEF FaultArises
  <2>2. items \in Seq(Items)
    BY DEF Disable, Dependents, Degrade, Items, Reasons
  <2>3. LifeTypeOK'
    BY <1>1, <1>2, <2>1, <2>2 DEF LifeInv, LifeTypeOK, mainVars, Working
  <2>4. agenda'[f] = items /\ \A g \in Others \ {f} : agenda'[g] = agenda[g] /\ pc'[g] = pc[g]
    BY <1>1, <2>1 DEF LifeInv, LifeTypeOK
  <2>5. \A g \in Others : PlaceOK(g)'
    BY <1>1, <2>1, <2>4 DEF LifeInv, LifeTypeOK, AgendasOK, PlaceOK, Target, Working
  <2>6. MaxFailures \in Nat /\ count'[p] >= MaxFailures
    BY <1>2, <1>4, FaultsAssumption DEF LifeInv, LifeTypeOK
  <2>7. ASSUME NEW i \in 1..Len(agenda'[f]) PROVE ItemOK(f, i)'
    <3>1. i \in {1, 2, 3}
      BY <2>4
    <3>2. /\ items[1] = Disable(p, "faults") /\ items[2] = Dependents(p) /\ items[3] = Degrade
          /\ 1 \in 1..(2 - 1)
      OBVIOUS
    <3>3. ItemOK(f, 1)'
      BY <2>4, <2>6, <3>2, PluginsAssumption DEF ItemOK, Disable
    <3>4. ItemOK(f, 2)'
      BY <2>4, <3>2 DEF ItemOK, Announced, Disable, Dependents
    <3>5. ItemOK(f, 3)'
      BY <2>4, <3>2 DEF ItemOK, Degrade
    <3> QED
      BY <3>1, <3>3, <3>4, <3>5
  <2>8. ASSUME NEW g \in Others \ {f}, NEW i \in 1..Len(agenda'[g]) PROVE ItemOK(g, i)'
    BY <1>1, <1>2, <2>4, ItemKept DEF LifeInv, AgendasOK
  <2>9. OnlyFaultyDisabled'
    BY <1>1, <1>2, <2>6 DEF LifeInv, LifeTypeOK, OnlyFaultyDisabled
  <2> QED
    BY <2>3, <2>5, <2>7, <2>8, <2>9 DEF LifeInv, AgendasOK
<1> QED
  BY <1>3, <1>4

LEMMA DisableBeginsKeeps ==
  ASSUME LifeInv, NEW f \in Others, DisableBegins(f)
  PROVE  LifeInv'
<1> DEFINE p == Target(f)
           why == Head(agenda[f]).why
<1>1. /\ agenda[f] # <<>> /\ Head(agenda[f]).do = "disable" /\ pc[f] = "on"
      /\ registry' = Removing(p) /\ reason' = [reason EXCEPT ![p] = why]
      /\ status' = [status EXCEPT ![p] = "disabled"]
      /\ pc' \in {[pc EXCEPT ![f] = "cleared"], [pc EXCEPT ![f] = "cancelling"]}
      /\ UNCHANGED <<count, mpc, list, agenda>>
  BY DEF DisableBegins, Takes, mainVars
<1>2. /\ agenda[f] \in Seq(Items) /\ Head(agenda[f]) = agenda[f][1] /\ agenda[f][1] \in Items
      /\ ItemOK(f, 1)
  BY <1>1, AtHead DEF LifeInv, LifeTypeOK, AgendasOK
<1>3. /\ p \in Plugins /\ why \in Reasons /\ why # None
      /\ why = "faults" => count[p] >= MaxFailures
      /\ why \in Plugins => why \in Requires[p] /\ reason[why] # None
  BY <1>1, <1>2 DEF ItemOK, Announced, Items, Target
<1> HIDE DEF p, why
<1>4. LifeTypeOK'
  BY <1>1, <1>3, RegistryIsList DEF LifeInv, LifeTypeOK, Statuses, Working
<1>5. reason'[p] = why /\ \A q \in Plugins \ {p} : reason'[q] = reason[q]
  BY <1>1, <1>3 DEF LifeInv, LifeTypeOK
<1>6. \A g \in Others : \A i \in 1..Len(agenda'[g]) : ItemOK(g, i)'
  <2>1. /\ \A q \in Plugins : reason[q] # None => reason'[q] # None
        /\ \A q \in Plugins : count'[q] \in Nat /\ count'[q] >= count[q]
    BY <1>1, <1>3, <1>5 DEF LifeInv, LifeTypeOK
  <2> QED
    BY <1>1, <2>1, ItemKept DEF LifeInv, AgendasOK
<1>7. \A g \in Others : PlaceOK(g)'
  <2>1. PlaceOK(f)'
    <3>1. pc'[f] \in {"cleared", "cancelling"} /\ Target(f)' = p
      BY <1>1 DEF LifeInv, LifeTypeOK, Target, p
    <3> QED
      BY <1>1, <1>3, <1>5, <3>1 DEF PlaceOK, Working
  <2>2. ASSUME NEW g \in Others \ {f} PROVE PlaceOK(g)'
    <3>1. pc'[g] = pc[g] /\ PlaceOK(g) /\ Target(g)' = Target(g)
      BY <1>1 DEF LifeInv, LifeTypeOK, AgendasOK, Target
    <3>2. reason[Target(g)] # None /\ Target(g) \in Plugins => reason'[Target(g)] # None
      BY <1>3, <1>5
    <3>3. pc[g] \in {"cancelling", "cleared", "tearing"} => Target(g) \in Plugins
      <4>1. pc[g] \in {"cancelling", "cleared", "tearing"} =>
              /\ agenda[g] # <<>> /\ Head(agenda[g]).do = "disable"
              /\ Head(agenda[g]) = agenda[g][1] /\ 1 \in 1..Len(agenda[g])
        BY <3>1, AtHead DEF PlaceOK, Working, LifeInv, LifeTypeOK
      <4> QED
        BY <4>1 DEF LifeInv, AgendasOK, ItemOK, Target
    <3> QED
      BY <1>1, <3>1, <3>2, <3>3 DEF PlaceOK
  <2> QED
    BY <2>1, <2>2
<1>8. OnlyFaultyDisabled'
  BY <1>1, <1>3, <1>5 DEF LifeInv, LifeTypeOK, OnlyFaultyDisabled
<1> QED
  BY <1>4, <1>6, <1>7, <1>8 DEF LifeInv, AgendasOK

\* An item is done with, or the coroutine of an agenda moves on within one.
LEMMA PopKeeps ==
  ASSUME LifeInv, NEW f \in Others, agenda[f] # <<>>, PopItem(f),
         Head(agenda[f]).do = "disable" => reason[Target(f)] # None,
         UNCHANGED <<reason, count, mainVars>>, registry' \in Seq(Plugins),
         status' \in [Plugins -> Statuses],
         \A p \in Plugins : status'[p] = "disabled" => reason[p] # None,
         pc' \in {[pc EXCEPT ![f] = "on"], [pc EXCEPT ![f] = "idle"], pc}, pc'[f] \in {"on", "idle"}
  PROVE  LifeInv'
<1>1. /\ agenda' \in [Others -> Seq(Items)]
      /\ \A g \in Others : \A i \in 1..Len(agenda'[g]) : ItemOK(g, i)'
  BY Pops
<1>2. LifeTypeOK'
  BY <1>1 DEF LifeInv, LifeTypeOK, mainVars
<1>3. \A g \in Others : PlaceOK(g)'
  <2>1. PlaceOK(f)'
    BY DEF PlaceOK, Working
  <2>2. ASSUME NEW g \in Others \ {f} PROVE PlaceOK(g)'
    <3>1. pc'[g] = pc[g] /\ agenda'[g] = agenda[g] /\ PlaceOK(g)
      BY DEF LifeInv, LifeTypeOK, AgendasOK, PopItem
    <3> QED
      BY <3>1 DEF PlaceOK, Target
  <2> QED
    BY <2>1, <2>2
<1>4. OnlyFaultyDisabled'
  BY DEF LifeInv, LifeTypeOK, OnlyFaultyDisabled
<1> QED
  BY <1>1, <1>2, <1>3, <1>4 DEF LifeInv, AgendasOK

LEMMA MovesOn ==
  ASSUME LifeInv, NEW f \in Others, UNCHANGED <<agenda, reason, count, registry, mainVars>>,
         status' \in [Plugins -> Statuses],
         \A p \in Plugins : status'[p] = "disabled" => status[p] = "disabled",
         NEW place \in Working \cup {"idle", "on"} \cup Outcomes, pc' = [pc EXCEPT ![f] = place],
         PlaceOK(f)'
  PROVE  LifeInv'
<1>1. ASSUME NEW g \in Others \ {f} PROVE PlaceOK(g)'
  <2>1. pc'[g] = pc[g] /\ PlaceOK(g)
    BY DEF LifeInv, LifeTypeOK, AgendasOK
  <2> QED
    BY <2>1 DEF PlaceOK, Target
<1>2. /\ \A g \in Others : PlaceOK(g)'
      /\ pc' \in [Others -> Working \cup {"idle", "on"} \cup Outcomes]
  BY <1>1 DEF LifeInv, LifeTypeOK
<1> QED
  BY <1>2, QuietStep DEF LifeInv, LifeTypeOK, OnlyFaultyDisabled, mainVars

\* A run that ends, or a reload that breaks off, forgets its agenda.
LEMMA GivesUp ==
  ASSUME LifeInv, NEW f \in Others, agenda' = [agenda EXCEPT ![f] = <<>>],
         NEW place \in {"idle"} \cup Outcomes, pc' = [pc EXCEPT ![f] = place],
         UNCHANGED <<reason, count, registry, mainVars>>,
         status' \in [Plugins -> Statuses],
         \A p \in Plugins : status'[p] = "disabled" => status[p] = "disabled"
  PROVE  LifeInv'
<1>1. LifeTypeOK'
  BY DEF LifeInv, LifeTypeOK, mainVars
<1>2. ASSUME NEW g \in Others PROVE PlaceOK(g)' /\ \A i \in 1..Len(agenda'[g]) : ItemOK(g, i)'
  <2>1. CASE g = f
    <3>1. agenda'[g] = <<>> /\ pc'[g] \in {"idle"} \cup Outcomes
      BY <2>1 DEF LifeInv, LifeTypeOK
    <3> QED
      BY <3>1 DEF PlaceOK, Working, Outcomes
  <2>2. CASE g # f
    <3>1. pc'[g] = pc[g] /\ agenda'[g] = agenda[g] /\ PlaceOK(g)
      BY <2>2 DEF LifeInv, LifeTypeOK, AgendasOK
    <3>2. \A p \in Plugins : count'[p] \in Nat /\ count'[p] >= count[p]
      BY DEF LifeInv, LifeTypeOK
    <3>3. \A i \in 1..Len(agenda'[g]) : ItemOK(g, i)'
      BY <3>1, <3>2, ItemKept DEF LifeInv, AgendasOK
    <3> QED
      BY <3>1, <3>3 DEF PlaceOK, Target
  <2> QED
    BY <2>1, <2>2
<1>3. OnlyFaultyDisabled'
  BY DEF LifeInv, LifeTypeOK, OnlyFaultyDisabled
<1> QED
  BY <1>1, <1>2, <1>3 DEF LifeInv, AgendasOK

\* The first item is replaced by others.
LEMMA Replaces ==
  ASSUME LifeInv, NEW f \in Others, agenda[f] # <<>>, Head(agenda[f]).do # "disable",
         pc[f] = "on", NEW items \in Seq(Items), items # <<>>,
         agenda' = [agenda EXCEPT ![f] = items \o Tail(@)],
         UNCHANGED <<status, registry, reason, count, mainVars, pc>>,
         \A i \in 1..Len(items) : agenda'[f][i] = items[i] => ItemOK(f, i)'
  PROVE  LifeInv'
<1> DEFINE n == Len(items)
           old == agenda[f]
<1>1. old \in Seq(Items) /\ old # <<>> /\ n \in Nat \ {0} /\ Len(old) \in Nat \ {0}
  BY DEF LifeInv, LifeTypeOK
<1>2. /\ agenda'[f] = items \o Tail(old) /\ \A g \in Others \ {f} : agenda'[g] = agenda[g]
      /\ UNCHANGED <<mpc, list>>
  BY DEF LifeInv, LifeTypeOK, mainVars
<1>3. /\ Tail(old) \in Seq(Items) /\ Len(Tail(old)) = Len(old) - 1
      /\ \A i \in 1..Len(Tail(old)) : Tail(old)[i] = old[i + 1]
  BY <1>1, AtHead
<1>4. \A s \in Seq(Items) : /\ items \o s \in Seq(Items) /\ Len(items \o s) = n + Len(s)
                            /\ \A i \in 1..n : (items \o s)[i] = items[i]
                            /\ \A i \in 1..Len(s) : (items \o s)[n + i] = s[i]
  OBVIOUS
<1>5. /\ agenda'[f] \in Seq(Items) /\ Len(agenda'[f]) = n + (Len(old) - 1)
      /\ \A i \in 1..n : agenda'[f][i] = items[i]
      /\ \A i \in 1..(Len(old) - 1) : agenda'[f][n + i] = old[i + 1]
  BY <1>2, <1>3, <1>4
<1> HIDE DEF n, old
<1>6. LifeTypeOK'
  BY <1>2, <1>5 DEF LifeInv, LifeTypeOK
<1>7. ASSUME NEW i \in 1..Len(agenda'[f]) PROVE ItemOK(f, i)'
  <2>1. CASE i \in 1..n
    BY <1>5, <2>1 DEF n
  <2>2. CASE i > n
    <3> DEFINE k == (i - n) + 1
    <3>1. /\ k \in 1..Len(old) /\ k > 1 /\ i \in Nat \ {0} /\ i - n \in 1..(Len(old) - 1)
          /\ n + (i - n) = i
      BY <1>1, <1>5, <2>2
    <3>2. agenda'[f][i] = old[k]
      BY <1>5, <3>1
    <3>3. ASSUME NEW j \in 2..(k - 1) PROVE \E m \in 1..(i - 1) : agenda'[f][m] = old[j]
      <4>1. /\ j - 1 \in 1..(Len(old) - 1) /\ n + (j - 1) \in 1..(i - 1) /\ (j - 1) + 1 = j
        BY <1>1, <3>1
      <4>2. agenda'[f][n + (j - 1)] = old[(j - 1) + 1]
        BY <1>5, <4>1
      <4> QED
        BY <4>1, <4>2
    <3>4. ItemOK(f, k) /\ i <= Len(agenda'[f])
      BY <1>5, <3>1 DEF LifeInv, AgendasOK, old
    <3> HIDE DEF k
    <3> QED
      BY <3>1, <3>2, <3>3, <3>4, ItemMovesUp DEF LifeInv, old
  <2> QED
    BY <1>1, <1>5, <2>1, <2>2
<1>8. ASSUME NEW g \in Others \ {f}, NEW i \in 1..Len(agenda'[g]) PROVE ItemOK(g, i)'
  <2>1. \A p \in Plugins : count'[p] \in Nat /\ count'[p] >= count[p]
    BY DEF LifeInv, LifeTypeOK
  <2> QED
    BY <1>2, <2>1, ItemKept DEF LifeInv, AgendasOK
<1>9. \A g \in Others : PlaceOK(g)'
  BY <1>2 DEF LifeInv, AgendasOK, PlaceOK, Target, Working
<1>10. OnlyFaultyDisabled'
  BY DEF LifeInv, OnlyFaultyDisabled
<1> QED
  BY <1>6, <1>7, <1>8, <1>9, <1>10 DEF LifeInv, AgendasOK

\* The dependency of the first item, a call of _disable_dependent_plugins or
\* what is left of its loop, has been disabled.
LEMMA FirstDependency ==
  ASSUME LifeInv, NEW f \in Others, agenda[f] # <<>>,
         Head(agenda[f]).do \in {"dependents", "loop"}
  PROVE  /\ Target(f) \in Plugins /\ reason[Target(f)] # None
         /\ Head(agenda[f]).rest \in Seq(Plugins)
<1>1. /\ agenda[f] \in Seq(Items) /\ Head(agenda[f]) = agenda[f][1] /\ agenda[f][1] \in Items
      /\ ItemOK(f, 1)
  BY AtHead DEF LifeInv, LifeTypeOK, AgendasOK
<1> QED
  BY <1>1 DEF ItemOK, Announced, Target, Items

LEMMA DependentsBeginKeeps ==
  ASSUME LifeInv, NEW f \in Others, DependentsBegin(f)
  PROVE  LifeInv'
<1> DEFINE loop == Loop(Target(f), registry)
<1>1. /\ agenda[f] # <<>> /\ Head(agenda[f]).do = "dependents" /\ pc[f] = "on"
      /\ agenda' = [agenda EXCEPT ![f] = <<loop>> \o Tail(@)]
      /\ UNCHANGED <<status, registry, reason, count, mainVars, pc>>
  BY DEF DependentsBegin, Takes, pluginVars
<1>2. Target(f) \in Plugins /\ reason[Target(f)] # None
  BY <1>1, FirstDependency
<1>3. loop \in Items /\ loop.do = "loop" /\ loop.plugin = Target(f)
  BY <1>2 DEF Loop, Items, Reasons, LifeInv, LifeTypeOK
<1> HIDE DEF loop
<1>4. <<loop>> \in Seq(Items) /\ <<loop>> # <<>> /\ Len(<<loop>>) = 1 /\ <<loop>>[1] = loop
  BY <1>3
<1>5. agenda'[f][1] = loop => ItemOK(f, 1)'
  BY <1>1, <1>2, <1>3 DEF ItemOK, Announced
<1>6. \A i \in 1..Len(<<loop>>) : agenda'[f][i] = <<loop>>[i] => ItemOK(f, i)'
  BY <1>4, <1>5
<1> QED
  BY <1>1, <1>4, <1>6, Replaces

LEMMA LoopNextKeeps ==
  ASSUME LifeInv, NEW f \in Others, LoopNext(f)
  PROVE  LifeInv'
<1> DEFINE p == Target(f)
           rest == Head(agenda[f]).rest
           next == Head(rest)
           onwards == Loop(p, Tail(rest))
<1>1. /\ agenda[f] # <<>> /\ Head(agenda[f]).do = "loop" /\ pc[f] = "on"
      /\ UNCHANGED <<status, registry, reason, count, mainVars, pc>>
  BY DEF LoopNext, Takes, pluginVars
<1>2. p \in Plugins /\ reason[p] # None /\ rest \in Seq(Plugins)
  BY <1>1, FirstDependency
<1>3. CASE rest = <<>>
  <2>1. PopItem(f)
    BY <1>3 DEF LoopNext, PopItem
  <2>2. /\ registry' \in Seq(Plugins) /\ status' \in [Plugins -> Statuses]
        /\ \A q \in Plugins : status'[q] = "disabled" => reason[q] # None
    BY <1>1 DEF LifeInv, LifeTypeOK, OnlyFaultyDisabled
  <2> QED
    BY <1>1, <2>1, <2>2, PopKeeps
<1>4. CASE rest # <<>>
  <2>1. next \in Plugins /\ onwards \in Items /\ onwards.do = "loop" /\ onwards.plugin = p
    BY <1>2, <1>4, AtHead DEF Loop, Items, Reasons
  <2>2. CASE Depends(next, p)
    <3> DEFINE items == <<Disable(next, p), Dependents(next), onwards>>
    <3>1. agenda' = [agenda EXCEPT ![f] = items \o Tail(@)]
      BY <1>4, <2>2 DEF LoopNext
    <3>2. Disable(next, p) \in Items /\ Dependents(next) \in Items
      BY <1>2, <2>1 DEF Disable, Dependents, Items, Reasons
    <3> HIDE DEF onwards
    <3>3. /\ items \in Seq(Items) /\ items # <<>> /\ Len(items) = 3
          /\ items[1] = Disable(next, p) /\ items[2] = Dependents(next) /\ items[3] = onwards
      BY <2>1, <3>2
    <3>4. agenda'[f][1] = items[1] => ItemOK(f, 1)'
      BY <1>1, <1>2, <2>1, <2>2, <3>3, PluginsAssumption DEF ItemOK, Announced, Disable, Depends
    <3>5. agenda'[f][2] = items[2] => ItemOK(f, 2)'
      <4>1. agenda'[f] = items \o Tail(agenda[f])
        BY <3>1 DEF LifeInv, LifeTypeOK
      <4>2. agenda'[f][1] = items[1]
        <5>1. Tail(agenda[f]) \in Seq(Items)
          BY <1>1 DEF LifeInv, LifeTypeOK
        <5> QED
          BY <3>3, <4>1, <5>1
      <4> QED
        BY <2>1, <3>3, <4>2 DEF ItemOK, Announced, Disable, Dependents
    <3>6. agenda'[f][3] = items[3] => ItemOK(f, 3)'
      BY <1>1, <1>2, <2>1, <3>3 DEF ItemOK, Announced
    <3> HIDE DEF items
    <3>7. \A i \in 1..Len(items) : agenda'[f][i] = items[i] => ItemOK(f, i)'
      BY <3>3, <3>4, <3>5, <3>6
    <3> QED
      BY <1>1, <3>1, <3>3, <3>7, Replaces
  <2>3. CASE ~Depends(next, p)
    <3>1. agenda' = [agenda EXCEPT ![f] = <<onwards>> \o Tail(@)]
      BY <1>4, <2>3 DEF LoopNext
    <3> HIDE DEF onwards
    <3>2. /\ <<onwards>> \in Seq(Items) /\ <<onwards>> # <<>>
          /\ Len(<<onwards>>) = 1 /\ <<onwards>>[1] = onwards
      BY <2>1
    <3>3. agenda'[f][1] = onwards => ItemOK(f, 1)'
      BY <1>1, <1>2, <2>1 DEF ItemOK, Announced
    <3>4. \A i \in 1..Len(<<onwards>>) : agenda'[f][i] = <<onwards>>[i] => ItemOK(f, i)'
      BY <3>2, <3>3
    <3> QED
      BY <1>1, <3>1, <3>2, <3>4, Replaces
  <2> QED
    BY <2>2, <2>3
<1> QED
  BY <1>3, <1>4

LEMMA ReloadBeginsKeeps ==
  ASSUME LifeInv, NEW r \in Reloaders, ReloadBegins(r)
  PROVE  LifeInv'
<1>1. PICK cfg \in Configs : \E gone \in InOrder(Gone(cfg), Names), new \in InOrder(New(cfg), Order) :
        agenda' = [agenda EXCEPT ![r] = ReloadAgenda(gone, new)]
  BY DEF ReloadBegins
<1>2. Gone(cfg) \in SUBSET Plugins /\ New(cfg) \in SUBSET Plugins
  <2>1. Registered \subseteq Plugins /\ Range(Order) \subseteq Plugins
    BY PluginsAssumption DEF Registered, Range, LifeInv, LifeTypeOK
  <2> QED
    BY <2>1, ConfigsAssumption DEF Gone, New
<1>3. PICK gone \in Seq(Plugins), new \in Seq(Plugins) :
        agenda' = [agenda EXCEPT ![r] = ReloadAgenda(gone, new)]
  BY <1>1, <1>2, InOrderIsList
<1> DEFINE items == ReloadAgenda(gone, new)
<1>4. /\ items \in Seq(Items)
      /\ \A i \in 1..Len(items) : /\ items[i].do \in {"disable", "initialize", "setup"}
                                  /\ items[i].do # "initialize" => items[i].plugin \in Plugins
                                  /\ items[i].do = "disable" => items[i].why = "reload"
  BY ReloadAgendaItems
<1> HIDE DEF items
<1>5. /\ pc' = [pc EXCEPT ![r] = "on"] /\ r \in Others
      /\ UNCHANGED <<status, registry, reason, count, mpc, list>>
  BY DEF ReloadBegins, pluginVars, mainVars, Others
<1>6. /\ agenda'[r] = items /\ pc'[r] = "on"
      /\ \A g \in Others \ {r} : agenda'[g] = agenda[g] /\ pc'[g] = pc[g]
  BY <1>3, <1>5 DEF LifeInv, LifeTypeOK, items
<1>7. LifeTypeOK'
  BY <1>3, <1>4, <1>5 DEF LifeInv, LifeTypeOK, items
<1>8. ASSUME NEW i \in 1..Len(agenda'[r]) PROVE ItemOK(r, i)'
  BY <1>4, <1>6, PluginsAssumption DEF ItemOK
<1>9. ASSUME NEW g \in Others \ {r}, NEW i \in 1..Len(agenda'[g]) PROVE ItemOK(g, i)'
  <2>1. \A p \in Plugins : count'[p] \in Nat /\ count'[p] >= count[p]
    BY <1>5 DEF LifeInv, LifeTypeOK
  <2> QED
    BY <1>5, <1>6, <2>1, ItemKept DEF LifeInv, AgendasOK
<1>10. \A g \in Others : PlaceOK(g)'
  BY <1>5, <1>6 DEF LifeInv, AgendasOK, PlaceOK, Target, Working
<1>11. OnlyFaultyDisabled'
  BY <1>5 DEF LifeInv, OnlyFaultyDisabled
<1> QED
  BY <1>7, <1>8, <1>9, <1>10, <1>11 DEF LifeInv, AgendasOK

\* The plugin of the first item.
LEMMA HeadIsPlugin ==
  ASSUME LifeInv, NEW f \in Others, agenda[f] # <<>>,
         Head(agenda[f]).do \in {"disable", "dependents", "loop", "setup"}
  PROVE  Target(f) \in Plugins
<1>1. Head(agenda[f]) = agenda[f][1] /\ 1 \in 1..Len(agenda[f])
  BY AtHead DEF LifeInv, LifeTypeOK
<1> QED
  BY <1>1 DEF LifeInv, AgendasOK, ItemOK, Target

LEMMA DisableKeeps ==
  ASSUME LifeInv, NEW f \in Others,
         CancelReturns(f) \/ DisableTearsDown(f) \/ DisableSkips(f) \/ DisableEnds(f)
  PROVE  LifeInv'
<1>1. /\ PlaceOK(f) /\ agenda[f] # <<>> /\ Head(agenda[f]).do = "disable"
      /\ reason[Target(f)] # None
  BY DEF CancelReturns, DisableTearsDown, DisableSkips, DisableEnds, LifeInv, AgendasOK,
         PlaceOK, Working
<1>2. Target(f) \in Plugins
  BY <1>1, HeadIsPlugin
<1>3. CASE CancelReturns(f)
  <2>1. /\ UNCHANGED <<agenda, reason, count, registry, mainVars, status>>
        /\ pc' = [pc EXCEPT ![f] = "cleared"] /\ "cleared" \in Working
    BY <1>3 DEF CancelReturns, pluginVars, Working
  <2>2. PlaceOK(f)'
    BY <1>1, <2>1 DEF LifeInv, LifeTypeOK, PlaceOK, Target
  <2> QED
    BY <2>1, <2>2, MovesOn DEF LifeInv, LifeTypeOK
<1>4. CASE DisableTearsDown(f)
  <2>1. /\ UNCHANGED <<agenda, reason, count, registry, mainVars>>
        /\ status' = [status EXCEPT ![Target(f)] = "teardown_started"]
        /\ pc' = [pc EXCEPT ![f] = "tearing"] /\ "tearing" \in Working
    BY <1>4 DEF DisableTearsDown, TeardownBegins, Working
  <2>2. PlaceOK(f)'
    BY <1>1, <2>1 DEF LifeInv, LifeTypeOK, PlaceOK, Target
  <2>3. /\ status' \in [Plugins -> Statuses]
        /\ \A p \in Plugins : status'[p] = "disabled" => status[p] = "disabled"
    BY <1>2, <2>1 DEF LifeInv, LifeTypeOK, Statuses
  <2> QED
    BY <2>1, <2>2, <2>3, MovesOn
<1>5. CASE DisableSkips(f) \/ DisableEnds(f)
  <2>1. /\ PopItem(f) /\ pc' = [pc EXCEPT ![f] = "on"]
        /\ status' = [status EXCEPT ![Target(f)] = "disabled"]
        /\ UNCHANGED <<reason, count, mainVars, registry>>
    BY <1>5 DEF DisableSkips, DisableEnds
  <2>2. /\ status' \in [Plugins -> Statuses] /\ registry' \in Seq(Plugins) /\ pc'[f] = "on"
        /\ \A p \in Plugins : status'[p] = "disabled" => reason[p] # None
    BY <1>1, <1>2, <2>1 DEF LifeInv, LifeTypeOK, Statuses, OnlyFaultyDisabled
  <2> QED
    BY <1>1, <2>1, <2>2, PopKeeps
<1> QED
  BY <1>3, <1>4, <1>5

LEMMA ReloadKeeps ==
  ASSUME LifeInv, NEW f \in Others,
         \/ Degrades(f) \/ InitializeReturns(f) \/ InitializeBegins(f)
         \/ ReloadSetupBegins(f) \/ ReloadSetupReturns(f) \/ ReloadReturns(f)
  PROVE  LifeInv'
<1>1. PlaceOK(f) /\ pc \in [Others -> Working \cup {"idle", "on"} \cup Outcomes]
  BY DEF LifeInv, LifeTypeOK, AgendasOK
<1>2. CASE Degrades(f) \/ InitializeReturns(f)
  <2>1. /\ agenda[f] # <<>> /\ Head(agenda[f]).do \in {"degrade", "initialize"} /\ PopItem(f)
        /\ pc' \in {[pc EXCEPT ![f] = "on"], [pc EXCEPT ![f] = "idle"]}
        /\ UNCHANGED <<reason, count, mainVars, registry, status>>
    BY <1>1, <1>2 DEF Degrades, InitializeReturns, Takes, pluginVars, PlaceOK, Working
  <2>2. /\ status' \in [Plugins -> Statuses] /\ registry' \in Seq(Plugins)
        /\ \A p \in Plugins : status'[p] = "disabled" => reason[p] # None
        /\ pc'[f] \in {"on", "idle"}
    BY <1>1, <2>1 DEF LifeInv, LifeTypeOK, OnlyFaultyDisabled
  <2> QED
    BY <2>1, <2>2, PopKeeps
<1>3. CASE InitializeBegins(f) \/ ReloadReturns(f)
  <2>1. PICK place \in {"initializing", "applied"} :
          /\ pc' = [pc EXCEPT ![f] = place]
          /\ place = "initializing" => agenda[f] # <<>> /\ Head(agenda[f]).do = "initialize"
    BY <1>3 DEF InitializeBegins, ReloadReturns, Takes
  <2>2. UNCHANGED <<agenda, reason, count, registry, mainVars, status>>
    BY <1>3 DEF InitializeBegins, ReloadReturns, pluginVars
  <2>3. PlaceOK(f)'
    BY <1>1, <2>1, <2>2 DEF PlaceOK, Working
  <2> QED
    BY <2>1, <2>2, <2>3, MovesOn DEF LifeInv, LifeTypeOK, Working, Outcomes
<1>4. CASE ReloadSetupBegins(f)
  <2>1. /\ agenda[f] # <<>> /\ Head(agenda[f]).do = "setup"
        /\ UNCHANGED <<agenda, reason, count, registry, mainVars>>
        /\ status' = [status EXCEPT ![Target(f)] = "setup_started"]
        /\ pc' = [pc EXCEPT ![f] = "setting_up"] /\ "setting_up" \in Working
    BY <1>4 DEF ReloadSetupBegins, Takes, Working
  <2>2. PlaceOK(f)'
    BY <1>1, <2>1 DEF PlaceOK
  <2>3. /\ status' \in [Plugins -> Statuses]
        /\ \A p \in Plugins : status'[p] = "disabled" => status[p] = "disabled"
    BY <2>1, HeadIsPlugin DEF LifeInv, LifeTypeOK, Statuses
  <2> QED
    BY <2>1, <2>2, <2>3, MovesOn
<1>5. CASE ReloadSetupReturns(f)
  <2>1. /\ agenda[f] # <<>> /\ Head(agenda[f]).do = "setup" /\ PopItem(f)
        /\ registry' = Registering(Target(f))
        /\ status' = [status EXCEPT ![Target(f)] = "ready"]
        /\ pc' = [pc EXCEPT ![f] = "on"]
        /\ UNCHANGED <<reason, count, mainVars>>
    BY <1>1, <1>5 DEF ReloadSetupReturns, PlaceOK, Working
  <2>2. Target(f) \in Plugins
    BY <2>1, HeadIsPlugin
  <2>3. registry' \in Seq(Plugins)
    BY <2>1, <2>2, RegistryIsList DEF LifeInv, LifeTypeOK
  <2>4. /\ status' \in [Plugins -> Statuses] /\ pc'[f] = "on"
        /\ \A p \in Plugins : status'[p] = "disabled" => reason[p] # None
    BY <1>1, <2>1, <2>2 DEF LifeInv, LifeTypeOK, Statuses, OnlyFaultyDisabled
  <2> QED
    BY <2>1, <2>3, <2>4, PopKeeps
<1> QED
  BY <1>2, <1>3, <1>4, <1>5

LEMMA BreakingOffKeeps ==
  ASSUME LifeInv, NEW f \in Others,
         \/ Cancelled(f)
         \/ f \in Reloaders /\ (ReloadRaises(f) \/ ReloadRejected(f))
  PROVE  LifeInv'
<1>1. PlaceOK(f) /\ status \in [Plugins -> Statuses]
  BY DEF LifeInv, LifeTypeOK, AgendasOK
<1>2. CASE Cancelled(f)
  <2>1. /\ agenda' = [agenda EXCEPT ![f] = <<>>]
        /\ UNCHANGED <<reason, count, registry, mainVars>>
        /\ pc[f] = "tearing" => status' = [status EXCEPT ![Target(f)] = "torn_down"]
        /\ pc[f] # "tearing" => status' = status
    BY <1>2 DEF Cancelled, TeardownEnds
  <2>2. PICK place \in {"idle", "cut"} : pc' = [pc EXCEPT ![f] = place]
    BY <1>2 DEF Cancelled
  <2>3. pc[f] = "tearing" => Target(f) \in Plugins
    BY <1>1, HeadIsPlugin DEF PlaceOK, Working
  <2>4. /\ status' \in [Plugins -> Statuses]
        /\ \A p \in Plugins : status'[p] = "disabled" => status[p] = "disabled"
    BY <1>1, <2>1, <2>3 DEF Statuses
  <2> QED
    BY <2>1, <2>2, <2>4, GivesUp DEF Outcomes
<1>3. CASE ReloadRaises(f)
  <2>1. /\ agenda' = [agenda EXCEPT ![f] = <<>>] /\ pc' = [pc EXCEPT ![f] = "raised"]
        /\ UNCHANGED <<reason, count, registry, mainVars>>
        /\ status' \in {status, [status EXCEPT ![Target(f)] = "failed"]}
    BY <1>3 DEF ReloadRaises
  <2>2. /\ status' \in [Plugins -> Statuses]
        /\ \A p \in Plugins : status'[p] = "disabled" => status[p] = "disabled"
    BY <1>1, <2>1 DEF Statuses
  <2> QED
    BY <2>1, <2>2, GivesUp DEF Outcomes
<1>4. CASE ReloadRejected(f)
  <2>1. /\ pc' = [pc EXCEPT ![f] = "rejected"]
        /\ UNCHANGED <<agenda, reason, count, registry, mainVars, status>>
    BY <1>4 DEF ReloadRejected, pluginVars
  <2>2. PlaceOK(f)'
    BY <1>1, <2>1 DEF PlaceOK, Working, LifeInv, LifeTypeOK
  <2> QED
    BY <1>1, <2>1, <2>2, MovesOn DEF Outcomes
<1> QED
  BY <1>2, <1>3, <1>4

-----------------------------------------------------------------------------
LEMMA LifeInit == Init => LifeInv
<1> SUFFICES ASSUME Init PROVE LifeInv
  OBVIOUS
<1>1. LifeTypeOK
  BY PluginsAssumption DEF Init, LifeTypeOK, Statuses, Reasons
<1>2. AgendasOK
  BY DEF Init, AgendasOK, PlaceOK, Working
<1>3. OnlyFaultyDisabled
  BY PluginsAssumption DEF Init, OnlyFaultyDisabled
<1> QED
  BY <1>1, <1>2, <1>3 DEF LifeInv

LEMMA LifeNext == LifeInv /\ [Next]_vars => LifeInv'
<1> SUFFICES ASSUME LifeInv, [Next]_vars PROVE LifeInv'
  OBVIOUS
<1>1. CASE MainStep
  BY <1>1, MainKeeps
<1>2. ASSUME NEW p \in Plugins, Registers(p) \/ CreatesTask(p) \/ TasksEnd(p) PROVE LifeInv'
  <2>1. UNCHANGED <<status, registry, count, reason, mainVars, pc, agenda>>
    BY <1>2 DEF Registers, CreatesTask, TasksEnd, runVars
  <2> QED
    BY <2>1, Stays
<1>3. ASSUME NEW f \in Runs, NEW p \in Plugins, FaultArises(f, p) PROVE LifeInv'
  BY <1>3, FaultKeeps
<1>4. ASSUME NEW f \in Others, RunStep(f) PROVE LifeInv'
  BY <1>4, DisableBeginsKeeps, DisableKeeps, DependentsBeginKeeps, LoopNextKeeps, ReloadKeeps
  DEF RunStep
<1>5. ASSUME NEW f \in Others, Cancelled(f) PROVE LifeInv'
  BY <1>5, BreakingOffKeeps
<1>6. ASSUME NEW r \in Reloaders, ReloadRejected(r) \/ ReloadBegins(r) \/ ReloadRaises(r)
      PROVE  LifeInv'
  BY <1>6, BreakingOffKeeps, ReloadBeginsKeeps DEF Others
<1>7. CASE UNCHANGED vars
  BY <1>7, Stays DEF vars, runVars, mainVars
<1> QED
  BY <1>1, <1>2, <1>3, <1>4, <1>5, <1>6, <1>7 DEF Next, Finished

(* However many runs of the fault handler and reloads overlap with the start *)
(* and the stop, a plugin is disabled only because it failed max_failures    *)
(* times, because one it requires was disabled, or by a reload.              *)
THEOREM FaultsIsolated == Spec => []OnlyFaultyDisabled
<1>1. LifeInv => OnlyFaultyDisabled
  BY DEF LifeInv
<1> QED
  BY <1>1, LifeInit, LifeNext, PTL DEF Spec

=============================================================================
