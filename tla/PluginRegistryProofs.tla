------------------------ MODULE PluginRegistryProofs -------------------------
(***************************************************************************)
(* Proofs about PluginLifecycle, for any plugins, requirements, runs of    *)
(* the fault handler and reloads that overlap: what the registry, the      *)
(* statuses and the calls of setup() and teardown() have to do with each   *)
(* other.  Four invariants build on LifeInv: ControlInv, whose turn it is  *)
(* and what is on its agenda; AloneInv, what a reload that nothing         *)
(* disturbs has left to do; RegistryInv, what the registry says; and       *)
(* BooksInv, the books of the setups and teardowns, which are balanced as  *)
(* long as no reload was disturbed or broke off and nothing was disabled   *)
(* before stop().                                                          *)
(***************************************************************************)
EXTENDS PluginLifecycleProofs

-----------------------------------------------------------------------------
(* Sequences without repetition.                                             *)

LEMMA AppendOne ==
  ASSUME NEW S, NEW s \in Seq(S), NEW p \in S
  PROVE  LET t == Append(s, p)
         IN  /\ Range(t) = Range(s) \cup {p} /\ Len(t) = Len(s) + 1 /\ t \in Seq(S)
             /\ \A i \in 1..Len(s) : t[i] = s[i]
             /\ t[Len(s) + 1] = p
             /\ IsInjective(s) /\ p \notin Range(s) => IsInjective(t)
<1> DEFINE t == Append(s, p)
<1>1. /\ Len(s) \in Nat /\ DOMAIN s = 1..Len(s) /\ DOMAIN t = 1..(Len(s) + 1)
      /\ Len(t) = Len(s) + 1 /\ t \in Seq(S)
      /\ \A i \in 1..Len(s) : t[i] = s[i]
      /\ t[Len(s) + 1] = p
  OBVIOUS
<1> HIDE DEF t
<1>2. IsInjective(s) /\ p \notin Range(s) => IsInjective(t)
  BY <1>1 DEF IsInjective, Range
<1>3. Range(t) = Range(s) \cup {p}
  BY <1>1 DEF Range
<1> QED
  BY <1>1, <1>2, <1>3 DEF t

LEMMA RegisteringAdds ==
  ASSUME registry \in Seq(Plugins), NEW p \in Plugins
  PROVE  /\ Range(Registering(p)) = Registered \cup {p}
         /\ IsInjective(registry) => IsInjective(Registering(p))
         /\ p \notin Registered => Registering(p) = Append(registry, p)
<1>1. CASE p \in Registered
  BY <1>1 DEF Registering, Registered
<1>2. CASE p \notin Registered
  <2>1. Registering(p) = Append(registry, p)
    BY <1>2 DEF Registering
  <2> QED
    BY <1>2, <2>1, AppendOne DEF Registered
<1> QED
  BY <1>1, <1>2

LEMMA OneAfterTheOther ==
  ASSUME NEW S, NEW s \in Seq(S), NEW t \in Seq(S)
  PROVE  /\ s \o t \in Seq(S) /\ Len(s \o t) = Len(s) + Len(t)
         /\ \A i \in 1..Len(s) : (s \o t)[i] = s[i]
         /\ \A i \in (Len(s) + 1)..(Len(s) + Len(t)) : (s \o t)[i] = t[i - Len(s)]
OBVIOUS

\* The registry without its k-th plugin.
LEMMA WithoutOne ==
  ASSUME registry \in Seq(Plugins), NEW k \in 1..Len(registry)
  PROVE  LET rest == RemoveAt(registry, k)
         IN  /\ rest \in Seq(Plugins) /\ DOMAIN rest = 1..(Len(registry) - 1)
             /\ \A i \in 1..(Len(registry) - 1) :
                  rest[i] = registry[IF i < k THEN i ELSE i + 1]
<1> DEFINE n == Len(registry)
           front == SubSeq(registry, 1, k - 1)
           back == SubSeq(registry, k + 1, n)
           rest == RemoveAt(registry, k)
<1>1. n \in Nat /\ k \in Nat /\ 1 <= k /\ k <= n
  OBVIOUS
<1>2. /\ front \in Seq(Plugins) /\ Len(front) = k - 1
      /\ \A i \in 1..(k - 1) : front[i] = registry[i]
  BY <1>1
<1>3. /\ back \in Seq(Plugins) /\ Len(back) = n - k
      /\ \A i \in 1..(n - k) : back[i] = registry[i + k]
  <2>1. \A i \in 1..(n - k) : back[i] = registry[(k + 1) + i - 1] /\ (k + 1) + i - 1 = i + k
    BY <1>1
  <2>2. back \in Seq(Plugins) /\ Len(back) = n - k
    BY <1>1
  <2> HIDE DEF n, back
  <2> QED
    BY <2>1, <2>2
<1>4. rest = front \o back
  BY DEF RemoveAt
<1> HIDE DEF front, back, rest, n
<1>5. /\ rest \in Seq(Plugins) /\ Len(rest) = n - 1
      /\ \A i \in 1..(k - 1) : rest[i] = front[i]
      /\ \A i \in k..(n - 1) : rest[i] = back[i - (k - 1)]
  <2>1. /\ (front \o back) \in Seq(Plugins)
        /\ Len(front \o back) = Len(front) + Len(back)
        /\ \A i \in 1..Len(front) : (front \o back)[i] = front[i]
        /\ \A i \in (Len(front) + 1)..(Len(front) + Len(back)) :
             (front \o back)[i] = back[i - Len(front)]
    BY <1>2, <1>3, OneAfterTheOther
  <2>2. Len(front) = k - 1 /\ Len(back) = n - k
    BY <1>2, <1>3
  <2>3. (k - 1) + (n - k) = n - 1 /\ (k - 1) + 1 = k
    BY <1>1
  <2> QED
    BY <1>4, <2>1, <2>2, <2>3
<1>6. \A i \in k..(n - 1) : /\ i - (k - 1) \in 1..(n - k) /\ (i - (k - 1)) + k = i + 1
  BY <1>1
<1>7. \A i \in k..(n - 1) : rest[i] = registry[i + 1]
  <2>1. ASSUME NEW i \in k..(n - 1) PROVE rest[i] = registry[i + 1]
    <3>1. rest[i] = back[i - (k - 1)]
      BY <1>5
    <3>2. back[i - (k - 1)] = registry[(i - (k - 1)) + k]
      BY <1>3, <1>6
    <3> QED
      BY <1>6, <3>1, <3>2
  <2> QED
    BY <2>1
<1>8. \A i \in 1..(n - 1) : (i < k => i \in 1..(k - 1)) /\ (~(i < k) => i \in k..(n - 1))
  BY <1>1
<1>9. DOMAIN rest = 1..(n - 1)
  BY <1>1, <1>5
<1>10. ASSUME NEW i \in 1..(n - 1)
       PROVE  rest[i] = registry[IF i < k THEN i ELSE i + 1]
  <2>1. CASE i < k
    BY <1>2, <1>5, <1>8, <2>1
  <2>2. CASE ~(i < k)
    BY <1>7, <1>8, <2>2
  <2> QED
    BY <2>1, <2>2
<1> QED
  BY <1>5, <1>9, <1>10 DEF rest, n

LEMMA RemovingTakes ==
  ASSUME registry \in Seq(Plugins), IsInjective(registry), NEW p \in Plugins
  PROVE  IsInjective(Removing(p)) /\ Range(Removing(p)) = Registered \ {p}
<1>1. CASE p \notin Registered
  BY <1>1 DEF Removing, Registered
<1>2. CASE p \in Registered
  <2> DEFINE n == Len(registry)
             k == CHOOSE i \in DOMAIN registry : registry[i] = p
             rest == RemoveAt(registry, k)
             Old(i) == IF i < k THEN i ELSE i + 1
  <2>1. n \in Nat /\ DOMAIN registry = 1..n /\ k \in 1..n /\ registry[k] = p
    <3>1. \E i \in DOMAIN registry : registry[i] = p
      BY <1>2 DEF Registered, Range
    <3> QED
      BY <3>1
  <2>2. Removing(p) = rest
    BY <1>2 DEF Removing
  <2> HIDE DEF k
  <2>3. DOMAIN rest = 1..(n - 1) /\ \A i \in 1..(n - 1) : rest[i] = registry[Old(i)]
    BY <2>1, WithoutOne
  <2> HIDE DEF rest, n
  <2>4. \A i, j \in 1..n : registry[i] = registry[j] => i = j
    BY <2>1 DEF IsInjective
  <2>5. /\ \A i \in 1..(n - 1) : Old(i) \in 1..n /\ Old(i) # k
        /\ \A i, j \in 1..(n - 1) : Old(i) = Old(j) => i = j
        /\ \A j \in 1..n : j # k => \E i \in 1..(n - 1) : Old(i) = j
    <3>1. ASSUME NEW j \in 1..n, j # k PROVE \E i \in 1..(n - 1) : Old(i) = j
      <4>1. CASE j < k
        <5>1. j \in 1..(n - 1) /\ Old(j) = j
          BY <2>1, <4>1
        <5> QED
          BY <5>1
      <4>2. CASE j > k
        <5>1. j - 1 \in 1..(n - 1) /\ Old(j - 1) = j
          BY <2>1, <4>2
        <5> QED
          BY <5>1
      <4> QED
        BY <2>1, <3>1, <4>1, <4>2
    <3>2. \A i \in 1..(n - 1) : Old(i) \in 1..n /\ Old(i) # k
      BY <2>1
    <3>3. \A i, j \in 1..(n - 1) : Old(i) = Old(j) => i = j
      BY <2>1
    <3> QED
      BY <3>1, <3>2, <3>3
  <2> HIDE DEF Old
  <2>6. IsInjective(rest)
    BY <2>3, <2>4, <2>5 DEF IsInjective
  <2>7. Range(rest) = {registry[j] : j \in (1..n) \ {k}}
    BY <2>3, <2>5 DEF Range
  <2>8. {registry[j] : j \in (1..n) \ {k}} = Registered \ {p}
    BY <2>1, <2>4 DEF Registered, Range
  <2> QED
    BY <2>2, <2>6, <2>7, <2>8
<1> QED
  BY <1>1, <1>2


\* Whatever the registry looks like, removing does not add.
LEMMA RemovingShrinks ==
  ASSUME registry \in Seq(Plugins), NEW p \in Plugins
  PROVE  Range(Removing(p)) \subseteq Registered
<1>1. CASE p \notin Registered
  BY <1>1 DEF Removing, Registered
<1>2. CASE p \in Registered
  <2> DEFINE k == CHOOSE i \in DOMAIN registry : registry[i] = p
             rest == RemoveAt(registry, k)
  <2>1. k \in 1..Len(registry) /\ DOMAIN registry = 1..Len(registry) /\ Len(registry) \in Nat
    BY <1>2 DEF Registered, Range
  <2>2. Removing(p) = rest
    BY <1>2 DEF Removing
  <2> HIDE DEF k
  <2>3. /\ DOMAIN rest = 1..(Len(registry) - 1)
        /\ \A i \in 1..(Len(registry) - 1) : rest[i] = registry[IF i < k THEN i ELSE i + 1]
    BY <2>1, WithoutOne
  <2> HIDE DEF rest
  <2>4. \A i \in 1..(Len(registry) - 1) : (IF i < k THEN i ELSE i + 1) \in 1..Len(registry)
    BY <2>1
  <2> QED
    BY <2>1, <2>2, <2>3, <2>4 DEF Registered, Range
<1> QED
  BY <1>1, <1>2
-----------------------------------------------------------------------------
(* Agendas: what is left to set up, and to disable.                          *)

ToSetUp(s) == {s[i].plugin : i \in {i \in 1..Len(s) : s[i].do = "setup"}}
ToDisable(s) == {s[i].plugin : i \in {i \in 1..Len(s) : s[i].do = "disable"}}

\* Plugins are set up once each, after the ones they require.
InTurn(s) == \A i, j \in 1..Len(s) :
               i < j /\ s[i].do = "setup" /\ s[j].do = "setup" =>
                 s[i].plugin # s[j].plugin /\ s[j].plugin \notin Requires[s[i].plugin]

\* The items of a run of the fault handler, and those of a reload.
RunItems == {item \in Items : /\ item.do \in {"disable", "dependents", "loop", "degrade"}
                              /\ item.do = "disable" => item.why \notin {None, "reload"}}
ReloadItems == {item \in Items : /\ item.do \in {"disable", "initialize", "setup"}
                                 /\ item.do = "disable" => item.why = "reload"}

LEMMA NextItem ==
  ASSUME NEW S, NEW s \in Seq(S), s # <<>>
  PROVE  /\ Head(s).do = "setup" => ToSetUp(s) = ToSetUp(Tail(s)) \cup {Head(s).plugin}
         /\ Head(s).do # "setup" => ToSetUp(s) = ToSetUp(Tail(s))
         /\ Head(s).do = "disable" => ToDisable(s) = ToDisable(Tail(s)) \cup {Head(s).plugin}
         /\ Head(s).do # "disable" => ToDisable(s) = ToDisable(Tail(s))
         /\ InTurn(s) => InTurn(Tail(s))
         /\ InTurn(s) /\ Head(s).do = "setup" =>
              \A q \in ToSetUp(Tail(s)) : q # Head(s).plugin /\ q \notin Requires[Head(s).plugin]
<1> DEFINE n == Len(s)
           t == Tail(s)
<1>1. /\ Head(s) = s[1] /\ n \in Nat \ {0} /\ Len(t) = n - 1
      /\ \A i \in 1..(n - 1) : t[i] = s[i + 1]
  BY AtHead
<1> HIDE DEF n, t
<1>2. \A i \in 1..n : i = 1 \/ (i - 1 \in 1..(n - 1) /\ (i - 1) + 1 = i)
  BY <1>1
<1>3. \A i \in 1..(n - 1) : i + 1 \in 1..n /\ 1 < i + 1
  BY <1>1
<1>4. \A i \in 1..n : i = 1 \/ t[i - 1] = s[i]
  BY <1>1, <1>2
<1>5. 1 \in 1..n
  BY <1>1
<1>6. /\ Head(s).do = "setup" => ToSetUp(s) = ToSetUp(t) \cup {Head(s).plugin}
      /\ Head(s).do # "setup" => ToSetUp(s) = ToSetUp(t)
  <2>1. ToSetUp(t) \subseteq ToSetUp(s)
    BY <1>1, <1>3 DEF ToSetUp, n
  <2>2. ToSetUp(s) \subseteq ToSetUp(t) \cup {Head(s).plugin}
    BY <1>1, <1>2, <1>4 DEF ToSetUp, n
  <2>3. Head(s).do = "setup" => Head(s).plugin \in ToSetUp(s)
    BY <1>1, <1>5 DEF ToSetUp, n
  <2>4. Head(s).do # "setup" => ToSetUp(s) \subseteq ToSetUp(t)
    BY <1>1, <1>2, <1>4 DEF ToSetUp, n
  <2> QED
    BY <2>1, <2>2, <2>3, <2>4
<1>7. /\ Head(s).do = "disable" => ToDisable(s) = ToDisable(t) \cup {Head(s).plugin}
      /\ Head(s).do # "disable" => ToDisable(s) = ToDisable(t)
  <2>1. ToDisable(t) \subseteq ToDisable(s)
    BY <1>1, <1>3 DEF ToDisable, n
  <2>2. ToDisable(s) \subseteq ToDisable(t) \cup {Head(s).plugin}
    BY <1>1, <1>2, <1>4 DEF ToDisable, n
  <2>3. Head(s).do = "disable" => Head(s).plugin \in ToDisable(s)
    BY <1>1, <1>5 DEF ToDisable, n
  <2>4. Head(s).do # "disable" => ToDisable(s) \subseteq ToDisable(t)
    BY <1>1, <1>2, <1>4 DEF ToDisable, n
  <2> QED
    BY <2>1, <2>2, <2>3, <2>4
<1>8. Len(t) = n - 1
  BY <1>1
<1>9. ASSUME InTurn(s) PROVE InTurn(t)
  <2> SUFFICES ASSUME NEW i \in 1..(n - 1), NEW j \in 1..(n - 1), i < j,
                      t[i].do = "setup", t[j].do = "setup"
               PROVE  t[i].plugin # t[j].plugin /\ t[j].plugin \notin Requires[t[i].plugin]
    BY <1>8 DEF InTurn
  <2>1. i + 1 \in 1..n /\ j + 1 \in 1..n /\ i + 1 < j + 1
    BY <1>1
  <2>2. t[i] = s[i + 1] /\ t[j] = s[j + 1]
    BY <1>1
  <2> QED
    BY <1>9, <2>1, <2>2 DEF InTurn, n
<1>10. InTurn(s) /\ Head(s).do = "setup" =>
         \A q \in ToSetUp(t) : q # Head(s).plugin /\ q \notin Requires[Head(s).plugin]
  BY <1>1, <1>3, <1>5 DEF InTurn, ToSetUp, n
<1> QED
  BY <1>6, <1>7, <1>9, <1>10 DEF t

LEMMA MoreItems ==
  ASSUME NEW S, NEW s \in Seq(S), NEW t \in Seq(S)
  PROVE  /\ ToSetUp(s \o t) = ToSetUp(s) \cup ToSetUp(t)
         /\ ToDisable(s \o t) = ToDisable(s) \cup ToDisable(t)
         /\ ToSetUp(s) = {} /\ InTurn(t) => InTurn(s \o t)
<1> DEFINE m == Len(s)
           n == Len(t)
           u == s \o t
<1>1. /\ m \in Nat /\ n \in Nat /\ Len(u) = m + n
      /\ \A i \in 1..m : u[i] = s[i]
      /\ \A i \in (m + 1)..(m + n) : u[i] = t[i - m]
  BY OneAfterTheOther
<1> HIDE DEF m, n, u
<1>2. \A i \in 1..(m + n) : i \in 1..m \/ i \in (m + 1)..(m + n)
  BY <1>1
<1>3. \A i \in (m + 1)..(m + n) : i - m \in 1..n /\ i \in 1..(m + n)
  BY <1>1
<1>4. \A i \in 1..n : i + m \in (m + 1)..(m + n) /\ (i + m) - m = i
  BY <1>1
<1>5. \A i \in 1..m : i \in 1..(m + n)
  BY <1>1
<1>6. \A i \in 1..n : u[i + m] = t[i] /\ i + m \in 1..(m + n)
  BY <1>1, <1>3, <1>4
<1>7. ToSetUp(u) = ToSetUp(s) \cup ToSetUp(t)
  <2>1. ToSetUp(u) \subseteq ToSetUp(s) \cup ToSetUp(t)
    BY <1>1, <1>2, <1>3 DEF ToSetUp, m, n
  <2>2. ToSetUp(s) \subseteq ToSetUp(u)
    BY <1>1, <1>5 DEF ToSetUp, m
  <2>3. ToSetUp(t) \subseteq ToSetUp(u)
    BY <1>1, <1>6 DEF ToSetUp, n
  <2> QED
    BY <2>1, <2>2, <2>3
<1>8. ToDisable(u) = ToDisable(s) \cup ToDisable(t)
  <2>1. ToDisable(u) \subseteq ToDisable(s) \cup ToDisable(t)
    BY <1>1, <1>2, <1>3 DEF ToDisable, m, n
  <2>2. ToDisable(s) \subseteq ToDisable(u)
    BY <1>1, <1>5 DEF ToDisable, m
  <2>3. ToDisable(t) \subseteq ToDisable(u)
    BY <1>1, <1>6 DEF ToDisable, n
  <2> QED
    BY <2>1, <2>2, <2>3
<1>9. ASSUME ToSetUp(s) = {}, InTurn(t) PROVE InTurn(u)
  <2> SUFFICES ASSUME NEW i \in 1..(m + n), NEW j \in 1..(m + n), i < j,
                      u[i].do = "setup", u[j].do = "setup"
               PROVE  u[i].plugin # u[j].plugin /\ u[j].plugin \notin Requires[u[i].plugin]
    BY <1>1 DEF InTurn
  <2>1. \A k \in 1..m : s[k].do # "setup"
    BY <1>9 DEF ToSetUp, m
  <2>2. i \in (m + 1)..(m + n) /\ j \in (m + 1)..(m + n)
    BY <1>1, <1>2, <2>1
  <2>3. u[i] = t[i - m] /\ u[j] = t[j - m] /\ i - m \in 1..n /\ j - m \in 1..n
    BY <1>1, <1>3, <2>2
  <2>4. i - m < j - m
    BY <1>1
  <2> QED
    BY <1>9, <2>3, <2>4 DEF InTurn, n
<1> QED
  BY <1>7, <1>8, <1>9 DEF u

LEMMA InOrderFacts ==
  ASSUME NEW S \in SUBSET Plugins, NEW names \in Seq(Plugins),
         \A i, j \in 1..Len(names) : names[i] = names[j] => i = j,
         NEW s \in InOrder(S, names)
  PROVE  /\ s \in Seq(Plugins) /\ Range(s) = S
         /\ \A i, j \in 1..Len(s) : i < j =>
              /\ s[i] # s[j]
              /\ \E k, m \in 1..Len(names) : k < m /\ names[k] = s[i] /\ names[m] = s[j]
<1> DEFINE n == Cardinality(S)
<1>1. IsFiniteSet(S) /\ n \in Nat
  BY PluginsAssumption, FS_Subset, FS_CardinalityType
<1>2. /\ s \in [1..n -> S]
      /\ \A i, j \in 1..n : i < j =>
           \E k, m \in DOMAIN names : k < m /\ names[k] = s[i] /\ names[m] = s[j]
  BY DEF InOrder
<1> HIDE DEF n
<1>3. s \in Seq(Plugins) /\ DOMAIN s = 1..n /\ Len(s) = n /\ DOMAIN names = 1..Len(names)
  <2>1. s \in Seq(S)
    BY <1>1, <1>2
  <2>2. Len(s) = n
    BY <1>1, <1>2
  <2> QED
    BY <1>2, <2>1, <2>2
<1>4. \A i, j \in 1..n : i < j =>
        /\ s[i] # s[j]
        /\ \E k, m \in 1..Len(names) : k < m /\ names[k] = s[i] /\ names[m] = s[j]
  <2>1. \A k, m \in 1..Len(names) : k < m => names[k] # names[m]
    <3>1. Len(names) \in Nat
      OBVIOUS
    <3> QED
      BY <3>1
  <2> QED
    BY <1>2, <1>3, <2>1
<1>5. s \in Surjection(1..n, S)
  <2>1. \A i, j \in 1..n : s[i] = s[j] => i = j
    <3>1. \A i, j \in 1..n : i # j => i < j \/ j < i
      BY <1>1
    <3> QED
      BY <1>4, <3>1
  <2>2. s \in Injection(1..n, S)
    BY <1>2, <2>1 DEF Injection, IsInjective
  <2>3. Cardinality(1..n) = n
    BY <1>1, FS_Interval
  <2> QED
    BY <1>1, <2>2, <2>3, FS_Injection DEF n
<1>6. Range(s) = S
  BY <1>2, <1>3, <1>5 DEF Surjection, Range
<1> QED
  BY <1>3, <1>4, <1>6

LEMMA ReloadAgendaFacts ==
  ASSUME NEW gone \in Seq(Plugins), NEW new \in Seq(Plugins),
         \A i, j \in 1..Len(new) : i < j => new[i] # new[j] /\ new[j] \notin Requires[new[i]]
  PROVE  LET items == ReloadAgenda(gone, new)
         IN  /\ items \in Seq(ReloadItems)
             /\ ToSetUp(items) = Range(new) /\ ToDisable(items) = Range(gone)
             /\ InTurn(items)
<1> DEFINE disables == [i \in DOMAIN gone |-> Disable(gone[i], "reload")]
           initialize == IF new = <<>> THEN <<>> ELSE <<Initialize>>
           setups == [i \in DOMAIN new |-> Setup(new[i])]
<1>1. /\ Len(gone) \in Nat /\ DOMAIN gone = 1..Len(gone)
      /\ Len(new) \in Nat /\ DOMAIN new = 1..Len(new)
      /\ \A i \in 1..Len(gone) : gone[i] \in Plugins
      /\ \A i \in 1..Len(new) : new[i] \in Plugins
  OBVIOUS
<1>2. \A p \in Plugins : Disable(p, "reload") \in ReloadItems /\ Setup(p) \in ReloadItems
  BY DEF Disable, Setup, Items, Reasons, ReloadItems
<1>3. /\ disables \in Seq(ReloadItems) /\ Len(disables) = Len(gone)
      /\ \A i \in 1..Len(gone) : disables[i] = Disable(gone[i], "reload")
  <2>1. disables \in [1..Len(gone) -> ReloadItems]
    BY <1>1, <1>2
  <2> QED
    BY <1>1, <2>1
<1>4. /\ setups \in Seq(ReloadItems) /\ Len(setups) = Len(new)
      /\ \A i \in 1..Len(new) : setups[i] = Setup(new[i])
  <2>1. setups \in [1..Len(new) -> ReloadItems]
    BY <1>1, <1>2
  <2> QED
    BY <1>1, <2>1
<1>5. Initialize \in ReloadItems
  BY DEF Initialize, Items, Reasons, ReloadItems
<1>6. /\ initialize \in Seq(ReloadItems) /\ \A i \in 1..Len(initialize) : initialize[i] = Initialize
  <2>1. CASE new = <<>>
    BY <2>1
  <2>2. CASE new # <<>>
    <3>1. initialize = <<Initialize>>
      BY <2>2
    <3> QED
      BY <1>5, <3>1
  <2> QED
    BY <2>1, <2>2
<1>7. ReloadAgenda(gone, new) = (disables \o initialize) \o setups
  BY DEF ReloadAgenda
<1> HIDE DEF disables, initialize, setups
<1>8. ToSetUp(disables) = {} /\ ToDisable(disables) = Range(gone)
  <2>1. \A i \in 1..Len(disables) : disables[i].do = "disable" /\ disables[i].plugin = gone[i]
    <3>1. \A p : Disable(p, "reload").do = "disable" /\ Disable(p, "reload").plugin = p
      BY DEF Disable
    <3>2. \A i \in 1..Len(disables) : disables[i] = Disable(gone[i], "reload")
      BY <1>3
    <3> QED
      BY <3>1, <3>2
  <2>2. ToDisable(disables) = {gone[i] : i \in 1..Len(gone)}
    BY <1>3, <2>1 DEF ToDisable
  <2>3. Range(gone) = {gone[i] : i \in 1..Len(gone)}
    BY <1>1 DEF Range
  <2>4. ToSetUp(disables) = {}
    BY <2>1 DEF ToSetUp
  <2> QED
    BY <2>2, <2>3, <2>4
<1>9. ToSetUp(initialize) = {} /\ ToDisable(initialize) = {}
  BY <1>6 DEF ToSetUp, ToDisable, Initialize
<1>10. ToSetUp(setups) = Range(new) /\ ToDisable(setups) = {} /\ InTurn(setups)
  <2>1. \A i \in 1..Len(setups) : setups[i].do = "setup" /\ setups[i].plugin = new[i]
    <3>1. \A p : Setup(p).do = "setup" /\ Setup(p).plugin = p
      BY DEF Setup
    <3>2. \A i \in 1..Len(setups) : setups[i] = Setup(new[i])
      BY <1>4
    <3> QED
      BY <3>1, <3>2
  <2>2. ToSetUp(setups) = {new[i] : i \in 1..Len(new)}
    <3>1. ToSetUp(setups) \subseteq {new[i] : i \in 1..Len(new)}
      BY <1>4, <2>1 DEF ToSetUp
    <3>2. ASSUME NEW i \in 1..Len(new)
          PROVE  new[i] \in ToSetUp(setups)
      BY <1>4, <2>1, <3>2 DEF ToSetUp
    <3> QED
      BY <3>1, <3>2
  <2>3. Range(new) = {new[i] : i \in 1..Len(new)}
    BY <1>1 DEF Range
  <2>4. ToDisable(setups) = {}
    BY <2>1 DEF ToDisable
  <2>5. InTurn(setups)
    BY <1>4, <2>1 DEF InTurn
  <2> QED
    BY <2>2, <2>3, <2>4, <2>5
<1> DEFINE both == disables \o initialize
<1>11. /\ both \in Seq(ReloadItems)
       /\ ToSetUp(both) = ToSetUp(disables) \cup ToSetUp(initialize)
       /\ ToDisable(both) = ToDisable(disables) \cup ToDisable(initialize)
  <2>1. disables \in Seq(ReloadItems) /\ initialize \in Seq(ReloadItems)
    BY <1>3, <1>6
  <2>2. both \in Seq(ReloadItems)
    BY <2>1
  <2> QED
    BY <2>1, <2>2, MoreItems
<1>12. ReloadAgenda(gone, new) = both \o setups
  BY <1>7
<1> HIDE DEF both
<1>13. /\ both \o setups \in Seq(ReloadItems)
       /\ ToSetUp(both \o setups) = ToSetUp(both) \cup ToSetUp(setups)
       /\ ToDisable(both \o setups) = ToDisable(both) \cup ToDisable(setups)
       /\ ToSetUp(both) = {} /\ InTurn(setups) => InTurn(both \o setups)
  <2>1. setups \in Seq(ReloadItems)
    BY <1>4
  <2>2. both \o setups \in Seq(ReloadItems)
    BY <1>11, <2>1
  <2> QED
    BY <1>11, <2>1, <2>2, MoreItems
<1>14. ToSetUp(both) = {} /\ ToDisable(both) = Range(gone)
  BY <1>8, <1>9, <1>11
<1> QED
  BY <1>10, <1>12, <1>13, <1>14

-----------------------------------------------------------------------------
(* Control: whose turn it is, and what each coroutine may have to do.        *)

MainPlaces == Suspended \cup {"setup", "rollback", "unload", "closed"}
Disabling == {"cancelling", "cleared", "tearing"}

BookTypeOK == /\ setUp \in [Plugins -> Nat] /\ torn \in [Plugins -> Nat]
              /\ effects \in [Plugins -> BOOLEAN] /\ found \in [Others -> BOOLEAN]
              /\ disturbed \subseteq Reloaders

\* One coroutine runs at a time, and it is where it can go on.
TurnsOK == /\ mpc \in MainPlaces
           /\ turn = Main <=> mpc \in {"setup", "rollback", "unload"}
           /\ \A f \in Others : turn = f <=> pc[f] \in {"on", "cleared"}

ItemsOK == /\ \A f \in Runs : agenda[f] \in Seq(RunItems)
           /\ \A r \in Reloaders : agenda[r] \in Seq(ReloadItems)

\* How many plugins Main has set up, while it does.
Done == Len(Order) - Len(list)

\* Main goes through the loader's order, and no reload begins before it has.
StartOK == /\ mpc \in {"setup", "in_setup"} =>
                /\ Len(list) <= Len(Order)
                /\ \A i \in 1..Len(list) : /\ list[i] = Order[Done + i]
                                           /\ list[i] \notin Registered /\ setUp[list[i]] = 0
           /\ mpc \in {"setup", "in_setup", "rollback", "in_rollback"} =>
                /\ Registered \subseteq Range(Order)
                /\ \A r \in Reloaders : pc[r] = "idle"

ControlInv == /\ LifeInv /\ BookTypeOK /\ TurnsOK /\ ItemsOK /\ StartOK
              /\ IsInjective(registry) /\ config \in Configs \cup {Range(Order)}

\* A step of the run, or the reload, f.
StepOf(f) == \/ RunStep(f) \/ Cancelled(f)
             \/ f \in Runs /\ \E p \in Plugins : FaultArises(f, p)
             \/ f \in Reloaders /\ (ReloadRejected(f) \/ ReloadBegins(f) \/ ReloadRaises(f))
PluginStep == \E p \in Plugins : Registers(p) \/ CreatesTask(p) \/ TasksEnd(p)

LEMMA WhoSteps == [Next]_vars => \/ MainStep \/ PluginStep \/ UNCHANGED vars
                                 \/ \E f \in Others : StepOf(f)
BY DEF Next, Finished, PluginStep, StepOf, Others

\* A step of one coroutine leaves the others where they are.
LEMMA OthersWait ==
  ASSUME LifeInv, BookTypeOK, NEW f \in Others, StepOf(f)
  PROVE  /\ UNCHANGED <<mpc, list>>
         /\ \A g \in Others \ {f} : /\ pc'[g] = pc[g] /\ agenda'[g] = agenda[g]
                                    /\ found'[g] = found[g]
<1>1. CASE RunStep(f)
  BY <1>1 DEF RunStep, DisableBegins, CancelReturns, DisableTearsDown, DisableSkips,
              DisableEnds, DependentsBegin, LoopNext, Degrades, InitializeBegins,
              InitializeReturns, ReloadSetupBegins, ReloadSetupReturns, ReloadReturns,
              PopItem, mainVars, LifeInv, LifeTypeOK, BookTypeOK
<1>2. CASE ~RunStep(f)
  BY <1>2 DEF StepOf, Cancelled, FaultArises, ReloadRejected, ReloadBegins, ReloadRaises,
              mainVars, LifeInv, LifeTypeOK, BookTypeOK
<1> QED
  BY <1>1, <1>2

LEMMA BookTypes == ASSUME ControlInv, [Next]_vars PROVE BookTypeOK'
<1>0. BookTypeOK
  BY DEF ControlInv
<1>1. CASE MainStep
  <2>1. CASE SetupReturns \/ MainTeardownReturns \/ RollbackNext \/ UnloadNext
    <3>1. list # <<>> /\ UNCHANGED <<found, disturbed>>
      BY <2>1 DEF SetupReturns, MainTeardownReturns, RollbackNext, UnloadNext, runVars,
                  reloadVars, ControlInv, LifeInv, LifeTypeOK
    <3>2. Head(list) \in Plugins
      BY <3>1, AtHead DEF ControlInv, LifeInv, LifeTypeOK
    <3>3. CASE SetupReturns
      BY <1>0, <3>1, <3>2, <3>3 DEF SetupReturns, BookTypeOK
    <3>4. CASE MainTeardownReturns
      BY <1>0, <3>1, <3>2, <3>4 DEF MainTeardownReturns, TeardownEnds, BookTypeOK
    <3>5. CASE RollbackNext
      <4>1. CASE status[Head(list)] = "ready"
        <5>1. torn' = [torn EXCEPT ![Head(list)] = @ + 1] /\ UNCHANGED <<effects, setUp>>
          BY <3>5, <4>1 DEF RollbackNext, TeardownBegins
        <5> QED
          BY <1>0, <3>1, <3>2, <5>1 DEF BookTypeOK
      <4>2. CASE status[Head(list)] # "ready"
        BY <1>0, <3>1, <3>2, <3>5, <4>2 DEF RollbackNext, BookTypeOK
      <4> QED
        BY <4>1, <4>2
    <3>6. CASE UnloadNext
      BY <1>0, <3>1, <3>2, <3>6 DEF UnloadNext, TeardownBegins, BookTypeOK
    <3> QED
      BY <2>1, <3>3, <3>4, <3>5, <3>6
  <2>2. CASE SetupBegins \/ SetupDone \/ SetupFails \/ StopBegins \/ CancelAll
             \/ CancelAllReturns \/ Close
    BY <1>0, <2>2 DEF SetupBegins, SetupDone, SetupFails, StopBegins, CancelAll, CancelAllReturns,
                Close, pluginVars, runVars, reloadVars, BookTypeOK, Reloading
  <2> QED
    BY <1>1, <2>1, <2>2 DEF MainStep
<1>2. CASE PluginStep
  BY <1>0, <1>2 DEF PluginStep, Registers, CreatesTask, TasksEnd, runVars, reloadVars,
              BookTypeOK
<1>3. ASSUME NEW f \in Others, StepOf(f) PROVE BookTypeOK'
  <2>1. CASE RunStep(f)
    <3>1. CASE DisableTearsDown(f) \/ DisableEnds(f) \/ ReloadSetupReturns(f)
      <4>1. agenda[f] # <<>> /\ Head(agenda[f]).do \in {"disable", "setup"}
        BY <3>1 DEF DisableTearsDown, DisableEnds, ReloadSetupReturns, ControlInv, LifeInv,
                    AgendasOK, PlaceOK, Working
      <4>2. Target(f) \in Plugins
        BY <4>1, HeadIsPlugin DEF ControlInv
      <4>3. CASE DisableTearsDown(f)
        BY <1>0, <4>2, <4>3 DEF DisableTearsDown, TeardownBegins, reloadVars, BookTypeOK
      <4>4. CASE DisableEnds(f)
        BY <1>0, <4>2, <4>4 DEF DisableEnds, reloadVars, BookTypeOK
      <4>5. CASE ReloadSetupReturns(f)
        BY <1>0, <4>2, <4>5 DEF ReloadSetupReturns, reloadVars, BookTypeOK
      <4> QED
        BY <3>1, <4>3, <4>4, <4>5
    <3>2. CASE DisableBegins(f)
      BY <1>0, <3>2 DEF DisableBegins, reloadVars, BookTypeOK
    <3> QED
      BY <1>0, <2>1, <3>1, <3>2
      DEF RunStep, CancelReturns, DisableSkips, DependentsBegin, LoopNext, Degrades,
          InitializeBegins, InitializeReturns, ReloadSetupBegins, ReloadReturns,
          pluginVars, runVars, reloadVars, BookTypeOK
  <2>2. CASE ~RunStep(f)
    BY <1>0, <1>3, <2>2 DEF StepOf, Cancelled, TeardownEnds, FaultArises, ReloadRejected, ReloadBegins,
                ReloadRaises, pluginVars, runVars, reloadVars, BookTypeOK, Reloading
  <2> QED
    BY <2>1, <2>2
<1>4. CASE UNCHANGED vars
  BY <1>0, <1>4 DEF vars, runVars, reloadVars, BookTypeOK
<1> QED
  BY <1>1, <1>2, <1>3, <1>4, WhoSteps

LEMMA MainTakesTurns == ASSUME ControlInv, MainStep PROVE TurnsOK'
<1>1. UNCHANGED pc
  BY DEF MainStep, SetupBegins, SetupReturns, SetupDone, SetupFails, RollbackNext,
         MainTeardownReturns, StopBegins, CancelAll, CancelAllReturns, UnloadNext, Close, runVars
<1>2. turn \in {Main, NoOne} /\ turn' \in {Main, NoOne}
  BY DEF MainStep, SetupBegins, SetupReturns, SetupDone, SetupFails, RollbackNext,
         MainTeardownReturns, StopBegins, CancelAll, CancelAllReturns, UnloadNext, Close
<1>3. /\ mpc' \in MainPlaces
      /\ turn' = Main <=> mpc' \in {"setup", "rollback", "unload"}
  BY RunsAssumption
  DEF MainStep, SetupBegins, SetupReturns, SetupDone, SetupFails, RollbackNext,
      MainTeardownReturns, StopBegins, CancelAll, CancelAllReturns, UnloadNext, Close,
      ControlInv, TurnsOK, MainPlaces, Suspended
<1> QED
  BY <1>1, <1>2, <1>3, RunsAssumption DEF ControlInv, TurnsOK, Others

\* A coroutine that suspends gives its turn back.
LEMMA StepTakesTurn ==
  ASSUME ControlInv, NEW f \in Others, StepOf(f)
  PROVE  /\ turn \in {f, NoOne} /\ turn' \in {f, NoOne}
         /\ turn' = f <=> pc'[f] \in {"on", "cleared"}
<1>1. /\ pc \in [Others -> Working \cup {"idle", "on"} \cup Outcomes]
      /\ f # NoOne /\ (turn = f <=> pc[f] \in {"on", "cleared"})
  BY RunsAssumption DEF ControlInv, LifeInv, LifeTypeOK, TurnsOK, Others
<1>2. CASE RunStep(f)
  BY <1>1, <1>2
  DEF RunStep, DisableBegins, CancelReturns, DisableTearsDown, DisableSkips,
      DisableEnds, DependentsBegin, LoopNext, Degrades, InitializeBegins,
      InitializeReturns, ReloadSetupBegins, ReloadSetupReturns, ReloadReturns, Takes
<1>3. CASE ~RunStep(f)
  BY <1>1, <1>3 DEF StepOf, Cancelled, FaultArises, ReloadRejected, ReloadBegins, ReloadRaises
<1> QED
  BY <1>2, <1>3

LEMMA TakesTurns == ASSUME ControlInv, [Next]_vars PROVE TurnsOK'
<1>1. CASE PluginStep \/ UNCHANGED vars
  BY <1>1 DEF PluginStep, Registers, CreatesTask, TasksEnd, runVars, mainVars, vars,
              ControlInv, TurnsOK
<1>2. ASSUME NEW f \in Others, StepOf(f) PROVE TurnsOK'
  BY <1>2, OthersWait, StepTakesTurn, RunsAssumption DEF ControlInv, TurnsOK, Others
<1> QED
  BY <1>1, <1>2, MainTakesTurns, WhoSteps

\* The next items: what a run, or a reload, has left is of its kind.
LEMMA TheItems ==
  ASSUME ControlInv, NEW f \in Others, agenda[f] # <<>>
  PROVE  /\ f \in Runs => /\ Head(agenda[f]) \in RunItems /\ Tail(agenda[f]) \in Seq(RunItems)
         /\ f \in Reloaders => /\ Head(agenda[f]) \in ReloadItems
                               /\ Tail(agenda[f]) \in Seq(ReloadItems)
         /\ Head(agenda[f]) \in Items /\ agenda[f] \in Seq(Items)
BY AtHead DEF ControlInv, LifeInv, LifeTypeOK, ItemsOK

\* The items a run adds.
LEMMA RunItemsFit ==
  ASSUME NEW p \in Plugins, NEW q \in Plugins, NEW rest \in Seq(Plugins)
  PROVE  /\ <<Disable(p, "faults"), Dependents(p), Degrade>> \in Seq(RunItems)
         /\ <<Disable(p, q), Dependents(p), Loop(q, rest)>> \in Seq(RunItems)
         /\ <<Loop(p, rest)>> \in Seq(RunItems)
<1>1. /\ Disable(p, "faults") \in RunItems /\ Disable(p, q) \in RunItems
      /\ Dependents(p) \in RunItems /\ Loop(p, rest) \in RunItems /\ Loop(q, rest) \in RunItems
      /\ Degrade \in RunItems
  BY PluginsAssumption DEF Disable, Dependents, Loop, Degrade, RunItems, Items, Reasons
<1> QED
  BY <1>1

LEMMA PutBefore == ASSUME NEW S, NEW s \in Seq(S), NEW t \in Seq(S) PROVE s \o t \in Seq(S)
OBVIOUS

\* What a reload has to do when it begins.
LEMMA ReloadBeginsWith ==
  ASSUME LifeInv, NEW r \in Reloaders, ReloadBegins(r)
  PROVE  /\ config' \in Configs /\ turn = NoOne /\ mpc = "running"
         /\ agenda'[r] \in Seq(ReloadItems) /\ InTurn(agenda'[r])
         /\ ToDisable(agenda'[r]) = Registered \ config'
         /\ ToSetUp(agenda'[r]) = config' \ Registered
<1>1. PICK cfg \in Configs :
        /\ config' = cfg
        /\ \E gone \in InOrder(Gone(cfg), Names), new \in InOrder(New(cfg), Order) :
             agenda' = [agenda EXCEPT ![r] = ReloadAgenda(gone, new)]
  BY DEF ReloadBegins
<1>2. Gone(cfg) \in SUBSET Plugins /\ New(cfg) \in SUBSET Plugins
  <2>1. Registered \subseteq Plugins /\ Range(Order) \subseteq Plugins
    BY PluginsAssumption DEF Registered, Range, LifeInv, LifeTypeOK
  <2> QED
    BY <2>1, ConfigsAssumption DEF Gone, New
<1>3. PICK gone \in InOrder(Gone(cfg), Names), new \in InOrder(New(cfg), Order) :
        agenda' = [agenda EXCEPT ![r] = ReloadAgenda(gone, new)]
  BY <1>1
<1>4. gone \in Seq(Plugins) /\ Range(gone) = Gone(cfg)
  BY <1>2, InOrderFacts, NamesAssumption
<1>5. /\ new \in Seq(Plugins) /\ Range(new) = New(cfg)
      /\ \A i, j \in 1..Len(new) : i < j =>
           /\ new[i] # new[j]
           /\ \E k, m \in 1..Len(Order) : k < m /\ Order[k] = new[i] /\ Order[m] = new[j]
  <2>1. Order \in Seq(Plugins)
    BY PluginsAssumption
  <2>2. \A i, j \in 1..Len(Order) : Order[i] = Order[j] => i = j
    BY OrderAssumption
  <2> DEFINE S == New(cfg)
  <2>3. S \in SUBSET Plugins /\ new \in InOrder(S, Order)
    BY <1>2
  <2> HIDE DEF S
  <2>4. /\ new \in Seq(Plugins) /\ Range(new) = S
        /\ \A i, j \in 1..Len(new) : i < j =>
             /\ new[i] # new[j]
             /\ \E k, m \in 1..Len(Order) : k < m /\ Order[k] = new[i] /\ Order[m] = new[j]
    BY <2>1, <2>2, <2>3, InOrderFacts
  <2> QED
    BY <2>4 DEF S
<1>6. ASSUME NEW i \in 1..Len(new), NEW j \in 1..Len(new), i < j
      PROVE  new[i] # new[j] /\ new[j] \notin Requires[new[i]]
  <2>1. PICK k \in 1..Len(Order), m \in 1..Len(Order) :
          k < m /\ Order[k] = new[i] /\ Order[m] = new[j]
    BY <1>5, <1>6
  <2>2. Order[m] \in Requires[Order[k]] => m < k
    BY OrderAssumption
  <2>3. ~(m < k)
    BY <2>1, PluginsAssumption
  <2> QED
    BY <1>5, <1>6, <2>1, <2>2, <2>3
<1> DEFINE items == ReloadAgenda(gone, new)
<1>7. /\ items \in Seq(ReloadItems) /\ InTurn(items)
      /\ ToSetUp(items) = Range(new) /\ ToDisable(items) = Range(gone)
  BY <1>4, <1>5, <1>6, ReloadAgendaFacts
<1> HIDE DEF items
<1>8. agenda'[r] = items
  <2>1. r \in Others /\ agenda \in [Others -> Seq(Items)]
    BY DEF LifeInv, LifeTypeOK, Others
  <2> QED
    BY <1>3, <2>1 DEF items
<1> QED
  BY <1>1, <1>4, <1>5, <1>7, <1>8 DEF Gone, New, ReloadBegins

LEMMA ItemsKept == ASSUME ControlInv, [Next]_vars PROVE ItemsOK'
<1>1. CASE MainStep \/ PluginStep \/ UNCHANGED vars
  <2>1. UNCHANGED agenda
    BY <1>1 DEF MainStep, SetupBegins, SetupReturns, SetupDone, SetupFails, RollbackNext,
                MainTeardownReturns, StopBegins, CancelAll, CancelAllReturns, UnloadNext, Close,
                PluginStep, Registers, CreatesTask, TasksEnd, runVars, vars
  <2> QED
    BY <2>1 DEF ControlInv, ItemsOK
<1>2. ASSUME NEW f \in Others, StepOf(f) PROVE ItemsOK'
  <2> SUFFICES /\ f \in Runs => agenda'[f] \in Seq(RunItems)
               /\ f \in Reloaders => agenda'[f] \in Seq(ReloadItems)
    BY <1>2, OthersWait DEF ControlInv, ItemsOK, Others
  <2>1. agenda \in [Others -> Seq(Items)]
    BY DEF ControlInv, LifeInv, LifeTypeOK
  <2>2. CASE UNCHANGED agenda \/ agenda' = [agenda EXCEPT ![f] = <<>>]
    <3>1. <<>> \in Seq(RunItems) /\ <<>> \in Seq(ReloadItems)
      OBVIOUS
    <3>2. agenda'[f] = agenda[f] \/ agenda'[f] = <<>>
      BY <2>1, <2>2
    <3>3. /\ f \in Runs => agenda[f] \in Seq(RunItems)
          /\ f \in Reloaders => agenda[f] \in Seq(ReloadItems)
      BY DEF ControlInv, ItemsOK
    <3> QED
      BY <3>1, <3>2, <3>3
  <2>3. CASE PopItem(f) /\ agenda[f] # <<>>
    BY <2>1, <2>3, TheItems DEF PopItem
  <2>4. CASE \E p \in Plugins : f \in Runs /\ FaultArises(f, p)
    <3>1. PICK p \in Plugins : f \in Runs /\ FaultArises(f, p)
      BY <2>4
    <3> DEFINE items == <<Disable(p, "faults"), Dependents(p), Degrade>>
    <3>2. items \in Seq(RunItems)
      BY RunItemsFit, <<>> \in Seq(Plugins)
    <3>3. agenda' = agenda \/ agenda' = [agenda EXCEPT ![f] = items]
      BY <3>1 DEF FaultArises
    <3> HIDE DEF items
    <3>4. agenda'[f] \in Seq(RunItems) \/ agenda' = agenda
      BY <2>1, <3>2, <3>3
    <3> QED
      BY <2>2, <3>1, <3>4, RunsAssumption
  <2>5. CASE DependentsBegin(f) \/ LoopNext(f)
    <3>1. agenda[f] # <<>> /\ Head(agenda[f]).do \in {"dependents", "loop"}
      BY <2>5 DEF DependentsBegin, LoopNext, Takes
    <3>2. f \in Runs /\ f \notin Reloaders /\ Tail(agenda[f]) \in Seq(RunItems)
      BY <3>1, TheItems, RunsAssumption DEF ReloadItems, Others
    <3>3. Target(f) \in Plugins /\ registry \in Seq(Plugins)
      BY <3>1, HeadIsPlugin DEF ControlInv, LifeInv, LifeTypeOK
    <3>4. CASE DependentsBegin(f)
      BY <2>1, <3>2, <3>3, <3>4, RunItemsFit, PutBefore DEF DependentsBegin
    <3>5. CASE LoopNext(f)
      <4> DEFINE rest == Head(agenda[f]).rest
      <4>1. rest \in Seq(Plugins)
        BY <3>1, FirstDependency DEF ControlInv
      <4>2. CASE rest = <<>>
        BY <2>1, <3>2, <3>5, <4>2 DEF LoopNext
      <4>3. CASE rest # <<>>
        <5>1. Head(rest) \in Plugins /\ Tail(rest) \in Seq(Plugins)
          BY <4>1, <4>3, AtHead
        <5>2. CASE Depends(Head(rest), Target(f))
          BY <2>1, <3>2, <3>3, <3>5, <4>3, <5>1, <5>2, RunItemsFit, PutBefore DEF LoopNext
        <5>3. CASE ~Depends(Head(rest), Target(f))
          BY <2>1, <3>2, <3>3, <3>5, <4>3, <5>1, <5>3, RunItemsFit, PutBefore DEF LoopNext
        <5> QED
          BY <5>2, <5>3
      <4> QED
        BY <4>2, <4>3
    <3> QED
      BY <2>5, <3>4, <3>5
  <2>6. CASE f \in Reloaders /\ ReloadBegins(f)
    BY <2>6, ReloadBeginsWith, RunsAssumption DEF ControlInv
  <2>7. PlaceOK(f)
    BY DEF ControlInv, LifeInv, AgendasOK
  <2>8. CASE RunStep(f)
    BY <2>2, <2>3, <2>5, <2>7, <2>8
    DEF RunStep, DisableBegins, CancelReturns, DisableTearsDown, DisableSkips,
        DisableEnds, Degrades, InitializeBegins, InitializeReturns, ReloadSetupBegins,
        ReloadSetupReturns, ReloadReturns, Takes, PlaceOK, Working
  <2> QED
    BY <1>2, <2>2, <2>4, <2>6, <2>8 DEF StepOf, Cancelled, ReloadRejected, ReloadRaises
<1> QED
  BY <1>1, <1>2, WhoSteps

\* Only a reload sets plugins up besides Main, and it does not rest then.
LEMMA WhoSetsUp ==
  ASSUME ControlInv, NEW f \in Others, pc[f] = "setting_up"
  PROVE  /\ f \in Reloaders /\ agenda[f] # <<>> /\ Head(agenda[f]).do = "setup"
         /\ Target(f) \in Plugins
<1>1. agenda[f] # <<>> /\ Head(agenda[f]).do = "setup"
  BY DEF ControlInv, LifeInv, AgendasOK, PlaceOK, Working
<1> QED
  BY <1>1, TheItems, HeadIsPlugin DEF RunItems, Others, ControlInv

\* A reload that has nothing to do does not step while Main starts.
LEMMA RestingReload ==
  ASSUME ControlInv, NEW r \in Reloaders, pc[r] = "idle", mpc # "running", r \in Others
  PROVE  ~StepOf(r)
<1>1. r \notin Runs
  BY RunsAssumption
<1> QED
  BY <1>1
  DEF StepOf, RunStep, DisableBegins, CancelReturns, DisableTearsDown, DisableSkips,
      DisableEnds, DependentsBegin, LoopNext, Degrades, InitializeBegins,
      InitializeReturns, ReloadSetupBegins, ReloadSetupReturns, ReloadReturns, Takes,
      Cancelled, FaultArises, ReloadRejected, ReloadBegins, ReloadRaises

\* A step of a run, or of a reload, changes the registry in two places.
LEMMA WhoRegisters ==
  ASSUME ControlInv, NEW f \in Others, StepOf(f)
  PROVE  \/ UNCHANGED <<registry, setUp>>
         \/ DisableBegins(f)
         \/ ReloadSetupReturns(f)
BY DEF StepOf, RunStep, CancelReturns, DisableTearsDown, DisableSkips, TeardownBegins,
       TeardownEnds, DisableEnds, DependentsBegin, LoopNext, Degrades, InitializeBegins,
       InitializeReturns, ReloadSetupBegins, ReloadReturns, Cancelled, FaultArises,
       ReloadRejected, ReloadBegins, ReloadRaises, pluginVars

LEMMA MainStarts == ASSUME ControlInv, MainStep PROVE StartOK'
<1>1. /\ list \in Seq(Plugins) /\ Order \in Seq(Plugins) /\ registry \in Seq(Plugins)
      /\ Len(list) \in Nat /\ Len(Order) \in Nat
  BY PluginsAssumption DEF ControlInv, LifeInv, LifeTypeOK
<1>2. CASE SetupReturns
  <2> DEFINE h == Head(list)
             n == Len(list)
             d == Len(Order) - n
  <2>1. /\ list # <<>> /\ n \in Nat \ {0} /\ h = list[1] /\ h \in Plugins
        /\ list' = Tail(list) /\ Len(list') = n - 1
        /\ \A i \in 1..(n - 1) : list'[i] = list[i + 1]
    BY <1>1, <1>2, AtHead DEF SetupReturns, ControlInv, LifeInv, LifeTypeOK
  <2>2. /\ n <= Len(Order)
        /\ \A i \in 1..n : list[i] = Order[d + i] /\ list[i] \notin Registered /\ setUp[list[i]] = 0
        /\ Registered \subseteq Range(Order) /\ \A r \in Reloaders : pc[r] = "idle"
    BY <1>2 DEF SetupReturns, ControlInv, StartOK, Done
  <2> HIDE DEF h, n, d
  <2>3. /\ Registered' = Registered \cup {h} /\ pc' = pc /\ mpc' = "setup"
        /\ setUp' = [setUp EXCEPT ![h] = @ + 1] /\ setUp \in [Plugins -> Nat]
    BY <1>1, <1>2, <2>1, RegisteringAdds
    DEF SetupReturns, Registered, runVars, h, ControlInv, BookTypeOK
  <2>4. \A i \in 1..(n - 1) : /\ i + 1 \in 1..n /\ d + (i + 1) \in 1..Len(Order)
                              /\ d + (i + 1) # d + 1
    BY <1>1, <2>1, <2>2 DEF d
  <2>5. d \in Nat /\ d + 1 \in 1..Len(Order) /\ 1 \in 1..n /\ Done' = d + 1
    <3>1. d \in Nat /\ d + 1 \in 1..Len(Order) /\ 1 \in 1..n /\ Len(Order) - (n - 1) = d + 1
      BY <1>1, <2>1, <2>2 DEF d
    <3>2. Done' = Len(Order) - Len(list')
      BY DEF Done
    <3> QED
      BY <2>1, <3>1, <3>2
  <2>6. h = Order[d + 1] /\ h \in Range(Order)
    BY <1>1, <2>1, <2>2, <2>5 DEF Range
  <2>7. ASSUME NEW i \in 1..(n - 1)
        PROVE  list'[i] = Order[Done' + i] /\ list'[i] \notin Registered' /\ setUp'[list'[i]] = 0
    <3>1. /\ list'[i] = Order[d + (i + 1)] /\ list'[i] \notin Registered
          /\ setUp[list'[i]] = 0
      BY <2>1, <2>2, <2>4
    <3>2. Order[d + (i + 1)] # h
      BY <2>4, <2>5, <2>6, OrderAssumption
    <3>3. Done' + i = d + (i + 1)
      BY <2>5
    <3>4. list'[i] \in Plugins
      BY <1>1, <2>1, <2>4
    <3> QED
      BY <2>3, <3>1, <3>2, <3>3, <3>4
  <2>8. Len(list') <= Len(Order)
    BY <1>1, <2>1, <2>2
  <2> QED
    BY <2>1, <2>2, <2>3, <2>6, <2>7, <2>8 DEF StartOK
<1>3. CASE ~SetupReturns
  <2>1. /\ UNCHANGED <<registry, setUp, pc>>
        /\ mpc' \in {"setup", "in_setup"} => UNCHANGED list
        /\ mpc' \in {"setup", "in_setup"} => mpc \in {"setup", "in_setup"}
        /\ mpc' \in {"setup", "in_setup", "rollback", "in_rollback"} =>
             mpc \in {"setup", "in_setup", "rollback", "in_rollback"}
    BY <1>3 DEF MainStep, SetupBegins, SetupDone, SetupFails, RollbackNext, TeardownBegins,
                MainTeardownReturns, TeardownEnds, StopBegins, CancelAll, CancelAllReturns,
                UnloadNext, Close, pluginVars, runVars
  <2>2. Registered' = Registered
    BY <2>1 DEF Registered
  <2>3. StartOK /\ (list' = list => Done' = Done)
    BY DEF ControlInv, Done
  <2>4. CASE mpc' \in {"setup", "in_setup"}
    <3>1. list' = list /\ Done' = Done /\ mpc \in {"setup", "in_setup"}
      BY <2>1, <2>3, <2>4
    <3>2. /\ Len(list) <= Len(Order)
          /\ \A i \in 1..Len(list) : /\ list[i] = Order[Done + i]
                                     /\ list[i] \notin Registered /\ setUp[list[i]] = 0
          /\ Registered \subseteq Range(Order)
          /\ \A r \in Reloaders : pc[r] = "idle"
      BY <2>3, <3>1 DEF StartOK
    <3> QED
      BY <2>1, <2>2, <3>1, <3>2 DEF StartOK
  <2>5. CASE mpc' \notin {"setup", "in_setup"}
    BY <2>1, <2>2, <2>3, <2>5 DEF StartOK
  <2> QED
    BY <2>4, <2>5
<1> QED
  BY <1>2, <1>3

LEMMA Starts == ASSUME ControlInv, [Next]_vars PROVE StartOK'
<1>1. CASE PluginStep \/ UNCHANGED vars
  <2>1. UNCHANGED <<registry, setUp, pc, mpc, list>>
    BY <1>1 DEF PluginStep, Registers, CreatesTask, TasksEnd, runVars, mainVars, vars
  <2> QED
    BY <2>1 DEF ControlInv, StartOK, Registered, Done
<1>2. ASSUME NEW f \in Others, StepOf(f) PROVE StartOK'
  <2>1. /\ UNCHANGED <<mpc, list>> /\ \A g \in Others \ {f} : pc'[g] = pc[g]
    BY <1>2, OthersWait DEF ControlInv
  <2>2. CASE mpc \notin {"setup", "in_setup", "rollback", "in_rollback"}
    BY <2>1, <2>2 DEF StartOK
  <2>3. CASE mpc \in {"setup", "in_setup", "rollback", "in_rollback"}
    <3>1. \A r \in Reloaders : pc[r] = "idle" /\ r # f
      BY <1>2, <2>3, RestingReload DEF ControlInv, StartOK
    <3>2. \A r \in Reloaders : pc'[r] = "idle"
      BY <2>1, <3>1 DEF Others
    <3>3. ~ReloadSetupReturns(f)
      BY <3>1, WhoSetsUp DEF ReloadSetupReturns
    <3>4. Registered' \subseteq Registered /\ setUp' = setUp
      <4>1. CASE UNCHANGED <<registry, setUp>>
        BY <4>1 DEF Registered
      <4>2. CASE DisableBegins(f)
        <5>1. registry' = Removing(Target(f)) /\ setUp' = setUp
          BY <4>2 DEF DisableBegins
        <5>2. Range(Removing(Target(f))) \subseteq Registered
          BY RemovingShrinks, HeadIsPlugin, <4>2
          DEF DisableBegins, Takes, ControlInv, LifeInv, LifeTypeOK
        <5> QED
          BY <5>1, <5>2 DEF Registered
      <4> QED
        BY <1>2, <3>3, <4>1, <4>2, WhoRegisters
    <3> QED
      BY <2>1, <3>2, <3>4 DEF ControlInv, StartOK, Done
  <2> QED
    BY <2>2, <2>3
<1> QED
  BY <1>1, <1>2, MainStarts, WhoSteps

LEMMA StaysInjective ==
  ASSUME ControlInv, [Next]_vars
  PROVE  IsInjective(registry') /\ config' \in Configs \cup {Range(Order)}
<1>1. registry \in Seq(Plugins) /\ IsInjective(registry) /\ config \in Configs \cup {Range(Order)}
  BY DEF ControlInv, LifeInv, LifeTypeOK
<1>2. CASE PluginStep \/ UNCHANGED vars
  BY <1>1, <1>2 DEF PluginStep, Registers, CreatesTask, TasksEnd, runVars, reloadVars, vars
<1>3. CASE MainStep
  <2>1. config' = config
    BY <1>3 DEF MainStep, SetupBegins, SetupReturns, SetupDone, SetupFails, RollbackNext,
                MainTeardownReturns, StopBegins, CancelAll, CancelAllReturns, UnloadNext, Close,
                runVars, reloadVars
  <2>2. CASE SetupReturns
    <3>1. Head(list) \in Plugins /\ registry' = Registering(Head(list))
      BY <2>2, AtHead DEF SetupReturns, ControlInv, LifeInv, LifeTypeOK
    <3> QED
      BY <1>1, <2>1, <3>1, RegisteringAdds
  <2>3. CASE ~SetupReturns
    BY <1>1, <1>3, <2>1, <2>3
    DEF MainStep, SetupBegins, SetupDone, SetupFails, RollbackNext, TeardownBegins,
        MainTeardownReturns, TeardownEnds, StopBegins, CancelAll, CancelAllReturns,
        UnloadNext, Close, pluginVars
  <2> QED
    BY <2>2, <2>3
<1>4. ASSUME NEW f \in Others, StepOf(f)
      PROVE  IsInjective(registry') /\ config' \in Configs \cup {Range(Order)}
  <2>1. config' \in Configs \cup {Range(Order)}
    BY <1>1, <1>4
    DEF StepOf, RunStep, DisableBegins, CancelReturns, DisableTearsDown, DisableSkips,
        DisableEnds, DependentsBegin, LoopNext, Degrades, InitializeBegins,
        InitializeReturns, ReloadSetupBegins, ReloadSetupReturns, ReloadReturns,
        Cancelled, FaultArises, ReloadRejected, ReloadBegins, ReloadRaises, reloadVars
  <2>2. CASE DisableBegins(f)
    <3>1. Target(f) \in Plugins /\ registry' = Removing(Target(f))
      BY <2>2, HeadIsPlugin DEF DisableBegins, Takes, ControlInv
    <3> QED
      BY <1>1, <2>1, <3>1, RemovingTakes
  <2>3. CASE ReloadSetupReturns(f)
    <3>1. Target(f) \in Plugins /\ registry' = Registering(Target(f))
      BY <2>3, WhoSetsUp DEF ReloadSetupReturns
    <3> QED
      BY <1>1, <2>1, <3>1, RegisteringAdds
  <2> QED
    BY <1>1, <1>4, <2>1, <2>2, <2>3, WhoRegisters
<1> QED
  BY <1>2, <1>3, <1>4, WhoSteps

LEMMA ControlInit == Init => ControlInv
<1> SUFFICES ASSUME Init PROVE ControlInv
  OBVIOUS
<1>1. LifeInv /\ IsInjective(registry) /\ config \in Configs \cup {Range(Order)}
  BY LifeInit DEF Init, IsInjective
<1>2. BookTypeOK /\ TurnsOK /\ ItemsOK
  BY RunsAssumption DEF Init, BookTypeOK, TurnsOK, ItemsOK, MainPlaces, Suspended, Others
<1>3. StartOK
  <2>1. Registered = {}
    BY DEF Init, Registered, Range
  <2>2. /\ list = Order /\ Len(Order) \in Nat /\ Len(list) - Len(list) = 0
        /\ \A i \in 1..Len(Order) : i \in Nat /\ 0 + i = i /\ Order[i] \in Plugins
    BY PluginsAssumption DEF Init
  <2> QED
    BY <2>1, <2>2 DEF Init, StartOK, Done, Others
<1> QED
  BY <1>1, <1>2, <1>3 DEF ControlInv

LEMMA ControlNext == ControlInv /\ [Next]_vars => ControlInv'
<1> SUFFICES ASSUME ControlInv, [Next]_vars PROVE ControlInv'
  OBVIOUS
<1>1. LifeInv' /\ BookTypeOK' /\ TurnsOK' /\ ItemsOK' /\ StartOK'
  BY LifeNext, BookTypes, TakesTurns, ItemsKept, Starts DEF ControlInv
<1> QED
  BY <1>1, StaysInjective DEF ControlInv

-----------------------------------------------------------------------------
(* Reloads that nothing disturbs.                                            *)

\* Reload r is under way.
Active(r) == agenda[r] # <<>> \/ turn = r

\* It is alone, while the controller runs.
Exclusive == \A r \in Reloaders : Active(r) =>
               mpc = "running" /\ \A o \in Others \ {r} : agenda[o] = <<>>

LEMMA DisturbedStays == ASSUME [Next]_vars PROVE disturbed \subseteq disturbed'
<1>1. CASE MainStep \/ PluginStep \/ UNCHANGED vars
  BY <1>1 DEF MainStep, SetupBegins, SetupReturns, SetupDone, SetupFails, RollbackNext,
              MainTeardownReturns, StopBegins, CancelAll, CancelAllReturns, UnloadNext, Close,
              PluginStep, Registers, CreatesTask, TasksEnd, runVars, reloadVars, vars
<1>2. ASSUME NEW f \in Others, StepOf(f) PROVE disturbed \subseteq disturbed'
  BY <1>2
  DEF StepOf, RunStep, DisableBegins, CancelReturns, DisableTearsDown, DisableSkips,
      DisableEnds, DependentsBegin, LoopNext, Degrades, InitializeBegins,
      InitializeReturns, ReloadSetupBegins, ReloadSetupReturns, ReloadReturns,
      Cancelled, FaultArises, ReloadRejected, ReloadBegins, ReloadRaises, reloadVars
<1> QED
  BY <1>1, <1>2, WhoSteps

\* Who works has something to do, and nobody begins where nothing is to do but
\* a fault, or a reload.
LEMMA WhoWorks ==
  ASSUME ControlInv, NEW f \in Others, StepOf(f)
  PROVE  \/ f \in Runs /\ turn = NoOne /\ \E p \in Plugins : FaultArises(f, p)
         \/ f \in Reloaders /\ ReloadBegins(f)
         \/ agenda[f] # <<>>
         \/ (turn = f \/ turn' = NoOne) /\ UNCHANGED <<agenda, pluginVars, config>>
<1>1. PlaceOK(f)
  BY DEF ControlInv, LifeInv, AgendasOK
<1>2. CASE RunStep(f)
  BY <1>1, <1>2
  DEF RunStep, DisableBegins, CancelReturns, DisableTearsDown, DisableSkips,
      DisableEnds, DependentsBegin, LoopNext, Degrades, InitializeBegins,
      InitializeReturns, ReloadSetupBegins, ReloadSetupReturns, ReloadReturns, Takes,
      PlaceOK, Working, pluginVars, reloadVars
<1>3. CASE ~RunStep(f)
  BY <1>1, <1>3 DEF StepOf, Cancelled, FaultArises, ReloadRejected, ReloadBegins, ReloadRaises,
                    PlaceOK, Working, pluginVars, reloadVars
<1> QED
  BY <1>2, <1>3

LEMMA StaysExclusive ==
  ASSUME ControlInv, disturbed = {} => Exclusive, [Next]_vars
  PROVE  disturbed' = {} => Exclusive'
<1> SUFFICES ASSUME disturbed' = {} PROVE Exclusive'
  OBVIOUS
<1>1. Exclusive
  BY DisturbedStays
<1>2. CASE PluginStep \/ UNCHANGED vars
  <2>1. UNCHANGED <<mpc, agenda, turn>>
    BY <1>2 DEF PluginStep, Registers, CreatesTask, TasksEnd, runVars, mainVars, vars
  <2> QED
    BY <1>1, <2>1 DEF Exclusive, Active
<1>3. CASE MainStep
  <2>1. UNCHANGED agenda /\ turn' \in {Main, NoOne}
    BY <1>3 DEF MainStep, SetupBegins, SetupReturns, SetupDone, SetupFails, RollbackNext,
                MainTeardownReturns, StopBegins, CancelAll, CancelAllReturns, UnloadNext, Close,
                runVars
  <2>2. \A r \in Reloaders : Active(r)' => agenda[r] # <<>>
    BY <2>1, RunsAssumption DEF Active
  <2>3. CASE StopBegins
    <3>1. \A r \in Reloaders : agenda[r] = <<>>
      BY <2>3 DEF StopBegins, Reloading
    <3> QED
      BY <2>2, <3>1 DEF Exclusive
  <2>4. CASE ~StopBegins
    <3>1. mpc = "running" => mpc' = "running"
      BY <1>3, <2>4 DEF MainStep, SetupBegins, SetupReturns, SetupDone, SetupFails, RollbackNext,
                        MainTeardownReturns, CancelAll, CancelAllReturns, UnloadNext, Close
    <3> QED
      BY <1>1, <2>1, <2>2, <3>1 DEF Exclusive, Active
  <2> QED
    BY <2>3, <2>4
<1>4. ASSUME NEW f \in Others, StepOf(f) PROVE Exclusive'
  <2>1. /\ UNCHANGED mpc /\ \A g \in Others \ {f} : agenda'[g] = agenda[g]
        /\ turn \in {f, NoOne} /\ turn' \in {f, NoOne}
        /\ NoOne \notin Others /\ Reloaders \subseteq Others
    BY <1>4, OthersWait, StepTakesTurn, RunsAssumption DEF ControlInv, Others
  <2>2. CASE f \in Runs /\ turn = NoOne /\ \E p \in Plugins : FaultArises(f, p)
    <3>1. f \notin Reloaders
      BY <2>2, RunsAssumption
    <3>2. CASE UNCHANGED <<turn, agenda>>
      BY <1>1, <2>1, <3>2 DEF Exclusive, Active
    <3>3. CASE ~UNCHANGED <<turn, agenda>>
      <4>1. \A r \in Reloaders : agenda[r] = <<>>
        BY <2>2, <3>3 DEF FaultArises, Reloading
      <4> QED
        BY <2>1, <3>1, <4>1 DEF Exclusive, Active
    <3> QED
      BY <3>2, <3>3
  <2>3. CASE f \in Reloaders /\ ReloadBegins(f)
    <3>1. mpc = "running" /\ \A o \in Others : agenda[o] = <<>>
      BY <2>3 DEF ReloadBegins
    <3> QED
      BY <2>1, <3>1 DEF Exclusive, Active
  <2>4. CASE agenda[f] # <<>>
    <3>1. \A r \in Reloaders : r # f => ~Active(r)
      BY <1>1, <2>1, <2>4 DEF Exclusive, Active
    <3>3. \A r \in Reloaders : r # f => ~Active(r)'
      BY <2>1, <3>1 DEF Active
    <3>4. f \in Reloaders => mpc = "running" /\ \A o \in Others \ {f} : agenda[o] = <<>>
      BY <1>1, <2>4 DEF Exclusive, Active
    <3> QED
      BY <2>1, <3>3, <3>4 DEF Exclusive
  <2>5. CASE (turn = f \/ turn' = NoOne) /\ UNCHANGED agenda
    BY <1>1, <2>1, <2>5 DEF Exclusive, Active
  <2> QED
    BY <1>4, <2>2, <2>3, <2>4, <2>5, WhoWorks
<1> QED
  BY <1>2, <1>3, <1>4, WhoSteps

\* What a reload has left leads to the configuration.
ReloadOK(r) ==
  /\ InTurn(agenda[r]) /\ ToSetUp(agenda[r]) \cap Registered = {}
  /\ Active(r) => /\ (Registered \ ToDisable(agenda[r])) \cup ToSetUp(agenda[r]) = config
                  /\ ToDisable(agenda[r]) \cap config = {}
  /\ pc[r] = "setting_up" => status[Target(r)] = "setup_started"
  /\ pc[r] \in Disabling => Target(r) \notin Registered

ReloadsOK == \A r \in Reloaders : ReloadOK(r)

AloneInv == ControlInv /\ (disturbed = {} => Exclusive /\ ReloadsOK)

\* Nothing is left.
LEMMA NothingLeft == ToSetUp(<<>>) = {} /\ ToDisable(<<>>) = {} /\ InTurn(<<>>)
BY DEF ToSetUp, ToDisable, InTurn

LEMMA IdleReload ==
  ASSUME ControlInv, NEW r \in Reloaders, ~Active(r)
  PROVE  ReloadOK(r)
<1>1. r \in Others /\ agenda[r] = <<>>
  BY DEF Active, Others
<1>2. pc[r] \notin Disabling \cup {"setting_up"}
  BY <1>1 DEF ControlInv, LifeInv, AgendasOK, PlaceOK, Working, Disabling
<1> QED
  BY <1>1, <1>2, NothingLeft DEF ReloadOK

\* Nobody else does anything to the plugins.
LEMMA NobodyElse ==
  ASSUME ControlInv, ControlInv', [Next]_vars, Exclusive, Exclusive', disturbed' = {},
         NEW r \in Reloaders, Active(r)', ~StepOf(r)
  PROVE  /\ UNCHANGED <<registry, status, config, mpc, pc[r], agenda[r]>>
         /\ Active(r) /\ mpc = "running" /\ UNCHANGED <<reason, setUp, torn>>
<1>1. r \in Others /\ r # Main /\ r # NoOne
  BY RunsAssumption DEF Others
<1>2. CASE PluginStep \/ UNCHANGED vars
  <2>1. UNCHANGED <<registry, status, config, mpc, pc, agenda, turn, reason, setUp, torn>>
    BY <1>2 DEF PluginStep, Registers, CreatesTask, TasksEnd, runVars, reloadVars, mainVars, vars
  <2>2. Active(r)
    BY <2>1 DEF Active
  <2> QED
    BY <2>1, <2>2 DEF Exclusive
<1>3. CASE MainStep
  <2>1. UNCHANGED agenda /\ turn' \in {Main, NoOne}
    BY <1>3 DEF MainStep, SetupBegins, SetupReturns, SetupDone, SetupFails, RollbackNext,
                MainTeardownReturns, StopBegins, CancelAll, CancelAllReturns, UnloadNext, Close,
                runVars
  <2>2. agenda[r] # <<>> /\ mpc = "running"
    BY <1>1, <2>1 DEF Active, Exclusive
  <2>3. StopBegins
    BY <1>3, <2>2 DEF MainStep, SetupBegins, SetupReturns, SetupDone, SetupFails, RollbackNext,
                      MainTeardownReturns, CancelAll, CancelAllReturns, UnloadNext, Close
  <2> QED
    BY <2>2, <2>3 DEF StopBegins, Reloading
<1>4. ASSUME NEW f \in Others, StepOf(f), f # r
      PROVE  /\ UNCHANGED <<registry, status, config, mpc, pc[r], agenda[r]>>
             /\ Active(r) /\ mpc = "running" /\ UNCHANGED <<reason, setUp, torn>>
  <2>1. /\ UNCHANGED <<mpc, pc[r], agenda[r]>> /\ turn' # r
    BY <1>1, <1>4, OthersWait, StepTakesTurn DEF ControlInv
  <2>2. agenda[r] # <<>> /\ agenda[f] = <<>> /\ agenda'[f] = <<>> /\ Active(r) /\ mpc = "running"
    BY <1>4, <2>1 DEF Active, Exclusive
  <2>3. CASE f \in Runs /\ turn = NoOne /\ \E p \in Plugins : FaultArises(f, p)
    BY <2>1, <2>2, <2>3 DEF FaultArises, reloadVars
  <2>4. ~(f \in Reloaders /\ ReloadBegins(f))
    BY <1>1, <2>2 DEF ReloadBegins, Reloading
  <2> QED
    BY <1>4, <2>1, <2>2, <2>3, <2>4, WhoWorks DEF pluginVars
<1> QED
  BY <1>2, <1>3, <1>4, WhoSteps

\* The reload's own steps, with its agenda before and after.
LEMMA ReloadMoves ==
  ASSUME ControlInv, ControlInv', NEW r \in Reloaders, StepOf(r), Active(r)', ReloadOK(r)
  PROVE  ReloadOK(r)'
<1> DEFINE p == Target(r)
<1>1. /\ r \in Others /\ r # NoOne /\ r \notin Runs /\ agenda[r] \in Seq(ReloadItems)
      /\ agenda[r] \in Seq(Items) /\ PlaceOK(r) /\ PlaceOK(r)'
      /\ registry \in Seq(Plugins) /\ IsInjective(registry)
      /\ pc \in [Others -> Working \cup {"idle", "on"} \cup Outcomes]
      /\ agenda \in [Others -> Seq(Items)] /\ status \in [Plugins -> Statuses]
  BY RunsAssumption DEF Others, ControlInv, ItemsOK, LifeInv, LifeTypeOK, AgendasOK
<1>2. agenda[r] # <<>> /\ Head(agenda[r]).do \in {"disable", "setup"} => p \in Plugins
  BY <1>1, HeadIsPlugin DEF ControlInv
<1>3. agenda[r] # <<>> =>
        /\ Head(agenda[r]).do = "setup" => ToSetUp(agenda[r]) = ToSetUp(Tail(agenda[r])) \cup {p}
        /\ Head(agenda[r]).do # "setup" => ToSetUp(agenda[r]) = ToSetUp(Tail(agenda[r]))
        /\ Head(agenda[r]).do = "disable" => ToDisable(agenda[r]) = ToDisable(Tail(agenda[r])) \cup {p}
        /\ Head(agenda[r]).do # "disable" => ToDisable(agenda[r]) = ToDisable(Tail(agenda[r]))
        /\ InTurn(agenda[r]) => InTurn(Tail(agenda[r]))
        /\ InTurn(agenda[r]) /\ Head(agenda[r]).do = "setup" =>
             p \notin ToSetUp(Tail(agenda[r]))
  BY <1>1, NextItem DEF Target
<1>4. /\ InTurn(agenda[r]) /\ ToSetUp(agenda[r]) \cap Registered = {}
      /\ (agenda[r] # <<>> \/ turn = r) =>
           /\ (Registered \ ToDisable(agenda[r])) \cup ToSetUp(agenda[r]) = config
           /\ ToDisable(agenda[r]) \cap config = {}
      /\ pc[r] = "setting_up" => status[p] = "setup_started"
      /\ pc[r] \in Disabling => p \notin Registered
  BY DEF ReloadOK, Active
<1>5. CASE ReloadBegins(r)
  <2>1. /\ agenda'[r] \in Seq(ReloadItems) /\ InTurn(agenda'[r])
        /\ ToDisable(agenda'[r]) = Registered \ config'
        /\ ToSetUp(agenda'[r]) = config' \ Registered
    BY <1>5, ReloadBeginsWith DEF ControlInv
  <2>2. Registered' = Registered /\ pc'[r] = "on"
    BY <1>1, <1>5 DEF ReloadBegins, Registered, pluginVars
  <2> QED
    BY <2>1, <2>2 DEF ReloadOK, Disabling
<1>6. CASE DisableBegins(r)
  <2>1. /\ agenda[r] # <<>> /\ Head(agenda[r]).do = "disable" /\ registry' = Removing(p)
        /\ UNCHANGED <<agenda, config>> /\ p \in Plugins /\ pc'[r] \in {"cleared", "cancelling"}
    BY <1>1, <1>2, <1>6 DEF DisableBegins, Takes, reloadVars
  <2>2. Registered' = Registered \ {p} /\ Target(r)' = p
    BY <1>1, <2>1, RemovingTakes DEF Registered, Target
  <2>3. p \in ToDisable(agenda[r])
    BY <1>3, <2>1
  <2> QED
    BY <1>4, <2>1, <2>2, <2>3 DEF ReloadOK, Disabling
<1>7. CASE CancelReturns(r) \/ DisableTearsDown(r)
  <2>1. /\ UNCHANGED <<agenda, config, registry>> /\ pc[r] \in Disabling /\ agenda[r] # <<>>
        /\ pc'[r] \in {"cleared", "tearing"}
    BY <1>1, <1>7 DEF CancelReturns, DisableTearsDown, TeardownBegins, reloadVars, pluginVars,
                      Disabling, PlaceOK, Working
  <2>2. Registered' = Registered /\ Target(r)' = p
    BY <2>1 DEF Registered, Target
  <2> QED
    BY <1>4, <2>1, <2>2 DEF ReloadOK, Disabling
<1>8. CASE DisableSkips(r) \/ DisableEnds(r)
  <2>1. /\ agenda[r] # <<>> /\ Head(agenda[r]).do = "disable" /\ pc[r] \in Disabling
        /\ agenda'[r] = Tail(agenda[r]) /\ UNCHANGED <<registry, config>> /\ pc'[r] = "on"
    BY <1>1, <1>8 DEF DisableSkips, DisableEnds, PopItem, reloadVars, Disabling, PlaceOK, Working
  <2>2. Registered' = Registered
    BY <2>1 DEF Registered
  <2> QED
    BY <1>3, <1>4, <2>1, <2>2 DEF ReloadOK, Disabling
<1>9. CASE InitializeBegins(r) \/ ReloadSetupBegins(r)
  <2>1. /\ agenda[r] # <<>> /\ UNCHANGED <<agenda, registry, config>>
        /\ pc'[r] \in {"initializing", "setting_up"}
        /\ pc'[r] = "setting_up" => Head(agenda[r]).do = "setup" /\ status' = [status EXCEPT ![p] = "setup_started"]
    BY <1>1, <1>9 DEF InitializeBegins, ReloadSetupBegins, Takes, reloadVars, pluginVars
  <2>2. Registered' = Registered /\ Target(r)' = p
    BY <2>1 DEF Registered, Target
  <2> QED
    BY <1>1, <1>2, <1>4, <2>1, <2>2 DEF ReloadOK, Disabling
<1>10. CASE InitializeReturns(r)
  <2>1. /\ agenda[r] # <<>> /\ Head(agenda[r]).do = "initialize"
        /\ agenda'[r] = Tail(agenda[r]) /\ UNCHANGED <<registry, config>> /\ pc'[r] = "on"
    BY <1>1, <1>10 DEF InitializeReturns, PopItem, reloadVars, pluginVars, PlaceOK, Working
  <2>2. Registered' = Registered
    BY <2>1 DEF Registered
  <2> QED
    BY <1>3, <1>4, <2>1, <2>2 DEF ReloadOK, Disabling
<1>11. CASE ReloadSetupReturns(r)
  <2>1. /\ agenda[r] # <<>> /\ Head(agenda[r]).do = "setup" /\ p \in Plugins
        /\ agenda'[r] = Tail(agenda[r]) /\ config' = config /\ pc'[r] = "on"
        /\ registry' = Registering(p)
    BY <1>1, <1>2, <1>11 DEF ReloadSetupReturns, PopItem, reloadVars, PlaceOK, Working
  <2>2. Registered' = Registered \cup {p}
    BY <1>1, <2>1, RegisteringAdds DEF Registered
  <2> QED
    BY <1>3, <1>4, <2>1, <2>2 DEF ReloadOK, Disabling
<1>12. CASE ReloadReturns(r) \/ Cancelled(r) \/ ReloadRaises(r)
  <2>1. agenda'[r] = <<>> /\ turn' = NoOne
    BY <1>1, <1>12 DEF ReloadReturns, Cancelled, ReloadRaises
  <2> QED
    BY <1>1, <2>1 DEF Active
<1>13. CASE ReloadRejected(r)
  <2>1. /\ UNCHANGED <<agenda, registry, config, turn>> /\ pc'[r] = "rejected"
    BY <1>1, <1>13 DEF ReloadRejected, reloadVars, pluginVars
  <2>2. Registered' = Registered
    BY <2>1 DEF Registered
  <2> QED
    BY <1>1, <1>4, <2>1, <2>2 DEF ReloadOK, Disabling, Active
<1>14. ~(DependentsBegin(r) \/ LoopNext(r) \/ Degrades(r))
  BY <1>1, TheItems DEF DependentsBegin, LoopNext, Degrades, Takes, ReloadItems
<1> QED
  BY <1>1, <1>5, <1>6, <1>7, <1>8, <1>9, <1>10, <1>11, <1>12, <1>13, <1>14 DEF StepOf, RunStep

LEMMA AloneInit == Init => AloneInv
<1> SUFFICES ASSUME Init PROVE AloneInv
  OBVIOUS
<1>1. ControlInv
  BY ControlInit
<1>2. \A r \in Reloaders : ~Active(r)
  BY RunsAssumption DEF Init, Active, Others
<1> QED
  BY <1>1, <1>2, IdleReload DEF AloneInv, Exclusive, ReloadsOK

LEMMA AloneNext == AloneInv /\ [Next]_vars => AloneInv'
<1> SUFFICES ASSUME AloneInv, [Next]_vars PROVE AloneInv'
  OBVIOUS
<1>1. ControlInv /\ ControlInv' /\ (disturbed' = {} => Exclusive')
  BY ControlNext, StaysExclusive DEF AloneInv
<1>2. ASSUME disturbed' = {}, NEW r \in Reloaders PROVE ReloadOK(r)'
  <2>1. Exclusive /\ Exclusive' /\ ReloadOK(r)
    BY <1>1, <1>2, DisturbedStays DEF AloneInv, ReloadsOK
  <2>2. CASE ~Active(r)'
    <3>1. (~Active(r) => ReloadOK(r))'
      BY <1>1, IdleReload, PTL
    <3> QED
      BY <2>2, <3>1
  <2>3. CASE Active(r)' /\ StepOf(r)
    BY <1>1, <2>1, <2>3, ReloadMoves
  <2>4. CASE Active(r)' /\ ~StepOf(r)
    <3>1. /\ UNCHANGED <<registry, status, config, mpc, pc[r], agenda[r]>>
          /\ Active(r)
      BY <1>1, <1>2, <2>1, <2>4, NobodyElse
    <3>2. Registered' = Registered /\ Target(r)' = Target(r)
      BY <3>1 DEF Registered, Target
    <3> QED
      BY <2>1, <2>4, <3>1, <3>2 DEF ReloadOK
  <2> QED
    BY <2>2, <2>3, <2>4
<1> QED
  BY <1>1, <1>2 DEF AloneInv, ReloadsOK

-----------------------------------------------------------------------------
(* The registry, as long as no plugin fails while another is set up, or no   *)
(* plugin has been disabled at all.                                          *)

FaultsSpareSetups == "in_setup" \notin FaultsWhen \/ NoneDisabled

\* Until stop(), or a rollback, begins.
Early == mpc \in {"setup", "in_setup", "running"}

\* A fault was counted that has no effect yet.
AboutToDisable(f) == turn = f /\ pc[f] = "on" /\ Head(agenda[f]).do = "disable"

Agrees(p) == /\ p \in Registered => /\ status[p] \in {"ready", "teardown_started", "torn_down"}
                                    /\ Early => status[p] = "ready"
             /\ status[p] = "ready" => p \in Registered
StatusesAgree == \A p \in Plugins : Agrees(p)

StartUndisturbed ==
  mpc \in {"setup", "in_setup"} =>
    /\ \A f \in Others : agenda[f] # <<>> => AboutToDisable(f) /\ "in_setup" \in FaultsWhen
    /\ \A i \in 1..Done : Order[i] \in Registered

DisabledLeave == \A f \in Others : pc[f] \in Disabling => Target(f) \notin Registered

\* Each plugin is behind the ones it requires.
RequiredBefore ==
  NoneDisabled =>
    \A i \in 1..Len(registry) : \A p \in Requires[registry[i]] :
      \E j \in 1..(i - 1) : registry[j] = p

RegistryOK == StatusesAgree /\ StartUndisturbed /\ DisabledLeave /\ RequiredBefore

RegistryInv == AloneInv /\ (disturbed = {} /\ FaultsSpareSetups => RegistryOK)

\* Nobody interferes with Main while it starts.
LEMMA MainStartsAlone ==
  ASSUME ControlInv, StartUndisturbed, mpc \in {"setup", "in_setup"}, turn \notin Others
  PROVE  \A f \in Others : agenda[f] = <<>> /\ pc[f] \notin Working
BY DEF StartUndisturbed, AboutToDisable, ControlInv, LifeInv, AgendasOK, PlaceOK

\* What Main sets up next.
LEMMA NextToSetUp ==
  ASSUME ControlInv, mpc \in {"setup", "in_setup"}, list # <<>>
  PROVE  /\ Head(list) \in Plugins /\ Head(list) \notin Registered /\ setUp[Head(list)] = 0
         /\ Done \in Nat /\ Done + 1 \in 1..Len(Order) /\ Head(list) = Order[Done + 1]
         /\ list' = Tail(list) => Done' = Done + 1
<1>1. /\ list \in Seq(Plugins) /\ Len(list) \in Nat \ {0} /\ Head(list) = list[1]
      /\ Head(list) \in Plugins /\ Len(Tail(list)) = Len(list) - 1
  BY AtHead DEF ControlInv, LifeInv, LifeTypeOK
<1>2. Len(Order) \in Nat /\ 1 \in 1..Len(list)
  BY <1>1, PluginsAssumption
<1>3. /\ Len(list) <= Len(Order) /\ list[1] = Order[Done + 1]
      /\ list[1] \notin Registered /\ setUp[list[1]] = 0
  BY <1>2 DEF ControlInv, StartOK
<1>4. Done \in Nat /\ Done + 1 \in 1..Len(Order)
  BY <1>1, <1>2, <1>3 DEF Done
<1>5. list' = Tail(list) => Done' = Done + 1
  <2>1. Done' = Len(Order) - Len(list')
    BY DEF Done
  <2> QED
    BY <1>1, <1>2, <2>1 DEF Done
<1> QED
  BY <1>1, <1>3, <1>4, <1>5

LEMMA MainFindsRequired ==
  ASSUME ControlInv, StartUndisturbed, mpc \in {"setup", "in_setup"}, list # <<>>
  PROVE  Requires[Head(list)] \subseteq Registered
<1>1. /\ Done \in Nat /\ Done + 1 \in 1..Len(Order) /\ Head(list) = Order[Done + 1]
      /\ \A i \in 1..Done : Order[i] \in Registered
  BY NextToSetUp DEF StartUndisturbed
<1>2. ASSUME NEW p \in Requires[Head(list)] PROVE p \in Registered
  <2>1. p \in Range(Order)
    BY <1>1, OrderAssumption
  <2>2. PICK j \in 1..Len(Order) : p = Order[j]
    BY <2>1, PluginsAssumption DEF Range
  <2>3. j < Done + 1
    BY <1>1, <2>2, OrderAssumption
  <2> QED
    BY <1>1, <2>2, <2>3
<1> QED
  BY <1>2

LEMMA ConfigClosed ==
  ASSUME ControlInv, NEW p \in config
  PROVE  p \in Range(Order) /\ Requires[p] \subseteq config /\ p \notin Requires[p]
<1>1. p \in Range(Order)
  BY ConfigsAssumption DEF ControlInv
<1>2. PICK i \in 1..Len(Order) : p = Order[i]
  BY <1>1, PluginsAssumption DEF Range
<1>3. Requires[p] \subseteq Range(Order)
  BY <1>2, OrderAssumption
<1>4. p \notin Requires[p]
  BY <1>2, OrderAssumption, PluginsAssumption
<1> QED
  BY <1>1, <1>3, <1>4, ConfigsAssumption DEF ControlInv

LEMMA ReloadFindsRequired ==
  ASSUME ControlInv, NEW r \in Reloaders, ReloadOK(r), agenda[r] # <<>>,
         Head(agenda[r]).do = "setup"
  PROVE  /\ Target(r) \in Plugins /\ Target(r) \notin Registered
         /\ Requires[Target(r)] \subseteq Registered
<1> DEFINE p == Target(r)
<1>1. /\ r \in Others /\ agenda[r] \in Seq(Items) /\ p \in Plugins
      /\ InTurn(agenda[r]) /\ ToSetUp(agenda[r]) \cap Registered = {}
      /\ (Registered \ ToDisable(agenda[r])) \cup ToSetUp(agenda[r]) = config
  BY HeadIsPlugin DEF ReloadOK, Active, Others, ControlInv, LifeInv, LifeTypeOK
<1>2. /\ ToSetUp(agenda[r]) = ToSetUp(Tail(agenda[r])) \cup {p}
      /\ \A q \in ToSetUp(Tail(agenda[r])) : q \notin Requires[p]
  BY <1>1, NextItem DEF Target
<1>3. p \in config
  BY <1>1, <1>2
<1>4. Requires[p] \subseteq config /\ p \notin Requires[p]
  BY <1>3, ConfigClosed
<1> QED
  BY <1>1, <1>2, <1>4

\* Reasons are never taken back.
LEMMA ReasonsStay ==
  ASSUME ControlInv, [Next]_vars
  PROVE  /\ NoneDisabled' => NoneDisabled
         /\ (\E f \in Others : DisableBegins(f)) => ~NoneDisabled'
         /\ (\A f \in Others : ~DisableBegins(f)) => reason' = reason
<1>1. ASSUME NEW f \in Others, DisableBegins(f)
      PROVE  /\ NoneDisabled' => NoneDisabled
             /\ ~NoneDisabled'
  <2> DEFINE p == Target(f)
  <2>1. /\ agenda[f] # <<>> /\ Head(agenda[f]).do = "disable"
        /\ reason' = [reason EXCEPT ![p] = Head(agenda[f]).why]
    BY <1>1 DEF DisableBegins, Takes
  <2>2. p \in Plugins /\ reason \in [Plugins -> Reasons]
    BY <2>1, HeadIsPlugin DEF ControlInv, LifeInv, LifeTypeOK
  <2>3. Head(agenda[f]).why # None
    <3>1. Head(agenda[f]) = agenda[f][1] /\ 1 \in 1..Len(agenda[f])
      BY <2>1, AtHead DEF ControlInv, LifeInv, LifeTypeOK
    <3> QED
      BY <2>1, <3>1 DEF ControlInv, LifeInv, AgendasOK, ItemOK
  <2>4. reason'[p] # None
    BY <2>1, <2>2, <2>3
  <2> QED
    BY <2>2, <2>4 DEF NoneDisabled
<1>2. ASSUME \A f \in Others : ~DisableBegins(f) PROVE reason' = reason
  <2>1. CASE MainStep \/ PluginStep \/ UNCHANGED vars
    BY <2>1 DEF MainStep, SetupBegins, SetupReturns, SetupDone, SetupFails, RollbackNext,
                MainTeardownReturns, StopBegins, CancelAll, CancelAllReturns, UnloadNext, Close,
                PluginStep, Registers, CreatesTask, TasksEnd, pluginVars, vars
  <2>2. ASSUME NEW f \in Others, StepOf(f) PROVE reason' = reason
    BY <1>2, <2>2
    DEF StepOf, RunStep, CancelReturns, DisableTearsDown, DisableSkips,
        DisableEnds, DependentsBegin, LoopNext, Degrades, InitializeBegins,
        InitializeReturns, ReloadSetupBegins, ReloadSetupReturns, ReloadReturns,
        Cancelled, FaultArises, ReloadRejected, ReloadBegins, ReloadRaises, pluginVars
  <2> QED
    BY <2>1, <2>2, WhoSteps
<1>3. CASE \E f \in Others : DisableBegins(f)
  BY <1>1, <1>3
<1>4. CASE \A f \in Others : ~DisableBegins(f)
  BY <1>2, <1>4 DEF NoneDisabled
<1> QED
  BY <1>3, <1>4

\* A fault that was counted takes effect at once.
LEMMA DisablesNext ==
  ASSUME ControlInv, NEW f \in Others, StepOf(f), agenda[f] # <<>>, AboutToDisable(f)
  PROVE  DisableBegins(f)
<1>1. turn = f /\ pc[f] = "on" /\ Head(agenda[f]).do = "disable" /\ f # NoOne
  BY RunsAssumption DEF AboutToDisable, Others
<1> QED
  BY <1>1
  DEF StepOf, RunStep, CancelReturns, DisableTearsDown, DisableSkips,
      DisableEnds, DependentsBegin, LoopNext, Degrades, InitializeBegins,
      InitializeReturns, ReloadSetupBegins, ReloadSetupReturns, ReloadReturns, Takes,
      Cancelled, FaultArises, ReloadRejected, ReloadBegins, ReloadRaises

\* How a coroutine comes to be at work on a plugin.
LEMMA WhoDisables ==
  ASSUME ControlInv, NEW f \in Others, StepOf(f), pc'[f] \in Disabling
  PROVE  /\ DisableBegins(f) \/ CancelReturns(f) \/ DisableTearsDown(f)
         /\ agenda[f] # <<>> /\ UNCHANGED agenda /\ Target(f)' = Target(f)
         /\ Target(f) \in Plugins
<1>1. /\ pc \in [Others -> Working \cup {"idle", "on"} \cup Outcomes] /\ PlaceOK(f)
  BY DEF ControlInv, LifeInv, LifeTypeOK, AgendasOK
<1>2. DisableBegins(f) \/ CancelReturns(f) \/ DisableTearsDown(f)
  BY <1>1
  DEF StepOf, RunStep, DisableBegins, CancelReturns, DisableTearsDown, DisableSkips,
      DisableEnds, DependentsBegin, LoopNext, Degrades, InitializeBegins,
      InitializeReturns, ReloadSetupBegins, ReloadSetupReturns, ReloadReturns, Takes,
      Cancelled, FaultArises, ReloadRejected, ReloadBegins, ReloadRaises, Disabling
<1>3. /\ UNCHANGED agenda /\ agenda[f] # <<>> /\ Head(agenda[f]).do = "disable"
  BY <1>1, <1>2 DEF DisableBegins, CancelReturns, DisableTearsDown, Takes, PlaceOK, Working
<1> QED
  BY <1>2, <1>3, HeadIsPlugin DEF Target, ControlInv

\* A step that concerns one plugin.
LEMMA AgreesStep ==
  ASSUME StatusesAgree, NEW p \in Plugins, Agrees(p)', Early' => Early,
         \A q \in Plugins \ {p} : /\ status'[q] = status[q]
                                  /\ q \in Registered' <=> q \in Registered
  PROVE  StatusesAgree'
BY DEF StatusesAgree, Agrees

LEMMA MainAgrees ==
  ASSUME ControlInv, StatusesAgree, MainStep
  PROVE  StatusesAgree'
<1>1. /\ Early' => Early
      /\ status \in [Plugins -> Statuses] /\ list \in Seq(Plugins) /\ registry \in Seq(Plugins)
      /\ mpc \in {"in_setup", "in_rollback", "in_unload"} => list # <<>>
      /\ list # <<>> => Head(list) \in Plugins
  BY AtHead
  DEF MainStep, SetupBegins, SetupReturns, SetupDone, SetupFails, RollbackNext,
      MainTeardownReturns, StopBegins, CancelAll, CancelAllReturns, UnloadNext, Close,
      Early, ControlInv, LifeInv, LifeTypeOK
<1>2. CASE SetupBegins \/ SetupFails
  <2>0. PICK h \in Plugins : list # <<>> /\ h = Head(list)
    BY <1>1, <1>2 DEF SetupBegins, SetupFails
  <2>1. /\ list # <<>> /\ registry' = registry /\ h \notin Registered
        /\ \/ status' = [status EXCEPT ![h] = "setup_started"]
           \/ status' = [status EXCEPT ![h] = "failed"]
    BY <1>1, <1>2, <2>0, NextToSetUp DEF SetupBegins, SetupFails
  <2>2. Agrees(h)' /\ Registered' = Registered
    BY <1>1, <2>1 DEF Agrees, Registered
  <2> QED
    BY <1>1, <2>1, <2>2, AgreesStep
<1>3. CASE SetupReturns
  <2>0. PICK h \in Plugins : list # <<>> /\ h = Head(list)
    BY <1>1, <1>3 DEF SetupReturns
  <2>1. /\ list # <<>> /\ registry' = Registering(h)
        /\ status' = [status EXCEPT ![h] = "ready"]
    BY <1>1, <1>3, <2>0 DEF SetupReturns
  <2>2. Registered' = Registered \cup {h}
    BY <1>1, <2>1, RegisteringAdds DEF Registered
  <2>3. Agrees(h)'
    BY <1>1, <2>1, <2>2 DEF Agrees
  <2> QED
    BY <1>1, <2>1, <2>2, <2>3, AgreesStep
<1>4. CASE RollbackNext \/ MainTeardownReturns \/ UnloadNext
  <2>0. PICK h \in Plugins : list # <<>> /\ h = Head(list)
    BY <1>1, <1>4 DEF RollbackNext, MainTeardownReturns, UnloadNext
  <2>1. /\ list # <<>> /\ registry' = registry /\ ~Early'
        /\ \/ UNCHANGED status
           \/ /\ status[h] = "ready"
              /\ status' = [status EXCEPT ![h] = "teardown_started"]
           \/ /\ mpc = "unload"
              /\ status' = [status EXCEPT ![h] = "teardown_started"]
           \/ status' = [status EXCEPT ![h] = "torn_down"]
    BY <1>1, <1>4, <2>0 DEF RollbackNext, MainTeardownReturns, UnloadNext, TeardownBegins, TeardownEnds,
                      Early
  <2>2. Agrees(h)' /\ Registered' = Registered
    <3>1. Agrees(h) /\ Registered' = Registered
      BY <1>1, <2>1 DEF StatusesAgree, Registered
    <3> QED
      BY <1>1, <2>1, <3>1 DEF Agrees
  <2>3. \A q \in Plugins \ {h} : status'[q] = status[q]
    BY <1>1, <2>1
  <2> QED
    BY <1>1, <2>1, <2>2, <2>3, AgreesStep
<1>5. CASE SetupDone \/ StopBegins \/ CancelAll \/ CancelAllReturns \/ Close
  <2>1. UNCHANGED <<status, registry>>
    BY <1>5 DEF SetupDone, StopBegins, CancelAll, CancelAllReturns, Close, pluginVars
  <2> QED
    BY <1>1, <2>1 DEF StatusesAgree, Agrees, Registered
<1> QED
  BY <1>2, <1>3, <1>4, <1>5 DEF MainStep

\* Where a coroutine changes what is known of a plugin.
LEMMA WhoMarks ==
  ASSUME ControlInv, NEW f \in Others, StepOf(f)
  PROVE  \/ UNCHANGED <<status, registry>>
         \/ DisableBegins(f) \/ ReloadSetupReturns(f)
         \/ /\ agenda[f] # <<>> /\ registry' = registry
            /\ \/ pc[f] \in Disabling /\ Head(agenda[f]).do = "disable"
               \/ f \in Reloaders /\ Head(agenda[f]).do = "setup"
            /\ \E mark \in Statuses \ {"ready"} : status' = [status EXCEPT ![Target(f)] = mark]
<1>1. PlaceOK(f) /\ (f \in Runs \/ f \in Reloaders)
  BY DEF ControlInv, LifeInv, AgendasOK, Others
<1>2. CASE ReloadSetupBegins(f)
  <2>1. agenda[f] # <<>> /\ Head(agenda[f]).do = "setup"
    BY <1>2 DEF ReloadSetupBegins, Takes
  <2>2. f \in Reloaders
    BY <1>1, <2>1, TheItems DEF RunItems
  <2> QED
    BY <1>2, <2>1, <2>2 DEF ReloadSetupBegins, Statuses
<1>3. CASE DisableTearsDown(f) \/ DisableSkips(f) \/ DisableEnds(f)
  BY <1>1, <1>3 DEF DisableTearsDown, TeardownBegins, DisableSkips, DisableEnds, Statuses,
                    PlaceOK, Working, Disabling
<1>4. CASE Cancelled(f)
  <2>1. CASE pc[f] = "tearing"
    BY <1>1, <1>4, <2>1 DEF Cancelled, TeardownEnds, Statuses, PlaceOK, Working, Disabling
  <2>2. CASE pc[f] # "tearing"
    BY <1>4, <2>2 DEF Cancelled
  <2> QED
    BY <2>1, <2>2
<1>5. CASE f \in Reloaders /\ ReloadRaises(f)
  BY <1>1, <1>5 DEF ReloadRaises, Statuses, PlaceOK, Working
<1> QED
  BY <1>2, <1>3, <1>4, <1>5
  DEF StepOf, RunStep, CancelReturns, DependentsBegin, LoopNext, Degrades, InitializeBegins,
      InitializeReturns, ReloadReturns, FaultArises, ReloadRejected, ReloadBegins, pluginVars

LEMMA StepAgrees ==
  ASSUME ControlInv, StatusesAgree, DisabledLeave, ReloadsOK, NEW f \in Others, StepOf(f)
  PROVE  StatusesAgree'
<1>1. /\ mpc' = mpc /\ status \in [Plugins -> Statuses] /\ registry \in Seq(Plugins)
      /\ IsInjective(registry) /\ StatusesAgree
  BY OthersWait DEF ControlInv, LifeInv, LifeTypeOK
<1>2. agenda[f] # <<>> /\ Head(agenda[f]).do \in {"disable", "setup"} =>
        \E p \in Plugins : p = Target(f)
  BY HeadIsPlugin DEF ControlInv
<1>3. CASE DisableBegins(f)
  <2>1. PICK p \in Plugins :
          registry' = Removing(p) /\ status' = [status EXCEPT ![p] = "disabled"]
    BY <1>2, <1>3 DEF DisableBegins, Takes
  <2>2. Registered' = Registered \ {p}
    BY <1>1, <2>1, RemovingTakes DEF Registered
  <2>3. Agrees(p)'
    BY <1>1, <2>1, <2>2 DEF Agrees
  <2> QED
    BY <1>1, <2>1, <2>2, <2>3, AgreesStep DEF Early
<1>4. CASE ReloadSetupReturns(f)
  <2>1. PICK p \in Plugins :
          registry' = Registering(p) /\ status' = [status EXCEPT ![p] = "ready"]
    BY <1>4, WhoSetsUp DEF ReloadSetupReturns
  <2>2. Registered' = Registered \cup {p}
    BY <1>1, <2>1, RegisteringAdds DEF Registered
  <2>3. Agrees(p)'
    BY <1>1, <2>1, <2>2 DEF Agrees
  <2> QED
    BY <1>1, <2>1, <2>2, <2>3, AgreesStep DEF Early
<1>5. CASE UNCHANGED <<status, registry>>
  BY <1>1, <1>5 DEF StatusesAgree, Agrees, Registered, Early
<1>6. ASSUME agenda[f] # <<>>, registry' = registry,
             \/ pc[f] \in Disabling /\ Head(agenda[f]).do = "disable"
             \/ f \in Reloaders /\ Head(agenda[f]).do = "setup",
             NEW mark \in Statuses \ {"ready"}, status' = [status EXCEPT ![Target(f)] = mark]
      PROVE  StatusesAgree'
  <2>1. PICK p \in Plugins : p = Target(f) /\ p \notin Registered
    <3>1. CASE pc[f] \in Disabling /\ Head(agenda[f]).do = "disable"
      BY <1>2, <1>6, <3>1 DEF DisabledLeave
    <3>2. CASE f \in Reloaders /\ Head(agenda[f]).do = "setup"
      BY <1>6, <3>2, ReloadFindsRequired DEF ReloadsOK
    <3> QED
      BY <1>6, <3>1, <3>2
  <2>2. Registered' = Registered /\ Agrees(p)'
    BY <1>1, <1>6, <2>1 DEF Agrees, Registered
  <2> QED
    BY <1>1, <1>6, <2>1, <2>2, AgreesStep DEF Early
<1> QED
  BY <1>3, <1>4, <1>5, <1>6, WhoMarks

LEMMA MainStartsOn ==
  ASSUME ControlInv, StartUndisturbed, MainStep
  PROVE  StartUndisturbed'
<1> SUFFICES ASSUME mpc' \in {"setup", "in_setup"} PROVE StartUndisturbed'
  BY DEF StartUndisturbed
<1>1. /\ mpc \in {"setup", "in_setup"} /\ turn \notin Others /\ UNCHANGED agenda
      /\ (list' = list \/ SetupReturns) /\ (registry' = registry \/ SetupReturns)
  BY RunsAssumption
  DEF MainStep, SetupBegins, SetupReturns, SetupDone, SetupFails, RollbackNext,
      MainTeardownReturns, StopBegins, CancelAll, CancelAllReturns, UnloadNext, Close,
      TeardownBegins, TeardownEnds, pluginVars, runVars, Others
<1>2. \A f \in Others : agenda'[f] = <<>>
  BY <1>1, MainStartsAlone
<1>3. \A i \in 1..Done : Order[i] \in Registered
  BY <1>1 DEF StartUndisturbed
<1>4. CASE SetupReturns
  <2>1. list # <<>> /\ registry' = Registering(Head(list)) /\ registry \in Seq(Plugins)
        /\ list' = Tail(list)
    BY <1>4 DEF SetupReturns, ControlInv, LifeInv, LifeTypeOK
  <2>2. /\ Head(list) \in Plugins /\ Done \in Nat /\ Head(list) = Order[Done + 1]
        /\ Done' = Done + 1
    BY <1>1, <2>1, NextToSetUp
  <2>3. Registered' = Registered \cup {Head(list)}
    BY <2>1, <2>2, RegisteringAdds DEF Registered
  <2>4. \A i \in 1..(Done + 1) : i \in 1..Done \/ i = Done + 1
    BY <2>2
  <2>5. \A i \in 1..Done' : Order[i] \in Registered'
    BY <1>3, <2>2, <2>3, <2>4
  <2> QED
    BY <1>2, <2>5 DEF StartUndisturbed
<1>5. CASE ~SetupReturns
  <2>1. list' = list /\ registry' = registry
    BY <1>1, <1>5
  <2>2. Done' = Done /\ Registered' = Registered
    BY <2>1 DEF Done, Registered
  <2> QED
    BY <1>2, <1>3, <2>2 DEF StartUndisturbed
<1> QED
  BY <1>4, <1>5

LEMMA StepStartsOn ==
  ASSUME ControlInv, StartUndisturbed, NEW f \in Others, StepOf(f),
         "in_setup" \notin FaultsWhen \/ ~DisableBegins(f)
  PROVE  StartUndisturbed'
<1>1. /\ UNCHANGED <<mpc, list>> /\ \A g \in Others \ {f} : agenda'[g] = agenda[g]
      /\ turn \in {f, NoOne} /\ NoOne \notin Others
  BY OthersWait, StepTakesTurn, RunsAssumption DEF ControlInv, Others
<1> SUFFICES ASSUME mpc \in {"setup", "in_setup"} PROVE StartUndisturbed'
  BY <1>1 DEF StartUndisturbed
<1>2. \A g \in Others \ {f} : agenda'[g] = <<>>
  BY <1>1 DEF StartUndisturbed, AboutToDisable
<1>3. agenda[f] # <<>> => AboutToDisable(f) /\ "in_setup" \in FaultsWhen
  BY DEF StartUndisturbed
<1>4. agenda[f] # <<>> => DisableBegins(f)
  BY <1>3, DisablesNext
<1>5. agenda[f] = <<>>
  BY <1>3, <1>4
<1>6. UNCHANGED registry /\ (agenda'[f] # <<>> => AboutToDisable(f)' /\ "in_setup" \in FaultsWhen)
  <2>1. CASE f \in Runs /\ turn = NoOne /\ \E p \in Plugins : FaultArises(f, p)
    <3>1. PICK p \in Plugins : FaultArises(f, p)
      BY <2>1
    <3>2. registry' = registry /\ mpc \in FaultsWhen
      BY <3>1 DEF FaultArises
    <3>3. CASE UNCHANGED agenda
      BY <1>5, <3>2, <3>3
    <3>4. CASE ~UNCHANGED agenda
      <4> DEFINE items == <<Disable(p, "faults"), Dependents(p), Degrade>>
      <4>1. turn' = f /\ pc' = [pc EXCEPT ![f] = "on"] /\ agenda' = [agenda EXCEPT ![f] = items]
        BY <3>1, <3>4 DEF FaultArises
      <4>2. Head(items).do = "disable"
        BY DEF Disable
      <4> HIDE DEF items
      <4>3. agenda'[f] = items /\ pc'[f] = "on"
        BY <4>1 DEF ControlInv, LifeInv, LifeTypeOK
      <4>4. AboutToDisable(f)'
        BY <4>1, <4>2, <4>3 DEF AboutToDisable
      <4> QED
        BY <3>2, <4>4, FaultsAssumption DEF Suspended
    <3> QED
      BY <3>3, <3>4
  <2>2. ~(f \in Reloaders /\ ReloadBegins(f))
    BY DEF ReloadBegins
  <2> QED
    BY <1>5, <2>1, <2>2, WhoWorks DEF pluginVars
<1>7. Done' = Done /\ Registered' = Registered
  BY <1>1, <1>6 DEF Done, Registered
<1> QED
  BY <1>1, <1>2, <1>6, <1>7 DEF StartUndisturbed

LEMMA MainLeaves ==
  ASSUME ControlInv, StartUndisturbed, DisabledLeave, MainStep
  PROVE  DisabledLeave'
<1>1. UNCHANGED <<pc, agenda>> /\ (registry' = registry \/ SetupReturns)
  BY DEF MainStep, SetupBegins, SetupReturns, SetupDone, SetupFails, RollbackNext,
         MainTeardownReturns, StopBegins, CancelAll, CancelAllReturns, UnloadNext, Close,
         TeardownBegins, TeardownEnds, pluginVars, runVars
<1>2. CASE SetupReturns
  <2>1. \A f \in Others : pc[f] \notin Working
    BY <1>2, MainStartsAlone, RunsAssumption DEF SetupReturns, Others
  <2> QED
    BY <1>1, <2>1 DEF DisabledLeave, Disabling, Working
<1>3. CASE registry' = registry
  BY <1>1, <1>3 DEF DisabledLeave, Registered, Target
<1> QED
  BY <1>1, <1>2, <1>3

LEMMA StepLeaves ==
  ASSUME ControlInv, Exclusive, DisabledLeave, NEW f \in Others, StepOf(f)
  PROVE  DisabledLeave'
<1>1. /\ \A g \in Others \ {f} : pc'[g] = pc[g] /\ agenda'[g] = agenda[g]
      /\ registry \in Seq(Plugins) /\ IsInjective(registry) /\ PlaceOK(f)
      /\ pc \in [Others -> Working \cup {"idle", "on"} \cup Outcomes]
  BY OthersWait DEF ControlInv, LifeInv, LifeTypeOK, AgendasOK
<1>2. Registered' \subseteq Registered \/ ReloadSetupReturns(f)
  <2>1. CASE DisableBegins(f)
    <3>1. PICK p \in Plugins : registry' = Removing(p)
      BY <2>1, HeadIsPlugin DEF DisableBegins, Takes, ControlInv
    <3> QED
      BY <1>1, <3>1, RemovingShrinks DEF Registered
  <2>2. CASE UNCHANGED <<registry, setUp>>
    BY <2>2 DEF Registered
  <2> QED
    BY <2>1, <2>2, WhoRegisters
<1>3. ASSUME NEW g \in Others \ {f}, pc'[g] \in Disabling PROVE Target(g)' \notin Registered'
  <2>1. agenda[g] # <<>>
    BY <1>1, <1>3 DEF ControlInv, LifeInv, AgendasOK, PlaceOK, Working, Disabling
  <2>2. ~ReloadSetupReturns(f)
    <3>1. ReloadSetupReturns(f) => f \in Reloaders /\ agenda[f] # <<>>
      BY WhoSetsUp DEF ReloadSetupReturns
    <3> QED
      BY <2>1, <3>1 DEF Exclusive, Active
  <2>3. Target(g)' = Target(g)
    BY <1>1 DEF Target
  <2> QED
    BY <1>1, <1>2, <1>3, <2>2, <2>3 DEF DisabledLeave
<1>4. ASSUME pc'[f] \in Disabling PROVE Target(f)' \notin Registered'
  <2>1. DisableBegins(f) \/ CancelReturns(f) \/ DisableTearsDown(f)
    BY <1>4, WhoDisables
  <2>2. Target(f)' = Target(f)
    BY <1>4, WhoDisables
  <2>3. CASE DisableBegins(f)
    <3>1. Target(f) \in Plugins /\ registry' = Removing(Target(f))
      BY <2>3, HeadIsPlugin DEF DisableBegins, Takes, ControlInv
    <3> QED
      BY <1>1, <2>2, <3>1, RemovingTakes DEF Registered
  <2>4. CASE CancelReturns(f) \/ DisableTearsDown(f)
    BY <2>2, <2>4 DEF CancelReturns, DisableTearsDown, TeardownBegins, pluginVars, Disabling,
                      DisabledLeave, Registered
  <2> QED
    BY <2>1, <2>3, <2>4
<1> QED
  BY <1>3, <1>4 DEF DisabledLeave

\* The registry grows behind the plugins that are required.
LEMMA GrowsBehind ==
  ASSUME ControlInv, RequiredBefore, NEW p \in Plugins, Requires[p] \subseteq Registered,
         p \notin Registered, registry' = Registering(p), NoneDisabled' => NoneDisabled
  PROVE  RequiredBefore'
<1> SUFFICES ASSUME NoneDisabled
             PROVE  \A i \in 1..Len(registry') : \A q \in Requires[registry'[i]] :
                      \E j \in 1..(i - 1) : registry'[j] = q
  BY DEF RequiredBefore
<1>1. /\ registry \in Seq(Plugins) /\ Len(registry) \in Nat /\ DOMAIN registry = 1..Len(registry)
      /\ registry' = Append(registry, p)
  BY DEF ControlInv, LifeInv, LifeTypeOK, Registering
<1>2. /\ Len(registry') = Len(registry) + 1 /\ registry'[Len(registry) + 1] = p
      /\ \A i \in 1..Len(registry) : registry'[i] = registry[i]
  BY <1>1, AppendOne
<1>3. \A i \in 1..Len(registry) : \A q \in Requires[registry[i]] :
        \E j \in 1..(i - 1) : registry[j] = q
  BY DEF RequiredBefore
<1>4. ASSUME NEW i \in 1..Len(registry), NEW q \in Requires[registry'[i]]
      PROVE  \E j \in 1..(i - 1) : registry'[j] = q
  <2>1. PICK j \in 1..(i - 1) : registry[j] = q
    BY <1>2, <1>3, <1>4
  <2>2. j \in 1..Len(registry)
    BY <1>1, <2>1
  <2> QED
    BY <1>2, <2>1, <2>2
<1>5. ASSUME NEW q \in Requires[p]
      PROVE  \E j \in 1..Len(registry) : registry'[j] = q
  <2>1. PICK j \in 1..Len(registry) : registry[j] = q
    BY <1>1, <1>5 DEF Registered, Range
  <2> QED
    BY <1>2, <2>1
<1>6. \A i \in 1..(Len(registry) + 1) : i \in 1..Len(registry) \/ i = Len(registry) + 1
  BY <1>1
<1>7. (Len(registry) + 1) - 1 = Len(registry)
  BY <1>1
<1> QED
  BY <1>2, <1>4, <1>5, <1>6, <1>7

LEMMA StaysBehind ==
  ASSUME ControlInv, StartUndisturbed, RequiredBefore, ReloadsOK, [Next]_vars
  PROVE  RequiredBefore'
<1>1. /\ NoneDisabled' => NoneDisabled
      /\ \A f \in Others : DisableBegins(f) => ~NoneDisabled'
  BY ReasonsStay
<1>2. CASE registry' = registry
  BY <1>1, <1>2 DEF RequiredBefore
<1>3. CASE SetupReturns
  <2>1. list # <<>> /\ mpc = "in_setup" /\ registry' = Registering(Head(list))
    BY <1>3 DEF SetupReturns, ControlInv, LifeInv, LifeTypeOK
  <2>2. /\ Head(list) \in Plugins /\ Head(list) \notin Registered
        /\ Requires[Head(list)] \subseteq Registered
    BY <2>1, NextToSetUp, MainFindsRequired
  <2> QED
    BY <1>1, <2>1, <2>2, GrowsBehind
<1>4. ASSUME NEW f \in Others, ReloadSetupReturns(f) PROVE RequiredBefore'
  <2>1. /\ f \in Reloaders /\ agenda[f] # <<>> /\ Head(agenda[f]).do = "setup"
        /\ registry' = Registering(Target(f))
    BY <1>4, WhoSetsUp DEF ReloadSetupReturns
  <2>2. /\ Target(f) \in Plugins /\ Target(f) \notin Registered
        /\ Requires[Target(f)] \subseteq Registered
    BY <2>1, ReloadFindsRequired DEF ReloadsOK
  <2> QED
    BY <1>1, <2>1, <2>2, GrowsBehind
<1>5. ASSUME NEW f \in Others, DisableBegins(f) PROVE RequiredBefore'
  BY <1>1, <1>5 DEF RequiredBefore
<1>6. CASE (PluginStep \/ MainStep \/ UNCHANGED vars) /\ ~SetupReturns
  <2>1. registry' = registry
    BY <1>6 DEF PluginStep, Registers, CreatesTask, TasksEnd, MainStep, SetupBegins, SetupDone,
                SetupFails, RollbackNext, MainTeardownReturns, StopBegins, CancelAll,
                CancelAllReturns, UnloadNext, Close, TeardownBegins, TeardownEnds, pluginVars, vars
  <2> QED
    BY <1>2, <2>1
<1> QED
  BY <1>2, <1>3, <1>4, <1>5, <1>6, WhoSteps, WhoRegisters

LEMMA RegistryInit == Init => RegistryInv
<1> SUFFICES ASSUME Init PROVE RegistryInv
  OBVIOUS
<1>1. Registered = {} /\ Done = 0 /\ Len(registry) = 0
  <2>1. list = Order /\ Len(Order) \in Nat /\ registry = <<>>
    BY PluginsAssumption DEF Init
  <2> QED
    BY <2>1 DEF Registered, Range, Done
<1>2. StatusesAgree
  BY <1>1 DEF Init, StatusesAgree, Agrees
<1>3. StartUndisturbed /\ DisabledLeave
  BY <1>1 DEF Init, StartUndisturbed, DisabledLeave, Disabling
<1>4. RequiredBefore
  BY <1>1 DEF RequiredBefore
<1> QED
  BY <1>2, <1>3, <1>4, AloneInit DEF RegistryInv, RegistryOK

LEMMA RegistryNext == RegistryInv /\ [Next]_vars => RegistryInv'
<1> SUFFICES ASSUME RegistryInv, [Next]_vars, disturbed' = {}, FaultsSpareSetups'
             PROVE  RegistryOK'
  BY AloneNext DEF RegistryInv
<1>1. /\ ControlInv /\ Exclusive /\ ReloadsOK
      /\ StatusesAgree /\ StartUndisturbed /\ DisabledLeave /\ RequiredBefore
  BY DisturbedStays, ReasonsStay DEF RegistryInv, AloneInv, RegistryOK, FaultsSpareSetups
<1>2. CASE PluginStep \/ UNCHANGED vars
  <2>1. UNCHANGED <<registry, status, pc, agenda, turn, mpc, list, reason>>
    BY <1>2 DEF PluginStep, Registers, CreatesTask, TasksEnd, mainVars, runVars, vars
  <2>2. /\ Registered' = Registered /\ Done' = Done /\ Early' = Early
        /\ \A f \in Others : Target(f)' = Target(f) /\ AboutToDisable(f)' = AboutToDisable(f)
    BY <2>1 DEF Registered, Done, Early, Target, AboutToDisable
  <2>3. StatusesAgree' /\ StartUndisturbed' /\ DisabledLeave'
    BY <1>1, <2>1, <2>2 DEF StatusesAgree, Agrees, StartUndisturbed, DisabledLeave
  <2> QED
    BY <1>1, <2>3, StaysBehind DEF RegistryOK
<1>3. CASE MainStep
  BY <1>1, <1>3, MainAgrees, MainStartsOn, MainLeaves, StaysBehind DEF RegistryOK
<1>4. ASSUME NEW f \in Others, StepOf(f) PROVE RegistryOK'
  <2>1. "in_setup" \notin FaultsWhen \/ ~DisableBegins(f)
    BY ReasonsStay, <1>1 DEF FaultsSpareSetups
  <2> QED
    BY <1>1, <1>4, <2>1, StepAgrees, StepStartsOn, StepLeaves, StaysBehind DEF RegistryOK
<1> QED
  BY <1>2, <1>3, <1>4, WhoSteps

(* As long as no reload was disturbed, and no plugin fails while another is  *)
(* set up, the registry and the statuses tell the same story.  That is what  *)
(* stop(), the rollback and a reload go by (_plugin_statuses and             *)
(* PluginRegistry in Controller).                                            *)
THEOREM RegistrySound ==
  Spec => [](disturbed = {} /\ FaultsSpareSetups => RegistryAgrees)
<1>1. RegistryInv => (disturbed = {} /\ FaultsSpareSetups => RegistryAgrees)
  BY DEF RegistryInv, RegistryOK, StatusesAgree, Agrees, RegistryAgrees
<1> QED
  BY <1>1, RegistryInit, RegistryNext, PTL DEF Spec

(* setup() of a plugin is called only while all plugins it requires are      *)
(* ready, by the start and by a reload alike: the loader's order and         *)
(* Controller._setup_plugins see to it, under the conditions above.          *)
THEOREM RequiredFirst ==
  Spec /\ [](disturbed = {} /\ FaultsSpareSetups) => SetupNeedsRequired
<1> DEFINE NeedsRequired ==
             \A p \in Plugins : status[p] # "setup_started" /\ status'[p] = "setup_started"
                                  => \A r \in Requires[p] : status[r] = "ready"
<1>1. ASSUME RegistryInv, disturbed = {} /\ FaultsSpareSetups, [Next]_vars
      PROVE  [NeedsRequired]_vars
  <2> SUFFICES ASSUME NEW p \in Plugins,
                      status[p] # "setup_started", status'[p] = "setup_started",
                      NEW r \in Requires[p]
               PROVE  status[r] = "ready"
    OBVIOUS
  <2>1. /\ ControlInv /\ Exclusive /\ ReloadsOK /\ StatusesAgree /\ StartUndisturbed
        /\ status \in [Plugins -> Statuses] /\ r \in Plugins
    BY <1>1, PluginsAssumption DEF RegistryInv, AloneInv, RegistryOK, ControlInv, LifeInv, LifeTypeOK
  <2>2. Early /\ r \in Registered => status[r] = "ready"
    BY <2>1 DEF StatusesAgree, Agrees
  <2>3. CASE MainStep
    <3>1. SetupBegins
      <4>1. CASE SetupReturns \/ SetupFails
        BY <2>1, <4>1 DEF SetupReturns, SetupFails
      <4>2. CASE RollbackNext \/ MainTeardownReturns \/ UnloadNext
        BY <2>1, <4>2 DEF RollbackNext, MainTeardownReturns, UnloadNext, TeardownBegins, TeardownEnds
      <4>3. CASE SetupDone \/ StopBegins \/ CancelAll \/ CancelAllReturns \/ Close
        BY <4>3 DEF SetupDone, StopBegins, CancelAll, CancelAllReturns, Close, pluginVars
      <4> QED
        BY <2>3, <4>1, <4>2, <4>3 DEF MainStep
    <3>2. /\ mpc = "setup" /\ list # <<>> /\ p = Head(list)
      BY <2>1, <3>1 DEF SetupBegins
    <3>3. r \in Registered
      BY <2>1, <3>2, MainFindsRequired
    <3> QED
      BY <2>2, <3>2, <3>3 DEF Early
  <2>4. ASSUME NEW f \in Others, StepOf(f) PROVE status[r] = "ready"
    <3>1. CASE ReloadSetupBegins(f)
      <4>1. agenda[f] # <<>> /\ Head(agenda[f]).do = "setup" /\ p = Target(f)
        BY <2>1, <3>1 DEF ReloadSetupBegins, Takes
      <4>2. f \in Reloaders
        BY <2>1, <4>1, TheItems DEF RunItems, Others
      <4>3. r \in Registered /\ mpc = "running"
        BY <2>1, <4>1, <4>2, ReloadFindsRequired DEF ReloadsOK, Exclusive, Active
      <4> QED
        BY <2>2, <4>3 DEF Early
    <3>2. CASE ~ReloadSetupBegins(f)
      <4>1. CASE DisableBegins(f)
        BY <2>1, <4>1 DEF DisableBegins
      <4>2. CASE DisableTearsDown(f) \/ DisableSkips(f) \/ DisableEnds(f) \/ ReloadSetupReturns(f)
        BY <2>1, <4>2 DEF DisableTearsDown, DisableSkips, DisableEnds, TeardownBegins,
                          ReloadSetupReturns
      <4>3. CASE Cancelled(f) \/ (f \in Reloaders /\ ReloadRaises(f))
        BY <2>1, <4>3 DEF Cancelled, TeardownEnds, ReloadRaises
      <4>4. CASE ~RunStep(f) /\ ~Cancelled(f) /\ ~(f \in Reloaders /\ ReloadRaises(f))
        <5>1. status' = status
          BY <2>4, <4>4 DEF StepOf, FaultArises, ReloadRejected, ReloadBegins, pluginVars
        <5> QED
          BY <5>1
      <4>5. CASE RunStep(f) /\ ~(DisableBegins(f) \/ DisableTearsDown(f) \/ DisableSkips(f)
                                  \/ DisableEnds(f) \/ ReloadSetupReturns(f))
        <5>1. status' = status
          BY <3>2, <4>5 DEF RunStep, CancelReturns, DependentsBegin, LoopNext, Degrades,
                            InitializeBegins, InitializeReturns, ReloadReturns, pluginVars
        <5> QED
          BY <5>1
      <4> QED
        BY <4>1, <4>2, <4>3, <4>4, <4>5
    <3> QED
      BY <3>1, <3>2
  <2>5. CASE PluginStep \/ UNCHANGED vars
    BY <2>5 DEF PluginStep, Registers, CreatesTask, TasksEnd, vars
  <2> QED
    BY <1>1, <2>3, <2>4, <2>5, WhoSteps
<1>2. RegistryInv /\ (disturbed = {} /\ FaultsSpareSetups) /\ [Next]_vars => [NeedsRequired]_vars
  BY <1>1
<1>3. SetupNeedsRequired <=> [][NeedsRequired]_vars
  BY DEF SetupNeedsRequired
<1> HIDE DEF NeedsRequired
<1> QED
  BY <1>2, <1>3, RegistryInit, RegistryNext, PTL DEF Spec

-----------------------------------------------------------------------------
(* The books: each setup() that returned, and each teardown().               *)

Clean(p) == reason[p] \in {None, "reload"}
AllClean == \A p \in Plugins : Clean(p)

\* A run of the fault handler that has begun leaves a trace in the reasons.
RunsTraced == \A f \in Runs :
                /\ agenda[f] # <<>> => AboutToDisable(f) \/ ~AllClean
                /\ pc[f] \in Disabling => ~Clean(Target(f))

\* No reload was disturbed or broke off, and no fault has disabled a plugin
\* by the time stop(), or a rollback, begins.
Calm == disturbed = {} /\ NoneBroken /\ (Early \/ AllClean)

\* f has taken p off the registry, and has not done with it.
Undoing(f, p) == pc[f] \in Disabling /\ found[f] /\ Target(f) = p

\* A teardown is to come.
Owed(p) == \/ p \in Registered /\ (Early \/ status[p] = "ready")
           \/ \E f \in Others : Undoing(f, p) /\ pc[f] # "tearing"

Balanced == \A p \in Plugins : setUp[p] = torn[p] + (IF Owed(p) THEN 1 ELSE 0)
Untouched == \A p \in Plugins : reason[p] = None /\ p \notin Registered => setUp[p] = 0
OneUndoes == \A f \in Others, p \in Plugins : Undoing(f, p) =>
               /\ p \notin Registered /\ setUp[p] > 0
               /\ \A g \in Others : Undoing(g, p) => g = f
BooksOK == Balanced /\ Untouched /\ OneUndoes

EarlyMarks(p) ==
  /\ status[p] # "torn_down"
  /\ status[p] = "teardown_started" => \E f \in Others : pc[f] = "tearing" /\ Target(f) = p
  /\ Clean(p) => (status[p] = "ready" <=> p \in Registered)
EarlyOK == Early => \A p \in Plugins : EarlyMarks(p)

\* From then on; the rollback and stop() go through their lists backwards.
LateMarks(p) ==
  /\ status[p] = "ready" => p \in Registered
  /\ p \in Registered => status[p] \in {"ready", "teardown_started", "torn_down"}
  /\ status[p] = "teardown_started" <=> UnderUnload(p)
  /\ status[p] = "torn_down" => ~effects[p]
Backwards ==
  /\ mpc \in {"rollback", "in_rollback"} =>
       /\ Len(list) <= Len(Order)
       /\ \A i \in 1..Len(list) : list[i] = Order[(Len(list) + 1) - i]
       /\ \A i \in (Len(list) + 1)..Len(Order) : status[Order[i]] # "ready"
  /\ mpc \in {"unload", "in_unload"} =>
       /\ Len(list) <= Len(registry)
       /\ \A i \in 1..Len(list) : list[i] = registry[(Len(list) + 1) - i]
       /\ \A i \in (Len(list) + 1)..Len(registry) : status[registry[i]] = "torn_down"
  /\ mpc \in {"closing", "closed"} => \A p \in Registered : status[p] = "torn_down"
LateOK == ~Early => /\ \A f \in Others : agenda[f] # <<>> => AboutToDisable(f)
                    /\ \A p \in Plugins : LateMarks(p)
                    /\ Backwards

\* What a plugin that is off the registry has left.
EffectsOK ==
  Early => \A p \in Plugins :
    p \notin Registered /\ ~InSetup(p) /\ (\A f \in Others : ~Undoing(f, p)) => ~effects[p]

BooksInv == /\ AloneInv
            /\ disturbed = {} => RunsTraced
            /\ Calm => BooksOK /\ EarlyOK /\ LateOK /\ EffectsOK

\* The reason a run gives, and the one a reload gives.
LEMMA TheReason ==
  ASSUME ControlInv, NEW f \in Others, DisableBegins(f)
  PROVE  /\ agenda[f] # <<>> /\ Target(f) \in Plugins
         /\ f \in Runs => ~Clean(Target(f))'
         /\ \A p \in Plugins : p # Target(f) => reason'[p] = reason[p]
         /\ reason'[Target(f)] # None
<1>1. /\ agenda[f] # <<>> /\ Head(agenda[f]).do = "disable"
      /\ reason' = [reason EXCEPT ![Target(f)] = Head(agenda[f]).why] /\ UNCHANGED agenda
  BY DEF DisableBegins, Takes
<1>2. Target(f) \in Plugins /\ reason \in [Plugins -> Reasons] /\ Target(f)' = Target(f)
  BY <1>1, HeadIsPlugin DEF ControlInv, LifeInv, LifeTypeOK, Target
<1>3. f \in Runs => Head(agenda[f]).why \notin {None, "reload"}
  BY <1>1, TheItems DEF RunItems
<1>4. Head(agenda[f]).why # None
  <2>1. Head(agenda[f]) = agenda[f][1] /\ 1 \in 1..Len(agenda[f])
    BY <1>1, AtHead DEF ControlInv, LifeInv, LifeTypeOK
  <2> QED
    BY <1>1, <2>1 DEF ControlInv, LifeInv, AgendasOK, ItemOK
<1> QED
  BY <1>1, <1>2, <1>3, <1>4 DEF Clean

LEMMA StaysTraced ==
  ASSUME AloneInv, disturbed = {} => RunsTraced, [Next]_vars, disturbed' = {}
  PROVE  RunsTraced'
<1>1. ControlInv /\ Exclusive /\ RunsTraced
  BY DisturbedStays DEF AloneInv
<1>2. CASE MainStep \/ PluginStep \/ UNCHANGED vars
  <2>1. /\ UNCHANGED <<agenda, pc, reason>>
        /\ \A f \in Runs : ~AboutToDisable(f) \/ turn' = turn
    BY <1>2, RunsAssumption
    DEF MainStep, SetupBegins, SetupReturns, SetupDone, SetupFails, RollbackNext,
        MainTeardownReturns, StopBegins, CancelAll, CancelAllReturns, UnloadNext, Close,
        PluginStep, Registers, CreatesTask, TasksEnd, pluginVars, mainVars, runVars, vars,
        AboutToDisable
  <2>2. AllClean' = AllClean /\ \A f \in Runs : Clean(Target(f))' = Clean(Target(f))
    BY <2>1 DEF AllClean, Clean, Target
  <2> QED
    BY <1>1, <2>1, <2>2 DEF RunsTraced, AboutToDisable
<1>3. ASSUME NEW f \in Others, StepOf(f), DisableBegins(f) PROVE RunsTraced'
  <2>1. /\ agenda[f] # <<>> /\ Target(f) \in Plugins /\ UNCHANGED agenda
        /\ \A g \in Others \ {f} : pc'[g] = pc[g] /\ Target(g)' = Target(g)
        /\ Target(f)' = Target(f)
    BY <1>1, <1>3, TheReason, OthersWait DEF DisableBegins, ControlInv, Target
  <2>2. CASE f \in Runs
    <3>1. ~Clean(Target(f))'
      BY <1>1, <1>3, <2>2, TheReason
    <3>2. ~AllClean'
      BY <2>1, <3>1 DEF AllClean, Clean
    <3>3. ASSUME NEW g \in Runs \ {f}, pc'[g] \in Disabling PROVE ~Clean(Target(g))'
      <4>1. ~Clean(Target(g)) /\ g \in Others /\ pc[g] = pc'[g]
        BY <1>1, <2>1, <3>3 DEF RunsTraced, Others
      <4>2. agenda[g] # <<>> /\ Head(agenda[g]).do = "disable"
        BY <1>1, <3>3, <4>1 DEF ControlInv, LifeInv, AgendasOK, PlaceOK, Working, Disabling
      <4>3. Target(g) \in Plugins /\ Target(g)' = Target(g)
        BY <1>1, <2>1, <4>1, <4>2, HeadIsPlugin DEF ControlInv
      <4>4. Target(g) # Target(f) => reason'[Target(g)] = reason[Target(g)]
        BY <1>1, <1>3, <4>3, TheReason
      <4> QED
        BY <2>1, <3>1, <4>1, <4>3, <4>4 DEF Clean
    <3> QED
      BY <3>1, <3>2, <3>3 DEF RunsTraced
  <2>3. CASE f \in Reloaders
    <3>1. \A g \in Runs : agenda[g] = <<>> /\ g \in Others \ {f}
      BY <1>1, <2>1, <2>3, RunsAssumption DEF Exclusive, Active, Others
    <3>2. \A g \in Runs : pc'[g] \notin Disabling
      BY <1>1, <2>1, <3>1 DEF ControlInv, LifeInv, AgendasOK, PlaceOK, Working, Disabling
    <3> QED
      BY <2>1, <3>1, <3>2 DEF RunsTraced
  <2> QED
    BY <2>2, <2>3 DEF Others
<1>4. ASSUME NEW f \in Others, StepOf(f), ~DisableBegins(f) PROVE RunsTraced'
  <2>1. /\ \A g \in Others \ {f} : pc'[g] = pc[g] /\ agenda'[g] = agenda[g]
        /\ turn \in {f, NoOne} /\ Runs \subseteq Others /\ NoOne \notin Runs
    BY <1>1, <1>4, OthersWait, StepTakesTurn, RunsAssumption DEF ControlInv, Others
  <2>2. reason' = reason
    <3>1. CASE \A g \in Others : ~DisableBegins(g)
      BY <1>1, <3>1, ReasonsStay
    <3>2. ASSUME NEW g \in Others, DisableBegins(g), g # f PROVE FALSE
      <4>1. turn = g /\ pc[g] = "on" /\ pc'[g] # "on"
        BY <1>1, <3>2 DEF DisableBegins, Takes, ControlInv, LifeInv, LifeTypeOK
      <4> QED
        BY <2>1, <3>2, <4>1
    <3> QED
      BY <1>4, <3>1, <3>2
  <2>3. AllClean' = AllClean
    BY <2>2 DEF AllClean, Clean
  <2>4. ASSUME NEW g \in Runs \ {f}
        PROVE  /\ agenda'[g] # <<>> => ~AllClean'
               /\ pc'[g] \in Disabling => ~Clean(Target(g))'
    <3>1. turn # g /\ pc'[g] = pc[g] /\ agenda'[g] = agenda[g]
      BY <2>1, <2>4
    <3>2. Clean(Target(g))' = Clean(Target(g))
      BY <2>2, <3>1 DEF Clean, Target
    <3> QED
      BY <1>1, <2>3, <3>1, <3>2 DEF RunsTraced, AboutToDisable
  <2>5. ASSUME f \in Runs, agenda'[f] # <<>> PROVE AboutToDisable(f)' \/ ~AllClean'
    <3>1. CASE agenda[f] # <<>>
      <4>1. ~AboutToDisable(f)
        BY <1>1, <1>4, <3>1, DisablesNext
      <4> QED
        BY <1>1, <2>3, <2>5, <3>1, <4>1 DEF RunsTraced
    <3>2. CASE agenda[f] = <<>>
      <4>1. PICK p \in Plugins : FaultArises(f, p)
        BY <1>1, <1>4, <2>5, <3>2, WhoWorks, RunsAssumption
      <4> DEFINE items == <<Disable(p, "faults"), Dependents(p), Degrade>>
      <4>2. turn' = f /\ pc' = [pc EXCEPT ![f] = "on"] /\ agenda' = [agenda EXCEPT ![f] = items]
        BY <2>5, <3>2, <4>1 DEF FaultArises
      <4>3. Head(items).do = "disable"
        BY DEF Disable
      <4> HIDE DEF items
      <4>4. agenda'[f] = items /\ pc'[f] = "on"
        BY <1>1, <4>2 DEF ControlInv, LifeInv, LifeTypeOK
      <4> QED
        BY <4>2, <4>3, <4>4 DEF AboutToDisable
    <3> QED
      BY <3>1, <3>2
  <2>6. ASSUME f \in Runs, pc'[f] \in Disabling PROVE ~Clean(Target(f))'
    <3>1. (CancelReturns(f) \/ DisableTearsDown(f)) /\ Target(f)' = Target(f)
      BY <1>1, <1>4, <2>6, WhoDisables
    <3>2. pc[f] \in Disabling
      BY <3>1 DEF CancelReturns, DisableTearsDown, Disabling
    <3> QED
      BY <1>1, <2>2, <2>6, <3>1, <3>2 DEF RunsTraced, Clean
  <2> QED
    BY <2>4, <2>5, <2>6 DEF RunsTraced
<1> QED
  BY <1>2, <1>3, <1>4, WhoSteps

\* Once it is not calm any more it never is again.
LEMMA CalmBefore ==
  ASSUME BooksInv, [Next]_vars, Calm'
  PROVE  /\ Calm /\ ControlInv /\ Exclusive /\ ReloadsOK /\ RunsTraced
         /\ ControlInv' /\ (Early' => Early) /\ (AllClean' => AllClean \/ Early)
         /\ BooksOK /\ EarlyOK /\ LateOK /\ EffectsOK
         /\ \A r \in Reloaders : ~Cancelled(r) /\ ~ReloadRaises(r)
<1>1. /\ ControlInv /\ Exclusive /\ ReloadsOK /\ RunsTraced /\ ControlInv'
      /\ disturbed = {} /\ disturbed' = {} /\ NoneBroken'
  BY DisturbedStays, AloneNext DEF BooksInv, AloneInv, Calm
<1>2. pc \in [Others -> Working \cup {"idle", "on"} \cup Outcomes] /\ Reloaders \subseteq Others
  BY <1>1 DEF ControlInv, LifeInv, LifeTypeOK, Others
<1>3. NoneBroken
  <2> SUFFICES ASSUME NEW r \in Reloaders, pc[r] \in {"cut", "raised"} PROVE pc'[r] = pc[r]
    BY <1>1 DEF NoneBroken
  <2>1. CASE MainStep \/ PluginStep \/ UNCHANGED vars
    BY <2>1 DEF MainStep, SetupBegins, SetupReturns, SetupDone, SetupFails, RollbackNext,
                MainTeardownReturns, StopBegins, CancelAll, CancelAllReturns, UnloadNext, Close,
                PluginStep, Registers, CreatesTask, TasksEnd, runVars, vars
  <2>2. ASSUME NEW f \in Others, StepOf(f) PROVE pc'[r] = pc[r]
    <3>1. CASE f # r
      BY <1>1, <1>2, <2>2, <3>1, OthersWait DEF ControlInv
    <3>2. CASE f = r
      <4>1. turn # r /\ r \notin Runs
        BY <1>1, <1>2, RunsAssumption DEF ControlInv, TurnsOK
      <4>2. ~StepOf(r)
        BY <4>1 DEF StepOf, RunStep, DisableBegins, CancelReturns, DisableTearsDown, DisableSkips,
              DisableEnds, DependentsBegin, LoopNext, Degrades, InitializeBegins,
              InitializeReturns, ReloadSetupBegins, ReloadSetupReturns, ReloadReturns, Takes,
              Cancelled, FaultArises, ReloadRejected, ReloadBegins, ReloadRaises
      <4> QED
        BY <2>2, <3>2, <4>2
    <3> QED
      BY <3>1, <3>2
  <2> QED
    BY <2>1, <2>2, WhoSteps
<1>4. Early' => Early
  <2>1. CASE MainStep
    BY <2>1 DEF MainStep, SetupBegins, SetupReturns, SetupDone, SetupFails, RollbackNext,
                MainTeardownReturns, StopBegins, CancelAll, CancelAllReturns, UnloadNext, Close,
                Early
  <2>2. CASE PluginStep \/ UNCHANGED vars
    BY <2>2 DEF PluginStep, Registers, CreatesTask, TasksEnd, mainVars, vars, Early
  <2>3. ASSUME NEW f \in Others, StepOf(f) PROVE Early' => Early
    BY <1>1, <2>3, OthersWait DEF ControlInv, Early
  <2> QED
    BY <2>1, <2>2, <2>3, WhoSteps
<1>5. ASSUME AllClean' PROVE AllClean \/ Early
  <2>1. CASE \A f \in Others : ~DisableBegins(f)
    BY <1>1, <1>5, <2>1, ReasonsStay DEF AllClean, Clean
  <2>2. ASSUME NEW f \in Others, DisableBegins(f) PROVE Early
    <3>1. agenda[f] # <<>> /\ Target(f) \in Plugins /\ (f \in Runs => ~Clean(Target(f))')
      BY <1>1, <2>2, TheReason
    <3>2. f \notin Runs
      BY <1>5, <2>2, <3>1 DEF AllClean, Clean, DisableBegins, Target
    <3> QED
      BY <1>1, <3>1, <3>2 DEF Exclusive, Active, Others, Early
  <2> QED
    BY <2>1, <2>2
<1>6. Calm
  BY <1>1, <1>3, <1>4, <1>5 DEF Calm
<1>7. ASSUME NEW r \in Reloaders PROVE ~Cancelled(r) /\ ~ReloadRaises(r)
  <2>1. r \notin Runs /\ pc'[r] \notin {"cut", "raised"}
    BY <1>1, RunsAssumption DEF NoneBroken
  <2> QED
    BY <1>2, <2>1 DEF Cancelled, ReloadRaises
<1> QED
  BY <1>1, <1>4, <1>5, <1>6, <1>7 DEF BooksInv

\* A step that leaves the books as they are.
LEMMA EarlyQuiet ==
  ASSUME Early, Early', BooksOK, EarlyOK, EffectsOK,
         UNCHANGED <<registry, reason, setUp, torn>>,
         \A f \in Others : /\ pc'[f] \in Disabling <=> pc[f] \in Disabling
                           /\ pc'[f] = "tearing" <=> pc[f] = "tearing"
                           /\ pc[f] \in Disabling => found'[f] = found[f] /\ agenda'[f] = agenda[f],
         \A p \in Plugins : /\ InSetup(p) => InSetup(p)'
                            /\ effects'[p] = effects[p] \/ InSetup(p)'
                            /\ \/ status'[p] = status[p]
                               \/ status'[p] = "setup_started" /\ p \notin Registered
  PROVE  BooksOK' /\ EarlyOK' /\ EffectsOK'
<1>1. \A f \in Others, p \in Plugins : Undoing(f, p)' <=> Undoing(f, p)
  BY DEF Undoing, Target
<1>2. Registered' = Registered
  BY DEF Registered
<1>3. \A p \in Plugins : Owed(p)' <=> Owed(p)
  BY <1>1, <1>2 DEF Owed
<1>4. BooksOK'
  <2>1. Balanced'
    BY <1>3 DEF BooksOK, Balanced
  <2>2. Untouched' /\ OneUndoes'
    BY <1>1, <1>2 DEF BooksOK, Untouched, OneUndoes
  <2> QED
    BY <2>1, <2>2 DEF BooksOK
<1>5. EarlyOK'
  <2>1. ASSUME NEW p \in Plugins PROVE EarlyMarks(p)'
    <3>1. EarlyMarks(p)
      BY DEF EarlyOK
    <3>2. status[p] = "teardown_started" => \E f \in Others : pc'[f] = "tearing" /\ Target(f)' = p
      BY <3>1 DEF EarlyMarks, Target, Disabling
    <3>3. Clean(p)' <=> Clean(p)
      BY DEF Clean
    <3> QED
      BY <1>2, <3>1, <3>2, <3>3 DEF EarlyMarks
  <2> QED
    BY <2>1 DEF EarlyOK
<1>6. EffectsOK'
  BY <1>1, <1>2 DEF EffectsOK
<1> QED
  BY <1>4, <1>5, <1>6

LEMMA EarlyMain ==
  ASSUME ControlInv, ControlInv', MainStep, Early, Early', BooksOK, EarlyOK, EffectsOK
  PROVE  BooksOK' /\ EarlyOK' /\ EffectsOK'
<1>1. /\ UNCHANGED <<pc, agenda, found, reason, torn, effects>>
      /\ SetupBegins \/ SetupReturns \/ SetupDone
  BY DEF MainStep, SetupBegins, SetupReturns, SetupDone, SetupFails, RollbackNext,
         MainTeardownReturns, StopBegins, CancelAll, CancelAllReturns, UnloadNext, Close,
         Early, runVars, pluginVars
<1>2. status \in [Plugins -> Statuses] /\ setUp \in [Plugins -> Nat] /\ torn \in [Plugins -> Nat]
  BY DEF ControlInv, LifeInv, LifeTypeOK, BookTypeOK
<1>3. CASE SetupBegins
  <2>1. PICK h \in Plugins : h = Head(list) /\ h \notin Registered
    BY <1>3, NextToSetUp DEF SetupBegins
  <2>2. /\ status' = [status EXCEPT ![h] = "setup_started"] /\ mpc = "setup"
        /\ UNCHANGED <<registry, setUp, list>>
    BY <1>3, <2>1 DEF SetupBegins
  <2>3. \A p \in Plugins : InSetup(p) => InSetup(p)'
    BY <1>1, <2>2 DEF InSetup
  <2> QED
    BY <1>1, <1>2, <2>1, <2>2, <2>3, EarlyQuiet
<1>4. CASE SetupDone
  <2>1. UNCHANGED <<registry, setUp, status, list>> /\ mpc = "setup"
    BY <1>4 DEF SetupDone, pluginVars
  <2>2. \A p \in Plugins : InSetup(p) => InSetup(p)'
    BY <1>1, <2>1 DEF InSetup
  <2> QED
    BY <1>1, <2>1, <2>2, EarlyQuiet
<1>5. CASE SetupReturns
  <2>1. PICK h \in Plugins : list # <<>> /\ h = Head(list) /\ h \notin Registered /\ setUp[h] = 0
    BY <1>5, NextToSetUp DEF SetupReturns, ControlInv, LifeInv, LifeTypeOK
  <2>2. /\ status' = [status EXCEPT ![h] = "ready"] /\ setUp' = [setUp EXCEPT ![h] = @ + 1]
        /\ registry' = Registering(h) /\ mpc = "in_setup" /\ mpc' = "setup"
    BY <1>5, <2>1 DEF SetupReturns
  <2>3. Registered' = Registered \cup {h}
    BY <2>1, <2>2, RegisteringAdds DEF Registered, ControlInv, LifeInv, LifeTypeOK
  <2>4. \A f \in Others, p \in Plugins : Undoing(f, p)' <=> Undoing(f, p)
    BY <1>1 DEF Undoing, Target
  <2>5. /\ setUp[h] = torn[h] + (IF Owed(h) THEN 1 ELSE 0)
        /\ \A f \in Others : ~Undoing(f, h)
    BY <2>1 DEF BooksOK, Balanced, OneUndoes
  <2>6. torn[h] = 0
    BY <1>2, <2>1, <2>5
  <2>7. Owed(h)' /\ \A p \in Plugins \ {h} : Owed(p)' <=> Owed(p)
    BY <1>1, <2>3, <2>4 DEF Owed
  <2>8. setUp'[h] = 1 /\ \A p \in Plugins \ {h} : setUp'[p] = setUp[p]
    BY <1>2, <2>1, <2>2
  <2>9. Balanced'
    BY <1>1, <2>6, <2>7, <2>8 DEF BooksOK, Balanced
  <2>10. Untouched'
    BY <1>1, <2>3, <2>8 DEF BooksOK, Untouched
  <2>11. OneUndoes'
    BY <2>3, <2>4, <2>5, <2>8 DEF BooksOK, OneUndoes
  <2>12. ASSUME NEW p \in Plugins PROVE EarlyMarks(p)'
    <3>1. EarlyMarks(p) /\ (Clean(p)' <=> Clean(p))
      BY <1>1 DEF EarlyOK, Clean
    <3>2. CASE p = h
      BY <1>2, <2>2, <2>3, <3>2 DEF EarlyMarks
    <3>3. CASE p # h
      BY <1>1, <1>2, <2>2, <2>3, <3>1, <3>3 DEF EarlyMarks, Target
    <3> QED
      BY <3>2, <3>3
  <2>13. EffectsOK'
    <3>1. \A p \in Plugins \ {h} : InSetup(p) => InSetup(p)'
      BY <1>1, <2>1 DEF InSetup
    <3> QED
      BY <1>1, <2>3, <2>4, <3>1 DEF EffectsOK
  <2> QED
    BY <2>9, <2>10, <2>11, <2>12, <2>13 DEF BooksOK, EarlyOK
<1> QED
  BY <1>1, <1>3, <1>4, <1>5

LEMMA EarlyPlugins ==
  ASSUME PluginStep \/ UNCHANGED vars, Early, BooksOK, EarlyOK, EffectsOK, BookTypeOK
  PROVE  BooksOK' /\ EarlyOK' /\ EffectsOK'
<1>1. UNCHANGED <<registry, reason, setUp, torn, pc, agenda, found, status, mpc, list>>
  BY DEF PluginStep, Registers, CreatesTask, TasksEnd, runVars, mainVars, vars
<1>2. \A p \in Plugins : InSetup(p)' = InSetup(p)
  BY <1>1 DEF InSetup
<1>3. \A p \in Plugins : effects'[p] = effects[p] \/ InSetup(p)
  BY DEF PluginStep, Registers, CreatesTask, TasksEnd, vars, BookTypeOK
<1>4. Early'
  BY <1>1 DEF Early
<1> QED
  BY <1>1, <1>2, <1>3, <1>4, EarlyQuiet

\* The plugin a coroutine is at work on is none that is registered, or the
\* fault that was counted shows in its reason.
LEMMA OffOrFaulty ==
  ASSUME ControlInv, ReloadsOK, RunsTraced, NEW f \in Others, pc[f] \in Disabling
  PROVE  /\ agenda[f] # <<>> /\ Target(f) \in Plugins
         /\ Clean(Target(f)) => Target(f) \notin Registered
<1>1. agenda[f] # <<>> /\ Head(agenda[f]).do = "disable"
  BY DEF ControlInv, LifeInv, AgendasOK, PlaceOK, Working, Disabling
<1>2. Target(f) \in Plugins
  BY <1>1, HeadIsPlugin DEF ControlInv
<1> QED
  BY <1>1, <1>2 DEF RunsTraced, ReloadsOK, ReloadOK, Others

LEMMA EarlyDisableBegins ==
  ASSUME ControlInv, NEW f \in Others, StepOf(f), DisableBegins(f),
         Early, Early', BooksOK, EarlyOK, EffectsOK
  PROVE  BooksOK' /\ EarlyOK' /\ EffectsOK'
<1>1. PICK p \in Plugins : p = Target(f)
  BY TheReason
<1>2. /\ pc[f] = "on" /\ registry' = Removing(p) /\ agenda' = agenda
      /\ found' = [found EXCEPT ![f] = p \in Registered]
      /\ status' = [status EXCEPT ![p] = "disabled"]
      /\ pc' = [pc EXCEPT ![f] = IF tasks[p] = "none" THEN "cleared" ELSE "cancelling"]
      /\ UNCHANGED <<effects, setUp, torn, mpc, list>>
  BY <1>1 DEF DisableBegins, Takes, mainVars
<1>3. /\ registry \in Seq(Plugins) /\ IsInjective(registry)
      /\ pc \in [Others -> Working \cup {"idle", "on"} \cup Outcomes]
      /\ found \in [Others -> BOOLEAN] /\ status \in [Plugins -> Statuses]
      /\ setUp \in [Plugins -> Nat] /\ torn \in [Plugins -> Nat]
  BY DEF ControlInv, LifeInv, LifeTypeOK, BookTypeOK
<1>4. Registered' = Registered \ {p}
  BY <1>2, <1>3, RemovingTakes DEF Registered
<1>5. /\ \A q \in Plugins : q # p => reason'[q] = reason[q]
      /\ reason'[p] # None
  BY <1>1, TheReason
<1>6. /\ \A g \in Others \ {f}, q \in Plugins : Undoing(g, q)' <=> Undoing(g, q)
      /\ \A g \in Others \ {f} : pc'[g] = pc[g]
      /\ \A q \in Plugins : ~Undoing(f, q)
      /\ pc'[f] \in {"cleared", "cancelling"}
      /\ \A q \in Plugins : Undoing(f, q)' <=> q = p /\ p \in Registered
  BY <1>1, <1>2, <1>3 DEF Undoing, Target, Disabling
<1>7. p \in Registered => \A g \in Others : ~Undoing(g, p)
  BY DEF BooksOK, OneUndoes
<1>8. \A q \in Plugins : Owed(q)' <=> Owed(q)
  <2>1. ASSUME NEW q \in Plugins, q # p PROVE Owed(q)' <=> Owed(q)
    BY <1>4, <1>6, <2>1 DEF Owed
  <2>2. CASE p \in Registered
    <3>1. Owed(p)
      BY <2>2 DEF Owed
    <3>2. Undoing(f, p)' /\ pc'[f] # "tearing"
      BY <1>6, <2>2
    <3>3. Owed(p)'
      BY <3>2 DEF Owed
    <3> QED
      BY <2>1, <3>1, <3>3
  <2>3. CASE p \notin Registered
    <3>1. Owed(p)' <=> Owed(p)
      BY <1>4, <1>6, <2>3 DEF Owed
    <3> QED
      BY <2>1, <3>1
  <2> QED
    BY <2>2, <2>3
<1>9. Balanced'
  BY <1>2, <1>8 DEF BooksOK, Balanced
<1>10. Untouched'
  BY <1>2, <1>4, <1>5 DEF BooksOK, Untouched
<1>11. OneUndoes'
  <2>1. p \in Registered => setUp[p] > 0
    <3>1. ASSUME p \in Registered PROVE setUp[p] > 0
      <4>1. Owed(p)
        BY <3>1 DEF Owed
      <4>2. setUp[p] = torn[p] + (IF Owed(p) THEN 1 ELSE 0)
        BY DEF BooksOK, Balanced
      <4>3. setUp[p] = torn[p] + 1
        BY <4>1, <4>2
      <4> QED
        BY <1>3, <4>3
    <3> QED
      BY <3>1
  <2>2. ASSUME NEW g \in Others, NEW q \in Plugins, Undoing(g, q)'
        PROVE  /\ q \notin Registered' /\ setUp'[q] > 0
               /\ \A h \in Others : Undoing(h, q)' => h = g
    <3>1. CASE g = f
      BY <1>2, <1>4, <1>6, <1>7, <2>1, <2>2, <3>1
    <3>2. CASE g # f
      <4>1. Undoing(g, q)
        BY <1>6, <2>2, <3>2
      <4>2. q \notin Registered /\ setUp[q] > 0 /\ \A h \in Others : Undoing(h, q) => h = g
        BY <4>1 DEF BooksOK, OneUndoes
      <4>3. ~Undoing(f, q)'
        BY <1>6, <4>2
      <4> QED
        BY <1>2, <1>4, <1>6, <4>2, <4>3
    <3> QED
      BY <3>1, <3>2
  <2> QED
    BY <2>2 DEF OneUndoes
<1>12. ASSUME NEW q \in Plugins PROVE EarlyMarks(q)'
  <2>1. EarlyMarks(q)
    BY DEF EarlyOK
  <2>2. CASE q = p
    BY <1>3, <1>2, <1>4, <2>2 DEF EarlyMarks
  <2>3. CASE q # p
    <3>1. status'[q] = status[q] /\ (q \in Registered' <=> q \in Registered)
          /\ (Clean(q)' <=> Clean(q))
      BY <1>2, <1>3, <1>4, <1>5, <2>3 DEF Clean
    <3>2. (\E g \in Others : pc[g] = "tearing" /\ Target(g) = q)
            => \E g \in Others : pc'[g] = "tearing" /\ Target(g)' = q
      BY <1>2, <1>6 DEF Target
    <3> QED
      BY <2>1, <3>1, <3>2 DEF EarlyMarks
  <2> QED
    BY <2>2, <2>3
<1>13. EffectsOK'
  <2>1. \A q \in Plugins : InSetup(q) => InSetup(q)'
    BY <1>2, <1>3 DEF InSetup
  <2>2. ASSUME NEW q \in Plugins, q \notin Registered', ~InSetup(q)',
               \A g \in Others : ~Undoing(g, q)'
        PROVE  ~effects'[q]
    <3>1. q \notin Registered
      BY <1>4, <1>6, <2>2
    <3>2. \A g \in Others : ~Undoing(g, q)
      BY <1>6, <2>2
    <3> QED
      BY <1>2, <2>1, <2>2, <3>1, <3>2 DEF EffectsOK
  <2> QED
    BY <2>2 DEF EffectsOK
<1> QED
  BY <1>9, <1>10, <1>11, <1>12, <1>13 DEF BooksOK, EarlyOK

LEMMA EarlyTearsDown ==
  ASSUME ControlInv, NEW f \in Others, DisableTearsDown(f),
         Early, Early', BooksOK, EarlyOK, EffectsOK
  PROVE  BooksOK' /\ EarlyOK' /\ EffectsOK'
<1>0. agenda[f] # <<>> /\ Head(agenda[f]).do = "disable"
  BY DEF DisableTearsDown, ControlInv, LifeInv, AgendasOK, PlaceOK, Working
<1>1. PICK p \in Plugins : p = Target(f)
  BY <1>0, HeadIsPlugin DEF ControlInv
<1>2. /\ pc[f] = "cleared" /\ found[f]
      /\ status' = [status EXCEPT ![p] = "teardown_started"]
      /\ torn' = [torn EXCEPT ![p] = @ + 1]
      /\ pc' = [pc EXCEPT ![f] = "tearing"]
      /\ UNCHANGED <<registry, reason, effects, setUp, agenda, found, mpc, list>>
  BY <1>1 DEF DisableTearsDown, TeardownBegins, mainVars
<1>3. /\ pc \in [Others -> Working \cup {"idle", "on"} \cup Outcomes]
      /\ status \in [Plugins -> Statuses]
      /\ setUp \in [Plugins -> Nat] /\ torn \in [Plugins -> Nat]
  BY DEF ControlInv, LifeInv, LifeTypeOK, BookTypeOK
<1>4. Registered' = Registered
  BY <1>2 DEF Registered
<1>5. /\ \A g \in Others, q \in Plugins : Undoing(g, q)' <=> Undoing(g, q)
      /\ \A g \in Others \ {f} : pc'[g] = pc[g]
      /\ pc'[f] = "tearing" /\ Target(f)' = p /\ Undoing(f, p)
      /\ \A q \in Plugins \ {p} : ~Undoing(f, q)
  BY <1>1, <1>2, <1>3 DEF Undoing, Target, Disabling
<1>6. p \notin Registered /\ \A g \in Others : Undoing(g, p) => g = f
  BY <1>5 DEF BooksOK, OneUndoes
<1>7. Owed(p) /\ ~Owed(p)' /\ \A q \in Plugins \ {p} : Owed(q)' <=> Owed(q)
  <2>1. Owed(p)
    BY <1>2, <1>5 DEF Owed
  <2>2. ~Owed(p)'
    BY <1>4, <1>5, <1>6 DEF Owed
  <2>3. \A q \in Plugins \ {p} : Owed(q)' <=> Owed(q)
    BY <1>4, <1>5 DEF Owed
  <2> QED
    BY <2>1, <2>2, <2>3
<1>8. torn'[p] = torn[p] + 1 /\ \A q \in Plugins \ {p} : torn'[q] = torn[q]
  BY <1>2, <1>3
<1>9. Balanced'
  <2>1. setUp'[p] = torn'[p] + (IF Owed(p)' THEN 1 ELSE 0)
    <3>1. setUp[p] = torn[p] + (IF Owed(p) THEN 1 ELSE 0)
      BY DEF BooksOK, Balanced
    <3>2. setUp[p] = torn[p] + 1 /\ torn'[p] + 0 = torn[p] + 1
      BY <1>3, <1>7, <1>8, <3>1
    <3> QED
      BY <1>2, <1>7, <3>2
  <2>2. ASSUME NEW q \in Plugins \ {p} PROVE setUp'[q] = torn'[q] + (IF Owed(q)' THEN 1 ELSE 0)
    BY <1>2, <1>7, <1>8 DEF BooksOK, Balanced
  <2> QED
    BY <2>1, <2>2 DEF Balanced
<1>10. Untouched' /\ OneUndoes'
  BY <1>2, <1>4, <1>5 DEF BooksOK, Untouched, OneUndoes
<1>11. ASSUME NEW q \in Plugins PROVE EarlyMarks(q)'
  <2>1. EarlyMarks(q)
    BY DEF EarlyOK
  <2>2. CASE q = p
    BY <1>2, <1>3, <1>4, <1>5, <1>6, <2>2 DEF EarlyMarks
  <2>3. CASE q # p
    <3>1. status'[q] = status[q] /\ (Clean(q)' <=> Clean(q))
      BY <1>2, <1>3, <2>3 DEF Clean
    <3>2. (\E g \in Others : pc[g] = "tearing" /\ Target(g) = q)
            => \E g \in Others : pc'[g] = "tearing" /\ Target(g)' = q
      BY <1>2, <1>5 DEF Target
    <3> QED
      BY <1>4, <2>1, <3>1, <3>2 DEF EarlyMarks
  <2> QED
    BY <2>2, <2>3
<1>12. EffectsOK'
  <2>1. \A q \in Plugins : InSetup(q) => InSetup(q)'
    BY <1>2, <1>3 DEF InSetup
  <2> QED
    BY <1>2, <1>4, <1>5, <2>1 DEF EffectsOK
<1> QED
  BY <1>9, <1>10, <1>11, <1>12 DEF BooksOK, EarlyOK

\* A coroutine is done with a plugin.
LEMMA EarlyDone ==
  ASSUME ControlInv, ReloadsOK, RunsTraced, NEW f \in Others, DisableSkips(f) \/ DisableEnds(f),
         Early, Early', BooksOK, EarlyOK, EffectsOK
  PROVE  BooksOK' /\ EarlyOK' /\ EffectsOK'
<1>0. pc[f] \in Disabling
  BY DEF DisableSkips, DisableEnds, Disabling
<1>1. PICK p \in Plugins : p = Target(f) /\ (Clean(p) => p \notin Registered)
  BY <1>0, OffOrFaulty
<1>2. /\ status' = [status EXCEPT ![p] = "disabled"]
      /\ pc' = [pc EXCEPT ![f] = "on"]
      /\ agenda' = [agenda EXCEPT ![f] = Tail(@)]
      /\ UNCHANGED <<registry, reason, torn, setUp, found, mpc, list>>
  BY <1>1 DEF DisableSkips, DisableEnds, PopItem, mainVars
<1>3. /\ pc \in [Others -> Working \cup {"idle", "on"} \cup Outcomes]
      /\ status \in [Plugins -> Statuses] /\ effects \in [Plugins -> BOOLEAN]
      /\ agenda \in [Others -> Seq(Items)]
  BY DEF ControlInv, LifeInv, LifeTypeOK, BookTypeOK
<1>4. Registered' = Registered
  BY <1>2 DEF Registered
<1>5. \/ ~found[f] /\ UNCHANGED effects
      \/ pc[f] = "tearing" /\ effects' = [effects EXCEPT ![p] = FALSE]
  <2>1. EarlyMarks(p)
    BY DEF EarlyOK
  <2> QED
    BY <1>1, <2>1 DEF DisableSkips, DisableEnds, AlreadyTorn, EarlyMarks
<1>6. /\ \A g \in Others \ {f}, q \in Plugins : Undoing(g, q)' <=> Undoing(g, q)
      /\ \A g \in Others \ {f} : pc'[g] = pc[g] /\ agenda'[g] = agenda[g]
      /\ pc'[f] = "on" /\ \A q \in Plugins : ~Undoing(f, q)'
      /\ \A q \in Plugins : Undoing(f, q) => q = p /\ pc[f] = "tearing"
  BY <1>1, <1>2, <1>3, <1>5 DEF Undoing, Target, Disabling
<1>7. \A q \in Plugins : Owed(q)' <=> Owed(q)
  BY <1>4, <1>6, <1>2 DEF Owed
<1>8. Balanced'
  BY <1>2, <1>7 DEF BooksOK, Balanced
<1>9. Untouched' /\ OneUndoes'
  BY <1>2, <1>4, <1>6 DEF BooksOK, Untouched, OneUndoes
<1>10. ASSUME NEW q \in Plugins PROVE EarlyMarks(q)'
  <2>1. EarlyMarks(q)
    BY DEF EarlyOK
  <2>2. Clean(q)' <=> Clean(q)
    BY <1>2 DEF Clean
  <2>3. CASE q = p
    BY <1>1, <1>2, <1>3, <1>4, <2>2, <2>3 DEF EarlyMarks
  <2>4. CASE q # p
    <3>1. status'[q] = status[q]
      BY <1>2, <1>3, <2>4
    <3>2. (\E g \in Others : pc[g] = "tearing" /\ Target(g) = q)
            => \E g \in Others : pc'[g] = "tearing" /\ Target(g)' = q
      BY <1>1, <1>6, <2>4 DEF Target
    <3> QED
      BY <1>4, <2>1, <2>2, <3>1, <3>2 DEF EarlyMarks
  <2> QED
    BY <2>3, <2>4
<1>11. EffectsOK'
  <2>1. \A q \in Plugins : InSetup(q) => InSetup(q)'
    BY <1>0, <1>2, <1>6 DEF InSetup, Disabling, Others
  <2>2. ASSUME NEW q \in Plugins, q \notin Registered', ~InSetup(q)',
               \A g \in Others : ~Undoing(g, q)'
        PROVE  ~effects'[q]
    <3>1. CASE Undoing(f, q)
      BY <1>3, <1>5, <1>6, <3>1 DEF Undoing
    <3>2. CASE ~Undoing(f, q)
      <4>1. ~effects[q]
        BY <1>4, <1>6, <2>1, <2>2, <3>2 DEF EffectsOK
      <4> QED
        BY <1>3, <1>5, <4>1
    <3> QED
      BY <3>1, <3>2
  <2> QED
    BY <2>2 DEF EffectsOK
<1> QED
  BY <1>8, <1>9, <1>10, <1>11 DEF BooksOK, EarlyOK

LEMMA EarlyReloadSetup ==
  ASSUME ControlInv, Exclusive, ReloadsOK, NEW r \in Others, ReloadSetupReturns(r),
         Early, Early', BooksOK, EarlyOK, EffectsOK
  PROVE  BooksOK' /\ EarlyOK' /\ EffectsOK'
<1>0. /\ r \in Reloaders /\ agenda[r] # <<>> /\ Head(agenda[r]).do = "setup"
      /\ pc[r] = "setting_up"
  BY WhoSetsUp DEF ReloadSetupReturns
<1>1. PICK p \in Plugins : p = Target(r) /\ p \notin Registered
  BY <1>0, ReloadFindsRequired DEF ReloadsOK
<1>2. /\ status' = [status EXCEPT ![p] = "ready"] /\ registry' = Registering(p)
      /\ setUp' = [setUp EXCEPT ![p] = @ + 1]
      /\ pc' = [pc EXCEPT ![r] = "on"]
      /\ agenda' = [agenda EXCEPT ![r] = Tail(@)]
      /\ UNCHANGED <<reason, torn, effects, found, mpc, list>>
  BY <1>1 DEF ReloadSetupReturns, PopItem, mainVars
<1>3. /\ pc \in [Others -> Working \cup {"idle", "on"} \cup Outcomes]
      /\ status \in [Plugins -> Statuses] /\ agenda \in [Others -> Seq(Items)]
      /\ setUp \in [Plugins -> Nat] /\ torn \in [Plugins -> Nat]
      /\ registry \in Seq(Plugins)
  BY DEF ControlInv, LifeInv, LifeTypeOK, BookTypeOK
<1>4. Registered' = Registered \cup {p}
  BY <1>1, <1>2, <1>3, RegisteringAdds DEF Registered
<1>5. \A g \in Others : pc[g] \notin Disabling /\ pc'[g] \notin Disabling
  <2>1. \A g \in Others \ {r} : agenda[g] = <<>> /\ pc'[g] = pc[g]
    BY <1>0, <1>2, <1>3 DEF Exclusive, Active
  <2>2. \A g \in Others \ {r} : pc[g] \notin Disabling
    BY <2>1 DEF ControlInv, LifeInv, AgendasOK, PlaceOK, Working, Disabling
  <2>3. pc[r] \notin Disabling /\ pc'[r] \notin Disabling
    BY <1>0, <1>2, <1>3 DEF Disabling
  <2> QED
    BY <2>1, <2>2, <2>3
<1>6. \A g \in Others, q \in Plugins : ~Undoing(g, q) /\ ~Undoing(g, q)'
  BY <1>5 DEF Undoing
<1>7. ~Owed(p) /\ Owed(p)' /\ \A q \in Plugins \ {p} : Owed(q)' <=> Owed(q)
  BY <1>1, <1>4, <1>6 DEF Owed
<1>8. setUp'[p] = setUp[p] + 1 /\ \A q \in Plugins \ {p} : setUp'[q] = setUp[q]
  BY <1>2, <1>3
<1>9. Balanced'
  <2>1. setUp[p] = torn[p] + (IF Owed(p) THEN 1 ELSE 0)
    BY DEF BooksOK, Balanced
  <2>2. setUp[p] = torn[p]
    BY <1>3, <1>7, <2>1
  <2>3. setUp'[p] = torn'[p] + (IF Owed(p)' THEN 1 ELSE 0)
    BY <1>2, <1>7, <1>8, <2>2
  <2>4. ASSUME NEW q \in Plugins \ {p} PROVE setUp'[q] = torn'[q] + (IF Owed(q)' THEN 1 ELSE 0)
    BY <1>2, <1>7, <1>8 DEF BooksOK, Balanced
  <2> QED
    BY <2>3, <2>4 DEF Balanced
<1>10. Untouched' /\ OneUndoes'
  BY <1>2, <1>4, <1>6, <1>8 DEF BooksOK, Untouched, OneUndoes
<1>11. ASSUME NEW q \in Plugins PROVE EarlyMarks(q)'
  <2>1. EarlyMarks(q) /\ (Clean(q)' <=> Clean(q))
    BY <1>2 DEF EarlyOK, Clean
  <2>2. CASE q = p
    BY <1>2, <1>3, <1>4, <2>2 DEF EarlyMarks
  <2>3. CASE q # p
    <3>1. status'[q] = status[q] /\ (q \in Registered' <=> q \in Registered)
      BY <1>2, <1>3, <1>4, <2>3
    <3>2. status[q] # "teardown_started"
      BY <1>5, <2>1 DEF EarlyMarks, Disabling
    <3> QED
      BY <2>1, <3>1, <3>2 DEF EarlyMarks
  <2> QED
    BY <2>2, <2>3
<1>12. EffectsOK'
  <2>1. \A q \in Plugins \ {p} : InSetup(q) => InSetup(q)'
    <3>1. \A s \in Reloaders : s # r => pc'[s] = pc[s] /\ agenda'[s] = agenda[s]
      BY <1>2, <1>3 DEF Others
    <3> QED
      BY <1>1, <1>2, <3>1 DEF InSetup, Target
  <2> QED
    BY <1>2, <1>4, <1>6, <2>1 DEF EffectsOK
<1> QED
  BY <1>9, <1>10, <1>11, <1>12 DEF BooksOK, EarlyOK

\* The other steps of a run, or of a reload, change nothing of all this.
LEMMA EarlyOthers ==
  ASSUME ControlInv, ReloadsOK, NEW f \in Others, StepOf(f), ~DisableBegins(f), ~DisableTearsDown(f),
         ~DisableSkips(f), ~DisableEnds(f), ~ReloadSetupReturns(f),
         ~Cancelled(f), ~(f \in Reloaders /\ ReloadRaises(f)),
         Early, Early', BooksOK, EarlyOK, EffectsOK
  PROVE  BooksOK' /\ EarlyOK' /\ EffectsOK'
<1>1. /\ pc \in [Others -> Working \cup {"idle", "on"} \cup Outcomes]
      /\ status \in [Plugins -> Statuses] /\ agenda \in [Others -> Seq(Items)]
  BY DEF ControlInv, LifeInv, LifeTypeOK
<1>2. \A g \in Others \ {f} : pc'[g] = pc[g] /\ agenda'[g] = agenda[g] /\ found'[g] = found[g]
  BY OthersWait DEF ControlInv
<1>3. UNCHANGED <<registry, reason, setUp, torn, effects, mpc, list>>
  BY DEF StepOf, RunStep, CancelReturns, DependentsBegin, LoopNext, Degrades, InitializeBegins,
         InitializeReturns, ReloadSetupBegins, ReloadReturns, FaultArises, ReloadRejected,
         ReloadBegins, pluginVars, mainVars
<1>4. CASE CancelReturns(f)
  <2>1. /\ pc[f] = "cancelling" /\ pc' = [pc EXCEPT ![f] = "cleared"]
        /\ UNCHANGED <<agenda, found, status>>
    BY <1>4 DEF CancelReturns, pluginVars
  <2>2. \A q \in Plugins : InSetup(q) => InSetup(q)'
    BY <1>1, <1>3, <2>1 DEF InSetup
  <2> QED
    BY <1>1, <1>3, <2>1, <2>2, EarlyQuiet DEF Disabling
<1>5. CASE ReloadSetupBegins(f)
  <2>1. /\ agenda[f] # <<>> /\ Head(agenda[f]).do = "setup" /\ pc[f] = "on"
        /\ pc' = [pc EXCEPT ![f] = "setting_up"]
        /\ UNCHANGED <<agenda, found>> /\ status' = [status EXCEPT ![Target(f)] = "setup_started"]
    BY <1>5 DEF ReloadSetupBegins, Takes
  <2>2. f \in Reloaders
    BY <2>1, TheItems DEF RunItems, Others
  <2>3. Target(f) \in Plugins /\ Target(f) \notin Registered
    BY <2>1, <2>2, ReloadFindsRequired DEF ReloadsOK
  <2>4. \A q \in Plugins : InSetup(q) => InSetup(q)'
    BY <1>1, <1>3, <2>1 DEF InSetup
  <2>5. \A q \in Plugins : \/ status'[q] = status[q]
                           \/ status'[q] = "setup_started" /\ q \notin Registered
    BY <1>1, <2>1, <2>3
  <2> QED
    BY <1>1, <1>3, <2>1, <2>4, <2>5, EarlyQuiet DEF Disabling
<1>6. CASE ~CancelReturns(f) /\ ~ReloadSetupBegins(f)
  <2>1. /\ status' = status
        /\ \/ pc[f] \in {"on", "idle", "initializing"}
           \/ UNCHANGED <<pc[f], agenda[f], found[f]>>
    BY <1>6 DEF StepOf, RunStep, DependentsBegin, LoopNext, Degrades, InitializeBegins,
           InitializeReturns, ReloadReturns, FaultArises, ReloadRejected,
           ReloadBegins, pluginVars, Takes
  <2>2. \/ pc'[f] \in {"on", "idle", "initializing"} \cup Outcomes
        \/ UNCHANGED <<pc[f], agenda[f], found[f]>>
    BY <1>1, <1>6 DEF StepOf, RunStep, DependentsBegin, LoopNext, Degrades, InitializeBegins,
           InitializeReturns, ReloadReturns, FaultArises, ReloadRejected,
           ReloadBegins, pluginVars, Takes, Outcomes
  <2>3. /\ pc[f] \notin Disabling /\ pc'[f] \notin Disabling /\ pc[f] # "setting_up"
        \/ UNCHANGED <<pc[f], agenda[f], found[f]>>
    BY <2>1, <2>2 DEF Disabling, Outcomes
  <2>4. \A q \in Plugins : InSetup(q) => InSetup(q)'
    BY <1>2, <1>3, <2>3 DEF InSetup, Others
  <2> QED
    BY <1>2, <1>3, <2>1, <2>3, <2>4, EarlyQuiet DEF Disabling
<1> QED
  BY <1>4, <1>5, <1>6

\* Until the stop, the books are kept.
LEMMA EarlyNext ==
  ASSUME BooksInv, [Next]_vars, Calm', Early'
  PROVE  BooksOK' /\ EarlyOK' /\ EffectsOK'
<1>1. /\ ControlInv /\ Exclusive /\ ReloadsOK /\ RunsTraced /\ ControlInv' /\ Early
      /\ BooksOK /\ EarlyOK /\ EffectsOK /\ BookTypeOK
      /\ \A r \in Reloaders : ~Cancelled(r) /\ ~ReloadRaises(r)
  BY CalmBefore DEF ControlInv
<1>2. CASE MainStep
  BY <1>1, <1>2, EarlyMain
<1>3. CASE PluginStep \/ UNCHANGED vars
  BY <1>1, <1>3, EarlyPlugins
<1>4. ASSUME NEW f \in Others, StepOf(f) PROVE BooksOK' /\ EarlyOK' /\ EffectsOK'
  <2>1. ~Cancelled(f) /\ ~(f \in Reloaders /\ ReloadRaises(f))
    BY <1>1 DEF Cancelled, Early, Others
  <2>2. CASE DisableBegins(f)
    BY <1>1, <1>4, <2>2, EarlyDisableBegins
  <2>3. CASE DisableTearsDown(f)
    BY <1>1, <2>3, EarlyTearsDown
  <2>4. CASE DisableSkips(f) \/ DisableEnds(f)
    BY <1>1, <2>4, EarlyDone
  <2>5. CASE ReloadSetupReturns(f)
    BY <1>1, <2>5, EarlyReloadSetup
  <2> QED
    BY <1>1, <1>4, <2>1, <2>2, <2>3, <2>4, <2>5, EarlyOthers
<1> QED
  BY <1>2, <1>3, <1>4, WhoSteps

\* Who has nothing left, or has only just counted a fault, is at work nowhere.
LEMMA AtRest ==
  ASSUME ControlInv, \A f \in Others : agenda[f] # <<>> => AboutToDisable(f)
  PROVE  \A f \in Others : /\ pc[f] \notin Disabling \cup {"setting_up"}
                           /\ \A p \in Plugins : ~Undoing(f, p)
BY DEF ControlInv, LifeInv, AgendasOK, PlaceOK, Working, Disabling, AboutToDisable, Undoing

\* Books without a coroutine at work.
Settled(p) == setUp[p] = torn[p] + (IF p \in Registered /\ status[p] = "ready" THEN 1 ELSE 0)

LEMMA LateBooks ==
  ASSUME ~Early, \A f \in Others, p \in Plugins : ~Undoing(f, p)
  PROVE  BooksOK <=> Untouched /\ \A p \in Plugins : Settled(p)
<1>1. \A p \in Plugins : Owed(p) <=> p \in Registered /\ status[p] = "ready"
  BY DEF Owed
<1>2. Balanced <=> \A p \in Plugins : Settled(p)
  BY <1>1 DEF Balanced, Settled
<1> QED
  BY <1>2 DEF BooksOK, OneUndoes

\* The stop, or the rollback, begins.
LEMMA LateFirst ==
  ASSUME ControlInv, ControlInv', Exclusive, RunsTraced, BooksOK, EarlyOK, AllClean',
         MainStep, Early, ~Early', disturbed' = {}
  PROVE  BooksOK' /\ LateOK'
<1>1. /\ SetupFails \/ StopBegins
      /\ UNCHANGED <<pc, agenda, found, registry, reason, setUp, torn, effects>>
      /\ turn = NoOne
  BY DEF MainStep, SetupBegins, SetupReturns, SetupDone, SetupFails, RollbackNext,
         MainTeardownReturns, StopBegins, CancelAll, CancelAllReturns, UnloadNext, Close,
         Early, runVars, pluginVars
<1>2. \A f \in Others : agenda[f] = <<>> /\ pc[f] \notin Disabling
  <2>1. ASSUME NEW f \in Runs PROVE agenda[f] = <<>>
    BY <1>1, <2>1, RunsAssumption DEF RunsTraced, AboutToDisable, AllClean, Clean
  <2>2. ASSUME NEW r \in Reloaders PROVE agenda[r] = <<>>
    BY <1>1, <2>2 DEF SetupFails, StopBegins, Exclusive, Active, Reloading
  <2>3. \A f \in Others : agenda[f] = <<>>
    BY <2>1, <2>2 DEF Others
  <2> QED
    BY <2>3 DEF ControlInv, LifeInv, AgendasOK, PlaceOK, Working, Disabling
<1>3. /\ Registered' = Registered
      /\ \A f \in Others, p \in Plugins : ~Undoing(f, p) /\ ~Undoing(f, p)'
  BY <1>1, <1>2 DEF Registered, Undoing
<1>4. status \in [Plugins -> Statuses]
  BY DEF ControlInv, LifeInv, LifeTypeOK
<1>5. ASSUME NEW p \in Plugins
      PROVE  /\ status'[p] \notin {"torn_down", "teardown_started"}
             /\ status'[p] = "ready" <=> p \in Registered
  <2>1. EarlyMarks(p) /\ Clean(p)
    BY <1>1 DEF EarlyOK, AllClean, Clean
  <2>2. /\ status[p] \notin {"torn_down", "teardown_started"}
        /\ status[p] = "ready" <=> p \in Registered
    BY <1>2, <2>1 DEF EarlyMarks, Disabling
  <2>3. CASE StopBegins
    BY <2>2, <2>3 DEF StopBegins, pluginVars
  <2>4. CASE SetupFails
    <3>1. Head(list) \in Plugins /\ Head(list) \notin Registered
      BY <2>4, NextToSetUp DEF SetupFails, ControlInv, LifeInv, LifeTypeOK
    <3> QED
      BY <1>4, <2>2, <2>4, <3>1 DEF SetupFails
  <2> QED
    BY <1>1, <2>3, <2>4
<1>6. BooksOK'
  <2>1. \A p \in Plugins : Owed(p)' <=> Owed(p)
    BY <1>3, <1>5 DEF Owed
  <2>2. Balanced'
    BY <1>1, <2>1 DEF BooksOK, Balanced
  <2> QED
    BY <1>1, <1>3, <2>2 DEF BooksOK, Untouched, OneUndoes
<1>7. mpc' \in {"rollback", "stopping"}
  BY <1>1 DEF SetupFails, StopBegins
<1>8. Backwards'
  <2>1. CASE mpc' = "stopping"
    BY <2>1 DEF Backwards
  <2>2. CASE mpc' = "rollback"
    <3>1. list' = Reverse(Order)
      BY <1>1, <2>2 DEF SetupFails, StopBegins
    <3>2. Order \in Seq(Plugins) /\ Len(Order) \in Nat
      BY PluginsAssumption
    <3>3. /\ Len(list') = Len(Order)
          /\ \A i \in 1..Len(Order) : list'[i] = Order[(Len(Order) - i) + 1]
      BY <3>1, <3>2 DEF Reverse
    <3>4. /\ \A i \in 1..Len(Order) : (Len(Order) - i) + 1 = (Len(Order) + 1) - i
          /\ (Len(Order) + 1)..Len(Order) = {} /\ Len(Order) <= Len(Order)
      BY <3>2
    <3> QED
      BY <2>2, <3>3, <3>4 DEF Backwards
  <2> QED
    BY <1>7, <2>1, <2>2
<1>9. \A p \in Plugins : LateMarks(p)'
  BY <1>3, <1>5, <1>7 DEF LateMarks, UnderUnload
<1> QED
  BY <1>1, <1>2, <1>6, <1>8, <1>9 DEF LateOK

\* The next one of a list that is gone through backwards.
LEMMA NextBack ==
  ASSUME NEW S, NEW s \in Seq(S), NEW t \in Seq(S), s # <<>>, Len(s) <= Len(t),
         \A i \in 1..Len(s) : s[i] = t[(Len(s) + 1) - i]
  PROVE  /\ Len(Tail(s)) <= Len(t) /\ Head(s) = t[Len(s)] /\ Len(s) \in 1..Len(t)
         /\ \A i \in 1..Len(Tail(s)) : Tail(s)[i] = t[(Len(Tail(s)) + 1) - i]
         /\ \A i \in (Len(Tail(s)) + 1)..Len(t) : i = Len(s) \/ i \in (Len(s) + 1)..Len(t)
<1> DEFINE n == Len(s)
           m == Len(t)
<1>1. /\ n \in Nat \ {0} /\ m \in Nat /\ Len(Tail(s)) = n - 1 /\ Head(s) = s[1]
      /\ \A i \in 1..(n - 1) : Tail(s)[i] = s[i + 1]
  BY AtHead
<1>2. n <= m /\ \A i \in 1..n : s[i] = t[(n + 1) - i]
  OBVIOUS
<1> HIDE DEF n, m
<1>3. 1 \in 1..n /\ (n + 1) - 1 = n /\ n - 1 <= m /\ n \in 1..m
  BY <1>1, <1>2
<1>4. ASSUME NEW i \in 1..(n - 1) PROVE Tail(s)[i] = t[((n - 1) + 1) - i]
  <2>1. i + 1 \in 1..n /\ (n + 1) - (i + 1) = ((n - 1) + 1) - i
    BY <1>1
  <2> QED
    BY <1>1, <1>2, <2>1
<1>5. \A i \in ((n - 1) + 1)..m : i = n \/ i \in (n + 1)..m
  BY <1>1
<1> QED
  BY <1>1, <1>2, <1>3, <1>4, <1>5 DEF n, m

\* Main takes a plugin off its list, which has been torn down, or need not be.
LEMMA GoesBack ==
  ASSUME ControlInv, Backwards, list # <<>>, list' = Tail(list), registry' = registry,
         \/ mpc \in {"rollback", "in_rollback"} /\ mpc' = "rollback"
         \/ mpc \in {"unload", "in_unload"} /\ mpc' = "unload",
         NEW h \in Plugins, h = Head(list),
         mpc' = "rollback" => status'[h] # "ready",
         mpc' = "unload" => status'[h] = "torn_down",
         \A q \in Plugins : q # h => status'[q] = status[q]
  PROVE  Backwards'
<1>1. list \in Seq(Plugins) /\ Order \in Seq(Plugins) /\ registry \in Seq(Plugins)
  BY PluginsAssumption DEF ControlInv, LifeInv, LifeTypeOK
<1>2. CASE mpc' = "rollback"
  <2>1. /\ Len(list) <= Len(Order)
        /\ \A i \in 1..Len(list) : list[i] = Order[(Len(list) + 1) - i]
        /\ \A i \in (Len(list) + 1)..Len(Order) : status[Order[i]] # "ready"
    BY <1>2 DEF Backwards
  <2>2. /\ Len(list') <= Len(Order) /\ h = Order[Len(list)]
        /\ \A i \in 1..Len(list') : list'[i] = Order[(Len(list') + 1) - i]
        /\ \A i \in (Len(list') + 1)..Len(Order) : i = Len(list) \/ i \in (Len(list) + 1)..Len(Order)
    BY <1>1, <2>1, NextBack
  <2>3. \A i \in (Len(list) + 1)..Len(Order) : Order[i] \in Plugins
    BY <1>1
  <2>4. \A i \in (Len(list') + 1)..Len(Order) : status'[Order[i]] # "ready"
    BY <1>2, <2>1, <2>2, <2>3
  <2> QED
    BY <1>2, <2>2, <2>4 DEF Backwards
<1>3. CASE mpc' = "unload"
  <2>1. /\ Len(list) <= Len(registry)
        /\ \A i \in 1..Len(list) : list[i] = registry[(Len(list) + 1) - i]
        /\ \A i \in (Len(list) + 1)..Len(registry) : status[registry[i]] = "torn_down"
    BY <1>3 DEF Backwards
  <2>2. /\ Len(list') <= Len(registry) /\ h = registry[Len(list)]
        /\ \A i \in 1..Len(list') : list'[i] = registry[(Len(list') + 1) - i]
        /\ \A i \in (Len(list') + 1)..Len(registry) :
             i = Len(list) \/ i \in (Len(list) + 1)..Len(registry)
    BY <1>1, <2>1, NextBack
  <2>3. \A i \in (Len(list) + 1)..Len(registry) : registry[i] \in Plugins
    BY <1>1
  <2>4. \A i \in (Len(list') + 1)..Len(registry) : status'[registry[i]] = "torn_down"
    BY <1>3, <2>1, <2>2, <2>3
  <2> QED
    BY <1>3, <2>2, <2>4 DEF Backwards
<1> QED
  BY <1>2, <1>3

\* Main on its way down.
LEMMA LateMain ==
  ASSUME ControlInv, ControlInv', MainStep, ~Early, ~Early', BooksOK, LateOK
  PROVE  BooksOK' /\ LateOK'
<1>1. /\ UNCHANGED <<pc, agenda, found, registry, reason, setUp>>
      /\ turn \notin Others
  BY RunsAssumption
  DEF MainStep, SetupBegins, SetupReturns, SetupDone, SetupFails, RollbackNext, TeardownBegins,
      MainTeardownReturns, TeardownEnds, StopBegins, CancelAll, CancelAllReturns, UnloadNext,
      Close, Early, runVars, pluginVars, Others
<1>2. \A f \in Others : agenda[f] = <<>>
  BY <1>1 DEF LateOK, AboutToDisable
<1>3. /\ Registered' = Registered
      /\ \A f \in Others, p \in Plugins : ~Undoing(f, p) /\ ~Undoing(f, p)'
  <2>1. \A f \in Others : pc[f] \notin Disabling
    BY <1>2, AtRest
  <2> QED
    BY <1>1, <2>1 DEF Registered, Undoing
<1>4. /\ status \in [Plugins -> Statuses] /\ effects \in [Plugins -> BOOLEAN]
      /\ setUp \in [Plugins -> Nat] /\ torn \in [Plugins -> Nat] /\ registry \in Seq(Plugins)
      /\ list # <<>> => Head(list) \in Plugins
      /\ mpc \in {"in_rollback", "in_unload"} => list # <<>>
  BY AtHead DEF ControlInv, LifeInv, LifeTypeOK, BookTypeOK
<1>5. Untouched /\ \A p \in Plugins : Settled(p) /\ LateMarks(p)
  BY <1>3, LateBooks DEF LateOK
<1>6. ASSUME \A p \in Plugins : Settled(p)' /\ LateMarks(p)', Backwards'
      PROVE  BooksOK' /\ LateOK'
  <2>1. \A p \in Plugins : Owed(p)' <=> p \in Registered' /\ status'[p] = "ready"
    BY <1>3 DEF Owed
  <2>2. Balanced'
    BY <1>6, <2>1 DEF Balanced, Settled
  <2>3. Untouched' /\ OneUndoes'
    BY <1>1, <1>3, <1>5 DEF Untouched, OneUndoes
  <2> QED
    BY <1>1, <1>2, <1>6, <2>2, <2>3 DEF BooksOK, LateOK
\* A step that concerns one plugin.
<1>7. ASSUME NEW h \in Plugins, Settled(h)', LateMarks(h)', Backwards',
             \A q \in Plugins \ {h} : /\ status'[q] = status[q] /\ torn'[q] = torn[q]
                                      /\ effects'[q] = effects[q]
                                      /\ ~UnderUnload(q) /\ ~UnderUnload(q)'
      PROVE  BooksOK' /\ LateOK'
  <2>1. ASSUME NEW q \in Plugins \ {h} PROVE Settled(q)' /\ LateMarks(q)'
    <3>1. Settled(q) /\ LateMarks(q)
      BY <1>5
    <3>2. Settled(q)'
      BY <1>1, <1>3, <1>7, <3>1 DEF Settled
    <3>3. LateMarks(q)'
      BY <1>3, <1>7, <3>1 DEF LateMarks
    <3> QED
      BY <3>2, <3>3
  <2> QED
    BY <1>6, <1>7, <2>1
<1>8. CASE RollbackNext
  <2>1. PICK h \in Plugins : h = Head(list) /\ list # <<>> /\ mpc = "rollback"
    BY <1>4, <1>8 DEF RollbackNext
  <2>2. Settled(h) /\ LateMarks(h) /\ \A q \in Plugins : ~UnderUnload(q)
    BY <1>5, <2>1 DEF UnderUnload
  <2>3. CASE status[h] = "ready"
    <3>1. /\ status' = [status EXCEPT ![h] = "teardown_started"]
          /\ torn' = [torn EXCEPT ![h] = @ + 1]
          /\ mpc' = "in_rollback" /\ UNCHANGED <<list, effects>>
      BY <1>8, <2>1, <2>3 DEF RollbackNext, TeardownBegins
    <3>2. /\ status'[h] = "teardown_started" /\ torn'[h] = torn[h] + 1
          /\ \A q \in Plugins \ {h} : status'[q] = status[q] /\ torn'[q] = torn[q]
      BY <1>4, <3>1
    <3>3. UnderUnload(h)' /\ \A q \in Plugins \ {h} : ~UnderUnload(q)'
      BY <2>1, <3>1 DEF UnderUnload
    <3>4. Settled(h)'
      <4>1. setUp[h] = torn[h] + 1
        BY <2>2, <2>3 DEF Settled, LateMarks
      <4>2. setUp'[h] = torn'[h] + 0
        BY <1>1, <1>4, <3>2, <4>1
      <4> QED
        BY <3>2, <4>2 DEF Settled
    <3>5. LateMarks(h)'
      BY <3>2, <3>3 DEF LateMarks
    <3>6. Backwards'
      <4>1. \A i \in (Len(list) + 1)..Len(Order) : Order[i] \in Plugins
        <5>1. Order \in Seq(Plugins) /\ Len(list) \in Nat
          BY PluginsAssumption DEF ControlInv, LifeInv, LifeTypeOK
        <5> QED
          BY <5>1
      <4>2. \A i \in (Len(list) + 1)..Len(Order) : status'[Order[i]] # "ready"
        BY <2>1, <3>2, <4>1 DEF LateOK, Backwards
      <4> QED
        BY <2>1, <3>1, <4>2 DEF LateOK, Backwards
    <3> QED
      BY <1>7, <2>2, <3>1, <3>2, <3>3, <3>4, <3>5, <3>6
  <2>4. CASE status[h] # "ready"
    <3>1. /\ list' = Tail(list) /\ UNCHANGED <<status, torn, mpc>>
          /\ effects' \in {effects, [effects EXCEPT ![h] = FALSE]}
      BY <1>8, <2>1, <2>4 DEF RollbackNext
    <3>2. \A q \in Plugins : effects'[q] => effects[q]
      BY <1>4, <3>1
    <3>3. \A q \in Plugins : ~UnderUnload(q)'
      BY <2>1, <3>1 DEF UnderUnload
    <3>4. Backwards'
      BY <1>1, <2>1, <2>4, <3>1, GoesBack DEF LateOK
    <3>5. Settled(h)' /\ LateMarks(h)'
      BY <1>1, <1>3, <2>2, <3>1, <3>2, <3>3 DEF Settled, LateMarks
    <3>6. \A q \in Plugins \ {h} : effects'[q] = effects[q]
      BY <1>4, <3>1
    <3> QED
      BY <1>7, <2>2, <3>1, <3>3, <3>4, <3>5, <3>6
  <2> QED
    BY <2>3, <2>4
<1>9. CASE MainTeardownReturns
  <2>1. PICK h \in Plugins : /\ h = Head(list) /\ list # <<>>
                             /\ mpc \in {"in_rollback", "in_unload"}
    BY <1>4, <1>9 DEF MainTeardownReturns
  <2>2. /\ effects' = [effects EXCEPT ![h] = FALSE]
        /\ status' = [status EXCEPT ![h] = "torn_down"]
        /\ list' = Tail(list) /\ torn' = torn
        /\ mpc' = IF mpc = "in_rollback" THEN "rollback" ELSE "unload"
    BY <1>9, <2>1 DEF MainTeardownReturns, TeardownEnds
  <2>3. /\ UnderUnload(h) /\ \A q \in Plugins \ {h} : ~UnderUnload(q)
        /\ \A q \in Plugins : ~UnderUnload(q)'
    BY <2>1, <2>2 DEF UnderUnload
  <2>4. status[h] = "teardown_started" /\ Settled(h)
    BY <1>5, <2>3 DEF LateMarks
  <2>5. /\ status'[h] = "torn_down" /\ ~effects'[h]
        /\ \A q \in Plugins \ {h} : status'[q] = status[q] /\ effects'[q] = effects[q]
    BY <1>4, <2>2
  <2>6. Settled(h)' /\ LateMarks(h)'
    BY <1>1, <2>2, <2>3, <2>4, <2>5 DEF Settled, LateMarks
  <2>7. Backwards'
    BY <1>1, <2>1, <2>2, <2>5, GoesBack DEF LateOK
  <2> QED
    BY <1>7, <2>2, <2>3, <2>5, <2>6, <2>7
<1>10. CASE UnloadNext
  <2>1. PICK h \in Plugins : h = Head(list) /\ list # <<>> /\ mpc = "unload"
    BY <1>4, <1>10 DEF UnloadNext
  <2>2. Settled(h) /\ LateMarks(h) /\ \A q \in Plugins : ~UnderUnload(q)
    BY <1>5, <2>1 DEF UnderUnload
  <2>3. /\ list \in Seq(Plugins) /\ Len(list) <= Len(registry)
        /\ \A i \in 1..Len(list) : list[i] = registry[(Len(list) + 1) - i]
        /\ \A i \in (Len(list) + 1)..Len(registry) : status[registry[i]] = "torn_down"
    BY <2>1 DEF LateOK, Backwards, ControlInv, LifeInv, LifeTypeOK
  <2>4. h = registry[Len(list)] /\ Len(list) \in 1..Len(registry)
    <3>1. registry \in Seq(Plugins) /\ list # <<>>
      BY <1>4, <2>1
    <3>2. Head(list) = registry[Len(list)] /\ Len(list) \in 1..Len(registry)
      BY <2>3, <3>1, NextBack
    <3> QED
      BY <2>1, <3>2
  <2>5. h \in Registered
    BY <1>4, <2>4 DEF Registered, Range
  <2>6. CASE status[h] = "torn_down"
    <3>1. list' = Tail(list) /\ UNCHANGED <<status, torn, effects, mpc>>
      BY <1>10, <2>1, <2>6 DEF UnloadNext, AlreadyTorn, TeardownBegins
    <3>2. \A q \in Plugins : ~UnderUnload(q)'
      BY <2>1, <3>1 DEF UnderUnload
    <3>3. Backwards'
      BY <1>1, <2>1, <2>6, <3>1, GoesBack DEF LateOK
    <3>4. Settled(h)' /\ LateMarks(h)'
      BY <1>1, <1>3, <2>2, <3>1, <3>2 DEF Settled, LateMarks
    <3> QED
      BY <1>7, <2>2, <3>1, <3>2, <3>3, <3>4
  <2>7. CASE status[h] # "torn_down"
    <3>0. status[h] = "ready"
      BY <2>2, <2>5, <2>7 DEF LateMarks
    <3>1. /\ status' = [status EXCEPT ![h] = "teardown_started"]
          /\ torn' = [torn EXCEPT ![h] = @ + 1]
          /\ mpc' = "in_unload" /\ UNCHANGED <<list, effects>>
      BY <1>10, <2>1, <2>7 DEF UnloadNext, AlreadyTorn, TeardownBegins
    <3>2. /\ status'[h] = "teardown_started" /\ torn'[h] = torn[h] + 1
          /\ \A q \in Plugins \ {h} : status'[q] = status[q] /\ torn'[q] = torn[q]
      BY <1>4, <3>1
    <3>3. UnderUnload(h)' /\ \A q \in Plugins \ {h} : ~UnderUnload(q)'
      BY <2>1, <3>1 DEF UnderUnload
    <3>4. Settled(h)'
      <4>1. setUp[h] = torn[h] + 1
        BY <2>2, <2>5, <3>0 DEF Settled
      <4>2. setUp'[h] = torn'[h] + 0
        BY <1>1, <1>4, <3>2, <4>1
      <4> QED
        BY <3>2, <4>2 DEF Settled
    <3>5. LateMarks(h)'
      BY <3>2, <3>3 DEF LateMarks
    <3>6. Backwards'
      <4>1. \A i \in (Len(list) + 1)..Len(registry) : registry[i] \in Plugins /\ registry[i] # h
        <5>1. Len(list) \in Nat
          BY <2>3
        <5>2. \A i \in (Len(list) + 1)..Len(registry) : registry[i] \in Plugins
          BY <1>4, <5>1
        <5> QED
          BY <2>3, <3>0, <5>2
      <4>2. \A i \in (Len(list) + 1)..Len(registry) : status'[registry[i]] = "torn_down"
        BY <2>3, <3>2, <4>1
      <4> QED
        BY <1>1, <2>3, <3>1, <4>2 DEF Backwards
    <3> QED
      BY <1>7, <2>2, <3>1, <3>2, <3>3, <3>4, <3>5, <3>6
  <2> QED
    BY <2>6, <2>7
<1>11. CASE StopBegins \/ CancelAll \/ CancelAllReturns \/ Close
  <2>1. /\ UNCHANGED <<status, torn, effects>>
        /\ mpc \notin {"in_rollback", "in_unload"} /\ mpc' \notin {"in_rollback", "in_unload"}
    BY <1>11 DEF StopBegins, CancelAll, CancelAllReturns, Close, pluginVars
  <2>2. \A q \in Plugins : ~UnderUnload(q) /\ ~UnderUnload(q)'
    BY <2>1 DEF UnderUnload
  <2>3. \A q \in Plugins : Settled(q)' /\ LateMarks(q)'
    BY <1>1, <1>3, <1>5, <2>1, <2>2 DEF Settled, LateMarks
  <2>4. CASE StopBegins \/ CancelAll
    <3>1. mpc' \in {"stopping", "in_cancel"}
      BY <2>4 DEF StopBegins, CancelAll
    <3> QED
      BY <1>6, <2>3, <3>1 DEF Backwards
  <2>5. CASE CancelAllReturns
    <3>1. list' = Reverse(registry) /\ mpc' = "unload"
      BY <2>5 DEF CancelAllReturns, UnloadOrder
    <3>2. /\ Len(registry) \in Nat /\ Len(list') = Len(registry)
          /\ \A i \in 1..Len(registry) : list'[i] = registry[(Len(registry) - i) + 1]
      BY <1>4, <3>1 DEF Reverse
    <3>3. /\ \A i \in 1..Len(registry) : (Len(registry) - i) + 1 = (Len(registry) + 1) - i
          /\ (Len(registry) + 1)..Len(registry) = {} /\ Len(registry) <= Len(registry)
      BY <3>2
    <3>4. Backwards'
      BY <1>1, <3>1, <3>2, <3>3 DEF Backwards
    <3> QED
      BY <1>6, <2>3, <3>4
  <2>6. CASE Close
    <3>1. mpc' \in {"closing", "closed"}
      BY <2>6 DEF Close
    <3>2. \A p \in Registered : status[p] = "torn_down"
      <4>1. CASE mpc = "unload" /\ list = <<>>
        <5>1. \A i \in 1..Len(registry) : status[registry[i]] = "torn_down"
          <6>1. \A i \in (Len(list) + 1)..Len(registry) : status[registry[i]] = "torn_down"
            BY <4>1 DEF LateOK, Backwards
          <6>2. Len(list) = 0
            BY <4>1
          <6> QED
            BY <6>1, <6>2
        <5> QED
          BY <1>4, <5>1 DEF Registered, Range
      <4>2. CASE mpc = "closing"
        BY <4>2 DEF LateOK, Backwards
      <4> QED
        BY <2>6, <4>1, <4>2 DEF Close
    <3>3. Backwards'
      BY <1>3, <2>1, <3>1, <3>2 DEF Backwards
    <3> QED
      BY <1>6, <2>3, <3>3
  <2> QED
    BY <1>11, <2>4, <2>5, <2>6
<1> QED
  BY <1>8, <1>9, <1>10, <1>11
  DEF MainStep, SetupBegins, SetupReturns, SetupDone, SetupFails, Early

LEMMA LatePlugins ==
  ASSUME ControlInv, PluginStep \/ UNCHANGED vars, ~Early, ~Early', BooksOK, LateOK
  PROVE  BooksOK' /\ LateOK'
<1>1. \A p \in Plugins : ~InSetup(p)
  BY AtRest DEF LateOK, InSetup, Early, Others
<1>2. UNCHANGED <<registry, reason, setUp, torn, pc, agenda, found, status, effects, mpc, list, turn>>
  BY <1>1 DEF PluginStep, Registers, CreatesTask, TasksEnd, runVars, mainVars, vars
<1>3. /\ Registered' = Registered
      /\ \A f \in Others : AboutToDisable(f)' <=> AboutToDisable(f)
      /\ \A f \in Others, p \in Plugins : Undoing(f, p)' <=> Undoing(f, p)
  BY <1>2 DEF Registered, AboutToDisable, Undoing, Target
<1>4. \A p \in Plugins : Owed(p)' <=> Owed(p)
  BY <1>2, <1>3 DEF Owed, Early
<1>5. Balanced'
  BY <1>2, <1>4 DEF BooksOK, Balanced
<1>6. Untouched' /\ OneUndoes'
  BY <1>2, <1>3 DEF BooksOK, Untouched, OneUndoes
<1>7. Backwards'
  BY <1>2, <1>3 DEF LateOK, Backwards
<1>8. \A p \in Plugins : LateMarks(p)'
  BY <1>2, <1>3 DEF LateOK, LateMarks, UnderUnload
<1> QED
  BY <1>2, <1>3, <1>5, <1>6, <1>7, <1>8 DEF BooksOK, LateOK

\* Nobody takes a plugin off the registry any more.
LEMMA LateOthers ==
  ASSUME ControlInv, ControlInv', Exclusive, NEW f \in Others, StepOf(f), ~Early, ~Early',
         AllClean', BooksOK, LateOK
  PROVE  BooksOK' /\ LateOK'
<1>1. /\ UNCHANGED <<mpc, list>> /\ \A g \in Others \ {f} : agenda'[g] = agenda[g]
      /\ turn \in {f, NoOne} /\ NoOne \notin Others /\ mpc # "running"
  BY OthersWait, StepTakesTurn, RunsAssumption DEF ControlInv, Others, Early
<1>2. agenda[f] = <<>>
  <2>1. SUFFICES ASSUME agenda[f] # <<>> PROVE FALSE
    OBVIOUS
  <2>2. DisableBegins(f)
    BY <2>1, DisablesNext DEF LateOK
  <2>3. f \notin Reloaders
    BY <1>1, <2>1 DEF Exclusive, Active
  <2>4. Target(f) \in Plugins /\ ~Clean(Target(f))' /\ agenda' = agenda
    BY <2>2, <2>3, TheReason DEF Others, DisableBegins
  <2> QED
    BY <2>4 DEF AllClean, Clean, Target
<1>3. /\ UNCHANGED <<status, registry, reason, effects, setUp, torn>>
      /\ agenda'[f] # <<>> => AboutToDisable(f)'
  <2>1. CASE f \in Runs /\ turn = NoOne /\ \E p \in Plugins : FaultArises(f, p)
    <3>1. PICK p \in Plugins : FaultArises(f, p)
      BY <2>1
    <3>2. UNCHANGED <<status, registry, reason, effects, setUp, torn>>
      BY <3>1 DEF FaultArises
    <3>3. CASE UNCHANGED agenda
      BY <1>2, <3>2, <3>3
    <3>4. CASE ~UNCHANGED agenda
      <4> DEFINE items == <<Disable(p, "faults"), Dependents(p), Degrade>>
      <4>1. turn' = f /\ pc' = [pc EXCEPT ![f] = "on"] /\ agenda' = [agenda EXCEPT ![f] = items]
        BY <3>1, <3>4 DEF FaultArises
      <4>2. Head(items).do = "disable"
        BY DEF Disable
      <4> HIDE DEF items
      <4>3. agenda'[f] = items /\ pc'[f] = "on"
        BY <4>1 DEF ControlInv, LifeInv, LifeTypeOK
      <4>4. AboutToDisable(f)'
        BY <4>1, <4>2, <4>3 DEF AboutToDisable
      <4> QED
        BY <3>2, <4>4
    <3> QED
      BY <3>3, <3>4
  <2>2. ~(f \in Reloaders /\ ReloadBegins(f))
    BY <1>1 DEF ReloadBegins
  <2> QED
    BY <1>2, <2>1, <2>2, WhoWorks DEF pluginVars
<1>4. \A g \in Others : agenda[g] = <<>>
  BY <1>1, <1>2 DEF LateOK, AboutToDisable
<1>5. \A g \in Others : agenda'[g] # <<>> => AboutToDisable(g)'
  BY <1>1, <1>3, <1>4
<1>6. \A g \in Others : pc'[g] \notin Disabling /\ pc[g] \notin Disabling
  <2>1. \A g \in Others : pc'[g] \notin Disabling
    BY <1>5 DEF ControlInv, LifeInv, AgendasOK, PlaceOK, Working, Disabling, AboutToDisable
  <2> QED
    BY <1>4, <2>1, AtRest
<1>7. /\ Registered' = Registered
      /\ \A g \in Others, p \in Plugins : ~Undoing(g, p) /\ ~Undoing(g, p)'
  BY <1>3, <1>6 DEF Registered, Undoing
<1>8. \A p \in Plugins : Owed(p)' <=> Owed(p)
  BY <1>3, <1>7 DEF Owed
<1>9. Balanced'
  BY <1>3, <1>8 DEF BooksOK, Balanced
<1>10. Untouched' /\ OneUndoes'
  BY <1>3, <1>7 DEF BooksOK, Untouched, OneUndoes
<1>11. Backwards'
  BY <1>1, <1>3, <1>7 DEF LateOK, Backwards
<1>12. \A p \in Plugins : LateMarks(p)'
  BY <1>1, <1>3, <1>7 DEF LateOK, LateMarks, UnderUnload
<1> QED
  BY <1>5, <1>9, <1>10, <1>11, <1>12 DEF BooksOK, LateOK

LEMMA BooksInit == Init => BooksInv
<1> SUFFICES ASSUME Init PROVE BooksInv
  OBVIOUS
<1>1. /\ Registered = {} /\ Early
      /\ \A f \in Others : agenda[f] = <<>> /\ pc[f] = "idle"
      /\ \A p \in Plugins : /\ status[p] = "discovered" /\ setUp[p] = 0 /\ torn[p] = 0
                            /\ effects[p] = FALSE
  BY DEF Init, Registered, Range, Early
<1>2. \A f \in Others, p \in Plugins : ~Undoing(f, p)
  BY <1>1 DEF Undoing, Disabling
<1>3. RunsTraced
  BY <1>1 DEF RunsTraced, Disabling, Others
<1>4. BooksOK
  BY <1>1, <1>2 DEF BooksOK, Balanced, Owed, Untouched, OneUndoes
<1>5. EarlyOK /\ LateOK /\ EffectsOK
  BY <1>1 DEF EarlyOK, EarlyMarks, LateOK, EffectsOK
<1> QED
  BY <1>3, <1>4, <1>5, AloneInit DEF BooksInv

LEMMA BooksNext == BooksInv /\ [Next]_vars => BooksInv'
<1> SUFFICES ASSUME BooksInv, [Next]_vars PROVE BooksInv'
  OBVIOUS
<1>1. AloneInv' /\ (disturbed' = {} => RunsTraced')
  BY AloneNext, StaysTraced DEF BooksInv
<1>2. ASSUME Calm' PROVE BooksOK' /\ EarlyOK' /\ LateOK' /\ EffectsOK'
  <2>1. /\ ControlInv /\ Exclusive /\ RunsTraced /\ ControlInv' /\ (Early' => Early)
        /\ BooksOK /\ EarlyOK /\ LateOK /\ disturbed' = {} /\ (Early' \/ AllClean')
    BY <1>2, CalmBefore DEF Calm
  <2>2. CASE Early'
    <3>1. BooksOK' /\ EarlyOK' /\ EffectsOK'
      BY <1>2, <2>2, EarlyNext
    <3> QED
      BY <2>2, <3>1 DEF LateOK
  <2>3. CASE ~Early'
    <3>1. CASE MainStep
      BY <2>1, <2>3, <3>1, LateFirst, LateMain DEF EarlyOK, EffectsOK
    <3>2. CASE Early /\ ~MainStep
      <4>1. mpc' = mpc
        <5>1. CASE PluginStep \/ UNCHANGED vars
          BY <5>1 DEF PluginStep, Registers, CreatesTask, TasksEnd, mainVars, vars
        <5>2. ASSUME NEW f \in Others, StepOf(f) PROVE mpc' = mpc
          BY <2>1, <5>2, OthersWait DEF ControlInv
        <5> QED
          BY <3>2, <5>1, <5>2, WhoSteps
      <4> QED
        BY <2>3, <3>2, <4>1 DEF Early
    <3>3. CASE ~Early /\ (PluginStep \/ UNCHANGED vars)
      BY <2>1, <2>3, <3>3, LatePlugins DEF EarlyOK, EffectsOK
    <3>4. ASSUME ~Early, NEW f \in Others, StepOf(f) PROVE BooksOK' /\ LateOK'
      BY <2>1, <2>3, <3>4, LateOthers
    <3> QED
      BY <2>3, <3>1, <3>2, <3>3, <3>4, WhoSteps DEF EarlyOK, EffectsOK
  <2> QED
    BY <2>2, <2>3
<1> QED
  BY <1>1, <1>2 DEF BooksInv

(* The controller keeps at most one instance of a plugin set up, and tears   *)
(* none down twice, in whatever order reloads, faults and stop() follow each *)
(* other, unless a reload was disturbed or broke off: a plugin is owed a     *)
(* teardown exactly while it is registered, or until the coroutine that took *)
(* it off the registry has called teardown() (PluginRegistry, setup() and    *)
(* _disable_plugin).                                                         *)
THEOREM OneInstanceSound == Spec => []OneInstance
<1>1. ASSUME BooksInv PROVE OneInstance
  <2> SUFFICES ASSUME disturbed = {} /\ NoneBroken,
                      mpc = "running" \/ \A p \in Plugins : reason[p] \in {None, "reload"},
                      NEW p \in Plugins
               PROVE  torn[p] <= setUp[p] /\ setUp[p] <= torn[p] + 1
    BY DEF OneInstance
  <2>1. Calm
    BY DEF Calm, Early, AllClean, Clean
  <2>2. setUp[p] = torn[p] + (IF Owed(p) THEN 1 ELSE 0)
    BY <1>1, <2>1 DEF BooksInv, BooksOK, Balanced
  <2>3. torn[p] \in Nat
    BY <1>1 DEF BooksInv, AloneInv, ControlInv, BookTypeOK
  <2> QED
    BY <2>2, <2>3
<1> QED
  BY <1>1, BooksInit, BooksNext, PTL DEF Spec

(* After stop(), or after a start that failed and was rolled back, each      *)
(* plugin that was set up has been torn down, once for each time it was set  *)
(* up, and has no subscription or command left, if none was disabled and no  *)
(* reload was disturbed or broke off (Controller.stop,                       *)
(* _rollback_plugin_setup).                                                  *)
THEOREM StopLeavesNothing ==
  Spec => [](disturbed = {} /\ NoneBroken => CleanAfterStop)
<1>1. ASSUME BooksInv, disturbed = {} /\ NoneBroken PROVE CleanAfterStop
  <2> SUFFICES ASSUME mpc = "closed", NoneDisabled, NEW p \in Plugins
               PROVE  torn[p] <= setUp[p] /\ (setUp[p] > 0 => torn[p] > 0 /\ ~effects[p])
    BY DEF CleanAfterStop, TeardownOnce
  <2>1. Calm /\ ~Early /\ ControlInv
    BY <1>1 DEF Calm, Early, AllClean, Clean, NoneDisabled, BooksInv, AloneInv
  <2>2. BooksOK /\ LateOK
    BY <1>1, <2>1 DEF BooksInv
  <2>3. Untouched /\ Settled(p) /\ LateMarks(p)
    BY <2>1, <2>2, AtRest, LateBooks DEF LateOK
  <2>4. p \in Registered => status[p] = "torn_down"
    BY <2>1, <2>2 DEF LateOK, Backwards
  <2>5. setUp[p] \in Nat /\ torn[p] \in Nat
    BY <2>1 DEF ControlInv, BookTypeOK
  <2>6. setUp[p] = torn[p]
    BY <2>3, <2>4, <2>5 DEF Settled
  <2>7. setUp[p] > 0 => p \in Registered
    BY <2>3, <2>5 DEF Untouched, NoneDisabled
  <2> QED
    BY <2>3, <2>4, <2>5, <2>6, <2>7 DEF LateMarks
<1> QED
  BY <1>1, BooksInit, BooksNext, PTL DEF Spec

(* While the controller runs, a disabled plugin that nobody is at work on is *)
(* undone: torn down as often as it was set up, with no registrations left   *)
(* (_disable_plugin, by the fault handler and by reload_config).             *)
THEOREM DisabledUndone ==
  Spec => [](disturbed = {} /\ NoneBroken /\ FaultsSpareSetups => DisabledIsUndone)
<1>1. ASSUME BooksInv, RegistryInv, disturbed = {} /\ NoneBroken /\ FaultsSpareSetups
      PROVE  DisabledIsUndone
  <2> SUFFICES ASSUME mpc = "running", NEW p \in Plugins
               PROVE  /\ torn[p] <= setUp[p]
                      /\ status[p] = "disabled" /\ ~UnderDisable(p)
                           => torn[p] = setUp[p] /\ ~effects[p]
    BY DEF DisabledIsUndone, TeardownOnce
  <2>1. Calm /\ Early
    BY <1>1 DEF Calm, Early
  <2>2. /\ setUp[p] = torn[p] + (IF Owed(p) THEN 1 ELSE 0) /\ EffectsOK
        /\ setUp[p] \in Nat /\ torn[p] \in Nat /\ Agrees(p) /\ ControlInv /\ ReloadsOK
    BY <1>1, <2>1 DEF BooksInv, BooksOK, Balanced, AloneInv, ControlInv, BookTypeOK,
                      RegistryInv, RegistryOK, StatusesAgree
  <2>3. torn[p] <= setUp[p]
    BY <2>2
  <2>4. ASSUME status[p] = "disabled", ~UnderDisable(p) PROVE torn[p] = setUp[p] /\ ~effects[p]
    <3>1. p \notin Registered
      BY <2>1, <2>2, <2>4 DEF Agrees
    <3>2. \A f \in Others : ~Undoing(f, p)
      BY <2>4 DEF UnderDisable, Undoing, Disabling
    <3>3. ~InSetup(p)
      BY <2>2, <2>4 DEF InSetup, ReloadsOK, ReloadOK, Target
    <3>4. ~Owed(p)
      BY <3>1, <3>2 DEF Owed
    <3> QED
      BY <2>1, <2>2, <3>1, <3>2, <3>3, <3>4 DEF EffectsOK
  <2> QED
    BY <2>3, <2>4
<1> QED
  BY <1>1, BooksInit, BooksNext, RegistryInit, RegistryNext, PTL DEF Spec

(* A reload that nothing disturbed leaves exactly the configured plugins set *)
(* up and ready, whatever was disabled, failed or broke off before it        *)
(* (reload_config).                                                          *)
THEOREM ReloadFollowsConfig == Spec /\ []FaultsSpareSetups => FollowsConfig
<1> DEFINE Follows ==
             \A r \in Reloaders :
               disturbed = {} /\ pc[r] # "applied" /\ pc'[r] = "applied"
                 => /\ Registered = config
                    /\ \A p \in config : status[p] = "ready"
                    /\ NoneBroken =>
                         \A p \in Plugins \ config :
                           reason[p] = "reload" => torn[p] = setUp[p] /\ ~effects[p]
<1>1. ASSUME BooksInv, RegistryInv, FaultsSpareSetups, [Next]_vars PROVE Follows
  <2> SUFFICES ASSUME NEW r \in Reloaders,
                      disturbed = {}, pc[r] # "applied", pc'[r] = "applied"
               PROVE  /\ Registered = config
                      /\ \A p \in config : status[p] = "ready"
                      /\ NoneBroken =>
                           \A p \in Plugins \ config :
                             reason[p] = "reload" => torn[p] = setUp[p] /\ ~effects[p]
    OBVIOUS
  <2>1. /\ ControlInv /\ Exclusive /\ ReloadOK(r) /\ StatusesAgree /\ r \in Others
        /\ pc \in [Others -> Working \cup {"idle", "on"} \cup Outcomes]
    BY <1>1 DEF RegistryInv, AloneInv, RegistryOK, ReloadsOK, ControlInv, LifeInv, LifeTypeOK,
                Others
  <2>2. turn = r /\ pc[r] = "on" /\ agenda[r] = <<>>
    <3>1. CASE MainStep \/ PluginStep \/ UNCHANGED vars
      <4>1. pc' = pc
        BY <3>1 DEF MainStep, SetupBegins, SetupReturns, SetupDone, SetupFails, RollbackNext,
                    MainTeardownReturns, StopBegins, CancelAll, CancelAllReturns, UnloadNext,
                    Close, PluginStep, Registers, CreatesTask, TasksEnd, runVars, vars
      <4> QED
        BY <4>1
    <3>2. ASSUME NEW f \in Others, StepOf(f) PROVE turn = r /\ pc[r] = "on" /\ agenda[r] = <<>>
      <4>1. f = r
        BY <2>1, <3>2, OthersWait DEF ControlInv
      <4>2. ReloadReturns(r)
        BY <2>1, <3>2, <4>1
        DEF StepOf, RunStep, DisableBegins, CancelReturns, DisableTearsDown, DisableSkips,
            DisableEnds, DependentsBegin, LoopNext, Degrades, InitializeBegins,
            InitializeReturns, ReloadSetupBegins, ReloadSetupReturns,
            Cancelled, FaultArises, ReloadRejected, ReloadBegins, ReloadRaises
      <4> QED
        BY <4>2 DEF ReloadReturns
    <3> QED
      BY <1>1, <3>1, <3>2, WhoSteps
  <2>3. /\ mpc = "running" /\ \A o \in Others \ {r} : agenda[o] = <<>>
        /\ Registered = config
    <3>1. Active(r)
      BY <2>2 DEF Active
    <3> QED
      BY <2>1, <2>2, <3>1, NothingLeft DEF Exclusive, ReloadOK
  <2>4. \A p \in config : status[p] = "ready"
    <3>1. config \subseteq Plugins
      BY <2>1, <2>3 DEF Registered, Range, ControlInv, LifeInv, LifeTypeOK
    <3> QED
      BY <2>1, <2>3, <3>1 DEF StatusesAgree, Agrees, Early
  <2>5. ASSUME NoneBroken, NEW p \in Plugins \ config PROVE torn[p] = setUp[p] /\ ~effects[p]
    <3>1. Calm /\ Early
      BY <2>3, <2>5 DEF Calm, Early
    <3>2. /\ setUp[p] = torn[p] + (IF Owed(p) THEN 1 ELSE 0) /\ EffectsOK
          /\ setUp[p] \in Nat /\ torn[p] \in Nat
      BY <1>1, <2>1, <3>1 DEF BooksInv, BooksOK, Balanced, ControlInv, BookTypeOK
    <3>3. \A f \in Others : agenda[f] = <<>>
      BY <2>2, <2>3
    <3>4. \A f \in Others : pc[f] \notin Working
      BY <2>1, <3>3 DEF ControlInv, LifeInv, AgendasOK, PlaceOK
    <3>5. (\A f \in Others : ~Undoing(f, p)) /\ ~InSetup(p)
      BY <2>3, <3>4 DEF Undoing, Disabling, InSetup, Working, Others
    <3>6. p \notin Registered /\ ~Owed(p)
      BY <2>3, <3>5 DEF Owed
    <3> QED
      BY <3>1, <3>2, <3>5, <3>6 DEF EffectsOK
  <2> QED
    BY <2>3, <2>4, <2>5
<1>2. BooksInv /\ RegistryInv /\ FaultsSpareSetups /\ [Next]_vars => [Follows]_vars
  BY <1>1
<1>3. FollowsConfig <=> [][Follows]_vars
  BY DEF FollowsConfig
<1> HIDE DEF Follows
<1> QED
  BY <1>2, <1>3, BooksInit, BooksNext, RegistryInit, RegistryNext, PTL DEF Spec

(* As long as nothing was disabled, the rollback and stop() tear a plugin    *)
(* down before the plugins it requires: they go through the loader's order,  *)
(* or through the registry, backwards (_rollback_plugin_setup, stop).        *)
THEOREM TornInReverse ==
  Spec /\ [](disturbed = {} /\ NoneBroken) => DependentsTornFirst
<1> DEFINE TornFirst ==
             \A p, q \in Plugins :
               NoneDisabled /\ torn'[p] > torn[p] /\ p \in Requires[q] /\ setUp[q] > 0
                 => torn[q] > 0
<1>1. ASSUME BooksInv, RegistryInv, disturbed = {} /\ NoneBroken, [Next]_vars PROVE TornFirst
  <2> SUFFICES ASSUME NEW p \in Plugins, NEW q \in Plugins,
                      NoneDisabled, torn'[p] > torn[p], p \in Requires[q], setUp[q] > 0
               PROVE  torn[q] > 0
    OBVIOUS
  <2>1. /\ ControlInv /\ Calm /\ BooksOK /\ LateOK
        /\ setUp \in [Plugins -> Nat] /\ torn \in [Plugins -> Nat]
        /\ Order \in Seq(Plugins) /\ registry \in Seq(Plugins) /\ list \in Seq(Plugins)
        /\ IsInjective(registry) /\ RequiredBefore
    BY <1>1, PluginsAssumption
    DEF BooksInv, AloneInv, ControlInv, BookTypeOK, LifeInv, LifeTypeOK, Calm, AllClean, Clean,
        NoneDisabled, RegistryInv, RegistryOK, FaultsSpareSetups
  <2>2. torn[p] \in Nat /\ torn[q] \in Nat /\ setUp[q] \in Nat
    BY <2>1
  <2>3. q \in Registered
    BY <2>1, <2>2 DEF BooksOK, Untouched, NoneDisabled
  <2>4. ASSUME ~Early, status[q] # "ready" PROVE torn[q] > 0
    <3>1. Settled(q)
      BY <2>1, <2>4, AtRest, LateBooks DEF LateOK
    <3> QED
      BY <2>2, <2>4, <3>1 DEF Settled
  <2>5. ~(torn' = torn)
    BY <2>2
  <2>6. CASE RollbackNext
    <3>1. mpc = "rollback" /\ list # <<>> /\ torn' = [torn EXCEPT ![Head(list)] = @ + 1]
      BY <2>5, <2>6 DEF RollbackNext, TeardownBegins
    <3>2. p = Head(list)
      BY <2>1, <2>2, <3>1
    <3>3. /\ Len(list) <= Len(Order)
          /\ \A i \in 1..Len(list) : list[i] = Order[(Len(list) + 1) - i]
          /\ \A i \in (Len(list) + 1)..Len(Order) : status[Order[i]] # "ready"
      BY <2>1, <3>1 DEF LateOK, Backwards, Early
    <3>4. p = Order[Len(list)] /\ Len(list) \in 1..Len(Order)
      <4>1. list \in Seq(Plugins) /\ Order \in Seq(Plugins) /\ list # <<>>
        BY <2>1, <3>1
      <4>2. Len(list) <= Len(Order) /\ \A i \in 1..Len(list) : list[i] = Order[(Len(list) + 1) - i]
        BY <3>3
      <4>3. Head(list) = Order[Len(list)] /\ Len(list) \in 1..Len(Order)
        BY <4>1, <4>2, NextBack
      <4> QED
        BY <3>2, <4>3
    <3>5. q \in Range(Order)
      BY <2>1, <2>3, <3>1 DEF ControlInv, StartOK
    <3>6. PICK k \in 1..Len(Order) : q = Order[k]
      BY <2>1, <3>5 DEF Range
    <3>7. Len(list) < k
      BY <3>4, <3>6, OrderAssumption
    <3>8. k \in (Len(list) + 1)..Len(Order)
      BY <2>1, <3>4, <3>7
    <3> QED
      BY <2>4, <3>1, <3>3, <3>6, <3>8 DEF Early
  <2>7. CASE UnloadNext
    <3>1. mpc = "unload" /\ list # <<>> /\ torn' = [torn EXCEPT ![Head(list)] = @ + 1]
      BY <2>5, <2>7 DEF UnloadNext, TeardownBegins
    <3>2. p = Head(list)
      BY <2>1, <2>2, <3>1
    <3>3. /\ Len(list) <= Len(registry)
          /\ \A i \in 1..Len(list) : list[i] = registry[(Len(list) + 1) - i]
          /\ \A i \in (Len(list) + 1)..Len(registry) : status[registry[i]] = "torn_down"
      BY <2>1, <3>1 DEF LateOK, Backwards, Early
    <3>4. p = registry[Len(list)] /\ Len(list) \in 1..Len(registry)
      BY <2>1, <3>1, <3>2, <3>3, NextBack
    <3>5. PICK k \in 1..Len(registry) : q = registry[k]
      BY <2>1, <2>3 DEF Registered, Range
    <3>6. PICK j \in 1..(k - 1) : registry[j] = p
      BY <2>1, <3>5 DEF RequiredBefore
    <3>7. j \in 1..Len(registry) /\ j < k
      BY <2>1, <3>5, <3>6
    <3>8. j = Len(list)
      <4>1. DOMAIN registry = 1..Len(registry) /\ IsInjective(registry)
        BY <2>1
      <4>2. \A i, m \in 1..Len(registry) : registry[i] = registry[m] => i = m
        BY <4>1 DEF IsInjective
      <4> QED
        BY <3>4, <3>6, <3>7, <4>2
    <3>9. k \in (Len(list) + 1)..Len(registry)
      BY <2>1, <3>4, <3>7, <3>8
    <3> QED
      BY <2>4, <3>1, <3>3, <3>5, <3>9 DEF Early
  <2>8. CASE (MainStep /\ ~RollbackNext /\ ~UnloadNext) \/ PluginStep \/ UNCHANGED vars
    BY <2>5, <2>8 DEF MainStep, SetupBegins, SetupReturns, SetupDone, SetupFails,
                      MainTeardownReturns, TeardownEnds, StopBegins, CancelAll, CancelAllReturns,
                      Close, PluginStep, Registers, CreatesTask, TasksEnd, pluginVars, vars
  <2>9. ASSUME NEW f \in Others, StepOf(f) PROVE FALSE
    <3>1. ~DisableTearsDown(f)
      <4>1. ASSUME DisableTearsDown(f) PROVE FALSE
        <5>1. pc[f] \in Disabling
          BY <4>1 DEF DisableTearsDown, Disabling
        <5>2. /\ agenda[f] # <<>> /\ Head(agenda[f]).do = "disable" /\ reason[Target(f)] # None
          BY <2>1, <5>1 DEF ControlInv, LifeInv, AgendasOK, PlaceOK, Working, Disabling
        <5>3. Target(f) \in Plugins
          BY <2>1, <5>2, HeadIsPlugin DEF ControlInv
        <5> QED
          BY <5>2, <5>3 DEF NoneDisabled
      <4> QED
        BY <4>1
    <3>2. torn' = torn
      BY <2>9, <3>1
      DEF StepOf, RunStep, DisableBegins, CancelReturns, DisableSkips, DisableEnds,
          DependentsBegin, LoopNext, Degrades, InitializeBegins, InitializeReturns,
          ReloadSetupBegins, ReloadSetupReturns, ReloadReturns, Cancelled, TeardownEnds,
          FaultArises, ReloadRejected, ReloadBegins, ReloadRaises, pluginVars
    <3> QED
      BY <2>5, <3>2
  <2> QED
    BY <1>1, <2>6, <2>7, <2>8, <2>9, WhoSteps
<1>2. BooksInv /\ RegistryInv /\ (disturbed = {} /\ NoneBroken) /\ [Next]_vars => [TornFirst]_vars
  BY <1>1
<1>3. DependentsTornFirst <=> [][TornFirst]_vars
  BY DEF DependentsTornFirst
<1> HIDE DEF TornFirst
<1> QED
  BY <1>2, <1>3, BooksInit, BooksNext, RegistryInit, RegistryNext, PTL DEF Spec

-----------------------------------------------------------------------------
(* The same for programs of which the conditions are known beforehand.       *)

LEMMA NoReloads == ASSUME Reloaders = {} PROVE Spec => [](disturbed = {} /\ NoneBroken)
<1>1. BooksInv => disturbed = {} /\ NoneBroken
  BY DEF BooksInv, AloneInv, ControlInv, BookTypeOK, NoneBroken
<1> QED
  BY <1>1, BooksInit, BooksNext, PTL DEF Spec

\* A constant, unlike a state predicate, stays what it is.
LEMMA SetupsSpared == ASSUME "in_setup" \notin FaultsWhen PROVE []FaultsSpareSetups
<1>1. FaultsSpareSetups
  BY DEF FaultsSpareSetups
<1> QED
  BY <1>1, PTL

(* A controller whose configuration nobody reloads: whatever faults arise,   *)
(* stop() leaves nothing behind and tears plugins down in reverse; if they   *)
(* arise outside the setups, the registry agrees with the statuses, plugins  *)
(* are set up behind the ones they require, and disabled ones are undone.    *)
THEOREM WithoutReloads ==
  ASSUME Reloaders = {}
  PROVE  /\ Spec => []CleanAfterStop /\ DependentsTornFirst
         /\ "in_setup" \notin FaultsWhen =>
              (Spec => []RegistryAgrees /\ []DisabledIsUndone /\ SetupNeedsRequired)
<1>1. Spec => [](disturbed = {} /\ NoneBroken)
  BY NoReloads
<1>2. Spec => []CleanAfterStop /\ DependentsTornFirst
  BY <1>1, StopLeavesNothing, TornInReverse, PTL
<1>3. ASSUME "in_setup" \notin FaultsWhen
      PROVE  Spec => []RegistryAgrees /\ []DisabledIsUndone /\ SetupNeedsRequired
  <2>1. []FaultsSpareSetups
    BY <1>3, SetupsSpared
  <2> QED
    BY <1>1, <2>1, RegistrySound, RequiredFirst, DisabledUndone, PTL
<1> QED
  BY <1>2, <1>3

(* And one whose plugins do not fail while others are set up: every reload   *)
(* that nothing disturbs ends with what is configured.                       *)
COROLLARY ReloadsFollow ==
  ASSUME "in_setup" \notin FaultsWhen
  PROVE  Spec => FollowsConfig
<1>1. []FaultsSpareSetups
  BY SetupsSpared
<1> QED
  BY <1>1, ReloadFollowsConfig, PTL

-----------------------------------------------------------------------------
(* Types.                                                                    *)

\* A run of the fault handler ends with the state DEGRADED, and does not set
\* it before.
EndsDegraded(s) == \A i \in 1..Len(s) : s[i].do = "degrade" <=> i = Len(s)

GoesOn(f) == /\ agenda[f] # <<>> => pc[f] \in Working \cup {"on"}
             /\ f \in Runs => /\ pc[f] = "on" => agenda[f] # <<>>
                              /\ EndsDegraded(agenda[f])

\* Who awaits tasks has cancelled them.
WaitsOK == /\ tasks \in [Plugins -> {"none", "running", "cancelled"}]
           /\ waits \in [Others \cup {Main} -> SUBSET Plugins]
           /\ \A w \in Others \cup {Main} : \A p \in waits[w] : tasks[p] = "cancelled"

ValuesOK == /\ state \in States /\ count \in [Plugins -> 0..MaxFaults]
            /\ turn \in Others \cup {Main, NoOne}

TypeInv == ControlInv /\ WaitsOK /\ ValuesOK /\ \A f \in Others : GoesOn(f)

LEMMA NotEmpty == ASSUME NEW s \in Seq(Items) PROVE Len(s) = 0 <=> s = <<>>
OBVIOUS

LEMMA DegradesLast ==
  ASSUME NEW s \in Seq(Items), s # <<>>, EndsDegraded(s)
  PROVE  IF Head(s).do = "degrade" THEN Tail(s) = <<>>
         ELSE Tail(s) # <<>> /\ EndsDegraded(Tail(s))
<1> DEFINE t == Tail(s)
<1>1. /\ Head(s) = s[1] /\ t \in Seq(Items) /\ Len(s) \in Nat \ {0}
      /\ Len(t) = Len(s) - 1 /\ \A i \in 1..Len(t) : t[i] = s[i + 1]
  BY AtHead
<1> HIDE DEF t
<1>2. Len(t) = 0 <=> t = <<>>
  BY <1>1, NotEmpty
<1>3. \A i \in 1..Len(s) : s[i].do = "degrade" <=> i = Len(s)
  BY DEF EndsDegraded
<1>4. s[1].do = "degrade" <=> Len(s) = 1
  BY <1>1, <1>3
<1>5. CASE Head(s).do = "degrade"
  BY <1>1, <1>2, <1>4, <1>5 DEF t
<1>6. CASE Head(s).do # "degrade"
  <2>1. Len(t) # 0
    BY <1>1, <1>4, <1>6
  <2>2. ASSUME NEW i \in 1..Len(t) PROVE t[i].do = "degrade" <=> i = Len(t)
    <3>1. i + 1 \in 1..Len(s) /\ t[i] = s[i + 1]
      BY <1>1
    <3>2. t[i].do = "degrade" <=> i + 1 = Len(s)
      BY <1>3, <3>1
    <3> QED
      BY <1>1, <3>2
  <2>3. t # <<>> /\ EndsDegraded(t)
    BY <1>2, <2>1, <2>2 DEF EndsDegraded
  <2> QED
    BY <1>6, <2>3 DEF t
<1> QED
  BY <1>5, <1>6

LEMMA DegradesAfter ==
  ASSUME NEW s \in Seq(Items), s # <<>>, EndsDegraded(s),
         NEW t \in Seq(Items), \A i \in 1..Len(t) : t[i].do # "degrade"
  PROVE  t \o s # <<>> /\ EndsDegraded(t \o s)
<1>1. /\ t \o s \in Seq(Items) /\ Len(t \o s) = Len(t) + Len(s)
      /\ \A i \in 1..Len(t) : (t \o s)[i] = t[i]
      /\ \A i \in (Len(t) + 1)..(Len(t) + Len(s)) : (t \o s)[i] = s[i - Len(t)]
  BY OneAfterTheOther
<1>2. Len(s) \in Nat \ {0} /\ Len(t) \in Nat
  BY AtHead
<1>3. ASSUME NEW i \in 1..Len(t \o s) PROVE (t \o s)[i].do = "degrade" <=> i = Len(t \o s)
  <2>1. CASE i \in 1..Len(t)
    BY <1>1, <1>2, <2>1
  <2>2. CASE i \in (Len(t) + 1)..(Len(t) + Len(s))
    <3>1. i - Len(t) \in 1..Len(s) /\ (t \o s)[i] = s[i - Len(t)]
      BY <1>1, <1>2, <2>2
    <3>2. s[i - Len(t)].do = "degrade" <=> i - Len(t) = Len(s)
      BY <3>1 DEF EndsDegraded
    <3> QED
      BY <1>1, <1>2, <3>1, <3>2
  <2> QED
    BY <1>1, <1>2, <2>1, <2>2
<1>4. t \o s # <<>>
  BY <1>1, <1>2
<1> QED
  BY <1>3, <1>4 DEF EndsDegraded

\* What a run puts in front of the rest of its agenda is not the end.
LEMMA NotTheEnd ==
  ASSUME NEW p \in Plugins, NEW q \in Plugins, NEW rest \in Seq(Plugins)
  PROVE  /\ \A i \in 1..Len(<<Loop(p, rest)>>) : <<Loop(p, rest)>>[i].do # "degrade"
         /\ \A i \in 1..Len(<<Disable(p, q), Dependents(p), Loop(q, rest)>>) :
              <<Disable(p, q), Dependents(p), Loop(q, rest)>>[i].do # "degrade"
         /\ EndsDegraded(<<Disable(p, "faults"), Dependents(p), Degrade>>)
BY DEF Loop, Disable, Dependents, Degrade, EndsDegraded

LEMMA StepGoesOn ==
  ASSUME ControlInv, NEW f \in Others, GoesOn(f), StepOf(f)
  PROVE  GoesOn(f)'
<1>1. /\ agenda \in [Others -> Seq(Items)] /\ registry \in Seq(Plugins) /\ PlaceOK(f)
      /\ pc \in [Others -> Working \cup {"idle", "on"} \cup Outcomes]
  BY DEF ControlInv, LifeInv, LifeTypeOK, AgendasOK
<1>2. f \in Runs \/ f \in Reloaders
  BY DEF Others
<1>3. CASE DisableBegins(f) \/ CancelReturns(f) \/ DisableTearsDown(f) \/ InitializeBegins(f)
           \/ ReloadSetupBegins(f)
  <2>1. /\ agenda[f] # <<>> /\ agenda'[f] = agenda[f]
        /\ pc'[f] \in Working
    BY <1>1, <1>3 DEF DisableBegins, CancelReturns, DisableTearsDown, InitializeBegins,
                      ReloadSetupBegins, Takes, PlaceOK, Working
  <2> QED
    BY <2>1 DEF GoesOn, EndsDegraded, Working
<1>4. CASE DisableSkips(f) \/ DisableEnds(f) \/ InitializeReturns(f) \/ ReloadSetupReturns(f)
  <2>1. /\ agenda[f] # <<>> /\ agenda'[f] = Tail(agenda[f]) /\ pc'[f] = "on"
        /\ Head(agenda[f]).do # "degrade"
    BY <1>1, <1>4 DEF DisableSkips, DisableEnds, InitializeReturns, ReloadSetupReturns, PopItem,
                      PlaceOK, Working
  <2>2. f \in Runs => agenda'[f] # <<>> /\ EndsDegraded(agenda'[f])
    BY <1>1, <2>1, DegradesLast DEF GoesOn
  <2> QED
    BY <2>1, <2>2 DEF GoesOn, EndsDegraded
<1>5. CASE DependentsBegin(f) \/ LoopNext(f)
  <2>1. /\ agenda[f] # <<>> /\ pc'[f] = "on" /\ Head(agenda[f]).do # "degrade"
        /\ Target(f) \in Plugins /\ Head(agenda[f]).rest \in Seq(Plugins)
    <3>1. /\ agenda[f] # <<>> /\ pc[f] = "on" /\ pc' = pc
          /\ Head(agenda[f]).do \in {"dependents", "loop"}
      BY <1>5 DEF DependentsBegin, LoopNext, Takes
    <3>2. Head(agenda[f]) \in Items /\ Head(agenda[f]) = agenda[f][1] /\ 1 \in 1..Len(agenda[f])
      BY <1>1, <3>1, AtHead
    <3>3. ItemOK(f, 1)
      BY <3>2 DEF ControlInv, LifeInv, AgendasOK
    <3> QED
      BY <3>1, <3>2, <3>3 DEF Items, ItemOK, Target
  <2>2. SUFFICES f \in Runs => agenda'[f] # <<>> /\ EndsDegraded(agenda'[f])
    BY <2>1 DEF GoesOn, EndsDegraded
  <2>3. SUFFICES ASSUME f \in Runs PROVE agenda'[f] # <<>> /\ EndsDegraded(agenda'[f])
    OBVIOUS
  <2>4. Tail(agenda[f]) # <<>> /\ EndsDegraded(Tail(agenda[f])) /\ Tail(agenda[f]) \in Seq(Items)
    BY <1>1, <2>1, <2>3, DegradesLast, AtHead DEF GoesOn
  <2>5. ASSUME NEW rest \in Seq(Plugins)
        PROVE  LET s == <<Loop(Target(f), rest)>> \o Tail(agenda[f])
               IN  s # <<>> /\ EndsDegraded(s)
    <3>1. <<Loop(Target(f), rest)>> \in Seq(Items)
      BY <2>1 DEF Loop, Items, Reasons
    <3> QED
      BY <2>1, <2>4, <3>1, NotTheEnd, DegradesAfter
  <2>6. ASSUME NEW rest \in Seq(Plugins), NEW p \in Plugins
        PROVE  LET s == <<Disable(p, Target(f)), Dependents(p), Loop(Target(f), rest)>>
                          \o Tail(agenda[f])
               IN  s # <<>> /\ EndsDegraded(s)
    <3>1. <<Disable(p, Target(f)), Dependents(p), Loop(Target(f), rest)>> \in Seq(Items)
      BY <2>1 DEF Loop, Disable, Dependents, Items, Reasons
    <3> QED
      BY <2>1, <2>4, <3>1, NotTheEnd, DegradesAfter
  <2>7. CASE DependentsBegin(f)
    <3>1. agenda'[f] = <<Loop(Target(f), registry)>> \o Tail(agenda[f])
      BY <1>1, <2>7 DEF DependentsBegin
    <3> QED
      BY <1>1, <2>5, <3>1
  <2>8. CASE LoopNext(f)
    <3> DEFINE rest == Head(agenda[f]).rest
    <3>1. agenda'[f] = IF rest = <<>> THEN Tail(agenda[f])
                       ELSE (IF Depends(Head(rest), Target(f))
                             THEN <<Disable(Head(rest), Target(f)), Dependents(Head(rest)),
                                    Loop(Target(f), Tail(rest))>>
                             ELSE <<Loop(Target(f), Tail(rest))>>) \o Tail(agenda[f])
      BY <1>1, <2>8 DEF LoopNext
    <3>2. rest # <<>> => Head(rest) \in Plugins /\ Tail(rest) \in Seq(Plugins)
      BY <2>1, AtHead
    <3> HIDE DEF rest
    <3> QED
      BY <2>4, <2>5, <2>6, <3>1, <3>2
  <2> QED
    BY <1>5, <2>7, <2>8
<1>6. CASE Degrades(f)
  <2>1. agenda[f] # <<>> /\ Head(agenda[f]).do = "degrade" /\ agenda'[f] = Tail(agenda[f])
        /\ pc'[f] = "idle"
    BY <1>1, <1>6 DEF Degrades, Takes, PopItem
  <2>2. f \in Runs
    BY <1>2, <2>1, TheItems DEF ReloadItems
  <2>3. agenda'[f] = <<>>
    BY <1>1, <2>1, <2>2, DegradesLast DEF GoesOn
  <2>4. EndsDegraded(<<>>)
    BY DEF EndsDegraded
  <2>5. agenda'[f] = <<>> /\ pc'[f] # "on" /\ EndsDegraded(agenda'[f])
    BY <2>1, <2>3, <2>4
  <2> QED
    BY <2>5 DEF GoesOn, EndsDegraded
<1>7. CASE Cancelled(f) \/ (f \in Reloaders /\ ReloadRaises(f))
  <2>1. agenda'[f] = <<>> /\ pc'[f] # "on"
    BY <1>1, <1>7 DEF Cancelled, ReloadRaises
  <2> QED
    BY <2>1 DEF GoesOn, EndsDegraded
<1>8. CASE f \in Reloaders /\ (ReloadBegins(f) \/ ReloadRejected(f) \/ ReloadReturns(f))
  <2>1. f \notin Runs
    BY <1>8, RunsAssumption
  <2>2. agenda'[f] # <<>> => pc'[f] = "on"
    BY <1>1, <1>8 DEF ReloadBegins, ReloadRejected, ReloadReturns, GoesOn, Working
  <2> QED
    BY <2>1, <2>2 DEF GoesOn
<1>9. CASE f \in Runs /\ ReloadReturns(f)
  BY <1>9 DEF ReloadReturns, GoesOn
<1>10. ASSUME f \in Runs, NEW p \in Plugins, FaultArises(f, p) PROVE GoesOn(f)'
  <2>1. \/ UNCHANGED <<pc, agenda>>
        \/ /\ pc'[f] = "on"
           /\ agenda'[f] = <<Disable(p, "faults"), Dependents(p), Degrade>>
    BY <1>1, <1>10 DEF FaultArises
  <2>2. CASE UNCHANGED <<pc, agenda>>
    BY <2>2 DEF GoesOn, EndsDegraded
  <2>3. CASE /\ pc'[f] = "on"
             /\ agenda'[f] = <<Disable(p, "faults"), Dependents(p), Degrade>>
    <3>1. EndsDegraded(agenda'[f])
      BY <2>3 DEF Disable, Dependents, Degrade, EndsDegraded
    <3>2. agenda'[f] # <<>>
      BY <2>3
    <3> QED
      BY <2>3, <3>1, <3>2 DEF GoesOn, EndsDegraded
  <2> QED
    BY <2>1, <2>2, <2>3
<1> QED
  BY <1>2, <1>3, <1>4, <1>5, <1>6, <1>7, <1>8, <1>9, <1>10 DEF StepOf, RunStep

LEMMA WaitsKept == ASSUME ControlInv, WaitsOK, [Next]_vars PROVE WaitsOK'
<1>1. ASSUME NEW p \in Plugins, TasksGone(p) PROVE WaitsOK'
  BY <1>1 DEF TasksGone, WaitsOK
<1>2. ASSUME NEW p \in Plugins, CreatesTask(p) PROVE WaitsOK'
  BY <1>2 DEF CreatesTask, WaitsOK, runVars
<1>3. CASE CancelAll
  BY <1>3 DEF CancelAll, WaitsOK
<1>4. ASSUME NEW f \in Others, DisableBegins(f) PROVE WaitsOK'
  <2>1. Target(f) \in Plugins
    <3>1. LifeInv /\ agenda[f] # <<>> /\ Head(agenda[f]).do = "disable"
      BY <1>4 DEF DisableBegins, Takes, ControlInv
    <3> QED
      BY <3>1, HeadIsPlugin
  <2> QED
    BY <1>4, <2>1 DEF DisableBegins, WaitsOK
<1>5. ASSUME UNCHANGED <<tasks, waits>> PROVE WaitsOK'
  BY <1>5 DEF WaitsOK
<1>6. CASE (MainStep /\ ~CancelAll) \/ UNCHANGED vars
  BY <1>5, <1>6 DEF MainStep, SetupBegins, SetupReturns, SetupDone, SetupFails, RollbackNext,
                    MainTeardownReturns, StopBegins, CancelAllReturns, UnloadNext, Close,
                    pluginVars, runVars, vars
<1>7. CASE PluginStep
  BY <1>1, <1>2, <1>5, <1>7 DEF PluginStep, Registers, TasksEnd, runVars
<1>8. ASSUME NEW f \in Others, StepOf(f), ~DisableBegins(f) PROVE WaitsOK'
  <2>1. ASSUME NEW p \in Plugins, FaultArises(f, p) PROVE WaitsOK'
    BY <1>1, <1>5, <2>1 DEF FaultArises
  <2>2. ASSUME RunStep(f) \/ Cancelled(f) \/ ReloadRejected(f) \/ ReloadBegins(f) \/ ReloadRaises(f)
        PROVE  UNCHANGED <<tasks, waits>>
    BY <1>8, <2>2
    DEF RunStep, CancelReturns, DisableTearsDown, DisableSkips,
        DisableEnds, DependentsBegin, LoopNext, Degrades, InitializeBegins, InitializeReturns,
        ReloadSetupBegins, ReloadSetupReturns, ReloadReturns, Cancelled, TeardownBegins,
        TeardownEnds, ReloadRejected, ReloadBegins, ReloadRaises, pluginVars, runVars
  <2> QED
    BY <1>5, <1>8, <2>1, <2>2 DEF StepOf
<1> QED
  BY <1>3, <1>4, <1>6, <1>7, <1>8, WhoSteps

LEMMA ValuesKept == ASSUME ControlInv, ValuesOK, [Next]_vars PROVE ValuesOK'
<1>1. /\ "connected" \in States /\ "plugins_ready" \in States /\ "degraded" \in States
      /\ "failed" \in States /\ "stopping" \in States /\ "stopped" \in States
  BY DEF States
<1>2. CASE MainStep \/ PluginStep \/ UNCHANGED vars
  <2>1. count' = count
    BY <1>2 DEF MainStep, SetupBegins, SetupReturns, SetupDone, SetupFails, RollbackNext,
                MainTeardownReturns, StopBegins, CancelAll, CancelAllReturns, UnloadNext, Close,
                PluginStep, Registers, CreatesTask, TasksEnd, vars
  <2>2. turn' \in {turn, Main, NoOne}
    BY <1>2 DEF MainStep, SetupBegins, SetupReturns, SetupDone, SetupFails, RollbackNext,
                MainTeardownReturns, StopBegins, CancelAll, CancelAllReturns, UnloadNext, Close,
                PluginStep, Registers, CreatesTask, TasksEnd, vars
  <2>3. state' \in {state, "plugins_ready", "failed", "stopping", "stopped"}
    BY <1>2 DEF MainStep, SetupBegins, SetupReturns, SetupDone, SetupFails, RollbackNext,
                MainTeardownReturns, StopBegins, CancelAll, CancelAllReturns, UnloadNext, Close,
                PluginStep, Registers, CreatesTask, TasksEnd, SetState, vars
  <2> QED
    BY <1>1, <2>1, <2>2, <2>3 DEF ValuesOK
<1>3. ASSUME NEW f \in Others, StepOf(f) PROVE ValuesOK'
  <2>1. turn' \in {f, NoOne}
    BY <1>3, StepTakesTurn
  <2>2. state' \in {state, "degraded"}
    BY <1>3
    DEF StepOf, RunStep, DisableBegins, CancelReturns, DisableTearsDown, DisableSkips,
        DisableEnds, DependentsBegin, LoopNext, Degrades, InitializeBegins, InitializeReturns,
        ReloadSetupBegins, ReloadSetupReturns, ReloadReturns, Cancelled, FaultArises,
        ReloadRejected, ReloadBegins, ReloadRaises, SetState
  <2>3. \/ count' = count
        \/ \E p \in Plugins : count[p] < MaxFaults /\ count' = [count EXCEPT ![p] = @ + 1]
    BY <1>3
    DEF StepOf, RunStep, DisableBegins, CancelReturns, DisableTearsDown, DisableSkips,
        DisableEnds, DependentsBegin, LoopNext, Degrades, InitializeBegins, InitializeReturns,
        ReloadSetupBegins, ReloadSetupReturns, ReloadReturns, Cancelled, FaultArises,
        ReloadRejected, ReloadBegins, ReloadRaises
  <2>4. count' \in [Plugins -> 0..MaxFaults]
    BY <2>3, FaultsAssumption DEF ValuesOK
  <2> QED
    BY <1>1, <2>1, <2>2, <2>4 DEF ValuesOK
<1> QED
  BY <1>2, <1>3, WhoSteps

(* Every variable keeps its type; among others, nobody awaits tasks he has   *)
(* not cancelled, and every run of the fault handler ends as DEGRADED        *)
(* (_register_plugin_fault, TaskSupervisor.cancel_owner).                    *)
THEOREM LifecycleTypes == Spec => []TypeOK
<1>1. Init => TypeInv
  <2> SUFFICES ASSUME Init PROVE TypeInv
    OBVIOUS
  <2>1. ControlInv
    BY ControlInit
  <2>2. WaitsOK /\ ValuesOK
    BY FaultsAssumption DEF Init, WaitsOK, ValuesOK, States
  <2>3. \A f \in Others : GoesOn(f)
    BY DEF Init, GoesOn, EndsDegraded
  <2> QED
    BY <2>1, <2>2, <2>3 DEF TypeInv
<1>2. TypeInv /\ [Next]_vars => TypeInv'
  <2> SUFFICES ASSUME TypeInv, [Next]_vars PROVE TypeInv'
    OBVIOUS
  <2>1. ControlInv /\ ControlInv' /\ WaitsOK' /\ ValuesOK'
    BY ControlNext, WaitsKept, ValuesKept DEF TypeInv
  <2>2. CASE MainStep \/ PluginStep \/ UNCHANGED vars
    <3>1. UNCHANGED <<pc, agenda>>
      BY <2>2 DEF MainStep, SetupBegins, SetupReturns, SetupDone, SetupFails, RollbackNext,
                  MainTeardownReturns, StopBegins, CancelAll, CancelAllReturns, UnloadNext, Close,
                  PluginStep, Registers, CreatesTask, TasksEnd, runVars, vars
    <3> QED
      BY <2>1, <3>1 DEF TypeInv, GoesOn, EndsDegraded
  <2>3. ASSUME NEW f \in Others, StepOf(f), NEW g \in Others PROVE GoesOn(g)'
    <3>1. CASE g = f
      BY <2>3, <3>1, StepGoesOn DEF TypeInv
    <3>2. CASE g # f
      <4>1. pc'[g] = pc[g] /\ agenda'[g] = agenda[g]
        BY <2>1, <2>3, <3>2, OthersWait DEF ControlInv
      <4> QED
        BY <4>1 DEF TypeInv, GoesOn, EndsDegraded
    <3> QED
      BY <3>1, <3>2
  <2> QED
    BY <2>1, <2>2, <2>3, WhoSteps DEF TypeInv
<1>3. TypeInv => TypeOK
  <2> SUFFICES ASSUME TypeInv PROVE TypeOK
    OBVIOUS
  <2>1. LifeTypeOK /\ AgendasOK /\ BookTypeOK /\ IsInjective(registry)
        /\ config \in Configs \cup {Range(Order)}
    BY DEF TypeInv, ControlInv, LifeInv
  <2>2. config \subseteq Plugins
    BY <2>1, ConfigsAssumption, PluginsAssumption DEF Range
  <2>3. \A f \in Others : /\ agenda[f] # <<>> => pc[f] \in Working \cup {"on"}
                          /\ agenda[f] = <<>> => pc[f] \notin Working
                          /\ f \in Runs => (pc[f] = "on" => agenda[f] # <<>>)
    BY <2>1 DEF TypeInv, GoesOn, AgendasOK, PlaceOK
  <2> QED
    BY <2>1, <2>2, <2>3 DEF TypeOK, TypeInv, WaitsOK, ValuesOK, LifeTypeOK, BookTypeOK, Reasons
<1> QED
  BY <1>1, <1>2, <1>3, PTL DEF Spec

=============================================================================
