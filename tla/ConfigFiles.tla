----------------------------- MODULE ConfigFiles -----------------------------
(***************************************************************************)
(* The configuration of plugins, from the files to the running instances:  *)
(* TrackHelmConfig.from_file reads trackhelm.toml and plugins/<key>.toml,  *)
(* load_enabled_plugins then adds missing defaults to the files and builds *)
(* the plugins, at the start and at every reload.  Nothing of it suspends, *)
(* but the user saves files at any time and the process may be killed.     *)
(*                                                                         *)
(* A configuration is a function from some of the keys of the plugin's     *)
(* class to values; a key in a nested table stands for its path.  What is  *)
(* loaded here is installed and has no cycles: that is PluginLoader's.     *)
(*                                                                         *)
(* An operator whose name starts with Bug is the definition below it with  *)
(* a plausible mistake; no other definition uses it.                       *)
(***************************************************************************)
EXTENDS Naturals, Sequences, FiniteSets

CONSTANTS Named,        \* plugins that are installed
          Classes,      \* configuration classes they may have, by their defaults
          Requires,     \* the plugins each of them requires
          Literals, Tables,     \* keys at the top of a file, and in its tables
          Absent, Broken,       \* no file, and one that is no TOML
          MaxEdits      \* bound: how often the user saves a file

ASSUME NamedAssumption == IsFiniteSet(Named)
ASSUME RequiresAssumption == Requires \in [Named -> SUBSET Named]
ASSUME ClassesAssumption ==
  Classes \subseteq [Literals \cup Tables -> {"default", "none", "required"}]
ASSUME KeysAssumption == Literals \cap Tables = {}
ASSUME MaxEditsAssumption == MaxEdits \in Nat

VARIABLES class,        \* the default of each key: a value, None or no default
          file,         \* plugins/<key>.toml
          main,         \* trackhelm.toml: plugins.enabled and its tables
          enabled_as_read, raw, \* what from_file returned
          todo,         \* what load_enabled_plugins still has to load
          built,        \* the instances it has built
          running,      \* the configuration of each plugin that is set up
          doing,        \* what the process does
          edits, touched,       \* saves, and whose since from_file
          settled,      \* listed plugins that run what nobody has edited since
          cut           \* files that were not written to the end

configVars == <<class, file, main, enabled_as_read, raw, todo, built, running,
                doing, edits, touched, settled, cut>>

ConfigKeys == Literals \cup Tables
UserValues == {"user", "bad"}           \* valid for the class, and not
Contents == UNION {[D -> UserValues] : D \in SUBSET ConfigKeys}
ConfigValues == UserValues \cup {"default", "none", "required"}
Configurations == UNION {[D -> ConfigValues] : D \in SUBSET ConfigKeys}
ASSUME FilesAssumption == {Absent, Broken} \cap Configurations = {}

Empty == [k \in {} |-> "user"]
Good(f) == f \notin {Absent, Broken}
Only(f, D) == [k \in DOMAIN f \cap D |-> f[k]]

BugMergeDefaults(defaults, values) ==   \* the defaults win
  [k \in DOMAIN defaults \cup DOMAIN values |->
     IF k \in DOMAIN defaults THEN defaults[k] ELSE values[k]]

MergeDefaults(defaults, values) ==
  [k \in DOMAIN defaults \cup DOMAIN values |->
     IF k \in DOMAIN values THEN values[k] ELSE defaults[k]]

-----------------------------------------------------------------------------
ConfigInit == /\ class \in [Named -> Classes]
              /\ file = [p \in Named |-> Absent]
              /\ main = [listed |-> {}, inline |-> [p \in Named |-> Empty]]
              /\ enabled_as_read = {} /\ raw = [p \in Named |-> Empty]
              /\ todo = <<>> /\ built = <<>> /\ running = <<>>
              /\ doing = "nothing" /\ edits = 0
              /\ touched = {} /\ settled = {} /\ cut = {}

Saves(p) == /\ edits < MaxEdits /\ doing # "writing"
            /\ edits' = edits + 1
            /\ touched' = touched \cup {p} /\ settled' = settled \ {p}
            /\ UNCHANGED <<class, enabled_as_read, raw, todo, built, running, doing>>

EditsFile(p) == /\ Saves(p)
                /\ \E f \in Contents \cup {Absent, Broken} : file' = [file EXCEPT ![p] = f]
                /\ cut' = cut \ {p}
                /\ UNCHANGED main

EditsMain(p) == /\ Saves(p)
                /\ \E l \in SUBSET Named, f \in Contents :
                     main' = [listed |-> l, inline |-> [main.inline EXCEPT ![p] = f]]
                /\ UNCHANGED <<file, cut>>

-----------------------------------------------------------------------------
BugFound(p) == IF main.inline[p] # Empty THEN main.inline[p]
               ELSE IF Good(file[p]) THEN file[p] ELSE Empty

\* A file wins over a table of trackhelm.toml, also one that cannot be read.
Found(p) == CASE Good(file[p])      -> file[p]
              [] file[p] = Broken   -> Empty
              [] file[p] = Absent   -> main.inline[p]

\* What is listed, and what that requires.
Wanted == {p \in Named : \A S \in SUBSET Named :
             main.listed \subseteq S /\ (\A q \in S : Requires[q] \subseteq S) => p \in S}

Orders(S) == {s \in [1..Cardinality(S) -> S] :
                \A i, j \in DOMAIN s : (i # j => s[i] # s[j])
                                       /\ (s[i] \in Requires[s[j]] => i < j)}

\* from_file, at the start or in reload_config; only listed plugins are looked for.
ReadsConfig ==
  /\ doing \in {"nothing", "running"}
  /\ enabled_as_read' = main.listed
  /\ raw' = [p \in Named |-> IF p \in main.listed THEN Found(p) ELSE Empty]
  /\ todo' \in Orders(Wanted) /\ built' = <<>>
  /\ doing' = "loading" /\ touched' = {}
  /\ UNCHANGED <<class, file, main, running, edits, settled, cut>>

\* The load raises: the start fails, or the reload is rejected.
LoadFails == /\ todo' = <<>> /\ built' = <<>>
             /\ doing' = IF running = <<>> THEN "nothing" ELSE "running"

Merged(p) == MergeDefaults(class[p], file[p])

\* What _sync_plugin_config leaves alone.
NothingToAdd(p) == \/ ~Good(file[p])
                   \/ \E k \in ConfigKeys : class[p][k] = "required"
                   \/ Merged(p) = file[p]

Syncs == /\ doing = "loading" /\ todo # <<>>
         /\ doing' = IF NothingToAdd(Head(todo)) THEN "building" ELSE "writing"
         /\ UNCHANGED <<class, file, main, enabled_as_read, raw, todo, built, running,
                        edits, touched, settled, cut>>

\* TOML has no None.
Written(f) == {k \in DOMAIN f : f[k] # "none"}

\* What tomli_w.dump has written of f when it comes to a None and raises: the
\* keys at the top come first, and of those the user's before the defaults.
Beginnings(p, f) ==
  {Only(f, D) : D \in {D \in SUBSET Written(f) :
     IF \E k \in Literals : f[k] = "none"
     THEN DOMAIN file[p] \cap Literals \subseteq D /\ D \cap Tables = {}
     ELSE Literals \subseteq D}}

Dumps == /\ doing = "writing"
         /\ LET p == Head(todo)
                f == Merged(p)
            IN  IF Written(f) = DOMAIN f
                THEN /\ file' = [file EXCEPT ![p] = f] /\ doing' = "building"
                     /\ UNCHANGED <<todo, built, cut>>
                ELSE /\ \E g \in Beginnings(p, f) : file' = [file EXCEPT ![p] = g]
                     /\ cut' = cut \cup {p} /\ LoadFails
         /\ UNCHANGED <<class, main, enabled_as_read, raw, running, edits, touched, settled>>

\* What config_class(**values) holds.
Filled(p, values) == [k \in ConfigKeys |-> IF k \in DOMAIN values THEN values[k] ELSE class[p][k]]

Builds == /\ doing = "building"
          /\ LET p == Head(todo)
                 config == Filled(p, raw[p])
             IN  IF \A k \in ConfigKeys : config[k] \notin {"bad", "required"}
                 THEN /\ built' = [q \in DOMAIN built \cup {p} |->
                                     IF q = p THEN config ELSE built[q]]
                      /\ todo' = Tail(todo) /\ doing' = "loading"
                 ELSE LoadFails
          /\ UNCHANGED <<class, file, main, enabled_as_read, raw, running, edits,
                         touched, settled, cut>>

\* Plugins that are set up already keep their instance and its configuration.
SetsUp == /\ doing = "loading" /\ todo = <<>>
          /\ running' = [p \in DOMAIN built |->
                           IF p \in DOMAIN running THEN running[p] ELSE built[p]]
          /\ settled' = DOMAIN built \cap
                        (settled \cup ((enabled_as_read \ touched) \ DOMAIN running))
          /\ doing' = "running" /\ built' = <<>>
          /\ UNCHANGED <<class, file, main, enabled_as_read, raw, todo, edits, touched, cut>>

\* The process ends, possibly in the middle of a write.
Dies == /\ doing # "nothing"
        /\ IF doing = "writing"
           THEN LET p == Head(todo)
                IN  /\ \E f \in {Broken} \cup {Only(Merged(p), D) : D \in SUBSET Written(Merged(p))} :
                         file' = [file EXCEPT ![p] = f]
                    /\ cut' = cut \cup {p}
           ELSE UNCHANGED <<file, cut>>
        /\ running' = <<>> /\ todo' = <<>> /\ built' = <<>> /\ settled' = {}
        /\ doing' = "nothing"
        /\ UNCHANGED <<class, main, enabled_as_read, raw, edits, touched>>

ConfigNext == \/ \E p \in Named : EditsFile(p) \/ EditsMain(p)
              \/ ReadsConfig \/ Syncs \/ Dumps \/ Builds \/ SetsUp \/ Dies

ConfigSpec == ConfigInit /\ [][ConfigNext]_configVars

-----------------------------------------------------------------------------
\* What the user sees of the configuration of a plugin.
Shown(p) == IF file[p] = Absent THEN main.inline[p] ELSE file[p]
HasDefaults(p) == Good(file[p]) /\ (\A k \in ConfigKeys : class[p][k] # "required") =>
                    DOMAIN file[p] = ConfigKeys

(* "Write missing plugin config defaults without overwriting user values"  *)
(* (loader.py:121): whatever is loaded and rejected, a value of the user   *)
(* stays in its file until the user saves the file; except that a process  *)
(* that dies, or a default of None, can cut the file that is written.      *)
UserValuesKept ==
  [][edits' = edits =>
       \A p \in Named \ cut' : Good(file[p]) =>
         /\ Good(file'[p])
         /\ \A k \in DOMAIN file[p] : k \in DOMAIN file'[p] /\ file'[p][k] = file[p][k]]_configVars

(* The file of a plugin, or its table in trackhelm.toml when it has no     *)
(* file, shows what the plugin runs with, through reloads that keep it and *)
(* rejected ones, and with every default in it; except for what the user   *)
(* saved since it was loaded, and for plugins that run because another one *)
(* requires them: from_file does not look for theirs.                      *)
FileShowsWhatRuns ==
  \A p \in settled \cap DOMAIN running : file[p] # Broken =>
    /\ running[p] = Filled(p, Shown(p))
    /\ HasDefaults(p)
=============================================================================
