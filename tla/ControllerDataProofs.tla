------------------------ MODULE ControllerDataProofs ------------------------
(***************************************************************************)
(* Theorems of ConfigFiles, for any plugins, requirements, classes and     *)
(* keys, and any number of edits, reloads, failures and deaths: values of  *)
(* the user stay in their files, and the files show what runs.  Theorems   *)
(* of TickLoop: whatever Second is, however long a run lasts, however late *)
(* the loop is woken and however long an emission takes, the heartbeat     *)
(* neither makes up for ticks nor drifts.                                  *)
(***************************************************************************)
EXTENDS ConfigFiles, TickLoop, FiniteSetTheorems, TLAPS

ConfigTypeOK ==
  /\ class \in [Named -> Classes]
  /\ file \in [Named -> Configurations \cup {Absent, Broken}]
  /\ main \in [listed : SUBSET Named, inline : [Named -> Configurations]]
  /\ enabled_as_read \in SUBSET Named
  /\ raw \in [Named -> Configurations]
  /\ todo \in Seq(Named)
  /\ doing \in {"nothing", "loading", "writing", "building", "running"}
  /\ edits \in Nat
  /\ touched \in SUBSET Named

\* What _sync_plugin_config is about to write.
Writing ==
  /\ doing \in {"writing", "building"} => todo # <<>>
  /\ doing = "writing" => LET p == Head(todo)
                          IN  /\ Good(file[p]) /\ Merged(p) # file[p]
                              /\ \A k \in ConfigKeys : class[p][k] # "required"

WriteInv == ConfigTypeOK /\ Writing

-----------------------------------------------------------------------------
(* Configurations and what is made of them.                                *)

LEMMA ConfigurationFacts ==
  /\ Empty \in Configurations
  /\ Contents \subseteq Configurations
  /\ \A f \in Configurations : Good(f)
  /\ \A f \in Configurations : DOMAIN f \subseteq ConfigKeys
<1>1. Empty \in [{} -> ConfigValues]
      BY DEF Empty
<1>2. Empty \in Configurations
      BY <1>1 DEF Configurations
<1>3. Contents \subseteq Configurations
      <2> SUFFICES ASSUME NEW f \in Contents PROVE f \in Configurations
          OBVIOUS
      <2>1. PICK D \in SUBSET ConfigKeys : f \in [D -> UserValues]
            BY DEF Contents
      <2>2. f \in [D -> ConfigValues]
            BY <2>1 DEF ConfigValues
      <2> QED BY <2>2 DEF Configurations
<1>4. \A f \in Configurations : Good(f)
      BY FilesAssumption DEF Good
<1>5. \A f \in Configurations : DOMAIN f \subseteq ConfigKeys
      BY DEF Configurations
<1> QED BY <1>2, <1>3, <1>4, <1>5

LEMMA PartOf ==
  ASSUME NEW f \in Configurations, NEW D
  PROVE  Only(f, D) \in Configurations
<1>1. PICK E \in SUBSET ConfigKeys : f \in [E -> ConfigValues]
      BY DEF Configurations
<1>2. Only(f, D) \in [E \cap D -> ConfigValues]
      BY <1>1 DEF Only
<1>3. E \cap D \in SUBSET ConfigKeys
      OBVIOUS
<1> QED BY <1>2, <1>3 DEF Configurations

(* _merge_defaults keeps what the user wrote and adds the other defaults;  *)
(* what the class makes of the result is what it makes of the file.        *)
LEMMA MergeFacts ==
  ASSUME ConfigTypeOK, NEW p \in Named, file[p] \in Configurations
  PROVE  /\ Merged(p) \in Configurations
         /\ DOMAIN Merged(p) = ConfigKeys
         /\ \A k \in DOMAIN file[p] : k \in DOMAIN Merged(p) /\ Merged(p)[k] = file[p][k]
         /\ Filled(p, Merged(p)) = Filled(p, file[p])
         /\ DOMAIN file[p] = ConfigKeys => Merged(p) = file[p]
<1>1. class[p] \in [ConfigKeys -> {"default", "none", "required"}]
      BY ClassesAssumption DEF ConfigTypeOK, ConfigKeys
<1>2. PICK E \in SUBSET ConfigKeys : file[p] \in [E -> ConfigValues]
      BY DEF Configurations
<1>3. Merged(p) = [k \in ConfigKeys |-> IF k \in E THEN file[p][k] ELSE class[p][k]]
      <2>1. DOMAIN class[p] \cup DOMAIN file[p] = ConfigKeys /\ DOMAIN file[p] = E
            BY <1>1, <1>2
      <2> QED BY <2>1 DEF Merged, MergeDefaults
<1>4. Merged(p) \in [ConfigKeys -> ConfigValues]
      BY <1>1, <1>2, <1>3 DEF ConfigValues
<1>5. Merged(p) \in Configurations
      BY <1>4 DEF Configurations
<1>6. DOMAIN Merged(p) = ConfigKeys
      BY <1>4
<1>7. \A k \in DOMAIN file[p] : k \in DOMAIN Merged(p) /\ Merged(p)[k] = file[p][k]
      BY <1>2, <1>3
<1>8. Filled(p, Merged(p)) = Filled(p, file[p])
      BY <1>2, <1>3 DEF Filled
<1>9. DOMAIN file[p] = ConfigKeys => Merged(p) = file[p]
      BY <1>2, <1>3
<1> QED BY <1>5, <1>6, <1>7, <1>8, <1>9

LEMMA OrderFacts == Orders(Wanted) \subseteq Seq(Named)
<1> SUFFICES ASSUME NEW s \in Orders(Wanted) PROVE s \in Seq(Named)
    OBVIOUS
<1>1. Wanted \subseteq Named /\ IsFiniteSet(Wanted)
      BY NamedAssumption, FS_Subset DEF Wanted
<1>2. Cardinality(Wanted) \in Nat
      BY <1>1, FS_CardinalityType
<1>3. s \in [1..Cardinality(Wanted) -> Wanted]
      BY DEF Orders
<1> QED BY <1>1, <1>2, <1>3

-----------------------------------------------------------------------------
LEMMA FilesStart == ConfigInit => WriteInv
<1> SUFFICES ASSUME ConfigInit PROVE WriteInv
    OBVIOUS
<1>1. ConfigTypeOK
      BY ConfigurationFacts DEF ConfigInit, ConfigTypeOK
<1>2. Writing
      BY DEF ConfigInit, Writing
<1> QED BY <1>1, <1>2 DEF WriteInv

LEMMA EditKeeps ==
  ASSUME WriteInv, NEW p \in Named, EditsFile(p) \/ EditsMain(p)
  PROVE  WriteInv' /\ edits' = edits + 1
<1>1. /\ edits' = edits + 1 /\ doing # "writing" /\ touched' = touched \cup {p}
      /\ UNCHANGED <<class, enabled_as_read, raw, todo, doing>>
      BY DEF EditsFile, EditsMain, Saves
<1>2. file' \in [Named -> Configurations \cup {Absent, Broken}]
      BY ConfigurationFacts DEF WriteInv, ConfigTypeOK, EditsFile, EditsMain
<1>3. main' \in [listed : SUBSET Named, inline : [Named -> Configurations]]
      <2>1. CASE EditsFile(p)
            BY <2>1 DEF WriteInv, ConfigTypeOK, EditsFile
      <2>2. CASE EditsMain(p)
            <3>1. PICK l \in SUBSET Named, f \in Contents :
                    main' = [listed |-> l, inline |-> [main.inline EXCEPT ![p] = f]]
                  BY <2>2 DEF EditsMain
            <3>2. main.inline \in [Named -> Configurations]
                  BY DEF WriteInv, ConfigTypeOK
            <3>3. [main.inline EXCEPT ![p] = f] \in [Named -> Configurations]
                  BY <3>2, ConfigurationFacts
            <3> QED BY <3>1, <3>3
      <2> QED BY <2>1, <2>2
<1>4. ConfigTypeOK'
      BY <1>1, <1>2, <1>3 DEF WriteInv, ConfigTypeOK
<1>5. Writing'
      BY <1>1 DEF WriteInv, Writing
<1> QED BY <1>1, <1>4, <1>5 DEF WriteInv

LEMMA ReadKeeps ==
  ASSUME WriteInv, ReadsConfig
  PROVE  WriteInv'
<1> USE DEF WriteInv, ConfigTypeOK
<1>1. /\ enabled_as_read' = main.listed /\ doing' = "loading" /\ touched' = {}
      /\ UNCHANGED <<class, file, main, edits>>
      BY DEF ReadsConfig
<1>2. todo' \in Seq(Named)
      BY OrderFacts DEF ReadsConfig
<1>3. \A p \in Named : Found(p) \in Configurations
      BY ConfigurationFacts DEF Found, Good
<1>4. raw' \in [Named -> Configurations]
      BY <1>3, ConfigurationFacts DEF ReadsConfig
<1>5. Writing'
      BY <1>1 DEF Writing
<1> QED BY <1>1, <1>2, <1>4, <1>5

LEMMA SyncKeeps ==
  ASSUME WriteInv, Syncs
  PROVE  WriteInv'
<1>1. /\ todo # <<>> /\ doing' = IF NothingToAdd(Head(todo)) THEN "building" ELSE "writing"
      /\ UNCHANGED <<class, file, main, enabled_as_read, raw, todo, edits, touched>>
      BY DEF Syncs
<1>2. ConfigTypeOK'
      BY <1>1 DEF WriteInv, ConfigTypeOK
<1>3. Writing'
      BY <1>1 DEF Writing, NothingToAdd, Merged
<1> QED BY <1>2, <1>3 DEF WriteInv

(* What tomli_w.dump leaves in a file is a configuration, whole or cut.    *)
LEMMA DumpKeeps ==
  ASSUME WriteInv, Dumps
  PROVE  /\ WriteInv'
         /\ Head(todo) \in Named /\ file[Head(todo)] \in Configurations
         /\ \/ file' = [file EXCEPT ![Head(todo)] = Merged(Head(todo))] /\ cut' = cut
            \/ cut' = cut \cup {Head(todo)} /\ (\E g : file' = [file EXCEPT ![Head(todo)] = g])
<1> DEFINE p == Head(todo)
<1>1. /\ doing = "writing" /\ UNCHANGED <<class, main, enabled_as_read, raw, edits, touched>>
      BY DEF Dumps
<1>2. todo # <<>> /\ p \in Named /\ Tail(todo) \in Seq(Named) /\ Good(file[p])
      BY <1>1 DEF WriteInv, ConfigTypeOK, Writing
<1>3. file[p] \in Configurations
      BY <1>2 DEF WriteInv, ConfigTypeOK, Good
<1>4. Merged(p) \in Configurations
      BY <1>2, <1>3, MergeFacts DEF WriteInv
<1>5. CASE Written(Merged(p)) = DOMAIN Merged(p)
      <2>1. file' = [file EXCEPT ![p] = Merged(p)] /\ doing' = "building"
            /\ UNCHANGED <<todo, cut>>
            BY <1>5 DEF Dumps
      <2>2. ConfigTypeOK' /\ Writing'
            BY <1>1, <1>2, <1>4, <2>1 DEF WriteInv, ConfigTypeOK, Writing
      <2> QED BY <1>2, <1>3, <2>1, <2>2 DEF WriteInv
<1>6. CASE Written(Merged(p)) # DOMAIN Merged(p)
      <2>1. PICK g \in Beginnings(p, Merged(p)) : file' = [file EXCEPT ![p] = g]
            BY <1>6 DEF Dumps
      <2>2. cut' = cut \cup {p} /\ todo' = <<>> /\ doing' \in {"nothing", "running"}
            BY <1>6 DEF Dumps, LoadFails
      <2>3. g \in Configurations
            BY <1>4, PartOf DEF Beginnings
      <2>4. ConfigTypeOK' /\ Writing'
            BY <1>1, <1>2, <2>1, <2>2, <2>3 DEF WriteInv, ConfigTypeOK, Writing
      <2> QED BY <1>2, <1>3, <2>1, <2>2, <2>4 DEF WriteInv
<1> QED BY <1>5, <1>6

LEMMA BuildKeeps ==
  ASSUME WriteInv, Builds
  PROVE  WriteInv'
<1>1. /\ doing' \in {"loading", "nothing", "running"}
      /\ todo' \in {<<>>, Tail(todo)}
      /\ UNCHANGED <<class, file, main, enabled_as_read, raw, edits, touched>>
      BY DEF Builds, LoadFails
<1>2. todo # <<>>
      BY DEF Builds, WriteInv, Writing
<1>3. todo' \in Seq(Named)
      <2>1. Tail(todo) \in Seq(Named)
            BY <1>2 DEF WriteInv, ConfigTypeOK
      <2>2. <<>> \in Seq(Named)
            OBVIOUS
      <2> QED BY <1>1, <2>1, <2>2
<1>4. ConfigTypeOK' /\ Writing'
      BY <1>1, <1>3 DEF WriteInv, ConfigTypeOK, Writing
<1> QED BY <1>4 DEF WriteInv

LEMMA DeathKeeps ==
  ASSUME WriteInv, Dies
  PROVE  /\ WriteInv'
         /\ \/ UNCHANGED file
            \/ \E p \in Named : cut' = cut \cup {p} /\ (\E g : file' = [file EXCEPT ![p] = g])
<1>1. /\ todo' = <<>> /\ doing' = "nothing"
      /\ UNCHANGED <<class, main, enabled_as_read, raw, edits, touched>>
      BY DEF Dies
<1>2. CASE doing = "writing"
      <2> DEFINE p == Head(todo)
      <2>1. PICK g \in {Broken} \cup {Only(Merged(p), D) : D \in SUBSET Written(Merged(p))} :
              file' = [file EXCEPT ![p] = g]
            BY <1>2 DEF Dies
      <2>2. p \in Named /\ file[p] \in Configurations
            BY <1>2 DEF WriteInv, ConfigTypeOK, Writing, Good
      <2>3. Merged(p) \in Configurations
            BY <2>2, MergeFacts DEF WriteInv
      <2>4. g \in Configurations \cup {Broken}
            BY <2>3, PartOf
      <2>5. ConfigTypeOK' /\ Writing'
            BY <1>1, <2>1, <2>2, <2>4 DEF WriteInv, ConfigTypeOK, Writing
      <2>6. cut' = cut \cup {p}
            BY <1>2 DEF Dies
      <2> QED BY <2>1, <2>2, <2>5, <2>6 DEF WriteInv
<1>3. CASE doing # "writing"
      <2>1. UNCHANGED file
            BY <1>3 DEF Dies
      <2>2. ConfigTypeOK' /\ Writing'
            BY <1>1, <2>1 DEF WriteInv, ConfigTypeOK, Writing
      <2> QED BY <2>1, <2>2 DEF WriteInv
<1> QED BY <1>2, <1>3

LEMMA SetupKeeps ==
  ASSUME WriteInv, SetsUp
  PROVE  WriteInv'
<1>1. doing' = "running" /\ UNCHANGED <<class, file, main, enabled_as_read, raw, todo, edits, touched>>
      BY DEF SetsUp
<1> QED BY <1>1 DEF WriteInv, ConfigTypeOK, Writing

LEMMA FilesGoOn == WriteInv /\ [ConfigNext]_configVars => WriteInv'
<1> SUFFICES ASSUME WriteInv, [ConfigNext]_configVars PROVE WriteInv'
    OBVIOUS
<1>1. CASE UNCHANGED configVars
      BY <1>1 DEF configVars, WriteInv, ConfigTypeOK, Writing, Merged
<1> QED BY <1>1, EditKeeps, ReadKeeps, SyncKeeps, DumpKeeps, BuildKeeps, SetupKeeps, DeathKeeps
        DEF ConfigNext

LEMMA FilesAlways == ConfigSpec => []WriteInv
BY FilesStart, FilesGoOn, PTL DEF ConfigSpec

(* "Write missing plugin config defaults without overwriting user values"  *)
(* (loader.py:121), for every class and every file: no load takes a value  *)
(* of the user from a file, unless it cuts the file.                       *)
THEOREM UserValuesStay == ConfigSpec => UserValuesKept
<1> DEFINE Kept == edits' = edits =>
      \A p \in Named \ cut' : Good(file[p]) =>
        /\ Good(file'[p])
        /\ \A k \in DOMAIN file[p] : k \in DOMAIN file'[p] /\ file'[p][k] = file[p][k]
<1>1. ASSUME WriteInv, [ConfigNext]_configVars PROVE Kept
      <2>1. CASE UNCHANGED file
            BY <2>1
      <2>2. CASE \E p \in Named : EditsFile(p) \/ EditsMain(p)
            <3>1. edits' = edits + 1
                  BY <1>1, <2>2, EditKeeps
            <3> QED BY <1>1, <3>1 DEF WriteInv, ConfigTypeOK
      <2>3. ASSUME NEW p \in Named, NEW g, file' = [file EXCEPT ![p] = g], p \in cut'
            PROVE  Kept
            BY <1>1, <2>3 DEF WriteInv, ConfigTypeOK
      <2>4. CASE Dumps
            <3> DEFINE p == Head(todo)
            <3>1. p \in Named /\ file[p] \in Configurations
                  BY <1>1, <2>4, DumpKeeps
            <3>2. CASE file' = [file EXCEPT ![p] = Merged(p)]
                  <4>1. /\ Good(Merged(p))
                        /\ \A k \in DOMAIN file[p] :
                             k \in DOMAIN Merged(p) /\ Merged(p)[k] = file[p][k]
                        BY <1>1, <3>1, MergeFacts, ConfigurationFacts DEF WriteInv
                  <4>2. file'[p] = Merged(p) /\ \A q \in Named \ {p} : file'[q] = file[q]
                        BY <1>1, <3>1, <3>2 DEF WriteInv, ConfigTypeOK
                  <4> QED BY <4>1, <4>2
            <3> QED BY <1>1, <2>4, <3>1, <3>2, <2>3, DumpKeeps
      <2>5. CASE Dies
            BY <1>1, <2>1, <2>3, <2>5, DeathKeeps
      <2>6. CASE ReadsConfig \/ Syncs \/ Builds \/ SetsUp
            <3>1. UNCHANGED file
                  BY <2>6 DEF ReadsConfig, Syncs, Builds, SetsUp
            <3> QED BY <3>1, <2>1
      <2>7. CASE UNCHANGED configVars
            BY <2>7, <2>1 DEF configVars
      <2> QED BY <1>1, <2>2, <2>4, <2>5, <2>6, <2>7 DEF ConfigNext
<1> QED BY <1>1, FilesAlways, PTL DEF ConfigSpec, UserValuesKept

-----------------------------------------------------------------------------
(* What the files show.                                                      *)

IsLoading == doing \in {"loading", "writing", "building"}

\* What was read is what the user still sees, defaults apart.
ReadIsShown ==
  IsLoading => \A p \in enabled_as_read \ touched :
                 file[p] # Broken => Filled(p, raw[p]) = Filled(p, Shown(p))

\* An instance is built from what was read, after the defaults were added.
BuiltFromRead ==
  /\ ~IsLoading => built = <<>>
  /\ DOMAIN built \subseteq Named
  /\ \A p \in DOMAIN built : /\ built[p] = Filled(p, raw[p])
                             /\ p \notin touched => HasDefaults(p)
  /\ doing = "building" /\ Head(todo) \notin touched => HasDefaults(Head(todo))

ShowInv == WriteInv /\ ReadIsShown /\ BuiltFromRead
           /\ settled \subseteq Named \cap DOMAIN running /\ FileShowsWhatRuns

\* A plugin whose file, table and class stay shows the same.
LEMMA SameShown ==
  ASSUME NEW p \in Named, UNCHANGED class, file'[p] = file[p], main'.inline[p] = main.inline[p]
  PROVE  /\ Shown(p)' = Shown(p)
         /\ HasDefaults(p)' <=> HasDefaults(p)
         /\ \A f : Filled(p, f)' = Filled(p, f)
<1>1. Shown(p)' = Shown(p)
      BY DEF Shown
<1>2. HasDefaults(p)' <=> HasDefaults(p)
      BY DEF HasDefaults
<1>3. \A f : Filled(p, f)' = Filled(p, f)
      BY DEF Filled
<1> QED BY <1>1, <1>2, <1>3

LEMMA ShowStart == ConfigInit => ShowInv
<1> SUFFICES ASSUME ConfigInit PROVE ShowInv
    OBVIOUS
<1>1. WriteInv
      BY FilesStart
<1>2. doing = "nothing" /\ built = <<>> /\ running = <<>> /\ settled = {}
      BY DEF ConfigInit
<1>3. ReadIsShown /\ BuiltFromRead
      BY <1>2 DEF ReadIsShown, BuiltFromRead, IsLoading
<1>4. settled \subseteq Named \cap DOMAIN running /\ FileShowsWhatRuns
      BY <1>2 DEF FileShowsWhatRuns
<1> QED BY <1>1, <1>3, <1>4 DEF ShowInv

LEMMA EditShows ==
  ASSUME ShowInv, NEW p \in Named, EditsFile(p) \/ EditsMain(p)
  PROVE  ShowInv'
<1>1. /\ touched' = touched \cup {p} /\ settled' = settled \ {p}
      /\ UNCHANGED <<class, enabled_as_read, raw, todo, built, running, doing>>
      BY DEF EditsFile, EditsMain, Saves
<1>2. \A q \in Named \ {p} : file'[q] = file[q] /\ main'.inline[q] = main.inline[q]
      <2>1. CASE EditsFile(p)
            BY <2>1 DEF ShowInv, WriteInv, ConfigTypeOK, EditsFile
      <2>2. CASE EditsMain(p)
            <3>1. PICK l \in SUBSET Named, f \in Contents :
                    main' = [listed |-> l, inline |-> [main.inline EXCEPT ![p] = f]]
                  BY <2>2 DEF EditsMain
            <3>2. UNCHANGED file
                  BY <2>2 DEF EditsMain
            <3>3. main.inline \in [Named -> Configurations]
                  BY DEF ShowInv, WriteInv, ConfigTypeOK
            <3> QED BY <3>1, <3>2, <3>3
      <2> QED BY <2>1, <2>2
<1>3. \A q \in Named \ {p} : /\ Shown(q)' = Shown(q) /\ (HasDefaults(q)' <=> HasDefaults(q))
                             /\ \A f : Filled(q, f)' = Filled(q, f)
      BY <1>1, <1>2, SameShown
<1>4. ReadIsShown'
      BY <1>1, <1>2, <1>3 DEF ShowInv, WriteInv, ConfigTypeOK, ReadIsShown, IsLoading
<1>5. \A q, f : Filled(q, f)' = Filled(q, f)
      BY <1>1 DEF Filled
<1>6. Head(todo) \in Named \/ doing # "building"
      BY DEF ShowInv, WriteInv, ConfigTypeOK, Writing
<1>7. BuiltFromRead'
      BY <1>1, <1>3, <1>5, <1>6 DEF ShowInv, BuiltFromRead, IsLoading
<1>8. FileShowsWhatRuns'
      <2>1. settled \subseteq Named
            BY DEF ShowInv
      <2> QED BY <1>1, <1>2, <1>3, <2>1 DEF ShowInv, FileShowsWhatRuns
<1>9. WriteInv'
      BY EditKeeps DEF ShowInv
<1> QED BY <1>1, <1>4, <1>7, <1>8, <1>9 DEF ShowInv

\* Steps that leave the files, and what runs, alone.
LEMMA FrameShows ==
  ASSUME ShowInv, UNCHANGED <<class, file, main, running, settled>>
  PROVE  /\ \A p, f : Filled(p, f)' = Filled(p, f)
         /\ \A p : Shown(p)' = Shown(p) /\ (HasDefaults(p)' <=> HasDefaults(p))
         /\ settled' \subseteq Named \cap DOMAIN running' /\ FileShowsWhatRuns'
<1>1. \A p, f : Filled(p, f)' = Filled(p, f)
      BY DEF Filled
<1>2. \A p : Shown(p)' = Shown(p) /\ (HasDefaults(p)' <=> HasDefaults(p))
      BY DEF Shown, HasDefaults
<1>3. FileShowsWhatRuns'
      BY <1>1, <1>2 DEF ShowInv, FileShowsWhatRuns
<1> QED BY <1>1, <1>2, <1>3 DEF ShowInv

LEMMA ReadShows ==
  ASSUME ShowInv, ReadsConfig
  PROVE  ShowInv'
<1>1. /\ enabled_as_read' = main.listed /\ doing' = "loading" /\ touched' = {} /\ built' = <<>>
      /\ raw' = [p \in Named |-> IF p \in main.listed THEN Found(p) ELSE Empty]
      /\ UNCHANGED <<class, file, main, running, settled>>
      BY DEF ReadsConfig
<1>2. \A p \in Named : file[p] # Broken => Found(p) = Shown(p)
      BY DEF Found, Shown, Good
<1>3. main.listed \subseteq Named
      BY DEF ShowInv, WriteInv, ConfigTypeOK
<1>4. ReadIsShown'
      BY <1>1, <1>2, <1>3, FrameShows DEF ReadIsShown
<1>5. BuiltFromRead'
      BY <1>1 DEF BuiltFromRead, IsLoading
<1> QED BY <1>1, <1>4, <1>5, FrameShows, ReadKeeps DEF ShowInv

LEMMA SyncShows ==
  ASSUME ShowInv, Syncs
  PROVE  ShowInv'
<1> DEFINE p == Head(todo)
<1>1. /\ doing = "loading" /\ todo # <<>>
      /\ doing' = IF NothingToAdd(p) THEN "building" ELSE "writing"
      /\ UNCHANGED <<class, file, main, enabled_as_read, raw, todo, built, running,
                     touched, settled>>
      BY DEF Syncs
<1>2. p \in Named
      BY <1>1 DEF ShowInv, WriteInv, ConfigTypeOK
<1>3. NothingToAdd(p) => HasDefaults(p)
      <2>1. Good(file[p]) => file[p] \in Configurations
            BY <1>2 DEF Good, ShowInv, WriteInv, ConfigTypeOK
      <2> QED BY <1>2, <2>1, MergeFacts DEF NothingToAdd, HasDefaults, ShowInv, WriteInv
<1>4. ReadIsShown'
      BY <1>1, FrameShows DEF ShowInv, ReadIsShown, IsLoading
<1>5. BuiltFromRead'
      <2>1. IsLoading /\ IsLoading'
            BY <1>1 DEF IsLoading
      <2>2. \A q \in DOMAIN built' : /\ built'[q] = Filled(q, raw[q])'
                                     /\ q \notin touched' => HasDefaults(q)'
            BY <1>1, FrameShows DEF ShowInv, BuiltFromRead
      <2>3. doing' = "building" => HasDefaults(Head(todo))'
            BY <1>1, <1>3, FrameShows
      <2> QED BY <1>1, <2>1, <2>2, <2>3 DEF ShowInv, BuiltFromRead
<1> QED BY <1>1, <1>4, <1>5, FrameShows, SyncKeeps DEF ShowInv

LEMMA DumpShows ==
  ASSUME ShowInv, Dumps
  PROVE  ShowInv'
<1>0. PICK p : p = Head(todo)
      OBVIOUS
<1>1. /\ doing = "writing"
      /\ UNCHANGED <<class, main, enabled_as_read, raw, running, touched, settled>>
      BY DEF Dumps
<1>2. /\ p \in Named /\ file[p] \in Configurations /\ WriteInv'
      /\ file \in [Named -> Configurations \cup {Absent, Broken}]
      BY <1>0, DumpKeeps DEF ShowInv, WriteInv, ConfigTypeOK
<1>3. /\ Merged(p) \in Configurations /\ DOMAIN Merged(p) = ConfigKeys
      /\ Filled(p, Merged(p)) = Filled(p, file[p])
      /\ DOMAIN file[p] = ConfigKeys => Merged(p) = file[p]
      BY <1>2, MergeFacts DEF ShowInv, WriteInv
<1>4. \A q \in Named \ {p} : file'[q] = file[q]
      BY <1>0, <1>2, DumpKeeps DEF ShowInv
<1>5. \A q, f : Filled(q, f)' = Filled(q, f)
      BY <1>1 DEF Filled
<1>6. \A q \in Named \ {p} : Shown(q)' = Shown(q) /\ (HasDefaults(q)' <=> HasDefaults(q))
      BY <1>1, <1>4, SameShown
\* A file that has all defaults would not have been written.
<1>7. p \notin settled
      <2> SUFFICES ASSUME p \in settled PROVE FALSE
          OBVIOUS
      <2>1. Good(file[p]) /\ Merged(p) # file[p] /\ \A k \in ConfigKeys : class[p][k] # "required"
            BY <1>0, <1>1 DEF ShowInv, WriteInv, Writing
      <2>2. HasDefaults(p)
            BY <2>1 DEF ShowInv, FileShowsWhatRuns, Good
      <2> QED BY <1>3, <2>1, <2>2 DEF HasDefaults
<1>8. settled' \subseteq Named \cap DOMAIN running' /\ FileShowsWhatRuns'
      BY <1>1, <1>4, <1>5, <1>6, <1>7 DEF ShowInv, FileShowsWhatRuns
<1>9. CASE Written(Merged(p)) = DOMAIN Merged(p)
      <2>1. file' = [file EXCEPT ![p] = Merged(p)] /\ doing' = "building"
            /\ UNCHANGED <<todo, built>>
            BY <1>0, <1>9 DEF Dumps
      <2>2. file'[p] = Merged(p)
            BY <1>2, <2>1
      <2>3. Good(file[p]) /\ Good(Merged(p))
            BY <1>2, <1>3, ConfigurationFacts
      <2>4. Shown(p) = file[p] /\ Shown(p)' = Merged(p) /\ HasDefaults(p)'
            BY <1>3, <2>1, <2>2, <2>3 DEF Shown, HasDefaults, Good
      <2>5. \A q \in Named : Filled(q, Shown(q))' = Filled(q, Shown(q))
            <3>1. \A q \in Named : Filled(q, Shown(q))' = Filled(q, Shown(q)')
                  BY <1>1 DEF Filled
            <3>2. \A q \in Named \ {p} : Shown(q)' = Shown(q)
                  BY <1>6
            <3> QED BY <1>2, <1>3, <2>4, <3>1, <3>2
      <2>6. ReadIsShown'
            BY <1>1, <1>2, <1>4, <1>5, <2>1, <2>3, <2>5
            DEF ShowInv, WriteInv, ConfigTypeOK, ReadIsShown, IsLoading, Good
      <2>7. \A q \in Named : HasDefaults(q) => HasDefaults(q)'
            BY <1>6, <2>4
      <2>8. BuiltFromRead'
            BY <1>0, <1>1, <1>5, <2>1, <2>4, <2>7 DEF ShowInv, BuiltFromRead, IsLoading
      <2> QED BY <1>2, <1>8, <2>6, <2>8 DEF ShowInv
<1>10. CASE Written(Merged(p)) # DOMAIN Merged(p)
      <2>1. built' = <<>> /\ doing' \in {"nothing", "running"}
            BY <1>0, <1>10 DEF Dumps, LoadFails
      <2>2. ReadIsShown' /\ BuiltFromRead'
            BY <2>1 DEF ReadIsShown, BuiltFromRead, IsLoading
      <2> QED BY <1>2, <1>8, <2>2 DEF ShowInv
<1> QED BY <1>9, <1>10

LEMMA BuildShows ==
  ASSUME ShowInv, Builds
  PROVE  ShowInv'
<1> DEFINE p == Head(todo)
           config == Filled(p, raw[p])
<1>1. /\ doing = "building" /\ todo # <<>>
      /\ UNCHANGED <<class, file, main, enabled_as_read, raw, running, touched, settled>>
      BY DEF Builds, ShowInv, WriteInv, Writing
<1>2. p \in Named
      BY <1>1 DEF ShowInv, WriteInv, ConfigTypeOK
<1>3. CASE \A k \in ConfigKeys : config[k] \notin {"bad", "required"}
      <2>1. /\ built' = [q \in DOMAIN built \cup {p} |-> IF q = p THEN config ELSE built[q]]
            /\ doing' = "loading"
            BY <1>3 DEF Builds
      <2>2. ReadIsShown'
            BY <1>1, <2>1, FrameShows DEF ShowInv, ReadIsShown, IsLoading
      <2>3. \A q \in DOMAIN built' : /\ built'[q] = Filled(q, raw[q])'
                                     /\ q \notin touched' => HasDefaults(q)'
            BY <1>1, <2>1, FrameShows DEF ShowInv, BuiltFromRead
      <2>4. BuiltFromRead'
            BY <1>2, <2>1, <2>3 DEF ShowInv, BuiltFromRead, IsLoading
      <2> QED BY <1>1, <2>2, <2>4, FrameShows, BuildKeeps DEF ShowInv
<1>4. CASE ~(\A k \in ConfigKeys : config[k] \notin {"bad", "required"})
      <2>1. built' = <<>> /\ doing' \in {"nothing", "running"}
            BY <1>4 DEF Builds, LoadFails
      <2>2. ReadIsShown' /\ BuiltFromRead'
            BY <2>1 DEF ReadIsShown, BuiltFromRead, IsLoading
      <2> QED BY <1>1, <2>2, FrameShows, BuildKeeps DEF ShowInv
<1> QED BY <1>3, <1>4

LEMMA SetupShows ==
  ASSUME ShowInv, SetsUp
  PROVE  ShowInv'
<1>1. /\ doing = "loading" /\ doing' = "running" /\ built' = <<>>
      /\ running' = [p \in DOMAIN built |-> IF p \in DOMAIN running THEN running[p] ELSE built[p]]
      /\ settled' = DOMAIN built \cap
                    (settled \cup ((enabled_as_read \ touched) \ DOMAIN running))
      /\ UNCHANGED <<class, file, main, enabled_as_read, raw, touched>>
      BY DEF SetsUp
<1>2. /\ \A p, f : Filled(p, f)' = Filled(p, f)
      /\ \A p : Shown(p)' = Shown(p) /\ (HasDefaults(p)' <=> HasDefaults(p))
      BY <1>1 DEF Filled, Shown, HasDefaults
<1>3. ReadIsShown' /\ BuiltFromRead'
      BY <1>1 DEF ReadIsShown, BuiltFromRead, IsLoading
<1>4. FileShowsWhatRuns'
      <2> SUFFICES ASSUME NEW p \in settled' \cap DOMAIN running', file[p] # Broken
                   PROVE  running'[p] = Filled(p, Shown(p)) /\ HasDefaults(p)
          BY <1>1, <1>2 DEF FileShowsWhatRuns
      <2>1. CASE p \in settled
            BY <1>1, <2>1 DEF ShowInv, FileShowsWhatRuns
      <2>2. CASE p \notin settled
            <3>1. p \in (enabled_as_read \ touched) \ DOMAIN running /\ p \in DOMAIN built
                  BY <1>1, <2>2
            <3>2. built[p] = Filled(p, raw[p]) /\ HasDefaults(p)
                  BY <3>1 DEF ShowInv, BuiltFromRead
            <3>3. Filled(p, raw[p]) = Filled(p, Shown(p))
                  BY <1>1, <3>1 DEF ShowInv, ReadIsShown, IsLoading
            <3> QED BY <1>1, <3>1, <3>2, <3>3
      <2> QED BY <2>1, <2>2
<1>5. settled' \subseteq Named \cap DOMAIN running'
      BY <1>1 DEF ShowInv, BuiltFromRead
<1> QED BY <1>3, <1>4, <1>5, SetupKeeps DEF ShowInv

LEMMA DeathShows ==
  ASSUME ShowInv, Dies
  PROVE  ShowInv'
<1>1. running' = <<>> /\ built' = <<>> /\ settled' = {} /\ doing' = "nothing"
      BY DEF Dies
<1>2. ReadIsShown' /\ BuiltFromRead' /\ FileShowsWhatRuns' /\ settled' \subseteq Named \cap DOMAIN running'
      BY <1>1 DEF ReadIsShown, BuiltFromRead, IsLoading, FileShowsWhatRuns
<1> QED BY <1>2, DeathKeeps DEF ShowInv

LEMMA ShowGoesOn == ShowInv /\ [ConfigNext]_configVars => ShowInv'
<1> SUFFICES ASSUME ShowInv, [ConfigNext]_configVars PROVE ShowInv'
    OBVIOUS
<1>1. CASE UNCHANGED configVars
      <2>1. UNCHANGED <<class, file, main, running, settled>>
            BY <1>1 DEF configVars
      <2>2. WriteInv'
            BY <1>1, FilesGoOn DEF ShowInv
      <2>3. ReadIsShown' /\ BuiltFromRead'
            BY <1>1, <2>1, FrameShows DEF configVars, ShowInv, ReadIsShown, BuiltFromRead, IsLoading
      <2> QED BY <2>1, <2>2, <2>3, FrameShows DEF ShowInv
<1> QED BY <1>1, EditShows, ReadShows, SyncShows, DumpShows, BuildShows, SetupShows, DeathShows
        DEF ConfigNext

(* What a listed plugin runs with is what its file, or its table, shows,   *)
(* with every default in the file, for any edits, reloads, failed loads    *)
(* and deaths (loader.py:148, controller.py:229).                          *)
THEOREM FilesShowWhatRuns == ConfigSpec => []FileShowsWhatRuns
<1>1. ShowInv => FileShowsWhatRuns
      BY DEF ShowInv
<1> QED BY <1>1, ShowStart, ShowGoesOn, PTL DEF ConfigSpec

-----------------------------------------------------------------------------
(* TickLoop.                                                               *)

TickTypeOK == /\ now \in Nat /\ next_tick \in Nat /\ ticks \in Nat
              /\ ticking \in {"asleep", "emitting", "cancelled"}
              /\ last \in [earlier : Int, later : Int]
              /\ slipped \in BOOLEAN

\* While the loop sleeps the next tick is due after the last one, and a second
\* after the one before; while it emits, the tick it emits was due after that.
Spaced == /\ ticking # "emitting" => /\ next_tick > last.later
                                     /\ next_tick > last.earlier + Second
          /\ ticking = "emitting" => /\ next_tick > last.earlier
                                     /\ next_tick <= last.later
          /\ last.later <= now

\* The tick that is due next, or that is being emitted.
Number == IF ticking = "emitting" THEN ticks ELSE ticks + 1

\* A tick is due no earlier than its number says, and then when it says unless
\* one was late by a second.
Numbered == /\ Number * Second <= next_tick
            /\ ticks * Second <= now
            /\ ~slipped => next_tick = Number * Second

TickInv == TickTypeOK /\ Spaced /\ Numbered

LEMMA NextSecond == ASSUME NEW n \in Nat
                    PROVE  /\ n * Second \in Nat
                           /\ (n + 1) * Second = n * Second + Second
BY SecondAssumption, SMT

LEMMA TicksStart == TickInit => TickInv
<1> SUFFICES ASSUME TickInit PROVE TickInv
    OBVIOUS
<1>1. TickTypeOK
      <2>1. last \in [earlier : Int, later : Int]
            <3>1. -Second - 1 \in Int /\ -1 \in Int
                  BY SecondAssumption
            <3> QED BY <3>1, Zenon DEF TickInit
      <2>2. slipped \in BOOLEAN /\ ticking \in {"asleep", "emitting", "cancelled"}
            BY DEF TickInit
      <2> QED BY <2>1, <2>2, SecondAssumption DEF TickInit, TickTypeOK
<1>2. Spaced
      BY SecondAssumption DEF TickInit, Spaced
<1>3. Numbered
      <2>1. 0 * Second = 0 /\ (0 + 1) * Second = Second
            BY SecondAssumption, SMT
      <2> QED BY <2>1, SecondAssumption DEF TickInit, Numbered, Number
<1> QED BY <1>1, <1>2, <1>3 DEF TickInv

LEMMA TicksGoOn == TickInv /\ [TickNext]_tickVars => TickInv'
<1> SUFFICES ASSUME TickInv, [TickNext]_tickVars PROVE TickInv'
    OBVIOUS
<1> USE SecondAssumption DEF TickInv, TickTypeOK
<1>1. CASE TimePasses
      BY <1>1, HorizonAssumption DEF TimePasses, Spaced, Numbered, Number
<1>2. CASE Ticks
      <2>1. TickTypeOK' /\ Spaced'
            BY <1>2 DEF Ticks, Spaced
      <2>2. Numbered'
            BY <1>2, NextSecond DEF Ticks, Numbered, Number
      <2> QED BY <2>1, <2>2
<1>3. CASE Reschedules
      <2> DEFINE next == next_tick + Second
      <2>1. /\ ticking = "emitting" /\ ticking' = "asleep"
            /\ next_tick' = IF next <= now THEN now + Second ELSE next
            /\ slipped' = (slipped \/ next <= now)
            /\ UNCHANGED <<now, ticks, last>>
            BY <1>3 DEF Reschedules
      <2>2. TickTypeOK'
            BY <2>1
      <2>3. Spaced'
            BY <2>1 DEF Spaced
      <2>4. Numbered'
            <3>1. Number = ticks /\ Number' = ticks + 1
                  BY <2>1 DEF Number
            <3>2. Number' * Second = Number * Second + Second
                  BY <3>1, NextSecond
            <3>3. next_tick' >= next /\ (~(next <= now) => next_tick' = next)
                  BY <2>1
            <3>4. ~slipped' => ~slipped /\ ~(next <= now)
                  BY <2>1, Zenon
            <3>5. Number * Second \in Nat /\ Number' * Second \in Nat
                  BY <3>1, <3>2, NextSecond
            <3> HIDE DEF next
            <3> QED BY <2>1, <3>1, <3>2, <3>3, <3>4, <3>5 DEF Numbered, next
      <2> QED BY <2>2, <2>3, <2>4
<1>4. CASE StopsTicking
      BY <1>4 DEF StopsTicking, Spaced, Numbered, Number
<1>5. CASE UNCHANGED tickVars
      BY <1>5 DEF tickVars, Spaced, Numbered, Number
<1> QED BY <1>1, <1>2, <1>3, <1>4, <1>5 DEF TickNext

LEMMA TicksAlways == TickSpec => []TickInv
BY TicksStart, TicksGoOn, PTL DEF TickSpec

(* Ticks that were missed are not caught up: any three ticks in a row span *)
(* more than a second (controller.py:680).                                 *)
THEOREM NoTicksCaughtUp == TickSpec => []NoBursts
<1>1. TickInv => NoBursts
      BY SecondAssumption DEF TickInv, TickTypeOK, Spaced, NoBursts
<1> QED BY <1>1, TicksAlways, PTL

(* There are never more ticks than seconds went by, and lateness below a   *)
(* second does not add up (controller.py:679).                             *)
THEOREM TicksOnTime == TickSpec => []NoDrift
<1>1. TickInv => NoDrift
      BY DEF TickInv, Numbered, Number, NoDrift
<1> QED BY <1>1, TicksAlways, PTL
=============================================================================
