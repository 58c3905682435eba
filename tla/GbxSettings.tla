----------------------------- MODULE GbxSettings -----------------------------
(***************************************************************************)
(* The settings of the dedicated server, as plugins read and write them    *)
(* through the wrappers of trackhelm.gbx.methods and the data classes of   *)
(* trackhelm.gbx.models: one by one, or all that belong together at once,  *)
(* read, changed and written back.  The server (external) executes the     *)
(* calls of a session in the order they are sent, so a call is one step;   *)
(* most settings have a value in force and one for the next challenge.     *)
(*                                                                         *)
(* The tables are the code's: the key of a field in the structures that    *)
(* are read and written, and the methods a wrapper calls.  A value is a    *)
(* number; False, 0.0 and the empty string are 0.                          *)
(*                                                                         *)
(* An operator whose name starts with Bug is the definition below it with  *)
(* a plausible mistake; no other definition uses it.                       *)
(***************************************************************************)
EXTENDS Naturals, GbxTables

CONSTANTS Writers,      \* plugins that change settings
          Watched,      \* bound: the groups, and the settings of them, that are changed
          None

ASSUME NoneAssumption == None \notin Nat

VARIABLES group,        \* the settings of this behaviour: game, options, mods, skins
          server,       \* per key of the server, the value now and next
          wish,         \* per field, the values somebody asked for, now and next
          copy,         \* what a plugin read and is going to write back
          stale,        \* the fields that were changed since
          overwritten   \* fields that lost the value asked for to a stale copy

settingVars == <<group, server, wish, copy, stale, overwritten>>

-----------------------------------------------------------------------------
(* models.py: the structures of the game settings.                         *)

GameInfoKeys == [
  game_mode |-> "GameMode", chat_time |-> "ChatTime", nb_challenge |-> "NbChallenge",
  rounds_points_limit |-> "RoundsPointsLimit", rounds_use_new_rules |-> "RoundsUseNewRules",
  rounds_forced_laps |-> "RoundsForcedLaps", time_attack_limit |-> "TimeAttackLimit",
  time_attack_synch_start_period |-> "TimeAttackSynchStartPeriod",
  team_points_limit |-> "TeamPointsLimit", team_max_points |-> "TeamMaxPoints",
  team_use_new_rules |-> "TeamUseNewRules", laps_nb_laps |-> "LapsNbLaps",
  laps_time_limit |-> "LapsTimeLimit", finish_timeout |-> "FinishTimeout",
  all_warm_up_duration |-> "AllWarmUpDuration", disable_respawn |-> "DisableRespawn",
  force_show_all_opponents |-> "ForceShowAllOpponents",
  rounds_points_limit_new_rules |-> "RoundsPointsLimitNewRules",
  team_points_limit_new_rules |-> "TeamPointsLimitNewRules",
  cup_points_limit |-> "CupPointsLimit", cup_rounds_per_challenge |-> "CupRoundsPerChallenge",
  cup_nb_winners |-> "CupNbWinners", cup_warm_up_duration |-> "CupWarmUpDuration"]

GameInfoSettingsRequired == [
  game_mode |-> "GameMode", chat_time |-> "ChatTime",
  rounds_points_limit |-> "RoundsPointsLimit", rounds_use_new_rules |-> "RoundsUseNewRules",
  rounds_forced_laps |-> "RoundsForcedLaps", time_attack_limit |-> "TimeAttackLimit",
  time_attack_synch_start_period |-> "TimeAttackSynchStartPeriod",
  team_points_limit |-> "TeamPointsLimit", team_max_points |-> "TeamMaxPoints",
  team_use_new_rules |-> "TeamUseNewRules", laps_nb_laps |-> "LapsNbLaps",
  laps_time_limit |-> "LapsTimeLimit", finish_timeout |-> "FinishTimeout"]

GameInfoSettingsOptional == [
  all_warm_up_duration |-> "AllWarmUpDuration", disable_respawn |-> "DisableRespawn",
  force_show_all_opponents |-> "ForceShowAllOpponents",
  rounds_points_limit_new_rules |-> "RoundsPointsLimitNewRules",
  team_points_limit_new_rules |-> "TeamPointsLimitNewRules",
  cup_points_limit |-> "CupPointsLimit", cup_rounds_per_challenge |-> "CupRoundsPerChallenge",
  cup_nb_winners |-> "CupNbWinners", cup_warm_up_duration |-> "CupWarmUpDuration"]

(* The structures of the server options.                                   *)

ServerOptionsKeys == [
  name |-> "Name", comment |-> "Comment", password |-> "Password",
  password_for_spectator |-> "PasswordForSpectator",
  current_max_players |-> "CurrentMaxPlayers", next_max_players |-> "NextMaxPlayers",
  current_max_spectators |-> "CurrentMaxSpectators", next_max_spectators |-> "NextMaxSpectators",
  is_p2p_upload |-> "IsP2PUpload", is_p2p_download |-> "IsP2PDownload",
  current_ladder_mode |-> "CurrentLadderMode", next_ladder_mode |-> "NextLadderMode",
  current_vehicle_net_quality |-> "CurrentVehicleNetQuality",
  next_vehicle_net_quality |-> "NextVehicleNetQuality",
  current_call_vote_timeout |-> "CurrentCallVoteTimeOut",
  next_call_vote_timeout |-> "NextCallVoteTimeOut", call_vote_ratio |-> "CallVoteRatio",
  allow_challenge_download |-> "AllowChallengeDownload", auto_save_replays |-> "AutoSaveReplays",
  referee_password |-> "RefereePassword", referee_mode |-> "RefereeMode",
  auto_save_validation_replays |-> "AutoSaveValidationReplays", hide_server |-> "HideServer",
  current_use_changing_validation_seed |-> "CurrentUseChangingValidationSeed",
  next_use_changing_validation_seed |-> "NextUseChangingValidationSeed"]

ServerOptionsUpdateRequired == [
  name |-> "Name", comment |-> "Comment", password |-> "Password",
  password_for_spectator |-> "PasswordForSpectator",
  next_max_players |-> "NextMaxPlayers", next_max_spectators |-> "NextMaxSpectators",
  is_p2p_upload |-> "IsP2PUpload", is_p2p_download |-> "IsP2PDownload",
  next_ladder_mode |-> "NextLadderMode", next_vehicle_net_quality |-> "NextVehicleNetQuality",
  next_call_vote_timeout |-> "NextCallVoteTimeOut", call_vote_ratio |-> "CallVoteRatio",
  allow_challenge_download |-> "AllowChallengeDownload", auto_save_replays |-> "AutoSaveReplays"]

ServerOptionsUpdateOptional == [
  referee_password |-> "RefereePassword", referee_mode |-> "RefereeMode",
  auto_save_validation_replays |-> "AutoSaveValidationReplays", hide_server |-> "HideServer",
  use_changing_validation_seed |-> "UseChangingValidationSeed"]

(* Forced mods and skins are lists of entries; one entry stands for them.  *)

ForcedModKeys == [environment_name |-> "EnvName", url |-> "Url"]
ForcedModDict == [environment_name |-> "EnvName", url |-> "Url"]
ForcedSkinKeys == [orig |-> "Orig", name |-> "Name", checksum |-> "Checksum", url |-> "Url"]
ForcedSkinDict == [orig |-> "Orig", name |-> "Name", checksum |-> "Checksum", url |-> "Url"]

\* The fields that from_dict makes a bool of.
BoolFields == {"rounds_use_new_rules", "team_use_new_rules", "disable_respawn", "is_p2p_upload",
  "is_p2p_download", "allow_challenge_download", "auto_save_replays",
  "auto_save_validation_replays", "current_use_changing_validation_seed",
  "next_use_changing_validation_seed", "override"}

-----------------------------------------------------------------------------
(* methods.py: for each field the method that sets it, the one that gets   *)
(* it, and what the wrapper makes of the answer.                           *)

VoteAccessors == [
  next_call_vote_timeout |-> <<"SetCallVoteTimeOut", "GetCallVoteTimeOut", "IntSetting">>,
  call_vote_ratio |-> <<"SetCallVoteRatio", "GetCallVoteRatio", "float">>]

NameAccessors == [
  name |-> <<"SetServerName", "GetServerName", "str">>,
  comment |-> <<"SetServerComment", "GetServerComment", "str">>,
  hide_server |-> <<"SetHideServer", "GetHideServer", "int">>]

SlotAccessors == [
  password |-> <<"SetServerPassword", "GetServerPassword", "str">>,
  password_for_spectator |->
    <<"SetServerPasswordForSpectator", "GetServerPasswordForSpectator", "str">>,
  next_max_players |-> <<"SetMaxPlayers", "GetMaxPlayers", "IntSetting">>,
  next_max_spectators |-> <<"SetMaxSpectators", "GetMaxSpectators", "IntSetting">>,
  is_p2p_upload |-> <<"EnableP2PUpload", "IsP2PUpload", "bool">>,
  is_p2p_download |-> <<"EnableP2PDownload", "IsP2PDownload", "bool">>,
  allow_challenge_download |-> <<"AllowChallengeDownload", "IsChallengeDownloadAllowed", "bool">>,
  auto_save_replays |-> <<"AutoSaveReplays", "IsAutoSaveReplaysEnabled", "bool">>,
  auto_save_validation_replays |->
    <<"AutoSaveValidationReplays", "IsAutoSaveValidationReplaysEnabled", "bool">>]

LadderAccessors == [
  next_ladder_mode |-> <<"SetLadderMode", "GetLadderMode", "IntSetting">>,
  next_vehicle_net_quality |-> <<"SetVehicleNetQuality", "GetVehicleNetQuality", "IntSetting">>]

RefereeAccessors == [
  referee_password |-> <<"SetRefereePassword", "GetRefereePassword", "str">>,
  referee_mode |-> <<"SetRefereeMode", "GetRefereeMode", "int">>,
  use_changing_validation_seed |->
    <<"SetUseChangingValidationSeed", "GetUseChangingValidationSeed", "BoolSetting">>]

RaceAccessors == [
  game_mode |-> <<"SetGameMode", "GetGameMode", "int">>,
  chat_time |-> <<"SetChatTime", "GetChatTime", "IntSetting">>,
  finish_timeout |-> <<"SetFinishTimeout", "GetFinishTimeout", "IntSetting">>,
  all_warm_up_duration |-> <<"SetAllWarmUpDuration", "GetAllWarmUpDuration", "IntSetting">>,
  disable_respawn |-> <<"SetDisableRespawn", "GetDisableRespawn", "BoolSetting">>,
  force_show_all_opponents |->
    <<"SetForceShowAllOpponents", "GetForceShowAllOpponents", "IntSetting">>,
  time_attack_limit |-> <<"SetTimeAttackLimit", "GetTimeAttackLimit", "IntSetting">>,
  time_attack_synch_start_period |->
    <<"SetTimeAttackSynchStartPeriod", "GetTimeAttackSynchStartPeriod", "IntSetting">>,
  laps_time_limit |-> <<"SetLapsTimeLimit", "GetLapsTimeLimit", "IntSetting">>,
  laps_nb_laps |-> <<"SetNbLaps", "GetNbLaps", "IntSetting">>]

RuleAccessors == [
  rounds_forced_laps |-> <<"SetRoundForcedLaps", "GetRoundForcedLaps", "IntSetting">>,
  rounds_points_limit |-> <<"SetRoundPointsLimit", "GetRoundPointsLimit", "IntSetting">>,
  rounds_use_new_rules |-> <<"SetUseNewRulesRound", "GetUseNewRulesRound", "BoolSetting">>,
  team_points_limit |-> <<"SetTeamPointsLimit", "GetTeamPointsLimit", "IntSetting">>,
  team_max_points |-> <<"SetMaxPointsTeam", "GetMaxPointsTeam", "IntSetting">>,
  team_use_new_rules |-> <<"SetUseNewRulesTeam", "GetUseNewRulesTeam", "BoolSetting">>,
  cup_points_limit |-> <<"SetCupPointsLimit", "GetCupPointsLimit", "IntSetting">>,
  cup_rounds_per_challenge |->
    <<"SetCupRoundsPerChallenge", "GetCupRoundsPerChallenge", "IntSetting">>,
  cup_warm_up_duration |-> <<"SetCupWarmUpDuration", "GetCupWarmUpDuration", "IntSetting">>,
  cup_nb_winners |-> <<"SetCupNbWinners", "GetCupNbWinners", "IntSetting">>]

OptionAccessors == Merge(Merge(VoteAccessors, NameAccessors),
                         Merge(SlotAccessors, Merge(LadderAccessors, RefereeAccessors)))
GameAccessors == Merge(RaceAccessors, RuleAccessors)
Accessors == Merge(OptionAccessors, GameAccessors)

-----------------------------------------------------------------------------
(* The server: which of its settings a method is about, what it defers to  *)
(* the next challenge, and the structures it answers with.                 *)

GameServed == [
  GameMode |-> {"SetGameMode", "GetGameMode"}, ChatTime |-> {"SetChatTime", "GetChatTime"},
  FinishTimeout |-> {"SetFinishTimeout", "GetFinishTimeout"},
  AllWarmUpDuration |-> {"SetAllWarmUpDuration", "GetAllWarmUpDuration"},
  DisableRespawn |-> {"SetDisableRespawn", "GetDisableRespawn"},
  ForceShowAllOpponents |-> {"SetForceShowAllOpponents", "GetForceShowAllOpponents"},
  TimeAttackLimit |-> {"SetTimeAttackLimit", "GetTimeAttackLimit"},
  TimeAttackSynchStartPeriod |->
    {"SetTimeAttackSynchStartPeriod", "GetTimeAttackSynchStartPeriod"},
  LapsTimeLimit |-> {"SetLapsTimeLimit", "GetLapsTimeLimit"},
  LapsNbLaps |-> {"SetNbLaps", "GetNbLaps"},
  RoundsForcedLaps |-> {"SetRoundForcedLaps", "GetRoundForcedLaps"},
  RoundsPointsLimit |-> {"SetRoundPointsLimit", "GetRoundPointsLimit"},
  RoundsUseNewRules |-> {"SetUseNewRulesRound", "GetUseNewRulesRound"},
  TeamPointsLimit |-> {"SetTeamPointsLimit", "GetTeamPointsLimit"},
  TeamMaxPoints |-> {"SetMaxPointsTeam", "GetMaxPointsTeam"},
  TeamUseNewRules |-> {"SetUseNewRulesTeam", "GetUseNewRulesTeam"},
  CupPointsLimit |-> {"SetCupPointsLimit", "GetCupPointsLimit"},
  CupRoundsPerChallenge |-> {"SetCupRoundsPerChallenge", "GetCupRoundsPerChallenge"},
  CupWarmUpDuration |-> {"SetCupWarmUpDuration", "GetCupWarmUpDuration"},
  CupNbWinners |-> {"SetCupNbWinners", "GetCupNbWinners"},
  RoundsPointsLimitNewRules |-> {}, TeamPointsLimitNewRules |-> {}]

OptionsServed == [
  NextCallVoteTimeOut |-> {"SetCallVoteTimeOut", "GetCallVoteTimeOut"},
  CallVoteRatio |-> {"SetCallVoteRatio", "GetCallVoteRatio"},
  Name |-> {"SetServerName", "GetServerName"},
  Comment |-> {"SetServerComment", "GetServerComment"},
  HideServer |-> {"SetHideServer", "GetHideServer"},
  Password |-> {"SetServerPassword", "GetServerPassword"},
  PasswordForSpectator |-> {"SetServerPasswordForSpectator", "GetServerPasswordForSpectator"},
  NextMaxPlayers |-> {"SetMaxPlayers", "GetMaxPlayers"},
  NextMaxSpectators |-> {"SetMaxSpectators", "GetMaxSpectators"},
  IsP2PUpload |-> {"EnableP2PUpload", "IsP2PUpload"},
  IsP2PDownload |-> {"EnableP2PDownload", "IsP2PDownload"},
  AllowChallengeDownload |-> {"AllowChallengeDownload", "IsChallengeDownloadAllowed"},
  AutoSaveReplays |-> {"AutoSaveReplays", "IsAutoSaveReplaysEnabled"},
  AutoSaveValidationReplays |->
    {"AutoSaveValidationReplays", "IsAutoSaveValidationReplaysEnabled"},
  NextLadderMode |-> {"SetLadderMode", "GetLadderMode"},
  NextVehicleNetQuality |-> {"SetVehicleNetQuality", "GetVehicleNetQuality"},
  RefereePassword |-> {"SetRefereePassword", "GetRefereePassword"},
  RefereeMode |-> {"SetRefereeMode", "GetRefereeMode"},
  UseChangingValidationSeed |->
    {"SetUseChangingValidationSeed", "GetUseChangingValidationSeed"}]

Served == Merge(GameServed, OptionsServed)

KeyOf(method) == CHOOSE k \in DOMAIN Served : method \in Served[k]

OptionPairs == [
  NextMaxPlayers |-> <<"CurrentMaxPlayers", "NextMaxPlayers">>,
  NextMaxSpectators |-> <<"CurrentMaxSpectators", "NextMaxSpectators">>,
  NextLadderMode |-> <<"CurrentLadderMode", "NextLadderMode">>,
  NextVehicleNetQuality |-> <<"CurrentVehicleNetQuality", "NextVehicleNetQuality">>,
  NextCallVoteTimeOut |-> <<"CurrentCallVoteTimeOut", "NextCallVoteTimeOut">>,
  UseChangingValidationSeed |->
    <<"CurrentUseChangingValidationSeed", "NextUseChangingValidationSeed">>]

ServerKeys == [game |-> DOMAIN GameServed, options |-> DOMAIN OptionsServed,
               mods |-> {"Override", "EnvName", "Url"},
               skins |-> {"Orig", "Name", "Checksum", "Url"}]

DeferredKeys == DOMAIN GameServed \cup DOMAIN OptionPairs

\* The server executes a call that gives the keys of `dict' their values.
Executed(dict) ==
  [k \in DOMAIN server |->
     IF k \notin DOMAIN dict THEN server[k]
     ELSE [now |-> IF k \in DeferredKeys THEN server[k].now ELSE dict[k], next |-> dict[k]]]

Half(h) == [k \in DOMAIN server |-> server[k][h]]

GameInfosAnswer == [CurrentGameInfos |-> Half("now"), NextGameInfos |-> Half("next")]

OptionsAnswer ==
  LET kept   == [k \in DOMAIN server \ DOMAIN OptionPairs |-> server[k].now]
      inUse  == [c \in {OptionPairs[k][1] : k \in DOMAIN OptionPairs} |->
                   server[CHOOSE k \in DOMAIN OptionPairs : OptionPairs[k][1] = c].now]
      chosen == [n \in {OptionPairs[k][2] : k \in DOMAIN OptionPairs} |->
                   server[CHOOSE k \in DOMAIN OptionPairs : OptionPairs[k][2] = n].next]
  IN  Merge(kept, Merge(inUse, chosen))

SettingAnswer(k) == [CurrentValue |-> server[k].now, NextValue |-> server[k].next]

-----------------------------------------------------------------------------
(* From answers to data classes and from data classes to calls.            *)

AsBool(v) == IF v \in {0, None} THEN 0 ELSE 1
AsNumber(v) == IF v = None THEN 0 ELSE v

Lookup(dict, key) == IF key \in DOMAIN dict THEN dict[key] ELSE None

FromDict(keys, dict) ==
  [f \in DOMAIN keys |-> IF f \in BoolFields THEN AsBool(Lookup(dict, keys[f]))
                         ELSE AsNumber(Lookup(dict, keys[f]))]

IntSetting(dict) == [now |-> AsNumber(Lookup(dict, "CurrentValue")),
                     next |-> AsNumber(Lookup(dict, "NextValue"))]
BoolSetting(dict) == [now |-> AsBool(Lookup(dict, "CurrentValue")),
                      next |-> AsBool(Lookup(dict, "NextValue"))]

GameInfos(dict) == [now |-> FromDict(GameInfoKeys, dict.CurrentGameInfos),
                    next |-> FromDict(GameInfoKeys, dict.NextGameInfos)]

\* Where a plugin finds the fields of a ServerOptionsUpdate in ServerOptions.
CurrentFields == [
  next_max_players |-> "current_max_players", next_max_spectators |-> "current_max_spectators",
  next_ladder_mode |-> "current_ladder_mode",
  next_vehicle_net_quality |-> "current_vehicle_net_quality",
  next_call_vote_timeout |-> "current_call_vote_timeout",
  use_changing_validation_seed |-> "current_use_changing_validation_seed"]
NextField(f) == IF f = "use_changing_validation_seed"
                THEN "next_use_changing_validation_seed" ELSE f

NoKeys == [f \in {} |-> ""]
Override == [override |-> "Override"]   \* a parameter of its own
ForcedModsKeys == Merge(Override, ForcedModKeys)
Required == [game |-> GameInfoSettingsRequired, options |-> ServerOptionsUpdateRequired,
             mods |-> Merge(Override, ForcedModDict), skins |-> ForcedSkinDict]
Optional == [game |-> GameInfoSettingsOptional, options |-> ServerOptionsUpdateOptional,
             mods |-> NoKeys, skins |-> NoKeys]
WrittenKeys(name) == Merge(Required[name], Optional[name])
Fields == DOMAIN WrittenKeys(group.name)

\* The fields that have wrappers of their own.
Alone == CASE group.name = "game"    -> DOMAIN GameAccessors
           [] group.name = "options" -> DOMAIN OptionAccessors
           [] OTHER                  -> {}

ASSUME WatchedAssumption ==
  \A g \in Watched : g.name \in DOMAIN Required /\ g.fields \subseteq DOMAIN WrittenKeys(g.name)

\* What get_game_infos, get_server_options, get_forced_mods and _skins return.
ReadsTogether ==
  CASE group.name = "game"    -> GameInfos(GameInfosAnswer)
    [] group.name = "options" ->
         LET options == FromDict(ServerOptionsKeys, OptionsAnswer)
         IN  [now  |-> [f \in Fields |-> options[IF f \in DOMAIN CurrentFields
                                                 THEN CurrentFields[f] ELSE f]],
              next |-> [f \in Fields |-> options[NextField(f)]]]
    [] group.name = "mods"    ->
         [h \in {"now", "next"} |-> FromDict(ForcedModsKeys, Half(h))]
    [] group.name = "skins"   -> [h \in {"now", "next"} |-> FromDict(ForcedSkinKeys, Half(h))]

\* What the wrapper of one setting returns; a plain value is the one in force.
ReadsOne(f) ==
  LET key == KeyOf(Accessors[f][2])
  IN  CASE Accessors[f][3] = "IntSetting"  -> IntSetting(SettingAnswer(key))
        [] Accessors[f][3] = "BoolSetting" -> BoolSetting(SettingAnswer(key))
        [] Accessors[f][3] = "bool"        -> [now |-> AsBool(server[key].now)]
        [] OTHER                           -> [now |-> AsNumber(server[key].now)]

BugToDict(update) ==    \* a default for what is None
  LET keys == WrittenKeys(group.name)
  IN  [k \in {keys[f] : f \in DOMAIN update} |->
         AsNumber(update[CHOOSE f \in DOMAIN update : keys[f] = k])]

\* Fields that are None are left out.
ToDict(update) ==
  LET keys  == WrittenKeys(group.name)
      given == {f \in DOMAIN update : update[f] # None}
  IN  [k \in {keys[f] : f \in given} |-> update[CHOOSE f \in given : keys[f] = k]]

-----------------------------------------------------------------------------
Deferred(f) == group.name = "game" \/ f \in DOMAIN CurrentFields
Halves(f) == IF Deferred(f) THEN {"next"} ELSE {"now", "next"}

SettingsInit == /\ group \in Watched
                /\ server = [k \in ServerKeys[group.name] |-> [now |-> 0, next |-> 0]]
                /\ wish = [f \in Fields |-> [now |-> 0, next |-> 0]]
                /\ copy = [p \in Writers |-> None]
                /\ stale = [p \in Writers |-> {}]
                /\ overwritten = {}

Values(f) == IF f \in BoolFields \cup {"use_changing_validation_seed"} THEN {0, 1} ELSE {0, 2}

\* What somebody asks for, and what he changes with it for the others.
Asks(p, asked, lost) ==
  /\ wish' = [f \in DOMAIN wish |->
                IF f \notin DOMAIN asked THEN wish[f]
                ELSE [h \in {"now", "next"} |->
                        IF h \in Halves(f) THEN asked[f] ELSE wish[f][h]]]
  /\ overwritten' = (overwritten \ UNION {{f} \X Halves(f) : f \in DOMAIN asked})
                    \cup UNION {{f} \X Halves(f) : f \in lost}
  /\ stale' = [q \in Writers |-> IF copy'[q] = None THEN {}
                                 ELSE stale[q] \cup DOMAIN asked \cup lost]
  /\ UNCHANGED group

\* set_chat_time, set_server_name, ...
SetsOne(p) == \E f \in group.fields \cap Alone : \E v \in Values(f) :
                /\ server' = Executed(Entry(KeyOf(Accessors[f][1]), v))
                /\ UNCHANGED copy
                /\ Asks(p, Entry(f, v), {})

\* get_game_infos, ...: to change what is to hold next.
Reads(p) == /\ LET next == ReadsTogether.next
               IN  copy' = [copy EXCEPT ![p] = [f \in Fields |-> next[f]]]
            /\ stale' = [stale EXCEPT ![p] = {}]
            /\ UNCHANGED <<group, server, wish, overwritten>>

\* set_game_infos, set_server_options, ... with some fields changed and some
\* of the optional ones left to the server.
WritesBack(p) ==
  /\ copy[p] # None
  /\ \E changed \in SUBSET group.fields :
     \E asked \in [changed -> {0, 1, 2}],
        left \in SUBSET ((group.fields \cap DOMAIN Optional[group.name]) \ changed) :
       /\ \A f \in changed : asked[f] \in Values(f)
       /\ server' = Executed(ToDict([f \in Fields |->
                      IF f \in left THEN None
                      ELSE IF f \in changed THEN asked[f] ELSE copy[p][f]]))
       /\ copy' = [copy EXCEPT ![p] = None]
       /\ Asks(p, asked, stale[p] \ (changed \cup left))

NextChallenge == /\ server' = [k \in DOMAIN server |->
                                 [now |-> server[k].next, next |-> server[k].next]]
                 /\ wish' = [f \in DOMAIN wish |->
                               [now |-> wish[f].next, next |-> wish[f].next]]
                 /\ overwritten' = {f \in Fields : <<f, "next">> \in overwritten}
                                   \X {"now", "next"}
                 /\ UNCHANGED <<group, copy, stale>>

SettingsNext == NextChallenge \/ \E p \in Writers : SetsOne(p) \/ Reads(p) \/ WritesBack(p)

SettingsSpec == SettingsInit /\ [][SettingsNext]_settingVars

-----------------------------------------------------------------------------
(* A setting reads back as somebody last asked for it, by whatever wrapper *)
(* it was set and by whatever wrapper it is read, now or for the next      *)
(* challenge, and nobody changes what he did not ask for; except that      *)
(* writing back a structure undoes what was set since it was read.         *)
ReadsBack ==
  LET together == ReadsTogether
  IN  \A f \in Fields : \A h \in {"now", "next"} : <<f, h>> \notin overwritten =>
        /\ together[h][f] = wish[f][h]
        /\ f \in Alone /\ h \in DOMAIN ReadsOne(f) => ReadsOne(f)[h] = wish[f][h]
=============================================================================
