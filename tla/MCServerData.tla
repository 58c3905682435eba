---------------------------- MODULE MCServerData ----------------------------
(***************************************************************************)
(* Four parts of TrackHelm that share no state, for TLC: the settings of   *)
(* the server, its callbacks, the configuration files and the heartbeat.   *)
(* A behaviour is one of one of them: `part' says which.                   *)
(***************************************************************************)
EXTENDS GbxSettings, GbxCallbacks, ConfigFiles, TickLoop, TLC

CONSTANTS a, b

VARIABLE part

dataVars == <<part, settingVars, callbackVars, configVars, tickVars>>

\* Every setting by itself, and two that are deferred and optional together.
Each(g, fields) == {[name |-> g, fields |-> {f}] : f \in fields}

MCWatched ==
  Each("game", DOMAIN GameInfoSettingsRequired \cup DOMAIN GameInfoSettingsOptional)
  \cup Each("options", DOMAIN ServerOptionsUpdateRequired \cup DOMAIN ServerOptionsUpdateOptional)
  \cup Each("mods", {"override", "environment_name", "url"})
  \cup Each("skins", DOMAIN ForcedSkinDict)
  \cup {[name |-> "options", fields |-> {"next_max_players", "hide_server"}]}

\* For every callback: what the server documents, a parameter less, a parameter
\* more, and structures with a key that holds no number.
Sent(annotation, texts) ==
  [sort |-> IF annotation = "plain" THEN "plain"
            ELSE IF annotation \in Lists THEN "list" ELSE "struct",
   texts |-> IF annotation = "plain" THEN {} ELSE texts]
Callback(method, params) ==
  [large |-> FALSE, handle |-> 0, body |-> "call", method |-> method, params |-> params]
Parameters(c) == [i \in DOMAIN EventFields[c] |-> Sent(EventFields[c][i], {})]
MCPackets ==
  {Callback(c, Parameters(c)) : c \in DOMAIN EventFields}
  \cup {Callback(c, SubSeq(Parameters(c), 1, Len(Parameters(c)) - 1)) :
          c \in {c \in DOMAIN EventFields : Parameters(c) # <<>>}}
  \cup {Callback(c, Append(Parameters(c), Sent("plain", {}))) : c \in {"PlayerChat", "BeginRace"}}
  \cup {Callback(c, [i \in DOMAIN EventFields[c] |-> Sent(EventFields[c][i], {k})]) :
          c \in {"EndRace", "BeginChallenge", "PlayerInfoChanged"}, k \in {"Rank", "NbLaps", "Flags"}}
  \cup {Callback("PlayerChat", SubSeq(Parameters("PlayerChat"), 1, 2)), Callback("Unknown", <<>>)}
  \cup {[large |-> l, handle |-> h, body |-> m, method |-> "Unknown", params |-> <<>>] :
          l \in BOOLEAN, h \in {Msb - 1, Msb}, m \in {"call", "answer", "fault", "garbage"}}

MCRequires == [n \in Named |-> IF n = a THEN {b} ELSE {}]
MCClasses == {f \in [Literals \cup Tables -> {"default", "none", "required"}] :
                /\ \A k \in DOMAIN f : f[k] = "required" => k \in Literals
                /\ Cardinality({k \in DOMAIN f : f[k] # "default"}) <= 1}

DataSymmetry == Permutations(Writers)

-----------------------------------------------------------------------------
Start == /\ part \in {"settings", "callbacks", "config", "ticks"}
         /\ SettingsInit /\ (part # "settings" => group.name = "skins" /\ group.fields = {"url"})
         /\ CallbacksInit /\ (part # "callbacks" => ~chat_router)
         /\ ConfigInit /\ (part # "config" => class = CHOOSE c \in [Named -> Classes] : TRUE)
         /\ TickInit

Steps == \/ /\ part = "settings" /\ SettingsNext
            /\ UNCHANGED <<callbackVars, configVars, tickVars>>
         \/ /\ part = "callbacks" /\ CallbacksNext
            /\ UNCHANGED <<settingVars, configVars, tickVars>>
         \/ /\ part = "config" /\ ConfigNext
            /\ UNCHANGED <<settingVars, callbackVars, tickVars>>
         \/ /\ part = "ticks" /\ TickNext
            /\ UNCHANGED <<settingVars, callbackVars, configVars>>

Spec == Start /\ [][Steps /\ UNCHANGED part]_dataVars
=============================================================================
