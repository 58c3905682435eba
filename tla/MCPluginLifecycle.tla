------------------------- MODULE MCPluginLifecycle --------------------------
(***************************************************************************)
(* Instances of PluginLifecycle for TLC: feature requires base.            *)
(***************************************************************************)
EXTENDS PluginLifecycle, TLC

CONSTANTS base, feature, f1, f2, r1, r2

MCRequires == [p \in Plugins |-> IF p = feature THEN {base} ELSE {}]
TwoInOrder == <<base, feature>>

\* A plugin is enabled together with the plugins it requires.
AllConfigs == {{}, {base}, {base, feature}}
OneConfig == {{base, feature}}

ReloadSymmetry == Permutations(Reloaders)

=============================================================================
