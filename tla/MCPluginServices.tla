-------------------------- MODULE MCPluginServices --------------------------
(***************************************************************************)
(* An instance of PluginServices for TLC: a command with an alias, the     *)
(* same one the other way round, a name of its own, and one given twice.   *)
(***************************************************************************)
EXTENDS PluginServices, TLC

CONSTANTS a, b, c, k1, k2

MCNamings == {<<k1, k2>>, <<k2>>, <<k1, k1>>}

PluginSymmetry == Permutations(ChatPlugins)

=============================================================================
