---------------------------- MODULE MCGbxClient -----------------------------
(***************************************************************************)
(* Instances of GbxClient for TLC; the configurations give the values.     *)
(***************************************************************************)
EXTENDS GbxClient

=============================================================================
