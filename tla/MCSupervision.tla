--------------------------- MODULE MCSupervision ----------------------------
(***************************************************************************)
(* Instances of Supervision for TLC; the configurations give the values.   *)
(***************************************************************************)
EXTENDS Supervision

=============================================================================
