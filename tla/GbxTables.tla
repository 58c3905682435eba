----------------------------- MODULE GbxTables -----------------------------
(***************************************************************************)
(* Tables, for the keys, methods and fields of the GBX protocol: functions *)
(* whose domains are finite sets of names.                                 *)
(***************************************************************************)

\* Both tables; where they share a name, the first one.
Merge(f, g) == [x \in DOMAIN f \cup DOMAIN g |-> IF x \in DOMAIN f THEN f[x] ELSE g[x]]

Entry(name, value) == [x \in {name} |-> value]
=============================================================================
