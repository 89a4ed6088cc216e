----------------------------- MODULE MCDataPath -----------------------------
(***************************************************************************)
(* Small instances of DataPath: the bounds are in the configurations.      *)
(***************************************************************************)
EXTENDS DataPath
=============================================================================
