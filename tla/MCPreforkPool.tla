---------------------------- MODULE MCPreforkPool ----------------------------
(* Small instances of PreforkPool: the configurations give the sizes. *)
EXTENDS PreforkPool
=============================================================================
