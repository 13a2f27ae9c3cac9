---------------------------- MODULE MCProcessMode ----------------------------
(* Small instances of ProcessMode: the pool size and the clients are numbers
   the configurations give. *)
EXTENDS ProcessMode
=============================================================================
