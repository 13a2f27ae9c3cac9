--------------------------- MODULE MCRequestQueue ---------------------------
(* A small instance of RequestQueue, with a node to spare. *)
EXTENDS RequestQueue

CONSTANTS t1, t2, n1, n2, n3

TwoThreads == {t1, t2}
ThreeNodes == {n1, n2, n3}
=============================================================================
