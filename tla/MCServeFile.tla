---------------------------- MODULE MCServeFile ----------------------------
(* Two threads, one descriptor: a page, a missing page and a program. *)
EXTENDS ServeFile

CONSTANTS t1, t2

TwoThreads == {t1, t2}
PageAndProgram == {"/page", "/cgi-bin/prog"}
=============================================================================
