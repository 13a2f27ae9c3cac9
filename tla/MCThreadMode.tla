---------------------------- MODULE MCThreadMode ----------------------------
(* Small instances of ThreadMode: threads and connections are model values,
   interchangeable but for what each connection sends. *)
EXTENDS ThreadMode, TLC

CONSTANTS t1, t2, c1, c2, c3

TwoThreads == {t1, t2}
ThreeConns == {c1, c2, c3}

Symmetry == Permutations(Threads) \cup Permutations(Conns)

\* Three clients, one of which asks for a page: each kind with a second page, a
\* program with a missing file, and two clients that hold both threads.
Mixes == (AllKinds \X {"page"}) \cup {<<"cgi", "missing">>, <<"silent", "silent">>}

MixInit == Init /\ <<kind[c1], kind[c2]>> \in Mixes /\ kind[c3] = "page"
MixSpec == MixInit /\ [][Next]_vars /\ Fairness
=============================================================================
