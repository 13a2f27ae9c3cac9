--------------------------- MODULE MCServerStart ---------------------------
(* One server with two turns of the loop, in either mode, and two servers with
   the same log: one of threads and one of processes, or one that only starts. *)
EXTENDS ServerStart

CONSTANTS s1, s2, w1, w2, w3

TwoServers   == {s1, s2}
ThreeWorkers == {w1, w2, w3}

Launch(m, n, t) == [launched |-> TRUE, mode |-> m, size |-> n, team |-> t]
Idle            == [launched |-> FALSE, mode |-> "threads", size |-> 0, team |-> {}]
Both(c, d)      == [s \in TwoServers |-> IF s = s1 THEN c ELSE d]

\* Two turns of the loop can start two threads, or three processes.
TwoThreads   == Both(Launch("threads", 2, {w1, w2}), Idle)
ThreeForked  == Both(Launch("processes", 2, {w1, w2, w3}), Idle)
OneOfEach    == Both(Launch("threads", 1, {w1}), Launch("processes", 1, {w2}))
OneAndMain   == Both(Launch("threads", 1, {w1}), Launch("other", 0, {}))
SomeSetups   == {TwoThreads, ThreeForked, OneOfEach, OneAndMain}

\* Two clients and calls on the log that do not fail, or one of each; the servers
\* that share a log have one of the two.
Case(c, l, n, f) == config = c /\ limit = l /\ clients = n /\ mayFail = f
MCInit ==
  /\ Init
  /\ \/ \E l \in Limits : Case(TwoThreads, l, 2, 0) \/ Case(TwoThreads, l, 1, 1)
     \/ Case(ThreeForked, 9, 2, 0) /\ ~existed
     \/ Case(ThreeForked, 9, 1, 1) \/ Case(ThreeForked, 6, 1, 1)
     \/ Case(OneOfEach, 9, 1, 0) \/ Case(OneAndMain, 9, 1, 0) \/ Case(OneAndMain, 9, 0, 1)
MCSpec == MCInit /\ [][Next]_vars /\ Fairness
=============================================================================
