------------------------------ MODULE AppendLog ------------------------------
(***************************************************************************)
(* What a log promises to those who write it: every write, the k-th of     *)
(* writer a being <<a, k>>, is put whole at the end of what is there, and  *)
(* what is there stays.  An earlier log may be continued.  Once the log is *)
(* spoiled -- a call on it has failed, or those who write it were not      *)
(* given what they need -- nothing is promised.                            *)
(***************************************************************************)
EXTENDS Naturals, Sequences

CONSTANTS
  Writers,
  Earlier    \* what an earlier run left

VARIABLES
  writes,    \* the log
  written,   \* how many writes each writer has made
  spoiled

vars == <<writes, written, spoiled>>

Init ==
  /\ writes \in {<<>>, <<Earlier>>}
  /\ written = [a \in Writers |-> 0]
  /\ spoiled \in BOOLEAN

Add(a) ==
  /\ writes' = Append(writes, <<a, written[a] + 1>>)
  /\ written' = [written EXCEPT ![a] = @ + 1]
  /\ UNCHANGED spoiled

\* writes and written may become anything.
Spoil == spoiled'

Next == Spoil \/ (~spoiled /\ \E a \in Writers : Add(a))

Spec == Init /\ [][Next]_vars
=============================================================================
