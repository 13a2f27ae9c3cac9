------------------------------ MODULE FifoQueue ------------------------------
(***************************************************************************)
(* What thread_function (server.c:515-521) relies on the queue for: each   *)
(* enqueue puts a thread's pointer at the end, each dequeue takes the      *)
(* first one or says that there is none.  The actions Enqueue and Dequeue  *)
(* of ThreadMode work on this queue.                                       *)
(***************************************************************************)
EXTENDS Sequences

CONSTANTS Threads, Null

VARIABLES
  q,     \* the pointers, named by the threads whose structures they lead to
  got    \* got[t]: what thread t dequeued last

vars == <<q, got>>

Init == q = <<>> /\ got = [t \in Threads |-> Null]

Enqueue(t) == q' = Append(q, t) /\ UNCHANGED got

Dequeue(t) ==
  IF q = <<>> THEN got' = [got EXCEPT ![t] = Null] /\ UNCHANGED q
              ELSE got' = [got EXCEPT ![t] = Head(q)] /\ q' = Tail(q)

Next == \E t \in Threads : Enqueue(t) \/ Dequeue(t)

Spec == Init /\ [][Next]_vars
=============================================================================
