----------------------------- MODULE RequestQueue -----------------------------
(***************************************************************************)
(* The queue of myqueue.c: a linked list of nodes on the heap with global  *)
(* head and tail, used by every thread under one mutex in the order of     *)
(* thread_function (server.c:515-521): enqueue the pointer to the thread's *)
(* own structure, then dequeue one.  One step is one statement that reads  *)
(* or writes the shared list.  A freed node keeps its content and may be   *)
(* handed out again by the next malloc.                                    *)
(***************************************************************************)
EXTENDS Integers, Sequences, FiniteSets

CONSTANTS
  Threads,
  Nodes,     \* addresses malloc can give; there is always a free one
  Null

ASSUME QueueAssumption == Null \notin Threads /\ Null \notin Nodes

VARIABLES
  pc,         \* the next statement of each thread
  mutex,      \* the thread that holds the mutex, or Null
  head, tail,
  next,       \* node->next
  item,       \* node->http_req, named by the thread that owns the structure
  allocated,  \* nodes malloc'ed and not freed
  newnode,    \* local of enqueue
  temp,       \* local of dequeue
  result,     \* local of dequeue, then p_http_req of thread_function
  chain       \* history: the nodes enqueued and not dequeued, in order

locals == <<newnode, temp, result>>
heap   == <<next, item, allocated>>
vars   == <<pc, mutex, head, tail, heap, locals, chain>>

Labels == {"idle", "malloc", "fill", "link", "last", "unlock1",
           "between", "test", "advance", "tailtest", "free", "unlock2"}
Critical == Labels \ {"idle", "between"}

TypeOK ==
  /\ pc \in [Threads -> Labels]
  /\ mutex \in Threads \cup {Null}
  /\ head \in Nodes \cup {Null} /\ tail \in Nodes \cup {Null}
  /\ next \in [Nodes -> Nodes \cup {Null}]
  /\ item \in [Nodes -> Threads \cup {Null}]
  /\ allocated \subseteq Nodes
  /\ newnode \in [Threads -> Nodes \cup {Null}]
  /\ temp \in [Threads -> Nodes \cup {Null}]
  /\ result \in [Threads -> Threads \cup {Null}]
  /\ chain \in Seq(Nodes)

Init ==
  /\ pc = [t \in Threads |-> "idle"]
  /\ mutex = Null
  /\ head = Null /\ tail = Null
  /\ next = [n \in Nodes |-> Null]
  /\ item = [n \in Nodes |-> Null]
  /\ allocated = {}
  /\ newnode = [t \in Threads |-> Null]
  /\ temp = [t \in Threads |-> Null]
  /\ result = [t \in Threads |-> Null]
  /\ chain = <<>>

Step(t, from, to) == pc[t] = from /\ pc' = [pc EXCEPT ![t] = to]
-----------------------------------------------------------------------------
\* pthread_mutex_lock, before enqueue and before dequeue.
Lock(t) ==
  /\ mutex = Null /\ mutex' = t
  /\ Step(t, "idle", "malloc") \/ Step(t, "between", "test")
  /\ UNCHANGED <<head, tail, heap, locals, chain>>

Unlock(t) ==
  /\ mutex' = Null
  /\ Step(t, "unlock1", "between") \/ Step(t, "unlock2", "idle")
  /\ UNCHANGED <<head, tail, heap, locals, chain>>

Malloc(t) ==
  /\ Step(t, "malloc", "fill")
  /\ \E n \in Nodes \ allocated :
       /\ allocated' = allocated \cup {n}
       /\ newnode' = [newnode EXCEPT ![t] = n]
  /\ UNCHANGED <<mutex, head, tail, next, item, temp, result, chain>>

Fill(t) ==
  /\ Step(t, "fill", "link")
  /\ item' = [item EXCEPT ![newnode[t]] = t]
  /\ next' = [next EXCEPT ![newnode[t]] = Null]
  /\ UNCHANGED <<mutex, head, tail, allocated, locals, chain>>

\* Mutant: the node is put at the head.
MutLink(t) ==
  /\ Step(t, "link", "last")
  /\ head' = newnode[t]
  /\ next' = [next EXCEPT ![newnode[t]] = head]
  /\ chain' = <<newnode[t]>> \o chain
  /\ UNCHANGED <<mutex, tail, item, allocated, locals>>

\* if (tail == NULL) head = newnode; else tail->next = newnode;
Link(t) ==
  /\ Step(t, "link", "last")
  /\ IF tail = Null THEN head' = newnode[t] /\ UNCHANGED next
                    ELSE next' = [next EXCEPT ![tail] = newnode[t]] /\ UNCHANGED head
  /\ chain' = Append(chain, newnode[t])
  /\ UNCHANGED <<mutex, tail, item, allocated, locals>>

SetTail(t) ==
  /\ Step(t, "last", "unlock1")
  /\ tail' = newnode[t]
  /\ UNCHANGED <<mutex, head, heap, locals, chain>>

\* if (head == NULL) return NULL;
TestHead(t) ==
  /\ IF head = Null THEN Step(t, "test", "unlock2") /\ result' = [result EXCEPT ![t] = Null]
                    ELSE Step(t, "test", "advance") /\ UNCHANGED result
  /\ UNCHANGED <<mutex, head, tail, heap, newnode, temp, chain>>

\* result = head->http_req; temp = head; head = head->next;
Advance(t) ==
  /\ Step(t, "advance", "tailtest")
  /\ result' = [result EXCEPT ![t] = item[head]]
  /\ temp' = [temp EXCEPT ![t] = head]
  /\ head' = next[head]
  /\ chain' = Tail(chain)
  /\ UNCHANGED <<mutex, tail, heap, newnode>>

\* Mutant: tail is left pointing to the node about to be freed.
MutResetTail(t) ==
  /\ Step(t, "tailtest", "free")
  /\ UNCHANGED <<mutex, head, tail, heap, locals, chain>>

\* if (head == NULL) tail = NULL;
ResetTail(t) ==
  /\ Step(t, "tailtest", "free")
  /\ tail' = IF head = Null THEN Null ELSE tail
  /\ UNCHANGED <<mutex, head, heap, locals, chain>>

\* Mutant: the node is never freed when it was the last one.
MutFree(t) ==
  /\ Step(t, "free", "unlock2")
  /\ allocated' = IF head = Null THEN allocated ELSE allocated \ {temp[t]}
  /\ UNCHANGED <<mutex, head, tail, next, item, locals, chain>>

Free(t) ==
  /\ Step(t, "free", "unlock2")
  /\ allocated' = allocated \ {temp[t]}
  /\ UNCHANGED <<mutex, head, tail, next, item, locals, chain>>
-----------------------------------------------------------------------------
EnqueueBody(t) == Malloc(t) \/ Fill(t) \/ Link(t) \/ SetTail(t)
DequeueBody(t) == TestHead(t) \/ Advance(t) \/ ResetTail(t) \/ Free(t)

Next == \E t \in Threads : Lock(t) \/ EnqueueBody(t) \/ DequeueBody(t) \/ Unlock(t)

Spec == Init /\ [][Next]_vars

\* A thread that has begun to enqueue goes on to its dequeue as the scheduler
\* and the mutex allow; the mutex is not fair, and a thread may stay in
\* accept() or process_requests for ever (idle).
FairSpec ==
  /\ Spec
  /\ \A t \in Threads :
       /\ WF_vars(EnqueueBody(t) \/ DequeueBody(t) \/ Unlock(t))
       /\ WF_vars(pc[t] = "between" /\ Lock(t))
-----------------------------------------------------------------------------
\* Every node a statement of enqueue or dequeue dereferences is allocated at
\* that moment, although dequeue frees nodes that tail pointed to (myqueue.c:31,
\* 44-49).
NoUseAfterFree ==
  \A t \in Threads :
    /\ pc[t] = "fill" => newnode[t] \in allocated
    /\ pc[t] = "link" => tail \in allocated \cup {Null}
    /\ pc[t] = "advance" => head \in allocated

\* The allocated nodes are those in the list and the one a thread has in hand:
\* enqueue and dequeue leak none and free none twice (myqueue.c:22, 49).
InHand == {newnode[t] : t \in {u \in Threads : pc[u] \in {"fill", "link"}}}
          \cup {temp[t] : t \in {u \in Threads : pc[u] \in {"tailtest", "free"}}}
Linked == {chain[k] : k \in DOMAIN chain}
NodesAccounted == allocated = Linked \cup InHand /\ Linked \cap InHand = {}

\* A node that was linked is unlinked by some thread, whichever gets the mutex:
\* a thread that overtakes the one that enqueued it does so by dequeueing
\* (server.c:515-521).
PointerTaken == \A n \in Nodes : n \in Linked ~> n \notin Linked

\* The list with its mutex is a first-in first-out queue.
Fifo == INSTANCE FifoQueue WITH
          q   <- [k \in DOMAIN chain |-> item[chain[k]]],
          got <- result
ImplementsFifo == Fifo!Spec
-----------------------------------------------------------------------------
\* The statements between a lock and an unlock belong to the mutex's holder.
Exclusive == \A t \in Threads : pc[t] \in Critical <=> mutex = t

\* The heap is the history's chain of distinct nodes.
ListOK ==
  /\ \A j, k \in DOMAIN chain : chain[j] = chain[k] => j = k
  /\ \A k \in DOMAIN chain : item[chain[k]] \in Threads
  /\ \A k \in DOMAIN chain :
       next[chain[k]] = IF k = Len(chain) THEN Null ELSE chain[k + 1]
  /\ head = IF chain = <<>> THEN Null ELSE chain[1]

LastOf(s) == IF s = <<>> THEN Null ELSE s[Len(s)]

\* tail is the last node, but between the two writes of enqueue and those of
\* dequeue.
TailOK ==
  /\ (\A t \in Threads : pc[t] \notin {"last", "tailtest"}) => tail = LastOf(chain)
  /\ \A t \in Threads : pc[t] = "last" =>
       /\ chain # <<>> /\ newnode[t] = LastOf(chain)
       /\ tail = IF Len(chain) = 1 THEN Null ELSE chain[Len(chain) - 1]
  /\ \A t \in Threads : pc[t] = "tailtest" =>
       tail = IF chain = <<>> THEN temp[t] ELSE LastOf(chain)

\* What a thread has in hand at each statement.
HandOK ==
  \A t \in Threads :
    /\ pc[t] \in {"fill", "link"} => newnode[t] \in Nodes
    /\ pc[t] = "link" => item[newnode[t]] = t /\ next[newnode[t]] = Null
    /\ pc[t] = "advance" => chain # <<>>
    /\ pc[t] \in {"tailtest", "free"} => temp[t] \in Nodes

IInv == TypeOK /\ Exclusive /\ ListOK /\ TailOK /\ HandOK /\ NodesAccounted
=============================================================================
