-------------------------- MODULE RequestQueueProofs --------------------------
(***************************************************************************)
(* Proofs about RequestQueue for any number of threads and nodes: the      *)
(* mutex makes the chain of nodes and the heap agree (IInv), so no freed   *)
(* node is used, none is lost, and the list is a FIFO queue.               *)
(***************************************************************************)
EXTENDS RequestQueue, SequenceTheorems, TLAPS

USE QueueAssumption

(* A step moves one thread, and while it holds the mutex no other thread is *)
(* in enqueue or dequeue.                                                   *)
LEMMA Moved ==
  ASSUME TypeOK, NEW t \in Threads, NEW from \in Labels, NEW to \in Labels,
         Step(t, from, to)
  PROVE  /\ pc[t] = from /\ pc'[t] = to /\ pc' \in [Threads -> Labels]
         /\ \A u \in Threads \ {t} : pc'[u] = pc[u]
  BY DEF TypeOK, Step

LEMMA Alone ==
  ASSUME TypeOK, Exclusive, NEW t \in Threads, pc[t] \in Critical
  PROVE  mutex = t /\ \A u \in Threads \ {t} : pc[u] \in {"idle", "between"}
  BY DEF TypeOK, Exclusive, Critical

(* What is in hand, in terms of the one thread that holds the mutex. *)
LEMMA HandOf ==
  ASSUME NEW S, NEW p \in [S -> Labels], NEW nn, NEW tt, NEW t \in S,
         \A u \in S \ {t} : p[u] \in {"idle", "between"}
  PROVE  {nn[u] : u \in {v \in S : p[v] \in {"fill", "link"}}}
           \cup {tt[u] : u \in {v \in S : p[v] \in {"tailtest", "free"}}}
         = IF p[t] \in {"fill", "link"} THEN {nn[t]}
           ELSE IF p[t] \in {"tailtest", "free"} THEN {tt[t]} ELSE {}
<1>1. \A v \in S : p[v] \in {"fill", "link"} <=> v = t /\ p[t] \in {"fill", "link"}
  OBVIOUS
<1>2. \A v \in S : p[v] \in {"tailtest", "free"}
                     <=> v = t /\ p[t] \in {"tailtest", "free"}
  OBVIOUS
<1>3. {v \in S : p[v] \in {"fill", "link"}}
        = IF p[t] \in {"fill", "link"} THEN {t} ELSE {}
  BY <1>1
<1>4. {v \in S : p[v] \in {"tailtest", "free"}}
        = IF p[t] \in {"tailtest", "free"} THEN {t} ELSE {}
  BY <1>2
<1>5. ~(p[t] \in {"fill", "link"} /\ p[t] \in {"tailtest", "free"})
  OBVIOUS
<1>6. CASE p[t] \in {"fill", "link"}
  BY <1>3, <1>4, <1>5, <1>6
<1>7. CASE p[t] \in {"tailtest", "free"}
  BY <1>3, <1>4, <1>5, <1>7
<1>8. CASE p[t] \notin {"fill", "link", "tailtest", "free"}
  BY <1>3, <1>4, <1>8
<1> QED
  BY <1>6, <1>7, <1>8

(* The same for the node in hand before and after a step of t. *)
LEMMA Hands ==
  ASSUME TypeOK, TypeOK', NEW t \in Threads,
         \A u \in Threads \ {t} : pc[u] \in {"idle", "between"} /\ pc'[u] = pc[u]
  PROVE  /\ InHand = IF pc[t] \in {"fill", "link"} THEN {newnode[t]}
                     ELSE IF pc[t] \in {"tailtest", "free"} THEN {temp[t]} ELSE {}
         /\ InHand' = IF pc'[t] \in {"fill", "link"} THEN {newnode'[t]}
                      ELSE IF pc'[t] \in {"tailtest", "free"} THEN {temp'[t]} ELSE {}
<1>1. pc \in [Threads -> Labels] /\ pc' \in [Threads -> Labels]
  BY DEF TypeOK
<1> QED
  BY <1>1, HandOf DEF InHand

LEMMA OpenedEmpty == Init => IInv
<1> SUFFICES ASSUME Init PROVE IInv
  OBVIOUS
<1>1. TypeOK
  BY DEF Init, TypeOK, Labels
<1>2. Exclusive
  BY DEF Init, Exclusive, Critical
<1>3. ListOK /\ TailOK /\ HandOK
  BY DEF Init, ListOK, TailOK, HandOK, LastOf
<1>4. NodesAccounted
  BY DEF Init, NodesAccounted, Linked, InHand
<1> QED
  BY <1>1, <1>2, <1>3, <1>4 DEF IInv
-----------------------------------------------------------------------------
(* pthread_mutex_lock *)
LEMMA LockStep ==
  ASSUME IInv, NEW t \in Threads, Lock(t)
  PROVE  IInv'
<1> USE DEF IInv
<1>1. PICK from \in {"idle", "between"}, to \in {"malloc", "test"} : Step(t, from, to)
  BY DEF Lock
<1>2. /\ pc[t] = from /\ pc'[t] = to /\ pc' \in [Threads -> Labels]
      /\ \A u \in Threads \ {t} : pc'[u] = pc[u] /\ pc[u] \in {"idle", "between"}
      /\ mutex = Null /\ mutex' = t
      /\ UNCHANGED <<head, tail, next, item, allocated, newnode, temp, result, chain>>
  <2>1. from \in Labels /\ to \in Labels
    BY DEF Labels
  <2>2. \A u \in Threads : pc[u] \in {"idle", "between"}
    BY DEF Lock, Exclusive, Critical, TypeOK
  <2> QED
    BY <1>1, <2>1, <2>2, Moved DEF Lock, heap, locals
<1>3. TypeOK'
  BY <1>2 DEF TypeOK
<1>4. Exclusive'
  BY <1>2 DEF Exclusive, Critical, Labels
<1>5. ListOK'
  BY <1>2 DEF ListOK
<1>6. TailOK'
  <2>1. \A u \in Threads : pc[u] \notin {"last", "tailtest"} /\ pc'[u] \notin {"last", "tailtest"}
    BY <1>2
  <2> QED
    BY <1>2, <2>1 DEF TailOK, LastOf
<1>7. HandOK'
  BY <1>2 DEF HandOK
<1>8. NodesAccounted'
  BY <1>2, <1>3, Hands DEF NodesAccounted, Linked
<1> QED
  BY <1>3, <1>4, <1>5, <1>6, <1>7, <1>8

(* pthread_mutex_unlock *)
LEMMA UnlockStep ==
  ASSUME IInv, NEW t \in Threads, Unlock(t)
  PROVE  IInv'
<1> USE DEF IInv
<1>1. PICK from \in {"unlock1", "unlock2"}, to \in {"idle", "between"} : Step(t, from, to)
  BY DEF Unlock
<1>2. /\ pc[t] = from /\ pc'[t] = to /\ pc' \in [Threads -> Labels]
      /\ \A u \in Threads \ {t} : pc'[u] = pc[u] /\ pc[u] \in {"idle", "between"}
      /\ mutex = t /\ mutex' = Null
      /\ UNCHANGED <<head, tail, next, item, allocated, newnode, temp, result, chain>>
  <2>1. from \in Labels /\ to \in Labels
    BY DEF Labels
  <2>2. pc[t] = from
    BY <1>1 DEF Step
  <2>3. pc[t] \in Critical
    BY <2>1, <2>2 DEF Critical
  <2> QED
    BY <1>1, <2>1, <2>3, Moved, Alone DEF Unlock, heap, locals
<1>3. TypeOK'
  BY <1>2 DEF TypeOK
<1>4. Exclusive'
  BY <1>2 DEF Exclusive, Critical
<1>5. ListOK'
  BY <1>2 DEF ListOK
<1>6. TailOK'
  <2>1. \A u \in Threads : pc[u] \notin {"last", "tailtest"} /\ pc'[u] \notin {"last", "tailtest"}
    BY <1>2
  <2> QED
    BY <1>2, <2>1 DEF TailOK, LastOf
<1>7. HandOK'
  BY <1>2 DEF HandOK
<1>8. NodesAccounted'
  BY <1>2, <1>3, Hands DEF NodesAccounted, Linked
<1> QED
  BY <1>3, <1>4, <1>5, <1>6, <1>7, <1>8

(* What every statement between lock and unlock has in common. *)
LEMMA Inside ==
  ASSUME TypeOK, Exclusive, NEW t \in Threads,
         NEW from \in Critical, NEW to \in Critical, Step(t, from, to), UNCHANGED mutex
  PROVE  /\ pc[t] = from /\ pc'[t] = to /\ pc' \in [Threads -> Labels]
         /\ \A u \in Threads \ {t} : pc'[u] = pc[u] /\ pc[u] \in {"idle", "between"}
         /\ mutex = t /\ Exclusive'
<1>1. from \in Labels /\ to \in Labels
  BY DEF Critical
<1>2. /\ pc[t] = from /\ pc'[t] = to /\ pc' \in [Threads -> Labels]
      /\ \A u \in Threads \ {t} : pc'[u] = pc[u]
  BY <1>1, Moved
<1>3. mutex = t /\ \A u \in Threads \ {t} : pc[u] \in {"idle", "between"}
  BY <1>2, Alone
<1> QED
  BY <1>2, <1>3 DEF Exclusive, Critical

LEMMA MallocStep ==
  ASSUME IInv, NEW t \in Threads, Malloc(t)
  PROVE  IInv'
<1> USE DEF IInv
<1>1. /\ pc[t] = "malloc" /\ pc'[t] = "fill" /\ pc' \in [Threads -> Labels]
      /\ \A u \in Threads \ {t} : pc'[u] = pc[u] /\ pc[u] \in {"idle", "between"}
      /\ Exclusive'
  BY Inside DEF Malloc, Critical, Labels
<1>2. PICK n \in Nodes \ allocated : /\ allocated' = allocated \cup {n}
                                     /\ newnode' = [newnode EXCEPT ![t] = n]
  BY DEF Malloc
<1>3. newnode'[t] = n /\ UNCHANGED <<mutex, head, tail, next, item, temp, result, chain>>
  BY <1>2 DEF Malloc, TypeOK
<1>4. TypeOK'
  BY <1>1, <1>2, <1>3 DEF TypeOK
<1>5. ListOK'
  BY <1>3 DEF ListOK
<1>6. TailOK'
  <2>1. \A u \in Threads : pc[u] \notin {"last", "tailtest"} /\ pc'[u] \notin {"last", "tailtest"}
    BY <1>1
  <2> QED
    BY <1>3, <2>1 DEF TailOK, LastOf
<1>7. HandOK'
  BY <1>1, <1>3 DEF HandOK
<1>8. NodesAccounted'
  <2>1. InHand = {} /\ InHand' = {n}
    BY <1>1, <1>3, <1>4, Hands
  <2> QED
    BY <1>2, <1>3, <2>1 DEF NodesAccounted, Linked
<1> QED
  BY <1>1, <1>4, <1>5, <1>6, <1>7, <1>8

LEMMA FillStep ==
  ASSUME IInv, NEW t \in Threads, Fill(t)
  PROVE  IInv'
<1> USE DEF IInv
<1>1. /\ pc[t] = "fill" /\ pc'[t] = "link" /\ pc' \in [Threads -> Labels]
      /\ \A u \in Threads \ {t} : pc'[u] = pc[u] /\ pc[u] \in {"idle", "between"}
      /\ Exclusive'
  BY Inside DEF Fill, Critical, Labels
<1>2. /\ newnode[t] \in Nodes
      /\ item' = [item EXCEPT ![newnode[t]] = t]
      /\ next' = [next EXCEPT ![newnode[t]] = Null]
      /\ UNCHANGED <<mutex, head, tail, allocated, newnode, temp, result, chain>>
  BY <1>1 DEF Fill, HandOK, locals
<1>3. TypeOK'
  BY <1>1, <1>2 DEF TypeOK
<1>4. InHand = {newnode[t]} /\ InHand' = {newnode[t]}
  BY <1>1, <1>2, <1>3, Hands
<1>5. ListOK'
  <2>1. \A k \in DOMAIN chain : chain[k] \in Nodes /\ chain[k] # newnode[t]
    BY <1>4 DEF NodesAccounted, Linked, TypeOK
  <2>2. \A k \in DOMAIN chain : item'[chain[k]] = item[chain[k]] /\ next'[chain[k]] = next[chain[k]]
    BY <1>2, <2>1 DEF TypeOK
  <2> QED
    BY <1>2, <2>2 DEF ListOK
<1>6. TailOK'
  <2>1. \A u \in Threads : pc[u] \notin {"last", "tailtest"} /\ pc'[u] \notin {"last", "tailtest"}
    BY <1>1
  <2> QED
    BY <1>2, <2>1 DEF TailOK, LastOf
<1>7. HandOK'
  BY <1>1, <1>2 DEF HandOK, TypeOK
<1>8. NodesAccounted'
  BY <1>2, <1>4 DEF NodesAccounted, Linked
<1> QED
  BY <1>1, <1>3, <1>5, <1>6, <1>7, <1>8

(* What Append does to the chain. *)
LEMMA ChainAppend ==
  ASSUME NEW S, NEW s \in Seq(S), NEW x \in S
  PROVE  /\ Append(s, x) \in Seq(S) /\ Len(Append(s, x)) = Len(s) + 1
         /\ DOMAIN s = 1 .. Len(s) /\ DOMAIN Append(s, x) = 1 .. Len(s) + 1
         /\ Append(s, x)[Len(s) + 1] = x
         /\ \A k \in 1 .. Len(s) : Append(s, x)[k] = s[k]
         /\ Append(s, x) # <<>> /\ Len(s) \in Nat /\ (s = <<>> <=> Len(s) = 0)
  OBVIOUS

LEMMA LinkStep ==
  ASSUME IInv, NEW t \in Threads, Link(t)
  PROVE  IInv'
<1> USE DEF IInv
<1>1. /\ pc[t] = "link" /\ pc'[t] = "last" /\ pc' \in [Threads -> Labels]
      /\ \A u \in Threads \ {t} : pc'[u] = pc[u] /\ pc[u] \in {"idle", "between"}
      /\ Exclusive'
  BY Inside DEF Link, Critical, Labels
<1> DEFINE n == newnode[t]
<1>2. /\ n \in Nodes /\ item[n] = t /\ next[n] = Null
      /\ chain' = Append(chain, n)
      /\ UNCHANGED <<mutex, tail, item, allocated, newnode, temp, result>>
  BY <1>1 DEF Link, HandOK, locals
<1>3. chain \in Seq(Nodes) /\ tail = LastOf(chain)
  BY <1>1 DEF TailOK, TypeOK
<1>4. /\ chain' \in Seq(Nodes) /\ Len(chain') = Len(chain) + 1
      /\ DOMAIN chain = 1 .. Len(chain) /\ DOMAIN chain' = 1 .. Len(chain) + 1
      /\ chain'[Len(chain) + 1] = n /\ \A k \in 1 .. Len(chain) : chain'[k] = chain[k]
      /\ chain' # <<>> /\ Len(chain) \in Nat /\ (chain = <<>> <=> Len(chain) = 0)
  BY <1>2, <1>3, ChainAppend
<1>5. TypeOK'
  BY <1>1, <1>2, <1>4 DEF TypeOK, Link
<1>6. InHand = {n} /\ InHand' = {}
  BY <1>1, <1>5, Hands
<1>7. \A k \in 1 .. Len(chain) : chain[k] \in Nodes /\ chain[k] # n
  BY <1>3, <1>4, <1>6 DEF NodesAccounted, Linked
<1>12. /\ \A j, k \in 1 .. Len(chain) : chain[j] = chain[k] => j = k
       /\ \A k \in 1 .. Len(chain) :
            next[chain[k]] = IF k = Len(chain) THEN Null ELSE chain[k + 1]
  BY <1>4 DEF ListOK
<1>8. ListOK'
  <2>1. \A j, k \in DOMAIN chain' : chain'[j] = chain'[k] => j = k
    BY <1>4, <1>7 DEF ListOK
  <2>2. \A k \in DOMAIN chain' : item'[chain'[k]] \in Threads
    BY <1>2, <1>4 DEF ListOK
  <2>3. CASE chain = <<>>
    <3>1. tail = Null /\ head' = n /\ next' = next /\ DOMAIN chain' = {1} /\ chain'[1] = n
      BY <1>3, <1>4, <2>3 DEF LastOf, Link
    <3> QED
      BY <1>2, <1>4, <2>1, <2>2, <2>3, <3>1 DEF ListOK
  <2>4. CASE chain # <<>>
    <3>1. /\ Len(chain) \in 1 .. Len(chain) /\ 1 \in 1 .. Len(chain)
          /\ tail = chain[Len(chain)] /\ tail \in Nodes /\ tail # Null /\ tail # n
      BY <1>3, <1>4, <1>7, <2>4 DEF LastOf
    <3>2. head' = head /\ next' = [next EXCEPT ![tail] = n]
      BY <3>1 DEF Link
    <3>3. next'[tail] = n /\ \A m \in Nodes \ {tail} : next'[m] = next[m]
      BY <3>1, <3>2 DEF TypeOK
    <3>4. head' = chain'[1]
      BY <1>4, <2>4, <3>1, <3>2 DEF ListOK
    <3>5. ASSUME NEW k \in 1 .. Len(chain)
          PROVE  next'[chain'[k]] = chain'[k + 1]
      <4>1. CASE k = Len(chain)
        BY <1>4, <3>1, <3>3, <4>1
      <4>2. CASE k # Len(chain)
        <5>1. k + 1 \in 1 .. Len(chain)
          <6>1. Len(chain) \in Nat
            BY <1>4
          <6> QED
            BY <4>2, <6>1
        <5>2. chain[k] # chain[Len(chain)]
          BY <1>12, <3>1, <4>2
        <5>3. chain[k] \in Nodes \ {tail}
          BY <1>7, <3>1, <5>2
        <5>4. next[chain[k]] = chain[k + 1]
          BY <1>12, <4>2
        <5>5. next'[chain[k]] = chain[k + 1]
          BY <3>3, <5>3, <5>4
        <5> QED
          BY <1>4, <5>1, <5>5
      <4> QED
        BY <4>1, <4>2
    <3>6. next'[chain'[Len(chain) + 1]] = Null
      BY <1>2, <1>4, <3>1, <3>3
    <3> QED
      BY <1>4, <2>1, <2>2, <3>4, <3>5, <3>6 DEF ListOK
  <2> QED
    BY <2>3, <2>4
<1>9. TailOK'
  <2>1. tail' = IF Len(chain') = 1 THEN Null ELSE chain'[Len(chain') - 1]
    <3>1. tail' = IF Len(chain) = 0 THEN Null ELSE chain[Len(chain)]
      BY <1>2, <1>3, <1>4 DEF LastOf
    <3>2. Len(chain') - 1 = Len(chain) /\ (Len(chain') = 1 <=> Len(chain) = 0)
      BY <1>4
    <3>3. Len(chain) # 0 => chain'[Len(chain)] = chain[Len(chain)]
      BY <1>4
    <3> QED
      BY <3>1, <3>2, <3>3
  <2>2. \A u \in Threads : /\ pc'[u] # "tailtest"
                           /\ pc'[u] = "last" => u = t
    BY <1>1
  <2>3. newnode'[t] = LastOf(chain')
    BY <1>2, <1>4 DEF LastOf
  <2> QED
    BY <1>1, <1>4, <2>1, <2>2, <2>3 DEF TailOK
<1>10. HandOK'
  BY <1>1 DEF HandOK
<1>11. NodesAccounted'
  <2>1. Linked' = Linked \cup {n}
    BY <1>4 DEF Linked
  <2> QED
    BY <1>2, <1>6, <2>1 DEF NodesAccounted
<1> QED
  BY <1>1, <1>5, <1>8, <1>9, <1>10, <1>11

LEMMA SetTailStep ==
  ASSUME IInv, NEW t \in Threads, SetTail(t)
  PROVE  IInv'
<1> USE DEF IInv
<1>1. /\ pc[t] = "last" /\ pc'[t] = "unlock1" /\ pc' \in [Threads -> Labels]
      /\ \A u \in Threads \ {t} : pc'[u] = pc[u] /\ pc[u] \in {"idle", "between"}
      /\ Exclusive'
  BY Inside DEF SetTail, Critical, Labels
<1>2. /\ tail' = newnode[t] /\ tail' = LastOf(chain) /\ newnode[t] \in Nodes
      /\ UNCHANGED <<mutex, head, next, item, allocated, newnode, temp, result, chain>>
  <2>1. newnode[t] = LastOf(chain) /\ chain # <<>> /\ chain \in Seq(Nodes)
    BY <1>1 DEF TailOK, TypeOK
  <2>2. LastOf(chain) \in Nodes
    BY <2>1 DEF LastOf
  <2> QED
    BY <2>1, <2>2 DEF SetTail, heap, locals
<1>3. TypeOK'
  BY <1>1, <1>2 DEF TypeOK
<1>4. ListOK'
  BY <1>2 DEF ListOK
<1>5. TailOK'
  <2>1. \A u \in Threads : pc'[u] \notin {"last", "tailtest"}
    BY <1>1
  <2> QED
    BY <1>2, <2>1 DEF TailOK, LastOf
<1>6. HandOK'
  BY <1>1, <1>2 DEF HandOK
<1>7. NodesAccounted'
  <2>1. InHand = {} /\ InHand' = {}
    BY <1>1, <1>3, Hands
  <2> QED
    BY <1>2, <2>1 DEF NodesAccounted, Linked
<1> QED
  BY <1>1, <1>3, <1>4, <1>5, <1>6, <1>7

LEMMA TestHeadStep ==
  ASSUME IInv, NEW t \in Threads, TestHead(t)
  PROVE  IInv'
<1> USE DEF IInv
<1>1. PICK to \in {"unlock2", "advance"} :
        Step(t, "test", to) /\ (to = "advance" <=> head # Null)
  BY DEF TestHead
<1>2. /\ pc[t] = "test" /\ pc'[t] = to /\ pc' \in [Threads -> Labels]
      /\ \A u \in Threads \ {t} : pc'[u] = pc[u] /\ pc[u] \in {"idle", "between"}
      /\ Exclusive'
  <2>1. "test" \in Critical /\ to \in Critical /\ UNCHANGED mutex
    BY DEF Critical, Labels, TestHead
  <2> QED
    BY <1>1, <2>1, Inside
<1>3. UNCHANGED <<mutex, head, tail, next, item, allocated, newnode, temp, chain>>
  BY DEF TestHead, heap
<1>4. result' \in [Threads -> Threads \cup {Null}]
  BY DEF TestHead, TypeOK
<1>5. TypeOK'
  BY <1>2, <1>3, <1>4 DEF TypeOK
<1>6. ListOK'
  BY <1>3 DEF ListOK
<1>7. TailOK'
  <2>1. \A u \in Threads : pc[u] \notin {"last", "tailtest"} /\ pc'[u] \notin {"last", "tailtest"}
    BY <1>2
  <2> QED
    BY <1>3, <2>1 DEF TailOK, LastOf
<1>8. HandOK'
  <2>1. pc'[t] = "advance" => chain' # <<>>
    BY <1>1, <1>2, <1>3 DEF ListOK
  <2> QED
    BY <1>2, <1>3, <2>1 DEF HandOK
<1>9. NodesAccounted'
  <2>1. InHand = {} /\ InHand' = {}
    BY <1>2, <1>5, Hands
  <2> QED
    BY <1>3, <2>1 DEF NodesAccounted, Linked
<1> QED
  BY <1>2, <1>5, <1>6, <1>7, <1>8, <1>9

(* What Tail does to the chain. *)
LEMMA ChainTail ==
  ASSUME NEW S, NEW s \in Seq(S), s # <<>>
  PROVE  /\ Tail(s) \in Seq(S) /\ Len(Tail(s)) = Len(s) - 1
         /\ DOMAIN s = 1 .. Len(s) /\ DOMAIN Tail(s) = 1 .. Len(s) - 1
         /\ \A k \in 1 .. Len(s) - 1 : Tail(s)[k] = s[k + 1]
         /\ Len(s) \in Nat \ {0} /\ s[1] \in S
         /\ (Tail(s) = <<>> <=> Len(s) = 1)
<1>1. Tail(s) \in Seq(S) /\ Len(Tail(s)) = Len(s) - 1 /\ Len(s) \in Nat \ {0}
  OBVIOUS
<1> QED
  BY <1>1

LEMMA AdvanceStep ==
  ASSUME IInv, NEW t \in Threads, Advance(t)
  PROVE  IInv'
<1> USE DEF IInv
<1>1. /\ pc[t] = "advance" /\ pc'[t] = "tailtest" /\ pc' \in [Threads -> Labels]
      /\ \A u \in Threads \ {t} : pc'[u] = pc[u] /\ pc[u] \in {"idle", "between"}
      /\ Exclusive'
  BY Inside DEF Advance, Critical, Labels
<1>2. chain \in Seq(Nodes) /\ chain # <<>> /\ tail = LastOf(chain)
  BY <1>1 DEF TypeOK, TailOK, HandOK
<1>3. /\ chain' \in Seq(Nodes) /\ Len(chain') = Len(chain) - 1
      /\ DOMAIN chain = 1 .. Len(chain) /\ DOMAIN chain' = 1 .. Len(chain) - 1
      /\ \A k \in 1 .. Len(chain) - 1 : chain'[k] = chain[k + 1]
      /\ Len(chain) \in Nat \ {0} /\ chain[1] \in Nodes
      /\ (chain' = <<>> <=> Len(chain) = 1)
  BY <1>2, ChainTail DEF Advance
<1>4. /\ \A j, k \in 1 .. Len(chain) : chain[j] = chain[k] => j = k
      /\ \A k \in 1 .. Len(chain) : item[chain[k]] \in Threads
      /\ \A k \in 1 .. Len(chain) :
           next[chain[k]] = IF k = Len(chain) THEN Null ELSE chain[k + 1]
      /\ head = chain[1]
  BY <1>2, <1>3 DEF ListOK
<1>5. /\ result' = [result EXCEPT ![t] = item[head]]
      /\ temp' = [temp EXCEPT ![t] = head] /\ head' = next[head]
      /\ UNCHANGED <<mutex, tail, next, item, allocated, newnode>>
  BY DEF Advance, heap
<1>6. head \in Nodes /\ item[head] \in Threads /\ temp'[t] = head
  BY <1>3, <1>4, <1>5 DEF TypeOK
<1>7. TypeOK'
  BY <1>1, <1>3, <1>5, <1>6 DEF TypeOK
<1>12. /\ \A k \in 1 .. Len(chain) - 1 : k + 1 \in 1 .. Len(chain) /\ chain'[k] = chain[k + 1]
       /\ \A k \in DOMAIN chain' : k \in 1 .. Len(chain) - 1
  BY <1>3
<1>8. ListOK'
  <2>1. \A j, k \in DOMAIN chain' : chain'[j] = chain'[k] => j = k
    BY <1>3, <1>4
  <2>2. \A k \in DOMAIN chain' : item'[chain'[k]] \in Threads
    BY <1>12, <1>4, <1>5
  <2>3. \A k \in DOMAIN chain' :
          next'[chain'[k]] = IF k = Len(chain') THEN Null ELSE chain'[k + 1]
    <3> SUFFICES ASSUME NEW k \in 1 .. Len(chain) - 1
                 PROVE  next[chain[k + 1]] = IF k = Len(chain) - 1 THEN Null
                                             ELSE chain'[k + 1]
      BY <1>3, <1>5
    <3>1. k + 1 \in 1 .. Len(chain)
      BY <1>3
    <3>2. next[chain[k + 1]] = IF k + 1 = Len(chain) THEN Null ELSE chain[k + 2]
      BY <1>3, <1>4, <3>1
    <3>3. k # Len(chain) - 1 => chain'[k + 1] = chain[k + 2]
      BY <1>3
    <3> QED
      BY <1>3, <3>2, <3>3
  <2>4. head' = IF chain' = <<>> THEN Null ELSE chain'[1]
    <3>1. next[chain[1]] = IF 1 = Len(chain) THEN Null ELSE chain[2]
      BY <1>3, <1>4
    <3>2. Len(chain) # 1 => chain'[1] = chain[2]
      BY <1>3
    <3> QED
      BY <1>3, <1>4, <1>5, <3>1, <3>2
  <2> QED
    BY <2>1, <2>2, <2>3, <2>4 DEF ListOK
<1>9. TailOK'
  <2>1. tail' = IF chain' = <<>> THEN temp'[t] ELSE LastOf(chain')
    <3>1. tail' = chain[Len(chain)]
      BY <1>2, <1>5 DEF LastOf
    <3>2. chain' = <<>> => chain[Len(chain)] = head
      BY <1>3, <1>4
    <3>3. chain' # <<>> => chain'[Len(chain) - 1] = chain[Len(chain)]
      BY <1>3
    <3> QED
      BY <1>3, <1>6, <3>1, <3>2, <3>3 DEF LastOf
  <2>2. \A u \in Threads : pc'[u] # "last" /\ (pc'[u] = "tailtest" => u = t)
    BY <1>1
  <2> QED
    BY <1>1, <2>1, <2>2 DEF TailOK
<1>10. HandOK'
  BY <1>1, <1>6 DEF HandOK
<1>11. NodesAccounted'
  <2>1. InHand = {} /\ InHand' = {head}
    BY <1>1, <1>6, <1>7, Hands
  <2>2. \A k \in 1 .. Len(chain) - 1 : chain'[k] # head
    BY <1>3, <1>4
  <2>3. head \notin Linked'
    BY <1>3, <2>2 DEF Linked
  <2>4. Linked = Linked' \cup {head}
    <3>1. \A k \in 1 .. Len(chain) : k = 1 \/ (k - 1 \in 1 .. Len(chain) - 1 /\ chain[k] = chain'[k - 1])
      BY <1>3
    <3>3. Linked \subseteq Linked' \cup {head}
      <4> SUFFICES ASSUME NEW k \in DOMAIN chain, k # 1 PROVE chain[k] \in Linked'
        BY <1>4 DEF Linked
      <4>1. k - 1 \in DOMAIN chain' /\ chain[k] = chain'[k - 1]
        BY <1>3, <3>1
      <4> QED
        BY <4>1 DEF Linked
    <3>4. Linked' \subseteq Linked
      <4> SUFFICES ASSUME NEW k \in DOMAIN chain' PROVE chain'[k] \in Linked
        BY DEF Linked
      <4>1. k + 1 \in DOMAIN chain /\ chain'[k] = chain[k + 1]
        BY <1>3, <1>12
      <4> QED
        BY <4>1 DEF Linked
    <3>5. head \in Linked
      <4>1. 1 \in 1 .. Len(chain)
        BY <1>3
      <4> QED
        BY <1>3, <1>4, <4>1 DEF Linked
    <3> QED
      BY <3>3, <3>4, <3>5
  <2> QED
    BY <1>5, <2>1, <2>3, <2>4 DEF NodesAccounted
<1> QED
  BY <1>1, <1>7, <1>8, <1>9, <1>10, <1>11

LEMMA ResetTailStep ==
  ASSUME IInv, NEW t \in Threads, ResetTail(t)
  PROVE  IInv'
<1> USE DEF IInv
<1>1. /\ pc[t] = "tailtest" /\ pc'[t] = "free" /\ pc' \in [Threads -> Labels]
      /\ \A u \in Threads \ {t} : pc'[u] = pc[u] /\ pc[u] \in {"idle", "between"}
      /\ Exclusive'
  BY Inside DEF ResetTail, Critical, Labels
<1>2. /\ tail' = IF head = Null THEN Null ELSE tail
      /\ UNCHANGED <<mutex, head, next, item, allocated, newnode, temp, result, chain>>
  BY DEF ResetTail, heap, locals
<1>3. TypeOK'
  BY <1>1, <1>2 DEF TypeOK
<1>4. ListOK'
  BY <1>2 DEF ListOK
<1>5. TailOK'
  <2>1. chain \in Seq(Nodes) /\ tail = IF chain = <<>> THEN temp[t] ELSE LastOf(chain)
    BY <1>1 DEF TailOK, TypeOK
  <2>2. head = Null <=> chain = <<>>
    <3>1. chain # <<>> => chain[1] \in Nodes
      BY <2>1
    <3> QED
      BY <3>1 DEF ListOK
  <2>3. tail' = LastOf(chain)
    BY <1>2, <2>1, <2>2 DEF LastOf
  <2>4. \A u \in Threads : pc'[u] \notin {"last", "tailtest"}
    BY <1>1
  <2> QED
    BY <1>2, <2>3, <2>4 DEF TailOK, LastOf
<1>6. HandOK'
  BY <1>1, <1>2 DEF HandOK
<1>7. NodesAccounted'
  <2>1. InHand = {temp[t]} /\ InHand' = {temp[t]}
    BY <1>1, <1>2, <1>3, Hands
  <2> QED
    BY <1>2, <2>1 DEF NodesAccounted, Linked
<1> QED
  BY <1>1, <1>3, <1>4, <1>5, <1>6, <1>7

LEMMA FreeStep ==
  ASSUME IInv, NEW t \in Threads, Free(t)
  PROVE  IInv'
<1> USE DEF IInv
<1>1. /\ pc[t] = "free" /\ pc'[t] = "unlock2" /\ pc' \in [Threads -> Labels]
      /\ \A u \in Threads \ {t} : pc'[u] = pc[u] /\ pc[u] \in {"idle", "between"}
      /\ Exclusive'
  BY Inside DEF Free, Critical, Labels
<1>2. /\ allocated' = allocated \ {temp[t]}
      /\ UNCHANGED <<mutex, head, tail, next, item, newnode, temp, result, chain>>
  BY DEF Free, locals
<1>3. TypeOK'
  BY <1>1, <1>2 DEF TypeOK
<1>4. ListOK'
  BY <1>2 DEF ListOK
<1>5. TailOK'
  <2>1. \A u \in Threads : pc[u] \notin {"last", "tailtest"} /\ pc'[u] \notin {"last", "tailtest"}
    BY <1>1
  <2> QED
    BY <1>2, <2>1 DEF TailOK, LastOf
<1>6. HandOK'
  BY <1>1, <1>2 DEF HandOK
<1>7. NodesAccounted'
  <2>1. InHand = {temp[t]} /\ InHand' = {}
    BY <1>1, <1>2, <1>3, Hands
  <2> QED
    BY <1>2, <2>1 DEF NodesAccounted, Linked
<1> QED
  BY <1>1, <1>3, <1>4, <1>5, <1>6, <1>7

LEMMA ListKept == IInv /\ [Next]_vars => IInv'
<1> SUFFICES ASSUME IInv, [Next]_vars PROVE IInv'
  OBVIOUS
<1>1. CASE UNCHANGED vars
  <2> USE <1>1 DEF vars, heap, locals, IInv
  <2>1. TypeOK' /\ Exclusive' /\ HandOK'
    BY DEF TypeOK, Exclusive, HandOK
  <2>2. ListOK' /\ TailOK'
    BY DEF ListOK, TailOK, LastOf
  <2>3. NodesAccounted'
    BY DEF NodesAccounted, Linked, InHand
  <2> QED
    BY <2>1, <2>2, <2>3
<1>2. ASSUME NEW t \in Threads, Lock(t) \/ Unlock(t)
      PROVE  IInv'
  BY <1>2, LockStep, UnlockStep
<1>3. ASSUME NEW t \in Threads, EnqueueBody(t)
      PROVE  IInv'
  BY <1>3, MallocStep, FillStep, LinkStep, SetTailStep DEF EnqueueBody
<1>4. ASSUME NEW t \in Threads, DequeueBody(t)
      PROVE  IInv'
  BY <1>4, TestHeadStep, AdvanceStep, ResetTailStep, FreeStep DEF DequeueBody
<1> QED
  BY <1>1, <1>2, <1>3, <1>4 DEF Next
-----------------------------------------------------------------------------
(* The heap and the history's chain agree in every reachable state of       *)
(* enqueue and dequeue (myqueue.c).                                         *)
THEOREM InductiveInvariant == Spec => []IInv
<1> QED
  BY OpenedEmpty, ListKept, PTL DEF Spec

(* Every variable of the list keeps its type. *)
THEOREM TypeCorrect == Spec => []TypeOK
<1>1. IInv => TypeOK
  BY DEF IInv
<1> QED
  BY <1>1, InductiveInvariant, PTL

(* enqueue and dequeue dereference allocated nodes only. *)
THEOREM NoFreedNodeUsed == Spec => []NoUseAfterFree
<1>1. IInv => NoUseAfterFree
  <2> SUFFICES ASSUME IInv, NEW t \in Threads
               PROVE  /\ pc[t] = "fill" => newnode[t] \in allocated
                      /\ pc[t] = "link" => tail \in allocated \cup {Null}
                      /\ pc[t] = "advance" => head \in allocated
    BY DEF NoUseAfterFree
  <2> USE DEF IInv
  <2>1. chain \in Seq(Nodes) /\ allocated = Linked \cup InHand
    BY DEF TypeOK, NodesAccounted
  <2>2. ASSUME chain # <<>>
        PROVE  chain[1] \in allocated /\ chain[Len(chain)] \in allocated
    <3>1. 1 \in DOMAIN chain /\ Len(chain) \in DOMAIN chain
      BY <2>1, <2>2
    <3> QED
      BY <2>1, <3>1 DEF Linked
  <2>3. pc[t] = "fill" => newnode[t] \in allocated
    BY <2>1 DEF InHand
  <2>4. pc[t] = "link" => tail \in allocated \cup {Null}
    <3> SUFFICES ASSUME pc[t] = "link" PROVE tail \in allocated \cup {Null}
      OBVIOUS
    <3>1. \A u \in Threads : pc[u] \notin {"last", "tailtest"}
      BY Alone DEF Critical, Labels
    <3> QED
      BY <2>2, <3>1 DEF TailOK, LastOf
  <2>5. pc[t] = "advance" => head \in allocated
    BY <2>2 DEF HandOK, ListOK
  <2> QED
    BY <2>3, <2>4, <2>5
<1> QED
  BY <1>1, InductiveInvariant, PTL

(* No node is lost and none is freed twice. *)
THEOREM NoNodeLost == Spec => []NodesAccounted
<1>1. IInv => NodesAccounted
  BY DEF IInv
<1> QED
  BY <1>1, InductiveInvariant, PTL
-----------------------------------------------------------------------------
(***************************************************************************)
(* The list implements FifoQueue: the write that links a node is the       *)
(* Enqueue, the write that moves head on, or the test that finds it NULL,  *)
(* is the Dequeue, and every other statement is a stutter.                 *)
(***************************************************************************)
LEMMA FifoStep ==
  ASSUME IInv, IInv', [Next]_vars
  PROVE  [Fifo!Next]_(Fifo!vars)
<1> DEFINE q == [k \in DOMAIN chain |-> item[chain[k]]]
<1> USE DEF IInv
<1>1. /\ chain \in Seq(Nodes) /\ DOMAIN chain = 1 .. Len(chain) /\ Len(chain) \in Nat
      /\ chain' \in Seq(Nodes) /\ DOMAIN chain' = 1 .. Len(chain') /\ Len(chain') \in Nat
  BY DEF TypeOK
<1>2. /\ q \in Seq(Threads) /\ Len(q) = Len(chain)
      /\ q' \in Seq(Threads) /\ Len(q') = Len(chain')
  <2>1. q \in [1 .. Len(chain) -> Threads] /\ q' \in [1 .. Len(chain') -> Threads]
    BY <1>1 DEF ListOK
  <2> QED
    BY <1>1, <2>1, SeqDef
<1>3. ASSUME UNCHANGED <<chain, result>>,
             \A k \in DOMAIN chain : item'[chain[k]] = item[chain[k]]
      PROVE  UNCHANGED Fifo!vars
  BY <1>3 DEF Fifo!vars
<1>4. ASSUME NEW t \in Threads, Link(t)
      PROVE  Fifo!Enqueue(t)
  <2>1. pc[t] = "link" /\ chain' = Append(chain, newnode[t]) /\ UNCHANGED <<item, result>>
    BY <1>4 DEF Link, Step, locals
  <2>2. newnode[t] \in Nodes /\ item[newnode[t]] = t
    BY <2>1 DEF HandOK
  <2>3. /\ Len(chain') = Len(chain) + 1 /\ chain'[Len(chain) + 1] = newnode[t]
        /\ \A k \in 1 .. Len(chain) : chain'[k] = chain[k]
    BY <1>1, <2>1, <2>2, ChainAppend
  <2>4. q'[Len(q) + 1] = t /\ \A k \in 1 .. Len(q) : q'[k] = q[k]
    BY <1>1, <1>2, <2>1, <2>2, <2>3
  <2> HIDE DEF q
  <2>5. /\ Append(q, t) \in Seq(Threads) /\ Len(Append(q, t)) = Len(q) + 1
        /\ Append(q, t)[Len(q) + 1] = t /\ \A k \in 1 .. Len(q) : Append(q, t)[k] = q[k]
    BY <1>2, ChainAppend
  <2>6. Len(q') = Len(Append(q, t)) /\ \A k \in 1 .. Len(q') : q'[k] = Append(q, t)[k]
    BY <1>1, <1>2, <2>3, <2>4, <2>5
  <2>7. q' = Append(q, t)
    BY <1>2, <2>5, <2>6, SeqEqual
  <2> QED
    BY <2>1, <2>7 DEF Fifo!Enqueue, q
<1>5. ASSUME NEW t \in Threads, Advance(t)
      PROVE  Fifo!Dequeue(t)
  <2>1. pc[t] = "advance" /\ chain' = Tail(chain) /\ UNCHANGED item
        /\ result' = [result EXCEPT ![t] = item[head]]
    BY <1>5 DEF Advance, Step, heap
  <2>2. chain # <<>> /\ head = chain[1]
    BY <2>1 DEF HandOK, ListOK
  <2>3. /\ Len(chain') = Len(chain) - 1 /\ Len(chain) \in Nat \ {0}
        /\ \A k \in 1 .. Len(chain) - 1 : chain'[k] = chain[k + 1]
    BY <1>1, <2>1, <2>2, ChainTail
  <2>4. q # <<>> /\ item[head] = q[1] /\ \A k \in 1 .. Len(q) - 1 : q'[k] = q[k + 1]
    BY <1>1, <1>2, <2>1, <2>2, <2>3
  <2> HIDE DEF q
  <2>5. /\ Tail(q) \in Seq(Threads) /\ Len(Tail(q)) = Len(q) - 1 /\ Head(q) = q[1]
        /\ \A k \in 1 .. Len(q) - 1 : Tail(q)[k] = q[k + 1]
    BY <1>2, <2>4, ChainTail
  <2>6. Len(q') = Len(Tail(q)) /\ \A k \in 1 .. Len(q') : q'[k] = Tail(q)[k]
    BY <1>1, <1>2, <2>3, <2>4, <2>5
  <2>7. q' = Tail(q)
    BY <1>2, <2>5, <2>6, SeqEqual
  <2> QED
    BY <2>1, <2>4, <2>5, <2>7 DEF Fifo!Dequeue, q
<1>6. ASSUME NEW t \in Threads, TestHead(t)
      PROVE  Fifo!Dequeue(t) \/ UNCHANGED Fifo!vars
  <2>1. UNCHANGED <<chain, item>>
    BY <1>6 DEF TestHead, heap
  <2>2. CASE head = Null
    <3>1. result' = [result EXCEPT ![t] = Null]
      BY <1>6, <2>2 DEF TestHead
    <3>2. chain = <<>>
      <4>1. chain # <<>> => chain[1] \in Nodes
        BY <1>1
      <4> QED
        BY <2>2, <4>1 DEF ListOK
    <3>3. q = <<>>
      BY <1>1, <1>2, <3>2
    <3> QED
      BY <2>1, <3>1, <3>3 DEF Fifo!Dequeue
  <2>3. CASE head # Null
    BY <1>3, <1>6, <2>1, <2>3 DEF TestHead
  <2> QED
    BY <2>2, <2>3
<1>7. ASSUME NEW t \in Threads, Fill(t)
      PROVE  UNCHANGED Fifo!vars
  <2>1. /\ pc[t] = "fill" /\ item' = [item EXCEPT ![newnode[t]] = t]
        /\ UNCHANGED <<chain, result>>
    BY <1>7 DEF Fill, Step, locals
  <2>2. newnode[t] \notin Linked
    BY <2>1 DEF NodesAccounted, InHand
  <2>3. \A k \in DOMAIN chain : item'[chain[k]] = item[chain[k]]
    BY <1>1, <2>1, <2>2 DEF Linked, TypeOK
  <2> QED
    BY <1>3, <2>1, <2>3
<1>8. ASSUME NEW t \in Threads,
             Lock(t) \/ Unlock(t) \/ Malloc(t) \/ SetTail(t) \/ ResetTail(t) \/ Free(t)
      PROVE  UNCHANGED Fifo!vars
  <2>1. UNCHANGED <<chain, result, item>>
    BY <1>8 DEF Lock, Unlock, Malloc, SetTail, ResetTail, Free, heap, locals
  <2> QED
    BY <1>3, <2>1
<1>9. CASE UNCHANGED vars
  BY <1>3, <1>9 DEF vars, heap, locals
<1> QED
  BY <1>4, <1>5, <1>6, <1>7, <1>8, <1>9 DEF Next, EnqueueBody, DequeueBody, Fifo!Next

(* The linked list of myqueue.c under its mutex is a FIFO queue. *)
THEOREM Refinement == Spec => ImplementsFifo
<1>1. Init => Fifo!Init
  BY DEF Init, Fifo!Init
<1>2. IInv /\ IInv' /\ [Next]_vars => [Fifo!Next]_(Fifo!vars)
  BY FifoStep
<1> QED
  BY <1>1, <1>2, InductiveInvariant, PTL DEF Spec, ImplementsFifo, Fifo!Spec
=============================================================================
