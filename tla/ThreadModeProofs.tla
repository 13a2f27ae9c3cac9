--------------------------- MODULE ThreadModeProofs ---------------------------
(***************************************************************************)
(* Proofs about ThreadMode for any number of threads, connections and      *)
(* descriptors.  TypeOK and LocalsOK are inductive together; the queue     *)
(* invariant needs them, and the isolation of uncrossed threads needs all  *)
(* three.                                                                  *)
(***************************************************************************)
EXTENDS ThreadMode, SequenceTheorems, FiniteSetTheorems, WellFoundedInduction, TLAPS

USE ThreadsAssumption, ConnsAssumption, KindsAssumption, FdsAssumption

(* The descriptor the kernel hands out exists while the table is not full: *)
(* accept() in thread_function.                                            *)
LEMMA LowestFreeIsFree ==
  ASSUME FreeFds # {}
  PROVE  LowestFree \in FreeFds
<1> DEFINE R == OpToRel(<, Nat)
<1>1. FreeFds \subseteq Nat
  BY DEF FreeFds, Fds
<1>2. IsWellFoundedOn(R, Nat)
  BY NatLessThanWellFounded
<1>3. \A f, g \in Nat : g < f => <<g, f>> \in R
  BY DEF OpToRel
<1> HIDE DEF R
<1>4. PICK f \in FreeFds : \A g \in FreeFds : ~ (<<g, f>> \in R)
  BY <1>1, <1>2, WFMin
<1>5. ASSUME NEW g \in FreeFds PROVE f <= g
  <2>1. f \in Nat /\ g \in Nat
    BY <1>1
  <2>2. ~ (g < f)
    BY <1>3, <1>4, <2>1
  <2> QED
    BY <2>1, <2>2
<1> QED
  BY <1>5 DEF LowestFree

(* Writing pclient keeps an HTTP_REQUEST an HTTP_REQUEST. *)
LEMMA ClientUpdate ==
  ASSUME slot \in [Threads -> Request], NEW t \in Threads,
         NEW f \in Fds \cup {NoFd, Null, Junk}
  PROVE  [slot EXCEPT ![t].client = f] \in [Threads -> Request]
<1>1. slot[t] \in Request /\ [slot[t] EXCEPT !.client = f] \in Request
  BY DEF Request
<1> QED
  BY <1>1

(* So does what process_logline and header_parse write. *)
LEMMA LineUpdate ==
  ASSUME slot \in [Threads -> Request], NEW t \in Threads,
         NEW m \in Method, NEW c \in Conns
  PROVE  [slot EXCEPT ![t] = [@ EXCEPT !.method = m, !.uri = c,
                                       !.parsing = TRUE]]
           \in [Threads -> Request]
<1>1. /\ slot[t] \in Request
      /\ [slot[t] EXCEPT !.method = m, !.uri = c, !.parsing = TRUE] \in Request
  BY DEF Request
<1> QED
  BY <1>1

LEMMA FlagUpdate ==
  ASSUME slot \in [Threads -> Request], NEW t \in Threads
  PROVE  [slot EXCEPT ![t].parsing = FALSE] \in [Threads -> Request]
<1>1. slot[t] \in Request /\ [slot[t] EXCEPT !.parsing = FALSE] \in Request
  BY DEF Request
<1> QED
  BY <1>1

(* process_logline ends the request or goes on to the next label. *)
LEMMA LoglineTyped ==
  ASSUME TypeOK, LocalsOK, NEW t \in Threads, NEW next \in {"option", "end"},
         pc[t] \in {"line", "option"}, ProcessLogline(t, next),
         UNCHANGED <<queue, table, net, alive, crossed>>
  PROVE  TypeOK' /\ LocalsOK'
<1> DEFINE k == kind[buf[t]]
           m == IF k = "refused" THEN "other" ELSE "GET"
<1>1. buf[t] \in Conns /\ req[t] \in Threads
  BY DEF LocalsOK, Read, Serving
<1>2. slot' \in [Threads -> Request]
  <2>1. m \in Method
    BY DEF Method
  <2> HIDE DEF m
  <2>2. [slot EXCEPT ![req[t]] = [@ EXCEPT !.method = m, !.uri = buf[t],
                                           !.parsing = TRUE]]
           \in [Threads -> Request]
    BY <1>1, <2>1, LineUpdate DEF TypeOK
  <2> QED
    BY <2>2 DEF ProcessLogline, TypeOK, m
<1>3. CASE k \in {"malformed", "badversion"}
  <2>1. Return(t)
    BY <1>3 DEF ProcessLogline
  <2> QED
    BY <1>2, <2>1 DEF Return, Goto, TypeOK, LocalsOK, net, Labels, Serving,
                      Read, Resolved
<1>4. CASE ~(k \in {"malformed", "badversion"})
  <2>1. Goto(t, next) /\ UNCHANGED locals
    BY <1>4 DEF ProcessLogline
  <2> QED
    BY <1>1, <1>2, <2>1 DEF Goto, TypeOK, LocalsOK, net, locals, Labels,
                            Serving, Read, Resolved
<1> QED
  BY <1>3, <1>4

LEMMA TypedInit ==
  Init => TypeOK /\ LocalsOK
<1> SUFFICES ASSUME Init PROVE TypeOK /\ LocalsOK
  OBVIOUS
<1>1. slot \in [Threads -> Request]
  BY DEF Init, Request, Method
<1>2. LocalsOK /\ pc \in [Threads -> Labels]
  BY DEF Init, LocalsOK, Labels, Serving, Read, Resolved
<1>3. /\ fd \in [Threads -> Fds \cup {NoFd}]
      /\ req \in [Threads -> Threads \cup {Null}]
      /\ sock \in [Threads -> Fds \cup {NoFd}]
      /\ buf \in [Threads -> Conns \cup {Null}]
      /\ page \in [Threads -> Conns \cup {Null, NotFound}]
  BY DEF Init
<1>4. /\ table \in [Fds -> Conns \cup {Null}]
      /\ replies \in [Conns -> Seq(Conns \cup {NotFound})]
      /\ queue \in Seq(Threads)
  BY DEF Init
<1> QED
  BY <1>1, <1>2, <1>3, <1>4 DEF Init, TypeOK

LEMMA TypedStep ==
  ASSUME TypeOK, LocalsOK, [Next]_vars
  PROVE  TypeOK' /\ LocalsOK'
<1> USE DEF Labels, Serving, Read, Resolved, At, Goto, net, locals
<1>1. ASSUME NEW t \in Threads, Accept(t)
      PROVE  TypeOK' /\ LocalsOK'
  <2>1. LowestFree \in Fds
    BY <1>1, LowestFreeIsFree DEF Accept, FreeFds
  <2> QED
    BY <1>1, <2>1 DEF Accept, TypeOK, LocalsOK
<1>2. ASSUME NEW t \in Threads, AcceptFails(t)
      PROVE  TypeOK' /\ LocalsOK'
  BY <1>2 DEF AcceptFails, TypeOK, LocalsOK
<1>3. ASSUME NEW t \in Threads, InitRequest(t)
      PROVE  TypeOK' /\ LocalsOK'
  <2>1. slot' \in [Threads -> Request]
    BY <1>3 DEF InitRequest, Request, Method, TypeOK
  <2> QED
    BY <1>3, <2>1 DEF InitRequest, TypeOK, LocalsOK
<1>4. ASSUME NEW t \in Threads, AllocClient(t)
      PROVE  TypeOK' /\ LocalsOK'
  <2>1. slot' \in [Threads -> Request]
    BY <1>4, ClientUpdate DEF AllocClient, TypeOK
  <2> QED
    BY <1>4, <2>1 DEF AllocClient, TypeOK, LocalsOK
<1>5. ASSUME NEW t \in Threads, StoreClient(t)
      PROVE  TypeOK' /\ LocalsOK'
  <2>1. slot' \in [Threads -> Request]
    BY <1>5, ClientUpdate DEF StoreClient, TypeOK
  <2> QED
    BY <1>5, <2>1 DEF StoreClient, TypeOK, LocalsOK
<1>6. ASSUME NEW t \in Threads, Enqueue(t)
      PROVE  TypeOK' /\ LocalsOK'
  BY <1>6 DEF Enqueue, TypeOK, LocalsOK
<1>7. ASSUME NEW t \in Threads, Dequeue(t)
      PROVE  TypeOK' /\ LocalsOK'
  <2>1. CASE queue = << >>
    <3>1. Return(t) /\ UNCHANGED <<slot, queue, table, net, alive, crossed>>
      BY <1>7, <2>1 DEF Dequeue
    <3>2. TypeOK'
      BY <3>1 DEF Return, TypeOK
    <3>3. LocalsOK'
      BY <3>1 DEF Return, TypeOK, LocalsOK
    <3> QED
      BY <3>2, <3>3
  <2>2. CASE queue # << >>
    <3>1. queue \in Seq(Threads)
      BY DEF TypeOK
    <3>2. Head(queue) \in Threads /\ Tail(queue) \in Seq(Threads)
      BY <2>2, <3>1, HeadTailProperties
    <3>3. crossed' \in BOOLEAN
      BY <1>7, <2>2 DEF Dequeue
    <3>4. /\ queue' = Tail(queue)
          /\ req' = [req EXCEPT ![t] = Head(queue)]
          /\ Goto(t, "load")
          /\ UNCHANGED <<fd, sock, buf, page, slot, table, net, alive>>
      BY <1>7, <2>2 DEF Dequeue
    <3> QED
      BY <1>7, <3>2, <3>3, <3>4 DEF TypeOK, LocalsOK
  <2> QED
    BY <2>1, <2>2
<1>8. ASSUME NEW t \in Threads, LoadClient(t)
      PROVE  TypeOK' /\ LocalsOK'
  <2>1. PICK f : \/ f = Null /\ Die
                 \/ f = NoFd /\ Return(t) /\ UNCHANGED alive
                 \/ /\ f \in Fds
                    /\ sock' = [sock EXCEPT ![t] = f]
                    /\ Goto(t, "read")
                    /\ UNCHANGED <<fd, req, buf, page, alive>>
    BY <1>8 DEF LoadClient
  <2>2. pc[t] = "load" /\ UNCHANGED <<slot, queue, table, net, crossed>>
    BY <1>8 DEF LoadClient
  <2>3. CASE f = Null /\ Die
    BY <2>2, <2>3 DEF Die, TypeOK, LocalsOK
  <2>4. CASE f = NoFd /\ Return(t) /\ UNCHANGED alive
    BY <2>2, <2>4 DEF Return, TypeOK, LocalsOK
  <2>5. CASE /\ f \in Fds
             /\ sock' = [sock EXCEPT ![t] = f]
             /\ Goto(t, "read")
             /\ UNCHANGED <<fd, req, buf, page, alive>>
    BY <2>2, <2>5 DEF TypeOK, LocalsOK
  <2> QED
    BY <2>1, <2>3, <2>4, <2>5
<1>9. ASSUME NEW t \in Threads, ReadRequest(t)
      PROVE  TypeOK' /\ LocalsOK'
  BY <1>9 DEF ReadRequest, TypeOK, LocalsOK
<1>10. ASSUME NEW t \in Threads, ReadFails(t)
      PROVE  TypeOK' /\ LocalsOK'
  BY <1>10 DEF ReadFails, Return, TypeOK, LocalsOK
<1>11. ASSUME NEW t \in Threads, HangUp(t)
      PROVE  TypeOK' /\ LocalsOK'
  BY <1>11 DEF HangUp, Return, TypeOK, LocalsOK
<1>12. ASSUME NEW t \in Threads, ParseRequestLine(t)
      PROVE  TypeOK' /\ LocalsOK'
  <2>1. pc[t] = "line" /\ UNCHANGED <<queue, table, net, crossed>>
    BY <1>12 DEF ParseRequestLine
  <2>2. CASE Die /\ UNCHANGED slot
    BY <2>1, <2>2 DEF Die, TypeOK, LocalsOK
  <2>3. CASE Goto(t, "option") /\ UNCHANGED <<locals, alive, slot>>
    BY <2>1, <2>3 DEF TypeOK, LocalsOK
  <2>4. CASE ProcessLogline(t, "option") /\ UNCHANGED alive
    BY <2>1, <2>4, LoglineTyped
  <2> QED
    BY <1>12, <2>2, <2>3, <2>4 DEF ParseRequestLine
<1>13. ASSUME NEW t \in Threads, ParseOptionLine(t)
      PROVE  TypeOK' /\ LocalsOK'
  <2>1. pc[t] = "option" /\ UNCHANGED <<queue, table, net, alive, crossed>>
    BY <1>13 DEF ParseOptionLine
  <2>2. CASE Goto(t, "end") /\ UNCHANGED <<slot, locals>>
    BY <2>1, <2>2 DEF TypeOK, LocalsOK
  <2>3. CASE ProcessLogline(t, "end")
    BY <2>1, <2>3, LoglineTyped
  <2> QED
    BY <1>13, <2>2, <2>3 DEF ParseOptionLine
<1>14. ASSUME NEW t \in Threads, BytesRunOut(t)
      PROVE  TypeOK' /\ LocalsOK'
  BY <1>14 DEF BytesRunOut, Return, TypeOK, LocalsOK
<1>15. ASSUME NEW t \in Threads, EndHeaders(t)
      PROVE  TypeOK' /\ LocalsOK'
  <2>1. slot' \in [Threads -> Request]
    BY <1>15, FlagUpdate DEF EndHeaders, TypeOK, LocalsOK
  <2>2. CASE slot[req[t]].method = "GET"
    <3>1. /\ pc[t] = "end" /\ Goto(t, "resolve")
          /\ UNCHANGED <<locals, queue, table, net, alive, crossed>>
      BY <1>15, <2>2 DEF EndHeaders
    <3>2. TypeOK'
      BY <2>1, <3>1 DEF TypeOK
    <3>3. LocalsOK'
      BY <3>1 DEF TypeOK, LocalsOK
    <3> QED
      BY <3>2, <3>3
  <2>3. CASE slot[req[t]].method # "GET"
    <3>1. Return(t) /\ UNCHANGED <<queue, table, net, alive, crossed>>
      BY <1>15, <2>3 DEF EndHeaders
    <3> QED
      BY <2>1, <3>1 DEF Return, TypeOK, LocalsOK
  <2> QED
    BY <2>2, <2>3
<1>16. ASSUME NEW t \in Threads, ResolveFile(t)
      PROVE  TypeOK' /\ LocalsOK'
  <2>1. pc[t] = "resolve" /\ UNCHANGED <<slot, queue, table, net, alive, crossed>>
    BY <1>16 DEF ResolveFile
  <2>2. slot[req[t]].uri \in Conns \cup {Junk}
    BY <2>1 DEF Request, TypeOK, LocalsOK
  <2>3. CASE Return(t)
    BY <2>1, <2>3 DEF Return, TypeOK, LocalsOK
  <2>4. ASSUME NEW p \in Conns \cup {NotFound},
               page' = [page EXCEPT ![t] = p], Goto(t, "target"),
               UNCHANGED <<fd, req, sock, buf>>
        PROVE  TypeOK' /\ LocalsOK'
    BY <2>1, <2>4 DEF TypeOK, LocalsOK
  <2> QED
    BY <1>16, <2>2, <2>3, <2>4 DEF ResolveFile
<1>17. ASSUME NEW t \in Threads, LoadTarget(t)
      PROVE  TypeOK' /\ LocalsOK'
  <2>1. pc[t] = "target" /\ UNCHANGED <<slot, queue, table, net, crossed>>
    BY <1>17 DEF LoadTarget
  <2>2. slot[req[t]].client \in Fds \cup {NoFd, Null, Junk}
    BY <2>1 DEF Request, TypeOK, LocalsOK
  <2>3. ClientIn(req[t]) \subseteq Fds \cup {NoFd, Null}
    BY <2>2 DEF ClientIn
  <2>4. CASE Die
    BY <2>1, <2>4 DEF Die, TypeOK, LocalsOK
  <2>5. ASSUME NEW f \in Fds \cup {NoFd},
               sock' = [sock EXCEPT ![t] = f], Goto(t, "write"),
               UNCHANGED <<fd, req, buf, page, alive>>
        PROVE  TypeOK' /\ LocalsOK'
    BY <2>1, <2>5 DEF TypeOK, LocalsOK
  <2> QED
    BY <1>17, <2>3, <2>4, <2>5 DEF LoadTarget
<1>18. ASSUME NEW t \in Threads, WriteResponse(t)
      PROVE  TypeOK' /\ LocalsOK'
  <2>1. replies' \in [Conns -> Seq(Conns \cup {NotFound})]
    <3>1. page[t] \in Conns \cup {NotFound}
      BY <1>18 DEF WriteResponse, LocalsOK
    <3> QED
      BY <1>18, <3>1 DEF WriteResponse, Peer, TypeOK
  <2>2. /\ pc[t] = "write"
        /\ UNCHANGED <<slot, queue, table, pending, kind, unread, alive, crossed>>
    BY <1>18 DEF WriteResponse
  <2>3. CASE Goto(t, "close") /\ UNCHANGED locals
    BY <2>1, <2>2, <2>3 DEF TypeOK, LocalsOK
  <2>4. CASE Return(t)
    BY <2>1, <2>2, <2>4 DEF Return, TypeOK, LocalsOK
  <2> QED
    BY <1>18, <2>3, <2>4 DEF WriteResponse, AfterWrite
<1>19. ASSUME NEW t \in Threads, WriteBreaks(t)
      PROVE  TypeOK' /\ LocalsOK'
  BY <1>19 DEF WriteBreaks, Die, TypeOK, LocalsOK
<1>20. ASSUME NEW t \in Threads, CloseSocket(t)
      PROVE  TypeOK' /\ LocalsOK'
  BY <1>20 DEF CloseSocket, Return, TypeOK, LocalsOK
<1>21. CASE UNCHANGED vars
  BY <1>21 DEF vars, TypeOK, LocalsOK
<1> QED
  BY <1>1, <1>2, <1>3, <1>4, <1>5, <1>6, <1>7, <1>8, <1>9, <1>10, <1>11,
     <1>12, <1>13, <1>14, <1>15, <1>16, <1>17, <1>18, <1>19, <1>20, <1>21
     DEF Next, Step

(* TypeOK: every variable of thread_function and of what it shares keeps its *)
(* type, whatever the threads do to each other's structures.                *)
THEOREM TypeCorrect == Spec => []TypeOK
<1>1. Spec => [](TypeOK /\ LocalsOK)
  BY TypedInit, TypedStep, PTL DEF Spec
<1> QED
  BY <1>1, PTL

(* Waiters is finite, so its cardinality counts.                           *)
LEMMA WaitersFinite == IsFiniteSet(Waiters) /\ Cardinality(Waiters) \in Nat
BY FS_Subset, FS_CardinalityType DEF Waiters

LEMMA QueueInit == Init => QueueMatchesWaiters
<1> SUFFICES ASSUME Init PROVE QueueMatchesWaiters
  OBVIOUS
<1>1. Waiters = {} /\ Len(queue) = 0
  BY DEF Init, Waiters
<1> QED
  BY <1>1, FS_EmptySet DEF QueueMatchesWaiters

LEMMA QueueStep ==
  ASSUME TypeOK, QueueMatchesWaiters, [Next]_vars
  PROVE  QueueMatchesWaiters'
<1> USE DEF QueueMatchesWaiters
<1>1. ASSUME NEW t \in Threads, Enqueue(t)
      PROVE  QueueMatchesWaiters'
  <2>1. t \notin Waiters /\ Waiters' = Waiters \cup {t}
    BY <1>1 DEF Enqueue, At, Goto, Waiters, TypeOK
  <2>2. Len(queue') = Len(queue) + 1
    BY <1>1 DEF Enqueue, TypeOK
  <2> QED
    BY <2>1, <2>2, WaitersFinite, FS_AddElement
<1>2. ASSUME NEW t \in Threads, Dequeue(t)
      PROVE  QueueMatchesWaiters'
  <2>1. t \in Waiters
    BY <1>2 DEF Dequeue, At, Waiters
  <2>2. Cardinality(Waiters \ {t}) = Cardinality(Waiters) - 1
    BY <2>1, WaitersFinite, FS_RemoveElement
  <2>3. Cardinality(Waiters) # 0
    BY <2>1, WaitersFinite, FS_EmptySet
  <2>4. queue \in Seq(Threads) /\ queue # << >>
    BY <2>3 DEF TypeOK
  <2>5. Len(queue') = Len(queue) - 1
    BY <1>2, <2>4, HeadTailProperties DEF Dequeue
  <2>6. Waiters' = Waiters \ {t}
    BY <1>2, <2>4 DEF Dequeue, Goto, Waiters, TypeOK
  <2> QED
    BY <2>2, <2>5, <2>6
<1>3. ASSUME NEW t \in Threads, Step(t) \/ HangUp(t), ~Enqueue(t), ~Dequeue(t)
      PROVE  UNCHANGED <<Waiters, queue>>
  <2>1. /\ queue' = queue
        /\ pc[t] # "dequeue"
    BY <1>3 DEF Step, Accept, AcceptFails, InitRequest, AllocClient,
       StoreClient, LoadClient, ReadRequest, ReadFails, HangUp,
       ParseRequestLine, ParseOptionLine, BytesRunOut, EndHeaders,
       ResolveFile, LoadTarget, WriteResponse, WriteBreaks, CloseSocket, At
  <2>2. pc' = pc \/ \E l \in Labels \ {"dequeue"} : Goto(t, l)
    BY <1>3 DEF Step, Accept, AcceptFails, InitRequest, AllocClient,
       StoreClient, LoadClient, ReadRequest, ReadFails, HangUp,
       ParseRequestLine, ParseOptionLine, BytesRunOut, EndHeaders,
       ResolveFile, LoadTarget, WriteResponse, WriteBreaks, CloseSocket, At,
       ProcessLogline, AfterWrite, Return, Die, Labels, locals
  <2> QED
    BY <2>1, <2>2 DEF Goto, Waiters, TypeOK
<1>4. CASE UNCHANGED vars
  BY <1>4 DEF vars, Waiters
<1> QED
  BY <1>1, <1>2, <1>3, <1>4 DEF Next, Step

(* dequeue() never finds the queue empty (server.c:519-523): as many pointers *)
(* are queued as there are threads about to take one.                        *)
THEOREM QueueNeverShort == Spec => []QueueMatchesWaiters
<1>1. Spec => [](TypeOK /\ LocalsOK /\ QueueMatchesWaiters)
  BY TypedInit, TypedStep, QueueInit, QueueStep, PTL DEF Spec
<1> QED
  BY <1>1, PTL

(***************************************************************************)
(* Isolation.  A step of thread t leaves the other threads' locals alone,  *)
(* and their structures too as long as no structure has crossed.           *)
(***************************************************************************)
Others(t) ==
  \A u \in Threads \ {t} :
    /\ pc'[u] = pc[u] /\ slot'[u] = slot[u] /\ fd'[u] = fd[u]
    /\ req'[u] = req[u] /\ sock'[u] = sock[u] /\ buf'[u] = buf[u]
    /\ page'[u] = page[u]

(* What the other threads know of their structures survives a step that     *)
(* leaves their connections in place.                                       *)
LEMMA OthersStructure ==
  ASSUME NEW t \in Threads, NEW u \in Threads \ {t}, Others(t), kind' = kind,
         OwnStructure(u),
         pc[u] \in Read => table'[fd[u]] = table[fd[u]]
  PROVE  OwnStructure(u)'
BY DEF Others, OwnStructure, Serving, Read, Resolved

LEMMA OthersConnection ==
  ASSUME NEW t \in Threads, NEW u \in Threads \ {t}, Others(t),
         OwnConnection(u),
         Holds(u) => /\ table'[fd[u]] = table[fd[u]]
                     /\ replies'[table[fd[u]]] = replies[table[fd[u]]]
                     /\ table[fd[u]] \in unread => table[fd[u]] \in unread'
  PROVE  OwnConnection(u)'
BY DEF Others, OwnConnection, Holds, Read, Serving

(* A step inside the service of one connection. *)
LEMMA InnerStep ==
  ASSUME TypeOK, Isolation, NEW t \in Threads, Others(t),
         UNCHANGED <<fd, table, pending, kind, unread, replies>>,
         pc[t] \notin {"accept", "close"}, pc'[t] \notin {"accept", "close"},
         pc[t] \in Read => pc'[t] \in Read,
         OwnStructure(t)'
  PROVE  Isolation'
<1>1. \A u \in Threads : OwnStructure(u)'
  BY OthersStructure DEF Isolation
<1>2. \A u \in Threads : OwnConnection(u)'
  <2>1. OwnConnection(t)'
    BY DEF Isolation, OwnConnection, Holds, TypeOK
  <2> QED
    BY <2>1, OthersConnection DEF Isolation
<1>3. \A u \in Threads : Holds(u)' <=> Holds(u)
  BY DEF Others, Holds
<1>4. Separate'
  BY <1>3 DEF Isolation, Separate, Leaks
<1> QED
  BY <1>1, <1>2, <1>4 DEF Isolation

(* Returning from process_requests without a close(): the connection leaks. *)
LEMMA LeaveStep ==
  ASSUME TypeOK, Isolation, NEW t \in Threads, Others(t), Return(t),
         UNCHANGED <<table, pending, kind, unread, replies>>,
         pc[t] # "close",
         Holds(t) => Leaks(table[fd[t]])
  PROVE  Isolation'
<1>0. pc'[t] = "accept" /\ ~Holds(t)'
  BY DEF Return, Goto, TypeOK, Holds
<1>1. \A u \in Threads : OwnStructure(u)'
  <2>1. OwnStructure(t)'
    BY <1>0 DEF OwnStructure, Serving, Read, Resolved
  <2> QED
    BY <2>1, OthersStructure DEF Isolation
<1>2. \A u \in Threads : OwnConnection(u)'
  <2>1. OwnConnection(t)'
    BY <1>0 DEF OwnConnection
  <2> QED
    BY <2>1, OthersConnection DEF Isolation
<1>3. \A u \in Threads \ {t} : (Holds(u)' <=> Holds(u)) /\ fd'[u] = fd[u]
  BY DEF Others, Holds
<1>4. Separate'
  <2>1. \A u, v \in Threads : Holds(u)' /\ Holds(v)' /\ fd'[u] = fd'[v] => u = v
    BY <1>0, <1>3 DEF Isolation, Separate
  <2>2. \A f \in Fds : table[f] # Null =>
          \/ Leaks(table[f])'
          \/ \E u \in Threads : Holds(u)' /\ fd'[u] = f
    BY <1>3 DEF Isolation, Separate, Leaks
  <2> QED
    BY <2>1, <2>2 DEF Isolation, Separate
<1> QED
  BY <1>1, <1>2, <1>4 DEF Isolation

(* A step that touches nothing Isolation speaks of: the process ends. *)
LEMMA IdleStep ==
  ASSUME Isolation, UNCHANGED <<pc, slot, locals, table, net>>
  PROVE  Isolation'
BY DEF Isolation, OwnStructure, OwnConnection, Separate, Holds, Leaks, locals,
       net

(* process_logline in the thread's own structure. *)
LEMMA LoglineStep ==
  ASSUME TypeOK, Isolation, NEW t \in Threads,
         pc[t] \in {"line", "option"}, NEW next \in {"option", "end"},
         ProcessLogline(t, next), UNCHANGED <<table, net>>
  PROVE  Isolation'
<1> DEFINE k == kind[buf[t]]
           m == IF k = "refused" THEN "other" ELSE "GET"
<1>1. /\ req[t] = t /\ Holds(t) /\ buf[t] = table[fd[t]]
      /\ slot[t] \in Request
  BY DEF Isolation, OwnStructure, Serving, Read, Holds, TypeOK
<1>2. CASE k \in {"malformed", "badversion"}
  <2>1. Return(t)
    BY <1>2 DEF ProcessLogline
  <2>2. Others(t)
    BY <1>1, <2>1 DEF Return, Goto, ProcessLogline, Others, TypeOK
  <2>3. Leaks(table[fd[t]])
    BY <1>1, <1>2 DEF Leaks
  <2> QED
    BY <2>1, <2>2, <2>3, LeaveStep DEF net
<1>3. CASE ~(k \in {"malformed", "badversion"})
  <2>1. Goto(t, next) /\ UNCHANGED locals
    BY <1>3 DEF ProcessLogline
  <2>2. slot' = [slot EXCEPT ![t] = [@ EXCEPT !.method = m, !.uri = buf[t],
                                              !.parsing = TRUE]]
    BY <1>1, <1>3 DEF ProcessLogline
  <2>3. Others(t)
    BY <2>1, <2>2 DEF Goto, Others, TypeOK, locals
  <2>4. /\ slot'[t].client = slot[t].client /\ slot'[t].method = m
        /\ slot'[t].uri = buf[t] /\ slot'[t].parsing
    BY <1>1, <2>2 DEF TypeOK, Request
  <2>5. pc'[t] = next
    BY <2>1 DEF Goto, TypeOK
  <2>6. OwnStructure(t)'
    BY <1>1, <2>1, <2>4, <2>5
       DEF Isolation, OwnStructure, Serving, Read, Resolved, locals, net
  <2> QED
    BY <1>1, <2>1, <2>3, <2>5, <2>6, InnerStep
       DEF locals, net, Read, Serving
<1> QED
  BY <1>2, <1>3

(* The helpers a step uses are the same in every step's proof. *)
LEMMA IsolationStep ==
  ASSUME TypeOK, LocalsOK, QueueMatchesWaiters, Isolation, TypeOK',
         [Next]_vars, ~crossed'
  PROVE  Isolation'
<1> USE DEF At, Goto, locals, net
<1>0. /\ \A u \in Threads : OwnStructure(u)
      /\ \A u \in Threads : OwnConnection(u)
      /\ Separate
      /\ \A c \in Conns : replies[c] \in {<< >>, <<c>>}
  BY DEF Isolation
<1>1. ASSUME NEW t \in Threads, Accept(t)
      PROVE  Isolation'
  <2>1. PICK c \in pending :
          /\ pending' = pending \ {c}
          /\ table' = [table EXCEPT ![LowestFree] = c]
          /\ fd' = [fd EXCEPT ![t] = LowestFree]
    BY <1>1 DEF Accept
  <2>2. PICK f \in Fds : f = LowestFree /\ table[f] = Null
    BY <1>1, LowestFreeIsFree DEF Accept, FreeFds
  <2>3. /\ c \in Conns /\ c # Null /\ c \in unread /\ replies[c] = << >>
        /\ \A g \in Fds : table[g] # c
    BY <1>0, <2>1 DEF Separate, TypeOK
  <2>4. /\ pc[t] = "accept" /\ pc'[t] = "init"
        /\ fd'[t] = f /\ table'[f] = c
        /\ \A g \in Fds \ {f} : table'[g] = table[g]
        /\ Others(t)
        /\ UNCHANGED <<slot, kind, unread, replies>>
    BY <1>1, <2>1, <2>2 DEF Accept, TypeOK, Others
  <2>5. \A u \in Threads : Holds(u) => fd[u] # f
    BY <1>0, <2>2 DEF OwnConnection, Holds
  <2>6. \A u \in Threads \ {t} : Holds(u)' <=> Holds(u)
    BY <2>4 DEF Others, Holds
  <2>7. Holds(t)' /\ ~Holds(t)
    BY <2>2, <2>4 DEF Holds
  <2>8. \A u \in Threads : OwnStructure(u)'
    <3>1. OwnStructure(t)'
      BY <2>4 DEF OwnStructure, Serving, Read, Resolved, Labels
    <3>2. ASSUME NEW u \in Threads \ {t}, pc[u] \in Read
          PROVE  table'[fd[u]] = table[fd[u]]
      <4>1. Holds(u)
        BY <1>0, <3>2 DEF OwnStructure, Read, Serving, Holds
      <4> QED
        BY <2>4, <2>5, <4>1 DEF Holds
    <3> QED
      BY <1>0, <2>4, <3>1, <3>2, OthersStructure
  <2>9. \A u \in Threads : OwnConnection(u)'
    <3>1. OwnConnection(t)'
      BY <2>3, <2>4 DEF OwnConnection, Read, Serving
    <3>2. \A u \in Threads \ {t} : Holds(u) => table'[fd[u]] = table[fd[u]]
      BY <2>4, <2>5 DEF Holds
    <3> QED
      BY <1>0, <2>4, <3>1, <3>2, OthersConnection
  <2>10. Separate'
    <3>1. \A u, v \in Threads : Holds(u)' /\ Holds(v)' /\ fd'[u] = fd'[v] => u = v
      BY <1>0, <2>4, <2>5, <2>6 DEF Separate, Others
    <3>2. \A g, h \in Fds : table'[g] # Null /\ table'[g] = table'[h] => g = h
      BY <1>0, <2>3, <2>4 DEF Separate
    <3>3. \A g \in Fds : table'[g] # Null =>
            /\ table'[g] \notin pending'
            /\ Leaks(table[g])' \/ \E u \in Threads : Holds(u)' /\ fd'[u] = g
      <4>1. \E u \in Threads : Holds(u)' /\ fd'[u] = f
        BY <2>4, <2>7
      <4>2. \A g \in Fds \ {f} : table[g] # Null =>
              Leaks(table[g]) \/ \E u \in Threads \ {t} : Holds(u)' /\ fd'[u] = g
        BY <1>0, <2>4, <2>6, <2>7 DEF Separate, Others
      <4>3. \A g \in Fds \ {f} : Leaks(table[g])' <=> Leaks(table[g])
        BY <2>4 DEF Leaks
      <4>4. \A g \in Fds : table'[g] # Null => table'[g] \notin pending'
        BY <1>0, <2>1, <2>4 DEF Separate
      <4> QED
        BY <2>4, <4>1, <4>2, <4>3, <4>4
    <3>4. \A d \in pending' : d \in unread' /\ replies'[d] = << >>
      BY <1>0, <2>1, <2>4 DEF Separate
    <3> QED
      BY <3>1, <3>2, <3>3, <3>4 DEF Separate
  <2> QED
    BY <1>0, <2>4, <2>8, <2>9, <2>10 DEF Isolation
<1>2. ASSUME NEW t \in Threads, AcceptFails(t)
      PROVE  Isolation'
  <2>1. /\ pc[t] = "accept" /\ pc'[t] = "init" /\ fd'[t] = NoFd
        /\ Others(t)
        /\ UNCHANGED <<slot, table, pending, kind, unread, replies>>
    BY <1>2 DEF AcceptFails, TypeOK, Others
  <2>2. ~Holds(t) /\ ~Holds(t)'
    BY <2>1 DEF Holds, NoFd, Fds
  <2>3. \A u \in Threads : OwnStructure(u)'
    <3>1. OwnStructure(t)'
      BY <2>1 DEF OwnStructure, Serving, Read, Resolved, Labels
    <3> QED
      BY <1>0, <2>1, <3>1, OthersStructure
  <2>4. \A u \in Threads : OwnConnection(u)'
    <3>1. OwnConnection(t)'
      BY <2>2 DEF OwnConnection
    <3> QED
      BY <1>0, <2>1, <3>1, OthersConnection
  <2>5. \A u \in Threads : Holds(u)' <=> Holds(u)
    BY <2>1, <2>2 DEF Others, Holds
  <2>6. \A u \in Threads : Holds(u) => fd'[u] = fd[u]
    BY <2>1, <2>2 DEF Others
  <2>7. Separate'
    BY <1>0, <2>1, <2>5, <2>6 DEF Separate, Leaks
  <2> QED
    BY <1>0, <2>1, <2>3, <2>4, <2>7 DEF Isolation
<1>3. ASSUME NEW t \in Threads, InitRequest(t)
      PROVE  Isolation'
  <2>1. /\ pc[t] = "init" /\ pc'[t] = "alloc" /\ ~slot'[t].parsing
        /\ Others(t) /\ UNCHANGED <<locals, table, net>>
    BY <1>3 DEF InitRequest, TypeOK, Others
  <2>2. OwnStructure(t)'
    BY <2>1 DEF OwnStructure, Serving, Read, Resolved, Labels
  <2> QED
    BY <2>1, <2>2, InnerStep DEF Read, Serving
<1>4. ASSUME NEW t \in Threads, AllocClient(t)
      PROVE  Isolation'
  <2>1. /\ pc[t] = "alloc" /\ pc'[t] = "store"
        /\ slot'[t].parsing = slot[t].parsing
        /\ Others(t) /\ UNCHANGED <<locals, table, net>>
    BY <1>4 DEF AllocClient, TypeOK, Request, Others
  <2>2. OwnStructure(t)'
    BY <1>0, <2>1 DEF OwnStructure, Serving, Read, Resolved, Labels
  <2> QED
    BY <2>1, <2>2, InnerStep DEF Read, Serving
<1>5. ASSUME NEW t \in Threads, StoreClient(t)
      PROVE  Isolation'
  <2>1. /\ pc[t] = "store" /\ pc'[t] = "enqueue"
        /\ slot'[t].parsing = slot[t].parsing /\ slot'[t].client = fd[t]
        /\ Others(t) /\ UNCHANGED <<locals, table, net>>
    BY <1>5 DEF StoreClient, TypeOK, Request, Others
  <2>2. OwnStructure(t)'
    BY <1>0, <2>1 DEF OwnStructure, Serving, Read, Resolved, Labels
  <2> QED
    BY <2>1, <2>2, InnerStep DEF Read, Serving
<1>6. ASSUME NEW t \in Threads, Enqueue(t)
      PROVE  Isolation'
  <2>1. /\ pc[t] = "enqueue" /\ pc'[t] = "dequeue"
        /\ Others(t) /\ UNCHANGED <<slot, locals, table, net>>
    BY <1>6 DEF Enqueue, TypeOK, Others
  <2>2. OwnStructure(t)'
    BY <1>0, <2>1 DEF OwnStructure, Serving, Read, Resolved, Labels
  <2> QED
    BY <2>1, <2>2, InnerStep DEF Read, Serving
<1>7. ASSUME NEW t \in Threads, Dequeue(t)
      PROVE  Isolation'
  <2>1. queue # << >>
    <3>1. t \in Waiters
      BY <1>7 DEF Dequeue, Waiters
    <3>2. Cardinality(Waiters) # 0
      BY <3>1, WaitersFinite, FS_EmptySet
    <3> QED
      BY <3>2 DEF QueueMatchesWaiters
  <2>2. /\ Head(queue) = t /\ req' = [req EXCEPT ![t] = Head(queue)]
        /\ pc[t] = "dequeue" /\ Goto(t, "load")
        /\ UNCHANGED <<fd, sock, buf, page, slot, table, net>>
    BY <1>7, <2>1 DEF Dequeue
  <2>3. Others(t) /\ req'[t] = t /\ pc'[t] = "load"
    BY <2>2 DEF TypeOK, Others
  <2>4. OwnStructure(t)'
    BY <1>0, <2>2, <2>3 DEF OwnStructure, Serving, Read, Resolved, Labels
  <2> QED
    BY <2>2, <2>3, <2>4, InnerStep DEF Read, Serving
<1>8. ASSUME NEW t \in Threads, LoadClient(t)
      PROVE  Isolation'
  <2>1. /\ pc[t] = "load" /\ req[t] = t /\ slot[t].client = fd[t]
        /\ fd[t] \in Fds \cup {NoFd} /\ ~slot[t].parsing
    BY <1>0, <1>8 DEF LoadClient, OwnStructure, Serving, Read, Resolved,
                      Labels, TypeOK
  <2>2. ClientIn(req[t]) = {fd[t]} /\ fd[t] # Null
    BY <2>1 DEF ClientIn, Fds, NoFd
  <2>3. CASE fd[t] = NoFd /\ Return(t)
    <3>1. Others(t) /\ ~Holds(t) /\ UNCHANGED <<table, net>>
      BY <1>8, <2>3 DEF LoadClient, Return, Others, TypeOK, Holds, NoFd, Fds
    <3> QED
      BY <2>1, <2>3, <3>1, LeaveStep
  <2>4. CASE /\ fd[t] \in Fds
             /\ sock' = [sock EXCEPT ![t] = fd[t]]
             /\ Goto(t, "read")
             /\ UNCHANGED <<fd, req, buf, page>>
    <3>1. /\ Others(t) /\ sock'[t] = fd[t] /\ pc'[t] = "read"
          /\ UNCHANGED <<slot, table, net>>
      BY <1>8, <2>4 DEF LoadClient, Others, TypeOK
    <3>2. OwnStructure(t)'
      BY <2>1, <2>4, <3>1 DEF OwnStructure, Serving, Read, Resolved, Labels
    <3> QED
      BY <2>1, <2>4, <3>1, <3>2, InnerStep DEF Read, Serving
  <2> QED
    BY <1>8, <2>2, <2>3, <2>4 DEF LoadClient
<1>9. ASSUME NEW t \in Threads, ReadRequest(t)
      PROVE  Isolation'
  <2> DEFINE c == table[fd[t]]
  <2>1. /\ pc[t] = "read" /\ req[t] = t /\ sock[t] = fd[t] /\ fd[t] \in Fds
        /\ slot[t].client = fd[t] /\ ~slot[t].parsing
    BY <1>0, <1>9 DEF ReadRequest, OwnStructure, Serving, Read, Resolved, Labels
  <2>2. Holds(t) /\ c \in Conns /\ c \in unread /\ replies[c] = << >>
    BY <1>0, <2>1 DEF OwnConnection, Holds, Read, Serving
  <2>3. /\ Others(t) /\ pc'[t] = "line" /\ buf'[t] = c /\ unread' = unread \ {c}
        /\ UNCHANGED <<slot, fd, req, sock, page, table, pending, kind, replies>>
    BY <1>9, <2>1 DEF ReadRequest, Others, TypeOK
  <2>4. \A u \in Threads \ {t} : Holds(u) => table[fd[u]] # c
    BY <1>0, <2>1, <2>2 DEF Separate, Holds
  <2>5. c \notin pending
    BY <1>0, <2>1, <2>2 DEF Separate
  <2>6. \A u \in Threads : OwnStructure(u)'
    <3>1. OwnStructure(t)'
      BY <2>1, <2>3 DEF OwnStructure, Serving, Read, Resolved, Labels
    <3> QED
      BY <1>0, <2>3, <3>1, OthersStructure
  <2>7. \A u \in Threads : OwnConnection(u)'
    <3>1. OwnConnection(t)'
      BY <2>2, <2>3 DEF OwnConnection, Read, Serving
    <3> QED
      BY <1>0, <2>3, <2>4, <3>1, OthersConnection
  <2>8. \A u \in Threads : Holds(u)' <=> Holds(u)
    BY <2>1, <2>3 DEF Others, Holds
  <2>9. Separate'
    BY <1>0, <2>3, <2>5, <2>8 DEF Separate, Leaks
  <2> QED
    BY <1>0, <2>3, <2>6, <2>7, <2>9 DEF Isolation
<1>10. ASSUME NEW t \in Threads, ReadFails(t) \/ HangUp(t)
       PROVE  Isolation'
  <2>1. pc[t] = "read" /\ sock[t] = fd[t] /\ fd[t] \in Fds
    BY <1>0, <1>10 DEF ReadFails, HangUp, OwnStructure, Serving
  <2>2. Holds(t) /\ table[fd[t]] \in Conns /\ table[fd[t]] \in unread
    BY <1>0, <2>1 DEF OwnConnection, Holds, Read, Serving
  <2>3. Return(t) /\ Leaks(table[fd[t]]) /\ UNCHANGED <<slot, table, net>>
    BY <1>10, <2>1, <2>2 DEF ReadFails, HangUp, Leaks
  <2>4. Others(t)
    BY <2>3 DEF Return, Others, TypeOK
  <2> QED
    BY <2>1, <2>3, <2>4, LeaveStep
<1>11. ASSUME NEW t \in Threads, ParseRequestLine(t)
       PROVE  Isolation'
  <2>1. pc[t] = "line" /\ ~slot[req[t]].parsing
    BY <1>0, <1>11 DEF ParseRequestLine, OwnStructure, Serving, Read, Resolved,
                       Labels
  <2>2. ProcessLogline(t, "option") /\ UNCHANGED <<table, net>>
    BY <1>11, <2>1 DEF ParseRequestLine
  <2> QED
    BY <2>1, <2>2, LoglineStep
<1>12. ASSUME NEW t \in Threads, ParseOptionLine(t)
       PROVE  Isolation'
  <2>1. CASE ProcessLogline(t, "end")
    BY <1>12, <2>1, LoglineStep DEF ParseOptionLine
  <2>2. CASE Goto(t, "end") /\ UNCHANGED <<slot, locals>>
    <3>1. /\ pc[t] = "option" /\ pc'[t] = "end" /\ Others(t)
          /\ UNCHANGED <<table, net>>
      BY <1>12, <2>2 DEF ParseOptionLine, Others, TypeOK
    <3>2. OwnStructure(t)'
      BY <1>0, <2>2, <3>1 DEF OwnStructure, Serving, Read, Resolved, Labels
    <3> QED
      BY <2>2, <3>1, <3>2, InnerStep DEF Read, Serving
  <2> QED
    BY <1>12, <2>1, <2>2 DEF ParseOptionLine
<1>13. ASSUME NEW t \in Threads, BytesRunOut(t)
       PROVE  Isolation'
  <2>1. /\ pc[t] = "end" /\ Leaks(buf[t]) /\ Return(t)
        /\ UNCHANGED <<slot, table, net>>
    BY <1>13 DEF BytesRunOut, Leaks
  <2>2. buf[t] = table[fd[t]]
    BY <1>0, <2>1 DEF OwnStructure, Read, Serving
  <2>3. Others(t)
    BY <2>1 DEF Return, Others, TypeOK
  <2> QED
    BY <2>1, <2>2, <2>3, LeaveStep
<1>14. ASSUME NEW t \in Threads, EndHeaders(t)
       PROVE  Isolation'
  <2>1. /\ pc[t] = "end" /\ req[t] = t /\ buf[t] = table[fd[t]]
        /\ sock[t] = fd[t] /\ fd[t] \in Fds /\ slot[t].client = fd[t]
        /\ slot[t].method = IF kind[buf[t]] = "refused" THEN "other" ELSE "GET"
        /\ slot[t].uri = buf[t]
    BY <1>0, <1>14 DEF EndHeaders, OwnStructure, Serving, Read
  <2>2. /\ slot' = [slot EXCEPT ![t].parsing = FALSE]
        /\ UNCHANGED <<table, net>>
    BY <1>14, <2>1 DEF EndHeaders
  <2>3. CASE slot[t].method = "GET"
    <3>1. Goto(t, "resolve") /\ UNCHANGED locals
      BY <1>14, <2>1, <2>3 DEF EndHeaders
    <3>2. /\ Others(t) /\ pc'[t] = "resolve"
          /\ slot'[t].client = slot[t].client /\ slot'[t].uri = slot[t].uri
          /\ ~slot'[t].parsing
      BY <2>2, <3>1 DEF Others, TypeOK, Request
    <3>3. OwnStructure(t)'
      BY <2>1, <2>2, <3>1, <3>2
         DEF OwnStructure, Serving, Read, Resolved, Labels
    <3> QED
      BY <2>1, <2>2, <3>1, <3>2, <3>3, InnerStep DEF Read, Serving
  <2>4. CASE slot[t].method # "GET"
    <3>1. Return(t)
      BY <1>14, <2>1, <2>4 DEF EndHeaders
    <3>2. Others(t)
      BY <2>2, <3>1 DEF Return, Others, TypeOK
    <3>3. Leaks(table[fd[t]])
      BY <2>1, <2>4 DEF Leaks
    <3> QED
      BY <2>1, <2>2, <3>1, <3>2, <3>3, LeaveStep
  <2> QED
    BY <2>3, <2>4
<1>15. ASSUME NEW t \in Threads, ResolveFile(t)
       PROVE  Isolation'
  <2>1. /\ pc[t] = "resolve" /\ req[t] = t /\ buf[t] = table[fd[t]]
        /\ sock[t] = fd[t] /\ fd[t] \in Fds /\ slot[t].client = fd[t]
        /\ slot[t].uri = buf[t]
    BY <1>0, <1>15 DEF ResolveFile, OwnStructure, Serving, Read
  <2>2. buf[t] \in Conns
    BY <2>1 DEF LocalsOK, Read, Serving
  <2>3. UNCHANGED <<slot, table, net>>
    BY <1>15 DEF ResolveFile
  <2>4. CASE kind[buf[t]] = "noexec" /\ Return(t)
    <3>1. Others(t) /\ Leaks(table[fd[t]])
      BY <2>1, <2>3, <2>4 DEF Return, Others, TypeOK, Leaks
    <3> QED
      BY <2>1, <2>3, <2>4, <3>1, LeaveStep
  <2>5. CASE /\ page' = [page EXCEPT ![t] = buf[t]] /\ Goto(t, "target")
             /\ UNCHANGED <<fd, req, sock, buf>>
    <3>1. Others(t) /\ pc'[t] = "target" /\ page'[t] = buf[t]
      BY <2>3, <2>5 DEF Others, TypeOK
    <3>2. OwnStructure(t)'
      BY <2>1, <2>3, <2>5, <3>1
         DEF OwnStructure, Serving, Read, Resolved, Labels
    <3> QED
      BY <2>1, <2>3, <2>5, <3>1, <3>2, InnerStep DEF Read, Serving
  <2> QED
    BY <1>15, <2>1, <2>2, <2>4, <2>5 DEF ResolveFile
<1>16. ASSUME NEW t \in Threads, LoadTarget(t)
       PROVE  Isolation'
  <2>1. /\ pc[t] = "target" /\ req[t] = t /\ buf[t] = table[fd[t]]
        /\ sock[t] = fd[t] /\ fd[t] \in Fds /\ slot[t].client = fd[t]
        /\ page[t] = buf[t]
    BY <1>0, <1>16 DEF LoadTarget, OwnStructure, Serving, Read, Resolved
  <2>2. ClientIn(req[t]) = {fd[t]} /\ fd[t] # Null
    BY <2>1 DEF ClientIn, Fds
  <2>3. /\ sock' = [sock EXCEPT ![t] = fd[t]] /\ Goto(t, "write")
        /\ UNCHANGED <<slot, fd, req, buf, page, table, net>>
    BY <1>16, <2>2 DEF LoadTarget
  <2>4. Others(t) /\ pc'[t] = "write" /\ sock'[t] = fd[t]
    BY <2>3 DEF Others, TypeOK
  <2>5. OwnStructure(t)'
    BY <2>1, <2>3, <2>4 DEF OwnStructure, Serving, Read, Resolved, Labels
  <2> QED
    BY <2>1, <2>3, <2>4, <2>5, InnerStep DEF Read, Serving
<1>17. ASSUME NEW t \in Threads, WriteResponse(t)
       PROVE  Isolation'
  <2> DEFINE c == table[fd[t]]
  <2>1. /\ pc[t] = "write" /\ req[t] = t /\ buf[t] = c /\ page[t] = c
        /\ sock[t] = fd[t] /\ fd[t] \in Fds
    BY <1>0, <1>17 DEF WriteResponse, OwnStructure, Serving, Read, Resolved
  <2>2. Holds(t) /\ c \in Conns /\ replies[c] = << >> /\ c # NotFound
    BY <1>0, <2>1 DEF OwnConnection, Holds, Read, Serving
  <2>3. /\ replies' = [replies EXCEPT ![c] = Append(@, c)]
        /\ AfterWrite(t)
        /\ UNCHANGED <<slot, queue, table, pending, kind, unread>>
    BY <1>17, <2>1, <2>2 DEF WriteResponse, Peer
  <2>4. replies'[c] = <<c>> /\ \A d \in Conns \ {c} : replies'[d] = replies[d]
    <3>1. Append(<< >>, c) = <<c>>
      OBVIOUS
    <3> QED
      BY <2>2, <2>3, <3>1 DEF TypeOK
  <2>5. c \notin pending /\ \A u \in Threads \ {t} : Holds(u) => table[fd[u]] # c
    BY <1>0, <2>1, <2>2 DEF Separate, Holds
  <2>6. \A u \in Threads \ {t} : Holds(u) => table[fd[u]] \in Conns
    BY <1>0 DEF OwnConnection
  <2>7. /\ \A d \in Conns : replies'[d] \in {<< >>, <<d>>}
        /\ \A d \in pending : d \in unread /\ replies'[d] = << >>
    <3> HIDE DEF c
    <3>1. \A d \in Conns : replies'[d] \in {<< >>, <<d>>}
      BY <1>0, <2>4
    <3>2. \A d \in pending : d \in Conns \ {c}
      BY <2>5 DEF TypeOK
    <3> QED
      BY <1>0, <2>4, <3>1, <3>2 DEF Separate
  <2>8. Others(t)
    BY <2>3 DEF AfterWrite, Return, Others, TypeOK
  <2>9. \A u \in Threads \ {t} : OwnStructure(u)' /\ OwnConnection(u)'
    BY <1>0, <2>3, <2>4, <2>5, <2>6, <2>8, OthersStructure, OthersConnection
  <2>10. \A u \in Threads \ {t} : (Holds(u)' <=> Holds(u)) /\ fd'[u] = fd[u]
    BY <2>8 DEF Others, Holds
  <2>11. CASE Closes(c)
    <3>1. Goto(t, "close") /\ UNCHANGED locals /\ pc'[t] = "close"
      BY <2>1, <2>3, <2>11 DEF AfterWrite, TypeOK
    <3>2. OwnStructure(t)'
      BY <1>0, <2>1, <2>3, <3>1
         DEF OwnStructure, Serving, Read, Resolved, Labels
    <3>3. OwnConnection(t)'
      BY <2>2, <2>3, <2>4, <3>1 DEF OwnConnection, Read, Serving
    <3>4. Holds(t)'
      BY <2>1, <3>1 DEF Holds
    <3>5. Separate'
      BY <1>0, <2>2, <2>3, <2>7, <2>10, <3>1, <3>4 DEF Separate, Leaks
    <3> QED
      BY <2>7, <2>9, <3>2, <3>3, <3>5 DEF Isolation
  <2>12. CASE ~Closes(c)
    <3>1. Return(t) /\ Leaks(c) /\ pc'[t] = "accept"
      BY <2>1, <2>2, <2>3, <2>12 DEF AfterWrite, Closes, Leaks, Return, TypeOK
    <3>2. OwnStructure(t)' /\ OwnConnection(t)' /\ ~Holds(t)'
      BY <3>1 DEF OwnStructure, OwnConnection, Holds, Serving, Read, Resolved
    <3>3. \A f \in Fds : table[f] # Null =>
            Leaks(table[f])' \/ \E u \in Threads : Holds(u)' /\ fd'[u] = f
      BY <1>0, <2>3, <2>10, <3>1 DEF Separate, Leaks
    <3>4. Separate'
      BY <1>0, <2>3, <2>7, <2>10, <3>2, <3>3 DEF Separate
    <3> QED
      BY <2>7, <2>9, <3>2, <3>4 DEF Isolation
  <2> QED
    BY <2>11, <2>12
<1>18. ASSUME NEW t \in Threads, WriteBreaks(t)
       PROVE  Isolation'
  BY <1>18, IdleStep DEF WriteBreaks, Die
<1>19. ASSUME NEW t \in Threads, CloseSocket(t)
       PROVE  Isolation'
  <2> DEFINE c == table[fd[t]]
  <2>1. pc[t] = "close" /\ sock[t] = fd[t] /\ fd[t] \in Fds
    BY <1>0, <1>19 DEF CloseSocket, OwnStructure, Serving
  <2>2. Holds(t) /\ c \in Conns
    BY <1>0, <2>1 DEF OwnConnection, Holds
  <2>3. /\ table' = [table EXCEPT ![fd[t]] = Null]
        /\ Return(t) /\ pc'[t] = "accept" /\ Others(t)
        /\ UNCHANGED <<slot, net>>
    BY <1>19, <2>1 DEF CloseSocket, Return, Others, TypeOK
  <2>4. /\ table'[fd[t]] = Null
        /\ \A f \in Fds \ {fd[t]} : table'[f] = table[f]
    BY <2>1, <2>3 DEF TypeOK
  <2>5. \A u \in Threads \ {t} :
          /\ (Holds(u)' <=> Holds(u)) /\ fd'[u] = fd[u]
          /\ Holds(u) => fd[u] # fd[t] /\ table'[fd[u]] = table[fd[u]]
    BY <1>0, <2>2, <2>3, <2>4 DEF Separate, Others, Holds
  <2>6. OwnStructure(t)' /\ OwnConnection(t)' /\ ~Holds(t)'
    BY <2>3 DEF OwnStructure, OwnConnection, Holds, Serving, Read, Resolved
  <2>7. \A u \in Threads \ {t} : pc[u] \in Read => Holds(u)
    BY <1>0 DEF OwnStructure, Read, Serving, Holds
  <2>8. \A u \in Threads \ {t} : OwnStructure(u)' /\ OwnConnection(u)'
    BY <1>0, <2>3, <2>5, <2>7, OthersStructure, OthersConnection
  <2>9. \A u, v \in Threads : Holds(u)' /\ Holds(v)' /\ fd'[u] = fd'[v] => u = v
    BY <1>0, <2>5, <2>6 DEF Separate
  <2>10. \A f, g \in Fds : table'[f] # Null /\ table'[f] = table'[g] => f = g
    BY <1>0, <2>4 DEF Separate
  <2>11. \A f \in Fds : table'[f] # Null =>
          /\ table'[f] \notin pending'
          /\ Leaks(table[f])' \/ \E u \in Threads : Holds(u)' /\ fd'[u] = f
    BY <1>0, <2>3, <2>4, <2>5 DEF Separate, Leaks
  <2>12. Separate'
    BY <1>0, <2>3, <2>9, <2>10, <2>11 DEF Separate
  <2> QED
    BY <1>0, <2>3, <2>6, <2>8, <2>12 DEF Isolation
<1>20. CASE UNCHANGED vars
  BY <1>20, IdleStep DEF vars
<1> QED
  BY <1>1, <1>2, <1>3, <1>4, <1>5, <1>6, <1>7, <1>8, <1>9, <1>10, <1>11,
     <1>12, <1>13, <1>14, <1>15, <1>16, <1>17, <1>18, <1>19, <1>20
     DEF Next, Step

LEMMA IsolationInit == Init => Isolation
<1> SUFFICES ASSUME Init PROVE Isolation
  OBVIOUS
<1>1. \A t \in Threads : pc[t] = "accept" /\ ~Holds(t)
  BY DEF Init, Holds
<1>2. \A t \in Threads : OwnStructure(t) /\ OwnConnection(t)
  BY <1>1 DEF OwnStructure, OwnConnection, Serving, Read, Resolved
<1>3. Separate
  BY <1>1 DEF Init, Separate
<1> QED
  BY <1>2, <1>3 DEF Init, Isolation

(* crossed is a history variable: it stays set.                             *)
LEMMA CrossedStays ==
  ASSUME TypeOK, [Next]_vars, crossed
  PROVE  crossed'
BY DEF Next, Step, vars, Accept, AcceptFails, InitRequest, AllocClient,
       StoreClient, Enqueue, Dequeue, LoadClient, ReadRequest, ReadFails,
       HangUp, ParseRequestLine, ParseOptionLine, BytesRunOut, EndHeaders,
       ResolveFile, LoadTarget, WriteResponse, WriteBreaks, CloseSocket

(* The inductive invariant holds in every reachable state. *)
THEOREM InductiveInvariant == Spec => []IInv
<1>1. Init => IInv
  BY TypedInit, QueueInit, IsolationInit DEF IInv
<1>2. IInv /\ [Next]_vars => IInv'
  <2> SUFFICES ASSUME IInv, [Next]_vars PROVE IInv'
    OBVIOUS
  <2>1. TypeOK' /\ LocalsOK'
    BY TypedStep DEF IInv
  <2>2. QueueMatchesWaiters'
    BY QueueStep DEF IInv
  <2>3. crossed' \/ Isolation'
    BY <2>1, CrossedStays, IsolationStep DEF IInv
  <2> QED
    BY <2>1, <2>2, <2>3 DEF IInv
<1> QED
  BY <1>1, <1>2, PTL DEF Spec

(* As long as no structure has crossed, a client is sent its own answer and *)
(* at most once (process_requests through serve_static).                   *)
THEOREM OwnAnswers == Spec => []AnsweredByOwnRequest
<1>1. IInv => AnsweredByOwnRequest
  BY DEF IInv, Isolation, AnsweredByOwnRequest
<1> QED
  BY <1>1, InductiveInvariant, PTL

(* As long as no structure has crossed, an open descriptor is held by one   *)
(* thread or leaked by a request of a kind that is never closed.            *)
THEOREM NoDescriptorLost == Spec => []DescriptorsAccounted
<1>1. IInv => DescriptorsAccounted
  <2> SUFFICES ASSUME IInv, ~crossed, NEW f \in Fds, table[f] # Null,
                      ~Leaks(table[f])
               PROVE  Cardinality({t \in Threads :
                                     fd[t] = f /\ pc[t] # "accept"}) = 1
    BY DEF DescriptorsAccounted
  <2>1. PICK t \in Threads : Holds(t) /\ fd[t] = f
    BY DEF IInv, Isolation, Separate
  <2>2. {u \in Threads : fd[u] = f /\ pc[u] # "accept"} = {t}
    BY <2>1 DEF IInv, Isolation, Separate, Holds
  <2> QED
    BY <2>2, FS_Singleton
<1> QED
  BY <1>1, InductiveInvariant, PTL
-----------------------------------------------------------------------------
(***************************************************************************)
(* ThreadMode implements ConnectionService: an accept() is an Admit, a     *)
(* response_write() an Answer, a close() a Close, a crossing or the end of *)
(* the process a Derail, and every other step of a thread a stutter.       *)
(***************************************************************************)
LEMMA ServiceStep ==
  ASSUME IInv, IInv', [Next]_vars
  PROVE  [Service!Next]_(Service!vars)
<1> DEFINE phase == [c \in Conns |-> Phase(c)]
           sent  == [c \in Conns |-> replies[c] = <<c>>]
<1>1. CASE crossed' \/ ~alive'
  <2>1. phase' \in [Conns -> Service!Phases]
    BY DEF Phase, Service!Phases
  <2>2. sent' \in [Conns -> BOOLEAN]
    OBVIOUS
  <2>3. Service!Derail
    BY <1>1, <2>1, <2>2 DEF Service!Derail
  <2> QED
    BY <2>3 DEF Service!Next
<1>2. CASE ~crossed' /\ alive'
  <2>0. /\ ~crossed /\ TypeOK /\ TypeOK' /\ Isolation /\ Separate
        /\ \A t \in Threads : OwnStructure(t) /\ OwnConnection(t)
    BY <1>2, CrossedStays DEF IInv, Isolation
  <2>1. ASSUME alive, UNCHANGED <<table, pending, replies>>
        PROVE  UNCHANGED Service!vars
    <3>1. phase' = phase /\ sent' = sent
      BY <2>1 DEF Phase, Gone
    <3> QED
      BY <1>2, <2>0, <2>1, <3>1 DEF Service!vars
  <2>2. CASE UNCHANGED vars
    BY <1>2, <2>1, <2>2 DEF vars, net
  <2>3. ASSUME NEW t \in Threads, Accept(t)
        PROVE  Service!Next
    <3>1. PICK c \in pending :
            pending' = pending \ {c} /\ table' = [table EXCEPT ![LowestFree] = c]
      BY <2>3 DEF Accept
    <3>2. PICK f \in Fds : f = LowestFree /\ table[f] = Null
      BY <2>3, LowestFreeIsFree DEF Accept, FreeFds
    <3>3. /\ c \in Conns /\ alive /\ UNCHANGED replies
          /\ table'[f] = c /\ \A g \in Fds \ {f} : table'[g] = table[g]
          /\ \A d \in Conns : d # Null
      BY <2>0, <2>3, <3>1, <3>2 DEF Accept, At, TypeOK
    <3>4. Phase(c) = "waiting" /\ Phase(c)' = "open"
      BY <3>1, <3>3 DEF Phase, Gone
    <3>5. \A d \in Conns \ {c} : Phase(d)' = Phase(d)
      <4> SUFFICES ASSUME NEW d \in Conns \ {c} PROVE Phase(d)' = Phase(d)
        OBVIOUS
      <4>1. d \in pending' <=> d \in pending
        BY <3>1
      <4>2. (\A g \in Fds : table'[g] # d) <=> (\A g \in Fds : table[g] # d)
        BY <3>2, <3>3
      <4> QED
        BY <4>1, <4>2 DEF Phase, Gone
    <3>6. phase' = [phase EXCEPT ![c] = "open"]
      BY <3>3, <3>4, <3>5
    <3>7. Service!Admit(c)
      BY <1>2, <2>0, <3>3, <3>4, <3>6 DEF Service!Admit
    <3> QED
      BY <2>0, <3>3, <3>7 DEF Service!Next
  <2>4. ASSUME NEW t \in Threads, WriteResponse(t)
        PROVE  Service!Next
    <3>1. /\ pc[t] = "write" /\ page[t] = table[fd[t]] /\ sock[t] = fd[t]
          /\ fd[t] \in Fds /\ alive
      BY <2>0, <2>4 DEF WriteResponse, At, OwnStructure, Serving, Read, Resolved
    <3>2. table[fd[t]] \in Conns /\ replies[table[fd[t]]] = << >>
      <4>1. Holds(t)
        BY <3>1 DEF Holds
      <4> QED
        BY <2>0, <3>1, <4>1 DEF OwnConnection
    <3>3. PICK c \in Conns : c = table[fd[t]]
      BY <3>2
    <3>4. c # Null /\ c \notin pending /\ replies[c] = << >>
      BY <2>0, <3>1, <3>2, <3>3, ConnsAssumption DEF Separate
    <3>5. /\ replies' = [replies EXCEPT ![c] = Append(@, c)]
          /\ UNCHANGED <<table, pending>>
      BY <2>4, <3>1, <3>3, <3>4 DEF WriteResponse, Peer
    <3>6. replies'[c] = <<c>> /\ \A d \in Conns \ {c} : replies'[d] = replies[d]
      <4>1. Append(<< >>, c) = <<c>>
        OBVIOUS
      <4> QED
        BY <2>0, <3>4, <3>5, <4>1 DEF TypeOK
    <3>7. Phase(c) = "open" /\ ~(replies[c] = <<c>>)
      BY <3>1, <3>3, <3>4 DEF Phase, Gone
    <3>8. phase' = phase
      BY <3>5 DEF Phase, Gone
    <3>9. sent' = [sent EXCEPT ![c] = TRUE]
      BY <3>6
    <3>10. Service!Answer(c)
      BY <1>2, <2>0, <3>1, <3>7, <3>8, <3>9 DEF Service!Answer
    <3> QED
      BY <2>0, <3>1, <3>10 DEF Service!Next
  <2>5. ASSUME NEW t \in Threads, CloseSocket(t)
        PROVE  Service!Next
    <3>1. pc[t] = "close" /\ sock[t] = fd[t] /\ fd[t] \in Fds /\ alive
      BY <2>0, <2>5 DEF CloseSocket, At, OwnStructure, Serving
    <3>2. table[fd[t]] \in Conns /\ replies[table[fd[t]]] = <<table[fd[t]]>>
      <4>1. Holds(t)
        BY <3>1 DEF Holds
      <4> QED
        BY <2>0, <3>1, <4>1 DEF OwnConnection
    <3>3. PICK c \in Conns : c = table[fd[t]]
      BY <3>2
    <3>4. c # Null /\ c \notin pending /\ replies[c] = <<c>>
      BY <2>0, <3>1, <3>2, <3>3, ConnsAssumption DEF Separate
    <3>5. /\ table' = [table EXCEPT ![fd[t]] = Null]
          /\ UNCHANGED <<pending, replies>>
      BY <2>5, <3>1 DEF CloseSocket, net
    <3>6. table'[fd[t]] = Null /\ \A g \in Fds \ {fd[t]} : table'[g] = table[g]
      BY <2>0, <3>1, <3>5 DEF TypeOK
    <3>7. \A g \in Fds \ {fd[t]} : table[g] # c
      BY <2>0, <3>1, <3>3, <3>4 DEF Separate
    <3>8. Phase(c) = "open"
      BY <3>1, <3>3, <3>4 DEF Phase, Gone
    <3>9. Phase(c)' = "closed"
      BY <3>1, <3>4, <3>5, <3>6, <3>7 DEF Phase, Gone
    <3>10. \A d \in Conns \ {c} : Phase(d)' = Phase(d)
      <4> SUFFICES ASSUME NEW d \in Conns \ {c} PROVE Phase(d)' = Phase(d)
        OBVIOUS
      <4>1. d # Null /\ table[fd[t]] # d /\ table'[fd[t]] # d
        BY <3>3, <3>6, ConnsAssumption
      <4>2. d \in pending' <=> d \in pending
        BY <3>5
      <4>3. (\A g \in Fds : table'[g] # d) <=> (\A g \in Fds : table[g] # d)
        BY <3>1, <3>6, <4>1
      <4> QED
        BY <4>2, <4>3 DEF Phase, Gone
    <3>11. phase' = [phase EXCEPT ![c] = "closed"]
      BY <3>9, <3>10
    <3>12. Service!Close(c)
      BY <1>2, <2>0, <3>1, <3>4, <3>5, <3>8, <3>11 DEF Service!Close
    <3> QED
      BY <2>0, <3>1, <3>12 DEF Service!Next
  <2>6. ASSUME NEW t \in Threads, Step(t) \/ HangUp(t),
               ~Accept(t), ~WriteResponse(t), ~CloseSocket(t)
        PROVE  UNCHANGED Service!vars
    <3>1. alive /\ UNCHANGED <<table, pending, replies>>
      BY <2>6 DEF Step, AcceptFails, InitRequest, AllocClient, StoreClient,
         Enqueue, Dequeue, LoadClient, ReadRequest, ReadFails, HangUp,
         ParseRequestLine, ParseOptionLine, BytesRunOut, EndHeaders,
         ResolveFile, LoadTarget, WriteBreaks, At, net
    <3> QED
      BY <2>1, <3>1
  <2> QED
    BY <2>2, <2>3, <2>4, <2>5, <2>6 DEF Next
<1> QED
  BY <1>1, <1>2

(* The server of threads keeps the promise ConnectionService states to every *)
(* client (thread_function and process_requests together).                  *)
THEOREM Refinement == Spec => ImplementsService
<1>1. Init => Service!Init
  <2> SUFFICES ASSUME Init PROVE Service!Init
    OBVIOUS
  <2>1. \A c \in Conns : Phase(c) = "waiting" /\ replies[c] # <<c>>
    BY DEF Init, Phase
  <2> QED
    BY <2>1 DEF Service!Init, Init
<1>2. IInv /\ IInv' /\ [Next]_vars => [Service!Next]_(Service!vars)
  BY ServiceStep
<1> QED
  BY <1>1, <1>2, InductiveInvariant, PTL DEF Spec, ImplementsService, Service!Spec
=============================================================================
