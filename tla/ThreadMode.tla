------------------------------ MODULE ThreadMode ------------------------------
(***************************************************************************)
(* server_mode 1: main() starts maxConnections threads (server.c:174-180)  *)
(* and each runs thread_function (server.c:480-546) for ever.  A thread     *)
(* accepts a connection, describes it in an HTTP_REQUEST on its own stack, *)
(* enqueues a POINTER to that structure, dequeues a pointer -- its own or  *)
(* another thread's -- and serves whatever the structure it got describes  *)
(* at each moment it looks (process_requests, header_parse,                *)
(* process_logline, process_header_end and serve_static).                  *)
(*                                                                         *)
(* What is shared: the queue of pointers, the structures behind them, the  *)
(* table of descriptors and the process itself (a fault in one thread, or  *)
(* SIGPIPE, ends all of them).  A request is the connection it came from;  *)
(* `kind' says what kind of request that client sends.                     *)
(***************************************************************************)
EXTENDS Integers, Sequences, FiniteSets

CONSTANTS
  Threads,    \* thread_pool[THREAD_POOL_SIZE]
  Conns,      \* the connections clients make, each once
  Kinds,      \* the kinds of client considered, a subset of AllKinds
  MaxFds,     \* descriptors the process may still open for connections
  Null,       \* a NULL pointer, and "no thread" or "no request" in a local
  Junk,       \* the content of memory nobody has written yet
  NotFound    \* the body of the 404 page sent for a request that is not real

\* page, missing   a complete GET of a file that is there, or is not
\* cgi             a complete GET of an executable under cgi-bin
\* noexec          a complete GET of a file there that cannot be executed
\* refused         a complete request of another method: HEAD or POST
\* malformed       a first line without GET, HEAD or POST
\* badversion      a first line with an unknown version or too long a URI
\* partial         a first line, but no empty line in what one read() returns
\* gone            a complete GET whose sender leaves before it is answered
\* silent          a client that sends nothing (it may hang up in the end)
AllKinds == {"page", "missing", "cgi", "noexec", "refused", "malformed",
             "badversion", "partial", "gone", "silent"}

ASSUME ThreadsAssumption == IsFiniteSet(Threads) /\ Null \notin Threads
ASSUME ConnsAssumption ==
  /\ Null \notin Conns /\ Junk \notin Conns /\ NotFound \notin Conns
  /\ Null # Junk /\ Null # NotFound
ASSUME KindsAssumption == Kinds \subseteq AllKinds
ASSUME FdsAssumption ==
  MaxFds \in Nat \ {0} /\ Null \notin Int /\ Junk \notin Int

Fds  == 1 .. MaxFds
NoFd == -1              \* what accept() returns when it fails

VARIABLES
  pc,       \* the next step of each thread
  slot,     \* slot[t]: the HTTP_REQUEST on the stack of thread t
  queue,    \* the queued pointers: the threads whose structures they point to
  fd,       \* client_socket_fd, a local of thread_function
  req,      \* p_http_req, the pointer the thread dequeued
  sock,     \* client_socket, the local of process_requests and serve_static
  buf,      \* the connection whose request is in buff
  page,     \* the connection whose file is about to be sent
  table,    \* the connection behind each descriptor, Null when it is free
  pending,  \* connections not yet accepted
  kind,     \* what each client sends
  unread,   \* connections whose request nobody has read yet
  replies,  \* replies[c]: whose files were written to c, in order
  alive,    \* no thread has faulted and no SIGPIPE has arrived
  crossed   \* some thread has dequeued another thread's structure

locals == <<fd, req, sock, buf, page>>
net    == <<pending, kind, unread, replies>>
vars   == <<pc, slot, queue, locals, table, net, alive, crossed>>

Method  == {"none", "GET", "other"}
Request == [client  : Fds \cup {NoFd, Null, Junk},
            method  : Method,
            uri     : Conns \cup {Junk},
            parsing : BOOLEAN]
Labels  == {"accept", "init", "alloc", "store", "enqueue", "dequeue", "load",
            "read", "line", "option", "end", "resolve", "target", "write",
            "close"}

TypeOK ==
  /\ pc \in [Threads -> Labels]
  /\ slot \in [Threads -> Request]
  /\ queue \in Seq(Threads)
  /\ fd \in [Threads -> Fds \cup {NoFd}]
  /\ req \in [Threads -> Threads \cup {Null}]
  /\ sock \in [Threads -> Fds \cup {NoFd}]
  /\ buf \in [Threads -> Conns \cup {Null}]
  /\ page \in [Threads -> Conns \cup {Null, NotFound}]
  /\ table \in [Fds -> Conns \cup {Null}]
  /\ pending \subseteq Conns
  /\ kind \in [Conns -> Kinds]
  /\ unread \subseteq Conns
  /\ replies \in [Conns -> Seq(Conns \cup {NotFound})]
  /\ alive \in BOOLEAN
  /\ crossed \in BOOLEAN

Init ==
  /\ pc = [t \in Threads |-> "accept"]
  /\ slot = [t \in Threads |-> [client |-> Junk, method |-> "none",
                                uri |-> Junk, parsing |-> FALSE]]
  /\ queue = << >>
  /\ fd = [t \in Threads |-> NoFd]
  /\ req = [t \in Threads |-> Null]
  /\ sock = [t \in Threads |-> NoFd]
  /\ buf = [t \in Threads |-> Null]
  /\ page = [t \in Threads |-> Null]
  /\ table = [f \in Fds |-> Null]
  /\ pending = Conns
  /\ kind \in [Conns -> Kinds]
  /\ unread = Conns
  /\ replies = [c \in Conns |-> << >>]
  /\ alive = TRUE
  /\ crossed = FALSE
-----------------------------------------------------------------------------
At(t, label) == alive /\ pc[t] = label
Goto(t, label) == pc' = [pc EXCEPT ![t] = label]

\* process_requests returns: the locals die and the thread accepts again.
Return(t) ==
  /\ Goto(t, "accept")
  /\ fd' = [fd EXCEPT ![t] = NoFd]
  /\ req' = [req EXCEPT ![t] = Null]
  /\ sock' = [sock EXCEPT ![t] = NoFd]
  /\ buf' = [buf EXCEPT ![t] = Null]
  /\ page' = [page EXCEPT ![t] = Null]

\* A fault in any thread, or SIGPIPE, ends the process.
Die == alive' = FALSE /\ UNCHANGED <<pc, locals>>

FreeFds == {f \in Fds : table[f] = Null}
\* The descriptor the kernel hands out: the lowest that is free.
LowestFree == CHOOSE f \in FreeFds : \A g \in FreeFds : f <= g

\* The values a load of *pclient can give: the int itself, or any int at all
\* while the malloc'ed cell has not been written.
ClientIn(t) ==
  LET c == slot[t].client IN IF c = Junk THEN Fds \cup {NoFd} ELSE {c}
-----------------------------------------------------------------------------
Accept(t) ==
  /\ At(t, "accept")
  /\ FreeFds # {}
  /\ \E c \in pending :
       /\ pending' = pending \ {c}
       /\ table' = [table EXCEPT ![LowestFree] = c]
       /\ fd' = [fd EXCEPT ![t] = LowestFree]
  /\ Goto(t, "init")
  /\ UNCHANGED <<slot, queue, req, sock, buf, page, kind, unread, replies,
                 alive, crossed>>

\* accept() reports EMFILE when the table is full; nobody looks at the -1.
AcceptFails(t) ==
  /\ At(t, "accept")
  /\ FreeFds = {}
  /\ fd' = [fd EXCEPT ![t] = NoFd]
  /\ Goto(t, "init")
  /\ UNCHANGED <<slot, queue, req, sock, buf, page, table, net, alive, crossed>>

\* Mutant: the structure keeps the flag of the previous request.
MutInitRequest(t) ==
  /\ At(t, "init")
  /\ slot' = [slot EXCEPT ![t] = [@ EXCEPT !.client = Null, !.method = "none",
                                           !.uri = Junk]]
  /\ Goto(t, "alloc")
  /\ UNCHANGED <<queue, locals, table, net, alive, crossed>>

\* The structure is the same stack cell in every iteration: this overwrites
\* what a thread that dequeued the pointer earlier may still be using.
InitRequest(t) ==
  /\ At(t, "init")
  /\ slot' = [slot EXCEPT ![t] = [client |-> Null, method |-> "none",
                                  uri |-> Junk, parsing |-> FALSE]]
  /\ Goto(t, "alloc")
  /\ UNCHANGED <<queue, locals, table, net, alive, crossed>>

AllocClient(t) ==
  /\ At(t, "alloc")
  /\ slot' = [slot EXCEPT ![t].client = Junk]
  /\ Goto(t, "store")
  /\ UNCHANGED <<queue, locals, table, net, alive, crossed>>

StoreClient(t) ==
  /\ At(t, "store")
  /\ slot' = [slot EXCEPT ![t].client = fd[t]]
  /\ Goto(t, "enqueue")
  /\ UNCHANGED <<queue, locals, table, net, alive, crossed>>

\* Mutant: the new node becomes the head even when the queue is not empty.
MutEnqueue(t) ==
  /\ At(t, "enqueue")
  /\ queue' = << t >>
  /\ Goto(t, "dequeue")
  /\ UNCHANGED <<slot, locals, table, net, alive, crossed>>

\* The two critical sections: the mutex makes each of them one step.
Enqueue(t) ==
  /\ At(t, "enqueue")
  /\ queue' = Append(queue, t)
  /\ Goto(t, "dequeue")
  /\ UNCHANGED <<slot, locals, table, net, alive, crossed>>

Dequeue(t) ==
  /\ At(t, "dequeue")
  /\ IF queue = << >>
     THEN Return(t) /\ UNCHANGED <<queue, crossed>>
     ELSE /\ queue' = Tail(queue)
          /\ req' = [req EXCEPT ![t] = Head(queue)]
          /\ crossed' = (crossed \/ Head(queue) # t)
          /\ Goto(t, "load")
          /\ UNCHANGED <<fd, sock, buf, page>>
  /\ UNCHANGED <<slot, table, net, alive>>
-----------------------------------------------------------------------------
\* process_requests: client_socket = *(http_req->pclient).
LoadClient(t) ==
  /\ At(t, "load")
  /\ \E f \in ClientIn(req[t]) :
       \/ f = Null /\ Die
       \/ f = NoFd /\ Return(t) /\ UNCHANGED alive
       \/ /\ f \in Fds
          /\ sock' = [sock EXCEPT ![t] = f]
          /\ Goto(t, "read")
          /\ UNCHANGED <<fd, req, buf, page, alive>>
  /\ UNCHANGED <<slot, queue, table, net, crossed>>

\* read() on a connection whose request has arrived.
ReadRequest(t) ==
  /\ At(t, "read")
  /\ table[sock[t]] \in unread
  /\ kind[table[sock[t]]] # "silent"
  /\ buf' = [buf EXCEPT ![t] = table[sock[t]]]
  /\ unread' = unread \ {table[sock[t]]}
  /\ Goto(t, "line")
  /\ UNCHANGED <<slot, queue, fd, req, sock, page, table, pending, kind,
                 replies, alive, crossed>>

\* read() fails because the descriptor has been closed meanwhile.
ReadFails(t) ==
  /\ At(t, "read")
  /\ table[sock[t]] = Null
  /\ Return(t)
  /\ UNCHANGED <<slot, queue, table, net, alive, crossed>>

\* read() returns 0: the client hangs up and has nothing (more) to say.
HangUp(t) ==
  /\ At(t, "read")
  /\ table[sock[t]] # Null
  /\ table[sock[t]] \notin unread \/ kind[table[sock[t]]] = "silent"
  /\ Return(t)
  /\ UNCHANGED <<slot, queue, table, net, alive, crossed>>

\* process_logline on buff: fills in the structure the pointer leads to.
ProcessLogline(t, next) ==
  LET k == kind[buf[t]] IN
  /\ slot' = IF k = "malformed" THEN slot
             ELSE [slot EXCEPT
                     ![req[t]] = [@ EXCEPT
                        !.method  = IF k = "refused" THEN "other" ELSE "GET",
                        !.uri     = buf[t],
                        !.parsing = TRUE]]
  /\ IF k \in {"malformed", "badversion"}
     THEN Return(t)
     ELSE Goto(t, next) /\ UNCHANGED locals

\* header_parse at the end of the first line.  With PARSE_HEAD_OPTION already
\* set it hands an uninitialised header_line to process_option_line, which
\* faults or finds nothing it knows.
ParseRequestLine(t) ==
  /\ At(t, "line")
  /\ IF slot[req[t]].parsing
     THEN /\ Die \/ (Goto(t, "option") /\ UNCHANGED <<locals, alive>>)
          /\ UNCHANGED slot
     ELSE ProcessLogline(t, "option") /\ UNCHANGED alive
  /\ UNCHANGED <<queue, table, net, crossed>>

\* header_parse at the end of a later line: an option, which changes nothing
\* here, while PARSE_HEAD_OPTION is set; the first line all over again when
\* another thread has reset it.
ParseOptionLine(t) ==
  /\ At(t, "option")
  /\ IF slot[req[t]].parsing
     THEN Goto(t, "end") /\ UNCHANGED <<slot, locals>>
     ELSE ProcessLogline(t, "end")
  /\ UNCHANGED <<queue, table, net, alive, crossed>>

\* The bytes run out before the empty line: header_parse returns 0 and leaves
\* PARSE_HEAD_OPTION set.  The socket is neither answered nor closed.
BytesRunOut(t) ==
  /\ At(t, "end")
  /\ kind[buf[t]] = "partial"
  /\ Return(t)
  /\ UNCHANGED <<slot, queue, table, net, alive, crossed>>

\* The empty line: header_parse resets the flag and process_header_end looks
\* at the method, which by now may be another request's.
EndHeaders(t) ==
  /\ At(t, "end")
  /\ kind[buf[t]] # "partial"
  /\ slot' = [slot EXCEPT ![req[t]].parsing = FALSE]
  /\ IF slot[req[t]].method = "GET"
     THEN Goto(t, "resolve") /\ UNCHANGED locals
     ELSE Return(t)
  /\ UNCHANGED <<queue, table, net, alive, crossed>>

\* parse_uri and stat.  A request_uri nobody has written names anything: the
\* heap still holds the path of an earlier request, or nothing that exists.
ResolveFile(t) ==
  /\ At(t, "resolve")
  /\ \E p \in IF slot[req[t]].uri = Junk THEN Conns \cup {NotFound}
                                         ELSE {slot[req[t]].uri} :
       IF p # NotFound /\ kind[p] = "noexec"
       THEN Return(t)
       ELSE /\ page' = [page EXCEPT ![t] = p]
            /\ Goto(t, "target")
            /\ UNCHANGED <<fd, req, sock, buf>>
  /\ UNCHANGED <<slot, queue, table, net, alive, crossed>>

\* Mutant: the socket is closed before the answer is written to it.
MutLoadTarget(t) ==
  /\ At(t, "target")
  /\ \E f \in ClientIn(req[t]) :
       /\ f \in Fds
       /\ sock' = [sock EXCEPT ![t] = f]
       /\ table' = [table EXCEPT ![f] = Null]
  /\ Goto(t, "write")
  /\ UNCHANGED <<slot, queue, fd, req, buf, page, net, alive, crossed>>

\* process_header_end reads *(http_req->pclient) a second time.
LoadTarget(t) ==
  /\ At(t, "target")
  /\ \E f \in ClientIn(req[t]) :
       \/ f = Null /\ Die
       \/ /\ f # Null
          /\ sock' = [sock EXCEPT ![t] = f]
          /\ Goto(t, "write")
          /\ UNCHANGED <<fd, req, buf, page, alive>>
  /\ UNCHANGED <<slot, queue, table, net, crossed>>

Peer(f) == IF f \in Fds THEN table[f] ELSE Null
\* Mutants: the 404 path forgets to close, and so does every path.
MutCloses404(p) == p # NotFound /\ kind[p] \notin {"missing", "cgi"}
MutClosesNone(p) == FALSE

\* serve_static closes the socket, serve_dynamic does not.
Closes(p) == p = NotFound \/ kind[p] # "cgi"

AfterWrite(t) ==
  IF Closes(page[t]) THEN Goto(t, "close") /\ UNCHANGED locals ELSE Return(t)

\* Mutant: a partial write is repeated from the start.
MutWriteResponse(t) ==
  /\ At(t, "write")
  /\ LET c == Peer(sock[t]) IN
       replies' = IF c = Null THEN replies
                  ELSE [replies EXCEPT ![c] = @ \o <<page[t], page[t]>>]
  /\ AfterWrite(t)
  /\ UNCHANGED <<slot, queue, table, pending, kind, unread, alive, crossed>>

\* response_write; its failures are only printed.
WriteResponse(t) ==
  /\ At(t, "write")
  /\ LET c == Peer(sock[t]) IN
       replies' = IF c = Null THEN replies
                  ELSE [replies EXCEPT ![c] = Append(@, page[t])]
  /\ AfterWrite(t)
  /\ UNCHANGED <<slot, queue, table, pending, kind, unread, alive, crossed>>

\* Nobody handles SIGPIPE: a write to a client that has left may end it all.
WriteBreaks(t) ==
  /\ At(t, "write")
  /\ Peer(sock[t]) # Null
  /\ kind[Peer(sock[t])] = "gone"
  /\ Die
  /\ UNCHANGED <<slot, queue, table, net, crossed>>

\* close(client_socket), whoever is behind that descriptor by now.
CloseSocket(t) ==
  /\ At(t, "close")
  /\ table' = IF sock[t] \in Fds THEN [table EXCEPT ![sock[t]] = Null]
                                 ELSE table
  /\ Return(t)
  /\ UNCHANGED <<slot, queue, net, alive, crossed>>
-----------------------------------------------------------------------------
\* What a thread does without waiting for more than a connection.
Step(t) ==
  \/ Accept(t) \/ AcceptFails(t) \/ InitRequest(t) \/ AllocClient(t)
  \/ StoreClient(t) \/ Enqueue(t) \/ Dequeue(t) \/ LoadClient(t)
  \/ ReadRequest(t) \/ ReadFails(t) \/ ParseRequestLine(t)
  \/ ParseOptionLine(t) \/ BytesRunOut(t) \/ EndHeaders(t) \/ ResolveFile(t)
  \/ LoadTarget(t) \/ WriteResponse(t) \/ WriteBreaks(t) \/ CloseSocket(t)

Next == \E t \in Threads : Step(t) \/ HangUp(t)

Spec == Init /\ [][Next]_vars

\* The kernel runs every runnable thread; it owes nothing to a client that
\* stays silent, so hanging up is not fair.
Fairness == \A t \in Threads : WF_vars(Step(t))
FairSpec == Spec /\ Fairness
-----------------------------------------------------------------------------
\* The threads between their enqueue and their dequeue.
Waiters == {t \in Threads : pc[t] = "dequeue"}

\* dequeue() always finds something: as many pointers are queued as there are
\* threads between their enqueue and their dequeue, so `if (p_http_req !=
\* NULL)' (server.c:523) never drops a connection.
QueueMatchesWaiters == Len(queue) = Cardinality(Waiters)

\* As long as no thread has dequeued another one's structure, a client is sent
\* nothing, or once the answer to its own request (process_requests through
\* serve_static), whatever descriptors are reused in between.
AnsweredByOwnRequest ==
  crossed \/ \A c \in Conns : replies[c] \in {<< >>, <<c>>}

\* The kinds of request after which the code returns without a close().
Leaks(c) == kind[c] \in {"cgi", "noexec", "refused", "malformed",
                         "badversion", "partial", "silent"}

\* As long as no structure has crossed, every open descriptor belongs to the
\* one thread serving it or to a request of a kind that is never closed: the
\* 404 path and serve_static lose none.
DescriptorsAccounted ==
  crossed \/ \A f \in Fds : table[f] # Null =>
      \/ Cardinality({t \in Threads : fd[t] = f /\ pc[t] # "accept"}) = 1
      \/ Leaks(table[f])

\* What a comment promises of dequeue(): it "returns the pointer to a
\* HTTP_REQUEST struct, which contains the client file descriptor"
\* (myqueue.c:36).  The structure a thread is about to serve contains one.
DequeuedHoldsClient ==
  \A t \in Threads : pc[t] = "load" => slot[req[t]].client \in Fds \cup {NoFd}

\* Every thread is reading from a client that sends nothing.
AllBlocked ==
  \A t \in Threads : pc[t] = "read" /\ kind[table[sock[t]]] = "silent"

\* Sockets that were never closed have used up the descriptors.
TableExhausted == \A f \in Fds : table[f] # Null /\ Leaks(table[f])

Gone(c) == c \notin pending /\ \A f \in Fds : table[f] # c

\* Every GET of a file is answered and its socket closed, unless structures
\* cross, the process ends, silent clients hold every thread, or leaked
\* sockets hold every descriptor (the loop of thread_function).
PageServed ==
  \A c \in Conns : kind[c] \in {"page", "missing"} =>
     <>(\/ replies[c] # << >> /\ Gone(c)
        \/ crossed \/ ~alive \/ AllBlocked \/ TableExhausted)
-----------------------------------------------------------------------------
\* The promise to one client, ConnectionService, kept until a structure crosses
\* or the process ends.
Phase(c) == IF c \in pending THEN "waiting"
            ELSE IF Gone(c) THEN "closed" ELSE "open"

Service == INSTANCE ConnectionService WITH
             phase    <- [c \in Conns |-> Phase(c)],
             sent     <- [c \in Conns |-> replies[c] = <<c>>],
             derailed <- crossed \/ ~alive

ImplementsService == Service!Spec
-----------------------------------------------------------------------------
(* The inductive invariant behind the theorems of ThreadModeProofs. *)

Serving  == {"load", "read", "line", "option", "end", "resolve", "target",
             "write", "close"}
Read     == Serving \ {"load", "read"}     \* labels with a request in buff
Resolved == {"target", "write", "close"}   \* labels with a file to send

\* A local that has been set holds what its label says, crossed or not.
LocalsOK ==
  \A t \in Threads :
    /\ pc[t] \in Serving => req[t] \in Threads
    /\ pc[t] = "read" => sock[t] \in Fds
    /\ pc[t] \in Read => buf[t] \in Conns
    /\ pc[t] \in Resolved => page[t] \in Conns \cup {NotFound}

\* What a thread that serves its own structure finds there.
OwnStructure(t) ==
  /\ pc[t] \in Serving => req[t] = t
  /\ pc[t] \in Serving \cup {"enqueue", "dequeue"} => slot[t].client = fd[t]
  /\ pc[t] \in Labels \ ({"accept", "init", "option", "end"} \cup Resolved)
       => ~slot[t].parsing
  /\ pc[t] \in Serving \ {"load"} => sock[t] = fd[t] /\ fd[t] \in Fds
  /\ pc[t] \in Read => buf[t] = table[fd[t]]
  /\ pc[t] \in {"option", "end"} =>
       /\ slot[t].parsing
       /\ slot[t].method = IF kind[buf[t]] = "refused" THEN "other" ELSE "GET"
  /\ pc[t] \in {"option", "end", "resolve"} => slot[t].uri = buf[t]
  /\ pc[t] \in Resolved => page[t] = buf[t]

\* The connection a thread holds, and how far it has come.
Holds(t) == pc[t] # "accept" /\ fd[t] \in Fds

OwnConnection(t) ==
  Holds(t) =>
    LET c == table[fd[t]] IN
    /\ c \in Conns
    /\ replies[c] = IF pc[t] = "close" THEN <<c>> ELSE << >>
    /\ pc[t] \notin Read => c \in unread

\* No descriptor is held twice, no connection is behind two of them or still
\* in the backlog, and one nobody holds is one that leaks.
Separate ==
  /\ \A t, u \in Threads : Holds(t) /\ Holds(u) /\ fd[t] = fd[u] => t = u
  /\ \A f, g \in Fds : table[f] # Null /\ table[f] = table[g] => f = g
  /\ \A f \in Fds : table[f] # Null =>
       /\ table[f] \notin pending
       /\ Leaks(table[f]) \/ \E t \in Threads : Holds(t) /\ fd[t] = f
  /\ \A c \in pending : c \in unread /\ replies[c] = << >>

Isolation ==
  /\ \A t \in Threads : OwnStructure(t)
  /\ \A t \in Threads : OwnConnection(t)
  /\ Separate
  /\ \A c \in Conns : replies[c] \in {<< >>, <<c>>}

IInv == TypeOK /\ LocalsOK /\ QueueMatchesWaiters /\ (crossed \/ Isolation)
=============================================================================
