------------------------------ MODULE ProcessMode ------------------------------
(***************************************************************************)
(* server_mode 2 (server.c:198-377).  main() runs a loop of maxConnections *)
(* forks; a child accepts one connection, serves it with process_requests  *)
(* and then falls through into the same loop, so it goes on forking with   *)
(* the indices its parent has not used yet.  Every process ends in the     *)
(* manager loop, where it blocks: it reads reports from a pipe nobody ever *)
(* writes.                                                                 *)
(*                                                                         *)
(* A process is named by the set of loop indices at which its ancestors    *)
(* and itself were forked: {} is the first process, {0, 2} the child that  *)
(* process {0} forks with i = 2.  A connection has the name of the process *)
(* that accepted it.  The outcomes of a service are those ThreadMode shows *)
(* for a thread that serves its own structure.                             *)
(***************************************************************************)
EXTENDS Integers, FiniteSets

CONSTANTS
  PoolSize,   \* THREAD_POOL_SIZE, config->maxConnections
  Clients     \* connections clients make

ASSUME PoolAssumption == PoolSize \in Nat \ {0} /\ Clients \in Nat

Indices == 0 .. PoolSize - 1
Paths   == SUBSET Indices

VARIABLES
  pc,        \* where each process is, "none" before it is forked
  i,         \* its copy of the loop counter
  backlog,   \* connections not yet accepted
  accepts,   \* how many calls of accept() returned a connection
  holds,     \* the connections each process has an open descriptor of
  closed,    \* connections that were answered and closed by their process
  stuck      \* processes blocked in wait() behind a CGI clone (see ServeCgi)

net  == <<backlog, accepts, closed>>
vars == <<pc, i, net, holds, stuck>>

Labels == {"none", "fork", "accept", "serve", "manage", "dead"}

TypeOK ==
  /\ pc \in [Paths -> Labels]
  /\ i \in [Paths -> 0 .. PoolSize]
  /\ backlog \in 0 .. Clients
  /\ accepts \in Nat
  /\ holds \in [Paths -> SUBSET Paths]
  /\ closed \subseteq Paths
  /\ stuck \subseteq Paths

Init ==
  /\ pc = [p \in Paths |-> IF p = {} THEN "fork" ELSE "none"]
  /\ i = [p \in Paths |-> 0]
  /\ backlog = Clients
  /\ accepts = 0
  /\ holds = [p \in Paths |-> {}]
  /\ closed = {}
  /\ stuck = {}
-----------------------------------------------------------------------------
Child(p) == p \cup {i[p]}

\* Mutants: a process forks while it serves, a child leaves the loop.
MutForksEarly(p) == pc[p] \in {"fork", "serve"} /\ i[p] < PoolSize

MutRootForks(p) == p = {} /\ pc[p] = "fork" /\ i[p] < PoolSize

\* The loop condition i < THREAD_POOL_SIZE.
Looping(p) == pc[p] = "fork" /\ i[p] < PoolSize

\* Mutant: the descriptors of connections are closed on fork.
MutNoInherit(p) ==
  /\ Looping(p)
  /\ pc' = [pc EXCEPT ![Child(p)] = "accept"]
  /\ i' = [i EXCEPT ![p] = @ + 1, ![Child(p)] = i[p]]
  /\ UNCHANGED <<net, holds, stuck>>

\* The parent's side of fork(), and the child's: it has a copy of the
\* parent's variables and descriptors and goes on to accept().
ForkChild(p) ==
  /\ Looping(p)
  /\ pc' = [pc EXCEPT ![Child(p)] = "accept"]
  /\ i' = [i EXCEPT ![p] = @ + 1, ![Child(p)] = i[p]]
  /\ holds' = [holds EXCEPT ![Child(p)] = holds[p]]
  /\ UNCHANGED <<net, stuck>>

\* A failed fork is printed and the loop goes on.
ForkFails(p) ==
  /\ Looping(p)
  /\ i' = [i EXCEPT ![p] = @ + 1]
  /\ UNCHANGED <<pc, net, holds, stuck>>

\* The manager loop: read(fd1[0], ...) on a pipe nobody writes.
EndLoop(p) ==
  /\ pc[p] = "fork" /\ i[p] = PoolSize
  /\ pc' = [pc EXCEPT ![p] = "manage"]
  /\ UNCHANGED <<i, net, holds, stuck>>

Accept(p) ==
  /\ pc[p] = "accept" /\ backlog > 0
  /\ backlog' = backlog - 1
  /\ accepts' = accepts + 1
  /\ holds' = [holds EXCEPT ![p] = @ \cup {p}]
  /\ pc' = [pc EXCEPT ![p] = "serve"]
  /\ UNCHANGED <<i, closed, stuck>>

\* Mutant: a process that has served goes back to accept().
MutContinue(p) ==
  /\ pc' = [pc EXCEPT ![p] = "accept"]
  /\ UNCHANGED i

\* The rest of the loop body and `i++'.
Continue(p) ==
  /\ pc' = [pc EXCEPT ![p] = "fork"]
  /\ i' = [i EXCEPT ![p] = @ + 1]

\* addr_size is never initialised: the kernel may take the connection, find
\* the length invalid, drop the connection and return -1.
AcceptFails(p) ==
  /\ pc[p] = "accept" /\ backlog > 0
  /\ backlog' = backlog - 1
  /\ Continue(p)
  /\ UNCHANGED <<accepts, holds, closed, stuck>>

\* serve_static answers and closes.
ServeAndClose(p) ==
  /\ pc[p] = "serve"
  /\ holds' = [holds EXCEPT ![p] = @ \ {p}]
  /\ closed' = closed \cup {p}
  /\ Continue(p)
  /\ UNCHANGED <<backlog, accepts, stuck>>

\* process_requests returns without a close(): a request that is refused,
\* malformed or incomplete, a CGI program that ran, a client that hung up.
ServeAndLeave(p) ==
  /\ pc[p] = "serve"
  /\ Continue(p)
  /\ UNCHANGED <<net, holds, stuck>>

\* serve_dynamic forks and execve() fails: the CGI child returns from
\* process_requests in the parent's place, which waits for it for ever.
ServeCgi(p) ==
  /\ pc[p] = "serve"
  /\ stuck' = stuck \cup {p}
  /\ Continue(p)
  /\ UNCHANGED <<net, holds>>

\* SIGPIPE, or a fault in the handler: only this process ends.
Die(p) ==
  /\ pc[p] = "serve"
  /\ pc' = [pc EXCEPT ![p] = "dead"]
  /\ holds' = [holds EXCEPT ![p] = {}]
  /\ UNCHANGED <<i, net, stuck>>

Serve(p) == ServeAndClose(p) \/ ServeAndLeave(p) \/ ServeCgi(p) \/ Die(p)
Loop(p)  == ForkChild(p) \/ ForkFails(p) \/ EndLoop(p)
Next == \E p \in Paths : Loop(p) \/ Accept(p) \/ AcceptFails(p) \/ Serve(p)

Spec == Init /\ [][Next]_vars

\* The kernel runs every runnable process and hands out waiting connections;
\* a service may last for ever, for a client that stays silent.
FairSpec ==
  Spec /\ \A p \in Paths : WF_vars(Loop(p)) /\ WF_vars(Accept(p) \/ AcceptFails(p))
-----------------------------------------------------------------------------
Created == {p \in Paths : pc[p] # "none"}
Active  == {p \in Paths : pc[p] \in {"accept", "serve"}}
Done    == {p \in Paths \ {{}} : pc[p] \notin {"none", "accept"}}

\* p is a or descends from a: p was forked, directly or not, by a.
Descends(p, a) == a \subseteq p /\ \A j \in p \ a : \A k \in a : k < j

\* The server accepts at most 2^N - 1 connections in its life (N the pool
\* size): a child accepts once and never returns to accept(), and although the
\* children fork too (server.c:278) each loop index is used once on a path.
AcceptsBounded == accepts <= 2^PoolSize - 1

\* At most 2^(N-1) processes wait for or serve a connection at one time: a
\* process that does has no children, and each of the others has spent itself.
ActiveBounded == Cardinality(Active) <= 2^(PoolSize - 1)

\* A close() is final: when a process has answered and closed its connection no
\* other process holds a copy of the descriptor that would keep the client
\* waiting, because a process forks only after its service returned.
ClosedEverywhere == \A c \in closed : \A p \in Paths : c \notin holds[p]

\* A connection its process left open (http_handler.c:92-115) is open in every
\* process forked below it that still runs, and in no other process: the client
\* sees the end of the connection only when that whole subtree has ended.
LeftOpenInSubtree ==
  \A p \in Created, c \in Paths :
    /\ c \in holds[p] => Descends(p, c)
    /\ c \in holds[c] /\ Descends(p, c) /\ pc[p] # "dead" => c \in holds[p]

\* A fork of p at index j was tried and failed.
Pruned == \E p \in Created, j \in Indices :
            /\ j < i[p] /\ \A k \in p : k < j
            /\ pc[p \cup {j}] = "none"
Died   == \E p \in Paths : pc[p] = "dead"

\* Unless some service never ends, a fork fails or a process dies, the server
\* goes on accepting until no client waits or all 2^N - 1 processes have had
\* their connection: the manager loop's blocked readers (server.c:293) hold up
\* no process that still has a connection to take.
PoolAcceptsToCapacity ==
  \/ <>[](\E p \in Paths : pc[p] = "serve")
  \/ <>(backlog = 0 \/ Pruned \/ Died \/ Done = Paths \ {{}})

\* "max # of server connections" (readme.txt): no more processes than that
\* serve a connection at a time.
ServesWithinMaxConnections ==
  Cardinality({p \in Paths : pc[p] = "serve"}) <= PoolSize
-----------------------------------------------------------------------------
\* A process that waits or serves was forked last at the index it waits with;
\* any other has moved past all its indices.
CounterOK ==
  \A p \in Created :
    IF p \in Active THEN i[p] \in p /\ \A k \in p : k <= i[p]
    ELSE pc[p] # "dead" => \A k \in p : k < i[p]

\* A process was forked by its parent, at an index the parent has passed.
ChildrenOK ==
  \A p \in Paths, j \in Indices :
    /\ p \cup {j} \in Created
    /\ \A k \in p : k < j
    => p \in Created /\ j < i[p]

\* The first process neither accepts nor dies.
RootOK == pc[{}] \in {"fork", "manage"}

\* Another process holds a copy of p's connection, or p's connection is closed,
\* only once p has finished its service.
HeldOK ==
  /\ \A q, c \in Paths : c \in holds[q] /\ q # c => c \in Created \ Active
  /\ closed \subseteq Created \ Active
  /\ ClosedEverywhere

IInv ==
  /\ TypeOK /\ CounterOK /\ ChildrenOK /\ RootOK /\ HeldOK
  /\ accepts <= Cardinality(Done)
=============================================================================
