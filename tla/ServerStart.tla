----------------------------- MODULE ServerStart -----------------------------
(***************************************************************************)
(* From the start of main() to the serving threads or processes, and the   *)
(* log they write all the while: init_logfile(), write_to_logfile(), the   *)
(* loop that measures the 404 page, the set-up of the socket.  Several     *)
(* servers (on different ports) may share one log, and each has its own    *)
(* descriptor table, which its threads share and its processes copy.       *)
(*                                                                         *)
(* An actor is a server's first process or thread, named like the server,  *)
(* or one of its workers.  The log is a sequence of writes, the k-th of    *)
(* actor a being <<a, k>>; an entry is two writes, the time and the text.  *)
(***************************************************************************)
EXTENDS Naturals, Sequences, FiniteSets

CONSTANTS
  Servers,
  Workers,     \* their threads or child processes
  Setups,      \* configurations: of each server, whether it is launched, its
               \* server_mode, its max-connections and names for its workers
  None,        \* no descriptor (-1)
  Limits,      \* how many descriptors a process may have
  Blocks,      \* reads the 404 page takes
  Width,       \* width of size_t, in bits
  MaxClients,  \* bound on the calls of accept() that return
  MaxFailures  \* bound on mayFail

Actors == Servers \cup Workers
Setup  == [launched : BOOLEAN, mode : {"threads", "processes", "other"},
           size : Nat, team : SUBSET Workers]

ASSUME ActorsAssumption ==
  IsFiniteSet(Workers) /\ Servers \cap Workers = {} /\ None \notin Actors
ASSUME SetupsAssumption ==
  /\ Setups \subseteq [Servers -> Setup]
  /\ \A c \in Setups : \A r, s \in Servers : r # s => c[r].team \cap c[s].team = {}
ASSUME SizesAssumption ==
  /\ Limits \subseteq Nat /\ Width \in Nat \ {0}
  /\ MaxClients \in Nat /\ MaxFailures \in Nat
  /\ Blocks \in 0 .. 2 ^ Width - 1

VARIABLES
  config,    \* the configuration of each server
  limit,     \* descriptors a process may have, the standard ones not counted
  mayFail,   \* bound: how many calls on the log may fail for a reason outside
  existed,   \* history: whether the log was there at first
  failures,  \* history: how many opens, creats and writes of the log failed
             \* although there was a descriptor for them
  log,       \* the log: whether it exists, and its writes
  ofd,       \* ofd[a]: the open file a's init_logfile gave: O_APPEND, offset
  fd,        \* fd[a]: the actor whose open file a's descriptor refers to
  global,    \* global[a]: fd_log of http_handler.c in the memory of a
  entry,     \* entry[a]: the descriptor the entry being written goes to
  used,      \* used[a]: descriptors in use in a's process
  size404,   \* size404[a]: filesize404
  fd404,     \* fd404[a]: whether open() found the 404 page
  written,   \* history: written[a]: how many writes a has made
  dropped,   \* history: actors that had an entry and no descriptor
  turn,      \* turn[a]: the turn of the loop that starts the workers
  clients,   \* calls of accept() that may still return
  conn,      \* conn[a]: whether a's accept() gave a connection
  told,      \* told[a]: whether a has begun the second entry of its connection
  pc

files   == <<log, ofd, fd, written, failures>>
setup   == <<config, limit, mayFail, existed>>
service == <<clients, conn, told>>
vars    == <<setup, files, global, entry, used, size404, fd404, dropped, turn, service, pc>>

\* The process a runs in, by the actor that it began with.
ThreadOf(a, s) == config[s].mode = "threads" /\ a \in config[s].team
Process(a) == IF \E s \in Servers : ThreadOf(a, s)
                THEN CHOOSE s \in Servers : ThreadOf(a, s) ELSE a
Old == <<None, 1>>   \* what an earlier run left in the log

Init ==
  /\ config \in Setups /\ limit \in Limits /\ existed \in BOOLEAN
  /\ mayFail \in 0 .. MaxFailures /\ clients \in 0 .. MaxClients
  /\ log = [exists |-> existed, writes |-> IF existed THEN <<Old>> ELSE <<>>]
  /\ ofd = [a \in Actors |-> [append |-> FALSE, offset |-> 0]]
  /\ fd = [a \in Actors |-> None] /\ entry = [a \in Actors |-> None]
  /\ global = [a \in Actors |-> None]
  /\ used = [a \in Actors |-> 0] /\ size404 = [a \in Actors |-> 0]
  /\ fd404 = [a \in Actors |-> FALSE] /\ turn = [a \in Actors |-> 0]
  /\ conn = [a \in Actors |-> FALSE] /\ told = [a \in Actors |-> FALSE]
  /\ written = [a \in Actors |-> 0] /\ dropped = {} /\ failures = 0
  /\ pc = [a \in Actors |-> IF a \in Servers /\ config[a].launched THEN "open log" ELSE "off"]
-----------------------------------------------------------------------------
Goto(a, l) == pc' = [pc EXCEPT ![a] = l]

HasRoom(a) == used[Process(a)] < limit
Take(a) == used' = [used EXCEPT ![Process(a)] = @ + 1]
GiveBack(a) == used' = [used EXCEPT ![Process(a)] = @ - 1]

\* A call on the log fails: no matter without a descriptor, a failure else.
Fail(a) ==
  IF HasRoom(a) THEN failures < mayFail /\ failures' = failures + 1
                ELSE UNCHANGED failures

(* init_logfile, after which main writes its first entry *)
Logged(a) == IF a \in Servers THEN "time" ELSE "serve"

MutOpenLog(a) ==   \* opened without O_APPEND
  /\ pc[a] = "open log" /\ log.exists /\ HasRoom(a)
  /\ ofd' = ofd /\ fd' = [fd EXCEPT ![a] = a]
  /\ entry' = [entry EXCEPT ![a] = a]
  /\ Take(a) /\ Goto(a, Logged(a))
  /\ UNCHANGED <<setup, log, written, failures, global, size404, fd404, dropped, turn, service>>

MutTruncate(a) ==   \* creat() without an open() before it
  /\ pc[a] = "open log" /\ Goto(a, "creat log")
  /\ UNCHANGED <<setup, files, global, entry, used, size404, fd404, dropped, turn, service>>

OpenLog(a) ==
  /\ pc[a] = "open log" /\ log.exists /\ HasRoom(a)
  /\ ofd' = [ofd EXCEPT ![a] = [append |-> TRUE, offset |-> 0]]
  /\ fd' = [fd EXCEPT ![a] = a]
  /\ entry' = [entry EXCEPT ![a] = a]
  /\ Take(a) /\ Goto(a, Logged(a))
  /\ UNCHANGED <<setup, log, written, failures, global, size404, fd404, dropped, turn, service>>

\* open() finds no log, or fails though there is one.
OpenFails(a) ==
  /\ pc[a] = "open log" /\ Goto(a, "creat log")
  /\ IF log.exists THEN Fail(a) ELSE UNCHANGED failures
  /\ UNCHANGED <<setup, log, ofd, fd, written, global, entry, used, size404, fd404, dropped,
                 turn, service>>

MutCreatLog(a) ==   \* the close() after the return comes before it
  /\ pc[a] = "creat log" /\ HasRoom(a)
  /\ log' = [exists |-> TRUE, writes |-> <<>>]
  /\ Goto(a, Logged(a))
  /\ UNCHANGED <<setup, ofd, fd, entry, used, written, failures, global, size404, fd404, dropped,
                 turn, service>>

\* creat() truncates what is there, and gives a descriptor without O_APPEND.
CreatLog(a) ==
  /\ pc[a] = "creat log" /\ HasRoom(a)
  /\ log' = [exists |-> TRUE, writes |-> <<>>]
  /\ ofd' = [ofd EXCEPT ![a] = [append |-> FALSE, offset |-> 0]]
  /\ fd' = [fd EXCEPT ![a] = a]
  /\ entry' = [entry EXCEPT ![a] = a]
  /\ Take(a) /\ Goto(a, Logged(a))
  /\ UNCHANGED <<setup, written, failures, global, size404, fd404, dropped, turn, service>>

CreatFails(a) ==
  /\ pc[a] = "creat log" /\ Fail(a)
  /\ Goto(a, Logged(a))
  /\ UNCHANGED <<setup, log, ofd, fd, written, global, entry, used, size404, fd404, dropped,
                 turn, service>>
-----------------------------------------------------------------------------
(* write_to_logfile *)
Hole == <<None, 0>>   \* bytes that are no whole write

\* w is put through d: at the end, or at the offset of d.
Put(d, w) ==
  LET n  == Len(log.writes)
      at == IF ofd[d].append THEN n + 1 ELSE ofd[d].offset + 1
  IN
    /\ log' = [log EXCEPT !.writes =
                 [i \in 1 .. (IF at > n THEN at ELSE n) |->
                    IF i = at THEN w ELSE IF i <= n THEN @[i] ELSE Hole]]
    /\ ofd' = [ofd EXCEPT ![d].offset = at]

\* One write() of a through d, whose result is not looked at: it may also fail,
\* or put only a part.
Write(a, d) ==
  /\ written' = [written EXCEPT ![a] = @ + 1]
  /\ \/ Put(d, <<a, written[a] + 1>>) /\ UNCHANGED failures
     \/ /\ failures < mayFail /\ failures' = failures + 1
        /\ Put(d, Hole) \/ UNCHANGED <<log, ofd>>

WriteTime(a) ==
  /\ pc[a] = "time" /\ entry[a] # None
  /\ Write(a, entry[a])
  /\ Goto(a, "text")
  /\ UNCHANGED <<setup, fd, global, entry, used, size404, fd404, dropped, turn, service>>

\* What follows an entry: main goes on; a worker has written the address of
\* its client and calls process_requests, or has logged the request there.
EndEntry(a) ==
  Goto(a, IF a \in Servers THEN "open 404" ELSE IF told[a] THEN "answer" ELSE "store")

WriteText(a) ==
  /\ pc[a] = "text"
  /\ Write(a, entry[a])
  /\ EndEntry(a)
  /\ UNCHANGED <<setup, fd, global, entry, used, size404, fd404, dropped, turn, service>>

DropEntry(a) ==
  /\ pc[a] = "time" /\ entry[a] = None
  /\ dropped' = dropped \cup {a}
  /\ EndEntry(a)
  /\ UNCHANGED <<setup, files, global, entry, used, size404, fd404, turn, service>>
-----------------------------------------------------------------------------
(* The size of the 404 page, measured by main and again by every thread *)
Open404(a) ==
  /\ pc[a] = "open 404" /\ Goto(a, "read 404")
  /\ \/ HasRoom(a) /\ Take(a) /\ fd404' = [fd404 EXCEPT ![a] = TRUE]
     \/ UNCHANGED <<used, fd404>>
  /\ UNCHANGED <<setup, files, global, entry, size404, dropped, turn, service>>

MutRead404(a) ==   \* the loop goes on while flag >= 0
  /\ pc[a] = "read 404" /\ size404' = size404 /\ pc' = pc
  /\ UNCHANGED <<setup, files, global, entry, used, fd404, dropped, turn, service>>

\* One turn of the loop: flag is a size_t, so that -1 is a large number.
Read404(a) ==
  /\ pc[a] = "read 404"
  /\ LET flag == IF ~fd404[a] THEN 2 ^ Width - 1 ELSE IF size404[a] < Blocks THEN 1 ELSE 0 IN
       IF flag > 0
         THEN size404' = [size404 EXCEPT ![a] = (@ + flag) % 2 ^ Width] /\ UNCHANGED pc
         ELSE Goto(a, IF a \in Servers THEN "socket" ELSE "open log") /\ UNCHANGED size404
  /\ UNCHANGED <<setup, files, global, entry, used, fd404, dropped, turn, service>>
-----------------------------------------------------------------------------
(* main *)
\* socket, bind and listen, each with its check(), and the pipes of mode 2.
Needs(s) == IF config[s].mode = "processes" THEN 5 ELSE 1

MutListen(s) ==   \* what socket() and pipe() return is not looked at
  /\ pc[s] = "socket"
  /\ used' = [used EXCEPT ![s] = @ + Needs(s)]
  /\ Goto(s, IF config[s].mode = "other" THEN "ended" ELSE "spawn")
  /\ UNCHANGED <<setup, files, global, entry, size404, fd404, dropped, turn, service>>

Listen(s) ==
  /\ pc[s] = "socket" /\ used[s] + Needs(s) <= limit
  /\ used' = [used EXCEPT ![s] = @ + Needs(s)]
  /\ Goto(s, IF config[s].mode = "other" THEN "ended" ELSE "spawn")
  /\ UNCHANGED <<setup, files, global, entry, size404, fd404, dropped, turn, service>>

CheckFails(s) ==
  /\ pc[s] = "socket" /\ Goto(s, "ended")
  /\ UNCHANGED <<setup, files, global, entry, used, size404, fd404, dropped, turn, service>>

\* The server whose loop a is in: main, or a child that has served.
Leads(s, a) == pc[a] = "spawn" /\ (a = s \/ a \in config[s].team)
NextTurn(a) == turn' = [turn EXCEPT ![a] = @ + 1]

\* pthread_create: the thread begins with the 404 page.
CreateThread(s) ==
  /\ pc[s] = "spawn" /\ config[s].mode = "threads" /\ turn[s] < config[s].size
  /\ \E w \in config[s].team : pc[w] = "off" /\ Goto(w, "open 404")
  /\ NextTurn(s)
  /\ UNCHANGED <<setup, files, global, entry, used, size404, fd404, dropped, service>>

\* fork: the child has copies of descriptors and memory, the turn of the loop
\* with it, and shares the offset of the log.
ForkChild(a) ==
  /\ \E s \in Servers :
       /\ Leads(s, a) /\ config[s].mode = "processes" /\ turn[a] < config[s].size
       /\ \E w \in config[s].team :
            /\ pc[w] = "off" /\ Goto(w, "serve")
            /\ fd' = [fd EXCEPT ![w] = fd[a]]
            /\ global' = [global EXCEPT ![w] = global[a]]
            /\ used' = [used EXCEPT ![w] = used[a]]
            /\ size404' = [size404 EXCEPT ![w] = size404[a]]
            /\ turn' = [turn EXCEPT ![a] = @ + 1, ![w] = turn[a]]
  /\ UNCHANGED <<setup, log, ofd, written, failures, entry, fd404, dropped, service>>

\* pthread_create() or fork() fails, and the loop goes on.
StartFails(a) ==
  /\ \E s \in Servers : Leads(s, a) /\ turn[a] < config[s].size
  /\ NextTurn(a)
  /\ UNCHANGED <<setup, files, global, entry, used, size404, fd404, dropped, service, pc>>

EndSpawn(a) ==
  /\ \E s \in Servers : Leads(s, a) /\ turn[a] >= config[s].size
  /\ Goto(a, "run")
  /\ UNCHANGED <<setup, files, global, entry, used, size404, fd404, dropped, turn, service>>
-----------------------------------------------------------------------------
(* The workers *)
Ready(w) == pc[w] \in {"serve", "store", "request", "answer", "time", "text"}

\* accept() gives a connection or -1, which nobody looks at yet, and the worker
\* logs the address of the client.
Accept(w) ==
  /\ pc[w] = "serve" /\ clients > 0 /\ clients' = clients - 1
  /\ \/ HasRoom(w) /\ Take(w) /\ conn' = [conn EXCEPT ![w] = TRUE]
     \/ UNCHANGED used /\ conn' = [conn EXCEPT ![w] = FALSE]
  /\ told' = [told EXCEPT ![w] = FALSE]
  /\ entry' = [entry EXCEPT ![w] = fd[w]]
  /\ Goto(w, "time")
  /\ UNCHANGED <<setup, files, global, size404, fd404, dropped, turn>>

\* process_requests stores the descriptor of its request in a global; the
\* request a thread took from the queue may be the one of another thread.
StoreLog(w) ==
  /\ pc[w] = "store"
  /\ \E v \in Workers :
       /\ Process(v) = Process(w) /\ Ready(v)
       /\ global' = [global EXCEPT ![Process(w)] = fd[v]]
  /\ Goto(w, "request")
  /\ UNCHANGED <<setup, files, entry, used, size404, fd404, dropped, turn, service>>

\* The request has been read, or there is no connection: the entry that says so
\* goes where the global now says.
LogRequest(w) ==
  /\ pc[w] = "request"
  /\ entry' = [entry EXCEPT ![w] = global[Process(w)]]
  /\ told' = [told EXCEPT ![w] = TRUE]
  /\ Goto(w, "time")
  /\ UNCHANGED <<setup, files, global, used, size404, fd404, dropped, turn, clients, conn>>

\* process_requests returns: a thread accepts again, a child is in the loop of
\* main, in the turn it was forked in.
Return(w) ==
  IF Process(w) = w THEN Goto(w, "spawn") /\ NextTurn(w)
                    ELSE Goto(w, "serve") /\ UNCHANGED turn

\* read() fails, or accept() had nothing (EAGAIN): there is no entry, and a
\* connection stays open.
GiveUp(w) ==
  /\ pc[w] = "request" /\ Return(w)
  /\ conn' = [conn EXCEPT ![w] = FALSE]
  /\ UNCHANGED <<setup, files, global, entry, used, size404, fd404, dropped, clients, told>>

\* The answer, after which not every connection is closed.
Answer(w) ==
  /\ pc[w] = "answer" /\ Return(w)
  /\ conn' = [conn EXCEPT ![w] = FALSE]
  /\ UNCHANGED used \/ (conn[w] /\ GiveBack(w))
  /\ UNCHANGED <<setup, files, global, entry, size404, fd404, dropped, clients, told>>

\* A client has hung up: the SIGPIPE ends the process, with all its threads.
Die(w) ==
  /\ pc[w] = "answer" /\ conn[w]
  /\ pc' = [a \in Actors |-> IF Process(a) = Process(w) THEN "dead" ELSE pc[a]]
  /\ UNCHANGED <<setup, files, global, entry, used, size404, fd404, dropped, turn, service>>
-----------------------------------------------------------------------------
Log(a) ==
  \/ OpenLog(a) \/ OpenFails(a) \/ CreatLog(a) \/ CreatFails(a)
  \/ WriteTime(a) \/ WriteText(a) \/ DropEntry(a)
Main(s) == Listen(s) \/ CheckFails(s) \/ CreateThread(s)
Start(a) == ForkChild(a) \/ StartFails(a) \/ EndSpawn(a)
Proceed(a) ==
  \/ Log(a) \/ Open404(a) \/ Read404(a) \/ Start(a)
  \/ a \in Servers /\ Main(a)
  \/ a \in Workers /\ StoreLog(a)

\* What a client has a part in.
Serve(w) == Accept(w) \/ LogRequest(w) \/ GiveUp(w) \/ Answer(w) \/ Die(w)

Next ==
  \/ \E a \in Actors : Proceed(a)
  \/ \E w \in Workers : Serve(w)

Spec == Init /\ [][Next]_vars

\* Processes and threads are scheduled; clients may be silent.
Fairness == \A a \in Actors : WF_vars(Proceed(a))
FairSpec == Spec /\ Fairness
-----------------------------------------------------------------------------
(* Properties *)
Labels == {"off", "open log", "creat log", "time", "text", "open 404", "read 404", "socket",
           "spawn", "run", "ended", "dead", "serve", "store", "request", "answer"}

TypeOK ==
  /\ config \in Setups /\ limit \in Limits /\ existed \in BOOLEAN
  /\ mayFail \in 0 .. MaxFailures /\ failures \in 0 .. MaxFailures /\ clients \in 0 .. MaxClients
  /\ log \in [exists : BOOLEAN, writes : Seq((Actors \cup {None}) \X Nat)]
  /\ ofd \in [Actors -> [append : BOOLEAN, offset : Nat]]
  /\ fd \in [Actors -> Actors \cup {None}] /\ entry \in [Actors -> Actors \cup {None}]
  /\ global \in [Actors -> Actors \cup {None}]
  /\ used \in [Actors -> 0 .. limit] /\ size404 \in [Actors -> 0 .. 2 ^ Width - 1]
  /\ fd404 \in [Actors -> BOOLEAN] /\ turn \in [Actors -> Nat]
  /\ conn \in [Actors -> BOOLEAN] /\ told \in [Actors -> BOOLEAN]
  /\ written \in [Actors -> Nat] /\ dropped \subseteq Actors
  /\ pc \in [Actors -> Labels]

\* For a server of threads the log, the 404 page and the socket of main, and for
\* every thread the log, the 404 page (which nobody closes) and its connections;
\* for the others the log, before everything else.
Enough(s) ==
  limit >= IF config[s].mode = "threads"
             THEN 3 + 2 * Cardinality(config[s].team) + MaxClients ELSE 1

AllEnough == \A s \in Servers : Enough(s)

Alone(s) == \A r \in Servers \ {s} : ~config[r].launched

\* Where the writes of a are in the log, and how many there should be; those
\* of None are what an earlier run left.
WritesOf(a) == {i \in DOMAIN log.writes : log.writes[i][1] = a}
Wrote(a)    == IF a = None THEN IF existed THEN 1 ELSE 0 ELSE written[a]

\* The log has every write of every thread and process once and in order, and
\* what it had before: nothing is lost or overwritten, whoever writes at once.
AllInOrder ==
  \A a \in Actors \cup {None} :
    /\ {log.writes[i] : i \in WritesOf(a)} = {<<a, k>> : k \in 1 .. Wrote(a)}
    /\ \A i, j \in WritesOf(a) : i < j => log.writes[i][2] < log.writes[j][2]

\* So it is kept as long as every process has descriptors enough, no call on the
\* log has failed, and there was a log to append to or only one server started.
Orderly ==
  /\ AllEnough /\ failures = 0
  /\ existed \/ \E s \in Servers : Alone(s)

LogKept == Orderly => AllInOrder

\* Seen from outside it is until then a log that is only appended to, one whole
\* write after the other, although an open file may have no O_APPEND and several
\* actors may share it: no step truncates the log, writes over it or leaves a hole.
AppendOnly == INSTANCE AppendLog WITH
                Writers <- Actors, Earlier <- Old,
                writes  <- log.writes, spoiled <- ~Orderly

ImplementsLog == AppendOnly!Spec

\* Until an open or a creat of the log fails no entry is dropped while there are
\* descriptors enough, although the descriptor comes from a global all threads
\* store to.
NoEntryDropped == AllEnough /\ failures = 0 => dropped = {}

\* a calls read() with -1 for ever.
Measuring(a) == pc[a] = "read 404" /\ ~fd404[a]

\* Every server that is launched ends, or is killed, or measures a page it could
\* not open for ever, or has started its workers: each thread then is dead, or
\* measures for ever, or serves with the size of the page, and so does each
\* child that is not waiting for reports as main is (server.c:107-110, 226-287).
AllServe ==
  \A s \in Servers :
    config[s].launched =>
      <>(\/ pc[s] \in {"ended", "dead"} \/ Measuring(s)
         \/ /\ pc[s] = "run"
            /\ \A w \in config[s].team :
                 \/ pc[w] \in {"off", "dead", "run"} \/ Measuring(w)
                 \/ Ready(w) /\ size404[w] = Blocks)
-----------------------------------------------------------------------------
(* The inductive invariant *)
Logging(a) == pc[a] \in {"open log", "creat log"}
Writing(a) == pc[a] \in {"time", "text"}

\* What main and the workers can be doing: workers run for a server that has
\* come to start them, in the steps of its mode.
StepsOK ==
  /\ \A a \in Actors : pc[a] = "text" => entry[a] # None
  /\ \A s \in Servers : Logging(s) => entry[s] = None
  /\ \A s \in Servers :
       /\ pc[s] \notin {"serve", "store", "request", "answer"}
       /\ pc[s] = "off" <=> ~config[s].launched
  /\ \A w \in Workers :
       /\ pc[w] \notin {"socket", "ended"}
       /\ conn[w] => pc[w] # "off"
       /\ pc[w] # "off" =>
            \E s \in Servers :
              /\ w \in config[s].team
              /\ \/ /\ config[s].mode = "threads"
                    /\ pc[w] \notin {"spawn", "run"}
                    /\ pc[s] \in {"spawn", "run"} \/ (pc[s] = "dead" /\ pc[w] = "dead")
                 \/ /\ config[s].mode = "processes"
                    /\ Ready(w) \/ pc[w] \in {"spawn", "run", "dead"}
                    /\ pc[s] \in {"spawn", "run"}

\* Workers of process p that have a connection in hand.
Holding(p) == {w \in Workers : Process(w) = p /\ conn[w]}

\* How many descriptors main of s, and a thread, may have taken, those of
\* connections not counted.
MainTook(s) ==
  CASE pc[s] \in {"off", "open log", "creat log"} -> 0
    [] pc[s] \in {"time", "text", "open 404"} -> 1
    [] pc[s] \in {"read 404", "socket"} -> 2
    [] OTHER -> 3
ThreadTook(w) ==
  CASE pc[w] \in {"off", "open 404"} -> 0
    [] pc[w] \in {"read 404", "open log", "creat log"} -> 1
    [] OTHER -> 2
TeamTook(s) == {t \in config[s].team \X (1 .. 2) : t[2] <= ThreadTook(t[1])}

\* The descriptors in use in a process are those its connections, and no more
\* than main and its threads have taken.
UsedOK ==
  /\ \A a \in Actors : Cardinality(Holding(a)) <= used[a]
  /\ \A s \in Servers :
       /\ pc[s] \notin {"spawn", "run", "ended", "dead"} => used[s] <= MainTook(s)
       /\ config[s].mode = "threads" =>
            used[s] <= MainTook(s) + Cardinality(TeamTook(s)) + (MaxClients - clients)

\* Unless a call on the log has failed, and with descriptors enough, everyone
\* has one for the log once it has been opened, so that no entry is dropped.
OpenedOK ==
  AllEnough /\ failures = 0 =>
    /\ \A a \in Actors : Writing(a) => entry[a] # None
    /\ \A w \in Workers : Ready(w) \/ pc[w] = "spawn" => fd[w] # None
    /\ \A s \in Servers : pc[s] # "off" /\ ~Logging(s) => fd[s] # None
    /\ \A w \in Workers : pc[w] = "request" => global[Process(w)] # None
    /\ dropped = {}

\* Who has measured the 404 page, and has its size.
Measured(a) ==
  IF a \in Servers THEN pc[a] \in {"socket", "spawn", "run"}
                   ELSE Ready(a) \/ Logging(a) \/ pc[a] \in {"spawn", "run"}

\* Nobody goes past the loop without the size of the 404 page.
SizeKnown == \A a \in Actors : Measured(a) => size404[a] = Blocks

\* So far no reading has gone past the end of the page.
PageOK ==
  \A a \in Actors :
    pc[a] \notin {"ended", "dead"} /\ ~Measured(a) =>
      IF pc[a] = "read 404" THEN fd404[a] => size404[a] <= Blocks ELSE size404[a] = 0

\* The open files that may be written through: those that workers use or will
\* use, and that the entry of a main goes to.
Held ==
  {d \in Actors :
     \/ \E w \in Workers : fd[w] = d \/ (Writing(w) /\ entry[w] = d)
     \/ \E s \in Servers : config[s].mode = "processes" /\ fd[s] = d
     \/ \E a \in Actors : global[a] = d}
InUse == Held \cup {d \in Actors : \E s \in Servers : Writing(s) /\ entry[s] = d}

\* Only a server that is alone and found no log creates one. The open file it
\* then has, without O_APPEND, is the only one in use, its offset is the end of
\* the log, and no thread uses it.
AppendOK ==
  Orderly =>
    /\ existed => log.exists
    /\ ~log.exists => InUse = {} /\ log.writes = <<>>
    /\ \A a \in Actors : pc[a] = "creat log" => ~log.exists /\ a \in Servers
    /\ \A d \in InUse :
         \/ ofd[d].append
         \/ ~existed /\ ofd[d].offset = Len(log.writes) /\ InUse = {d}
    /\ ~existed => \A s \in Servers : pc[s] # "off" =>
         /\ log.exists <=> ~Logging(s)
         /\ config[s].mode = "threads" => \A d \in Held : ofd[d].append

IInv == /\ TypeOK /\ StepsOK /\ UsedOK /\ OpenedOK
        /\ PageOK /\ SizeKnown /\ AppendOK /\ LogKept
=============================================================================
