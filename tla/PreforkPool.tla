------------------------------ MODULE PreforkPool ------------------------------
(***************************************************************************)
(* The adaptive pool of processes of JudaoTest/process_pool.c, whose       *)
(* manager loop server.c:285-377 repeats.  A manager forks PRECHILD        *)
(* children; a child accepts a connection, reports 'n', serves it, reports *)
(* 'f' and waits for a command.  The manager counts requests and children  *)
(* from the reports alone, forks more children when all are busy and sends *)
(* the command 'e' (exit) instead of 'c' (go on) when there are too many.  *)
(* Every child reads its commands from the same socket.                    *)
(*                                                                         *)
(* Children differ in nothing but where they are in answer(), so the state *)
(* has how many are at each place.                                         *)
(***************************************************************************)
EXTENDS Integers, Sequences, FiniteSets

CONSTANTS
  PRECHILD,   \* children forked at the start
  MAXCHILD,   \* the manager forks no more when it counts more than these
  Clients,    \* connections clients make
  MaxFailures \* bound on mayFail

ASSUME PreforkAssumption ==
  /\ PRECHILD \in Nat \ {0} /\ MAXCHILD \in Nat /\ PRECHILD <= MAXCHILD
  /\ Clients \in Nat /\ MaxFailures \in Nat

VARIABLES
  manager,    \* "prefork", "manage" or "exited"
  toFork,     \* what the first loop has left to fork
  child_num, req_num,
  \* how many children are at each place of answer():
  accepting,  \* in accept()
  accepted,   \* about to report 'n'
  serving,    \* at the request
  served,     \* about to report 'f'
  waiting,    \* reading a command
  lost,       \* how many ended between reporting 'n' and reporting 'f'
  reports,    \* the pipe fd1
  commands,   \* the socket pair fd2
  backlog,    \* connections not yet accepted
  mayFail     \* bound: how many more calls of accept() may fail

counters == <<child_num, req_num>>
children == <<accepting, accepted, serving, served, waiting>>
vars == <<manager, toFork, counters, children, lost, reports, commands, backlog, mayFail>>

\* How many of the messages in s are m.
Count(s, m) == Cardinality({k \in DOMAIN s : s[k] = m})

Live == accepting + accepted + serving + served + waiting

TypeOK ==
  /\ manager \in {"prefork", "manage", "exited"}
  /\ toFork \in 0 .. PRECHILD
  /\ child_num \in Nat /\ req_num \in Int
  /\ accepting \in Nat /\ accepted \in Nat /\ serving \in Nat
  /\ served \in Nat /\ waiting \in Nat
  /\ lost \in Nat
  /\ reports \in Seq({"n", "f"})
  /\ commands \in Seq({"c", "e"})
  /\ backlog \in 0 .. Clients /\ mayFail \in 0 .. MaxFailures

Init ==
  /\ manager = "prefork"
  /\ toFork = PRECHILD
  /\ child_num = PRECHILD /\ req_num = 0
  /\ accepting = 0 /\ accepted = 0 /\ serving = 0 /\ served = 0 /\ waiting = 0
  /\ lost = 0
  /\ reports = <<>> /\ commands = <<>>
  /\ backlog = Clients /\ mayFail \in 0 .. MaxFailures
-----------------------------------------------------------------------------
NewChild ==
  /\ accepting' = accepting + 1
  /\ UNCHANGED <<accepted, serving, served, waiting>>

\* The first loop of main.
Prefork ==
  /\ manager = "prefork" /\ toFork > 0
  /\ toFork' = toFork - 1
  /\ NewChild
  /\ UNCHANGED <<manager, counters, lost, reports, commands, backlog, mayFail>>

StartManaging ==
  /\ manager = "prefork" /\ toFork = 0
  /\ manager' = "manage"
  /\ UNCHANGED <<toFork, counters, children, lost, reports, commands, backlog, mayFail>>

\* A fork() that fails in the first loop ends the manager; its children live on.
PreforkFails ==
  /\ manager = "prefork" /\ toFork > 0
  /\ manager' = "exited"
  /\ UNCHANGED <<toFork, counters, children, lost, reports, commands, backlog, mayFail>>

Accept ==
  /\ backlog > 0
  /\ backlog' = backlog - 1
  /\ accepting > 0 /\ accepting' = accepting - 1 /\ accepted' = accepted + 1
  /\ UNCHANGED <<serving, served, waiting>>
  /\ UNCHANGED <<manager, toFork, counters, lost, reports, commands, mayFail>>

\* accept() gives -1 and leaves the connection.  Nobody looks at that: the child
\* reports 'n' all the same, and goes on with the request it read before, if any.
AcceptFails ==
  /\ backlog > 0 /\ mayFail > 0 /\ mayFail' = mayFail - 1
  /\ accepting > 0 /\ accepting' = accepting - 1 /\ accepted' = accepted + 1
  /\ UNCHANGED <<serving, served, waiting>>
  /\ UNCHANGED <<manager, toFork, counters, lost, reports, commands, backlog>>

ReportNew ==
  /\ accepted > 0 /\ accepted' = accepted - 1 /\ serving' = serving + 1
  /\ UNCHANGED <<accepting, served, waiting>>
  /\ reports' = Append(reports, "n")
  /\ UNCHANGED <<manager, toFork, counters, lost, commands, backlog, mayFail>>

\* The file is sent and the connection closed; or the answer goes nowhere.
Answer ==
  /\ serving > 0 /\ serving' = serving - 1 /\ served' = served + 1
  /\ UNCHANGED <<accepting, accepted, waiting>>
  /\ UNCHANGED <<manager, toFork, counters, lost, reports, commands, backlog, mayFail>>

\* A request other than GET, a file that is missing or cannot be opened, and
\* a write to a client that has gone end the process: it reports no 'f'.
Refuse ==
  /\ serving > 0 /\ serving' = serving - 1
  /\ UNCHANGED <<accepting, accepted, served, waiting>>
  /\ lost' = lost + 1
  /\ UNCHANGED <<manager, toFork, counters, reports, commands, backlog, mayFail>>

ReportFinish ==
  /\ served > 0 /\ served' = served - 1 /\ waiting' = waiting + 1
  /\ UNCHANGED <<accepting, accepted, serving>>
  /\ reports' = Append(reports, "f")
  /\ UNCHANGED <<manager, toFork, counters, lost, commands, backlog, mayFail>>

\* The next command is for whichever child reads it.
ReadContinue ==
  /\ commands # <<>> /\ Head(commands) = "c"
  /\ commands' = Tail(commands)
  /\ waiting > 0 /\ waiting' = waiting - 1 /\ accepting' = accepting + 1
  /\ UNCHANGED <<accepted, serving, served>>
  /\ UNCHANGED <<manager, toFork, counters, lost, reports, backlog, mayFail>>

ReadExit ==
  /\ commands # <<>> /\ Head(commands) = "e"
  /\ commands' = Tail(commands)
  /\ waiting > 0 /\ waiting' = waiting - 1
  /\ UNCHANGED <<accepting, accepted, serving, served>>
  /\ UNCHANGED <<manager, toFork, counters, lost, reports, backlog, mayFail>>

\* The manager takes a report m off the pipe.
Receive(m) ==
  /\ manager = "manage"
  /\ reports # <<>> /\ Head(reports) = m
  /\ reports' = Tail(reports)

\* Mutants: a request that brings a new child is not counted; the test is made
\* before the count.
MutHandleNewElse ==
  /\ Receive("n")
  /\ IF req_num + 1 >= child_num /\ child_num <= MAXCHILD
       THEN child_num' = child_num + 1 /\ NewChild /\ UNCHANGED req_num
       ELSE req_num' = req_num + 1 /\ UNCHANGED <<child_num, children>>
  /\ UNCHANGED <<manager, toFork, lost, commands, backlog, mayFail>>
MutHandleNewLate ==
  /\ Receive("n")
  /\ req_num' = req_num + 1
  /\ IF req_num >= child_num /\ child_num <= MAXCHILD
       THEN child_num' = child_num + 1 /\ NewChild
       ELSE UNCHANGED <<child_num, children>>
  /\ UNCHANGED <<manager, toFork, lost, commands, backlog, mayFail>>

\* 'n': one request more; a new child when every child has one.
HandleNew ==
  /\ Receive("n")
  /\ req_num' = req_num + 1
  /\ IF req_num + 1 >= child_num /\ child_num <= MAXCHILD
       THEN child_num' = child_num + 1 /\ NewChild
       ELSE UNCHANGED <<child_num, children>>
  /\ UNCHANGED <<manager, toFork, lost, commands, backlog, mayFail>>

\* The same, when fork() fails.
HandleNewFails ==
  /\ Receive("n")
  /\ req_num + 1 >= child_num /\ child_num <= MAXCHILD
  /\ req_num' = req_num + 1
  /\ manager' = "exited"
  /\ UNCHANGED <<toFork, child_num, children, lost, commands, backlog, mayFail>>

\* Mutants: no command to a child of a pool of the least size; `>=' for `>'.
MutHandleFinishSilent ==
  /\ Receive("f")
  /\ req_num' = req_num - 1
  /\ IF child_num > req_num /\ child_num > PRECHILD
       THEN child_num' = child_num - 1 /\ commands' = Append(commands, "e")
       ELSE UNCHANGED <<child_num, commands>>
  /\ UNCHANGED <<manager, toFork, children, lost, backlog, mayFail>>
MutHandleFinishShrinks ==
  /\ Receive("f")
  /\ req_num' = req_num - 1
  /\ IF child_num > req_num /\ child_num >= PRECHILD
       THEN child_num' = child_num - 1 /\ commands' = Append(commands, "e")
       ELSE UNCHANGED child_num /\ commands' = Append(commands, "c")
  /\ UNCHANGED <<manager, toFork, children, lost, backlog, mayFail>>

\* 'f': one request less; the child that reads the command exits when more than
\* one child is idle and the pool is above its least size.
HandleFinish ==
  /\ Receive("f")
  /\ req_num' = req_num - 1
  /\ IF child_num > req_num /\ child_num > PRECHILD
       THEN child_num' = child_num - 1 /\ commands' = Append(commands, "e")
       ELSE UNCHANGED child_num /\ commands' = Append(commands, "c")
  /\ UNCHANGED <<manager, toFork, children, lost, backlog, mayFail>>

ManagerStep ==
  Prefork \/ StartManaging \/ PreforkFails \/ HandleNew \/ HandleNewFails \/ HandleFinish
Report  == ReportNew \/ ReportFinish
Command == ReadContinue \/ ReadExit
Service == Answer \/ Refuse

Next == ManagerStep \/ Accept \/ AcceptFails \/ Report \/ Command \/ Service

Spec == Init /\ [][Next]_vars

\* The kernel runs every process that can run, and wakes an accept() when a
\* connection waits; a service may last for ever, for a silent client.
FairSpec ==
  /\ Spec
  /\ WF_vars(ManagerStep) /\ WF_vars(Accept)
  /\ WF_vars(ReportNew) /\ WF_vars(ReportFinish) /\ WF_vars(Command)
-----------------------------------------------------------------------------
\* The manager's count of requests is, but for the reports on their way, the
\* children that serve one plus those that died serving: a child that exits at
\* process_pool.c:78, 90 or 101 is counted as busy for ever.
RequestsAccounted ==
  req_num + Count(reports, "n") - Count(reports, "f")
    = serving + served + lost

\* The manager's count of children is, but for the commands on their way, the
\* living children plus those that died serving.
ChildrenAccounted ==
  child_num + Count(commands, "e") = Live + lost + toFork

\* Each child that waits for a command has one coming: its report is in the
\* pipe or a command is in the socket, though any child may read any command.
CommandsAccounted ==
  waiting = Count(reports, "f") + Len(commands)

\* The manager never counts more than one child above MAXCHILD, nor fewer than
\* PRECHILD, whatever order the reports arrive in.
PoolWithinLimits == child_num \in PRECHILD .. MAXCHILD + 1

\* When the manager has handled all it was told and is not at its limit, a
\* child is in or about to leave accept(): no client waits for another's answer.
AcceptorLeft ==
  /\ manager = "manage" /\ child_num <= MAXCHILD
  /\ reports = <<>> /\ commands = <<>>
  => accepting + accepted > 0

\* Unless the manager exits, all clients are accepted or MAXCHILD + 1 children
\* are stuck with silent clients or dead.
ClientsAccepted ==
  <>(\/ backlog = 0 \/ manager = "exited"
     \/ serving + lost > MAXCHILD)

\* One child is not busy, or the pool is as large as it gets.
SpareCounted == req_num < child_num \/ child_num = MAXCHILD + 1

IInv ==
  /\ TypeOK
  /\ RequestsAccounted /\ ChildrenAccounted /\ CommandsAccounted
  /\ PoolWithinLimits
  /\ manager # "exited" => SpareCounted
  /\ manager = "manage" => toFork = 0
=============================================================================
