------------------------------ MODULE ServeFile ------------------------------
(***************************************************************************)
(* What http_handler.c does from process_header_end() on: it looks the     *)
(* file up, and sends it from a mapping (serve_static) or runs it as a     *)
(* program (serve_dynamic).  Each thread serves one request.  The threads  *)
(* share the descriptor table of the process, its children, and the files, *)
(* which somebody else may rewrite or remove at any moment.                *)
(*                                                                         *)
(* A file is a number of units of data; Page of them are a page of         *)
(* memory, and MaxInt of them are the most an int can count.  Rewriting a  *)
(* file changes its version and perhaps its size.  The client of every     *)
(* thread reads what it is sent until it goes away.                        *)
(***************************************************************************)
EXTENDS Integers, Sequences, FiniteSets

CONSTANTS
  Threads,
  Uris,        \* what clients ask for
  MaxFds,      \* descriptors left for files
  Sizes,       \* bound: the numbers of units a file may have,
  FirstSizes,  \* bound: and those it may have when the server starts
  Page,
  MaxInt,
  MaxChanges   \* bound: changes of files while the server runs

ASSUME ThreadsAssumption == IsFiniteSet(Threads)
ASSUME UrisAssumption == Uris \subseteq {"/page", "/", "/cgi-bin/prog"}
ASSUME SizesAssumption ==
  /\ MaxFds \in Nat /\ FirstSizes \subseteq Sizes /\ Sizes \subseteq Nat /\ Page \in Nat \ {0}
  /\ MaxInt \in Nat /\ MaxChanges \in Nat

VARIABLES
  file,      \* the files by name
  size404,   \* filesize404: the size of the 404 page when the server started
  changes,   \* how often a file has been changed
  free,      \* free descriptors
  pc,        \* pc[t]: the next step of thread t
  job,       \* job[t]: the locals of thread t
  got,       \* got[t]: what the client of t has received
  child,     \* child[t]: the CGI child forked by t
  alive      \* FALSE once a signal has ended the process

vars == <<file, size404, changes, free, pc, job, got, child, alive>>

Locate == [x \in {"/page", "/", "/cgi-bin/prog"} |->
             CASE x = "/page" -> "page" [] x = "/" -> "index.html" [] OTHER -> "prog"]

Names == {Locate[u] : u \in Uris} \cup {"404"}
Kinds == {"missing", "special", "plain"}   \* special: what may not be read, or run
Files == [kind : Kinds, size : Sizes, version : 0 .. MaxChanges]
FirstFiles ==
  {f \in Files : f.size \in FirstSizes /\ f.version = 0 /\ (f.kind # "plain" => f.size = 0)}
NoBody == <<>>
Zero == MaxChanges + 1   \* the version of what is no data of the file
Output == <<0, 0>>       \* what a CGI program writes

\* An off_t or a size_t passed as the int filesize of serve_static.
Ints == -(MaxInt + 1) .. MaxInt
Wide(n) == n % (2 * (MaxInt + 1))
ToInt(n) == IF Wide(n) <= MaxInt THEN Wide(n) ELSE Wide(n) - 2 * (MaxInt + 1)

Init ==
  /\ file \in [Names -> FirstFiles]
  /\ "prog" \in Names => file["prog"].size = 0
  /\ file["404"].kind = "plain"   \* without it the server does not start
  /\ size404 = file["404"].size
  /\ changes = 0 /\ free = MaxFds /\ alive = TRUE
  /\ pc = [t \in Threads |-> "header end"]
  /\ job = [t \in Threads |-> [name |-> "404", size |-> 0, version |-> 0,
                               srcfd |-> "none", mapped |-> FALSE,
                               failed |-> FALSE,   \* history: open() or mmap() was refused
                               lost |-> FALSE]]    \* history: a write() met a dead connection
  /\ got = [t \in Threads |-> [length |-> 0, head |-> "none", body |-> NoBody, closed |-> FALSE]]
  /\ child = [t \in Threads |-> "none"]
-----------------------------------------------------------------------------
Goto(t, l) == pc' = [pc EXCEPT ![t] = l]

\* serve_static is called; version is a history variable, that of the size.
Static(t, name, size, version) ==
  /\ job' = [job EXCEPT ![t].name = name, ![t].size = ToInt(size), ![t].version = version]
  /\ Goto(t, "head")

\* process_header_end: the method, parse_uri, stat and what it says of the file.
OtherMethod(t) ==
  /\ pc[t] = "header end" /\ Goto(t, "done")
  /\ UNCHANGED <<file, size404, changes, free, job, got, child, alive>>

Stat(t) ==
  /\ pc[t] = "header end"
  /\ \E u \in Uris :
       LET f == file[Locate[u]] IN
         CASE f.kind = "missing" -> Static(t, "404", size404, 0)
           [] f.kind = "special" /\ u # "/cgi-bin/prog" -> Static(t, "404", size404, 0)
           [] f.kind = "plain" /\ u # "/cgi-bin/prog" -> Static(t, Locate[u], f.size, f.version)
           [] f.kind = "special" /\ u = "/cgi-bin/prog" -> Goto(t, "done") /\ UNCHANGED job
           [] OTHER -> Goto(t, "cgi head") /\ UNCHANGED job
  /\ UNCHANGED <<file, size404, changes, free, got, child, alive>>
-----------------------------------------------------------------------------
(* serve_static *)
MutSendHeader(t) ==   \* announces the length of the 404 page whatever page it is
  /\ pc[t] = "head"
  /\ got' = [got EXCEPT ![t].head = "static", ![t].length = ToInt(size404)]
  /\ Goto(t, "open")
  /\ UNCHANGED <<file, size404, changes, free, job, child, alive>>

SendHeader(t) ==
  /\ pc[t] = "head"
  /\ got' = [got EXCEPT ![t].head = "static", ![t].length = job[t].size]
  /\ Goto(t, "open")
  /\ UNCHANGED <<file, size404, changes, free, job, child, alive>>

\* open fails for want of a file or of a descriptor, or because the system
\* refuses it; the code goes on with -1.
Open(t) ==
  /\ pc[t] = "open"
  /\ \/ /\ file[job[t].name].kind # "missing" /\ free > 0
        /\ free' = free - 1 /\ job' = [job EXCEPT ![t].srcfd = "open"]
     \/ UNCHANGED free /\ job' = [job EXCEPT ![t].srcfd = "failed", ![t].failed = TRUE]
  /\ Goto(t, "map")
  /\ UNCHANGED <<file, size404, changes, got, child, alive>>

\* mmap fails for -1, for a length of 0, for a negative length, which it
\* takes for a huge one, and when the system refuses it.
Map(t) ==
  /\ pc[t] = "map"
  /\ IF job[t].srcfd = "open" /\ job[t].size > 0
       THEN \/ job' = [job EXCEPT ![t].mapped = TRUE]
            \/ job' = [job EXCEPT ![t].failed = TRUE]
       ELSE UNCHANGED job
  /\ Goto(t, "close file")
  /\ UNCHANGED <<file, size404, changes, free, got, child, alive>>

MutCloseFile(t) ==   \* returns before close() when mmap() has failed
  /\ pc[t] = "close file"
  /\ IF job[t].srcfd = "open" /\ job[t].mapped
       THEN free' = free + 1 /\ job' = [job EXCEPT ![t].srcfd = "closed"]
       ELSE UNCHANGED <<free, job>>
  /\ Goto(t, "body")
  /\ UNCHANGED <<file, size404, changes, got, child, alive>>

CloseFile(t) ==
  /\ pc[t] = "close file"
  /\ IF job[t].srcfd = "open"
       THEN free' = free + 1 /\ job' = [job EXCEPT ![t].srcfd = "closed"]
       ELSE UNCHANGED <<free, job>>   \* close(-1)
  /\ Goto(t, "body")
  /\ UNCHANGED <<file, size404, changes, got, child, alive>>

Sent(t) == Len(got[t].body)

\* The units of the mapping that write() can read: those of the pages that
\* still hold data of the file.
Readable(t) ==
  IF ~job[t].mapped THEN {}
  ELSE {k \in 1 .. job[t].size :
          ((k - 1) \div Page) * Page < file[job[t].name].size}

\* Unit k as it is now; past the end of the file its last page is zero.
Unit(t, k) ==
  LET f == file[job[t].name] IN
    <<k, IF k <= f.size THEN f.version ELSE Zero>>

MutWriteBody(t) ==   \* bufp is not moved on: the rest is sent from the start
  /\ pc[t] = "body" /\ Sent(t) < job[t].size /\ ~job[t].lost
  /\ \E n \in Sent(t) + 1 .. job[t].size :
       /\ Sent(t) + 1 .. n \subseteq Readable(t)
       /\ got' = [got EXCEPT ![t].body = @ \o [i \in 1 .. n - Sent(t) |-> Unit(t, i)]]
  /\ UNCHANGED <<file, size404, changes, free, pc, job, child, alive>>

\* One write() of response_write: it takes some of what is left.  (One that a
\* signal interrupts takes nothing and is repeated: a stuttering step.)
WriteBody(t) ==
  /\ pc[t] = "body" /\ Sent(t) < job[t].size /\ ~job[t].lost
  /\ \E n \in Sent(t) + 1 .. job[t].size :
       /\ Sent(t) + 1 .. n \subseteq Readable(t)
       /\ got' = [got EXCEPT ![t].body = @ \o [i \in 1 .. n - Sent(t) |-> Unit(t, Sent(t) + i)]]
  /\ UNCHANGED <<file, size404, changes, free, pc, job, child, alive>>

MutEndBody(t) ==   \* every error of write() is taken for an interruption
  /\ pc[t] = "body" /\ Sent(t) = job[t].size /\ (job[t].lost => ~job[t].mapped)
  /\ job' = [job EXCEPT ![t].mapped = FALSE]
  /\ Goto(t, "close")
  /\ UNCHANGED <<file, size404, changes, free, got, child, alive>>

\* All is written, or write() fails with EFAULT; then munmap.  (A negative
\* length is a huge size_t to response_write, and there is no mapping.)
EndBody(t) ==
  /\ pc[t] = "body" /\ (job[t].lost => ~job[t].mapped)
  /\ Sent(t) = job[t].size \/ Sent(t) + 1 \notin Readable(t)
  /\ job' = [job EXCEPT ![t].mapped = FALSE]
  /\ Goto(t, "close")
  /\ UNCHANGED <<file, size404, changes, free, got, child, alive>>

Close(t) ==
  /\ pc[t] = "close"
  /\ got' = [got EXCEPT ![t].closed = TRUE]
  /\ Goto(t, "done")
  /\ UNCHANGED <<file, size404, changes, free, job, child, alive>>
-----------------------------------------------------------------------------
(* serve_dynamic *)
CgiHeader(t) ==
  /\ pc[t] = "cgi head"
  /\ got' = [got EXCEPT ![t].head = "cgi"]
  /\ Goto(t, "fork")
  /\ UNCHANGED <<file, size404, changes, free, job, child, alive>>

Fork(t) ==
  /\ pc[t] = "fork"
  /\ child' = [child EXCEPT ![t] = "born"]
  /\ Goto(t, "wait")
  /\ UNCHANGED <<file, size404, changes, free, job, got, alive>>

MutForkFails(t) ==   \* waits although there is no child
  /\ pc[t] = "fork" /\ Goto(t, "wait")
  /\ UNCHANGED <<file, size404, changes, free, job, got, child, alive>>

ForkFails(t) ==
  /\ pc[t] = "fork" /\ Goto(t, "done")
  /\ UNCHANGED <<file, size404, changes, free, job, got, child, alive>>

\* The child: free() of an array on the stack aborts it, or does nothing;
\* then execve() makes it the program, or fails and it returns as a server.
ChildAborts(t) ==
  /\ child[t] = "born"
  /\ child' = [child EXCEPT ![t] = "ended"]
  /\ UNCHANGED <<file, size404, changes, free, pc, job, got, alive>>

Exec(t) ==
  /\ child[t] = "born"
  /\ child' = [child EXCEPT ![t] = IF file["prog"].kind = "plain" THEN "program" ELSE "server"]
  /\ UNCHANGED <<file, size404, changes, free, pc, job, got, alive>>

ChildEnds(t) ==
  /\ child[t] = "program"
  /\ child' = [child EXCEPT ![t] = "ended"]
  /\ IF job[t].lost THEN UNCHANGED got ELSE got' = [got EXCEPT ![t].body = <<Output>>]
  /\ UNCHANGED <<file, size404, changes, free, pc, job, alive>>

\* wait() takes any child that has ended, not the caller's own.
Wait(t) ==
  /\ pc[t] = "wait"
  /\ \E c \in Threads :
       child[c] = "ended" /\ child' = [child EXCEPT ![c] = "reaped"]
  /\ Goto(t, "done")
  /\ UNCHANGED <<file, size404, changes, free, job, got, alive>>
-----------------------------------------------------------------------------
\* A write to a client that has gone raises SIGPIPE, which ends the process.
SigPipe(t) ==
  /\ pc[t] \in {"head", "cgi head"} \/ (pc[t] = "body" /\ Sent(t) + 1 \in Readable(t))
  /\ alive' = FALSE
  /\ UNCHANGED <<file, size404, changes, free, pc, job, got, child>>

\* The write that learns first that the connection is dead (reset, timed out)
\* fails without a signal.  response_write returns -1 and the code goes on:
\* with the page, or the program, when it was the header ...
HeaderFails(t) ==
  /\ pc[t] \in {"head", "cgi head"}
  /\ job' = [job EXCEPT ![t].lost = TRUE]
  /\ Goto(t, IF pc[t] = "head" THEN "open" ELSE "fork")
  /\ UNCHANGED <<file, size404, changes, free, got, child, alive>>

\* ... with munmap() when it was the body.
BodyFails(t) ==
  /\ pc[t] = "body" /\ Sent(t) + 1 \in Readable(t) /\ ~job[t].lost
  /\ job' = [job EXCEPT ![t].lost = TRUE, ![t].mapped = FALSE]
  /\ Goto(t, "close")
  /\ UNCHANGED <<file, size404, changes, free, got, child, alive>>

\* The next write to that connection raises SIGPIPE.
WriteAgain(t) ==
  /\ pc[t] = "body" /\ job[t].lost /\ job[t].mapped
  /\ alive' = FALSE
  /\ UNCHANGED <<file, size404, changes, free, pc, job, got, child>>

\* Somebody edits a file in place, or removes it; who has it open keeps it.
Rewrite(n) ==
  /\ changes < MaxChanges /\ file[n].kind = "plain" /\ n # "prog"
  /\ \E s \in Sizes :
       file' = [file EXCEPT ![n].size = s, ![n].version = changes + 1]
  /\ changes' = changes + 1
  /\ UNCHANGED <<size404, free, pc, job, got, child, alive>>

Remove(n) ==
  /\ changes < MaxChanges /\ file[n].kind = "plain"
  /\ file' = [file EXCEPT ![n].kind = "missing"]
  /\ changes' = changes + 1
  /\ UNCHANGED <<size404, free, pc, job, got, child, alive>>

Serve(t) ==
  \/ OtherMethod(t) \/ Stat(t)
  \/ SendHeader(t) \/ Open(t) \/ Map(t) \/ CloseFile(t) \/ WriteBody(t) \/ EndBody(t) \/ Close(t)
  \/ WriteAgain(t) \/ CgiHeader(t) \/ Fork(t) \/ ForkFails(t) \/ Wait(t)

Disconnect(t) == SigPipe(t) \/ HeaderFails(t) \/ BodyFails(t)

Child(t) == ChildAborts(t) \/ Exec(t) \/ ChildEnds(t)

Next ==
  \/ \E t \in Threads : alive /\ (Serve(t) \/ Disconnect(t))
  \/ \E t \in Threads : Child(t)
  \/ \E n \in Names : Rewrite(n) \/ Remove(n)

Spec == Init /\ [][Next]_vars

FairSpec ==
  /\ Spec
  /\ \A t \in Threads : WF_vars(alive /\ Serve(t)) /\ WF_vars(Child(t))
-----------------------------------------------------------------------------
(* Properties *)
TypeOK ==
  /\ file \in [Names -> Files] /\ size404 \in Sizes
  /\ changes \in 0 .. MaxChanges /\ free \in 0 .. MaxFds /\ alive \in BOOLEAN
  /\ pc \in [Threads -> {"header end", "head", "open", "map", "close file", "body", "close",
                         "cgi head", "fork", "wait", "done"}]
  /\ job \in [Threads -> [name : Names, size : Ints, version : 0 .. MaxChanges,
                          srcfd : {"none", "open", "failed", "closed"}, mapped : BOOLEAN,
                          failed : BOOLEAN, lost : BOOLEAN]]
  /\ got \in [Threads -> [length : Ints, head : {"none", "static", "cgi"},
                          body : Seq(Nat \X (0 .. Zero)),
                          closed : BOOLEAN]]
  /\ child \in [Threads -> {"none", "born", "program", "server", "ended", "reaped"}]

\* The file a thread sends is still as it was when its size was taken.
Undisturbed(t) ==
  LET f == file[job[t].name] IN f.kind = "plain" /\ f.version = job[t].version

\* A page of at most MaxInt units whose file nobody touched arrives whole
\* when neither its file nor its connection was refused: the header announces
\* its size, and as many units follow, each once, in order and of one version,
\* however write() divides them and whatever the other threads open, send and
\* fork meanwhile.  (Of a larger page the header announces what is left of
\* its size in an int, and no more than that follows.)
WholeUnlessDisturbed ==
  \A t \in Threads :
    LET n == file[job[t].name].size IN
      /\ got[t].closed /\ Undisturbed(t) /\ ~job[t].failed /\ ~job[t].lost /\ n <= MaxInt
      => /\ got[t].length = n
         /\ got[t].body = [k \in 1 .. n |-> <<k, job[t].version>>]

\* As many threads are in wait() as there are children to be waited for:
\* wait() never fails for want of a child, and no child that has ended stays
\* once every thread has returned, although a thread may take another's.
WaitsPaired ==
  Cardinality({t \in Threads : pc[t] = "wait"})
    = Cardinality({t \in Threads : child[t] \notin {"none", "reaped"}})

\* A descriptor is in use only between open() and close() of a thread that
\* got it: none is lost and none given back twice, on the paths where open()
\* or mmap() fails as well.
FilesClosed ==
  free + Cardinality({t \in Threads : pc[t] \in {"map", "close file"} /\ job[t].srcfd = "open"})
    = MaxFds

\* What the client of a thread sees is an answer as it should be: one header,
\* no more than that announced, nothing taken back and nothing after the close,
\* from whichever thread, mapping or child it comes.
Client == INSTANCE ClientReply WITH Clients <- Threads, Lengths <- Ints, reply <- got

ImplementsReply == Client!Spec

\* Every request that reached process_header_end is done with, unless a signal
\* ends the process or a child whose execve() failed keeps some thread in
\* wait() -- not always the thread that forked it.
ServiceEnds ==
  \A t \in Threads :
    (pc[t] # "header end") ~>
      (pc[t] = "done" \/ ~alive \/ \E c \in Threads : child[c] = "server")
-----------------------------------------------------------------------------
(* The inductive invariant *)

Serving(t) == pc[t] \in {"head", "open", "map", "close file", "body", "close"}

\* A version number stands for one content of a file.
VersionsAt(t) ==
  LET f == file[job[t].name] IN
    Serving(t) \/ got[t].closed =>
      /\ job[t].version <= changes
      /\ f.version = job[t].version => job[t].size = ToInt(f.size)

VersionsOK ==
  /\ \A n \in Names : file[n].version <= changes
  /\ file["404"].version = 0 => file["404"].size = size404
  /\ \A t \in Threads : VersionsAt(t)

\* The locals at each step of serve_static.
StepsAt(t) ==
  /\ pc[t] \in {"header end", "head", "open"} => job[t].srcfd = "none"
  /\ job[t].srcfd = "open" => pc[t] \in {"map", "close file"}
  /\ pc[t] = "map" => job[t].srcfd \in {"open", "failed"}
  /\ pc[t] = "close file" => job[t].srcfd \in {"open", "failed"}
  /\ pc[t] = "body" => job[t].srcfd \in {"closed", "failed"}
  /\ job[t].srcfd = "failed" => job[t].failed
  /\ pc[t] \in {"header end", "head", "open", "map"} => (job[t].failed => job[t].srcfd = "failed")
  /\ pc[t] \in {"header end", "head", "open", "map"} => ~job[t].mapped
  /\ pc[t] \in {"close file", "body"} => (job[t].mapped <=> job[t].size > 0 /\ ~job[t].failed)
  /\ pc[t] \in {"open", "map", "close file", "body", "close"} \/ got[t].closed =>
       job[t].lost \/ got[t].length = job[t].size
  /\ Serving(t) /\ pc[t] \notin {"body", "close"} => got[t].body = <<>>
  /\ Serving(t) \/ pc[t] = "header end" => ~got[t].closed /\ child[t] = "none"
  /\ pc[t] \in {"header end", "cgi head", "fork"} => got[t].body = <<>> /\ child[t] = "none"
  /\ child[t] # "none" => ~got[t].closed
  /\ pc[t] \in {"cgi head", "fork", "wait"} => job[t].srcfd = "none" /\ ~got[t].closed

StepsOK == \A t \in Threads : StepsAt(t)

\* What has been sent of a page.
BodyAt(t) ==
  pc[t] \in {"body", "close"} \/ got[t].closed =>
    /\ Sent(t) = 0 \/ Sent(t) <= job[t].size
    /\ Undisturbed(t) => \A k \in 1 .. Sent(t) : got[t].body[k] = <<k, job[t].version>>
    /\ /\ pc[t] = "close" \/ got[t].closed
       /\ Undisturbed(t) /\ ~job[t].failed /\ ~job[t].lost /\ job[t].size >= 0
       => Sent(t) = job[t].size

BodyOK == \A t \in Threads : BodyAt(t)

\* Which header has been sent, and where there is no answer yet below it.
HeadAt(t) ==
  /\ pc[t] \in {"header end", "head", "cgi head"} => got[t].head = "none"
  /\ Serving(t) /\ pc[t] # "head" => job[t].lost \/ got[t].head = "static"
  /\ Serving(t) => got[t].head # "cgi"
  /\ pc[t] \in {"fork", "wait"} \/ child[t] # "none" => job[t].lost \/ got[t].head = "cgi"
  /\ child[t] \in {"born", "program"} => got[t].body = <<>>

HeadsOK == \A t \in Threads : HeadAt(t)

IInv == /\ TypeOK /\ VersionsOK /\ StepsOK /\ BodyOK /\ HeadsOK
        /\ FilesClosed /\ WaitsPaired
=============================================================================
