# HTTP_SERVER_C: a TLA+ verification project

HTTP_SERVER_C is an HTTP server in C. `server.c` accepts connections either
with a pool of threads (`server_mode` 1) or with a pool of forked processes
(`server_mode` 2), `http_handler.c` reads and answers a request, `myqueue.c`
is the queue the threads share, `get_configuration.c` gathers the settings.
`JudaoTest/process_pool.c` is the stand-alone server from which the manager
loop of mode 2 was taken.

This directory holds TLA+ models of these parts, the TLC configurations that
check them on small instances, and TLAPS proofs that hold for every instance.
Source paths below are relative to the repository.

## 1. Inventory

| component | state | operations | interacts with |
|---|---|---|---|
| thread mode (`server.c:174-196`, `453-546`) | per thread: `client_socket_fd`, the `http_req` structure on its stack, the dequeued pointer; shared: queue, mutex, descriptor table | accept, fill the structure, enqueue, dequeue, `process_requests` | queue of pointers to other threads' stacks; `http_handler.c` reads and writes the structure it is handed |
| process mode (`server.c:198-377`) | per process: loop counter, descriptors; the pipes `fd1`, `fd2` | fork, accept, `process_requests`, manager loop | `fork()` copies everything; the pipe to the manager is never written |
| adaptive pool (`JudaoTest/process_pool.c`) | `req_num`, `child_num`; reports in `fd1`, commands in `fd2`; children | prefork, report `n`/`f`, command `c`/`e` | messages between manager and children |
| request queue (`myqueue.c`) | `head`, `tail`, nodes on the heap | `enqueue`, `dequeue` | called under one mutex from every thread |
| header parsing (`http_handler.c:128-416`) | position, `status`, `PARSE_HEAD_OPTION`, method, URI | `header_parse`, `process_logline`, `process_option_line` | writes the shared structure |
| file and CGI service (`http_handler.c:418-641`) | socket, file mapping, CGI child | `process_header_end`, `serve_static`, `serve_dynamic`, `response_write` | loads `*pclient` again; closes the socket |
| log file (`server.c:415-451`) | one open file per thread or process | `init_logfile`, `write_to_logfile` | two `write()` per entry, shared file |
| start-up (`server.c:53-196`, `453-467`, `thread_handler.c`) | sockets, descriptors in use, size of the 404 page | measure the 404 page, socket, bind, listen, create threads or children | every thread opens the log and measures the 404 page for itself |
| configuration (`get_configuration.c`) | `struct configuration` | four passes: command line, file, environment, defaults | read once by `main()` |
| configuration editor (`config_editor_dynamic.c`) | field buffers, the window of the current field | menu, move, type, check, save | writes `config.cfg`; a separate program |

Hard behaviour, and so what the models are for:

* **thread mode**: what two threads do to each other through a pointer to a
  stack cell that its owner reuses; descriptor numbers that are closed by one
  thread and handed out again to another; the process-wide effect of SIGPIPE;
  descriptors that are never closed.
* **process mode**: a fork loop whose children go on forking; descriptors every
  later child inherits; a manager blocked for ever.
* **request queue**: a linked list whose nodes are freed by one thread and
  handed out again to another, correct only under the caller's lock.
* **configuration**: zero as `not set`, and a file that another program truncates
  and rewrites while the server reads it.
* **header parsing**: four states that must find every line and the end of the
  header in any mixture of CR and LF, a scan with several early ends, and two copies
  into buffers smaller than what is copied may be.
* **file and CGI service**: a file that is changed or removed between `stat`,
  `open`, `mmap` and each partial `write`; a failed `open`, `mmap` or header that
  nobody looks at; a size that is passed as an `int`; `wait(NULL)` of one thread taking
  the child of another.
* **log and start-up**: entries of two `write` calls through descriptors that
  share an offset or not, append or not; `creat` on any failure of `open`; `write`
  calls that fail or are short; the -1 of a missing 404 page added to an unsigned size
  for ever; a fork loop that goes on when `fork` fails, and in its children.
* **configuration editor**: the text of the current field is not yet in its
  buffer; digits that do not fit an `int`; a save that fails half way.
* **adaptive pool**: counters kept from messages that arrive late, children that
  die without saying so, commands read by another child than the one meant.

What makes each correct: a client gets its own answer, once; a descriptor is
closed exactly once and by its holder; no accepted connection is dropped between
the two critical sections; the manager's books agree with the children; some
child can always accept while there is room; a header ends at its first empty
line; a page that nothing disturbs or refuses arrives whole; no entry of the log is
lost or overwritten before a call on it fails; what the editor saves is what the screen shows.

`PROJECT.json` lists under `hazards` each place at its line, with the
properties that cover it.

## 2. Modules

| module | contents |
|---|---|
| `ConnectionService` | the promise to a client: admit, answer at most once, close only after the answer; nothing after a derailment |
| `ThreadMode` | server_mode 1 with the request handler, properties, inductive invariant, mapping to `ConnectionService` |
| `ThreadModeProofs` | its theorems |
| `ProcessMode` | server_mode 2 |
| `ProcessModeProofs` | its theorems |
| `PreforkPool` | manager and children of `process_pool.c` |
| `PreforkPoolProofs` | its theorems |
| `FifoQueue` | the promise of the queue: first in, first out, nothing taken from an empty one |
| `RequestQueue` | `myqueue.c` statement by statement under the mutex, mapping to `FifoQueue` |
| `RequestQueueProofs` | its theorems |
| `Configuration` | `get_configuration.c` with the editor's save of `config.cfg` |
| `HeaderParse` | `header_parse` with `process_logline`, on the bytes of one `read()` |
| `HeaderParseProofs` | its theorems |
| `ClientReply` | the promise of an answer as its client sees it: one header, no more than it announced, nothing taken back, nothing after the close |
| `ServeFile` | from `process_header_end` on: files, mappings, CGI children, shared by threads; mapping to `ClientReply` |
| `ServeFileProofs` | its theorems |
| `AppendLog` | the promise of a log: each write whole at the end, and what is there stays |
| `ServerStart` | from the start of `main()` to serving workers, and the log they write; mapping to `AppendLog` |
| `StartupProofs` | the theorems of `Configuration` and `ServerStart` |
| `ConfigEditor` | `config_editor_dynamic.c` |
| `ConfigEditorProofs` | its theorems |
| `MCThreadMode`, `MCProcessMode`, `MCPreforkPool`, `MCRequestQueue`, `MCConfiguration`, `MCHeaderParse`, `MCServeFile`, `MCServerStart`, `MCConfigEditor` | instances for TLC |

Operators named `Mut...` are deliberately wrong variants of the definition that
follows them. Putting one in its place must violate the property it is meant for
(`mutants` in `PROJECT.json`); they are used nowhere else.

### ThreadMode

`pc[t]` is the next step of thread `t`; each step touches shared memory, the
queue or the descriptor table once.

| code | model |
|---|---|
| `accept`, lowest free descriptor, `EMFILE` | `Accept`, `AcceptFails` |
| the initialiser of `http_req` (`server.c:499-508`) | `InitRequest`: the same stack cell `slot[t]` every time, `pclient` NULL |
| `malloc` and store of `pclient` (510-511) | `AllocClient` (content `Junk`), `StoreClient` |
| the two critical sections (515-521) | `Enqueue`, `Dequeue`; `queue` holds the *owners* of the structures pointed to |
| `process_requests` up to `read()` | `LoadClient`, `ReadRequest`, `ReadFails`, `HangUp` |
| `header_parse`, `process_logline`, `process_option_line` | `ParseRequestLine`, `ParseOptionLine`, `BytesRunOut`, `EndHeaders` |
| `process_header_end`, `parse_uri`, `stat` | `ResolveFile`, `LoadTarget` (the second load of `*pclient`) |
| `serve_static`, `serve_dynamic`, `response_write`, `close` | `WriteResponse`, `WriteBreaks` (SIGPIPE), `CloseSocket` |

Abstractions. A request is the connection it came from, and `kind` says which of
ten kinds of client that is (a page, a missing page, a CGI program, a program
that cannot be executed, another method, a malformed line, a bad version or a
URI too long, an incomplete request, a client that leaves, a silent one). A page
is named by the connection that asked for it, so `replies[c]` tells whose answer
each client received. An uninitialised int is any descriptor or none; an
uninitialised URI is the path of any request or no file; an uninitialised
`header_line` faults or is ignored. The assignments of the initialiser are one
step, and so is `process_logline`: finer steps would only add intermediate states
of the same kind of corruption once structures have crossed. `fd_log`,
`location404` and their like are globals that all threads set to equal values, and
are left out. The child of `serve_dynamic` is taken to end (it replaces its image
or aborts in `free`); it is a copy of the process, not a thread of it. `MaxFds`
counts the descriptors available to connections; the one `serve_static` opens
for the file comes on top.

`crossed` records that some thread dequeued another thread's structure. Nothing in
the code prevents it; the properties below say what holds until then, and the
finding of `thread_struct` what does not hold anyway.

The other models have the inside of what is one step here: `HeaderParse` the bytes
of a line, `ServeFile` the pieces of an answer, `RequestQueue` the statements of the
two critical sections.

### ProcessMode

A process is named by the set of loop indices at which its ancestors and it were
forked: `{}` is the first process and `{0, 2}` the child that `{0}` forks with
`i = 2`. That is possible because the loop counter only grows along a path, and
it makes the tree of processes a subset lattice about which one can count.
`pc[p]` is `fork` at the head of the loop, `accept`, `serve`, `manage` (blocked in
`read(fd1[0])`) or `dead`. `holds[p]` is the set of connections `p` has a
descriptor of; `ForkChild` copies it. `Accept` and `AcceptFails` take a connection
from the backlog, `ServeAndClose`, `ServeAndLeave`, `ServeCgi` and `Die` are the
four ways a call of `process_requests` ends: after its `close`, on a path without
one, through a failed `execve`, or by a signal. In `ServeCgi` the CGI child is an
exact copy of its parent that returns from `process_requests`; its parent waits in
`wait()` for it, and as SIGCHLD is ignored for all its other children too. The copy
takes the parent's place in the model and the waiting parent, which does nothing
ever again, is recorded in `stuck`.

The manager loop is the single state `manage`: the pipe it reads from is written
by no process, and no process ever closes its copy of the writing end.

### PreforkPool

Children differ only in where they are in `answer()`, so the state counts them by
place (`accepting`, `accepted`, `serving`, `served`, `waiting`). `reports` is the
pipe, `commands` the socket pair; a command is read by whichever child comes first.
`lost` is a history variable: the children that exited between the reports `n` and
`f` (lines 78, 90, 101 and SIGPIPE). An `accept()` that gives -1 (`AcceptFails`) is
reported like any other and served for want of a connection, which stays in the
backlog. The manager exits on a failed fork (`PreforkFails`, `HandleNewFails`), which
leaves its children alone.

### RequestQueue

One step is one statement of `enqueue` or `dequeue` that reads or writes the list,
or a lock or unlock of the mutex around them. A node is an address that `malloc`
may give: a freed node keeps its content and may be the next one given. `item`
names the thread whose structure is queued. `chain` is a history variable, the
nodes linked and not unlinked; the theorem that it implements `FifoQueue` maps the
queue to the items along it, `Link` to the abstract enqueue and `Advance` (or the
NULL of an empty list) to the dequeue. `Enqueue` and `Dequeue` of `ThreadMode` are
these two actions of `FifoQueue`, each in one step.

### Configuration

`pass` is the pass `readConfiguration` is in, `fields` the `struct configuration`. `TakeOption` is one turn of the
`getopt_long` loop; an option that the loop does not know (the short `-d` is one of
them) ends the program, as does `--help`. Each later pass is one step, because it
reads its source at once and fields do not depend on one another. `Unset` is NULL
and 0 alike, as in the code, and `Atoi` is the conversion, which gives 0 for text
that is no number. `EnvironmentVariable` names the variables the code asks
for and `DocumentedVariable` those of the usage text. `config.cfg` is a set of settings, missing, or something that
does not parse; a key with another name than the one looked up (the
`max_connection` and `log_path` of the `config.cfg` in the repository) is a missing
one. `Truncate` and `Rewrite` are the two moments of the editor's save. `versions` is
a history variable.

What the usage text promises is `Documented`: command line, `config.cfg`, environment,
defaults, each setting from the first of them that has it. `Precedence` is what is true
of it: a server that starts has the documented settings, all those of the file from one
version of it, but for three exceptions, and what the passes make of each exception
(`AsRead`). An integer given as 0 is taken for one not given; a variable is looked up
under another name; a file read between `Truncate` and `Rewrite` (`torn`) counts as an
empty one. `DocumentedRules` leaves the exceptions out and is violated: the run
`config_doc` finds one start that breaks all three rules of the usage text at once, by
`-c 0`, `DC_PORT=9090` and a save. (It asks for a server that keeps at least one of
them, so that its violation shows the three of them broken.)

The usage text also lists `-d --default-document` (`readme.txt:10`), and the option
string (`get_configuration.c:128`) has no `d`: `Recognised` says so; no run is spent on
it.

### HeaderParse

A behaviour is one call of `header_parse` on the bytes one `read()` delivered. A
token is one byte where the automaton looks at bytes (CR, LF, blank) and a run of
others where it does not; `word` is anything but a method or a version, `long` a
URI beyond `MAX_HEADER_LENGTH`, `wide` one below it that does not fit the 150 bytes of
`request_uri`, `type` the name Content-Type, and `HTTP/2.0` any version above 1.1.

| code | model |
|---|---|
| the `switch` on `status` and the byte | `Switch`, `NextStatus`, `EndsLine` |
| a turn of the loop (136-182) | `Consume` |
| a turn in which no line ends | `WithinLine` |
| a line that ends while `PARSE_HEAD_OPTION` is 0 | `RequestLine`, with `ProcessLogline` |
| any later line | `OptionLine`; a Content-Type is joined to 100 bytes of `log_msg` |
| a copy past the end of its buffer | `UriOverruns`, `TypeOverruns`, `overrun` |
| an empty line | `EndHeader`, after which `process_header_end` is called |
| no bytes left | `RunOut`; the parser keeps nothing for a next `read()` |

Positions count tokens from 1; `header_line` and `line_end` are the pointers of the
code. The properties define lines and the end of the header a second time, without
the automaton (`IsLine`, `EmptyLineEnd`), and the request line by a grammar (`Reads`).
By that grammar, as in the code, a method and blanks alone are a request line with
an empty URI, blanks after the URI ask for a version, and an empty first line is a
line, refused as such, and not the end of the header.

A URI is compared with `MAX_HEADER_LENGTH` (1024) and copied to `malloc(150)`
(`server.c:255`, `501`; `http_handler.c:364-375`). One that is between the two is
written over whatever lies behind the buffer, which is undefined: `AfterLogline` lets
the URI be read back as it was sent or as another allocation has left it (`Spoiled`),
and from then on `Fault` may end the process at any step, which is where `malloc` or
`free` find out. `RequestLineRead` gives the URI of the line when it fits (`Fits`), and
`overrun` when it does not; the lines and the end of the header are found all the same.

### ServeFile

Each thread serves one request from `process_header_end` on. A file has a kind
(missing, plain, or special: a directory, or one that may not be read or run), a
size in units, and a version that a rewrite changes. `Readable` is what `mmap`
promises: the pages that still hold data can be read, the rest of the last one as
zeros, and beyond them `write` fails with `EFAULT`. `WriteBody` is one `write` of any
part of what is left. `Open` fails for want of the file or of a descriptor, or because
the system refuses it, and the code goes on to map and close -1; `Map` fails for -1,
for a length that is not positive, or because the system refuses it (`failed`).

`stat` and the measuring of the 404 page give an `off_t` and a `size_t`, `serve_static`
takes an `int`: `ToInt` wraps. `MaxInt` is the largest `int`, in units: a larger page is
announced with what is left of its size, negative or not, and no more than that is sent.

A connection that has died is met first by a `write` that fails without a signal
(`HeaderFails`, `BodyFails`; `lost`), after which `response_write` returns -1: of the
header nobody looks at that, and the next `write` raises SIGPIPE (`WriteAgain`). A client
that has closed raises it at once (`SigPipe`). What is refused or interrupted with EINTR
takes nothing and is repeated.

In `serve_dynamic` the child is a copy of the process: `free()` of an array on the
stack may abort it; otherwise it becomes the program or, if `execve` fails, goes on
as a server that never ends. `Wait` takes any child that has ended, as `wait(NULL)`
does.

### ServerStart

The actors are the first process or thread of each server and its workers, which are
threads or children according to `server_mode`. `OpenLog` and `CreatLog` are the two
halves of `init_logfile`; the log is a sequence of writes, each named by its writer
and number, put at the end or at the offset of the open file. `fd[a]` says whose
open file `a`'s descriptor refers to: a child's refers to its parent's. `Read404` is
one turn of the loop that adds up the length of the 404 page, with the -1 of `read`
as the largest `size_t` of `Width` bits. `used` counts the descriptors of a process;
what a thread opens for the log and the 404 page is never given back, and a
connection sometimes is. `StoreLog` and `LogRequest` are the write and the later
read of the global `fd_log`, between which other threads write it.

`turn[a]` is the counter of the loop that starts the workers. `StartFails` is a
`pthread_create` or `fork` that fails: the loop goes on with its next turn
(`server.c:242-246`). A child accepts once (`Accept`), logs the client, handles it and
is back in the loop, in the turn it was forked in (`Return`), so that it may fork
children of its own (`ForkChild`), and ends up in the manager's `read` as main does
(`EndSpawn`); a thread accepts again. `Die` is the SIGPIPE of an answer to a client that
has gone, which ends the process with all its threads, at any moment of the start-up of
the others.

`failures` counts the calls on the log that have failed although there was a descriptor
for them: `OpenFails` (a log that may not be read, or a full system table), after which
`creat` truncates the log all the same; `CreatFails`; and a `write` that fails or is
short (`Write`), whose result nobody looks at.

`Orderly` names the circumstances in which the log is kept: every process has
descriptors enough, no call on the log has failed, and either there was a log or only
one server was launched. Two servers that start without a log may both come to `creat`,
and the later one truncates what the other has written. `ImplementsLog` maps the log to
`AppendLog` until these circumstances end, and to a spoiled log from then on.

`AllServe` names every way a start can end: main has ended or been killed, or measures
for ever a page it could not open (`Measuring`); else it has started its workers, of
which each is dead or measures, or is there to serve and has the size of the page, or,
as a child, has run through the loop like main.

### ConfigEditor

One step is one key. `window` is the content of the field the cursor is in, as the
form library keeps it until the cursor leaves the field, `buffer` what it has
stored; `-` (save) moves to the next field and back so that all is stored. `Submit`
is the truncation of `config_write_file` and `Write` the rest; others may write
`config.cfg` between them, and the result may be a mixture that libconfig cannot
read (`Bad`). `shown` is the column of current settings. A setting missing from
`config.cfg` leaves a variable uninitialised, which for a text is a pointer: `Crash`.

## 3. Runs

| run | instance | question | states |
|---|---|---|---|
| `thread_all` | 2 threads, 3 clients (one of any kind with two pages; a program, a missing file and a page; two silent ones and a page), 2 descriptors, fair | queue, isolation, descriptors, inductive invariant, refinement of `ConnectionService`, `PageServed` | 1,243,308 |
| `thread_struct` | 2 threads, 3 clients | what `myqueue.c:36` says of a dequeued pointer: **violated** | |
| `process_pool` | N = 2 (4 processes), 4 clients (one more than the server ever accepts), fair | concurrency and lifetime bounds, closing, inheritance, and that the lifetime bound is reached | 2,601 |
| `process_max` | N = 3, 6 clients | `max-connections` in mode 2: **violated** | |
| `pool` | PRECHILD 2, MAXCHILD 4, 9 clients, 2 calls of `accept()` that fail, fair | requests accounted for, the manager's bounds, a child left in `accept()`, `ClientsAccepted` | 49,220 |
| `queue` | 2 threads, 3 nodes, fair | heap and list, refinement of `FifoQueue`, `PointerTaken` | 116,487 |
| `config_all` | a string and an integer, 2 options, all environments, saves at any time | `Precedence` | 1,849,365 |
| `config_doc` | a string and two integers, one option, one variable | the order of `readme.txt:16-17` and the names of `readme.txt:19-27`: **violated** | |
| `parse` | messages of up to 10 tokens: a request line of any tokens up to position 5, then header lines that are a Content-Type, too wide or not, or another | lines and end of the header, the request line's grammar, inductive invariant | 2,291,776 |
| `serve` | 2 threads, 1 descriptor, a page and a program, sizes 0, 1, 3, 5 and 9 with 2 units to a memory page and ints up to 3, 1 change of a file, failing calls and dead connections, fair | whole pages, descriptors, `wait`, refinement of `ClientReply`, `ServiceEnds` | 1,029,716 |
| `startup` | 2 servers, up to 3 workers in four arrangements, 6 or 9 descriptors, up to 2 clients and 1 call on the log that fails, any fork or thread that fails, fair | inductive invariant, the log, refinement of `AppendLog`, no entry dropped, `AllServe` | STARTUPSTATES |
| `editor` | 3 fields (a number, a text, the mode), numbers 1, 3 and 5 with ints below 4, 2 saves, 1 step of others | saves, the form and `config.cfg` | 1,406,424 |

Why the bounds are enough. *Thread mode*: crossing needs two threads, and one
thread whose structure is used by another can do all it ever does to it within one
further iteration, for which the second client and second descriptor suffice; a
third client lets a leak and a reuse of a descriptor happen behind the two threads, and
two pages beside it are what must still be served. *Process
mode*: N = 2 has processes of depth 0 to 2 with siblings forked before and after a
service, and more clients than the connections the server ever takes; the
invariants are proved for every N. *Adaptive pool*: between PRECHILD and MAXCHILD + 1 there are four pool sizes,
and nine clients are enough for each to be reached, shrunk from and exhausted by
lost children; two failed calls of `accept()` are two reports of requests nobody made. *Request queue*: a thread has at most one node queued or in hand,
so two threads never use three nodes at a time; the list has zero, one and two
nodes, and every freed node is reused while the other one is linked or not.
*Configuration*: fields are independent, there is one of each type, the string is
the one whose short option is missing, two options show which of them wins, and
every source has a value of its own so that it can be told where a setting came
from; `0` is among the texts. *Header parsing*: five tokens are a method, a blank, a URI, a blank and a
version, with one too few or any break in between; the five that follow hold two
further line ends with CRs in them, and the automaton remembers no more than that; the
first five include every place of a URI too wide.
*File service*: sizes 0, 1 and 3 with two units to a page are no page, a page partly
filled, and a second page to lose; 5 and 9 are beyond an `int` of at most 3 and become
negative and a small positive number; two threads with one descriptor make an `open`
fail for want of one. *Start-up*: 9 descriptors are enough for every arrangement and 6
for some; two turns of the fork loop have a child with a child of its own, which is all
three processes the server ever has beside main; a 404 page of one read and two bits of
`size_t` make the loop end or wrap; one call that fails, at each place, is enough to
spoil a log, and two clients are one connection for each thread or one thread's two. *Editor*: a
field of each kind, a cycle of three so that up and down differ, a number that fits
and is a mode, one that is none and one that wraps to a mode, and a second save after
a failed one. The theorems of section 5 remove the bounds for the safety properties.

`CHECK_DEADLOCK FALSE` is given where the server really stops: every client
served or silent and nobody else connecting, the process ended by a signal, every
process in the manager loop, every child gone, the settings read, the header parsed,
the requests served, the editor left.

The type invariants of all modules, and the inductive invariants of `ProcessMode`,
`PreforkPool`, `RequestQueue`, `ServeFile` and `ConfigEditor`, are theorems (section 5)
and not invariants of the runs on their own, as is that of `Configuration`.

What the three violated runs show is described under `findings` in `PROJECT.json`. The
statement of `readme.txt:11` on `max-connections` fails in thread mode as well, on
which no run is spent: connections that are never closed (`Leaks`) come on top of
one for each thread, as `DescriptorsAccounted` and `PageServed` allow for.

## 4. Fairness

* `ThreadMode`: weak fairness of each thread's steps, `WF_vars(Step(t))`: the
  kernel schedules every runnable thread, and `accept`, `read` and the mutex wake
  one that can go on. `HangUp` is not in `Step`: nothing makes a silent client go
  away.
* `ProcessMode`: weak fairness of each process in the fork loop and in `accept`.
  None for the service, which may last for ever.
* `PreforkPool`: weak fairness of the manager, of an accept by some child, of the
  reports and of reading a command. None for the service.
* `RequestQueue`: weak fairness of the statements inside a critical section and of
  the unlock, and of the second lock of a thread that has enqueued. The mutex is not
  fair: a thread that waits for it may be overtaken any number of times. A thread
  outside (in `accept()` or serving) may stay there.

* `ServeFile`: weak fairness of each thread while the process lives and of each CGI
  child: clients read what they are sent, until they go, which nothing makes them do; a
  program ends. A child whose `execve`
  failed is a server and never ends.
* `ServerStart`: weak fairness of what an actor does by itself (`Proceed`), but not of
  what a client has a part in (`Serve`): clients need not come, send or read.
* `HeaderParse`, `ConfigEditor`, `Configuration`: none.

`PageServed` names all that can keep a page from being served: structures crossed,
the process ended, every thread blocked by a silent client, every descriptor
leaked. `PoolAcceptsToCapacity`, `ClientsAccepted`,
`ServiceEnds` and `AllServe` likewise.

## 5. Proofs

All theorems hold for every value of the constants that satisfies the named
assumptions of the modules (finite set of threads, distinct model values, positive
sizes). Each invariant is proved along `Init => IInv`, `IInv /\ [Next]_vars =>
IInv'`, `IInv => property`; TLC has checked each `IInv`, where it is stated with the
module, on small instances.

**ThreadModeProofs.** `AnsweredByOwnRequest` is not inductive: that a thread
writes to its own client depends on what is in its structure, which depends on
nobody else having the pointer, and on the descriptor still being that client's.
`IInv` is `TypeOK`, `LocalsOK` (what a local holds at each label, crossed or not),
`QueueMatchesWaiters`, and, unless `crossed`, `Isolation`: `OwnStructure` (what the
thread's structure holds at each label), `OwnConnection` (how far its connection
has come) and `Separate` (no descriptor held twice, no connection behind two
descriptors or still in the backlog). The interesting case of the queue is
`Dequeue`: the counting invariant makes the queue non-empty, and if the head is
the thread's own pointer then nobody else's structure moved. From `IInv`:
`TypeCorrect`, `QueueNeverShort`, `OwnAnswers`, `NoDescriptorLost`, and with
`ServiceStep`, `Refinement`: every step of `ThreadMode` is a step of
`ConnectionService` under the mapping at the end of `ThreadMode`, or a stutter.

**ProcessModeProofs.** `IInv` says where the loop counter stands relative to the
name of its process (`CounterOK`), that every process has a parent that passed its
index (`ChildrenOK`), that copies of a connection exist only after its process has
finished its service (`HeldOK`), and that there were no more accepts than processes
that are done accepting. `LifetimeBound` then is the number of non-empty subsets of N
indices. For `ConcurrencyBound` active processes are mapped to the subsets of
the first N - 1 indices by leaving out the last index, N - 1. The map is injective:
two active processes that differ in that index alone would be parent and child,
and a process that has forked with index N - 1 is no longer active
(`LastIndexTellsNothing`). `OpenInSubtree` needs that a process which still waits or
serves has no descendants yet (`DescendantsOK`): whatever it forks later inherits
what it left open, and nothing else does.

**PreforkPoolProofs.** The three equations of the books are inductive together,
with lemmas on how `Count` of a sequence changes with `Append` and `Tail`.
`SomeoneAccepts` needs the further invariant `SpareCounted`: one child is not busy
by the manager's count, or the pool is at its limit.

**RequestQueueProofs.** That no freed node is touched is not inductive: it needs
the shape of the list. `IInv` is `TypeOK`, `Exclusive` (the statements between lock
and unlock belong to the mutex's holder), `ListOK` (the heap is the chain of
distinct nodes), `TailOK` (where `tail` points, between the two writes of an
operation as well), `HandOK` (the locals at each statement) and `NodesAccounted`.
From it `NoFreedNodeUsed`, `NoNodeLost` and, with the steps that write the list
mapped to the abstract operations, `Refinement`.

**StartupProofs.** Of `Configuration`, `ReadIInv` says what the fields are at each
pass. The only induction over data, that a set of options has a first one, is taken
from the library's theorem on the well-foundedness of the naturals (`Least`);
`OneMoreOption` is the step of the `getopt_long` loop, `FirstOfFour` that nested
assignments pick the first source (`AsRead`), and away from the three exceptions that
is the documented one. `SourcesInOrder` then holds for all settings, command lines,
environments and files, with the editor saving at any time.

Of `ServerStart`, none of the properties is inductive, and they need one another. The
argument, for any number of servers, workers, descriptors and entries:

1. `StepsOK` and `EntriesOK` say which steps can be going on at the same time (a
   worker runs only for a server that has come to start workers, in the steps of its
   mode) and which entries of a worker come before which step.
2. `UsedOK` counts descriptors from both sides. No fewer are in use than the process
   has connections in hand (`Holding`), so that none is given back that is not there;
   and no more than main and its threads have taken so far (`MainTook`, `TeamTook`) and
   clients have come. The second sum stays below what `Enough` asks for while somebody
   is still about to open the log, who therefore finds room. Only this, and that no call
   has failed so far, makes "the `open` failed" mean "there is no log", which
   `init_logfile` takes for granted.
3. Hence `OpenedOK` (who is past `init_logfile` has a descriptor, and so has the global
   of its process) and with it `EntriesReachTheLog`. `PageOK` (a reading of the 404 page
   in progress has not passed its end) gives `PageMeasured` without any such premise:
   who could not open the page never leaves the loop.
4. `AppendOK` says which open files can still be written through. Only a server that
   is alone and found no log creates one; then that open file, which has no `O_APPEND`,
   is either the only one in use, with its offset at the end of the log (children and
   children of theirs share it), or out of use (threads open the log again, and get
   `O_APPEND`). `failures` only grows and the rest of `Orderly` does not change, so that
   what is `Orderly` after a step was so before it (`OrderlyBack`): the invariant is used
   of the state before a step only where the step keeps it orderly.
5. Hence every `write` of an orderly server puts one element at the end (`Appends`), which
   gives `LogComplete`, `WritesStay` and `Refinement`, that the log is an `AppendLog`
   until it is spoiled.

`TypeCorrect` includes that no process exceeds its limit of descriptors. Finite sums
are cardinalities of sets of pairs, so that no induction is needed.

**HeaderParseProofs.** `StatusOK` says what each state of the automaton knows of the
bytes before it, `CurrentLineOK` where the current line began; with them the two
properties about lines are inductive, for messages of any length (`MaxMsg` and
`MaxLine` are arbitrary). `RequestRead` needs that a scan finds the first position of
its kind (`Least`, from the well-foundedness of the naturals); the five scans of
`process_logline` then give exactly the positions the grammar `Reads` asks for, and the
URI is copied whole unless it does not fit. Nothing the automaton goes by is kept in the
buffers that can be overrun, so that the properties of lines need no premise.

**ServeFileProofs.** That a page arrives whole is not inductive: `IInv` adds that a
version stands for one content (`VersionsOK`), what the locals are at each step
(`StepsOK`), and that what has been sent is the beginning of the page (`BodyOK`). An
undisturbed file has the size it had when `stat` looked, which as an `int` is the same
size if it is at most `MaxInt`; all of its mapping can then be read, if there is one, and
`write` cannot fail before the end while the connection lives. `BodyOK` says of a larger
page what is true of it: no more is sent than the `int` says. `WaitsMatch` counts threads in
`wait` and children not yet reaped: a thread may leave with another's child, but each
leaves with one. `HeadsOK` (which header has been sent at each step, and where nothing
has come after it yet) is there for `Refinement`: with `StepsOK` it shows that the only
children whose output can still come belong to answers that have the header of a
program and are not closed, although their threads may long have returned.

**ConfigEditorProofs.** `IInv` adds to the properties what is about to be written
(`SaveOK`) and what the editor has made of `config.cfg` (`FileOK`). The settings,
their order on the form and the width of an int are arbitrary. `SavesTheScreen` is
an action property and needs only the types.

**Only model-checked.** The liveness properties (`PageServed`, `ClientsAccepted`,
`PointerTaken`, `PoolAcceptsToCapacity`, `ServiceEnds`, `AllServe`): TLAPS proves no
liveness under fairness and nothing about `ENABLED`. Every safety property that a
passing run checks is a theorem. No module with a theorem uses `RECURSIVE`; facts
that need induction over data are avoided by counting with `Cardinality`.

## 6. Plan

Every part of the server is modelled. What is worth doing next:

1. `ServeFile` as a refinement of the one-step answer of `ThreadMode`, with the
   descriptors of files and of connections in one table.
2. `HeaderParse` on a structure another thread may reset meanwhile.

## 7. Not modelled

Wording of responses and log entries, MIME types, terminal output, what the editor
draws where. A comment says that `init_logfile` is there to "create a logfile if it
doesn't exist" (`server.c:45`); that it truncates one it could not open is modelled
(`CreatLog`) and named in `Orderly`, on which no run of its own is spent. The bytes of a request other than those the parser looks at: the values
of header options are printed and logged and change nothing (`TypeOverruns` apart).
What an overrun of `request_uri` does is modelled in `HeaderParse` alone, as any end of
the URI and as the end of the process; `ThreadMode`, `ProcessMode` and `ServeFile` take
the URIs that fit, and no module lets an overrun change other variables. The contents of
`config.cfg` beyond the settings looked up.

The earlier and copied servers under `JudaoTest` and `tester` (other than
`process_pool.c`), the test clients and user-interface trials: most source lines of
the repository are in these copies, which no makefile of the server builds. The
models follow the files at the root.

`INThandler`, whose registrations are commented out, and `handle_connection` of
`thread_handler.c`, which is never called. Signals other than SIGPIPE, but for
the effect of an ignored SIGCHLD on `wait`. Failure of `malloc`, whose result the code
does not look at; failure of `pthread_create` is in `ServerStart`.
