----------------------------- MODULE HeaderParse -----------------------------
(***************************************************************************)
(* header_parse() of http_handler.c: the automaton that finds the lines    *)
(* and the end of a request header, with process_logline() and             *)
(* process_option_line(), which it calls at the end of each line.  A       *)
(* behaviour is one call on the bytes that one read() delivered.  These    *)
(* are tokens: CR, LF and a blank are one byte each, every other token is  *)
(* a run of bytes the automaton treats alike.  A run "long" makes a URI    *)
(* longer than MAX_HEADER_LENGTH; a run "wide" keeps it below that, and    *)
(* fits neither the 150 bytes of request_uri nor the 100 that              *)
(* process_option_line takes for a Content-Type ("type").  The structure   *)
(* is taken to be this thread's own (ThreadMode says when it is not), so   *)
(* that PARSE_HEAD_OPTION is 0 at the start.                               *)
(***************************************************************************)
EXTENDS Naturals, Sequences

CONSTANTS
  LineTokens,    \* what the request line is made of, with its CR and LF
  OptionTokens,  \* what follows it
  MaxLine,       \* bound: position of the last word or blank of the request line
  MaxMsg         \* bound: tokens of the header

Methods  == {"GET", "HEAD"}                      \* POST is treated as HEAD is
Accepted == {"HTTP/1.1", "HTTP/0.9"}             \* major 0, or 1.0 and 1.1
Words    == Methods \cup Accepted \cup {"HTTP/2.0", "word", "wide", "long", "type"}
Tokens   == Words \cup {"CR", "LF", "SP"}

ASSUME TokensAssumption == LineTokens \subseteq Tokens /\ OptionTokens \subseteq Tokens
ASSUME BoundsAssumption == MaxLine \in Nat /\ MaxMsg \in Nat

VARIABLES
  msg,         \* the tokens consumed so far
  status,      \* the automaton's state
  line_end,    \* position of the byte that ends the line, 0 if unset
  header_line, \* position of the first byte of the line, 0 if unset
  req,         \* PARSE_HEAD_OPTION, method, request_uri, http_version
  lines,       \* history: the lines handed over, <<first, past the last>>
  overrun,     \* history: a copy has written past the end of its buffer
  result       \* how the call has ended, or "parsing"

vars == <<msg, status, line_end, header_line, req, lines, overrun, result>>

None == "none"

Init ==
  /\ msg = <<>> /\ status = "READ_HEADER"
  /\ line_end = 0 /\ header_line = 0
  /\ req = [option |-> FALSE, method |-> None, uri |-> <<>>, version |-> None]
  /\ lines = <<>> /\ overrun = FALSE /\ result = "parsing"
-----------------------------------------------------------------------------
(* process_logline *)
HasMethod(line) == Len(line) >= 2 /\ line[1] \in Methods /\ line[2] = "SP"

\* The first position from i on that holds a token of S, or the terminator.
Scan(line, i, S) ==
  CHOOSE j \in i .. Len(line) + 1 :
    /\ j = Len(line) + 1 \/ line[j] \in S
    /\ \A k \in i .. j - 1 : line[k] \notin S

UriAt(line)     == Scan(line, 3, Tokens \ {"SP"})
UriEnd(line)    == Scan(line, UriAt(line), {"SP"})
VersionAt(line) == Scan(line, UriEnd(line), Tokens \ {"SP"})

UriHas(line, t)  == \E k \in UriAt(line) .. UriEnd(line) - 1 : line[k] = t
UriTooLong(line) == UriHas(line, "long")

\* The URI is compared with MAX_HEADER_LENGTH and copied to 150 bytes.
UriOverruns(line) == HasMethod(line) /\ ~UriTooLong(line) /\ UriHas(line, "wide")

\* strcat() of the value to the 100 bytes of log_msg.
TypeOverruns(line) ==
  /\ line # <<>> /\ line[1] = "type"
  /\ \E k \in 2 .. Len(line) : line[k] \in {"wide", "long"}

MutBadVersion(line) ==   \* the test for versions above 1.1 is gone
  /\ UriEnd(line) <= Len(line)
  /\ VersionAt(line) > Len(line) \/ line[VersionAt(line)] \notin Accepted \cup {"HTTP/2.0"}

BadVersion(line) ==
  /\ UriEnd(line) <= Len(line)
  /\ VersionAt(line) > Len(line) \/ line[VersionAt(line)] \notin Accepted

LineRefused(line) == ~HasMethod(line) \/ UriTooLong(line) \/ BadVersion(line)

ProcessLogline(line) ==
  IF ~HasMethod(line) THEN [req EXCEPT !.version = "HTTP/0.9"]
  ELSE [option  |-> TRUE,
        method  |-> line[1],
        uri     |-> IF UriTooLong(line) THEN req.uri
                    ELSE SubSeq(line, UriAt(line), UriEnd(line) - 1),
        version |-> IF /\ ~UriTooLong(line) /\ ~BadVersion(line)
                       /\ UriEnd(line) <= Len(line)
                    THEN line[VersionAt(line)] ELSE "HTTP/0.9"]

Spoiled == <<"word">>   \* a URI whose end another allocation has overwritten

\* What the structure holds then.  Past the end of request_uri lie bytes of
\* other allocations, whose owners may write them.
AfterLogline(line) ==
  {ProcessLogline(line)} \cup
  IF UriOverruns(line) THEN {[ProcessLogline(line) EXCEPT !.uri = Spoiled]} ELSE {}
-----------------------------------------------------------------------------
(* The automaton *)
Statuses == {"READ_HEADER", "ONE_CR", "ONE_LF", "TWO_CR", "BODY_READ"}

InLine   == [CR |-> "ONE_CR", LF |-> "ONE_LF",    other |-> "READ_HEADER"]
AfterEnd == [CR |-> "TWO_CR", LF |-> "BODY_READ", other |-> "READ_HEADER"]

MutSwitch == [READ_HEADER |-> InLine, ONE_CR |-> InLine,   \* a second CR is dropped
              ONE_LF |-> AfterEnd, TWO_CR |-> [AfterEnd EXCEPT !.CR = "READ_HEADER"]]

Switch == [READ_HEADER |-> InLine, ONE_CR |-> InLine,
           ONE_LF |-> AfterEnd, TWO_CR |-> AfterEnd]

NextStatus(b) == Switch[status][IF b \in {"CR", "LF"} THEN b ELSE "other"]

MutEndsLine(b) == b \in {"CR", "LF"}   \* line_end moves to the last CR or the LF

EndsLine(b) == status = "READ_HEADER" /\ b \in {"CR", "LF"}

Position == Len(msg) + 1

\* One turn of the loop, up to the test of the new status.
Consume(b) ==
  /\ result = "parsing"
  /\ Position <= MaxMsg
  /\ lines = <<>> /\ b \notin {"CR", "LF"} => Position <= MaxLine
  /\ msg' = Append(msg, b)
  /\ status' = NextStatus(b)
  /\ line_end' = IF EndsLine(b) THEN Position ELSE line_end

WithinLine(b) ==
  /\ Consume(b)
  /\ status' \notin {"ONE_LF", "BODY_READ"}
  /\ UNCHANGED <<header_line, req, lines, overrun, result>>

MutRequestLine(b) ==   \* the -1 of process_logline is not looked at
  /\ Consume(b)
  /\ status' = "ONE_LF" /\ ~req.option
  /\ req' = ProcessLogline(SubSeq(msg, 1, line_end' - 1))
  /\ lines' = Append(lines, <<1, line_end'>>)
  /\ header_line' = Position + 1 /\ UNCHANGED <<overrun, result>>

RequestLine(b) ==
  LET line == SubSeq(msg, 1, line_end' - 1) IN
    /\ Consume(b)
    /\ status' = "ONE_LF" /\ ~req.option
    /\ req' \in AfterLogline(line)
    /\ overrun' = UriOverruns(line)
    /\ lines' = Append(lines, <<1, line_end'>>)
    /\ IF LineRefused(line)
         THEN result' = "refused" /\ UNCHANGED header_line
         ELSE header_line' = Position + 1 /\ UNCHANGED result

MutOptionLine(b) ==   \* header_line is left one byte short
  /\ Consume(b)
  /\ status' = "ONE_LF" /\ req.option
  /\ lines' = Append(lines, <<header_line, line_end'>>)
  /\ header_line' = Position
  /\ UNCHANGED <<req, overrun, result>>

\* process_option_line() prints and logs, and always returns 0.
OptionLine(b) ==
  /\ Consume(b)
  /\ status' = "ONE_LF" /\ req.option
  /\ lines' = Append(lines, <<header_line, line_end'>>)
  /\ overrun' = (overrun \/ TypeOverruns(SubSeq(msg, header_line, line_end' - 1)))
  /\ header_line' = Position + 1
  /\ UNCHANGED <<req, result>>

EndHeader(b) ==
  /\ Consume(b)
  /\ status' = "BODY_READ"
  /\ req' = [req EXCEPT !.option = FALSE]
  /\ result' = "header end"   \* process_header_end() is called
  /\ UNCHANGED <<header_line, lines, overrun>>

RunOut ==
  /\ result = "parsing"
  /\ result' = "ran out"
  /\ UNCHANGED <<msg, status, line_end, header_line, req, lines, overrun>>

\* Undefined behaviour: the process may end at any step after an overrun
\* (malloc() and free() test what it wrote over), or go on to the end.
Fault ==
  /\ result = "parsing" /\ overrun
  /\ result' = "fault"
  /\ UNCHANGED <<msg, status, line_end, header_line, req, lines, overrun>>

Input == IF lines = <<>> THEN LineTokens ELSE OptionTokens

Next ==
  \/ \E b \in Input : WithinLine(b) \/ RequestLine(b) \/ OptionLine(b) \/ EndHeader(b)
  \/ RunOut \/ Fault

Spec == Init /\ [][Next]_vars
-----------------------------------------------------------------------------
(* What the header is, said without the automaton *)

\* LF at i ends an empty line: only CRs stand between it and the LF before it.
EmptyLineEnd(i) ==
  /\ msg[i] = "LF"
  /\ \E j \in 1 .. i - 1 : msg[j] = "LF" /\ \A k \in j + 1 .. i - 1 : msg[k] = "CR"

\* <<f, e>> are the first byte of a line that is not empty, or is the first
\* line, and the end of its text: CRs alone stand between e and the LF.
IsLine(f, e) ==
  /\ f \in 1 .. e
  /\ f = 1 \/ (f - 1 \in 1 .. Len(msg) /\ msg[f - 1] = "LF")
  /\ e = f \/ msg[e - 1] # "CR"
  /\ f = e => f = 1
  /\ \A k \in f .. e - 1 : msg[k] # "LF"
  /\ \E i \in e .. Len(msg) : msg[i] = "LF" /\ \A k \in e .. i - 1 : msg[k] = "CR"

\* A request line: a method, blanks, a URI, and unless the line ends there,
\* blanks and a version the server knows.  The URI lies at u .. e - 1.
Reads(line, u, e) ==
  /\ u >= 3 /\ line[1] \in Methods
  /\ \A k \in 2 .. u - 1 : line[k] = "SP"
  /\ \A k \in u .. e - 1 : line[k] \notin {"SP", "long"}
  /\ \/ e = Len(line) + 1
     \/ /\ u < e
        /\ \E v \in e + 1 .. Len(line) :
             line[v] \in Accepted /\ \A k \in e .. v - 1 : line[k] = "SP"

FirstLine == SubSeq(msg, 1, lines[1][2] - 1)
-----------------------------------------------------------------------------
(* Properties *)

TypeOK ==
  /\ msg \in Seq(Tokens) /\ status \in Statuses
  /\ line_end \in 0 .. Len(msg) /\ header_line \in 0 .. Len(msg) + 1
  /\ req \in [option : BOOLEAN, method : Methods \cup {None},
              uri : Seq(Tokens), version : Accepted \cup {None}]
  /\ lines \in Seq(Nat \X Nat) /\ overrun \in BOOLEAN
  /\ result \in {"parsing", "refused", "header end", "ran out", "fault"}

\* The header ends at its first empty line and nowhere else, however CR and
\* LF are mixed: bytes after it are never read as header lines and no header
\* line is taken for the end (header_parse, the four cases of the switch).
EndsAtFirstEmptyLine ==
  /\ \A i \in 1 .. Len(msg) - 1 : ~EmptyLineEnd(i)
  /\ (result = "header end") <=> (msg # <<>> /\ EmptyLineEnd(Len(msg)))

\* The lines handed to process_logline and process_option_line are the lines
\* of the message, each once, with its first byte and without its CRs: the
\* NUL at line_end cuts off neither more nor less.
LinesAsSent ==
  /\ \A n \in 1 .. Len(lines) : IsLine(lines[n][1], lines[n][2])
  /\ \A f \in 1 .. Len(msg) : \A e \in f .. Len(msg) :
       IsLine(f, e) => \E n \in 1 .. Len(lines) : lines[n] = <<f, e>>
  /\ \A n \in 2 .. Len(lines) : lines[n - 1][2] < lines[n][1]

\* The URI and its terminator fit request_uri (server.c:255 and 501).
Fits(line, u, e) == \A k \in u .. e - 1 : line[k] # "wide"

\* process_logline accepts exactly the lines of the grammar, whose bound on
\* a URI is MAX_HEADER_LENGTH, and takes the URI out of them
\* (http_handler.c:357-404) when it fits the buffer it is copied to; when it
\* does not, the copy has overrun the buffer and nothing is said of it.
RequestLineRead ==
  lines # <<>> =>
    LET line == FirstLine IN
      /\ (result = "refused") <=>
           ~ \E u \in 3 .. Len(line) + 1 : \E e \in u .. Len(line) + 1 : Reads(line, u, e)
      /\ result # "refused" =>
           /\ req.method = line[1]
           /\ \E u \in 3 .. Len(line) + 1 : \E e \in u .. Len(line) + 1 :
                /\ Reads(line, u, e)
                /\ IF Fits(line, u, e) THEN req.uri = SubSeq(line, u, e - 1) ELSE overrun

\* process_header_end is called only with a method and a URI of this message:
\* a header cannot end before its request line was accepted.
AnsweredAfterRequestLine ==
  result = "header end" => lines # <<>> /\ req.method # None /\ ~LineRefused(FirstLine)
-----------------------------------------------------------------------------
(* The inductive invariant *)

AllCR(a, b) == \A k \in a .. b : msg[k] = "CR"
NoLF(a, b)  == \A k \in a .. b : msg[k] # "LF"

\* line_end is where the CRs at the end of the text begin.
TextEnds == line_end >= 1 /\ (line_end = 1 \/ msg[line_end - 1] \notin {"CR", "LF"})

\* What the automaton's state says of the bytes before it.
StatusOK ==
  LET n == Len(msg) IN
    /\ status = "READ_HEADER" => n = 0 \/ msg[n] \notin {"CR", "LF"}
    /\ status = "ONE_CR" => line_end <= n /\ TextEnds /\ AllCR(line_end, n)
    /\ status = "ONE_LF" => /\ line_end <= n /\ TextEnds /\ AllCR(line_end, n - 1)
                            /\ msg[n] = "LF"
    /\ status = "TWO_CR" => \E j \in 1 .. n - 1 : msg[j] = "LF" /\ AllCR(j + 1, n)
    /\ status = "BODY_READ" => n >= 1 /\ EmptyLineEnd(n)
    /\ status = "BODY_READ" <=> result = "header end"
    /\ result = "refused" => status = "ONE_LF"

\* Where the current line starts, and what is known of the first.
CurrentLineOK ==
  /\ IF lines = <<>> THEN /\ NoLF(1, Len(msg)) /\ ~req.option /\ ~overrun
                          /\ result \in {"parsing", "ran out"}
     ELSE /\ lines[1][1] = 1 /\ lines[1][2] <= Len(msg)
          /\ (result = "refused") <=> LineRefused(FirstLine)
  /\ lines # <<>> /\ result # "refused" =>
       /\ header_line >= 2 /\ msg[header_line - 1] = "LF"
       /\ NoLF(header_line, IF status = "BODY_READ" THEN Len(msg) - 1 ELSE Len(msg))
       /\ lines[Len(lines)][2] < header_line
       /\ req.method # None
       /\ result # "header end" => req.option

IInv == TypeOK /\ StatusOK /\ EndsAtFirstEmptyLine /\ CurrentLineOK /\ LinesAsSent
=============================================================================
