----------------------------- MODULE ClientReply -----------------------------
(***************************************************************************)
(* An answer as its client sees it, whatever files, descriptors, threads   *)
(* and children are behind it: one header, once; then what follows it,     *)
(* which only grows, in pieces of any size and, for a page, up to the      *)
(* length that the header announced; after the close nothing more, not     *)
(* even the header.  The answer may stop at any point.                     *)
(***************************************************************************)
EXTENDS Naturals, Sequences

CONSTANTS Clients, Lengths

VARIABLE reply   \* reply[c]: what c has received

vars == <<reply>>

Init ==
  reply = [c \in Clients |-> [length |-> 0, head |-> "none", body |-> <<>>, closed |-> FALSE]]

PageHeader(c) ==
  /\ reply[c].head = "none" /\ ~reply[c].closed
  /\ \E n \in Lengths : reply' = [reply EXCEPT ![c].head = "static", ![c].length = n]

ProgramHeader(c) ==
  /\ reply[c].head = "none" /\ ~reply[c].closed
  /\ reply' = [reply EXCEPT ![c].head = "cgi"]

More(c) ==
  LET old == reply[c].body
      new == reply'[c].body
  IN
    /\ reply[c].head # "none" /\ ~reply[c].closed
    /\ Len(new) > Len(old) /\ \A k \in 1 .. Len(old) : new[k] = old[k]
    /\ reply[c].head = "static" => Len(new) <= reply[c].length
    /\ reply' = [reply EXCEPT ![c].body = new]

Close(c) ==
  /\ reply[c].head # "cgi" /\ ~reply[c].closed
  /\ reply' = [reply EXCEPT ![c].closed = TRUE]

Next == \E c \in Clients : PageHeader(c) \/ ProgramHeader(c) \/ More(c) \/ Close(c)

Spec == Init /\ [][Next]_vars
=============================================================================
