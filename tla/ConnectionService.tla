-------------------------- MODULE ConnectionService --------------------------
(***************************************************************************)
(* What the server owes the clients that connect to it, whatever runs      *)
(* behind accept(): a connection waits in the backlog, is opened, is       *)
(* answered at most once and with its own answer, and is closed only after *)
(* it was answered (it may also be left open for ever).  Once the server   *)
(* has derailed -- it has ended, or has begun to mix connections up --     *)
(* nothing is promised.                                                    *)
(***************************************************************************)
CONSTANT Conns

VARIABLES
  phase,     \* where each connection is
  sent,      \* connections that have their own answer, once
  derailed

vars == <<phase, sent, derailed>>

Phases == {"waiting", "open", "closed"}

Init ==
  /\ phase = [c \in Conns |-> "waiting"]
  /\ sent = [c \in Conns |-> FALSE]
  /\ derailed = FALSE

Admit(c) ==
  /\ phase[c] = "waiting"
  /\ phase' = [phase EXCEPT ![c] = "open"]
  /\ UNCHANGED <<sent, derailed>>

Answer(c) ==
  /\ phase[c] = "open" /\ ~sent[c]
  /\ sent' = [sent EXCEPT ![c] = TRUE]
  /\ UNCHANGED <<phase, derailed>>

Close(c) ==
  /\ phase[c] = "open" /\ sent[c]
  /\ phase' = [phase EXCEPT ![c] = "closed"]
  /\ UNCHANGED <<sent, derailed>>

Derail ==
  /\ derailed'
  /\ phase' \in [Conns -> Phases]
  /\ sent' \in [Conns -> BOOLEAN]

Next == Derail \/ (~derailed /\ \E c \in Conns : Admit(c) \/ Answer(c) \/ Close(c))

Spec == Init /\ [][Next]_vars
=============================================================================
