--------------------------- MODULE PreforkPoolProofs ---------------------------
(***************************************************************************)
(* Proofs about PreforkPool for any pool sizes and any number of clients:  *)
(* the manager's two counters agree with the children whatever is on its   *)
(* way in the pipe and the socket.                                         *)
(***************************************************************************)
EXTENDS PreforkPool, FiniteSetTheorems, SequenceTheorems, TLAPS

USE PreforkAssumption

(* The messages of one kind in a pipe are a number. *)
LEMMA CountNat ==
  ASSUME NEW S, NEW s \in Seq(S), NEW m
  PROVE  Count(s, m) \in Nat
<1>1. IsFiniteSet(DOMAIN s)
  <2>1. DOMAIN s = 1 .. Len(s)
    OBVIOUS
  <2> QED
    BY <2>1, FS_Interval
<1>2. IsFiniteSet({k \in DOMAIN s : s[k] = m})
  BY <1>1, FS_Subset
<1> QED
  BY <1>2, FS_CardinalityType DEF Count

(* A write adds the message it writes. *)
LEMMA CountAppend ==
  ASSUME NEW S, NEW s \in Seq(S), NEW m \in S, NEW x
  PROVE  Count(Append(s, m), x) = Count(s, x) + (IF m = x THEN 1 ELSE 0)
<1> DEFINE A == {k \in DOMAIN s : s[k] = x}
           B == {k \in DOMAIN Append(s, m) : Append(s, m)[k] = x}
<1>1. DOMAIN s = 1 .. Len(s) /\ Len(s) \in Nat
  OBVIOUS
<1>2. IsFiniteSet(A)
  <2>1. IsFiniteSet(1 .. Len(s)) /\ A \in SUBSET (1 .. Len(s))
    BY <1>1, FS_Interval
  <2> HIDE DEF A
  <2> QED
    BY <2>1, FS_Subset
<1>3. B = IF m = x THEN A \cup {Len(s) + 1} ELSE A
  <2> DEFINE t == Append(s, m)
  <2>1. /\ t \in Seq(S) /\ Len(t) = Len(s) + 1 /\ t[Len(s) + 1] = m
        /\ \A k \in 1 .. Len(s) : t[k] = s[k]
    BY AppendProperties
  <2>2. DOMAIN t = 1 .. Len(s) + 1
    BY <2>1
  <2> HIDE DEF t
  <2>3. {k \in DOMAIN t : t[k] = x} = IF m = x THEN A \cup {Len(s) + 1} ELSE A
    BY <1>1, <2>1, <2>2
  <2> QED
    BY <2>3 DEF t
<1>4. Len(s) + 1 \notin A
  BY <1>1
<1> HIDE DEF A, B
<1>5. Cardinality(A \cup {Len(s) + 1}) = Cardinality(A) + 1
  BY <1>2, <1>4, FS_AddElement
<1>6. Cardinality(A) \in Nat
  BY <1>2, FS_CardinalityType
<1>7. Cardinality(B) = Cardinality(A) + (IF m = x THEN 1 ELSE 0)
  BY <1>3, <1>5, <1>6
<1> QED
  BY <1>7 DEF Count, A, B

(* A read takes the message at the head. *)
LEMMA CountTail ==
  ASSUME NEW S, NEW s \in Seq(S), s # <<>>, NEW x
  PROVE  Count(Tail(s), x) = Count(s, x) - (IF Head(s) = x THEN 1 ELSE 0)
<1> DEFINE A == {k \in DOMAIN s : s[k] = x}
           B == {k \in DOMAIN Tail(s) : Tail(s)[k] = x}
           f == [k \in B |-> k + 1]
<1>1. /\ DOMAIN s = 1 .. Len(s) /\ Len(s) \in Nat \ {0}
      /\ DOMAIN Tail(s) = 1 .. Len(s) - 1
      /\ \A k \in 1 .. Len(s) - 1 : Tail(s)[k] = s[k + 1]
      /\ Head(s) = s[1]
  <2>1. Len(Tail(s)) = Len(s) - 1 /\ Tail(s) \in Seq(S)
        /\ \A k \in 1 .. Len(Tail(s)) : Tail(s)[k] = s[k + 1]
    BY HeadTailProperties
  <2>2. DOMAIN s = 1 .. Len(s) /\ Len(s) \in Nat \ {0} /\ Head(s) = s[1]
    OBVIOUS
  <2>3. DOMAIN Tail(s) = 1 .. Len(Tail(s))
    BY <2>1
  <2> QED
    BY <2>1, <2>2, <2>3
<1>2. IsFiniteSet(A) /\ IsFiniteSet(B)
  <2>1. IsFiniteSet(1 .. Len(s)) /\ A \in SUBSET (1 .. Len(s)) /\ B \in SUBSET (1 .. Len(s))
    BY <1>1, FS_Interval
  <2> HIDE DEF A, B
  <2> QED
    BY <2>1, FS_Subset
<1>3. \A k \in B : k \in Nat /\ k + 1 \in A \ {1}
  BY <1>1
<1>4. \A j \in A \ {1} : j - 1 \in B /\ j \in Nat
  BY <1>1
<1> HIDE DEF A, B
<1>5. f \in Bijection(B, A \ {1})
  <2>1. f \in [B -> A \ {1}]
    BY <1>3
  <2>2. \A j, k \in B : f[j] = f[k] => j = k
    BY <1>3
  <2>3. \A j \in A \ {1} : \E k \in B : f[k] = j
    BY <1>4
  <2> QED
    BY <2>1, <2>2, <2>3 DEF Bijection, Injection, IsInjective, Surjection
<1>6. Cardinality(A \ {1}) = Cardinality(B)
  BY <1>2, <1>5, FS_Bijection DEF ExistsBijection
<1>7. 1 \in A <=> Head(s) = x
  BY <1>1 DEF A
<1>8. Cardinality(A \ {1}) = IF 1 \in A THEN Cardinality(A) - 1 ELSE Cardinality(A)
  BY <1>2, FS_RemoveElement
<1>9. Cardinality(A) \in Nat
  BY <1>2, FS_CardinalityType
<1>10. Cardinality(B) = Cardinality(A) - (IF Head(s) = x THEN 1 ELSE 0)
  BY <1>6, <1>7, <1>8, <1>9
<1> QED
  BY <1>10 DEF Count, A, B

LEMMA CountEmpty == ASSUME NEW m PROVE Count(<<>>, m) = 0
<1>1. {k \in DOMAIN <<>> : <<>>[k] = m} = {}
  OBVIOUS
<1> QED
  BY <1>1, FS_EmptySet DEF Count
-----------------------------------------------------------------------------
(* What taking a report off the pipe does to the counts. *)
LEMMA Received ==
  ASSUME TypeOK, NEW m \in {"n", "f"}, Receive(m)
  PROVE  /\ reports' \in Seq({"n", "f"})
         /\ Count(reports', "n") = Count(reports, "n") - (IF m = "n" THEN 1 ELSE 0)
         /\ Count(reports', "f") = Count(reports, "f") - (IF m = "f" THEN 1 ELSE 0)
<1>1. reports # <<>> /\ Head(reports) = m /\ reports' = Tail(reports) /\ reports \in Seq({"n", "f"})
  BY DEF Receive, TypeOK
<1>2. reports' \in Seq({"n", "f"})
  BY <1>1, HeadTailProperties
<1>3. \A x : Count(Tail(reports), x) = Count(reports, x) - (IF Head(reports) = x THEN 1 ELSE 0)
  BY <1>1, CountTail
<1> QED
  BY <1>1, <1>2, <1>3

(* What writing a report, and writing and reading a command, do to them. *)
LEMMA Reported ==
  ASSUME TypeOK, NEW m \in {"n", "f"}, reports' = Append(reports, m)
  PROVE  /\ reports' \in Seq({"n", "f"})
         /\ Count(reports', "n") = Count(reports, "n") + (IF m = "n" THEN 1 ELSE 0)
         /\ Count(reports', "f") = Count(reports, "f") + (IF m = "f" THEN 1 ELSE 0)
<1>1. reports \in Seq({"n", "f"})
  BY DEF TypeOK
<1> QED
  BY <1>1, CountAppend, AppendProperties

LEMMA Commanded ==
  ASSUME TypeOK, NEW m \in {"c", "e"}, commands' = Append(commands, m)
  PROVE  /\ commands' \in Seq({"c", "e"}) /\ Len(commands') = Len(commands) + 1
         /\ Count(commands', "e") = Count(commands, "e") + (IF m = "e" THEN 1 ELSE 0)
<1>1. commands \in Seq({"c", "e"})
  BY DEF TypeOK
<1> QED
  BY <1>1, CountAppend, AppendProperties

LEMMA Obeyed ==
  ASSUME TypeOK, NEW m \in {"c", "e"},
         commands # <<>>, Head(commands) = m, commands' = Tail(commands)
  PROVE  /\ commands' \in Seq({"c", "e"}) /\ Len(commands') = Len(commands) - 1
         /\ Count(commands', "e") = Count(commands, "e") - (IF m = "e" THEN 1 ELSE 0)
<1>1. commands \in Seq({"c", "e"})
  BY DEF TypeOK
<1> QED
  BY <1>1, CountTail, HeadTailProperties

(* Every step keeps the books. *)
LEMMA BooksKept == IInv /\ [Next]_vars => IInv'
<1> SUFFICES ASSUME IInv, [Next]_vars PROVE IInv'
  OBVIOUS
<1> DEFINE rn == Count(reports, "n")
           rf == Count(reports, "f")
           ce == Count(commands, "e")
           lc == Len(commands)
<1>0. rn \in Nat /\ rf \in Nat /\ ce \in Nat /\ lc \in Nat
  BY CountNat DEF IInv, TypeOK
<1>t. TypeOK
  BY DEF IInv
<1>b. /\ req_num + rn - rf = serving + served + lost
      /\ child_num + ce = Live + lost + toFork
      /\ waiting = rf + lc
      /\ PoolWithinLimits
      /\ manager # "exited" => SpareCounted
      /\ manager = "manage" => toFork = 0
  BY DEF IInv, RequestsAccounted, ChildrenAccounted, CommandsAccounted
<1>s. SUFFICES /\ TypeOK'
               /\ req_num' + rn' - rf' = serving' + served' + lost'
               /\ child_num' + ce' = Live' + lost' + toFork'
               /\ waiting' = rf' + lc'
               /\ PoolWithinLimits'
               /\ manager' # "exited" => SpareCounted'
               /\ manager' = "manage" => toFork' = 0
  BY DEF IInv, RequestsAccounted, ChildrenAccounted, CommandsAccounted
<1>1. CASE UNCHANGED <<reports, commands>>
                /\ \/ UNCHANGED vars \/ Prefork \/ StartManaging \/ PreforkFails
                   \/ Accept \/ AcceptFails \/ Answer \/ Refuse
  <2>1. rn' = rn /\ rf' = rf /\ ce' = ce /\ lc' = lc
    BY <1>1
  <2> HIDE DEF rn, rf, ce, lc
  <2>2. CASE UNCHANGED vars
    <3>1. TypeOK'
      BY <1>t, <2>2 DEF vars, TypeOK, counters, children
    <3> QED
      BY <1>0, <1>t, <1>b, <2>1, <2>2, <3>1 DEF vars, TypeOK, counters, children,
         Live, PoolWithinLimits, SpareCounted
  <2>3. CASE Prefork
    <3>1. TypeOK'
      BY <1>t, <2>3 DEF Prefork, NewChild, TypeOK, counters, children
    <3> QED
      BY <1>0, <1>t, <1>b, <2>1, <2>3, <3>1 DEF Prefork, NewChild, TypeOK, counters, children,
         Live, PoolWithinLimits, SpareCounted
  <2>4. CASE StartManaging
    <3>1. TypeOK'
      BY <1>t, <2>4 DEF StartManaging, TypeOK, counters, children
    <3> QED
      BY <1>0, <1>t, <1>b, <2>1, <2>4, <3>1 DEF StartManaging, TypeOK, counters, children,
         Live, PoolWithinLimits, SpareCounted
  <2>5. CASE PreforkFails
    <3>1. TypeOK'
      BY <1>t, <2>5 DEF PreforkFails, TypeOK, counters, children
    <3> QED
      BY <1>0, <1>t, <1>b, <2>1, <2>5, <3>1 DEF PreforkFails, TypeOK, counters, children,
         Live, PoolWithinLimits, SpareCounted
  <2>6. CASE Accept
    <3>1. TypeOK'
      BY <1>t, <2>6 DEF Accept, TypeOK, counters, children
    <3> QED
      BY <1>0, <1>t, <1>b, <2>1, <2>6, <3>1 DEF Accept, TypeOK, counters, children,
         Live, PoolWithinLimits, SpareCounted
  <2>9. CASE AcceptFails
    <3>1. TypeOK'
      BY <1>t, <2>9 DEF AcceptFails, TypeOK, counters, children
    <3> QED
      BY <1>0, <1>t, <1>b, <2>1, <2>9, <3>1 DEF AcceptFails, TypeOK, counters, children,
         Live, PoolWithinLimits, SpareCounted
  <2>7. CASE Answer
    <3>1. TypeOK'
      BY <1>t, <2>7 DEF Answer, TypeOK, counters, children
    <3> QED
      BY <1>0, <1>t, <1>b, <2>1, <2>7, <3>1 DEF Answer, TypeOK, counters, children,
         Live, PoolWithinLimits, SpareCounted
  <2>8. CASE Refuse
    <3>1. TypeOK'
      BY <1>t, <2>8 DEF Refuse, TypeOK, counters, children
    <3> QED
      BY <1>0, <1>t, <1>b, <2>1, <2>8, <3>1 DEF Refuse, TypeOK, counters, children,
         Live, PoolWithinLimits, SpareCounted
  <2> QED
    BY <1>1, <2>2, <2>3, <2>4, <2>5, <2>6, <2>7, <2>8, <2>9
<1>2. CASE ReportNew
  <2>1. reports' \in Seq({"n", "f"}) /\ rn' = rn + 1 /\ rf' = rf
    BY <1>0, <1>t, <1>2, Reported DEF ReportNew
  <2>2. commands' = commands /\ ce' = ce /\ lc' = lc
    BY <1>2 DEF ReportNew
  <2> HIDE DEF rn, rf, ce, lc
  <2>3. TypeOK'
    BY <1>t, <1>2, <2>1, <2>2 DEF ReportNew, TypeOK, counters, children, NewChild
  <2> QED
    BY <1>0, <1>t, <1>b, <1>2, <2>1, <2>2, <2>3 DEF ReportNew, TypeOK, counters, children,
       NewChild, Live, PoolWithinLimits, SpareCounted
<1>3. CASE ReportFinish
  <2>1. reports' \in Seq({"n", "f"}) /\ rn' = rn /\ rf' = rf + 1
    BY <1>0, <1>t, <1>3, Reported DEF ReportFinish
  <2>2. commands' = commands /\ ce' = ce /\ lc' = lc
    BY <1>3 DEF ReportFinish
  <2> HIDE DEF rn, rf, ce, lc
  <2>3. TypeOK'
    BY <1>t, <1>3, <2>1, <2>2 DEF ReportFinish, TypeOK, counters, children, NewChild
  <2> QED
    BY <1>0, <1>t, <1>b, <1>3, <2>1, <2>2, <2>3 DEF ReportFinish, TypeOK, counters, children,
       NewChild, Live, PoolWithinLimits, SpareCounted
<1>4. CASE HandleNew
  <2>1. reports' \in Seq({"n", "f"}) /\ rn' = rn - 1 /\ rf' = rf
    BY <1>0, <1>t, <1>4, Received DEF HandleNew
  <2>2. commands' = commands /\ ce' = ce /\ lc' = lc
    BY <1>4 DEF HandleNew, Receive
  <2> HIDE DEF rn, rf, ce, lc
  <2>3. UNCHANGED <<manager, toFork, accepted, serving, served, waiting, lost, backlog, mayFail>>
        /\ req_num' = req_num + 1 /\ manager = "manage"
    BY <1>4 DEF HandleNew, NewChild, Receive, children
  <2>4. CASE req_num + 1 >= child_num /\ child_num <= MAXCHILD
    <3>1. child_num' = child_num + 1 /\ accepting' = accepting + 1
      BY <1>4, <2>4 DEF HandleNew, NewChild
    <3>2. PoolWithinLimits' /\ (manager' # "exited" => SpareCounted')
      BY <1>t, <1>b, <2>3, <2>4, <3>1 DEF PoolWithinLimits, SpareCounted, TypeOK
    <3>3. TypeOK'
      BY <1>t, <2>1, <2>2, <2>3, <3>1 DEF TypeOK
    <3> QED
      BY <1>0, <1>t, <1>b, <2>1, <2>2, <2>3, <3>1, <3>2, <3>3 DEF TypeOK, Live
  <2>5. CASE ~ (req_num + 1 >= child_num /\ child_num <= MAXCHILD)
    <3>1. child_num' = child_num /\ accepting' = accepting
      BY <1>4, <2>5 DEF HandleNew, children
    <3>2. PoolWithinLimits' /\ (manager' # "exited" => SpareCounted')
      BY <1>t, <1>b, <2>3, <2>5, <3>1 DEF PoolWithinLimits, SpareCounted, TypeOK
    <3>3. TypeOK'
      BY <1>t, <2>1, <2>2, <2>3, <3>1 DEF TypeOK
    <3> QED
      BY <1>0, <1>t, <1>b, <2>1, <2>2, <2>3, <3>1, <3>2, <3>3 DEF TypeOK, Live
  <2> QED
    BY <2>4, <2>5
<1>5. CASE HandleNewFails
  <2>1. reports' \in Seq({"n", "f"}) /\ rn' = rn - 1 /\ rf' = rf
    BY <1>0, <1>t, <1>5, Received DEF HandleNewFails
  <2>2. commands' = commands /\ ce' = ce /\ lc' = lc
    BY <1>5 DEF HandleNewFails, Receive
  <2> HIDE DEF rn, rf, ce, lc
  <2>3. TypeOK'
    BY <1>t, <1>5, <2>1, <2>2 DEF HandleNewFails, Receive, TypeOK, counters, children, NewChild
  <2> QED
    BY <1>0, <1>t, <1>b, <1>5, <2>1, <2>2, <2>3 DEF HandleNewFails, Receive, TypeOK, counters, children,
       NewChild, Live, PoolWithinLimits, SpareCounted
<1>6. CASE ReadContinue
  <2>1. commands' \in Seq({"c", "e"}) /\ lc' = lc - 1 /\ ce' = ce
    BY <1>0, <1>t, <1>6, Obeyed DEF ReadContinue
  <2>2. reports' = reports /\ rn' = rn /\ rf' = rf
    BY <1>6 DEF ReadContinue
  <2> HIDE DEF rn, rf, ce, lc
  <2>3. TypeOK'
    BY <1>t, <1>6, <2>1, <2>2 DEF ReadContinue, TypeOK, counters, children
  <2> QED
    BY <1>0, <1>t, <1>b, <1>6, <2>1, <2>2, <2>3 DEF ReadContinue, TypeOK, counters, children,
       Live, PoolWithinLimits, SpareCounted
<1>7. CASE ReadExit
  <2>1. commands' \in Seq({"c", "e"}) /\ lc' = lc - 1 /\ ce' = ce - 1
    BY <1>0, <1>t, <1>7, Obeyed DEF ReadExit
  <2>2. reports' = reports /\ rn' = rn /\ rf' = rf
    BY <1>7 DEF ReadExit
  <2> HIDE DEF rn, rf, ce, lc
  <2>3. TypeOK'
    BY <1>t, <1>7, <2>1, <2>2 DEF ReadExit, TypeOK, counters, children
  <2> QED
    BY <1>0, <1>t, <1>b, <1>7, <2>1, <2>2, <2>3 DEF ReadExit, TypeOK, counters, children,
       Live, PoolWithinLimits, SpareCounted
<1>8. CASE HandleFinish
  <2>1. reports' \in Seq({"n", "f"}) /\ rn' = rn /\ rf' = rf - 1
    BY <1>0, <1>t, <1>8, Received DEF HandleFinish
  <2>2. CASE child_num > req_num /\ child_num > PRECHILD
    <3>1. child_num' = child_num - 1 /\ commands' = Append(commands, "e")
      BY <1>8, <2>2 DEF HandleFinish
    <3>2. commands' \in Seq({"c", "e"}) /\ lc' = lc + 1 /\ ce' = ce + 1
      BY <1>t, <3>1, Commanded
    <3> HIDE DEF rn, rf, ce, lc
    <3>3. TypeOK'
      BY <1>t, <1>8, <2>1, <2>2, <3>1, <3>2 DEF HandleFinish, TypeOK, children, Receive
    <3> QED
      BY <1>0, <1>t, <1>b, <1>8, <2>1, <2>2, <3>1, <3>2, <3>3 DEF HandleFinish, Receive,
         TypeOK, children, Live, PoolWithinLimits, SpareCounted
  <2>3. CASE ~ (child_num > req_num /\ child_num > PRECHILD)
    <3>1. child_num' = child_num /\ commands' = Append(commands, "c")
      BY <1>8, <2>3 DEF HandleFinish
    <3>2. commands' \in Seq({"c", "e"}) /\ lc' = lc + 1 /\ ce' = ce
      BY <1>0, <1>t, <3>1, Commanded
    <3> HIDE DEF rn, rf, ce, lc
    <3>3. TypeOK'
      BY <1>t, <1>8, <2>1, <3>1, <3>2 DEF HandleFinish, TypeOK, children, Receive
    <3> QED
      BY <1>0, <1>t, <1>b, <1>8, <2>1, <2>3, <3>1, <3>2, <3>3 DEF HandleFinish, Receive,
         TypeOK, children, Live, PoolWithinLimits, SpareCounted
  <2> QED
    BY <2>2, <2>3
<1>9. UNCHANGED vars \/ Prefork \/ StartManaging \/ PreforkFails \/ Accept \/ AcceptFails \/ Answer \/ Refuse
        => UNCHANGED <<reports, commands>>
  BY DEF vars, Prefork, StartManaging, PreforkFails, Accept, AcceptFails, Answer, Refuse
<1> QED
  BY <1>1, <1>2, <1>3, <1>4, <1>5, <1>6, <1>7, <1>8, <1>9
  DEF Next, ManagerStep, Report, Command, Service

LEMMA BooksOpened == Init => IInv
<1> SUFFICES ASSUME Init PROVE IInv
  OBVIOUS
<1>1. \A m : Count(<<>>, m) = 0
  BY CountEmpty
<1>2. TypeOK
  BY DEF Init, TypeOK
<1>3. PRECHILD \in Nat /\ MAXCHILD \in Nat /\ PRECHILD > 0 /\ PRECHILD <= MAXCHILD
  OBVIOUS
<1>4. RequestsAccounted /\ ChildrenAccounted /\ CommandsAccounted
  BY <1>1, <1>3 DEF Init, RequestsAccounted, ChildrenAccounted, CommandsAccounted, Live
<1>5. PoolWithinLimits /\ SpareCounted /\ manager # "manage"
  BY <1>3 DEF Init, PoolWithinLimits, SpareCounted
<1> QED
  BY <1>2, <1>4, <1>5 DEF IInv

(* The inductive invariant of the pool. *)
THEOREM InductiveInvariant == Spec => []IInv
BY BooksOpened, BooksKept, PTL DEF Spec

(* The manager's counters agree with its children. *)
THEOREM BooksBalance ==
  Spec => [](RequestsAccounted /\ ChildrenAccounted /\ CommandsAccounted)
<1>1. IInv => RequestsAccounted /\ ChildrenAccounted /\ CommandsAccounted
  BY DEF IInv
<1> QED
  BY <1>1, InductiveInvariant, PTL

(* The counted pool stays between PRECHILD and one above MAXCHILD. *)
THEOREM PoolBounded == Spec => []PoolWithinLimits
<1>1. IInv => PoolWithinLimits
  BY DEF IInv
<1> QED
  BY <1>1, InductiveInvariant, PTL

(* When nothing is on its way and the pool may grow, a child can accept. *)
THEOREM SomeoneAccepts == Spec => []AcceptorLeft
<1>1. IInv => AcceptorLeft
  <2> SUFFICES ASSUME IInv, manager = "manage", child_num <= MAXCHILD,
                      reports = <<>>, commands = <<>>
               PROVE  accepting + accepted > 0
    BY DEF AcceptorLeft
  <2>1. Count(reports, "n") = 0 /\ Count(reports, "f") = 0 /\ Count(commands, "e") = 0
        /\ Len(commands) = 0
    BY CountEmpty
  <2>2. req_num < child_num /\ toFork = 0
    BY DEF IInv, SpareCounted
  <2>3. /\ accepting \in Nat /\ accepted \in Nat
        /\ serving \in Nat /\ served \in Nat
        /\ waiting \in Nat
        /\ lost \in Nat /\ child_num \in Nat /\ req_num \in Int
    BY DEF IInv, TypeOK
  <2>4. waiting = 0 /\ req_num = serving + served + lost
        /\ child_num = accepting + accepted + serving
                         + served + waiting + lost
    BY <2>1, <2>2, <2>3 DEF IInv, RequestsAccounted, ChildrenAccounted, CommandsAccounted, Live
  <2> QED
    BY <2>2, <2>3, <2>4
<1> QED
  BY <1>1, InductiveInvariant, PTL
=============================================================================
