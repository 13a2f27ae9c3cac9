--------------------------- MODULE ProcessModeProofs ---------------------------
(***************************************************************************)
(* Proofs about ProcessMode for any pool size and any number of clients.   *)
(* The loop counters (CounterOK) are inductive with TypeOK, the shape of   *)
(* the process tree (ChildrenOK) with both; from it follow the two bounds  *)
(* and the finality of close().                                            *)
(***************************************************************************)
EXTENDS ProcessMode, FiniteSetTheorems, TLAPS

USE PoolAssumption

Typed == TypeOK /\ CounterOK /\ RootOK

(* A process and the child it forks next have different names. *)
LEMMA ChildIsPath ==
  ASSUME Typed, NEW p \in Paths, Looping(p)
  PROVE  /\ Child(p) \in Paths /\ i[p] \in Indices
         /\ i[p] \in Child(p) /\ i[p] \notin p /\ Child(p) # p
         /\ i[p] \in Nat /\ i[p] + 1 \in 0 .. PoolSize
         /\ \A k \in p : k \in Nat /\ k < i[p]
<1>1. pc[p] = "fork" /\ i[p] \in 0 .. PoolSize /\ i[p] < PoolSize
  BY DEF Typed, TypeOK, Looping
<1>2. \A k \in p : k \in Nat /\ k < i[p]
  <2>1. p \in Created /\ p \notin Active
    BY <1>1 DEF Created, Active
  <2>2. \A k \in p : k < i[p]
    BY <1>1, <2>1 DEF Typed, CounterOK
  <2> QED
    BY <2>2 DEF Paths, Indices
<1>3. i[p] \in Indices /\ i[p] \in Nat /\ i[p] + 1 \in 0 .. PoolSize
  BY <1>1 DEF Indices
<1>4. i[p] \notin p
  BY <1>2, <1>3
<1> QED
  BY <1>2, <1>3, <1>4 DEF Child, Paths

(* A process that waits or serves is not the first one, and has one index of *)
(* the loop behind it at most.                                               *)
LEMMA ActiveCounter ==
  ASSUME Typed, NEW p \in Active
  PROVE  /\ p \in Paths /\ p \in Created /\ p # {}
         /\ i[p] \in p /\ i[p] \in Nat /\ i[p] + 1 \in 0 .. PoolSize
         /\ \A k \in p : k \in Nat /\ k <= i[p]
<1>1. p \in Paths /\ p \in Created
  BY DEF Active, Created
<1>2. i[p] \in p /\ \A k \in p : k <= i[p]
  BY <1>1 DEF Typed, CounterOK
<1>3. p \subseteq Indices
  BY <1>1 DEF Paths
<1> QED
  BY <1>1, <1>2, <1>3 DEF Indices

(* main's initial state. *)
LEMMA TypedInit == Init => Typed
<1> SUFFICES ASSUME Init PROVE Typed
  OBVIOUS
<1>1. {} \in Paths
  BY DEF Paths
<1>2. TypeOK
  BY <1>1 DEF Init, TypeOK, Labels
<1>3. RootOK
  BY <1>1 DEF Init, RootOK
<1>4. CounterOK
  BY DEF Init, CounterOK, Created, Active
<1> QED
  BY <1>2, <1>3, <1>4 DEF Typed

(* What a step does to the process tree: a loop step that forks, one that   *)
(* does not, the end of the loop, an accept, the end of a service, a death. *)
(* pc and i alone matter.                                                   *)
LEMMA StepKinds ==
  ASSUME Typed, Next
  PROVE  \E p \in Paths :
    \/ ForkChild(p)
    \/ Looping(p) /\ ForkFails(p)
    \/ EndLoop(p)
    \/ pc[p] = "accept" /\ Accept(p)
    \/ p \in Active /\ Continue(p) /\ (AcceptFails(p) \/ ServeAndClose(p) \/ ServeAndLeave(p) \/ ServeCgi(p))
    \/ pc[p] = "serve" /\ Die(p)
BY DEF Next, Loop, Serve, ForkFails, Accept, AcceptFails, ServeAndClose,
       ServeAndLeave, ServeCgi, Die, Active

LEMMA CounterStep == Typed /\ [Next]_vars => Typed'
<1> SUFFICES ASSUME Typed, [Next]_vars PROVE Typed'
  OBVIOUS
<1>1. CASE UNCHANGED vars
  <2>1. TypeOK'
    BY <1>1 DEF Typed, TypeOK, vars, net
  <2>2. CounterOK'
    BY <1>1 DEF Typed, CounterOK, Created, Active, vars
  <2>3. RootOK'
    BY <1>1 DEF Typed, RootOK, vars
  <2> QED
    BY <2>1, <2>2, <2>3 DEF Typed
<1>2. CASE Next
  <2> TypeOK /\ CounterOK /\ RootOK
    BY DEF Typed
  <2>1. PICK p \in Paths :
          \/ ForkChild(p)
          \/ Looping(p) /\ ForkFails(p)
          \/ EndLoop(p)
          \/ pc[p] = "accept" /\ Accept(p)
          \/ p \in Active /\ Continue(p) /\ (AcceptFails(p) \/ ServeAndClose(p) \/ ServeAndLeave(p) \/ ServeCgi(p))
          \/ pc[p] = "serve" /\ Die(p)
    BY <1>2, StepKinds
  <2>2. CASE ForkChild(p)
    <3> DEFINE q == Child(p)
    <3>1. Looping(p)
      BY <2>2 DEF ForkChild
    <3>2. /\ q \in Paths /\ q # p /\ i[p] \in q /\ q # {}
          /\ i[p] \in Nat /\ i[p] \in Indices /\ i[p] + 1 \in 0 .. PoolSize
          /\ \A k \in p : k \in Nat /\ k < i[p]
      BY <3>1, ChildIsPath
    <3>3. \A k \in q : k <= i[p]
      BY <3>2 DEF Child
    <3> HIDE DEF q
    <3>4. /\ pc' = [pc EXCEPT ![q] = "accept"]
          /\ i' = [i EXCEPT ![p] = @ + 1, ![q] = i[p]]
          /\ holds' = [holds EXCEPT ![q] = holds[p]]
          /\ UNCHANGED <<backlog, accepts, closed, stuck>>
      BY <2>2 DEF ForkChild, net, q
    <3>5. TypeOK'
      <4>1. i' \in [Paths -> 0 .. PoolSize]
        BY <3>2, <3>4 DEF TypeOK, Indices
      <4> QED
        BY <3>2, <3>4, <4>1 DEF TypeOK, Labels
    <3>6. i'[p] = i[p] + 1 /\ i'[q] = i[p] /\ \A r \in Paths : r # p /\ r # q => i'[r] = i[r]
      BY <3>2, <3>4 DEF TypeOK
    <3>7. pc'[q] = "accept" /\ \A r \in Paths : r # q => pc'[r] = pc[r]
      BY <3>2, <3>4 DEF TypeOK
    <3>8. CounterOK'
      <4> SUFFICES ASSUME NEW r \in Created'
                   PROVE  IF r \in Active' THEN i'[r] \in r /\ \A k \in r : k <= i'[r]
                          ELSE pc'[r] # "dead" => \A k \in r : k < i'[r]
        BY DEF CounterOK
      <4>1. CASE r = q
        BY <4>1, <3>2, <3>3, <3>6, <3>7 DEF Active
      <4>2. CASE r = p
        <5>1. r \notin Active'
          BY <4>2, <3>1, <3>2, <3>7 DEF Active, Looping
        <5>2. \A k \in r : k < i'[r]
          BY <4>2, <3>2, <3>6
        <5> QED
          BY <5>1, <5>2
      <4>3. CASE r # p /\ r # q
        <5>1. r \in Paths /\ r \in Created /\ (r \in Active' <=> r \in Active)
          BY <4>3, <3>7 DEF Created, Active
        <5> QED
          BY <4>3, <5>1, <3>6, <3>7 DEF CounterOK
      <4> QED
        BY <4>1, <4>2, <4>3
    <3>9. RootOK'
      <4>1. {} \in Paths
        BY DEF Paths
      <4> QED
        BY <4>1, <3>2, <3>7 DEF RootOK
    <3> QED
      BY <3>5, <3>8, <3>9 DEF Typed
  <2>3. CASE Looping(p) /\ ForkFails(p)
    <3>1. i' = [i EXCEPT ![p] = @ + 1] /\ UNCHANGED <<pc, backlog, accepts, closed, holds, stuck>>
      BY <2>3 DEF ForkFails, net
    <3>2. i[p] + 1 \in 0 .. PoolSize /\ i[p] \in Nat /\ (\A k \in p : k \in Nat /\ k < i[p])
          /\ p \notin Active
      BY <2>3, ChildIsPath DEF Looping, Active
    <3>3. TypeOK'
      BY <3>1, <3>2 DEF TypeOK
    <3>4. i'[p] = i[p] + 1 /\ \A r \in Paths : r # p => i'[r] = i[r]
      BY <3>1 DEF TypeOK
    <3>5. CounterOK'
      <4> SUFFICES ASSUME NEW r \in Created'
                   PROVE  IF r \in Active' THEN i'[r] \in r /\ \A k \in r : k <= i'[r]
                          ELSE pc'[r] # "dead" => \A k \in r : k < i'[r]
        BY DEF CounterOK
      <4>1. r \in Paths /\ r \in Created /\ (r \in Active' <=> r \in Active)
        BY <3>1 DEF Created, Active
      <4>2. CASE r = p
        <5>1. \A k \in r : k < i'[r]
          BY <4>2, <3>2, <3>4
        <5> QED
          BY <4>1, <4>2, <3>2, <5>1
      <4>3. CASE r # p
        BY <4>1, <4>3, <3>1, <3>4 DEF CounterOK
      <4> QED
        BY <4>2, <4>3
    <3>6. RootOK'
      BY <3>1 DEF RootOK
    <3> QED
      BY <3>3, <3>5, <3>6 DEF Typed
  <2>4. CASE EndLoop(p)
    <3>1. pc[p] = "fork" /\ pc' = [pc EXCEPT ![p] = "manage"]
          /\ UNCHANGED <<i, backlog, accepts, closed, holds, stuck>>
      BY <2>4 DEF EndLoop, net
    <3>2. TypeOK'
      BY <3>1 DEF TypeOK, Labels
    <3>3. pc'[p] = "manage" /\ \A r \in Paths : r # p => pc'[r] = pc[r]
      BY <3>1 DEF TypeOK
    <3>4. Created' = Created /\ Active' = Active
      BY <3>1, <3>3 DEF Created, Active
    <3>5. CounterOK'
      BY <3>1, <3>3, <3>4 DEF CounterOK, Created
    <3>6. RootOK'
      <4>1. {} \in Paths
        BY DEF Paths
      <4> QED
        BY <4>1, <3>3 DEF RootOK
    <3> QED
      BY <3>2, <3>5, <3>6 DEF Typed
  <2>5. CASE pc[p] = "accept" /\ Accept(p)
    <3>1. /\ pc[p] = "accept" /\ pc' = [pc EXCEPT ![p] = "serve"]
          /\ backlog > 0 /\ backlog' = backlog - 1 /\ accepts' = accepts + 1
          /\ holds' = [holds EXCEPT ![p] = @ \cup {p}]
          /\ UNCHANGED <<i, closed, stuck>>
      BY <2>5 DEF Accept
    <3>2. TypeOK'
      BY <3>1 DEF TypeOK, Labels
    <3>3. pc'[p] = "serve" /\ \A r \in Paths : r # p => pc'[r] = pc[r]
      BY <3>1 DEF TypeOK
    <3>4. Created' = Created /\ Active' = Active
      BY <3>1, <3>3 DEF Created, Active
    <3>5. CounterOK'
      BY <3>1, <3>3, <3>4 DEF CounterOK
    <3>6. RootOK'
      <4>1. {} \in Paths
        BY DEF Paths
      <4> QED
        BY <4>1, <3>1, <3>3 DEF RootOK
    <3> QED
      BY <3>2, <3>5, <3>6 DEF Typed
  <2>6. CASE p \in Active /\ Continue(p) /\ (AcceptFails(p) \/ ServeAndClose(p) \/ ServeAndLeave(p) \/ ServeCgi(p))
    <3>1. pc' = [pc EXCEPT ![p] = "fork"] /\ i' = [i EXCEPT ![p] = @ + 1]
      BY <2>6 DEF Continue
    <3>2. /\ p # {} /\ i[p] \in Nat /\ i[p] + 1 \in 0 .. PoolSize
          /\ \A k \in p : k \in Nat /\ k <= i[p]
      BY <2>6, ActiveCounter
    <3>3. TypeOK'
      <4>1. backlog' \in 0 .. Clients /\ accepts' \in Nat
            /\ holds' \in [Paths -> SUBSET Paths] /\ closed' \subseteq Paths
            /\ stuck' \subseteq Paths
        BY <2>6 DEF AcceptFails, ServeAndClose, ServeAndLeave, ServeCgi, net, TypeOK
      <4> QED
        BY <3>1, <3>2, <4>1 DEF TypeOK, Labels
    <3>4. pc'[p] = "fork" /\ \A r \in Paths : r # p => pc'[r] = pc[r]
      BY <3>1 DEF TypeOK
    <3>5. i'[p] = i[p] + 1 /\ \A r \in Paths : r # p => i'[r] = i[r]
      BY <3>1 DEF TypeOK
    <3>6. CounterOK'
      <4> SUFFICES ASSUME NEW r \in Created'
                   PROVE  IF r \in Active' THEN i'[r] \in r /\ \A k \in r : k <= i'[r]
                          ELSE pc'[r] # "dead" => \A k \in r : k < i'[r]
        BY DEF CounterOK
      <4>1. CASE r = p
        <5>1. r \notin Active' /\ \A k \in r : k < i'[r]
          BY <4>1, <3>2, <3>4, <3>5 DEF Active
        <5> QED
          BY <5>1
      <4>2. CASE r # p
        <5>1. r \in Paths /\ r \in Created /\ (r \in Active' <=> r \in Active)
          BY <4>2, <3>4 DEF Created, Active
        <5> QED
          BY <4>2, <5>1, <3>4, <3>5 DEF CounterOK
      <4> QED
        BY <4>1, <4>2
    <3>7. RootOK'
      <4>1. {} \in Paths
        BY DEF Paths
      <4> QED
        BY <4>1, <3>2, <3>4 DEF RootOK
    <3> QED
      BY <3>3, <3>6, <3>7 DEF Typed
  <2>7. CASE pc[p] = "serve" /\ Die(p)
    <3>1. pc[p] = "serve" /\ pc' = [pc EXCEPT ![p] = "dead"]
          /\ holds' = [holds EXCEPT ![p] = {}]
          /\ UNCHANGED <<i, backlog, accepts, closed, stuck>>
      BY <2>7 DEF Die, net
    <3>2. TypeOK'
      BY <3>1 DEF TypeOK, Labels
    <3>3. pc'[p] = "dead" /\ \A r \in Paths : r # p => pc'[r] = pc[r]
      BY <3>1 DEF TypeOK
    <3>4. CounterOK'
      <4>1. Created' = Created /\ Active' = Active \ {p}
        BY <3>1, <3>3 DEF Created, Active
      <4> QED
        BY <3>1, <3>3, <4>1 DEF CounterOK, Created
    <3>5. RootOK'
      <4>1. {} \in Paths
        BY DEF Paths
      <4> QED
        BY <4>1, <3>1, <3>3 DEF RootOK
    <3> QED
      BY <3>2, <3>4, <3>5 DEF Typed
  <2> QED
    BY <2>1, <2>2, <2>3, <2>4, <2>5, <2>6, <2>7
<1> QED
  BY <1>1, <1>2

(* The processes of server_mode 2 keep their types. *)
THEOREM TypeCorrect == Spec => []TypeOK
<1>1. Typed => TypeOK
  BY DEF Typed
<1> QED
  BY <1>1, TypedInit, CounterStep, PTL DEF Spec
-----------------------------------------------------------------------------
(* A process forks a child of a name that no process has had: the loop of   *)
(* server.c:239 passes every index once.                                    *)
LEMMA ChildIsFresh ==
  ASSUME Typed, ChildrenOK, NEW p \in Paths, Looping(p)
  PROVE  Child(p) \notin Created
<1>1. /\ i[p] \in Indices /\ i[p] \in Nat
      /\ \A k \in p : k < i[p]
  BY ChildIsPath
<1> SUFFICES ASSUME p \cup {i[p]} \in Created PROVE FALSE
  BY DEF Child
<1>2. i[p] < i[p]
  BY <1>1 DEF ChildrenOK
<1> QED
  BY <1>1, <1>2

(* Every other step leaves the set of processes alone. *)
LEMMA CreatedStep ==
  ASSUME Typed, Next, \A p \in Paths : ~ ForkChild(p)
  PROVE  Created' = Created /\ \A r \in Paths : i'[r] \in Nat /\ i[r] <= i'[r]
<1> TypeOK
  BY DEF Typed
<1>1. PICK p \in Paths :
        \/ Looping(p) /\ ForkFails(p)
        \/ EndLoop(p)
        \/ pc[p] = "accept" /\ Accept(p)
        \/ p \in Active /\ Continue(p)
        \/ pc[p] = "serve" /\ Die(p)
  BY StepKinds
<1>2. CASE Looping(p) /\ ForkFails(p)
  BY <1>2 DEF ForkFails, TypeOK, Created
<1>3. CASE EndLoop(p)
  BY <1>3 DEF EndLoop, TypeOK, Created
<1>4. CASE pc[p] = "accept" /\ Accept(p)
  BY <1>4 DEF Accept, TypeOK, Created
<1>5. CASE p \in Active /\ Continue(p)
  BY <1>5 DEF Continue, TypeOK, Created, Active
<1>6. CASE pc[p] = "serve" /\ Die(p)
  BY <1>6 DEF Die, TypeOK, Created
<1> QED
  BY <1>1, <1>2, <1>3, <1>4, <1>5, <1>6

(* The tree the fork loops grow: each child is below its parent's counter. *)
LEMMA ChildrenStep == Typed /\ ChildrenOK /\ [Next]_vars => ChildrenOK'
<1> SUFFICES ASSUME Typed, ChildrenOK, [Next]_vars,
                    NEW r \in Paths, NEW j \in Indices,
                    r \cup {j} \in Created', \A k \in r : k < j
             PROVE  r \in Created' /\ j < i'[r]
  BY DEF ChildrenOK
<1> TypeOK /\ j \in Nat
  BY DEF Typed, Indices
<1>1. CASE UNCHANGED vars
  <2>1. r \cup {j} \in Created
    BY <1>1 DEF vars, Created
  <2>2. r \in Created /\ j < i[r]
    BY <2>1 DEF ChildrenOK
  <2> QED
    BY <1>1, <2>2 DEF vars, Created
<1>2. ASSUME NEW p \in Paths, ForkChild(p)
      PROVE  r \in Created' /\ j < i'[r]
  <2> DEFINE q == Child(p)
  <2>1. Looping(p)
    BY <1>2 DEF ForkChild
  <2>2. /\ q \in Paths /\ q # p /\ i[p] \in q /\ i[p] \notin p /\ i[p] \in Nat
        /\ \A k \in p : k \in Nat /\ k < i[p]
    BY <2>1, ChildIsPath
  <2>3. q \notin Created /\ p \in Created
    BY <2>1, ChildIsFresh DEF Looping, Created
  <2>4. q = p \cup {i[p]}
    BY DEF Child
  <2> HIDE DEF q
  <2>5. /\ pc' = [pc EXCEPT ![q] = "accept"]
        /\ i' = [i EXCEPT ![p] = @ + 1, ![q] = i[p]]
    BY <1>2 DEF ForkChild, q
  <2>6. Created' = Created \cup {q}
    BY <2>2, <2>5 DEF Created, TypeOK
  <2>7. i'[p] = i[p] + 1 /\ \A a \in Paths : a # p /\ a # q => i'[a] = i[a]
    BY <2>2, <2>5 DEF TypeOK
  <2>8. CASE r \cup {j} = q
    <3>1. \A k \in r : k \in Nat
      BY DEF Paths, Indices
    <3>2. j = i[p]
      <4>1. j \in q
        BY <2>8
      <4>2. j = i[p] \/ (j \in p /\ j < i[p])
        BY <2>2, <2>4, <4>1
      <4>3. i[p] = j \/ i[p] \in r
        BY <2>2, <2>8
      <4> QED
        BY <2>2, <4>2, <4>3
    <3>3. j \notin r
      BY <3>1
    <3>4. r = p
      BY <2>2, <2>4, <2>8, <3>2, <3>3
    <3> QED
      BY <2>2, <2>3, <2>6, <2>7, <3>2, <3>4
  <2>9. CASE r \cup {j} # q
    <3>1. r \cup {j} \in Created
      BY <2>6, <2>9
    <3>2. r \in Created /\ j < i[r]
      BY <3>1 DEF ChildrenOK
    <3>3. r # q
      BY <2>3, <3>2
    <3>4. i[r] \in Nat
      BY DEF TypeOK
    <3> QED
      BY <2>2, <2>6, <2>7, <3>2, <3>3, <3>4
  <2> QED
    BY <2>8, <2>9
<1>3. CASE Next /\ \A p \in Paths : ~ ForkChild(p)
  <2>1. Created' = Created /\ i'[r] \in Nat /\ i[r] <= i'[r]
    BY <1>3, CreatedStep
  <2>2. r \in Created /\ j < i[r]
    BY <2>1 DEF ChildrenOK
  <2>3. i[r] \in Nat
    BY DEF TypeOK
  <2> QED
    BY <2>1, <2>2, <2>3
<1> QED
  BY <1>1, <1>2, <1>3

LEMMA ChildrenInit == Init => ChildrenOK
<1> SUFFICES ASSUME Init, NEW p \in Paths, NEW j \in Indices,
                    p \cup {j} \in Created
             PROVE  FALSE
  BY DEF ChildrenOK
<1>1. p \cup {j} \in Paths /\ p \cup {j} # {}
  BY DEF Created
<1> QED
  BY <1>1 DEF Init, Created
-----------------------------------------------------------------------------
(* The names are finite in number, and so are the processes. *)
LEMMA FinitePaths ==
  /\ IsFiniteSet(Indices) /\ Cardinality(Indices) = PoolSize
  /\ IsFiniteSet(Paths) /\ Cardinality(Paths) = 2^PoolSize
<1>1. IsFiniteSet(Indices) /\ Cardinality(Indices) = PoolSize
  BY FS_Interval DEF Indices
<1> QED
  BY <1>1, FS_SUBSET DEF Paths

(* accept() returned a connection no more often than there are processes     *)
(* past it: only the first process never accepts, and none accepts twice.    *)
LEMMA DoneStep ==
  ASSUME Typed, ChildrenOK, accepts <= Cardinality(Done), [Next]_vars
  PROVE  accepts' <= Cardinality(Done')
<1> TypeOK /\ RootOK
  BY DEF Typed
<1>1. IsFiniteSet(Done) /\ IsFiniteSet(Done')
  BY FinitePaths, FS_Subset DEF Done
<1>2. Cardinality(Done) \in Nat /\ Cardinality(Done') \in Nat /\ accepts \in Nat
  BY <1>1, FS_CardinalityType DEF TypeOK
<1>3. ASSUME Done \subseteq Done', accepts' = accepts
      PROVE  accepts' <= Cardinality(Done')
  <2>1. Cardinality(Done) <= Cardinality(Done')
    BY <1>1, <1>3, FS_Subset
  <2> QED
    BY <1>2, <1>3, <2>1
<1>4. CASE UNCHANGED vars
  BY <1>3, <1>4 DEF vars, net, Done
<1>5. CASE Next
  <2>1. PICK p \in Paths :
          \/ ForkChild(p)
          \/ Looping(p) /\ ForkFails(p)
          \/ EndLoop(p)
          \/ pc[p] = "accept" /\ Accept(p)
          \/ p \in Active /\ Continue(p) /\ (AcceptFails(p) \/ ServeAndClose(p) \/ ServeAndLeave(p) \/ ServeCgi(p))
          \/ pc[p] = "serve" /\ Die(p)
    BY <1>5, StepKinds
  <2>2. CASE ForkChild(p)
    <3>1. Looping(p)
      BY <2>2 DEF ForkChild
    <3>2. Child(p) \in Paths /\ pc[Child(p)] = "none"
      BY <3>1, ChildIsPath, ChildIsFresh DEF Created
    <3> QED
      BY <1>3, <2>2, <3>2 DEF ForkChild, net, Done, TypeOK
  <2>3. CASE Looping(p) /\ ForkFails(p)
    BY <1>3, <2>3 DEF ForkFails, net, Done
  <2>4. CASE EndLoop(p)
    BY <1>3, <2>4 DEF EndLoop, net, Done, TypeOK
  <2>5. CASE pc[p] = "accept" /\ Accept(p)
    <3>1. p # {} /\ p \notin Done
      BY <2>5 DEF RootOK, Done
    <3>2. Done' = Done \cup {p} /\ accepts' = accepts + 1
      BY <2>5, <3>1 DEF Accept, Done, TypeOK
    <3>3. Cardinality(Done \cup {p}) = Cardinality(Done) + 1
      BY <1>1, <3>1, FS_AddElement
    <3> QED
      BY <1>2, <3>2, <3>3
  <2>6. CASE p \in Active /\ Continue(p) /\ (AcceptFails(p) \/ ServeAndClose(p) \/ ServeAndLeave(p) \/ ServeCgi(p))
    <3>1. accepts' = accepts
      BY <2>6 DEF AcceptFails, ServeAndClose, ServeAndLeave, ServeCgi, net
    <3>2. pc' = [pc EXCEPT ![p] = "fork"]
      BY <2>6 DEF Continue
    <3> QED
      BY <1>3, <3>1, <3>2 DEF Done, TypeOK
  <2>7. CASE pc[p] = "serve" /\ Die(p)
    BY <1>3, <2>7 DEF Die, net, Done, TypeOK
  <2> QED
    BY <2>1, <2>2, <2>3, <2>4, <2>5, <2>6, <2>7
<1> QED
  BY <1>4, <1>5
-----------------------------------------------------------------------------
(* Descriptors are copied only by processes whose own service is over.       *)
LEMMA HeldStep ==
  ASSUME Typed, ChildrenOK, HeldOK, [Next]_vars
  PROVE  HeldOK'
<1> TypeOK
  BY DEF Typed
<1> DEFINE Past == Created \ Active
<1>0. /\ \A q, c \in Paths : c \in holds[q] /\ q # c => c \in Past
      /\ closed \subseteq Past
      /\ \A c \in closed : \A q \in Paths : c \notin holds[q]
  BY DEF HeldOK, ClosedEverywhere
<1>1. CASE UNCHANGED vars
  BY <1>0, <1>1 DEF vars, net, HeldOK, ClosedEverywhere, Created, Active
<1>2. CASE Next
  <2>1. PICK p \in Paths :
          \/ ForkChild(p)
          \/ Looping(p) /\ ForkFails(p)
          \/ EndLoop(p)
          \/ pc[p] = "accept" /\ Accept(p)
          \/ p \in Active /\ Continue(p) /\ (AcceptFails(p) \/ ServeAndClose(p) \/ ServeAndLeave(p) \/ ServeCgi(p))
          \/ pc[p] = "serve" /\ Die(p)
    BY <1>2, StepKinds
  <2>2. CASE ForkChild(p)
    <3> DEFINE q == Child(p)
    <3>1. Looping(p)
      BY <2>2 DEF ForkChild
    <3>2. q \in Paths /\ q # p /\ q \notin Created /\ p \in Past
      BY <3>1, ChildIsPath, ChildIsFresh DEF Looping, Created, Active
    <3> HIDE DEF q
    <3>3. /\ pc' = [pc EXCEPT ![q] = "accept"]
          /\ holds' = [holds EXCEPT ![q] = holds[p]]
          /\ closed' = closed
      BY <2>2 DEF ForkChild, net, q
    <3>4. Past' = Past
      BY <3>2, <3>3 DEF Created, Active, TypeOK
    <3>5. holds'[q] = holds[p] /\ \A r \in Paths : r # q => holds'[r] = holds[r]
      BY <3>2, <3>3 DEF TypeOK
    <3> HIDE DEF Past
    <3>6. \A r, c \in Paths : c \in holds'[r] /\ r # c => c \in Past'
      BY <1>0, <3>2, <3>4, <3>5
    <3>7. \A c \in closed' : \A r \in Paths : c \notin holds'[r]
      BY <1>0, <3>2, <3>3, <3>5
    <3> QED
      BY <1>0, <3>3, <3>4, <3>6, <3>7 DEF HeldOK, ClosedEverywhere, Past
  <2>3. CASE Looping(p) /\ ForkFails(p)
    BY <1>0, <2>3 DEF ForkFails, net, HeldOK, ClosedEverywhere, Created, Active
  <2>4. CASE EndLoop(p)
    <3>1. Past' = Past
      BY <2>4 DEF EndLoop, Created, Active, TypeOK
    <3> QED
      BY <1>0, <2>4, <3>1 DEF EndLoop, net, HeldOK, ClosedEverywhere
  <2>5. CASE pc[p] = "accept" /\ Accept(p)
    <3>1. Past' = Past /\ p \notin Past
      BY <2>5 DEF Accept, Created, Active, TypeOK
    <3>2. closed' = closed /\ holds'[p] = holds[p] \cup {p}
          /\ \A r \in Paths : r # p => holds'[r] = holds[r]
      BY <2>5 DEF Accept, TypeOK
    <3> HIDE DEF Past
    <3>3. \A r, c \in Paths : c \in holds'[r] /\ r # c => c \in Past'
      BY <1>0, <3>1, <3>2
    <3>4. \A c \in closed' : \A r \in Paths : c \notin holds'[r]
      BY <1>0, <3>1, <3>2
    <3> QED
      BY <1>0, <3>1, <3>2, <3>3, <3>4 DEF HeldOK, ClosedEverywhere, Past
  <2>6. CASE p \in Active /\ Continue(p) /\ (AcceptFails(p) \/ ServeAndClose(p) \/ ServeAndLeave(p) \/ ServeCgi(p))
    <3>1. Past' = Past \cup {p} /\ p \notin Past
      BY <2>6 DEF Continue, Created, Active, TypeOK
    <3>2. \A r \in Paths : r # p => p \notin holds[r]
      BY <1>0, <3>1
    <3>3. CASE ServeAndClose(p)
      <4>1. closed' = closed \cup {p} /\ holds'[p] = holds[p] \ {p}
            /\ \A r \in Paths : r # p => holds'[r] = holds[r]
        BY <3>3 DEF ServeAndClose, TypeOK
      <4> HIDE DEF Past
      <4>2. \A r, c \in Paths : c \in holds'[r] /\ r # c => c \in Past'
        BY <1>0, <3>1, <4>1
      <4>3. \A c \in closed' : \A r \in Paths : c \notin holds'[r]
        BY <1>0, <3>2, <4>1
      <4> QED
        BY <1>0, <3>1, <4>1, <4>2, <4>3 DEF HeldOK, ClosedEverywhere, Past
    <3>4. CASE AcceptFails(p) \/ ServeAndLeave(p) \/ ServeCgi(p)
      <4>1. closed' = closed /\ holds' = holds
        BY <3>4 DEF AcceptFails, ServeAndLeave, ServeCgi, net
      <4> QED
        BY <1>0, <3>1, <4>1 DEF HeldOK, ClosedEverywhere
    <3> QED
      BY <2>6, <3>3, <3>4
  <2>7. CASE pc[p] = "serve" /\ Die(p)
    <3>1. Past' = Past \cup {p}
      BY <2>7 DEF Die, Created, Active, TypeOK
    <3>2. closed' = closed /\ \A r \in Paths : holds'[r] \subseteq holds[r]
      BY <2>7 DEF Die, net, TypeOK
    <3> QED
      BY <1>0, <3>1, <3>2 DEF HeldOK, ClosedEverywhere
  <2> QED
    BY <2>1, <2>2, <2>3, <2>4, <2>5, <2>6, <2>7
<1> QED
  BY <1>1, <1>2

(* The inductive invariant of server_mode 2. *)
THEOREM InductiveInvariant == Spec => []IInv
<1>1. Init => IInv
  <2> SUFFICES ASSUME Init PROVE IInv
    OBVIOUS
  <2>1. Typed /\ ChildrenOK
    BY TypedInit, ChildrenInit
  <2>2. HeldOK
    BY DEF Init, HeldOK, ClosedEverywhere
  <2>3. accepts <= Cardinality(Done)
    <3>1. IsFiniteSet(Done)
      BY FinitePaths, FS_Subset DEF Done
    <3> QED
      BY <3>1, FS_CardinalityType DEF Init
  <2> QED
    BY <2>1, <2>2, <2>3 DEF IInv, Typed
<1>2. IInv /\ [Next]_vars => IInv'
  <2> SUFFICES ASSUME IInv, [Next]_vars PROVE IInv'
    OBVIOUS
  <2>1. Typed /\ ChildrenOK /\ HeldOK /\ accepts <= Cardinality(Done)
    BY DEF IInv, Typed
  <2>2. Typed' /\ ChildrenOK'
    BY <2>1, CounterStep, ChildrenStep
  <2>3. HeldOK'
    BY <2>1, HeldStep
  <2>4. accepts' <= Cardinality(Done')
    BY <2>1, DoneStep
  <2> QED
    BY <2>2, <2>3, <2>4 DEF IInv, Typed
<1> QED
  BY <1>1, <1>2, PTL DEF Spec

(* A close() in one process is never undone by a copy in another. *)
THEOREM CloseIsFinal == Spec => []ClosedEverywhere
<1>1. IInv => ClosedEverywhere
  BY DEF IInv, HeldOK
<1> QED
  BY <1>1, InductiveInvariant, PTL

(* The server accepts at most 2^N - 1 connections before it has become a set *)
(* of managers that wait for each other's reports.                           *)
THEOREM LifetimeBound == Spec => []AcceptsBounded
<1>1. IInv => AcceptsBounded
  <2> SUFFICES ASSUME IInv PROVE AcceptsBounded
    OBVIOUS
  <2>1. {} \in Paths /\ Done \subseteq Paths \ {{}}
    BY DEF Paths, Done
  <2>2. IsFiniteSet(Paths \ {{}}) /\ Cardinality(Paths \ {{}}) = Cardinality(Paths) - 1
    BY <2>1, FinitePaths, FS_RemoveElement
  <2>3. Cardinality(Done) <= Cardinality(Paths \ {{}}) /\ IsFiniteSet(Done)
    BY <2>1, <2>2, FS_Subset
  <2>4. Cardinality(Done) <= Cardinality(Paths) - 1
    BY <2>2, <2>3
  <2>5. Cardinality(Done) \in Nat /\ Cardinality(Paths) \in Nat /\ accepts \in Nat
        /\ accepts <= Cardinality(Done)
    BY <2>3, FinitePaths, FS_CardinalityType DEF IInv, TypeOK
  <2>6. accepts <= Cardinality(Paths) - 1
    BY <2>4, <2>5
  <2> QED
    BY <2>6, FinitePaths DEF AcceptsBounded
<1> QED
  BY <1>1, InductiveInvariant, PTL

(* Of two processes whose names differ in the last loop index at most one    *)
(* waits or serves, since the longer named one is a child of the other.      *)
LEMMA LastIndexTellsNothing ==
  ASSUME IInv, NEW p \in Active, NEW q \in Active,
         p \ {PoolSize - 1} = q \ {PoolSize - 1}
  PROVE  p = q
<1> DEFINE m == PoolSize - 1
<1>1. Typed /\ ChildrenOK
  BY DEF IInv, Typed
<1>2. m \in Indices /\ m \in Nat
  BY DEF Indices
<1>3. ASSUME NEW a \in Active, NEW b \in Active,
             a \ {m} = b \ {m}, m \in a, m \notin b
      PROVE  FALSE
  <2>1. /\ b \in Paths /\ i[b] \in b /\ i[b] \in Nat
        /\ \A k \in b : k \in Nat /\ k <= i[b]
    BY <1>1, ActiveCounter
  <2>2. b \cup {m} = a /\ a \in Created
    BY <1>1, <1>3, ActiveCounter
  <2>3. \A k \in b : k < m
    BY <1>2, <1>3, <2>1 DEF Paths, Indices
  <2>4. m < i[b]
    BY <1>1, <1>2, <2>1, <2>2, <2>3 DEF ChildrenOK
  <2>5. i[b] < m
    BY <2>1, <2>3
  <2> QED
    BY <1>2, <2>1, <2>4, <2>5
<1> HIDE DEF m
<1>4. m \in p <=> m \in q
  BY <1>3 DEF m
<1> QED
  BY <1>4 DEF m

(* At most 2^(N-1) processes wait for a connection or serve one at a time. *)
THEOREM ConcurrencyBound == Spec => []ActiveBounded
<1>1. IInv => ActiveBounded
  <2> SUFFICES ASSUME IInv PROVE ActiveBounded
    OBVIOUS
  <2> DEFINE Low == SUBSET (0 .. PoolSize - 2)
             f == [p \in Active |-> p \ {PoolSize - 1}]
  <2>1. IsFiniteSet(Low) /\ Cardinality(Low) = 2^(PoolSize - 1)
    <3>1. IsFiniteSet(0 .. PoolSize - 2) /\ Cardinality(0 .. PoolSize - 2) = PoolSize - 1
      BY FS_Interval
    <3> QED
      BY <3>1, FS_SUBSET
  <2>2. f \in [Active -> Low]
    BY DEF Active, Paths, Indices
  <2>3. \A p, q \in Active : f[p] = f[q] => p = q
    BY LastIndexTellsNothing
  <2>4. f \in Injection(Active, Low)
    BY <2>2, <2>3 DEF Injection, IsInjective
  <2> HIDE DEF f, Low
  <2>5. Cardinality(Active) <= Cardinality(Low)
    BY <2>1, <2>4, FS_Injection
  <2> QED
    BY <2>1, <2>5 DEF ActiveBounded
<1> QED
  BY <1>1, InductiveInvariant, PTL
-----------------------------------------------------------------------------
(* The connections a process leaves open.  They are inherited by whatever it *)
(* forks later, and it forks nothing before it has accepted: a process that  *)
(* waits or serves has no descendants.                                       *)
DescendantsOK ==
  \A p \in Created, a \in Paths : Descends(p, a) /\ p # a => a \in Created \ Active

Family == Typed /\ ChildrenOK /\ DescendantsOK

(* What descends from a process, seen from its next child. *)
LEMMA ChildDescends ==
  ASSUME Typed, NEW p \in Paths, Looping(p), NEW a \in Paths
  PROVE  /\ Descends(p, a) => Descends(Child(p), a)
         /\ Descends(Child(p), a) /\ Child(p) # a => Descends(p, a)
         /\ ~ Descends(p, Child(p))
<1>1. /\ i[p] \in Nat /\ i[p] \notin p /\ \A k \in p : k \in Nat /\ k < i[p]
  BY ChildIsPath
<1>2. Child(p) = p \cup {i[p]}
  BY DEF Child
<1>3. ASSUME Descends(p, a) PROVE Descends(Child(p), a)
  BY <1>1, <1>2, <1>3 DEF Descends
<1>4. ASSUME Descends(Child(p), a), Child(p) # a PROVE Descends(p, a)
  <2>1. a \subseteq Child(p) /\ \A j \in Child(p) \ a : \A k \in a : k < j
    BY <1>4 DEF Descends
  <2>2. i[p] \notin a
    <3> SUFFICES ASSUME i[p] \in a PROVE FALSE
      OBVIOUS
    <3>1. PICK j \in Child(p) : j \notin a
      BY <1>4, <2>1
    <3>2. j \in p /\ i[p] < j
      BY <1>2, <2>1, <3>1
    <3> QED
      BY <1>1, <3>2
  <2> QED
    BY <1>2, <2>1, <2>2 DEF Descends
<1>5. ~ Descends(p, Child(p))
  BY <1>1, <1>2 DEF Descends
<1> QED
  BY <1>3, <1>4, <1>5

(* Only a fork makes a process, and only a fork makes one that waits. *)
LEMMA ActiveStep ==
  ASSUME Typed, Next, \A p \in Paths : ~ ForkChild(p)
  PROVE  Active' \subseteq Active
<1> TypeOK
  BY DEF Typed
<1>1. PICK p \in Paths :
        \/ Looping(p) /\ ForkFails(p)
        \/ EndLoop(p)
        \/ pc[p] = "accept" /\ Accept(p)
        \/ p \in Active /\ Continue(p)
        \/ pc[p] = "serve" /\ Die(p)
  BY StepKinds
<1>2. CASE Looping(p) /\ ForkFails(p)
  BY <1>2 DEF ForkFails, Active
<1>3. CASE EndLoop(p)
  BY <1>3 DEF EndLoop, TypeOK, Active
<1>4. CASE pc[p] = "accept" /\ Accept(p)
  BY <1>4 DEF Accept, TypeOK, Active
<1>5. CASE p \in Active /\ Continue(p)
  BY <1>5 DEF Continue, TypeOK, Active
<1>6. CASE pc[p] = "serve" /\ Die(p)
  BY <1>6 DEF Die, TypeOK, Active
<1> QED
  BY <1>1, <1>2, <1>3, <1>4, <1>5, <1>6

(* What a fork does, in the terms of the proofs below. *)
LEMMA ForkStep ==
  ASSUME Typed, ChildrenOK, NEW p \in Paths, ForkChild(p)
  PROVE  /\ Looping(p) /\ p \in Created \ Active
         /\ Child(p) \in Paths /\ Child(p) \notin Created /\ Child(p) # p
         /\ Created' = Created \cup {Child(p)} /\ Active' = Active \cup {Child(p)}
         /\ holds' = [holds EXCEPT ![Child(p)] = holds[p]]
         /\ \A r \in Paths : r # Child(p) => pc'[r] = pc[r]
<1> DEFINE q == Child(p)
<1>1. Looping(p) /\ p \in Created \ Active
  BY DEF ForkChild, Looping, Created, Active
<1>2. q \in Paths /\ q # p /\ q \notin Created
  BY <1>1, ChildIsPath, ChildIsFresh
<1>3. pc' = [pc EXCEPT ![q] = "accept"] /\ holds' = [holds EXCEPT ![q] = holds[p]]
  BY DEF ForkChild
<1> HIDE DEF q
<1>4. pc'[q] = "accept" /\ \A r \in Paths : r # q => pc'[r] = pc[r]
  BY <1>2, <1>3 DEF Typed, TypeOK
<1>5. Created' = Created \cup {q} /\ Active' = Active \cup {q}
  BY <1>2, <1>4 DEF Created, Active
<1> QED
  BY <1>1, <1>2, <1>3, <1>4, <1>5 DEF q

LEMMA DescendantsStep == Family /\ [Next]_vars => DescendantsOK'
<1> SUFFICES ASSUME Typed, ChildrenOK, DescendantsOK, [Next]_vars,
                    NEW r \in Created', NEW a \in Paths, Descends(r, a), r # a
             PROVE  a \in Created' \ Active'
  BY DEF Family, DescendantsOK
<1> r \in Paths
  BY DEF Created
<1>1. CASE UNCHANGED vars
  BY <1>1 DEF vars, DescendantsOK, Created, Active
<1>2. ASSUME NEW p \in Paths, ForkChild(p)
      PROVE  a \in Created' \ Active'
  <2>1. /\ Looping(p) /\ p \in Created \ Active
        /\ Child(p) \in Paths /\ Child(p) \notin Created /\ Child(p) # p
        /\ Created' = Created \cup {Child(p)} /\ Active' = Active \cup {Child(p)}
    BY <1>2, ForkStep
  <2>2. CASE r = Child(p)
    <3>1. Descends(p, a)
      BY <2>1, <2>2, ChildDescends
    <3>2. a \in Created \ Active
      BY <2>1, <3>1 DEF DescendantsOK
    <3> QED
      BY <2>1, <3>2
  <2>3. CASE r # Child(p)
    <3>1. a \in Created \ Active
      BY <2>1, <2>3 DEF DescendantsOK
    <3> QED
      BY <2>1, <3>1
  <2> QED
    BY <2>2, <2>3
<1>3. CASE Next /\ \A p \in Paths : ~ ForkChild(p)
  BY <1>3, CreatedStep, ActiveStep DEF DescendantsOK
<1> QED
  BY <1>1, <1>2, <1>3

(* A step that does not fork and the descriptors. *)
LEMMA HoldsStep ==
  ASSUME Typed, Next, \A p \in Paths : ~ ForkChild(p)
  PROVE  \E p \in Paths :
    \/ UNCHANGED holds /\ \A r \in Paths : pc'[r] = "dead" <=> pc[r] = "dead"
    \/ /\ p \in Active /\ holds' = [holds EXCEPT ![p] = @ \cup {p}]
       /\ \A r \in Paths : pc'[r] = "dead" <=> pc[r] = "dead"
    \/ /\ p \in Active /\ holds' = [holds EXCEPT ![p] = @ \ {p}]
       /\ \A r \in Paths : pc'[r] = "dead" <=> pc[r] = "dead"
    \/ /\ holds' = [holds EXCEPT ![p] = {}] /\ pc'[p] = "dead"
       /\ \A r \in Paths \ {p} : pc'[r] = "dead" <=> pc[r] = "dead"
<1> TypeOK
  BY DEF Typed
<1>1. PICK p \in Paths :
        \/ Looping(p) /\ ForkFails(p)
        \/ EndLoop(p)
        \/ pc[p] = "accept" /\ Accept(p)
        \/ p \in Active /\ Continue(p) /\ (AcceptFails(p) \/ ServeAndClose(p) \/ ServeAndLeave(p) \/ ServeCgi(p))
        \/ pc[p] = "serve" /\ Die(p)
  BY StepKinds
<1>2. CASE Looping(p) /\ ForkFails(p)
  BY <1>2 DEF ForkFails
<1>3. CASE EndLoop(p)
  BY <1>3 DEF EndLoop, TypeOK
<1>4. CASE pc[p] = "accept" /\ Accept(p)
  BY <1>4 DEF Accept, TypeOK, Active
<1>5. CASE p \in Active /\ Continue(p) /\ (AcceptFails(p) \/ ServeAndClose(p) \/ ServeAndLeave(p) \/ ServeCgi(p))
  <2>1. \A r \in Paths : pc'[r] = "dead" <=> pc[r] = "dead"
    BY <1>5 DEF Continue, TypeOK, Active
  <2>2. UNCHANGED holds \/ holds' = [holds EXCEPT ![p] = @ \ {p}]
    BY <1>5 DEF AcceptFails, ServeAndClose, ServeAndLeave, ServeCgi
  <2> QED
    BY <1>5, <2>1, <2>2
<1>6. CASE pc[p] = "serve" /\ Die(p)
  BY <1>6 DEF Die, TypeOK
<1> QED
  BY <1>1, <1>2, <1>3, <1>4, <1>5, <1>6

LEMMA SubtreeStep == Family /\ LeftOpenInSubtree /\ [Next]_vars => LeftOpenInSubtree'
<1> SUFFICES ASSUME Family, LeftOpenInSubtree, [Next]_vars,
                    NEW r \in Created', NEW c \in Paths
             PROVE  /\ c \in holds'[r] => Descends(r, c)
                    /\ c \in holds'[c] /\ Descends(r, c) /\ pc'[r] # "dead" => c \in holds'[r]
  BY DEF LeftOpenInSubtree
<1> Typed /\ ChildrenOK /\ DescendantsOK /\ TypeOK /\ r \in Paths
  BY DEF Family, Typed, Created
<1> DEFINE Left(p) ==
      /\ c \in holds[p] => Descends(p, c)
      /\ c \in holds[c] /\ Descends(p, c) /\ pc[p] # "dead" => c \in holds[p]
<1>1. \A p \in Created : Left(p)
  BY DEF LeftOpenInSubtree
<1>2. CASE UNCHANGED vars
  BY <1>1, <1>2 DEF vars, Created
<1>3. ASSUME NEW p \in Paths, ForkChild(p)
      PROVE  /\ c \in holds'[r] => Descends(r, c)
             /\ c \in holds'[c] /\ Descends(r, c) /\ pc'[r] # "dead" => c \in holds'[r]
  <2> DEFINE q == Child(p)
  <2>1. /\ Looping(p) /\ p \in Created \ Active
        /\ q \in Paths /\ q \notin Created /\ q # p
        /\ Created' = Created \cup {q}
        /\ holds' = [holds EXCEPT ![q] = holds[p]]
        /\ \A a \in Paths : a # q => pc'[a] = pc[a]
    BY <1>3, ForkStep
  <2>2. /\ Descends(p, c) => Descends(q, c)
        /\ Descends(q, c) /\ q # c => Descends(p, c)
        /\ ~ Descends(p, q)
    BY <2>1, ChildDescends
  <2>3. Left(p) /\ (q \in holds[p] => Descends(p, q))
    BY <1>1, <2>1 DEF LeftOpenInSubtree
  <2> HIDE DEF q
  <2>4. /\ holds'[q] = holds[p] /\ \A a \in Paths : a # q => holds'[a] = holds[a]
    BY <2>1 DEF TypeOK
  <2>5. q \notin holds'[q]
    BY <2>2, <2>3, <2>4
  <2>6. CASE r = q
    <3>1. pc[p] # "dead"
      BY <2>1 DEF Looping
    <3> QED
      BY <2>2, <2>3, <2>4, <2>5, <2>6, <3>1
  <2>7. CASE r # q
    <3>1. r \in Created /\ Left(r)
      BY <1>1, <2>1, <2>7
    <3> QED
      BY <2>1, <2>4, <2>5, <2>7, <3>1
  <2> QED
    BY <2>6, <2>7
<1>4. CASE Next /\ \A p \in Paths : ~ ForkChild(p)
  <2>1. r \in Created /\ Left(r)
    BY <1>1, <1>4, CreatedStep
  <2>2. PICK p \in Paths :
          \/ UNCHANGED holds /\ \A a \in Paths : pc'[a] = "dead" <=> pc[a] = "dead"
          \/ /\ p \in Active /\ holds' = [holds EXCEPT ![p] = @ \cup {p}]
             /\ \A a \in Paths : pc'[a] = "dead" <=> pc[a] = "dead"
          \/ /\ p \in Active /\ holds' = [holds EXCEPT ![p] = @ \ {p}]
             /\ \A a \in Paths : pc'[a] = "dead" <=> pc[a] = "dead"
          \/ /\ holds' = [holds EXCEPT ![p] = {}] /\ pc'[p] = "dead"
             /\ \A a \in Paths \ {p} : pc'[a] = "dead" <=> pc[a] = "dead"
    BY <1>4, HoldsStep
  <2>3. CASE UNCHANGED holds /\ \A a \in Paths : pc'[a] = "dead" <=> pc[a] = "dead"
    BY <2>1, <2>3
  <2>4. CASE /\ p \in Active /\ holds' = [holds EXCEPT ![p] = @ \cup {p}]
             /\ \A a \in Paths : pc'[a] = "dead" <=> pc[a] = "dead"
    <3>1. holds'[p] = holds[p] \cup {p} /\ \A a \in Paths : a # p => holds'[a] = holds[a]
      BY <2>4 DEF TypeOK
    <3>2. CASE c = p
      <4>1. Descends(p, p)
        BY DEF Descends
      <4>2. Descends(r, p) => r = p
        BY <2>1, <2>4 DEF DescendantsOK
      <4> QED
        BY <2>1, <3>1, <3>2, <4>1, <4>2
    <3>3. CASE c # p
      BY <2>1, <2>4, <3>1, <3>3
    <3> QED
      BY <3>2, <3>3
  <2>5. CASE /\ p \in Active /\ holds' = [holds EXCEPT ![p] = @ \ {p}]
             /\ \A a \in Paths : pc'[a] = "dead" <=> pc[a] = "dead"
    <3>1. holds'[p] = holds[p] \ {p} /\ \A a \in Paths : a # p => holds'[a] = holds[a]
      BY <2>5 DEF TypeOK
    <3> QED
      BY <2>1, <2>5, <3>1
  <2>6. CASE /\ holds' = [holds EXCEPT ![p] = {}] /\ pc'[p] = "dead"
             /\ \A a \in Paths \ {p} : pc'[a] = "dead" <=> pc[a] = "dead"
    <3>1. holds'[p] = {} /\ \A a \in Paths : a # p => holds'[a] = holds[a]
      BY <2>6 DEF TypeOK
    <3> QED
      BY <2>1, <2>6, <3>1
  <2> QED
    BY <2>2, <2>3, <2>4, <2>5, <2>6
<1> QED
  BY <1>2, <1>3, <1>4

(* A connection that its process left open is open in the whole subtree of  *)
(* the processes forked below it, and nowhere else.                          *)
THEOREM OpenInSubtree == Spec => []LeftOpenInSubtree
<1>1. Init => Family /\ LeftOpenInSubtree
  <2> SUFFICES ASSUME Init PROVE Family /\ LeftOpenInSubtree
    OBVIOUS
  <2>1. Typed /\ ChildrenOK
    BY TypedInit, ChildrenInit
  <2>2. {} \in Paths /\ Created = {{}} /\ \A p \in Paths : holds[p] = {}
    BY DEF Init, Created, Paths
  <2>3. DescendantsOK
    BY <2>2 DEF DescendantsOK, Descends
  <2>4. LeftOpenInSubtree
    BY <2>2 DEF LeftOpenInSubtree
  <2> QED
    BY <2>1, <2>3, <2>4 DEF Family
<1>2. Family /\ LeftOpenInSubtree /\ [Next]_vars => (Family /\ LeftOpenInSubtree)'
  BY CounterStep, ChildrenStep, DescendantsStep, SubtreeStep DEF Family
<1> QED
  BY <1>1, <1>2, PTL DEF Spec
=============================================================================
