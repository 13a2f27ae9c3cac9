---------------------------- MODULE ServeFileProofs ----------------------------
(***************************************************************************)
(* Proofs about ServeFile for any number of threads, files of any size and *)
(* any number of changes to them.  A step of one thread leaves the others  *)
(* alone (Others), but for a wait() that takes the child of another; each  *)
(* conjunct of the inductive invariant is then proved for the thread that  *)
(* steps.                                                                  *)
(***************************************************************************)
EXTENDS ServeFile, FiniteSetTheorems, SequenceTheorems, TLAPS

USE ThreadsAssumption, UrisAssumption, SizesAssumption

LEMMA NamesFacts ==
  /\ "404" \in Names
  /\ \A u \in Uris : Locate[u] \in Names
  /\ 0 \in 0 .. MaxChanges /\ Zero \in Nat
  /\ 0 \in Ints /\ Ints \subseteq Int
BY DEF Names, Zero, Ints

(* A size passed as an int: what fits arrives, and nothing grows.          *)
LEMMA IntFacts ==
  ASSUME NEW n \in Nat
  PROVE  ToInt(n) \in Ints /\ ToInt(n) <= n /\ (n <= MaxInt => ToInt(n) = n)
<1> DEFINE M == 2 * (MaxInt + 1)
<1>1. M \in Nat /\ M > 0 /\ M = 2 * (MaxInt + 1)
  OBVIOUS
<1> HIDE DEF M
<1>2. n = M * (n \div M) + (n % M) /\ n % M \in 0 .. M - 1 /\ n \div M \in Nat
  BY <1>1
<1>3. n % M <= n
  <2>1. M * (n \div M) \in Nat
    BY <1>1, <1>2
  <2> QED
    BY <1>2, <2>1
<1>4. n < M => n % M = n
  BY <1>1
<1>5. Wide(n) = n % M
  BY <1>1 DEF Wide
<1> QED
  BY <1>1, <1>2, <1>3, <1>4, <1>5 DEF ToInt, Ints

LEMMA InitType == Init => TypeOK
<1> SUFFICES ASSUME Init PROVE TypeOK
  OBVIOUS
<1>1. file \in [Names -> Files] /\ file["404"].size \in Sizes
  <2>1. file \in [Names -> FirstFiles] /\ FirstFiles \subseteq Files
    BY DEF Init, FirstFiles
  <2>2. file["404"] \in Files
    BY <2>1, NamesFacts
  <2> QED
    BY <2>1, <2>2 DEF Files
<1>2. NoBody \in Seq(Nat \X (0 .. Zero))
  BY DEF NoBody
<1>3. job \in [Threads -> [name : Names, size : Ints, version : 0 .. MaxChanges,
                           srcfd : {"none", "open", "failed", "closed"}, mapped : BOOLEAN,
                           failed : BOOLEAN, lost : BOOLEAN]]
  BY NamesFacts DEF Init
<1>4. got \in [Threads -> [length : Ints, head : {"none", "static", "cgi"},
                           body : Seq(Nat \X (0 .. Zero)), closed : BOOLEAN]]
  BY <1>2, NamesFacts DEF Init
<1>5. changes \in 0 .. MaxChanges /\ free \in 0 .. MaxFds
  <2>1. changes = 0 /\ free = MaxFds
    BY DEF Init
  <2> QED
    BY <2>1
<1> QED
  BY <1>1, <1>3, <1>4, <1>5 DEF Init, TypeOK

(* A step of a thread, or of its child, is no step of the others. *)
Mine(t) == Serve(t) \/ Disconnect(t) \/ Child(t)

LEMMA Others ==
  ASSUME TypeOK, NEW t \in Threads, Mine(t), NEW s \in Threads, s # t
  PROVE  /\ pc'[s] = pc[s] /\ job'[s] = job[s] /\ got'[s] = got[s]
         /\ child'[s] = child[s] \/ (child[s] = "ended" /\ child'[s] = "reaped")
<1>1. CASE Stat(t)
  BY <1>1 DEF Stat, Static, Goto, TypeOK
<1>2. CASE Wait(t)
  BY <1>2 DEF Wait, Goto, TypeOK
<1>3. CASE OtherMethod(t) \/ SendHeader(t) \/ Open(t) \/ Map(t) \/ CloseFile(t) \/ EndBody(t)
  BY <1>3 DEF OtherMethod, SendHeader, Open, Map, CloseFile, EndBody, Goto, TypeOK
<1>4. CASE WriteBody(t)
  BY <1>4 DEF WriteBody, TypeOK
<1>5. CASE Close(t) \/ CgiHeader(t) \/ Fork(t) \/ ForkFails(t) \/ Child(t)
  BY <1>5 DEF Close, CgiHeader, Fork, ForkFails, Child, ChildAborts, Exec, ChildEnds,
              Goto, TypeOK
<1>6. CASE WriteAgain(t) \/ Disconnect(t)
  BY <1>6 DEF WriteAgain, Disconnect, SigPipe, HeaderFails, BodyFails, Goto, TypeOK
<1> QED
  BY <1>1, <1>2, <1>3, <1>4, <1>5, <1>6 DEF Mine, Serve

LEMMA FilesStay ==
  ASSUME NEW t \in Threads, Mine(t)
  PROVE  UNCHANGED <<file, size404, changes>>
<1>1. CASE Child(t) \/ Disconnect(t)
  BY <1>1 DEF Child, ChildAborts, Exec, ChildEnds, Disconnect, SigPipe, HeaderFails, BodyFails
<1>2. CASE Serve(t)
  BY <1>2 DEF Serve, OtherMethod, Stat, SendHeader, Open, Map, CloseFile, WriteBody, EndBody,
              Close, WriteAgain, CgiHeader, Fork, ForkFails, Wait
<1> QED
  BY <1>1, <1>2 DEF Mine
-----------------------------------------------------------------------------
(* Types *)
JobSet == [name : Names, size : Ints, version : 0 .. MaxChanges,
           srcfd : {"none", "open", "failed", "closed"}, mapped : BOOLEAN,
           failed : BOOLEAN, lost : BOOLEAN]
GotSet == [length : Ints, head : {"none", "static", "cgi"},
           body : Seq(Nat \X (0 .. Zero)), closed : BOOLEAN]

LEMMA UnitTyped ==
  ASSUME TypeOK, NEW t \in Threads, NEW k \in Nat
  PROVE  Unit(t, k) \in Nat \X (0 .. Zero)
<1>1. file[job[t].name] \in Files
  BY DEF TypeOK
<1>2. file[job[t].name].version \in 0 .. Zero
  BY <1>1 DEF Files, Zero
<1>3. Zero \in 0 .. Zero
  BY NamesFacts
<1> QED
  BY <1>2, <1>3 DEF Unit

(* One write() adds the next units. *)
LEMMA WriteAdds ==
  ASSUME TypeOK, NEW t \in Threads, WriteBody(t)
  PROVE  \E n \in Sent(t) + 1 .. job[t].size :
           /\ Sent(t) \in Nat /\ n \in Nat
           /\ Sent(t) + 1 .. n \subseteq Readable(t)
           /\ got'[t].body \in Seq(Nat \X (0 .. Zero)) /\ Len(got'[t].body) = n
           /\ \A k \in 1 .. Sent(t) : got'[t].body[k] = got[t].body[k]
           /\ \A k \in Sent(t) + 1 .. n : got'[t].body[k] = Unit(t, k)
           /\ got' = [got EXCEPT ![t].body = got'[t].body]
<1> DEFINE B == got[t].body
           S == Nat \X (0 .. Zero)
<1>1. B \in Seq(S) /\ Len(B) \in Nat /\ Sent(t) = Len(B) /\ job[t].size \in Int
  <2>1. got[t].body \in Seq(S) /\ job[t].size \in Ints
    BY DEF TypeOK
  <2>2. job[t].size \in Int
    BY <2>1, NamesFacts
  <2> HIDE DEF S
  <2>3. Len(got[t].body) \in Nat
    BY <2>1
  <2> QED
    BY <2>1, <2>2, <2>3 DEF Sent
<1>2. PICK n \in Sent(t) + 1 .. job[t].size :
        /\ Sent(t) + 1 .. n \subseteq Readable(t)
        /\ got' = [got EXCEPT ![t].body = B \o [i \in 1 .. n - Sent(t) |-> Unit(t, Sent(t) + i)]]
  BY DEF WriteBody
<1>3. n \in Nat /\ n - Sent(t) \in Nat
  BY <1>1, <1>2
<1> DEFINE m == n - Sent(t)
           A == [i \in 1 .. m |-> Unit(t, Sent(t) + i)]
<1>4. A \in Seq(S) /\ Len(A) = m
  <2>1. \A i \in 1 .. m : Unit(t, Sent(t) + i) \in S
    <3>1. TAKE i \in 1 .. m
    <3>2. Sent(t) + i \in Nat
      BY <1>1, <1>3
    <3> QED
      BY <3>2, UnitTyped
  <2> HIDE DEF S
  <2> QED
    BY <1>3, <2>1
<1>5. got'[t].body = B \o A
  BY <1>2 DEF TypeOK
<1>6. /\ B \o A \in Seq(S) /\ Len(B \o A) = Len(B) + m
      /\ \A k \in 1 .. Len(B) : (B \o A)[k] = B[k]
      /\ \A k \in Len(B) + 1 .. Len(B) + m : (B \o A)[k] = A[k - Len(B)]
  <2> HIDE DEF A, B, S, m
  <2>1. \A k \in 1 .. Len(B) + Len(A) : (B \o A)[k] = IF k <= Len(B) THEN B[k] ELSE A[k - Len(B)]
    BY <1>1, <1>4, ConcatProperties
  <2>2. B \o A \in Seq(S) /\ Len(B \o A) = Len(B) + Len(A)
    BY <1>1, <1>4, ConcatProperties
  <2>3. m \in Nat /\ Len(A) = m
    BY <1>3, <1>4 DEF m
  <2>4. /\ \A k \in 1 .. Len(B) : (B \o A)[k] = B[k]
        /\ \A k \in Len(B) + 1 .. Len(B) + m : (B \o A)[k] = A[k - Len(B)]
    BY <1>1, <2>1, <2>3
  <2> QED
    BY <2>2, <2>3, <2>4
<1>7. \A k \in Sent(t) + 1 .. n : A[k - Sent(t)] = Unit(t, k)
  BY <1>1, <1>3
<1>8. Len(B) + m = n
  BY <1>1, <1>3
<1>9. /\ Sent(t) \in Nat /\ n \in Nat
      /\ Sent(t) + 1 .. n \subseteq Readable(t)
      /\ B \o A \in Seq(S) /\ Len(B \o A) = n
      /\ \A k \in 1 .. Sent(t) : (B \o A)[k] = B[k]
      /\ \A k \in Sent(t) + 1 .. n : (B \o A)[k] = Unit(t, k)
      /\ got' = [got EXCEPT ![t].body = B \o A]
  <2> HIDE DEF A, B, m, S
  <2>1. \A k \in Sent(t) + 1 .. n : (B \o A)[k] = A[k - Sent(t)]
    BY <1>1, <1>6, <1>8
  <2>2. got' = [got EXCEPT ![t].body = B \o A]
    BY <1>2 DEF A, m
  <2> QED
    BY <1>1, <1>2, <1>3, <1>6, <1>7, <1>8, <2>1, <2>2
<1> HIDE DEF A, m
<1> QED
  BY <1>5, <1>9

(* The ways in which the locals of a thread change. *)
JobEdit(r, q) ==
  \/ \E n \in Names, z \in Ints, v \in 0 .. MaxChanges :
       q = [r EXCEPT !.name = n, !.size = z, !.version = v]
  \/ \E x \in {"open", "closed"} : q = [r EXCEPT !.srcfd = x]
  \/ q = [r EXCEPT !.srcfd = "failed", !.failed = TRUE]
  \/ \E x \in BOOLEAN : q = [r EXCEPT !.mapped = x]
  \/ q = [r EXCEPT !.failed = TRUE]
  \/ q = [r EXCEPT !.lost = TRUE]
  \/ q = [r EXCEPT !.lost = TRUE, !.mapped = FALSE]
  \/ q = r

LEMMA JobUpdates ==
  ASSUME NEW J \in [Threads -> JobSet], NEW t \in Threads, NEW q, JobEdit(J[t], q)
  PROVE  q \in JobSet /\ [J EXCEPT ![t] = q] \in [Threads -> JobSet]
<1>1. J[t] \in JobSet
  OBVIOUS
<1>2. q \in JobSet
  <2> DEFINE r == J[t]
  <2>1. \A n \in Names, z \in Ints, v \in 0 .. MaxChanges :
          [r EXCEPT !.name = n, !.size = z, !.version = v] \in JobSet
    BY <1>1 DEF JobSet
  <2>2. /\ \A x \in {"open", "closed"} : [r EXCEPT !.srcfd = x] \in JobSet
        /\ [r EXCEPT !.srcfd = "failed", !.failed = TRUE] \in JobSet
    BY <1>1 DEF JobSet
  <2>3. /\ \A x \in BOOLEAN : [r EXCEPT !.mapped = x] \in JobSet
        /\ [r EXCEPT !.failed = TRUE] \in JobSet
        /\ [r EXCEPT !.lost = TRUE] \in JobSet
        /\ [r EXCEPT !.lost = TRUE, !.mapped = FALSE] \in JobSet
    BY <1>1 DEF JobSet
  <2>4. CASE \E n \in Names, z \in Ints, v \in 0 .. MaxChanges :
               q = [r EXCEPT !.name = n, !.size = z, !.version = v]
    <3>1. PICK n \in Names, z \in Ints, v \in 0 .. MaxChanges :
            q = [r EXCEPT !.name = n, !.size = z, !.version = v]
      BY <2>4
    <3> QED
      BY <2>1, <3>1
  <2>5. CASE \/ \E x \in {"open", "closed"} : q = [r EXCEPT !.srcfd = x]
             \/ q = [r EXCEPT !.srcfd = "failed", !.failed = TRUE]
    BY <2>2, <2>5
  <2>6. CASE \/ \E x \in BOOLEAN : q = [r EXCEPT !.mapped = x]
             \/ q = [r EXCEPT !.failed = TRUE]
             \/ q = [r EXCEPT !.lost = TRUE]
             \/ q = [r EXCEPT !.lost = TRUE, !.mapped = FALSE]
    BY <2>3, <2>6
  <2> HIDE DEF r
  <2> QED
    BY <1>1, <2>4, <2>5, <2>6 DEF JobEdit, r
<1> QED
  BY <1>2

LEMMA GotUpdates ==
  ASSUME NEW G \in [Threads -> GotSet], NEW K, NEW t \in Threads,
         \/ \E b \in Seq(Nat \X (0 .. Zero)) : K = [G EXCEPT ![t].body = b]
         \/ \E h \in {"static", "cgi"}, z \in Ints :
              K = [G EXCEPT ![t].head = h] \/ K = [G EXCEPT ![t].head = h, ![t].length = z]
         \/ K = [G EXCEPT ![t].closed = TRUE]
  PROVE  K \in [Threads -> GotSet]
<1>1. G[t] \in GotSet
  OBVIOUS
<1>2. \A b \in Seq(Nat \X (0 .. Zero)) : [G[t] EXCEPT !.body = b] \in GotSet
  BY <1>1 DEF GotSet
<1>3. /\ \A h \in {"static", "cgi"} : [G[t] EXCEPT !.head = h] \in GotSet
      /\ \A h \in {"static", "cgi"}, z \in Ints : [G[t] EXCEPT !.head = h, !.length = z] \in GotSet
      /\ [G[t] EXCEPT !.closed = TRUE] \in GotSet
  BY <1>1 DEF GotSet
<1>4. \A r \in GotSet : [G EXCEPT ![t] = r] \in [Threads -> GotSet]
  OBVIOUS
<1>5. CASE \E b \in Seq(Nat \X (0 .. Zero)) : K = [G EXCEPT ![t].body = b]
  <2>1. PICK b \in Seq(Nat \X (0 .. Zero)) : K = [G EXCEPT ![t] = [G[t] EXCEPT !.body = b]]
    BY <1>5
  <2> QED
    BY <1>2, <1>4, <2>1
<1>6. CASE \E h \in {"static", "cgi"}, z \in Ints :
             K = [G EXCEPT ![t].head = h] \/ K = [G EXCEPT ![t].head = h, ![t].length = z]
  <2>1. PICK h \in {"static", "cgi"}, z \in Ints :
          \/ K = [G EXCEPT ![t] = [G[t] EXCEPT !.head = h]]
          \/ K = [G EXCEPT ![t] = [G[t] EXCEPT !.head = h, !.length = z]]
    BY <1>6
  <2>2. [G[t] EXCEPT !.head = h] \in GotSet /\ [G[t] EXCEPT !.head = h, !.length = z] \in GotSet
    BY <1>3
  <2> HIDE DEF GotSet
  <2> QED
    BY <1>4, <2>1, <2>2
<1>7. CASE K = [G EXCEPT ![t].closed = TRUE]
  <2>1. K = [G EXCEPT ![t] = [G[t] EXCEPT !.closed = TRUE]]
    BY <1>7
  <2> QED
    BY <1>3, <1>4, <2>1
<1> QED
  BY <1>5, <1>6, <1>7

LEMMA FileUpdates ==
  ASSUME NEW F \in [Names -> Files], NEW K, NEW n \in Names,
         \/ \E z \in Sizes, v \in 0 .. MaxChanges : K = [F EXCEPT ![n].size = z, ![n].version = v]
         \/ K = [F EXCEPT ![n].kind = "missing"]
  PROVE  K \in [Names -> Files]
<1>1. F[n] \in Files
  OBVIOUS
<1>2. /\ \A z \in Sizes, v \in 0 .. MaxChanges : [F[n] EXCEPT !.size = z, !.version = v] \in Files
      /\ [F[n] EXCEPT !.kind = "missing"] \in Files
  BY <1>1 DEF Files, Kinds
<1>3. \A r \in Files : [F EXCEPT ![n] = r] \in [Names -> Files]
  OBVIOUS
<1>4. CASE \E z \in Sizes, v \in 0 .. MaxChanges : K = [F EXCEPT ![n].size = z, ![n].version = v]
  <2>1. PICK z \in Sizes, v \in 0 .. MaxChanges :
          K = [F EXCEPT ![n] = [F[n] EXCEPT !.size = z, !.version = v]]
    BY <1>4
  <2> QED
    BY <1>2, <1>3, <2>1
<1>5. CASE K = [F EXCEPT ![n].kind = "missing"]
  <2>1. K = [F EXCEPT ![n] = [F[n] EXCEPT !.kind = "missing"]]
    BY <1>5
  <2> QED
    BY <1>2, <1>3, <2>1
<1> QED
  BY <1>4, <1>5

(* What each step does to the locals of its thread. *)
Found(t, n, z, v) ==
  /\ pc'[t] = "head"
  /\ job' = [job EXCEPT ![t].name = n, ![t].size = ToInt(z), ![t].version = v]
  /\ \/ n = "404" /\ z = size404 /\ v = 0
     \/ z = file[n].size /\ v = file[n].version
NotFound(t) == job' = job /\ pc'[t] \in {"done", "cgi head"}

LEMMA StatJob ==
  ASSUME TypeOK, NEW t \in Threads, Stat(t)
  PROVE  NotFound(t) \/ \E n \in Names, z \in Sizes, v \in 0 .. MaxChanges : Found(t, n, z, v)
<1>1. pc \in [Threads -> {"header end", "head", "open", "map", "close file", "body", "close",
                          "cgi head", "fork", "wait", "done"}]
  BY DEF TypeOK
<1>2. PICK u \in Uris :
        \/ Static(t, "404", size404, 0)
        \/ Static(t, Locate[u], file[Locate[u]].size, file[Locate[u]].version)
        \/ (Goto(t, "done") \/ Goto(t, "cgi head")) /\ UNCHANGED job
  BY DEF Stat
<1>3. Locate[u] \in Names /\ file[Locate[u]] \in Files /\ size404 \in Sizes
  BY NamesFacts DEF TypeOK
<1>4. file[Locate[u]].size \in Sizes /\ file[Locate[u]].version \in 0 .. MaxChanges
  BY <1>3 DEF Files
<1>5. CASE Static(t, "404", size404, 0)
  BY <1>1, <1>3, <1>5, NamesFacts DEF Static, Goto, Found
<1>6. CASE Static(t, Locate[u], file[Locate[u]].size, file[Locate[u]].version)
  BY <1>1, <1>3, <1>4, <1>6 DEF Static, Goto, Found
<1>7. CASE (Goto(t, "done") \/ Goto(t, "cgi head")) /\ UNCHANGED job
  BY <1>1, <1>7 DEF Goto, NotFound
<1> QED
  BY <1>2, <1>5, <1>6, <1>7

LEMMA JobDoes ==
  ASSUME TypeOK, NEW t \in Threads, Mine(t)
  PROVE  JobEdit(job[t], job'[t]) /\ job' \in [Threads -> JobSet]
<1>1. job \in [Threads -> JobSet] /\ job[t] \in JobSet
  BY DEF TypeOK, JobSet
<1>2. SUFFICES \E q : JobEdit(job[t], q) /\ job' = [job EXCEPT ![t] = q]
  BY <1>1, JobUpdates
<1>3. CASE Stat(t)
  <2>1. CASE job' = job
    <3>1. JobEdit(job[t], job[t]) /\ job' = [job EXCEPT ![t] = job[t]]
      BY <1>1, <2>1 DEF JobEdit
    <3> QED
      BY <3>1
  <2>2. ASSUME NEW n \in Names, NEW z \in Sizes, NEW v \in 0 .. MaxChanges, Found(t, n, z, v)
        PROVE  \E q : JobEdit(job[t], q) /\ job' = [job EXCEPT ![t] = q]
    <3>1. job' = [job EXCEPT ![t] = [job[t] EXCEPT !.name = n, !.size = ToInt(z), !.version = v]]
      BY <2>2 DEF Found
    <3>2. ToInt(z) \in Ints
      <4>1. z \in Nat
        OBVIOUS
      <4> QED
        BY <4>1, IntFacts
    <3>3. JobEdit(job[t], [job[t] EXCEPT !.name = n, !.size = ToInt(z), !.version = v])
      BY <3>2 DEF JobEdit
    <3> QED
      BY <3>1, <3>3
  <2>3. CASE NotFound(t)
    BY <2>1, <2>3 DEF NotFound
  <2> QED
    BY <1>3, <2>2, <2>3, StatJob
<1>4. CASE Open(t)
  <2>1. PICK q \in {[job[t] EXCEPT !.srcfd = "open"],
                     [job[t] EXCEPT !.srcfd = "failed", !.failed = TRUE]} :
          job' = [job EXCEPT ![t] = q]
    BY <1>4 DEF Open
  <2>2. JobEdit(job[t], q)
    BY DEF JobEdit
  <2> QED
    BY <2>1, <2>2
<1>5. CASE Map(t)
  <2>1. PICK q \in {[job[t] EXCEPT !.mapped = TRUE], [job[t] EXCEPT !.failed = TRUE], job[t]} :
          job' = [job EXCEPT ![t] = q]
    BY <1>1, <1>5 DEF Map
  <2>2. JobEdit(job[t], q)
    BY DEF JobEdit
  <2> QED
    BY <2>1, <2>2
<1>6. CASE CloseFile(t) \/ EndBody(t)
  <2>1. PICK q \in {[job[t] EXCEPT !.srcfd = "closed"], [job[t] EXCEPT !.mapped = FALSE], job[t]} :
          job' = [job EXCEPT ![t] = q]
    BY <1>1, <1>6 DEF CloseFile, EndBody
  <2>2. JobEdit(job[t], q)
    BY DEF JobEdit
  <2> QED
    BY <2>1, <2>2
<1>7. CASE HeaderFails(t) \/ BodyFails(t)
  <2>1. PICK q \in {[job[t] EXCEPT !.lost = TRUE],
                     [job[t] EXCEPT !.lost = TRUE, !.mapped = FALSE]} :
          job' = [job EXCEPT ![t] = q]
    BY <1>7 DEF HeaderFails, BodyFails
  <2>2. JobEdit(job[t], q)
    BY DEF JobEdit
  <2> QED
    BY <2>1, <2>2
<1>8. CASE ~(Stat(t) \/ Open(t) \/ Map(t) \/ CloseFile(t) \/ EndBody(t)
             \/ HeaderFails(t) \/ BodyFails(t))
  <2>1. UNCHANGED job
    BY <1>8 DEF Mine, Serve, OtherMethod, SendHeader, WriteBody, Close, WriteAgain, CgiHeader,
                Fork, ForkFails, Wait, Disconnect, SigPipe, Child, ChildAborts, Exec, ChildEnds
  <2>2. JobEdit(job[t], job[t]) /\ job' = [job EXCEPT ![t] = job[t]]
    BY <1>1, <2>1 DEF JobEdit
  <2> QED
    BY <2>2
<1> QED
  BY <1>3, <1>4, <1>5, <1>6, <1>7, <1>8

(* What a step of serve_static does to the locals. *)
Same(t) ==
  /\ job'[t].size = job[t].size /\ job'[t].name = job[t].name /\ job'[t].version = job[t].version
  /\ got' = got /\ child' = child

LEMMA StaticDoes ==
  ASSUME TypeOK, NEW t \in Threads
  PROVE  /\ Open(t) => /\ pc[t] = "open" /\ pc'[t] = "map" /\ Same(t)
                       /\ job'[t].srcfd \in {"open", "failed"}
                       /\ job'[t].failed = (job'[t].srcfd = "failed" \/ job[t].failed)
                       /\ job'[t].mapped = job[t].mapped /\ job'[t].lost = job[t].lost
         /\ Map(t) => /\ pc[t] = "map" /\ pc'[t] = "close file" /\ Same(t)
                      /\ job'[t].srcfd = job[t].srcfd /\ job'[t].lost = job[t].lost
                      /\ IF job[t].srcfd = "open" /\ job[t].size > 0
                           THEN \/ job'[t].mapped /\ job'[t].failed = job[t].failed
                                \/ job'[t].mapped = job[t].mapped /\ job'[t].failed
                           ELSE job'[t].mapped = job[t].mapped /\ job'[t].failed = job[t].failed
         /\ CloseFile(t) => /\ pc[t] = "close file" /\ pc'[t] = "body" /\ Same(t)
                            /\ job'[t].srcfd = IF job[t].srcfd = "open" THEN "closed" ELSE job[t].srcfd
                            /\ job'[t].mapped = job[t].mapped /\ job'[t].failed = job[t].failed
                            /\ job'[t].lost = job[t].lost
         /\ EndBody(t) => /\ pc[t] = "body" /\ pc'[t] = "close" /\ Same(t)
                          /\ job'[t].srcfd = job[t].srcfd
                          /\ job'[t].failed = job[t].failed /\ job'[t].lost = job[t].lost
         /\ BodyFails(t) => /\ pc[t] = "body" /\ pc'[t] = "close" /\ Same(t)
                            /\ job'[t].srcfd = job[t].srcfd
                            /\ job'[t].failed = job[t].failed /\ job'[t].lost
         /\ HeaderFails(t) => /\ pc[t] \in {"head", "cgi head"} /\ Same(t)
                              /\ pc'[t] = IF pc[t] = "head" THEN "open" ELSE "fork"
                              /\ job'[t].srcfd = job[t].srcfd /\ job'[t].mapped = job[t].mapped
                              /\ job'[t].failed = job[t].failed /\ job'[t].lost
<1>1. /\ pc \in [Threads -> {"header end", "head", "open", "map", "close file", "body", "close",
                             "cgi head", "fork", "wait", "done"}]
      /\ job \in [Threads -> JobSet]
  BY DEF TypeOK, JobSet
<1>2. job[t] = [name |-> job[t].name, size |-> job[t].size, version |-> job[t].version,
                srcfd |-> job[t].srcfd, mapped |-> job[t].mapped, failed |-> job[t].failed,
                lost |-> job[t].lost]
  BY <1>1 DEF JobSet
<1>b. job[t].mapped \in BOOLEAN /\ job[t].failed \in BOOLEAN /\ job[t].lost \in BOOLEAN
  BY <1>1 DEF JobSet
<1>3. ASSUME Open(t)
      PROVE  /\ pc[t] = "open" /\ pc'[t] = "map" /\ Same(t)
             /\ job'[t].srcfd \in {"open", "failed"}
             /\ job'[t].failed = (job'[t].srcfd = "failed" \/ job[t].failed)
             /\ job'[t].mapped = job[t].mapped /\ job'[t].lost = job[t].lost
  <2>1. pc[t] = "open" /\ pc'[t] = "map" /\ got' = got /\ child' = child
    BY <1>1, <1>3 DEF Open, Goto
  <2>2. CASE job' = [job EXCEPT ![t].srcfd = "open"]
    <3>1. job'[t] = [job[t] EXCEPT !.srcfd = "open"]
      BY <1>1, <2>2
    <3> QED
      BY <1>2, <1>b, <2>1, <3>1 DEF Same
  <2>3. CASE job' = [job EXCEPT ![t].srcfd = "failed", ![t].failed = TRUE]
    <3>1. job'[t] = [job[t] EXCEPT !.srcfd = "failed", !.failed = TRUE]
      BY <1>1, <2>3
    <3> QED
      BY <1>2, <1>b, <2>1, <3>1 DEF Same
  <2> QED
    BY <1>3, <2>2, <2>3 DEF Open
<1>4. ASSUME Map(t)
      PROVE  /\ pc[t] = "map" /\ pc'[t] = "close file" /\ Same(t)
             /\ job'[t].srcfd = job[t].srcfd /\ job'[t].lost = job[t].lost
             /\ IF job[t].srcfd = "open" /\ job[t].size > 0
                  THEN \/ job'[t].mapped /\ job'[t].failed = job[t].failed
                       \/ job'[t].mapped = job[t].mapped /\ job'[t].failed
                  ELSE job'[t].mapped = job[t].mapped /\ job'[t].failed = job[t].failed
  <2>1. pc[t] = "map" /\ pc'[t] = "close file" /\ got' = got /\ child' = child
    BY <1>1, <1>4 DEF Map, Goto
  <2>2. CASE job[t].srcfd = "open" /\ job[t].size > 0
    <3>1. \/ job'[t] = [job[t] EXCEPT !.mapped = TRUE]
          \/ job'[t] = [job[t] EXCEPT !.failed = TRUE]
      BY <1>1, <1>4, <2>2 DEF Map
    <3>2. CASE job'[t] = [job[t] EXCEPT !.mapped = TRUE]
      <4>1. /\ job'[t].mapped = TRUE /\ job'[t].failed = job[t].failed
            /\ job'[t].srcfd = job[t].srcfd /\ job'[t].lost = job[t].lost
            /\ job'[t].size = job[t].size /\ job'[t].name = job[t].name
            /\ job'[t].version = job[t].version
        BY <1>2, <3>2
      <4>2. Same(t)
        BY <2>1, <4>1 DEF Same
      <4>3. job'[t].mapped /\ job'[t].failed = job[t].failed
        BY <4>1
      <4> QED
        BY <2>1, <2>2, <4>1, <4>2, <4>3
    <3>3. CASE job'[t] = [job[t] EXCEPT !.failed = TRUE]
      <4>1. /\ job'[t].mapped = job[t].mapped /\ job'[t].failed = TRUE
            /\ job'[t].srcfd = job[t].srcfd /\ job'[t].lost = job[t].lost
            /\ job'[t].size = job[t].size /\ job'[t].name = job[t].name
            /\ job'[t].version = job[t].version
        BY <1>2, <3>3
      <4> QED
        BY <2>1, <2>2, <4>1 DEF Same
    <3> QED
      BY <3>1, <3>2, <3>3
  <2>3. CASE ~(job[t].srcfd = "open" /\ job[t].size > 0)
    BY <1>4, <2>1, <2>3 DEF Map, Same
  <2> QED
    BY <2>2, <2>3
<1>5. ASSUME CloseFile(t)
      PROVE  /\ pc[t] = "close file" /\ pc'[t] = "body" /\ Same(t)
             /\ job'[t].srcfd = IF job[t].srcfd = "open" THEN "closed" ELSE job[t].srcfd
             /\ job'[t].mapped = job[t].mapped /\ job'[t].failed = job[t].failed
             /\ job'[t].lost = job[t].lost
  <2>1. /\ pc[t] = "close file" /\ pc'[t] = "body" /\ got' = got /\ child' = child
        /\ job'[t] = IF job[t].srcfd = "open" THEN [job[t] EXCEPT !.srcfd = "closed"] ELSE job[t]
    BY <1>1, <1>5 DEF CloseFile, Goto
  <2> QED
    BY <1>2, <2>1 DEF Same
<1>6. ASSUME EndBody(t)
      PROVE  /\ pc[t] = "body" /\ pc'[t] = "close" /\ Same(t)
             /\ job'[t].srcfd = job[t].srcfd
             /\ job'[t].failed = job[t].failed /\ job'[t].lost = job[t].lost
  BY <1>1, <1>2, <1>6 DEF EndBody, Goto, Same
<1>7. ASSUME BodyFails(t)
      PROVE  /\ pc[t] = "body" /\ pc'[t] = "close" /\ Same(t)
             /\ job'[t].srcfd = job[t].srcfd
             /\ job'[t].failed = job[t].failed /\ job'[t].lost
  <2>1. job'[t] = [job[t] EXCEPT !.lost = TRUE, !.mapped = FALSE]
    BY <1>1, <1>7 DEF BodyFails
  <2> QED
    BY <1>1, <1>2, <1>7, <2>1 DEF BodyFails, Goto, Same
<1>8. ASSUME HeaderFails(t)
      PROVE  /\ pc[t] \in {"head", "cgi head"} /\ Same(t)
             /\ pc'[t] = IF pc[t] = "head" THEN "open" ELSE "fork"
             /\ job'[t].srcfd = job[t].srcfd /\ job'[t].mapped = job[t].mapped
             /\ job'[t].failed = job[t].failed /\ job'[t].lost
  <2>1. job'[t] = [job[t] EXCEPT !.lost = TRUE]
    BY <1>1, <1>8 DEF HeaderFails
  <2> QED
    BY <1>1, <1>2, <1>8, <2>1 DEF HeaderFails, Goto, Same
<1> QED
  BY <1>3, <1>4, <1>5, <1>6, <1>7, <1>8

\* The threads that hold a descriptor.
Holders == {t \in Threads : pc[t] \in {"map", "close file"} /\ job[t].srcfd = "open"}

LEMMA HoldersFinite == IsFiniteSet(Holders) /\ Cardinality(Holders) \in Nat
<1>1. Holders \subseteq Threads
  BY DEF Holders
<1> QED
  BY <1>1, FS_Subset, FS_CardinalityType

LEMMA TypeStep ==
  ASSUME TypeOK, FilesClosed', Next
  PROVE  TypeOK'
<1>f. file \in [Names -> Files] /\ size404 \in Sizes
  BY DEF TypeOK
<1>n. changes \in 0 .. MaxChanges
  BY DEF TypeOK
<1>d. free \in 0 .. MaxFds
  BY DEF TypeOK
<1>p. pc \in [Threads -> {"header end", "head", "open", "map", "close file", "body", "close",
                          "cgi head", "fork", "wait", "done"}]
  BY DEF TypeOK
<1>j. job \in [Threads -> JobSet]
  BY DEF TypeOK, JobSet
<1>g. got \in [Threads -> GotSet]
  BY DEF TypeOK, GotSet
<1>c. /\ child \in [Threads -> {"none", "born", "program", "server", "ended", "reaped"}]
      /\ alive \in BOOLEAN
  BY DEF TypeOK
<1>2. ASSUME NEW t \in Threads, Serve(t) \/ Disconnect(t) \/ Child(t)
      PROVE  TypeOK'
  <2>1. UNCHANGED <<file, size404, changes>>
    BY <1>2, FilesStay DEF Mine
  <2>2. pc' \in [Threads -> {"header end", "head", "open", "map", "close file", "body", "close",
                             "cgi head", "fork", "wait", "done"}]
    <3>1. pc' = pc \/ \E l \in {"head", "open", "map", "close file", "body", "close", "cgi head",
                                "fork", "wait", "done"} : pc' = [pc EXCEPT ![t] = l]
      <4>1. CASE Stat(t)
        BY <4>1 DEF Stat, Static, Goto
      <4>2. CASE OtherMethod(t) \/ SendHeader(t) \/ Open(t) \/ Map(t) \/ CloseFile(t) \/ EndBody(t)
        BY <4>2 DEF OtherMethod, SendHeader, Open, Map, CloseFile, EndBody, Goto
      <4>3. CASE WriteBody(t) \/ Close(t) \/ CgiHeader(t) \/ Fork(t) \/ ForkFails(t) \/ Wait(t)
        BY <4>3 DEF WriteBody, Close, CgiHeader, Fork, ForkFails, Wait, Goto
      <4>4. CASE WriteAgain(t) \/ Disconnect(t) \/ Child(t)
        BY <4>4 DEF WriteAgain, Disconnect, SigPipe, HeaderFails, BodyFails, Goto,
                    Child, ChildAborts, Exec, ChildEnds
      <4> QED
        BY <1>2, <4>1, <4>2, <4>3, <4>4 DEF Serve
    <3> QED
      BY <1>p, <3>1
  <2>3. job' \in [Threads -> JobSet]
    BY <1>2, JobDoes DEF Mine
  <2>4. got' \in [Threads -> GotSet]
    <3>1. CASE WriteBody(t)
      <4>1. got'[t].body \in Seq(Nat \X (0 .. Zero)) /\ got' = [got EXCEPT ![t].body = got'[t].body]
        BY <3>1, WriteAdds
      <4> QED
        BY <1>g, <4>1, GotUpdates
    <3>2. CASE ChildEnds(t)
      <4>1. <<Output>> \in Seq(Nat \X (0 .. Zero))
        <5>1. Output \in Nat \X (0 .. Zero)
          BY NamesFacts DEF Output
        <5> QED
          BY <5>1
      <4> QED
        <5>0. CASE got' = got
          BY <1>g, <5>0
        <5>1. CASE got' = [got EXCEPT ![t].body = <<Output>>]
          <6>1. \E b \in Seq(Nat \X (0 .. Zero)) : got' = [got EXCEPT ![t].body = b]
            BY <4>1, <5>1
          <6> QED
            BY <1>g, <6>1, GotUpdates
        <5> QED
          BY <3>2, <5>0, <5>1 DEF ChildEnds
    <3>3. CASE SendHeader(t) \/ Close(t) \/ CgiHeader(t)
      <4>1. job[t].size \in Ints
        BY <1>j DEF JobSet
      <4> QED
        BY <1>g, <3>3, <4>1, GotUpdates DEF SendHeader, Close, CgiHeader
    <3>4. CASE ~(WriteBody(t) \/ ChildEnds(t) \/ SendHeader(t) \/ Close(t) \/ CgiHeader(t))
      <4>1. UNCHANGED got
        BY <1>2, <3>4 DEF Serve, OtherMethod, Stat, Open, Map, CloseFile, EndBody, Fork,
                          ForkFails, Wait, WriteAgain, Disconnect, SigPipe, HeaderFails, BodyFails,
                          Child, ChildAborts, Exec
      <4> QED
        BY <1>g, <4>1
    <3> QED
      BY <3>1, <3>2, <3>3, <3>4
  <2>5. child' \in [Threads -> {"none", "born", "program", "server", "ended", "reaped"}]
    <3>1. child' = child \/ \E c \in Threads : \E x \in {"born", "program", "server", "ended", "reaped"} :
                              child' = [child EXCEPT ![c] = x]
      <4>1. CASE Child(t)
        BY <4>1 DEF Child, ChildAborts, Exec, ChildEnds
      <4>2. CASE Disconnect(t) \/ Fork(t) \/ Wait(t)
        BY <4>2 DEF Disconnect, SigPipe, HeaderFails, BodyFails, Fork, Wait
      <4>3. CASE Serve(t) /\ ~Fork(t) /\ ~Wait(t)
        BY <4>3 DEF Serve, OtherMethod, Stat, SendHeader, Open, Map, CloseFile, WriteBody, EndBody,
                    Close, WriteAgain, CgiHeader, ForkFails
      <4> QED
        BY <1>2, <4>1, <4>2, <4>3
    <3> QED
      BY <1>c, <3>1
  <2>6. free' \in 0 .. MaxFds
    <3>1. free' \in Nat
      <4>1. free' = free \/ free' = free + 1 \/ (free > 0 /\ free' = free - 1)
        <5>1. CASE Open(t)
          BY <5>1 DEF Open
        <5>2. CASE CloseFile(t)
          BY <5>2 DEF CloseFile
        <5>3. CASE Serve(t) /\ ~(Open(t) \/ CloseFile(t))
          BY <5>3 DEF Serve, OtherMethod, Stat, SendHeader, Map, WriteBody, EndBody, Close,
               WriteAgain, CgiHeader, Fork, ForkFails, Wait
        <5>4. CASE Disconnect(t) \/ Child(t)
          BY <5>4 DEF Disconnect, SigPipe, HeaderFails, BodyFails, Child, ChildAborts, Exec,
                      ChildEnds
        <5> QED
          BY <1>2, <5>1, <5>2, <5>3, <5>4
      <4> QED
        BY <1>d, <4>1
    <3>2. free' + Cardinality(Holders)' = MaxFds
      BY DEF FilesClosed, Holders
    <3>3. Cardinality(Holders)' \in Nat
      <4>1. Holders' \subseteq Threads
        BY DEF Holders
      <4> QED
        BY <4>1, FS_Subset, FS_CardinalityType
    <3> QED
      BY <3>1, <3>2, <3>3
  <2>7. alive' \in BOOLEAN
    <3>1. CASE Serve(t)
      BY <1>c, <3>1 DEF Serve, OtherMethod, Stat, SendHeader, Open, Map, CloseFile, WriteBody,
                        EndBody, Close, WriteAgain, CgiHeader, Fork, ForkFails, Wait
    <3>2. CASE Disconnect(t) \/ Child(t)
      BY <1>c, <3>2 DEF Disconnect, SigPipe, HeaderFails, BodyFails, Child, ChildAborts, Exec,
                        ChildEnds
    <3> QED
      BY <1>2, <3>1, <3>2
  <2> QED
    BY <1>f, <1>n, <2>1, <2>2, <2>3, <2>4, <2>5, <2>6, <2>7 DEF TypeOK, JobSet, GotSet
<1>3. ASSUME NEW n \in Names, Rewrite(n) \/ Remove(n)
      PROVE  TypeOK'
  <2>1. file' \in [Names -> Files] /\ changes' \in 0 .. MaxChanges
    <3>1. changes + 1 \in 0 .. MaxChanges /\ changes' = changes + 1
      <4>1. changes < MaxChanges /\ changes' = changes + 1
        BY <1>3 DEF Rewrite, Remove
      <4> QED
        BY <1>n, <4>1
    <3>2. \/ \E z \in Sizes : file' = [file EXCEPT ![n].size = z, ![n].version = changes + 1]
          \/ file' = [file EXCEPT ![n].kind = "missing"]
      BY <1>3 DEF Rewrite, Remove
    <3> QED
      BY <1>f, <3>1, <3>2, FileUpdates
  <2>2. UNCHANGED <<size404, free, pc, job, got, child, alive>>
    BY <1>3 DEF Rewrite, Remove
  <2> QED
    BY <1>f, <1>d, <1>p, <1>j, <1>g, <1>c, <2>1, <2>2 DEF TypeOK, JobSet, GotSet
<1> QED
  BY <1>2, <1>3 DEF Next
-----------------------------------------------------------------------------
(* The locals of a thread at each step *)
LEMMA StepsFrame ==
  ASSUME NEW s, StepsAt(s), pc'[s] = pc[s], job'[s] = job[s], got'[s] = got[s],
         child'[s] = child[s] \/ (child[s] = "ended" /\ child'[s] = "reaped")
  PROVE  StepsAt(s)'
<1>1. CASE child'[s] = child[s]
  BY <1>1 DEF StepsAt, Serving
<1>2. CASE child[s] = "ended" /\ child'[s] = "reaped"
  <2>1. ~got[s].closed /\ ~Serving(s) /\ pc[s] \notin {"header end", "cgi head", "fork"}
    BY <1>2 DEF StepsAt
  <2> QED
    BY <1>2, <2>1 DEF StepsAt, Serving
<1> QED
  BY <1>1, <1>2

(* What a step does to what the client of the thread has received. *)
LEMMA GotDoes ==
  ASSUME NEW G \in [Threads -> GotSet], NEW K, NEW t \in Threads
  PROVE  /\ (\E b : K = [G EXCEPT ![t].body = b]) =>
              K[t].length = G[t].length /\ K[t].closed = G[t].closed
         /\ \A z : (\E h : K = [G EXCEPT ![t].head = h, ![t].length = z]) =>
              K[t].length = z /\ K[t].body = G[t].body /\ K[t].closed = G[t].closed
         /\ (\E h : K = [G EXCEPT ![t].head = h]) =>
              K[t].body = G[t].body /\ K[t].closed = G[t].closed
         /\ K = [G EXCEPT ![t].closed = TRUE] =>
              K[t].body = G[t].body /\ K[t].length = G[t].length
<1> DEFINE S == Seq(Nat \X (0 .. Zero))
<1>1. G[t] \in [length : Ints, head : {"none", "static", "cgi"}, body : S, closed : BOOLEAN]
  BY DEF GotSet
<1> HIDE DEF S
<1>2. G[t] = [length |-> G[t].length, head |-> G[t].head, body |-> G[t].body,
              closed |-> G[t].closed]
  BY <1>1
<1>3. ASSUME NEW b, K = [G EXCEPT ![t].body = b]
      PROVE  K[t].length = G[t].length /\ K[t].closed = G[t].closed
  <2>1. K[t] = [G[t] EXCEPT !.body = b]
    BY <1>3
  <2> QED
    BY <1>2, <2>1
<1>4. ASSUME NEW z, NEW h, K = [G EXCEPT ![t].head = h, ![t].length = z]
      PROVE  K[t].length = z /\ K[t].body = G[t].body /\ K[t].closed = G[t].closed
  <2>1. K[t] = [G[t] EXCEPT !.head = h, !.length = z]
    BY <1>4
  <2> QED
    BY <1>2, <2>1
<1>5. ASSUME NEW h, K = [G EXCEPT ![t].head = h]
      PROVE  K[t].body = G[t].body /\ K[t].closed = G[t].closed
  <2>1. K[t] = [G[t] EXCEPT !.head = h]
    BY <1>5
  <2> QED
    BY <1>2, <2>1
<1>6. ASSUME K = [G EXCEPT ![t].closed = TRUE]
      PROVE  K[t].body = G[t].body /\ K[t].length = G[t].length
  <2>1. K[t] = [G[t] EXCEPT !.closed = TRUE]
    BY <1>6
  <2> QED
    BY <1>2, <2>1
<1> QED
  BY <1>3, <1>4, <1>5, <1>6

LEMMA StepsSelf ==
  ASSUME TypeOK, NEW t \in Threads, StepsAt(t), Mine(t)
  PROVE  StepsAt(t)'
<1>1. /\ pc \in [Threads -> {"header end", "head", "open", "map", "close file", "body", "close",
                             "cgi head", "fork", "wait", "done"}]
      /\ job \in [Threads -> JobSet] /\ got \in [Threads -> GotSet]
      /\ child \in [Threads -> {"none", "born", "program", "server", "ended", "reaped"}]
  BY DEF TypeOK, JobSet, GotSet
<1>g. got \in [Threads -> GotSet]
  BY <1>1
<1>2. CASE OtherMethod(t) \/ ForkFails(t)
  BY <1>1, <1>2 DEF OtherMethod, ForkFails, Goto, StepsAt, Serving
<1>3. CASE Stat(t)
  <2>1. /\ pc[t] = "header end" /\ got' = got /\ child' = child
        /\ pc'[t] \in {"head", "done", "cgi head"}
    BY <1>1, <1>3 DEF Stat, Static, Goto
  <2>2. /\ job'[t].srcfd = job[t].srcfd /\ job'[t].mapped = job[t].mapped
        /\ job'[t].failed = job[t].failed
    <3>1. job' = job \/ \E n, z, v : job' = [job EXCEPT ![t].name = n, ![t].size = z, ![t].version = v]
      <4>1. CASE NotFound(t)
        BY <4>1 DEF NotFound
      <4>2. ASSUME NEW n, NEW z, NEW v, Found(t, n, z, v)
            PROVE  \E m, y, w : job' = [job EXCEPT ![t].name = m, ![t].size = y, ![t].version = w]
        BY <4>2 DEF Found
      <4> QED
        BY <1>3, <4>1, <4>2, StatJob
    <3>2. job[t] = [name |-> job[t].name, size |-> job[t].size, version |-> job[t].version,
                    srcfd |-> job[t].srcfd, mapped |-> job[t].mapped, failed |-> job[t].failed,
                    lost |-> job[t].lost]
      BY <1>1 DEF JobSet
    <3>3. ASSUME NEW n, NEW z, NEW v,
                 job' = [job EXCEPT ![t].name = n, ![t].size = z, ![t].version = v]
          PROVE  /\ job'[t].srcfd = job[t].srcfd /\ job'[t].mapped = job[t].mapped
                 /\ job'[t].failed = job[t].failed
      <4>1. job'[t] = [job[t] EXCEPT !.name = n, !.size = z, !.version = v]
        BY <1>1, <3>3
      <4> QED
        BY <3>2, <4>1
    <3> QED
      BY <3>1, <3>3
  <2> QED
    BY <2>1, <2>2 DEF StepsAt, Serving
<1>4. CASE SendHeader(t)
  <2>1. /\ pc[t] = "head" /\ pc'[t] = "open" /\ job' = job /\ child' = child
        /\ got' = [got EXCEPT ![t].head = "static", ![t].length = job[t].size]
    BY <1>1, <1>4 DEF SendHeader, Goto
  <2>2. /\ got'[t].length = job[t].size /\ got'[t].body = got[t].body
        /\ got'[t].closed = got[t].closed
    BY <1>g, <2>1, GotDoes
  <2> QED
    BY <2>1, <2>2 DEF StepsAt, Serving
<1>b. /\ job[t].mapped \in BOOLEAN /\ job[t].failed \in BOOLEAN /\ job[t].lost \in BOOLEAN
      /\ job'[t].mapped \in BOOLEAN /\ job'[t].failed \in BOOLEAN /\ job'[t].lost \in BOOLEAN
  <2>1. job[t] \in JobSet /\ job'[t] \in JobSet
    BY <1>1, JobDoes
  <2> QED
    BY <2>1 DEF JobSet
<1>5. CASE Open(t)
  BY <1>5, <1>b, StaticDoes DEF StepsAt, Serving, Same
<1>13. CASE Map(t)
  BY <1>13, <1>b, StaticDoes DEF StepsAt, Serving, Same
<1>14. CASE CloseFile(t)
  BY <1>14, <1>b, StaticDoes DEF StepsAt, Serving, Same
<1>15. CASE EndBody(t) \/ BodyFails(t)
  BY <1>15, <1>b, StaticDoes DEF StepsAt, Serving, Same
<1>16. CASE HeaderFails(t)
  BY <1>16, <1>b, StaticDoes DEF StepsAt, Serving, Same
<1>6. CASE WriteBody(t)
  <2>1. pc[t] = "body" /\ pc' = pc /\ job' = job /\ child' = child
    BY <1>6 DEF WriteBody
  <2>2. got'[t].length = got[t].length /\ got'[t].closed = got[t].closed
    <3>1. PICK b : got' = [got EXCEPT ![t].body = b]
      BY <1>6, WriteAdds
    <3> QED
      BY <1>g, <3>1, GotDoes
  <2> QED
    BY <2>1, <2>2 DEF StepsAt, Serving
<1>7. CASE Close(t)
  <2>1. /\ pc[t] = "close" /\ pc'[t] = "done" /\ job' = job /\ child' = child
        /\ got' = [got EXCEPT ![t].closed = TRUE]
    BY <1>1, <1>7 DEF Close, Goto
  <2>2. got'[t].length = got[t].length
    BY <1>g, <2>1, GotDoes
  <2> QED
    BY <2>1, <2>2 DEF StepsAt, Serving
<1>8. CASE CgiHeader(t)
  <2>1. /\ pc[t] = "cgi head" /\ pc'[t] = "fork" /\ job' = job /\ child' = child
        /\ got' = [got EXCEPT ![t].head = "cgi"]
    BY <1>1, <1>8 DEF CgiHeader, Goto
  <2>2. got'[t].body = got[t].body /\ got'[t].closed = got[t].closed
    <3>1. \E h : got' = [got EXCEPT ![t].head = h]
      BY <2>1
    <3> QED
      BY <1>g, <3>1, GotDoes
  <2> QED
    BY <2>1, <2>2 DEF StepsAt, Serving
<1>9. CASE Fork(t)
  <2>1. /\ pc[t] = "fork" /\ pc'[t] = "wait" /\ job' = job /\ got' = got
        /\ child'[t] = "born"
    BY <1>1, <1>9 DEF Fork, Goto
  <2> QED
    BY <2>1 DEF StepsAt, Serving
<1>10. CASE Wait(t)
  <2>1. /\ pc[t] = "wait" /\ pc'[t] = "done" /\ job' = job /\ got' = got
        /\ child'[t] = child[t] \/ (child[t] = "ended" /\ child'[t] = "reaped")
    BY <1>1, <1>10 DEF Wait, Goto
  <2> QED
    BY <2>1 DEF StepsAt, Serving
<1>11. CASE SigPipe(t) \/ WriteAgain(t)
  BY <1>11, StepsFrame DEF SigPipe, WriteAgain
<1>12. CASE Child(t)
  <2>1. /\ pc' = pc /\ job' = job /\ child[t] # "none" /\ child'[t] # "none"
    BY <1>1, <1>12 DEF Child, ChildAborts, Exec, ChildEnds
  <2>2. got'[t].length = got[t].length /\ got'[t].closed = got[t].closed
    <3>1. got' = got \/ got' = [got EXCEPT ![t].body = <<Output>>]
      BY <1>12 DEF Child, ChildAborts, Exec, ChildEnds
    <3>2. CASE got' = [got EXCEPT ![t].body = <<Output>>]
      <4>1. \E b : got' = [got EXCEPT ![t].body = b]
        BY <3>2
      <4> QED
        BY <1>g, <4>1, GotDoes
    <3> QED
      BY <3>1, <3>2
  <2> QED
    BY <2>1, <2>2 DEF StepsAt, Serving
<1> QED
  BY <1>2, <1>3, <1>4, <1>5, <1>6, <1>7, <1>8, <1>9, <1>10, <1>11, <1>12, <1>13, <1>14, <1>15, <1>16
  DEF Mine, Serve, Disconnect

LEMMA StepsStep ==
  ASSUME TypeOK, StepsOK, Next
  PROVE  StepsOK'
<1> SUFFICES ASSUME NEW s \in Threads PROVE StepsAt(s)'
  BY DEF StepsOK
<1>1. StepsAt(s)
  BY DEF StepsOK
<1>2. ASSUME NEW t \in Threads, Mine(t)
      PROVE  StepsAt(s)'
  BY <1>1, <1>2, Others, StepsFrame, StepsSelf
<1>3. ASSUME NEW n \in Names, Rewrite(n) \/ Remove(n)
      PROVE  StepsAt(s)'
  BY <1>1, <1>3, StepsFrame DEF Rewrite, Remove
<1> QED
  BY <1>2, <1>3 DEF Next, Mine
-----------------------------------------------------------------------------
(* Descriptors *)
LEMMA DescriptorsStep ==
  ASSUME TypeOK, StepsOK, FilesClosed, Next
  PROVE  FilesClosed'
<1>1. free + Cardinality(Holders) = MaxFds /\ free \in Nat
  <2>1. free \in 0 .. MaxFds
    BY DEF TypeOK
  <2>2. free \in Nat
    BY <2>1
  <2>3. free + Cardinality(Holders) = MaxFds
    BY DEF FilesClosed, Holders
  <2> QED
    BY <2>2, <2>3
<1>2. SUFFICES free' + Cardinality(Holders') = MaxFds
  BY DEF FilesClosed, Holders
<1>3. ASSUME Holders' = Holders, free' = free
      PROVE  free' + Cardinality(Holders') = MaxFds
  BY <1>1, <1>3
<1>4. /\ pc \in [Threads -> {"header end", "head", "open", "map", "close file", "body", "close",
                             "cgi head", "fork", "wait", "done"}]
      /\ job \in [Threads -> JobSet]
  BY DEF TypeOK, JobSet
<1>5. ASSUME NEW t \in Threads, Mine(t)
      PROVE  free' + Cardinality(Holders') = MaxFds
  <2>1. \A s \in Threads : s # t => pc'[s] = pc[s] /\ job'[s] = job[s]
    BY <1>5, Others
  <2>2. \A s \in Threads : s # t => (s \in Holders' <=> s \in Holders)
    BY <2>1 DEF Holders
  <2>3. StepsAt(t)
    BY DEF StepsOK
  <2>4. CASE Open(t) /\ job'[t].srcfd = "open"
    <3>1. pc[t] = "open" /\ pc'[t] = "map"
      BY <2>4, StaticDoes
    <3>2. t \notin Holders /\ t \in Holders'
      BY <2>4, <3>1 DEF Holders
    <3>3. Holders' = Holders \cup {t}
      <4>1. Holders \subseteq Threads /\ Holders' \subseteq Threads
        BY DEF Holders
      <4> QED
        BY <2>2, <3>2, <4>1
    <3>4. free' = free - 1
      <4>1. job' # [job EXCEPT ![t].srcfd = "failed"]
        BY <1>4, <2>4 DEF JobSet
      <4> QED
        BY <2>4, <4>1 DEF Open
    <3>5. Cardinality(Holders') = Cardinality(Holders) + 1
      BY <3>2, <3>3, HoldersFinite, FS_AddElement
    <3> QED
      BY <1>1, <3>4, <3>5, HoldersFinite
  <2>5. CASE CloseFile(t) /\ job[t].srcfd = "open"
    <3>1. pc[t] = "close file" /\ pc'[t] = "body"
      BY <2>5, StaticDoes
    <3>2. t \in Holders /\ t \notin Holders'
      BY <2>5, <3>1 DEF Holders
    <3>3. Holders' = Holders \ {t}
      <4>1. Holders \subseteq Threads /\ Holders' \subseteq Threads
        BY DEF Holders
      <4> QED
        BY <2>2, <3>2, <4>1
    <3>4. free' = free + 1
      BY <2>5 DEF CloseFile
    <3>5. Cardinality(Holders') = Cardinality(Holders) - 1
      BY <3>2, <3>3, HoldersFinite, FS_RemoveElement
    <3> QED
      BY <1>1, <3>4, <3>5, HoldersFinite
  <2>6. ASSUME t \in Holders' <=> t \in Holders, free' = free
        PROVE  free' + Cardinality(Holders') = MaxFds
    <3>1. Holders' = Holders
      <4>1. Holders \subseteq Threads /\ Holders' \subseteq Threads
        BY DEF Holders
      <4> QED
        BY <2>2, <2>6, <4>1
    <3> QED
      BY <1>3, <2>6, <3>1
  <2>7. CASE Open(t) /\ job'[t].srcfd # "open"
    <3>1. free' = free
      <4>1. job' # [job EXCEPT ![t].srcfd = "open"]
        <5>1. [job EXCEPT ![t].srcfd = "open"][t] = [job[t] EXCEPT !.srcfd = "open"]
          BY <1>4
        <5>2. [job[t] EXCEPT !.srcfd = "open"].srcfd = "open"
          BY <1>4 DEF JobSet
        <5> QED
          BY <2>7, <5>1, <5>2
      <4> QED
        BY <2>7, <4>1 DEF Open
    <3>2. pc[t] = "open"
      BY <2>7 DEF Open
    <3>3. t \notin Holders /\ t \notin Holders'
      BY <2>7, <3>2 DEF Holders
    <3> QED
      BY <2>6, <3>1, <3>3
  <2>8. CASE CloseFile(t) /\ job[t].srcfd # "open"
    <3>1. free' = free /\ pc'[t] = "body"
      BY <1>4, <2>8 DEF CloseFile, Goto
    <3>2. t \notin Holders /\ t \notin Holders'
      BY <2>8, <3>1 DEF Holders
    <3> QED
      BY <2>6, <3>1, <3>2
  <2>9. CASE Map(t)
    <3>1. free' = free
      BY <2>9 DEF Map
    <3>2. t \in Holders' <=> t \in Holders
      BY <2>9, StaticDoes DEF Holders
    <3> QED
      BY <2>6, <3>1, <3>2
  <2>10. CASE ~(Open(t) \/ Map(t) \/ CloseFile(t))
    <3>1. free' = free
      BY <1>5, <2>10 DEF Mine, Serve, OtherMethod, Stat, SendHeader, WriteBody, EndBody, Close,
                         CgiHeader, Fork, ForkFails, Wait, WriteAgain, Disconnect, SigPipe,
                         HeaderFails, BodyFails, Child, ChildAborts, Exec, ChildEnds
    <3>2. CASE pc' = pc /\ job' = job
      BY <2>6, <3>1, <3>2 DEF Holders
    <3>3. CASE pc[t] \notin {"map", "close file"} /\ pc'[t] \notin {"map", "close file"}
      BY <2>6, <3>1, <3>3 DEF Holders
    <3>4. CASE Serve(t) /\ ~WriteBody(t) /\ ~WriteAgain(t)
      <4>1. pc[t] \notin {"map", "close file"}
        BY <2>10, <3>4 DEF Serve, OtherMethod, Stat, SendHeader, WriteBody, EndBody, Close,
                           WriteAgain, CgiHeader, Fork, ForkFails, Wait
      <4>2. \E l \in {"head", "open", "close", "cgi head", "fork", "wait", "done"} :
              pc' = [pc EXCEPT ![t] = l]
        <5>1. CASE Stat(t)
          BY <5>1 DEF Stat, Static, Goto
        <5>2. CASE Serve(t) /\ ~Stat(t)
          BY <2>10, <3>4, <5>2 DEF Serve, OtherMethod, SendHeader, WriteBody, EndBody, Close,
                             CgiHeader, Fork, ForkFails, Wait, Goto
        <5> QED
          BY <3>4, <5>1, <5>2
      <4>3. pc'[t] \notin {"map", "close file"}
        BY <1>4, <4>2
      <4> QED
        BY <3>3, <4>1, <4>3
    <3>5. CASE WriteBody(t) \/ WriteAgain(t) \/ SigPipe(t) \/ Child(t)
      BY <3>2, <3>5 DEF WriteBody, WriteAgain, SigPipe, Child, ChildAborts, Exec, ChildEnds
    <3>6. CASE HeaderFails(t) \/ BodyFails(t)
      BY <1>4, <3>3, <3>6 DEF HeaderFails, BodyFails, Goto
    <3> QED
      BY <1>5, <3>4, <3>5, <3>6 DEF Mine, Disconnect
  <2> QED
    BY <2>4, <2>5, <2>7, <2>8, <2>9, <2>10
<1>6. ASSUME NEW n \in Names, Rewrite(n) \/ Remove(n)
      PROVE  free' + Cardinality(Holders') = MaxFds
  BY <1>3, <1>6 DEF Rewrite, Remove, Holders
<1> QED
  BY <1>5, <1>6 DEF Next, Mine
-----------------------------------------------------------------------------
(* Children and those who wait for them *)
Waiters == {t \in Threads : pc[t] = "wait"}
Parents == {t \in Threads : child[t] \notin {"none", "reaped"}}

LEMMA WaitFinite ==
  /\ IsFiniteSet(Waiters) /\ Cardinality(Waiters) \in Nat
  /\ IsFiniteSet(Parents) /\ Cardinality(Parents) \in Nat
<1>1. Waiters \subseteq Threads /\ Parents \subseteq Threads
  BY DEF Waiters, Parents
<1> QED
  BY <1>1, FS_Subset, FS_CardinalityType

LEMMA WaitStep ==
  ASSUME TypeOK, StepsOK, WaitsPaired, Next
  PROVE  WaitsPaired'
<1>1. Cardinality(Waiters) = Cardinality(Parents)
  BY DEF WaitsPaired, Waiters, Parents
<1>2. SUFFICES Cardinality(Waiters') = Cardinality(Parents')
  BY DEF WaitsPaired, Waiters, Parents
<1>3. ASSUME Waiters' = Waiters, Parents' = Parents
      PROVE  Cardinality(Waiters') = Cardinality(Parents')
  BY <1>1, <1>3
<1>4. /\ pc \in [Threads -> {"header end", "head", "open", "map", "close file", "body", "close",
                             "cgi head", "fork", "wait", "done"}]
      /\ child \in [Threads -> {"none", "born", "program", "server", "ended", "reaped"}]
  BY DEF TypeOK
<1>5. ASSUME NEW t \in Threads, Fork(t)
      PROVE  Cardinality(Waiters') = Cardinality(Parents')
  <2>1. pc[t] = "fork" /\ child[t] = "none"
    BY <1>5 DEF Fork, StepsOK, StepsAt
  <2>2. pc' = [pc EXCEPT ![t] = "wait"] /\ child' = [child EXCEPT ![t] = "born"]
    BY <1>5 DEF Fork, Goto
  <2>3. t \notin Waiters /\ Waiters' = Waiters \cup {t}
    BY <1>4, <2>1, <2>2 DEF Waiters
  <2>4. t \notin Parents /\ Parents' = Parents \cup {t}
    BY <1>4, <2>1, <2>2 DEF Parents
  <2>5. Cardinality(Waiters') = Cardinality(Waiters) + 1
    BY <2>3, WaitFinite, FS_AddElement
  <2>6. Cardinality(Parents') = Cardinality(Parents) + 1
    BY <2>4, WaitFinite, FS_AddElement
  <2> QED
    BY <1>1, <2>5, <2>6
<1>6. ASSUME NEW t \in Threads, Wait(t)
      PROVE  Cardinality(Waiters') = Cardinality(Parents')
  <2>1. PICK c \in Threads : child[c] = "ended" /\ child' = [child EXCEPT ![c] = "reaped"]
    BY <1>6 DEF Wait
  <2>2. pc[t] = "wait" /\ pc' = [pc EXCEPT ![t] = "done"]
    BY <1>6 DEF Wait, Goto
  <2>3. t \in Waiters /\ Waiters' = Waiters \ {t}
    BY <1>4, <2>2 DEF Waiters
  <2>4. c \in Parents /\ Parents' = Parents \ {c}
    BY <1>4, <2>1 DEF Parents
  <2>5. Cardinality(Waiters') = Cardinality(Waiters) - 1
    BY <2>3, WaitFinite, FS_RemoveElement
  <2>6. Cardinality(Parents') = Cardinality(Parents) - 1
    BY <2>4, WaitFinite, FS_RemoveElement
  <2> QED
    BY <1>1, <2>5, <2>6
<1>7. ASSUME NEW t \in Threads, Child(t)
      PROVE  Cardinality(Waiters') = Cardinality(Parents')
  <2>1. /\ pc' = pc
        /\ \E x \in {"program", "server", "ended"} : child' = [child EXCEPT ![t] = x]
        /\ child[t] \in {"born", "program"}
    BY <1>7 DEF Child, ChildAborts, Exec, ChildEnds
  <2>2. Waiters' = Waiters
    BY <2>1 DEF Waiters
  <2>3. Parents' = Parents
    BY <1>4, <2>1 DEF Parents
  <2> QED
    BY <1>3, <2>2, <2>3
<1>8. ASSUME NEW t \in Threads, Serve(t), ~Fork(t), ~Wait(t)
      PROVE  Cardinality(Waiters') = Cardinality(Parents')
  <2>1. pc[t] # "wait" /\ child' = child
    BY <1>8 DEF Serve, OtherMethod, Stat, SendHeader, Open, Map, CloseFile, WriteBody, EndBody,
                Close, WriteAgain, CgiHeader, ForkFails
  <2>2. pc' = pc \/ \E l \in {"head", "open", "map", "close file", "body", "close", "cgi head",
                              "fork", "done"} : pc' = [pc EXCEPT ![t] = l]
    <3>1. CASE Stat(t)
      BY <3>1 DEF Stat, Static, Goto
    <3>2. CASE ~Stat(t)
      BY <1>8, <3>2 DEF Serve, OtherMethod, SendHeader, Open, Map, CloseFile, WriteBody, EndBody,
                        Close, WriteAgain, CgiHeader, ForkFails, Goto
    <3> QED
      BY <3>1, <3>2
  <2>3. Waiters' = Waiters
    BY <1>4, <2>1, <2>2 DEF Waiters
  <2>4. Parents' = Parents
    BY <2>1 DEF Parents
  <2> QED
    BY <1>3, <2>3, <2>4
<1>9. ASSUME NEW t \in Threads, Disconnect(t)
      PROVE  Cardinality(Waiters') = Cardinality(Parents')
  <2>1. child' = child
    BY <1>9 DEF Disconnect, SigPipe, HeaderFails, BodyFails
  <2>2. CASE SigPipe(t)
    BY <1>3, <2>1, <2>2 DEF SigPipe, Waiters, Parents
  <2>3. CASE HeaderFails(t) \/ BodyFails(t)
    <3>1. pc[t] # "wait" /\ \E l \in {"open", "fork", "close"} : pc' = [pc EXCEPT ![t] = l]
      BY <2>3 DEF HeaderFails, BodyFails, Goto
    <3> QED
      BY <1>3, <1>4, <2>1, <3>1 DEF Waiters, Parents
  <2> QED
    BY <1>9, <2>2, <2>3 DEF Disconnect
<1>10. ASSUME NEW n \in Names, Rewrite(n) \/ Remove(n)
       PROVE  Cardinality(Waiters') = Cardinality(Parents')
  BY <1>3, <1>10 DEF Rewrite, Remove, Waiters, Parents
<1> QED
  BY <1>5, <1>6, <1>7, <1>8, <1>9, <1>10 DEF Next
-----------------------------------------------------------------------------
(* What a step leaves as it was *)
LEMMA ClosedStays ==
  ASSUME TypeOK, NEW t \in Threads, Mine(t), ~Close(t)
  PROVE  got'[t].closed = got[t].closed
<1>g. got \in [Threads -> GotSet]
  BY DEF TypeOK, GotSet
<1>1. \/ got' = got
      \/ \E b : got' = [got EXCEPT ![t].body = b]
      \/ \E h : got' = [got EXCEPT ![t].head = h]
      \/ \E z : \E h : got' = [got EXCEPT ![t].head = h, ![t].length = z]
  <2>1. CASE WriteBody(t) \/ Child(t)
    BY <2>1, WriteAdds DEF Child, ChildAborts, Exec, ChildEnds
  <2>2. CASE SendHeader(t)
    BY <2>2 DEF SendHeader
  <2>3. CASE CgiHeader(t)
    BY <2>3 DEF CgiHeader
  <2>4. CASE Disconnect(t) \/ (Serve(t) /\ ~WriteBody(t) /\ ~SendHeader(t) /\ ~CgiHeader(t))
    BY <2>4 DEF Serve, OtherMethod, Stat, Open, Map, CloseFile, EndBody, Fork, ForkFails, Wait,
                WriteAgain, Disconnect, SigPipe, HeaderFails, BodyFails
  <2> QED
    BY <2>1, <2>2, <2>3, <2>4 DEF Mine
<1>2. CASE \E b : got' = [got EXCEPT ![t].body = b]
  BY <1>g, <1>2, GotDoes
<1>3. CASE \E h : got' = [got EXCEPT ![t].head = h]
  BY <1>g, <1>3, GotDoes
<1>4. CASE \E z : \E h : got' = [got EXCEPT ![t].head = h, ![t].length = z]
  <2>1. PICK z : \E h : got' = [got EXCEPT ![t].head = h, ![t].length = z]
    BY <1>4
  <2> QED
    BY <1>g, <2>1, GotDoes
<1> QED
  BY <1>1, <1>2, <1>3, <1>4

LEMMA JobStays ==
  ASSUME TypeOK, NEW t \in Threads, Mine(t), ~Stat(t)
  PROVE  job'[t].name = job[t].name /\ job'[t].size = job[t].size /\ job'[t].version = job[t].version
<1>1. CASE Open(t) \/ Map(t) \/ CloseFile(t) \/ EndBody(t) \/ HeaderFails(t) \/ BodyFails(t)
  BY <1>1, StaticDoes DEF Same
<1>2. CASE ~(Open(t) \/ Map(t) \/ CloseFile(t) \/ EndBody(t) \/ HeaderFails(t) \/ BodyFails(t))
  BY <1>2 DEF Mine, Serve, OtherMethod, SendHeader, WriteBody, Close, WriteAgain, CgiHeader, Fork,
              ForkFails, Wait, Disconnect, SigPipe, Child, ChildAborts, Exec, ChildEnds
<1> QED
  BY <1>1, <1>2

(* What a thread knows of its connection it does not forget.               *)
LEMMA LostStays ==
  ASSUME TypeOK, NEW t \in Threads, Mine(t), ~HeaderFails(t), ~BodyFails(t)
  PROVE  job'[t].lost = job[t].lost
<1>1. CASE Open(t) \/ Map(t) \/ CloseFile(t) \/ EndBody(t)
  BY <1>1, StaticDoes
<1>2. CASE Stat(t)
  <2>1. job' = job \/ \E n, z, v : job' = [job EXCEPT ![t].name = n, ![t].size = z, ![t].version = v]
    <3>1. CASE NotFound(t)
      BY <3>1 DEF NotFound
    <3>2. ASSUME NEW n, NEW z, NEW v, Found(t, n, z, v)
          PROVE  \E m, y, w : job' = [job EXCEPT ![t].name = m, ![t].size = y, ![t].version = w]
      BY <3>2 DEF Found
    <3> QED
      BY <1>2, <3>1, <3>2, StatJob
  <2>2. job \in [Threads -> JobSet]
    BY DEF TypeOK, JobSet
  <2>3. job[t] = [name |-> job[t].name, size |-> job[t].size, version |-> job[t].version,
                  srcfd |-> job[t].srcfd, mapped |-> job[t].mapped, failed |-> job[t].failed,
                  lost |-> job[t].lost]
    BY <2>2 DEF JobSet
  <2>4. ASSUME NEW n, NEW z, NEW v,
               job' = [job EXCEPT ![t].name = n, ![t].size = z, ![t].version = v]
        PROVE  job'[t].lost = job[t].lost
    <3>1. job'[t] = [job[t] EXCEPT !.name = n, !.size = z, !.version = v]
      BY <2>2, <2>4
    <3> QED
      BY <2>3, <3>1
  <2> QED
    BY <2>1, <2>4
<1>3. CASE ~(Stat(t) \/ Open(t) \/ Map(t) \/ CloseFile(t) \/ EndBody(t))
  BY <1>3 DEF Mine, Serve, OtherMethod, SendHeader, WriteBody, Close, WriteAgain, CgiHeader, Fork,
              ForkFails, Wait, Disconnect, SigPipe, Child, ChildAborts, Exec, ChildEnds
<1> QED
  BY <1>1, <1>2, <1>3

LEMMA ServingStays ==
  ASSUME TypeOK, NEW t \in Threads, Mine(t), ~Stat(t), ~Serving(t)
  PROVE  ~Serving(t)' /\ ~Close(t)
<1>1. pc \in [Threads -> {"header end", "head", "open", "map", "close file", "body", "close",
                          "cgi head", "fork", "wait", "done"}]
  BY DEF TypeOK
<1>2. pc' = pc \/ \E l \in {"fork", "wait", "done"} : pc' = [pc EXCEPT ![t] = l]
  BY DEF Mine, Serve, OtherMethod, SendHeader, Open, Map, CloseFile, WriteBody, EndBody, Close,
         CgiHeader, Fork, ForkFails, Wait, WriteAgain, Disconnect, SigPipe, HeaderFails, BodyFails, Child,
         ChildAborts, Exec, ChildEnds, Goto, Serving
<1>3. ~Close(t)
  BY DEF Close, Serving
<1> QED
  BY <1>1, <1>2, <1>3 DEF Serving

LEMMA StatDoes ==
  ASSUME TypeOK, NEW t \in Threads, Stat(t)
  PROVE  /\ pc[t] = "header end" /\ got' = got
         /\ \/ pc'[t] \in {"done", "cgi head"}
            \/ /\ pc'[t] = "head"
               /\ job'[t].name = "404" /\ job'[t].size = ToInt(size404) /\ job'[t].version = 0
            \/ /\ pc'[t] = "head"
               /\ job'[t].name \in Names
               /\ job'[t].size = ToInt(file[job'[t].name].size)
               /\ job'[t].version = file[job'[t].name].version
<1>1. job \in [Threads -> JobSet]
  BY DEF TypeOK, JobSet
<1>2. job[t] = [name |-> job[t].name, size |-> job[t].size, version |-> job[t].version,
                srcfd |-> job[t].srcfd, mapped |-> job[t].mapped, failed |-> job[t].failed,
                lost |-> job[t].lost]
  BY <1>1 DEF JobSet
<1>3. pc[t] = "header end" /\ got' = got
  BY DEF Stat
<1>4. CASE NotFound(t)
  BY <1>3, <1>4 DEF NotFound
<1>5. ASSUME NEW n \in Names, NEW z, NEW v, Found(t, n, z, v)
      PROVE  \/ job'[t].name = "404" /\ job'[t].size = ToInt(size404) /\ job'[t].version = 0
             \/ /\ job'[t].name \in Names
                /\ job'[t].size = ToInt(file[job'[t].name].size)
                /\ job'[t].version = file[job'[t].name].version
  <2>1. job'[t] = [job[t] EXCEPT !.name = n, !.size = ToInt(z), !.version = v]
    BY <1>1, <1>5 DEF Found
  <2>2. job'[t].name = n /\ job'[t].size = ToInt(z) /\ job'[t].version = v
    BY <1>2, <2>1
  <2>3. CASE n = "404" /\ z = size404 /\ v = 0
    BY <2>2, <2>3
  <2>4. CASE z = file[n].size /\ v = file[n].version
    BY <2>2, <2>4
  <2> QED
    BY <1>5, <2>3, <2>4 DEF Found
<1>6. ASSUME NEW n \in Names, NEW z, NEW v, Found(t, n, z, v)
      PROVE  pc'[t] = "head"
  BY <1>6 DEF Found
<1> QED
  BY <1>3, <1>4, <1>5, <1>6, StatJob
-----------------------------------------------------------------------------
(* Versions of files *)
LEMMA FileStep ==
  ASSUME TypeOK, NEW n \in Names, Rewrite(n) \/ Remove(n)
  PROVE  /\ changes' = changes + 1 /\ UNCHANGED <<size404, pc, job, got>>
         /\ \A m \in Names : m # n => file'[m] = file[m]
         /\ \/ file'[n].version = changes + 1
            \/ /\ file'[n].version = file[n].version /\ file'[n].size = file[n].size
               /\ file'[n].kind = "missing"
<1>1. file \in [Names -> [kind : Kinds, size : Sizes, version : 0 .. MaxChanges]]
  BY DEF TypeOK, Files
<1>2. changes' = changes + 1 /\ UNCHANGED <<size404, pc, job, got>>
  BY DEF Rewrite, Remove
<1>3. file[n] = [kind |-> file[n].kind, size |-> file[n].size, version |-> file[n].version]
  BY <1>1
<1>4. CASE Rewrite(n)
  <2>1. PICK z \in Sizes : file' = [file EXCEPT ![n].size = z, ![n].version = changes + 1]
    BY <1>4 DEF Rewrite
  <2>2. file'[n] = [file[n] EXCEPT !.size = z, !.version = changes + 1]
    BY <1>1, <2>1
  <2>3. file'[n].version = changes + 1
    BY <1>3, <2>2
  <2>4. \A m \in Names : m # n => file'[m] = file[m]
    BY <1>1, <2>1
  <2> QED
    BY <1>2, <2>3, <2>4
<1>5. CASE Remove(n)
  <2>1. file' = [file EXCEPT ![n].kind = "missing"]
    BY <1>5 DEF Remove
  <2>2. file'[n] = [file[n] EXCEPT !.kind = "missing"]
    BY <1>1, <2>1
  <2>3. /\ file'[n].version = file[n].version /\ file'[n].size = file[n].size
        /\ file'[n].kind = "missing"
    BY <1>3, <2>2
  <2>4. \A m \in Names : m # n => file'[m] = file[m]
    BY <1>1, <2>1
  <2> QED
    BY <1>2, <2>3, <2>4
<1> QED
  BY <1>4, <1>5

LEMMA VersionsStep ==
  ASSUME TypeOK, StepsOK, VersionsOK, Next
  PROVE  VersionsOK'
<1>1. /\ \A n \in Names : file[n].version <= changes
      /\ file["404"].version = 0 => file["404"].size = size404
      /\ \A s \in Threads : VersionsAt(s)
  BY DEF VersionsOK
<1>2. changes \in Nat
  <2>1. changes \in 0 .. MaxChanges
    BY DEF TypeOK
  <2> QED
    BY <2>1
<1>3. \A s \in Threads : job[s].name \in Names /\ job[s].version \in Nat
  <2>1. job \in [Threads -> JobSet]
    BY DEF TypeOK, JobSet
  <2>2. \A r \in JobSet : r.name \in Names /\ r.version \in Nat
    BY DEF JobSet
  <2> QED
    BY <2>1, <2>2
<1>4. \A n \in Names : file[n].version \in Nat
  <2>1. file \in [Names -> Files]
    BY DEF TypeOK
  <2>2. \A r \in Files : r.version \in Nat
    BY DEF Files
  <2> QED
    BY <2>1, <2>2
<1>5. ASSUME NEW t \in Threads, Mine(t)
      PROVE  VersionsOK'
  <2>1. UNCHANGED <<file, size404, changes>>
    BY <1>5, FilesStay
  <2>2. ASSUME NEW s \in Threads PROVE VersionsAt(s)'
    <3>1. VersionsAt(s)
      BY <1>1
    <3>2. CASE s # t
      <4>1. pc'[s] = pc[s] /\ job'[s] = job[s] /\ got'[s] = got[s]
        BY <1>5, <3>2, Others
      <4> QED
        BY <2>1, <3>1, <4>1 DEF VersionsAt, Serving
    <3>3. CASE s = t /\ Stat(t)
      <4>1. ~got'[t].closed
        <5>1. StepsAt(t)
          BY DEF StepsOK
        <5> QED
          BY <3>3, <5>1, StatDoes DEF StepsAt
      <4>2. CASE pc'[t] \in {"done", "cgi head"}
        BY <3>3, <4>1, <4>2 DEF VersionsAt, Serving
      <4>3. CASE job'[t].name = "404" /\ job'[t].size = ToInt(size404) /\ job'[t].version = 0
        BY <1>1, <1>2, <2>1, <3>3, <4>3 DEF VersionsAt
      <4>4. CASE /\ job'[t].name \in Names
                 /\ job'[t].size = ToInt(file[job'[t].name].size)
                 /\ job'[t].version = file[job'[t].name].version
        BY <1>1, <2>1, <3>3, <4>4 DEF VersionsAt
      <4> QED
        BY <3>3, <4>2, <4>3, <4>4, StatDoes
    <3>4. CASE s = t /\ ~Stat(t)
      <4>1. /\ job'[t].name = job[t].name /\ job'[t].size = job[t].size
            /\ job'[t].version = job[t].version
        BY <1>5, <3>4, JobStays
      <4>2. Serving(t)' \/ got'[t].closed => Serving(t) \/ got[t].closed
        BY <1>5, <3>4, ServingStays, ClosedStays
      <4> QED
        BY <2>1, <3>1, <3>4, <4>1, <4>2 DEF VersionsAt
    <3> QED
      BY <3>2, <3>3, <3>4
  <2> QED
    BY <1>1, <2>1, <2>2 DEF VersionsOK
<1>6. ASSUME NEW n \in Names, Rewrite(n) \/ Remove(n)
      PROVE  VersionsOK'
  <2>1. changes' = changes + 1 /\ UNCHANGED <<size404, pc, job, got>>
    BY <1>6, FileStep
  <2>2. \A m \in Names :
          \/ file'[m].version = changes + 1
          \/ file'[m].version = file[m].version /\ file'[m].size = file[m].size
    BY <1>6, FileStep
  <2>3. ASSUME NEW s \in Threads PROVE VersionsAt(s)'
    <3>1. VersionsAt(s) /\ job[s].name \in Names /\ job[s].version \in Nat
      BY <1>1, <1>3
    <3>2. job'[s] = job[s] /\ (Serving(s)' \/ got'[s].closed => Serving(s) \/ got[s].closed)
      BY <2>1 DEF Serving
    <3>3. CASE file'[job[s].name].version = changes + 1
      <4>1. job[s].version <= changes => job[s].version <= changes + 1 /\ job[s].version # changes + 1
        BY <1>2, <3>1
      <4> QED
        BY <2>1, <3>1, <3>2, <3>3, <4>1 DEF VersionsAt
    <3>4. CASE /\ file'[job[s].name].version = file[job[s].name].version
               /\ file'[job[s].name].size = file[job[s].name].size
      <4>1. job[s].version <= changes => job[s].version <= changes + 1
        BY <1>2, <3>1
      <4> QED
        BY <2>1, <3>1, <3>2, <3>4, <4>1 DEF VersionsAt
    <3> QED
      BY <2>2, <3>1, <3>3, <3>4
  <2>4. \A m \in Names : file'[m].version <= changes'
    BY <1>1, <1>2, <1>4, <2>1, <2>2
  <2>5. file'["404"].version = 0 => file'["404"].size = size404'
    BY <1>1, <1>2, <2>1, <2>2, NamesFacts
  <2> QED
    BY <2>3, <2>4, <2>5 DEF VersionsOK
<1> QED
  BY <1>5, <1>6 DEF Next, Mine
-----------------------------------------------------------------------------
(* What has been sent *)

\* The page of memory a unit is in begins before the unit.
LEMMA PageStart ==
  ASSUME NEW k \in Nat
  PROVE  (k \div Page) * Page <= k
<1>1. Page \in Nat /\ Page > 0
  OBVIOUS
<1>2. k = Page * (k \div Page) + (k % Page) /\ k % Page \in 0 .. Page - 1 /\ k \div Page \in Nat
  BY <1>1
<1> QED
  BY <1>1, <1>2

LEMMA Numbers ==
  ASSUME TypeOK, NEW t \in Threads
  PROVE  job[t].size \in Int /\ Sent(t) \in Nat /\ job[t].name \in Names
<1>1. job[t] \in JobSet /\ got[t] \in GotSet
  BY DEF TypeOK, JobSet, GotSet
<1>2. job[t].size \in Int /\ job[t].name \in Names
  BY <1>1, NamesFacts DEF JobSet
<1>3. got[t].body \in Seq(Nat \X (0 .. Zero))
  BY <1>1 DEF GotSet
<1>4. Sent(t) \in Nat
  BY <1>3 DEF Sent
<1> QED
  BY <1>2, <1>4

\* write() fails with EFAULT only when the file has become shorter.
LEMMA Reads ==
  ASSUME TypeOK, NEW t \in Threads, VersionsAt(t), StepsAt(t), pc[t] = "body", Undisturbed(t),
         ~job[t].failed, Sent(t) < job[t].size
  PROVE  Sent(t) + 1 \in Readable(t)
<1>1. job[t].size \in Int /\ Sent(t) \in Nat /\ job[t].name \in Names
  BY Numbers
<1>2. job[t].size <= file[job[t].name].size /\ file[job[t].name].size \in Nat
  <2>1. file[job[t].name] \in Files
    BY <1>1 DEF TypeOK
  <2>2. file[job[t].name].size \in Nat
    BY <2>1 DEF Files
  <2>3. job[t].size = ToInt(file[job[t].name].size)
    BY DEF VersionsAt, Undisturbed, Serving
  <2> QED
    BY <2>2, <2>3, IntFacts
<1>3. job[t].mapped
  <2>1. job[t].size > 0
    BY <1>1
  <2> QED
    BY <2>1 DEF StepsAt
<1>4. (Sent(t) \div Page) * Page < file[job[t].name].size
  <2>1. (Sent(t) \div Page) * Page \in Nat
    <3>1. Sent(t) \div Page \in Nat
      BY <1>1
    <3> QED
      BY <3>1
  <2>2. (Sent(t) \div Page) * Page <= Sent(t)
    BY <1>1, PageStart
  <2> HIDE SizesAssumption
  <2> QED
    BY <1>1, <1>2, <2>1, <2>2
<1>5. Sent(t) + 1 \in 1 .. job[t].size /\ (Sent(t) + 1) - 1 = Sent(t)
  BY <1>1
<1> QED
  BY <1>3, <1>4, <1>5 DEF Readable

LEMMA BodySelf ==
  ASSUME TypeOK, NEW t \in Threads, VersionsAt(t), StepsAt(t), BodyAt(t), Mine(t)
  PROVE  BodyAt(t)'
<1>1. /\ pc \in [Threads -> {"header end", "head", "open", "map", "close file", "body", "close",
                             "cgi head", "fork", "wait", "done"}]
      /\ job \in [Threads -> JobSet]
  BY DEF TypeOK, JobSet
<1>g. got \in [Threads -> GotSet]
  BY DEF TypeOK, GotSet
<1>2. UNCHANGED <<file, size404, changes>>
  BY FilesStay
<1>3. job[t].size \in Int /\ Sent(t) \in Nat
  BY Numbers
<1>4. ASSUME ~Stat(t), ~Close(t), ~got[t].closed, pc'[t] \notin {"body", "close"}
      PROVE  BodyAt(t)'
  BY <1>4, ClosedStays DEF BodyAt
<1>5. CASE WriteBody(t)
  <2>1. PICK n \in Sent(t) + 1 .. job[t].size :
          /\ Sent(t) \in Nat /\ n \in Nat /\ Len(got'[t].body) = n
          /\ \A k \in 1 .. Sent(t) : got'[t].body[k] = got[t].body[k]
          /\ \A k \in Sent(t) + 1 .. n : got'[t].body[k] = Unit(t, k)
    BY <1>5, WriteAdds
  <2>2. pc[t] = "body" /\ pc' = pc /\ job' = job
    BY <1>5 DEF WriteBody
  <2>3. ~got'[t].closed
    <3>1. ~got[t].closed /\ ~Close(t)
      BY <2>2 DEF StepsAt, Serving, Close
    <3> QED
      BY <3>1, ClosedStays
  <2>4. Sent(t)' = n /\ n <= job[t].size
    BY <1>3, <2>1 DEF Sent
  <2>5. ASSUME Undisturbed(t)' PROVE \A k \in 1 .. n : got'[t].body[k] = <<k, job[t].version>>
    <3>1. Undisturbed(t)
      BY <1>2, <2>2, <2>5 DEF Undisturbed
    <3>2. /\ job[t].size <= file[job[t].name].size /\ file[job[t].name].size \in Nat
          /\ file[job[t].name].version = job[t].version
      <4>1. /\ job[t].size = ToInt(file[job[t].name].size)
            /\ file[job[t].name].version = job[t].version
        BY <2>2, <3>1 DEF VersionsAt, Undisturbed, Serving
      <4>2. file[job[t].name] \in Files
        BY Numbers DEF TypeOK
      <4>3. file[job[t].name].size \in Nat
        BY <4>2 DEF Files
      <4> QED
        BY <4>1, <4>3, IntFacts
    <3>3. \A k \in 1 .. Sent(t) : got[t].body[k] = <<k, job[t].version>>
      BY <2>2, <3>1 DEF BodyAt
    <3>4. TAKE k \in 1 .. n
    <3>5. CASE k <= Sent(t)
      <4>1. k \in 1 .. Sent(t)
        BY <2>1, <3>5
      <4> QED
        BY <2>1, <3>3, <4>1
    <3>6. CASE ~(k <= Sent(t))
      <4>1. k \in Sent(t) + 1 .. n /\ k <= job[t].size
        BY <1>3, <2>1, <3>6
      <4>2. k <= file[job[t].name].size
        BY <1>3, <2>1, <3>2, <4>1
      <4>3. Unit(t, k) = <<k, job[t].version>>
        BY <3>2, <4>2 DEF Unit
      <4> QED
        BY <2>1, <4>1, <4>3
    <3> QED
      BY <3>5, <3>6
  <2> QED
    BY <2>2, <2>3, <2>4, <2>5 DEF BodyAt
<1>6. CASE CloseFile(t)
  <2>1. pc[t] = "close file" /\ pc'[t] = "body" /\ got' = got /\ job'[t].size = job[t].size
    BY <1>6, StaticDoes DEF Same
  <2>2. got[t].body = <<>> /\ ~got[t].closed
    BY <2>1 DEF StepsAt, Serving
  <2>3. Sent(t)' = 0
    BY <2>1, <2>2 DEF Sent
  <2>4. 1 .. 0 = {}
    OBVIOUS
  <2> QED
    BY <2>1, <2>2, <2>3, <2>4 DEF BodyAt
<1>7. CASE EndBody(t)
  <2>1. /\ pc[t] = "body" /\ pc'[t] = "close" /\ job'[t].srcfd = job[t].srcfd
        /\ job'[t].size = job[t].size
        /\ job'[t].name = job[t].name /\ job'[t].version = job[t].version /\ got' = got
    BY <1>7, StaticDoes DEF Same
  <2>2. Undisturbed(t)' <=> Undisturbed(t)
    BY <1>2, <2>1 DEF Undisturbed
  <2>3. Sent(t)' = Sent(t)
    BY <2>1 DEF Sent
  <2>4. /\ Sent(t) = 0 \/ Sent(t) <= job[t].size
        /\ Undisturbed(t) => \A k \in 1 .. Sent(t) : got[t].body[k] = <<k, job[t].version>>
    BY <2>1 DEF BodyAt
  <2>5. Undisturbed(t) /\ ~job[t].failed /\ job[t].size >= 0 => Sent(t) = job[t].size
    <3>1. Sent(t) = job[t].size \/ Sent(t) + 1 \notin Readable(t)
      BY <1>7 DEF EndBody
    <3>2. job[t].size >= 0 /\ Sent(t) # job[t].size => Sent(t) < job[t].size
      BY <1>3, <2>4
    <3> QED
      BY <2>1, <3>1, <3>2, Reads
  <2>6. job'[t].failed = job[t].failed /\ job'[t].lost = job[t].lost
    BY <1>7, StaticDoes
  <2> QED
    BY <2>1, <2>2, <2>3, <2>4, <2>5, <2>6 DEF BodyAt
<1>13. CASE BodyFails(t)
  <2>1. /\ pc[t] = "body" /\ pc'[t] = "close" /\ job'[t].lost /\ job'[t].size = job[t].size
        /\ job'[t].name = job[t].name /\ job'[t].version = job[t].version /\ got' = got
    BY <1>13, StaticDoes DEF Same
  <2>2. (Undisturbed(t)' <=> Undisturbed(t)) /\ Sent(t)' = Sent(t)
    BY <1>2, <2>1 DEF Undisturbed, Sent
  <2> QED
    BY <2>1, <2>2 DEF BodyAt
<1>14. CASE HeaderFails(t)
  <2>1. pc[t] \in {"head", "cgi head"} /\ pc'[t] \in {"open", "fork"} /\ got' = got
    BY <1>14, StaticDoes DEF Same
  <2>2. ~got[t].closed
    BY <2>1 DEF StepsAt, Serving
  <2> QED
    BY <2>1, <2>2 DEF BodyAt
<1>8. CASE Close(t)
  <2>1. pc[t] = "close" /\ job' = job /\ got' = [got EXCEPT ![t].closed = TRUE]
    BY <1>8 DEF Close
  <2>2. got'[t].body = got[t].body
    BY <1>g, <2>1, GotDoes
  <2>3. Sent(t)' = Sent(t) /\ (Undisturbed(t)' <=> Undisturbed(t))
    BY <1>2, <2>1, <2>2 DEF Sent, Undisturbed
  <2> QED
    BY <2>1, <2>2, <2>3 DEF BodyAt
<1>9. CASE SigPipe(t) \/ WriteAgain(t)
  BY <1>2, <1>9 DEF SigPipe, WriteAgain, BodyAt, Sent, Undisturbed
<1>10. CASE Stat(t)
  <2>1. ~got'[t].closed /\ pc'[t] \notin {"body", "close"}
    BY <1>10, StatDoes DEF StepsAt
  <2> QED
    BY <2>1 DEF BodyAt
<1>11. CASE Child(t)
  <2>1. pc' = pc /\ child[t] # "none" /\ ~Stat(t) /\ ~Close(t)
    <3>1. pc' = pc /\ child[t] # "none"
      BY <1>11 DEF Child, ChildAborts, Exec, ChildEnds
    <3>2. pc[t] # "header end" /\ pc[t] # "close"
      BY <3>1 DEF StepsAt, Serving
    <3> QED
      BY <3>1, <3>2 DEF Stat, Close
  <2>2. ~got[t].closed /\ pc[t] \notin {"body", "close"}
    BY <2>1 DEF StepsAt, Serving
  <2> QED
    BY <1>4, <2>1, <2>2
<1>12. CASE OtherMethod(t) \/ SendHeader(t) \/ Open(t) \/ Map(t) \/ CgiHeader(t) \/ Fork(t)
            \/ ForkFails(t) \/ Wait(t)
  <2>1. /\ pc[t] \in {"header end", "head", "open", "map", "cgi head", "fork", "wait"}
        /\ \E l \in {"open", "map", "close file", "fork", "wait", "done"} :
             pc' = [pc EXCEPT ![t] = l]
    BY <1>12 DEF OtherMethod, SendHeader, Open, Map, CgiHeader, Fork, ForkFails, Wait, Goto
  <2>2. ~got[t].closed /\ pc'[t] \notin {"body", "close"}
    BY <1>1, <2>1 DEF StepsAt, Serving
  <2>3. ~Close(t)
    BY <2>1 DEF Close
  <2>4. CASE Stat(t)
    BY <1>10, <2>4
  <2> QED
    BY <1>4, <2>2, <2>3, <2>4
<1> QED
  BY <1>5, <1>6, <1>7, <1>8, <1>9, <1>10, <1>11, <1>12, <1>13, <1>14 DEF Mine, Serve, Disconnect

LEMMA BodyStep ==
  ASSUME TypeOK, VersionsOK, StepsOK, BodyOK, Next
  PROVE  BodyOK'
<1> SUFFICES ASSUME NEW s \in Threads PROVE BodyAt(s)'
  BY DEF BodyOK
<1>1. VersionsAt(s) /\ StepsAt(s) /\ BodyAt(s)
  BY DEF VersionsOK, StepsOK, BodyOK
<1>2. ASSUME NEW t \in Threads, Mine(t)
      PROVE  BodyAt(s)'
  <2>1. CASE s = t
    BY <1>1, <1>2, <2>1, BodySelf
  <2>2. CASE s # t
    <3>1. pc'[s] = pc[s] /\ job'[s] = job[s] /\ got'[s] = got[s] /\ file' = file
      BY <1>2, <2>2, Others, FilesStay
    <3> QED
      BY <1>1, <3>1 DEF BodyAt, Sent, Undisturbed
  <2> QED
    BY <2>1, <2>2
<1>3. ASSUME NEW n \in Names, Rewrite(n) \/ Remove(n)
      PROVE  BodyAt(s)'
  <2>1. UNCHANGED <<pc, job, got>>
    BY <1>3, FileStep
  <2>2. Sent(s)' = Sent(s) /\ (Serving(s)' <=> Serving(s))
    BY <2>1 DEF Sent, Serving
  <2>3. Serving(s) \/ got[s].closed => (Undisturbed(s)' => Undisturbed(s))
    <3>1. CASE job[s].name # n
      <4>1. job[s].name \in Names
        BY DEF TypeOK
      <4>2. file'[job[s].name] = file[job[s].name]
        BY <1>3, <3>1, <4>1, FileStep
      <4> QED
        BY <2>1, <4>2 DEF Undisturbed
    <3>2. CASE job[s].name = n
      <4>1. job[s].version \in Nat /\ changes \in Nat
        <5>1. job[s].version \in 0 .. MaxChanges /\ changes \in 0 .. MaxChanges
          BY DEF TypeOK
        <5> QED
          BY <5>1
      <4>2. Serving(s) \/ got[s].closed => job[s].version # changes + 1
        BY <1>1, <4>1 DEF VersionsAt
      <4>3. file'[n].version = changes + 1 \/ file'[n].kind = "missing"
        BY <1>3, FileStep
      <4> QED
        BY <2>1, <3>2, <4>2, <4>3 DEF Undisturbed
    <3> QED
      BY <3>1, <3>2
  <2>4. pc[s] \in {"body", "close"} => Serving(s)
    BY DEF Serving
  <2> QED
    BY <1>1, <2>1, <2>2, <2>3, <2>4 DEF BodyAt
<1> QED
  BY <1>2, <1>3 DEF Next, Mine
-----------------------------------------------------------------------------
(* Headers, and answers that have not begun *)

(* What a step does to the header of the thread's answer. *)
LEMMA HeadDoes ==
  ASSUME NEW G \in [Threads -> GotSet], NEW K, NEW t \in Threads
  PROVE  /\ \A b : K = [G EXCEPT ![t].body = b] => K[t].head = G[t].head /\ K[t].body = b
         /\ \A z, h : K = [G EXCEPT ![t].head = h, ![t].length = z] => K[t].head = h
         /\ \A h : K = [G EXCEPT ![t].head = h] => K[t].head = h
         /\ K = [G EXCEPT ![t].closed = TRUE] => K[t].head = G[t].head
<1> DEFINE S == Seq(Nat \X (0 .. Zero))
<1>1. G[t] \in [length : Ints, head : {"none", "static", "cgi"}, body : S, closed : BOOLEAN]
  BY DEF GotSet
<1> HIDE DEF S
<1>2. G[t] = [length |-> G[t].length, head |-> G[t].head, body |-> G[t].body,
              closed |-> G[t].closed]
  BY <1>1
<1>3. ASSUME NEW b, K = [G EXCEPT ![t].body = b]
      PROVE  K[t].head = G[t].head /\ K[t].body = b
  <2>1. K[t] = [G[t] EXCEPT !.body = b]
    BY <1>3
  <2> QED
    BY <1>2, <2>1
<1>4. ASSUME NEW z, NEW h, K = [G EXCEPT ![t].head = h, ![t].length = z]
      PROVE  K[t].head = h
  <2>1. K[t] = [G[t] EXCEPT !.head = h, !.length = z]
    BY <1>4
  <2> QED
    BY <1>2, <2>1
<1>5. ASSUME NEW h, K = [G EXCEPT ![t].head = h]
      PROVE  K[t].head = h
  <2>1. K[t] = [G[t] EXCEPT !.head = h]
    BY <1>5
  <2> QED
    BY <1>2, <2>1
<1>6. ASSUME K = [G EXCEPT ![t].closed = TRUE]
      PROVE  K[t].head = G[t].head
  <2>1. K[t] = [G[t] EXCEPT !.closed = TRUE]
    BY <1>6
  <2> QED
    BY <1>2, <2>1
<1> QED
  BY <1>3, <1>4, <1>5, <1>6

LEMMA HeadSelf ==
  ASSUME TypeOK, NEW t \in Threads, StepsAt(t), HeadAt(t), Mine(t)
  PROVE  HeadAt(t)'
<1>1. /\ pc \in [Threads -> {"header end", "head", "open", "map", "close file", "body", "close",
                             "cgi head", "fork", "wait", "done"}]
      /\ job \in [Threads -> JobSet] /\ got \in [Threads -> GotSet]
      /\ child \in [Threads -> {"none", "born", "program", "server", "ended", "reaped"}]
  BY DEF TypeOK, JobSet, GotSet
<1>g. got \in [Threads -> GotSet]
  BY <1>1
<1>l. ~HeaderFails(t) /\ ~BodyFails(t) => job'[t].lost = job[t].lost
  BY LostStays
<1>b. job[t].lost \in BOOLEAN /\ job'[t].lost \in BOOLEAN
  <2>1. job[t] \in JobSet /\ job'[t] \in JobSet
    BY <1>1, JobDoes
  <2> QED
    BY <2>1 DEF JobSet
<1>2. CASE OtherMethod(t) \/ ForkFails(t)
  BY <1>1, <1>2 DEF OtherMethod, ForkFails, Goto, HeadAt, StepsAt, Serving
<1>3. CASE Stat(t)
  <2>1. /\ pc[t] = "header end" /\ got' = got /\ child' = child
        /\ pc'[t] \in {"head", "done", "cgi head"}
    BY <1>1, <1>3 DEF Stat, Static, Goto
  <2> QED
    BY <2>1 DEF HeadAt, StepsAt, Serving
<1>4. CASE SendHeader(t)
  <2>1. /\ pc[t] = "head" /\ pc'[t] = "open" /\ child' = child
        /\ got' = [got EXCEPT ![t].head = "static", ![t].length = job[t].size]
    BY <1>1, <1>4 DEF SendHeader, Goto
  <2>2. got'[t].head = "static"
    BY <1>g, <2>1, HeadDoes
  <2>3. child[t] = "none"
    BY <2>1 DEF StepsAt, Serving
  <2> QED
    BY <2>1, <2>2, <2>3 DEF HeadAt, Serving
<1>5. CASE Open(t) \/ Map(t) \/ CloseFile(t) \/ EndBody(t) \/ BodyFails(t)
  <2>1. /\ pc[t] \in {"open", "map", "close file", "body"}
        /\ pc'[t] \in {"map", "close file", "body", "close"}
        /\ got' = got /\ child' = child
    BY <1>5, StaticDoes DEF Same
  <2>2. job[t].lost => job'[t].lost
    BY <1>5, LostStays, StaticDoes
  <2>3. child[t] = "none"
    BY <2>1 DEF StepsAt, Serving
  <2> QED
    BY <2>1, <2>2, <2>3 DEF HeadAt, Serving
<1>14. CASE HeaderFails(t)
  <2>1. /\ pc[t] \in {"head", "cgi head"} /\ got' = got /\ child' = child /\ job'[t].lost
        /\ pc'[t] = IF pc[t] = "head" THEN "open" ELSE "fork"
    BY <1>14, StaticDoes DEF Same
  <2>2. child[t] = "none"
    BY <2>1 DEF StepsAt, Serving
  <2> QED
    BY <2>1, <2>2 DEF HeadAt, Serving
<1>6. CASE WriteBody(t)
  <2>1. pc[t] = "body" /\ pc' = pc /\ child' = child
    BY <1>6 DEF WriteBody
  <2>2. got'[t].head = got[t].head
    <3>1. got' = [got EXCEPT ![t].body = got'[t].body]
      BY <1>6, WriteAdds
    <3> QED
      BY <1>g, <3>1, HeadDoes
  <2>3. job' = job
    BY <1>6 DEF WriteBody
  <2>4. child[t] = "none"
    BY <2>1 DEF StepsAt, Serving
  <2> QED
    BY <2>1, <2>2, <2>3, <2>4 DEF HeadAt, Serving
<1>7. CASE Close(t)
  <2>1. pc[t] = "close" /\ pc'[t] = "done" /\ child' = child
        /\ got' = [got EXCEPT ![t].closed = TRUE]
    BY <1>1, <1>7 DEF Close, Goto
  <2>2. child[t] = "none"
    BY <2>1 DEF StepsAt, Serving
  <2> QED
    BY <2>1, <2>2 DEF HeadAt, Serving
<1>8. CASE CgiHeader(t)
  <2>1. /\ pc[t] = "cgi head" /\ pc'[t] = "fork" /\ child' = child
        /\ got' = [got EXCEPT ![t].head = "cgi"]
    BY <1>1, <1>8 DEF CgiHeader, Goto
  <2>2. got'[t].head = "cgi"
    <3>1. \A h : got' = [got EXCEPT ![t].head = h] => got'[t].head = h
      BY <1>g, HeadDoes
    <3> QED
      BY <2>1, <3>1
  <2>3. child[t] = "none"
    BY <2>1 DEF StepsAt
  <2> QED
    BY <2>1, <2>2, <2>3 DEF HeadAt, Serving
<1>9. CASE Fork(t)
  <2>1. pc[t] = "fork" /\ pc'[t] = "wait" /\ child'[t] = "born" /\ got' = got /\ job' = job
    BY <1>1, <1>9 DEF Fork, Goto
  <2> QED
    BY <2>1 DEF HeadAt, StepsAt, Serving
<1>10. CASE Wait(t)
  <2>1. pc[t] = "wait" /\ pc'[t] = "done" /\ got' = got /\ job' = job
    BY <1>1, <1>10 DEF Wait, Goto
  <2>2. child'[t] = child[t] \/ child'[t] = "reaped"
    BY <1>1, <1>10 DEF Wait
  <2> QED
    BY <2>1, <2>2 DEF HeadAt, Serving
<1>11. CASE SigPipe(t) \/ WriteAgain(t)
  <2>1. UNCHANGED <<pc, job, got, child>>
    BY <1>11 DEF SigPipe, WriteAgain
  <2> QED
    BY <2>1 DEF HeadAt, Serving
<1>12. CASE ChildAborts(t) \/ Exec(t)
  <2>1. /\ child[t] = "born" /\ child'[t] \in {"ended", "program", "server"}
        /\ pc' = pc /\ got' = got /\ job' = job
    BY <1>1, <1>12 DEF ChildAborts, Exec
  <2> QED
    BY <2>1 DEF HeadAt, StepsAt, Serving
<1>13. CASE ChildEnds(t)
  <2>1. /\ child[t] = "program" /\ child'[t] = "ended" /\ pc' = pc /\ job' = job
        /\ got' = got \/ got' = [got EXCEPT ![t].body = <<Output>>]
    BY <1>1, <1>13 DEF ChildEnds
  <2>2. got'[t].head = got[t].head
    BY <1>g, <2>1, HeadDoes
  <2> QED
    BY <2>1, <2>2 DEF HeadAt, StepsAt, Serving
<1> QED
  BY <1>2, <1>3, <1>4, <1>5, <1>6, <1>7, <1>8, <1>9, <1>10, <1>11, <1>12, <1>13, <1>14
  DEF Mine, Serve, Disconnect, Child

LEMMA HeadsStep ==
  ASSUME TypeOK, StepsOK, HeadsOK, Next
  PROVE  HeadsOK'
<1> SUFFICES ASSUME NEW s \in Threads PROVE HeadAt(s)'
  BY DEF HeadsOK
<1>1. StepsAt(s) /\ HeadAt(s)
  BY DEF StepsOK, HeadsOK
<1>2. ASSUME NEW t \in Threads, Mine(t)
      PROVE  HeadAt(s)'
  <2>1. CASE s = t
    BY <1>1, <1>2, <2>1, HeadSelf
  <2>2. CASE s # t
    <3>1. /\ pc'[s] = pc[s] /\ got'[s] = got[s] /\ job'[s] = job[s]
          /\ child'[s] = child[s] \/ (child[s] = "ended" /\ child'[s] = "reaped")
      BY <1>2, <2>2, Others
    <3> QED
      BY <1>1, <3>1 DEF HeadAt, Serving
  <2> QED
    BY <2>1, <2>2
<1>3. ASSUME NEW n \in Names, Rewrite(n) \/ Remove(n)
      PROVE  HeadAt(s)'
  <2>1. UNCHANGED <<pc, job, got, child>>
    BY <1>3 DEF Rewrite, Remove
  <2> QED
    BY <1>1, <2>1 DEF HeadAt, Serving
<1> QED
  BY <1>2, <1>3 DEF Next, Mine
-----------------------------------------------------------------------------
(* The inductive invariant *)
LEMMA InitInv == Init => IInv
<1> SUFFICES ASSUME Init PROVE IInv
  OBVIOUS
<1>1. TypeOK
  BY InitType
<1>2. \A t \in Threads :
        /\ pc[t] = "header end" /\ child[t] = "none" /\ job[t].srcfd = "none"
        /\ job[t].failed = FALSE /\ job[t].mapped = FALSE
        /\ got[t].body = <<>> /\ got[t].closed = FALSE /\ got[t].head = "none"
  BY DEF Init, NoBody
<1>3. changes = 0 /\ free = MaxFds /\ size404 = file["404"].size
  BY DEF Init
<1>4. VersionsOK
  <2>1. \A n \in Names : file[n].version = 0
    BY DEF Init, FirstFiles
  <2>2. \A t \in Threads : ~Serving(t) /\ ~got[t].closed
    BY <1>2 DEF Serving
  <2>3. \A t \in Threads : VersionsAt(t)
    BY <2>2 DEF VersionsAt
  <2>4. \A n \in Names : file[n].version <= changes
    BY <1>3, <2>1
  <2> QED
    BY <1>3, <2>3, <2>4 DEF VersionsOK
<1>5. StepsOK
  BY <1>2 DEF StepsOK, StepsAt, Serving
<1>6. BodyOK
  BY <1>2 DEF BodyOK, BodyAt
<1>7. FilesClosed
  <2>1. {t \in Threads : pc[t] \in {"map", "close file"} /\ job[t].srcfd = "open"} = {}
    BY <1>2
  <2>2. Cardinality({}) = 0 /\ MaxFds + 0 = MaxFds
    BY FS_EmptySet
  <2> QED
    BY <1>3, <2>1, <2>2 DEF FilesClosed
<1>8. WaitsPaired
  <2>1. /\ {t \in Threads : pc[t] = "wait"} = {}
        /\ {t \in Threads : child[t] \notin {"none", "reaped"}} = {}
    BY <1>2
  <2> QED
    BY <2>1 DEF WaitsPaired
<1>9. HeadsOK
  BY <1>2 DEF HeadsOK, HeadAt, Serving
<1> QED
  BY <1>1, <1>4, <1>5, <1>6, <1>7, <1>8, <1>9 DEF IInv

LEMMA InvStep == IInv /\ [Next]_vars => IInv'
<1> SUFFICES ASSUME IInv, [Next]_vars PROVE IInv'
  OBVIOUS
<1>1. TypeOK /\ VersionsOK /\ StepsOK /\ BodyOK /\ HeadsOK /\ FilesClosed /\ WaitsPaired
  BY DEF IInv
<1>2. CASE Next
  <2>1. StepsOK'
    BY <1>1, <1>2, StepsStep
  <2>2. FilesClosed'
    BY <1>1, <1>2, DescriptorsStep
  <2>3. TypeOK'
    BY <1>1, <1>2, <2>2, TypeStep
  <2>4. VersionsOK'
    BY <1>1, <1>2, VersionsStep
  <2>5. BodyOK'
    BY <1>1, <1>2, BodyStep
  <2>6. WaitsPaired'
    BY <1>1, <1>2, WaitStep
  <2>7. HeadsOK'
    BY <1>1, <1>2, HeadsStep
  <2> QED
    BY <2>1, <2>2, <2>3, <2>4, <2>5, <2>6, <2>7 DEF IInv
<1>3. CASE UNCHANGED vars
  <2>1. TypeOK'
    BY <1>1, <1>3 DEF TypeOK, vars
  <2>2. VersionsOK' /\ StepsOK'
    BY <1>1, <1>3 DEF VersionsOK, VersionsAt, StepsOK, StepsAt, Serving, vars
  <2>3. BodyOK'
    BY <1>1, <1>3 DEF BodyOK, BodyAt, Undisturbed, Sent, vars
  <2>4. FilesClosed' /\ WaitsPaired'
    BY <1>1, <1>3 DEF FilesClosed, WaitsPaired, vars
  <2>5. HeadsOK'
    BY <1>1, <1>3 DEF HeadsOK, HeadAt, Serving, vars
  <2> QED
    BY <2>1, <2>2, <2>3, <2>4, <2>5 DEF IInv
<1> QED
  BY <1>2, <1>3
-----------------------------------------------------------------------------
(* The invariant the others follow from: the types, what each version of a *)
(* file is, the locals at each step, and what of a page has been sent.     *)
THEOREM InductiveInvariant == Spec => []IInv
<1>1. Init => IInv
  BY InitInv
<1>2. IInv /\ [Next]_vars => IInv'
  BY InvStep
<1> QED
  BY <1>1, <1>2, PTL DEF Spec

(* A page of any size that an int can hold, whose file nobody touched and  *)
(* whose file and connection the system did not refuse, arrives whole      *)
(* after a header that announces its size (serve_static and                *)
(* response_write, http_handler.c).                                        *)
THEOREM PageWhole == Spec => []WholeUnlessDisturbed
<1>1. IInv => WholeUnlessDisturbed
  <2> DEFINE n(t) == file[job[t].name].size
  <2> SUFFICES ASSUME IInv, NEW t \in Threads, got[t].closed, Undisturbed(t),
                      ~job[t].failed, ~job[t].lost, n(t) <= MaxInt
               PROVE  got[t].length = n(t) /\ got[t].body = [k \in 1 .. n(t) |-> <<k, job[t].version>>]
    BY DEF WholeUnlessDisturbed
  <2>1. BodyAt(t) /\ StepsAt(t) /\ VersionsAt(t) /\ TypeOK
    BY DEF IInv, BodyOK, StepsOK, VersionsOK
  <2>2. n(t) \in Nat
    <3>1. file[job[t].name] \in Files
      BY <2>1, Numbers DEF TypeOK
    <3> QED
      BY <3>1 DEF Files
  <2>3. job[t].size = n(t)
    <3>1. job[t].size = ToInt(n(t))
      BY <2>1 DEF VersionsAt, Undisturbed
    <3> QED
      BY <2>2, <3>1, IntFacts
  <2>4. got[t].length = n(t)
    BY <2>1, <2>3 DEF StepsAt
  <2>5. Len(got[t].body) = n(t)
    <3>1. n(t) >= 0
      BY <2>2
    <3> QED
      BY <2>1, <2>3, <3>1 DEF BodyAt, Sent
  <2>6. \A k \in 1 .. Len(got[t].body) : got[t].body[k] = <<k, job[t].version>>
    BY <2>1 DEF BodyAt, Sent
  <2>7. got[t].body \in Seq(Nat \X (0 .. Zero))
    BY DEF IInv, TypeOK
  <2>8. got[t].body = [k \in 1 .. Len(got[t].body) |-> got[t].body[k]]
    BY <2>7
  <2> QED
    BY <2>4, <2>5, <2>6, <2>8
<1> QED
  BY <1>1, InductiveInvariant, PTL

(* No descriptor of a page is lost or given back twice (http_handler.c,    *)
(* 532-536), whichever call fails.                                         *)
THEOREM DescriptorsKept == Spec => []FilesClosed
<1>1. IInv => FilesClosed
  BY DEF IInv
<1> QED
  BY <1>1, InductiveInvariant, PTL

(* As many threads are in wait() as there are children to be waited for    *)
(* (http_handler.c, 622-640), although wait() takes any of them.           *)
THEOREM WaitsMatch == Spec => []WaitsPaired
<1>1. IInv => WaitsPaired
  BY DEF IInv
<1> QED
  BY <1>1, InductiveInvariant, PTL
-----------------------------------------------------------------------------
(* The answer as the client sees it *)

(* The steps that add to what a client has received. *)
LEMMA ReplySteps ==
  ASSUME NEW t \in Threads, Mine(t)
  PROVE  UNCHANGED got \/ SendHeader(t) \/ CgiHeader(t) \/ WriteBody(t) \/ ChildEnds(t) \/ Close(t)
<1>1. CASE Serve(t) /\ ~(SendHeader(t) \/ CgiHeader(t) \/ WriteBody(t) \/ Close(t))
  BY <1>1 DEF Serve, OtherMethod, Stat, Open, Map, CloseFile, EndBody, WriteAgain, Fork, ForkFails,
              Wait
<1>2. CASE Disconnect(t) \/ (Child(t) /\ ~ChildEnds(t))
  BY <1>2 DEF Disconnect, SigPipe, HeaderFails, BodyFails, Child, ChildAborts, Exec
<1> QED
  BY <1>1, <1>2 DEF Mine

(* Each of them is a step of the abstract answer. *)
LEMMA ReplyStep == IInv /\ [Next]_vars => [Client!Next]_(Client!vars)
<1> SUFFICES ASSUME IInv, [Next]_vars PROVE Client!Next \/ UNCHANGED got
  BY DEF Client!vars
<1>1. CASE UNCHANGED vars
  BY <1>1 DEF vars
<1>2. ASSUME NEW n \in Names, Rewrite(n) \/ Remove(n)
      PROVE  UNCHANGED got
  BY <1>2 DEF Rewrite, Remove
<1>3. ASSUME NEW t \in Threads, Mine(t)
      PROVE  Client!Next \/ UNCHANGED got
  <2>t. TypeOK /\ StepsAt(t) /\ HeadAt(t) /\ BodyAt(t)
    BY DEF IInv, StepsOK, HeadsOK, BodyOK
  <2>g. got \in [Threads -> GotSet] /\ job[t] \in JobSet
    BY <2>t DEF TypeOK, GotSet, JobSet
  <2>1. CASE SendHeader(t)
    <3>1. /\ pc[t] = "head" /\ job[t].size \in Ints
          /\ got' = [got EXCEPT ![t].head = "static", ![t].length = job[t].size]
      BY <2>1, <2>g DEF SendHeader, JobSet
    <3>2. Client!PageHeader(t)
      BY <2>t, <3>1 DEF HeadAt, StepsAt, Serving, Client!PageHeader
    <3> QED
      BY <3>2 DEF Client!Next
  <2>2. CASE CgiHeader(t)
    <3>1. Client!ProgramHeader(t)
      BY <2>2, <2>t DEF CgiHeader, HeadAt, StepsAt, Client!ProgramHeader
    <3> QED
      BY <3>1 DEF Client!Next
  <2>3. CASE WriteBody(t)
    <3>1. pc[t] = "body" /\ got[t].head = "static" /\ ~got[t].closed /\ got[t].length = job[t].size
      BY <2>3, <2>t DEF WriteBody, HeadAt, StepsAt, Serving
    <3>2. PICK n \in Sent(t) + 1 .. job[t].size :
            /\ Sent(t) \in Nat /\ n \in Nat /\ Len(got'[t].body) = n
            /\ \A k \in 1 .. Sent(t) : got'[t].body[k] = got[t].body[k]
            /\ got' = [got EXCEPT ![t].body = got'[t].body]
      BY <2>3, <2>t, WriteAdds
    <3>3. job[t].size \in Int
      BY <2>t, Numbers
    <3>4. Len(got'[t].body) > Len(got[t].body) /\ Len(got'[t].body) <= job[t].size
      BY <3>2, <3>3 DEF Sent
    <3>5. Client!More(t)
      BY <3>1, <3>2, <3>4 DEF Sent, Client!More
    <3> QED
      BY <3>5 DEF Client!Next
  <2>4. CASE ChildEnds(t)
    <3>0. CASE job[t].lost
      BY <2>4, <3>0 DEF ChildEnds
    <3> SUFFICES ASSUME ~job[t].lost PROVE Client!Next \/ UNCHANGED got
      BY <3>0
    <3>1. child[t] = "program" /\ got' = [got EXCEPT ![t].body = <<Output>>]
      BY <2>4 DEF ChildEnds
    <3>2. got[t].head = "cgi" /\ got[t].body = <<>> /\ ~got[t].closed
      BY <2>t, <3>1 DEF HeadAt, StepsAt
    <3>3. got'[t].body = <<Output>>
      BY <2>g, <3>1, HeadDoes
    <3>4. Len(<<Output>>) = 1 /\ Len(got[t].body) = 0
      BY <3>2
    <3>5. /\ got' = [got EXCEPT ![t].body = got'[t].body]
          /\ Len(got'[t].body) > Len(got[t].body)
          /\ \A k \in 1 .. Len(got[t].body) : got'[t].body[k] = got[t].body[k]
      <4>1. got' = [got EXCEPT ![t].body = got'[t].body]
        BY <3>1, <3>3
      <4>2. Len(got'[t].body) = 1 /\ Len(got[t].body) = 0
        BY <3>3, <3>4
      <4> QED
        BY <4>1, <4>2
    <3>6. Client!More(t)
      BY <3>2, <3>5 DEF Client!More
    <3> QED
      BY <3>6 DEF Client!Next
  <2>5. CASE Close(t)
    <3>1. Client!Close(t)
      BY <2>5, <2>t DEF Close, HeadAt, StepsAt, Serving, Client!Close
    <3> QED
      BY <3>1 DEF Client!Next
  <2> QED
    BY <1>3, <2>1, <2>2, <2>3, <2>4, <2>5, ReplySteps
<1> QED
  BY <1>1, <1>2, <1>3 DEF Next, Mine

(* The client of every thread sees one header and after it no more than was *)
(* announced, nothing taken back, and nothing after the close: serve_static *)
(* and serve_dynamic, with the children of all threads, implement           *)
(* ClientReply.                                                             *)
THEOREM Refinement == Spec => ImplementsReply
<1>1. Init => Client!Init
  BY DEF Init, NoBody, Client!Init
<1>2. IInv /\ [Next]_vars => [Client!Next]_(Client!vars)
  BY ReplyStep
<1> QED
  BY <1>1, <1>2, InductiveInvariant, PTL DEF Spec, ImplementsReply, Client!Spec
=============================================================================
