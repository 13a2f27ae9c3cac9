--------------------------- MODULE HeaderParseProofs ---------------------------
(***************************************************************************)
(* Proofs about HeaderParse for headers of any length made of any tokens.  *)
(* What the automaton's state says of the bytes before it (StatusOK) gives *)
(* that the header ends where it should (HeaderEnds); with where the       *)
(* current line began (CurrentLineOK), that the lines are those of the     *)
(* message (LinesStep).                                                    *)
(***************************************************************************)
EXTENDS HeaderParse, SequenceTheorems, WellFoundedInduction, TLAPS

USE TokensAssumption, BoundsAssumption

(* A set of naturals with an element has a least one. *)
LEMMA LeastBy ==
  ASSUME NEW R, IsWellFoundedOn(R, Nat), \A x, y \in Nat : <<y, x>> \in R <=> y < x,
         NEW S, S \subseteq Nat, S # {}
  PROVE  \E k \in S : \A j \in S : k <= j
<1>1. \E x \in S : \A y \in S : ~(<<y, x>> \in R) BY WFMin
<1>2. PICK x \in S : \A y \in S : ~(<<y, x>> \in R) BY <1>1
<1>3. \A y \in S : ~(y < x)
  <2>1. TAKE y \in S
  <2>2. ~(<<y, x>> \in R) BY <1>2
  <2>3. x \in Nat /\ y \in Nat OBVIOUS
  <2>4. <<y, x>> \in R <=> y < x BY <2>3
  <2> QED BY <2>2, <2>4
<1>4. \A y \in S : x \in Nat /\ y \in Nat OBVIOUS
<1>5. \A y \in S : x <= y BY <1>3, <1>4
<1> QED BY <1>5

LEMMA Least ==
  ASSUME NEW S, S \subseteq Nat, S # {}
  PROVE  \E k \in S : \A j \in S : k <= j
<1> DEFINE R == OpToRel(<, Nat)
<1>1. IsWellFoundedOn(R, Nat) BY NatLessThanWellFounded
<1>2. \A x, y \in Nat : <<y, x>> \in R <=> y < x BY DEF OpToRel
<1> HIDE DEF R
<1> QED BY <1>1, <1>2, LeastBy

(* The `while' loops of process_logline stop. *)
LEMMA ScanStops ==
  ASSUME NEW line \in Seq(Tokens), NEW i \in 1 .. Len(line) + 1, NEW S
  PROVE  /\ Scan(line, i, S) \in i .. Len(line) + 1
         /\ Scan(line, i, S) = Len(line) + 1 \/ line[Scan(line, i, S)] \in S
         /\ \A k \in i .. Scan(line, i, S) - 1 : line[k] \notin S
<1> DEFINE n == Len(line)
           Stop == {j \in i .. n + 1 : j = n + 1 \/ line[j] \in S}
           P(j) == /\ j = n + 1 \/ line[j] \in S
                   /\ \A k \in i .. j - 1 : line[k] \notin S
<1>1. n \in Nat
  OBVIOUS
<1>2. Stop \in SUBSET Nat /\ n + 1 \in Stop
  BY <1>1
<1>3. PICK m \in Stop : \A k \in Stop : m <= k
  BY <1>2, Least
<1>4. m \in i .. n + 1 /\ P(m)
  BY <1>1, <1>3
<1>5. \E j \in i .. n + 1 : P(j)
  BY <1>4
<1>6. Scan(line, i, S) = CHOOSE j \in i .. n + 1 : P(j)
  BY DEF Scan
<1> HIDE DEF P, n
<1>7. Scan(line, i, S) \in i .. n + 1 /\ P(Scan(line, i, S))
  BY <1>5, <1>6
<1> QED
  BY <1>7 DEF P, n

(* The structure keeps its types when the request line is read. *)
LEMMA LoglineTyped ==
  ASSUME TypeOK, NEW line \in Seq(Tokens)
  PROVE  /\ ProcessLogline(line) \in [option : BOOLEAN, method : Methods \cup {None},
                                      uri : Seq(Tokens), version : Accepted \cup {None}]
         /\ ~LineRefused(line) => /\ ProcessLogline(line).method \in Methods
                                  /\ ProcessLogline(line).option
<1>1. CASE ~HasMethod(line)
  <2>1. ProcessLogline(line) = [req EXCEPT !.version = "HTTP/0.9"]
    BY <1>1 DEF ProcessLogline
  <2> QED
    BY <1>1, <2>1 DEF TypeOK, LineRefused, Accepted
<1>2. CASE HasMethod(line)
  <2>1. Len(line) \in Nat /\ Len(line) >= 2 /\ line[1] \in Methods
    BY <1>2 DEF HasMethod
  <2>2. UriAt(line) \in 3 .. Len(line) + 1
    BY <2>1, ScanStops DEF UriAt
  <2>3. UriEnd(line) \in UriAt(line) .. Len(line) + 1
    BY <2>1, <2>2, ScanStops DEF UriEnd
  <2>4. SubSeq(line, UriAt(line), UriEnd(line) - 1) \in Seq(Tokens)
    <3> DEFINE a == UriAt(line)
               b == UriEnd(line) - 1
    <3>1. a \in Nat /\ b \in Nat /\ a >= 1 /\ b <= Len(line)
      BY <2>1, <2>2, <2>3
    <3>2. \A k \in a .. b : line[k] \in Tokens
      BY <2>1, <3>1, ElementOfSeq
    <3> HIDE DEF a, b
    <3> QED
      BY <3>1, <3>2, SubSeqProperties DEF a, b
  <2>5. ~BadVersion(line) /\ UriEnd(line) <= Len(line) => line[VersionAt(line)] \in Accepted
    BY DEF BadVersion
  <2> DEFINE uri == IF UriTooLong(line) THEN req.uri
                    ELSE SubSeq(line, UriAt(line), UriEnd(line) - 1)
             version == IF /\ ~UriTooLong(line) /\ ~BadVersion(line)
                           /\ UriEnd(line) <= Len(line)
                        THEN line[VersionAt(line)] ELSE "HTTP/0.9"
  <2>6. uri \in Seq(Tokens)
    BY <2>4 DEF TypeOK
  <2>7. version \in Accepted
    BY <2>5 DEF Accepted
  <2>8. ProcessLogline(line) = [option |-> TRUE, method |-> line[1], uri |-> uri, version |-> version]
    BY <1>2 DEF ProcessLogline
  <2> HIDE DEF uri, version
  <2> QED
    BY <2>1, <2>6, <2>7, <2>8
<1> QED
  BY <1>1, <1>2

(* Also when the copy of the URI has overrun its buffer. *)
LEMMA AfterLoglineTyped ==
  ASSUME TypeOK, NEW line \in Seq(Tokens), NEW r \in AfterLogline(line)
  PROVE  /\ r \in [option : BOOLEAN, method : Methods \cup {None},
                   uri : Seq(Tokens), version : Accepted \cup {None}]
         /\ ~LineRefused(line) => r.method \in Methods /\ r.option
         /\ r.method = ProcessLogline(line).method
         /\ ~UriOverruns(line) => r = ProcessLogline(line)
<1> DEFINE p == ProcessLogline(line)
<1>1. /\ p \in [option : BOOLEAN, method : Methods \cup {None},
                uri : Seq(Tokens), version : Accepted \cup {None}]
      /\ ~LineRefused(line) => p.method \in Methods /\ p.option
  BY LoglineTyped
<1>2. r \in {p} \cup IF UriOverruns(line) THEN {[p EXCEPT !.uri = Spoiled]} ELSE {}
  BY DEF AfterLogline
<1> HIDE DEF p
<1>3. r = p \/ (UriOverruns(line) /\ r = [p EXCEPT !.uri = Spoiled])
  BY <1>2
<1>4. Spoiled \in Seq(Tokens)
  <2>1. "word" \in Tokens
    BY DEF Tokens, Words
  <2> QED
    BY <2>1 DEF Spoiled
<1>5. r = p \/ r = [p EXCEPT !.uri = Spoiled]
  BY <1>3
<1>6. /\ r \in [option : BOOLEAN, method : Methods \cup {None},
                uri : Seq(Tokens), version : Accepted \cup {None}]
      /\ r.method = p.method /\ r.option = p.option
  BY <1>1, <1>4, <1>5
<1> QED
  BY <1>1, <1>3, <1>6 DEF p
-----------------------------------------------------------------------------
(* A token more. *)
LEMMA ConsumeMsg ==
  ASSUME TypeOK, NEW b \in Tokens, Consume(b)
  PROVE  /\ Len(msg) \in Nat /\ Len(msg') = Len(msg) + 1 /\ msg' \in Seq(Tokens)
         /\ \A k \in 1 .. Len(msg) : msg'[k] = msg[k]
         /\ msg'[Len(msg) + 1] = b
         /\ result = "parsing" /\ status' = NextStatus(b)
         /\ line_end' = IF EndsLine(b) THEN Len(msg) + 1 ELSE line_end
<1>1. msg' = Append(msg, b) /\ msg \in Seq(Tokens)
  BY DEF Consume, TypeOK
<1>2. Len(msg) \in Nat /\ Len(msg') = Len(msg) + 1 /\ msg' \in Seq(Tokens)
  BY <1>1
<1>3. /\ \A k \in 1 .. Len(msg) : msg'[k] = msg[k]
      /\ msg'[Len(msg) + 1] = b
  BY <1>1
<1> QED
  BY <1>2, <1>3 DEF Consume, Position

LEMMA InputIsToken == Input \subseteq Tokens
BY DEF Input, TokensAssumption

(* The automaton, as a table. *)
LEMMA NextStatusIs ==
  ASSUME TypeOK, status # "BODY_READ", NEW b \in Tokens
  PROVE  /\ status \in {"READ_HEADER", "ONE_CR"} =>
              NextStatus(b) = IF b = "CR" THEN "ONE_CR" ELSE IF b = "LF" THEN "ONE_LF" ELSE "READ_HEADER"
         /\ status \in {"ONE_LF", "TWO_CR"} =>
              NextStatus(b) = IF b = "CR" THEN "TWO_CR" ELSE IF b = "LF" THEN "BODY_READ" ELSE "READ_HEADER"
         /\ status \in {"READ_HEADER", "ONE_CR", "ONE_LF", "TWO_CR"}
<1>1. status \in {"READ_HEADER", "ONE_CR", "ONE_LF", "TWO_CR"}
  BY DEF TypeOK, Statuses
<1>2. CASE status = "READ_HEADER"
  BY <1>2 DEF NextStatus, Switch, InLine
<1>3. CASE status = "ONE_CR"
  BY <1>3 DEF NextStatus, Switch, InLine
<1>4. CASE status = "ONE_LF"
  BY <1>4 DEF NextStatus, Switch, AfterEnd
<1>5. CASE status = "TWO_CR"
  BY <1>5 DEF NextStatus, Switch, AfterEnd
<1> QED
  BY <1>1, <1>2, <1>3, <1>4, <1>5

(* Whatever the automaton does with a byte is one of these. *)
Turn(b) == WithinLine(b) \/ RequestLine(b) \/ OptionLine(b) \/ EndHeader(b)

LEMMA TurnConsumes ==
  ASSUME NEW b, Turn(b)
  PROVE  Consume(b) /\ (status' = "BODY_READ" <=> EndHeader(b))
BY DEF Turn, WithinLine, RequestLine, OptionLine, EndHeader

(* A byte ends an empty line exactly when the automaton says so. *)
LEMMA EmptyLineNow ==
  ASSUME TypeOK, StatusOK, NEW b \in Tokens, Consume(b), NEW n \in Nat, n = Len(msg)
  PROVE  /\ \A i \in 1 .. n : EmptyLineEnd(i)' <=> EmptyLineEnd(i)
         /\ EmptyLineEnd(n + 1)' <=> (status' = "BODY_READ")
<1>1. /\ (\A k \in 1 .. n : msg'[k] = msg[k]) /\ msg'[n + 1] = b
      /\ result = "parsing" /\ status' = NextStatus(b)
  BY ConsumeMsg
<1>2. status # "BODY_READ" /\ line_end \in Nat
  <2>1. line_end \in 0 .. n
    BY DEF TypeOK
  <2> QED
    BY <1>1, <2>1 DEF StatusOK
<1>3. \A i \in 1 .. n : EmptyLineEnd(i)' <=> EmptyLineEnd(i)
  BY <1>1 DEF EmptyLineEnd
<1>4. EmptyLineEnd(n + 1)' <=>
        /\ b = "LF"
        /\ \E j \in 1 .. n : msg[j] = "LF" /\ \A k \in j + 1 .. n : msg[k] = "CR"
  <2>1. EmptyLineEnd(n + 1)' <=>
          /\ msg'[n + 1] = "LF"
          /\ \E j \in 1 .. n + 1 - 1 :
               msg'[j] = "LF" /\ \A k \in j + 1 .. n + 1 - 1 : msg'[k] = "CR"
    BY DEF EmptyLineEnd
  <2>2. n + 1 - 1 = n
    OBVIOUS
  <2> QED
    BY <1>1, <2>1, <2>2
<1>5. CASE status = "ONE_LF"
  <2>1. msg[n] = "LF" /\ line_end <= n /\ line_end >= 1
    BY <1>5 DEF StatusOK, TextEnds
  <2>2. EmptyLineEnd(n + 1)' <=> b = "LF"
    <3>1. n \in 1 .. n
      BY <1>2, <2>1
    <3> QED
      BY <1>4, <2>1, <3>1
  <2> QED
    BY <1>1, <1>2, <1>3, <1>5, <2>2, NextStatusIs
<1>6. CASE status = "TWO_CR"
  <2>1. \E j \in 1 .. n : msg[j] = "LF" /\ \A k \in j + 1 .. n : msg[k] = "CR"
    <3>1. PICK j \in 1 .. n - 1 : msg[j] = "LF" /\ AllCR(j + 1, n)
      BY <1>6 DEF StatusOK
    <3> QED
      BY <3>1 DEF AllCR
  <2>2. EmptyLineEnd(n + 1)' <=> b = "LF"
    BY <1>4, <2>1
  <2> QED
    BY <1>1, <1>2, <1>3, <1>6, <2>2, NextStatusIs
<1>7. CASE status = "READ_HEADER"
  <2>1. n = 0 \/ msg[n] \notin {"CR", "LF"}
    BY <1>7 DEF StatusOK
  <2>2. ~ \E j \in 1 .. n : msg[j] = "LF" /\ \A k \in j + 1 .. n : msg[k] = "CR"
    BY <1>1, <2>1
  <2> QED
    BY <1>1, <1>2, <1>3, <1>4, <1>7, <2>2, NextStatusIs
<1>8. CASE status = "ONE_CR"
  <2>1. line_end <= n /\ TextEnds /\ AllCR(line_end, n)
    BY <1>8 DEF StatusOK
  <2>2. ASSUME NEW j \in 1 .. n, msg[j] = "LF", \A k \in j + 1 .. n : msg[k] = "CR"
        PROVE  FALSE
    <3>1. j < line_end
      BY <1>2, <2>1, <2>2 DEF AllCR
    <3>2. msg[line_end - 1] \notin {"CR", "LF"} /\ line_end - 1 \in j .. n
      BY <1>2, <2>1, <3>1 DEF TextEnds
    <3> QED
      BY <1>1, <2>2, <3>2
  <2> QED
    BY <1>1, <1>2, <1>3, <1>4, <1>8, <2>2, NextStatusIs
<1> QED
  BY <1>2, <1>5, <1>6, <1>7, <1>8, NextStatusIs

(* Where the call stands, and what a byte does to line_end. *)
LEMMA TurnFacts ==
  ASSUME TypeOK, StatusOK, NEW b \in Tokens, Turn(b), NEW n \in Nat, n = Len(msg)
  PROVE  /\ Len(msg') = n + 1 /\ msg' \in Seq(Tokens) /\ msg'[n + 1] = b
         /\ \A k \in 1 .. n : msg'[k] = msg[k]
         /\ status \in {"READ_HEADER", "ONE_CR", "ONE_LF", "TWO_CR"}
         /\ status' = IF status \in {"READ_HEADER", "ONE_CR"}
                      THEN IF b = "CR" THEN "ONE_CR" ELSE IF b = "LF" THEN "ONE_LF" ELSE "READ_HEADER"
                      ELSE IF b = "CR" THEN "TWO_CR" ELSE IF b = "LF" THEN "BODY_READ" ELSE "READ_HEADER"
         /\ line_end \in 0 .. n /\ header_line \in 0 .. n + 1 /\ result = "parsing"
         /\ line_end' = IF status = "READ_HEADER" /\ b \in {"CR", "LF"} THEN n + 1 ELSE line_end
<1>1. Consume(b)
  BY TurnConsumes
<1>2. /\ Len(msg') = n + 1 /\ msg' \in Seq(Tokens) /\ msg'[n + 1] = b
      /\ \A k \in 1 .. n : msg'[k] = msg[k]
      /\ result = "parsing" /\ status' = NextStatus(b)
      /\ line_end' = IF EndsLine(b) THEN n + 1 ELSE line_end
  BY <1>1, ConsumeMsg
<1>3. status # "BODY_READ"
  BY <1>2 DEF StatusOK
<1>4. /\ line_end \in 0 .. n /\ header_line \in 0 .. n + 1
  BY DEF TypeOK
<1> QED
  BY <1>2, <1>3, <1>4, NextStatusIs DEF EndsLine

(* What the automaton's state says of the bytes stays true. *)
LEMMA StatusStep ==
  ASSUME TypeOK, StatusOK, NEW b \in Tokens, Turn(b), NEW n \in Nat, n = Len(msg)
  PROVE  StatusOK'
<1>1. /\ Len(msg') = n + 1 /\ msg'[n + 1] = b
      /\ \A k \in 1 .. n : msg'[k] = msg[k]
      /\ status \in {"READ_HEADER", "ONE_CR", "ONE_LF", "TWO_CR"}
      /\ status' = IF status \in {"READ_HEADER", "ONE_CR"}
                   THEN IF b = "CR" THEN "ONE_CR" ELSE IF b = "LF" THEN "ONE_LF" ELSE "READ_HEADER"
                   ELSE IF b = "CR" THEN "TWO_CR" ELSE IF b = "LF" THEN "BODY_READ" ELSE "READ_HEADER"
      /\ line_end \in 0 .. n /\ result = "parsing"
      /\ line_end' = IF status = "READ_HEADER" /\ b \in {"CR", "LF"} THEN n + 1 ELSE line_end
  BY TurnFacts
<1>2. /\ status' = "BODY_READ" <=> result' = "header end"
      /\ result' = "refused" => status' = "ONE_LF"
  BY <1>1 DEF Turn, WithinLine, RequestLine, OptionLine, EndHeader
<1>3. status' = "READ_HEADER" => msg'[n + 1] \notin {"CR", "LF"}
  BY <1>1
<1>4. status' \in {"ONE_CR", "ONE_LF"} =>
        /\ line_end' \in 1 .. n + 1
        /\ line_end' = 1 \/ msg'[line_end' - 1] \notin {"CR", "LF"}
        /\ \A k \in line_end' .. n : msg'[k] = "CR"
  <2>1. CASE status = "READ_HEADER"
    <3>1. n = 0 \/ msg[n] \notin {"CR", "LF"}
      BY <2>1 DEF StatusOK
    <3>2. n = 0 \/ n \in 1 .. n
      OBVIOUS
    <3> QED
      BY <1>1, <2>1, <3>1, <3>2
  <2>2. CASE status = "ONE_CR"
    <3>1. /\ line_end \in 1 .. n
          /\ line_end = 1 \/ (msg[line_end - 1] \notin {"CR", "LF"} /\ line_end - 1 \in 1 .. n)
          /\ \A k \in line_end .. n : msg[k] = "CR" /\ k \in 1 .. n
      BY <1>1, <2>2 DEF StatusOK, TextEnds, AllCR
    <3>2. line_end' = line_end
      BY <1>1, <2>2
    <3> QED
      BY <1>1, <3>1, <3>2
  <2> QED
    BY <1>1, <2>1, <2>2
<1>5. status' = "TWO_CR" =>
        \E j \in 1 .. n : msg'[j] = "LF" /\ \A k \in j + 1 .. n + 1 : msg'[k] = "CR"
  <2>1. SUFFICES ASSUME status' = "TWO_CR"
                 PROVE  \E j \in 1 .. n : msg'[j] = "LF" /\ \A k \in j + 1 .. n + 1 : msg'[k] = "CR"
    OBVIOUS
  <2>2. \E j \in 1 .. n : msg[j] = "LF" /\ \A k \in j + 1 .. n : msg[k] = "CR"
    <3>1. CASE status = "ONE_LF"
      <4>1. n \in 1 .. n /\ msg[n] = "LF"
        BY <1>1, <3>1 DEF StatusOK, TextEnds
      <4> QED
        BY <4>1
    <3>2. CASE status = "TWO_CR"
      <4>1. PICK j \in 1 .. n - 1 : msg[j] = "LF" /\ AllCR(j + 1, n)
        BY <3>2 DEF StatusOK
      <4> QED
        BY <4>1 DEF AllCR
    <3> QED
      BY <1>1, <2>1, <3>1, <3>2
  <2>3. PICK j \in 1 .. n : msg[j] = "LF" /\ \A k \in j + 1 .. n : msg[k] = "CR"
    BY <2>2
  <2>4. b = "CR"
    BY <1>1, <2>1
  <2> QED
    BY <1>1, <2>3, <2>4
<1>6. status' = "BODY_READ" => EmptyLineEnd(n + 1)'
  BY EmptyLineNow, TurnConsumes
<1>7. status' = "ONE_LF" => msg'[n + 1] = "LF"
  BY <1>1
<1>8. EmptyLineEnd(Len(msg))' <=> EmptyLineEnd(n + 1)'
  BY <1>1 DEF EmptyLineEnd
<1>9. status' \in {"ONE_CR", "ONE_LF"} => line_end' <= Len(msg') /\ TextEnds'
  BY <1>1, <1>4 DEF TextEnds
<1>10. /\ status' = "ONE_CR" => AllCR(line_end, Len(msg))'
       /\ status' = "ONE_LF" => AllCR(line_end, Len(msg) - 1)'
  BY <1>1, <1>4 DEF AllCR
<1>11. status' = "TWO_CR" =>
         \E j \in 1 .. Len(msg') - 1 : msg'[j] = "LF" /\ AllCR(j + 1, Len(msg))'
  BY <1>1, <1>5 DEF AllCR
<1>12. /\ (status = "READ_HEADER" => Len(msg) = 0 \/ msg[Len(msg)] \notin {"CR", "LF"})'
       /\ (status = "ONE_CR" => line_end <= Len(msg) /\ TextEnds /\ AllCR(line_end, Len(msg)))'
       /\ (status = "ONE_LF" => /\ line_end <= Len(msg) /\ TextEnds
                                /\ AllCR(line_end, Len(msg) - 1)
                                /\ msg[Len(msg)] = "LF")'
  BY <1>1, <1>3, <1>7, <1>9, <1>10
<1>13. /\ (status = "TWO_CR" =>
             \E j \in 1 .. Len(msg) - 1 : msg[j] = "LF" /\ AllCR(j + 1, Len(msg)))'
       /\ (status = "BODY_READ" => Len(msg) >= 1 /\ EmptyLineEnd(Len(msg)))'
  BY <1>1, <1>6, <1>8, <1>11
<1> QED
  BY <1>2, <1>12, <1>13 DEF StatusOK

(* The header has ended exactly when this byte ends an empty line. *)
LEMMA EndsStep ==
  ASSUME TypeOK, StatusOK, EndsAtFirstEmptyLine, NEW b \in Tokens, Turn(b),
         NEW n \in Nat, n = Len(msg)
  PROVE  EndsAtFirstEmptyLine'
<1>1. Len(msg') = n + 1 /\ msg' \in Seq(Tokens) /\ result = "parsing"
  BY TurnFacts
<1>2. /\ \A i \in 1 .. n : EmptyLineEnd(i)' <=> EmptyLineEnd(i)
      /\ EmptyLineEnd(n + 1)' <=> (status' = "BODY_READ")
  BY EmptyLineNow, TurnConsumes
<1>3. \A i \in 1 .. n : ~EmptyLineEnd(i)
  <2>1. TAKE i \in 1 .. n
  <2>2. CASE i < n
    <3>1. i \in 1 .. Len(msg) - 1
      BY <2>2
    <3> QED
      BY <3>1 DEF EndsAtFirstEmptyLine
  <2>3. CASE i = n
    <3>1. msg # <<>>
      <4>1. Len(msg) # 0
        BY <2>3
      <4>2. Len(<<>>) = 0
        OBVIOUS
      <4> QED
        BY <4>1, <4>2
    <3>2. ~EmptyLineEnd(Len(msg))
      BY <1>1, <3>1 DEF EndsAtFirstEmptyLine
    <3> QED
      BY <2>3, <3>2
  <2> QED
    BY <2>2, <2>3
<1>4. (status' = "BODY_READ") <=> (result' = "header end")
  BY <1>1 DEF Turn, WithinLine, RequestLine, OptionLine, EndHeader
<1>5. EmptyLineEnd(Len(msg))' <=> EmptyLineEnd(n + 1)'
  BY <1>1 DEF EmptyLineEnd
<1>6. msg' # <<>>
  BY <1>1
<1>7. \A i \in 1 .. Len(msg') - 1 : ~EmptyLineEnd(i)'
  BY <1>1, <1>2, <1>3
<1> QED
  BY <1>2, <1>4, <1>5, <1>6, <1>7 DEF EndsAtFirstEmptyLine

(* The text of a line lies within the message. *)
LEMMA TextTyped ==
  ASSUME TypeOK, NEW n \in Nat, n = Len(msg), NEW e \in 1 .. n + 1
  PROVE  /\ SubSeq(msg, 1, e - 1) \in Seq(Tokens)
         /\ Len(SubSeq(msg, 1, e - 1)) = e - 1
<1>1. msg \in Seq(Tokens)
  BY DEF TypeOK
<1>2. \A i \in 1 .. e - 1 : msg[i] \in Tokens
  BY <1>1, ElementOfSeq
<1> QED
  BY <1>1, <1>2, SubSeqProperties

(* Each variable keeps its type. *)
LEMMA TypeStep ==
  ASSUME TypeOK, StatusOK, StatusOK', NEW b \in Tokens, Turn(b), NEW n \in Nat, n = Len(msg)
  PROVE  TypeOK'
<1>1. /\ Len(msg') = n + 1 /\ msg' \in Seq(Tokens)
      /\ line_end \in 0 .. n /\ header_line \in 0 .. n + 1
      /\ line_end' \in 0 .. n + 1
      /\ status' \in Statuses
  BY TurnFacts DEF Statuses
<1>2. status' = "ONE_LF" => line_end' \in 1 .. n + 1
  <2>1. status' = "ONE_LF" => TextEnds'
    BY DEF StatusOK
  <2>2. TextEnds' => line_end' >= 1
    BY DEF TextEnds
  <2> QED
    BY <1>1, <2>1, <2>2
<1>3. header_line' \in 0 .. n + 2
  <2>1. header_line' \in {header_line, Position + 1}
    BY DEF Turn, WithinLine, RequestLine, OptionLine, EndHeader
  <2>2. Position = n + 1
    BY DEF Position
  <2> QED
    BY <1>1, <2>1, <2>2
<1>4. req' \in [option : BOOLEAN, method : Methods \cup {None},
                uri : Seq(Tokens), version : Accepted \cup {None}]
  <2>1. req \in [option : BOOLEAN, method : Methods \cup {None},
                uri : Seq(Tokens), version : Accepted \cup {None}]
    BY DEF TypeOK
  <2>2. CASE RequestLine(b)
    <3>1. SubSeq(msg, 1, line_end' - 1) \in Seq(Tokens)
      BY <1>2, <2>2, TextTyped DEF RequestLine
    <3>2. req' \in AfterLogline(SubSeq(msg, 1, line_end' - 1))
      BY <2>2 DEF RequestLine
    <3> QED
      BY <3>1, <3>2, AfterLoglineTyped
  <2>3. CASE EndHeader(b)
    BY <2>1, <2>3 DEF EndHeader
  <2>4. CASE WithinLine(b) \/ OptionLine(b)
    BY <2>1, <2>4 DEF WithinLine, OptionLine
  <2> QED
    BY <2>2, <2>3, <2>4 DEF Turn
<1>5. lines' \in Seq(Nat \X Nat)
  <2>1. lines \in Seq(Nat \X Nat)
    BY DEF TypeOK
  <2>2. CASE RequestLine(b) \/ OptionLine(b)
    <3>1. \E f \in Nat : lines' = Append(lines, <<f, line_end'>>)
      BY <1>1, <2>2 DEF RequestLine, OptionLine
    <3> QED
      BY <1>1, <2>1, <3>1
  <2>3. CASE WithinLine(b) \/ EndHeader(b)
    BY <2>1, <2>3 DEF WithinLine, EndHeader
  <2> QED
    BY <2>2, <2>3 DEF Turn
<1>6. result' \in {"parsing", "refused", "header end", "ran out", "fault"}
  BY TurnFacts DEF Turn, WithinLine, RequestLine, OptionLine, EndHeader
<1>7. line_end' \in 0 .. Len(msg') /\ header_line' \in 0 .. Len(msg') + 1
  BY <1>1, <1>3
<1>8. overrun' \in BOOLEAN
  <2>1. overrun \in BOOLEAN
    BY DEF TypeOK
  <2>2. CASE RequestLine(b)
    BY <2>2 DEF RequestLine, UriOverruns
  <2>3. CASE OptionLine(b)
    BY <2>3 DEF OptionLine
  <2>4. CASE WithinLine(b) \/ EndHeader(b)
    BY <2>1, <2>4 DEF WithinLine, EndHeader
  <2> QED
    BY <2>2, <2>3, <2>4 DEF Turn
<1> QED
  BY <1>1, <1>4, <1>5, <1>6, <1>7, <1>8 DEF TypeOK
-----------------------------------------------------------------------------
(* What was read of the first line stays. *)
LEMMA SubSeqStays ==
  ASSUME NEW s \in Seq(Tokens), NEW t \in Seq(Tokens), NEW n \in Nat, n = Len(s), Len(t) = n + 1,
         \A k \in 1 .. n : t[k] = s[k], NEW m \in 0 .. n
  PROVE  SubSeq(t, 1, m) = SubSeq(s, 1, m)
<1>1. SubSeq(s, 1, m) = Restrict(s, 1 .. m)
  <2>1. m \in 0 .. Len(s)
    OBVIOUS
  <2> QED
    BY <2>1, SubSeqRestrict
<1>2. SubSeq(t, 1, m) = Restrict(t, 1 .. m)
  <2>1. m \in 0 .. Len(t)
    OBVIOUS
  <2> QED
    BY <2>1, SubSeqRestrict
<1>3. \A k \in 1 .. m : t[k] = s[k]
  OBVIOUS
<1> QED
  BY <1>1, <1>2, <1>3 DEF Restrict

(* Where the current line begins, and what a byte makes of it. *)
LEMMA LineFacts ==
  ASSUME TypeOK, StatusOK, StatusOK', CurrentLineOK, NEW b \in Tokens, Turn(b),
         NEW n \in Nat, n = Len(msg),
         NEW F, F = IF lines = <<>> THEN 1 ELSE header_line,
         NEW le, le = line_end'
  PROVE  /\ F \in 1 .. n + 1
         /\ F = 1 \/ (F - 1 \in 1 .. n /\ msg[F - 1] = "LF")
         /\ \A k \in F .. n : msg[k] # "LF"
         /\ lines # <<>> => /\ lines[1][1] = 1 /\ lines[1][2] <= n
                            /\ ~LineRefused(FirstLine) /\ header_line \in 2 .. n + 1
                            /\ lines[Len(lines)][2] < header_line
                            /\ req.method # None /\ req.option
         /\ lines = <<>> => ~req.option /\ ~EndHeader(b)
         /\ status' = "ONE_LF" =>
              /\ lines' = Append(lines, <<F, le>>)
              /\ le \in F .. n + 1 /\ (le = F => F = 1)
              /\ le = F \/ (le - 1 \in F .. n /\ msg[le - 1] # "CR")
              /\ \A k \in le .. n : msg[k] = "CR"
         /\ status' # "ONE_LF" => lines' = lines
<1>1. /\ Len(msg') = n + 1 /\ msg'[n + 1] = b /\ \A k \in 1 .. n : msg'[k] = msg[k]
      /\ status \in {"READ_HEADER", "ONE_CR", "ONE_LF", "TWO_CR"}
      /\ status' = IF status \in {"READ_HEADER", "ONE_CR"}
                   THEN IF b = "CR" THEN "ONE_CR" ELSE IF b = "LF" THEN "ONE_LF" ELSE "READ_HEADER"
                   ELSE IF b = "CR" THEN "TWO_CR" ELSE IF b = "LF" THEN "BODY_READ" ELSE "READ_HEADER"
      /\ header_line \in 0 .. n + 1 /\ result = "parsing"
      /\ line_end \in 0 .. n
      /\ line_end' = IF status = "READ_HEADER" /\ b \in {"CR", "LF"} THEN n + 1 ELSE line_end
  BY TurnFacts
<1>2. lines = <<>> => (\A k \in 1 .. n : msg[k] # "LF") /\ ~req.option
  BY DEF CurrentLineOK, NoLF
<1>3. lines # <<>> => /\ lines[1][1] = 1 /\ lines[1][2] <= n
                      /\ ~LineRefused(FirstLine)
                      /\ header_line >= 2 /\ msg[header_line - 1] = "LF"
                      /\ \A k \in header_line .. n : msg[k] # "LF"
                      /\ lines[Len(lines)][2] < header_line
                      /\ req.method # None /\ req.option
  <2>1. status # "BODY_READ" /\ result # "refused" /\ result # "header end"
    BY <1>1
  <2> QED
    BY <2>1 DEF CurrentLineOK, NoLF
<1>4. /\ F \in 1 .. n + 1
      /\ F = 1 \/ (F - 1 \in 1 .. n /\ msg[F - 1] = "LF")
      /\ \A k \in F .. n : msg[k] # "LF"
  <2>1. CASE lines = <<>>
    BY <1>2, <2>1
  <2>2. CASE lines # <<>>
    BY <1>1, <1>3, <2>2
  <2> QED
    BY <2>1, <2>2
<1>5. lines = <<>> => ~EndHeader(b)
  <2>1. SUFFICES ASSUME lines = <<>>, EndHeader(b) PROVE FALSE
    OBVIOUS
  <2>2. status \in {"ONE_LF", "TWO_CR"}
    BY <1>1, <2>1 DEF EndHeader
  <2>3. \E j \in 1 .. n : msg[j] = "LF"
    <3>1. CASE status = "ONE_LF"
      <4>1. msg[n] = "LF" /\ line_end <= n /\ line_end >= 1
        BY <3>1 DEF StatusOK, TextEnds
      <4>2. n \in 1 .. n
        BY <1>1, <4>1
      <4> QED
        BY <4>1, <4>2
    <3>2. CASE status = "TWO_CR"
      <4>1. PICK j \in 1 .. n - 1 : msg[j] = "LF"
        BY <3>2 DEF StatusOK
      <4> QED
        BY <4>1
    <3> QED
      BY <2>2, <3>1, <3>2
  <2> QED
    BY <1>2, <2>1, <2>3
<1>6. ASSUME status' = "ONE_LF"
      PROVE  /\ le \in F .. n + 1 /\ (le = F => F = 1)
             /\ le = F \/ (le - 1 \in F .. n /\ msg[le - 1] # "CR")
             /\ \A k \in le .. n : msg[k] = "CR"
  <2>1. TextEnds' /\ AllCR(line_end, Len(msg) - 1)'
    BY <1>6 DEF StatusOK
  <2>2. /\ le >= 1 /\ (le = 1 \/ msg'[le - 1] \notin {"CR", "LF"})
        /\ \A k \in le .. n + 1 - 1 : msg'[k] = "CR"
    BY <1>1, <2>1 DEF TextEnds, AllCR
  <2>3. le \in 1 .. n + 1
    BY <1>1, <2>2
  <2>4. /\ le = 1 \/ msg[le - 1] \notin {"CR", "LF"}
        /\ \A k \in le .. n : msg[k] = "CR"
    BY <1>1, <2>2, <2>3
  <2>5. F <= le
    BY <1>4, <2>3, <2>4
  <2>6. le = F => F = 1
    BY <1>4, <2>4
  <2>7. le # F => le - 1 \in F .. n /\ le # 1
    <3>1. F \in Nat /\ F >= 1 /\ le \in Nat /\ le <= n + 1
      BY <1>4, <2>3
    <3>2. \A x, y \in Nat : x >= 1 /\ x <= y /\ y <= n + 1 /\ y # x => y - 1 \in x .. n /\ y # 1
      OBVIOUS
    <3> QED
      BY <2>5, <3>1, <3>2
  <2>8. le \in F .. n + 1
    BY <1>4, <2>3, <2>5
  <2> QED
    BY <2>4, <2>6, <2>7, <2>8
<1>7. /\ status' = "ONE_LF" => lines' = Append(lines, <<F, le>>)
      /\ status' # "ONE_LF" => lines' = lines
  <2>1. CASE RequestLine(b)
    <3>1. lines = <<>>
      BY <1>3, <2>1 DEF RequestLine
    <3> QED
      BY <2>1, <3>1 DEF RequestLine
  <2>2. CASE OptionLine(b)
    <3>1. lines # <<>>
      BY <1>2, <2>2 DEF OptionLine
    <3> QED
      BY <2>2, <3>1 DEF OptionLine
  <2>3. CASE WithinLine(b) \/ EndHeader(b)
    BY <2>3 DEF WithinLine, EndHeader
  <2> QED
    BY <2>1, <2>2, <2>3 DEF Turn
<1>8. lines # <<>> => header_line \in 2 .. n + 1
  BY <1>1, <1>3
<1> QED
  BY <1>2, <1>3, <1>4, <1>5, <1>6, <1>7, <1>8

(* A line found stays a line; the current one begins at F, and when its LF *)
(* comes its text ends at e. *)
LEMMA IsLineNow ==
  ASSUME NEW b \in Tokens, NEW n \in Nat, n = Len(msg), Len(msg') = n + 1, msg'[n + 1] = b,
         \A k \in 1 .. n : msg'[k] = msg[k],
         NEW f \in Nat, NEW e \in Nat
  PROVE  /\ IsLine(f, e) => IsLine(f, e)' /\ f <= n /\ e <= n
         /\ IsLine(f, e)' /\ ~IsLine(f, e) =>
              /\ b = "LF" /\ f \in 1 .. e /\ e <= n + 1
              /\ f = 1 \/ (f - 1 \in 1 .. n /\ msg[f - 1] = "LF")
              /\ e = f \/ (e - 1 \in f .. n /\ msg[e - 1] # "CR")
              /\ f = e => f = 1
              /\ \A k \in f .. n : msg[k] # "LF"
              /\ \A k \in e .. n : msg[k] = "CR"
         /\ /\ b = "LF" /\ f \in 1 .. e /\ e <= n + 1
            /\ f = 1 \/ (f - 1 \in 1 .. n /\ msg[f - 1] = "LF")
            /\ e = f \/ (e - 1 \in f .. n /\ msg[e - 1] # "CR")
            /\ f = e => f = 1
            /\ \A k \in f .. n : msg[k] # "LF"
            /\ \A k \in e .. n : msg[k] = "CR"
            => IsLine(f, e)'
<1>1. ASSUME IsLine(f, e)
      PROVE  IsLine(f, e)' /\ f <= n /\ e <= n
  <2>1. /\ f \in 1 .. e /\ (f = 1 \/ (f - 1 \in 1 .. n /\ msg[f - 1] = "LF"))
        /\ e = f \/ msg[e - 1] # "CR"
        /\ f = e => f = 1
        /\ \A k \in f .. e - 1 : msg[k] # "LF"
        /\ \E i \in e .. n : msg[i] = "LF" /\ \A k \in e .. i - 1 : msg[k] = "CR"
    BY <1>1 DEF IsLine
  <2>2. PICK i \in e .. n : msg[i] = "LF" /\ \A k \in e .. i - 1 : msg[k] = "CR"
    BY <2>1
  <2>3. /\ f \in 1 .. e /\ e <= n
        /\ f = 1 \/ (f - 1 \in 1 .. n + 1 /\ msg'[f - 1] = "LF")
        /\ e = f \/ msg'[e - 1] # "CR"
        /\ \A k \in f .. e - 1 : msg'[k] # "LF"
    BY <2>1, <2>2
  <2>4. i \in e .. n + 1 /\ msg'[i] = "LF" /\ \A k \in e .. i - 1 : msg'[k] = "CR"
    BY <2>1, <2>2
  <2> QED
    BY <2>1, <2>3, <2>4 DEF IsLine
<1>2. ASSUME IsLine(f, e)', ~IsLine(f, e)
      PROVE  /\ b = "LF" /\ f \in 1 .. e /\ e <= n + 1
             /\ f = 1 \/ (f - 1 \in 1 .. n /\ msg[f - 1] = "LF")
             /\ e = f \/ (e - 1 \in f .. n /\ msg[e - 1] # "CR")
             /\ f = e => f = 1
             /\ \A k \in f .. n : msg[k] # "LF"
             /\ \A k \in e .. n : msg[k] = "CR"
  <2>1. /\ f \in 1 .. e /\ (f = 1 \/ (f - 1 \in 1 .. n + 1 /\ msg'[f - 1] = "LF"))
        /\ e = f \/ msg'[e - 1] # "CR"
        /\ f = e => f = 1
        /\ \A k \in f .. e - 1 : msg'[k] # "LF"
        /\ \E i \in e .. n + 1 : msg'[i] = "LF" /\ \A k \in e .. i - 1 : msg'[k] = "CR"
    BY <1>2 DEF IsLine
  <2>2. PICK i \in e .. n + 1 : msg'[i] = "LF" /\ \A k \in e .. i - 1 : msg'[k] = "CR"
    BY <2>1
  <2>3. e \in f .. n + 1 /\ f \in 1 .. n + 1
    BY <2>1, <2>2
  <2>4. /\ f = 1 \/ (f - 1 \in 1 .. n /\ msg[f - 1] = "LF")
        /\ e = f \/ (e - 1 \in f .. n /\ msg[e - 1] # "CR")
        /\ \A k \in f .. e - 1 : msg[k] # "LF"
    <3>1. f - 1 \in 0 .. n /\ e - 1 \in 0 .. n
      BY <2>3
    <3>2. e # f => e - 1 \in f .. n
      BY <2>3
    <3>3. \A k \in f .. e - 1 : k \in 1 .. n
      BY <2>3
    <3> QED
      BY <2>1, <2>3, <3>1, <3>2, <3>3
  <2>5. i = n + 1
    <3>1. SUFFICES ASSUME i \in e .. n PROVE FALSE
      BY <2>2
    <3>2. msg[i] = "LF" /\ \A k \in e .. i - 1 : msg[k] = "CR"
      BY <2>1, <2>2, <3>1
    <3>3. \E j \in e .. Len(msg) : msg[j] = "LF" /\ \A k \in e .. j - 1 : msg[k] = "CR"
      BY <3>1, <3>2
    <3> QED
      BY <1>2, <2>1, <2>4, <3>3 DEF IsLine
  <2>6. b = "LF" /\ \A k \in e .. n : msg[k] = "CR"
    BY <2>2, <2>3, <2>5
  <2> QED
    BY <2>1, <2>3, <2>4, <2>6
<1>3. ASSUME /\ b = "LF" /\ f \in 1 .. e /\ e <= n + 1
             /\ f = 1 \/ (f - 1 \in 1 .. n /\ msg[f - 1] = "LF")
             /\ e = f \/ (e - 1 \in f .. n /\ msg[e - 1] # "CR")
             /\ f = e => f = 1
             /\ \A k \in f .. n : msg[k] # "LF"
             /\ \A k \in e .. n : msg[k] = "CR"
      PROVE  IsLine(f, e)'
  <2>1. /\ f = 1 \/ (f - 1 \in 1 .. Len(msg') /\ msg'[f - 1] = "LF")
        /\ e = f \/ msg'[e - 1] # "CR"
    BY <1>3
  <2>2. \A k \in f .. e - 1 : msg'[k] # "LF"
    BY <1>3
  <2>3. n + 1 \in e .. Len(msg') /\ msg'[n + 1] = "LF" /\ \A k \in e .. n + 1 - 1 : msg'[k] = "CR"
    BY <1>3
  <2> QED
    BY <1>3, <2>1, <2>2, <2>3 DEF IsLine
<1> QED
  BY <1>1, <1>2, <1>3

LEMMA AppendLine ==
  ASSUME NEW s \in Seq(Nat \X Nat), NEW x \in Nat \X Nat
  PROVE  /\ Append(s, x) # <<>>
         /\ Len(Append(s, x)) = Len(s) + 1
         /\ \A i \in 1 .. Len(s) : Append(s, x)[i] = s[i]
         /\ Append(s, x)[Len(s) + 1] = x
BY AppendProperties

(* Each line is handed over once, when its LF comes. *)
LEMMA LinesStep ==
  ASSUME TypeOK, StatusOK, StatusOK', CurrentLineOK, LinesAsSent, NEW b \in Tokens, Turn(b),
         NEW n \in Nat, n = Len(msg)
  PROVE  LinesAsSent'
<1>f. PICK F : F = IF lines = <<>> THEN 1 ELSE header_line
  OBVIOUS
<1>e. PICK le : le = line_end'
  OBVIOUS
<1>n. PICK N : N = Len(lines)
  OBVIOUS
<1>1. /\ Len(msg') = n + 1 /\ msg'[n + 1] = b /\ \A k \in 1 .. n : msg'[k] = msg[k]
      /\ status \in {"READ_HEADER", "ONE_CR", "ONE_LF", "TWO_CR"}
      /\ status' = IF status \in {"READ_HEADER", "ONE_CR"}
                   THEN IF b = "CR" THEN "ONE_CR" ELSE IF b = "LF" THEN "ONE_LF" ELSE "READ_HEADER"
                   ELSE IF b = "CR" THEN "TWO_CR" ELSE IF b = "LF" THEN "BODY_READ" ELSE "READ_HEADER"
  BY TurnFacts
<1>2. /\ F \in 1 .. n + 1
      /\ F = 1 \/ (F - 1 \in 1 .. n /\ msg[F - 1] = "LF")
      /\ \A k \in F .. n : msg[k] # "LF"
      /\ lines # <<>> => lines[Len(lines)][2] < header_line
      /\ status' = "ONE_LF" =>
              /\ lines' = Append(lines, <<F, le>>)
              /\ le \in F .. n + 1 /\ (le = F => F = 1)
              /\ le = F \/ (le - 1 \in F .. n /\ msg[le - 1] # "CR")
              /\ \A k \in le .. n : msg[k] = "CR"
      /\ status' # "ONE_LF" => lines' = lines
  BY <1>f, <1>e, LineFacts
<1>3. lines \in Seq(Nat \X Nat) /\ N \in Nat
  <2>1. lines \in Seq(Nat \X Nat)
    BY DEF TypeOK
  <2> QED
    BY <1>n, <2>1
<1>4. lines # <<>> => F = header_line
  BY <1>f
<1>5. /\ \A k \in 1 .. N : lines'[k] = lines[k]
      /\ status' = "ONE_LF" => Len(lines') = N + 1 /\ lines'[N + 1] = <<F, le>>
      /\ status' # "ONE_LF" => Len(lines') = N
  <2>1. <<F, le>> \in Nat \X Nat \/ status' # "ONE_LF"
    BY <1>2
  <2>2. CASE status' = "ONE_LF"
    <3>1. lines' = Append(lines, <<F, le>>) /\ <<F, le>> \in Nat \X Nat
      BY <1>2, <2>1, <2>2
    <3>2. /\ Len(lines') = Len(lines) + 1 /\ lines'[Len(lines) + 1] = <<F, le>>
          /\ \A k \in 1 .. Len(lines) : lines'[k] = lines[k]
      BY <1>3, <3>1, AppendLine
    <3> QED
      BY <1>n, <2>2, <3>2
  <2>3. CASE status' # "ONE_LF"
    BY <1>n, <1>2, <1>3, <2>3
  <2> QED
    BY <2>2, <2>3
<1>6. ASSUME NEW k \in 1 .. Len(lines')
      PROVE  \E f, e \in Nat : lines'[k] = <<f, e>> /\ IsLine(f, e)'
  <2>1. CASE k \in 1 .. N
    <3>1. lines[k] \in Nat \X Nat /\ lines'[k] = lines[k]
      BY <1>n, <1>3, <1>5, <2>1
    <3>2. PICK f \in Nat, e \in Nat : lines[k] = <<f, e>>
      BY <3>1
    <3>3. IsLine(lines[k][1], lines[k][2])
      BY <1>n, <2>1 DEF LinesAsSent
    <3>4. IsLine(f, e)
      BY <3>2, <3>3
    <3> QED
      BY <1>1, <3>1, <3>2, <3>4, IsLineNow
  <2>2. CASE k \notin 1 .. N
    <3>1. status' = "ONE_LF" /\ k = N + 1 /\ lines'[k] = <<F, le>>
      BY <1>3, <1>5, <2>2
    <3>2. b = "LF"
      BY <1>1, <3>1
    <3>3. F \in Nat /\ le \in Nat
      BY <1>2, <3>1
    <3>4. /\ F \in 1 .. le /\ le <= n + 1
          /\ le = F \/ (le - 1 \in F .. n /\ msg[le - 1] # "CR")
          /\ F = le => F = 1
          /\ \A i \in le .. n : msg[i] = "CR"
      BY <1>2, <3>1
    <3>5. IsLine(F, le)'
      BY <1>1, <1>2, <3>2, <3>3, <3>4, IsLineNow
    <3> QED
      BY <3>1, <3>3, <3>5
  <2> QED
    BY <2>1, <2>2
<1>7. ASSUME NEW f \in 1 .. n + 1, NEW e \in f .. n + 1, IsLine(f, e)'
      PROVE  \E k \in 1 .. Len(lines') : lines'[k] = <<f, e>>
  <2>1. CASE IsLine(f, e)
    <3>1. f \in 1 .. n /\ e \in f .. n
      BY <1>1, <2>1, IsLineNow
    <3>2. PICK k \in 1 .. N : lines[k] = <<f, e>>
      BY <1>n, <2>1, <3>1 DEF LinesAsSent
    <3>3. k \in 1 .. Len(lines')
      BY <1>3, <1>5
    <3> QED
      BY <1>5, <3>2, <3>3
  <2>2. CASE ~IsLine(f, e)
    <3>1. /\ b = "LF" /\ f \in 1 .. e /\ e <= n + 1
          /\ f = 1 \/ (f - 1 \in 1 .. n /\ msg[f - 1] = "LF")
          /\ e = f \/ (e - 1 \in f .. n /\ msg[e - 1] # "CR")
          /\ f = e => f = 1
          /\ \A k \in f .. n : msg[k] # "LF"
          /\ \A k \in e .. n : msg[k] = "CR"
      BY <1>1, <1>7, <2>2, IsLineNow
    <3>2. f = F
      <4>1. ~(f < F)
        BY <1>2, <3>1
      <4>2. ~(F < f)
        BY <1>2, <3>1
      <4> QED
        BY <1>2, <4>1, <4>2
    <3>3. CASE status' = "ONE_LF"
      <4>1. /\ le \in F .. n + 1
            /\ le = F \/ (le - 1 \in F .. n /\ msg[le - 1] # "CR")
            /\ \A k \in le .. n : msg[k] = "CR"
        BY <1>2, <3>3
      <4>2. ~(e < le)
        BY <3>1, <3>2, <4>1
      <4>3. ~(le < e)
        BY <3>1, <3>2, <4>1
      <4>4. e = le
        BY <4>1, <4>2, <4>3
      <4>5. N + 1 \in 1 .. Len(lines')
        BY <1>3, <1>5, <3>3
      <4> QED
        BY <1>5, <3>2, <3>3, <4>4, <4>5
    <3>4. CASE status' # "ONE_LF"
      <4>1. status' = "BODY_READ"
        BY <1>1, <3>1, <3>4
      <4>2. EmptyLineEnd(n + 1)'
        BY <4>1, EmptyLineNow, TurnConsumes
      <4>3. \E j \in 1 .. n + 1 - 1 : msg'[j] = "LF" /\ \A k \in j + 1 .. n + 1 - 1 : msg'[k] = "CR"
        BY <4>2 DEF EmptyLineEnd
      <4>4. PICK j \in 1 .. n : msg[j] = "LF" /\ \A k \in j + 1 .. n : msg[k] = "CR"
        BY <1>1, <4>3
      <4>5. j < F /\ F # 1
        BY <1>2, <4>4
      <4>6. e # f /\ e - 1 \in j + 1 .. n
        BY <1>2, <3>1, <3>2, <4>5
      <4> QED
        BY <3>1, <4>4, <4>6
    <3> QED
      BY <3>3, <3>4
  <2> QED
    BY <2>1, <2>2
<1>8. ASSUME NEW k \in 2 .. Len(lines')
      PROVE  lines'[k - 1][2] < lines'[k][1]
  <2>1. CASE k \in 2 .. N
    <3>1. k - 1 \in 1 .. N /\ k \in 1 .. N
      BY <1>3, <2>1
    <3> QED
      BY <1>n, <1>5, <2>1, <3>1 DEF LinesAsSent
  <2>2. CASE k \notin 2 .. N
    <3>1. status' = "ONE_LF" /\ k = N + 1 /\ lines'[k] = <<F, le>> /\ k - 1 = N /\ N \in 1 .. N
      BY <1>3, <1>5, <2>2
    <3>2. lines # <<>>
      <4>1. Len(lines) # 0 /\ Len(<<>>) = 0
        BY <1>n, <3>1
      <4> QED
        BY <4>1
    <3>3. lines[N][2] < F
      BY <1>n, <1>2, <1>4, <3>2
    <3> QED
      BY <1>5, <3>1, <3>3
  <2> QED
    BY <2>1, <2>2
<1>9. \A k \in 1 .. Len(lines') : IsLine(lines[k][1], lines[k][2])'
  <2>1. TAKE k \in 1 .. Len(lines')
  <2>2. PICK f \in Nat, e \in Nat : lines'[k] = <<f, e>> /\ IsLine(f, e)'
    BY <1>6
  <2>3. lines'[k][1] = f /\ lines'[k][2] = e
    BY <2>2
  <2> QED
    BY <2>2, <2>3 DEF IsLine
<1> QED
  BY <1>1, <1>7, <1>8, <1>9 DEF LinesAsSent

(* What the first line is judged by is its text. *)
LEMMA SameText ==
  ASSUME FirstLine' = FirstLine
  PROVE  LineRefused(FirstLine)' <=> LineRefused(FirstLine)
BY DEF LineRefused, HasMethod, UriTooLong, UriHas,
       BadVersion, VersionAt, UriEnd, UriAt, Scan

(* Where the current line begins stays known. *)
LEMMA CurrentLineStep ==
  ASSUME TypeOK, StatusOK, StatusOK', CurrentLineOK, NEW b \in Tokens, Turn(b),
         NEW n \in Nat, n = Len(msg)
  PROVE  CurrentLineOK'
<1>f. PICK F : F = IF lines = <<>> THEN 1 ELSE header_line
  OBVIOUS
<1>e. PICK le : le = line_end'
  OBVIOUS
<1>1. /\ Len(msg') = n + 1 /\ msg' \in Seq(Tokens) /\ msg'[n + 1] = b
      /\ \A k \in 1 .. n : msg'[k] = msg[k]
      /\ result = "parsing"
      /\ (status' = "ONE_LF" \/ status' = "BODY_READ") <=> b = "LF"
  BY TurnFacts
<1>2. /\ F \in 1 .. n + 1
      /\ \A k \in F .. n : msg[k] # "LF"
      /\ F = 1 \/ (F - 1 \in 1 .. n /\ msg[F - 1] = "LF")
      /\ lines # <<>> => /\ lines[1][1] = 1 /\ lines[1][2] <= n
                         /\ ~LineRefused(FirstLine) /\ header_line \in 2 .. n + 1
                         /\ lines[Len(lines)][2] < header_line
                         /\ req.method # None /\ req.option
      /\ lines = <<>> => ~req.option /\ ~EndHeader(b)
      /\ status' = "ONE_LF" => lines' = Append(lines, <<F, le>>) /\ le \in F .. n + 1
  BY <1>f, <1>e, LineFacts
<1>3. lines \in Seq(Nat \X Nat) /\ msg \in Seq(Tokens)
  BY DEF TypeOK
<1>4. F = IF lines = <<>> THEN 1 ELSE header_line
  BY <1>f
<1>5. ASSUME lines # <<>>
      PROVE  SubSeq(msg', 1, lines[1][2] - 1) = SubSeq(msg, 1, lines[1][2] - 1)
  <2>1. Len(lines) \in Nat /\ Len(lines) # 0
    BY <1>3, <1>5, EmptySeq
  <2>2. lines[1] \in Nat \X Nat
    BY <1>3, <2>1
  <2>3. lines[1][2] \in Nat /\ lines[1][2] <= n
    BY <1>2, <1>5, <2>2
  <2>4. CASE lines[1][2] = 0
    BY <2>4, SubSeqEmpty
  <2>5. CASE lines[1][2] # 0
    <3>1. lines[1][2] - 1 \in 0 .. n
      BY <2>3, <2>5
    <3> QED
      BY <1>1, <1>3, <3>1, SubSeqStays
  <2> QED
    BY <2>4, <2>5
<1>6. CASE WithinLine(b) \/ EndHeader(b)
  <2>1. lines' = lines /\ header_line' = header_line /\ result' # "refused"
    BY <1>1, <1>6 DEF WithinLine, EndHeader
  <2>2. CASE lines = <<>>
    <3>1. WithinLine(b)
      BY <1>2, <1>6, <2>2
    <3>2. b # "LF" /\ result' = "parsing" /\ req' = req /\ overrun' = overrun
      BY <1>1, <3>1 DEF WithinLine
    <3>3. NoLF(1, Len(msg))'
      BY <1>1, <1>2, <1>4, <2>2, <3>2 DEF NoLF
    <3> QED
      BY <1>2, <2>1, <2>2, <3>2, <3>3 DEF CurrentLineOK
  <2>3. CASE lines # <<>>
    <3>1. FirstLine' = FirstLine
      BY <1>5, <2>1, <2>3 DEF FirstLine
    <3>2. ~LineRefused(FirstLine)'
      <4>1. LineRefused(FirstLine)' <=> LineRefused(FirstLine)
        BY <3>1, SameText
      <4> QED
        BY <1>2, <2>3, <4>1
    <3>3. header_line \in 2 .. n + 1 /\ msg'[header_line - 1] = "LF"
      BY <1>1, <1>2, <1>4, <2>3
    <3>4. /\ req'.method # None
          /\ result' # "header end" => req'.option
          /\ status' = "BODY_READ" \/ b # "LF"
      <4>1. req \in [option : BOOLEAN, method : Methods \cup {None},
                     uri : Seq(Tokens), version : Accepted \cup {None}]
        BY DEF TypeOK
      <4> QED
        BY <1>1, <1>2, <1>6, <2>3, <4>1 DEF WithinLine, EndHeader
    <3>5. NoLF(header_line, IF status = "BODY_READ" THEN Len(msg) - 1 ELSE Len(msg))'
      <4>1. CASE status' = "BODY_READ"
        BY <1>1, <1>2, <1>4, <2>1, <2>3, <4>1 DEF NoLF
      <4>2. CASE status' # "BODY_READ"
        <5>1. ASSUME NEW k \in header_line .. n + 1
              PROVE  msg'[k] # "LF"
          <6>1. k \in 1 .. n => msg[k] # "LF"
            BY <1>2, <1>4, <2>3, <5>1
          <6>2. k \in 1 .. n \/ k = n + 1
            BY <3>3, <5>1
          <6> QED
            BY <1>1, <3>4, <4>2, <6>1, <6>2
        <5> QED
          BY <1>1, <2>1, <4>2, <5>1 DEF NoLF
      <4> QED
        BY <4>1, <4>2
    <3>6. lines'[1][1] = 1 /\ lines'[1][2] <= Len(msg') /\ lines'[Len(lines')][2] < header_line'
      <4>1. Len(lines) \in Nat /\ Len(lines) # 0
        BY <1>3, <2>3, EmptySeq
      <4>2. lines[1][2] \in Nat
        BY <1>3, <4>1
      <4> QED
        BY <1>1, <1>2, <2>1, <2>3, <4>2
    <3>7. header_line' >= 2 /\ msg'[header_line' - 1] = "LF" /\ lines' # <<>>
      BY <2>1, <2>3, <3>3
    <3>8. (result = "refused" <=> LineRefused(FirstLine))'
      BY <2>1, <3>2
    <3> QED
      BY <3>4, <3>5, <3>6, <3>7, <3>8 DEF CurrentLineOK
  <2> QED
    BY <2>2, <2>3
<1>7. CASE RequestLine(b) \/ OptionLine(b)
  <2>1. status' = "ONE_LF" /\ b = "LF" /\ <<F, le>> \in Nat \X Nat
    BY <1>1, <1>2, <1>7 DEF RequestLine, OptionLine
  <2>2. /\ Len(lines') = Len(lines) + 1 /\ lines'[Len(lines) + 1] = <<F, le>>
        /\ \A k \in 1 .. Len(lines) : lines'[k] = lines[k]
        /\ lines' # <<>>
    <3>1. lines' = Append(lines, <<F, le>>)
      BY <1>2, <2>1
    <3> QED
      BY <1>3, <2>1, <3>1, AppendLine
  <2>3. lines'[Len(lines')][2] = le /\ le <= n + 1
    BY <1>2, <2>1, <2>2
  <2>4. header_line' = n + 2 => /\ header_line' >= 2 /\ msg'[header_line' - 1] = "LF"
                                /\ lines'[Len(lines')][2] < header_line'
                                /\ NoLF(header_line, Len(msg))'
    BY <1>1, <1>2, <2>1, <2>3 DEF NoLF
  <2>5. CASE RequestLine(b)
    <3>1. lines = <<>> /\ F = 1
      BY <1>2, <1>4, <2>5 DEF RequestLine
    <3>2. lines'[1] = <<1, le>>
      BY <2>2, <3>1
    <3> DEFINE text == SubSeq(msg, 1, le - 1)
    <3>3. FirstLine' = SubSeq(msg', 1, le - 1)
      <4>1. lines'[1][2] = le
        BY <3>2
      <4> QED
        BY <4>1 DEF FirstLine
    <3>4. SubSeq(msg', 1, le - 1) = text
      BY <1>1, <1>2, <1>3, <2>1, <3>1, SubSeqStays
    <3>5. LineRefused(FirstLine)' <=> LineRefused(text)
      <4>1. FirstLine' = text
        BY <3>3, <3>4
      <4> HIDE DEF text
      <4> QED
        BY <4>1 DEF LineRefused, HasMethod, UriTooLong, UriHas, BadVersion, VersionAt, UriEnd, UriAt, Scan
    <3>6. /\ req' \in AfterLogline(text)
          /\ LineRefused(text) => result' = "refused"
          /\ ~LineRefused(text) => header_line' = n + 2 /\ result' = "parsing"
      BY <1>e, <1>1, <2>5 DEF RequestLine, Position
    <3>7. ~LineRefused(text) => req'.method # None /\ req'.option
      <4>1. text \in Seq(Tokens)
        BY <1>2, <2>1, <3>1, TextTyped
      <4>2. None \notin Methods
        BY DEF None, Methods
      <4> QED
        BY <3>6, <4>1, <4>2, AfterLoglineTyped
    <3>8. lines'[1][1] = 1 /\ lines'[1][2] <= Len(msg')
      BY <1>1, <2>3, <3>2
    <3> HIDE DEF text
    <3> QED
      BY <2>1, <2>2, <2>4, <3>5, <3>6, <3>7, <3>8 DEF CurrentLineOK
  <2>6. CASE OptionLine(b)
    <3>1. lines # <<>>
      BY <1>2, <2>6 DEF OptionLine
    <3>2. header_line' = n + 2 /\ req' = req /\ result' = "parsing"
      BY <1>1, <2>6 DEF OptionLine, Position
    <3>3. Len(lines) \in Nat /\ Len(lines) # 0
      BY <1>3, <3>1, EmptySeq
    <3>4. lines'[1] = lines[1] /\ lines[1][2] \in Nat
      BY <1>3, <2>2, <3>3
    <3>5. FirstLine' = FirstLine
      BY <1>5, <3>1, <3>4 DEF FirstLine
    <3>6. ~LineRefused(FirstLine)'
      <4>1. LineRefused(FirstLine)' <=> LineRefused(FirstLine)
        BY <3>5, SameText
      <4> QED
        BY <1>2, <3>1, <4>1
    <3>7. lines'[1][1] = 1 /\ lines'[1][2] <= Len(msg')
      BY <1>1, <1>2, <3>1, <3>4
    <3> QED
      BY <1>2, <2>1, <2>2, <2>4, <3>1, <3>2, <3>6, <3>7 DEF CurrentLineOK
  <2> QED
    BY <1>7, <2>5, <2>6
<1> QED
  BY <1>6, <1>7 DEF Turn
-----------------------------------------------------------------------------
LEMMA InvInit ==
  ASSUME Init
  PROVE  IInv
<1>1. Len(msg) = 0 /\ msg = <<>> /\ lines = <<>> /\ Len(lines) = 0
  BY DEF Init
<1>2. TypeOK
  <2>1. msg \in Seq(Tokens) /\ lines \in Seq(Nat \X Nat) /\ req.uri \in Seq(Tokens)
    BY <1>1 DEF Init
  <2>2. req \in [option : BOOLEAN, method : Methods \cup {None},
                 uri : Seq(Tokens), version : Accepted \cup {None}]
    BY <2>1 DEF Init
  <2> QED
    <3>1. overrun \in BOOLEAN
      BY DEF Init
    <3>2. status \in Statuses /\ line_end \in 0 .. Len(msg) /\ header_line \in 0 .. Len(msg) + 1
      BY <1>1 DEF Init, Statuses
    <3>3. result \in {"parsing", "refused", "header end", "ran out", "fault"}
      BY DEF Init
    <3> QED
      BY <2>1, <2>2, <3>1, <3>2, <3>3 DEF TypeOK
<1>3. StatusOK
  BY <1>1 DEF Init, StatusOK
<1>4. EndsAtFirstEmptyLine
  BY <1>1 DEF Init, EndsAtFirstEmptyLine
<1>5. CurrentLineOK
  BY <1>1 DEF Init, CurrentLineOK, NoLF
<1>6. LinesAsSent
  BY <1>1 DEF LinesAsSent
<1> QED
  BY <1>2, <1>3, <1>4, <1>5, <1>6 DEF IInv

(* A step that reads nothing: the buffer ran out, the process ended after  *)
(* an overrun, or it stutters.                                             *)
NothingRead ==
  /\ UNCHANGED <<msg, status, line_end, header_line, req, lines, overrun>>
  /\ \/ result' = result
     \/ result = "parsing" /\ result' = "ran out"
     \/ result = "parsing" /\ overrun /\ result' = "fault"

LEMMA InvNothingRead ==
  ASSUME IInv, NothingRead
  PROVE  IInv'
<1>1. UNCHANGED msg /\ UNCHANGED status /\ UNCHANGED line_end /\ UNCHANGED header_line
      /\ UNCHANGED req /\ UNCHANGED lines /\ UNCHANGED overrun
  BY DEF NothingRead
<1>2. TypeOK'
  BY DEF IInv, TypeOK, NothingRead
<1>3. StatusOK'
  <2>1. \A a, z : AllCR(a, z)' <=> AllCR(a, z)
    BY <1>1 DEF AllCR
  <2>2. \A i : EmptyLineEnd(i)' <=> EmptyLineEnd(i)
    BY <1>1 DEF EmptyLineEnd
  <2>3. TextEnds' <=> TextEnds
    BY <1>1 DEF TextEnds
  <2>4. /\ result' = "refused" <=> result = "refused"
        /\ result' = "header end" <=> result = "header end"
    BY DEF NothingRead
  <2> QED
    BY <1>1, <2>1, <2>2, <2>3, <2>4 DEF IInv, StatusOK
<1>4. EndsAtFirstEmptyLine'
  <2>1. (result' = "header end") <=> (result = "header end")
    BY DEF NothingRead
  <2> QED
    BY <1>1, <2>1 DEF IInv, EndsAtFirstEmptyLine, EmptyLineEnd
<1>5. CurrentLineOK'
  <2>1. LineRefused(FirstLine)' <=> LineRefused(FirstLine)
    <3>1. FirstLine' = FirstLine
      BY <1>1 DEF FirstLine
    <3> QED
      BY <3>1, SameText
  <2>2. \A a, z : NoLF(a, z)' <=> NoLF(a, z)
    BY <1>1 DEF NoLF
  <2>3. CurrentLineOK
    BY DEF IInv
  <2>4. (result' = "refused" <=> result = "refused") /\ (result' = "header end" <=> result = "header end")
    BY DEF NothingRead
  <2>5. result \in {"parsing", "ran out"} /\ ~overrun => result' \in {"parsing", "ran out"}
    BY DEF NothingRead
  <2>6. CASE lines = <<>>
    <3>1. NoLF(1, Len(msg)) /\ ~req.option /\ ~overrun /\ result \in {"parsing", "ran out"}
      BY <2>3, <2>6 DEF CurrentLineOK
    <3>2. NoLF(1, Len(msg))' <=> NoLF(1, Len(msg))
      BY <1>1 DEF NoLF
    <3>3. result' \in {"parsing", "ran out"}
      BY <2>5, <3>1
    <3>4. lines' = <<>> /\ ~req'.option
      BY <1>1, <2>6, <3>1
    <3>5. ~overrun'
      <4>1. overrun' = overrun
        BY <1>1
      <4>2. ~overrun
        BY <3>1
      <4> QED
        BY <4>1, <4>2
    <3>6. NoLF(1, Len(msg))'
      BY <3>1, <3>2
    <3> QED
      BY <3>3, <3>4, <3>5, <3>6 DEF CurrentLineOK
  <2>7. CASE lines # <<>>
    BY <1>1, <2>1, <2>2, <2>3, <2>4, <2>7 DEF CurrentLineOK, NoLF
  <2> QED
    BY <2>6, <2>7
<1>6. LinesAsSent'
  <2>1. \A f, e : IsLine(f, e)' <=> IsLine(f, e)
    BY <1>1 DEF IsLine
  <2>2. LinesAsSent
    BY DEF IInv
  <2>3. ASSUME NEW n \in 1 .. Len(lines')
        PROVE  IsLine(lines[n][1], lines[n][2])'
    <3>1. PICK f, e : f = lines[n][1] /\ e = lines[n][2]
      OBVIOUS
    <3>2. IsLine(f, e)
      BY <1>1, <2>2, <3>1 DEF LinesAsSent
    <3>3. IsLine(f, e)' /\ lines'[n][1] = f /\ lines'[n][2] = e
      BY <1>1, <2>1, <3>1, <3>2
    <3> QED
      BY <3>3 DEF IsLine
  <2> QED
    BY <1>1, <2>1, <2>2, <2>3 DEF LinesAsSent
<1> QED
  BY <1>2, <1>3, <1>4, <1>5, <1>6 DEF IInv

LEMMA InvStep ==
  ASSUME IInv, [Next]_vars
  PROVE  IInv'
<1>1. CASE RunOut \/ Fault
  <2>1. NothingRead
    BY <1>1 DEF RunOut, Fault, NothingRead
  <2> QED
    BY <2>1, InvNothingRead
<1>2. CASE \E b \in Input : Turn(b)
  <2>1. PICK b \in Tokens : Turn(b)
    BY <1>2, InputIsToken
  <2>2. PICK n \in Nat : n = Len(msg)
    <3>1. msg \in Seq(Tokens)
      BY DEF IInv, TypeOK
    <3> QED
      BY <3>1
  <2>3. TypeOK /\ StatusOK /\ EndsAtFirstEmptyLine /\ CurrentLineOK /\ LinesAsSent
    BY DEF IInv
  <2>4. StatusOK'
    BY <2>1, <2>2, <2>3, StatusStep
  <2>5. TypeOK'
    BY <2>1, <2>2, <2>3, <2>4, TypeStep
  <2>6. EndsAtFirstEmptyLine'
    BY <2>1, <2>2, <2>3, EndsStep
  <2>7. CurrentLineOK'
    BY <2>1, <2>2, <2>3, <2>4, CurrentLineStep
  <2>8. LinesAsSent'
    BY <2>1, <2>2, <2>3, <2>4, LinesStep
  <2> QED
    BY <2>4, <2>5, <2>6, <2>7, <2>8 DEF IInv
<1>3. CASE UNCHANGED vars
  BY <1>3, InvNothingRead DEF vars, NothingRead
<1> QED
  BY <1>1, <1>2, <1>3 DEF Next, Turn

(* Theorem: the inductive invariant of header_parse (http_handler.c:128-226). *)
THEOREM InductiveInvariant == Spec => []IInv
<1>1. Init => IInv
  BY InvInit
<1>2. IInv /\ [Next]_vars => IInv'
  BY InvStep
<1> QED
  BY <1>1, <1>2, PTL DEF Spec

(* Theorem: a header of any length ends at its first empty line and nowhere *)
(* else, however CR and LF are mixed in it. *)
THEOREM HeaderEnds == Spec => []EndsAtFirstEmptyLine
<1>1. IInv => EndsAtFirstEmptyLine
  BY DEF IInv
<1> QED
  BY <1>1, InductiveInvariant, PTL

(* Theorem: the lines handed over are the lines of the message, in their   *)
(* order, each once and without its CRs. *)
THEOREM LinesOfMessage == Spec => []LinesAsSent
<1>1. IInv => LinesAsSent
  BY DEF IInv
<1> QED
  BY <1>1, InductiveInvariant, PTL

(* Theorem: process_header_end is called only after a request line of this *)
(* message was accepted. *)
THEOREM AnsweredOnlyAfterRequestLine == Spec => []AnsweredAfterRequestLine
<1>1. IInv => AnsweredAfterRequestLine
  BY DEF IInv, CurrentLineOK, AnsweredAfterRequestLine
<1> QED
  BY <1>1, InductiveInvariant, PTL
-----------------------------------------------------------------------------
(* The scans of process_logline find the URI of a line of the grammar, and *)
(* only there. *)
LEMMA Grammar ==
  ASSUME NEW line \in Seq(Tokens)
  PROVE  /\ \A u \in 3 .. Len(line) + 1 : \A e \in u .. Len(line) + 1 :
              Reads(line, u, e) => ~LineRefused(line)
         /\ ~LineRefused(line) => /\ UriAt(line) \in 3 .. Len(line) + 1
                                  /\ UriEnd(line) \in UriAt(line) .. Len(line) + 1
                                  /\ Reads(line, UriAt(line), UriEnd(line))
<1>n. PICK n \in Nat : n = Len(line)
  OBVIOUS
<1>t. \A k \in 1 .. n : line[k] \in Tokens
  BY <1>n, ElementOfSeq
<1>1. ASSUME n >= 2
      PROVE  /\ UriAt(line) \in 3 .. n + 1
             /\ UriAt(line) = n + 1 \/ line[UriAt(line)] # "SP"
             /\ \A k \in 3 .. UriAt(line) - 1 : line[k] = "SP"
             /\ UriEnd(line) \in UriAt(line) .. n + 1
             /\ UriEnd(line) = n + 1 \/ line[UriEnd(line)] = "SP"
             /\ \A k \in UriAt(line) .. UriEnd(line) - 1 : line[k] # "SP"
             /\ VersionAt(line) \in UriEnd(line) .. n + 1
             /\ VersionAt(line) = n + 1 \/ line[VersionAt(line)] # "SP"
             /\ \A k \in UriEnd(line) .. VersionAt(line) - 1 : line[k] = "SP"
  <2>1. /\ UriAt(line) \in 3 .. n + 1
        /\ UriAt(line) = n + 1 \/ line[UriAt(line)] \in Tokens \ {"SP"}
        /\ \A k \in 3 .. UriAt(line) - 1 : line[k] \notin Tokens \ {"SP"}
    <3>1. 3 \in 1 .. Len(line) + 1
      BY <1>n, <1>1
    <3> QED
      BY <1>n, <3>1, ScanStops DEF UriAt
  <2>2. /\ UriEnd(line) \in UriAt(line) .. n + 1
        /\ UriEnd(line) = n + 1 \/ line[UriEnd(line)] \in {"SP"}
        /\ \A k \in UriAt(line) .. UriEnd(line) - 1 : line[k] \notin {"SP"}
    <3>1. UriAt(line) \in 1 .. Len(line) + 1
      BY <1>n, <2>1
    <3> QED
      BY <1>n, <3>1, ScanStops DEF UriEnd
  <2>3. /\ VersionAt(line) \in UriEnd(line) .. n + 1
        /\ VersionAt(line) = n + 1 \/ line[VersionAt(line)] \in Tokens \ {"SP"}
        /\ \A k \in UriEnd(line) .. VersionAt(line) - 1 : line[k] \notin Tokens \ {"SP"}
    <3>1. UriEnd(line) \in 1 .. Len(line) + 1
      BY <1>n, <2>1, <2>2
    <3> QED
      BY <1>n, <3>1, ScanStops DEF VersionAt
  <2>4. \A k \in 3 .. UriAt(line) - 1 : line[k] = "SP"
    <3>1. \A k \in 3 .. UriAt(line) - 1 : k \in 1 .. n
      BY <2>1
    <3> QED
      BY <1>t, <2>1, <3>1
  <2>5. \A k \in UriEnd(line) .. VersionAt(line) - 1 : line[k] = "SP"
    <3>1. \A k \in UriEnd(line) .. VersionAt(line) - 1 : k \in 1 .. n
      BY <2>1, <2>2, <2>3
    <3> QED
      BY <1>t, <2>3, <3>1
  <2> QED
    BY <2>1, <2>2, <2>3, <2>4, <2>5
<1>a. PICK a : a = UriAt(line)
  OBVIOUS
<1>z. PICK z : z = UriEnd(line)
  OBVIOUS
<1>v. PICK w : w = VersionAt(line)
  OBVIOUS
<1>2. ASSUME ~LineRefused(line)
      PROVE  a \in 3 .. n + 1 /\ z \in a .. n + 1 /\ Reads(line, a, z)
  <2>1. /\ n >= 2 /\ line[1] \in Methods /\ line[2] = "SP"
        /\ \A k \in a .. z - 1 : line[k] # "long"
        /\ z <= n => w <= n /\ line[w] \in Accepted
    <3>1. HasMethod(line) /\ ~UriTooLong(line) /\ ~BadVersion(line)
      BY <1>2 DEF LineRefused
    <3>2. n >= 2 /\ line[1] \in Methods /\ line[2] = "SP"
      BY <1>n, <3>1 DEF HasMethod
    <3>3. \A k \in a .. z - 1 : line[k] # "long"
      BY <1>a, <1>z, <3>1 DEF UriTooLong, UriHas
    <3>4. z <= n => ~(w > n) /\ line[w] \in Accepted
      BY <1>n, <1>z, <1>v, <3>1 DEF BadVersion
    <3>5. w \in Nat /\ z \in Nat
      BY <1>1, <1>z, <1>v, <3>2
    <3> QED
      BY <3>2, <3>3, <3>4, <3>5
  <2>2. /\ a \in 3 .. n + 1 /\ (a = n + 1 \/ line[a] # "SP")
        /\ \A k \in 3 .. a - 1 : line[k] = "SP"
        /\ z \in a .. n + 1 /\ (z = n + 1 \/ line[z] = "SP")
        /\ \A k \in a .. z - 1 : line[k] # "SP"
        /\ w \in z .. n + 1 /\ (w = n + 1 \/ line[w] # "SP")
        /\ \A k \in z .. w - 1 : line[k] = "SP"
    BY <1>1, <1>a, <1>z, <1>v, <2>1
  <2>3. \A k \in 2 .. a - 1 : line[k] = "SP"
    BY <2>1, <2>2
  <2>4. ASSUME z # n + 1
        PROVE  a < z /\ \E v \in z + 1 .. n : line[v] \in Accepted /\ \A k \in z .. v - 1 : line[k] = "SP"
    <3>1. z <= n /\ line[z] = "SP" /\ a # z
      BY <2>2, <2>4
    <3>2. w <= n /\ line[w] \in Accepted /\ w # z
      BY <2>1, <2>2, <3>1
    <3>3. w \in z + 1 .. n
      BY <2>2, <3>2
    <3>4. a < z
      BY <2>2, <3>1
    <3> QED
      BY <2>2, <3>2, <3>3, <3>4
  <2>5. a >= 3 /\ \A k \in a .. z - 1 : line[k] \notin {"SP", "long"}
    BY <2>1, <2>2
  <2> QED
    BY <1>n, <2>1, <2>2, <2>3, <2>4, <2>5 DEF Reads
<1>3. ASSUME NEW u \in 3 .. n + 1, NEW e \in u .. n + 1, Reads(line, u, e)
      PROVE  ~LineRefused(line)
  <2>1. /\ line[1] \in Methods
        /\ \A k \in 2 .. u - 1 : line[k] = "SP"
        /\ \A k \in u .. e - 1 : line[k] # "SP" /\ line[k] # "long"
        /\ \/ e = n + 1
           \/ /\ u < e
              /\ \E v \in e + 1 .. n : line[v] \in Accepted /\ \A k \in e .. v - 1 : line[k] = "SP"
    BY <1>n, <1>3 DEF Reads
  <2>2. n >= 2 /\ line[2] = "SP"
    BY <2>1
  <2>3. /\ a \in 3 .. n + 1 /\ (a = n + 1 \/ line[a] # "SP")
        /\ \A k \in 3 .. a - 1 : line[k] = "SP"
        /\ z \in a .. n + 1 /\ (z = n + 1 \/ line[z] = "SP")
        /\ \A k \in a .. z - 1 : line[k] # "SP"
        /\ w \in z .. n + 1 /\ (w = n + 1 \/ line[w] # "SP")
        /\ \A k \in z .. w - 1 : line[k] = "SP"
    BY <1>1, <1>a, <1>z, <1>v, <2>2
  <2>4. a = u
    <3>1. ~(a < u)
      BY <2>1, <2>3
    <3>2. ~(u < a)
      <4>1. SUFFICES ASSUME u < a PROVE FALSE
        OBVIOUS
      <4>2. line[u] = "SP" /\ u <= n
        BY <2>3, <4>1
      <4>3. u < e
        BY <2>1, <4>2
      <4> QED
        BY <2>1, <4>2, <4>3
    <3> QED
      BY <2>3, <3>1, <3>2
  <2>5. z = e
    <3>1. ~(z < e)
      BY <2>1, <2>3, <2>4
    <3>2. ~(e < z)
      <4>1. SUFFICES ASSUME e < z PROVE FALSE
        OBVIOUS
      <4>2. e # n + 1
        BY <2>3, <4>1
      <4>3. line[e] = "SP"
        BY <2>1, <4>2
      <4> QED
        BY <2>3, <2>4, <4>1, <4>3
    <3> QED
      BY <2>3, <3>1, <3>2
  <2>6. z <= n => w <= n /\ line[w] \in Accepted
    <3>1. SUFFICES ASSUME z <= n PROVE w <= n /\ line[w] \in Accepted
      OBVIOUS
    <3>2. PICK v \in e + 1 .. n : line[v] \in Accepted /\ \A k \in e .. v - 1 : line[k] = "SP"
      BY <2>1, <2>5, <3>1
    <3>3. line[v] # "SP"
      BY <3>2 DEF Accepted
    <3>4. ~(w < v)
      BY <2>3, <2>5, <3>2
    <3>5. ~(v < w)
      BY <2>3, <2>5, <3>2, <3>3
    <3>6. w = v
      BY <2>3, <3>2, <3>4, <3>5
    <3> QED
      BY <3>2, <3>6
  <2>7. HasMethod(line)
    BY <1>n, <2>1, <2>2 DEF HasMethod
  <2>8. ~UriTooLong(line)
    BY <1>a, <1>z, <2>1, <2>4, <2>5 DEF UriTooLong, UriHas
  <2>9. ~BadVersion(line)
    <3>1. z <= n => ~(w > n)
      BY <2>3, <2>6
    <3> QED
      BY <1>n, <1>z, <1>v, <2>6, <3>1 DEF BadVersion
  <2> QED
    BY <2>7, <2>8, <2>9 DEF LineRefused
<1> QED
  BY <1>n, <1>a, <1>z, <1>2, <1>3

(* What was taken out of the request line. *)
RequestOK ==
  lines # <<>> /\ result # "refused" =>
    /\ req.method = FirstLine[1]
    /\ UriHas(FirstLine, "wide") => overrun
    /\ UriHas(FirstLine, "wide") \/
         req.uri = SubSeq(FirstLine, UriAt(FirstLine), UriEnd(FirstLine) - 1)

LEMMA RequestStep ==
  ASSUME IInv, IInv', RequestOK, [Next]_vars
  PROVE  RequestOK'
<1>1. \A x : x = FirstLine /\ x = FirstLine' =>
        /\ UriAt(FirstLine)' = UriAt(x) /\ UriEnd(FirstLine)' = UriEnd(x)
        /\ UriHas(FirstLine, "wide")' <=> UriHas(x, "wide")
  BY DEF UriHas, UriEnd, UriAt, Scan
<1>2. ASSUME UNCHANGED <<req, lines>>, overrun => overrun', lines # <<>> => FirstLine' = FirstLine,
             result = "refused" => result' = "refused"
      PROVE  RequestOK'
  BY <1>1, <1>2 DEF RequestOK
<1>3. CASE RunOut \/ Fault
  <2>1. UNCHANGED <<msg, req, lines, overrun>> /\ result # "refused"
    BY <1>3 DEF RunOut, Fault
  <2> QED
    BY <1>2, <2>1 DEF FirstLine
<1>4. CASE UNCHANGED vars
  <2>1. UNCHANGED <<msg, req, lines, overrun>> /\ result' = result
    BY <1>4 DEF vars
  <2> QED
    BY <1>2, <2>1 DEF FirstLine
<1>5. CASE \E b \in Input : Turn(b)
  <2>1. PICK b \in Tokens : Turn(b)
    BY <1>5, InputIsToken
  <2>2. PICK n \in Nat : n = Len(msg)
    <3>1. msg \in Seq(Tokens)
      BY DEF IInv, TypeOK
    <3> QED
      BY <3>1
  <2>f. PICK F : F = IF lines = <<>> THEN 1 ELSE header_line
    OBVIOUS
  <2>e. PICK le : le = line_end'
    OBVIOUS
  <2>3. TypeOK /\ StatusOK /\ StatusOK' /\ CurrentLineOK
    BY DEF IInv
  <2>4. /\ Len(msg') = n + 1 /\ msg' \in Seq(Tokens)
        /\ \A k \in 1 .. n : msg'[k] = msg[k]
        /\ result = "parsing"
    BY <2>1, <2>2, <2>3, TurnFacts
  <2>5. /\ F \in 1 .. n + 1
        /\ lines # <<>> => lines[1][2] <= n /\ req.option
        /\ status' = "ONE_LF" => lines' = Append(lines, <<F, le>>) /\ le \in F .. n + 1
        /\ status' # "ONE_LF" => lines' = lines
    BY <2>1, <2>2, <2>3, <2>f, <2>e, LineFacts
  <2>6. lines \in Seq(Nat \X Nat) /\ msg \in Seq(Tokens)
    BY <2>3 DEF TypeOK
  <2>7. lines # <<>> => FirstLine' = FirstLine
    <3>1. SUFFICES ASSUME lines # <<>> PROVE FirstLine' = FirstLine
      OBVIOUS
    <3>2. Len(lines) \in Nat /\ Len(lines) # 0
      BY <2>6, <3>1, EmptySeq
    <3>3. lines'[1] = lines[1]
      <4>1. CASE status' = "ONE_LF"
        <5>1. <<F, le>> \in Nat \X Nat
          BY <2>5, <4>1
        <5>2. lines' = Append(lines, <<F, le>>)
          BY <2>5, <4>1
        <5>3. 1 \in 1 .. Len(lines)
          BY <3>2
        <5> QED
          BY <2>6, <5>1, <5>2, <5>3, AppendLine
      <4>2. CASE status' # "ONE_LF"
        BY <2>5, <4>2
      <4> QED
        BY <4>1, <4>2
    <3>4. lines[1][2] \in Nat /\ lines[1][2] <= n
      BY <2>5, <2>6, <3>1, <3>2
    <3>5. SubSeq(msg', 1, lines[1][2] - 1) = SubSeq(msg, 1, lines[1][2] - 1)
      <4>1. CASE lines[1][2] = 0
        BY <4>1, SubSeqEmpty
      <4>2. CASE lines[1][2] # 0
        <5>1. lines[1][2] - 1 \in 0 .. n
          BY <3>4, <4>2
        <5> QED
          BY <2>2, <2>4, <2>6, <5>1, SubSeqStays
      <4> QED
        BY <4>1, <4>2
    <3> QED
      BY <3>3, <3>5 DEF FirstLine
  <2>8. CASE WithinLine(b) \/ OptionLine(b)
    <3>1. req' = req /\ (lines = <<>> => lines' = lines)
      BY <2>3, <2>8 DEF WithinLine, OptionLine, CurrentLineOK
    <3>2. overrun => overrun'
      BY <2>8 DEF WithinLine, OptionLine
    <3> QED
      BY <1>1, <2>4, <2>7, <3>1, <3>2 DEF RequestOK
  <2>9. CASE EndHeader(b)
    <3>1. lines' = lines /\ req' = [req EXCEPT !.option = FALSE] /\ overrun' = overrun
      BY <2>9 DEF EndHeader
    <3>2. req'.method = req.method /\ req'.uri = req.uri
      BY <2>3, <3>1 DEF TypeOK
    <3> QED
      BY <1>1, <2>4, <2>7, <3>1, <3>2 DEF RequestOK
  <2>10. CASE RequestLine(b)
    <3> DEFINE text == SubSeq(msg, 1, le - 1)
    <3>1. lines = <<>> /\ F = 1
      BY <2>f, <2>5, <2>10 DEF RequestLine
    <3>2. req' \in AfterLogline(text) /\ (LineRefused(text) => result' = "refused")
          /\ status' = "ONE_LF" /\ overrun' = UriOverruns(text)
      BY <2>e, <2>10 DEF RequestLine
    <3>3. lines'[1] = <<1, le>>
      <4>1. <<F, le>> \in Nat \X Nat
        BY <2>5, <3>2
      <4>2. Len(lines) = 0
        BY <3>1
      <4> QED
        BY <2>5, <2>6, <3>1, <3>2, <4>1, <4>2, AppendLine
    <3>4. SubSeq(msg', 1, le - 1) = text
      BY <2>2, <2>4, <2>5, <2>6, <3>1, <3>2, SubSeqStays
    <3>5. FirstLine' = text
      <4>1. lines'[1][2] = le
        BY <3>3
      <4> QED
        BY <3>4, <4>1 DEF FirstLine
    <3>t. text \in Seq(Tokens)
      BY <2>2, <2>5, <2>6, <3>1, <3>2, TextTyped
    <3> HIDE DEF text
    <3>6. ASSUME ~LineRefused(text)
          PROVE  /\ req'.method = text[1]
                 /\ UriHas(text, "wide") => overrun'
                 /\ UriHas(text, "wide") \/
                      req'.uri = SubSeq(text, UriAt(text), UriEnd(text) - 1)
      <4>1. HasMethod(text) /\ ~UriTooLong(text)
        BY <3>6 DEF LineRefused
      <4>2. /\ ProcessLogline(text).method = text[1]
            /\ ProcessLogline(text).uri = SubSeq(text, UriAt(text), UriEnd(text) - 1)
        BY <4>1 DEF ProcessLogline
      <4>3. text \in Seq(Tokens)
        BY <3>t
      <4>4. req'.method = text[1] /\ (~UriOverruns(text) => req' = ProcessLogline(text))
        BY <2>3, <3>2, <4>2, <4>3, AfterLoglineTyped
      <4>5. UriOverruns(text) <=> UriHas(text, "wide")
        BY <4>1 DEF UriOverruns
      <4>6. UriHas(text, "wide") => overrun'
        BY <3>2, <4>5
      <4> QED
        BY <4>2, <4>4, <4>5, <4>6
    <3>7. /\ UriAt(FirstLine)' = UriAt(text) /\ UriEnd(FirstLine)' = UriEnd(text)
          /\ UriHas(FirstLine, "wide")' <=> UriHas(text, "wide")
      BY <3>5 DEF UriHas, UriEnd, UriAt, Scan
    <3> QED
      BY <3>2, <3>5, <3>6, <3>7 DEF RequestOK
  <2> QED
    BY <2>1, <2>8, <2>9, <2>10 DEF Turn
<1> QED
  BY <1>3, <1>4, <1>5 DEF Next, Turn

(* Theorem: process_logline accepts exactly the request lines of the       *)
(* grammar, and takes their method and their URI when it fits its buffer;  *)
(* a longer one that is accepted has overrun it.  For lines of any length. *)
THEOREM RequestRead == Spec => []RequestLineRead
<1>1. Init => RequestOK
  BY DEF Init, RequestOK
<1>2. IInv /\ IInv' /\ RequestOK /\ [Next]_vars => RequestOK'
  BY RequestStep
<1>3. IInv /\ RequestOK => RequestLineRead
  <2>1. SUFFICES ASSUME IInv, RequestOK, lines # <<>>
                 PROVE  LET line == FirstLine IN
                   /\ (result = "refused") <=>
                        ~ \E u \in 3 .. Len(line) + 1 : \E e \in u .. Len(line) + 1 : Reads(line, u, e)
                   /\ result # "refused" =>
                        /\ req.method = line[1]
                        /\ \E u \in 3 .. Len(line) + 1 : \E e \in u .. Len(line) + 1 :
                             /\ Reads(line, u, e)
                             /\ IF Fits(line, u, e) THEN req.uri = SubSeq(line, u, e - 1)
                                ELSE overrun
    BY DEF RequestLineRead
  <2>2. FirstLine \in Seq(Tokens)
    <3>0. msg \in Seq(Tokens) /\ lines \in Seq(Nat \X Nat)
      BY <2>1 DEF IInv, TypeOK
    <3>1. msg \in Seq(Tokens) /\ lines \in Seq(Nat \X Nat) /\ Len(msg) \in Nat
      BY <3>0
    <3>2. lines[1][2] <= Len(msg)
      BY <2>1 DEF IInv, CurrentLineOK
    <3>3. lines[1][2] \in Nat
      BY <2>1, <3>1, EmptySeq
    <3>4. \A k \in 1 .. lines[1][2] - 1 : msg[k] \in Tokens
      BY <3>1, <3>2, <3>3, ElementOfSeq
    <3>5. 1 \in Int /\ lines[1][2] - 1 \in Int
      BY <3>3
    <3> QED
      BY <3>4, <3>5, SubSeqProperties DEF FirstLine
  <2>3. (result = "refused") <=> LineRefused(FirstLine)
    BY <2>1 DEF IInv, CurrentLineOK
  <2>4. PICK line \in Seq(Tokens) : line = FirstLine
    BY <2>2
  <2>5. /\ \A u \in 3 .. Len(line) + 1 : \A e \in u .. Len(line) + 1 :
             Reads(line, u, e) => ~LineRefused(line)
        /\ ~LineRefused(line) => /\ UriAt(line) \in 3 .. Len(line) + 1
                                 /\ UriEnd(line) \in UriAt(line) .. Len(line) + 1
                                 /\ Reads(line, UriAt(line), UriEnd(line))
    BY Grammar
  <2>6. ASSUME result # "refused"
        PROVE  /\ req.method = line[1]
               /\ \E u \in 3 .. Len(line) + 1 : \E e \in u .. Len(line) + 1 :
                    /\ Reads(line, u, e)
                    /\ IF Fits(line, u, e) THEN req.uri = SubSeq(line, u, e - 1) ELSE overrun
    <3> DEFINE a == UriAt(line)
               z == UriEnd(line)
    <3>1. /\ req.method = line[1]
          /\ UriHas(line, "wide") => overrun
          /\ UriHas(line, "wide") \/ req.uri = SubSeq(line, a, z - 1)
      BY <2>1, <2>4, <2>6 DEF RequestOK
    <3>2. Fits(line, a, z) <=> ~UriHas(line, "wide")
      BY DEF Fits, UriHas
    <3>3. IF Fits(line, a, z) THEN req.uri = SubSeq(line, a, z - 1) ELSE overrun
      BY <3>1, <3>2
    <3>4. a \in 3 .. Len(line) + 1 /\ z \in a .. Len(line) + 1 /\ Reads(line, a, z)
      BY <2>3, <2>4, <2>5, <2>6
    <3> HIDE DEF a, z
    <3> QED
      BY <3>1, <3>3, <3>4
  <2>7. (result = "refused") <=>
          ~ \E u \in 3 .. Len(line) + 1 : \E e \in u .. Len(line) + 1 : Reads(line, u, e)
    BY <2>3, <2>4, <2>5
  <2> QED
    BY <2>4, <2>6, <2>7
<1> QED
  BY <1>1, <1>2, <1>3, InductiveInvariant, PTL DEF Spec
=============================================================================
