---------------------------- MODULE StartupProofs ----------------------------
(***************************************************************************)
(* From the settings to the serving threads and processes: the precedence  *)
(* of the configuration's sources, for all settings, command lines,        *)
(* environments, files and saves of the editor; and the log, the 404 page  *)
(* and the descriptors of the servers that start with them, for all sets   *)
(* of servers and workers and all limits.                                  *)
(***************************************************************************)
EXTENDS Configuration, ServerStart, FiniteSetTheorems, WellFoundedInduction, TLAPS

(* The settings *)

\* A non-empty set of naturals has a least element.
LEMMA LeastBy ==
  ASSUME NEW R, IsWellFoundedOn(R, Nat), \A x, y \in Nat : <<y, x>> \in R <=> y < x,
         NEW S, S \subseteq Nat, S # {}
  PROVE  \E k \in S : \A j \in S : k <= j
<1>1. \E x \in S : \A y \in S : ~(<<y, x>> \in R) BY WFMin
<1>2. PICK x \in S : \A y \in S : ~(<<y, x>> \in R) BY <1>1
<1>3. \A y \in S : ~(y < x)
  <2>1. TAKE y \in S
  <2>2. ~(<<y, x>> \in R) BY <1>2
  <2>3. x \in Nat /\ y \in Nat OBVIOUS
  <2>4. <<y, x>> \in R <=> y < x BY <2>3
  <2> QED BY <2>2, <2>4
<1>4. \A y \in S : x \in Nat /\ y \in Nat OBVIOUS
<1>5. \A y \in S : x <= y BY <1>3, <1>4
<1> QED BY <1>5

LEMMA Least ==
  ASSUME NEW S, S \subseteq Nat, S # {}
  PROVE  \E k \in S : \A j \in S : k <= j
<1> DEFINE R == OpToRel(<, Nat)
<1>1. IsWellFoundedOn(R, Nat) BY NatLessThanWellFounded
<1>2. \A x, y \in Nat : <<y, x>> \in R <=> y < x BY DEF OpToRel
<1> HIDE DEF R
<1> QED BY <1>1, <1>2, LeastBy

LEMMA FirstIs ==
  ASSUME NEW S, S \subseteq Nat, NEW k \in S, \A j \in S : k <= j
  PROVE  First(S) = k
<1>1. \A i \in S : (\A j \in S : i <= j) => i = k OBVIOUS
<1> QED BY <1>1 DEF First

LEMMA LastIs ==
  ASSUME NEW S, S \subseteq Nat, NEW k \in S, \A j \in S : j <= k
  PROVE  Last(S) = k
<1>1. \A i \in S : (\A j \in S : j <= i) => i = k OBVIOUS
<1> QED BY <1>1 DEF Last

\* help and unknown are no settings, so an option that names one has a text.
LEMMA OptionText ==
  ASSUME NEW o \in Options, o.name \in Settings
  PROVE  o.text \in ArgTexts /\ o.text # Unset
<1>1. "help" \notin Settings /\ "unknown" \notin Settings
  BY ConfigurationAssumption DEF EnvironmentVariable
<1> QED BY <1>1, ConfigurationAssumption DEF Options, Texts

\* Before the first option nothing is said of a setting.
LEMMA NothingSaid == ASSUME NEW s \in Settings PROVE ArgValue(s, 0) = Unset
<1>1. {k \in 1..0 : argv[k].name = s} = {} OBVIOUS
<1> QED BY <1>1 DEF ArgValue

\* One more option: an integer is replaced, a string only set once.
LEMMA OneMoreOption ==
  ASSUME NEW s \in Settings, argv \in Seq(Options), NEW n \in Nat, n < Len(argv)
  PROVE  ArgValue(s, n + 1) =
           IF argv[n + 1].name # s THEN ArgValue(s, n)
           ELSE IF s \in IntSettings THEN Value(s, argv[n + 1].text)
           ELSE Assign(ArgValue(s, n), argv[n + 1].text)
<1> DEFINE U(m) == {k \in 1..m : argv[k].name = s}
<1>1. U(n + 1) = U(n) \cup {k \in {n + 1} : argv[k].name = s} OBVIOUS
<1>2. U(n) \subseteq 1..n /\ U(n) \subseteq Nat /\ U(n + 1) \subseteq Nat OBVIOUS
<1>3. CASE argv[n + 1].name # s
  <2>1. U(n + 1) = U(n) BY <1>1, <1>3
  <2> QED BY <2>1, <1>3 DEF ArgValue
<1>4. CASE argv[n + 1].name = s
  <2>1. U(n + 1) = U(n) \cup {n + 1} BY <1>1, <1>4
  <2>2. U(n + 1) # {} BY <2>1
  <2>3. CASE s \in IntSettings
    <3>1. \A j \in U(n + 1) : j <= n + 1 BY <2>1, <1>2
    <3> HIDE DEF U
    <3>2. Last(U(n + 1)) = n + 1 BY <1>2, <2>1, <3>1, LastIs
    <3> QED BY <3>2, <2>2, <2>3, <1>4 DEF ArgValue, U
  <2>4. CASE s \notin IntSettings /\ U(n) = {}
    <3>1. U(n + 1) = {n + 1} BY <2>1, <2>4
    <3>2. n + 1 \in U(n + 1) /\ \A j \in U(n + 1) : n + 1 <= j BY <3>1
    <3> HIDE DEF U
    <3>3. First(U(n + 1)) = n + 1 BY <1>2, <3>2, FirstIs
    <3>4. ArgValue(s, n + 1) = argv[n + 1].text BY <2>2, <2>4, <3>3 DEF ArgValue, U
    <3>5. ArgValue(s, n) = Unset BY <2>4 DEF ArgValue, U
    <3> QED BY <3>4, <3>5, <2>4, <1>4 DEF Assign
  <2>5. CASE s \notin IntSettings /\ U(n) # {}
    <3> HIDE DEF U
    <3>1. PICK k \in U(n) : \A j \in U(n) : k <= j BY <1>2, <2>5, Least
    <3>2. \A j \in U(n + 1) : k <= j BY <1>2, <2>1, <3>1
    <3>3. First(U(n)) = k /\ First(U(n + 1)) = k BY <1>2, <2>1, <3>1, <3>2, FirstIs
    <3>4. k \in 1..n /\ argv[k].name = s BY <3>1 DEF U
    <3>5. argv[k] \in Options BY <3>4
    <3>6. argv[k].text # Unset BY <3>4, <3>5, OptionText
    <3> QED BY <3>3, <3>6, <2>2, <2>5, <1>4 DEF ArgValue, Assign, U
  <2> QED BY <2>3, <2>4, <2>5
<1> QED BY <1>3, <1>4
-----------------------------------------------------------------------------
\* What the passes assign are values.
LEMMA ValueType ==
  /\ Unset \in Values
  /\ \A s \in Settings, x \in Texts \cup {Unset} : Value(s, x) \in Values
  /\ \A f \in Files \cup {Empty, Default}, s \in Settings : f[s] \in Values
<1>1. Unset \in Values BY DEF Values
<1>2. \A s \in Settings, x \in Texts \cup {Unset} : Value(s, x) \in Values
  BY DEF Values, Value
<1>3. \A f \in Files \cup {Default}, s \in Settings : f[s] \in Values BY DEF Values
<1>4. \A s \in Settings : Empty[s] \in Values BY <1>1 DEF Empty
<1> QED BY <1>1, <1>2, <1>3, <1>4

LEMMA TakeAllType ==
  ASSUME ReadTypeOK, NEW source, \A s \in Settings : source[s] \in Values, TakeAll(source)
  PROVE  fields' \in [Settings -> Values]
BY DEF ReadTypeOK, TakeAll, Assign

\* Nested assignments pick the first source.
LEMMA FirstOfFour ==
  ASSUME NEW a, NEW b, NEW c, NEW d, d # Unset
  PROVE  Assign(Assign(Assign(a, b), c), d) = FirstSource(<<a, b, c, d>>)
<1> DEFINE S == <<a, b, c, d>>
           Q(k) == S[k] # Unset /\ \A j \in 1..(k - 1) : S[j] = Unset
<1>1. DOMAIN S = 1..4 OBVIOUS
<1>2. \A k, l \in 1..4 : Q(k) /\ Q(l) => k = l
  <2> SUFFICES ASSUME NEW k \in 1..4, NEW l \in 1..4, Q(k), Q(l), k < l PROVE FALSE
    OBVIOUS
  <2>1. k \in 1..(l - 1) OBVIOUS
  <2> QED BY <2>1
<1>3. \A k \in 1..4 : Q(k) => FirstSource(S) = S[k]
  <2> TAKE k \in 1..4
  <2> HAVE Q(k)
  <2>1. (CHOOSE l \in DOMAIN S : Q(l)) = k
    <3> HIDE DEF Q, S
    <3> QED BY <1>1, <1>2
  <2> QED BY <2>1 DEF FirstSource
<1>4. S[1] = a /\ S[2] = b /\ S[3] = c /\ S[4] = d OBVIOUS
<1>5. CASE a # Unset
  <2>1. Q(1) BY <1>4, <1>5
  <2> QED BY <2>1, <1>3, <1>4, <1>5 DEF Assign
<1>6. CASE a = Unset /\ b # Unset
  <2>1. Q(2) BY <1>4, <1>6
  <2> QED BY <2>1, <1>3, <1>4, <1>6 DEF Assign
<1>7. CASE a = Unset /\ b = Unset /\ c # Unset
  <2>1. Q(3) BY <1>4, <1>7
  <2> QED BY <2>1, <1>3, <1>4, <1>7 DEF Assign
<1>8. CASE a = Unset /\ b = Unset /\ c = Unset
  <2>1. Q(4) BY <1>4, <1>8
  <2> QED BY <2>1, <1>3, <1>4, <1>8 DEF Assign
<1> QED BY <1>5, <1>6, <1>7, <1>8
-----------------------------------------------------------------------------
LEMMA Said ==
  ASSUME argv \in Seq(Options), NEW s \in Named, s \notin IntSettings
  PROVE  ArgValue(s, Len(argv)) # Unset
<1> DEFINE U == {k \in 1..Len(argv) : argv[k].name = s}
<1>1. U # {} /\ U \subseteq Nat BY DEF Named
<1> HIDE DEF U
<1>2. PICK k \in U : \A j \in U : k <= j BY <1>1, Least
<1>3. First(U) = k BY <1>1, <1>2, FirstIs
<1>4. k \in 1..Len(argv) /\ argv[k].name = s BY DEF U
<1>5. argv[k] \in Options /\ s \in Settings BY <1>4 DEF Named
<1>6. argv[k].text # Unset BY <1>4, <1>5, OptionText
<1> QED BY <1>1, <1>3, <1>6 DEF ArgValue, U

\* Without a 0 and another name the passes do what is documented.
LEMMA SameRule ==
  ASSUME ReadTypeOK, NEW s \in Settings, NEW f, ~GivesZero(s), ~OtherName(s)
  PROVE  AsRead(s, f) = Documented(s, f)
<1> DEFINE a == ArgValue(s, Len(argv))
           c == Value(s, env[EnvironmentVariable[s]])
<1>1. Default[s] # Unset BY ConfigurationAssumption
<1>2. AsRead(s, f) = Assign(Assign(Assign(a, f[s]), c), Default[s])
  BY <1>1, FirstOfFour DEF AsRead
<1>3. c = Value(s, env[DocumentedVariable[s]]) BY DEF OtherName
<1>4. s \in Named => a # Unset
  <2>1. CASE s \in IntSettings BY <2>1 DEF GivesZero
  <2>2. CASE s \notin IntSettings BY <2>2, Said DEF ReadTypeOK
  <2> QED BY <2>1, <2>2
<1>5. s \notin Named => a = Unset
  <2>1. s \notin Named => {k \in 1..Len(argv) : argv[k].name = s} = {} BY DEF Named
  <2> QED BY <2>1 DEF ArgValue
<1>6. (env[DocumentedVariable[s]] = Unset) <=> (c = Unset)
  <2>1. CASE s \in IntSettings BY <1>3, <2>1 DEF GivesZero, Value
  <2>2. CASE s \notin IntSettings BY <1>3, <2>2 DEF Value
  <2> QED BY <2>1, <2>2
<1> HIDE DEF a, c
<1>7. CASE s \in Named
  <2>1. Documented(s, f) = a BY <1>7 DEF Documented, a
  <2> QED BY <2>1, <1>7, <1>2, <1>4 DEF Assign
<1>8. CASE s \notin Named
  <2>1. Documented(s, f) = IF f[s] # Unset THEN f[s]
                           ELSE IF c # Unset THEN c ELSE Default[s]
    BY <1>8, <1>3, <1>6 DEF Documented
  <2> QED BY <2>1, <1>8, <1>2, <1>5 DEF Assign
<1> QED BY <1>7, <1>8
-----------------------------------------------------------------------------
LEMMA ReadInitHolds == ReadInit => ReadIInv
<1> SUFFICES ASSUME ReadInit PROVE ReadIInv OBVIOUS
<1>1. ReadTypeOK
  <2>1. PICK n \in 0..MaxOptions : argv \in [1..n -> Options] BY DEF ReadInit
  <2>2. n \in Nat BY ConfigurationAssumption
  <2>3. argv \in Seq(Options) /\ Len(argv) = n BY <2>1, <2>2
  <2>4. fields \in [Settings -> Values] BY ValueType DEF ReadInit
  <2>5. optind \in 1..(Len(argv) + 1) BY <2>3, <2>2 DEF ReadInit
  <2>6. versions \subseteq Files \cup {Empty} BY ConfigurationAssumption DEF ReadInit
  <2>7. file \in Files \cup {Empty, Absent, Broken} BY ConfigurationAssumption DEF ReadInit
  <2> QED BY <2>3, <2>4, <2>5, <2>6, <2>7 DEF ReadInit, ReadTypeOK
<1>2. FileOK BY ConfigurationAssumption DEF ReadInit, FileOK
<1>3. FieldsOK /\ Precedence
  <2>1. optind - 1 = 0 BY DEF ReadInit
  <2>2. \A s \in Settings : fields[s] = ArgValue(s, optind - 1)
    BY <2>1, NothingSaid DEF ReadInit
  <2> QED BY <2>2 DEF ReadInit, FieldsOK, Precedence
<1> QED BY <1>1, <1>2, <1>3 DEF ReadIInv

LEMMA OptionKeeps == ReadIInv /\ TakeOption => ReadIInv'
<1> SUFFICES ASSUME ReadIInv, TakeOption PROVE ReadIInv' OBVIOUS
<1> USE DEF ReadIInv, surroundings
<1> DEFINE o == argv[optind]
<1>1. optind \in 1..Len(argv) /\ o \in Options /\ o.name \in Settings
  BY DEF TakeOption, ReadTypeOK, Recognised
<1>2. o.text \in ArgTexts /\ o.text # Unset BY <1>1, OptionText
<1>3. ReadTypeOK'
  <2>1. Value(o.name, o.text) \in Values /\ o.text \in Values
    BY <1>1, <1>2, ValueType DEF Texts, Values
  <2>2. fields' \in [Settings -> Values] BY <2>1, <1>1 DEF TakeOption, ReadTypeOK, Assign
  <2>3. optind' \in 1..(Len(argv') + 1) BY <1>1 DEF TakeOption, ReadTypeOK
  <2> QED BY <2>2, <2>3 DEF TakeOption, ReadTypeOK
<1>4. FileOK' BY DEF TakeOption, FileOK
<1>5. \A s \in Settings : fields'[s] = ArgValue(s, optind)
  <2> TAKE s \in Settings
  <2> DEFINE n == optind - 1
  <2>1. n \in Nat /\ n < Len(argv) /\ n + 1 = optind BY <1>1 DEF ReadTypeOK
  <2>2. ArgValue(s, n + 1) =
           IF argv[n + 1].name # s THEN ArgValue(s, n)
           ELSE IF s \in IntSettings THEN Value(s, argv[n + 1].text)
           ELSE Assign(ArgValue(s, n), argv[n + 1].text)
    BY <2>1, OneMoreOption DEF ReadTypeOK
  <2>3. fields[s] = ArgValue(s, n) BY DEF FieldsOK, TakeOption
  <2> QED BY <2>1, <2>2, <2>3, <1>1 DEF TakeOption, ReadTypeOK
<1>6. FieldsOK' /\ Precedence'
  <2>1. optind' - 1 = optind BY <1>1 DEF TakeOption
  <2>2. \A s \in Settings : ArgValue(s, optind - 1)' = ArgValue(s, optind)
    BY <2>1 DEF ArgValue, TakeOption
  <2> QED BY <1>5, <2>2 DEF TakeOption, FieldsOK, Precedence
<1> QED BY <1>3, <1>4, <1>6

\* The steps that leave the fields alone.
LEMMA OtherPassesKeep ==
  ReadIInv /\ (Help \/ BadOption \/ EndOptions \/ Access \/ FileFails) => ReadIInv'
<1> SUFFICES ASSUME ReadIInv, Help \/ BadOption \/ EndOptions \/ Access \/ FileFails
             PROVE  ReadIInv'
  OBVIOUS
<1> USE DEF ReadIInv, surroundings, Step, Ended
<1>1. UNCHANGED <<optind, fields, argv, env, file, saving, versions, torn>>
  BY DEF Help, BadOption, EndOptions, Access, FileFails
<1>2. ReadTypeOK' BY <1>1 DEF ReadTypeOK, Help, BadOption, EndOptions, Access, FileFails
<1>3. FileOK' BY <1>1 DEF FileOK, Help, BadOption, EndOptions, Access, FileFails
<1>4. \A s \in Settings : ArgValue(s, Len(argv))' = ArgValue(s, Len(argv))
  BY <1>1 DEF ArgValue
<1>5. CASE Help \/ BadOption \/ FileFails
  BY <1>5, <1>2, <1>3 DEF Help, BadOption, FileFails, FieldsOK, Precedence
<1>6. CASE EndOptions
  <2>1. optind - 1 = Len(argv) BY <1>6 DEF EndOptions, ReadTypeOK
  <2>2. \A s \in Settings : fields[s] = ArgValue(s, Len(argv))
    BY <1>6, <2>1 DEF EndOptions, FieldsOK
  <2> QED BY <1>6, <2>2, <1>1, <1>2, <1>3, <1>4 DEF EndOptions, FieldsOK, Precedence
<1>7. CASE Access
  <2>1. \A s \in Settings : fields[s] = ArgValue(s, Len(argv))
    BY <1>7 DEF Access, FieldsOK
  <2>2. CASE file # Absent
    BY <1>7, <2>1, <2>2, <1>1, <1>2, <1>3, <1>4 DEF Access, FieldsOK, Precedence
  <2>3. CASE file = Absent
    <3>1. Empty \in Sources' BY <2>3, <1>7, <1>1 DEF FileOK, Access, Sources
    <3>2. \A s \in Settings : fields[s] = Assign(ArgValue(s, Len(argv)), Empty[s])
      BY <2>1 DEF Assign, Empty
    <3> QED BY <1>7, <3>1, <3>2, <2>3, <1>1, <1>2, <1>3, <1>4
            DEF Access, FieldsOK, Precedence
  <2> QED BY <2>2, <2>3
<1> QED BY <1>5, <1>6, <1>7

LEMMA FileKeeps == ReadIInv /\ TakeFile => ReadIInv'
<1> SUFFICES ASSUME ReadIInv, TakeFile PROVE ReadIInv' OBVIOUS
<1> USE DEF ReadIInv, surroundings, Step
<1>1. FileOK' BY DEF TakeFile, FileOK
<1>2. file \in Sources'
  <2>1. CASE saving = Absent
    <3>1. file \in versions /\ torn' = FALSE /\ versions' = versions
      BY <2>1 DEF FileOK, TakeFile
    <3> QED BY <3>1 DEF Sources
  <2>2. CASE saving # Absent
    <3>1. file = Empty /\ torn' = TRUE BY <2>2 DEF FileOK, TakeFile
    <3> QED BY <3>1 DEF Sources
  <2> QED BY <2>1, <2>2
<1>3. \A s \in Settings : file[s] \in Values
  BY ConfigurationAssumption, ValueType DEF ReadTypeOK, FileOK, TakeFile
<1>4. ReadTypeOK'
  <2>1. TakeAll(file) BY DEF TakeFile
  <2>2. fields' \in [Settings -> Values] BY <1>3, <2>1, TakeAllType
  <2>3. torn' \in BOOLEAN BY DEF TakeFile
  <2> QED BY <2>2, <2>3 DEF TakeFile, ReadTypeOK
<1>5. \A s \in Settings : ArgValue(s, Len(argv))' = ArgValue(s, Len(argv))
  BY DEF ArgValue, TakeFile
<1>6. \A s \in Settings : fields'[s] = Assign(ArgValue(s, Len(argv)), file[s])
  BY DEF TakeFile, TakeAll, FieldsOK
<1> QED BY <1>1, <1>2, <1>4, <1>5, <1>6 DEF TakeFile, FieldsOK, Precedence

LEMMA EnvironmentKeeps == ReadIInv /\ TakeEnvironment => ReadIInv'
<1> SUFFICES ASSUME ReadIInv, TakeEnvironment PROVE ReadIInv' OBVIOUS
<1> USE DEF ReadIInv, surroundings, Step
<1> DEFINE source == [s \in Settings |-> Value(s, env[EnvironmentVariable[s]])]
<1>1. FileOK' BY DEF TakeEnvironment, FileOK
<1>2. \A s \in Settings : source[s] \in Values
  BY ValueType DEF ReadTypeOK, Variables, Texts
<1>3. ReadTypeOK'
  <2>1. TakeAll(source) BY DEF TakeEnvironment
  <2>2. fields' \in [Settings -> Values]
    <3> HIDE DEF source
    <3> QED BY <1>2, <2>1, TakeAllType
  <2> QED BY <2>2 DEF TakeEnvironment, ReadTypeOK
<1>4. \A s \in Settings : ArgValue(s, Len(argv))' = ArgValue(s, Len(argv))
  BY DEF ArgValue, TakeEnvironment
<1>5. \E f \in Sources : \A s \in Settings :
        fields'[s] = Assign(Assign(ArgValue(s, Len(argv)), f[s]),
                            Value(s, env[EnvironmentVariable[s]]))
  BY DEF TakeEnvironment, TakeAll, FieldsOK
<1>6. Sources' = Sources /\ env' = env BY DEF TakeEnvironment, Sources
<1> QED BY <1>1, <1>3, <1>4, <1>5, <1>6 DEF TakeEnvironment, FieldsOK, Precedence

LEMMA DefaultsKeep == ReadIInv /\ TakeDefaults => ReadIInv'
<1> SUFFICES ASSUME ReadIInv, TakeDefaults PROVE ReadIInv' OBVIOUS
<1> USE DEF ReadIInv, surroundings, Step
<1>1. FileOK' BY DEF TakeDefaults, FileOK, Ended
<1>2. ReadTypeOK'
  <2>1. TakeAll(Default) BY DEF TakeDefaults
  <2>2. fields' \in [Settings -> Values] BY <2>1, ValueType, TakeAllType
  <2> QED BY <2>2 DEF TakeDefaults, ReadTypeOK, Ended
<1>3. FieldsOK' BY DEF TakeDefaults, FieldsOK
<1>4. Precedence'
  <2>1. PICK f \in Sources : \A s \in Settings :
          fields[s] = Assign(Assign(ArgValue(s, Len(argv)), f[s]),
                             Value(s, env[EnvironmentVariable[s]]))
    BY DEF TakeDefaults, FieldsOK
  <2>2. \A s \in Settings : fields'[s] = AsRead(s, f)
    <3> TAKE s \in Settings
    <3>1. Default[s] # Unset BY ConfigurationAssumption
    <3>2. fields'[s] = Assign(fields[s], Default[s]) BY DEF TakeDefaults, TakeAll
    <3> QED BY <2>1, <3>1, <3>2, FirstOfFour DEF AsRead
  <2>3. \A s \in Settings :
          fields'[s] = IF GivesZero(s) \/ OtherName(s) THEN AsRead(s, f)
                                                      ELSE Documented(s, f)
    BY <2>2, SameRule
  <2>4. \E g \in Sources : \A s \in Settings :
          fields'[s] = IF GivesZero(s) \/ OtherName(s) THEN AsRead(s, g)
                                                      ELSE Documented(s, g)
    BY <2>3
  <2>5. Sources' = Sources /\ argv' = argv /\ env' = env
    BY DEF TakeDefaults, Sources
  <2>6. \A s \in Settings :
          /\ GivesZero(s)' = GivesZero(s) /\ OtherName(s)' = OtherName(s)
          /\ \A g : /\ AsRead(s, g)' = AsRead(s, g)
                    /\ Documented(s, g)' = Documented(s, g)
    BY <2>5 DEF GivesZero, OtherName, AsRead, Documented, ArgValue, Named
  <2> QED BY <2>4, <2>5, <2>6 DEF Precedence
<1> QED BY <1>1, <1>2, <1>3, <1>4

LEMMA EditKeeps == ReadIInv /\ Edit => ReadIInv'
<1> SUFFICES ASSUME ReadIInv, Edit PROVE ReadIInv' OBVIOUS
<1> USE DEF ReadIInv
<1>1. UNCHANGED <<pass, optind, fields, argv, env, torn>> /\ Sources \subseteq Sources'
  BY DEF Edit, Truncate, Rewrite, Sources
<1>2. ReadTypeOK' BY DEF Edit, Truncate, Rewrite, ReadTypeOK
<1>3. FileOK' BY ConfigurationAssumption DEF Edit, Truncate, Rewrite, FileOK, ReadTypeOK
<1>4. \A s \in Settings : /\ ArgValue(s, Len(argv))' = ArgValue(s, Len(argv))
                          /\ ArgValue(s, optind - 1)' = ArgValue(s, optind - 1)
  BY <1>1 DEF ArgValue
<1>5. FieldsOK' BY <1>1, <1>4 DEF FieldsOK
<1>6. Precedence' BY DEF Edit, Ended, Truncate, Rewrite, Precedence
<1> QED BY <1>2, <1>3, <1>5, <1>6

\* The fields are at every step what the sources read so far say.
THEOREM SettingsInvariant == ReadSpec => []ReadIInv
<1>1. ReadInit => ReadIInv BY ReadInitHolds
<1>2. ReadIInv /\ [ReadNext]_readVars => ReadIInv'
  <2> SUFFICES ASSUME ReadIInv, [ReadNext]_readVars PROVE ReadIInv' OBVIOUS
  <2>1. CASE UNCHANGED readVars
    <3> USE <2>1 DEF ReadIInv, readVars, surroundings
    <3>1. ReadTypeOK' /\ FileOK' BY DEF ReadTypeOK, FileOK
    <3>2. \A s \in Settings : /\ ArgValue(s, Len(argv))' = ArgValue(s, Len(argv))
                              /\ ArgValue(s, optind - 1)' = ArgValue(s, optind - 1)
      BY DEF ArgValue
    <3>3. FieldsOK' BY <3>2 DEF FieldsOK, Sources
    <3>4. \A s \in Settings :
            /\ GivesZero(s)' = GivesZero(s) /\ OtherName(s)' = OtherName(s)
            /\ \A f : /\ AsRead(s, f)' = AsRead(s, f)
                      /\ Documented(s, f)' = Documented(s, f)
      BY DEF GivesZero, OtherName, AsRead, Documented, ArgValue, Named
    <3>5. Precedence' BY <3>4 DEF Precedence, Sources
    <3> QED BY <3>1, <3>3, <3>5
  <2>2. CASE Edit BY <2>2, EditKeeps
  <2>3. CASE ReadConfiguration
    BY <2>3, OptionKeeps, OtherPassesKeep, FileKeeps, EnvironmentKeeps, DefaultsKeep
    DEF ReadConfiguration
  <2> QED BY <2>1, <2>2, <2>3 DEF ReadNext
<1> QED BY <1>1, <1>2, PTL DEF ReadSpec

\* Every variable keeps its type.
THEOREM SettingsTyped == ReadSpec => []ReadTypeOK
<1>1. ReadIInv => ReadTypeOK BY DEF ReadIInv
<1> QED BY <1>1, SettingsInvariant, PTL

\* The server starts with the documented settings, those of config.cfg from one
\* version of it, but for a 0, another variable's name and a file being saved.
THEOREM SourcesInOrder == ReadSpec => []Precedence
<1>1. ReadIInv => Precedence BY DEF ReadIInv
<1> QED BY <1>1, SettingsInvariant, PTL
-----------------------------------------------------------------------------
(* Starting and logging *)
LEMMA PowerType == 2 ^ Width \in Nat \ {0}
<1>1. Width \in Nat BY SizesAssumption
<1> DEFINE S == 1 .. Width
<1>2. IsFiniteSet(S) /\ Cardinality(S) = Width BY <1>1, FS_Interval
<1>3. IsFiniteSet(SUBSET S) /\ Cardinality(SUBSET S) = 2 ^ Width BY <1>2, FS_SUBSET
<1>4. SUBSET S # {} OBVIOUS
<1>5. Cardinality(SUBSET S) \in Nat /\ Cardinality(SUBSET S) # 0
  <2> HIDE DEF S
  <2> QED BY <1>3, <1>4, FS_CardinalityType, FS_EmptySet
<1> QED BY <1>3, <1>5

\* A server's configuration, and its workers.
LEMMA SetupType ==
  ASSUME config \in Setups, NEW s \in Servers
  PROVE  /\ config[s].launched \in BOOLEAN
         /\ config[s].mode \in {"threads", "processes", "other"}
         /\ config[s].team \subseteq Workers
         /\ \A r \in Servers \ {s} : config[r].team \cap config[s].team = {}
<1>1. config \in [Servers -> Setup] BY SetupsAssumption
<1>2. config[s] \in Setup BY <1>1
<1> QED BY <1>2, SetupsAssumption DEF Setup

\* A process has the name of the actor that it began with.
LEMMA ProcessOf ==
  ASSUME config \in Setups
  PROVE  /\ \A s \in Servers : Process(s) = s
         /\ \A s \in Servers, a \in Actors : ThreadOf(a, s) => Process(a) = s
         /\ \A a \in Actors : (\A s \in Servers : ~ThreadOf(a, s)) => Process(a) = a
         /\ \A a \in Actors : Process(a) \in Actors
         /\ \A a \in Actors : Process(a) = a \/ (\E s \in Servers : ThreadOf(a, s) /\ Process(a) = s)
<1>1. \A r, s \in Servers, a \in Actors : ThreadOf(a, s) /\ ThreadOf(a, r) => r = s
  BY SetupType DEF ThreadOf
<1>2. \A s \in Servers, a \in Actors : ThreadOf(a, s) => Process(a) = s
  <2> TAKE s \in Servers, a \in Actors
  <2> HAVE ThreadOf(a, s)
  <2> HIDE DEF ThreadOf
  <2> QED BY <1>1 DEF Process
<1>3. \A a \in Actors : (\A s \in Servers : ~ThreadOf(a, s)) => Process(a) = a
  BY DEF Process
<1>4. \A s \in Servers : Process(s) = s
  BY <1>3, SetupType, ActorsAssumption DEF Actors, ThreadOf
<1>5. \A a \in Actors : Process(a) \in Actors
  BY <1>2, <1>3 DEF Actors
<1>6. \A a \in Actors : Process(a) = a \/ (\E s \in Servers : ThreadOf(a, s) /\ Process(a) = s)
  <2> HIDE DEF ThreadOf
  <2> QED BY <1>2, <1>3
<1> QED BY <1>2, <1>3, <1>4, <1>5, <1>6

LEMMA OwnProcess ==
  ASSUME config \in Setups, NEW v \in Actors, NEW w \in Workers, Process(v) = w
  PROVE  v = w
BY ProcessOf, ActorsAssumption

Acts(a) == Proceed(a) \/ (a \in Workers /\ Serve(a))

LEMMA NextActs == ASSUME Next PROVE \E a \in Actors : Acts(a)
BY DEF Next, Acts, Actors

\* Everything an actor can do.
LEMMA Cases ==
  ASSUME NEW a \in Actors, Acts(a)
  PROVE  \/ OpenLog(a) \/ OpenFails(a) \/ CreatLog(a) \/ CreatFails(a)
         \/ WriteTime(a) \/ WriteText(a) \/ DropEntry(a)
         \/ Open404(a) \/ Read404(a)
         \/ a \in Servers /\ (Listen(a) \/ CheckFails(a) \/ CreateThread(a))
         \/ ForkChild(a) \/ StartFails(a) \/ EndSpawn(a)
         \/ a \in Workers /\ StoreLog(a)
         \/ a \in Workers /\ (Accept(a) \/ LogRequest(a) \/ GiveUp(a) \/ Answer(a) \/ Die(a))
BY DEF Acts, Proceed, Log, Main, Start, Serve

LEMMA SetupKept == ASSUME NEW a \in Actors, Acts(a) PROVE UNCHANGED setup
BY Cases DEF OpenLog, OpenFails, CreatLog, CreatFails, WriteTime, WriteText, DropEntry,
  Open404, Read404, Listen, CheckFails, CreateThread, ForkChild, StartFails, EndSpawn,
  StoreLog, LogRequest, Accept, GiveUp, Answer, Die

LEMMA Frame ==
  ASSUME UNCHANGED setup
  PROVE  /\ \A a \in Actors : Process(a)' = Process(a)
         /\ AllEnough' = AllEnough
         /\ Orderly' => failures' = 0 /\ AllEnough
         /\ Orderly' /\ failures = 0 => Orderly
<1>1. config' = config /\ limit' = limit /\ existed' = existed BY DEF setup
<1>2. \A a \in Actors : Process(a)' = Process(a) BY <1>1 DEF Process, ThreadOf
<1>3. \A s \in Servers : Enough(s)' = Enough(s) BY <1>1 DEF Enough
<1>4. \A s \in Servers : Alone(s)' = Alone(s) BY <1>1 DEF Alone
<1>5. AllEnough' = AllEnough BY <1>3 DEF AllEnough
<1> QED BY <1>1, <1>2, <1>4, <1>5 DEF Orderly

\* Failures are counted, and only add up.
LEMMA FailureSteps ==
  ASSUME TypeOK, NEW a \in Actors, Acts(a)
  PROVE  /\ failures' \in 0 .. MaxFailures
         /\ failures' = 0 => failures = 0
         /\ failures' = failures \/ failures' = failures + 1
<1>1. /\ failures \in 0 .. MaxFailures /\ mayFail \in 0 .. MaxFailures
      /\ MaxFailures \in Nat
  BY SizesAssumption DEF TypeOK
<1> DEFINE More == failures < mayFail /\ failures' = failures + 1
<1>2. failures' = failures \/ More
  <2>1. CASE OpenFails(a) \/ CreatFails(a) BY <2>1 DEF OpenFails, CreatFails, Fail
  <2>2. CASE WriteTime(a) \/ WriteText(a) BY <2>2 DEF WriteTime, WriteText, Write
  <2>3. CASE OpenLog(a) \/ CreatLog(a) \/ DropEntry(a) \/ Open404(a) \/ Read404(a)
    BY <2>3 DEF OpenLog, CreatLog, DropEntry, Open404, Read404, files
  <2>4. CASE Listen(a) \/ CheckFails(a) \/ CreateThread(a) \/ ForkChild(a) \/ StartFails(a)
             \/ EndSpawn(a)
    BY <2>4 DEF Listen, CheckFails, CreateThread, ForkChild, StartFails, EndSpawn, files
  <2>5. CASE StoreLog(a) \/ LogRequest(a) \/ Accept(a) \/ GiveUp(a) \/ Answer(a) \/ Die(a)
    BY <2>5 DEF StoreLog, LogRequest, Accept, GiveUp, Answer, Die, files
  <2> HIDE DEF More
  <2> QED BY <2>1, <2>2, <2>3, <2>4, <2>5, Cases
<1>3. CASE failures' = failures BY <1>1, <1>3
<1>4. CASE More BY <1>1, <1>4
<1> QED BY <1>2, <1>3, <1>4

\* A log that is in order after a step has been in order before it.
LEMMA OrderlyBack ==
  ASSUME TypeOK, NEW a \in Actors, Acts(a), Orderly'
  PROVE  Orderly /\ AllEnough /\ failures = 0 /\ failures' = 0
<1>1. UNCHANGED setup BY SetupKept
<1>2. failures' = 0 /\ AllEnough BY <1>1, Frame
<1>3. failures = 0 BY <1>2, FailureSteps
<1> QED BY <1>1, <1>2, <1>3, Frame
-----------------------------------------------------------------------------
(* Steps *)
ServerStep(l, m) ==
  \/ l = "open log" /\ m \in {"creat log", "time"}
  \/ l = "creat log" /\ m = "time"
  \/ l = "time" /\ m \in {"text", "open 404"}
  \/ l = "text" /\ m = "open 404"
  \/ l = "open 404" /\ m = "read 404"
  \/ l = "read 404" /\ m \in {"read 404", "socket"}
  \/ l = "socket" /\ m \in {"spawn", "ended"}
  \/ l = "spawn" /\ m \in {"spawn", "run"}
WorkerStep(l, m) ==
  \/ l = "open 404" /\ m = "read 404"
  \/ l = "read 404" /\ m \in {"read 404", "open log"}
  \/ l = "open log" /\ m \in {"creat log", "serve"}
  \/ l = "creat log" /\ m = "serve"
  \/ l = "serve" /\ m = "time"
  \/ l = "time" /\ m \in {"text", "store", "answer"}
  \/ l = "text" /\ m \in {"store", "answer"}
  \/ l = "store" /\ m = "request"
  \/ l = "request" /\ m \in {"time", "serve", "spawn"}
  \/ l = "answer" /\ m \in {"serve", "spawn"}
  \/ l = "spawn" /\ m \in {"spawn", "run"}

\* Nobody but a goes anywhere.
Moved(a) == \A b \in Actors \ {a} : pc'[b] = pc[b]

\* a, main of s or a child of it that is in the loop, starts w.
StartedFor(s, a, w) ==
  /\ Leads(s, a) /\ w \in config[s].team /\ pc[w] = "off"
  /\ \/ config[s].mode = "threads" /\ a = s /\ pc'[w] = "open 404"
     \/ config[s].mode = "processes" /\ pc'[w] = "serve"
Started(a, w) ==
  /\ \E s \in Servers : StartedFor(s, a, w)
  /\ \A b \in Actors \ {w} : pc'[b] = pc[b]

\* The process of a has ended.
Died(a) ==
  /\ pc[a] = "answer" /\ conn[a]
  /\ \A b \in Actors : pc'[b] = IF Process(b) = Process(a) THEN "dead" ELSE pc[b]

LEMMA Steps ==
  ASSUME TypeOK, NEW a \in Actors, Acts(a)
  PROVE  \/ a \in Servers /\ Moved(a) /\ ServerStep(pc[a], pc'[a])
         \/ /\ a \in Workers /\ Moved(a) /\ WorkerStep(pc[a], pc'[a])
            /\ pc[a] # "spawn" /\ pc'[a] = "spawn" => Process(a) = a
         \/ \E w \in Workers : Started(a, w)
         \/ a \in Workers /\ Died(a)
<1>1. pc \in [Actors -> Labels] BY DEF TypeOK
<1>2. a \in Servers \/ (a \in Workers /\ a \notin Servers) BY ActorsAssumption DEF Actors
<1>3. \A s \in Servers : config[s].team \subseteq Workers /\ Workers \subseteq Actors
  BY SetupType DEF TypeOK, Actors
<1> USE <1>1, <1>2 DEF Moved, ServerStep, WorkerStep, Goto
<1>4. CASE OpenLog(a) BY <1>4 DEF OpenLog, Logged
<1>5. CASE OpenFails(a) BY <1>5 DEF OpenFails
<1>6. CASE CreatLog(a) BY <1>6 DEF CreatLog, Logged
<1>7. CASE CreatFails(a) BY <1>7 DEF CreatFails, Logged
<1>8. CASE WriteTime(a) BY <1>8 DEF WriteTime
<1>9. CASE WriteText(a) BY <1>9 DEF WriteText, EndEntry
<1>10. CASE DropEntry(a) BY <1>10 DEF DropEntry, EndEntry
<1>11. CASE Open404(a)
  <2>1. pc[a] = "open 404" /\ pc' = [pc EXCEPT ![a] = "read 404"] BY <1>11 DEF Open404
  <2> QED BY <2>1
<1>12. CASE Read404(a)
  <2>1. pc' = pc \/ pc' = [pc EXCEPT ![a] = IF a \in Servers THEN "socket" ELSE "open log"]
    BY <1>12 DEF Read404
  <2> QED BY <1>12, <2>1 DEF Read404
<1>13. CASE a \in Servers /\ Listen(a) BY <1>13 DEF Listen
<1>14. CASE a \in Servers /\ CheckFails(a) BY <1>14 DEF CheckFails
<1>15. CASE a \in Servers /\ CreateThread(a)
  <2>1. PICK w \in config[a].team : pc[w] = "off" /\ pc' = [pc EXCEPT ![w] = "open 404"]
    BY <1>15 DEF CreateThread
  <2>2. w \in Workers /\ w \in Actors BY <1>3, <1>15
  <2>3. pc[a] = "spawn" /\ config[a].mode = "threads" BY <1>15 DEF CreateThread
  <2>4. StartedFor(a, a, w) BY <2>1, <2>2, <2>3 DEF StartedFor, Leads
  <2>5. Started(a, w) BY <1>15, <2>1, <2>4 DEF Started
  <2> QED BY <2>2, <2>5
<1>16. CASE ForkChild(a)
  <2>1. PICK s \in Servers :
          /\ Leads(s, a) /\ config[s].mode = "processes"
          /\ \E w \in config[s].team : pc[w] = "off" /\ pc' = [pc EXCEPT ![w] = "serve"]
    BY <1>16 DEF ForkChild
  <2>2. PICK w \in config[s].team : pc[w] = "off" /\ pc' = [pc EXCEPT ![w] = "serve"]
    BY <2>1
  <2>3. w \in Workers /\ w \in Actors BY <1>3
  <2>4. StartedFor(s, a, w) BY <2>1, <2>2, <2>3 DEF StartedFor
  <2>5. Started(a, w) BY <2>2, <2>4 DEF Started
  <2> QED BY <2>3, <2>5
<1>17. CASE StartFails(a)
  <2>1. pc[a] = "spawn" /\ pc' = pc BY <1>17 DEF StartFails, Leads
  <2> QED BY <2>1
<1>18. CASE EndSpawn(a)
  <2>1. pc[a] = "spawn" /\ pc' = [pc EXCEPT ![a] = "run"] BY <1>18 DEF EndSpawn, Leads
  <2> QED BY <2>1
<1>19. CASE a \in Workers /\ StoreLog(a)
  <2>1. pc[a] = "store" /\ pc' = [pc EXCEPT ![a] = "request"] BY <1>19 DEF StoreLog
  <2> QED BY <1>19, <2>1
<1>20. CASE a \in Workers /\ LogRequest(a) BY <1>20 DEF LogRequest
<1>21. CASE a \in Workers /\ Accept(a)
  <2>1. pc[a] = "serve" /\ pc' = [pc EXCEPT ![a] = "time"] BY <1>21 DEF Accept
  <2> QED BY <1>21, <2>1
<1>22. CASE a \in Workers /\ (GiveUp(a) \/ Answer(a))
  <2>1. pc[a] \in {"request", "answer"} BY <1>22 DEF GiveUp, Answer
  <2>2. Return(a) BY <1>22 DEF GiveUp, Answer
  <2>3. pc' = [pc EXCEPT ![a] = IF Process(a) = a THEN "spawn" ELSE "serve"]
    BY <2>2 DEF Return
  <2> QED BY <1>22, <2>1, <2>3
<1>23. CASE a \in Workers /\ Die(a)
  <2>1. Died(a) BY <1>23 DEF Die, Died
  <2> QED BY <1>23, <2>1
<1> QED BY <1>4, <1>5, <1>6, <1>7, <1>8, <1>9, <1>10, <1>11, <1>12, <1>13, <1>14, <1>15,
           <1>16, <1>17, <1>18, <1>19, <1>20, <1>21, <1>22, <1>23, Cases

LEMMA EntryKept ==
  ASSUME TypeOK, NEW a \in Actors, Acts(a)
  PROVE  \A b \in Actors \ {a} : entry'[b] = entry[b]
<1>1. entry \in [Actors -> Actors \cup {None}] BY DEF TypeOK
<1>2. CASE entry' = entry BY <1>2
<1>3. CASE \E d : entry' = [entry EXCEPT ![a] = d] BY <1>1, <1>3
<1> QED BY <1>2, <1>3, Cases DEF OpenLog, OpenFails, CreatLog, CreatFails, WriteTime,
  WriteText, DropEntry, Open404, Read404, Listen, CheckFails, CreateThread, ForkChild,
  StartFails, EndSpawn, StoreLog, LogRequest, Accept, GiveUp, Answer, Die

\* a has opened the log.
Opens(a) ==
  /\ Logging(a) /\ pc'[a] = Logged(a)
  /\ fd' = [fd EXCEPT ![a] = a] /\ entry' = [entry EXCEPT ![a] = a] /\ global' = global
\* a has gone on without it.
Lacks(a) ==
  /\ UNCHANGED <<log, ofd, fd, written, global, entry>>
  /\ \/ OpenFails(a) /\ pc[a] = "open log" /\ pc'[a] = "creat log" /\ (log.exists => Fail(a))
     \/ CreatFails(a) /\ pc[a] = "creat log" /\ pc'[a] = Logged(a) /\ Fail(a)

LEMMA LogSteps ==
  ASSUME TypeOK, NEW a \in Actors, Acts(a), Logging(a)
  PROVE  \/ OpenLog(a) /\ Opens(a) /\ log.exists
         \/ CreatLog(a) /\ Opens(a)
         \/ Lacks(a)
<1>1. pc \in [Actors -> Labels] BY DEF TypeOK
<1>2. OpenLog(a) \/ OpenFails(a) \/ CreatLog(a) \/ CreatFails(a)
  BY Cases DEF Logging, WriteTime, WriteText, DropEntry, Open404, Read404, Listen,
    CheckFails, CreateThread, ForkChild, StartFails, EndSpawn, Leads, StoreLog, LogRequest, Accept,
    GiveUp, Answer, Die
<1>3. CASE OpenLog(a) BY <1>1, <1>3 DEF OpenLog, Opens, Goto
<1>4. CASE CreatLog(a) BY <1>1, <1>4 DEF CreatLog, Opens, Goto
<1>5. CASE OpenFails(a)
  <2>1. log.exists => Fail(a) BY <1>5 DEF OpenFails
  <2>2. pc[a] = "open log" /\ pc'[a] = "creat log" BY <1>1, <1>5 DEF OpenFails, Goto
  <2>3. UNCHANGED <<log, ofd, fd, written, global, entry>> BY <1>5 DEF OpenFails
  <2> QED BY <1>5, <2>1, <2>2, <2>3 DEF Lacks
<1>6. CASE CreatFails(a)
  <2>1. Fail(a) BY <1>6 DEF CreatFails
  <2>2. pc[a] = "creat log" /\ pc'[a] = Logged(a) BY <1>1, <1>6 DEF CreatFails, Goto
  <2>3. UNCHANGED <<log, ofd, fd, written, global, entry>> BY <1>6 DEF CreatFails
  <2> QED BY <1>6, <2>1, <2>2, <2>3 DEF Lacks
<1> QED BY <1>2, <1>3, <1>4, <1>5, <1>6

LEMMA OnlyWriteTime ==
  ASSUME TypeOK, NEW a \in Actors, Acts(a), pc'[a] = "text"
  PROVE  WriteTime(a)
<1>1. pc[a] = "time"
  <2>1. a \in Servers => a \notin Workers BY ActorsAssumption
  <2>2. a \in Actors BY DEF Actors
  <2>3. CASE a \in Workers /\ Died(a) BY <2>2, <2>3 DEF Died
  <2>4. CASE \E w \in Workers : Started(a, w)
    BY <2>2, <2>4 DEF Started, StartedFor, Leads
  <2> QED BY <2>1, <2>3, <2>4, Steps DEF ServerStep, WorkerStep
<1>2. WriteTime(a) \/ DropEntry(a)
  BY <1>1, Cases DEF OpenLog, OpenFails, CreatLog, CreatFails, WriteText, Open404, Read404,
    Listen, CheckFails, CreateThread, ForkChild, StartFails, EndSpawn, Leads, StoreLog,
    LogRequest, Accept, GiveUp, Answer, Die
<1>3. DropEntry(a) => pc'[a] \in {"open 404", "store", "answer"}
  BY DEF DropEntry, EndEntry, Goto, TypeOK
<1> QED BY <1>2, <1>3

\* Only a worker that runs has, gets or leaves a connection.
LEMMA ConnSteps ==
  ASSUME TypeOK, NEW a \in Actors, Acts(a)
  PROVE  \/ conn' = conn
         \/ a \in Workers /\ pc[a] # "off" /\ conn' = [conn EXCEPT ![a] = FALSE]
         \/ a \in Workers /\ pc[a] # "off" /\ conn' = [conn EXCEPT ![a] = TRUE]
BY Cases DEF OpenLog, OpenFails, CreatLog, CreatFails, WriteTime, WriteText, DropEntry,
  Open404, Read404, Listen, CheckFails, CreateThread, ForkChild, StartFails, EndSpawn,
  StoreLog, LogRequest, Accept, GiveUp, Answer, Die, service

\* A worker that runs has a server: of threads that are in its process, or of
\* processes.
Runs(w, s) ==
  /\ w \in config[s].team
  /\ \/ /\ config[s].mode = "threads"
        /\ pc[w] \notin {"spawn", "run"}
        /\ pc[s] \in {"spawn", "run"} \/ (pc[s] = "dead" /\ pc[w] = "dead")
     \/ /\ config[s].mode = "processes"
        /\ Ready(w) \/ pc[w] \in {"spawn", "run", "dead"}
        /\ pc[s] \in {"spawn", "run"}

LEMMA WorkerOf ==
  ASSUME TypeOK, StepsOK, NEW w \in Workers, pc[w] # "off"
  PROVE  \E s \in Servers :
           /\ Runs(w, s)
           /\ \/ config[s].mode = "threads" /\ Process(w) = s
              \/ config[s].mode = "processes" /\ Process(w) = w
<1>1. PICK s \in Servers : Runs(w, s) BY DEF StepsOK, Runs
<1>2. w \in Actors /\ config \in Setups BY DEF Actors, TypeOK
<1>3. CASE config[s].mode = "threads"
  <2>1. ThreadOf(w, s) BY <1>1, <1>3 DEF ThreadOf, Runs
  <2>2. Process(w) = s BY <2>1, <1>2, ProcessOf
  <2> QED BY <2>2, <1>1, <1>3
<1>4. CASE config[s].mode = "processes"
  <2>1. w \in config[s].team BY <1>1 DEF Runs
  <2>2. \A r \in Servers : ~ThreadOf(w, r)
    BY <2>1, <1>2, <1>4, SetupType DEF ThreadOf
  <2>3. Process(w) = w BY <2>2, <1>2, ProcessOf
  <2> QED BY <2>3, <1>1, <1>4
<1>5. config[s].mode \in {"threads", "processes"} BY <1>1 DEF Runs
<1> QED BY <1>3, <1>4, <1>5

LEMMA StepsKept ==
  ASSUME TypeOK, StepsOK, NEW a \in Actors, Acts(a)
  PROVE  StepsOK'
<1>1. UNCHANGED setup BY SetupKept
<1>2. config' = config /\ config \in Setups BY <1>1 DEF setup, TypeOK
<1>3. Servers \subseteq Actors /\ Workers \subseteq Actors /\ Servers \cap Workers = {}
  BY ActorsAssumption DEF Actors
<1>4. \A b \in Actors : (pc[b] = "text" => entry[b] # None)'
  <2> SUFFICES ASSUME NEW b \in Actors, pc'[b] = "text" PROVE entry'[b] # None OBVIOUS
  <2>1. CASE b = a
    <3>1. WriteTime(a) BY <2>1, OnlyWriteTime
    <3> QED BY <2>1, <3>1 DEF WriteTime
  <2>2. CASE b # a
    <3>1. entry'[b] = entry[b] BY <2>2, EntryKept
    <3>2. pc[b] = "text" BY <2>2, Steps DEF Moved, Started, StartedFor, Died
    <3> QED BY <3>1, <3>2 DEF StepsOK
  <2> QED BY <2>1, <2>2
<1>10. \A s \in Servers : (Logging(s) => entry[s] = None)'
  <2> SUFFICES ASSUME NEW s \in Servers, Logging(s)' PROVE entry'[s] = None OBVIOUS
  <2>1. CASE s = a
    <3>1. Logging(s)
      BY <2>1, <1>3, Steps DEF Moved, Started, StartedFor, Died, ServerStep, Logging
    <3>2. ~Opens(s)
      <4>1. pc'[s] \notin {"time"} BY DEF Logging
      <4> QED BY <4>1 DEF Opens, Logged
    <3>3. entry'[s] = entry[s] BY <2>1, <3>1, <3>2, LogSteps DEF Lacks
    <3> QED BY <3>1, <3>3 DEF StepsOK
  <2>2. CASE s # a
    <3>1. entry'[s] = entry[s] BY <1>3, <2>2, EntryKept
    <3>2. Logging(s) BY <1>3, <2>2, Steps DEF Moved, Started, Died, Logging
    <3> QED BY <3>1, <3>2 DEF StepsOK
  <2> QED BY <2>1, <2>2
<1>11. \A w \in Workers : (conn[w] => pc[w] # "off")'
  <2> SUFFICES ASSUME NEW w \in Workers, conn'[w] PROVE pc'[w] # "off" OBVIOUS
  <2>1. pc[w] # "off"
    <3>1. conn \in [Actors -> BOOLEAN] BY DEF TypeOK
    <3>2. CASE a = w /\ pc[a] # "off" BY <3>2
    <3>3. CASE conn'[w] = conn[w] BY <3>3 DEF StepsOK
    <3>4. conn'[w] = conn[w] \/ (a = w /\ pc[a] # "off") BY <1>3, <3>1, ConnSteps
    <3> QED BY <3>2, <3>3, <3>4
  <2> QED BY <1>3, <2>1, Steps DEF Moved, Started, StartedFor, Died, ServerStep, WorkerStep
<1> DEFINE ServerOK(s) == /\ pc[s] \notin {"serve", "store", "request", "answer"}
                          /\ pc[s] = "off" <=> ~config[s].launched
           WorkerOK(w) == /\ pc[w] \notin {"socket", "ended"}
                          /\ pc[w] # "off" => \E s \in Servers : Runs(w, s)
<1>5. (\A s \in Servers : ServerOK(s)) /\ (\A w \in Workers : WorkerOK(w))
  BY DEF StepsOK, Runs
<1>6. SUFFICES (\A s \in Servers : ServerOK(s)') /\ (\A w \in Workers : WorkerOK(w)')
  BY <1>4, <1>10, <1>11 DEF StepsOK, Runs
<1> USE <1>3 DEF Moved
<1>7. CASE a \in Servers /\ Moved(a) /\ ServerStep(pc[a], pc'[a])
  <2>1. /\ pc'[a] \notin {"serve", "store", "request", "answer", "off"} /\ pc[a] \notin {"off", "dead"}
        /\ pc[a] \in {"spawn", "run"} => pc'[a] \in {"spawn", "run"}
    BY <1>7 DEF ServerStep
  <2>2. \A s \in Servers : ServerOK(s)' BY <2>1, <1>7, <1>5, <1>2
  <2>3. \A w \in Workers : pc'[w] = pc[w] BY <1>7
  <2>4. \A w \in Workers, s \in Servers : Runs(w, s) => Runs(w, s)'
    BY <2>1, <2>3, <1>7, <1>2 DEF Ready, Runs
  <2>5. \A w \in Workers : WorkerOK(w)' BY <2>3, <2>4, <1>5
  <2> QED BY <2>2, <2>5
<1>8. CASE /\ a \in Workers /\ Moved(a) /\ WorkerStep(pc[a], pc'[a])
           /\ pc[a] # "spawn" /\ pc'[a] = "spawn" => Process(a) = a
  <2>1. /\ pc[a] # "off" /\ pc'[a] \notin {"socket", "ended", "dead"}
        /\ Ready(a) \/ pc[a] \in {"spawn", "run"} => Ready(a)' \/ pc'[a] \in {"spawn", "run"}
        /\ pc'[a] = "run" => pc[a] = "spawn"
        /\ pc[a] # "dead"
    BY <1>8 DEF WorkerStep, Ready
  <2>2. \A s \in Servers : pc'[s] = pc[s] BY <1>8
  <2>3. \A w \in Workers : w # a => pc'[w] = pc[w] BY <1>8
  <2>4. \A w \in Workers, s \in Servers : w # a => (Runs(w, s) => Runs(w, s)')
    BY <2>2, <2>3, <1>2 DEF Runs, Ready
  <2>6. \A s \in Servers : Runs(a, s) => Runs(a, s)'
    <3> TAKE s \in Servers
    <3> HAVE Runs(a, s)
    <3>1. CASE config[s].mode = "threads"
      <4>1. ThreadOf(a, s) BY <3>1 DEF Runs, ThreadOf
      <4>2. Process(a) = s /\ a # s BY <4>1, <1>2, <1>8, ProcessOf
      <4>3. pc[a] \notin {"spawn", "run"} BY <3>1 DEF Runs
      <4>4. pc'[a] \notin {"spawn", "run"} BY <1>8, <2>1, <4>2, <4>3
      <4>5. pc[s] \in {"spawn", "run"} BY <3>1, <2>1 DEF Runs
      <4> QED BY <1>2, <2>2, <3>1, <4>4, <4>5 DEF Runs
    <3>2. CASE config[s].mode = "processes"
      BY <1>2, <2>1, <2>2, <3>2 DEF Runs
    <3> QED BY <3>1, <3>2 DEF Runs
  <2>5. \A w \in Workers : WorkerOK(w)'
    BY <2>1, <2>3, <2>4, <2>6, <1>5, <1>8
  <2> QED BY <2>2, <2>5, <1>5, <1>2
<1>9. CASE \E w \in Workers : Started(a, w)
  <2>1. PICK w \in Workers : Started(a, w) BY <1>9
  <2>2. /\ \A b \in Actors \ {w} : pc'[b] = pc[b]
        /\ \E s \in Servers : StartedFor(s, a, w)
    BY <2>1 DEF Started
  <2>7. PICK s \in Servers : StartedFor(s, a, w) BY <2>2
  <2>3. \A r \in Servers : pc'[r] = pc[r] BY <2>2
  <2>4. \A v \in Workers, r \in Servers : v # w => (Runs(v, r) => Runs(v, r)')
    BY <2>2, <2>3, <1>2 DEF Ready, Runs
  <2>8. pc[s] \in {"spawn", "run"} /\ (config[s].mode = "threads" => pc[s] = "spawn")
    <3>1. CASE a = s BY <2>7, <3>1 DEF StartedFor, Leads
    <3>2. CASE a # s /\ config[s].mode = "processes"
      <4>1. a \in config[s].team /\ pc[a] = "spawn" BY <2>7, <3>2 DEF StartedFor, Leads
      <4>2. a \in Workers BY <4>1, <1>2, SetupType
      <4>3. PICK r \in Servers : Runs(a, r) BY <1>5, <4>1, <4>2
      <4>4. r = s BY <4>1, <4>3, <1>2, SetupType DEF Runs
      <4> QED BY <3>2, <4>3, <4>4 DEF Runs
    <3> QED BY <2>7, <3>1, <3>2 DEF StartedFor
  <2>5. Runs(w, s)' BY <2>7, <2>8, <2>3, <1>2 DEF StartedFor, Ready, Runs
  <2>9. pc'[w] \in {"open 404", "serve"} BY <2>7 DEF StartedFor
  <2>6. \A v \in Workers : WorkerOK(v)'
    BY <2>2, <2>4, <2>5, <2>9, <1>5
  <2> QED BY <2>3, <2>6, <1>5, <1>2
<1>12. CASE a \in Workers /\ Died(a)
  <2>1. PICK s \in Servers :
          /\ Runs(a, s)
          /\ \/ config[s].mode = "threads" /\ Process(a) = s
             \/ config[s].mode = "processes" /\ Process(a) = a
    BY <1>12, WorkerOf DEF Died
  <2>2. \A b \in Actors : pc'[b] = IF Process(b) = Process(a) THEN "dead" ELSE pc[b]
    BY <1>12 DEF Died
  <2>3. \A r \in Servers : Process(r) = r BY <1>2, ProcessOf
  <2>4. CASE config[s].mode = "threads" /\ Process(a) = s
    <3>1. \A v \in Workers : Process(v) = s => v \in config[s].team
      BY <1>2, <2>3, ProcessOf DEF ThreadOf
    <3>7. \A v \in config[s].team : v \in Workers /\ Process(v) = s
      BY <1>2, <2>4, SetupType, ProcessOf DEF ThreadOf
    <3>2. pc[s] \in {"spawn", "run"} BY <1>12, <2>1, <2>4 DEF Runs, Died
    <3>3. \A v \in config[s].team : Runs(v, s)'
      BY <1>2, <2>2, <2>3, <2>4, <3>7 DEF Runs
    <3>4. \A r \in Servers : ServerOK(r)' BY <1>2, <1>5, <2>2, <2>3, <2>4, <3>2
    <3>5. \A v \in Workers : v \notin config[s].team =>
            /\ pc'[v] = pc[v]
            /\ \A r \in Servers : Runs(v, r) => Runs(v, r)'
      <4> SUFFICES ASSUME NEW v \in Workers, v \notin config[s].team
                   PROVE  pc'[v] = pc[v] /\ \A r \in Servers : Runs(v, r) => Runs(v, r)'
        OBVIOUS
      <4>1. pc'[v] = pc[v] BY <2>2, <2>4, <3>1
      <4>2. \A r \in Servers : Runs(v, r) => pc'[r] = pc[r]
        <5> TAKE r \in Servers
        <5> HAVE Runs(v, r)
        <5>1. r # s BY DEF Runs
        <5> QED BY <2>2, <2>3, <2>4, <5>1
      <4> QED BY <1>2, <4>1, <4>2 DEF Runs, Ready
    <3>6. \A v \in Workers : WorkerOK(v)'
      <4> SUFFICES ASSUME NEW v \in Workers PROVE WorkerOK(v)' OBVIOUS
      <4>1. CASE v \in config[s].team BY <2>2, <2>4, <3>3, <3>7, <4>1
      <4>2. CASE v \notin config[s].team BY <1>5, <3>5, <4>2
      <4> QED BY <4>1, <4>2
    <3> QED BY <3>4, <3>6
  <2>5. CASE config[s].mode = "processes" /\ Process(a) = a
    <3>1. \A b \in Actors : Process(b) = a => b = a BY <1>2, <1>12, ProcessOf
    <3>2. pc'[a] = "dead" /\ \A b \in Actors \ {a} : pc'[b] = pc[b] BY <2>2, <2>5, <3>1
    <3>3. \A r \in Servers : pc'[r] = pc[r] BY <1>12, <3>2
    <3>4. Runs(a, s)' BY <1>2, <2>1, <2>5, <3>2, <3>3 DEF Runs
    <3>5. \A v \in Workers, r \in Servers : v # a => (Runs(v, r) => Runs(v, r)')
      BY <1>2, <3>2, <3>3 DEF Runs, Ready
    <3>6. \A v \in Workers : WorkerOK(v)' BY <1>5, <3>2, <3>4, <3>5
    <3> QED BY <1>2, <1>5, <3>3, <3>6
  <2> QED BY <2>1, <2>4, <2>5
<1> QED BY <1>7, <1>8, <1>9, <1>12, Steps

(* Descriptors *)
\* Who takes a descriptor, and when; who has a connection.
Opened(a) ==
  \/ Logging(a) /\ pc'[a] = Logged(a)
  \/ pc[a] = "open 404" /\ pc'[a] = "read 404"
Accepted(a) ==
  /\ a \in Workers /\ pc[a] = "serve" /\ pc'[a] = "time"
  /\ conn' = [conn EXCEPT ![a] = TRUE]
  /\ clients > 0 /\ clients' = clients - 1
Left(a) == a \in Workers /\ conn' = [conn EXCEPT ![a] = FALSE]
Forks(a) ==
  /\ UNCHANGED <<conn, clients>>
  /\ \E w \in Workers : pc[w] = "off" /\ used' = [used EXCEPT ![w] = used[a]]

LEMMA UsedSteps ==
  ASSUME TypeOK, NEW a \in Actors, Acts(a)
  PROVE  \/ used' = used /\ (conn' = conn \/ Left(a))
         \/ HasRoom(a) /\ Take(a) /\ Opened(a) /\ conn' = conn
         \/ HasRoom(a) /\ Take(a) /\ Accepted(a)
         \/ GiveBack(a) /\ conn[a] /\ Left(a)
         \/ a \in Servers /\ Listen(a) /\ conn' = conn
         \/ Forks(a)
<1> USE DEF Goto, Logging, Left
<1>1. pc \in [Actors -> Labels] BY DEF TypeOK
<1>2. CASE OpenLog(a) BY <1>2, <1>1 DEF OpenLog, Opened, service
<1>3. CASE CreatLog(a) BY <1>3, <1>1 DEF CreatLog, Opened, service
<1>4. CASE \/ OpenFails(a) \/ CreatFails(a) \/ WriteTime(a) \/ WriteText(a) \/ DropEntry(a)
           \/ Read404(a)
  BY <1>4 DEF OpenFails, CreatFails, WriteTime, WriteText, DropEntry, Read404, service
<1>5. CASE Open404(a)
  <2>1. conn' = conn /\ pc[a] = "open 404" /\ pc'[a] = "read 404"
    BY <1>1, <1>5 DEF Open404, service
  <2>2. used' = used \/ (HasRoom(a) /\ Take(a)) BY <1>5 DEF Open404
  <2> QED BY <2>1, <2>2 DEF Opened
<1>6. CASE \/ CheckFails(a) \/ CreateThread(a) \/ StartFails(a) \/ EndSpawn(a)
           \/ a \in Workers /\ (StoreLog(a) \/ LogRequest(a) \/ Die(a))
  BY <1>6 DEF CheckFails, CreateThread, StartFails, EndSpawn, StoreLog, LogRequest, Die, service
<1>7. CASE a \in Servers /\ Listen(a) BY <1>7 DEF Listen, service
<1>8. CASE ForkChild(a)
  <2>1. PICK s \in Servers :
          \E w \in config[s].team : pc[w] = "off" /\ used' = [used EXCEPT ![w] = used[a]]
    BY <1>8 DEF ForkChild
  <2>2. config[s].team \subseteq Workers BY SetupType DEF TypeOK
  <2>3. UNCHANGED <<conn, clients>> BY <1>8 DEF ForkChild, service
  <2> QED BY <2>1, <2>2, <2>3 DEF Forks
<1>9. CASE a \in Workers /\ Accept(a)
  <2>1. pc[a] = "serve" /\ pc'[a] = "time" /\ clients > 0 /\ clients' = clients - 1
    BY <1>1, <1>9 DEF Accept
  <2>2. \/ HasRoom(a) /\ Take(a) /\ conn' = [conn EXCEPT ![a] = TRUE]
        \/ used' = used /\ conn' = [conn EXCEPT ![a] = FALSE]
    BY <1>9 DEF Accept
  <2> QED BY <1>9, <2>1, <2>2 DEF Accepted
<1>10. CASE a \in Workers /\ GiveUp(a)
  BY <1>10 DEF GiveUp
<1>11. CASE a \in Workers /\ Answer(a)
  <2>1. conn' = [conn EXCEPT ![a] = FALSE] /\ (used' = used \/ (conn[a] /\ GiveBack(a)))
    BY <1>11 DEF Answer
  <2> QED BY <1>11, <2>1
<1> QED BY <1>2, <1>3, <1>4, <1>5, <1>6, <1>7, <1>8, <1>9, <1>10, <1>11, Cases

LEMMA ClientSteps ==
  ASSUME TypeOK, NEW a \in Actors, Acts(a)
  PROVE  clients' \in 0 .. MaxClients /\ clients' <= clients
<1>1. clients \in 0 .. MaxClients /\ MaxClients \in Nat BY SizesAssumption DEF TypeOK
<1>2. clients' = clients \/ (clients > 0 /\ clients' = clients - 1)
  BY Cases DEF OpenLog, OpenFails, CreatLog, CreatFails, WriteTime, WriteText, DropEntry,
    Open404, Read404, Listen, CheckFails, CreateThread, ForkChild, StartFails, EndSpawn,
    StoreLog, LogRequest, Accept, GiveUp, Answer, Die, service
<1> QED BY <1>1, <1>2

LEMMA HoldingFinite ==
  ASSUME NEW p
  PROVE  IsFiniteSet(Holding(p)) /\ Cardinality(Holding(p)) \in Nat
<1>1. Holding(p) \subseteq Workers BY DEF Holding
<1>2. IsFiniteSet(Holding(p)) BY <1>1, ActorsAssumption, FS_Subset
<1> QED BY <1>2, FS_CardinalityType

\* The process of a worker with a connection has a descriptor in use.
LEMMA ConnectionUsed ==
  ASSUME TypeOK, UsedOK, NEW w \in Workers, conn[w]
  PROVE  used[Process(w)] >= 1
<1>1. w \in Holding(Process(w)) BY DEF Holding
<1>2. Cardinality(Holding(Process(w))) # 0 BY <1>1, HoldingFinite, FS_EmptySet
<1>3. Process(w) \in Actors BY ProcessOf DEF TypeOK, Actors
<1>4. used \in [Actors -> 0 .. limit] BY DEF TypeOK
<1>5. Cardinality(Holding(Process(w))) <= used[Process(w)] BY <1>3 DEF UsedOK
<1>6. used[Process(w)] \in Int BY <1>3, <1>4
<1> QED BY <1>2, <1>6, <1>5, HoldingFinite
-----------------------------------------------------------------------------
(* Types *)
LEMMA UsedType ==
  ASSUME TypeOK, UsedOK, NEW a \in Actors, Acts(a)
  PROVE  used' \in [Actors -> 0 .. limit']
<1>1. limit' = limit /\ limit \in Nat
  BY SetupKept, SizesAssumption DEF setup, TypeOK
<1>2. used \in [Actors -> 0 .. limit] BY DEF TypeOK
<1>3. Process(a) \in Actors BY ProcessOf DEF TypeOK
<1>4. CASE UNCHANGED used BY <1>4, <1>1, <1>2
<1>5. CASE HasRoom(a) /\ Take(a) BY <1>5, <1>1, <1>2, <1>3 DEF HasRoom, Take
<1>6. CASE GiveBack(a) /\ conn[a] /\ Left(a)
  <2>1. used[Process(a)] >= 1 BY <1>6, ConnectionUsed DEF Left
  <2> QED BY <2>1, <1>6, <1>1, <1>2, <1>3 DEF GiveBack
<1>7. CASE a \in Servers /\ Listen(a)
  BY <1>7, <1>1, <1>2 DEF Listen, Needs
<1>8. CASE Forks(a)
  <2>1. PICK w \in Workers : used' = [used EXCEPT ![w] = used[a]]
    BY <1>8 DEF Forks
  <2> QED BY <2>1, <1>1, <1>2
<1> QED BY <1>4, <1>5, <1>6, <1>7, <1>8, UsedSteps

\* A write makes the log a log still.
LEMMA PutType ==
  ASSUME TypeOK, NEW d \in Actors, NEW w \in (Actors \cup {None}) \X Nat, Put(d, w)
  PROVE  /\ log' \in [exists : BOOLEAN, writes : Seq((Actors \cup {None}) \X Nat)]
         /\ ofd' \in [Actors -> [append : BOOLEAN, offset : Nat]]
<1> DEFINE n == Len(log.writes)
           at == IF ofd[d].append THEN n + 1 ELSE ofd[d].offset + 1
           m == IF at > n THEN at ELSE n
           W == [i \in 1 .. m |-> IF i = at THEN w
                                  ELSE IF i <= n THEN log.writes[i] ELSE Hole]
           E == (Actors \cup {None}) \X Nat
<1>6. log \in [exists : BOOLEAN, writes : Seq(E)] BY DEF TypeOK
<1>7. ofd \in [Actors -> [append : BOOLEAN, offset : Nat]] BY DEF TypeOK
<1>1. n \in Nat /\ log.writes \in Seq(E) /\ ofd[d] \in [append : BOOLEAN, offset : Nat]
  BY <1>6, <1>7
<1>2. at \in Nat /\ m \in Nat BY <1>1
<1>4. W \in Seq(E)
  <2>1. \A i \in 1 .. n : log.writes[i] \in E BY <1>1
  <2>2. w \in E /\ Hole \in E BY DEF Hole
  <2> HIDE DEF n, at, E
  <2>3. \A i \in 1 .. m : W[i] \in E BY <2>1, <2>2, <1>2
  <2>4. W \in [1 .. m -> E] BY <2>3
  <2> QED BY <2>4, <1>2
<1>5. log' = [log EXCEPT !.writes = W] /\ ofd' = [ofd EXCEPT ![d].offset = at]
  BY DEF Put
<1> HIDE DEF n, at, m, W, E
<1>9. log' \in [exists : BOOLEAN, writes : Seq(E)] BY <1>4, <1>5, <1>6
<1>10. ofd' \in [Actors -> [append : BOOLEAN, offset : Nat]] BY <1>2, <1>5, <1>7
<1> QED BY <1>9, <1>10 DEF E

LEMMA WriteType ==
  ASSUME TypeOK, NEW a \in Actors, NEW d \in Actors, Write(a, d)
  PROVE  /\ log' \in [exists : BOOLEAN, writes : Seq((Actors \cup {None}) \X Nat)]
         /\ ofd' \in [Actors -> [append : BOOLEAN, offset : Nat]]
         /\ written' \in [Actors -> Nat]
<1>1. written \in [Actors -> Nat] BY DEF TypeOK
<1>2. written' = [written EXCEPT ![a] = @ + 1] BY DEF Write
<1>3. written' \in [Actors -> Nat] BY <1>1, <1>2
<1>4. <<a, written[a] + 1>> \in (Actors \cup {None}) \X Nat BY <1>1
<1>5. Hole \in (Actors \cup {None}) \X Nat BY DEF Hole
<1>6. Put(d, <<a, written[a] + 1>>) \/ Put(d, Hole) \/ UNCHANGED <<log, ofd>> BY DEF Write
<1>7. CASE UNCHANGED <<log, ofd>> BY <1>3, <1>7 DEF TypeOK
<1>8. CASE Put(d, <<a, written[a] + 1>>) BY <1>3, <1>4, <1>8, PutType
<1>9. CASE Put(d, Hole) BY <1>3, <1>5, <1>9, PutType
<1> QED BY <1>6, <1>7, <1>8, <1>9

\* A write goes through a descriptor that is open.
Writes(a) ==
  /\ entry[a] \in Actors /\ Writing(a) /\ Write(a, entry[a])
  /\ UNCHANGED <<fd, entry, global, dropped>>

LEMMA WriteSteps ==
  ASSUME TypeOK, StepsOK, NEW a \in Actors, Acts(a)
  PROVE  Writes(a) \/ UNCHANGED <<log, ofd, written>> \/ OpenLog(a) \/ CreatLog(a)
<1>1. entry[a] \in Actors \cup {None} BY DEF TypeOK
<1>3. CASE WriteTime(a) BY <1>1, <1>3 DEF WriteTime, Writing, Writes
<1>4. CASE WriteText(a) BY <1>1, <1>4 DEF WriteText, Writing, StepsOK, Writes
<1>5. CASE \/ OpenFails(a) \/ CreatFails(a) \/ DropEntry(a) \/ Open404(a) \/ Read404(a)
           \/ a \in Servers /\ (Listen(a) \/ CheckFails(a) \/ CreateThread(a))
           \/ ForkChild(a) \/ StartFails(a) \/ EndSpawn(a)
           \/ StoreLog(a) \/ LogRequest(a) \/ Accept(a) \/ GiveUp(a) \/ Answer(a) \/ Die(a)
  BY <1>5 DEF OpenFails, CreatFails, DropEntry, Open404, Read404, Listen, CheckFails,
    CreateThread, ForkChild, StartFails, EndSpawn, StoreLog, LogRequest, Accept, GiveUp,
    Answer, Die, files
<1> QED BY <1>3, <1>4, <1>5, Cases

LEMMA FilesType ==
  ASSUME TypeOK, StepsOK, NEW a \in Actors, Acts(a)
  PROVE  /\ log' \in [exists : BOOLEAN, writes : Seq((Actors \cup {None}) \X Nat)]
         /\ ofd' \in [Actors -> [append : BOOLEAN, offset : Nat]]
         /\ written' \in [Actors -> Nat]
<1>1. CASE UNCHANGED <<log, ofd, written>> BY <1>1 DEF TypeOK
<1>2. CASE Writes(a) BY <1>2, WriteType DEF Writes
<1> DEFINE E == (Actors \cup {None}) \X Nat
<1>5. /\ log \in [exists : BOOLEAN, writes : Seq(E)]
      /\ ofd \in [Actors -> [append : BOOLEAN, offset : Nat]]
      /\ written \in [Actors -> Nat]
  BY DEF TypeOK
<1>6. \A f : f \in BOOLEAN =>
        [ofd EXCEPT ![a] = [append |-> f, offset |-> 0]] \in [Actors -> [append : BOOLEAN, offset : Nat]]
  <2> TAKE f
  <2> HAVE f \in BOOLEAN
  <2>1. [append |-> f, offset |-> 0] \in [append : BOOLEAN, offset : Nat] OBVIOUS
  <2> QED BY <1>5, <2>1
<1>3. CASE OpenLog(a)
  <2>1. ofd' = [ofd EXCEPT ![a] = [append |-> TRUE, offset |-> 0]]
    BY <1>3 DEF OpenLog
  <2>2. log' = log /\ written' = written BY <1>3 DEF OpenLog
  <2> QED BY <1>5, <1>6, <2>1, <2>2
<1>4. CASE CreatLog(a)
  <2>1. <<>> \in Seq(E) OBVIOUS
  <2> HIDE DEF E
  <2>2. [exists |-> TRUE, writes |-> <<>>] \in [exists : BOOLEAN, writes : Seq(E)] BY <2>1
  <2>3. log' \in [exists : BOOLEAN, writes : Seq(E)] BY <1>4, <1>5, <2>2 DEF CreatLog
  <2>6. ofd' = [ofd EXCEPT ![a] = [append |-> FALSE, offset |-> 0]]
    BY <1>4 DEF CreatLog
  <2>4. ofd' \in [Actors -> [append : BOOLEAN, offset : Nat]] BY <2>6, <1>5, <1>6
  <2>5. written' = written BY <1>4 DEF CreatLog
  <2> QED BY <1>5, <2>3, <2>4, <2>5 DEF E
<1> QED BY <1>1, <1>2, <1>3, <1>4, WriteSteps

LEMMA DescriptorsType ==
  ASSUME TypeOK, NEW a \in Actors, Acts(a)
  PROVE  /\ fd' \in [Actors -> Actors \cup {None}]
         /\ entry' \in [Actors -> Actors \cup {None}]
         /\ global' \in [Actors -> Actors \cup {None}]
         /\ dropped' \subseteq Actors
<1>1. /\ fd \in [Actors -> Actors \cup {None}]
      /\ entry \in [Actors -> Actors \cup {None}]
      /\ global \in [Actors -> Actors \cup {None}]
      /\ dropped \subseteq Actors
  BY DEF TypeOK
<1>2. CASE OpenLog(a) \/ CreatLog(a)
  <2>1. fd' = [fd EXCEPT ![a] = a] /\ entry' = [entry EXCEPT ![a] = a]
    BY <1>2 DEF OpenLog, CreatLog
  <2>2. UNCHANGED <<global, dropped>> BY <1>2 DEF OpenLog, CreatLog
  <2> QED BY <1>1, <2>1, <2>2
<1>3. CASE DropEntry(a) BY <1>1, <1>3 DEF DropEntry, files
<1>4. CASE UNCHANGED <<fd, entry, global, dropped>> BY <1>1, <1>4
<1>5. CASE \/ OpenFails(a) \/ CreatFails(a) \/ WriteTime(a) \/ WriteText(a)
           \/ Open404(a) \/ Read404(a) \/ Listen(a) \/ CheckFails(a) \/ CreateThread(a)
           \/ StartFails(a) \/ EndSpawn(a) \/ GiveUp(a) \/ Answer(a) \/ Die(a)
  BY <1>4, <1>5 DEF OpenFails, CreatFails, WriteTime, WriteText, Open404, Read404, Listen,
    CheckFails, CreateThread, StartFails, EndSpawn, GiveUp, Answer, Die, files
<1>6. CASE ForkChild(a)
  <2>1. \E w : fd' = [fd EXCEPT ![w] = fd[a]] /\ global' = [global EXCEPT ![w] = global[a]]
    BY <1>6 DEF ForkChild
  <2>2. UNCHANGED <<entry, dropped>> BY <1>6 DEF ForkChild
  <2> QED BY <1>1, <2>1, <2>2
<1>7. CASE a \in Workers /\ (StoreLog(a) \/ LogRequest(a))
  <2>1. Process(a) \in Actors BY ProcessOf DEF TypeOK
  <2>2. Workers \subseteq Actors BY DEF Actors
  <2> QED BY <1>1, <1>7, <2>1, <2>2 DEF StoreLog, LogRequest, files
<1>8. CASE Accept(a) BY <1>1, <1>8 DEF Accept, files
<1> QED BY <1>2, <1>3, <1>5, <1>6, <1>7, <1>8, Cases

\* The size stays a size_t, also when -1 is added to it.
LEMMA SizeType ==
  ASSUME TypeOK, NEW a \in Actors, Acts(a)
  PROVE  size404' \in [Actors -> 0 .. 2 ^ Width - 1] /\ fd404' \in [Actors -> BOOLEAN]
<1> DEFINE M == 2 ^ Width
<1>1. M \in Nat \ {0} BY PowerType
<1>2. size404 \in [Actors -> 0 .. M - 1] /\ fd404 \in [Actors -> BOOLEAN]
  BY DEF TypeOK
<1>3. CASE Read404(a)
  <2> DEFINE flag == IF ~fd404[a] THEN M - 1 ELSE IF size404[a] < Blocks THEN 1 ELSE 0
  <2>1. flag \in Nat BY <1>1
  <2>2. size404' = size404 \/ size404' = [size404 EXCEPT ![a] = (@ + flag) % M]
    BY <1>3 DEF Read404
  <2>3. fd404' = fd404 BY <1>3 DEF Read404
  <2> HIDE DEF M, flag
  <2>4. (size404[a] + flag) % M \in 0 .. M - 1 BY <1>1, <1>2, <2>1
  <2> QED BY <1>2, <2>2, <2>3, <2>4 DEF M
<1>4. CASE Open404(a)
  <2>1. size404' = size404 BY <1>4 DEF Open404
  <2>2. fd404' = fd404 \/ fd404' = [fd404 EXCEPT ![a] = TRUE] BY <1>4 DEF Open404
  <2> HIDE DEF M
  <2> QED BY <1>2, <2>1, <2>2 DEF M
<1>5. CASE ForkChild(a)
  <2>1. \E w : size404' = [size404 EXCEPT ![w] = size404[a]]
    BY <1>5 DEF ForkChild
  <2>2. fd404' = fd404 BY <1>5 DEF ForkChild
  <2> HIDE DEF M
  <2> QED BY <1>2, <2>1, <2>2 DEF M
<1>6. CASE UNCHANGED <<size404, fd404>> BY <1>2, <1>6
<1>7. CASE \/ OpenLog(a) \/ OpenFails(a) \/ CreatLog(a) \/ CreatFails(a) \/ WriteTime(a)
           \/ WriteText(a) \/ DropEntry(a) \/ Listen(a) \/ CheckFails(a) \/ CreateThread(a)
           \/ StartFails(a) \/ EndSpawn(a) \/ StoreLog(a) \/ LogRequest(a) \/ Accept(a)
           \/ GiveUp(a) \/ Answer(a) \/ Die(a)
  <2>1. UNCHANGED <<size404, fd404>>
    BY <1>7 DEF OpenLog, OpenFails, CreatLog, CreatFails, WriteTime, WriteText, DropEntry,
      Listen, CheckFails, CreateThread, StartFails, EndSpawn, StoreLog, LogRequest, Accept,
      GiveUp, Answer, Die
  <2> QED BY <1>6, <2>1
<1> QED BY <1>3, <1>4, <1>5, <1>7, Cases

\* The turns of the loop, and what a worker has told of its connection.
LEMMA TurnType ==
  ASSUME TypeOK, NEW a \in Actors, Acts(a)
  PROVE  turn' \in [Actors -> Nat] /\ told' \in [Actors -> BOOLEAN] /\ conn' \in [Actors -> BOOLEAN]
<1>1. /\ turn \in [Actors -> Nat] /\ told \in [Actors -> BOOLEAN]
      /\ conn \in [Actors -> BOOLEAN]
  BY DEF TypeOK
<1>2. conn' \in [Actors -> BOOLEAN] BY <1>1, ConnSteps
<1>3. told' \in [Actors -> BOOLEAN]
  <2>1. told' = told \/ told' = [told EXCEPT ![a] = FALSE] \/ told' = [told EXCEPT ![a] = TRUE]
    BY Cases DEF OpenLog, OpenFails, CreatLog, CreatFails, WriteTime, WriteText, DropEntry,
      Open404, Read404, Listen, CheckFails, CreateThread, ForkChild, StartFails, EndSpawn,
      StoreLog, LogRequest, Accept, GiveUp, Answer, Die, service
  <2> QED BY <1>1, <2>1
<1>4. turn' \in [Actors -> Nat]
  <2>1. CASE turn' = turn BY <1>1, <2>1
  <2>2. CASE NextTurn(a) BY <1>1, <2>2 DEF NextTurn
  <2>3. CASE \E w : turn' = [turn EXCEPT ![a] = @ + 1, ![w] = turn[a]]
    <3>1. PICK w : turn' = [turn EXCEPT ![a] = @ + 1, ![w] = turn[a]] BY <2>3
    <3> DEFINE t == [turn EXCEPT ![a] = @ + 1]
    <3>2. t \in [Actors -> Nat] /\ turn[a] \in Nat BY <1>1
    <3>3. turn' = [t EXCEPT ![w] = turn[a]] BY <3>1
    <3> HIDE DEF t
    <3> QED BY <3>2, <3>3
  <2>4. CASE ForkChild(a) BY <2>3, <2>4 DEF ForkChild
  <2>5. CASE GiveUp(a) \/ Answer(a) BY <2>1, <2>2, <2>5 DEF GiveUp, Answer, Return
  <2>6. CASE CreateThread(a) \/ StartFails(a) BY <2>2, <2>6 DEF CreateThread, StartFails
  <2>7. CASE \/ OpenLog(a) \/ OpenFails(a) \/ CreatLog(a) \/ CreatFails(a) \/ WriteTime(a)
             \/ WriteText(a) \/ DropEntry(a) \/ Open404(a) \/ Read404(a) \/ Listen(a)
             \/ CheckFails(a) \/ EndSpawn(a) \/ StoreLog(a) \/ LogRequest(a) \/ Accept(a) \/ Die(a)
    BY <2>1, <2>7 DEF OpenLog, OpenFails, CreatLog, CreatFails, WriteTime, WriteText,
      DropEntry, Open404, Read404, Listen, CheckFails, EndSpawn, StoreLog, LogRequest, Accept, Die
  <2> QED BY <2>4, <2>5, <2>6, <2>7, Cases
<1> QED BY <1>2, <1>3, <1>4

LEMMA PlaceType ==
  ASSUME TypeOK, NEW a \in Actors, Acts(a)
  PROVE  pc' \in [Actors -> Labels]
<1>1. pc \in [Actors -> Labels] BY DEF TypeOK
<1>2. \A b, l : l \in Labels /\ pc' = [pc EXCEPT ![b] = l] => pc' \in [Actors -> Labels]
  BY <1>1
<1> USE <1>1, <1>2 DEF Goto, Labels
<1>3. CASE \/ OpenLog(a) \/ OpenFails(a) \/ CreatLog(a) \/ CreatFails(a) \/ WriteTime(a)
           \/ WriteText(a) \/ DropEntry(a)
  BY <1>3 DEF OpenLog, OpenFails, CreatLog, CreatFails, WriteTime, WriteText, DropEntry,
    Logged, EndEntry
<1>4. CASE Open404(a) BY <1>4 DEF Open404
<1>5. CASE Read404(a) BY <1>5 DEF Read404
<1>6. CASE Listen(a) \/ CheckFails(a) \/ EndSpawn(a) BY <1>6 DEF Listen, CheckFails, EndSpawn
<1>7. CASE CreateThread(a) BY <1>7 DEF CreateThread
<1>8. CASE ForkChild(a) BY <1>8 DEF ForkChild
<1>9. CASE StartFails(a) BY <1>9 DEF StartFails
<1>10. CASE StoreLog(a) \/ LogRequest(a) \/ Accept(a)
  BY <1>10 DEF StoreLog, LogRequest, Accept
<1>11. CASE GiveUp(a) \/ Answer(a)
  BY <1>11 DEF GiveUp, Answer, Return
<1>12. CASE Die(a) BY <1>12 DEF Die
<1> QED BY <1>3, <1>4, <1>5, <1>6, <1>7, <1>8, <1>9, <1>10, <1>11, <1>12, Cases

LEMMA TypeKept ==
  ASSUME TypeOK, StepsOK, UsedOK, NEW a \in Actors, Acts(a)
  PROVE  TypeOK'
<1>1. UNCHANGED setup BY SetupKept
<1>2. /\ config' \in Setups /\ limit' \in Limits /\ existed' \in BOOLEAN
      /\ mayFail' \in 0 .. MaxFailures
  BY <1>1 DEF setup, TypeOK
<1> QED BY <1>2, UsedType, FilesType, DescriptorsType, SizeType, TurnType, PlaceType,
           FailureSteps, ClientSteps DEF TypeOK
-----------------------------------------------------------------------------
(* Descriptors in use *)
\* A worker gets a connection in hand only by accepting it.
LEMMA HoldingSteps ==
  ASSUME TypeOK, NEW a \in Actors, Acts(a), NEW p \in Actors
  PROVE  /\ conn' = conn => Holding(p)' = Holding(p)
         /\ Left(a) => Holding(p)' = Holding(p) \ {a}
         /\ Accepted(a) => /\ Holding(p)' \subseteq Holding(p) \cup {a}
                           /\ Process(a) # p => Holding(p)' = Holding(p)
<1>1. \A w \in Workers : Process(w)' = Process(w)
  BY SetupKept, Frame DEF Actors
<1>2. conn \in [Actors -> BOOLEAN] /\ Workers \subseteq Actors BY DEF TypeOK, Actors
<1>3. Holding(p)' = {w \in Workers : Process(w) = p /\ conn'[w]} BY <1>1 DEF Holding
<1> QED BY <1>2, <1>3 DEF Holding, Left, Accepted

LEMMA CardLe ==
  ASSUME NEW T, IsFiniteSet(T), NEW S, S \subseteq T
  PROVE  Cardinality(S) <= Cardinality(T) /\ Cardinality(S) \in Nat /\ Cardinality(T) \in Nat
BY FS_Subset, FS_CardinalityType

\* The connections in hand are among the descriptors in use.
LEMMA ConnectionsKept ==
  ASSUME TypeOK, StepsOK, UsedOK, NEW a \in Actors, Acts(a), NEW p \in Actors
  PROVE  Cardinality(Holding(p)') <= used'[p]
<1>1. used \in [Actors -> 0 .. limit] /\ limit \in Nat BY SizesAssumption DEF TypeOK
<1>2. Cardinality(Holding(p)) <= used[p] BY DEF UsedOK
<1>3. IsFiniteSet(Holding(p)) /\ Cardinality(Holding(p)) \in Nat BY HoldingFinite
<1>4. Process(a) \in Actors BY ProcessOf DEF TypeOK
<1>5. used[p] \in Nat BY <1>1
<1>6. CASE Holding(p)' \subseteq Holding(p) /\ used'[p] \in Nat /\ used'[p] >= used[p]
  <2>1. Cardinality(Holding(p)') <= Cardinality(Holding(p)) /\ Cardinality(Holding(p)') \in Nat
    BY <1>3, <1>6, CardLe
  <2> QED BY <1>2, <1>3, <1>5, <1>6, <2>1
<1>7. CASE used' = used /\ (conn' = conn \/ Left(a))
  <2>1. Holding(p)' \subseteq Holding(p) BY <1>7, HoldingSteps
  <2> QED BY <1>5, <1>6, <1>7, <2>1
<1>8. CASE Take(a) /\ conn' = conn
  <2>1. Holding(p)' \subseteq Holding(p) BY <1>8, HoldingSteps
  <2>2. used'[p] \in Nat /\ used'[p] >= used[p] BY <1>1, <1>4, <1>5, <1>8 DEF Take
  <2> QED BY <1>6, <2>1, <2>2
<1>12. CASE Take(a) /\ Accepted(a)
  <2>1. CASE p = Process(a)
    <3>1. used'[p] = used[p] + 1 BY <1>12, <1>1, <2>1 DEF Take
    <3>2. IsFiniteSet(Holding(p) \cup {a})
          /\ Cardinality(Holding(p) \cup {a}) <= Cardinality(Holding(p)) + 1
      BY <1>3, FS_AddElement
    <3>4. Holding(p)' \subseteq Holding(p) \cup {a} BY <1>12, HoldingSteps
    <3>3. Cardinality(Holding(p)') <= Cardinality(Holding(p) \cup {a})
          /\ Cardinality(Holding(p)') \in Nat /\ Cardinality(Holding(p) \cup {a}) \in Nat
      BY <3>2, <3>4, CardLe
    <3> QED BY <1>2, <1>3, <1>5, <3>1, <3>2, <3>3
  <2>2. CASE p # Process(a)
    <3>1. used'[p] = used[p] BY <1>12, <1>1, <1>4, <2>2 DEF Take
    <3>2. Holding(p)' = Holding(p) BY <1>12, <2>2, HoldingSteps
    <3> QED BY <1>5, <1>6, <3>1, <3>2
  <2> QED BY <2>1, <2>2
<1>9. CASE GiveBack(a) /\ conn[a] /\ Left(a)
  <2>1. Holding(p)' = Holding(p) \ {a} BY <1>9, HoldingSteps
  <2>2. CASE p = Process(a)
    <3>1. used'[p] = used[p] - 1 BY <1>9, <1>1, <2>2 DEF GiveBack
    <3>2. a \in Holding(p) BY <1>9, <2>2 DEF Holding, Left
    <3>3. IsFiniteSet(Holding(p) \ {a})
          /\ Cardinality(Holding(p) \ {a}) = Cardinality(Holding(p)) - 1
      BY <1>3, <3>2, FS_RemoveElement
    <3> QED BY <1>2, <1>3, <1>5, <2>1, <3>1, <3>3
  <2>3. CASE p # Process(a)
    <3>1. used'[p] = used[p] BY <1>9, <1>1, <2>3 DEF GiveBack
    <3> QED BY <1>5, <1>6, <2>1, <3>1
  <2> QED BY <2>2, <2>3
<1>10. CASE a \in Servers /\ Listen(a) /\ conn' = conn
  <2>1. Holding(p)' \subseteq Holding(p) BY <1>10, HoldingSteps
  <2>2. used'[p] = used[p] \/ used'[p] = used[p] + Needs(a) BY <1>10, <1>1 DEF Listen
  <2>3. Needs(a) \in Nat BY DEF Needs
  <2>4. used'[p] \in Nat /\ used'[p] >= used[p] BY <1>5, <2>2, <2>3
  <2> QED BY <1>6, <2>1, <2>4
<1>11. CASE Forks(a)
  <2>2. PICK w \in Workers : pc[w] = "off" /\ used' = [used EXCEPT ![w] = used[a]]
    BY <1>11 DEF Forks
  <2>5. Holding(p)' = Holding(p) BY <1>11, HoldingSteps DEF Forks
  <2>3. CASE p # w
    <3>1. used'[p] = used[p] BY <1>1, <2>2, <2>3
    <3> QED BY <1>5, <1>6, <2>5, <3>1
  <2>4. CASE p = w
    <3>1. Holding(p)' = {}
      <4> SUFFICES ASSUME NEW v \in Holding(p) PROVE FALSE BY <2>5
      <4>2. v \in Workers /\ Process(v) = w /\ conn[v] BY <2>4 DEF Holding
      <4>3. w \notin Servers /\ v \in Actors BY <2>2, <4>2, ActorsAssumption DEF Actors
      <4>4. v = w BY <2>2, <4>2, <4>3, OwnProcess DEF TypeOK
      <4> QED BY <2>2, <4>2, <4>4 DEF StepsOK
    <3>2. used'[p] \in Nat BY <1>1, <2>2, <2>4
    <3>3. Cardinality(Holding(p)') = 0 BY <3>1, FS_EmptySet
    <3> QED BY <3>2, <3>3
  <2> QED BY <2>3, <2>4
<1> QED BY <1>7, <1>8, <1>9, <1>10, <1>11, <1>12, UsedSteps

\* Where the steps of another may take an actor.
LEMMA OthersMove ==
  ASSUME TypeOK, StepsOK, NEW a \in Actors, Acts(a)
  PROVE  /\ \A s \in Servers : s # a =>
              pc'[s] = pc[s] \/ (pc[s] \in {"spawn", "run"} /\ pc'[s] = "dead")
         /\ \A s \in Servers : pc'[s] = pc[s] \/ ServerStep(pc[s], pc'[s])
                               \/ (pc[s] \in {"spawn", "run"} /\ pc'[s] = "dead")
         /\ \A w \in Workers : w # a =>
              \/ pc'[w] = pc[w]
              \/ pc[w] = "off" /\ pc'[w] \in {"open 404", "serve"}
              \/ pc'[w] = "dead"
<1>1. /\ Servers \subseteq Actors /\ Workers \subseteq Actors /\ Servers \cap Workers = {}
  BY ActorsAssumption DEF Actors
<1>2. CASE a \in Servers /\ Moved(a) /\ ServerStep(pc[a], pc'[a])
  BY <1>1, <1>2 DEF Moved
<1>3. CASE a \in Workers /\ Moved(a)
  BY <1>1, <1>3 DEF Moved
<1>4. CASE \E w \in Workers : Started(a, w)
  BY <1>1, <1>4 DEF Started, StartedFor
<1>5. CASE a \in Workers /\ Died(a)
  <2>1. PICK s \in Servers :
          /\ Runs(a, s)
          /\ \/ config[s].mode = "threads" /\ Process(a) = s
             \/ config[s].mode = "processes" /\ Process(a) = a
    BY <1>5, WorkerOf DEF Died
  <2>2. \A b \in Actors : pc'[b] = IF Process(b) = Process(a) THEN "dead" ELSE pc[b]
    BY <1>5 DEF Died
  <2>3. \A r \in Servers : Process(r) = r BY ProcessOf DEF TypeOK
  <2>4. pc[s] \in {"spawn", "run"} BY <1>5, <2>1 DEF Runs, Died
  <2>5. \A r \in Servers : pc'[r] = pc[r] \/ (r = s /\ pc'[r] = "dead")
    BY <1>1, <1>5, <2>1, <2>2, <2>3
  <2>6. \A w \in Workers : pc'[w] = pc[w] \/ pc'[w] = "dead" BY <1>1, <2>2
  <2> QED BY <2>4, <2>5, <2>6
<1> QED BY <1>2, <1>3, <1>4, <1>5, Steps

\* Main never counts less, and one more when it takes a descriptor.
LEMMA MainTookSteps ==
  ASSUME TypeOK, StepsOK, NEW a \in Actors, Acts(a), NEW s \in Servers
  PROVE  /\ MainTook(s) \in 0 .. 3 /\ MainTook(s)' \in 0 .. 3
         /\ MainTook(s) <= MainTook(s)'
         /\ a = s /\ (Opened(s) \/ Listen(s)) => MainTook(s)' = MainTook(s) + 1
<1> DEFINE m == MainTook(s)
           n == MainTook(s)'
<1>1. m \in 0 .. 3 /\ n \in 0 .. 3 BY DEF MainTook
<1>2. s \in Actors /\ s \notin Workers BY ActorsAssumption DEF Actors
<1>3. m <= n
  <2>1. \/ pc'[s] = pc[s] \/ ServerStep(pc[s], pc'[s])
        \/ (pc[s] \in {"spawn", "run"} /\ pc'[s] = "dead")
    BY OthersMove
  <2>2. CASE pc'[s] = pc[s]
    <3>1. m = n BY <2>2 DEF MainTook
    <3> QED BY <1>1, <3>1
  <2>3. CASE ServerStep(pc[s], pc'[s])
    <3>1. pc[s] \in {"open log", "creat log"} => m = 0 BY DEF MainTook
    <3>2. pc[s] \in {"time", "text"} => m = 1 /\ n \in {1, 2}
      BY <2>3 DEF MainTook, ServerStep
    <3>3. pc[s] = "open 404" => m = 1 /\ n = 2 BY <2>3 DEF MainTook, ServerStep
    <3>4. pc[s] = "read 404" => m = 2 /\ n = 2 BY <2>3 DEF MainTook, ServerStep
    <3>5. pc[s] = "socket" => m = 2 /\ n = 3 BY <2>3 DEF MainTook, ServerStep
    <3>6. pc[s] = "spawn" => m = 3 /\ n = 3 BY <2>3 DEF MainTook, ServerStep
    <3>7. pc[s] \in {"open log", "creat log", "time", "text", "open 404", "read 404",
                     "socket", "spawn"}
      BY <2>3 DEF ServerStep
    <3> HIDE DEF m, n
    <3>8. m = 0 \/ (m = 1 /\ n \in {1, 2}) \/ (m = 2 /\ n \in {2, 3}) \/ (m = 3 /\ n = 3)
      BY <3>1, <3>2, <3>3, <3>4, <3>5, <3>6, <3>7, Zenon
    <3> QED BY <1>1, <3>8
  <2>4. CASE pc[s] \in {"spawn", "run"} /\ pc'[s] = "dead"
    <3>1. m = 3 /\ n = 3 BY <2>4 DEF MainTook
    <3> QED BY <3>1
  <2> QED BY <2>1, <2>2, <2>3, <2>4
<1>4. Opened(s) \/ Listen(s) => n = m + 1
  <2>1. Logging(s) /\ pc'[s] = Logged(s) => m = 0 /\ n = 1
    BY DEF MainTook, Logging, Logged
  <2>2. pc[s] = "open 404" /\ pc'[s] = "read 404" => m = 1 /\ n = 2 BY DEF MainTook
  <2>3. Listen(s) => m = 2 /\ n = 3
    <3> SUFFICES ASSUME Listen(s) PROVE m = 2 /\ n = 3 OBVIOUS
    <3>1. pc[s] = "socket" /\ pc'[s] \in {"ended", "spawn"}
      BY <1>2 DEF Listen, Goto, TypeOK
    <3> QED BY <3>1 DEF MainTook
  <2>4. m = 0 /\ n = 1 => n = m + 1 OBVIOUS
  <2>5. m = 1 /\ n = 2 => n = m + 1 OBVIOUS
  <2>6. m = 2 /\ n = 3 => n = m + 1 OBVIOUS
  <2> HIDE DEF m, n
  <2> QED BY <2>1, <2>2, <2>3, <2>4, <2>5, <2>6, Zenon DEF Opened
<1> QED BY <1>1, <1>3, <1>4

\* What main of a server has taken, and that nobody else takes before it
\* starts workers.
LEMMA MainKept ==
  ASSUME TypeOK, StepsOK, UsedOK, NEW a \in Actors, Acts(a), NEW s \in Servers,
         pc'[s] \notin {"spawn", "run", "ended", "dead"}
  PROVE  used'[s] <= MainTook(s)'
<1> DEFINE m == MainTook(s)
           n == MainTook(s)'
<1>1. used \in [Actors -> 0 .. limit] /\ limit \in Nat BY SizesAssumption DEF TypeOK
<1>2. s \in Actors /\ s \notin Workers BY ActorsAssumption DEF Actors
<1>3. used[s] \in Nat BY <1>1, <1>2
<1>4. pc[s] \notin {"spawn", "run", "ended", "dead"}
  BY OthersMove DEF ServerStep
<1>5. used[s] <= m BY <1>4 DEF UsedOK
<1>6. m \in 0 .. 3 /\ n \in 0 .. 3 /\ m <= n BY MainTookSteps
<1>7. CASE used'[s] = used[s]
  <2> HIDE DEF m, n
  <2>1. used'[s] <= n BY <1>3, <1>5, <1>6, <1>7
  <2> QED BY <2>1 DEF n
<1>8. CASE used'[s] = used[s] + 1 /\ n = m + 1
  <2> HIDE DEF m, n
  <2>1. used'[s] <= n BY <1>3, <1>5, <1>6, <1>8
  <2> QED BY <2>1 DEF n
<1>9. Listen(a) => pc'[a] \in {"ended", "spawn"} BY DEF Listen, Goto, TypeOK
<1>12. Forks(a) => used'[s] = used[s] BY <1>1, <1>2 DEF Forks
<1>10. CASE a = s
  <2>1. CASE Take(s) /\ Opened(s)
    <3>1. used'[s] = used[s] + 1 BY <1>1, <1>2, <2>1, ProcessOf DEF Take, TypeOK
    <3> QED BY <1>8, <1>10, <2>1, <3>1, MainTookSteps
  <2>2. ~Accepted(s) /\ ~Left(s) BY <1>2 DEF Accepted, Left
  <2> QED BY <1>7, <1>9, <1>10, <1>12, <2>1, <2>2, UsedSteps
<1>11. CASE a # s
  <2>1. pc[a] # "off" => Process(a) # s /\ Process(a) \in Actors
    <3>1. CASE a \in Servers BY <3>1, <1>11, ProcessOf DEF TypeOK, Actors
    <3>2. CASE a \in Workers /\ pc[a] # "off"
      <4>1. Process(a) # s BY <3>2, <1>2, <1>4, WorkerOf DEF Runs
      <4> QED BY <4>1, ProcessOf DEF TypeOK
    <3> QED BY <3>1, <3>2 DEF Actors
  <2>2. pc[a] # "off" => (Take(a) \/ GiveBack(a) => used'[s] = used[s])
    BY <1>1, <1>2, <2>1 DEF Take, GiveBack
  <2>3. a \in Servers /\ Listen(a) => used'[s] = used[s]
    BY <1>1, <1>2, <1>11 DEF Listen
  <2>4. Opened(a) \/ Accepted(a) \/ (conn[a] /\ Left(a)) => pc[a] # "off"
    BY DEF Opened, Accepted, Left, Logging, StepsOK
  <2> QED BY <1>7, <1>12, <2>2, <2>3, <2>4, UsedSteps
<1> QED BY <1>10, <1>11

\* A thread never counts less, and one more when it takes a descriptor that is
\* not a connection.
LEMMA ThreadTookSteps ==
  ASSUME TypeOK, StepsOK, NEW a \in Actors, Acts(a), NEW w \in Workers
  PROVE  /\ ThreadTook(w) \in 0 .. 2 /\ ThreadTook(w)' \in 0 .. 2
         /\ ThreadTook(w) <= ThreadTook(w)'
         /\ w = a /\ Opened(a) => ThreadTook(w) + 1 <= ThreadTook(w)'
<1> DEFINE x == ThreadTook(w)
           y == ThreadTook(w)'
<1>1. x \in 0 .. 2 /\ y \in 0 .. 2 BY DEF ThreadTook
<1>2. w \in Actors /\ w \notin Servers BY ActorsAssumption DEF Actors
<1>3. \/ pc'[w] = pc[w]
      \/ pc[w] = "off"
      \/ pc'[w] = "dead"
      \/ pc[w] = "open 404" /\ pc'[w] = "read 404"
      \/ pc[w] \in {"read 404", "open log", "creat log"}
           /\ pc'[w] \notin {"off", "open 404"}
      \/ pc'[w] \notin {"off", "open 404", "read 404", "open log", "creat log"}
  <2>1. CASE w # a BY <2>1, OthersMove
  <2>2. CASE w = a
    <3>1. CASE WorkerStep(pc[w], pc'[w]) BY <3>1 DEF WorkerStep
    <3>2. CASE Died(a) BY <1>2, <2>2, <3>2 DEF Died
    <3>3. CASE \E v \in Workers : Started(a, v)
      BY <1>2, <2>2, <3>3 DEF Started, StartedFor, Leads
    <3> QED BY <1>2, <2>2, <3>1, <3>2, <3>3, Steps
  <2> QED BY <2>1, <2>2
<1>4. x = y \/ x = 0 \/ (x = 1 /\ y \in {1, 2}) \/ y = 2
  BY <1>3 DEF ThreadTook
<1>5. x <= y
  <2> HIDE DEF x, y
  <2> QED BY <1>1, <1>4
<1>6. ASSUME w = a, Opened(a) PROVE x + 1 <= y
  <2>1. CASE Logging(w) /\ pc'[w] = "serve"
    <3>1. x = 1 /\ y = 2 BY <2>1 DEF ThreadTook, Logging
    <3> HIDE DEF x, y
    <3> QED BY <3>1
  <2>2. CASE pc[w] = "open 404" /\ pc'[w] = "read 404"
    <3>1. x = 0 /\ y = 1 BY <2>2 DEF ThreadTook
    <3> HIDE DEF x, y
    <3> QED BY <3>1
  <2> QED BY <1>2, <1>6, <2>1, <2>2 DEF Opened, Logged
<1> QED BY <1>1, <1>5, <1>6

LEMMA TeamFinite ==
  ASSUME config \in Setups, NEW s \in Servers
  PROVE  LET n == Cardinality(config[s].team) IN
           /\ n \in Nat /\ IsFiniteSet(config[s].team \X (1 .. 2))
           /\ Cardinality(config[s].team \X (1 .. 2)) = n * 2
<1> DEFINE W == config[s].team
<1>2. IsFiniteSet(W) BY SetupType, ActorsAssumption, FS_Subset
<1>3. Cardinality(W) \in Nat BY <1>2, FS_CardinalityType
<1>1. \A k \in Nat : IsFiniteSet(1 .. k) /\ Cardinality(1 .. k) = k BY FS_Interval
<1>4. IsFiniteSet(1 .. 2) /\ Cardinality(1 .. 2) = 2 BY <1>1
<1> HIDE DEF W
<1>5. IsFiniteSet(W \X (1 .. 2)) /\ Cardinality(W \X (1 .. 2)) = Cardinality(W) * 2
  BY <1>2, <1>4, FS_Product
<1> QED BY <1>3, <1>5 DEF W

\* What the threads of a server have taken, and the server.
LEMMA TeamKept ==
  ASSUME TypeOK, StepsOK, UsedOK, NEW a \in Actors, Acts(a), NEW s \in Servers,
         config[s].mode = "threads"
  PROVE  used'[s] <= MainTook(s)' + Cardinality(TeamTook(s)') + (MaxClients - clients')
<1> DEFINE W == config[s].team
           T == TeamTook(s)
           U == TeamTook(s)'
           m == MainTook(s)
           n == MainTook(s)'
           c == MaxClients - clients
           d == MaxClients - clients'
<1>1. used \in [Actors -> 0 .. limit] /\ limit \in Nat BY SizesAssumption DEF TypeOK
<1>2. s \in Actors /\ s \notin Workers BY ActorsAssumption DEF Actors
<1>3. used[s] \in Nat BY <1>1, <1>2
<1>4. config' = config /\ config \in Setups BY SetupKept DEF setup, TypeOK
<1>5. W \subseteq Workers BY <1>4, SetupType
<1>6. IsFiniteSet(W \X (1 .. 2)) BY <1>4, TeamFinite
<1>7. T = {t \in W \X (1 .. 2) : t[2] <= ThreadTook(t[1])} BY DEF TeamTook
<1>8. U = {t \in W \X (1 .. 2) : t[2] <= ThreadTook(t[1])'} BY <1>4 DEF TeamTook
<1>9. T \subseteq U
  <2> SUFFICES ASSUME NEW t \in W \X (1 .. 2), t[2] <= ThreadTook(t[1])
               PROVE  t[2] <= ThreadTook(t[1])'
    BY <1>7, <1>8
  <2>1. t[1] \in Workers /\ t[2] \in Int BY <1>5
  <2>2. /\ ThreadTook(t[1]) \in 0 .. 2 /\ ThreadTook(t[1])' \in 0 .. 2
        /\ ThreadTook(t[1]) <= ThreadTook(t[1])'
    BY <2>1, ThreadTookSteps
  <2> QED BY <2>1, <2>2
<1>10. IsFiniteSet(T) /\ IsFiniteSet(U) BY <1>6, <1>7, <1>8, FS_Subset
<1>11. Cardinality(T) <= Cardinality(U) /\ Cardinality(T) \in Nat /\ Cardinality(U) \in Nat
  BY <1>9, <1>10, CardLe
<1>12. used[s] <= m + Cardinality(T) + c BY DEF UsedOK
<1>13. m \in 0 .. 3 /\ n \in 0 .. 3 /\ m <= n BY MainTookSteps
<1>24. c \in Nat /\ d \in Nat /\ c <= d
  <2>1. clients \in 0 .. MaxClients /\ MaxClients \in Nat BY SizesAssumption DEF TypeOK
  <2>2. clients' \in 0 .. MaxClients /\ clients' <= clients BY ClientSteps
  <2>3. \A k \in Nat : \A i, j \in 0 .. k : j <= i => k - i \in Nat /\ k - j \in Nat /\ k - i <= k - j
    OBVIOUS
  <2> QED BY <2>1, <2>2, <2>3
<1>14. SUFFICES used'[s] <= n + Cardinality(U) + d OBVIOUS
<1>15. CASE used'[s] \in Nat /\ used'[s] <= used[s]
  <2> HIDE DEF m, n, T, U, c, d
  <2> QED BY <1>3, <1>11, <1>12, <1>13, <1>15, <1>24
<1>16. CASE used'[s] = used[s] + 1 /\ n = m + 1
  <2> HIDE DEF m, n, T, U, c, d
  <2> QED BY <1>3, <1>11, <1>12, <1>13, <1>16, <1>24
<1>17. CASE used'[s] = used[s] + 1 /\ Cardinality(T) + 1 <= Cardinality(U)
  <2> HIDE DEF m, n, T, U, c, d
  <2> QED BY <1>3, <1>11, <1>12, <1>13, <1>17, <1>24
<1>25. CASE used'[s] = used[s] + 1 /\ d = c + 1
  <2> HIDE DEF m, n, T, U, c, d
  <2> QED BY <1>3, <1>11, <1>12, <1>13, <1>24, <1>25
<1>18. CASE used' = used BY <1>3, <1>15, <1>18
<1>26. Process(a) \in Actors BY <1>4, ProcessOf
<1>27. CASE Take(a) /\ Process(a) # s
  <2>1. used'[s] = used[s] BY <1>1, <1>2, <1>26, <1>27 DEF Take
  <2> QED BY <1>3, <1>15, <2>1
<1>19. CASE Take(a) /\ Opened(a) /\ Process(a) = s
  <2>1. used'[s] = used[s] + 1 BY <1>1, <1>2, <1>19 DEF Take
  <2>2. CASE a \in Servers
    <3>1. a = s BY <1>4, <1>19, <2>2, ProcessOf
    <3> QED BY <1>2, <1>16, <1>19, <2>1, <3>1, MainTookSteps
  <2>3. CASE a \in Workers
    <3>9. pc[a] # "off" BY <1>19 DEF Opened, Logging
    <3>1. a \in W
      <4>1. \E r \in Servers : /\ a \in config[r].team /\ config[r].mode \in {"threads", "processes"}
                               /\ Process(a) = r \/ Process(a) = a
        BY <2>3, <3>9, WorkerOf DEF Runs
      <4>2. a # s BY <1>2, <2>3
      <4> QED BY <1>19, <4>1, <4>2
    <3>2. /\ ThreadTook(a) \in 0 .. 2 /\ ThreadTook(a)' \in 0 .. 2
          /\ ThreadTook(a) + 1 <= ThreadTook(a)'
      BY <1>19, <2>3, ThreadTookSteps
    <3> DEFINE e == <<a, ThreadTook(a) + 1>>
    <3>3. e \in W \X (1 .. 2) /\ e[1] = a /\ e[2] = ThreadTook(a) + 1
      <4>1. ThreadTook(a) + 1 \in 1 .. 2 BY <3>2
      <4> HIDE DEF W
      <4> QED BY <3>1, <4>1
    <3>4. e \in U BY <1>8, <3>2, <3>3
    <3>5. e \notin T
      <4>1. ~(ThreadTook(a) + 1 <= ThreadTook(a)) BY <3>2
      <4> QED BY <1>7, <3>3, <4>1
    <3> HIDE DEF e, T, U
    <3>6. Cardinality(T \cup {e}) = Cardinality(T) + 1 /\ T \cup {e} \subseteq U
      BY <1>9, <1>10, <3>4, <3>5, FS_AddElement
    <3>7. Cardinality(T) + 1 <= Cardinality(U) BY <1>10, <3>6, CardLe
    <3> QED BY <1>17, <2>1, <3>7
  <2> QED BY <2>2, <2>3 DEF Actors
<1>28. CASE Take(a) /\ Accepted(a) /\ Process(a) = s
  <2>1. used'[s] = used[s] + 1 BY <1>1, <1>2, <1>28 DEF Take
  <2>2. d = c + 1
    <3>1. clients \in 0 .. MaxClients /\ MaxClients \in Nat BY SizesAssumption DEF TypeOK
    <3>2. clients' = clients - 1 BY <1>28 DEF Accepted
    <3> QED BY <3>1, <3>2
  <2> QED BY <1>25, <2>1, <2>2
<1>20. CASE GiveBack(a) /\ conn[a] /\ Left(a)
  <2>1. used[Process(a)] >= 1 BY <1>20, ConnectionUsed DEF Left
  <2> QED BY <1>1, <1>2, <1>3, <1>15, <1>20, <1>26, <2>1 DEF GiveBack
<1>21. CASE a \in Servers /\ Listen(a)
  <2>1. CASE a = s
    <3>1. Needs(s) = 1 BY DEF Needs
    <3>2. used'[s] = used[s] + 1 BY <1>1, <1>2, <1>21, <2>1, <3>1 DEF Listen
    <3> QED BY <1>16, <1>21, <2>1, <3>2, MainTookSteps
  <2>2. CASE a # s
    <3>1. used'[s] = used[s] BY <1>1, <1>2, <1>21, <2>2 DEF Listen
    <3> QED BY <1>3, <1>15, <3>1
  <2> QED BY <2>1, <2>2
<1>22. CASE Forks(a)
  <2>1. used'[s] = used[s] BY <1>1, <1>2, <1>22 DEF Forks
  <2> QED BY <1>3, <1>15, <2>1
<1> QED BY <1>18, <1>19, <1>20, <1>21, <1>22, <1>27, <1>28, UsedSteps

LEMMA UsedKept ==
  ASSUME TypeOK, StepsOK, UsedOK, NEW a \in Actors, Acts(a)
  PROVE  UsedOK'
<1>1. config' = config BY SetupKept DEF setup
<1> QED BY <1>1, ConnectionsKept, MainKept, TeamKept DEF UsedOK

\* Enough is enough: whoever comes to open the log can do so, whatever the
\* other threads have taken by then.
LEMMA Room ==
  ASSUME TypeOK, StepsOK, UsedOK, AllEnough, NEW a \in Actors, Logging(a)
  PROVE  HasRoom(a)
<1>1. used \in [Actors -> 0 .. limit] /\ limit \in Nat BY SizesAssumption DEF TypeOK
<1>2. config \in Setups /\ Process(a) \in Actors BY ProcessOf DEF TypeOK
<1>3. clients \in 0 .. MaxClients /\ MaxClients \in Nat BY SizesAssumption DEF TypeOK
<1> DEFINE X(s) == config[s].team \X (1 .. 2)
<1>4. \A s \in Servers :
        /\ IsFiniteSet(X(s)) /\ Cardinality(X(s)) \in Nat
        /\ limit >= 1
        /\ config[s].mode = "threads" => limit >= 3 + Cardinality(X(s)) + MaxClients
  <2> TAKE s \in Servers
  <2> DEFINE n == Cardinality(config[s].team)
  <2>1. n \in Nat /\ IsFiniteSet(X(s)) /\ Cardinality(X(s)) = n * 2
    BY <1>2, TeamFinite
  <2>2. Cardinality(X(s)) \in Nat BY <2>1, FS_CardinalityType
  <2>3. limit >= IF config[s].mode = "threads" THEN 3 + 2 * n + MaxClients ELSE 1
    BY DEF AllEnough, Enough
  <2> HIDE DEF n, X
  <2>4. limit >= 1 BY <1>1, <1>3, <2>1, <2>3
  <2>5. config[s].mode = "threads" => limit >= 3 + Cardinality(X(s)) + MaxClients
    BY <2>1, <2>3
  <2> QED BY <2>1, <2>2, <2>4, <2>5
<1>5. CASE a \in Servers
  <2>1. Process(a) = a BY <1>2, <1>5, ProcessOf
  <2>2. used[a] <= MainTook(a) BY <1>5 DEF UsedOK, Logging
  <2>3. MainTook(a) = 0 BY DEF MainTook, Logging
  <2>4. limit >= 1 BY <1>4, <1>5
  <2> QED BY <1>1, <2>1, <2>2, <2>3, <2>4 DEF HasRoom
<1>6. CASE a \in Workers
  <2>1. PICK s \in Servers :
          a \in config[s].team /\ config[s].mode = "threads" /\ Process(a) = s
    <3>1. pc[a] \notin {"off", "spawn", "run", "dead"} /\ ~Ready(a) BY DEF Logging, Ready
    <3> QED BY <1>6, <3>1, WorkerOf DEF Runs
  <2>2. ThreadTook(a) = 1 BY DEF ThreadTook, Logging
  <2> DEFINE T == TeamTook(s)
             e == <<a, 2>>
  <2>3. e \in X(s) BY <2>1
  <2>4. T \subseteq X(s) \ {e}
    <3>1. T \subseteq X(s) BY DEF TeamTook
    <3>2. e \in T => 2 <= ThreadTook(a) BY DEF TeamTook
    <3> QED BY <2>2, <3>1, <3>2
  <2>5. IsFiniteSet(X(s)) /\ Cardinality(X(s)) \in Nat BY <1>4
  <2> DEFINE c == MaxClients - clients
  <2>8. used[s] <= MainTook(s) + Cardinality(T) + c BY <2>1 DEF UsedOK
  <2>10. limit >= 3 + Cardinality(X(s)) + MaxClients BY <1>4, <2>1
  <2> HIDE DEF T, e, X
  <2>6. Cardinality(X(s) \ {e}) = Cardinality(X(s)) - 1 /\ IsFiniteSet(X(s) \ {e})
    BY <2>3, <2>5, FS_RemoveElement
  <2>7. Cardinality(T) <= Cardinality(X(s)) - 1 /\ Cardinality(T) \in Nat
    BY <2>4, <2>6, CardLe
  <2>9. MainTook(s) \in 0 .. 3 BY DEF MainTook
  <2>11. used[s] \in Nat BY <1>1, <1>2, <2>1
  <2>13. c \in Nat /\ c <= MaxClients
    <3>1. \A k \in Nat : \A i \in 0 .. k : k - i \in Nat /\ k - i <= k OBVIOUS
    <3> QED BY <1>3, <3>1
  <2>12. used[s] < limit
    <3> HIDE DEF MainTook, c
    <3> QED BY <1>1, <1>3, <2>5, <2>7, <2>8, <2>9, <2>10, <2>11, <2>13
  <2> QED BY <2>1, <2>12 DEF HasRoom
<1> QED BY <1>5, <1>6 DEF Actors

\* So nobody goes on without the log, unless a call fails, or it is not there.
LEMMA NoLack ==
  ASSUME TypeOK, StepsOK, UsedOK, AllEnough, NEW a \in Actors, Acts(a), Logging(a),
         failures' = 0
  PROVE  ~CreatFails(a) /\ (OpenFails(a) => ~log.exists)
<1>1. HasRoom(a) BY Room
<1>2. failures \in Nat BY SizesAssumption DEF TypeOK
<1>3. ~Fail(a)
  <2>1. Fail(a) => failures' = failures + 1 BY <1>1 DEF Fail
  <2> QED BY <1>2, <2>1
<1>4. CreatFails(a) => Fail(a) BY DEF CreatFails
<1>5. OpenFails(a) /\ log.exists => Fail(a) BY DEF OpenFails
<1> QED BY <1>3, <1>4, <1>5
-----------------------------------------------------------------------------
(* Nobody is without a descriptor for the log *)
LEMMA OpenedKept ==
  ASSUME TypeOK, StepsOK, UsedOK, OpenedOK, NEW a \in Actors, Acts(a)
  PROVE  OpenedOK'
<1> DEFINE Given ==
      /\ \A b \in Actors : Writing(b) => entry[b] # None
      /\ \A w \in Workers : Ready(w) \/ pc[w] = "spawn" => fd[w] # None
      /\ \A s \in Servers : pc[s] # "off" /\ ~Logging(s) => fd[s] # None
      /\ \A w \in Workers : pc[w] = "request" => global[Process(w)] # None
      /\ dropped = {}
<1>1. UNCHANGED setup /\ \A w \in Workers : Process(w)' = Process(w)
  BY SetupKept, Frame DEF Actors
<1>2. AllEnough' = AllEnough BY <1>1, Frame
<1>3. SUFFICES ASSUME failures' = 0, AllEnough PROVE Given'
  BY <1>2 DEF OpenedOK
<1>4. Given
  <2>1. failures = 0 BY <1>3, FailureSteps
  <2> QED BY <1>3, <2>1 DEF OpenedOK
<1>5. /\ pc \in [Actors -> Labels]
      /\ fd \in [Actors -> Actors \cup {None}]
      /\ entry \in [Actors -> Actors \cup {None}]
      /\ global \in [Actors -> Actors \cup {None}]
  BY DEF TypeOK
<1>6. /\ None \notin Actors /\ Servers \subseteq Actors /\ Workers \subseteq Actors
      /\ Servers \cap Workers = {}
  BY ActorsAssumption DEF Actors
<1>7. \A w \in Workers : Process(w) \in Actors BY <1>6, ProcessOf DEF TypeOK
<1> USE <1>1, <1>4, <1>5, <1>6, <1>7 DEF Goto, Writing, Ready, Logging
<1>8. CASE OpenLog(a) \/ CreatLog(a)
  <2>1. /\ fd' = [fd EXCEPT ![a] = a] /\ entry' = [entry EXCEPT ![a] = a]
        /\ pc' = [pc EXCEPT ![a] = Logged(a)] /\ global' = global /\ dropped' = dropped
    BY <1>8 DEF OpenLog, CreatLog
  <2> QED BY <2>1 DEF Logged
<1>9. CASE OpenFails(a)
  <2>1. /\ UNCHANGED <<fd, entry, global, dropped>>
        /\ pc[a] = "open log" /\ pc' = [pc EXCEPT ![a] = "creat log"]
    BY <1>9 DEF OpenFails
  <2> QED BY <2>1
<1>10. ~CreatFails(a)
  <2> SUFFICES ASSUME CreatFails(a) PROVE FALSE OBVIOUS
  <2>1. pc[a] = "creat log" BY DEF CreatFails
  <2>2. Logging(a) BY <2>1
  <2> HIDE DEF Logging
  <2> QED BY <1>3, <2>2, NoLack
<1>11. CASE WriteTime(a) BY <1>11 DEF WriteTime
<1>12. CASE WriteText(a) BY <1>12 DEF WriteText, EndEntry
<1>13. CASE DropEntry(a) BY <1>13 DEF DropEntry
<1>14. CASE Open404(a)
  <2>1. UNCHANGED <<fd, entry, global, dropped>> BY <1>14 DEF Open404, files
  <2>2. pc[a] = "open 404" /\ pc' = [pc EXCEPT ![a] = "read 404"] BY <1>14 DEF Open404
  <2> QED BY <2>1, <2>2
<1>15. CASE Read404(a)
  <2>1. UNCHANGED <<fd, entry, global, dropped>> BY <1>15 DEF Read404, files
  <2>2. CASE pc' = pc BY <2>1, <2>2
  <2>3. CASE a \in Servers /\ pc[a] = "read 404" /\ pc' = [pc EXCEPT ![a] = "socket"]
    BY <2>1, <2>3
  <2>4. CASE a \in Workers /\ pc' = [pc EXCEPT ![a] = "open log"] BY <2>1, <2>4
  <2> QED BY <1>15, <2>2, <2>3, <2>4 DEF Read404, Actors
<1>16. CASE a \in Servers /\ (Listen(a) \/ CheckFails(a))
  <2>1. /\ pc[a] = "socket" /\ UNCHANGED <<fd, entry, global, dropped>>
        /\ \E l \in {"spawn", "ended"} : pc' = [pc EXCEPT ![a] = l]
    BY <1>16 DEF Listen, CheckFails, files
  <2> QED BY <1>16, <2>1
<1>17. CASE a \in Servers /\ CreateThread(a)
  <2>1. PICK w \in config[a].team : pc' = [pc EXCEPT ![w] = "open 404"]
    BY <1>17 DEF CreateThread
  <2>2. w \in Workers BY <1>17, SetupType DEF TypeOK
  <2>3. UNCHANGED <<fd, entry, global, dropped>> BY <1>17 DEF CreateThread, files
  <2> QED BY <2>1, <2>2, <2>3
<1>18. CASE ForkChild(a)
  <2>1. PICK s \in Servers :
          /\ pc[a] = "spawn"
          /\ \E w \in config[s].team :
               /\ pc' = [pc EXCEPT ![w] = "serve"] /\ fd' = [fd EXCEPT ![w] = fd[a]]
               /\ pc[w] = "off" /\ global' = [global EXCEPT ![w] = global[a]]
    BY <1>18 DEF ForkChild, Leads
  <2>2. PICK w \in config[s].team :
          /\ pc' = [pc EXCEPT ![w] = "serve"] /\ fd' = [fd EXCEPT ![w] = fd[a]]
          /\ pc[w] = "off" /\ global' = [global EXCEPT ![w] = global[a]]
    BY <2>1
  <2>3. w \in Workers BY SetupType DEF TypeOK
  <2>4. UNCHANGED <<entry, dropped>> BY <1>18 DEF ForkChild
  <2>5. fd[a] # None BY <2>1 DEF Actors
  <2>6. \A v \in Workers : Process(v) = w => v = w BY <2>3, OwnProcess DEF TypeOK
  <2>7. \A v \in Workers : pc'[v] = "request" => global'[Process(v)] # None
    BY <2>2, <2>3, <2>6
  <2>8. \A b \in Actors : pc'[b] = pc[b] \/ (b = w /\ pc'[b] = "serve") BY <2>2
  <2>9. \A b \in Actors : fd'[b] = fd[b] \/ (b = w /\ fd'[b] # None) BY <2>2, <2>5
  <2>10. fd'[w] # None BY <2>2, <2>3, <2>5
  <2> QED BY <2>3, <2>4, <2>7, <2>8, <2>9, <2>10
<1>19. CASE StartFails(a)
  <2>1. UNCHANGED <<fd, entry, global, dropped, pc>> BY <1>19 DEF StartFails, files
  <2> QED BY <2>1
<1>20. CASE EndSpawn(a)
  <2>1. /\ pc[a] = "spawn" /\ pc' = [pc EXCEPT ![a] = "run"]
        /\ UNCHANGED <<fd, entry, global, dropped>>
    BY <1>20 DEF EndSpawn, Leads, files
  <2> QED BY <2>1 DEF Actors
<1>21. CASE a \in Workers /\ StoreLog(a)
  <2>1. PICK v \in Workers : Ready(v) /\ global' = [global EXCEPT ![Process(a)] = fd[v]]
    BY <1>21 DEF StoreLog
  <2>2. /\ pc[a] = "store" /\ pc' = [pc EXCEPT ![a] = "request"]
        /\ UNCHANGED <<fd, entry, dropped>>
    BY <1>21 DEF StoreLog, files
  <2>3. fd[v] # None BY <2>1
  <2>4. \A w \in Workers : pc'[w] = "request" => global'[Process(w)] # None
    BY <1>21, <2>1, <2>2, <2>3
  <2> QED BY <1>21, <2>2, <2>4
<1>22. CASE a \in Workers /\ LogRequest(a)
  <2>1. /\ pc[a] = "request" /\ pc' = [pc EXCEPT ![a] = "time"]
        /\ entry' = [entry EXCEPT ![a] = global[Process(a)]]
        /\ UNCHANGED <<fd, global, dropped>>
    BY <1>22 DEF LogRequest, files
  <2> QED BY <1>22, <2>1
<1>23. CASE a \in Workers /\ Accept(a)
  <2>1. /\ pc[a] = "serve" /\ pc' = [pc EXCEPT ![a] = "time"]
        /\ entry' = [entry EXCEPT ![a] = fd[a]]
        /\ UNCHANGED <<fd, global, dropped>>
    BY <1>23 DEF Accept, files
  <2> QED BY <1>23, <2>1
<1>24. CASE a \in Workers /\ (GiveUp(a) \/ Answer(a))
  <2>1. /\ pc[a] \in {"request", "answer"}
        /\ pc' = [pc EXCEPT ![a] = "spawn"] \/ pc' = [pc EXCEPT ![a] = "serve"]
    BY <1>24 DEF GiveUp, Answer, Return
  <2>2. UNCHANGED <<fd, entry, global, dropped>> BY <1>24 DEF GiveUp, Answer, files
  <2>3. a \in Workers BY <1>24
  <2>4. CASE pc' = [pc EXCEPT ![a] = "spawn"] BY <2>1, <2>2, <2>3, <2>4
  <2>5. CASE pc' = [pc EXCEPT ![a] = "serve"] BY <2>1, <2>2, <2>3, <2>5
  <2> QED BY <2>1, <2>4, <2>5
<1>25. CASE a \in Workers /\ Die(a)
  <2>1. UNCHANGED <<fd, entry, global, dropped>> BY <1>25 DEF Die, files
  <2>2. \A b \in Actors : pc'[b] = pc[b] \/ pc'[b] = "dead" BY <1>25 DEF Die
  <2>3. \A s \in Servers : pc'[s] = pc[s] \/ pc[s] \in {"spawn", "run"}
    BY <1>25, OthersMove
  <2> QED BY <2>1, <2>2, <2>3
<1> QED BY <1>8, <1>9, <1>10, <1>11, <1>12, <1>13, <1>14, <1>15, <1>16, <1>17, <1>18,
           <1>19, <1>20, <1>21, <1>22, <1>23, <1>24, <1>25, Cases

-----------------------------------------------------------------------------
(* The size of the 404 page *)
\* Only the steps of the loop, and a fork, touch the size.
LEMMA SizeSteps ==
  ASSUME TypeOK, NEW a \in Actors, Acts(a)
  PROVE  \/ Open404(a) \/ Read404(a) \/ ForkChild(a)
         \/ UNCHANGED <<size404, fd404>> /\ pc[a] \notin {"open 404", "read 404"}
<1>1. CASE \/ OpenLog(a) \/ OpenFails(a) \/ CreatLog(a) \/ CreatFails(a) \/ WriteTime(a)
           \/ WriteText(a) \/ DropEntry(a)
  BY <1>1 DEF OpenLog, OpenFails, CreatLog, CreatFails, WriteTime, WriteText, DropEntry
<1>2. CASE Listen(a) \/ CheckFails(a) \/ CreateThread(a) \/ StartFails(a) \/ EndSpawn(a)
  BY <1>2 DEF Listen, CheckFails, CreateThread, StartFails, EndSpawn, Leads
<1>3. CASE StoreLog(a) \/ LogRequest(a) \/ Accept(a) \/ GiveUp(a) \/ Answer(a) \/ Die(a)
  BY <1>3 DEF StoreLog, LogRequest, Accept, GiveUp, Answer, Die
<1> QED BY <1>1, <1>2, <1>3, Cases

\* A fork apart, nobody comes past the loop but by leaving it.
LEMMA MeasuredSteps ==
  ASSUME TypeOK, StepsOK, NEW a \in Actors, Acts(a), pc[a] \notin {"open 404", "read 404"},
         ~ForkChild(a), NEW b \in Actors
  PROVE  /\ Measured(b)' => Measured(b)
         /\ pc'[b] \notin {"ended", "dead"} /\ ~Measured(b)' => pc[b] \notin {"ended", "dead"} /\ ~Measured(b)
         /\ pc'[b] = "read 404" <=> pc[b] = "read 404" /\ pc'[b] # "dead"
<1>1. /\ Servers \subseteq Actors /\ Workers \subseteq Actors /\ Servers \cap Workers = {}
      /\ b \in Servers \/ b \in Workers
  BY ActorsAssumption DEF Actors
<1> DEFINE Goal == /\ Measured(b)' => Measured(b)
                   /\ pc'[b] \notin {"ended", "dead"} /\ ~Measured(b)' => pc[b] \notin {"ended", "dead"} /\ ~Measured(b)
                   /\ pc'[b] = "read 404" <=> pc[b] = "read 404" /\ pc'[b] # "dead"
<1>2. CASE pc'[b] = pc[b] BY <1>2 DEF Measured, Ready, Logging
<1>3. CASE pc'[b] = "dead" BY <1>1, <1>3 DEF Measured, Ready, Logging
<1>4. CASE b \in Servers /\ ServerStep(pc[b], pc'[b]) /\ pc[b] \notin {"open 404", "read 404"}
  BY <1>4, <1>1 DEF Measured, ServerStep
<1>5. CASE b \in Workers /\ WorkerStep(pc[b], pc'[b]) /\ pc[b] \notin {"open 404", "read 404"}
  BY <1>5, <1>1 DEF Measured, WorkerStep, Ready, Logging
<1>6. CASE b \in Workers /\ pc[b] = "off" /\ pc'[b] = "open 404"
  BY <1>6, <1>1 DEF Measured, Ready, Logging
<1>7. \A w \in Workers : Started(a, w) => pc'[w] = "open 404"
  <2> SUFFICES ASSUME NEW w \in Workers, Started(a, w) PROVE pc'[w] = "open 404" OBVIOUS
  <2>1. PICK s \in Servers : StartedFor(s, a, w) BY DEF Started
  <2>2. pc[a] = "spawn" /\ pc[w] = "off" /\ pc'[w] # "off"
    BY <2>1 DEF StartedFor, Leads
  <2>3. CreateThread(a)
    <3>1. \/ Listen(a) \/ CheckFails(a) \/ CreateThread(a) \/ StartFails(a) \/ EndSpawn(a)
      BY <2>2, Cases DEF OpenLog, OpenFails, CreatLog, CreatFails, WriteTime, WriteText,
        DropEntry, Open404, Read404, StoreLog, LogRequest, Accept, GiveUp, Answer, Die
    <3>2. ~Listen(a) /\ ~CheckFails(a) BY <2>2 DEF Listen, CheckFails
    <3>3. ~StartFails(a) BY <2>2 DEF StartFails
    <3>4. EndSpawn(a) => pc'[w] \in {"off", "run"} BY <1>1, <2>2 DEF EndSpawn, Goto, TypeOK
    <3>5. pc'[w] \in {"open 404", "serve"} BY <2>1 DEF StartedFor
    <3> QED BY <3>1, <3>2, <3>3, <3>4, <3>5
  <2>4. pc'[w] \in {"off", "open 404"} BY <1>1, <2>2, <2>3 DEF CreateThread, Goto, TypeOK
  <2> QED BY <2>2, <2>4
<1>8. CASE a \in Workers /\ Died(a) BY <1>2, <1>3, <1>8 DEF Died
<1>9. CASE \E w \in Workers : Started(a, w)
  BY <1>1, <1>2, <1>6, <1>7, <1>9 DEF Started, StartedFor
<1> HIDE DEF Goal
<1>10. Goal BY <1>1, <1>2, <1>3, <1>4, <1>5, <1>8, <1>9, Steps DEF Moved, Goal
<1> QED BY <1>10 DEF Goal

LEMMA PageKept ==
  ASSUME TypeOK, StepsOK, PageOK, SizeKnown, NEW a \in Actors, Acts(a)
  PROVE  PageOK' /\ SizeKnown'
<1> DEFINE Read(b) == pc[b] = "read 404"
           Early(b) == pc[b] \notin {"ended", "dead"} /\ ~Measured(b)
           Fine(b) == /\ Measured(b) => size404[b] = Blocks
                      /\ Early(b) => IF Read(b) THEN fd404[b] => size404[b] <= Blocks
                                                ELSE size404[b] = 0
<1>2. SUFFICES \A b \in Actors : Fine(b)'
  BY DEF PageOK, SizeKnown
<1>3. \A b \in Actors : Fine(b) BY DEF PageOK, SizeKnown
<1>4. /\ Servers \subseteq Actors /\ Workers \subseteq Actors /\ Servers \cap Workers = {}
      /\ a \in Servers \/ a \in Workers
  BY ActorsAssumption DEF Actors
<1>5. /\ pc \in [Actors -> Labels] /\ fd404 \in [Actors -> BOOLEAN]
      /\ size404 \in [Actors -> 0 .. 2 ^ Width - 1]
  BY DEF TypeOK
<1>6. CASE UNCHANGED <<size404, fd404>> /\ pc[a] \notin {"open 404", "read 404"} /\ ~ForkChild(a)
  <2> SUFFICES ASSUME NEW b \in Actors PROVE Fine(b)' OBVIOUS
  <2>1. /\ Measured(b)' => Measured(b)
        /\ Early(b)' => Early(b)
        /\ Early(b)' => (Read(b)' <=> Read(b))
    BY <1>6, MeasuredSteps
  <2>2. size404'[b] = size404[b] /\ fd404'[b] = fd404[b] BY <1>6
  <2>3. Fine(b) BY <1>3
  <2> HIDE DEF Read, Early
  <2> QED BY <2>1, <2>2, <2>3
<1>7. CASE Open404(a)
  <2>3. /\ pc[a] = "open 404" /\ pc' = [pc EXCEPT ![a] = "read 404"] /\ size404' = size404
        /\ fd404' = [fd404 EXCEPT ![a] = TRUE] \/ fd404' = fd404
    BY <1>7 DEF Open404, Goto
  <2>5. size404[a] = 0
    <3>1. Early(a) /\ ~Read(a) BY <1>4, <2>3 DEF Measured, Ready, Logging
    <3> QED BY <1>3, <3>1
  <2>6. Blocks \in Nat
    <3>1. Blocks \in 0 .. 2 ^ Width - 1 BY SizesAssumption
    <3> QED BY <3>1
  <2>7. Fine(a)'
    <3>1. ~Measured(a)' /\ Read(a)' BY <1>4, <1>5, <2>3 DEF Measured, Ready, Logging
    <3>2. size404'[a] = 0 BY <2>3, <2>5
    <3>3. 0 <= Blocks BY <2>6
    <3>4. size404'[a] <= Blocks BY <3>2, <3>3
    <3> QED BY <3>1, <3>4
  <2>8. \A b \in Actors \ {a} : Fine(b)'
    <3> TAKE b \in Actors \ {a}
    <3>1. pc'[b] = pc[b] /\ fd404'[b] = fd404[b] /\ size404'[b] = size404[b]
      BY <1>5, <2>3
    <3>2. Measured(b)' = Measured(b) /\ Early(b)' = Early(b) /\ Read(b)' = Read(b)
      BY <3>1 DEF Measured, Ready, Logging
    <3> HIDE DEF Early, Read
    <3> QED BY <1>3, <3>1, <3>2
  <2> QED BY <2>7, <2>8
<1>8. CASE Read404(a)
  <2> DEFINE M == 2 ^ Width
             flag == IF ~fd404[a] THEN M - 1 ELSE IF size404[a] < Blocks THEN 1 ELSE 0
             Again == size404' = [size404 EXCEPT ![a] = (@ + flag) % M] /\ UNCHANGED pc
             Ends == /\ Goto(a, IF a \in Servers THEN "socket" ELSE "open log")
                     /\ UNCHANGED size404
  <2>1. pc[a] = "read 404" /\ fd404' = fd404 BY <1>8 DEF Read404
  <2>7. Early(a) /\ Read(a) /\ ~Measured(a) BY <1>4, <2>1 DEF Measured, Ready, Logging
  <2>2. fd404[a] => size404[a] <= Blocks BY <1>3, <2>7
  <2>3. M \in Nat \ {0} /\ Blocks \in 0 .. M - 1 /\ M > 1
    <3>1. M \in Nat \ {0} /\ Blocks \in 0 .. M - 1 BY PowerType, SizesAssumption
    <3>2. M # 1
      <4>1. Width \in Nat \ {0} BY SizesAssumption
      <4> DEFINE S == 1 .. Width
      <4>2. IsFiniteSet(S) /\ Cardinality(S) = Width BY <4>1, FS_Interval
      <4>3. IsFiniteSet(SUBSET S) /\ Cardinality(SUBSET S) = M BY <4>2, FS_SUBSET
      <4>4. {} \in SUBSET S /\ {1} \in SUBSET S /\ {} # {1} BY <4>1
      <4> HIDE DEF S, M
      <4>5. ASSUME Cardinality(SUBSET S) = 1 PROVE FALSE
        <5>1. \A T : IsFiniteSet(T) /\ Cardinality(T) = 1 => \E x : T = {x}
          BY FS_Singleton, Zenon
        <5>2. PICK x : SUBSET S = {x} BY <4>3, <4>5, <5>1
        <5>3. {} = x /\ {1} = x BY <4>4, <5>2
        <5> QED BY <4>4, <5>3
      <4> QED BY <4>3, <4>5
    <3> HIDE DEF M
    <3> QED BY <3>1, <3>2
  <2>4. size404[a] \in 0 .. M - 1 BY <1>5
  <2>9. IF flag > 0 THEN Again ELSE Ends BY <1>8 DEF Read404
  <2>10. \A b \in Actors \ {a} : Again => Fine(b)'
    <3> SUFFICES ASSUME NEW b \in Actors \ {a}, Again PROVE Fine(b)' OBVIOUS
    <3>1. size404'[b] = size404[b] /\ fd404'[b] = fd404[b] /\ pc'[b] = pc[b] BY <1>5, <2>1
    <3>2. Measured(b)' = Measured(b) /\ Early(b)' = Early(b) /\ Read(b)' = Read(b)
      BY <3>1 DEF Measured, Ready, Logging
    <3> HIDE DEF Early, Read
    <3> QED BY <1>3, <3>1, <3>2
  <2>11. Again => Read(a)' /\ ~Measured(a)' BY <1>4, <2>1 DEF Measured, Ready, Logging
  <2>12. CASE ~fd404[a]
    <3>1. flag = M - 1 BY <2>12
    <3> HIDE DEF Again, Ends, flag
    <3>2. flag > 0
      <4> HIDE DEF M
      <4> QED BY <2>3, <3>1
    <3>3. Again BY <2>9, <3>2
    <3>4. ~fd404'[a] BY <2>1, <2>12
    <3>5. Fine(a)' BY <2>11, <3>3, <3>4
    <3> QED BY <2>10, <3>3, <3>5
  <2>5. CASE fd404[a] /\ size404[a] < Blocks
    <3>9. flag = 1 BY <2>5
    <3> HIDE DEF Again, Ends, flag
    <3>10. Again BY <2>9, <3>9
    <3>1. size404' = [size404 EXCEPT ![a] = (@ + 1) % M] /\ pc' = pc
      BY <3>9, <3>10 DEF Again
    <3> HIDE DEF M
    <3>2. (size404[a] + 1) % M = size404[a] + 1 BY <2>3, <2>4, <2>5
    <3>7. size404'[a] = size404[a] + 1 BY <1>5, <3>1, <3>2
    <3>3. size404'[a] <= Blocks BY <2>3, <2>4, <2>5, <3>7
    <3>6. Fine(a)' BY <2>11, <3>3, <3>10
    <3> QED BY <2>10, <3>6, <3>10
  <2>6. CASE fd404[a] /\ ~(size404[a] < Blocks)
    <3>1. size404' = size404
          /\ pc' = [pc EXCEPT ![a] = IF a \in Servers THEN "socket" ELSE "open log"]
      <4>1. flag = 0 BY <2>6
      <4> HIDE DEF Again, Ends, flag
      <4>2. Ends BY <2>9, <4>1
      <4> QED BY <4>2 DEF Ends, Goto
    <3>2. size404[a] = Blocks
      <4> HIDE DEF M
      <4> QED BY <2>2, <2>3, <2>4, <2>6
    <3>3. ~Early(a)' BY <1>4, <1>5, <3>1 DEF Measured, Ready, Logging
    <3>4. \A b \in Actors \ {a} : Measured(b)' = Measured(b) /\ Early(b)' = Early(b)
                                  /\ Read(b)' = Read(b)
      BY <1>5, <3>1 DEF Measured, Ready, Logging
    <3> HIDE DEF Early, Read
    <3>5. Fine(a)' BY <3>1, <3>2, <3>3
    <3>6. \A b \in Actors \ {a} : Fine(b)' BY <1>3, <2>1, <3>1, <3>4
    <3> QED BY <3>5, <3>6
  <2> QED BY <2>5, <2>6, <2>12
<1>9. CASE ForkChild(a)
  <2>8. PICK s \in Servers :
          /\ Leads(s, a)
          /\ \E w \in config[s].team :
               /\ pc[w] = "off" /\ pc' = [pc EXCEPT ![w] = "serve"]
               /\ size404' = [size404 EXCEPT ![w] = size404[a]]
    BY <1>9 DEF ForkChild, Goto
  <2>1. PICK w \in config[s].team :
          /\ pc[w] = "off" /\ pc' = [pc EXCEPT ![w] = "serve"]
          /\ size404' = [size404 EXCEPT ![w] = size404[a]]
    BY <2>8
  <2>2. w \in Workers BY SetupType DEF TypeOK
  <2>3. pc[a] = "spawn" BY <2>8 DEF Leads
  <2>9. fd404' = fd404 BY <1>9 DEF ForkChild
  <2>4. size404[a] = Blocks
    <3>1. Measured(a) BY <2>3 DEF Measured
    <3> QED BY <1>3, <3>1
  <2>5. size404'[w] = Blocks /\ Measured(w)'
    BY <1>4, <1>5, <2>1, <2>2, <2>4 DEF Measured, Ready, Logging
  <2>6. \A b \in Actors \ {w} : size404'[b] = size404[b] /\ Measured(b)' = Measured(b)
                                /\ Early(b)' = Early(b) /\ Read(b)' = Read(b)
    BY <1>5, <2>1 DEF Measured, Ready, Logging
  <2>7. ~Early(w)' BY <2>5
  <2> HIDE DEF Early, Read
  <2> QED BY <1>3, <2>9, <2>5, <2>6, <2>7
<1> QED BY <1>6, <1>7, <1>8, <1>9, SizeSteps

-----------------------------------------------------------------------------
(* Open files in use *)
\* Nobody is in the middle of an entry who was not, with a descriptor for it.
Quiet == \A b \in Actors : Writing(b)' => Writing(b) \/ entry'[b] = None

\* A fork copies descriptors of who may have the log.
Copies(a) ==
  /\ a \in Workers \/ (a \in Servers /\ config[a].mode = "processes")
  /\ \E w \in Workers : fd' = [fd EXCEPT ![w] = fd[a]] /\ global' = [global EXCEPT ![w] = global[a]]

LEMMA QuietSteps ==
  ASSUME TypeOK, NEW a \in Actors, Acts(a),
         pc'[a] \notin {"time", "text"} \/ pc[a] \in {"time", "text"} \/ entry'[a] = None
  PROVE  Quiet
<1> SUFFICES ASSUME NEW b \in Actors, Writing(b)' PROVE Writing(b) \/ entry'[b] = None
  BY DEF Quiet
<1>1. CASE b = a BY <1>1 DEF Writing
<1>2. CASE b # a
  BY <1>2, Steps DEF Moved, Started, StartedFor, Died, Writing, Actors
<1> QED BY <1>1, <1>2

\* Where descriptors come from: what a step gives to an actor was in use.
LEMMA DescriptorSteps ==
  ASSUME TypeOK, StepsOK, NEW a \in Actors, Acts(a)
  PROVE  \/ UNCHANGED <<fd, entry, global>> /\ Quiet
         \/ Opens(a)
         \/ Copies(a) /\ entry' = entry /\ Quiet
         \/ /\ \E v \in Workers : global' = [global EXCEPT ![Process(a)] = fd[v]]
            /\ UNCHANGED <<fd, entry>> /\ Quiet
         \/ /\ a \in Workers /\ UNCHANGED <<fd, global>>
            /\ entry'[a] \in {fd[a], global[Process(a)]}
<1>1. pc \in [Actors -> Labels] BY DEF TypeOK
<1>2. CASE Logging(a)
  <2>1. CASE Opens(a) BY <2>1
  <2>2. CASE Lacks(a)
    <3>1. UNCHANGED <<fd, entry, global>> BY <2>2 DEF Lacks
    <3>2. pc'[a] \notin {"time", "text"} \/ entry'[a] = None
      <4>1. CASE a \in Servers
        <5>1. entry[a] = None BY <1>2, <4>1 DEF StepsOK
        <5> QED BY <3>1, <5>1
      <4>2. CASE a \notin Servers
        <5>1. pc'[a] \in {"creat log", "serve"} BY <2>2, <4>2 DEF Lacks, Logged
        <5> QED BY <5>1
      <4> QED BY <4>1, <4>2
    <3> QED BY <3>1, <3>2, QuietSteps
  <2> QED BY <1>2, <2>1, <2>2, LogSteps
<1>3. CASE /\ UNCHANGED <<fd, entry, global>>
           /\ pc'[a] \notin {"time", "text"} \/ pc[a] \in {"time", "text"}
  BY <1>3, QuietSteps
<1>4. CASE WriteTime(a) \/ WriteText(a)
  <2>1. UNCHANGED <<fd, entry, global>> BY <1>4 DEF WriteTime, WriteText
  <2>2. pc[a] \in {"time", "text"} BY <1>4 DEF WriteTime, WriteText
  <2> QED BY <2>1, <2>2, <1>3
<1>5. CASE DropEntry(a) BY <1>3, <1>5 DEF DropEntry, files
<1>6. CASE Open404(a)
  <2>1. pc'[a] = "read 404" BY <1>1, <1>6 DEF Open404, Goto
  <2> QED BY <1>3, <1>6, <2>1 DEF Open404, files
<1>7. CASE Read404(a)
  <2>1. pc[a] = "read 404" /\ UNCHANGED <<fd, entry, global>> BY <1>7 DEF Read404, files
  <2>2. pc' = pc \/ \E l \in {"socket", "open log"} : pc' = [pc EXCEPT ![a] = l]
    BY <1>7 DEF Read404, Goto
  <2>3. pc'[a] \notin {"time", "text"} BY <1>1, <2>1, <2>2
  <2> QED BY <1>3, <2>1, <2>3
<1>8. CASE Listen(a) \/ CheckFails(a)
  <2>1. UNCHANGED <<fd, entry, global>> BY <1>8 DEF Listen, CheckFails, files
  <2>2. \E l \in {"spawn", "ended"} : pc' = [pc EXCEPT ![a] = l]
    BY <1>8 DEF Listen, CheckFails, Goto
  <2>3. pc'[a] \notin {"time", "text"} BY <1>1, <2>2
  <2> QED BY <1>3, <2>1, <2>3
<1>9. CASE a \in Servers /\ CreateThread(a)
  <2>1. UNCHANGED <<fd, entry, global>> /\ pc[a] = "spawn" BY <1>9 DEF CreateThread, files
  <2>2. \E w : pc' = [pc EXCEPT ![w] = "open 404"] BY <1>9 DEF CreateThread, Goto
  <2>3. pc'[a] \notin {"time", "text"} BY <1>1, <2>1, <2>2
  <2> QED BY <1>3, <2>1, <2>3
<1>10. CASE StartFails(a) \/ EndSpawn(a)
  <2>1. UNCHANGED <<fd, entry, global>> /\ pc[a] = "spawn"
    BY <1>10 DEF StartFails, EndSpawn, Leads, files
  <2>2. pc' = pc \/ pc' = [pc EXCEPT ![a] = "run"] BY <1>10 DEF StartFails, EndSpawn, Goto
  <2>3. pc'[a] \notin {"time", "text"} BY <1>1, <2>1, <2>2
  <2> QED BY <1>3, <2>1, <2>3
<1>11. CASE ForkChild(a)
  <2>1. PICK s \in Servers :
          /\ Leads(s, a) /\ config[s].mode = "processes"
          /\ \E w \in config[s].team : /\ pc' = [pc EXCEPT ![w] = "serve"]
                                       /\ fd' = [fd EXCEPT ![w] = fd[a]]
                                       /\ global' = [global EXCEPT ![w] = global[a]]
    BY <1>11 DEF ForkChild, Goto
  <2>2. config[s].team \subseteq Workers BY SetupType DEF TypeOK
  <2>3. Copies(a) BY <2>1, <2>2 DEF Copies, Leads
  <2>4. pc'[a] \notin {"time", "text"} BY <1>1, <2>1 DEF Leads
  <2>5. entry' = entry BY <1>11 DEF ForkChild
  <2> QED BY <2>3, <2>4, <2>5, QuietSteps
<1>12. CASE a \in Workers /\ StoreLog(a)
  <2>1. \E v \in Workers : global' = [global EXCEPT ![Process(a)] = fd[v]]
    BY <1>12 DEF StoreLog
  <2>2. UNCHANGED <<fd, entry>> /\ pc' = [pc EXCEPT ![a] = "request"]
    BY <1>12 DEF StoreLog, Goto, files
  <2>3. pc'[a] \notin {"time", "text"} BY <1>1, <2>2
  <2> QED BY <2>1, <2>2, <2>3, QuietSteps
<1>13. CASE a \in Workers /\ (LogRequest(a) \/ Accept(a))
  BY <1>13 DEF LogRequest, Accept, files, TypeOK
<1>14. CASE a \in Workers /\ (GiveUp(a) \/ Answer(a))
  <2>1. UNCHANGED <<fd, entry, global>> BY <1>14 DEF GiveUp, Answer, files
  <2>2. Return(a) BY <1>14 DEF GiveUp, Answer
  <2>3. \E l \in {"spawn", "serve"} : pc' = [pc EXCEPT ![a] = l] BY <2>2 DEF Return, Goto
  <2>4. pc'[a] \notin {"time", "text"} BY <1>1, <2>3
  <2> QED BY <1>3, <2>1, <2>4
<1>15. CASE a \in Workers /\ Die(a)
  <2>1. pc'[a] = "dead" BY <1>15 DEF Die
  <2> QED BY <1>3, <1>15, <2>1 DEF Die, files
<1>16. OpenLog(a) \/ OpenFails(a) \/ CreatLog(a) \/ CreatFails(a) => Logging(a)
  BY DEF OpenLog, OpenFails, CreatLog, CreatFails, Logging
<1> QED BY <1>2, <1>4, <1>5, <1>6, <1>7, <1>8, <1>9, <1>10, <1>11, <1>12, <1>13, <1>14,
           <1>15, <1>16, Cases

\* Only who opens the log gets an open file that was not in use.
LEMMA InUseSteps ==
  ASSUME TypeOK, StepsOK, NEW a \in Actors, Acts(a)
  PROVE  \/ InUse' \subseteq InUse /\ Held' \subseteq Held
         \/ /\ Opens(a) /\ InUse' \subseteq InUse \cup {a}
            /\ Held' \subseteq Held \cup {a}
            /\ a \in Servers /\ config[a].mode # "processes" => Held' \subseteq Held
<1>1. config' = config BY SetupKept DEF setup
<1>2. /\ fd \in [Actors -> Actors \cup {None}]
      /\ entry \in [Actors -> Actors \cup {None}]
      /\ global \in [Actors -> Actors \cup {None}]
      /\ pc \in [Actors -> Labels]
  BY DEF TypeOK
<1>3. /\ Servers \subseteq Actors /\ Workers \subseteq Actors /\ Servers \cap Workers = {}
      /\ None \notin Actors
  BY ActorsAssumption DEF Actors
<1>4. \A b \in Actors \ {a} : entry'[b] = entry[b] BY EntryKept
<1>5. \A b \in Actors \ {a} : Writing(b)' => Writing(b)
  BY <1>3, Steps DEF Moved, Started, StartedFor, Died, Writing
<1>6. Process(a) \in Actors BY ProcessOf DEF TypeOK
<1>7. CASE UNCHANGED <<fd, entry, global>> /\ Quiet
  BY <1>1, <1>3, <1>7 DEF Held, InUse, Quiet
<1>8. CASE Opens(a)
  BY <1>1, <1>2, <1>3, <1>5, <1>8 DEF Held, InUse, Opens
<1>9. CASE Copies(a) /\ entry' = entry /\ Quiet
  <2>1. PICK w \in Workers : /\ fd' = [fd EXCEPT ![w] = fd[a]]
                             /\ global' = [global EXCEPT ![w] = global[a]]
    BY <1>9 DEF Copies
  <2>2. \A b \in Workers : fd'[b] = fd[b] \/ fd'[b] = fd[a] BY <1>2, <1>3, <2>1
  <2>3. \A s \in Servers : fd'[s] = fd[s] BY <1>2, <1>3, <2>1
  <2>4. \A b \in Actors : global'[b] = global[b] \/ global'[b] = global[a] BY <1>2, <2>1
  <2>5. \A d \in Actors : fd[a] = d \/ global[a] = d => d \in Held
    BY <1>9 DEF Copies, Held
  <2>6. Held' \subseteq Held
    <3> SUFFICES ASSUME NEW d \in Held' PROVE d \in Held OBVIOUS
    <3>1. d \in Actors BY DEF Held
    <3>2. CASE \E b \in Workers : fd'[b] = d BY <2>2, <2>5, <3>1, <3>2 DEF Held
    <3>3. CASE \E b \in Workers : Writing(b)' /\ entry'[b] = d
      BY <1>3, <1>9, <3>1, <3>3 DEF Held, Quiet
    <3>4. CASE \E s \in Servers : config'[s].mode = "processes" /\ fd'[s] = d
      BY <1>1, <2>3, <3>1, <3>4 DEF Held
    <3>5. CASE \E b \in Actors : global'[b] = d BY <2>4, <2>5, <3>1, <3>5 DEF Held
    <3> QED BY <3>2, <3>3, <3>4, <3>5 DEF Held
  <2>7. InUse' \subseteq InUse BY <1>3, <1>9, <2>6 DEF InUse, Quiet
  <2> QED BY <2>6, <2>7
<1>10. CASE /\ \E v \in Workers : global' = [global EXCEPT ![Process(a)] = fd[v]]
            /\ UNCHANGED <<fd, entry>> /\ Quiet
  BY <1>1, <1>2, <1>3, <1>10 DEF Held, InUse, Quiet
<1>11. CASE /\ a \in Workers /\ UNCHANGED <<fd, global>>
            /\ entry'[a] \in {fd[a], global[Process(a)]}
  BY <1>1, <1>2, <1>3, <1>4, <1>5, <1>6, <1>11 DEF Held, InUse
<1> QED BY <1>7, <1>8, <1>9, <1>10, <1>11, DescriptorSteps


\* A write at the end of the log that does not fail appends to it.
LEMMA Appends ==
  ASSUME TypeOK, NEW a \in Actors, NEW d \in Actors, Write(a, d), failures' = 0,
         ofd[d].append \/ ofd[d].offset = Len(log.writes)
  PROVE  /\ log'.exists = log.exists
         /\ Len(log.writes) \in Nat /\ Len(log'.writes) = Len(log.writes) + 1
         /\ \A i \in 1 .. Len(log.writes) : log'.writes[i] = log.writes[i]
         /\ log'.writes[Len(log.writes) + 1] = <<a, written[a] + 1>>
         /\ \A e \in Actors : ofd'[e].append = ofd[e].append
         /\ ofd'[d].offset = Len(log'.writes)
         /\ written' = [written EXCEPT ![a] = @ + 1]
<1> DEFINE n == Len(log.writes)
           at == IF ofd[d].append THEN n + 1 ELSE ofd[d].offset + 1
           m == IF at > n THEN at ELSE n
           W == [i \in 1 .. m |-> IF i = at THEN <<a, written[a] + 1>>
                                  ELSE IF i <= n THEN log.writes[i] ELSE Hole]
           E == (Actors \cup {None}) \X Nat
<1>1. log \in [exists : BOOLEAN, writes : Seq(E)] /\ ofd \in [Actors -> [append : BOOLEAN, offset : Nat]]
  BY DEF TypeOK
<1>2. n \in Nat BY <1>1
<1>3. at = n + 1 OBVIOUS
<1>10. Put(d, <<a, written[a] + 1>>)
  <2>1. failures \in 0 .. MaxFailures /\ MaxFailures \in Nat BY SizesAssumption DEF TypeOK
  <2>2. failures' # failures + 1
    <3>1. failures \in Nat BY <2>1
    <3> QED BY <3>1
  <2> QED BY <2>2 DEF Write
<1>4. log' = [log EXCEPT !.writes = W] /\ ofd' = [ofd EXCEPT ![d].offset = at]
  BY <1>10 DEF Put
<1>11. written' = [written EXCEPT ![a] = @ + 1] BY DEF Write
<1>5. m = n + 1
  <2> HIDE DEF n, at
  <2> QED BY <1>2, <1>3
<1> HIDE DEF n, at, m
<1>6. /\ Len(W) = n + 1 /\ \A i \in 1 .. n : W[i] = log.writes[i]
      /\ W[n + 1] = <<a, written[a] + 1>>
  BY <1>2, <1>3, <1>5
<1> HIDE DEF W, E
<1>7. log'.writes = W /\ log'.exists = log.exists BY <1>1, <1>4
<1>8. \A e \in Actors : ofd'[e].append = ofd[e].append BY <1>1, <1>4
<1>9. ofd'[d].offset = at BY <1>1, <1>4
<1> QED BY <1>2, <1>3, <1>6, <1>7, <1>8, <1>9, <1>11 DEF n

LEMMA OnlyServer ==
  ASSUME TypeOK, StepsOK, Orderly, ~existed,
         NEW r \in Servers, NEW s \in Servers, pc[r] # "off", pc[s] # "off"
  PROVE  r = s
<1>1. config[r].launched /\ config[s].launched BY DEF StepsOK
<1>2. PICK o \in Servers : Alone(o) BY DEF Orderly
<1> QED BY <1>1, <1>2 DEF Alone

\* Threads find the server that starts them past its own entry.
LEMMA ThreadAlone ==
  ASSUME TypeOK, StepsOK, NEW w \in Workers, Logging(w)
  PROVE  \E s \in Servers : /\ config[s].mode = "threads" /\ pc[s] \in {"spawn", "run"}
<1>1. pc[w] \notin {"off", "spawn", "run", "dead"} /\ ~Ready(w) BY DEF Logging, Ready
<1>2. PICK s \in Servers : Runs(w, s) BY <1>1, WorkerOf
<1> QED BY <1>1, <1>2 DEF Runs

\* What a server's steps do to its place before it has the log.
LEMMA LoggingSteps ==
  ASSUME TypeOK, StepsOK, NEW a \in Actors, Acts(a)
  PROVE  \A b \in Actors :
           /\ pc'[b] = "creat log" => pc[b] = "creat log" \/ (b = a /\ pc[b] = "open log")
           /\ b \in Servers /\ pc'[b] # "off" => pc[b] # "off"
           /\ b \in Servers /\ Logging(b)' => Logging(b)
           /\ b # a \/ ~Logging(b) => (b \in Servers /\ Logging(b) => Logging(b)')
<1>1. \A s \in Servers :
        pc'[s] = pc[s] \/ ServerStep(pc[s], pc'[s]) \/ (pc[s] \in {"spawn", "run"} /\ pc'[s] = "dead")
  BY OthersMove
<1>2. \A s \in Servers : s # a => pc'[s] = pc[s] \/ (pc[s] \in {"spawn", "run"} /\ pc'[s] = "dead")
  BY OthersMove
<1>3. \A b \in Actors : pc'[b] = "creat log" => pc[b] = "creat log" \/ (b = a /\ pc[b] = "open log")
  BY Steps DEF Moved, Started, StartedFor, Died, ServerStep, WorkerStep, Actors
<1>4. \A s \in Servers : /\ pc'[s] # "off" => pc[s] # "off"
                         /\ Logging(s)' => Logging(s)
                         /\ s # a => (Logging(s) => Logging(s)')
  BY <1>1, <1>2 DEF ServerStep, Logging
<1> QED BY <1>3, <1>4


LEMMA AppendKept ==
  ASSUME TypeOK, StepsOK, UsedOK, AppendOK, NEW a \in Actors, Acts(a)
  PROVE  AppendOK'
<1> DEFINE A1 == existed => log.exists
           A2 == ~log.exists => InUse = {} /\ log.writes = <<>>
           A3 == \A b \in Actors : pc[b] = "creat log" => ~log.exists /\ b \in Servers
           A4 == \A d \in InUse :
                   \/ ofd[d].append
                   \/ ~existed /\ ofd[d].offset = Len(log.writes) /\ InUse = {d}
           A5 == ~existed => \A s \in Servers : pc[s] # "off" =>
                   /\ log.exists <=> ~Logging(s)
                   /\ config[s].mode = "threads" => \A d \in Held : ofd[d].append
<1>1. config' = config /\ existed' = existed BY SetupKept DEF setup
<1>2. SUFFICES ASSUME Orderly' PROVE A1' /\ A2' /\ A3' /\ A4' /\ A5'
  BY DEF AppendOK
<1>6. Orderly /\ AllEnough /\ failures' = 0 BY <1>2, OrderlyBack
<1>3. A1 /\ A2 /\ A3 /\ A4 /\ A5 BY <1>6 DEF AppendOK
<1>4. /\ Servers \subseteq Actors /\ Workers \subseteq Actors /\ Servers \cap Workers = {}
      /\ a \in Servers \/ a \in Workers
      /\ Held \subseteq InUse /\ InUse \subseteq Actors
      /\ Held' \subseteq InUse' /\ InUse' \subseteq Actors
  BY ActorsAssumption DEF Actors, Held, InUse
<1>5. \A b \in Actors : /\ pc'[b] = "creat log" => pc[b] = "creat log" \/ (b = a /\ pc[b] = "open log")
                        /\ b \in Servers /\ pc'[b] # "off" => pc[b] # "off"
                        /\ b \in Servers /\ Logging(b)' => Logging(b)
                        /\ b # a \/ ~Logging(b) => (b \in Servers /\ Logging(b) => Logging(b)')
  BY LoggingSteps
<1> HIDE DEF A1, A2, A3, A4, A5
<1>7. CASE Writes(a)
  <2> DEFINE e == entry[a]
  <2>1. ~Logging(a) /\ ~Opens(a) BY <1>7 DEF Writes, Writing, Logging, Opens
  <2>2. InUse' \subseteq InUse /\ Held' \subseteq Held BY <2>1, InUseSteps
  <2>3. e \in InUse BY <1>4, <1>7 DEF InUse, Held, Writes
  <2>4. log.exists BY <1>3, <2>3 DEF A2
  <2>5. ofd[e].append \/ (ofd[e].offset = Len(log.writes) /\ InUse = {e})
    BY <1>3, <2>3 DEF A4
  <2>11. e \in Actors /\ Write(a, e) BY <1>7 DEF Writes
  <2> HIDE DEF e
  <2>6. /\ log'.exists = log.exists /\ ofd'[e].offset = Len(log'.writes)
        /\ \A d \in Actors : ofd'[d].append = ofd[d].append
    BY <1>6, <2>5, <2>11, Appends
  <2>7. A1' /\ A2' BY <2>4, <2>6 DEF A1, A2
  <2>8. A3' BY <1>3, <1>5, <2>1, <2>6 DEF A3, Logging
  <2>9. A4'
    <3> SUFFICES ASSUME NEW d \in InUse', ~ofd'[d].append
                 PROVE  ~existed /\ ofd'[d].offset = Len(log'.writes) /\ InUse' = {d}
      BY <1>1 DEF A4
    <3>1. ~existed /\ InUse = {d} BY <1>3, <1>4, <2>2, <2>6 DEF A4
    <3>2. d = e BY <2>3, <3>1
    <3> QED BY <2>2, <2>6, <3>1, <3>2
  <2>10. A5'
    <3>1. \A s \in Servers : pc'[s] # "off" => pc[s] # "off" /\ (Logging(s)' <=> Logging(s))
      BY <1>4, <1>5, <2>1
    <3> QED BY <1>1, <1>3, <1>4, <2>2, <2>6, <3>1 DEF A5
  <2> QED BY <2>7, <2>8, <2>9, <2>10
<1>8. CASE ~Logging(a) /\ UNCHANGED <<log, ofd>>
  <2>2. InUse' \subseteq InUse /\ Held' \subseteq Held BY <1>8, InUseSteps DEF Opens
  <2>3. A1' /\ A2' BY <1>1, <1>3, <1>8, <2>2 DEF A1, A2
  <2>4. A3' BY <1>1, <1>3, <1>5, <1>8 DEF A3, Logging
  <2>5. A4'
    <3> SUFFICES ASSUME NEW d \in InUse', ~ofd'[d].append
                 PROVE  ~existed /\ ofd'[d].offset = Len(log'.writes) /\ InUse' = {d}
      BY <1>1 DEF A4
    <3>1. ~existed /\ ofd[d].offset = Len(log.writes) /\ InUse = {d} BY <1>3, <1>8, <2>2 DEF A4
    <3> QED BY <1>8, <2>2, <3>1
  <2>6. A5'
    <3>1. \A s \in Servers : pc'[s] # "off" => pc[s] # "off" /\ (Logging(s)' <=> Logging(s))
      BY <1>4, <1>5, <1>8
    <3> QED BY <1>1, <1>3, <1>4, <1>8, <2>2, <3>1 DEF A5
  <2> QED BY <2>3, <2>4, <2>5, <2>6
<1>9. CASE OpenLog(a) /\ Opens(a) /\ log.exists
  <2>1. Logging(a) BY <1>9 DEF Opens
  <2>2. log' = log /\ ofd' = [ofd EXCEPT ![a] = [append |-> TRUE, offset |-> 0]]
    BY <1>9 DEF OpenLog
  <2>3. InUse' \subseteq InUse \cup {a} /\ Held' \subseteq Held \cup {a}
    BY InUseSteps
  <2>4. \A d \in InUse : ofd[d].append
    <3>1. CASE existed BY <1>3, <3>1 DEF A4
    <3>2. CASE ~existed
      <4>1. a \in Workers
        <5>1. a \in Servers => pc[a] # "off" BY <2>1 DEF Logging
        <5> QED BY <1>3, <1>4, <1>9, <2>1, <3>2, <5>1 DEF A5
      <4>2. PICK s \in Servers : config[s].mode = "threads" /\ pc[s] \in {"spawn", "run"}
        BY <2>1, <4>1, ThreadAlone
      <4>3. \A r \in Servers : ~Writing(r)
        <5> SUFFICES ASSUME NEW r \in Servers, Writing(r) PROVE FALSE OBVIOUS
        <5>1. pc[r] # "off" /\ pc[s] # "off" BY <4>2 DEF Writing
        <5>2. r = s BY <1>6, <3>2, <5>1, OnlyServer
        <5> QED BY <4>2, <5>2 DEF Writing
      <4>4. InUse = Held BY <4>3 DEF InUse
      <4> QED BY <1>3, <3>2, <4>2, <4>4 DEF A5
    <3> QED BY <3>1, <3>2
  <2>5. \A d \in Actors : (d = a \/ ofd[d].append) => ofd'[d].append
    <3>1. ofd \in [Actors -> [append : BOOLEAN, offset : Nat]] BY DEF TypeOK
    <3> QED BY <2>2, <3>1
  <2>6. \A d \in InUse' : ofd'[d].append BY <1>4, <2>3, <2>4, <2>5
  <2>7. A1' /\ A2' BY <1>1, <1>3, <1>9, <2>2 DEF A1, A2
  <2>8. A3'
    <3>1. pc'[a] # "creat log" BY <1>9 DEF Opens, Logged
    <3> QED BY <1>1, <1>3, <1>5, <2>2, <3>1 DEF A3
  <2>9. A4' BY <2>6 DEF A4
  <2>10. A5'
    <3> SUFFICES ASSUME ~existed, NEW s \in Servers, pc'[s] # "off"
                 PROVE  /\ log'.exists <=> ~Logging(s)'
                        /\ config[s].mode = "threads" => \A d \in Held' : ofd'[d].append
      BY <1>1 DEF A5
    <3>1. a # s
      <4>1. a \in Servers => pc[a] # "off" BY <2>1 DEF Logging
      <4> QED BY <1>3, <1>9, <2>1, <4>1 DEF A5
    <3>2. Logging(s)' <=> Logging(s) BY <1>4, <1>5, <3>1
    <3>3. pc[s] # "off" BY <1>4, <1>5
    <3> QED BY <1>3, <1>4, <2>2, <2>6, <3>2, <3>3 DEF A5
  <2> QED BY <2>7, <2>8, <2>9, <2>10
<1>10. CASE CreatLog(a) /\ Opens(a)
  <2>1. Logging(a) /\ pc[a] = "creat log" BY <1>10 DEF Opens, CreatLog
  <2>2. /\ log' = [exists |-> TRUE, writes |-> <<>>]
        /\ ofd' = [ofd EXCEPT ![a] = [append |-> FALSE, offset |-> 0]]
    BY <1>10 DEF CreatLog
  <2>3. ~log.exists /\ ~existed /\ InUse = {} /\ a \in Servers
    BY <1>3, <1>4, <2>1 DEF A1, A2, A3
  <2>4. InUse' \subseteq {a} /\ (config[a].mode = "threads" => Held' = {})
    BY <1>4, <2>3, InUseSteps
  <2>5. \A s \in Servers : pc[s] # "off" => s = a
    <3>1. pc[a] # "off" BY <2>1
    <3> QED BY <1>6, <2>3, <3>1, OnlyServer
  <2>6. A1' /\ A2' BY <2>2 DEF A1, A2
  <2>7. A3'
    <3> SUFFICES ASSUME NEW b \in Actors, pc'[b] = "creat log" PROVE FALSE BY DEF A3
    <3>1. b # a BY <1>10 DEF Opens, Logged
    <3>2. pc[b] = "creat log" BY <1>5, <3>1
    <3>3. b \in Workers BY <2>5, <3>1, <3>2 DEF Actors
    <3>4. \E s \in Servers : pc[s] \in {"spawn", "run"} BY <3>2, <3>3, ThreadAlone DEF Logging
    <3> QED BY <2>1, <2>5, <3>4
  <2>8. A4'
    <3>1. ofd'[a].offset = 0 BY <2>2 DEF TypeOK
    <3>2. Len(log'.writes) = 0 BY <2>2
    <3> QED BY <1>1, <2>3, <2>4, <3>1, <3>2 DEF A4
  <2>9. A5'
    <3>1. ~Logging(a)' BY <1>10, <2>3 DEF Opens, Logged, Logging
    <3>2. log'.exists BY <2>2
    <3> QED BY <1>1, <1>4, <1>5, <1>10, <2>4, <2>5, <3>1, <3>2 DEF A5
  <2> QED BY <2>6, <2>7, <2>8, <2>9
<1>11. CASE Lacks(a)
  <2>1. log' = log /\ ofd' = ofd BY <1>11 DEF Lacks
  <2>3. Logging(a) BY <1>11 DEF Lacks, Logging
  <2>4. OpenFails(a) /\ pc[a] = "open log" /\ pc'[a] = "creat log" /\ ~log.exists
    BY <1>6, <1>11, <2>3, NoLack DEF Lacks
  <2>2. ~existed BY <1>3, <2>4 DEF A1
  <2>11. ~Opens(a) BY <2>4 DEF Opens, Logged
  <2>5. InUse' \subseteq InUse /\ Held' \subseteq Held BY <2>11, InUseSteps
  <2>6. InUse' = {} BY <1>3, <2>4, <2>5 DEF A2
  <2>7. A1' /\ A2' BY <1>1, <1>3, <2>1, <2>6 DEF A1, A2
  <2>8. A3'
    <3>1. a \in Servers
      <4> SUFFICES ASSUME a \in Workers PROVE FALSE BY <1>4
      <4>1. PICK s \in Servers : pc[s] \in {"spawn", "run"} BY <2>3, ThreadAlone
      <4>2. pc[s] # "off" /\ ~Logging(s) BY <4>1 DEF Logging
      <4> QED BY <1>3, <2>2, <2>4, <4>2 DEF A5
    <3> QED BY <1>3, <1>5, <2>1, <2>4, <3>1 DEF A3
  <2>9. A4' BY <2>6 DEF A4
  <2>10. A5'
    <3> SUFFICES ASSUME NEW s \in Servers, pc'[s] # "off"
                 PROVE  log'.exists <=> ~Logging(s)'
      BY <1>1, <1>4, <2>6 DEF A5
    <3>1. pc[s] # "off" BY <1>4, <1>5
    <3>2. Logging(s) BY <1>3, <2>2, <2>4, <3>1 DEF A5
    <3>3. Logging(a)' BY <2>4 DEF Logging
    <3>4. Logging(s)' BY <1>4, <1>5, <3>2, <3>3
    <3> QED BY <2>1, <2>4, <3>4
  <2> QED BY <2>7, <2>8, <2>9, <2>10
<1>12. CASE Logging(a)
  BY <1>9, <1>10, <1>11, <1>12, LogSteps
<1>13. CASE ~Logging(a)
  <2>1. ~OpenLog(a) /\ ~CreatLog(a) BY <1>13 DEF OpenLog, CreatLog, Logging
  <2> QED BY <1>7, <1>8, <1>13, <2>1, WriteSteps
<1> QED BY <1>12, <1>13

-----------------------------------------------------------------------------
(* The log *)
LEMMA OrderKept ==
  ASSUME TypeOK, AllInOrder, UNCHANGED <<existed, written>>, log'.writes = log.writes
  PROVE  AllInOrder'
<1>1. \A b : Wrote(b)' = Wrote(b) /\ WritesOf(b)' = WritesOf(b) BY DEF Wrote, WritesOf
<1> QED BY <1>1 DEF AllInOrder

LEMMA Images ==
  ASSUME NEW S, NEW v, NEW x, \A i \in S : x[i] = v[i]
  PROVE  /\ {x[i] : i \in S} = {v[i] : i \in S}
         /\ \A m : {x[i] : i \in S \cup {m}} = {v[i] : i \in S} \cup {x[m]}
<1>1. {x[i] : i \in S} = {v[i] : i \in S} OBVIOUS
<1>2. \A m : {x[i] : i \in S \cup {m}} = {x[i] : i \in S} \cup {x[m]} OBVIOUS
<1> QED BY <1>1, <1>2

\* A write after those there, numbered next, keeps them in order.
LEMMA AppendInOrder ==
  ASSUME TypeOK, AllInOrder, NEW a \in Actors, existed' = existed,
         TypeOK', Len(log'.writes) = Len(log.writes) + 1,
         \A i \in 1 .. Len(log.writes) : log'.writes[i] = log.writes[i],
         log'.writes[Len(log.writes) + 1] = <<a, written[a] + 1>>,
         written' = [written EXCEPT ![a] = @ + 1]
  PROVE  AllInOrder'
<1> DEFINE n == Len(log.writes)
           v == log.writes
           x == log'.writes
           E == (Actors \cup {None}) \X Nat
<1>1. v \in Seq(E) /\ x \in Seq(E) /\ written \in [Actors -> Nat] BY DEF TypeOK
<1>2. n \in Nat /\ DOMAIN v = 1 .. n /\ DOMAIN x = 1 .. n + 1 BY <1>1
<1>3. a # None /\ None \notin Actors BY ActorsAssumption
<1> DEFINE k0 == written[a]
<1>4. k0 \in Nat BY <1>1
<1>5. /\ \A i \in 1 .. n : x[i] = v[i]
      /\ x[n + 1] = <<a, k0 + 1>> /\ Len(x) = n + 1
  OBVIOUS
<1>6. \A b : WritesOf(b) = {i \in 1 .. n : v[i][1] = b} BY <1>2 DEF WritesOf
<1>7. \A b : WritesOf(b)' = {i \in 1 .. n + 1 : x[i][1] = b} BY <1>2 DEF WritesOf
<1> HIDE DEF n, v, x, k0
<1>8. 1 .. n + 1 = (1 .. n) \cup {n + 1} /\ n + 1 \notin 1 .. n BY <1>2
<1>9. \A b : b # a => WritesOf(b)' = WritesOf(b)
  <2> TAKE b
  <2> HAVE b # a
  <2>1. x[n + 1][1] = a BY <1>5
  <2> QED BY <1>5, <1>6, <1>7, <1>8, <2>1
<1>10. WritesOf(a)' = WritesOf(a) \cup {n + 1}
  <2>1. x[n + 1][1] = a BY <1>5
  <2> QED BY <1>5, <1>6, <1>7, <1>8, <2>1
<1>11. \A b : \A i \in WritesOf(b) : x[i] = v[i] /\ i \in 1 .. n BY <1>5, <1>6
<1> DEFINE InOrder(b) == /\ {v[i] : i \in WritesOf(b)} = {<<b, k>> : k \in 1 .. Wrote(b)}
                         /\ \A i, j \in WritesOf(b) : i < j => v[i][2] < v[j][2]
<1>12. \A b \in Actors \cup {None} : InOrder(b) BY DEF AllInOrder, v
<1>13. \A b \in Actors \cup {None} : b # a => Wrote(b)' = Wrote(b)
  BY <1>1, <1>3 DEF Wrote
<1>14. Wrote(a) = k0 /\ Wrote(a)' = k0 + 1 BY <1>1, <1>3 DEF Wrote, k0
<1>15. SUFFICES ASSUME NEW b \in Actors \cup {None}
                PROVE  /\ {x[i] : i \in WritesOf(b)'} = {<<b, k>> : k \in 1 .. Wrote(b)'}
                       /\ \A i, j \in WritesOf(b)' : i < j => x[i][2] < x[j][2]
  BY DEF AllInOrder, x
<1>16. CASE b # a
  <2>1. WritesOf(b)' = WritesOf(b) /\ Wrote(b)' = Wrote(b) BY <1>9, <1>13, <1>16
  <2>2. \A i \in WritesOf(b) : x[i] = v[i] BY <1>11
  <2>3. {x[i] : i \in WritesOf(b)} = {v[i] : i \in WritesOf(b)} BY <2>2, Images
  <2>4. {x[i] : i \in WritesOf(b)'} = {<<b, k>> : k \in 1 .. Wrote(b)'} BY <1>12, <2>1, <2>3
  <2>5. \A i, j \in WritesOf(b)' : i < j => x[i][2] < x[j][2] BY <1>12, <2>1, <2>2
  <2> QED BY <2>4, <2>5
<1>17. CASE b = a
  <2>1. InOrder(a) BY <1>12, <1>17
  <2>2. 1 .. k0 + 1 = (1 .. k0) \cup {k0 + 1} BY <1>4
  <2>3. {x[i] : i \in WritesOf(a)'} = {v[i] : i \in WritesOf(a)} \cup {<<a, k0 + 1>>}
    <3>1. \A i \in WritesOf(a) : x[i] = v[i] BY <1>11
    <3>2. {x[i] : i \in WritesOf(a) \cup {n + 1}}
          = {v[i] : i \in WritesOf(a)} \cup {x[n + 1]} BY <3>1, Images
    <3> QED BY <1>5, <1>10, <3>2
  <2>4. {x[i] : i \in WritesOf(a)'} = {<<a, k>> : k \in 1 .. k0 + 1}
    BY <1>14, <2>1, <2>2, <2>3
  <2>5. \A i \in WritesOf(a) : x[i][2] \in 1 .. k0
    <3> TAKE i \in WritesOf(a)
    <3>1. PICK k \in 1 .. k0 : v[i] = <<a, k>> BY <1>14, <2>1
    <3> QED BY <1>11, <3>1
  <2>6. ASSUME NEW i \in WritesOf(a)', NEW j \in WritesOf(a)', i < j PROVE x[i][2] < x[j][2]
    <3>1. CASE j = n + 1
      <4>1. i \in WritesOf(a) BY <1>10, <1>2, <2>6, <3>1
      <4>2. x[i][2] \in 1 .. k0 BY <2>5, <4>1
      <4>3. x[j][2] = k0 + 1 BY <1>5, <3>1
      <4> QED BY <1>4, <4>2, <4>3
    <3>2. CASE j # n + 1
      <4>1. j \in WritesOf(a) /\ j \in 1 .. n BY <1>10, <1>11, <3>2
      <4>2. i \in WritesOf(a) BY <1>2, <1>10, <2>6, <4>1
      <4>3. v[i][2] < v[j][2] BY <2>1, <2>6, <4>1, <4>2
      <4> QED BY <1>11, <4>1, <4>2, <4>3
    <3> QED BY <3>1, <3>2
  <2> QED BY <1>14, <1>17, <2>4, <2>6
<1> QED BY <1>16, <1>17

LEMMA LogStaysKept ==
  ASSUME TypeOK, StepsOK, UsedOK, AppendOK, LogKept, NEW a \in Actors, Acts(a)
  PROVE  LogKept'
<1>1. existed' = existed BY SetupKept DEF setup
<1>2. SUFFICES ASSUME Orderly' PROVE AllInOrder' BY DEF LogKept
<1>8. Orderly /\ failures' = 0 BY <1>2, OrderlyBack
<1>3. AllInOrder BY <1>8 DEF LogKept
<1>4. CASE Writes(a)
  <2> DEFINE d == entry[a]
  <2>1. d \in InUse BY <1>4 DEF Writes, InUse, Held, Actors
  <2>2. ofd[d].append \/ ofd[d].offset = Len(log.writes) BY <1>8, <2>1 DEF AppendOK
  <2>3. d \in Actors /\ Write(a, d) BY <1>4 DEF Writes
  <2> HIDE DEF d
  <2> QED BY <1>1, <1>3, <1>8, <2>2, <2>3, Appends, AppendInOrder, TypeKept
<1>5. CASE UNCHANGED <<log, written>> BY <1>1, <1>3, <1>5, OrderKept
<1>6. CASE OpenLog(a)
  <2>1. UNCHANGED <<log, written>> BY <1>6 DEF OpenLog
  <2> QED BY <1>5, <2>1
<1>7. CASE CreatLog(a)
  <2>1. log.writes = <<>>
    <3>1. ~log.exists BY <1>8, <1>7 DEF AppendOK, CreatLog
    <3> QED BY <1>8, <3>1 DEF AppendOK
  <2>2. written' = written BY <1>7 DEF CreatLog
  <2>4. log' = [exists |-> TRUE, writes |-> <<>>] BY <1>7 DEF CreatLog
  <2>3. log'.writes = log.writes BY <2>1, <2>4
  <2> QED BY <1>1, <1>3, <2>2, <2>3, OrderKept
<1> QED BY <1>4, <1>5, <1>6, <1>7, WriteSteps
-----------------------------------------------------------------------------
(* The invariant *)
LEMMA InitHolds == Init => IInv
<1> SUFFICES ASSUME Init PROVE IInv OBVIOUS
<1>1. /\ config \in Setups /\ limit \in Limits /\ existed \in BOOLEAN
      /\ mayFail \in 0 .. MaxFailures /\ clients \in 0 .. MaxClients
      /\ log = [exists |-> existed, writes |-> IF existed THEN <<Old>> ELSE <<>>]
      /\ ofd = [a \in Actors |-> [append |-> FALSE, offset |-> 0]]
      /\ fd = [a \in Actors |-> None] /\ entry = [a \in Actors |-> None]
      /\ global = [a \in Actors |-> None]
      /\ used = [a \in Actors |-> 0] /\ size404 = [a \in Actors |-> 0]
      /\ fd404 = [a \in Actors |-> FALSE] /\ turn = [a \in Actors |-> 0]
      /\ conn = [a \in Actors |-> FALSE] /\ told = [a \in Actors |-> FALSE]
      /\ written = [a \in Actors |-> 0] /\ dropped = {} /\ failures = 0
      /\ pc = [a \in Actors |-> IF a \in Servers /\ config[a].launched THEN "open log" ELSE "off"]
  BY DEF Init
<1>2. /\ \A a \in Actors : pc[a] \in {"off", "open log"}
      /\ \A s \in Servers : pc[s] = "off" <=> ~config[s].launched
      /\ \A w \in Workers : pc[w] = "off"
  BY <1>1, ActorsAssumption DEF Actors
<1>3. /\ Servers \subseteq Actors /\ Workers \subseteq Actors /\ Servers \cap Workers = {}
      /\ None \notin Actors
  BY ActorsAssumption DEF Actors
<1>4. \A a \in Actors : ~Writing(a) /\ ~Ready(a)
  BY <1>2 DEF Writing, Ready
<1>5. TypeOK
  <2>1. log \in [exists : BOOLEAN, writes : Seq((Actors \cup {None}) \X Nat)]
    <3> DEFINE E == (Actors \cup {None}) \X Nat
    <3>1. Old \in E BY DEF Old
    <3> HIDE DEF E
    <3>2. <<Old>> \in Seq(E) /\ <<>> \in Seq(E) BY <3>1
    <3>3. log \in [exists : BOOLEAN, writes : Seq(E)] BY <1>1, <3>2
    <3> QED BY <3>3 DEF E
  <2>2. ofd \in [Actors -> [append : BOOLEAN, offset : Nat]] BY <1>1
  <2>8. limit \in Nat /\ MaxFailures \in Nat BY <1>1, SizesAssumption
  <2>12. failures = 0 BY <1>1
  <2>9. 0 \in 0 .. limit /\ failures \in 0 .. MaxFailures BY <2>8, <2>12
  <2>10. used = [a \in Actors |-> 0] BY <1>1
  <2>3. used \in [Actors -> 0 .. limit] BY <2>9, <2>10
  <2>4. size404 \in [Actors -> 0 .. 2 ^ Width - 1]
    <3>1. 2 ^ Width \in Nat \ {0} BY PowerType
    <3> DEFINE M == 2 ^ Width
    <3> HIDE DEF M
    <3>2. 0 \in 0 .. M - 1 BY <3>1 DEF M
    <3> QED BY <1>1, <3>2 DEF M
  <2>5. written \in [Actors -> Nat] /\ turn \in [Actors -> Nat] BY <1>1
  <2>6. /\ fd \in [Actors -> Actors \cup {None}] /\ entry \in [Actors -> Actors \cup {None}]
        /\ global \in [Actors -> Actors \cup {None}]
        /\ dropped \subseteq Actors
    BY <1>1
  <2>11. fd404 \in [Actors -> BOOLEAN] /\ conn \in [Actors -> BOOLEAN] /\ told \in [Actors -> BOOLEAN]
    BY <1>1
  <2>7. pc \in [Actors -> Labels] BY <1>1 DEF Labels
  <2> HIDE DEF Labels
  <2> QED BY <1>1, <2>1, <2>2, <2>3, <2>4, <2>5, <2>6, <2>7, <2>9, <2>11 DEF TypeOK
<1>6. StepsOK
  <2>1. \A w \in Workers : ~conn[w] BY <1>1, <1>3
  <2> QED BY <1>1, <1>2, <1>3, <2>1 DEF StepsOK
<1>8. UsedOK
  <2>1. \A a \in Actors : Holding(a) = {} /\ used[a] = 0
    BY <1>1, <1>3 DEF Holding
  <2>2. \A a \in Actors : Cardinality(Holding(a)) <= used[a] BY <2>1, FS_EmptySet
  <2>3. \A s \in Servers : MainTook(s) = 0 BY <1>2, <1>3 DEF MainTook
  <2>4. \A s \in Servers : Cardinality(TeamTook(s)) \in Nat
    <3> TAKE s \in Servers
    <3> DEFINE X == config[s].team \X (1 .. 2)
    <3>1. IsFiniteSet(X) BY <1>1, TeamFinite
    <3>2. TeamTook(s) \subseteq X BY DEF TeamTook
    <3> QED BY <3>1, <3>2, CardLe
  <2>7. MaxClients - clients >= 0 /\ MaxClients - clients \in Int
    <3>1. MaxClients \in Nat /\ clients \in 0 .. MaxClients BY <1>1, SizesAssumption
    <3> QED BY <3>1
  <2>5. \A s \in Servers : used[s] <= MainTook(s) BY <1>3, <2>1, <2>3
  <2>6. \A s \in Servers : used[s] <= MainTook(s) + Cardinality(TeamTook(s)) + (MaxClients - clients)
    <3> TAKE s \in Servers
    <3>1. used[s] = 0 /\ MainTook(s) = 0 /\ Cardinality(TeamTook(s)) \in Nat
      BY <1>3, <2>1, <2>3, <2>4
    <3> QED BY <2>7, <3>1
  <2> QED BY <2>2, <2>5, <2>6 DEF UsedOK
<1>9. OpenedOK
  <2>1. \A s \in Servers : pc[s] = "off" \/ Logging(s) BY <1>2, <1>3 DEF Logging
  <2>2. \A w \in Workers : pc[w] # "request" /\ pc[w] # "spawn" BY <1>2
  <2> QED BY <1>1, <1>3, <1>4, <2>1, <2>2 DEF OpenedOK
<1>10. PageOK /\ SizeKnown
  <2>2. \A a \in Actors : ~Measured(a) /\ pc[a] # "read 404" /\ size404[a] = 0
    BY <1>1, <1>2, <1>3 DEF Measured, Ready, Logging, Actors
  <2> QED BY <2>2 DEF PageOK, SizeKnown
<1>11. AppendOK
  <2>1. InUse = {} /\ Held = {} BY <1>1, <1>3, <1>4 DEF InUse, Held
  <2>2. \A s \in Servers : pc[s] # "off" => Logging(s) BY <1>2, <1>3 DEF Logging
  <2>3. \A a \in Actors : pc[a] # "creat log" BY <1>2
  <2>4. log.exists = existed /\ (~existed => log.writes = <<>>) BY <1>1
  <2> QED BY <2>1, <2>2, <2>3, <2>4 DEF AppendOK
<1>12. AllInOrder
  <2> SUFFICES ASSUME NEW a \in Actors \cup {None}
               PROVE  /\ {log.writes[i] : i \in WritesOf(a)} = {<<a, k>> : k \in 1 .. Wrote(a)}
                      /\ \A i, j \in WritesOf(a) : i < j => log.writes[i][2] < log.writes[j][2]
    BY DEF AllInOrder
  <2>1. CASE existed
    <3>1. log.writes = <<Old>> BY <1>1, <2>1
    <3>2. DOMAIN log.writes = {1} /\ log.writes[1] = <<None, 1>> BY <3>1 DEF Old
    <3>3. CASE a = None
      <4>1. WritesOf(a) = {1} BY <3>2, <3>3 DEF WritesOf
      <4>2. Wrote(a) = 1 BY <2>1, <3>3 DEF Wrote
      <4>3. {<<a, k>> : k \in 1 .. 1} = {<<a, 1>>} OBVIOUS
      <4> QED BY <3>2, <3>3, <4>1, <4>2, <4>3
    <3>4. CASE a # None
      <4>1. WritesOf(a) = {} BY <3>2, <3>4 DEF WritesOf
      <4>2. Wrote(a) = 0 BY <1>1, <3>4 DEF Wrote
      <4> QED BY <4>1, <4>2
    <3> QED BY <3>3, <3>4
  <2>2. CASE ~existed
    <3>1. WritesOf(a) = {}
      <4>2. log.writes = <<>> BY <1>1, <2>2
      <4>1. DOMAIN log.writes = {} BY <4>2
      <4> QED BY <4>1 DEF WritesOf
    <3>2. Wrote(a) = 0 BY <1>1, <2>2 DEF Wrote
    <3> QED BY <3>1, <3>2
  <2> QED BY <2>1, <2>2
<1> QED BY <1>5, <1>6, <1>8, <1>9, <1>10, <1>11, <1>12 DEF IInv, LogKept

LEMMA StutterKeeps ==
  ASSUME IInv, UNCHANGED vars
  PROVE  IInv'
<1> USE DEF vars, setup, files, service
<1>1. \A a \in Actors : Process(a)' = Process(a) BY DEF Process, ThreadOf
<1>2. AllEnough' = AllEnough /\ Orderly' = Orderly BY DEF AllEnough, Enough, Orderly, Alone
<1>3. TypeOK' BY DEF IInv, TypeOK
<1>4. StepsOK' BY DEF IInv, StepsOK, Ready, Logging
<1>6. UsedOK'
  <2>1. \A a \in Actors : Holding(a)' = Holding(a) BY <1>1 DEF Holding, Actors
  <2>2. \A s \in Servers : MainTook(s)' = MainTook(s) BY DEF MainTook
  <2>3. \A s \in Servers : TeamTook(s)' = TeamTook(s) BY DEF TeamTook, ThreadTook
  <2> QED BY <2>1, <2>2, <2>3 DEF IInv, UsedOK
<1>7. OpenedOK' BY <1>1, <1>2 DEF IInv, OpenedOK, Writing, Ready, Logging, Actors
<1>8. PageOK' /\ SizeKnown' BY <1>2 DEF IInv, PageOK, SizeKnown, Measured, Ready, Logging
<1>9. AppendOK'
  <2>1. Held' = Held /\ InUse' = InUse BY DEF Held, InUse, Writing
  <2> QED BY <1>2, <2>1 DEF IInv, AppendOK, Logging
<1>10. LogKept' BY <1>2 DEF IInv, LogKept, AllInOrder, WritesOf, Wrote
<1> QED BY <1>3, <1>4, <1>6, <1>7, <1>8, <1>9, <1>10 DEF IInv

LEMMA NextKeeps == IInv /\ [Next]_vars => IInv'
<1> SUFFICES ASSUME IInv, [Next]_vars PROVE IInv' OBVIOUS
<1>1. CASE Next
  <2>1. PICK a \in Actors : Acts(a) BY <1>1, NextActs
  <2> USE DEF IInv
  <2>2. TypeOK' BY <2>1, TypeKept
  <2>3. StepsOK' BY <2>1, StepsKept
  <2>5. UsedOK' BY <2>1, UsedKept
  <2>6. OpenedOK' BY <2>1, OpenedKept
  <2>7. PageOK' /\ SizeKnown' BY <2>1, PageKept
  <2>8. AppendOK' BY <2>1, AppendKept
  <2>9. LogKept' BY <2>1, LogStaysKept
  <2> QED BY <2>2, <2>3, <2>5, <2>6, <2>7, <2>8, <2>9
<1>2. CASE UNCHANGED vars BY <1>2, StutterKeeps
<1> QED BY <1>1, <1>2

\* What main, the threads and the processes hold and do at every step.
THEOREM InductiveInvariant == Spec => []IInv
BY InitHolds, NextKeeps, PTL DEF Spec

\* Every variable keeps its type; no process has more descriptors in use than
\* it may, or gives back one it has not.
THEOREM TypeCorrect == Spec => []TypeOK
<1>1. IInv => TypeOK BY DEF IInv
<1> QED BY <1>1, InductiveInvariant, PTL

\* The log has every write of every thread and process once and in order, as
\* long as no call on it has failed, every process has descriptors enough and
\* there was a log to append to or only one server started: entries may be cut
\* by others, never overwritten.
THEOREM LogComplete == Spec => []LogKept
<1>1. IInv => LogKept BY DEF IInv
<1> QED BY <1>1, InductiveInvariant, PTL

\* Until a call on the log fails, and with descriptors enough, write_to_logfile
\* is never called without a descriptor, whoever stored the one of
\* process_requests.
THEOREM EntriesReachTheLog == Spec => []NoEntryDropped
<1>1. IInv => NoEntryDropped BY DEF IInv, OpenedOK, NoEntryDropped
<1> QED BY <1>1, InductiveInvariant, PTL

\* Whoever has gone past the loop that reads the 404 page has its size, however
\* often an open() failed and the loop was held up by it: who cannot open the
\* page never comes past.
THEOREM PageMeasured == Spec => []SizeKnown
<1>1. IInv => SizeKnown BY DEF IInv
<1> QED BY <1>1, InductiveInvariant, PTL

LEMMA LogLength == ASSUME TypeOK PROVE Len(log.writes) \in Nat
<1> DEFINE E == (Actors \cup {None}) \X Nat
<1>1. log \in [exists : BOOLEAN, writes : Seq(E)] BY DEF TypeOK
<1> QED BY <1>1

\* What is in the log stays there, where it is: as long as it is in order no
\* step truncates it, writes over it or moves it.
THEOREM WritesStay ==
  Spec => [][Orderly' => /\ Len(log'.writes) >= Len(log.writes)
                         /\ \A i \in 1 .. Len(log.writes) : log'.writes[i] = log.writes[i]]_vars
<1>1. ASSUME IInv, Next, Orderly'
      PROVE  /\ Len(log'.writes) >= Len(log.writes)
             /\ \A i \in 1 .. Len(log.writes) : log'.writes[i] = log.writes[i]
  <2>1. PICK a \in Actors : Acts(a) BY <1>1, NextActs
  <2>2. Len(log.writes) \in Nat BY <1>1, LogLength DEF IInv
  <2>7. TypeOK /\ StepsOK BY <1>1 DEF IInv
  <2>8. Orderly /\ failures' = 0 BY <1>1, <2>1, <2>7, OrderlyBack
  <2>3. CASE log'.writes = log.writes BY <2>2, <2>3
  <2>4. CASE Writes(a)
    <3> DEFINE d == entry[a]
    <3>1. d \in InUse BY <2>4 DEF Writes, InUse, Held, Actors
    <3>2. ofd[d].append \/ ofd[d].offset = Len(log.writes)
      BY <1>1, <2>8, <3>1 DEF IInv, AppendOK
    <3>3. d \in Actors /\ Write(a, d) BY <2>4 DEF Writes
    <3> HIDE DEF d
    <3>4. /\ Len(log'.writes) = Len(log.writes) + 1
          /\ \A i \in 1 .. Len(log.writes) : log'.writes[i] = log.writes[i]
      BY <2>7, <2>8, <3>2, <3>3, Appends
    <3> QED BY <2>2, <3>4
  <2>5. CASE OpenLog(a) BY <2>3, <2>5 DEF OpenLog
  <2>6. CASE CreatLog(a)
    <3>1. log.writes = <<>> BY <1>1, <2>6, <2>8 DEF IInv, AppendOK, CreatLog
    <3>2. log' = [exists |-> TRUE, writes |-> <<>>] BY <2>6 DEF CreatLog
    <3> QED BY <2>3, <3>1, <3>2
  <2> QED BY <2>1, <2>3, <2>4, <2>5, <2>6, <2>7, WriteSteps
<1>2. ASSUME IInv, UNCHANGED vars
      PROVE  /\ Len(log'.writes) >= Len(log.writes)
             /\ \A i \in 1 .. Len(log.writes) : log'.writes[i] = log.writes[i]
  <2>1. log' = log BY <1>2 DEF vars, files
  <2>2. Len(log.writes) \in Nat BY <1>2, LogLength DEF IInv
  <2> QED BY <2>1, <2>2
<1> DEFINE Stays == /\ Len(log'.writes) >= Len(log.writes)
                    /\ \A i \in 1 .. Len(log.writes) : log'.writes[i] = log.writes[i]
<1> HIDE DEF Stays
<1>3. IInv /\ [Next]_vars => [Orderly' => Stays]_vars BY <1>1, <1>2 DEF Stays
<1>4. Spec => [][Orderly' => Stays]_vars BY <1>3, InductiveInvariant, PTL DEF Spec
<1> QED BY <1>4 DEF Stays

\* A sequence that has one element more, e, is the one before with e appended.
LEMMA OneMore ==
  ASSUME NEW E, NEW v \in Seq(E), NEW x \in Seq(E), NEW e,
         Len(x) = Len(v) + 1, \A i \in 1 .. Len(v) : x[i] = v[i], x[Len(v) + 1] = e
  PROVE  x = Append(v, e)
<1> DEFINE y == Append(v, e)
<1>1. Len(v) \in Nat OBVIOUS
<1>2. e \in E BY <1>1
<1>3. y \in Seq(E) /\ Len(y) = Len(v) + 1 BY <1>2
<1>4. \A i \in 1 .. Len(v) + 1 : y[i] = IF i = Len(v) + 1 THEN e ELSE v[i] BY <1>1, <1>2
<1>5. DOMAIN x = 1 .. Len(v) + 1 /\ DOMAIN y = 1 .. Len(v) + 1 BY <1>1, <1>3
<1>6. \A i \in 1 .. Len(v) + 1 : x[i] = y[i] BY <1>1, <1>4
<1> HIDE DEF y
<1>7. x \in [1 .. Len(v) + 1 -> E] /\ y \in [1 .. Len(v) + 1 -> E] BY <1>3, <1>5
<1>8. x = y BY <1>6, <1>7
<1> QED BY <1>8 DEF y

\* As long as the log is in order a write() is an Add of the log it implements,
\* and no other step changes what is in it; a step after which it is not in
\* order any more spoils that log.
LEMMA LogStep ==
  ASSUME IInv, IInv', [Next]_vars
  PROVE  [AppendOnly!Next]_(AppendOnly!vars)
<1> USE DEF AppendOnly!vars
<1>1. CASE ~Orderly'
  <2>1. AppendOnly!Spoil BY <1>1 DEF AppendOnly!Spoil
  <2> QED BY <2>1 DEF AppendOnly!Next
<1>2. ASSUME Orderly', NEW a \in Actors, Acts(a) PROVE [AppendOnly!Next]_(AppendOnly!vars)
  <2>5. TypeOK /\ StepsOK /\ TypeOK' BY DEF IInv
  <2>6. Orderly /\ failures' = 0 BY <1>2, <2>5, OrderlyBack
  <2>1. CASE Writes(a)
    <3> DEFINE d == entry[a]
               E == (Actors \cup {None}) \X Nat
    <3>1. d \in InUse BY <2>1 DEF Writes, InUse, Held, Actors
    <3>2. ofd[d].append \/ ofd[d].offset = Len(log.writes)
      BY <2>6, <3>1 DEF IInv, AppendOK
    <3>4. log.writes \in Seq(E) /\ log'.writes \in Seq(E) BY <2>5 DEF TypeOK
    <3>5. d \in Actors /\ Write(a, d) BY <2>1 DEF Writes
    <3> HIDE DEF d, E
    <3>6. /\ Len(log'.writes) = Len(log.writes) + 1
          /\ \A i \in 1 .. Len(log.writes) : log'.writes[i] = log.writes[i]
          /\ log'.writes[Len(log.writes) + 1] = <<a, written[a] + 1>>
          /\ written' = [written EXCEPT ![a] = @ + 1]
      BY <2>5, <2>6, <3>2, <3>5, Appends
    <3>7. log'.writes = Append(log.writes, <<a, written[a] + 1>>)
      BY <3>4, <3>6, OneMore
    <3>8. AppendOnly!Add(a) BY <1>2, <2>6, <3>6, <3>7 DEF AppendOnly!Add
    <3> QED BY <1>2, <2>6, <3>8 DEF AppendOnly!Next
  <2>2. CASE UNCHANGED <<log, written>> BY <1>2, <2>2, <2>6
  <2>3. CASE OpenLog(a) BY <2>2, <2>3 DEF OpenLog
  <2>4. CASE CreatLog(a)
    <3>1. log.writes = <<>> BY <2>4, <2>6 DEF IInv, AppendOK, CreatLog
    <3>2. log' = [exists |-> TRUE, writes |-> <<>>] /\ written' = written
      BY <2>4 DEF CreatLog
    <3>3. log'.writes = log.writes BY <3>1, <3>2
    <3> QED BY <1>2, <2>6, <3>2, <3>3
  <2> QED BY <1>2, <2>1, <2>2, <2>3, <2>4, <2>5, WriteSteps
<1>3. CASE UNCHANGED vars
  <2>1. UNCHANGED <<log, written>> BY <1>3 DEF vars, files
  <2>2. Orderly' = Orderly
    BY <1>3 DEF vars, setup, files, Orderly, AllEnough, Enough, Alone
  <2> QED BY <2>1, <2>2
<1>4. CASE Next BY <1>1, <1>2, <1>4, NextActs
<1> QED BY <1>3, <1>4

\* Seen from outside, whatever open files the descriptors of init_logfile refer
\* to, the log is, until it is spoiled, one that is only appended to: every
\* write() of every thread and process puts its part of an entry at the end.
THEOREM Refinement == Spec => ImplementsLog
<1>1. ASSUME Init PROVE AppendOnly!Init
  <2>1. /\ log = [exists |-> existed, writes |-> IF existed THEN <<Old>> ELSE <<>>]
        /\ written = [a \in Actors |-> 0]
    BY <1>1 DEF Init
  <2>2. log.writes \in {<<>>, <<Old>>} BY <2>1
  <2>3. (~Orderly) \in BOOLEAN OBVIOUS
  <2> QED BY <2>1, <2>2, <2>3 DEF AppendOnly!Init
<1>2. IInv /\ IInv' /\ [Next]_vars => [AppendOnly!Next]_(AppendOnly!vars)
  BY LogStep
<1> QED
  BY <1>1, <1>2, InductiveInvariant, PTL DEF Spec, ImplementsLog, AppendOnly!Spec
==============================================================================
