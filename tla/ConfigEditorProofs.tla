--------------------------- MODULE ConfigEditorProofs ---------------------------
(***************************************************************************)
(* Proofs about ConfigEditor for any settings, any contents and any number *)
(* of saves.  The core is SaveOK: between the truncation of config.cfg and *)
(* the write, what is to be written is what the form holds, and unless     *)
(* somebody else was at it the file is empty.                              *)
(***************************************************************************)
EXTENDS ConfigEditor, TLAPS

USE FieldsAssumption, ContentsAssumption, BoundsAssumption

SaveOK ==
  pc = "save" => /\ saving = Converted /\ Acceptable
                 /\ others = 0 => file = Empty

FileOK ==
  others = 0 /\ pc # "save" =>
    /\ written = "nothing" => whole = (file \in Unreadable \/ Complete(file))
    /\ written = "all" => file \in Settings /\ Complete(file) /\ file[Mode] \in {1, 2}

IInv == TypeOK /\ SaveOK /\ FileOK /\ ShownIsSaved /\ CrashNeedsHole
-----------------------------------------------------------------------------
LEMMA Remainder ==
  ASSUME NEW n \in Numbers
  PROVE  Atoi(n) \in Ints /\ (n \in Ints => Atoi(n) = n)
<1>1. n \in Nat /\ n % Modulus \in Numbers
  OBVIOUS
<1>2. n % Modulus \in 0 .. Modulus - 1
  BY <1>1
<1>3. n < Modulus => n % Modulus = n
  BY <1>1
<1> QED
  BY <1>1, <1>2, <1>3 DEF Atoi, Ints

LEMMA ValuesAreContents ==
  ASSUME NEW f \in Fields
  PROVE  Values(f) \subseteq Contents /\ Junk \notin Values(f) /\ Missing \notin Values(f)
BY DEF Values, Contents, Ints

LEMMA EmptyIsSetting == Empty \in Settings
BY DEF Empty, Settings

LEMMA StoredTyped ==
  ASSUME TypeOK
  PROVE  Stored \in Contented
BY DEF TypeOK, Stored, OnScreen, Contented

(* What the form accepts is a whole configuration. *)
LEMMA ConvertedIsWhole ==
  ASSUME TypeOK, Acceptable
  PROVE  /\ Converted \in Settings /\ Complete(Converted) /\ Converted[Mode] \in {1, 2}
         /\ \A f \in Fields :
              IF f \in IntFields THEN Stored[f] \in Numbers /\ Converted[f] = Atoi(Stored[f])
                                 ELSE Converted[f] = Stored[f] /\ Stored[f] \in Values(f)
<1>1. Stored \in Contented
  BY StoredTyped
<1>2. Converted[Mode] \in {1, 2}
  BY DEF Acceptable
<1>3. ASSUME NEW f \in Fields
      PROVE  /\ Converted[f] \in Values(f)
             /\ IF f \in IntFields THEN Stored[f] \in Numbers /\ Converted[f] = Atoi(Stored[f])
                                   ELSE Converted[f] = Stored[f] /\ Stored[f] \in Values(f)
  <2>1. Stored[f] # Blank /\ (f \in IntFields => Stored[f] \in Numbers)
    BY DEF Acceptable, AllFilled, AllNumbers
  <2>2. Converted[f] = IF f \in IntFields THEN Atoi(Stored[f]) ELSE Stored[f]
    BY <2>1 DEF Converted
  <2>3. CASE f \in IntFields
    BY <2>1, <2>2, <2>3, Remainder DEF Values
  <2>4. CASE f \notin IntFields
    BY <1>1, <2>1, <2>2, <2>4 DEF Values, Contented, Contents
  <2> QED
    BY <2>3, <2>4
<1>4. \A f \in Fields : Converted[f] \in {Text, Missing} \cup Numbers
  BY <1>3 DEF Values, Ints
<1>5. Converted \in [Fields -> {Text, Missing} \cup Numbers]
  BY <1>4 DEF Converted
<1>6. Converted \in Settings
  BY <1>3, <1>5 DEF Settings
<1>7. Complete(Converted)
  BY <1>3, ValuesAreContents DEF Complete
<1> QED
  BY <1>2, <1>3, <1>6, <1>7

(* Storing what was typed changes nothing on the screen. *)
LEMMA StoredStays ==
  ASSUME TypeOK, buffer' = Stored, UNCHANGED <<current, window>>
  PROVE  Stored' = Stored /\ Converted' = Converted /\ (Acceptable' <=> Acceptable)
<1>1. Stored' = Stored
  BY DEF TypeOK, Stored, OnScreen, Contented
<1> QED
  BY <1>1 DEF Converted, Acceptable, AllFilled, AllNumbers, Atoi

LEMMA FormStays ==
  ASSUME UNCHANGED form
  PROVE  Stored' = Stored /\ Converted' = Converted /\ (Acceptable' <=> Acceptable)
<1>1. Stored' = Stored
  BY DEF form, Stored, OnScreen
<1> QED
  BY <1>1 DEF Converted, Acceptable, AllFilled, AllNumbers, Atoi
-----------------------------------------------------------------------------
LEMMA InitInv == Init => IInv
<1> SUFFICES ASSUME Init PROVE IInv
  OBVIOUS
<1>1. TypeOK
  <2>1. Blank \in Contents /\ [f \in Fields |-> Blank] \in [Fields -> Contents]
        /\ [f \in Fields |-> Blank] \in [Fields -> Contents \cup {Junk}]
    BY DEF Contents
  <2>2. Mode \in Fields /\ file \in Settings \cup Unreadable /\ whole \in BOOLEAN
    BY DEF Init, Complete
  <2>3. saves \in 0 .. MaxSaves /\ others \in 0 .. MaxOthers
    BY DEF Init
  <2>4. /\ pc \in {"menu", "form", "save", "ended", "crashed"} /\ current \in Fields
        /\ written \in {"nothing", "all", "cut"} /\ refused \in BOOLEAN
    BY DEF Init
  <2>5. window \in Contents /\ buffer \in Contented /\ shown \in [Fields -> Contents \cup {Junk}]
    BY <2>1 DEF Init, Contented
  <2>6. saving \in Settings
    BY EmptyIsSetting DEF Init
  <2> QED
    BY <2>2, <2>3, <2>4, <2>5, <2>6 DEF TypeOK
<1>2. SaveOK /\ FileOK /\ ShownIsSaved /\ CrashNeedsHole
  BY DEF Init, SaveOK, FileOK, ShownIsSaved, CrashNeedsHole
<1> QED
  BY <1>1, <1>2 DEF IInv

(* Each variable keeps its type. *)
LEMMA TypeStep ==
  ASSUME IInv, Next
  PROVE  TypeOK'
<1>1. TypeOK /\ SaveOK
  BY DEF IInv
<1>2. Stored \in Contented /\ Stored \in [Fields -> Contents \cup {Junk}]
  BY <1>1, StoredTyped DEF Contented
<1>3. CASE EditDefaults
  <2>1. shown' \in [Fields -> Contents \cup {Junk}]
    BY <1>3 DEF EditDefaults
  <2> QED
    BY <1>1, <1>3, <2>1 DEF EditDefaults, OpenForm, TypeOK, Contented, Contents
<1>4. CASE EditFile
  <2>1. \A f \in Fields : Show(f) \in Contents \cup {Junk}
    BY <1>1, <1>4, ValuesAreContents DEF EditFile, TypeOK, Show, Settings
  <2>2. shown' \in [Fields -> Contents \cup {Junk}]
    BY <1>4, <2>1 DEF EditFile
  <2> QED
    BY <1>1, <1>4, <2>2 DEF EditFile, OpenForm, TypeOK, Contented, Contents
<1>5. CASE Crash \/ Quit \/ Leave
  BY <1>1, <1>5 DEF Crash, Quit, Leave, TypeOK, form
<1>6. CASE Type
  BY <1>1, <1>6 DEF Type, TypeOK
<1>7. CASE Down \/ Up
  <2>1. PICK f \in Fields : MoveTo(f)
    BY <1>1, <1>7 DEF Down, Up, TypeOK
  <2>2. buffer' \in Contented /\ window' \in Contents /\ current' \in Fields
    BY <1>2, <2>1 DEF MoveTo, Stored, Contented
  <2> QED
    BY <1>1, <1>7, <2>2 DEF Down, Up, TypeOK
<1>8. CASE Warn
  BY <1>1, <1>2, <1>8 DEF Warn, TypeOK
<1>9. CASE Submit
  <2>1. Converted \in Settings
    BY <1>1, <1>9, ConvertedIsWhole DEF Submit, Accepted
  <2> QED
    BY <1>1, <1>2, <1>9, <2>1, EmptyIsSetting DEF Submit, Accepted, TypeOK
<1>10. CASE CannotOpen
  BY <1>1, <1>2, <1>10 DEF CannotOpen, Accepted, TypeOK
<1>11. CASE Write
  <2>1. file' \in Settings \cup Unreadable
    BY <1>1, <1>11 DEF Write, TypeOK, Unreadable
  <2> QED
    BY <1>1, <1>2, <1>11, <2>1, EmptyIsSetting DEF Write, TypeOK, form
<1>12. CASE WriteFails
  BY <1>1, <1>2, <1>12, EmptyIsSetting DEF WriteFails, TypeOK, form
<1>13. CASE Other
  <2>1. file' \in Settings \cup Unreadable
    BY <1>13, EmptyIsSetting DEF Other
  <2> QED
    BY <1>1, <1>13, <2>1 DEF Other, TypeOK, form
<1> QED
  BY <1>3, <1>4, <1>5, <1>6, <1>7, <1>8, <1>9, <1>10, <1>11, <1>12, <1>13
     DEF Next, Menu, Form, Save

(* Between truncation and write. *)
LEMMA SaveStep ==
  ASSUME IInv, Next
  PROVE  SaveOK'
<1>1. TypeOK /\ SaveOK
  BY DEF IInv
<1>2. CASE Submit
  <2>1. Converted' = Converted /\ (Acceptable' <=> Acceptable)
    BY <1>1, <1>2, StoredStays DEF Submit, Accepted
  <2> QED
    BY <1>2, <2>1 DEF Submit, Accepted, SaveOK
<1>3. CASE Other
  <2>1. others' # 0
    BY <1>1, <1>3 DEF Other, TypeOK
  <2>2. Converted' = Converted /\ (Acceptable' <=> Acceptable)
    BY <1>3, FormStays DEF Other
  <2> QED
    BY <1>1, <1>3, <2>1, <2>2 DEF Other, SaveOK
<1>4. CASE Menu \/ Form \/ CannotOpen \/ Write \/ WriteFails
  <2>1. pc' # "save"
    BY <1>4 DEF Menu, Form, EditDefaults, EditFile, OpenForm, Crash, Quit, Type, Down, Up, Leave,
                Warn, CannotOpen, Accepted, Write, WriteFails
  <2> QED
    BY <2>1 DEF SaveOK
<1> QED
  BY <1>2, <1>3, <1>4 DEF Next, Save

(* What the editor makes of config.cfg. *)
LEMMA FileStep ==
  ASSUME IInv, Next
  PROVE  FileOK' /\ CrashNeedsHole'
<1>1. TypeOK /\ SaveOK /\ FileOK /\ CrashNeedsHole
  BY DEF IInv
<1>2. CASE Write
  <2>1. pc = "save" /\ pc' = "form" /\ written' = "all"
        /\ others' = others /\ (others = 0 => file' = saving)
    BY <1>1, <1>2 DEF Write, SaveOK
  <2>2. saving \in Settings /\ Complete(saving) /\ saving[Mode] \in {1, 2}
    BY <1>1, <2>1, ConvertedIsWhole DEF SaveOK
  <2> QED
    BY <2>1, <2>2 DEF FileOK, CrashNeedsHole, Complete
<1>3. CASE WriteFails
  BY <1>3 DEF WriteFails, FileOK, CrashNeedsHole
<1>4. CASE Submit
  BY <1>4 DEF Submit, FileOK, CrashNeedsHole
<1>5. CASE Other
  <2>1. others' # 0
    BY <1>1, <1>5 DEF Other, TypeOK
  <2> QED
    BY <2>1 DEF FileOK, CrashNeedsHole
<1>6. CASE Crash
  <2>1. FileOK'
    BY <1>1, <1>6 DEF Crash, FileOK, Complete
  <2>2. file \notin Unreadable /\ ~Complete(file) /\ pc # "save"
    BY <1>6 DEF Crash, Complete
  <2>3. CrashNeedsHole'
    BY <1>1, <1>6, <2>2 DEF Crash, FileOK, CrashNeedsHole, TypeOK
  <2> QED
    BY <2>1, <2>3
<1>7. CASE EditDefaults \/ EditFile \/ Quit \/ Form \/ CannotOpen
  <2>1. /\ pc # "save" /\ pc' # "crashed"
        /\ UNCHANGED <<file, others, written, whole>>
    BY <1>7 DEF Form, EditDefaults, EditFile, OpenForm, Quit, Type, Down, Up, Leave,
                Warn, CannotOpen, Accepted
  <2> QED
    BY <1>1, <2>1 DEF FileOK, CrashNeedsHole, Complete
<1> QED
  BY <1>2, <1>3, <1>4, <1>5, <1>6, <1>7 DEF Next, Menu, Save

(* What the form shows. *)
LEMMA ShownStep ==
  ASSUME IInv, Next
  PROVE  ShownIsSaved'
<1>1. TypeOK /\ SaveOK /\ ShownIsSaved
  BY DEF IInv
<1>2. CASE EditDefaults
  <2>1. Reading' = Default /\ shown' = Default
    BY <1>2 DEF EditDefaults, OpenForm, Reading
  <2>2. \A f \in IntFields : Atoi(Default[f]) = Default[f]
    BY Remainder DEF Values, Ints
  <2> QED
    BY <2>1, <2>2 DEF ShownIsSaved, Atoi
<1>3. CASE EditFile
  <2>1. file \notin Unreadable /\ file' = file /\ file \in Settings
    BY <1>1, <1>3 DEF EditFile, OpenForm, TypeOK
  <2>2. Reading' = [f \in Fields |-> Show(f)] /\ shown' = [f \in Fields |-> Show(f)]
    BY <1>3, <2>1 DEF EditFile, Reading, Show
  <2>3. ASSUME NEW f \in IntFields, Show(f) \in Numbers
        PROVE  Atoi(Show(f)) = Show(f)
    <3>1. Show(f) \in Ints
      BY <2>1, <2>3 DEF Show, Settings, Values
    <3> QED
      BY <3>1, Remainder DEF Ints
  <2> QED
    BY <2>2, <2>3 DEF ShownIsSaved, Atoi
<1>4. CASE Type \/ Down \/ Up \/ Warn
  <2>1. UNCHANGED <<pc, others, refused, shown, file>>
    BY <1>4 DEF Type, Down, Up, Warn
  <2>2. Reading' = Reading
    BY <2>1 DEF Reading, Show
  <2> QED
    BY <1>1, <2>1, <2>2 DEF ShownIsSaved, Atoi
<1>5. CASE Write
  <2>1. SUFFICES ASSUME others' = 0
                 PROVE  ShownIsSaved'
    BY DEF ShownIsSaved
  <2>2. pc = "save" /\ shown' = Stored /\ others' = others /\ UNCHANGED form
        /\ file' = saving /\ saving = Converted /\ Acceptable
    BY <1>1, <1>5, <2>1 DEF Write, SaveOK
  <2>3. /\ saving \in Settings /\ saving \notin Unreadable /\ Complete(saving)
        /\ \A f \in Fields :
             IF f \in IntFields THEN Stored[f] \in Numbers /\ saving[f] = Atoi(Stored[f])
                                ELSE saving[f] = Stored[f]
    BY <1>1, <2>2, ConvertedIsWhole
  <2>4. Reading' = [f \in Fields |-> saving[f]]
    BY <2>2, <2>3 DEF Reading, Show, Complete
  <2> QED
    BY <2>2, <2>3, <2>4 DEF ShownIsSaved, Atoi
<1>6. CASE CannotOpen \/ WriteFails
  BY <1>6 DEF CannotOpen, WriteFails, ShownIsSaved
<1>7. CASE Crash \/ Quit \/ Leave \/ Submit
  <2>1. pc' # "form"
    BY <1>7 DEF Crash, Quit, Leave, Submit
  <2> QED
    BY <2>1 DEF ShownIsSaved
<1>8. CASE Other
  <2>1. others' # 0
    BY <1>1, <1>8 DEF Other, TypeOK
  <2> QED
    BY <2>1 DEF ShownIsSaved
<1> QED
  BY <1>2, <1>3, <1>4, <1>5, <1>6, <1>7, <1>8 DEF Next, Menu, Form, Save

LEMMA StutterStep ==
  ASSUME IInv, UNCHANGED vars
  PROVE  IInv'
<1>1. /\ UNCHANGED form /\ UNCHANGED <<pc, current, window, buffer, shown, saving, file, saves>>
      /\ UNCHANGED <<others, written, whole, refused>>
  BY DEF vars, form
<1>2. Converted' = Converted /\ (Acceptable' <=> Acceptable)
  BY <1>1, FormStays
<1>3. Reading' = Reading
  BY <1>1 DEF Reading, Show
<1>4. TypeOK' /\ SaveOK'
  BY <1>1, <1>2 DEF IInv, TypeOK, SaveOK
<1>5. FileOK' /\ CrashNeedsHole'
  BY <1>1 DEF IInv, FileOK, CrashNeedsHole, Complete
<1>6. ShownIsSaved'
  BY <1>1, <1>3 DEF IInv, ShownIsSaved, Atoi
<1> QED
  BY <1>4, <1>5, <1>6 DEF IInv
-----------------------------------------------------------------------------
(* Theorem: the inductive invariant of the editor. *)
THEOREM InductiveInvariant == Spec => []IInv
<1>1. IInv /\ [Next]_vars => IInv'
  BY TypeStep, SaveStep, FileStep, ShownStep, StutterStep DEF IInv
<1> QED
  BY <1>1, InitInv, PTL DEF Spec

(* Theorem: the fields of the form, what is typed and what is saved keep their *)
(* types: what a save writes is within the width of an int. *)
THEOREM TypeCorrect == Spec => []TypeOK
<1>1. IInv => TypeOK
  BY DEF IInv
<1> QED
  BY <1>1, InductiveInvariant, PTL

(* Theorem: the editor leaves no setting out of config.cfg and writes no   *)
(* mode but 1 and 2, whatever is typed and however often it is saved. *)
THEOREM WritesWholeFiles == Spec => []NothingLeftOut
<1>1. IInv => NothingLeftOut
  BY DEF IInv, FileOK, NothingLeftOut
<1> QED
  BY <1>1, InductiveInvariant, PTL

(* Theorem: what the form shows as current is what config.cfg has. *)
THEOREM FormShowsFile == Spec => []ShownIsSaved
<1>1. IInv => ShownIsSaved
  BY DEF IInv
<1> QED
  BY <1>1, InductiveInvariant, PTL

(* Theorem: on a config.cfg that was whole the editor crashes only after a *)
(* write of its own that failed. *)
THEOREM CrashesOnHolesOnly == Spec => []CrashNeedsHole
<1>1. IInv => CrashNeedsHole
  BY DEF IInv
<1> QED
  BY <1>1, InductiveInvariant, PTL

(* Theorem: a save writes what the screen shows, the field being typed in  *)
(* included. *)
THEOREM SavesTheScreen == Spec => SavesWhatIsTyped
<1>1. TypeOK /\ [Next]_vars =>
        [pc = "form" /\ pc' = "save" =>
           \A f \in Fields :
             saving'[f] = IF f \in IntFields /\ OnScreen[f] \in Numbers
                            THEN OnScreen[f] % Modulus ELSE OnScreen[f]]_vars
  <2>1. SUFFICES ASSUME TypeOK, Next, pc = "form", pc' = "save", NEW f \in Fields
                 PROVE  saving'[f] = IF f \in IntFields /\ OnScreen[f] \in Numbers
                                       THEN OnScreen[f] % Modulus ELSE OnScreen[f]
    OBVIOUS
  <2>2. Submit
    BY <2>1 DEF Next, Menu, Form, Save, EditDefaults, EditFile, OpenForm, Crash, Quit, Type, Down,
                Up, Leave, Warn, CannotOpen, Accepted, Write, WriteFails, Other
  <2>3. saving' = Converted /\ Acceptable
    BY <2>2 DEF Submit, Accepted
  <2>4. IF f \in IntFields THEN Stored[f] \in Numbers /\ Converted[f] = Atoi(Stored[f])
                           ELSE Converted[f] = Stored[f] /\ Stored[f] \in Values(f)
    BY <2>1, <2>3, ConvertedIsWhole
  <2> QED
    BY <2>3, <2>4 DEF Stored, Atoi
<1>2. IInv => TypeOK
  BY DEF IInv
<1> QED
  BY <1>1, <1>2, InductiveInvariant, PTL DEF Spec, SavesWhatIsTyped
=============================================================================
