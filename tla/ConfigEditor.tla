----------------------------- MODULE ConfigEditor -----------------------------
(***************************************************************************)
(* The configuration editor: a menu, and a form with one input field for   *)
(* each setting, whose content replaces config.cfg.  Nothing else keeps    *)
(* other programs from config.cfg: a second editor, or a person, may       *)
(* truncate or write it at any time (Other).                               *)
(*                                                                         *)
(* A content is Blank (nothing or white space), Text or a number.  The     *)
(* form library keeps the content of the field the cursor is in apart, in  *)
(* a window, until the cursor leaves the field.                            *)
(***************************************************************************)
EXTENDS Naturals

CONSTANTS
  Fields,      \* the settings
  IntFields,   \* those that are numbers
  Mode,        \* server_mode, the last field of the form
  Below,       \* Below[f]: the field below f, the first one for the last
  Blank, Text, \* contents that are not numbers
  Numbers,     \* numbers
  Typed,       \* Typed[f]: the contents one may type into f
  Modulus,     \* one more than the largest int
  Default,     \* Default[f]: what config_defaults.h has for f
  Missing,     \* a setting config.cfg does not have
  Junk,        \* what an uninitialized variable holds
  NoFile, Bad, \* config.cfg is not there, is not what libconfig can read
  Files,       \* what others make of config.cfg
  MaxSaves, MaxOthers  \* bounds: saves, steps of others on config.cfg

Contents  == {Blank, Text} \cup Numbers
Ints      == {n \in Numbers : n < Modulus}
Values(f) == IF f \in IntFields THEN Ints ELSE {Text} \cup Numbers
Settings  == {c \in [Fields -> {Text, Missing} \cup Numbers] :
                \A f \in Fields : c[f] \in Values(f) \cup {Missing}}
Complete(c) == \A f \in Fields : c[f] # Missing
Unreadable  == {NoFile, Bad}
Empty       == [f \in Fields |-> Missing]   \* libconfig reads an empty file

ASSUME FieldsAssumption ==
  /\ Mode \in IntFields /\ IntFields \subseteq Fields
  /\ Below \in [Fields -> Fields] /\ \A f \in Fields : \E g \in Fields : Below[g] = f
  /\ Default \in [Fields -> Contents]
  /\ \A f \in Fields : Default[f] \in Values(f) /\ Typed[f] \subseteq Contents
ASSUME ContentsAssumption ==
  /\ Modulus \in Nat \ {0} /\ Numbers \subseteq Nat
  /\ \A n \in Numbers : n % Modulus \in Numbers
  /\ {Blank, Text, Missing, Junk} \cap Numbers = {}
  /\ Blank \notin {Text, Missing, Junk} /\ Text \notin {Missing, Junk} /\ Missing # Junk
  /\ Unreadable \cap Settings = {} /\ Files \subseteq Settings \cup Unreadable
ASSUME BoundsAssumption == MaxSaves \in Nat /\ MaxOthers \in Nat

VARIABLES
  pc,      \* the menu, the form, between truncation and write of a save, ...
  current, \* the field the cursor is in
  window,  \* its content on the screen
  buffer,  \* buffer[f]: the content the form library has stored
  shown,   \* shown[f]: what the form displays as current
  saving,  \* the settings config_write_file is about to write
  file,    \* config.cfg
  saves, others,  \* history: saves begun, steps of others on config.cfg
  written, \* history: what the editor made of config.cfg: "nothing" yet,
           \* "all" the settings, or nothing it could write ("cut")
  whole,   \* history: whether no setting was missing from config.cfg at first
  refused  \* history: whether the last save failed

form == <<current, window, buffer>>
vars == <<pc, form, shown, saving, file, saves, others, written, whole, refused>>

Init ==
  /\ pc = "menu"
  /\ current = Mode /\ window = Blank /\ buffer = [f \in Fields |-> Blank]
  /\ shown = [f \in Fields |-> Blank]
  /\ saving = Empty
  /\ file \in Files /\ whole = (file \in Unreadable \/ Complete(file))
  /\ saves = 0 /\ others = 0 /\ written = "nothing" /\ refused = FALSE
-----------------------------------------------------------------------------
(* The menu *)
OpenForm ==
  /\ current' = Below[Mode] /\ window' = Blank
  /\ buffer' = [f \in Fields |-> Blank]
  /\ pc' = "form"
  /\ UNCHANGED <<saving, file, saves, others, written, whole, refused>>

\* '1', with no config.cfg that can be read: the defaults are shown.
EditDefaults ==
  /\ pc = "menu" /\ file \in Unreadable
  /\ OpenForm
  /\ shown' = Default

\* '1', with a config.cfg: a setting it does not have is not initialized.
Show(f) == IF file[f] = Missing THEN Junk ELSE file[f]

EditFile ==
  /\ pc = "menu" /\ file \notin Unreadable
  /\ OpenForm
  /\ shown' = [f \in Fields |-> Show(f)]

MutCrash ==   \* looks the settings up in what could not be read, too
  /\ pc = "menu" /\ pc' = "crashed"
  /\ file \in Unreadable
  /\ UNCHANGED <<form, shown, saving, file, saves, others, written, whole, refused>>

\* ... and is a pointer, if it is not a number: the editor may not survive it.
Crash ==
  /\ pc = "menu" /\ file \notin Unreadable
  /\ \E f \in Fields : file[f] = Missing /\ f \notin IntFields
  /\ pc' = "crashed"
  /\ UNCHANGED <<form, shown, saving, file, saves, others, written, whole, refused>>

Quit ==
  /\ pc = "menu" /\ pc' = "ended"
  /\ UNCHANGED <<form, shown, saving, file, saves, others, written, whole, refused>>
-----------------------------------------------------------------------------
(* The form *)
OnScreen == [buffer EXCEPT ![current] = window]

\* A key that inserts or deletes: only '-' and '=' cannot be typed.
Type ==
  /\ pc = "form"
  /\ window' \in Typed[current]
  /\ UNCHANGED <<pc, current, buffer, shown, saving, file, saves, others, written, whole, refused>>

\* The cursor enters another field; what was typed is stored.
MoveTo(f) ==
  /\ current' = f /\ buffer' = OnScreen /\ window' = OnScreen[f]

Down ==
  /\ pc = "form" /\ MoveTo(Below[current])
  /\ UNCHANGED <<pc, shown, saving, file, saves, others, written, whole, refused>>

Up ==
  /\ pc = "form" /\ \E f \in Fields : Below[f] = current /\ MoveTo(f)
  /\ UNCHANGED <<pc, shown, saving, file, saves, others, written, whole, refused>>

\* '=': the form and what was typed into it are gone.
Leave ==
  /\ pc = "form" /\ pc' = "menu"
  /\ UNCHANGED <<form, shown, saving, file, saves, others, written, whole, refused>>

(* '-': the cursor goes to the next field and back, so that all is stored *)
MutStored == buffer   \* the cursor stays where it is

Stored == OnScreen

MutAllFilled == \E f \in Fields : Stored[f] # Blank   \* || for &&

AllFilled == \A f \in Fields : Stored[f] # Blank
AllNumbers == \A f \in Fields : f \in IntFields => Stored[f] \in Numbers

Atoi(n) == n % Modulus
Converted ==   \* libconfig leaves out a setting that has no value
  [f \in Fields |-> IF Stored[f] = Blank THEN Missing
                    ELSE IF f \in IntFields THEN Atoi(Stored[f]) ELSE Stored[f]]

Acceptable == AllFilled /\ AllNumbers /\ Converted[Mode] \in {1, 2}

\* A warning at the bottom of the form.
Warn ==
  /\ pc = "form" /\ ~Acceptable
  /\ buffer' = Stored
  /\ UNCHANGED <<pc, current, window, shown, saving, file, saves, others, written, whole, refused>>

Accepted ==
  /\ pc = "form" /\ Acceptable
  /\ saves < MaxSaves /\ saves' = saves + 1
  /\ buffer' = Stored /\ UNCHANGED <<current, window>>

\* config_write_file truncates config.cfg ...
Submit ==
  /\ Accepted
  /\ saving' = Converted /\ pc' = "save"
  /\ file' = Empty
  /\ UNCHANGED <<shown, others, written, whole, refused>>

\* ... if it can; what follows is the same when it cannot.
CannotOpen ==
  /\ Accepted
  /\ shown' = Stored
  /\ refused' = TRUE
  /\ UNCHANGED <<pc, saving, file, others, written, whole>>

MutWrite ==   \* the lines with the current settings are not written anew
  /\ pc = "save" /\ pc' = "form"
  /\ file' = saving \/ (file # Empty /\ file' = Bad)
  /\ saving' = Empty
  /\ written' = "all" /\ refused' = FALSE
  /\ UNCHANGED <<form, shown, saves, others, whole>>

\* ... and writes from the start, over what others have written since.
Write ==
  /\ pc = "save" /\ pc' = "form"
  /\ file' = saving \/ (file # Empty /\ file' = Bad)
  /\ saving' = Empty
  /\ shown' = Stored /\ written' = "all" /\ refused' = FALSE
  /\ UNCHANGED <<form, saves, others, whole>>

\* The write fails: config.cfg stays as it is, and the form shows the settings.
WriteFails ==
  /\ pc = "save" /\ pc' = "form" /\ written' = "cut" /\ refused' = TRUE
  /\ shown' = Stored /\ saving' = Empty
  /\ UNCHANGED <<form, file, saves, others, whole>>
-----------------------------------------------------------------------------
Other ==
  /\ others < MaxOthers /\ others' = others + 1
  /\ file' \in {Empty} \cup Files
  /\ UNCHANGED <<pc, form, shown, saving, saves, written, whole, refused>>

Menu == EditDefaults \/ EditFile \/ Crash \/ Quit
Save == Submit \/ CannotOpen \/ Write \/ WriteFails
Form == Type \/ Down \/ Up \/ Leave \/ Warn

Next == Menu \/ Form \/ Save \/ Other
Spec == Init /\ [][Next]_vars
-----------------------------------------------------------------------------
(* Properties *)
Contented == [Fields -> Contents]

TypeOK ==
  /\ pc \in {"menu", "form", "save", "ended", "crashed"}
  /\ current \in Fields /\ window \in Contents /\ buffer \in Contented
  /\ shown \in [Fields -> Contents \cup {Junk}]
  /\ saving \in Settings
  /\ file \in Settings \cup Unreadable
  /\ saves \in 0 .. MaxSaves /\ others \in 0 .. MaxOthers
  /\ written \in {"nothing", "all", "cut"} /\ whole \in BOOLEAN /\ refused \in BOOLEAN

\* The editor never leaves a setting out of config.cfg, nor a mode that is
\* neither 1 nor 2, except while it writes and after a write that failed.
NothingLeftOut ==
  others = 0 /\ pc # "save" /\ written = "all" =>
    file \in Settings /\ Complete(file) /\ file[Mode] \in {1, 2}

\* What a save writes is what the screen shows, the field being typed included,
\* converted as the fields require.
SavesWhatIsTyped ==
  [][pc = "form" /\ pc' = "save" =>
       \A f \in Fields :
         saving'[f] = IF f \in IntFields /\ OnScreen[f] \in Numbers
                        THEN OnScreen[f] % Modulus ELSE OnScreen[f]]_vars

\* config.cfg as the form would show it.
Reading == IF file \in Unreadable THEN Default ELSE [f \in Fields |-> Show(f)]

\* What the form shows as current is what config.cfg has, as long as nobody
\* else writes it and the last save did not fail; of a number that is too
\* large for an int it shows all the digits and config.cfg has what is left.
ShownIsSaved ==
  pc = "form" /\ others = 0 /\ ~refused =>
    \A f \in Fields :
      IF f \in IntFields /\ shown[f] \in Numbers THEN Reading[f] = Atoi(shown[f])
                                               ELSE Reading[f] = shown[f]

\* The editor crashes only on a config.cfg that somebody else left incomplete,
\* or that a save of its own emptied and could not write.
CrashNeedsHole ==
  pc = "crashed" /\ others = 0 => ~whole \/ written = "cut"
=============================================================================
