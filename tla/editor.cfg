\* A mode (1), an int that is none (3) and one that wraps to a mode (5 = 1 mod 4).
SPECIFICATION Spec
CONSTANTS
  port = port  server_name = server_name  server_mode = server_mode
  Blank = Blank  Text = Text  Missing = Missing  Junk = Junk
  NoFile = NoFile  Bad = Bad
  Fields <- ThreeFields
  IntFields <- TwoInts
  Mode <- server_mode
  Below <- Order
  Default <- Defaults
  Typed <- Keys
  Files <- FourFiles
  Numbers = {1, 3, 5}
  Modulus = 4
  MaxSaves = 2
  MaxOthers = 1
INVARIANTS NothingLeftOut ShownIsSaved CrashNeedsHole
PROPERTY SavesWhatIsTyped
\* The editor ends with '2', or crashes.
CHECK_DEADLOCK FALSE
