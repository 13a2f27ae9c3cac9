SPECIFICATION ReadSpec
CONSTANTS
  Settings <- ThreeSettings
  IntSettings <- TwoInts
  ArgTexts <- JustZero
  EnvTexts <- JustAPort
  Atoi <- Strtol
  Default <- MoreDefaults
  Files <- SomeFiles
  FirstFiles <- SomeFiles
  MaxOptions = 1
  Unset = Unset
  Absent = Absent
  Broken = Broken
CHECK_DEADLOCK FALSE
INVARIANT DocumentedRules
