SPECIFICATION ReadSpec
CONSTANTS
  Settings <- TwoSettings
  IntSettings <- OneInt
  ArgTexts <- Arguments
  EnvTexts <- Environment
  Atoi <- Strtol
  Default <- Defaults
  Files <- FourFiles
  FirstFiles <- AnyFile
  MaxOptions = 2
  Unset = Unset
  Absent = Absent
  Broken = Broken
\* readConfiguration returns or exits.
CHECK_DEADLOCK FALSE
INVARIANT Precedence
