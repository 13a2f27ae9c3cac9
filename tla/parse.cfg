SPECIFICATION Spec
CONSTANTS
  LineTokens <- AllTokens
  OptionTokens <- LineBreaks
  MaxLine = 5
  MaxMsg = 10
INVARIANTS IInv EndsAtFirstEmptyLine LinesAsSent RequestLineRead AnsweredAfterRequestLine
CHECK_DEADLOCK FALSE
