SPECIFICATION FairSpec
CONSTANTS
  t1 = t1
  t2 = t2
  Threads <- TwoThreads
  Uris <- PageAndProgram
  MaxFds = 1
  Sizes = {0, 1, 3, 5, 9}
  FirstSizes = {0, 3}
  Page = 2
  MaxInt = 3
  MaxChanges = 1
INVARIANTS WholeUnlessDisturbed WaitsPaired FilesClosed
PROPERTIES ImplementsReply ServiceEnds
CHECK_DEADLOCK FALSE
