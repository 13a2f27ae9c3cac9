\* Two threads, three clients, two descriptors: one leak, a silent client or a
\* crossing is enough to find the table full or the threads held.
SPECIFICATION MixSpec
CONSTANTS
  t1 = t1  t2 = t2
  c1 = c1  c2 = c2  c3 = c3
  Null = Null  Junk = Junk  NotFound = NotFound
  Threads <- TwoThreads
  Conns <- ThreeConns
  Kinds <- AllKinds
  MaxFds = 2
INVARIANTS QueueMatchesWaiters AnsweredByOwnRequest DescriptorsAccounted IInv
PROPERTIES ImplementsService PageServed
\* The server may stop: every client served, or silent, or the process gone.
CHECK_DEADLOCK FALSE
