\* myqueue.c:36 on what a dequeued pointer leads to.
SPECIFICATION Spec
CONSTANTS
  t1 = t1  t2 = t2
  c1 = c1  c2 = c2  c3 = c3
  Null = Null  Junk = Junk  NotFound = NotFound
  Threads <- TwoThreads
  Conns <- ThreeConns
  Kinds <- AllKinds
  MaxFds = 3
SYMMETRY Symmetry
INVARIANT DequeuedHoldsClient
\* The server may stop: every client served, or silent, or the process gone.
CHECK_DEADLOCK FALSE
