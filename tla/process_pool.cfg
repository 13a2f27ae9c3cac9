\* Indices 0..1: four processes, and one client more than they can ever accept.
SPECIFICATION FairSpec
CONSTANTS PoolSize = 2  Clients = 4
INVARIANTS ActiveBounded ClosedEverywhere LeftOpenInSubtree AcceptsBounded
PROPERTY PoolAcceptsToCapacity
\* Every process ends blocked in the manager loop, or dead.
CHECK_DEADLOCK FALSE
