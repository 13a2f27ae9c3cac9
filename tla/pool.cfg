\* Two to five counted children, four clients more than children; two calls of accept() may fail.
SPECIFICATION FairSpec
CONSTANTS PRECHILD = 2  MAXCHILD = 4  Clients = 9  MaxFailures = 2
INVARIANTS RequestsAccounted PoolWithinLimits AcceptorLeft
PROPERTY ClientsAccepted
\* All clients are served, or every child waits for a silent client.
CHECK_DEADLOCK FALSE
