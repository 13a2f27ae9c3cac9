\* readme.txt:11 on the number of connections: enough clients for every process.
SPECIFICATION Spec
CONSTANTS PoolSize = 3  Clients = 6
INVARIANT ServesWithinMaxConnections
CHECK_DEADLOCK FALSE
