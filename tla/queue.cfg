\* Two threads, a mutex that is not fair; each malloc may reuse any freed node.
SPECIFICATION FairSpec
CONSTANTS
  t1 = t1  t2 = t2
  n1 = n1  n2 = n2  n3 = n3
  Null = Null
  Threads <- TwoThreads
  Nodes <- ThreeNodes
INVARIANTS NoUseAfterFree NodesAccounted
PROPERTIES ImplementsFifo PointerTaken
