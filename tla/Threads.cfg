SPECIFICATION FairSpec
CONSTANTS
  main = main
  t1 = t1
  t2 = t2
  t3 = t3
  Threads = {main, t1, t2, t3}
  Main = main
  NoThread = none
  LastId = 3
INVARIANTS
  TypeOK
  OneOwner
  JoinedEnded
  AbortExplained
PROPERTY
  JoinReturns
CHECK_DEADLOCK FALSE
