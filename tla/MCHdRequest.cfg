SPECIFICATION FairSpec
CONSTANTS
  t1 = t1
  t2 = t2
  t3 = t3
  b1 = b1
  b2 = b2
  b3 = b3
  Tasks = {t1, t2, t3}
  NoTask = NoTask
  NoBuffer = NoBuffer
  wait_for_request = wait_for_request
  Buffers <- MCBuffers
  Queues <- MCQueues
  Key <- MCKey
  Work <- MCWork
  NR_REQUEST = 2
  MAX_ERRORS = 1
  MaxCalls = 1
  DrqTimeouts = TRUE
  Failing = {1, 2}
INVARIANTS
  LockExact
  
  
  
PROPERTIES
  CallsFinish
CHECK_DEADLOCK FALSE
