SPECIFICATION FairSpec
CONSTANTS
  Tasks = {t1, t2, t3}
  NoTask = NoTask
  i_wait = iwait
  Queues <- MCQueues
  Bytes = {0}
  Zero = 0
  PageSize = 4
  MaxCount = 2
INVARIANTS
  EndsCounted
  NoLostWakeup
PROPERTIES
  HangupReleases
  EofMeansDrained
  PipeIsChannel
CHECK_DEADLOCK FALSE
