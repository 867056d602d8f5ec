SPECIFICATION FairSpec
CONSTANTS
  Tasks = {t1, t2, t3}
  NoTask = NoTask
  NoQueue = NoQueue
  bwait = bwait
  iwait = iwait
  wait_for_request = wait_for_request
  proc_list = proc_list
  Queues <- MCLiveQueues
  IrqQueues <- MCLiveQueues
  OpenQueues <- MCOpenQueues
  TtyQueues = {}
PROPERTIES
  SleeperRuns
