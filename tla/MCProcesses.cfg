SPECIFICATION Forks
CONSTANTS
  Slots = {1, 2, 3}
  FirstSlot = 1
  MaxPid = 4
  Sent = {"other"}
  t1 = t1
  t2 = t2
  Tasks = {t1, t2}
  NR_OPEN = 2
  NR_FILE = 2
  Inodes = {1, 2}
INVARIANTS
  PidsUnique
  FathersLive
  FileCountsExact
PROPERTY
  FatherReturns
CHECK_DEADLOCK FALSE
