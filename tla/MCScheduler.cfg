SPECIFICATION Schedule
CONSTANTS
  TABLE_SIZE = 5
  INodes = {1, 10, 21}
  HKeys = {NoHash, k1, k2}
  NoHash = NoHash
  t1 = t1
  t2 = t2
  k1 = k1
  k2 = k2
  Tasks = {t1, t2}
  Idle = Idle
  Global = Global
  Keys = {k1, k2}
  NoKey = NoKey
  hash <- MCHash
  Plain = Plain
  Garbled = Garbled
  Entries <- MCEntries
  Blocks <- MCBlocks
  Named = {1, 21}
  MaxTimers = 1
  MaxOdd = 0
  BLOCK_SIZE = 16
  KeyStrings <- MCKeyStrings
  Junk = 99
  NR_TASKS = 3
  PRIORITY = 1
  MaxPriority = 2
  MaxAlarm = 1
  MaxForks = 1
SYMMETRY Symmetry
INVARIANTS
  TableExact
  FilesMatchTable
  DecryptionInverts
  Timely
  NobodyStarves
CHECK_DEADLOCK FALSE
