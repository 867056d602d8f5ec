SPECIFICATION Devices
CONSTANTS
  Slots = {1, 2}
  FirstSlot = 1
  Pages = {1, 2, 3, 4, 5, 6}
  LowPages = {0}
  Dirs = {0, 1}
  Entries = {1}
  Values = {0, 1}
  Zero = 0
  NoPage = NoPage
  NotPresent = NotPresent
  TopAddress <- MCTop
INVARIANTS
  MemoryExact
  InputExact
  
  
  KeyboardExact
PROPERTIES
  MemoryIsPrivate
  RequestsSorted
CHECK_DEADLOCK FALSE
