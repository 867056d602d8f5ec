SPECIFICATION Spec
CONSTANTS
  Tasks = {t1, t2}
  NoTask = NoTask
  Blocks = {x1, x2, x3, x4}
  NoBlock = NoBlock
  buffer_wait = buffer_wait
  Queues <- MCQueues
  NR_BUFFERS = 3
  MaxHeld = 2
  Failing = {"read"}
  Versions = FALSE
SYMMETRY MCSymmetry
INVARIANTS
  OneBufferPerBlock
  CountExact
  FreeListIsRing
  HeldIsRight

  
