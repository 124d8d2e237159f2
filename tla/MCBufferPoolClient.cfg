CONSTANTS
  Buffers = {b1, b2, b3}
  BufferCount = 3
  PoolCap = 3
  NULL = NULL
  Threads = {t1, t2, t3}
  Contents = {zero, stuff}
  Zeroed = zero
SPECIFICATION Spec
SYMMETRY MCSymmetry
INVARIANTS
  OneOwner
  PooledIsScrubbed
