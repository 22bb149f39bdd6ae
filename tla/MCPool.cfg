SPECIFICATION Spec
CONSTANTS
  None = None
  Objects = {o1, o2, o3, o4}
  Workers = {w1, w2}
  Closers = {c1}
  MaxIn = 3
SYMMETRY Symmetry
INVARIANT OneOwner
INVARIANT PacketIntact
CHECK_DEADLOCK FALSE
