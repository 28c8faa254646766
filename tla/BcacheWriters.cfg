SPECIFICATION Spec
CONSTANTS
  Threads = {t1, t2, t3}
  CanRead = {t1, t2}
  CanWrite = {t2, t3}
  BCACHE_UNITS = 2
  Units = {u1, u2, u3}
  Tail = {u3}
  Blocks = {1, 2}
  ReadParts = {{1, 2}}
  WriteParts = {{1}, {1, 2}}
  MaxWrites = 2
  MaxPages = 2
  Overlaps = {"writers"}
  None = None
SYMMETRY Symmetric
INVARIANTS
  Coherent
CHECK_DEADLOCK FALSE
