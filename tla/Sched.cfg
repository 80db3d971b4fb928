CONSTANTS
  Procs = {t1, t2, t3}
  Mod = 8
  Priorities = {0, 2}
  MaxTimeSlice = 1
  MaxChanges = 2
SYMMETRY Symmetry
SPECIFICATION Spec
INVARIANTS QueueExact StrideOrder
