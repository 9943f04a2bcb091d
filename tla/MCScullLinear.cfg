SPECIFICATION FairSpec
CONSTANTS
  t1 = t1
  t2 = t2
  f1 = f1
  f2 = f2
  b1 = b1
  b2 = b2
  Junk = Junk
  Tasks = {t1, t2}
  Admins = {}
  SCULL_QUANTUM = 2
  SCULL_QSET = 1
  LoadQuantum = 2
  LoadQset = 1
  INT_MAX = 7
  Args = {}
  Verbs = {}
  Faulty = FALSE
  Files = {f1}
  Bytes = {b1, b2}
  Zero = b1
  Unwritten = Junk
  Counts = {1, 2}
  Offsets = {2}
  MaxPos = 3
INVARIANTS LayoutCurrent SizeBacked HeapSafe
PROPERTIES Linearizable ReadNeverAllocates CallsReturn
