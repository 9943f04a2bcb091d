SPECIFICATION Spec
CONSTANTS
  t1 = t1
  t2 = t2
  f1 = f1
  f2 = f2
  b1 = b1
  b2 = b2
  Junk = Junk
  Tasks = {t1, t2}
  Admins = {t2}
  SCULL_QUANTUM = 1
  SCULL_QSET = 2
  LoadQuantum = 1
  LoadQset = 2
  INT_MAX = 7
  Args = {1}
  Verbs = {"T"}
  Faulty = FALSE
  Files = {f1, f2}
  Bytes = {b1}
  Zero = b1
  Unwritten = Junk
  Counts = {1}
  Offsets = {}
  MaxPos = 2
INVARIANT LayoutCurrent
SYMMETRY FileSymmetry
