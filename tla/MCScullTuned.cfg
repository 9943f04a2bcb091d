SPECIFICATION Spec
CONSTANTS
  t1 = t1
  t2 = t2
  f1 = f1
  f2 = f2
  b1 = b1
  b2 = b2
  Junk = Junk
  Tasks = {t1, t2}
  Admins = {}
  SCULL_QUANTUM = 2
  SCULL_QSET = 1
  LoadQuantum = 1
  LoadQset = 2
  INT_MAX = 7
  Args = {0}
  Verbs = {"reset"}
  Faulty = FALSE
  Files = {f1, f2}
  Bytes = {b1, b2}
  Zero = b1
  Unwritten = Junk
  Counts = {2}
  Offsets = {}
  MaxPos = 2
INVARIANTS TypeOK Exclusive SoundUnlessRaced
PROPERTY LinearUntilRaced
SYMMETRY Symmetry
