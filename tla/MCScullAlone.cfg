SPECIFICATION Spec
CONSTANTS
  t1 = t1
  t2 = t2
  f1 = f1
  f2 = f2
  b1 = b1
  b2 = b2
  Junk = Junk
  Tasks = {t1}
  Admins = {t1}
  SCULL_QUANTUM = 1
  SCULL_QSET = 2
  LoadQuantum = 1
  LoadQset = 2
  INT_MAX = 7
  Args = {2}
  Verbs = {"S", "reset"}
  Faulty = TRUE
  Files = {f1}
  Bytes = {b1}
  Zero = b1
  Unwritten = Junk
  Counts = {1, 2}
  Offsets <- BackAndForth
  MaxPos = 3
INVARIANTS LayoutCurrent SizeBacked StoreInv DeadOnlyOfZero
CHECK_DEADLOCK FALSE
PROPERTIES Linearizable
