SPECIFICATION Spec
CONSTANTS
  t1 = t1
  t2 = t2
  n1 = n1
  n2 = n2
  n3 = n3
  b1 = b1
  b2 = b2
  NULL = NULL
  Unset = Unset
  Nothing = Nothing
  Tasks = {t1}
  Nodes = {n1, n2, n3}
  Bytes = {b1, b2}
  Writes <- SmallWrites
  Counts = {1, 3}
  OpenModes = {"rdonly", "wronly", "rdwr"}
  Faulty = TRUE
  MaxOpens = 2
INVARIANTS AloneInv SoundUnlessHurt DanglingOnlyAfterHurt
PROPERTY LastInFirstOut
CHECK_DEADLOCK FALSE
