SPECIFICATION IoctlSpec
CONSTANTS
  user = user
  root1 = root1
  root2 = root2
  Tasks = {user, root1}
  Admins = {root1}
  SCULL_QUANTUM = 4
  SCULL_QSET = 3
  LoadQuantum = 2
  LoadQset = 1
  INT_MAX = 7
  Args = {1, 15}
  Verbs = {"bad", "reset", "S", "T", "G", "Q", "X", "H"}
  Faulty = TRUE
INVARIANT IoctlTypeOK
PROPERTY OnlyAdminsTune
