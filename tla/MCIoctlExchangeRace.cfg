SPECIFICATION IoctlSpec
CONSTANTS
  user = user
  root1 = root1
  root2 = root2
  Tasks = {root1, root2}
  Admins = {root1, root2}
  SCULL_QUANTUM = 4
  SCULL_QSET = 3
  LoadQuantum = 2
  LoadQset = 1
  INT_MAX = 7
  Args = {1, 2}
  Verbs = {"X", "H"}
  Faulty = FALSE
INVARIANT ExchangeAtomic
