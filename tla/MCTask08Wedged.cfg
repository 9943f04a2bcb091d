SPECIFICATION FairSpec
CONSTANTS
  t1 = t1
  t2 = t2
  f1 = f1
  f2 = f2
  x = x
  y = y
  nul = nul
  idstr <- Id
  Byte = {x, y, nul}
  NUL = nul
  Texts <- SmallTexts
  Lengths = {2, 3}
  Tasks = {t1, t2}
  Files = {f1, f2}
  PAGE_SIZE = 2
  Counts = {0, 1, 3}
  Faulty = FALSE
  MaxReads = 2
PROPERTY CallsReturn
CHECK_DEADLOCK FALSE
