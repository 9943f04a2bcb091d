SPECIFICATION FairSpec
CONSTANTS
  NrDevs = 2
  MaxUsers = 2
  Faulty = TRUE
  Readers = {"r1", "r2"}
  Limit = 1
  MaxItems = 2
  Slots = 1
INVARIANTS ProcInv UsersNeedDevice TrimAlone NothingLeft SeqSafeUntilUnload ProcmemBounded
PROPERTIES HeldListStays ReadsEnd
CHECK_DEADLOCK FALSE
