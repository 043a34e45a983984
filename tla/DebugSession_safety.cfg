SPECIFICATION Spec
CONSTANTS
  Nobody = Nobody
  Nil = Nil
  CMD = CMD
  AppThreads = {t1, t2}
  Methods = {m1}
  Handled = {m1}
  Ops = {"g", "bp", "bc", "call", "raise", "badresult"}
  Interrupts = TRUE
  MaxNest = 2
  MaxQueue = 1
  MaxAborted = 1
SYMMETRY Symmetry
INVARIANTS TypeOK LockAccounting ListAccounting
PROPERTY IsSession
CHECK_DEADLOCK FALSE
