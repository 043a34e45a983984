SPECIFICATION Spec
CONSTANTS
  Nobody = Nobody
  Nil = Nil
  CMD = CMD
  AppThreads = {t1}
  Methods = {m1}
  Handled = {}
  Ops = {"g", "bc"}
  Interrupts = FALSE
  MaxNest = 1
  MaxQueue = 1
  MaxAborted = 1
INVARIANT HitIsListed
CHECK_DEADLOCK FALSE
