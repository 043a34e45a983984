SPECIFICATION FairSpec
CONSTANTS
  Nobody = Nobody
  Nil = Nil
  CMD = CMD
  AppThreads = {t1, t2}
  Methods = {m1}
  Handled = {}
  Ops = {"g", "bc", "badresult"}
  Interrupts = FALSE
  MaxNest = 1
  MaxQueue = 1
  MaxAborted = 1
INVARIANT StoppedIsDebugThread
PROPERTIES StoppedIsResumed HitIsServed
CHECK_DEADLOCK FALSE
