SPECIFICATION Spec
CONSTANTS
  t1 = t1
  t2 = t2
  Nil = Nil
  Threads = {t1, t2}
  Interpreters = {}
  Kinds = {"breakpoint"}
  Registrable = {}
  MaxNest = 1
INVARIANTS StateAnchored
