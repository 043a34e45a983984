SPECIFICATION Spec
CONSTANTS
  t1 = t1
  t2 = t2
  Nil = Nil
  Threads = {t1, t2}
  Interpreters = {t2}
  Kinds = {"breakpoint", "single_step", "method_exit"}
  Registrable = {"single_step", "method_exit"}
  MaxNest = 2
INVARIANTS TypeOK StackBalanced KeptUnlessOvertaken NotReentered
