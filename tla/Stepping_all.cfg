\* A recursive program with a loop and a native method, 3 frames deep.
CONSTANTS
  main = main
  work = work
  native = native
  Methods <- Program
  Main = main
  Natives = {native}
  LastLocation <- Last3
  Moves <- Ways
  Callees <- Uses
  LineStarts <- Starts
  Breakpoints <- Set
  Nil = Nil
  MaxDepth = 3
SPECIFICATION Spec
INVARIANT TypeOK
INVARIANT CalleeIsWatched
INVARIANT NextLineIsNotMissed
PROPERTY StopsWhereAsked
\* The program ends.
CHECK_DEADLOCK FALSE
