\* Two threads, of one name or of two, and stacks of two frames.
CONSTANTS
  m1 = m1
  m2 = m2
  Main = m2
  Methods <- Program
  Variables <- LocalVariables
  Returns <- Result
  Threads = {t1, t2}
  CMD = CMD
  ThreadNames = {n1, n2}
  LastLocation <- Last
  Nil = Nil
  Raised = Raised
  Alias = Alias
  MaxFrames = 2
  MaxLines = 3
  MaxCallbacks = 2
SPECIFICATION Spec
SYMMETRY Symmetry
INVARIANTS TypeOK SelectedFrameExists FrameIsWhatItSays LocalIsRight
PROPERTIES StopsItsThread ForcesTheFrameAsked
\* The program ends.
CHECK_DEADLOCK FALSE
