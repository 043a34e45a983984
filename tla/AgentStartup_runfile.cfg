SPECIFICATION FairSpec
CONSTANTS
  VM = VM
  CMD = CMD
  Nobody = Nobody
  Runfiles = {"false"}
  CallsG = {TRUE, FALSE}
  Fallible = FALSE
  Interrupts = FALSE
PROPERTIES RunfileFalseBegins
CHECK_DEADLOCK FALSE
