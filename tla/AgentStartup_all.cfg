SPECIFICATION FairSpec
CONSTANTS
  VM = VM
  CMD = CMD
  Nobody = Nobody
  Runfiles = {"none", "unloadable", "error", "true", "false"}
  CallsG = {TRUE, FALSE}
  Fallible = TRUE
  Interrupts = TRUE
INVARIANTS TypeOK BeginsWhenTold ResumeAccounting
PROPERTIES TypingGBegins
CHECK_DEADLOCK FALSE
