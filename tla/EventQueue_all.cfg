SPECIFICATION FairSpec
CONSTANTS
  Nobody = Nobody
  Nil = Nil
  Threads = {cmd, agent, app}
  Owner = app
  Events = {resume, command}
  MaxEvents = 3
  MaxInterrupts = 2
INVARIANTS TypeOK LockAccounting NoLostWakeup
PROPERTIES IsChannel PopDelivers PushCompletes
