CONSTANTS
  t1 = t1
  t2 = t2
  t3 = t3
  t4 = t4
  Tasks <- MCTasks3
  Cap = 1
  MaxPacketId = 3
  OverflowChecks = FALSE
  EnvEvents = {"disconnect"}
  NoTask = NoTask
SPECIFICATION MCSpec
PROPERTY SendsResolve
CHECK_DEADLOCK FALSE
