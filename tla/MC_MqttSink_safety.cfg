\* Every environment event, peer misbehaviour included.
CONSTANTS
  t1 = t1
  t2 = t2
  t3 = t3
  t4 = t4
  Tasks <- MCTasks4
  Cap = 1
  MaxPacketId = 2
  OverflowChecks = FALSE
  EnvEvents = {"close", "ping", "disconnect", "cancel", "badAck"}
  NoTask = NoTask
SPECIFICATION MCSpec
SYMMETRY MCSymmetry
INVARIANT TypeOK
INVARIANT OrderTracksSlab
INVARIANT AckCorrelation
PROPERTY AckQueueRefinement
