\* Three failed submissions push the heartbeat to the end of its moment; a
\* restart in that moment then anchors every later send there.
\* The clock stops at the horizon, where no step is left: not a deadlock.
CONSTANTS
  MomentSize = 3600
  HeartbeatFreq = 1
  StartMoment = 4
  StartOffsets = {0, 1000}
  TokenRands = {0, 64807}
  LastHeartbeats = {12000}
  ReadLags = {0, 2}
  QueueWaits = {2}
  ValidationTimes = {4, 30}
  MaxFails = 3
  MaxRestarts = 1
  Horizon = 3
SPECIFICATION Spec
INVARIANT NoMomentSkipped
CHECK_DEADLOCK FALSE
