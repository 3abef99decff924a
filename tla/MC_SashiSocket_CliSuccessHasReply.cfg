\* A command reports success with no reply when the daemon dies after reading it.
CONSTANTS
  n1 = n1
  cl1 = cl1
  cl2 = cl2
  NoName = NoName
  NoClient = NoClient
  Names = {n1}
  Clients = {cl1, cl2}
  MaxInstances = 1
  InitPorts <- MCInitPorts
  InitRows <- MCRows
  StepsMayFail = TRUE
  MaxCrashes = 1
SPECIFICATION Spec
INVARIANT CliSuccessHasReply
\* Once every CLI has finished the message thread polls for ever.
CHECK_DEADLOCK FALSE
