\* Two CLIs with any commands; the daemon may crash once and its steps fail.
CONSTANTS
  n1 = n1
  cl1 = cl1
  cl2 = cl2
  NoName = NoName
  NoClient = NoClient
  Names = {n1}
  Clients = {cl1, cl2}
  MaxInstances = 1
  InitPorts <- MCInitPorts
  InitRows <- MCRows
  StepsMayFail = TRUE
  MaxCrashes = 1
SPECIFICATION Spec
INVARIANT TypeOK
PROPERTY CliTerminates
\* Once every CLI has finished the message thread polls for ever.
CHECK_DEADLOCK FALSE
