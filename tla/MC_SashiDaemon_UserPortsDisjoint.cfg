CONSTANTS
  n1 = n1
  n2 = n2
  n3 = n3
  NoName = NoName
  Names <- MCNames
  MaxInstances = 2
  InitPorts <- MCInitPorts
  InitRows <- MCEmptyRows
  StepsMayFail = TRUE
SYMMETRY MCSymmetry
SPECIFICATION Spec
INVARIANT UserPortsDisjoint
