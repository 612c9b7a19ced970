CONSTANTS
  Byte = 7
  MaxBlocks = 30
  TapeLength = 40
  Programs <- CallingPrograms
  Inputs <- SmallInputs

SPECIFICATION Spec

CHECK_DEADLOCK FALSE

INVARIANT TypeOK
INVARIANT FramesChained
INVARIANT CallersWait
PROPERTY ImplementsCalls
PROPERTY Terminates
