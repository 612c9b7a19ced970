CONSTANTS
  Byte = 6
  MaxBlocks = 20

SPECIFICATION Spec

CHECK_DEADLOCK FALSE

INVARIANT TypeOK
INVARIANT RunsTheTarget
INVARIANT AgreesWithSelected
INVARIANT IndicesDistinct
PROPERTY RoundEnds
