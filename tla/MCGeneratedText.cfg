SPECIFICATION Spec
CONSTANTS
  CellBits <- MCCellBits
  TapeLength <- MCTapeLength
  Memory <- MCMemory
  MaxMeant <- MCMaxMeant
  Inputs <- MCInputs
  Programs <- MCPrograms
  Interruptible <- MCInterruptible
INVARIANT PrintsWhatIsMeant
PROPERTY RunsEnd
