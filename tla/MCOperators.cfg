SPECIFICATION Spec
CONSTANTS
  Bits <- MCBits
  Stride <- MCStride
  MaxBursts <- MCMaxBursts
  Macrocells <- MCMacrocells
  Jobs <- MCJobs
INVARIANTS ResultIsRight NothingLeftBehind OperandsSurvive BeliefsHold EndsInTime
