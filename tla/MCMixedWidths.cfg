SPECIFICATION Spec
CONSTANTS
  Bits <- MCBits
  Stride <- MCStride
  MaxBursts <- MCMaxBursts
  Macrocells <- MCMacrocells
  Jobs <- WideWithNarrow
INVARIANT ResultIsRight
