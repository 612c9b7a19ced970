SPECIFICATION Spec
CONSTANTS
  Bits <- MCBits
  Stride <- MCStride
  MaxBursts <- MCMaxBursts
  Macrocells <- MCMacrocells
  Base <- MCBase
  ZeroChar <- MCZeroChar
  MinusChar <- MCMinusChar
  Text <- MCText
  Jobs <- AddressedGlobals
INVARIANT AccessIsRight
