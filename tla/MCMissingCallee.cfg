CONSTANTS
  Functions = {main, f}
  Entry = main
  Labels = {a, b}
  MaxCalls = 2
  MaxDepth = 1
SPECIFICATION Spec
INVARIANT RefusedWithACode
SYMMETRY LabelSymmetry
CHECK_DEADLOCK FALSE
