CONSTANTS
  Functions = {main, f}
  Entry = main
  Labels = {a, b}
  MaxCalls = 4
  MaxDepth = 1
SPECIFICATION Spec
INVARIANTS TypeOK EmitsIntoABlock VerdictIsRight BlocksFollowText
SYMMETRY LabelSymmetry
CHECK_DEADLOCK FALSE
