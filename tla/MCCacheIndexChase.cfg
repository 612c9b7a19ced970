CONSTANTS
  Junk = Junk
  Programs <- IndexChase

SPECIFICATION Spec

INVARIANT CleanIsCurrent
