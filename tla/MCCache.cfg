CONSTANTS
  Junk = Junk
  Programs <- AllPrograms

SPECIFICATION Spec

INVARIANT TypeOK
INVARIANT Transparent
INVARIANT EntriesStand
INVARIANT CleanIsCurrent
INVARIANT ScopeEndsEntries
INVARIANT BoundaryEmpties
