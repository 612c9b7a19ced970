CONSTANTS
  ReturnValueSize = 1
  Sizes = {1, 2}
  MaxArea = 4
  MaxObjects = 4
  MaxDepth = 2
  MaxScopes = 2

SPECIFICATION Spec

INVARIANT TypeOK
INVARIANT Tiling
INVARIANT Coalesced
INVARIANT OwnersOpen
INVARIANT AreaIsSum
INVARIANT MergeIsLoop
PROPERTY StoragePinned
PROPERTY GrowthIsForced
