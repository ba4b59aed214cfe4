CONSTANTS
  PageSize = 4
  AddrPages = 5
  InitialPages = 2
  HeapEnd0 = 8
  MaxPages = 5

SPECIFICATION Spec

INVARIANTS
  TypeOK
  HeapBacked
  LastPageUnreached
  BlocksDisjoint

PROPERTIES
  GrowthIsMinimal
  ImplementsSbrk
