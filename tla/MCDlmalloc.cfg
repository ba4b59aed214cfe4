CONSTANTS
  SIZE_T_BITSIZE = 30
  WordSize = 1073741824
  HeapEnd = 8192
  PageSize = 4096
  MaxMemory = 1073741823
  Programs <- MCPrograms
SPECIFICATION Spec
INVARIANTS StateChecks AllMemoryAccounted UsersHaveTheirBlocks FindsFreeMemory
PROPERTIES FailureChangesNothing LimitIsKept ImplementsAllocator
