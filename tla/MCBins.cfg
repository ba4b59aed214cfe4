CONSTANTS
  SIZE_T_BITSIZE = 30
  WordSize = 1073741824
  Null = Null
  Chunks = {p1, p2, p3, p4, p5}
  Workloads <- MCWorkloads
SPECIFICATION Spec
SYMMETRY Symm
INVARIANTS WellLinked BestFit
PROPERTIES ImplementsFreeBins
