SPECIFICATION Spec
CONSTANTS
  t1 = t1
  t2 = t2
  t3 = t3
  Threads <- ThreeThreads
  MaxLookupFailures = 1
SYMMETRY Symmetry
INVARIANTS
  NativeTypeOK
  ResourcesAreReturned
  OneGlobalPerThread
  QuietGlobalsAreComplete
CHECK_DEADLOCK FALSE
