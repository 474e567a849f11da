CONSTANTS
  Calls <- LongCalls
  Cap <- SmallCap
  Exact <- SmallExact

SPECIFICATION Spec
INVARIANT FirstMaximum
