CONSTANTS
  Calls <- MCCalls
  Cap <- MCCap
  Exact <- MCExact

SPECIFICATION Spec
INVARIANTS TypeOK FirstBest BestFound NaNsHarmless
