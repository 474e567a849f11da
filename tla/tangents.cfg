CONSTANT Arguments <- ManyTurns

SPECIFICATION AngleSpec
INVARIANT TangentRight
