CONSTANT Arguments <- ManyTurns

SPECIFICATION AngleSpec
INVARIANT SeriesRight
