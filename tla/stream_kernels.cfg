SPECIFICATION KernelSpec
CONSTANTS
  Calls <- MCCalls
  Rotators <- MCRotators
  Reload = 16
  Lengths <- MCLengths
  MaxPhase = 8
  Arguments <- MCArguments
  Encoders <- MCEncoders
  Decoders <- MCDecoders
  PuppetElements <- MCElements
  FrozenBits <- MCFrozen
  FrameExps <- MCFrameExps
  Words <- MCWords
  Noise <- MCNoise
  Unset <- MCUnset
  Viterbis <- MCViterbis
  FrameBits <- MCFrameBits
  SentWords <- MCSentWords
  Disturbances <- MCDisturbances
  Detectors <- MCDetectors
  Signal <- MCSignal
  Bound = 4
  Chunks <- MCChunks
  Deviators <- MCDeviators
  Inputs <- MCInputs
INVARIANTS
  TypeOK
  AsGeneric
  InBounds
  SumAsGeneric
  RotatorRight
  AngleRight
  PolarRight
  ViterbiRight
  DetectRight
  DeviationRight
