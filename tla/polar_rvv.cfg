SPECIFICATION PolarSpec
CONSTANTS
  Encoders <- MCEncoders
  Decoders <- MCDecoders
  PuppetElements <- MCElements
  FrozenBits <- MCFrozen
  FrameExps <- SmallExps
  Words <- MCWords
  Noise <- MCNoise
  Unset <- OneUnset
INVARIANT DecodedAsSent
CHECK_DEADLOCK FALSE
