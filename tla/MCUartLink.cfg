CONSTANTS
  NodeBytes = 2
  ByteBits = 2
  Cutoff = 2
  MaxTime = 4
  Frames <- SomeFrames
  ZeroCount = 6
  MaxHandshakes = 1
  QCap = 1
  MaxLost = 2
SPECIFICATION Spec
INVARIANTS
  TypeOK
  OneWriter
  MaskTold
  NodesAnswered
  FreshWithinASecond
PROPERTIES
  FramesIntact
  ResetSynchronises
  FreshSetSpec
  MaskListsFresh
