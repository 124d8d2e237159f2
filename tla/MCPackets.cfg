CONSTANTS
  Frames <- SomeFrames
  NbpType <- AP
  Magic <- Set
  MaxType = 3
SPECIFICATION Spec
INVARIANTS
  WholeFramesArrive
  TruncatedNeverSent
  TuplesAsSent
  LookupsAsSent
  SetupAsSent
PROPERTY
  CrcDivides
