CONSTANTS
  Data = {0, 253}
  Broadcast = 253
  RxBufferSize = 2
  MaxPacket = 2
  MaxFrame = 3
  NULL = NULL
SPECIFICATION Spec
INVARIANTS
  RxTypeOK
  LossIsLocal
  ForwardedAsSent
