CONSTANTS
  Buffers = {b1, b2, b3}
  BufferCount = 3
  PoolCap = 3
  NULL = NULL
  QCap = 2
  MaxLen = 1
  UartChunks <- AnyUart
  UdpChunks <- AnyUdp
SPECIFICATION Spec
SYMMETRY MCSymmetry
INVARIANTS
  TypeOK
  HoldsWhereItShould
  Accounted
  NeverOverflows
PROPERTIES
  ClientSpec
  LinkToUdpSpec
  LinkToUartSpec
