CONSTANTS
  Buffers = {b1, b2, b3, b4, b5, b6}
  BufferCount = 6
  PoolCap = 6
  NULL = NULL
  QCap = 1
  MaxLen = 2
  UartChunks <- UartTraffic
  UdpChunks <- UdpTraffic
SPECIFICATION PrioritySpec
SYMMETRY MCSymmetry
INVARIANTS
  OneOnTheWayToUart
  NeverUnderflows
  OnlyUdpTxLate
  UdpPacketsIntact
  NoEcho
PROPERTY
  PromptLinkToUartSpec
