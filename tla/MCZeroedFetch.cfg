CONSTANTS
  Buffers = {b1, b2, b3, b4, b5, b6}
  BufferCount = 6
  PoolCap = 6
  NULL = NULL
  QCap = 1
  MaxLen = 1
  UartChunks <- UartTraffic
  UdpChunks <- UdpTraffic
SPECIFICATION PrioritySpec
SYMMETRY MCSymmetry
PROPERTY
  ZeroedFetch
