CONSTANTS
  Buffers = {b1, b2}
  BufferCount = 2
  PoolCap = 2
  NULL = NULL
  QCap = 1
  MaxLen = 1
  UartChunks <- TalkUart
  UdpChunks <- TalkUdp
SPECIFICATION FairSpec
PROPERTY
  PacketsMoveOn
