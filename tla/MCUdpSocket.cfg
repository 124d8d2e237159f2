CONSTANTS
  Fds = {0, 1}
  McastSlots = 3
SPECIFICATION FairSpec
INVARIANTS
  SocketsInHand
  SendsOnlyWhenReady
PROPERTY
  ComesUp
