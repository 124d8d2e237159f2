CONSTANTS
  Fds = {0, 1}
  McastSlots = 1
SPECIFICATION FairSpec
PROPERTY
  ReopensAfterError
