CONSTANTS
  Leds = {oh_no, lt_rx, lt_tx}
  Steady = {oh_no}
SPECIFICATION FairSpec
INVARIANTS
  LevelShown
PROPERTIES
  FlashEnds
  FlashSeen
