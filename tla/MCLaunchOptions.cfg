SPECIFICATION OptionsSpec
CONSTANTS
  MaxPinned = 4
INVARIANTS DressedOrTold ProfileDecides
CHECK_DEADLOCK FALSE
