SPECIFICATION Spec
CONSTANTS
  IntBits = 8
  FirstDelay = 5
  LongestDelay = 30
  MaxOutage = 5
INVARIANT BacksOff
