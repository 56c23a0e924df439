SPECIFICATION Spec
CONSTANTS
  Streams = {s1}
  Keys = {k1}
  Unseen = Unseen
  CooldownDefault = 1
  MinDefault = 3
  Cooldowns <- MCCooldowns
  MinFrames <- MCMinFrames
  MaxTime = 4
  MaxCalls = 6
INVARIANTS TypeOK AlertsWhenDue
