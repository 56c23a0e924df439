SPECIFICATION Spec
CONSTANTS
  Streams = {s1, s2}
  Keys = {k1}
  Unseen = Unseen
  CooldownDefault = 1
  MinDefault = 2
  Cooldowns = {1}
  MinFrames = {2}
  MaxTime = 4
  MaxCalls = 5
INVARIANT EachPersonIsAlerted
