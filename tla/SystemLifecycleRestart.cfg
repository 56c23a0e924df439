SPECIFICATION MCSpec
CONSTANTS
  Viewers = {}
  MaxQueue = 1
PROPERTY RestartCompletes
