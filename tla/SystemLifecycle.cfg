SPECIFICATION MCViewedSpec
CONSTANTS
  Viewers = {v1}
  MaxQueue = 2
INVARIANTS TypeOK WorkersEndFirst SleepersMissNoFrame CleanExitDrains
PROPERTIES UpdateKeepsOtherSections RestartTakesEffect
