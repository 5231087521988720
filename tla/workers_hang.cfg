CONSTANTS
  c1 = c1
  c2 = c2
  c3 = c3
  none = none
  Call <- ThreeCalls
  NoCall <- none
  MinWorkers = 1
  MaxWorkers = 2
  MaxStarts = 2
  MaxStops = 2
  MaxSpawned = 4
SPECIFICATION Spec
PROPERTIES NoCallHangs
CHECK_DEADLOCK FALSE
