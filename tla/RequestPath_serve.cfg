SPECIFICATION Spec
CHECK_DEADLOCK FALSE
CONSTANTS
  Workers = {w1, w2}
  QueueSize = 1
  FlushEvery = 2
  Ids = {1, 2, 3}
  Scenarios <- McScenarios
  MaxCards = 2
INVARIANT ReplayIsAnAnswer
INVARIANT LogSound
 
PROPERTY LogProgress
