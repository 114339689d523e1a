SPECIFICATION Spec
CONSTANTS
  NULL = NULL
  Procs <- MCProcs
  Keys <- MCKeys
  Cards <- MCCards
  Scenarios <- EditedScenarios
  MaxVersion = 2
  MaxAttempts = 8
  PageSize = 2
  MinCards = 1
INVARIANT ReadyMeansMigrated
