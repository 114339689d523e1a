SPECIFICATION Spec
CONSTANTS
  NULL = NULL
  Procs <- MCProcs
  Keys <- MCKeys
  Cards <- MCCards
  Scenarios <- MCScenarios
  MaxVersion = 2
  MaxAttempts = 8
  PageSize = 2
  MinCards = 1
INVARIANT RowsFollowTheDump
INVARIANT GoodDumpsLoad
INVARIANT TagsSound
INVARIANT NoStaleIncomplete
 
INVARIANT SchemaSound
 
PROPERTY IsTagsKept
