SPECIFICATION Spec
CHECK_DEADLOCK FALSE
CONSTANTS
  DbRows <- MCDbRows
  ImageWorkers = {w1, w2}
  ImageSizes <- MCImageSizes
  MaxImageRuns = 2
  Vocabularies <- MCVocabularies
  NumericColumns <- MCNumericColumns
  StaticFamilies = {"tag"}
  Structures <- MCStructures
  FallbackVocab <- MCFallbackVocab
  FallbackDeciles <- MCFallbackDeciles
  Corpora <- MCCorpora
  Shapes <- MCShapes
  MIN_WORD_ROWS = 2
  MAX_VOCAB = 2
  MAX_FAMILY_DRAWS = 2
  Steps = 4
  Unrestricted = Unrestricted
  batch_size = 2
  MaxQueries = 3
  Workflows <- MCWorkflows
  OwnWorkflow = "CI Monitor"
  Monitors = {m1, m2}
  MaxEvents = 3
  MaxPasses = 3
  SketchThreads = {t1, t2}
  SketchKeys = {k1, k2}
  n_pages = 2
  gen_maxsize = 1
  FilterRoom = 3
  MaxCalls = 5
  MaxRotations = 3
  GathererItems <- MCGathererItems
  GathererNews = "new"
  GathererPageSize = 2
  MaxGathererPage = 5
  ScryfallPages <- MCScryfallPages
  FinderQueries <- MCFinderQueries
  LocalNames = {"a", "b", "d"}
  LocalLimit = 1
INVARIANT SamplerSound
 
 
 
PROPERTY ImageRunEnds
PROPERTY MonitorIsRight
