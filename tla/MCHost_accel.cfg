SPECIFICATION Spec
CONSTANTS
  HeadDim = 2
  DotLanes = 2
  TileQ = 8
  TileK = 4
  SoftmaxCtxs = 2
  MaxSeqLen = 16
  StreamDepth = 2
  qa = qa
  ka = ka
  va = va
  o1 = o1
  o2 = o2
  null = null
  Buffers <- MCBuffers
  NullBuffer = null
  MaxCalls = 3
  MaxThrows = 1
  RunnerScale = 181
  RunnerNegLarge <- MCNegLarge
  kMaxQueueTasks = 2
  kTileOut = 2
  kMaxInDim = 4
  ExpBits = 3
  FracBits = 3
  QFrac = 2
  WordBits = 6
  Operands <- MCOperands
  CoreCases <- MCCoreCases
  MaxDpLanes = 2
  NORM_LANES = 2
  Options <- MCOptions
  Tasks <- MCTasks
  Rewritten <- MCRewritten
  Matrices <- MCMatrices
  FirstMemory <- MCMemory
  RunnerCases <- MCRunnerCases
  GemvCases <- MCGemvCases
INVARIANTS
  KernelMatchesModel
  KernelIsSequential
  MaskedKeysWeighNothing
  ReciprocalIsClose
  BuffersFit
  TasksAccounted
  GemvQueueAgrees
  SumsRoundOnce
  DatapathMatchesModel
  BatchesKeptApart
PROPERTIES
  TasksRunAsPromised
