\* Eight processes of the four llama programs: a network of two layers and four
\* heads, 18 positions, 13 tokens.
SPECIFICATION Spec
CONSTANTS
  FileData <- MCFileData
  ScoreUnit = 32
  Q8_8Min <- MCQ8_8Min
  Q8_8Max = 5
  Vocab <- MCVocab
  Blank = 5
  NewLine = 6
  Lead = 7
  GTail = 8
  CTail = 9
  ImStart = 8
  ImEnd = 9
  System = 10
  User = 11
  Assistant = 12
  NewLineToken = 4
  Coins = 12
  Topp <- MCTopp
  Processes <- MCProcesses
  SystemPrompt <- MCSystemPrompt
INVARIANTS
  LlamaTypeOK
  LogitsAsReference
  PromptEncoded
  CountersAddUp
PROPERTIES
  GenerationAsPromised
CHECK_DEADLOCK FALSE
