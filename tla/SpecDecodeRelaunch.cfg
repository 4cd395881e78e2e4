\* As SpecDecode.cfg.
CONSTANTS
  a = a
  b = b
  NoTok = NoTok
  Token <- MCToken
  Greedy <- MCGreedy
  BaseIds <- MCBase
  Prompts <- MCPrompts
  Deltas <- MCDeltas
  CtxK = 6
  Planes = 2
  BaseK = 1
  ProseK = 2
  DeepK = 2
  DeepTrig = 1
  ProseTrig = 1
  T1Trig = 1
  T1Guard = 1
  HistSlack = 1
  SnapSlack = 1
  MaxCycles = 3
  MaxRpcs = 2
SPECIFICATION Spec
PROPERTIES
  RelaunchRestores
