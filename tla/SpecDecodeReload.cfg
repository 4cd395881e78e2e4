\* As SpecDecode.cfg, with four short RPCs: save, generate, load, generate.
CONSTANTS
  a = a
  b = b
  NoTok = NoTok
  Token <- MCToken
  Greedy <- MCGreedy
  BaseIds <- MCBase
  Prompts <- MCPrompts
  Deltas <- MCDeltas
  CtxK = 5
  Planes = 2
  BaseK = 1
  ProseK = 2
  DeepK = 2
  DeepTrig = 1
  ProseTrig = 1
  T1Trig = 1
  T1Guard = 1
  HistSlack = 1
  SnapSlack = 1
  MaxCycles = 1
  MaxRpcs = 4
SPECIFICATION Spec
PROPERTIES
  ReloadRegenerates
