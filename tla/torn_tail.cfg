SPECIFICATION CutSpec
CONSTANTS
  Keys <- ThreeKeys
  Hash <- ThreeHashes
  W = 3
  InitialSize = 1
  EmptyVisits = 1
  ForceRatio = 1
  MinFill = 51
  MsBuckets = 2
  None = None
INVARIANTS
  AnswersKept
CHECK_DEADLOCK FALSE
