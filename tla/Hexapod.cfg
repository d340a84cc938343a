SPECIFICATION Spec

CONSTANTS
  NAXES = 3
  Lengths = {0, 1, 2}
  MaxCalls = 3

INVARIANTS
  TypeOK
  InOrder

PROPERTIES
  OwnAnswer
  LeavesWhenThere
  LoopsEnd

CHECK_DEADLOCK FALSE
