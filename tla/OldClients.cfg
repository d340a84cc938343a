SPECIFICATION OldSpec
CONSTANTS
  MaxFds = 2
  Len10 = 3
  Words <- MCWords
  Reports <- MCReports
  atof <- MCAtof
INVARIANTS
  OldTypeOK
  OldSocketsAccounted
  WordIsTrue
  FailureIsEmpty
  WholeBodyIsRead
  TakenFromThisBody
