SPECIFICATION Safe

CONSTANTS
  Z = Z
  U = U
  NoFile = NoFile
  Corrupt = Corrupt
  AxisOrder <- MCAxisOrder
  FileAxes <- MCFileAxes
  Corrected = Z
  Limit = 2
  Zero = 0
  FirstShift = 0
  Shifts <- MCShifts
  Requests <- MCRequests
  MaxCommErr = 0
  MaxVatttel = 0
  MaxDrift = 0
  Faults <- ProjectsoftFault

PROPERTY OffMeansOff
CHECK_DEADLOCK FALSE
