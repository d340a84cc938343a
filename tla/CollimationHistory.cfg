SPECIFICATION HistorySpec

CONSTANTS
  Z = Z
  U = U
  NoFile = NoFile
  Corrupt = Corrupt
  AxisOrder <- OneAxis
  FileAxes <- OneFileAxis
  Corrected = Z
  Limit = 2
  Zero = 0
  FirstShift = 0
  Shifts <- MCShifts
  Requests <- MCRequests
  MaxCommErr = 0
  MaxVatttel = 0
  MaxDrift = 0
  Faults <- EveryFault

INVARIANT CorrectedOnce
CHECK_DEADLOCK FALSE
