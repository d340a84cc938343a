SPECIFICATION Spec

CONSTANTS
  Z = Z
  U = U
  NoFile = NoFile
  Corrupt = Corrupt
  AxisOrder <- MCAxisOrder
  FileAxes <- MCFileAxes
  Corrected = Z
  Limit = 1
  Zero = 0
  FirstShift = 0
  Shifts <- MCShifts
  Requests <- MCRequests
  MaxCommErr = 0
  MaxVatttel = 0
  MaxDrift = 0
  Faults <- EveryFault

INVARIANT TypeOK

PROPERTIES
  SavedPositionKept
  StaysSettled
  Converges
  DisplaySettles
CHECK_DEADLOCK FALSE
