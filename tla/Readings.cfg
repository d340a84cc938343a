SPECIFICATION ReadingsSpec

CONSTANTS
  MaxVatttel = 1
  Temps <- MCTemps
  Els <- MCEls
  UserTemps <- MCUserTemps
  UserEls <- MCUserEls
  MaxFds = 2
  PS_MAX = 31
  MaxRefusal = 2

INVARIANTS
  ReadingsTypeOK
  TempInBand
  ReadingsAreFresh
  SocketsAccounted

PROPERTIES
  ReadingIsTrue
