SPECIFICATION Spec

CONSTANTS
  MaxVatttel = 5
  Temps <- MCTemps
  Els <- MCEls
  UserTemps <- MCUserTemps
  UserEls <- MCUserEls

INVARIANT ElIsAnElevation
