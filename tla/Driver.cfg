SPECIFICATION FairDriverSpec

CONSTANTS
  t1 = t1
  t2 = t2
  none = none
  NAxes <- MCNAxes
  MaxCommErr <- MCMaxCommErr
  MaxVatttel <- MCMaxVatttel
  TimerIds <- MCTimerIds
  NoTimer = none
  Commands <- AnyCommand
  Temps <- MCTemps
  Els <- MCEls
  UserTemps <- MCUserTemps
  UserEls <- MCUserEls

INVARIANTS
  TypeOK
  NoLeakedConnection
  ConnectionLight
  AutocollimationNeedsSession
  AutocollimationIsShown
  OnePollTimer
  ReadingsAreFresh

PROPERTIES
  SessionSafe
  PatientWithErrors
  ImplementsTempEl
  SessionLive
  HandlersReturn
  PollGoesOn
  RecoveryAnnounced
