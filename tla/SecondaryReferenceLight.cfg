SPECIFICATION Safe

CONSTANTS
  t1 = t1
  t2 = t2
  none = none
  NAxes <- MCNAxes
  MaxCommErr <- MCMaxCommErr
  MaxVatttel <- MCMaxVatttel
  TimerIds <- MCTimerIds
  NoTimer = none
  Commands <- NoCommands

INVARIANT GreenReferenceIsDone
