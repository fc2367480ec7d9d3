SPECIFICATION MCSpec
CONSTANTS
  MaxCalls = 2
  None = 0
  MaxAsked = 2
CHECK_DEADLOCK FALSE
INVARIANTS
  SoundAndTimerFollowCall
  AloneInCall
  CameraTellsTruth
PROPERTY
  AnsweredIsAccepted
