SPECIFICATION FairSpec
CONSTANTS
  a = a
  b = b
  d = d
  Thread <- MCThread
  Calls <- AllCalls
INVARIANTS AlarmOnlyWhileAsleep NobodySleepsOnSetEvent
PROPERTIES SignalledWaitSucceeds TimedWaitReturns
CHECK_DEADLOCK FALSE
