\* Three threads, two messages and a ring of two slots: the ring wraps, both
\* queues fill with more than one sleeper and every thread changes roles.
SPECIFICATION FairSpec
CONSTANTS
  Thread = {t1, t2, t3}
  Message = {m1, m2}
  Size = 2
INVARIANT NoLostWakeup
PROPERTIES IsDeque BlockedCallsProceed
CHECK_DEADLOCK FALSE
