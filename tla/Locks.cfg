SPECIFICATION Spec
CONSTANTS
  t1 = t1
  t2 = t2
  t3 = t3
  m1 = m1
  m2 = m2
  c1 = c1
  f1 = f1
  s1 = s1
  l1 = l1
  None = None
  Thread <- MCThread
  Mutex = {m1, m2}
  Condition = {c1}
  FastMutex = {f1}
  Semaphore = {s1}
  SpinLock = {l1}
  Priority <- MCPriority
  Games <- MCGames
  MaxCount = 2
CHECK_DEADLOCK FALSE
INVARIANTS HoldersAgree NoSleeperLeft  LoneLockRestores
