SPECIFICATION SpecMC
CONSTANTS
  t1 = t1
  t2 = t2
  a = a
  b = b
  Threads = {t1, t2}
  Transfers = {a, b}
  By <- ByMC
  Direction <- DirectionMC
  Tables = {2, 3}
  MaxTurns <- TurnsMC
  Callers = {t1, t2}
  MaxReads = 2
  MaxInits = 2
  MaxRetries = 1
  MAX_TIMER_SEMAPHORES = 2
CHECK_DEADLOCK FALSE
INVARIANTS TableExact ClockExact
PROPERTIES NobodyWaitsForEver
