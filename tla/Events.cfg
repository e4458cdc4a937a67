SPECIFICATION FairSpec
CONSTANTS
  t1 = t1
  t2 = t2
  t3 = t3
  d1 = d1
  d2 = d2
  Threads = {t1, t2, t3}
  Handles = {d1, d2}
  Uses <- UsesMC
  Manages <- ManagesMC
  MaxCalls <- CallsMC
  Setups <- SetupsMC
CHECK_DEADLOCK FALSE
INVARIANTS ClosedAtRest SleepersWoken
PROPERTIES CallsReturn
