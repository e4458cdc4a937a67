SPECIFICATION SpecMC
CONSTANTS
  t1 = t1
  t2 = t2
  Callers = {t1, t2}
  Slots = {1}
  Addrs = {1, 2, 3}
  MaxDevs = 4
  MaxPlugs = 1
  ListStep = 1
  Hosts <- HostsMC
SYMMETRY Symmetry
CHECK_DEADLOCK FALSE
INVARIANTS Counted NothingStale ListExact HandlesAgree ParsedExact
