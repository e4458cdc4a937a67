SPECIFICATION FairSpec
CONSTANTS
  a = a
  b = b
  Transfers = {a, b}
  Apps = {"app"}
  Timeout <- TimeoutMC
  Refusable = {b}
  Setups <- SetupsMC
  NumUrbs <- UrbsMC
  OverAnywhere = FALSE
  QuietUnplug = TRUE
CHECK_DEADLOCK FALSE
INVARIANTS CallbackOwed FlyingExact DataKept
PROPERTIES TransfersEnd
