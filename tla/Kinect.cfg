SPECIFICATION SpecMC
CONSTANTS
  num_xfers = 3
  pkts = 2
  NTags = 10
  SubmitMayFail = TRUE
  Devs = {1, 2}
  Tags = 4
  Labs <- LabsMC
CHECK_DEADLOCK FALSE
INVARIANTS Accounted ResourcesExact CameraObeys
PROPERTIES HandedOnInOrder StopReturns Conversation ReplayRight
