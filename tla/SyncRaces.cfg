SPECIFICATION Spec
CONSTANTS
  c1 = c1
  c2 = c2
  e1 = e1
  e2 = e2
  d0 = d0
  depth = depth
  video = video
  f1 = f1
  f2 = f2
  NoThread = NoThread
  NoRing = NoRing
  NoFormat = NoFormat
  NoBufs = NoBufs
  Blank = Blank
  Clients = {c1, c2}
  EventThreads = {e1, e2}
  Devices = {d0}
  Absent = {d0}
  Streams = {depth}
  Formats = {f1, f2}
  RingFormats = {f1, f2}
  Requests <- RacesRequests
  Stoppers = {c2}
  StopAlone = FALSE
  EventsMayFail = TRUE
  NStamps = 1
INVARIANTS DriverOwnsBack NoSelfDeadlock PendingCounts
CHECK_DEADLOCK FALSE
SYMMETRY EventThreadSymmetry
