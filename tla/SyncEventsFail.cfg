SPECIFICATION Spec
CONSTANTS
  c1 = c1
  c2 = c2
  e1 = e1
  e2 = e2
  d0 = d0
  depth = depth
  video = video
  f1 = f1
  f2 = f2
  NoThread = NoThread
  NoRing = NoRing
  NoFormat = NoFormat
  NoBufs = NoBufs
  Blank = Blank
  Clients = {c1}
  EventThreads = {e1}
  Devices = {d0}
  Absent = {}
  Streams = {depth}
  Formats = {f1, f2}
  RingFormats = {f1, f2}
  Requests <- OneClientRequests
  Stoppers = {}
  StopAlone = TRUE
  EventsMayFail = TRUE
  NStamps = 1
INVARIANTS LentBufferValid
CHECK_DEADLOCK FALSE
