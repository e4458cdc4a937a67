SPECIFICATION SpecMC
CONSTANTS
  frame_size = 7
  pkt_size = 2
  variable_length = FALSE
  SeqMod = 8
  MaxLost = 2
  ShortestCut = 1
  MaxGap = 6
  MaxFrames = 4
CHECK_DEADLOCK FALSE
INVARIANTS CopyInBuffer PlacedRight FrameHonest RecoversInAFrame PicturesRight
