SPECIFICATION FairSpec
CONSTANTS
  CUBE_WIDTH = 4
  CUBE_LENGTH = 6
  CUBE_HEIGHT = 2
  CUBE_XSCALE = 3
  CUBE_YSCALE = 3
  CUBE_ZSCALE = 1
  SCREEN_WIDTH = 5
  SCREEN_HEIGHT = 6
  CAR_CUBE_LEFT = 1
  CAR_CUBE_RIGHT = 2
  CAR_CUBE_REAR = 1
  CAR_CUBE_FRONT = 1
  MIN_COUNT = 2
  deviceDefinitions <- FrontAndBack
  NPixels = 3
  Spread <- PairAndCorner
  NAngles = 12
  U = 13
  Sin <- SinOf
  Cos <- CosOf
  Res = 3
  Dists = {0, 2, 4}
  Near = 0
  Far = 7
  CharBits = 4
  MaxQueue = 2
CHECK_DEADLOCK FALSE
INVARIANTS IndexSafe FreeThenHidden ColumnsExact
PROPERTIES QuitHonoured
