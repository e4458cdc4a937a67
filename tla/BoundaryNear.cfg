SPECIFICATION Spec
CONSTANTS
  CUBE_WIDTH = 4
  CUBE_LENGTH = 5
  CUBE_HEIGHT = 2
  CUBE_XSCALE = 3
  CUBE_YSCALE = 3
  CUBE_ZSCALE = 1
  SCREEN_WIDTH = 5
  SCREEN_HEIGHT = 5
  CAR_CUBE_LEFT = 1
  CAR_CUBE_RIGHT = 2
  CAR_CUBE_REAR = 1
  CAR_CUBE_FRONT = 1
  MIN_COUNT = 2
  deviceDefinitions <- OneCamera
  NPixels = 6
  Spread <- Middle
  NAngles = 12
  U = 13
  Sin <- SinOf
  Cos <- CosOf
  Res = 3
  Dists = {2}
  Near = 0
  Far = 7
  CharBits = 3
  MaxQueue = 0
PROPERTIES StaysRecognized
CHECK_DEADLOCK FALSE
