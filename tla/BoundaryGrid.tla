---------------------------- MODULE BoundaryGrid ----------------------------
(***************************************************************************)
(* The boundary program itself (boundary_main.c and boundary_sdl.c): one   *)
(* thread that polls the window's events, asks every camera for a depth    *)
(* frame, casts a ray for each pixel through a grid of cubes around the    *)
(* car, and draws the grid from above.                                     *)
(*                                                                         *)
(* Lengths are integers: a cube is Cell units wide, distances come in      *)
(* 1/Res metres, and sine and cosine are tables of U times a unit vector.  *)
(***************************************************************************)
EXTENDS Integers, Sequences, FiniteSets, FiniteSetsExt

CONSTANTS CUBE_WIDTH, CUBE_LENGTH, CUBE_HEIGHT,     \* cubes of the grid
          CUBE_XSCALE, CUBE_YSCALE, CUBE_ZSCALE,    \* cubes per metre
          SCREEN_WIDTH, SCREEN_HEIGHT,
          CAR_CUBE_LEFT, CAR_CUBE_RIGHT, CAR_CUBE_REAR, CAR_CUBE_FRONT,
          MIN_COUNT,         \* pixels that make a cube recognized
          deviceDefinitions, \* sequence of [base, hangle, vangle]
          NPixels,           \* pixels of a frame
          Spread,            \* [h, v] angles of a pixel from the middle
          NAngles, U, Sin, Cos,      \* the trigonometric tables
          Res,               \* distance units per metre
          Dists, Near, Far,  \* distances a pixel may report, those plotted
          CharBits,          \* width of the counters
          MaxQueue           \* bound on the events waiting

Cell    == U * U * Res
Devices == DOMAIN deviceDefinitions
Pixels  == 1 .. NPixels
Columns == (0 .. CUBE_WIDTH - 1) \X (0 .. CUBE_LENGTH - 1)
Cubes   == {<<x, y, z>> : x \in 0 .. CUBE_WIDTH - 1,
                          y \in 0 .. CUBE_LENGTH - 1,
                          z \in 0 .. CUBE_HEIGHT - 1}
Screen  == (0 .. SCREEN_WIDTH - 1) \X (0 .. SCREEN_HEIGHT - 1)
Angles  == 0 .. NAngles - 1
Char    == -(2 ^ (CharBits - 1)) .. 2 ^ (CharBits - 1) - 1
None    == 0   \* the id of no device

ASSUME GridAssumption ==
  /\ {CUBE_WIDTH, CUBE_LENGTH, CUBE_HEIGHT, SCREEN_WIDTH, SCREEN_HEIGHT,
      CUBE_XSCALE, CUBE_YSCALE, CUBE_ZSCALE, U, Res, NAngles, NPixels,
      CharBits, MIN_COUNT} \subseteq Nat \ {0}
  /\ 2 ^ (CharBits - 1) \in Nat \ {0}
  /\ Sin \in [Angles -> Int] /\ Cos \in [Angles -> Int]
  /\ \A a \in Angles : Sin[a] * Sin[a] + Cos[a] * Cos[a] = U * U
  /\ Dists \subseteq Nat /\ Near \in Nat /\ Far \in Nat
  /\ deviceDefinitions \in
       Seq([base : Nat \X Nat \X Nat, hangle : Int, vangle : Int])
  /\ Spread \in [Pixels -> [h : Int, v : Int]]

\* "The location of the center of the Kinect, within the cube defined by
\* ENV_*", and both ground scales are the same.
ASSUME PlacementAssumption ==
  /\ CUBE_XSCALE = CUBE_YSCALE
  /\ \A v \in Devices :
       LET b == deviceDefinitions[v].base
       IN /\ b[1] \in 0 .. CUBE_WIDTH * Cell - 1
          /\ b[2] \in 0 .. CUBE_LENGTH * Cell - 1
          /\ b[3] \in 0 .. CUBE_HEIGHT * Cell - 1

VARIABLES
  pc,                     \* where main() is
  queue,                  \* SDL's event queue
  dev, pixel,             \* the loops of kinect_poll and poll_one_device
  frame,                  \* the distances of the current depth frame
  c,                      \* <<cx, cy, cz>>
  cleared_by, known_by, guess_count, known_count,  \* environmentCubes
  columnStatus,
  render                  \* what each screen pixel shows

gridVars == <<cleared_by, known_by, guess_count, known_count, columnStatus>>
loopVars == <<dev, pixel, frame, c>>
vars == <<pc, queue, loopVars, gridVars, render>>

Events == {"quit", "other"}
Colors == (0 .. CUBE_HEIGHT - 1) \cup {-1, -2}   \* -1: NULL_COLOR, -2: the car

\* init_one_device: the direction of pixel p of device v
Bearing(v, p) == (deviceDefinitions[v].hangle + Spread[p].h) % NAngles
Pitch(v, p)   == (deviceDefinitions[v].vangle + Spread[p].v) % NAngles

\* <<dx, dy, dz>>: a step of one cube on the ground.
Step(v, p) == LET u == U * Res
              IN <<u * Sin[Bearing(v, p)], u * Cos[Bearing(v, p)],
                   u * Sin[Pitch(v, p)]>>

\* Where pixel p of device v sees a surface at distance d
Landing(v, p, d) ==
  LET b  == deviceDefinitions[v].base
      dh == d * Cos[Pitch(v, p)]
  IN <<b[1] + CUBE_XSCALE * dh * Sin[Bearing(v, p)],
       b[2] + CUBE_YSCALE * dh * Cos[Bearing(v, p)],
       b[3] + CUBE_ZSCALE * d * U * Sin[Pitch(v, p)]>>

\* The cameras lie flat and see 43 degrees of height (VANGLE), and a metre has
\* 30 cubes on the ground for 10 in height: every pixel looks forward, and its
\* ray counts more cubes over the ground than a metre has in height.
ASSUME ForwardAssumption ==
  \A v \in Devices, p \in Pixels :
    CUBE_ZSCALE * U <= CUBE_XSCALE * Cos[Pitch(v, p)]

base == deviceDefinitions[dev].base
step == Step(dev, pixel)
land == Landing(dev, pixel, frame[pixel])

Plus(a, b) == <<a[1] + b[1], a[2] + b[2], a[3] + b[3]>>

\* Variant: only the upper bounds are tested.
InBounds_Upper(a) == /\ a[1] < CUBE_WIDTH * Cell
                     /\ a[2] < CUBE_LENGTH * Cell
                     /\ a[3] < CUBE_HEIGHT * Cell
InBounds(a) == /\ a[1] \in 0 .. CUBE_WIDTH * Cell - 1
               /\ a[2] \in 0 .. CUBE_LENGTH * Cell - 1
               /\ a[3] \in 0 .. CUBE_HEIGHT * Cell - 1

\* (int): towards zero
Trunc(a) == IF a < 0 THEN -((-a) \div Cell) ELSE a \div Cell

\* ix, iy, iz: the cube of a point, its height clamped into the grid
CubeAt(a) ==
  <<Trunc(a[1]), Trunc(a[2]),
    IF a[3] < 0 THEN 0
    ELSE IF a[3] > CUBE_HEIGHT * Cell THEN CUBE_HEIGHT - 1
    ELSE Trunc(a[3])>>
ColumnOf(q) == <<q[1], q[2]>>

\* ++ on a char
Increment(n) == IF n = 2 ^ (CharBits - 1) - 1 THEN -(2 ^ (CharBits - 1))
                                              ELSE n + 1

Blank == [q \in Cubes |-> None]
Zero  == [q \in Cubes |-> 0]

Init ==
  /\ pc = "init" /\ queue = <<>>
  /\ dev = 1 /\ pixel = 1
  /\ frame = [p \in Pixels |-> 0]
  /\ c = <<0, 0, 0>>
  /\ cleared_by = Blank /\ known_by = Blank
  /\ guess_count = Zero /\ known_count = Zero
  /\ columnStatus = [q \in Columns |-> "clear"]
  /\ render = [s \in Screen |-> -1]

\* sdl_init may fail; kinect_init cannot.
SdlInit ==
  /\ pc = "init"
  /\ pc' \in {"events", "exit"}
  /\ UNCHANGED <<queue, loopVars, gridVars, render>>

\* The user or the window system
Arrive ==
  /\ pc # "exit" /\ Len(queue) < MaxQueue
  /\ \E e \in Events : queue' = Append(queue, e)
  /\ UNCHANGED <<pc, loopVars, gridVars, render>>

\* Variant: a later event makes the loop forget that it had to quit.
PollEvent_Last ==
  /\ pc = "events"
  /\ \/ /\ queue = <<>>
        /\ pc' = "clear" /\ UNCHANGED queue
     \/ /\ queue # <<>>
        /\ queue' = Tail(queue)
        /\ pc' = IF queue = <<"quit">> THEN "shutdown" ELSE "events"
  /\ UNCHANGED <<loopVars, gridVars, render>>

\* sdl_pollevent takes events until one ends the program or none is left.
\* An exposed window gets the last drawing once more.
PollEvent ==
  /\ pc = "events"
  /\ \/ /\ queue = <<>>
        /\ pc' = "clear" /\ UNCHANGED queue
     \/ /\ queue # <<>>
        /\ queue' = Tail(queue)
        /\ pc' = IF Head(queue) = "quit" THEN "shutdown" ELSE "events"
  /\ UNCHANGED <<loopVars, gridVars, render>>

\* The memsets of kinect_poll
Clear ==
  /\ pc = "clear"
  /\ cleared_by' = Blank /\ known_by' = Blank
  /\ guess_count' = Zero /\ known_count' = Zero
  /\ columnStatus' = [q \in Columns |-> "clear"]
  /\ dev' = 1 /\ pc' = "get"
  /\ UNCHANGED <<queue, pixel, frame, c, render>>

\* freenect_sync_get_depth returns a frame, or an error and the device is
\* left out of this poll.
GetDepth ==
  /\ pc = "get" /\ dev \in Devices
  /\ \/ /\ frame' \in [Pixels -> Dists]
        /\ pixel' = 1 /\ pc' = "pixel" /\ UNCHANGED dev
     \/ /\ dev' = dev + 1 /\ UNCHANGED <<pc, pixel, frame>>
  /\ UNCHANGED <<queue, c, gridVars, render>>

\* The next pixel of the frame, plotted unless it is too near or too far
Pixel ==
  /\ pc = "pixel"
  /\ \/ /\ pixel \notin Pixels
        /\ dev' = dev + 1 /\ pc' = "get" /\ UNCHANGED <<pixel, c>>
     \/ /\ pixel \in Pixels /\ ~(Near < frame[pixel] /\ frame[pixel] < Far)
        /\ pixel' = pixel + 1 /\ UNCHANGED <<pc, dev, c>>
     \/ /\ pixel \in Pixels /\ Near < frame[pixel] /\ frame[pixel] < Far
        /\ c' = base /\ pc' = "walk" /\ UNCHANGED <<dev, pixel>>
  /\ UNCHANGED <<queue, frame, gridVars, render>>

\* Variant: either coordinate may pass the landing.
BeforeLanding_Either == \/ (c[1] <= land[1]) = (base[1] <= land[1])
                        \/ (c[2] <= land[2]) = (base[2] <= land[2])

\* (cx <= landX) == xt && (cy <= landY) == yt
BeforeLanding == /\ (c[1] <= land[1]) = (base[1] <= land[1])
                 /\ (c[2] <= land[2]) = (base[2] <= land[2])

\* Step 1: the cubes between the camera and the surface are clear.
Walk ==
  /\ pc = "walk" /\ BeforeLanding /\ InBounds(c)
  /\ cleared_by' = [cleared_by EXCEPT ![CubeAt(c)] = dev]
  /\ c' = Plus(c, step)
  /\ UNCHANGED <<pc, queue, dev, pixel, frame, known_by, guess_count,
                 known_count, columnStatus, render>>

\* Step 2: the cube of the surface is known, if the ray came that far within
\* the grid.  Either way the ray goes on by one step.
Land ==
  /\ pc = "walk" /\ ~(BeforeLanding /\ InBounds(c))
  /\ \/ /\ InBounds(c)
        /\ known_by' = [known_by EXCEPT ![CubeAt(land)] = dev]
        /\ known_count' = [known_count EXCEPT ![CubeAt(land)] = Increment(@)]
        /\ columnStatus' =
             [columnStatus EXCEPT ![ColumnOf(CubeAt(land))] = "known"]
        /\ c' = Plus(land, step)
     \/ /\ ~InBounds(c)
        /\ c' = Plus(c, step)
        /\ UNCHANGED <<known_by, known_count, columnStatus>>
  /\ pc' = "guess"
  /\ UNCHANGED <<queue, dev, pixel, frame, cleared_by, guess_count, render>>

\* Variant: the column of a guessed cube is left clear.
Guess_CubeOnly ==
  /\ pc = "guess" /\ InBounds(c)
  /\ guess_count' = [guess_count EXCEPT ![CubeAt(c)] = Increment(@)]
  /\ c' = Plus(c, step)
  /\ UNCHANGED <<pc, queue, dev, pixel, frame, cleared_by, known_by,
                 known_count, columnStatus, render>>

\* Step 3: what the surface hides is guessed.
Guess ==
  /\ pc = "guess" /\ InBounds(c)
  /\ guess_count' = [guess_count EXCEPT ![CubeAt(c)] = Increment(@)]
  /\ columnStatus' = [columnStatus EXCEPT ![ColumnOf(CubeAt(c))] =
                        IF @ = "clear" THEN "guessed" ELSE @]
  /\ c' = Plus(c, step)
  /\ UNCHANGED <<pc, queue, dev, pixel, frame, cleared_by, known_by,
                 known_count, render>>

RayDone ==
  /\ pc = "guess" /\ ~InBounds(c)
  /\ pixel' = pixel + 1 /\ pc' = "pixel"
  /\ UNCHANGED <<queue, dev, frame, c, gridVars, render>>

\* A cube that draw_depths takes for an obstacle
Recognized(q) ==
  \/ known_count[q] >= MIN_COUNT
  \/ guess_count[q] >= MIN_COUNT /\ cleared_by[q] = None

\* The highest recognized cube of a column gives the colour.
ColumnColor(q) ==
  LET tops == {z \in 0 .. CUBE_HEIGHT - 1 : Recognized(<<q[1], q[2], z>>)}
  IN IF columnStatus[q] = "clear" \/ tops = {} THEN -1 ELSE Max(tops)

\* The column that a screen pixel shows
Shown(s) == <<(s[1] * CUBE_WIDTH) \div SCREEN_WIDTH,
              (s[2] * CUBE_LENGTH) \div SCREEN_HEIGHT>>

UnderCar(q) == /\ q[1] \in CAR_CUBE_LEFT .. CAR_CUBE_RIGHT
               /\ q[2] \in CAR_CUBE_REAR .. CAR_CUBE_FRONT

\* draw_depths, once every device has been polled
Draw ==
  /\ pc = "get" /\ dev \notin Devices
  /\ render' = [s \in Screen |-> IF UnderCar(Shown(s)) THEN -2
                                 ELSE ColumnColor(Shown(s))]
  /\ pc' = "events"
  /\ UNCHANGED <<queue, loopVars, gridVars>>

\* kinect_shutdown, sdl_shutdown
Shutdown ==
  /\ pc = "shutdown"
  /\ pc' = "exit"
  /\ UNCHANGED <<queue, loopVars, gridVars, render>>

Program ==
  \/ SdlInit \/ PollEvent \/ Clear \/ GetDepth \/ Pixel
  \/ Walk \/ Land \/ Guess \/ RayDone \/ Draw \/ Shutdown

Next == Program \/ Arrive

Spec == Init /\ [][Next]_vars

\* The program runs; a depth frame or an error comes back from the wrapper.
FairSpec == Spec /\ WF_vars(Program)

-----------------------------------------------------------------------------
\* Every variable has its type; the counters stay within a char.
TypeOK ==
  /\ pc \in {"init", "events", "clear", "get", "pixel", "walk", "guess",
             "shutdown", "exit"}
  /\ queue \in Seq(Events)
  /\ dev \in 1 .. Len(deviceDefinitions) + 1
  /\ pixel \in 1 .. NPixels + 1
  /\ frame \in [Pixels -> Dists \cup {0}]
  /\ c \in Int \X Int \X Int
  /\ cleared_by \in [Cubes -> Devices \cup {None}]
  /\ known_by \in [Cubes -> Devices \cup {None}]
  /\ guess_count \in [Cubes -> Char] /\ known_count \in [Cubes -> Char]
  /\ columnStatus \in [Columns -> {"clear", "known", "guessed"}]
  /\ render \in [Screen -> Colors]

\* Every access to environmentCubes and columnStatus is inside the arrays.
\* The one Step 2 makes is not tested itself: its point replaces the one that
\* was, and lies within a step of it on the ray.
IndexSafe ==
  /\ TypeOK
  /\ pc = "walk" /\ BeforeLanding /\ InBounds(c) => CubeAt(c) \in Cubes
  /\ pc = "walk" /\ ~BeforeLanding /\ InBounds(c) => CubeAt(land) \in Cubes
  /\ pc = "guess" /\ InBounds(c) => CubeAt(c) \in Cubes

\* How far a is along the ground from the camera, in the ray's direction
Along(a) == step[1] * (a[1] - base[1]) + step[2] * (a[2] - base[2])

\* A ray clears cubes only up to where it lands and guesses cubes only
\* behind it, although Step 1, the jump to the landing and Step 3 move
\* independently and may each leave the grid.
FreeThenHidden ==
  /\ pc = "walk" /\ BeforeLanding /\ InBounds(c) => Along(c) <= Along(land)
  /\ pc = "guess" /\ InBounds(c) => Along(c) > Along(land)

\* draw_depths looks into a column only if its status is set: no recognized
\* cube is hidden by a column that still counts as clear.
ColumnsTellAll ==
  \A q \in Cubes : Recognized(q) => columnStatus[ColumnOf(q)] # "clear"

\* A column counts as known exactly if a camera of this poll landed in it:
\* nothing of an earlier poll is left, and no guess, of this camera or of one
\* that is polled later, takes it back.  (That a counter wraps does not
\* matter: known_by keeps who landed.)
KnownByLanding ==
  \A q \in Columns : columnStatus[q] = "known" <=>
    \E z \in 0 .. CUBE_HEIGHT - 1 : known_by[<<q[1], q[2], z>>] # None

\* The columns agree with the cubes (kinect_poll's memsets, poll_one_device,
\* draw_depths).
ColumnsExact == ColumnsTellAll /\ KnownByLanding

\* A key or a closed window ends the program, whenever it comes.
QuitHonoured ==
  (pc # "exit" /\ \E i \in DOMAIN queue : queue[i] = "quit") ~> pc = "exit"

\* "Step 2: Mark the cube this lands in as known": a landing inside the grid
\* is marked.  (It does not hold: see README, as for the next.)
LandingKnown ==
  [][pc = "walk" /\ pc' = "guess" /\ InBounds(land) =>
       known_by'[CubeAt(land)] = dev]_vars

\* "How many pixels should recognize a cube before it's recognized?"  More
\* pixels do not undo it.
StaysRecognized ==
  [][pc # "clear" => \A q \in Cubes : known_count[q] >= MIN_COUNT =>
       known_count'[q] >= MIN_COUNT]_vars
=============================================================================
