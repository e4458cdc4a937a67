------------------------- MODULE BoundaryGridProofs -------------------------
(***************************************************************************)
(* Proofs about BoundaryGrid for every grid, every placement of the        *)
(* cameras and every frame: types, what a ray clears and guesses, the      *)
(* bounds of the arrays, and the columns that draw_depths looks into.      *)
(***************************************************************************)
EXTENDS BoundaryGrid, QueueLemmas

-----------------------------------------------------------------------------
(***************************************************************************)
(* Arithmetic                                                              *)
(***************************************************************************)

\* Max chooses an element of a set of cube heights.
LEMMA MaxIn ==
  ASSUME NEW h \in Nat, NEW S, S \subseteq 0 .. h - 1, S # {}
  PROVE  Max(S) \in S
<1> DEFINE T == {h - z : z \in S}
<1>1. T \subseteq Nat /\ T # {}
  OBVIOUS
<1>2. PICK m \in T : \A n \in T : m <= n
  <2> HIDE DEF T
  <2> QED
    BY <1>1, Least
<1>3. PICK x \in S : m = h - x
  BY <1>2
<1>4. \A y \in S : x >= y
  <2> TAKE y \in S
  <2>1. m <= h - y /\ x \in Int /\ y \in Int /\ m = h - x
    BY <1>2, <1>3
  <2> QED
    BY <2>1
<1> QED
  BY <1>4 DEF Max

\* A multiplied bound
LEMMA Scaled ==
  ASSUME NEW a \in Int, NEW b \in Int, NEW t \in Int
  PROVE  /\ t > 0 => ((a * t <= b * t) <=> (a <= b))
         /\ t < 0 => ((a * t <= b * t) <=> (b <= a))
<1>1. CASE t > 0
  <2>1. a <= b => a * t <= b * t
    BY <1>1
  <2>2. b + 1 <= a => b * t + t <= a * t
    BY <1>1
  <2> QED
    BY <1>1, <2>1, <2>2
<1>2. CASE t < 0
  <2>1. b <= a => a * t <= b * t
    BY <1>2
  <2>2. a + 1 <= b => b * t <= a * t + t
    BY <1>2
  <2> QED
    BY <1>2, <2>1, <2>2
<1> QED
  BY <1>1, <1>2

\* The square of what is not zero is positive.
LEMMA Squares ==
  ASSUME NEW t \in Int
  PROVE  t * t >= 0 /\ (t # 0 => t * t > 0)
  OBVIOUS

\* An element of an interval from zero
LEMMA Below ==
  ASSUME NEW n \in Nat, NEW a \in 0 .. n - 1
  PROVE  a \in Nat /\ a < n
  OBVIOUS

\* The cube of a coordinate within n cubes, m wide
LEMMA CubeOf ==
  ASSUME NEW n \in Nat \ {0}, NEW m \in Nat \ {0}, NEW l \in Nat, l = n * m,
         NEW a \in 0 .. l - 1
  PROVE  a \in Nat /\ a \div m \in 0 .. n - 1
<1>1. a \in Nat /\ a < l
  BY Below
<1> DEFINE d == a \div m
           r == a % m
<1>2. d \in Int /\ r \in Int /\ a = m * d + r /\ 0 <= r /\ r < m
  BY <1>1, Z3
<1> HIDE DEF d, r
<1>3. d >= 0
  BY <1>1, <1>2
<1>4. d < n
  <2>1. SUFFICES ASSUME d >= n PROVE FALSE
    BY <1>2
  <2>2. m * d >= m * n
    BY <1>2, <2>1
  <2> QED
    BY <1>1, <1>2, <2>2
<1> QED
  BY <1>1, <1>2, <1>3, <1>4 DEF d

\* A coordinate that starts at b and moves by t: passing b + q * t, as the
\* loop of Step 1 tests it.
LEMMA Passing ==
  ASSUME NEW b \in Int, NEW t \in Int, NEW m \in Int, NEW q \in Nat \ {0}
  PROVE  /\ ((b + m * t <= b + q * t) = (b <= b + q * t)) /\ t # 0 => m <= q
         /\ ~((b + m * t <= b + q * t) = (b <= b + q * t)) => m >= q
<1>1. CASE t > 0
  <2>1. (m * t <= q * t) <=> m <= q
    BY <1>1, Scaled
  <2>2. q * t > 0 /\ q * t \in Int /\ m * t \in Int
    BY <1>1
  <2> QED
    BY <2>1, <2>2
<1>2. CASE t < 0
  <2>1. (m * t <= q * t) <=> q <= m
    BY <1>2, Scaled
  <2>2. q * t < 0 /\ q * t \in Int /\ m * t \in Int
    BY <1>2
  <2>3. (m * t <= q * t) <=> ~(m < q)
    BY <2>1
  <2> QED
    BY <2>2, <2>3
<1>3. CASE t = 0
  BY <1>3
<1> QED
  BY <1>1, <1>2, <1>3

\* What lies between two points of an interval lies in it.
LEMMA Between ==
  ASSUME NEW b \in Int, NEW t \in Int, NEW m \in Int, NEW q \in Nat, q <= m,
         NEW n \in Int, b \in 0 .. n - 1, b + m * t \in 0 .. n - 1
  PROVE  b + q * t \in 0 .. n - 1
<1>1. CASE t >= 0
  <2>1. 0 <= q * t /\ q * t <= m * t /\ q * t \in Int /\ m * t \in Int
    BY <1>1
  <2> QED
    BY <2>1
<1>2. CASE t < 0
  <2>1. q * t <= 0 /\ m * t <= q * t /\ q * t \in Int /\ m * t \in Int
    BY <1>2
  <2> QED
    BY <2>1
<1> QED
  BY <1>1, <1>2

-----------------------------------------------------------------------------
(***************************************************************************)
(* The ray of a pixel: step and landing go the same way over the ground.   *)
(***************************************************************************)

LEMMA Constants ==
  /\ CUBE_WIDTH \in Nat \ {0} /\ CUBE_LENGTH \in Nat \ {0}
  /\ CUBE_HEIGHT \in Nat \ {0}
  /\ CUBE_XSCALE \in Nat \ {0} /\ CUBE_YSCALE = CUBE_XSCALE
  /\ CUBE_ZSCALE \in Nat \ {0}
  /\ U \in Nat \ {0} /\ Res \in Nat \ {0} /\ NPixels \in Nat \ {0}
  /\ NAngles \in Nat \ {0} /\ MIN_COUNT \in Nat \ {0}
  BY GridAssumption, PlacementAssumption

LEMMA CellType == Cell \in Nat \ {0}
<1>1. U * U \in Nat /\ U * U > 0
  BY Constants
<1>2. U * U * Res \in Nat /\ U * U * Res > 0
  BY <1>1, Constants
<1> QED
  BY <1>2 DEF Cell

LEMMA Limits ==
  /\ CUBE_WIDTH * Cell \in Nat /\ CUBE_LENGTH * Cell \in Nat
  /\ CUBE_HEIGHT * Cell \in Nat
  BY Constants, CellType

LEMMA DeviceType ==
  ASSUME NEW v \in Devices
  PROVE  /\ deviceDefinitions[v].base \in Nat \X Nat \X Nat
         /\ deviceDefinitions[v].hangle \in Int
         /\ deviceDefinitions[v].vangle \in Int
         /\ deviceDefinitions[v].base[1] \in 0 .. CUBE_WIDTH * Cell - 1
         /\ deviceDefinitions[v].base[2] \in 0 .. CUBE_LENGTH * Cell - 1
         /\ deviceDefinitions[v].base[3] \in 0 .. CUBE_HEIGHT * Cell - 1
<1>1. deviceDefinitions[v]
        \in [base : Nat \X Nat \X Nat, hangle : Int, vangle : Int]
  <2> DEFINE R == [base : Nat \X Nat \X Nat, hangle : Int, vangle : Int]
  <2>1. deviceDefinitions \in Seq(R)
    BY GridAssumption
  <2> HIDE DEF R
  <2>2. deviceDefinitions[v] \in R
    BY <2>1 DEF Devices
  <2> QED
    BY <2>2 DEF R
<1> QED
  BY <1>1, PlacementAssumption

LEMMA AngleType ==
  ASSUME NEW v \in Devices, NEW p \in Pixels
  PROVE  Bearing(v, p) \in Angles /\ Pitch(v, p) \in Angles
<1>1. Spread[p].h \in Int /\ Spread[p].v \in Int
  BY GridAssumption
<1>2. /\ deviceDefinitions[v].hangle + Spread[p].h \in Int
      /\ deviceDefinitions[v].vangle + Spread[p].v \in Int
  BY <1>1, DeviceType
<1>3. \A n \in Int : n % NAngles \in 0 .. NAngles - 1
  BY Constants
<1> QED
  BY <1>2, <1>3 DEF Bearing, Pitch, Angles

\* A ray goes from b in the direction <<x, y>> over the ground, w of it for
\* each step s of the loops and q of it up to the landing l.  Its height goes
\* with z, and no further up to the landing than with the steps.
Ray(s, l, b, w, q, e, x, y, z) ==
  /\ w \in Nat \ {0} /\ q \in Nat \ {0} /\ e \in Nat /\ e <= q
  /\ x \in Int /\ y \in Int /\ z \in Int /\ x * x + y * y = U * U
  /\ s = <<w * x, w * y, w * z>>
  /\ l[1] = b[1] + q * x /\ l[2] = b[2] + q * y /\ l[3] = b[3] + e * z

LEMMA RayShape ==
  ASSUME NEW v \in Devices, NEW p \in Pixels, NEW d \in Dists, Near < d
  PROVE  \E w, q, e, x, y, z :
           Ray(Step(v, p), Landing(v, p, d), deviceDefinitions[v].base,
               w, q, e, x, y, z)
<1> DEFINE w == U * Res
           g == Cos[Pitch(v, p)]
           q == CUBE_XSCALE * (d * g)
           e == CUBE_ZSCALE * d * U
           x == Sin[Bearing(v, p)]
           y == Cos[Bearing(v, p)]
           z == Sin[Pitch(v, p)]
<1>1. x \in Int /\ y \in Int /\ z \in Int /\ x * x + y * y = U * U
  BY AngleType, GridAssumption
<1>2. w \in Nat \ {0}
  <2>1. w \in Nat /\ w > 0
    BY Constants
  <2> QED
    BY <2>1
<1>3. g \in Nat \ {0} /\ CUBE_ZSCALE * U <= CUBE_XSCALE * g
  <2>1. g \in Int /\ CUBE_ZSCALE * U <= CUBE_XSCALE * g
    BY AngleType, GridAssumption, ForwardAssumption
  <2> HIDE DEF g
  <2>2. CUBE_ZSCALE * U > 0
    BY Constants
  <2>3. g > 0
    <3>1. SUFFICES ASSUME g <= 0 PROVE FALSE
      BY <2>1
    <3>2. CUBE_XSCALE * g <= 0
      BY <2>1, <3>1, Constants
    <3> QED
      BY <2>1, <2>2, <3>2, Constants
  <2> QED
    BY <2>1, <2>3
<1>4. d \in Nat \ {0}
  BY GridAssumption
<1>5. q \in Nat \ {0}
  <2> HIDE DEF g
  <2>1. d * g \in Nat /\ d * g > 0
    BY <1>3, <1>4
  <2>2. q \in Nat /\ q > 0
    BY <2>1, Constants
  <2> QED
    BY <2>2
<1>6. e \in Nat /\ e <= q
  <2> HIDE DEF g
  <2> DEFINE i == CUBE_ZSCALE * U
             j == CUBE_XSCALE * g
  <2>1. i \in Nat /\ j \in Nat /\ i <= j
    BY <1>3, Constants
  <2>2. e = i * d /\ q = j * d
    BY <1>3, <1>4, Constants
  <2> HIDE DEF i, j
  <2>3. i * d <= j * d /\ i * d \in Nat
    BY <1>4, <2>1, Scaled
  <2> QED
    BY <2>2, <2>3
<1>7. Step(v, p) = <<w * x, w * y, w * z>>
  BY DEF Step
<1>8. /\ Landing(v, p, d)[1] = deviceDefinitions[v].base[1] + q * x
      /\ Landing(v, p, d)[2] = deviceDefinitions[v].base[2] + q * y
      /\ Landing(v, p, d)[3] = deviceDefinitions[v].base[3] + e * z
  BY Constants DEF Landing
<1> HIDE DEF w, q, e, x, y, z
<1> QED
  BY <1>1, <1>2, <1>5, <1>6, <1>7, <1>8 DEF Ray

LEMMA PointTypes ==
  ASSUME NEW v \in Devices, NEW p \in Pixels, NEW d \in Nat
  PROVE  /\ Step(v, p) \in Int \X Int \X Int
         /\ Landing(v, p, d) \in Int \X Int \X Int
<1> DEFINE g == Cos[Pitch(v, p)]
           h == Sin[Pitch(v, p)]
           x == Sin[Bearing(v, p)]
           y == Cos[Bearing(v, p)]
           b == deviceDefinitions[v].base
<1>1. g \in Int /\ h \in Int /\ x \in Int /\ y \in Int
  BY AngleType, GridAssumption
<1>2. b[1] \in Int /\ b[2] \in Int /\ b[3] \in Int
  BY DeviceType
<1>3. Step(v, p) = <<U * Res * x, U * Res * y, U * Res * h>>
  BY DEF Step
<1>4. Landing(v, p, d) = <<b[1] + CUBE_XSCALE * (d * g) * x,
                           b[2] + CUBE_YSCALE * (d * g) * y,
                           b[3] + CUBE_ZSCALE * d * U * h>>
  BY DEF Landing
<1> HIDE DEF g, h, x, y, b
<1>5. /\ U * Res * x \in Int /\ U * Res * y \in Int /\ U * Res * h \in Int
      /\ CUBE_XSCALE * (d * g) * x \in Int
      /\ CUBE_YSCALE * (d * g) * y \in Int
      /\ CUBE_ZSCALE * d * U * h \in Int
  BY <1>1, Constants
<1> QED
  BY <1>2, <1>3, <1>4, <1>5

-----------------------------------------------------------------------------
(***************************************************************************)
(* Where the point of the loops can be                                     *)
(***************************************************************************)

\* Step 1: the point has left the camera by whole steps.
OnRay == \E k \in Nat : \A i \in 1 .. 3 : c[i] = base[i] + k * step[i]

\* Step 3, when the ray landed within the grid: it is behind the landing.
Behind == \E k \in Nat \ {0} : \A i \in 1 .. 2 : c[i] = land[i] + k * step[i]

\* Step 3, when the ray left the grid before: it is outside and stays there.
Limit == <<CUBE_WIDTH * Cell, CUBE_LENGTH * Cell, CUBE_HEIGHT * Cell>>
Gone  == \E i \in 1 .. 3 : \/ c[i] < 0 /\ step[i] < 0
                           \/ c[i] >= Limit[i] /\ step[i] > 0

RayInv ==
  /\ pc \in {"pixel", "walk", "guess"} => dev \in Devices
  /\ pc \in {"walk", "guess"} => /\ pixel \in Pixels
                                 /\ frame[pixel] \in Dists
                                 /\ Near < frame[pixel]
  /\ pc = "walk" => OnRay
  /\ pc = "guess" => Behind \/ Gone

\* The ray of the current pixel, in the shape of the arithmetic lemmas
LEMMA CurrentRay ==
  ASSUME TypeOK, RayInv, pc \in {"walk", "guess"}
  PROVE  \E w, q, e, x, y, z : Ray(step, land, base, w, q, e, x, y, z)
<1>1. /\ dev \in Devices /\ pixel \in Pixels
      /\ frame[pixel] \in Dists /\ Near < frame[pixel]
  BY DEF RayInv
<1> QED
  BY <1>1, RayShape DEF step, land, base

LEMMA CurrentTypes ==
  ASSUME TypeOK, RayInv, pc \in {"walk", "guess"}
  PROVE  /\ step \in Int \X Int \X Int /\ land \in Int \X Int \X Int
         /\ base \in Nat \X Nat \X Nat /\ c \in Int \X Int \X Int
         /\ \A i \in 1 .. 3 : /\ step[i] \in Int /\ land[i] \in Int
                              /\ base[i] \in 0 .. Limit[i] - 1
                              /\ c[i] \in Int /\ Limit[i] \in Nat
<1>1. dev \in Devices /\ pixel \in Pixels /\ frame[pixel] \in Nat
  BY GridAssumption DEF RayInv
<1>2. step \in Int \X Int \X Int /\ land \in Int \X Int \X Int
  BY <1>1, PointTypes DEF step, land
<1>3. /\ base \in Nat \X Nat \X Nat
      /\ base[1] \in 0 .. CUBE_WIDTH * Cell - 1
      /\ base[2] \in 0 .. CUBE_LENGTH * Cell - 1
      /\ base[3] \in 0 .. CUBE_HEIGHT * Cell - 1
  BY <1>1, DeviceType DEF base
<1>4. c \in Int \X Int \X Int
  BY DEF TypeOK
<1>5. /\ Limit[1] = CUBE_WIDTH * Cell /\ Limit[2] = CUBE_LENGTH * Cell
      /\ Limit[3] = CUBE_HEIGHT * Cell
      /\ Limit[1] \in Nat /\ Limit[2] \in Nat /\ Limit[3] \in Nat
  BY Limits DEF Limit
<1>6. \A i \in 1 .. 3 : /\ step[i] \in Int /\ land[i] \in Int
                        /\ base[i] \in 0 .. Limit[i] - 1
                        /\ c[i] \in Int /\ Limit[i] \in Nat
  <2> TAKE i \in 1 .. 3
  <2>1. i = 1 \/ i = 2 \/ i = 3
    OBVIOUS
  <2> QED
    BY <2>1, <1>2, <1>3, <1>4, <1>5
<1> QED
  BY <1>2, <1>3, <1>4, <1>6

\* Within the grid, by the limits
LEMMA InLimits ==
  ASSUME NEW a \in Int \X Int \X Int
  PROVE  InBounds(a) <=> \A i \in 1 .. 3 : a[i] \in 0 .. Limit[i] - 1
<1>1. /\ Limit[1] = CUBE_WIDTH * Cell /\ Limit[2] = CUBE_LENGTH * Cell
      /\ Limit[3] = CUBE_HEIGHT * Cell
  BY DEF Limit
<1>2. (\A i \in 1 .. 3 : a[i] \in 0 .. Limit[i] - 1)
        <=> /\ a[1] \in 0 .. Limit[1] - 1
            /\ a[2] \in 0 .. Limit[2] - 1
            /\ a[3] \in 0 .. Limit[3] - 1
  <2>1. \A i \in 1 .. 3 : i = 1 \/ i = 2 \/ i = 3
    OBVIOUS
  <2>2. 1 \in 1 .. 3 /\ 2 \in 1 .. 3 /\ 3 \in 1 .. 3
    OBVIOUS
  <2> QED
    BY <2>1, <2>2
<1> QED
  BY <1>1, <1>2 DEF InBounds

\* Along measures how far a point of the ray is from the camera.
LEMMA AlongRay ==
  ASSUME NEW w, NEW q, NEW e, NEW x, NEW y, NEW z,
         Ray(step, land, base, w, q, e, x, y, z),
         base[1] \in Int, base[2] \in Int, NEW m \in Int, NEW a,
         a[1] = base[1] + m * x, a[2] = base[2] + m * y
  PROVE  Along(a) = m * (w * (U * U)) /\ w * (U * U) \in Nat \ {0}
<1>1. /\ w \in Nat \ {0} /\ x \in Int /\ y \in Int /\ x * x + y * y = U * U
      /\ step[1] = w * x /\ step[2] = w * y
  BY DEF Ray
<1>2. Along(a) = (w * x) * (m * x) + (w * y) * (m * y)
  <2>1. m * x \in Int /\ m * y \in Int
    BY <1>1
  <2>2. a[1] - base[1] = m * x /\ a[2] - base[2] = m * y
    BY <2>1
  <2> QED
    BY <1>1, <2>2 DEF Along
<1>3. (w * x) * (m * x) = m * (w * (x * x)) /\ (w * y) * (m * y) = m * (w * (y * y))
  BY <1>1
<1>4. m * (w * (x * x)) + m * (w * (y * y)) = m * (w * (x * x + y * y))
  BY <1>1
<1>5. U * U \in Nat /\ U * U > 0
  BY Constants
<1>6. w * (U * U) \in Nat /\ w * (U * U) > 0
  BY <1>1, <1>5
<1>7. m * (w * (x * x + y * y)) = m * (w * (U * U))
  BY <1>1
<1>8. Along(a) = m * (w * (U * U))
  BY <1>2, <1>3, <1>4, <1>7
<1>9. w * (U * U) \in Nat \ {0}
  BY <1>6
<1> QED
  BY <1>8, <1>9

\* Step 1 has not passed the landing while its test holds, and has reached
\* it when the test fails.
LEMMA WalkOrder ==
  ASSUME NEW w, NEW q, NEW e, NEW x, NEW y, NEW z,
         Ray(step, land, base, w, q, e, x, y, z),
         base[1] \in Int, base[2] \in Int, NEW m \in Int,
         c[1] = base[1] + m * x, c[2] = base[2] + m * y
  PROVE  /\ BeforeLanding => m <= q
         /\ ~BeforeLanding => q <= m
<1>1. /\ q \in Nat \ {0} /\ x \in Int /\ y \in Int /\ x * x + y * y = U * U
      /\ land[1] = base[1] + q * x /\ land[2] = base[2] + q * y
  BY DEF Ray
<1>2. x # 0 \/ y # 0
  <2>1. SUFFICES ASSUME x = 0, y = 0 PROVE FALSE
    OBVIOUS
  <2>2. U * U = 0
    BY <1>1, <2>1
  <2> QED
    BY <2>2, Constants, Squares
<1> DEFINE px == (c[1] <= land[1]) = (base[1] <= land[1])
           py == (c[2] <= land[2]) = (base[2] <= land[2])
<1>3. (px /\ x # 0 => m <= q) /\ (~px => m >= q)
  BY <1>1, Passing
<1>4. (py /\ y # 0 => m <= q) /\ (~py => m >= q)
  BY <1>1, Passing
<1>5. BeforeLanding <=> px /\ py
  BY DEF BeforeLanding
<1> HIDE DEF px, py
<1> QED
  BY <1>1, <1>2, <1>3, <1>4, <1>5

\* The point of Step 1, in the shape of the ray
LEMMA WalkPoint ==
  ASSUME TypeOK, RayInv, pc = "walk",
         NEW w, NEW q, NEW e, NEW x, NEW y, NEW z,
         Ray(step, land, base, w, q, e, x, y, z)
  PROVE  \E m \in Nat : /\ c[1] = base[1] + m * x /\ c[2] = base[2] + m * y
                        /\ c[3] = base[3] + m * z
<1>1. /\ w \in Nat /\ x \in Int /\ y \in Int /\ z \in Int
      /\ step[1] = w * x /\ step[2] = w * y /\ step[3] = w * z
  BY DEF Ray
<1>2. PICK k \in Nat : \A i \in 1 .. 3 : c[i] = base[i] + k * step[i]
  BY DEF RayInv, OnRay
<1>3. /\ c[1] = base[1] + k * (w * x) /\ c[2] = base[2] + k * (w * y)
      /\ c[3] = base[3] + k * (w * z)
  BY <1>1, <1>2
<1>4. k * w \in Nat
  BY <1>1
<1>5. /\ k * (w * x) = (k * w) * x /\ k * (w * y) = (k * w) * y
      /\ k * (w * z) = (k * w) * z
  BY <1>1
<1> QED
  BY <1>3, <1>4, <1>5

\* What Step 1 clears is not behind the landing.
LEMMA WalkShort ==
  ASSUME TypeOK, RayInv, pc = "walk", BeforeLanding
  PROVE  Along(c) <= Along(land)
<1>1. PICK w, q, e, x, y, z : Ray(step, land, base, w, q, e, x, y, z)
  BY CurrentRay
<1>2. /\ w \in Nat \ {0} /\ q \in Nat \ {0} /\ e \in Nat /\ e <= q
       /\ x \in Int /\ y \in Int /\ z \in Int
       /\ step[1] = w * x /\ step[2] = w * y
       /\ land[1] = base[1] + q * x /\ land[2] = base[2] + q * y
       /\ land[3] = base[3] + e * z
  BY <1>1 DEF Ray
<1>3. PICK m \in Nat : /\ c[1] = base[1] + m * x /\ c[2] = base[2] + m * y
                       /\ c[3] = base[3] + m * z
  BY <1>1, WalkPoint
<1>4. base[1] \in Int /\ base[2] \in Int
  BY CurrentTypes
<1>5. m <= q
  BY <1>1, <1>3, <1>4, WalkOrder
<1> DEFINE u == w * (U * U)
<1>6. Along(c) = m * u /\ Along(land) = q * u /\ u \in Nat \ {0}
  <2>1. Along(c) = m * u /\ u \in Nat \ {0}
    BY <1>1, <1>3, <1>4, AlongRay
  <2>2. q \in Int /\ land[1] = base[1] + q * x /\ land[2] = base[2] + q * y
    BY <1>2
  <2>3. Along(land) = q * u
    BY <1>1, <1>4, <2>2, AlongRay
  <2> QED
    BY <2>1, <2>3
<1> HIDE DEF u
<1>7. m * u <= q * u
  BY <1>5, <1>6, <1>2, Scaled
<1> QED
  BY <1>6, <1>7

\* What Step 3 guesses is behind the landing.
LEMMA GuessBeyond ==
  ASSUME TypeOK, RayInv, pc = "guess", Behind
  PROVE  Along(c) > Along(land)
<1>1. PICK w, q, e, x, y, z : Ray(step, land, base, w, q, e, x, y, z)
  BY CurrentRay
<1>2. /\ w \in Nat \ {0} /\ q \in Nat \ {0} /\ e \in Nat /\ e <= q
       /\ x \in Int /\ y \in Int /\ z \in Int
       /\ step[1] = w * x /\ step[2] = w * y
       /\ land[1] = base[1] + q * x /\ land[2] = base[2] + q * y
       /\ land[3] = base[3] + e * z
  BY <1>1 DEF Ray
<1>3. PICK k \in Nat \ {0} : \A i \in 1 .. 2 : c[i] = land[i] + k * step[i]
  BY DEF Behind
<1>4. base[1] \in Int /\ base[2] \in Int
  BY CurrentTypes
<1> DEFINE m == q + k * w
           u == w * (U * U)
<1>5. m \in Int /\ m > q
  <2>1. k * w \in Nat /\ k * w > 0
    BY <1>2
  <2> QED
    BY <1>2, <2>1
<1>6. c[1] = base[1] + m * x /\ c[2] = base[2] + m * y
  <2>1. /\ c[1] = base[1] + q * x + k * (w * x)
        /\ c[2] = base[2] + q * y + k * (w * y)
    BY <1>3, <1>2
  <2>2. q * x + k * (w * x) = m * x /\ q * y + k * (w * y) = m * y
    BY <1>2
  <2>3. /\ q * x \in Int /\ k * (w * x) \in Int
        /\ q * y \in Int /\ k * (w * y) \in Int
    BY <1>2
  <2> HIDE DEF m
  <2> QED
    BY <2>1, <2>2, <2>3, <1>4
<1> HIDE DEF m
<1>7. Along(c) = m * u /\ Along(land) = q * u /\ u \in Nat \ {0}
  <2>1. Along(c) = m * u /\ u \in Nat \ {0}
    BY <1>1, <1>4, <1>5, <1>6, AlongRay
  <2>2. q \in Int /\ land[1] = base[1] + q * x /\ land[2] = base[2] + q * y
    BY <1>2
  <2>3. Along(land) = q * u
    BY <1>1, <1>4, <2>2, AlongRay
  <2> QED
    BY <2>1, <2>3
<1> HIDE DEF u
<1>8. ~(m * u <= q * u) /\ m * u \in Int /\ q * u \in Int
  BY <1>5, <1>7, <1>2, Scaled
<1> QED
  BY <1>7, <1>8

\* A ray that passes its landing within the grid landed within it, or under
\* its floor.
LEMMA LandInside ==
  ASSUME TypeOK, RayInv, pc = "walk", ~BeforeLanding, InBounds(c)
  PROVE  /\ land[1] \in 0 .. CUBE_WIDTH * Cell - 1
         /\ land[2] \in 0 .. CUBE_LENGTH * Cell - 1
         /\ land[3] < CUBE_HEIGHT * Cell
<1>1. PICK w, q, e, x, y, z : Ray(step, land, base, w, q, e, x, y, z)
  BY CurrentRay
<1>2. /\ w \in Nat \ {0} /\ q \in Nat \ {0} /\ e \in Nat /\ e <= q
       /\ x \in Int /\ y \in Int /\ z \in Int
       /\ step[1] = w * x /\ step[2] = w * y
       /\ land[1] = base[1] + q * x /\ land[2] = base[2] + q * y
       /\ land[3] = base[3] + e * z
  BY <1>1 DEF Ray
<1>3. PICK m \in Nat : /\ c[1] = base[1] + m * x /\ c[2] = base[2] + m * y
                       /\ c[3] = base[3] + m * z
  BY <1>1, WalkPoint
<1>4. base[1] \in Int /\ base[2] \in Int
  BY CurrentTypes
<1>5. q <= m
  BY <1>1, <1>3, <1>4, WalkOrder
<1>6. /\ c[1] \in 0 .. CUBE_WIDTH * Cell - 1
      /\ c[2] \in 0 .. CUBE_LENGTH * Cell - 1
  BY DEF InBounds
<1>7. /\ base[1] \in 0 .. CUBE_WIDTH * Cell - 1
      /\ base[2] \in 0 .. CUBE_LENGTH * Cell - 1
  BY DeviceType DEF base, RayInv
<1>8. CUBE_WIDTH * Cell \in Int /\ CUBE_LENGTH * Cell \in Int
  BY Limits
<1> DEFINE lx == CUBE_WIDTH * Cell
           ly == CUBE_LENGTH * Cell
<1>9. lx \in Int /\ ly \in Int /\ base[1] + m * x \in 0 .. lx - 1 /\ base[2] + m * y \in 0 .. ly - 1
  BY <1>3, <1>6, <1>8
<1> HIDE DEF lx, ly
<1>10. base[1] + q * x \in 0 .. lx - 1 /\ base[2] + q * y \in 0 .. ly - 1
  BY <1>4, <1>5, <1>7, <1>9, <1>2, Between DEF lx, ly
<1>11. base[3] + e * z < CUBE_HEIGHT * Cell
  <2> DEFINE l == CUBE_HEIGHT * Cell
  <2>1. l \in Nat /\ base[3] \in 0 .. l - 1 /\ c[3] \in 0 .. l - 1
    BY Limits, DeviceType DEF base, RayInv, InBounds
  <2>2. base[3] \in Int /\ base[3] < l /\ base[3] + m * z < l
    BY <1>3, <2>1, Below
  <2> HIDE DEF l
  <2>3. CASE z <= 0
    <3>1. e * z <= 0 /\ e * z \in Int
      BY <1>2, <2>3
    <3> QED
      BY <2>1, <2>2, <3>1 DEF l
  <2>4. CASE z > 0
    <3>1. e <= m
      BY <1>5, <1>2
    <3>2. e * z <= m * z
      BY <1>2, <2>4, <3>1, Scaled
    <3>3. e * z \in Int /\ m * z \in Int
      BY <1>2
    <3> QED
      BY <2>1, <2>2, <3>2, <3>3 DEF l
  <2> QED
    BY <1>2, <2>3, <2>4
<1> QED
  BY <1>10, <1>11, <1>2 DEF lx, ly

-----------------------------------------------------------------------------
(***************************************************************************)
(* Types                                                                   *)
(***************************************************************************)

LEMMA IncrementType ==
  ASSUME NEW n \in Char
  PROVE  Increment(n) \in Char /\ Increment(n) \in Int
<1> DEFINE h == 2 ^ (CharBits - 1)
<1>1. h \in Nat \ {0}
  BY GridAssumption
<1>2. n \in -h .. h - 1
  BY DEF Char
<1>3. Increment(n) = IF n = h - 1 THEN -h ELSE n + 1
  BY DEF Increment
<1> HIDE DEF h
<1>4. Increment(n) \in -h .. h - 1
  BY <1>1, <1>2, <1>3
<1> QED
  BY <1>1, <1>4 DEF Char, h

LEMMA CharZero == 0 \in Char /\ Char \subseteq Int
<1> DEFINE h == 2 ^ (CharBits - 1)
<1>1. h \in Nat \ {0}
  BY GridAssumption
<1>2. Char = -h .. h - 1
  BY DEF Char
<1> HIDE DEF h
<1> QED
  BY <1>1, <1>2

LEMMA DevicesAre == Devices = 1 .. Len(deviceDefinitions) /\ Len(deviceDefinitions) \in Nat
  BY GridAssumption DEF Devices

\* A colour of draw_depths: none, or the height of a cube
LEMMA ColorType ==
  ASSUME NEW q
  PROVE  ColumnColor(q) \in Colors
<1> DEFINE T == {z \in 0 .. CUBE_HEIGHT - 1 : Recognized(<<q[1], q[2], z>>)}
<1>1. T \subseteq 0 .. CUBE_HEIGHT - 1
  OBVIOUS
<1>2. ColumnColor(q) = IF columnStatus[q] = "clear" \/ T = {} THEN -1 ELSE Max(T)
  BY DEF ColumnColor
<1> HIDE DEF T
<1>3. T # {} => Max(T) \in 0 .. CUBE_HEIGHT - 1
  BY <1>1, Constants, MaxIn
<1> QED
  BY <1>2, <1>3 DEF Colors

LEMMA PlusType ==
  ASSUME NEW a \in Int \X Int \X Int, NEW b \in Int \X Int \X Int
  PROVE  /\ Plus(a, b) \in Int \X Int \X Int
         /\ \A i \in 1 .. 3 : Plus(a, b)[i] = a[i] + b[i]
<1>1. Plus(a, b) = <<a[1] + b[1], a[2] + b[2], a[3] + b[3]>>
  BY DEF Plus
<1>2. \A i \in 1 .. 3 : Plus(a, b)[i] = a[i] + b[i]
  <2> TAKE i \in 1 .. 3
  <2>1. i = 1 \/ i = 2 \/ i = 3
    OBVIOUS
  <2> QED
    BY <2>1, <1>1
<1> QED
  BY <1>1, <1>2

\* A counter goes up, whatever cube it is.
LEMMA CountType ==
  ASSUME NEW f \in [Cubes -> Char], NEW q
  PROVE  [f EXCEPT ![q] = Increment(@)] \in [Cubes -> Char]
<1>1. CASE q \in Cubes
  <2>1. Increment(f[q]) \in Char
    BY <1>1, IncrementType
  <2> QED
    BY <2>1
<1>2. CASE q \notin Cubes
  BY <1>2
<1> QED
  BY <1>1, <1>2

\* Where the devices, the pixels and the points stay the same
LEMMA Still ==
  ASSUME dev' = dev, pixel' = pixel, frame' = frame
  PROVE  base' = base /\ step' = step /\ land' = land
  BY DEF base, step, land

\* The program starts with its types.
LEMMA InitTypes == Init => TypeOK /\ RayInv
<1> SUFFICES ASSUME Init PROVE TypeOK /\ RayInv
  OBVIOUS
<1>1. /\ Blank \in [Cubes -> Devices \cup {None}]
      /\ Zero \in [Cubes -> Char]
  BY CharZero DEF Blank, Zero
<1>2. dev \in 1 .. Len(deviceDefinitions) + 1 /\ pixel \in 1 .. NPixels + 1
  BY DevicesAre, Constants DEF Init
<1>3. render \in [Screen -> Colors]
  BY DEF Init, Colors
<1> QED
  BY <1>1, <1>2, <1>3 DEF Init, TypeOK, RayInv

\* Steps that leave the loops over the cubes alone keep their types.
LEMMA PollTypes ==
  ASSUME TypeOK, RayInv,
         SdlInit \/ Arrive \/ PollEvent \/ Clear \/ GetDepth \/ Draw \/ Shutdown
  PROVE  TypeOK'
<1>1. CASE SdlInit
  BY <1>1 DEF SdlInit, TypeOK, loopVars, gridVars
<1>2. CASE Arrive
  BY <1>2 DEF Arrive, TypeOK, loopVars, gridVars
<1>3. CASE PollEvent
  <2>1. queue' \in Seq(Events)
    <3>1. queue # <<>> => Tail(queue) \in Seq(Events)
      BY DEF TypeOK
    <3>2. queue' = queue \/ (queue # <<>> /\ queue' = Tail(queue))
      BY <1>3 DEF PollEvent
    <3> QED
      BY <3>1, <3>2 DEF TypeOK
  <2>2. /\ pc' \in {"clear", "shutdown", "events"}
        /\ UNCHANGED <<loopVars, gridVars, render>>
    BY <1>3 DEF PollEvent
  <2> QED
    BY <2>1, <2>2 DEF TypeOK, loopVars, gridVars
<1>4. CASE Clear
  <2>1. /\ cleared_by' \in [Cubes -> Devices \cup {None}]
        /\ known_by' \in [Cubes -> Devices \cup {None}]
        /\ guess_count' \in [Cubes -> Char] /\ known_count' \in [Cubes -> Char]
    BY <1>4, CharZero DEF Clear, Blank, Zero
  <2>2. columnStatus' \in [Columns -> {"clear", "known", "guessed"}]
    BY <1>4 DEF Clear
  <2>3. dev' \in 1 .. Len(deviceDefinitions) + 1 /\ pc' = "get"
    BY <1>4, DevicesAre DEF Clear
  <2> QED
    BY <1>4, <2>1, <2>2, <2>3 DEF Clear, TypeOK
<1>5. CASE GetDepth
  <2>1. dev' \in 1 .. Len(deviceDefinitions) + 1
    BY <1>5, DevicesAre DEF GetDepth, TypeOK
  <2>2. pixel' \in 1 .. NPixels + 1
    BY <1>5, Constants DEF GetDepth, TypeOK
  <2>3. frame' \in [Pixels -> Dists \cup {0}]
    BY <1>5 DEF GetDepth, TypeOK
  <2> QED
    BY <1>5, <2>1, <2>2, <2>3 DEF GetDepth, TypeOK, gridVars
<1>6. CASE Draw
  <2>1. render' \in [Screen -> Colors]
    <3>1. -2 \in Colors
      BY DEF Colors
    <3>2. render' = [s \in Screen |-> IF UnderCar(Shown(s)) THEN -2
                                      ELSE ColumnColor(Shown(s))]
      BY <1>6 DEF Draw
    <3> QED
      BY <3>1, <3>2, ColorType
  <2> QED
    BY <1>6, <2>1 DEF Draw, TypeOK, loopVars, gridVars
<1>7. CASE Shutdown
  BY <1>7 DEF Shutdown, TypeOK, loopVars, gridVars
<1> QED
  BY <1>1, <1>2, <1>3, <1>4, <1>5, <1>6, <1>7

\* Every variable of the loops over the cubes keeps its type.
LEMMA RayTypes ==
  ASSUME TypeOK, RayInv, Pixel \/ Walk \/ Land \/ Guess \/ RayDone
  PROVE  TypeOK'
<1>1. CASE Pixel
  <2>1. dev \in Devices /\ dev' \in 1 .. Len(deviceDefinitions) + 1
    BY <1>1, DevicesAre DEF Pixel, TypeOK, RayInv
  <2>2. pixel' \in 1 .. NPixels + 1
    BY <1>1, Constants DEF Pixel, TypeOK, Pixels
  <2>3. base \in Int \X Int \X Int
    BY <2>1, DeviceType DEF base
  <2>4. c' \in Int \X Int \X Int
    BY <1>1, <2>3 DEF Pixel, TypeOK
  <2>5. pc' \in {"get", "pixel", "walk"}
    BY <1>1 DEF Pixel
  <2> QED
    BY <1>1, <2>1, <2>2, <2>4, <2>5 DEF Pixel, TypeOK, gridVars
<1>2. CASE Walk
  <2>1. dev \in Devices
    BY <1>2 DEF Walk, RayInv
  <2>2. c' \in Int \X Int \X Int
    BY <1>2, CurrentTypes, PlusType DEF Walk
  <2>3. cleared_by' \in [Cubes -> Devices \cup {None}]
    BY <1>2, <2>1 DEF Walk, TypeOK
  <2> QED
    BY <1>2, <2>2, <2>3 DEF Walk, TypeOK
<1>3. CASE Land
  <2>1. dev \in Devices /\ pc = "walk" /\ pc' = "guess"
    BY <1>3 DEF Land, RayInv
  <2>2. /\ Plus(c, step) \in Int \X Int \X Int
        /\ Plus(land, step) \in Int \X Int \X Int
    BY <2>1, CurrentTypes, PlusType
  <2>3. c' \in Int \X Int \X Int
    BY <1>3, <2>2 DEF Land
  <2>4. known_by' \in [Cubes -> Devices \cup {None}]
    <3>1. [known_by EXCEPT ![CubeAt(land)] = dev] \in [Cubes -> Devices \cup {None}]
      BY <2>1 DEF TypeOK
    <3> QED
      BY <1>3, <3>1 DEF Land, TypeOK
  <2>5. known_count' \in [Cubes -> Char]
    <3>1. [known_count EXCEPT ![CubeAt(land)] = Increment(@)] \in [Cubes -> Char]
      BY CountType DEF TypeOK
    <3> QED
      BY <1>3, <3>1 DEF Land, TypeOK
  <2>6. columnStatus' \in [Columns -> {"clear", "known", "guessed"}]
    <3>1. [columnStatus EXCEPT ![ColumnOf(CubeAt(land))] = "known"]
            \in [Columns -> {"clear", "known", "guessed"}]
      BY DEF TypeOK
    <3> QED
      BY <1>3, <3>1 DEF Land, TypeOK
  <2>7. UNCHANGED <<queue, dev, pixel, frame, cleared_by, guess_count, render>>
    BY <1>3 DEF Land
  <2> QED
    BY <2>1, <2>3, <2>4, <2>5, <2>6, <2>7 DEF TypeOK
<1>4. CASE Guess
  <2>1. pc = "guess"
    BY <1>4 DEF Guess
  <2>2. c' \in Int \X Int \X Int
    BY <1>4, <2>1, CurrentTypes, PlusType DEF Guess
  <2>3. guess_count' \in [Cubes -> Char]
    BY <1>4, CountType DEF Guess, TypeOK
  <2>4. columnStatus' \in [Columns -> {"clear", "known", "guessed"}]
    <3> DEFINE k == ColumnOf(CubeAt(c))
    <3>1. columnStatus' = [columnStatus EXCEPT ![k] = IF @ = "clear" THEN "guessed" ELSE @]
      BY <1>4 DEF Guess
    <3> HIDE DEF k
    <3>2. CASE k \in Columns
      BY <3>1, <3>2 DEF TypeOK
    <3>3. CASE k \notin Columns
      BY <3>1, <3>3 DEF TypeOK
    <3> QED
      BY <3>2, <3>3
  <2> QED
    BY <1>4, <2>2, <2>3, <2>4 DEF Guess, TypeOK
<1>5. CASE RayDone
  <2>1. pixel' \in 1 .. NPixels + 1
    BY <1>5, Constants DEF RayDone, RayInv, Pixels
  <2> QED
    BY <1>5, <2>1 DEF RayDone, TypeOK, gridVars
<1> QED
  BY <1>1, <1>2, <1>3, <1>4, <1>5

\* The point of the loops stays where RayInv says it is.
LEMMA RayKept ==
  ASSUME TypeOK, RayInv, Next
  PROVE  RayInv'
<1>1. CASE SdlInit \/ Arrive \/ PollEvent \/ Clear \/ Draw \/ Shutdown
  <2>1. CASE Arrive
    <3>1. UNCHANGED <<pc, dev, pixel, frame, c>>
      BY <2>1 DEF Arrive, loopVars
    <3>2. base' = base /\ step' = step /\ land' = land
      BY <3>1, Still
    <3> QED
      BY <3>1, <3>2 DEF RayInv, OnRay, Behind, Gone
  <2>2. CASE SdlInit \/ PollEvent \/ Clear \/ Draw \/ Shutdown
    <3>1. pc' \notin {"pixel", "walk", "guess"}
      BY <2>2 DEF SdlInit, PollEvent, Clear, Draw, Shutdown
    <3> QED
      BY <3>1 DEF RayInv
  <2> QED
    BY <1>1, <2>1, <2>2
<1>2. CASE GetDepth
  <2>1. pc' \in {"get", "pixel"} /\ (pc' = "pixel" => dev' \in Devices)
    BY <1>2 DEF GetDepth
  <2> QED
    BY <2>1 DEF RayInv
<1>3. CASE Pixel
  <2>1. dev \in Devices /\ frame' = frame
    BY <1>3 DEF Pixel, RayInv
  <2>2. CASE pc' # "walk"
    BY <1>3, <2>1, <2>2 DEF Pixel, RayInv
  <2>3. CASE pc' = "walk"
    <3>1. /\ pixel \in Pixels /\ Near < frame[pixel] /\ c' = base
          /\ dev' = dev /\ pixel' = pixel
      BY <1>3, <2>3 DEF Pixel
    <3>2. frame[pixel] \in Dists
      BY <3>1, GridAssumption DEF TypeOK
    <3>3. base' = base /\ step' = step /\ land' = land
      BY <2>1, <3>1, Still
    <3>4. \A i \in 1 .. 3 : base[i] \in Int /\ step[i] \in Int
      <4>1. step \in Int \X Int \X Int
        BY <2>1, <3>1, <3>2, GridAssumption, PointTypes DEF step
      <4>2. base \in Nat \X Nat \X Nat
        BY <2>1, DeviceType DEF base
      <4> QED
        BY <4>1, <4>2
    <3>5. \A i \in 1 .. 3 : c'[i] = base'[i] + 0 * step'[i]
      BY <3>1, <3>3, <3>4
    <3>6. OnRay'
      BY <3>5 DEF OnRay
    <3> QED
      BY <2>1, <2>3, <3>1, <3>2, <3>6 DEF RayInv
  <2> QED
    BY <2>2, <2>3
<1>4. CASE Walk
  <2>1. /\ pc = "walk" /\ pc' = "walk" /\ c' = Plus(c, step)
        /\ dev' = dev /\ pixel' = pixel /\ frame' = frame
    BY <1>4 DEF Walk
  <2>2. base' = base /\ step' = step /\ land' = land
    BY <2>1, Still
  <2>3. PICK k \in Nat : \A i \in 1 .. 3 : c[i] = base[i] + k * step[i]
    BY <2>1 DEF RayInv, OnRay
  <2>4. \A i \in 1 .. 3 : c'[i] = c[i] + step[i] /\ step[i] \in Int /\ base[i] \in Int
    BY <2>1, CurrentTypes, PlusType
  <2>5. \A i \in 1 .. 3 : c'[i] = base'[i] + (k + 1) * step'[i]
    <3> TAKE i \in 1 .. 3
    <3>1. \A t \in Int : (k + 1) * t = k * t + t /\ k * t \in Int
      OBVIOUS
    <3>2. /\ c'[i] = c[i] + step[i] /\ c[i] = base[i] + k * step[i]
          /\ step[i] \in Int /\ base[i] \in Int
      BY <2>3, <2>4
    <3>3. (k + 1) * step[i] = k * step[i] + step[i] /\ k * step[i] \in Int
      BY <3>1, <3>2
    <3>4. c'[i] = base[i] + (k + 1) * step[i]
      BY <3>2, <3>3
    <3> QED
      BY <2>2, <3>4
  <2>6. OnRay'
    BY <2>5 DEF OnRay
  <2> QED
    BY <2>1, <2>6 DEF RayInv
<1>5. CASE Land
  <2>1. /\ pc = "walk" /\ pc' = "guess"
        /\ dev' = dev /\ pixel' = pixel /\ frame' = frame
    BY <1>5 DEF Land
  <2>2. base' = base /\ step' = step /\ land' = land
    BY <2>1, Still
  <2>3. \A i \in 1 .. 3 : /\ step[i] \in Int /\ land[i] \in Int /\ c[i] \in Int
                          /\ base[i] \in 0 .. Limit[i] - 1 /\ Limit[i] \in Nat
    BY <2>1, CurrentTypes
  <2>4. CASE InBounds(c)
    <3>1. c' = Plus(land, step)
      BY <1>5, <2>4 DEF Land
    <3>2. \A i \in 1 .. 2 : c'[i] = land'[i] + 1 * step'[i]
      BY <2>1, <2>2, <2>3, <3>1, CurrentTypes, PlusType
    <3>3. Behind'
      BY <3>2 DEF Behind
    <3> QED
      BY <2>1, <3>3 DEF RayInv
  <2>5. CASE ~InBounds(c)
    <3>1. c' = Plus(c, step)
      BY <1>5, <2>5 DEF Land
    <3>2. PICK k \in Nat : \A i \in 1 .. 3 : c[i] = base[i] + k * step[i]
      BY <2>1 DEF RayInv, OnRay
    <3>3. PICK i \in 1 .. 3 : c[i] \notin 0 .. Limit[i] - 1
      BY <2>5, InLimits DEF TypeOK
    <3>4. c'[i] = c[i] + step[i] /\ Limit' = Limit
      BY <2>1, <3>1, CurrentTypes, PlusType DEF Limit
    <3>5. CASE c[i] < 0
      <4>1. step[i] < 0
        <5>1. SUFFICES ASSUME step[i] >= 0 PROVE FALSE
          BY <2>3
        <5>2. k * step[i] >= 0 /\ c[i] = base[i] + k * step[i]
          BY <2>3, <3>2, <5>1
        <5> QED
          BY <2>3, <3>5, <5>2
      <4>2. c'[i] < 0 /\ step'[i] < 0
        BY <2>2, <2>3, <3>4, <3>5, <4>1
      <4>3. Gone'
        BY <4>2 DEF Gone
      <4> QED
        BY <2>1, <4>3 DEF RayInv
    <3>6. CASE c[i] >= Limit[i]
      <4>1. step[i] > 0
        <5>1. SUFFICES ASSUME step[i] <= 0 PROVE FALSE
          BY <2>3
        <5>2. k * step[i] <= 0 /\ c[i] = base[i] + k * step[i]
          BY <2>3, <3>2, <5>1
        <5> QED
          BY <2>3, <3>6, <5>2
      <4>2. c'[i] >= Limit'[i] /\ step'[i] > 0
        BY <2>2, <2>3, <3>4, <3>6, <4>1
      <4>3. Gone'
        BY <4>2 DEF Gone
      <4> QED
        BY <2>1, <4>3 DEF RayInv
    <3> QED
      BY <2>3, <3>3, <3>5, <3>6
  <2> QED
    BY <2>4, <2>5
<1>6. CASE Guess
  <2>1. /\ pc = "guess" /\ pc' = "guess" /\ c' = Plus(c, step) /\ InBounds(c)
        /\ dev' = dev /\ pixel' = pixel /\ frame' = frame
    BY <1>6 DEF Guess
  <2>2. base' = base /\ step' = step /\ land' = land
    BY <2>1, Still
  <2>3. \A i \in 1 .. 3 : /\ step[i] \in Int /\ land[i] \in Int
                          /\ c[i] \in Int /\ Limit[i] \in Nat
                          /\ c[i] \in 0 .. Limit[i] - 1
                          /\ c'[i] = c[i] + step[i]
    BY <2>1, CurrentTypes, PlusType, InLimits
  <2>4. ~Gone
    BY <2>3 DEF Gone
  <2>5. PICK k \in Nat \ {0} : \A i \in 1 .. 2 : c[i] = land[i] + k * step[i]
    BY <2>1, <2>4 DEF RayInv, Behind
  <2>6. \A i \in 1 .. 2 : c'[i] = land'[i] + (k + 1) * step'[i]
    <3> TAKE i \in 1 .. 2
    <3>1. \A t \in Int : (k + 1) * t = k * t + t /\ k * t \in Int
      OBVIOUS
    <3>2. /\ c'[i] = c[i] + step[i] /\ c[i] = land[i] + k * step[i]
          /\ step[i] \in Int /\ land[i] \in Int
      BY <2>3, <2>5
    <3>3. (k + 1) * step[i] = k * step[i] + step[i] /\ k * step[i] \in Int
      BY <3>1, <3>2
    <3>4. c'[i] = land[i] + (k + 1) * step[i]
      BY <3>2, <3>3
    <3> QED
      BY <2>2, <3>4
  <2>7. k + 1 \in Nat \ {0}
    OBVIOUS
  <2>8. Behind'
    BY <2>6, <2>7 DEF Behind
  <2> QED
    BY <2>1, <2>8 DEF RayInv
<1>7. CASE RayDone
  BY <1>7 DEF RayDone, RayInv
<1> QED
  BY <1>1, <1>2, <1>3, <1>4, <1>5, <1>6, <1>7 DEF Next, Program

\* A step that changes nothing
LEMMA GridStutter ==
  ASSUME TypeOK, RayInv, UNCHANGED vars
  PROVE  TypeOK' /\ RayInv'
<1>1. base' = base /\ step' = step /\ land' = land
  BY Still DEF vars, loopVars
<1>2. TypeOK'
  BY DEF TypeOK, vars, loopVars, gridVars
<1>3. RayInv'
  BY <1>1 DEF RayInv, OnRay, Behind, Gone, vars, loopVars
<1> QED
  BY <1>2, <1>3

-----------------------------------------------------------------------------
(***************************************************************************)
(* The theorems                                                            *)
(***************************************************************************)

\* Types, and where the point of the loops can be
GridInv == TypeOK /\ RayInv

LEMMA GridInductive == Spec => []GridInv
<1>1. Init => GridInv
  BY InitTypes DEF GridInv
<1>2. GridInv /\ [Next]_vars => GridInv'
  <2> SUFFICES ASSUME TypeOK, RayInv, [Next]_vars PROVE TypeOK' /\ RayInv'
    BY DEF GridInv
  <2>1. CASE Next
    <3>1. TypeOK'
      BY <2>1, PollTypes, RayTypes DEF Next, Program
    <3> QED
      BY <2>1, <3>1, RayKept
  <2>2. CASE UNCHANGED vars
    BY <2>2, GridStutter
  <2> QED
    BY <2>1, <2>2
<1> QED
  BY <1>1, <1>2, PTL DEF Spec

\* poll_one_device, for every grid, camera and frame: a ray clears cubes only
\* up to where it lands and guesses cubes only behind it.
THEOREM RaysRight == Spec => []FreeThenHidden
<1>1. GridInv => FreeThenHidden
  <2> SUFFICES ASSUME TypeOK, RayInv PROVE FreeThenHidden
    BY DEF GridInv
  <2>1. pc = "walk" /\ BeforeLanding => Along(c) <= Along(land)
    BY WalkShort
  <2>2. ASSUME pc = "guess", InBounds(c) PROVE Along(c) > Along(land)
    <3>1. ~Gone
      BY <2>2, CurrentTypes, InLimits DEF Gone
    <3> QED
      BY <2>2, <3>1, GuessBeyond DEF RayInv
  <2> QED
    BY <2>1, <2>2 DEF FreeThenHidden
<1> QED
  BY <1>1, GridInductive, PTL

\* (int) of a coordinate within n cubes
LEMMA TruncOf ==
  ASSUME NEW n \in Nat \ {0}, NEW x \in 0 .. n * Cell - 1
  PROVE  Trunc(x) \in 0 .. n - 1
<1> DEFINE l == n * Cell
<1>1. l \in Nat /\ l = n * Cell /\ x \in 0 .. l - 1
  BY CellType
<1> HIDE DEF l
<1>2. x \in Nat /\ x \div Cell \in 0 .. n - 1
  BY <1>1, CellType, CubeOf
<1>3. Trunc(x) = x \div Cell
  BY <1>2 DEF Trunc
<1> QED
  BY <1>2, <1>3

\* A point within the grid is in a cube of it.
LEMMA CubeInside ==
  ASSUME NEW a \in Int \X Int \X Int,
         a[1] \in 0 .. CUBE_WIDTH * Cell - 1,
         a[2] \in 0 .. CUBE_LENGTH * Cell - 1,
         a[3] < CUBE_HEIGHT * Cell
  PROVE  CubeAt(a) \in Cubes
<1> DEFINE top == CUBE_HEIGHT * Cell
           iz == IF a[3] < 0 THEN 0
                 ELSE IF a[3] > top THEN CUBE_HEIGHT - 1
                 ELSE Trunc(a[3])
<1>1. Trunc(a[1]) \in 0 .. CUBE_WIDTH - 1 /\ Trunc(a[2]) \in 0 .. CUBE_LENGTH - 1
  BY Constants, TruncOf
<1>2. iz \in 0 .. CUBE_HEIGHT - 1
  <2>1. a[3] \in 0 .. top - 1 => Trunc(a[3]) \in 0 .. CUBE_HEIGHT - 1
    BY Constants, TruncOf
  <2>2. a[3] \in Int /\ top \in Nat /\ a[3] < top /\ CUBE_HEIGHT \in Nat \ {0}
    BY Limits, Constants
  <2> HIDE DEF top
  <2> QED
    BY <2>1, <2>2
<1>3. CubeAt(a) = <<Trunc(a[1]), Trunc(a[2]), iz>>
  BY DEF CubeAt
<1> HIDE DEF iz
<1> QED
  BY <1>1, <1>2, <1>3 DEF Cubes

\* poll_one_device stays within environmentCubes and columnStatus for every
\* grid, camera and frame, although Step 2 does not test the point it marks
\* and the clamp of iz would leave the height of the grid itself, which
\* tests cz > CUBE_HEIGHT.
THEOREM IndexRight == Spec => []IndexSafe
<1>1. GridInv => IndexSafe
  <2> SUFFICES ASSUME TypeOK, RayInv PROVE IndexSafe
    BY DEF GridInv
  <2>1. InBounds(c) => CubeAt(c) \in Cubes
    <3>1. ASSUME InBounds(c) PROVE CubeAt(c) \in Cubes
      <4>1. /\ c \in Int \X Int \X Int
            /\ c[1] \in 0 .. CUBE_WIDTH * Cell - 1
            /\ c[2] \in 0 .. CUBE_LENGTH * Cell - 1
            /\ c[3] \in 0 .. CUBE_HEIGHT * Cell - 1
        BY <3>1 DEF InBounds, TypeOK
      <4>2. c[3] < CUBE_HEIGHT * Cell
        BY <4>1, Limits, Below
      <4> QED
        BY <4>1, <4>2, CubeInside
    <3> QED
      BY <3>1
  <2>2. ASSUME pc = "walk", ~BeforeLanding, InBounds(c)
        PROVE  CubeAt(land) \in Cubes
    <3>1. land \in Int \X Int \X Int
      BY <2>2, CurrentTypes
    <3> QED
      BY <2>2, <3>1, LandInside, CubeInside
  <2> QED
    BY <2>1, <2>2 DEF IndexSafe
<1> QED
  BY <1>1, GridInductive, PTL

\* A cube that was counted in this poll is in a column that says so.
CountsShow ==
  \A q \in Cubes : known_count[q] # 0 \/ guess_count[q] # 0
                     => columnStatus[ColumnOf(q)] # "clear"

LEMMA ColumnIn == \A q \in Cubes : ColumnOf(q) \in Columns
  BY DEF Cubes, Columns, ColumnOf

\* What a step leaves of the counters and of the columns
LEMMA CountsKept ==
  ASSUME TypeOK, CountsShow, Next
  PROVE  CountsShow'
<1>1. CASE Clear
  <2>1. \A q \in Cubes : known_count'[q] = 0 /\ guess_count'[q] = 0
    BY <1>1 DEF Clear, Zero
  <2> QED
    BY <2>1 DEF CountsShow
<1>2. CASE Land
  <2>1. CASE UNCHANGED <<known_count, columnStatus, guess_count>>
    BY <2>1 DEF CountsShow
  <2>2. CASE /\ known_count' = [known_count EXCEPT ![CubeAt(land)] = Increment(@)]
             /\ columnStatus' = [columnStatus EXCEPT ![ColumnOf(CubeAt(land))] = "known"]
             /\ guess_count' = guess_count
    <3> DEFINE t == CubeAt(land)
    <3>1. /\ known_count' = [known_count EXCEPT ![t] = Increment(@)]
          /\ columnStatus' = [columnStatus EXCEPT ![ColumnOf(t)] = "known"]
      BY <2>2
    <3> HIDE DEF t
    <3> SUFFICES ASSUME NEW q \in Cubes, known_count'[q] # 0 \/ guess_count'[q] # 0
                 PROVE  columnStatus'[ColumnOf(q)] # "clear"
      BY DEF CountsShow
    <3>2. ColumnOf(q) \in Columns
      BY ColumnIn
    <3>3. CASE q = t
      BY <3>1, <3>2, <3>3 DEF TypeOK
    <3>4. CASE q # t
      <4>1. known_count'[q] = known_count[q]
        BY <3>1, <3>4 DEF TypeOK
      <4>2. columnStatus[ColumnOf(q)] # "clear"
        BY <2>2, <4>1 DEF CountsShow
      <4> QED
        BY <3>1, <3>2, <4>2 DEF TypeOK
    <3> QED
      BY <3>3, <3>4
  <2> QED
    BY <1>2, <2>1, <2>2 DEF Land
<1>3. CASE Guess
  <2> DEFINE t == CubeAt(c)
  <2>1. /\ guess_count' = [guess_count EXCEPT ![t] = Increment(@)]
        /\ columnStatus' = [columnStatus EXCEPT ![ColumnOf(t)] =
                              IF @ = "clear" THEN "guessed" ELSE @]
        /\ known_count' = known_count
    BY <1>3 DEF Guess
  <2> HIDE DEF t
  <2> SUFFICES ASSUME NEW q \in Cubes, known_count'[q] # 0 \/ guess_count'[q] # 0
               PROVE  columnStatus'[ColumnOf(q)] # "clear"
    BY DEF CountsShow
  <2>2. ColumnOf(q) \in Columns
    BY ColumnIn
  <2>3. columnStatus'[ColumnOf(q)] =
          IF ColumnOf(q) = ColumnOf(t) /\ columnStatus[ColumnOf(q)] = "clear"
          THEN "guessed" ELSE columnStatus[ColumnOf(q)]
    <3> DEFINE j == ColumnOf(q)
               k == ColumnOf(t)
    <3>1. /\ columnStatus' = [columnStatus EXCEPT ![k] = IF @ = "clear" THEN "guessed" ELSE @]
          /\ j \in Columns
      BY <2>1, <2>2
    <3> HIDE DEF j, k
    <3>2. columnStatus'[j] = IF j = k /\ columnStatus[j] = "clear"
                             THEN "guessed" ELSE columnStatus[j]
      BY <3>1 DEF TypeOK
    <3> QED
      BY <3>2 DEF j, k
  <2>4. CASE q = t
    BY <2>3, <2>4
  <2>5. CASE q # t
    <3>1. guess_count'[q] = guess_count[q]
      BY <2>1, <2>5 DEF TypeOK
    <3>2. columnStatus[ColumnOf(q)] # "clear"
      BY <2>1, <3>1 DEF CountsShow
    <3> QED
      BY <2>3, <3>2
  <2> QED
    BY <2>4, <2>5
<1>4. CASE SdlInit \/ Arrive \/ PollEvent \/ GetDepth \/ Pixel \/ Walk \/ RayDone
           \/ Draw \/ Shutdown
  <2>1. UNCHANGED <<known_count, guess_count, columnStatus>>
    BY <1>4 DEF SdlInit, Arrive, PollEvent, GetDepth, Pixel, Walk, RayDone,
      Draw,
                Shutdown, gridVars
  <2> QED
    BY <2>1 DEF CountsShow
<1> QED
  BY <1>1, <1>2, <1>3, <1>4 DEF Next, Program

\* Which columns are known, after a step
LEMMA LandingsKept ==
  ASSUME TypeOK, IndexSafe, KnownByLanding, Next
  PROVE  KnownByLanding'
<1> DEFINE In(z, k) == <<k[1], k[2], z>>
<1>0. \A k \in Columns, z \in 0 .. CUBE_HEIGHT - 1 :
        In(z, k) \in Cubes /\ ColumnOf(In(z, k)) = k
  BY DEF Columns, Cubes, ColumnOf
<1>1. CASE Clear
  <2>1. /\ \A q \in Cubes : known_by'[q] = None
        /\ \A k \in Columns : columnStatus'[k] = "clear"
    BY <1>1 DEF Clear, Blank
  <2> QED
    BY <1>0, <2>1 DEF KnownByLanding
<1>2. CASE Land
  <2>1. CASE UNCHANGED <<known_by, columnStatus>>
    BY <2>1 DEF KnownByLanding
  <2>2. CASE InBounds(c) /\ ~UNCHANGED <<known_by, columnStatus>>
    <3> DEFINE t == CubeAt(land)
    <3>1. /\ known_by' = [known_by EXCEPT ![t] = dev]
          /\ columnStatus' = [columnStatus EXCEPT ![ColumnOf(t)] = "known"]
      BY <1>2, <2>2 DEF Land
    <3>2. t \in Cubes
      BY <1>2, <2>2 DEF Land, IndexSafe
    <3>3. dev # None
      BY DEF TypeOK, None
    <3> HIDE DEF t
    <3>4. ASSUME NEW q \in Cubes
          PROVE  known_by'[q] = IF q = t THEN dev ELSE known_by[q]
      BY <3>1 DEF TypeOK
    <3>5. ASSUME NEW k \in Columns
          PROVE  columnStatus'[k] =
                   IF k = ColumnOf(t) THEN "known" ELSE columnStatus[k]
      BY <3>1 DEF TypeOK
    <3>6. ASSUME NEW k \in Columns, k # ColumnOf(t),
                 NEW z \in 0 .. CUBE_HEIGHT - 1
          PROVE  known_by'[In(z, k)] = known_by[In(z, k)]
      BY <1>0, <3>4, <3>6
    <3>7. \E z \in 0 .. CUBE_HEIGHT - 1 : In(z, ColumnOf(t)) = t
      BY <3>2 DEF Cubes, ColumnOf
    <3> SUFFICES ASSUME NEW k \in Columns
                 PROVE  columnStatus'[k] = "known" <=>
                          \E z \in 0 .. CUBE_HEIGHT - 1 : known_by'[In(z, k)] # None
      BY DEF KnownByLanding
    <3>8. CASE k = ColumnOf(t)
      <4>1. PICK z \in 0 .. CUBE_HEIGHT - 1 : In(z, k) = t
        BY <3>7, <3>8
      <4>2. known_by'[In(z, k)] = dev
        BY <3>2, <3>4, <4>1
      <4> QED
        BY <3>3, <3>5, <3>8, <4>2
    <3>9. CASE k # ColumnOf(t)
      <4> HIDE DEF In
      <4>1. columnStatus[k] = "known" <=>
              \E z \in 0 .. CUBE_HEIGHT - 1 : known_by[In(z, k)] # None
        BY DEF KnownByLanding, In
      <4> QED
        BY <3>5, <3>6, <3>9, <4>1
    <3> QED
      BY <3>8, <3>9
  <2> QED
    BY <1>2, <2>1, <2>2 DEF Land
<1>3. CASE Guess
  <2> DEFINE j == ColumnOf(CubeAt(c))
  <2>1. /\ columnStatus' = [columnStatus EXCEPT ![j] =
                              IF @ = "clear" THEN "guessed" ELSE @]
        /\ known_by' = known_by
    BY <1>3 DEF Guess
  <2> HIDE DEF j
  <2>2. ASSUME NEW k \in Columns
        PROVE  columnStatus'[k] = "known" <=> columnStatus[k] = "known"
    <3>1. columnStatus'[k] = IF k = j /\ columnStatus[k] = "clear"
                             THEN "guessed" ELSE columnStatus[k]
      BY <2>1 DEF TypeOK
    <3> QED
      BY <3>1
  <2> QED
    BY <2>1, <2>2 DEF KnownByLanding
<1>4. CASE SdlInit \/ Arrive \/ PollEvent \/ GetDepth \/ Pixel \/ Walk \/ RayDone
           \/ Draw \/ Shutdown
  <2>1. UNCHANGED <<known_by, columnStatus>>
    BY <1>4 DEF SdlInit, Arrive, PollEvent, GetDepth, Pixel, Walk, RayDone,
                Draw, Shutdown, gridVars
  <2> QED
    BY <2>1 DEF KnownByLanding
<1> QED
  BY <1>1, <1>2, <1>3, <1>4 DEF Next, Program

\* For every grid and every number of pixels, also when a counter wraps: no
\* recognized cube is hidden from draw_depths by a column that counts as
\* clear, and a column is known exactly if a camera landed in it in this poll.
THEOREM ColumnsRight == Spec => []ColumnsExact
<1>1. Init => CountsShow /\ KnownByLanding
  <2> SUFFICES ASSUME Init PROVE CountsShow /\ KnownByLanding
    OBVIOUS
  <2>1. CountsShow
    BY DEF Init, CountsShow, Zero
  <2>2. ASSUME NEW k \in Columns, NEW z \in 0 .. CUBE_HEIGHT - 1
        PROVE  columnStatus[k] # "known" /\ known_by[<<k[1], k[2], z>>] = None
    BY DEF Init, Blank, Columns, Cubes
  <2> QED
    BY <2>1, <2>2 DEF KnownByLanding, Init
<1>2. GridInv /\ IndexSafe /\ CountsShow /\ KnownByLanding /\ [Next]_vars
        => (CountsShow /\ KnownByLanding)'
  <2> SUFFICES ASSUME TypeOK, IndexSafe, CountsShow, KnownByLanding, [Next]_vars
               PROVE  CountsShow' /\ KnownByLanding'
    BY DEF GridInv
  <2>1. CASE UNCHANGED vars
    BY <2>1 DEF CountsShow, KnownByLanding, vars, gridVars
  <2> QED
    BY <2>1, CountsKept, LandingsKept
<1>3. GridInv /\ CountsShow /\ KnownByLanding => ColumnsExact
  <2> SUFFICES ASSUME TypeOK, CountsShow, NEW q \in Cubes, Recognized(q)
               PROVE  columnStatus[ColumnOf(q)] # "clear"
    BY DEF GridInv, ColumnsExact, ColumnsTellAll
  <2>1. known_count[q] \in Int /\ guess_count[q] \in Int
    BY CharZero DEF TypeOK
  <2>2. known_count[q] # 0 \/ guess_count[q] # 0
    BY <2>1, Constants DEF Recognized
  <2> QED
    BY <2>2 DEF CountsShow
<1> QED
  BY <1>1, <1>2, <1>3, GridInductive, IndexRight, PTL DEF Spec

=============================================================================
