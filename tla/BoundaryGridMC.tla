--------------------------- MODULE BoundaryGridMC ---------------------------
(***************************************************************************)
(* Instances of BoundaryGrid: a small grid with the proportions of         *)
(* device_definitions.h (three cubes to the metre on the ground for one in *)
(* height), cameras on the roof, rays 0 and 22.6 degrees off the axis.     *)
(***************************************************************************)
EXTENDS BoundaryGrid

\* Thirteen times the sines and cosines of 0, 22.6, 67.4, 90, ... degrees
SinTable == <<0, 5, 12, 13, 12, 5, 0, -5, -12, -13, -12, -5>>
SinOf == [a \in Angles |-> SinTable[a + 1]]
CosOf == [a \in Angles |-> SinTable[((a + 3) % 12) + 1]]

\* Two cameras, one looking forward and one back
FrontAndBack ==
  <<[base |-> <<900, 700, 760>>, hangle |-> 0, vangle |-> 0],
    [base |-> <<1200, 2300, 760>>, hangle |-> 6, vangle |-> 0]>>

\* Two cameras side by side, both looking forward
SideBySide ==
  <<[base |-> <<750, 700, 760>>, hangle |-> 0, vangle |-> 0],
    [base |-> <<1270, 700, 760>>, hangle |-> 0, vangle |-> 0]>>

OneCamera == <<[base |-> <<750, 700, 760>>, hangle |-> 0, vangle |-> 0]>>

\* The middle of the picture, its upper left and its lower right corner
Corners == <<[h |-> 0, v |-> 0], [h |-> -1, v |-> 1], [h |-> 1, v |-> -1]>>

\* Two pixels that see the same cube, and one up and to the left
PairAndCorner == <<[h |-> 0, v |-> 0], [h |-> 0, v |-> 0], [h |-> -1, v |-> 1]>>

\* The lower edge of the picture
Downward == [p \in Pixels |-> [h |-> 0, v |-> -1]]

\* A surface in the middle of the picture: every pixel sees the same cube.
Middle == [p \in Pixels |-> [h |-> 0, v |-> 0]]
=============================================================================
