----------------------------- MODULE PacketsMC -----------------------------
(***************************************************************************)
(* Instances of PacketStream and of Pixels, one after the other: the       *)
(* packets of a stream, and what is made of the frames they bring.         *)
(*                                                                         *)
(* Frames of four packets, of which up to six in a row may be lost.        *)
(*                                                                         *)
(* The pictures: every string of bytes of 0 and 255 that holds eight       *)
(* pixels of 11 bits, every one of four bytes' values that holds four of   *)
(* 10; mosaics of 4 by 4 with one pixel that differs, and slopes; and      *)
(* pairs of UYVY pixels of six values each.                                *)
(***************************************************************************)
EXTENDS PacketStream

VARIABLES side, job, in, buffer, bitsIn, rows, h, v, out

picture == <<job, in, buffer, bitsIn, rows, h, v, out>>

\* 16 values of a mosaic of 4 by 4
Spots == {[n \in 1 .. 16 |-> IF n = k THEN a ELSE b] : k \in 1 .. 16, a \in {0, 1, 255}, b \in {0, 3, 255}}
Slopes == {[n \in 1 .. 16 |-> (a * (n % 4) + b * (n \div 4) + c * n * n) % 256] :
             a \in {0, 7, 100}, b \in {0, 7, 100}, c \in {0, 5, 99, 250}}

JobsMC ==
  {<<"11 to 16", r>> : r \in [1 .. 11 -> {0, 255}]}
  \cup {<<c, r>> : c \in {"10 to 16", "10 to 8"}, r \in [1 .. 5 -> {0, 90, 165, 255}]}
  \cup {<<"bayer", r>> : r \in Spots \cup Slopes}
  \cup {<<"uyvy", r>> : r \in [1 .. 4 -> {0, 16, 77, 128, 180, 255}]}

Picture == INSTANCE Pixels WITH W <- 4, H <- 4, Register <- 20, Jobs <- JobsMC

ASSUME PixelsSound == Picture!PixelsAssumption

all == <<side, vars, picture>>

InitMC ==
  /\ side \in {"packets", "picture"} /\ Init /\ Picture!Init
  /\ side # "picture" => job = CHOOSE j \in JobsMC : TRUE

Reassembling == side = "packets" /\ UNCHANGED <<side, picture>>
Converting == side = "picture" /\ UNCHANGED <<side, vars>>

NextMC ==
  \/ Reassembling /\ Next
  \/ Converting /\ Picture!Next

SpecMC == InitMC /\ [][NextMC]_all

\* A picture is what the camera's bytes say, to the last pixel (see Pixels;
\* convert_packed_to_16bit, convert_packed_to_8bit, convert_bayer_to_rgb,
\* convert_uyvy_to_rgb).
PicturesRight == side = "picture" => Picture!Decoded
=============================================================================
