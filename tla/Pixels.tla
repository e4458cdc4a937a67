------------------------------- MODULE Pixels -------------------------------
(***************************************************************************)
(* The conversions of the camera's pictures (cameras.c): pixels of vw bits *)
(* unpacked into 16 or 8, a Bayer mosaic and UYVY turned into RGB.  Each   *)
(* is a loop over the picture; a step is one turn of the inner loop.       *)
(***************************************************************************)
EXTENDS Integers, Sequences, FiniteSetsExt

CONSTANTS
  W, H,      \* the picture's columns and rows (640, 480)
  Register,  \* bits kept of the uint32_t the unpacking shifts through (32)
  Jobs       \* what is converted, from what: <<conversion, raw>>

\* What the constants must be (assumed where this is instantiated)
PixelsAssumption ==
  /\ W \in Nat /\ W % 2 = 0 /\ W > 0 /\ H \in Nat /\ H % 2 = 0 /\ H > 0
  /\ Register \in 18 .. 32

VARIABLES
  job,      \* the conversion, and raw_buf
  in,       \* the bytes of raw_buf that have been read
  buffer,   \* unpacking: the bits read last
  bitsIn,   \* unpacking: how many of them are not used yet
  rows,     \* Bayer: <<prevLine, curLine, nextLine>>, as rows
  h, v,     \* Bayer: hVals and vSums, a window of three bytes each
  out       \* the frame written so far

vars == <<job, in, buffer, bitsIn, rows, h, v, out>>

conv == job[1]
raw == job[2]
At(x, y) == raw[W * y + x + 1]

-----------------------------------------------------------------------------
\* cameras.c 296-301: the conversions of depth_process, and video_process's of infrared pictures
Width == CASE conv = "11 to 16" -> 11 [] OTHER -> 10

Packed == conv \in {"11 to 16", "10 to 16", "10 to 8"}
PixelCount == (Len(raw) * 8) \div Width

\* cameras.c 253-256: convert_packed_to_16bit reads a byte
ReadByte ==
  /\ Packed /\ Len(out) < PixelCount /\ bitsIn < Width
  /\ buffer' = (buffer * 256 + raw[in + 1]) % 2^Register
  /\ bitsIn' = bitsIn + 8 /\ in' = in + 1
  /\ UNCHANGED <<job, rows, h, v, out>>

\* cameras.c 247-260: convert_packed_to_16bit's pixel
Pixel16(left) == (buffer \div 2^left) % 2^Width

\* cameras.c 263-275: convert_packed_to_8bit's pixel, its eight highest bits
Pixel8(left) == (buffer \div 2^(left + Width - 8)) % 256

\* cameras.c 257-259: a pixel is written
WritePixel ==
  /\ Packed /\ Len(out) < PixelCount /\ bitsIn >= Width
  /\ bitsIn' = bitsIn - Width
  /\ out' = Append(out, IF conv = "10 to 8" THEN Pixel8(bitsIn - Width) ELSE Pixel16(bitsIn - Width))
  /\ UNCHANGED <<job, in, buffer, rows, h, v>>

-----------------------------------------------------------------------------
Mean(a, b) == (a + b) \div 2

\* cameras.c 415-422: prevLine, curLine and nextLine of a row
RowsOf(y) == <<IF y = 0 THEN 1 ELSE y - 1, y, IF y = H - 1 THEN H - 2 ELSE y + 1>>

VSum(x, r) == Mean(At(x, r[1]), At(x, r[3]))

\* cameras.c 424-431: hVals and vSums before the first column
Before(r) == [h |-> <<At(1, r[2]), At(0, r[2])>>, v |-> <<VSum(1, r), VSum(0, r)>>]

\* cameras.c 446-503: the pixel in the middle of the windows
Rgb(x, y, hw, vw) ==
  LET hSum == Mean(hw[1], hw[3])
      green == Mean(hSum, vw[2])
      corners == Mean(vw[1], vw[3])
  IN IF y % 2 = 0
     THEN IF x % 2 = 0 THEN <<hSum, hw[2], vw[2]>> ELSE <<hw[2], green, corners>>
     ELSE IF x % 2 = 0 THEN <<corners, green, hw[2]>> ELSE <<vw[2], hw[2], hSum>>

\* a mutated form: the window wraps to the column before
LastFarther(w) == Append(w, w[2])

\* cameras.c 477-481: the window at the last column
Last(w) == Append(w, w[1])

Column == Len(out) % W
Row == Len(out) \div W

\* cameras.c 437-475: a column of convert_bayer_to_rgb but the last
BayerColumn ==
  /\ conv = "bayer" /\ Row < H /\ Column < W - 1
  /\ LET x == Column
         hw == Append(h, At(x + 1, rows[2]))  vw == Append(v, VSum(x + 1, rows))
     IN /\ out' = Append(out, Rgb(x, Row, hw, vw))
        /\ h' = Tail(hw) /\ v' = Tail(vw)
  /\ UNCHANGED <<job, in, buffer, bitsIn, rows>>

\* cameras.c 344-506: the last column of convert_bayer_to_rgb, and the start of the next row
BayerLast ==
  /\ conv = "bayer" /\ Row < H /\ Column = W - 1
  /\ out' = Append(out, Rgb(W - 1, Row, Last(h), Last(v)))
  /\ rows' = RowsOf((Row + 1) % H)
  /\ IF Row + 1 < H THEN h' = Before(rows').h /\ v' = Before(rows').v ELSE UNCHANGED <<h, v>>
  /\ UNCHANGED <<job, in, buffer, bitsIn>>

-----------------------------------------------------------------------------
\* C divides towards zero.
Truncated(n, d) == IF n >= 0 THEN n \div d ELSE -((-n) \div d)

\* cameras.c 310-310: CLAMP
Clamp(x) == IF x < 0 THEN 0 ELSE IF x > 255 THEN 255 ELSE x

\* cameras.c 311-341: a pixel of convert_uyvy_to_rgb
YuvRgb(y, u, w) ==
  LET l == Truncated((y - 16) * 1164, 1000)
  IN <<Clamp(l + Truncated((w - 128) * 1596, 1000)),
       Clamp(l - Truncated((w - 128) * 813, 1000) - Truncated((u - 128) * 391, 1000)),
       Clamp(l + Truncated((u - 128) * 2018, 1000))>>

\* cameras.c 315-339: a turn of convert_uyvy_to_rgb: two pixels of four bytes
Uyvy ==
  /\ conv = "uyvy" /\ in < Len(raw)
  /\ out' = out \o <<YuvRgb(raw[in + 2], raw[in + 1], raw[in + 3]), YuvRgb(raw[in + 4], raw[in + 1], raw[in + 3])>>
  /\ in' = in + 4
  /\ UNCHANGED <<job, buffer, bitsIn, rows, h, v>>

\* cameras.c 526-545: what video_process converts
Init ==
  /\ job \in Jobs
  /\ in = 0 /\ buffer = 0 /\ bitsIn = 0 /\ out = <<>> /\ rows = RowsOf(0)
  /\ IF conv = "bayer" THEN h = Before(rows).h /\ v = Before(rows).v ELSE h = <<>> /\ v = <<>>

Next == ReadByte \/ WritePixel \/ BayerColumn \/ BayerLast \/ Uyvy

Spec == Init /\ [][Next]_vars

-----------------------------------------------------------------------------
\* A picture is a string of bits, the highest of each byte first.
Bit(b) == (raw[b \div 8 + 1] \div 2^(7 - (b % 8))) % 2

Field(p, n) ==
  LET value[i \in 0 .. n] == IF i = 0 THEN 0 ELSE 2 * value[i - 1] + Bit(p * Width + i - 1)
  IN value[n]

\* Every pixel has its bits of the picture, and no more bytes are read than
\* there are (convert_packed_to_16bit, convert_packed_to_8bit).
Unpacked ==
  Packed => /\ in * 8 = Len(out) * Width + bitsIn /\ in <= Len(raw)
            /\ \A p \in DOMAIN out :
                 out[p] = Field(p - 1, IF conv = "10 to 8" THEN 8 ELSE Width)

\* The mosaic: a row of green and red, a row of blue and green. A colour a
\* site does not have is the mean of its neighbours that do, and the picture is
\* mirrored at its edges.
Colour(x, y) == IF (x + y) % 2 = 0 THEN "green" ELSE IF y % 2 = 0 THEN "red" ELSE "blue"

Mirror(i, n) == IF i < 0 THEN -i ELSE IF i >= n THEN 2 * (n - 1) - i ELSE i

Mosaic(c, x, y) ==
  LET near == {s \in (x - 1 .. x + 1) \X (y - 1 .. y + 1) : Colour(s[1], s[2]) = c}
  IN IF Colour(x, y) = c THEN At(x, y)
     ELSE MapThenSumSet(LAMBDA s : At(Mirror(s[1], W), Mirror(s[2], H)), near) \div Cardinality(near)

\* Every colour is the mean of those the mosaic has it at around, at the edges
\* and corners as in the middle, but for 1 that is lost in rounding twice
\* (convert_bayer_to_rgb).
Demosaiced ==
  conv = "bayer" =>
    \A p \in DOMAIN out :
      LET x == (p - 1) % W  y == (p - 1) \div W
          mean == <<Mosaic("red", x, y), Mosaic("green", x, y), Mosaic("blue", x, y)>>
      IN \A i \in 1 .. 3 : mean[i] - out[p][i] \in 0 .. 1

\* A colour differs by at most 2 from the one the coefficients stand for, and
\* is never wrapped around (convert_uyvy_to_rgb).
Near(c, exact) ==
  LET e == exact \div 1000
  IN c \in 0 .. 255 /\ (c > 0 => c - e <= 2) /\ (c < 255 => e - c <= 2)

YuvClose ==
  conv = "uyvy" =>
    \A p \in DOMAIN out :
      LET k == 4 * ((p - 1) \div 2)
          y == raw[k + (IF p % 2 = 1 THEN 2 ELSE 4)] - 16
          u == raw[k + 1] - 128
          w == raw[k + 3] - 128
      IN /\ Near(out[p][1], 1164 * y + 1596 * w)
         /\ Near(out[p][2], 1164 * y - 813 * w - 391 * u)
         /\ Near(out[p][3], 1164 * y + 2018 * u)

\* A picture is what the camera's bytes say, whichever of its formats it has.
Decoded == Unpacked /\ Demosaiced /\ YuvClose
=============================================================================
