---------------------------- MODULE PacketStream ----------------------------
(***************************************************************************)
(* Reassembly of a camera frame from isochronous packets (libfreenect's    *)
(* src/cameras.c).  The camera sends each frame as a fixed number of       *)
(* packets with a flag (first, middle, last) and a sequence number that    *)
(* wraps around; packets get lost, cut off or spoiled on the way.          *)
(* stream_process puts each packet at its place in raw_buf, fills small    *)
(* gaps by counting, and starts over at the next first packet otherwise.   *)
(* depth_process and video_process hand a finished frame to the callback,  *)
(* which may set another buffer.                                           *)
(***************************************************************************)
EXTENDS Integers, FiniteSets

CONSTANTS frame_size, pkt_size,  \* in bytes
          variable_length,       \* FALSE for both of the camera's streams
          SeqMod,                \* sequence numbers are counted modulo SeqMod
          MaxLost,               \* packets that may be lost without a resync
          ShortestCut,           \* least data of a packet that is cut off
          MaxGap,                \* bound on the packets lost in a row
          MaxFrames              \* bound on the frames the camera sends

\* stream_init
pkts_per_frame == (frame_size + pkt_size - 1) \div pkt_size
last_pkt_size  == IF frame_size % pkt_size = 0 THEN pkt_size
                                               ELSE frame_size % pkt_size

Slots   == 0 .. pkts_per_frame - 1
Buffers == [Slots -> Nat]
Flags   == {"sof", "mof", "eof"}
Lengths == ShortestCut .. pkt_size + 1
Headers == [flag : Flags, seq : 0 .. SeqMod - 1, timestamp : {0}]

Streams == [synced : BOOLEAN, seq : 0 .. SeqMod - 1, pkt_num : Nat,
            got_pkts : Nat, valid_pkts : Nat, last_timestamp : Nat,
            timestamp : Nat, split_bufs : BOOLEAN]

ASSUME StreamAssumption ==
  /\ frame_size \in Nat \ {0} /\ pkt_size \in Nat \ {0}
  /\ variable_length \in BOOLEAN
  /\ SeqMod \in Nat \ {0} /\ MaxLost \in Nat /\ ShortestCut \in Nat
  /\ MaxGap \in Nat /\ MaxFrames \in Nat

\* What keeps a packet from being taken for another: sequence numbers do not
\* come round within a gap (and a packet before it that was too long), a
\* gap that is counted is shorter than a frame, and a frame has a last packet
\* besides its first.
ASSUME PlaceAssumption ==
  /\ MaxGap + 1 < SeqMod /\ MaxLost < pkts_per_frame
  /\ 1 < pkts_per_frame /\ ~variable_length

VARIABLES
  running,   \* packet_stream.running
  strm,      \* the other fields of packet_stream that change
  raw,       \* raw_buf: the frame each packet's place begins with
  spare,     \* the buffer the callback sets next
  delivered, \* what the last callback since the start was given
  cam,       \* the camera: its next packet is [frame, pos, seq]
  gap,       \* packets lost since the last one that arrived
  clean      \* whole packets since the last that was not, while running

vars == <<running, strm, raw, spare, delivered, cam, gap, clean>>

Empty == [k \in Slots |-> 0]
NoFrame == [data |-> Empty, timestamp |-> 0, valid_pkts |-> 0]

Init ==
  /\ running = FALSE
  /\ strm = [synced |-> FALSE, seq |-> 0, pkt_num |-> 0, got_pkts |-> 0,
             valid_pkts |-> 0, last_timestamp |-> 0, timestamp |-> 0,
             split_bufs |-> FALSE]
  /\ raw = Empty /\ spare = Empty /\ delivered = NoFrame
  /\ cam = [frame |-> 1, pos |-> 0, seq |-> 0]
  /\ gap = 0 /\ clean = 0

-----------------------------------------------------------------------------
(* stream_process on the fields s of the stream and a packet with header h *)

\* Variant: the packets counted before are counted again.
Sync_KeepsCount(s, h) ==
  IF s.synced THEN s
  ELSE [s EXCEPT !.synced = TRUE, !.seq = h.seq, !.pkt_num = 0]

\* Variant: the place within the frame that was given up stays.
Sync_KeepsPlace(s, h) ==
  IF s.synced THEN s
  ELSE [s EXCEPT !.synced = TRUE, !.seq = h.seq, !.valid_pkts = 0,
                 !.got_pkts = 0]

\* The first packet of a frame brings the stream back in step.
Sync(s, h) ==
  IF s.synced THEN s
  ELSE [s EXCEPT !.synced = TRUE, !.seq = h.seq, !.pkt_num = 0,
                 !.valid_pkts = 0, !.got_pkts = 0]

Resync(s) == [s EXCEPT !.synced = FALSE]

Lost(s, h) == (h.seq - s.seq) % SeqMod
Left(s)    == pkts_per_frame - s.pkt_num

TooManyLost(s, h) ==
  Lost(s, h) > MaxLost \/ (variable_length /\ Lost(s, h) > 0)

\* The gap reaches over the end of the frame: the frame is finished.
Overrun(s, h) == Lost(s, h) > 0 /\ Left(s) <= Lost(s, h)

\* Variant: the place of the packet does not move.
Skip_InPlace(s, h) == [s EXCEPT !.seq = h.seq]

\* Lost packets leave their places in the frame as they are.
Skip(s, h) ==
  IF Overrun(s, h)
  THEN [s EXCEPT !.seq = h.seq, !.pkt_num = Lost(s, h) - Left(s),
                 !.valid_pkts = s.got_pkts, !.got_pkts = 0,
                 !.timestamp = s.last_timestamp]
  ELSE [s EXCEPT !.seq = h.seq, !.pkt_num = @ + Lost(s, h)]

\* The header is what its place in the frame asks for.
FlagFits(s, h) ==
  IF variable_length
  THEN \/ s.pkt_num = 0 /\ h.flag = "sof"
       \/ s.pkt_num < pkts_per_frame /\ h.flag \in {"mof", "eof"}
  ELSE \/ s.pkt_num = 0 /\ h.flag = "sof"
       \/ s.pkt_num = pkts_per_frame - 1 /\ h.flag = "eof"
       \/ /\ 0 < s.pkt_num /\ s.pkt_num < pkts_per_frame - 1
          /\ h.flag = "mof"

\* Variant: the last packet may be as long as any other.
ExpectedSize_Full(s) == pkt_size
ExpectedSize(s) == IF s.pkt_num = pkts_per_frame - 1 THEN last_pkt_size
                                                     ELSE pkt_size

LengthFits(s, h, len) ==
  /\ len <= ExpectedSize(s)
  /\ variable_length /\ h.flag # "eof" => len = ExpectedSize(s)

Copied(s, h) ==
  [s EXCEPT !.pkt_num = @ + 1, !.seq = (@ + 1) % SeqMod, !.got_pkts = @ + 1,
            !.last_timestamp = h.timestamp]

\* After the last packet of a frame
Finished(s) ==
  [s EXCEPT !.pkt_num = 0, !.valid_pkts = s.got_pkts, !.got_pkts = 0,
            !.timestamp = s.last_timestamp]

\* The stream once it is in step and has counted what was lost
Placed(h) == Skip(Sync(strm, h), h)

\* A header that stream_process goes on with
Considered(h) == strm.synced \/ h.flag = "sof"

Accepted(h, len) ==
  /\ Considered(h) /\ ~TooManyLost(Sync(strm, h), h)
  /\ FlagFits(Placed(h), h) /\ LengthFits(Placed(h), h, len)

\* got_frame_size # 0 before the packet itself is looked at
Cut(h) == Overrun(Sync(strm, h), h)

-----------------------------------------------------------------------------
\* depth_process, video_process: a finished frame goes to the callback with
\* the buffer as it then is, and the callback sets the other buffer.
Deliver(s, buf) ==
  /\ delivered' = [data |-> buf, timestamp |-> s.timestamp,
                   valid_pkts |-> s.valid_pkts]
  /\ IF s.split_bufs THEN raw' = buf /\ UNCHANGED spare
                   ELSE raw' = spare /\ spare' = buf

DeliverIf(finished, s, buf) ==
  IF finished THEN Deliver(s, buf)
              ELSE raw' = buf /\ UNCHANGED <<spare, delivered>>

\* Too short for a header, a bad magic, or out of step
Ignore == UNCHANGED <<strm, raw, spare, delivered>>

Process(h, len) ==
  LET s == Placed(h)
  IN \/ /\ ~Considered(h)
        /\ Ignore
     \/ /\ Considered(h) /\ TooManyLost(Sync(strm, h), h)
        /\ strm' = Resync(Sync(strm, h))
        /\ UNCHANGED <<raw, spare, delivered>>
     \/ /\ Considered(h) /\ ~TooManyLost(Sync(strm, h), h)
        /\ ~FlagFits(s, h)
        /\ strm' = Resync(s)
        /\ DeliverIf(Cut(h), s, raw)
     \/ /\ Considered(h) /\ ~TooManyLost(Sync(strm, h), h)
        /\ FlagFits(s, h) /\ ~LengthFits(s, h, len)
        /\ strm' = IF variable_length THEN Resync(s) ELSE s
        /\ DeliverIf(Cut(h), s, raw)
     \/ /\ Accepted(h, len)
        /\ LET done == h.flag = "eof"
               t    == IF done THEN Finished(Copied(s, h)) ELSE Copied(s, h)
           IN /\ strm' = t
              /\ DeliverIf(done \/ Cut(h), t,
                           IF len = 0 THEN raw
                           ELSE [raw EXCEPT ![s.pkt_num] = cam.frame])

-----------------------------------------------------------------------------
\* What the camera sends next
FlagAt(k) == IF k = 0 THEN "sof"
             ELSE IF k = pkts_per_frame - 1 THEN "eof" ELSE "mof"
Sent == [flag |-> FlagAt(cam.pos), seq |-> cam.seq, timestamp |-> cam.frame]
SentLen == IF cam.pos = pkts_per_frame - 1 THEN last_pkt_size ELSE pkt_size

CameraMoves ==
  LET last == cam.pos = pkts_per_frame - 1
  IN /\ cam.frame <= MaxFrames
     /\ cam' = [frame |-> IF last THEN cam.frame + 1 ELSE cam.frame,
                pos   |-> IF last THEN 0 ELSE cam.pos + 1,
                seq   |-> (cam.seq + 1) % SeqMod]

\* The next packet arrives whole.
Arrive ==
  /\ running /\ CameraMoves
  /\ Process(Sent, SentLen)
  /\ gap' = 0
  /\ clean' = IF clean < 2 * pkts_per_frame THEN clean + 1 ELSE clean
  /\ UNCHANGED running

\* It arrives with a length that is not the right one.
ArriveCut ==
  /\ running /\ CameraMoves
  /\ \E len \in Lengths \ {SentLen} : Process(Sent, len)
  /\ gap' = 0 /\ clean' = 0
  /\ UNCHANGED running

\* It is lost, or its header is.
Lose ==
  /\ running /\ CameraMoves /\ gap < MaxGap
  /\ Ignore
  /\ gap' = gap + 1 /\ clean' = 0
  /\ UNCHANGED running

\* freenect_start_*, freenect_stop_*: the camera itself starts again with a
\* new frame; stream_init leaves most of the fields alone.  The format says
\* whether frames are converted out of raw_buf.
Start ==
  /\ ~running
  /\ running' = TRUE
  /\ \E split \in BOOLEAN :
       /\ strm' = [strm EXCEPT !.synced = FALSE, !.split_bufs = split]
       /\ raw' = IF split THEN Empty ELSE raw
  /\ cam' = [cam EXCEPT !.frame = IF @ > MaxFrames THEN @ ELSE @ + 1,
                        !.pos = 0]
  /\ gap' = 0 /\ clean' = 0
  /\ delivered' = NoFrame
  /\ UNCHANGED spare

Stop ==
  /\ running
  /\ running' = FALSE
  /\ UNCHANGED <<strm, raw, spare, delivered, cam, gap, clean>>

Next == Arrive \/ ArriveCut \/ Lose \/ Start \/ Stop

Spec == Init /\ [][Next]_vars

-----------------------------------------------------------------------------
\* Every variable has its type; sequence numbers stay within their width.
TypeOK ==
  /\ running \in BOOLEAN
  /\ strm \in Streams
  /\ raw \in Buffers /\ spare \in Buffers
  /\ delivered \in [data : Buffers, timestamp : Nat, valid_pkts : Nat]
  /\ cam \in [frame : Nat, pos : Slots, seq : 0 .. SeqMod - 1]
  /\ gap \in Nat /\ clean \in Nat

\* Whatever the header says and however long the packet is, the memcpy of
\* stream_process stays inside raw_buf.
CopyInBuffer ==
  \A h \in Headers, len \in Lengths : Accepted(h, len) =>
    /\ Placed(h).pkt_num >= 0
    /\ Placed(h).pkt_num * pkt_size + len <= frame_size

\* A packet is put where the camera took it from, however many were lost
\* before it: the counting of gaps, over the end of a frame as well, and the
\* wrap of the sequence numbers never shift the picture.
PlacedRight == Accepted(Sent, SentLen) => Placed(Sent).pkt_num = cam.pos

\* A frame of which all packets are said to have arrived (the "%d/%d packets
\* arrived" of depth_process) holds a packet of its own at every place.  Only
\* when the buffer is not converted but exchanged may the first be missing:
\* if it reveals that the frame before has ended, it is copied into the
\* buffer of that frame, and the callback then sets the other one.
WholeIsPure ==
  delivered.valid_pkts = pkts_per_frame =>
    \A k \in Slots : \/ delivered.data[k] = delivered.timestamp
                     \/ ~strm.split_bufs /\ k = 0

\* The packet that reveals the loss of a frame's end is copied before the
\* frame is handed over, but nothing else of a later frame is in it.
AtMostOneNewer ==
  Cardinality({k \in Slots : delivered.data[k] > delivered.timestamp}) <= 1

\* valid_pkts counts the packets of the frame that are in it, but for one
\* that a packet of the next frame may have replaced, and, where buffers are
\* exchanged, one that was put in the buffer of the frame before.
CountHonest ==
  delivered.valid_pkts > 0 =>
    delivered.valid_pkts
      - Cardinality({k \in Slots : delivered.data[k] = delivered.timestamp})
      \in 0 .. (IF strm.split_bufs THEN 1 ELSE 2)

\* What depth_process says of a frame is so, whatever was lost: TypeOK, and which
\* packets are in it, how many of them, and at most one of the next.
FrameHonest == TypeOK /\ WholeIsPure /\ AtMostOneNewer /\ CountHonest

\* Whatever was lost before, of two frames in a row that arrive undamaged
\* the second is delivered, complete.
RecoversInAFrame ==
  clean = 2 * pkts_per_frame /\ cam.pos = 0 =>
    /\ delivered.timestamp = cam.frame - 1
    /\ delivered.valid_pkts = pkts_per_frame
=============================================================================
