------------------------- MODULE PacketStreamProofs -------------------------
(***************************************************************************)
(* For every size of frame and packet, every width of the sequence numbers *)
(* and every header and length that may arrive: the fields of the stream   *)
(* keep their ranges, stream_process never copies outside raw_buf and puts *)
(* a packet where it belongs, a frame is what it is said to be, and a      *)
(* stream recovers within a frame.                                         *)
(***************************************************************************)
EXTENDS PacketStream, FiniteSetTheorems, TLAPS

\* The packets of a frame fill raw_buf exactly: all but the last are whole,
\* and the last one has the rest.
LEMMA PacketsFill ==
  /\ pkts_per_frame \in Nat \ {0}
  /\ last_pkt_size \in 1 .. pkt_size
  /\ (pkts_per_frame - 1) * pkt_size + last_pkt_size = frame_size
<1> DEFINE q == frame_size \div pkt_size
           r == frame_size % pkt_size
<1>1. /\ q \in Nat /\ r \in 0 .. pkt_size - 1
      /\ frame_size = q * pkt_size + r
  BY StreamAssumption
<1>2. CASE r = 0
  <2>1. frame_size + pkt_size - 1 = q * pkt_size + (pkt_size - 1)
    BY <1>1, <1>2, StreamAssumption
  <2>2. pkts_per_frame = q
    BY <2>1, <1>1, StreamAssumption DEF pkts_per_frame
  <2>3. q # 0
    BY <1>1, <1>2, StreamAssumption
  <2> QED BY <2>2, <2>3, <1>1, <1>2, StreamAssumption DEF last_pkt_size
<1>3. CASE r # 0
  <2>1. frame_size + pkt_size - 1 = (q + 1) * pkt_size + (r - 1)
    BY <1>1, StreamAssumption
  <2>2. pkts_per_frame = q + 1
    BY <2>1, <1>1, <1>3, StreamAssumption DEF pkts_per_frame
  <2> QED BY <2>2, <1>1, <1>3, StreamAssumption DEF last_pkt_size
<1> QED BY <1>2, <1>3

\* The headers a packet may have, with any timestamp
Packets == [flag : Flags, seq : 0 .. SeqMod - 1, timestamp : Nat]

\* Coming into step keeps the fields of the stream in their ranges.
LEMMA SyncType ==
  ASSUME NEW s \in Streams, NEW h \in Packets
  PROVE  Sync(s, h) \in Streams
BY DEF Streams, Packets, Sync

\* A gap moves the place within the frame forward, never before its start.
LEMMA SkipType ==
  ASSUME NEW s \in Streams, NEW h \in Packets
  PROVE  Skip(s, h) \in Streams
<1>1. Lost(s, h) \in Nat
  BY StreamAssumption DEF Lost, Streams, Packets
<1>2. Left(s) \in Int
  BY PacketsFill DEF Left, Streams
<1>3. CASE Overrun(s, h)
  <2>1. Lost(s, h) - Left(s) \in Nat
    BY <1>1, <1>2, <1>3 DEF Overrun
  <2> QED BY <2>1, <1>3 DEF Skip, Streams, Packets
<1>4. CASE ~Overrun(s, h)
  <2>1. s.pkt_num + Lost(s, h) \in Nat
    BY <1>1 DEF Streams
  <2> QED BY <2>1, <1>4 DEF Skip, Streams, Packets
<1> QED BY <1>3, <1>4

\* So does all that is done to the stream before the packet is looked at.
LEMMA PlacedType ==
  ASSUME TypeOK, NEW h \in Packets
  PROVE  Placed(h) \in Streams
BY SyncType, SkipType DEF TypeOK, Placed

\* So do a copied packet, whose sequence number wraps, and a finished frame.
LEMMA CopiedType ==
  ASSUME NEW s \in Streams, NEW h \in Packets
  PROVE  Copied(s, h) \in Streams /\ Finished(Copied(s, h)) \in Streams
<1>1. (s.seq + 1) % SeqMod \in 0 .. SeqMod - 1
  BY StreamAssumption DEF Streams
<1>2. s.pkt_num + 1 \in Nat /\ s.got_pkts + 1 \in Nat /\ 0 \in Nat
  BY DEF Streams
<1>3. Copied(s, h) \in Streams
  BY <1>1, <1>2 DEF Streams, Packets, Copied
<1> QED BY <1>3 DEF Streams, Finished

\* So does giving up the frame.
LEMMA ResyncType ==
  ASSUME NEW s \in Streams
  PROVE  Resync(s) \in Streams
BY DEF Streams, Resync

\* What the camera sends is a header, and its next packet has a place.
LEMMA CameraType ==
  ASSUME TypeOK
  PROVE  /\ Sent \in Packets
         /\ CameraMoves => cam' \in [frame : Nat, pos : Slots,
                                     seq : 0 .. SeqMod - 1]
<1>1. Sent \in Packets
  BY DEF TypeOK, Sent, Packets, FlagAt, Flags
<1>2. ASSUME CameraMoves
      PROVE  cam' \in [frame : Nat, pos : Slots, seq : 0 .. SeqMod - 1]
  <2>1. (cam.seq + 1) % SeqMod \in 0 .. SeqMod - 1
    BY StreamAssumption DEF TypeOK
  <2>2. (IF cam.pos = pkts_per_frame - 1 THEN 0 ELSE cam.pos + 1) \in Slots
    BY PacketsFill DEF TypeOK, Slots
  <2> QED BY <1>2, <2>1, <2>2 DEF CameraMoves, TypeOK
<1> QED BY <1>1, <1>2

\* The callback gets a buffer, and the stream has one afterwards.
LEMMA DeliverType ==
  ASSUME TypeOK, NEW s \in Streams, NEW buf \in Buffers, NEW finished,
         DeliverIf(finished, s, buf)
  PROVE  /\ raw' \in Buffers /\ spare' \in Buffers
         /\ delivered' \in [data : Buffers, timestamp : Nat,
                            valid_pkts : Nat]
BY DEF TypeOK, DeliverIf, Deliver, Streams

\* stream_process and the callback keep the stream and the buffers in their
\* ranges, whatever header and length the packet has.
LEMMA ProcessType ==
  ASSUME TypeOK, NEW h \in Packets, NEW len, Process(h, len)
  PROVE  /\ strm' \in Streams
         /\ raw' \in Buffers /\ spare' \in Buffers
         /\ delivered' \in [data : Buffers, timestamp : Nat,
                            valid_pkts : Nat]
<1> DEFINE s == Placed(h)
<1>1. s \in Streams /\ Resync(s) \in Streams
  BY PlacedType, ResyncType
<1>2. CASE ~Considered(h) /\ Ignore
  BY <1>2 DEF TypeOK, Ignore
<1>3. CASE /\ strm' = Resync(Sync(strm, h))
           /\ UNCHANGED <<raw, spare, delivered>>
  BY <1>3, SyncType, ResyncType DEF TypeOK
<1>4. CASE /\ strm' \in {Resync(s), s}
           /\ DeliverIf(Cut(h), s, raw)
  BY <1>1, <1>4, DeliverType DEF TypeOK
<1>5. CASE /\ Accepted(h, len)
           /\ LET done == h.flag = "eof"
                  t    == IF done THEN Finished(Copied(s, h))
                                  ELSE Copied(s, h)
              IN /\ strm' = t
                 /\ DeliverIf(done \/ Cut(h), t,
                              IF len = 0 THEN raw
                              ELSE [raw EXCEPT ![s.pkt_num] = cam.frame])
  <2> DEFINE t == IF h.flag = "eof" THEN Finished(Copied(s, h))
                                    ELSE Copied(s, h)
             buf == IF len = 0 THEN raw
                    ELSE [raw EXCEPT ![s.pkt_num] = cam.frame]
  <2>1. t \in Streams
    BY <1>1, CopiedType
  <2>2. buf \in Buffers
    BY DEF TypeOK, Buffers
  <2>3. strm' = t /\ DeliverIf(h.flag = "eof" \/ Cut(h), t, buf)
    BY <1>5
  <2> HIDE DEF t, buf
  <2> QED BY <2>1, <2>2, <2>3, DeliverType
<1>6. CASE /\ Considered(h) /\ TooManyLost(Sync(strm, h), h)
           /\ strm' = Resync(Sync(strm, h))
           /\ UNCHANGED <<raw, spare, delivered>>
  BY <1>3, <1>6
<1>7. CASE /\ ~FlagFits(s, h)
           /\ strm' = Resync(s)
           /\ DeliverIf(Cut(h), s, raw)
  BY <1>4, <1>7
<1>8. CASE /\ ~LengthFits(s, h, len)
           /\ strm' = IF variable_length THEN Resync(s) ELSE s
           /\ DeliverIf(Cut(h), s, raw)
  BY <1>4, <1>8
<1> HIDE DEF s
<1> QED BY Zenon, <1>2, <1>5, <1>6, <1>7, <1>8 DEF Process, s

\* A device that was just opened has a stream with all fields zero.
LEMMA InitType == Init => TypeOK
<1>1. Empty \in Buffers /\ 0 \in Slots
  BY PacketsFill DEF Empty, Buffers, Slots
<1>2. 0 \in 0 .. SeqMod - 1
  BY StreamAssumption
<1>3. Init => strm \in Streams
  BY <1>2 DEF Init, Streams
<1>4. NoFrame \in [data : Buffers, timestamp : Nat, valid_pkts : Nat]
  BY <1>1 DEF NoFrame
<1>5. Init => cam \in [frame : Nat, pos : Slots, seq : 0 .. SeqMod - 1]
  BY <1>1, <1>2 DEF Init
<1>6. Init => gap \in Nat /\ clean \in Nat
  BY DEF Init
<1>7. Init => running \in BOOLEAN
  BY Zenon DEF Init
<1>8. Init => raw \in Buffers /\ spare \in Buffers
              /\ delivered \in [data : Buffers, timestamp : Nat,
                                 valid_pkts : Nat]
  BY <1>1, <1>4 DEF Init
<1> QED BY <1>3, <1>5, <1>6, <1>7, <1>8 DEF TypeOK

\* Every packet, loss, start and stop keeps TypeOK.
LEMMA TypeStep == TypeOK /\ [Next]_vars => TypeOK'
<1> SUFFICES ASSUME TypeOK, [Next]_vars PROVE TypeOK'
  OBVIOUS
<1>1. CASE Arrive
  BY <1>1, CameraType, ProcessType DEF Arrive, TypeOK
<1>2. CASE ArriveCut
  BY <1>2, CameraType, ProcessType DEF ArriveCut, TypeOK
<1>3. CASE Lose
  BY <1>3, CameraType DEF Lose, Ignore, TypeOK
<1>4. CASE Start
  <2>1. Empty \in Buffers /\ 0 \in Slots
    BY PacketsFill DEF Empty, Buffers, Slots
  <2>2. strm' \in Streams
    <3>1. PICK split \in BOOLEAN :
            strm' = [strm EXCEPT !.synced = FALSE, !.split_bufs = split]
      BY <1>4 DEF Start
    <3> QED BY <3>1 DEF TypeOK, Streams
  <2>3. cam' \in [frame : Nat, pos : Slots, seq : 0 .. SeqMod - 1]
    <3>1. cam' = [frame |-> IF cam.frame > MaxFrames THEN cam.frame
                            ELSE cam.frame + 1,
                  pos |-> 0, seq |-> cam.seq]
      BY <1>4 DEF Start, TypeOK
    <3> QED BY <2>1, <3>1 DEF TypeOK
  <2>4. raw' \in Buffers
    BY <1>4, <2>1 DEF Start, TypeOK
  <2>5. delivered' \in [data : Buffers, timestamp : Nat, valid_pkts : Nat]
    BY <1>4, <2>1 DEF Start, NoFrame
  <2> QED BY <1>4, <2>2, <2>3, <2>4, <2>5 DEF Start, TypeOK
<1>5. CASE Stop
  BY <1>5 DEF Stop, TypeOK
<1>6. CASE UNCHANGED vars
  BY <1>6 DEF vars, TypeOK
<1> QED BY <1>1, <1>2, <1>3, <1>4, <1>5, <1>6 DEF Next

\* The fields of the stream keep their ranges: in particular the place
\* within the frame is never negative, and the sequence number stays in its
\* eight bits, whatever arrives.
THEOREM StreamType == Spec => []TypeOK
BY InitType, TypeStep, PTL DEF Spec

\* A place in the frame and a length that stream_process accepts lie within
\* raw_buf.
LEMMA AcceptedFits ==
  ASSUME NEW s \in Streams, NEW h, NEW len \in Nat,
         FlagFits(s, h), LengthFits(s, h, len)
  PROVE  s.pkt_num * pkt_size + len <= frame_size
<1> DEFINE n == s.pkt_num
<1>1. n \in Nat /\ pkt_size \in Nat \ {0} /\ pkts_per_frame \in Nat \ {0}
      /\ last_pkt_size \in Nat
  BY PacketsFill, StreamAssumption DEF Streams
<1>2. n <= pkts_per_frame - 1
  BY <1>1 DEF FlagFits
<1>3. CASE n = pkts_per_frame - 1
  BY <1>1, <1>3, PacketsFill DEF LengthFits, ExpectedSize
<1>4. CASE n # pkts_per_frame - 1
  <2>1. len <= pkt_size
    BY <1>4 DEF LengthFits, ExpectedSize
  <2>2. n + 1 <= pkts_per_frame - 1
    BY <1>1, <1>2, <1>4
  <2>3. (n + 1) * pkt_size <= (pkts_per_frame - 1) * pkt_size
    BY <1>1, <2>2
  <2>4. (n + 1) * pkt_size = n * pkt_size + pkt_size
    BY <1>1
  <2>5. (pkts_per_frame - 1) * pkt_size <= frame_size
    BY <1>1, PacketsFill, StreamAssumption
  <2>6. /\ n * pkt_size \in Int /\ (pkts_per_frame - 1) * pkt_size \in Int
        /\ (n + 1) * pkt_size \in Int
    BY <1>1
  <2> QED BY <1>1, <2>1, <2>3, <2>4, <2>5, <2>6, StreamAssumption
<1> QED BY <1>3, <1>4

\* The memcpy of stream_process writes inside raw_buf, whatever was lost and
\* whatever the packet claims to be.
THEOREM CopySafe == Spec => []CopyInBuffer
<1>1. TypeOK => CopyInBuffer
  <2> SUFFICES ASSUME TypeOK, NEW h \in Headers, NEW len \in Lengths,
                      Accepted(h, len)
               PROVE  /\ Placed(h).pkt_num >= 0
                      /\ Placed(h).pkt_num * pkt_size + len <= frame_size
    BY DEF CopyInBuffer
  <2>1. h \in Packets
    BY DEF Headers, Packets
  <2>2. Placed(h) \in Streams
    BY <2>1, PlacedType
  <2>3. len \in Nat
    BY StreamAssumption DEF Lengths
  <2>4. FlagFits(Placed(h), h) /\ LengthFits(Placed(h), h, len)
    BY DEF Accepted
  <2>5. Placed(h).pkt_num >= 0
    BY <2>2 DEF Streams
  <2> QED BY <2>2, <2>3, <2>4, <2>5, AcceptedFits
<1> QED BY <1>1, StreamType, PTL

-----------------------------------------------------------------------------
\* How far the camera is ahead of the stream: what stream_process will call
\* lost when the next packet arrives.
Ahead == (cam.seq - strm.seq) % SeqMod

\* While the stream is in step, sequence numbers cannot have come round, and
\* the place it is at is that of the camera, less the packets it missed.
InStep ==
  strm.synced =>
    /\ Ahead <= gap + 1
    /\ strm.pkt_num < pkts_per_frame
    /\ Ahead <= MaxLost =>
         strm.pkt_num + Ahead \in {cam.pos, cam.pos + pkts_per_frame}

PlaceInv == TypeOK /\ gap <= MaxGap /\ InStep

\* Subtraction of sequence numbers, and counting one up, as eight bits do
LEMMA SeqArith ==
  ASSUME NEW a \in 0 .. SeqMod - 1, NEW b \in 0 .. SeqMod - 1
  PROVE  /\ (a - b) % SeqMod = IF a >= b THEN a - b ELSE a - b + SeqMod
         /\ (a + 1) % SeqMod = IF a + 1 = SeqMod THEN 0 ELSE a + 1
<1> DEFINE M == SeqMod
<1>1. M \in Nat \ {0}
  BY StreamAssumption
<1>2. ASSUME NEW x \in 0 .. M - 1 PROVE x % M = x
  BY <1>1, <1>2
<1>3. ASSUME NEW x \in -(M - 1) .. -1 PROVE x % M = x + M
  BY <1>1, <1>3
<1>4. M % M = 0
  BY <1>1
<1> HIDE DEF M
<1>5. (a - b) % M = IF a >= b THEN a - b ELSE a - b + M
  <2> a \in 0 .. M - 1 /\ b \in 0 .. M - 1
    BY DEF M
  <2>1. CASE a >= b
    <3>1. a - b \in 0 .. M - 1
      BY <1>1, <2>1
    <3> QED BY <3>1, <1>2, <2>1
  <2>2. CASE ~(a >= b)
    <3>1. a - b \in -(M - 1) .. -1
      BY <1>1, <2>2
    <3> QED BY <3>1, <1>3, <2>2
  <2> QED BY <2>1, <2>2
<1>6. (a + 1) % M = IF a + 1 = M THEN 0 ELSE a + 1
  <2> a \in 0 .. M - 1
    BY DEF M
  <2>1. CASE a + 1 = M
    BY <1>4, <2>1
  <2>2. CASE a + 1 # M
    <3>1. a + 1 \in 0 .. M - 1
      BY <1>1, <2>2
    <3> QED BY <3>1, <1>2, <2>2
  <2> QED BY <2>1, <2>2
<1> QED BY <1>5, <1>6 DEF M

\* The first packet of a frame, to a stream that is out of step
LEMMA FreshStart ==
  ASSUME PlaceInv, Considered(Sent), ~strm.synced
  PROVE  /\ ~TooManyLost(Sync(strm, Sent), Sent) /\ ~Cut(Sent)
         /\ cam.pos = 0
         /\ Placed(Sent) = [strm EXCEPT !.synced = TRUE, !.seq = cam.seq,
                              !.pkt_num = 0, !.valid_pkts = 0, !.got_pkts = 0]
<1>1. strm \in Streams /\ cam.seq \in 0 .. SeqMod - 1 /\ Sent.seq = cam.seq
      /\ cam.pos \in 0 .. pkts_per_frame - 1
  BY DEF PlaceInv, TypeOK, Sent, Slots
<1>2. cam.pos = 0
  BY <1>1 DEF Considered, Sent, FlagAt
<1> DEFINE s == [strm EXCEPT !.synced = TRUE, !.seq = cam.seq,
                   !.pkt_num = 0, !.valid_pkts = 0, !.got_pkts = 0]
<1>3. Sync(strm, Sent) = s
  BY <1>1 DEF Sync
<1>4. s.seq = cam.seq /\ s.pkt_num = 0 /\ s \in Streams
  BY <1>1 DEF Streams
<1>5. Lost(s, Sent) = 0
  BY <1>1, <1>4, SeqArith DEF Lost
<1>6. ~TooManyLost(s, Sent) /\ ~Overrun(s, Sent)
  BY <1>5, StreamAssumption DEF TooManyLost, Overrun
<1> HIDE DEF s
<1>7. Skip(s, Sent) = s
  <2>1. Skip(s, Sent) = [s EXCEPT !.seq = cam.seq, !.pkt_num = s.pkt_num + 0]
    BY <1>1, <1>4, <1>5, <1>6 DEF Skip
  <2>2. s.pkt_num + 0 = s.pkt_num /\ s.seq = cam.seq
    BY <1>4
  <2> QED BY <1>4, <2>1, <2>2 DEF Streams
<1> QED BY <1>2, <1>3, <1>6, <1>7 DEF Cut, Placed, s

\* A packet to a stream that is in step, and not too late for it
LEMMA InStepPlaced ==
  ASSUME PlaceInv, strm.synced, ~TooManyLost(Sync(strm, Sent), Sent)
  PROVE  /\ Ahead \in 0 .. MaxLost
         /\ Cut(Sent) =>
              /\ strm.pkt_num + Ahead = cam.pos + pkts_per_frame
              /\ Placed(Sent) =
                   [strm EXCEPT !.seq = cam.seq, !.pkt_num = cam.pos,
                      !.valid_pkts = strm.got_pkts, !.got_pkts = 0,
                      !.timestamp = strm.last_timestamp]
         /\ ~Cut(Sent) =>
              /\ strm.pkt_num + Ahead = cam.pos
              /\ Placed(Sent) = [strm EXCEPT !.seq = cam.seq,
                                             !.pkt_num = cam.pos]
<1> USE PlaceAssumption, PacketsFill
<1>1. cam.pos \in 0 .. pkts_per_frame - 1 /\ Sent.seq = cam.seq
      /\ strm \in Streams /\ cam.seq \in 0 .. SeqMod - 1
  BY DEF PlaceInv, TypeOK, Slots, Sent
<1>2. Sync(strm, Sent) = strm /\ Lost(strm, Sent) = Ahead
  BY <1>1 DEF Sync, Lost, Ahead
<1>3. Ahead \in 0 .. MaxLost
  BY <1>1, <1>2, StreamAssumption, SeqArith DEF TooManyLost, Streams, Ahead
<1>4. strm.pkt_num + Ahead \in {cam.pos, cam.pos + pkts_per_frame}
      /\ strm.pkt_num \in 0 .. pkts_per_frame - 1
  BY <1>1, <1>3 DEF PlaceInv, InStep, Streams
<1>5. CASE Overrun(strm, Sent)
  <2>1. pkts_per_frame - strm.pkt_num <= Ahead
    BY <1>2, <1>5 DEF Overrun, Left
  <2>2. Ahead - (pkts_per_frame - strm.pkt_num) = cam.pos
        /\ strm.pkt_num + Ahead = cam.pos + pkts_per_frame
    BY <1>1, <1>3, <1>4, <2>1
  <2> QED BY <1>1, <1>2, <1>3, <1>5, <2>2 DEF Placed, Skip, Left, Cut
<1>6. CASE ~Overrun(strm, Sent)
  <2>1. Ahead = 0 \/ pkts_per_frame - strm.pkt_num > Ahead
    BY <1>1, <1>2, <1>3, <1>4, <1>6 DEF Overrun, Left
  <2>2. strm.pkt_num + Ahead = cam.pos
    BY <1>1, <1>3, <1>4, <2>1
  <2> QED BY <1>1, <1>2, <1>3, <1>6, <2>2 DEF Placed, Skip, Cut, Streams
<1> QED BY <1>5, <1>6

\* In step or not: a packet of the camera that is not too late for it is
\* counted to its own place, and to its own sequence number.
LEMMA PlacedIsPos ==
  ASSUME PlaceInv, Considered(Sent), ~TooManyLost(Sync(strm, Sent), Sent)
  PROVE  /\ Placed(Sent).pkt_num = cam.pos
         /\ Placed(Sent).seq = cam.seq
         /\ Placed(Sent).synced
<1>1. strm \in Streams
  BY DEF PlaceInv, TypeOK
<1>2. CASE ~strm.synced
  BY <1>1, <1>2, FreshStart DEF Streams
<1>3. CASE strm.synced
  BY <1>1, <1>3, InStepPlaced DEF Streams
<1> QED BY <1>2, <1>3

\* A stream that is one packet behind the camera, at its place
LEMMA OneBehind ==
  ASSUME TypeOK, CameraMoves, gap' = 0,
         strm'.seq = cam.seq, strm'.pkt_num = cam.pos
  PROVE  InStep' /\ Ahead' = 1
<1> USE PlaceAssumption, StreamAssumption, PacketsFill
<1>1. cam.seq \in 0 .. SeqMod - 1 /\ cam.pos \in 0 .. pkts_per_frame - 1
  BY DEF TypeOK, Slots
<1>2. cam'.seq = IF cam.seq + 1 = SeqMod THEN 0 ELSE cam.seq + 1
  BY <1>1, SeqArith DEF CameraMoves
<1>3. cam'.pos = IF cam.pos = pkts_per_frame - 1 THEN 0 ELSE cam.pos + 1
  BY DEF CameraMoves
<1>4. Ahead' = (cam'.seq - strm'.seq) % SeqMod
  BY DEF Ahead
<1>5. Ahead' = 1
  BY <1>1, <1>2, <1>4, SeqArith
<1>6. strm'.pkt_num + 1 \in {cam'.pos, cam'.pos + pkts_per_frame}
  BY <1>1, <1>3
<1> QED BY <1>1, <1>5, <1>6 DEF InStep

\* A stream that has copied the packet the camera sent last
LEMMA NotBehind ==
  ASSUME TypeOK, CameraMoves, gap' = 0,
         strm'.seq = (cam.seq + 1) % SeqMod, strm'.pkt_num = cam'.pos
  PROVE  InStep' /\ Ahead' = 0
<1> USE PlaceAssumption, StreamAssumption, PacketsFill
<1>1. cam'.seq = strm'.seq /\ cam'.seq \in 0 .. SeqMod - 1
      /\ cam'.pos \in 0 .. pkts_per_frame - 1
  BY CameraType DEF CameraMoves, Slots
<1>2. Ahead' = 0
  BY <1>1, SeqArith DEF Ahead
<1> QED BY <1>1, <1>2 DEF InStep

\* One call of stream_process keeps the stream in step, or gives it up.
LEMMA ProcessInStep ==
  ASSUME PlaceInv, CameraMoves, gap' = 0, NEW len, Process(Sent, len)
  PROVE  InStep'
<1> DEFINE s == Placed(Sent)
<1>1. TypeOK /\ Sent \in Packets /\ strm \in Streams /\ s \in Streams
      /\ Sync(strm, Sent) \in Streams
      /\ cam.pos \in 0 .. pkts_per_frame - 1
  BY CameraType, PlacedType, SyncType DEF PlaceInv, TypeOK, Slots
<1>2. CASE ~Considered(Sent) /\ Ignore
  BY <1>2 DEF Considered, Ignore, InStep
<1>3. CASE strm' \in {Resync(s), Resync(Sync(strm, Sent))}
  BY <1>1, <1>3 DEF Resync, InStep, Streams
<1>4. CASE /\ Considered(Sent) /\ ~TooManyLost(Sync(strm, Sent), Sent)
           /\ strm' = s
  BY <1>1, <1>4, PlacedIsPos, OneBehind
<1>5. CASE /\ Accepted(Sent, len)
           /\ strm' = IF Sent.flag = "eof" THEN Finished(Copied(s, Sent))
                                           ELSE Copied(s, Sent)
  <2>1. s.pkt_num = cam.pos /\ s.seq = cam.seq
    BY <1>5, PlacedIsPos DEF Accepted
  <2>2. Sent.flag = "eof" <=> cam.pos = pkts_per_frame - 1
    BY <1>1, PlaceAssumption, PacketsFill DEF Sent, FlagAt
  <2>3. Copied(s, Sent).seq = (cam.seq + 1) % SeqMod
        /\ Copied(s, Sent).pkt_num = cam.pos + 1
        /\ Copied(s, Sent) \in Streams
    BY <1>1, <2>1, CopiedType DEF Copied, Streams
  <2>4. strm'.seq = (cam.seq + 1) % SeqMod
        /\ strm'.pkt_num = IF cam.pos = pkts_per_frame - 1 THEN 0
                           ELSE cam.pos + 1
    BY <1>5, <2>2, <2>3 DEF Finished, Streams
  <2>5. cam'.pos = IF cam.pos = pkts_per_frame - 1 THEN 0 ELSE cam.pos + 1
    BY DEF CameraMoves
  <2> QED BY <1>1, <2>4, <2>5, NotBehind
<1>6. CASE /\ Considered(Sent) /\ ~TooManyLost(Sync(strm, Sent), Sent)
           /\ strm' = IF variable_length THEN Resync(s) ELSE s
  BY <1>3, <1>4, <1>6
<1> HIDE DEF s
<1> QED BY Zenon, <1>2, <1>3, <1>5, <1>6 DEF Process, s

\* Every packet that is lost puts a stream in step one further behind.
LEMMA FurtherBehind ==
  ASSUME PlaceInv, Lose, strm.synced
  PROVE  Ahead' = Ahead + 1 /\ Ahead \in Nat
<1> USE StreamAssumption, PlaceAssumption
<1>1. /\ strm' = strm /\ gap < MaxGap /\ CameraMoves /\ gap \in Nat
      /\ cam.seq \in 0 .. SeqMod - 1 /\ strm.seq \in 0 .. SeqMod - 1
      /\ Ahead <= gap + 1
  BY DEF Lose, Ignore, PlaceInv, TypeOK, Streams, InStep
<1>2. cam'.seq = IF cam.seq + 1 = SeqMod THEN 0 ELSE cam.seq + 1
  BY <1>1, SeqArith DEF CameraMoves
<1>3. Ahead = IF cam.seq >= strm.seq THEN cam.seq - strm.seq
              ELSE cam.seq - strm.seq + SeqMod
  BY <1>1, SeqArith DEF Ahead
<1>4. Ahead' = IF cam'.seq >= strm.seq THEN cam'.seq - strm.seq
               ELSE cam'.seq - strm.seq + SeqMod
  <2>1. cam'.seq \in 0 .. SeqMod - 1 /\ strm'.seq = strm.seq
    BY <1>1, <1>2
  <2>2. Ahead' = (cam'.seq - strm.seq) % SeqMod
    BY <2>1 DEF Ahead
  <2> QED BY <1>1, <2>1, <2>2, SeqArith
<1> QED BY <1>1, <1>2, <1>3, <1>4

\* Every packet, loss, start and stop keeps the stream in step, or not synced.
LEMMA PlaceStep == PlaceInv /\ [Next]_vars => PlaceInv'
<1> SUFFICES ASSUME PlaceInv, [Next]_vars PROVE PlaceInv'
  OBVIOUS
<1> USE StreamAssumption, PlaceAssumption
<1>1. TypeOK'
  BY TypeStep DEF PlaceInv
<1>2. CASE Arrive
  BY <1>1, <1>2, ProcessInStep DEF Arrive, PlaceInv
<1>3. CASE ArriveCut
  BY <1>1, <1>3, ProcessInStep DEF ArriveCut, PlaceInv
<1>4. CASE Lose
  <2>1. gap' <= MaxGap
    BY <1>4 DEF Lose, PlaceInv, TypeOK
  <2>2. InStep'
    <3> SUFFICES ASSUME strm'.synced PROVE InStep'
      BY DEF InStep
    <3>1. strm' = strm /\ gap' = gap + 1 /\ gap \in Nat /\ CameraMoves
          /\ strm.synced
      BY <1>4 DEF Lose, Ignore, PlaceInv, TypeOK
    <3>2. /\ Ahead <= gap + 1 /\ strm.pkt_num < pkts_per_frame
          /\ Ahead <= MaxLost =>
               strm.pkt_num + Ahead \in {cam.pos, cam.pos + pkts_per_frame}
      BY <3>1 DEF PlaceInv, InStep
    <3>3. Ahead' = Ahead + 1 /\ Ahead \in Nat
      BY <1>4, <3>1, FurtherBehind
    <3>4. /\ cam'.pos = IF cam.pos = pkts_per_frame - 1 THEN 0
                        ELSE cam.pos + 1
          /\ cam.pos \in 0 .. pkts_per_frame - 1 /\ strm.pkt_num \in Nat
      BY <3>1 DEF CameraMoves, PlaceInv, TypeOK, Slots, Streams
    <3>5. Ahead' <= MaxLost =>
            strm.pkt_num + Ahead' \in {cam'.pos, cam'.pos + pkts_per_frame}
      BY <3>2, <3>3, <3>4, PacketsFill
    <3> QED BY <3>1, <3>2, <3>3, <3>5 DEF InStep
  <2> QED BY <1>1, <2>1, <2>2 DEF PlaceInv
<1>5. CASE Start
  <2>1. PICK split \in BOOLEAN :
          strm' = [strm EXCEPT !.synced = FALSE, !.split_bufs = split]
    BY <1>5 DEF Start
  <2>2. ~strm'.synced /\ gap' = 0
    BY <1>5, <2>1 DEF Start, PlaceInv, TypeOK, Streams
  <2> QED BY <1>1, <2>2 DEF PlaceInv, InStep
<1>6. CASE Stop \/ UNCHANGED vars
  BY <1>1, <1>6 DEF Stop, vars, PlaceInv, InStep, Ahead
<1> QED BY <1>2, <1>3, <1>4, <1>5, <1>6 DEF Next

\* However many packets get lost, cut off or spoiled, and wherever the stream
\* starts: a packet that stream_process copies goes to the place in raw_buf
\* that the camera took it from, as long as the sequence numbers of a gap do
\* not come round.
THEOREM PlaceCorrect == Spec => []PlacedRight
<1>1. Init => PlaceInv
  BY InitType, StreamAssumption DEF Init, PlaceInv, InStep
<1>2. PlaceInv => PlacedRight
  BY PlacedIsPos DEF PlacedRight, Accepted
<1> QED BY <1>1, <1>2, PlaceStep, PTL DEF Spec

-----------------------------------------------------------------------------
\* The places of a buffer that hold a packet of frame f
Of(buf, f) == {k \in Slots : buf[k] = f}

\* What a buffer holds of frame f when got packets of it were counted, all of
\* them before place n: each of them, or each but the first, which revealed
\* the end of the frame before and went to the buffer of that frame.
Gathered(buf, f, got, n, split) ==
  got > 0 =>
    /\ Of(buf, f) \subseteq 0 .. n - 1
    /\ \/ got = Cardinality(Of(buf, f))
       \/ /\ ~split /\ got = Cardinality(Of(buf, f)) + 1
          /\ \E p \in (0 .. n - 1) \ Of(buf, f) : \A k \in Of(buf, f) : p < k

\* FrameHonest, of any frame that is delivered
HonestFrame(d, split) ==
  /\ d.valid_pkts = pkts_per_frame =>
       \A k \in Slots : d.data[k] = d.timestamp \/ (~split /\ k = 0)
  /\ Cardinality({k \in Slots : d.data[k] > d.timestamp}) <= 1
  /\ d.valid_pkts > 0 =>
       d.valid_pkts - Cardinality(Of(d.data, d.timestamp))
         \in 0 .. (IF split THEN 1 ELSE 2)

\* A frame has finitely many places, and so has every part of it.
LEMMA PlacesFinite ==
  /\ IsFiniteSet(Slots) /\ Cardinality(Slots) = pkts_per_frame
  /\ \A T \in SUBSET Slots : IsFiniteSet(T) /\ Cardinality(T) \in Nat
<1>1. IsFiniteSet(Slots) /\ Cardinality(Slots) = pkts_per_frame
  BY PacketsFill, FS_Interval DEF Slots
<1>2. ASSUME NEW T \in SUBSET Slots
      PROVE  IsFiniteSet(T) /\ Cardinality(T) \in Nat
  BY <1>1, FS_Subset, FS_CardinalityType
<1> QED BY <1>1, <1>2

\* The packets that are counted came from places before the next one.
LEMMA GatheredBound ==
  ASSUME NEW buf, NEW f, NEW got \in Nat, NEW n \in 0 .. pkts_per_frame,
         NEW split, Gathered(buf, f, got, n, split)
  PROVE  got <= n
<1> SUFFICES ASSUME got > 0 PROVE got <= n
  OBVIOUS
<1> DEFINE mine == Of(buf, f)
<1>1. mine \subseteq 0 .. n - 1 /\ mine \in SUBSET Slots
  BY DEF Gathered, Of
<1>2. IsFiniteSet(0 .. n - 1) /\ Cardinality(0 .. n - 1) = n
  <2>1. n \in Nat /\ n - 1 \in Int /\ 0 \in Int
    BY PacketsFill
  <2>2. /\ IsFiniteSet(0 .. n - 1)
        /\ Cardinality(0 .. n - 1) = IF 0 > n - 1 THEN 0 ELSE n - 1 - 0 + 1
    BY <2>1, FS_Interval
  <2> QED BY <2>1, <2>2
<1>3. IsFiniteSet(mine) /\ Cardinality(mine) \in Nat
      /\ Cardinality(mine) <= n
  BY <1>1, <1>2, PlacesFinite, FS_Subset
<1>4. CASE got = Cardinality(mine)
  BY <1>3, <1>4
<1>5. CASE got = Cardinality(mine) + 1 /\ \E p \in (0 .. n - 1) : p \notin mine
  <2>1. PICK p \in 0 .. n - 1 : p \notin mine
    BY <1>5
  <2>2. mine \cup {p} \in SUBSET (0 .. n - 1)
    BY <1>1, <2>1
  <2>3. Cardinality(mine \cup {p}) = Cardinality(mine) + 1
    BY <1>3, <2>1, FS_AddElement
  <2>4. Cardinality(mine \cup {p}) <= n
    BY <1>2, <2>2, FS_Subset
  <2> QED BY <1>3, <1>5, <2>3, <2>4
<1> QED BY <1>4, <1>5 DEF Gathered

\* Places that are skipped change nothing.
LEMMA GatheredWider ==
  ASSUME NEW buf, NEW f, NEW got \in Nat, NEW n \in Nat, NEW m \in Nat,
         NEW split, n <= m, Gathered(buf, f, got, n, split)
  PROVE  Gathered(buf, f, got, m, split)
<1>1. 0 .. n - 1 \subseteq 0 .. m - 1
  OBVIOUS
<1> QED BY <1>1 DEF Gathered

\* The next packet of the frame is copied to a place that has none of it.
LEMMA GatheredMore ==
  ASSUME NEW buf \in Buffers, NEW f \in Nat, NEW got \in Nat \ {0},
         NEW n \in Slots, NEW split, Gathered(buf, f, got, n, split)
  PROVE  Gathered([buf EXCEPT ![n] = f], f, got + 1, n + 1, split)
<1> DEFINE new  == [buf EXCEPT ![n] = f]
           mine == Of(buf, f)
<1> SUFFICES Gathered(new, f, got + 1, n + 1, split)
  OBVIOUS
<1>1. n \in Nat /\ mine \in SUBSET Slots /\ mine \subseteq 0 .. n - 1
      /\ n \notin mine
  BY DEF Gathered, Of, Slots
<1>2. Of(new, f) = mine \cup {n}
  BY DEF Of, Buffers
<1>3. IsFiniteSet(mine) /\ Cardinality(mine) \in Nat
  BY <1>1, PlacesFinite
<1>4. Cardinality(Of(new, f)) = Cardinality(mine) + 1
  BY <1>1, <1>2, <1>3, FS_AddElement
<1> HIDE DEF new
<1>5. Of(new, f) \subseteq 0 .. (n + 1) - 1
  <2>1. 0 .. (n + 1) - 1 = 0 .. n
    BY <1>1
  <2>2. mine \subseteq 0 .. n
    BY <1>1
  <2> HIDE DEF mine
  <2> QED BY <1>1, <1>2, <2>1, <2>2
<1>6. CASE got = Cardinality(mine)
  BY <1>4, <1>5, <1>6 DEF Gathered
<1>7. CASE /\ ~split /\ got = Cardinality(mine) + 1
           /\ \E p \in (0 .. n - 1) \ mine : \A k \in mine : p < k
  <2>1. PICK p \in (0 .. n - 1) \ mine : \A k \in mine : p < k
    BY <1>7
  <2> HIDE DEF mine
  <2>2. p \in (0 .. (n + 1) - 1) \ Of(new, f)
    <3>1. p \in 0 .. n - 1 /\ p \notin mine
      BY <2>1
    <3>2. p # n /\ p \in 0 .. (n + 1) - 1
      BY <1>1, <3>1
    <3> QED BY <1>2, <3>1, <3>2
  <2>3. \A k \in Of(new, f) : p < k
    <3>1. p < n
      BY <1>1, <2>1
    <3> QED BY <1>2, <2>1, <3>1
  <2>4. got + 1 = Cardinality(Of(new, f)) + 1
    BY <1>3, <1>4, <1>7
  <2>5. \E q \in (0 .. (n + 1) - 1) \ Of(new, f) : \A k \in Of(new, f) : q < k
    BY <2>2, <2>3
  <2> QED BY <1>5, <1>7, <2>4, <2>5 DEF Gathered
<1> QED BY <1>6, <1>7 DEF Gathered

\* The first packet of a frame is copied to a buffer of older frames.
LEMMA GatheredFirst ==
  ASSUME NEW buf \in Buffers, NEW f \in Nat, \A k \in Slots : buf[k] < f,
         NEW n \in Slots, NEW split
  PROVE  Gathered([buf EXCEPT ![n] = f], f, 1, n + 1, split)
<1>1. Of([buf EXCEPT ![n] = f], f) = {n}
  BY DEF Of, Buffers
<1>2. n \in 0 .. (n + 1) - 1
  BY DEF Slots
<1>3. Cardinality({n}) = 1 /\ {n} \subseteq 0 .. (n + 1) - 1
  BY <1>2, FS_Singleton
<1> QED BY <1>1, <1>3 DEF Gathered

\* Or it is in the buffer that the callback has taken away.
LEMMA GatheredElsewhere ==
  ASSUME NEW buf \in Buffers, NEW f \in Nat, \A k \in Slots : buf[k] < f,
         NEW n \in Slots, NEW split, ~split
  PROVE  Gathered(buf, f, 1, n + 1, split)
<1>1. Of(buf, f) = {}
  BY DEF Of, Buffers
<1>2. Cardinality({}) = 0 /\ n \in (0 .. (n + 1) - 1) \ {}
  BY FS_EmptySet DEF Slots
<1> QED BY <1>1, <1>2 DEF Gathered

\* A buffer handed over at the end of its frame is honest.
LEMMA WholeHonest ==
  ASSUME NEW buf \in Buffers, NEW f \in Nat, NEW got \in Nat, NEW split,
         \A k \in Slots : buf[k] <= f,
         Gathered(buf, f, got, pkts_per_frame, split)
  PROVE  HonestFrame([data |-> buf, timestamp |-> f, valid_pkts |-> got],
                     split)
<1> DEFINE mine == Of(buf, f)
           N    == pkts_per_frame
<1>1. mine \in SUBSET Slots /\ IsFiniteSet(mine) /\ Cardinality(mine) \in Nat
      /\ N \in Nat \ {0}
  BY PlacesFinite, PacketsFill DEF Of
<1>2. {k \in Slots : buf[k] > f} = {}
  BY DEF Buffers
<1>3. Cardinality({}) <= 1
  BY FS_EmptySet
<1>4. ASSUME got > 0
      PROVE  got - Cardinality(mine) \in 0 .. (IF split THEN 1 ELSE 2)
  BY <1>1, <1>4 DEF Gathered
<1>5. ASSUME got = N, NEW k \in Slots
      PROVE  buf[k] = f \/ (~split /\ k = 0)
  <2>1. CASE got = Cardinality(mine)
    <3>1. mine = Slots
      BY <1>1, <1>5, <2>1, PlacesFinite, FS_Subset
    <3> QED BY <3>1 DEF Of
  <2>2. CASE /\ ~split /\ got = Cardinality(mine) + 1
             /\ \E p \in (0 .. N - 1) \ mine : \A l \in mine : p < l
    <3>1. PICK p \in (0 .. N - 1) \ mine : \A l \in mine : p < l
      BY <2>2
    <3>2. p \in Slots /\ 0 \in Slots /\ Slots \subseteq Nat
      BY <1>1, <3>1 DEF Slots
    <3>3. Cardinality(mine \cup {p}) = N
      BY <1>1, <1>5, <2>2, <3>1, FS_AddElement
    <3>4. mine \cup {p} = Slots
      <4>1. mine \cup {p} \in SUBSET Slots
        BY <1>1, <3>2
      <4> QED BY <3>3, <4>1, PlacesFinite, FS_Subset
    <3>5. p = 0
      BY <3>1, <3>2, <3>4
    <3> QED BY <2>2, <3>4, <3>5 DEF Of
  <2> QED BY <1>1, <1>5, <2>1, <2>2 DEF Gathered
<1> HIDE DEF mine, N
<1> QED BY <1>2, <1>3, <1>4, <1>5 DEF HonestFrame, mine, N

\* So is one that holds, besides, the packet that revealed its end.
LEMMA CutHonest ==
  ASSUME NEW buf \in Buffers, NEW f \in Nat, NEW got \in Nat, NEW split,
         \A k \in Slots : buf[k] <= f, NEW g \in Nat, f < g, NEW n \in Slots,
         Gathered(buf, f, got, pkts_per_frame - 1, split)
  PROVE  HonestFrame([data |-> [buf EXCEPT ![n] = g], timestamp |-> f,
                      valid_pkts |-> got], split)
<1> DEFINE mine == Of(buf, f)
           N    == pkts_per_frame
           new  == [buf EXCEPT ![n] = g]
<1> SUFFICES HonestFrame([data |-> new, timestamp |-> f, valid_pkts |-> got],
                         split)
  OBVIOUS
<1>1. mine \in SUBSET Slots /\ IsFiniteSet(mine) /\ Cardinality(mine) \in Nat
      /\ N \in Nat \ {0}
  BY PlacesFinite, PacketsFill DEF Of
<1>2. got # N
  <2>1. N - 1 \in 0 .. N
    BY <1>1
  <2>2. got <= N - 1
    BY <2>1, GatheredBound
  <2> QED BY <1>1, <2>2
<1>3. {k \in Slots : new[k] > f} = {n} /\ Cardinality({n}) = 1
  <2>1. new[n] = g /\ \A k \in Slots \ {n} : new[k] = buf[k] /\ buf[k] \in Nat
    BY DEF Buffers
  <2>2. \A k \in Slots : new[k] > f <=> k = n
    BY <2>1
  <2> QED BY <2>2, FS_Singleton
<1>4. Of(new, f) = mine \ {n}
  BY DEF Of, Buffers
<1>5. Cardinality(Of(new, f)) \in {Cardinality(mine), Cardinality(mine) - 1}
  BY <1>1, <1>4, FS_RemoveElement
<1>6. ASSUME got > 0
      PROVE  got - Cardinality(Of(new, f)) \in 0 .. (IF split THEN 1 ELSE 2)
  <2>1. \/ got = Cardinality(mine)
        \/ ~split /\ got = Cardinality(mine) + 1
    BY <1>6 DEF Gathered
  <2> HIDE DEF mine, new
  <2> QED BY <1>1, <1>5, <2>1
<1> DEFINE d == [data |-> new, timestamp |-> f, valid_pkts |-> got]
<1>7. d.data = new /\ d.timestamp = f /\ d.valid_pkts = got
  OBVIOUS
<1> HIDE DEF new, d
<1>8. d.valid_pkts # pkts_per_frame
  BY <1>2, <1>7
<1>9. Cardinality({k \in Slots : d.data[k] > d.timestamp}) <= 1
  <2>1. {k \in Slots : d.data[k] > d.timestamp} = {n}
    BY <1>3, <1>7
  <2>2. Cardinality({n}) = 1 /\ 1 <= 1
    BY <1>3
  <2> QED BY Zenon, <2>1, <2>2
<1> QED BY <1>6, <1>7, <1>8, <1>9 DEF HonestFrame, d

-----------------------------------------------------------------------------
\* Nothing in either buffer is newer than the last packet that was copied,
\* and the camera's next packet is.
Newest ==
  /\ \A k \in Slots : /\ raw[k] <= strm.last_timestamp
                      /\ spare[k] <= strm.last_timestamp
  /\ \/ strm.last_timestamp < cam.frame
     \/ /\ strm.last_timestamp = cam.frame
        /\ cam.pos > 0 /\ cam.frame <= MaxFrames

\* The frame that a stream in step puts together: the camera's, or the one
\* before if its end has got lost.
FrameInWork == IF strm.pkt_num + Ahead = cam.pos THEN cam.frame
                                                 ELSE cam.frame - 1

\* The last packet copied is of that frame if any was counted, or else older.
Current ==
  strm.synced /\ Ahead <= MaxLost =>
    IF strm.got_pkts > 0 THEN strm.last_timestamp = FrameInWork
                         ELSE strm.last_timestamp < FrameInWork

\* What was counted is in the buffer.
Counted ==
  strm.synced => Gathered(raw, strm.last_timestamp, strm.got_pkts,
                          strm.pkt_num, strm.split_bufs)

HonestInv ==
  /\ PlaceInv /\ Newest /\ Current /\ Counted
  /\ HonestFrame(delivered, strm.split_bufs)

\* The stream just before it copies a packet: what it has counted is of the
\* frame of that packet, unless the packet reveals the end of another, which
\* then is ready for the callback.
LEMMA BeforeCopy ==
  ASSUME HonestInv, Considered(Sent), ~TooManyLost(Sync(strm, Sent), Sent),
         NEW s, s = Placed(Sent)
  PROVE  /\ s \in Streams /\ s.synced /\ s.pkt_num = cam.pos
         /\ s.seq = cam.seq
         /\ s.split_bufs = strm.split_bufs
         /\ s.last_timestamp = strm.last_timestamp
         /\ ~Cut(Sent) =>
              /\ IF s.got_pkts > 0 THEN s.last_timestamp = cam.frame
                                   ELSE s.last_timestamp < cam.frame
              /\ Gathered(raw, s.last_timestamp, s.got_pkts, cam.pos,
                          s.split_bufs)
         /\ Cut(Sent) =>
              /\ s.got_pkts = 0 /\ s.last_timestamp < cam.frame
              /\ s.timestamp = s.last_timestamp
              /\ Gathered(raw, s.last_timestamp, s.valid_pkts,
                          pkts_per_frame - 1, s.split_bufs)
<1> USE PlaceAssumption, PacketsFill
<1>1. /\ PlaceInv /\ strm \in Streams /\ s \in Streams
      /\ cam.pos \in 0 .. pkts_per_frame - 1 /\ cam.frame \in Nat
      /\ s.pkt_num = cam.pos /\ s.seq = cam.seq /\ s.synced
  BY CameraType, PlacedType, PlacedIsPos
     DEF HonestInv, PlaceInv, TypeOK, Slots
<1>2. CASE ~strm.synced
  <2>1. /\ ~Cut(Sent) /\ cam.pos = 0
        /\ s = [strm EXCEPT !.synced = TRUE, !.seq = cam.seq,
                  !.pkt_num = 0, !.valid_pkts = 0, !.got_pkts = 0]
    BY <1>1, <1>2, FreshStart
  <2>2. s.got_pkts = 0 /\ s.split_bufs = strm.split_bufs
        /\ s.last_timestamp = strm.last_timestamp
    BY <1>1, <2>1 DEF Streams
  <2>3. strm.last_timestamp < cam.frame
    BY <2>1 DEF HonestInv, Newest
  <2> QED BY <1>1, <2>1, <2>2, <2>3 DEF Gathered
<1>3. CASE strm.synced /\ Cut(Sent)
  <2>1. /\ Ahead \in 0 .. MaxLost
        /\ strm.pkt_num + Ahead = cam.pos + pkts_per_frame
        /\ s = [strm EXCEPT !.seq = cam.seq, !.pkt_num = cam.pos,
                  !.valid_pkts = strm.got_pkts, !.got_pkts = 0,
                  !.timestamp = strm.last_timestamp]
    BY <1>1, <1>3, InStepPlaced
  <2>2. /\ s.got_pkts = 0 /\ s.split_bufs = strm.split_bufs
        /\ s.last_timestamp = strm.last_timestamp
        /\ s.timestamp = strm.last_timestamp
        /\ s.valid_pkts = strm.got_pkts
    BY <1>1, <2>1 DEF Streams
  <2>3. FrameInWork = cam.frame - 1
    BY <1>1, <2>1 DEF FrameInWork
  <2>4. strm.last_timestamp < cam.frame
    BY <1>1, <1>3, <2>1, <2>3, StreamAssumption
       DEF HonestInv, Current, Streams
  <2>5. strm.pkt_num <= pkts_per_frame - 1 /\ strm.pkt_num \in Nat
        /\ strm.got_pkts \in Nat /\ pkts_per_frame - 1 \in Nat
    BY <1>1, <1>3 DEF PlaceInv, InStep, Streams
  <2>6. Gathered(raw, strm.last_timestamp, strm.got_pkts, strm.pkt_num,
                 strm.split_bufs)
    BY <1>3 DEF HonestInv, Counted
  <2>7. Gathered(raw, strm.last_timestamp, strm.got_pkts,
                 pkts_per_frame - 1, strm.split_bufs)
    BY <2>5, <2>6, GatheredWider
  <2> QED BY <1>1, <1>3, <2>2, <2>4, <2>7
<1>4. CASE strm.synced /\ ~Cut(Sent)
  <2>1. /\ Ahead \in 0 .. MaxLost /\ strm.pkt_num + Ahead = cam.pos
        /\ s = [strm EXCEPT !.seq = cam.seq, !.pkt_num = cam.pos]
    BY <1>1, <1>4, InStepPlaced
  <2>2. /\ s.got_pkts = strm.got_pkts /\ s.split_bufs = strm.split_bufs
        /\ s.last_timestamp = strm.last_timestamp
    BY <1>1, <2>1 DEF Streams
  <2>3. FrameInWork = cam.frame
    BY <2>1 DEF FrameInWork
  <2>4. IF strm.got_pkts > 0 THEN strm.last_timestamp = cam.frame
                             ELSE strm.last_timestamp < cam.frame
    BY <1>4, <2>1, <2>3, StreamAssumption DEF HonestInv, Current
  <2>5. strm.pkt_num \in Nat /\ strm.pkt_num <= cam.pos
        /\ strm.got_pkts \in Nat /\ cam.pos \in Nat
    BY <1>1, <2>1, StreamAssumption DEF Streams
  <2>6. Gathered(raw, strm.last_timestamp, strm.got_pkts, strm.pkt_num,
                 strm.split_bufs)
    BY <1>4 DEF HonestInv, Counted
  <2>7. Gathered(raw, strm.last_timestamp, strm.got_pkts, cam.pos,
                 strm.split_bufs)
    BY <2>5, <2>6, GatheredWider
  <2> QED BY <1>1, <1>4, <2>2, <2>4, <2>7
<1> QED BY <1>2, <1>3, <1>4

\* After it has sent a packet of frame f or older, what the camera sends next
\* is another one.
LEMMA CameraOn ==
  ASSUME TypeOK, CameraMoves, NEW f \in Nat, f <= cam.frame
  PROVE  \/ f < cam'.frame
         \/ f = cam'.frame /\ cam'.pos > 0 /\ cam'.frame <= MaxFrames
BY StreamAssumption, PacketsFill DEF TypeOK, Slots, CameraMoves

\* A packet that is not looked at, or that gives the frame up
LEMMA AfterDrop ==
  ASSUME HonestInv, CameraMoves, PlaceInv', ~strm'.synced,
         strm'.last_timestamp = strm.last_timestamp,
         strm'.split_bufs = strm.split_bufs,
         UNCHANGED <<raw, spare, delivered>>
  PROVE  HonestInv'
<1>1. strm.last_timestamp \in Nat /\ cam.frame \in Nat
      /\ strm.last_timestamp <= cam.frame /\ TypeOK
  BY DEF HonestInv, PlaceInv, TypeOK, Streams, Newest
<1>2. Newest'
  <2>1. \/ strm.last_timestamp < cam'.frame
        \/ /\ strm.last_timestamp = cam'.frame
           /\ cam'.pos > 0 /\ cam'.frame <= MaxFrames
    BY <1>1, CameraOn
  <2>2. \A k \in Slots : /\ raw[k] <= strm.last_timestamp
                         /\ spare[k] <= strm.last_timestamp
    BY DEF HonestInv, Newest
  <2> QED BY <2>1, <2>2 DEF Newest
<1>3. HonestFrame(delivered', strm'.split_bufs)
  BY DEF HonestInv
<1>4. Current' /\ Counted'
  BY DEF Current, Counted
<1> QED BY <1>2, <1>3, <1>4 DEF HonestInv

\* What the callback is given at the end of a frame, or not yet
LEMMA AfterDelivery ==
  ASSUME NEW s \in Streams, NEW buf \in Buffers, NEW finished,
         DeliverIf(finished, s, buf),
         finished => HonestFrame([data |-> buf, timestamp |-> s.timestamp,
                                  valid_pkts |-> s.valid_pkts], s.split_bufs),
         ~finished => HonestFrame(delivered, s.split_bufs)
  PROVE  HonestFrame(delivered', s.split_bufs)
BY DEF DeliverIf, Deliver

\* A packet of the wrong length, which is not copied: the stream stays one
\* behind the camera.
LEMMA AfterRefusal ==
  ASSUME HonestInv, CameraMoves, PlaceInv', gap' = 0, Considered(Sent),
         ~TooManyLost(Sync(strm, Sent), Sent),
         NEW s, s = Placed(Sent), strm' = s, DeliverIf(Cut(Sent), s, raw)
  PROVE  HonestInv'
<1> USE PlaceAssumption, PacketsFill
<1> DEFINE lt == strm.last_timestamp
<1>1. /\ TypeOK /\ raw \in Buffers /\ spare \in Buffers
      /\ cam.pos \in 0 .. pkts_per_frame - 1 /\ cam.frame \in Nat
      /\ lt \in Nat /\ lt <= cam.frame
  BY DEF HonestInv, PlaceInv, TypeOK, Slots, Streams, Newest
<1>2. /\ s \in Streams /\ s.synced /\ s.pkt_num = cam.pos
      /\ s.seq = cam.seq /\ s.split_bufs = strm.split_bufs
      /\ s.last_timestamp = lt
      /\ ~Cut(Sent) =>
           /\ IF s.got_pkts > 0 THEN lt = cam.frame ELSE lt < cam.frame
           /\ Gathered(raw, lt, s.got_pkts, cam.pos, s.split_bufs)
      /\ Cut(Sent) =>
           /\ s.got_pkts = 0 /\ lt < cam.frame /\ s.timestamp = lt
           /\ Gathered(raw, lt, s.valid_pkts, pkts_per_frame - 1,
                       s.split_bufs)
  BY BeforeCopy
<1>3. \A k \in Slots : raw[k] <= lt /\ spare[k] <= lt
  BY DEF HonestInv, Newest
<1> HIDE DEF lt
<1>4. Newest'
  <2>1. \/ lt < cam'.frame
        \/ lt = cam'.frame /\ cam'.pos > 0 /\ cam'.frame <= MaxFrames
    BY <1>1, CameraOn
  <2>2. \A k \in Slots : raw'[k] <= lt /\ spare'[k] <= lt
    BY <1>3 DEF DeliverIf, Deliver
  <2> QED BY <1>2, <2>1, <2>2 DEF Newest
<1>5. Current'
  <2>1. Ahead' = 1
    BY <1>1, <1>2, OneBehind
  <2>2. /\ cam'.frame = IF cam.pos = pkts_per_frame - 1 THEN cam.frame + 1
                                                        ELSE cam.frame
        /\ cam'.pos = IF cam.pos = pkts_per_frame - 1 THEN 0
                                                      ELSE cam.pos + 1
    BY DEF CameraMoves
  <2>3. FrameInWork' = IF cam.pos + 1 = cam'.pos THEN cam'.frame
                                                 ELSE cam'.frame - 1
    BY <1>2, <2>1 DEF FrameInWork
  <2>4. FrameInWork' = cam.frame
    BY <1>1, <2>2, <2>3
  <2> QED BY <1>2, <2>4 DEF Current
<1>6. Counted'
  <2>1. CASE Cut(Sent)
    BY <1>2, <2>1 DEF Counted, Gathered
  <2>2. CASE ~Cut(Sent)
    <3>1. raw' = raw
      BY <2>2 DEF DeliverIf
    <3> QED BY <1>2, <2>2, <3>1 DEF Counted
  <2> QED BY <2>1, <2>2
<1>7. HonestFrame(delivered', strm'.split_bufs)
  <2>1. ASSUME Cut(Sent)
        PROVE  HonestFrame([data |-> raw, timestamp |-> s.timestamp,
                            valid_pkts |-> s.valid_pkts], s.split_bufs)
    <3>1. s.valid_pkts \in Nat /\ pkts_per_frame - 1 \in Nat
          /\ pkts_per_frame \in Nat
      BY <1>2 DEF Streams
    <3>2. Gathered(raw, lt, s.valid_pkts, pkts_per_frame, s.split_bufs)
      BY <1>2, <2>1, <3>1, GatheredWider
    <3>3. HonestFrame([data |-> raw, timestamp |-> lt,
                       valid_pkts |-> s.valid_pkts], s.split_bufs)
      BY <1>1, <1>3, <3>1, <3>2, WholeHonest
    <3> QED BY <1>2, <2>1, <3>3
  <2>2. ASSUME ~Cut(Sent) PROVE HonestFrame(delivered, s.split_bufs)
    BY <1>2 DEF HonestInv
  <2> QED BY <1>1, <1>2, <2>1, <2>2, AfterDelivery
<1> QED BY <1>4, <1>5, <1>6, <1>7 DEF HonestInv

\* A packet that is copied: into the frame that is put together, or as the
\* first of the next, in the buffer of the one before or in its own.
LEMMA AfterCopy ==
  ASSUME HonestInv, CameraMoves, PlaceInv', gap' = 0, Considered(Sent),
         ~TooManyLost(Sync(strm, Sent), Sent),
         NEW s, s = Placed(Sent), NEW t, strm' = t,
         t = IF Sent.flag = "eof" THEN Finished(Copied(s, Sent))
                                  ELSE Copied(s, Sent),
         DeliverIf(Sent.flag = "eof" \/ Cut(Sent), t,
                   [raw EXCEPT ![s.pkt_num] = cam.frame])
  PROVE  HonestInv'
<1> USE PlaceAssumption, PacketsFill
<1> DEFINE lt    == strm.last_timestamp
           buf   == [raw EXCEPT ![cam.pos] = cam.frame]
           last  == cam.pos = pkts_per_frame - 1
<1>1. /\ TypeOK /\ raw \in Buffers /\ spare \in Buffers
      /\ cam.pos \in 0 .. pkts_per_frame - 1 /\ cam.pos \in Slots
      /\ cam.frame \in Nat /\ lt \in Nat /\ lt <= cam.frame
      /\ cam.seq \in 0 .. SeqMod - 1
  BY DEF HonestInv, PlaceInv, TypeOK, Slots, Streams, Newest
<1>2. /\ s \in Streams /\ s.synced /\ s.pkt_num = cam.pos
      /\ s.seq = cam.seq /\ s.split_bufs = strm.split_bufs
      /\ ~Cut(Sent) =>
           /\ IF s.got_pkts > 0 THEN lt = cam.frame ELSE lt < cam.frame
           /\ Gathered(raw, lt, s.got_pkts, cam.pos, s.split_bufs)
      /\ Cut(Sent) =>
           /\ s.got_pkts = 0 /\ lt < cam.frame /\ s.timestamp = lt
           /\ Gathered(raw, lt, s.valid_pkts, pkts_per_frame - 1,
                       s.split_bufs)
  BY BeforeCopy
<1>3. \A k \in Slots : raw[k] <= lt /\ spare[k] <= lt
  BY DEF HonestInv, Newest
<1> HIDE DEF lt
<1>4. /\ Sent.flag = "eof" <=> last
      /\ Sent.timestamp = cam.frame /\ Sent \in Packets
  BY <1>1, CameraType DEF Sent, FlagAt
<1> DEFINE c == Copied(s, Sent)
<1>5. /\ c \in Streams /\ c.pkt_num = cam.pos + 1 /\ c.synced
      /\ c.seq = (cam.seq + 1) % SeqMod /\ c.got_pkts = s.got_pkts + 1
      /\ c.last_timestamp = cam.frame /\ c.split_bufs = s.split_bufs
      /\ c.timestamp = s.timestamp /\ c.valid_pkts = s.valid_pkts
  <2>1. s \in Streams /\ Sent \in Packets /\ Sent.timestamp = cam.frame
        /\ s.synced /\ s.pkt_num = cam.pos /\ s.seq = cam.seq
    BY <1>2, <1>4
  <2>2. c \in Streams
    BY <2>1, CopiedType
  <2>3. QED
    BY <2>1, <2>2 DEF Copied, Streams
<1>6. t = IF last THEN Finished(c) ELSE c
  BY <1>4
<1> HIDE DEF c
<1>7. /\ t \in Streams /\ t.seq = (cam.seq + 1) % SeqMod
      /\ t.synced /\ t.split_bufs = s.split_bufs
      /\ t.last_timestamp = cam.frame
      /\ last => /\ t.pkt_num = 0 /\ t.got_pkts = 0
                 /\ t.timestamp = cam.frame
                 /\ t.valid_pkts = s.got_pkts + 1
      /\ ~last => /\ t.pkt_num = cam.pos + 1
                  /\ t.got_pkts = s.got_pkts + 1
                  /\ t.timestamp = s.timestamp
                  /\ t.valid_pkts = s.valid_pkts
  <2>1. CASE last
    <3>1. t = [c EXCEPT !.pkt_num = 0, !.valid_pkts = c.got_pkts,
                        !.got_pkts = 0, !.timestamp = c.last_timestamp]
      BY <1>6, <2>1 DEF Finished
    <3>2. t \in Streams
      BY <1>2, <1>4, <1>6, <2>1, CopiedType DEF c
    <3>3. /\ t.pkt_num = 0 /\ t.got_pkts = 0 /\ t.timestamp = c.last_timestamp
          /\ t.valid_pkts = c.got_pkts /\ t.seq = c.seq /\ t.synced = c.synced
          /\ t.split_bufs = c.split_bufs
          /\ t.last_timestamp = c.last_timestamp
      BY <1>5, <3>1 DEF Streams
    <3> HIDE DEF last
    <3> QED BY <1>5, <2>1, <3>2, <3>3
  <2>2. CASE ~last
    BY <1>5, <1>6, <2>2
  <2> QED BY <2>1, <2>2
<1>8. DeliverIf(last \/ Cut(Sent), t, buf)
  BY <1>2, <1>4
<1>9. buf \in Buffers /\ \A k \in Slots : buf[k] <= cam.frame
  BY <1>1, <1>3 DEF Buffers
<1>10. s.got_pkts \in Nat /\ s.valid_pkts \in Nat
  BY <1>2 DEF Streams
<1>11. ASSUME Cut(Sent) \/ s.got_pkts = 0
       PROVE  \A k \in Slots : raw[k] < cam.frame /\ spare[k] < cam.frame
  <2>1. lt < cam.frame
    BY <1>2, <1>11
  <2> QED BY <1>1, <1>3, <2>1 DEF Buffers
<1>12. Gathered(buf, cam.frame, s.got_pkts + 1, cam.pos + 1, s.split_bufs)
  <2>1. CASE s.got_pkts = 0
    <3>1. \A k \in Slots : raw[k] < cam.frame
      BY <1>11, <2>1
    <3>2. Gathered(buf, cam.frame, 1, cam.pos + 1, s.split_bufs)
      BY <1>1, <3>1, GatheredFirst
    <3> QED BY <2>1, <3>2
  <2>2. CASE s.got_pkts # 0
    <3>1. lt = cam.frame
          /\ Gathered(raw, lt, s.got_pkts, cam.pos, s.split_bufs)
      BY <1>2, <1>10, <2>2
    <3> QED BY <1>1, <1>10, <2>2, <3>1, GatheredMore
  <2> QED BY <2>1, <2>2
<1> HIDE DEF buf
<1>13. Newest'
  <2>1. \/ cam.frame < cam'.frame
        \/ cam.frame = cam'.frame /\ cam'.pos > 0 /\ cam'.frame <= MaxFrames
    BY <1>1, CameraOn
  <2>2. \A k \in Slots : spare[k] <= cam.frame
    BY <1>1, <1>3 DEF Buffers
  <2>3. \A k \in Slots : raw'[k] <= cam.frame /\ spare'[k] <= cam.frame
    BY <1>8, <1>9, <2>2 DEF DeliverIf, Deliver
  <2> QED BY <1>7, <2>1, <2>3 DEF Newest
<1>14. Current'
  <2>1. /\ cam'.frame = IF last THEN cam.frame + 1 ELSE cam.frame
        /\ cam'.pos = IF last THEN 0 ELSE cam.pos + 1
    BY DEF CameraMoves
  <2>2. strm'.pkt_num = cam'.pos
    BY <1>7, <2>1
  <2>3. Ahead' = 0
    BY <1>1, <1>7, <2>2, NotBehind
  <2>4. cam'.pos \in Int /\ FrameInWork' = cam'.frame
    BY <1>1, <2>1, <2>2, <2>3 DEF FrameInWork
  <2> QED BY <1>1, <1>7, <1>10, <2>1, <2>4 DEF Current
<1>15. Counted'
  <2>1. CASE last
    BY <1>7, <2>1 DEF Counted, Gathered
  <2>2. CASE ~last /\ (~Cut(Sent) \/ t.split_bufs)
    <3>1. raw' = buf
      BY <1>8, <2>2 DEF DeliverIf, Deliver
    <3> QED BY <1>7, <1>12, <2>2, <3>1 DEF Counted
  <2>3. CASE ~last /\ Cut(Sent) /\ ~t.split_bufs
    <3>1. raw' = spare
      BY <1>8, <2>3 DEF DeliverIf, Deliver
    <3>2. Gathered(spare, cam.frame, 1, cam.pos + 1, s.split_bufs)
      BY <1>1, <1>7, <1>11, <2>3, GatheredElsewhere
    <3>3. t.got_pkts = 1
      BY <1>2, <1>7, <2>3
    <3> QED BY <1>7, <2>3, <3>1, <3>2, <3>3 DEF Counted
  <2> QED BY <2>1, <2>2, <2>3
<1>16. HonestFrame(delivered', strm'.split_bufs)
  <2> DEFINE d == [data |-> buf, timestamp |-> t.timestamp,
                   valid_pkts |-> t.valid_pkts]
  <2>1. CASE last
    <3>1. cam.pos + 1 = pkts_per_frame /\ s.got_pkts + 1 \in Nat
      BY <1>10, <2>1
    <3>2. HonestFrame([data |-> buf, timestamp |-> cam.frame,
                       valid_pkts |-> s.got_pkts + 1], s.split_bufs)
      BY <1>1, <1>9, <1>12, <3>1, WholeHonest
    <3>3. HonestFrame(d, t.split_bufs)
      BY <1>7, <2>1, <3>2
    <3> QED BY <1>7, <1>8, <1>9, <2>1, <3>3, AfterDelivery
  <2>2. CASE ~last /\ Cut(Sent)
    <3>1. HonestFrame([data |-> buf, timestamp |-> lt,
                       valid_pkts |-> s.valid_pkts], s.split_bufs)
      BY <1>1, <1>2, <1>3, <1>10, <2>2, CutHonest DEF buf
    <3>2. HonestFrame(d, t.split_bufs)
      BY <1>2, <1>7, <2>2, <3>1
    <3> QED BY <1>7, <1>8, <1>9, <2>2, <3>2, AfterDelivery
  <2>3. CASE ~last /\ ~Cut(Sent)
    <3>1. HonestFrame(delivered, t.split_bufs)
      BY <1>2, <1>7 DEF HonestInv
    <3> QED BY <1>7, <1>8, <1>9, <2>3, <3>1, AfterDelivery
  <2> QED BY <2>1, <2>2, <2>3
<1> QED BY <1>13, <1>14, <1>15, <1>16 DEF HonestInv

\* What the header of the camera's packet says fits the place it came from.
LEMMA SentFits ==
  ASSUME TypeOK, NEW s, s.pkt_num = cam.pos
  PROVE  FlagFits(s, Sent)
BY PlaceAssumption, PacketsFill DEF TypeOK, Slots, Sent, FlagAt, FlagFits

\* One call of stream_process with a packet that has data
LEMMA ProcessHonest ==
  ASSUME HonestInv, CameraMoves, PlaceInv', gap' = 0, NEW len, len # 0,
         Process(Sent, len)
  PROVE  HonestInv'
<1> DEFINE s == Placed(Sent)
           t == IF Sent.flag = "eof" THEN Finished(Copied(s, Sent))
                                     ELSE Copied(s, Sent)
<1>1. TypeOK /\ strm \in Streams /\ PlaceInv
  BY DEF HonestInv, PlaceInv, TypeOK
<1>2. CASE ~Considered(Sent) /\ Ignore
  BY <1>2, AfterDrop DEF Considered, Ignore
<1>3. CASE /\ Considered(Sent) /\ TooManyLost(Sync(strm, Sent), Sent)
           /\ strm' = Resync(Sync(strm, Sent))
           /\ UNCHANGED <<raw, spare, delivered>>
  <2>1. strm.synced
    BY <1>1, <1>3, FreshStart
  <2>2. strm' = [strm EXCEPT !.synced = FALSE]
    BY <1>3, <2>1 DEF Sync, Resync
  <2> QED BY <1>1, <1>3, <2>2, AfterDrop DEF Streams
<1>4. CASE /\ Considered(Sent) /\ ~TooManyLost(Sync(strm, Sent), Sent)
           /\ ~FlagFits(s, Sent)
  BY <1>1, <1>4, PlacedIsPos, SentFits
<1>5. CASE /\ Considered(Sent) /\ ~TooManyLost(Sync(strm, Sent), Sent)
           /\ strm' = IF variable_length THEN Resync(s) ELSE s
           /\ DeliverIf(Cut(Sent), s, raw)
  <2>1. strm' = s
    BY <1>5, PlaceAssumption
  <2> HIDE DEF s
  <2>2. s = Placed(Sent)
    BY DEF s
  <2> QED BY <1>5, <2>1, <2>2, AfterRefusal
<1>6. CASE /\ Accepted(Sent, len)
           /\ strm' = t
           /\ DeliverIf(Sent.flag = "eof" \/ Cut(Sent), t,
                        IF len = 0 THEN raw
                        ELSE [raw EXCEPT ![s.pkt_num] = cam.frame])
  <2>1. Considered(Sent) /\ ~TooManyLost(Sync(strm, Sent), Sent)
    BY <1>6 DEF Accepted
  <2>2. DeliverIf(Sent.flag = "eof" \/ Cut(Sent), t,
                  [raw EXCEPT ![s.pkt_num] = cam.frame])
    BY <1>6
  <2>3. s = Placed(Sent)
        /\ t = IF Sent.flag = "eof" THEN Finished(Copied(s, Sent))
                                    ELSE Copied(s, Sent)
    OBVIOUS
  <2>4. strm' = t
    BY <1>6
  <2> HIDE DEF s, t
  <2> QED BY <2>1, <2>2, <2>3, <2>4, AfterCopy
<1> HIDE DEF s
<1> QED BY Zenon, <1>2, <1>3, <1>4, <1>5, <1>6 DEF Process, s

\* Every packet, loss, start and stop keeps what is known of the frames.
LEMMA HonestStep ==
  ASSUME ShortestCut > 0, HonestInv, [Next]_vars
  PROVE  HonestInv'
<1>1. PlaceInv' /\ PlaceInv /\ TypeOK /\ TypeOK'
  BY PlaceStep DEF HonestInv, PlaceInv
<1>2. CASE Arrive
  <2>1. SentLen # 0
    BY PacketsFill, StreamAssumption DEF SentLen
  <2> QED BY <1>1, <1>2, <2>1, ProcessHonest DEF Arrive
<1>3. CASE ArriveCut
  <2>1. PICK len \in Lengths : Process(Sent, len)
    BY <1>3 DEF ArriveCut
  <2>2. len # 0
    BY StreamAssumption DEF Lengths
  <2> QED BY <1>1, <1>3, <2>1, <2>2, ProcessHonest DEF ArriveCut
<1>4. CASE Lose
  <2>1. /\ strm' = strm /\ raw' = raw /\ spare' = spare
        /\ delivered' = delivered /\ CameraMoves
        /\ strm \in Streams /\ cam.pos \in 0 .. pkts_per_frame - 1
        /\ cam.frame \in Nat /\ strm.last_timestamp \in Nat
    BY <1>1, <1>4 DEF Lose, Ignore, TypeOK, Streams, Slots
  <2>2. Newest'
    <3>1. strm.last_timestamp <= cam.frame
      BY <2>1 DEF HonestInv, Newest
    <3>2. \/ strm.last_timestamp < cam'.frame
          \/ /\ strm.last_timestamp = cam'.frame
             /\ cam'.pos > 0 /\ cam'.frame <= MaxFrames
      BY <1>1, <2>1, <3>1, CameraOn
    <3> QED BY <2>1, <3>2 DEF HonestInv, Newest
  <2>3. Current'
    <3> SUFFICES ASSUME strm.synced, Ahead' <= MaxLost PROVE Current'
      BY <2>1 DEF Current
    <3>1. Ahead' = Ahead + 1 /\ Ahead \in Nat /\ MaxLost \in Nat
          /\ MaxLost < pkts_per_frame
      BY <1>1, <1>4, FurtherBehind, StreamAssumption, PlaceAssumption
    <3>2. /\ strm.pkt_num < pkts_per_frame /\ strm.pkt_num \in Nat
          /\ strm.pkt_num + Ahead \in {cam.pos, cam.pos + pkts_per_frame}
      <4>1. Ahead <= MaxLost
        BY <3>1
      <4> QED BY <1>1, <2>1, <4>1 DEF PlaceInv, InStep, Streams
    <3>3. /\ cam'.frame = IF cam.pos = pkts_per_frame - 1 THEN cam.frame + 1
                                                          ELSE cam.frame
          /\ cam'.pos = IF cam.pos = pkts_per_frame - 1 THEN 0
                                                        ELSE cam.pos + 1
      BY <2>1 DEF CameraMoves
    <3>4. FrameInWork' = IF strm.pkt_num + (Ahead + 1) = cam'.pos
                         THEN cam'.frame ELSE cam'.frame - 1
      BY <2>1, <3>1 DEF FrameInWork
    <3>5. FrameInWork' = FrameInWork
      BY <2>1, <3>1, <3>2, <3>3, <3>4, PacketsFill DEF FrameInWork
    <3>6. IF strm.got_pkts > 0 THEN strm.last_timestamp = FrameInWork
                               ELSE strm.last_timestamp < FrameInWork
      BY <3>1 DEF HonestInv, Current
    <3> QED BY <2>1, <3>5, <3>6 DEF Current
  <2> QED BY <1>1, <2>1, <2>2, <2>3 DEF HonestInv, Counted
<1>5. CASE Start
  <2>1. PICK split \in BOOLEAN :
          strm' = [strm EXCEPT !.synced = FALSE, !.split_bufs = split]
    BY <1>5 DEF Start
  <2>2. ~strm'.synced /\ strm'.last_timestamp = strm.last_timestamp
    BY <1>1, <2>1 DEF TypeOK, Streams
  <2>3. /\ cam'.frame = IF cam.frame > MaxFrames THEN cam.frame
                        ELSE cam.frame + 1
        /\ spare' = spare /\ raw' \in {Empty, raw} /\ delivered' = NoFrame
        /\ cam.frame \in Nat /\ strm.last_timestamp \in Nat
    BY <1>1, <1>5 DEF Start, TypeOK, Streams
  <2>4. strm.last_timestamp < cam'.frame
    BY <2>3, StreamAssumption DEF HonestInv, Newest
  <2>5. \A k \in Slots : raw'[k] <= strm.last_timestamp
    BY <2>3 DEF HonestInv, Newest, Empty
  <2>6. Newest'
    BY <2>2, <2>3, <2>4, <2>5 DEF HonestInv, Newest
  <2>7. HonestFrame(NoFrame, strm'.split_bufs)
    <3>1. {k \in Slots : NoFrame.data[k] > NoFrame.timestamp} = {}
      BY DEF NoFrame, Empty
    <3>2. Cardinality({}) <= 1
      BY FS_EmptySet
    <3>3. NoFrame.valid_pkts = 0 /\ 0 # pkts_per_frame
      BY PacketsFill DEF NoFrame
    <3> QED BY <3>1, <3>2, <3>3 DEF HonestFrame
  <2> QED BY <1>1, <2>2, <2>3, <2>6, <2>7 DEF HonestInv, Current, Counted
<1>6. CASE Stop \/ UNCHANGED vars
  <2>1. UNCHANGED <<strm, raw, spare, delivered, cam>>
    BY <1>6 DEF Stop, vars
  <2>2. Ahead' = Ahead /\ FrameInWork' = FrameInWork
    BY <2>1 DEF Ahead, FrameInWork
  <2> QED BY <1>1, <2>1, <2>2 DEF HonestInv, Newest, Current, Counted
<1> QED BY <1>2, <1>3, <1>4, <1>5, <1>6 DEF Next

\* What depth_process and video_process say of a frame is so, whatever was
\* lost, cut off or started again before, when every packet brings data: a
\* packet that is only a header is counted, though it brings nothing.
THEOREM FramesHonest == ASSUME ShortestCut > 0 PROVE Spec => []FrameHonest
<1>1. Init => HonestInv
  <2> SUFFICES ASSUME Init PROVE HonestInv
    OBVIOUS
  <2>1. PlaceInv /\ ~strm.synced
    BY InitType, StreamAssumption DEF Init, PlaceInv, InStep
  <2>2. Newest
    BY DEF Init, Newest, Empty
  <2>3. HonestFrame(delivered, strm.split_bufs)
    <3>1. {k \in Slots : NoFrame.data[k] > NoFrame.timestamp} = {}
      BY DEF NoFrame, Empty
    <3>2. Cardinality({}) <= 1
      BY FS_EmptySet
    <3>3. NoFrame.valid_pkts = 0 /\ 0 # pkts_per_frame
      BY PacketsFill DEF NoFrame
    <3>4. HonestFrame(NoFrame, strm.split_bufs)
      BY <3>1, <3>2, <3>3 DEF HonestFrame
    <3> QED BY <3>4 DEF Init
  <2> QED BY <2>1, <2>2, <2>3 DEF HonestInv, Current, Counted
<1>2. HonestInv => FrameHonest
  BY DEF HonestInv, PlaceInv, HonestFrame, Of, FrameHonest, WholeIsPure,
         AtMostOneNewer, CountHonest
<1>3. HonestInv /\ [Next]_vars => HonestInv'
  BY HonestStep
<1> QED BY <1>1, <1>2, <1>3, PTL DEF Spec

-----------------------------------------------------------------------------
\* After a whole packet a stream is out of step or level with the camera, and
\* after a whole frame and a beginning of the next it has that beginning.
Level ==
  clean > 0 /\ strm.synced =>
    /\ Ahead = 0 /\ strm.pkt_num = cam.pos
    /\ cam.pos = 0 => strm.got_pkts = 0

Caught ==
  cam.pos > 0 /\ clean >= pkts_per_frame + cam.pos =>
    strm.synced /\ strm.got_pkts = cam.pos

RecoverInv == PlaceInv /\ Level /\ Caught /\ RecoversInAFrame

\* Of a frame after a whole one, all packets so far are counted.
LEMMA CountedAll ==
  ASSUME RecoverInv, Considered(Sent), ~TooManyLost(Sync(strm, Sent), Sent),
         clean >= pkts_per_frame + cam.pos
  PROVE  Placed(Sent).got_pkts = cam.pos
<1>1. /\ PlaceInv /\ strm \in Streams /\ cam.pos \in 0 .. pkts_per_frame - 1
      /\ clean \in Nat /\ clean > 0 /\ pkts_per_frame \in Nat \ {0}
  BY PacketsFill DEF RecoverInv, PlaceInv, TypeOK, Slots
<1>2. CASE ~strm.synced
  BY <1>1, <1>2, FreshStart DEF Streams
<1>3. CASE strm.synced
  <2>1. Ahead = 0 /\ strm.pkt_num = cam.pos /\ strm.got_pkts = cam.pos
    BY <1>1, <1>3 DEF RecoverInv, Level, Caught
  <2>2. ~Cut(Sent)
    BY <1>1, <1>3, <2>1, InStepPlaced
  <2>3. Placed(Sent) = [strm EXCEPT !.seq = cam.seq, !.pkt_num = cam.pos]
    BY <1>1, <1>3, <2>2, InStepPlaced
  <2> QED BY <1>1, <2>1, <2>3 DEF Streams
<1> QED BY <1>2, <1>3

\* A whole packet fits its place.
LEMMA SentLenFits ==
  ASSUME TypeOK, NEW s, s.pkt_num = cam.pos
  PROVE  LengthFits(s, Sent, SentLen)
BY PlaceAssumption, PacketsFill, StreamAssumption
   DEF LengthFits, ExpectedSize, SentLen

\* A packet that arrives whole
LEMMA ArriveRecovers ==
  ASSUME RecoverInv, Arrive, PlaceInv'
  PROVE  RecoverInv'
<1> USE PlaceAssumption, PacketsFill
<1> DEFINE s    == Placed(Sent)
           N    == pkts_per_frame
           last == cam.pos = N - 1
           t    == IF Sent.flag = "eof" THEN Finished(Copied(s, Sent))
                                        ELSE Copied(s, Sent)
<1>1. /\ TypeOK /\ PlaceInv /\ strm \in Streams /\ s \in Streams
      /\ cam.pos \in 0 .. N - 1 /\ cam.frame \in Nat /\ clean \in Nat
      /\ cam.seq \in 0 .. SeqMod - 1 /\ N \in Nat /\ N > 1
  BY CameraType, PlacedType DEF RecoverInv, PlaceInv, TypeOK, Slots
<1>2. /\ cam'.frame = IF last THEN cam.frame + 1 ELSE cam.frame
      /\ cam'.pos = IF last THEN 0 ELSE cam.pos + 1
      /\ clean' = IF clean < 2 * N THEN clean + 1 ELSE clean
      /\ CameraMoves /\ gap' = 0 /\ Process(Sent, SentLen)
  BY DEF Arrive, CameraMoves
<1>3. /\ cam'.pos > 0 /\ clean' >= N + cam'.pos =>
           ~last /\ clean >= N + cam.pos
      /\ cam'.pos = 0 /\ clean' = 2 * N => last /\ clean >= N + cam.pos
  BY <1>1, <1>2
<1>4. CASE ~strm'.synced /\ ~(clean >= N + cam.pos)
  BY <1>1, <1>3, <1>4 DEF RecoverInv, Level, Caught, RecoversInAFrame
<1>5. CASE ~Considered(Sent) /\ Ignore
  <2>1. ~strm'.synced /\ cam.pos > 0 /\ ~strm.synced
    BY <1>1, <1>5 DEF Considered, Ignore, Sent, FlagAt
  <2>2. ~(clean >= N + cam.pos)
    BY <2>1 DEF RecoverInv, Caught
  <2> QED BY <1>4, <2>1, <2>2
<1>6. CASE /\ Considered(Sent) /\ TooManyLost(Sync(strm, Sent), Sent)
           /\ strm' = Resync(Sync(strm, Sent))
  <2>1. strm.synced /\ strm' = [strm EXCEPT !.synced = FALSE]
    BY <1>1, <1>6, FreshStart DEF Sync, Resync
  <2>2. Ahead # 0
    BY <1>6, <2>1, StreamAssumption DEF TooManyLost, Sync, Lost, Ahead, Sent
  <2>3. ~(clean > 0)
    BY <2>1, <2>2 DEF RecoverInv, Level
  <2>4. ~strm'.synced
    BY <1>1, <2>1 DEF Streams
  <2> QED BY <1>1, <1>4, <2>3, <2>4
<1>7. CASE /\ Considered(Sent) /\ ~TooManyLost(Sync(strm, Sent), Sent)
           /\ ~(FlagFits(s, Sent) /\ LengthFits(s, Sent, SentLen))
  BY <1>1, <1>7, PlacedIsPos, SentFits, SentLenFits
<1>8. CASE /\ Accepted(Sent, SentLen)
           /\ strm' = t
           /\ DeliverIf(Sent.flag = "eof" \/ Cut(Sent), t,
                        IF SentLen = 0 THEN raw
                        ELSE [raw EXCEPT ![s.pkt_num] = cam.frame])
  <2>1. /\ Considered(Sent) /\ ~TooManyLost(Sync(strm, Sent), Sent)
        /\ s.pkt_num = cam.pos /\ s.seq = cam.seq /\ s.synced
    BY <1>1, <1>8, PlacedIsPos DEF Accepted
  <2>2. /\ Sent.flag = "eof" <=> last
        /\ Sent.timestamp = cam.frame /\ Sent \in Packets
    BY <1>1, CameraType DEF Sent, FlagAt
  <2> DEFINE c == Copied(s, Sent)
  <2>3. /\ c \in Streams /\ c.pkt_num = cam.pos + 1 /\ c.synced
        /\ c.seq = (cam.seq + 1) % SeqMod /\ c.got_pkts = s.got_pkts + 1
        /\ c.last_timestamp = cam.frame
    BY <1>1, <2>1, <2>2, CopiedType DEF Copied, Streams
  <2>4. strm' = IF last THEN Finished(c) ELSE c
    BY <1>8, <2>2
  <2> HIDE DEF c, s, t
  <2>5. ASSUME last
        PROVE  /\ strm'.pkt_num = 0 /\ strm'.got_pkts = 0 /\ strm'.synced
               /\ strm'.seq = (cam.seq + 1) % SeqMod
               /\ strm'.timestamp = cam.frame
               /\ strm'.valid_pkts = s.got_pkts + 1
    BY <2>3, <2>4, <2>5 DEF Finished, Streams
  <2>6. ASSUME ~last
        PROVE  /\ strm'.pkt_num = cam.pos + 1 /\ strm'.synced
               /\ strm'.seq = (cam.seq + 1) % SeqMod
               /\ strm'.got_pkts = s.got_pkts + 1
    BY <2>3, <2>4, <2>6
  <2>7. Ahead' = 0 /\ strm'.pkt_num = cam'.pos
    BY <1>1, <1>2, <2>5, <2>6, NotBehind
  <2>8. Level'
    BY <1>1, <1>2, <2>5, <2>7 DEF Level
  <2>9. clean >= N + cam.pos => s.got_pkts = cam.pos
    BY <2>1, CountedAll DEF RecoverInv, s
  <2>10. Caught'
    BY <1>1, <1>2, <1>3, <2>6, <2>9 DEF Caught
  <2>11. RecoversInAFrame'
    <3> SUFFICES ASSUME clean' = 2 * N, cam'.pos = 0
                 PROVE  /\ delivered'.timestamp = cam'.frame - 1
                        /\ delivered'.valid_pkts = N
      BY DEF RecoversInAFrame
    <3>1. last /\ s.got_pkts = cam.pos
      BY <1>3, <2>9
    <3>2. delivered'.timestamp = strm'.timestamp
          /\ delivered'.valid_pkts = strm'.valid_pkts
      BY <1>8, <2>2, <3>1 DEF DeliverIf, Deliver
    <3> QED BY <1>1, <1>2, <2>5, <3>1, <3>2
  <2> QED BY <2>8, <2>10, <2>11 DEF RecoverInv
<1> HIDE DEF s
<1> QED BY Zenon, <1>2, <1>5, <1>6, <1>7, <1>8 DEF Process, s

\* Whatever was lost before, the second of two undamaged frames is handed to
\* the callback, and all its packets are counted: neither a stream that is
\* out of step nor one that believes in a gap takes longer.
THEOREM RecoversSoon == Spec => []RecoversInAFrame
<1> USE PlaceAssumption, PacketsFill
<1>1. Init => RecoverInv
  BY InitType, StreamAssumption
     DEF Init, RecoverInv, PlaceInv, InStep, Level, Caught, RecoversInAFrame
<1>2. ASSUME RecoverInv, [Next]_vars PROVE RecoverInv'
  <2>1. PlaceInv' /\ PlaceInv /\ TypeOK'
    BY <1>2, PlaceStep DEF RecoverInv, PlaceInv
  <2>2. CASE Arrive
    BY <1>2, <2>1, <2>2, ArriveRecovers
  <2>3. CASE ArriveCut \/ Lose \/ Start
    <3>1. clean' = 0 /\ cam'.pos \in Nat
      <4>1. cam'.pos \in Nat
        BY <2>1 DEF TypeOK, Slots
      <4> QED BY <2>3, <4>1 DEF ArriveCut, Lose, Start
    <3> QED BY <2>1, <3>1
            DEF RecoverInv, Level, Caught, RecoversInAFrame
  <2>4. CASE Stop \/ UNCHANGED vars
    <3>1. UNCHANGED <<strm, delivered, cam, clean>>
      BY <2>4 DEF Stop, vars
    <3>2. Ahead' = Ahead
      BY <3>1 DEF Ahead
    <3> QED BY <1>2, <2>1, <3>1, <3>2
            DEF RecoverInv, Level, Caught, RecoversInAFrame
  <2> QED BY <1>2, <2>2, <2>3, <2>4 DEF Next
<1>3. RecoverInv => RecoversInAFrame
  BY DEF RecoverInv
<1> QED BY <1>1, <1>2, <1>3, PTL DEF Spec
=============================================================================
