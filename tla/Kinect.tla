------------------------------- MODULE Kinect -------------------------------
(***************************************************************************)
(* A context of libfreenect and its Kinects (core.c, usb_libusb10.c,       *)
(* cameras.c): devices that are opened, made to stream, and closed, by one *)
(* thread. Starting and stopping a stream is a conversation with the       *)
(* camera: each register is written with a command that carries a tag, and *)
(* the reply is polled for. While the thread waits for a reply, libusb     *)
(* hands the packets of the streams on to it.                              *)
(*                                                                         *)
(* The camera carries out the commands it gets in their order and replies  *)
(* to each; a transfer to or from it may fail.                             *)
(***************************************************************************)
EXTENDS Integers, Sequences, FiniteSets, SequencesExt

CONSTANTS
  Devs,      \* freenect_device structures, small numbers
  Tags,      \* cam_tag is counted modulo this (2^16)
  Labs       \* what is on the bus, what the program asks for, and how much fails

Streams == {"depth", "video"}
Kinds == {"camera", "motor"}
NULL == "null"

VARIABLES
  lab,       \* the member of Labs this behaviour is about
  list,      \* ctx->first and the devices after it
  sub,       \* [Devs -> [Kinds -> the place on the bus of usb_cam.dev and usb_motor.dev, 0: NULL]]
  handles,   \* open libusb handles: <<place on the bus, device that opened it>>
  cam_tag,
  strm,      \* [Devs -> [Streams -> packet_stream, with its format]]
  stage, call,  \* where the thread is, and in which call
  todo,      \* the registers the call has yet to write
  camera,    \* [places -> the camera there]
  lost, faults  \* transfers that have failed

device == <<lab, list, sub, handles, cam_tag, strm, stage, call, todo, camera, lost, faults>>

\* What the constants must be (assumed where this is instantiated)
KinectAssumption ==
  /\ Devs \subseteq Nat \ {0} /\ Tags \in Nat \ {0, 1}
  /\ \A l \in Labs : /\ l.bus \in Seq([kind : Kinds, kinect : Nat])
                     /\ DOMAIN l.formats \subseteq Streams /\ l.lost \in Nat /\ l.faults \in Nat

bus == lab.bus
Uses == DOMAIN lab.formats
Cameras == {i \in DOMAIN bus : bus[i].kind = "camera"}
Open == ToSet(list)
In(q, x) == \E i \in DOMAIN q : q[i] = x

\* libfreenect.h 55-82: freenect_video_format, freenect_depth_format
AllFormats ==
  [depth |-> {"11bit", "10bit", "11bit_packed", "10bit_packed"},
   video |-> {"rgb", "bayer", "ir_8bit", "ir_10bit", "ir_10bit_packed", "yuv_rgb", "yuv_raw"}]

\* freenect_internal.h 90-115: packet_stream
NewStream(f) == [running |-> FALSE, format |-> f, iso |-> FALSE, sized |-> NULL,
                 usr |-> NULL, lib |-> NULL, raw |-> NULL, proc |-> NULL]

FirstFormat == [depth |-> "11bit", video |-> "rgb"]

\* external: a camera at rest
NewCamera == [regs |-> [r \in {\h05, \h06, \h0c, \h12, \h47} |-> 0], asked |-> <<>>, replies |-> <<>>, missed |-> {}]

\* freenect/core.c 35-45: freenect_init
KinectInit ==
  /\ lab \in Labs
  /\ list = <<>> /\ handles = {}
  /\ sub = [d \in Devs |-> [k \in Kinds |-> 0]]
  /\ cam_tag = [d \in Devs |-> 0]
  /\ strm = [d \in Devs |-> [s \in Streams |-> NewStream(FirstFormat[s])]]
  /\ stage = "idle" /\ call = [op |-> "none"] /\ todo = <<>>
  /\ camera = [c \in Cameras |-> NewCamera]
  /\ lost = 0 /\ faults = 0

Goto(l) == stage' = l
Return == stage' = "idle" /\ call' = [op |-> "none"]

MayLose == lost < lab.lost /\ lost' = lost + 1 /\ UNCHANGED faults
MayFail == faults < lab.faults /\ faults' = faults + 1 /\ UNCHANGED lost
NoFault == UNCHANGED <<lost, faults>>

-----------------------------------------------------------------------------
\* freenect/core.c 64-86: freenect_num_devices
NumDevices == Cardinality(Cameras)

\* freenect/core.c 88-99: freenect_open_device, and fnusb_open_subdevices to its loop
OpenDevice(index) ==
  /\ stage = "idle" /\ Devs \ Open # {} /\ index <= NumDevices
  /\ LET d == CHOOSE x \in Devs \ Open : \A y \in Devs \ Open : x <= y
     IN /\ call' = [op |-> "open", dev |-> d, index |-> index, i |-> 1, seen |-> [k \in Kinds |-> 0]]
        /\ sub' = [sub EXCEPT ![d] = [k \in Kinds |-> 0]]
        /\ cam_tag' = [cam_tag EXCEPT ![d] = 0]
        /\ strm' = [strm EXCEPT ![d] = [s \in Streams |-> NewStream(FirstFormat[s])]]
  /\ Goto("scan")
  /\ UNCHANGED <<lab, list, handles, todo, camera, lost, faults>>

\* a mutated form: the handle is kept when the interface cannot be claimed
OpensFailKept(i, d) == handles' \in {handles, handles \cup {<<i, d>>}}

\* usb_libusb10.c 99-111: the ways out of fnusb_open_subdevices' loop
OpensFail(i, d) == handles' = handles

\* external: one process claims an interface through one handle only
Claimable(i) == \A h \in handles : h[1] # i

\* usb_libusb10.c 96-114: is this one of its kind before the one wanted
Passes(k, index) == call.seen[k] # index

\* usb_libusb10.c 87-138: one turn of fnusb_open_subdevices' loop
Scan ==
  /\ stage = "scan" /\ call.i <= Len(bus)
  /\ LET i == call.i  d == call.dev  k == bus[i].kind
         next == [call EXCEPT !.i = @ + 1]
     IN \/ /\ sub[d][k] # 0
           /\ call' = next /\ UNCHANGED <<stage, sub, handles>>
        \/ /\ sub[d][k] = 0 /\ Passes(k, call.index)
           /\ call' = [next EXCEPT !.seen[k] = @ + 1] /\ UNCHANGED <<stage, sub, handles>>
        \/ /\ sub[d][k] = 0 /\ ~Passes(k, call.index)
           /\ \/ /\ Claimable(i)
                 /\ sub' = [sub EXCEPT ![d][k] = i] /\ handles' = handles \cup {<<i, d>>}
                 /\ call' = next /\ UNCHANGED stage
              \/ /\ OpensFail(i, d)
                 /\ Goto("scanned") /\ UNCHANGED <<sub, call>>
  /\ UNCHANGED <<lab, list, cam_tag, strm, todo, camera, lost, faults>>

\* usb_libusb10.c 157-170: fnusb_close_subdevices
Released(d) == handles \ {<<sub[d][k], d>> : k \in Kinds}

\* freenect/core.c 99-117: the rest of freenect_open_device
Opened ==
  /\ stage = "scanned" \/ (stage = "scan" /\ call.i > Len(bus))
  /\ LET d == call.dev
     IN IF \A k \in Kinds : sub[d][k] # 0
        THEN list' = Append(list, d) /\ UNCHANGED <<sub, handles>>
        ELSE /\ handles' = Released(d) /\ sub' = [sub EXCEPT ![d] = [k \in Kinds |-> 0]]
             /\ UNCHANGED list
  /\ Return
  /\ UNCHANGED <<lab, cam_tag, strm, todo, camera, lost, faults>>

-----------------------------------------------------------------------------
\* cameras.c 658-671: the formats that are decoded from a buffer of their own
DepthSplit(f) == f \in {"11bit", "10bit"}

\* cameras.c 708-730: the formats that are decoded from a buffer of their own
VideoSplit(f) == f \in {"rgb", "ir_8bit", "ir_10bit", "yuv_rgb"}

\* cameras.c 195-203: split_bufs
Split(s, f) == IF s = "depth" THEN DepthSplit(f) ELSE VideoSplit(f)

\* cameras.c 182-209: stream_init
StreamInit(s, r) ==
  LET lib == IF r.usr # NULL THEN NULL ELSE "lib"
      proc == IF r.usr # NULL THEN r.usr ELSE lib
  IN [r EXCEPT !.lib = lib, !.proc = proc, !.sized = r.format,
               !.raw = IF Split(s, r.format) THEN "own" ELSE proc]

\* cameras.c 211-221: stream_freebufs
FreeBufs(r) == [r EXCEPT !.raw = NULL, !.proc = NULL, !.lib = NULL]

\* cameras.c 223-244: stream_setbuf
SetBuf(s, r, b) ==
  LET proc == IF b = NULL THEN r.lib ELSE b
  IN IF ~r.running THEN [r EXCEPT !.usr = b]
     ELSE IF b = NULL /\ r.lib = NULL THEN r
     ELSE [r EXCEPT !.usr = b, !.proc = proc, !.raw = IF Split(s, r.sized) THEN @ ELSE proc]

\* cameras.c 862-870: freenect_set_depth_buffer, freenect_set_video_buffer
SetBuffer(d, s, b) ==
  /\ stage = "idle" /\ In(list, d) /\ s \in Uses
  /\ strm' = [strm EXCEPT ![d][s] = SetBuf(s, @, b)]
  /\ UNCHANGED <<lab, list, sub, handles, cam_tag, stage, call, todo, camera, lost, faults>>

\* cameras.c 844-847: freenect_set_depth_format
MaySet(r) == ~r.running

\* cameras.c 817-860: freenect_set_video_format, freenect_set_depth_format
SetFormat(d, s, f) ==
  /\ stage = "idle" /\ In(list, d) /\ s \in Uses
  /\ MaySet(strm[d][s]) /\ f \in lab.formats[s]
  /\ strm' = [strm EXCEPT ![d][s].format = f]
  /\ UNCHANGED <<lab, list, sub, handles, cam_tag, stage, call, todo, camera, lost, faults>>

-----------------------------------------------------------------------------
\* cameras.c 774-774: the register that starts and stops a stream
Go(s) == IF s = "depth" THEN \h06 ELSE \h05
\* cameras.c 681-681: the register of a stream's format
ModeOf(s) == IF s = "depth" THEN \h12 ELSE \h0c

\* cameras.c 746-758: the value that starts a stream
GoValue(s, f) ==
  IF s = "depth" THEN 2 ELSE IF f \in {"rgb", "bayer", "yuv_rgb", "yuv_raw"} THEN 1 ELSE 3

\* cameras.c 678-687: the value that makes a camera send a format
ModeValue(s, f) ==
  CASE s = "depth" /\ f \in {"11bit", "11bit_packed"} -> 3
    [] s = "depth" /\ f \in {"10bit", "10bit_packed"} -> 2
    [] s = "video" /\ f \in {"yuv_rgb", "yuv_raw"} -> 5
    [] OTHER -> 0

\* cameras.c 677-760: what freenect_start_depth and freenect_start_video write; of the
\* registers that are always given the same values only the last of each is kept
StartWrites(s, f) ==
  <<<<Go(s), 0>>, <<ModeOf(s), ModeValue(s, f)>>, <<Go(s), GoValue(s, f)>>>>
  \o IF s = "video" THEN <<<<\h47, 0>>>> ELSE <<>>

\* cameras.c 774-795: what freenect_stop_depth and freenect_stop_video write
StopWrites(s) == <<<<Go(s), 0>>>>

Forget(d, s) == camera' = [camera EXCEPT ![sub[d]["camera"]].missed = @ \ {s}]

\* cameras.c 646-675: freenect_start_depth, freenect_start_video and fnusb_start_iso, which never fails
StartStream(d, s) ==
  /\ stage = "idle" /\ In(list, d) /\ s \in Uses /\ ~strm[d][s].running
  /\ strm' = [strm EXCEPT ![d][s] = [StreamInit(s, @) EXCEPT !.iso = TRUE]]
  /\ todo' = StartWrites(s, strm[d][s].format)
  /\ call' = [op |-> "start", dev |-> d, s |-> s]
  /\ Goto("send") /\ Forget(d, s)
  /\ UNCHANGED <<lab, list, sub, handles, cam_tag, lost, faults>>

\* cameras.c 692-763: the stream runs
StreamStarted ==
  /\ stage = "send" /\ todo = <<>> /\ call.op = "start"
  /\ strm' = [strm EXCEPT ![call.dev][call.s].running = TRUE]
  /\ Return
  /\ UNCHANGED <<lab, list, sub, handles, cam_tag, todo, camera, lost, faults>>

\* cameras.c 765-795: freenect_stop_depth and freenect_stop_video, to their write
StopFirst(d, s) ==
  /\ strm[d][s].running
  /\ strm' = [strm EXCEPT ![d][s].running = FALSE]
  /\ todo' = StopWrites(s) /\ Goto("send") /\ Forget(d, s)

\* cameras.c 765-773: freenect_stop_depth, freenect_stop_video
StopStream(d, s) ==
  /\ stage = "idle" /\ In(list, d)
  /\ StopFirst(d, s)
  /\ call' = [op |-> "stop", dev |-> d, s |-> s]
  /\ UNCHANGED <<lab, list, sub, handles, cam_tag, lost, faults>>

\* cameras.c 776-805: the stream's transfers are cancelled and its buffers freed
StreamStopped ==
  /\ stage = "send" /\ todo = <<>> /\ call.op # "start"
  /\ strm' = [strm EXCEPT ![call.dev][call.s] = [FreeBufs(@) EXCEPT !.iso = FALSE]]
  /\ IF call.op = "stop" THEN Return ELSE Goto("closing") /\ UNCHANGED call
  /\ UNCHANGED <<lab, list, sub, handles, cam_tag, todo, camera, lost, faults>>

-----------------------------------------------------------------------------
\* freenect/core.c 119-126: freenect_close_device, to freenect_stop_video
Close(d) ==
  /\ stage = "idle" /\ In(list, d)
  /\ call' = [op |-> "close", dev |-> d, s |-> "depth"] /\ Goto("closing")
  /\ UNCHANGED <<lab, list, sub, handles, cam_tag, strm, todo, camera, lost, faults>>

\* a mutated form: the video goes on
ClosingStopsDepth(s) == s = "depth"

\* freenect/core.c 125-126: the streams freenect_close_device stops
ClosingStops(s) == s \in Streams

\* freenect/core.c 125-126: freenect_close_device stops a stream
CloseStops(s) ==
  /\ stage = "closing" /\ ClosingStops(s)
  /\ s = "video" => ~strm[call.dev]["depth"].running
  /\ StopFirst(call.dev, s)
  /\ call' = [call EXCEPT !.s = s]
  /\ UNCHANGED <<lab, list, sub, handles, cam_tag, lost, faults>>

\* History: the age of a command and of its reply: "new", "past" if one sent after
\* it may have succeeded, "foreign" if the device has been opened anew.
Aged(q, a) == [i \in DOMAIN q |-> [q[i] EXCEPT !.age = IF @ = "new" \/ a = "foreign" THEN a ELSE @]]
AgedCamera(c, a) == [camera EXCEPT ![c].asked = Aged(@, a), ![c].replies = Aged(@, a)]

\* What is left of a device that is freed: its streams, if they were not stopped.
Freed(s, r) == [r EXCEPT !.format = FirstFormat[s], !.sized = NULL, !.usr = NULL]

\* freenect/core.c 128-154: the rest of freenect_close_device
Closed ==
  /\ stage = "closing"
  /\ \A s \in Streams : ClosingStops(s) => ~strm[call.dev][s].running
  /\ handles' = Released(call.dev)
  /\ sub' = [sub EXCEPT ![call.dev] = [k \in Kinds |-> 0]]
  /\ list' = RemoveFirst(list, call.dev)
  /\ strm' = [strm EXCEPT ![call.dev] = [s \in Streams |-> Freed(s, @[s])]]
  /\ cam_tag' = [cam_tag EXCEPT ![call.dev] = 0]
  /\ camera' = AgedCamera(sub[call.dev]["camera"], "foreign")
  /\ IF call.op = "close" THEN Return ELSE Goto("shutdown") /\ UNCHANGED call
  /\ UNCHANGED <<lab, todo, lost, faults>>

\* freenect/core.c 47-57: freenect_shutdown, and fnusb_shutdown
Shutdown ==
  /\ stage = "idle"
  /\ Goto("shutdown") /\ call' = [op |-> "shutdown"]
  /\ UNCHANGED <<lab, list, sub, handles, cam_tag, strm, todo, camera, lost, faults>>

\* freenect/core.c 49-56: the loop of freenect_shutdown
ShutdownNext ==
  /\ stage = "shutdown"
  /\ IF list = <<>> THEN Goto("gone") /\ UNCHANGED call
     ELSE /\ call' = [op |-> "shutdown", dev |-> Head(list), s |-> "depth"]
          /\ Goto("closing")
  /\ UNCHANGED <<lab, list, sub, handles, cam_tag, strm, todo, camera, lost, faults>>

-----------------------------------------------------------------------------
\* The camera the call talks to.
Talks == sub[call.dev]["camera"]

Asked(q, w, tag) == Append(q, [reg |-> w[1], val |-> w[2], tag |-> tag, age |-> "new"])

\* cameras.c 558-585: send_cmd, to the output transfer. One that fails may have reached the camera.
Send ==
  /\ stage = "send" /\ todo # <<>>
  /\ LET c == Talks
         told == [camera EXCEPT ![c].asked = Asked(@, Head(todo), cam_tag[call.dev])]
     IN \/ /\ camera' = told /\ Goto("poll") /\ NoFault /\ UNCHANGED todo
        \/ /\ camera' = told /\ todo' = Tail(todo) /\ MayFail /\ UNCHANGED stage
        \/ /\ camera' = [camera EXCEPT ![c].missed = @ \cup {call.s}]
           /\ todo' = Tail(todo) /\ MayLose /\ UNCHANGED stage
  /\ UNCHANGED <<lab, list, sub, handles, cam_tag, strm, call>>

\* external: the camera carries out a command and replies
Answer(c) ==
  /\ camera[c].asked # <<>>
  /\ LET w == Head(camera[c].asked)
     IN camera' = [camera EXCEPT ![c].asked = Tail(@), ![c].regs[w.reg] = w.val,
                                 ![c].replies = Append(@, [tag |-> w.tag, age |-> w.age])]
  /\ UNCHANGED <<lab, list, sub, handles, cam_tag, strm, stage, call, todo, lost, faults>>

\* cameras.c 621-621: cam_tag++
NextTag(t) == (t + 1) % Tags

\* a mutated form: any reply is the reply
FitsAny(tag, d) == TRUE

\* cameras.c 605-608: the reply's tag is compared
Fits(tag, d) == tag = cam_tag[d]


\* cameras.c 591-594: what a transfer that fails, or a reply too short, comes to
NotRead == todo' = Tail(todo) /\ Goto("send")

\* cameras.c 587-624: send_cmd, from its input transfer. None of the results makes a difference to
\* write_register's callers.
Poll ==
  /\ stage = "poll"
  /\ LET c == Talks  d == call.dev  q == camera[c].replies
     IN \/ /\ q # <<>> /\ Fits(Head(q).tag, d) /\ NoFault
           /\ cam_tag' = [cam_tag EXCEPT ![d] = NextTag(@)]
           /\ camera' = [AgedCamera(c, "past") EXCEPT ![c].replies = Tail(@)]
           /\ todo' = Tail(todo) /\ Goto("send")
        \/ /\ q # <<>> /\ ~Fits(Head(q).tag, d) /\ NoFault
           /\ camera' = [camera EXCEPT ![c].replies = Tail(q)]
           /\ todo' = Tail(todo) /\ Goto("send") /\ UNCHANGED cam_tag
        \/ /\ q # <<>> /\ MayFail
           /\ camera' = [camera EXCEPT ![c].replies = Tail(q)]
           /\ NotRead /\ UNCHANGED cam_tag
        \/ /\ MayFail /\ NotRead /\ UNCHANGED <<camera, cam_tag>>
  /\ UNCHANGED <<lab, list, sub, handles, strm, call>>

-----------------------------------------------------------------------------
Opens == Scan \/ Opened
Writes == Send \/ Poll \/ StreamStarted \/ StreamStopped
Closes == (\E s \in Streams : CloseStops(s)) \/ Closed \/ ShutdownNext

Calls ==
  \/ \E index \in 0 .. NumDevices : OpenDevice(index)
  \/ \E d \in Devs, s \in Streams : \/ StartStream(d, s) \/ StopStream(d, s)
                                    \/ \E f \in AllFormats[s] : SetFormat(d, s, f)
                                    \/ \E b \in {NULL, "user"} : SetBuffer(d, s, b)
  \/ \E d \in Devs : Close(d)
  \/ Shutdown

Answers == \E c \in Cameras : Answer(c)

KinectNext == Calls \/ Opens \/ Writes \/ Closes \/ Answers

\* The thread goes on with a call it has begun, and the camera answers.
KinectFairness == WF_device(Opens \/ Writes \/ Closes) /\ WF_device(Answers)

KinectSpec == KinectInit /\ [][KinectNext]_device /\ KinectFairness

-----------------------------------------------------------------------------
KinectTypeOK ==
  /\ lab \in Labs /\ Open \subseteq Devs /\ Len(list) = Cardinality(Open)
  /\ sub \in [Devs -> [Kinds -> 0 .. Len(bus)]] /\ handles \subseteq (DOMAIN bus) \X Devs
  /\ cam_tag \in [Devs -> 0 .. Tags - 1]
  /\ \A d \in Devs, s \in Streams : strm[d][s].format \in AllFormats[s]
  /\ stage \in {"idle", "scan", "scanned", "send", "poll", "closing", "shutdown", "gone"}

\* A handle is open exactly as long as a device of the context has it, no two
\* devices share one, and nothing is left open by an open that failed half way
\* or by the end of the context (fnusb_open_subdevices, fnusb_close_subdevices).
HandlesExact ==
  /\ stage \in {"idle", "gone"} => handles = {<<sub[d][k], d>> : d \in Open, k \in Kinds}
  /\ \A g, h \in handles : g[1] = h[1] => g = h
  /\ stage = "gone" => Open = {}

\* How many of its kind the bus lists before a place
Before(n, k) == Cardinality({j \in 1 .. n - 1 : bus[j].kind = k})

\* Where the bus lists cameras and motors in the same order, a device has the
\* camera and the motor of one Kinect (fnusb_open_subdevices).
SameOrder ==
  \A n, m \in DOMAIN bus :
    bus[n].kind = "camera" /\ bus[m].kind = "motor" /\ Before(n, "camera") = Before(m, "motor") => bus[n].kinect = bus[m].kinect

OneKinect == SameOrder => \A d \in Open : bus[sub[d]["camera"]].kinect = bus[sub[d]["motor"]].kinect

\* A stream that runs has the buffers of its format, decodes into the buffer
\* the program chose last, and has its transfers in flight on an open handle;
\* one that does not has no buffer but the program's, and none in flight
\* (freenect_start_depth, freenect_stop_depth, stream_setbuf).
Runs(d, s) ==
  LET r == strm[d][s]
  IN /\ d \in Open /\ r.iso /\ r.sized = r.format
     /\ r.proc # NULL /\ r.proc = (IF r.usr # NULL THEN r.usr ELSE r.lib)
     /\ r.raw = (IF Split(s, r.format) THEN "own" ELSE r.proc)

StreamsExact ==
  \A d \in Devs, s \in Streams :
    IF strm[d][s].running THEN Runs(d, s)
    ELSE stage = "idle" => ~strm[d][s].iso /\ {strm[d][s].lib, strm[d][s].raw, strm[d][s].proc} = {NULL}

\* Between the calls a camera that has done what it was told does what the
\* library believes: it sends the streams that run, in their formats, and no
\* other (freenect_start_video, freenect_stop_video, freenect_close_device).
Holder(c, s) == {d \in Open : sub[d]["camera"] = c /\ strm[d][s].running}

CameraObeys ==
  stage \in {"idle", "gone"} =>
    \A c \in Cameras, s \in Streams :
      camera[c].asked = <<>> /\ s \notin camera[c].missed =>
        /\ Holder(c, s) = {} => camera[c].regs[Go(s)] = 0
        /\ \A d \in Holder(c, s) : LET f == strm[d][s].format
                                   IN /\ camera[c].regs[Go(s)] = GoValue(s, f)
                                      /\ camera[c].regs[ModeOf(s)] = ModeValue(s, f)

\* A camera is not made to send another format in the middle of a stream, even
\* if one command has not reached it (freenect_start_depth resets first).
ModeWhileStill ==
  [][\A c \in Cameras, s \in Streams :
       camera'[c].regs[ModeOf(s)] # camera[c].regs[ModeOf(s)] => camera[c].regs[Go(s)] = 0]_device

\* The reply a command is given belongs to a command sent since the last one
\* that succeeded, however late, lost or superfluous others are, as long as the
\* device stays open: the next opening counts its tags from 0 again, and may take
\* what the one before it has left (send_cmd).
RepliesNew ==
  [][\A d \in Open : cam_tag'[d] # cam_tag[d] /\ stage = "poll"
       => Head(camera[sub[d]["camera"]].replies).age # "past"]_device

\* Every call returns, as long as the camera answers (send_cmd polls without
\* a limit; freenect_shutdown loops until no device is left).
CallReturns == (stage # "idle") ~> (stage \in {"idle", "gone"})

\* Nothing is left over and nothing missing, whatever fails: the handles of the
\* devices, and the buffers and transfers of their streams.
ResourcesExact == KinectTypeOK /\ HandlesExact /\ OneKinect /\ StreamsExact

\* The conversation with the camera keeps its order, and comes to an end, with
\* commands that fail, replies that are late and replies nobody reads.
Conversation == ModeWhileStill /\ RepliesNew /\ CallReturns
=============================================================================
