----------------------------- MODULE Recording -----------------------------
(***************************************************************************)
(* A recording of a Kinect and its replay: record.c writes each frame, and *)
(* the state of the motor after each round of events, to a file of its own *)
(* whose name it has put into an index; fakenect.c stands in for           *)
(* libfreenect and hands the files on, in the order of the index and no    *)
(* faster than they were recorded.                                         *)
(*                                                                         *)
(* The recorder may be interrupted (SIGINT), fail or be killed; the index  *)
(* is buffered, so that a kill keeps some of its lines.                    *)
(***************************************************************************)
EXTENDS Naturals, Sequences

CONSTANTS
  MaxLines,   \* lines of an index
  MaxWaits,   \* ticks of the clock between two lines, and during a callback
  Tilts       \* states of the motor

\* What the constants must be (assumed where this is instantiated)
RecordingAssumption == MaxLines \in Nat /\ MaxWaits \in Nat /\ 0 \in Tilts

Frames == {"d", "r"}

VARIABLES
  recorder,        \* where record.c is
  running,         \* its flag, cleared by the signal
  last_timestamp,  \* is there one yet
  raw_state,       \* the motor's state it has read last
  index,           \* INDEX.txt: for each line its name's type and time, and the file of that name
  killed,          \* history: the recorder did not get to fclose
  player,          \* where the program that replays is
  pos,             \* lines read of the index
  now, record_prev, playback_prev,  \* the clock, and the time of the line before, as recorded and as played
  state,           \* the motor's state handed on
  playing,         \* depth_running, rgb_running
  played           \* history: when the line before was handed on

recording == <<recorder, running, last_timestamp, raw_state, index, killed>>
replaying == <<player, pos, record_prev, playback_prev, state, playing, played>>
vars == <<recording, replaying, now>>

\* record.c 157-180: main; fakenect.c 39-53: the replay's state
Init ==
  /\ recorder = "loop" /\ running = TRUE /\ last_timestamp = FALSE
  /\ raw_state = 0 /\ index = <<>> /\ killed = FALSE
  /\ player = "off" /\ pos = 0 /\ now = 1 /\ record_prev = 0 /\ playback_prev = 0
  /\ state = 0 /\ playing = {} /\ played = 0

-----------------------------------------------------------------------------
\* A file that cannot be opened ends the program, as a kill does (Kill).
\* record.c 60-70: open_dump up to fopen, the file's name is in the index
OpenDump(type, back) ==
  /\ Len(index) < MaxLines
  /\ index' = Append(index, [type |-> type, time |-> now, data |-> IF type = "a" THEN raw_state ELSE 0, file |-> "none"])
  /\ recorder' = back

\* record.c 112-121: depth_cb, rgb_cb, called in freenect_process_events
Dump(type) ==
  /\ recorder = "events" /\ type \in Frames
  /\ OpenDump(type, "file") /\ last_timestamp' = TRUE
  /\ UNCHANGED <<running, raw_state, killed, replaying, now>>

\* Before the events, not after them, the loop looks for the signal.
\* record.c 142: the loop of init
Round ==
  /\ recorder = "loop" /\ running
  /\ recorder' = "events"
  /\ UNCHANGED <<running, last_timestamp, raw_state, index, killed, replaying, now>>

\* record.c 101-109: snapshot_accel, before its dump; the motor may not answer
Snapshot ==
  /\ recorder = "events"
  /\ \/ ~last_timestamp /\ recorder' = "loop" /\ UNCHANGED raw_state
     \/ last_timestamp /\ Len(index) < MaxLines /\ recorder' = "snapshot" /\ raw_state' \in Tilts
  /\ UNCHANGED <<running, last_timestamp, index, killed, replaying, now>>

DumpState ==
  /\ recorder = "snapshot"
  /\ OpenDump("a", "file")
  /\ UNCHANGED <<running, last_timestamp, raw_state, killed, replaying, now>>

\* record.c 48-58: the file is there, but not all of its data
Write ==
  /\ recorder = "file"
  /\ index' = [index EXCEPT ![Len(index)].file = "part"] /\ recorder' = "written"
  /\ UNCHANGED <<running, last_timestamp, raw_state, killed, replaying, now>>

\* record.c 76-99: dump closes it
CloseDump ==
  /\ recorder = "written"
  /\ index' = [index EXCEPT ![Len(index)].file = "whole"]
  /\ recorder' = IF index[Len(index)].type = "a" THEN "loop" ELSE "events"
  /\ now' = now + 1
  /\ UNCHANGED <<running, last_timestamp, raw_state, killed, replaying>>

\* record.c 150-155: signal_cleanup
Interrupt ==
  /\ recorder # "over" /\ running
  /\ running' = FALSE
  /\ UNCHANGED <<recorder, last_timestamp, raw_state, index, killed, replaying, now>>

\* a mutated form: the recording is over as soon as the signal comes
MayEndAtOnce == recorder # "over" /\ ~running

\* The signal came, or freenect_process_events failed.
\* record.c 142-147: the loop of init
MayEnd == recorder = "events" \/ (recorder = "loop" /\ ~running)

\* record.c 144-181: the streams are stopped and the index is closed
End ==
  /\ MayEnd
  /\ recorder' = "over" /\ player' = "idle"
  /\ UNCHANGED <<running, last_timestamp, raw_state, index, killed, pos, record_prev, playback_prev, state, playing, played, now>>

\* external: a kill; of the index any part has been written
Kill ==
  /\ recorder # "over"
  /\ \E n \in 0 .. Len(index) : index' = SubSeq(index, 1, n)
  /\ recorder' = "over" /\ killed' = TRUE /\ player' = "idle"
  /\ UNCHANGED <<running, last_timestamp, raw_state, pos, record_prev, playback_prev, state, playing, played, now>>

-----------------------------------------------------------------------------
\* fakenect.c 294-316: freenect_start_depth, freenect_start_video, freenect_stop_depth, freenect_stop_video
Switch(s) ==
  /\ player = "idle" /\ s \in Frames
  /\ playing' = IF s \in playing THEN playing \ {s} ELSE playing \cup {s}
  /\ UNCHANGED <<recording, player, pos, record_prev, playback_prev, state, played, now>>

\* fakenect.c 99-127: parse_line: at the end of the index, the call fails; without the file, the program ends
ReadLine ==
  /\ player = "idle"
  /\ IF pos = Len(index) THEN player' = "end" /\ UNCHANGED pos
     ELSE /\ pos' = pos + 1
          /\ player' = IF index[pos + 1].file = "none" THEN "exit" ELSE "sleep"
  /\ UNCHANGED <<recording, record_prev, playback_prev, state, playing, played, now>>

line == index[pos]

\* fakenect.c 55-63: sleep_highres, for the difference of two times past
Due == playback_prev + (line.time - record_prev)

\* fakenect.c 168-181: freenect_process_events, before it looks at what it has read
Wake ==
  /\ player = "sleep"
  /\ record_prev # 0 /\ playback_prev # 0 => now >= Due
  /\ record_prev' = line.time /\ player' = "dispatch"
  /\ UNCHANGED <<recording, pos, playback_prev, state, playing, played, now>>

\* fakenect.c 203-216: the motor's state
StateNow == IF line.type = "a" THEN line.data ELSE state

\* fakenect.c 182-218: the line is handed on, if it is of a stream that runs
Dispatch ==
  /\ player = "dispatch"
  /\ state' = StateNow
  /\ played' = now
  /\ player' = IF line.type \in playing THEN "callback" ELSE "handed"
  /\ UNCHANGED <<recording, pos, record_prev, playback_prev, playing, now>>

\* external: the program's callback
Callback ==
  /\ player = "callback"
  /\ player' = "handed" /\ now' \in now .. now + MaxWaits
  /\ UNCHANGED <<recording, pos, record_prev, playback_prev, state, playing, played>>

\* fakenect.c 65-70: get_time
PlayedTime == now

\* fakenect.c 218-221: the end of freenect_process_events
Handed ==
  /\ player = "handed"
  /\ playback_prev' = PlayedTime /\ player' = "idle"
  /\ UNCHANGED <<recording, pos, record_prev, state, playing, played, now>>

\* Time passes while somebody waits for it.
Tick ==
  /\ \/ recorder = "events" /\ index # <<>> /\ now - index[Len(index)].time <= MaxWaits
     \/ player = "sleep" /\ record_prev # 0 /\ playback_prev # 0 /\ now < Due
  /\ now' = now + 1
  /\ UNCHANGED <<recording, replaying>>

-----------------------------------------------------------------------------
Record == Round \/ (\E s \in Frames : Dump(s)) \/ Snapshot \/ DumpState \/ Write \/ CloseDump \/ Interrupt \/ End \/ Kill
Replay == (\E s \in Frames : Switch(s)) \/ ReadLine \/ Wake \/ Dispatch \/ Callback \/ Handed

Next == Record \/ Replay \/ Tick

\* A recording that came to its end, and was not killed, has a whole file for
\* every line of its index: its replay neither ends the program nor hands on a
\* file that is cut (init, signal_cleanup, parse_line).
WholeUnlessKilled ==
  recorder = "over" /\ ~killed => \A i \in DOMAIN index : index[i].file = "whole"

\* Nothing is handed on sooner after the line before than it was recorded
\* after it, however long the callbacks take (freenect_process_events).
NeverFaster ==
  [][player' = "dispatch" /\ player = "sleep" /\ pos > 1
       => now - played >= line.time - index[pos - 1].time]_vars

\* A frame is handed on with the motor's state that was read last before the
\* frame was recorded, whatever was playing meanwhile (snapshot_accel,
\* freenect_process_events).
StateOfItsTime ==
  player = "callback" =>
    LET before == {i \in 1 .. pos - 1 : index[i].type = "a"}
    IN \A last \in before : (\A i \in before : i <= last) => state = index[last].data

\* A recording that was not killed is replayed whole, with the motor's states
\* where they were, and no faster than it was made.
ReplayRight == [](WholeUnlessKilled /\ StateOfItsTime) /\ NeverFaster
=============================================================================
