------------------------------ MODULE KinectMC ------------------------------
(***************************************************************************)
(* Instances of IsoStream, of Kinect and of Recording, one after the       *)
(* other.                                                                  *)
(*                                                                         *)
(* Three transfers of two packets, any of which may fail or be refused.    *)
(*                                                                         *)
(* One Kinect of which both streams are used and one transfer fails; one   *)
(* of which the depth is used in two formats, and up to three transfers    *)
(* fail, one without a trace; and two Kinects, of which the second is      *)
(* listed the other way round, with no failure but the opening's.          *)
(*                                                                         *)
(* A recording of up to three lines, up to three ticks apart.              *)
(***************************************************************************)
EXTENDS IsoStream, Kinect, TLC

ASSUME IsoSound == IsoAssumption
ASSUME KinectSound == KinectAssumption

VARIABLES
  side,
  recorder, running, last_timestamp, raw_state, index, killed,
  player, pos, now, record_prev, playback_prev, state, playing, played

record == <<recorder, running, last_timestamp, raw_state, index, killed,
            player, pos, now, record_prev, playback_prev, state, playing, played>>

Camera(k) == [kind |-> "camera", kinect |-> k]
Motor(k) == [kind |-> "motor", kinect |-> k]

LabsMC ==
  {[bus |-> <<Motor(1), Camera(1)>>, lost |-> 0, faults |-> 1,
    formats |-> ("depth" :> {} @@ "video" :> {"yuv_raw"})],
   [bus |-> <<Motor(1), Camera(1)>>, lost |-> 1, faults |-> 2,
    formats |-> "depth" :> {"11bit", "10bit_packed"}],
   [bus |-> <<Camera(1), Motor(1), Motor(2), Camera(2)>>, lost |-> 0, faults |-> 0,
    formats |-> "video" :> {"ir_8bit"}]}

Tape == INSTANCE Recording WITH MaxLines <- 3, MaxWaits <- 1, Tilts <- {0, 1}

ASSUME TapeSound == Tape!RecordingAssumption

all == <<side, vars, device, record>>

InitMC ==
  /\ side \in {"transfers", "kinect", "recording"}
  /\ Init /\ KinectInit /\ Tape!Init
  /\ side # "kinect" => lab = CHOOSE l \in Labs : TRUE

Transferring == side = "transfers" /\ UNCHANGED <<side, device, record>>
Streaming == side = "kinect" /\ UNCHANGED <<side, vars, record>>
Replaying == side = "recording" /\ UNCHANGED <<side, vars, device>>

NextMC ==
  \/ Transferring /\ Next
  \/ Streaming /\ KinectNext
  \/ Replaying /\ Tape!Next

SpecMC ==
  /\ InitMC /\ [][NextMC]_all
  /\ WF_all(Transferring /\ (StartSubmit \/ Started)) /\ WF_all(Transferring /\ Stopper)
  /\ WF_all(Transferring /\ Pump) /\ WF_all(Transferring /\ Kernel)
  /\ WF_all(Streaming /\ (Opens \/ Writes \/ Closes))
  /\ WF_all(Streaming /\ Answers)

\* The properties of Recording (see there): a recording is replayed as it was made
\* (record.c, freenect_process_events).
ReplayRight == Tape!ReplayRight
=============================================================================
