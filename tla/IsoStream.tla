----------------------------- MODULE IsoStream -----------------------------
(***************************************************************************)
(* Isochronous streaming (usb_libusb10.c): a stream keeps num_xfers        *)
(* transfers of pkts packets in flight; the callback of each hands its     *)
(* packets on and submits it again, until the stream is dead.              *)
(*                                                                         *)
(* One thread at a time pumps libusb, and nobody stops a stream while      *)
(* another thread pumps: the synchronous wrapper sees to that with         *)
(* runloop_lock, a program with one thread does so anyway.                 *)
(***************************************************************************)
EXTENDS Naturals, Sequences, SequencesExt, FiniteSets

CONSTANTS
  num_xfers,      \* transfers of a stream (NUM_XFERS, 16)
  pkts,           \* packets of a transfer (PKTS_PER_XFER, 16)
  NTags,          \* the camera's packets are numbered modulo NTags
  SubmitMayFail   \* may libusb_submit_transfer fail?

\* What the constants must be (assumed where this is instantiated)
IsoAssumption ==
  /\ num_xfers \in Nat \ {0} /\ pkts \in Nat \ {0}
  /\ NTags \in Nat /\ NTags > (num_xfers + 1) * pkts
  /\ SubmitMayFail \in BOOLEAN

VARIABLES
  pc,          \* the thread that starts and stops the stream
  i,           \* its loop variable
  dead, dead_xfers,
  flying,      \* transfers the kernel has yet to serve, in order
  done,        \* transfers that can be reaped, in order
  status,      \* of a transfer in done, or in its callback
  buffer,      \* of each transfer: the numbers of its packets
  cb, pkt,     \* the transfer whose callback runs (0: none), and its packet
  sent,        \* the number of the next packet of the camera
  expected,    \* history: the number of the next packet to be handed on
  ended,       \* history: the transfers counted in dead_xfers
  refused      \* history: the transfers a submission has failed for

strmVars   == <<dead, dead_xfers, ended>>
kernelVars == <<flying, done, status, buffer, sent>>
cbVars     == <<cb, pkt, expected>>
vars == <<pc, i, strmVars, kernelVars, cbVars, refused>>

Xfers == 1 .. num_xfers

NoPackets == [x \in Xfers |-> [k \in 1 .. pkts |-> 0]]

Init ==
  /\ pc = "stopped" /\ i = 1 /\ dead = FALSE /\ dead_xfers = 0
  /\ flying = <<>> /\ done = <<>>
  /\ status = [x \in Xfers |-> "completed"]
  /\ buffer = NoPackets
  /\ cb = 0 /\ pkt = 1 /\ sent = 0 /\ expected = 0
  /\ ended = {} /\ refused = {}

-----------------------------------------------------------------------------
\* libusb_submit_transfer(x). Neither of its callers does anything about a
\* failure.
Submit(x) ==
  \/ flying' = Append(flying, x) /\ UNCHANGED refused
  \/ SubmitMayFail /\ refused' = refused \cup {x} /\ UNCHANGED flying

\* dead_xfers++ in the callback of x
CountDead(x) == dead_xfers' = dead_xfers + 1 /\ ended' = ended \cup {x}

\* fnusb_start_iso: the packets of this streaming are numbered from 0.
Start ==
  /\ pc = "stopped"
  /\ pc' = "starting" /\ i' = 1
  /\ dead' = FALSE /\ dead_xfers' = 0 /\ ended' = {} /\ refused' = {}
  /\ buffer' = NoPackets /\ sent' = 0 /\ expected' = 0
  /\ status' = [x \in Xfers |-> "completed"]
  /\ UNCHANGED <<flying, done, cb, pkt>>

StartSubmit ==
  /\ pc = "starting" /\ i \in Xfers
  /\ Submit(i)
  /\ i' = i + 1
  /\ UNCHANGED <<pc, strmVars, done, status, buffer, sent, cbVars>>

Started ==
  /\ pc = "starting" /\ i > num_xfers
  /\ pc' = "running"
  /\ UNCHANGED <<i, strmVars, kernelVars, cbVars, refused>>

\* fnusb_stop_iso
Stop ==
  /\ pc = "running" /\ cb = 0
  /\ pc' = "cancelling" /\ i' = 1 /\ dead' = TRUE
  /\ UNCHANGED <<dead_xfers, ended, kernelVars, cbVars, refused>>

\* Variant: a transfer that is not in flight counts as dead.
Cancel_Counts ==
  /\ pc = "cancelling" /\ i \in Xfers
  /\ i' = i + 1
  /\ IF i \in ToSet(flying) \cup ToSet(done)
     THEN /\ status' = [status EXCEPT ![i] = "cancelled"]
          /\ UNCHANGED <<dead_xfers, ended>>
     ELSE UNCHANGED status /\ CountDead(i)
  /\ flying' = SelectSeq(flying, LAMBDA x : x # i)
  /\ done' = IF i \in ToSet(flying) THEN Append(done, i) ELSE done
  /\ UNCHANGED <<pc, dead, buffer, sent, cbVars, refused>>

\* libusb_cancel_transfer: reap_action makes the transfer cancelled even if
\* it is already served; one that is not in flight is not found.
Cancel ==
  /\ pc = "cancelling" /\ i \in Xfers
  /\ i' = i + 1
  /\ status' = [status EXCEPT ![i] =
                  IF i \in ToSet(flying) \cup ToSet(done) THEN "cancelled" ELSE @]
  /\ \/ \E k \in DOMAIN flying : flying[k] = i /\ flying' = RemoveAt(flying, k) /\ done' = Append(done, i)
     \/ i \notin ToSet(flying) /\ UNCHANGED <<flying, done>>
  /\ UNCHANGED <<pc, strmVars, buffer, sent, cbVars, refused>>

Cancelled ==
  /\ pc = "cancelling" /\ i > num_xfers
  /\ pc' = "draining"
  /\ UNCHANGED <<i, strmVars, kernelVars, cbVars, refused>>

\* All transfers are dead: they and their buffer are freed,
\* and the stream is zeroed (memset).
Drained ==
  /\ pc = "draining" /\ cb = 0 /\ dead_xfers >= num_xfers
  /\ pc' = "stopped"
  /\ dead' = FALSE /\ dead_xfers' = 0 /\ ended' = {}
  /\ UNCHANGED <<i, kernelVars, cbVars, refused>>

-----------------------------------------------------------------------------
\* The stream's thread pumps in libusb_handle_events while it drains, another
\* one while the stream runs.
Pumping ==
  \/ pc = "running"
  \/ pc = "draining" /\ dead_xfers < num_xfers

\* Variant: the return after counting a dead transfer is missing.
Reap_NoReturn ==
  /\ Pumping /\ cb = 0 /\ done # <<>>
  /\ done' = Tail(done)
  /\ LET x == Head(done)
         times == (IF dead THEN 1 ELSE 0) + (IF status[x] # "completed" THEN 1 ELSE 0)
     IN /\ dead_xfers' = dead_xfers + times
        /\ ended' = IF times > 0 THEN ended \cup {x} ELSE ended
        /\ IF status[x] = "completed" THEN cb' = x /\ pkt' = 1
                                      ELSE UNCHANGED <<cb, pkt>>
  /\ UNCHANGED <<pc, i, dead, flying, status, buffer, sent, expected, refused>>

\* Variant: a transfer that ends with an error is not counted.
Reap_ErrorUncounted ==
  /\ Pumping /\ cb = 0 /\ done # <<>>
  /\ done' = Tail(done)
  /\ LET x == Head(done)
     IN IF dead
        THEN CountDead(x) /\ UNCHANGED <<cb, pkt>>
        ELSE /\ cb' = IF status[x] = "completed" THEN x ELSE 0
             /\ pkt' = 1
             /\ UNCHANGED <<dead_xfers, ended>>
  /\ UNCHANGED <<pc, i, dead, flying, status, buffer, sent, expected, refused>>

\* iso_callback of the next transfer that is done
Reap ==
  /\ Pumping /\ cb = 0 /\ done # <<>>
  /\ done' = Tail(done)
  /\ LET x == Head(done)
     IN IF dead \/ status[x] # "completed"
        THEN CountDead(x) /\ UNCHANGED <<cb, pkt>>
        ELSE cb' = x /\ pkt' = 1 /\ UNCHANGED <<dead_xfers, ended>>
  /\ UNCHANGED <<pc, i, dead, flying, status, buffer, sent, expected, refused>>

\* Variant: the packets are handed on last to first.
Packet_Backward(x, k) == buffer[x][pkts + 1 - k]

\* The k-th packet that the callback of x hands on
Packet(x, k) == buffer[x][k]

\* strm->cb for the next packet of the transfer
HandOn ==
  /\ cb # 0 /\ pkt <= pkts
  /\ pkt' = pkt + 1
  /\ expected' = (Packet(cb, pkt) + 1) % NTags
  /\ UNCHANGED <<pc, i, strmVars, kernelVars, cb, refused>>

Resubmit ==
  /\ cb # 0 /\ pkt > pkts
  /\ Submit(cb)
  /\ cb' = 0
  /\ UNCHANGED <<pc, i, strmVars, done, status, buffer, sent, pkt, expected>>

-----------------------------------------------------------------------------
\* The kernel serves the transfers of an endpoint in order: with the camera's
\* next packets,
Serve ==
  /\ flying # <<>>
  /\ LET x == Head(flying)
     IN /\ buffer' = [buffer EXCEPT ![x] =
                        [k \in 1 .. pkts |-> (sent + k - 1) % NTags]]
        /\ status' = [status EXCEPT ![x] = "completed"]
        /\ done' = Append(done, x)
  /\ flying' = Tail(flying)
  /\ sent' = (sent + pkts) % NTags
  /\ UNCHANGED <<pc, i, strmVars, cbVars, refused>>

\* or with an error.
ServeError ==
  /\ flying # <<>>
  /\ status' = [status EXCEPT ![Head(flying)] = "error"]
  /\ done' = Append(done, Head(flying))
  /\ flying' = Tail(flying)
  /\ UNCHANGED <<pc, i, strmVars, buffer, sent, cbVars, refused>>

Starter == Start \/ StartSubmit \/ Started
Stopper == Cancel \/ Cancelled \/ Drained
Pump    == Reap \/ HandOn \/ Resubmit
Kernel  == Serve \/ ServeError

Next == Starter \/ Stop \/ Stopper \/ Pump \/ Kernel

Spec == Init /\ [][Next]_vars

\* A stop goes on, somebody pumps as long as the stream is not stopped, and
\* the kernel serves what it was given. Nobody has to start or stop.
FairSpec ==
  /\ Spec
  /\ WF_vars(StartSubmit \/ Started) /\ WF_vars(Stopper)
  /\ WF_vars(Pump) /\ WF_vars(Kernel)

-----------------------------------------------------------------------------
\* Every variable has its type; no transfer is counted beyond num_xfers.
TypeOK ==
  /\ pc \in {"stopped", "starting", "running", "cancelling", "draining"}
  /\ i \in 1 .. num_xfers + 1
  /\ dead \in BOOLEAN /\ dead_xfers \in 0 .. num_xfers
  /\ flying \in Seq(Xfers) /\ done \in Seq(Xfers)
  /\ status \in [Xfers -> {"completed", "cancelled", "error"}]
  /\ buffer \in [Xfers -> [1 .. pkts -> 0 .. NTags - 1]]
  /\ cb \in 0 .. num_xfers /\ pkt \in 1 .. pkts + 1
  /\ sent \in 0 .. NTags - 1 /\ expected \in 0 .. NTags - 1
  /\ ended \subseteq Xfers /\ refused \subseteq Xfers

\* Where a transfer is
Places(x) == {p \in {"flying", "done", "callback", "ended", "refused"} :
  \/ p = "flying" /\ x \in ToSet(flying)
  \/ p = "done" /\ x \in ToSet(done)
  \/ p = "callback" /\ x = cb
  \/ p = "ended" /\ x \in ended
  \/ p = "refused" /\ x \in refused}

\* From start to stop a transfer is in one place at a time, at most once in
\* the kernel, and counted exactly if it has ended: what is not counted and
\* was not refused will still come back to iso_callback, and what fnusb_stop_iso
\* frees is in none: the kernel has nothing of it and no callback runs.
Accounted ==
  /\ TypeOK
  /\ dead_xfers = Cardinality(ended)
  /\ Len(flying) + Len(done) = Cardinality(ToSet(flying) \cup ToSet(done))
  /\ \A x \in Xfers : Cardinality(Places(x)) =
       IF pc = "stopped" \/ (pc = "starting" /\ x >= i) THEN 0 ELSE 1

\* While a stream runs its packets are handed on in the order the camera sent
\* them, none twice and none left out, whichever transfers fail between.
HandedOnInOrder == [][HandOn => Packet(cb, pkt) = expected]_vars

\* fnusb_stop_iso returns, unless a submission has failed.
StopReturns == (pc = "cancelling" /\ refused = {}) ~> (pc = "stopped")
=============================================================================
