---------------------------- MODULE FrameMailbox ----------------------------
(***************************************************************************)
(* What the synchronous wrapper promises about frames, per ring: a one     *)
(* place mailbox.  The camera completes frames in timestamp order; each    *)
(* replaces the one in the box; a get empties the box; and the frame that  *)
(* was taken stays as it was until the client's next call.                 *)
(***************************************************************************)
EXTENDS Integers

CONSTANTS Rings, Formats, NStamps, Empty

VARIABLES
  box,    \* the newest complete frame nobody has taken, or Empty
  taken,  \* the frame the last get returned, Empty after the next call
  next    \* the timestamp of the next frame to complete

vars == <<box, taken, next>>

Init ==
  /\ box = [r \in Rings |-> Empty]
  /\ taken = [r \in Rings |-> Empty]
  /\ next = [r \in Rings |-> 0]

Deliver(r) ==
  /\ \E f \in Formats : box' = [box EXCEPT ![r] = [fmt |-> f, ts |-> next[r]]]
  /\ next' = [next EXCEPT ![r] = (@ + 1) % NStamps]
  /\ UNCHANGED taken

Take(r) ==
  /\ box[r] # Empty
  /\ taken' = [taken EXCEPT ![r] = box[r]]
  /\ box' = [box EXCEPT ![r] = Empty]
  /\ UNCHANGED next

\* The next call on the rings S begins: their frames may not be used again.
Return(S) ==
  /\ taken' = [r \in Rings |-> IF r \in S THEN Empty ELSE taken[r]]
  /\ UNCHANGED <<box, next>>

\* The rings S are freed or allocated anew; nobody uses a frame of theirs.
Reset(S) ==
  /\ \A r \in S : taken[r] = Empty
  /\ box' = [r \in Rings |-> IF r \in S THEN Empty ELSE box[r]]
  /\ UNCHANGED <<taken, next>>

Next ==
  \/ \E r \in Rings : Deliver(r) \/ Take(r)
  \/ \E S \in SUBSET Rings : Return(S) \/ Reset(S)

Spec == Init /\ [][Next]_vars
=============================================================================
