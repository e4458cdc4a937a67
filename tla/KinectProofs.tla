---------------------------- MODULE KinectProofs ----------------------------
(***************************************************************************)
(* Streaming from Kinects, for whatever is on the bus, is asked for and    *)
(* fails.                                                                  *)
(*                                                                         *)
(* Isochronous transfers (IsoStream): every transfer is in one place and   *)
(* counted once, and packets are handed on in the camera's order.          *)
(*                                                                         *)
(* Devices (Kinect): handles, buffers and transfers are those of the open  *)
(* devices and of the streams that run, and a camera that was told         *)
(* everything is as the library believes it to be.                         *)
(***************************************************************************)
EXTENDS IsoStream, Kinect, QueueLemmas

\* Submitted since the start
Begun(x) == ~(pc = "stopped" \/ (pc = "starting" /\ x >= i))

\* A transfer that was submitted is in one place, another one in none.
InPlace(x) ==
  /\ Begun(x) <=> (x \in ToSet(flying) \/ x \in ToSet(done) \/ x = cb \/ x \in ended \/ x \in refused)
  /\ x \in ToSet(flying) => x \notin ToSet(done) /\ x # cb /\ x \notin ended /\ x \notin refused
  /\ x \in ToSet(done) => x # cb /\ x \notin ended /\ x \notin refused
  /\ x = cb => x \notin ended /\ x \notin refused
  /\ x \in ended => x \notin refused

\* The ranges of the variables, but for dead_xfers, which counts
TypeInv ==
  /\ pc \in {"stopped", "starting", "running", "cancelling", "draining"}
  /\ i \in 1 .. num_xfers + 1
  /\ dead \in BOOLEAN
  /\ flying \in Seq(Xfers) /\ done \in Seq(Xfers)
  /\ status \in [Xfers -> {"completed", "cancelled", "error"}]
  /\ buffer \in [Xfers -> [1 .. pkts -> 0 .. NTags - 1]]
  /\ cb \in 0 .. num_xfers /\ pkt \in 1 .. pkts + 1
  /\ sent \in 0 .. NTags - 1 /\ expected \in 0 .. NTags - 1
  /\ ended \subseteq Xfers /\ refused \subseteq Xfers

CountInv == dead_xfers = Cardinality(ended)

PlaceInv ==
  /\ IsInjective(flying) /\ IsInjective(done)
  /\ \A x \in Xfers : InPlace(x)

\* The number that follows the packets of x, and x holds packets in a row.
After(x) == (buffer[x][pkts] + 1) % NTags
InARow(x) == \A k \in 1 .. pkts - 1 : buffer[x][k + 1] = (buffer[x][k] + 1) % NTags
Good(k) == status[done[k]] = "completed"

\* The number the first packet after the running callback has
NextUp == IF cb = 0 THEN expected ELSE After(cb)

\* The first, neighbours and the last of the transfers in done that are good
FirstGood(k) == Good(k) /\ \A j \in 1 .. k - 1 : ~Good(j)
Linked(j, k) == j < k /\ Good(j) /\ Good(k) /\ \A m \in j + 1 .. k - 1 : ~Good(m)
LastGood(k) == Good(k) /\ \A j \in k + 1 .. Len(done) : ~Good(j)

\* From the packet expected next to the one the camera sends next, the
\* packets that wait follow each other; errors hold none.
Chain ==
  /\ \A k \in 1 .. Len(done) : Good(k) => InARow(done[k])
  /\ \A k \in 1 .. Len(done) : FirstGood(k) => buffer[done[k]][1] = NextUp
  /\ \A j, k \in 1 .. Len(done) : Linked(j, k) => buffer[done[k]][1] = After(done[j])
  /\ \A k \in 1 .. Len(done) : LastGood(k) => sent = After(done[k])
  /\ (\A k \in 1 .. Len(done) : ~Good(k)) => sent = NextUp

\* The callback that runs hands on the rest of its packets.
CallbackDue == cb # 0 => InARow(cb) /\ expected = IF pkt <= pkts THEN buffer[cb][pkt] ELSE After(cb)

OrderInv ==
  /\ cb # 0 => pc = "running"
  /\ pc \in {"starting", "running"} => ~dead /\ CallbackDue /\ Chain
  /\ pc \in {"cancelling", "draining"} => dead
\* Every step keeps the ranges.
LEMMA TypeStep ==
  ASSUME IsoAssumption PROVE TypeInv /\ [Next]_vars => TypeInv'
  <1> SUFFICES ASSUME TypeInv, [Next]_vars
               PROVE  TypeInv'
    OBVIOUS
  <1> USE IsoAssumption DEF IsoAssumption, strmVars, kernelVars, cbVars
  <1>1. ASSUME Start PROVE TypeInv'
    <2>1. NoPackets \in [Xfers -> [1 .. pkts -> 0 .. NTags - 1]]
      BY DEF NoPackets
    <2>2. [x \in Xfers |-> "completed"] \in [Xfers -> {"completed", "cancelled", "error"}]
      OBVIOUS
    <2>3. buffer' \in [Xfers -> [1 .. pkts -> 0 .. NTags - 1]] /\ status' \in [Xfers -> {"completed", "cancelled", "error"}]
      BY <1>1, <2>1, <2>2 DEF Start
    <2>4. i' \in 1 .. num_xfers + 1 /\ sent' \in 0 .. NTags - 1 /\ expected' \in 0 .. NTags - 1
      BY <1>1 DEF Start
    <2>5. QED
      BY <1>1, <2>3, <2>4 DEF TypeInv, Start
  <1>2. ASSUME StartSubmit PROVE TypeInv'
    <2>1. i \in Xfers
      BY <1>2 DEF TypeInv, Xfers, StartSubmit
    <2>2. Append(flying, i) \in Seq(Xfers)
      BY <2>1, AppendIn DEF TypeInv
    <2>3. flying' \in Seq(Xfers) /\ refused' \subseteq Xfers
      BY <1>2, <2>1, <2>2 DEF TypeInv, StartSubmit, Submit
    <2>4. i' \in 1 .. num_xfers + 1 /\ cb' \in 0 .. num_xfers
      BY <1>2 DEF TypeInv, Xfers, StartSubmit
    <2>5. QED
      BY <1>2, <2>3, <2>4 DEF TypeInv, StartSubmit
  <1>3. ASSUME Started PROVE TypeInv'
    BY <1>3 DEF TypeInv, Started
  <1>4. ASSUME Stop PROVE TypeInv'
    BY <1>4 DEF TypeInv, Stop
  <1>5. ASSUME Cancel PROVE TypeInv'
    <2>1. flying' \in Seq(Xfers) /\ done' \in Seq(Xfers)
      <3>1. i \in Xfers /\ Append(done, i) \in Seq(Xfers)
        BY <1>5, AppendIn DEF TypeInv, Cancel
      <3>2. \A k \in DOMAIN flying : RemoveAt(flying, k) \in Seq(Xfers)
        BY RemoveIn DEF TypeInv
      <3>3. QED
        BY <1>5, <3>1, <3>2 DEF TypeInv, Cancel
    <2>2. i' \in 1 .. num_xfers + 1
      BY <1>5 DEF TypeInv, Xfers, Cancel
    <2>3. status' \in [Xfers -> {"completed", "cancelled", "error"}]
      BY <1>5 DEF TypeInv, Cancel
    <2>4. QED
      BY <1>5, <2>1, <2>2, <2>3 DEF TypeInv, Cancel
  <1>6. ASSUME Cancelled PROVE TypeInv'
    BY <1>6 DEF TypeInv, Cancelled
  <1>7. ASSUME Drained PROVE TypeInv'
    BY <1>7 DEF TypeInv, Drained
  <1>8. ASSUME Reap PROVE TypeInv'
    <2>1. Head(done) \in Xfers /\ done' \in Seq(Xfers)
      BY <1>8, TailIn DEF TypeInv, Reap
    <2>2. cb' \in 0 .. num_xfers /\ pkt' \in 1 .. pkts + 1 /\ ended' \subseteq Xfers
      <3>1. cb' \in {cb, Head(done)} /\ pkt' \in {pkt, 1} /\ ended' \subseteq ended \cup {Head(done)}
        BY <1>8 DEF Reap, CountDead
      <3>2. 1 \in 1 .. pkts + 1
        OBVIOUS
      <3>3. QED
        <4>1. cb \in 0 .. num_xfers /\ Head(done) \in 0 .. num_xfers /\ cb' \in {cb, Head(done)}
          BY <2>1, <3>1 DEF TypeInv, Xfers
        <4>2. ended' \subseteq Xfers /\ pkt' \in 1 .. pkts + 1
          BY <2>1, <3>1, <3>2 DEF TypeInv
        <4>3. QED
          BY <4>1, <4>2
    <2>3. QED
      BY <1>8, <2>1, <2>2 DEF TypeInv, Reap
  <1>9. ASSUME HandOn PROVE TypeInv'
    <2>1. expected' \in 0 .. NTags - 1
      <3>1. cb \in Xfers /\ pkt \in 1 .. pkts
        BY <1>9 DEF TypeInv, Xfers, HandOn
      <3>2. buffer[cb][pkt] \in 0 .. NTags - 1
        BY <3>1 DEF TypeInv
      <3>3. expected' = (buffer[cb][pkt] + 1) % NTags
        BY <1>9 DEF HandOn, Packet
      <3>4. QED
        BY <3>2, <3>3
    <2>2. pkt' \in 1 .. pkts + 1
      BY <1>9 DEF TypeInv, HandOn
    <2>3. QED
      BY <1>9, <2>1, <2>2 DEF TypeInv, HandOn
  <1>10. ASSUME Resubmit PROVE TypeInv'
    <2>1. cb \in Xfers
      BY <1>10 DEF TypeInv, Xfers, Resubmit
    <2>2. Append(flying, cb) \in Seq(Xfers)
      BY <2>1, AppendIn DEF TypeInv
    <2>3. flying' \in Seq(Xfers) /\ refused' \subseteq Xfers
      BY <1>10, <2>1, <2>2 DEF TypeInv, Resubmit, Submit
    <2>4. i' \in 1 .. num_xfers + 1 /\ cb' \in 0 .. num_xfers
      BY <1>10 DEF TypeInv, Xfers, Resubmit
    <2>5. QED
      BY <1>10, <2>3, <2>4 DEF TypeInv, Resubmit
  <1>11. ASSUME Serve PROVE TypeInv'
    <2>1. Head(flying) \in Xfers /\ flying' \in Seq(Xfers) /\ done' \in Seq(Xfers)
      BY <1>11, TailIn, AppendIn DEF TypeInv, Serve
    <2>2. [k \in 1 .. pkts |-> (sent + k - 1) % NTags] \in [1 .. pkts -> 0 .. NTags - 1]
      BY DEF TypeInv
    <2>3. sent' \in 0 .. NTags - 1
      BY <1>11 DEF TypeInv, Serve
    <2>4. buffer' \in [Xfers -> [1 .. pkts -> 0 .. NTags - 1]]
      BY <1>11, <2>1, <2>2 DEF TypeInv, Serve
    <2>5. status' \in [Xfers -> {"completed", "cancelled", "error"}]
      BY <1>11, <2>1 DEF TypeInv, Serve
    <2>6. QED
      BY <1>11, <2>1, <2>3, <2>4, <2>5 DEF TypeInv, Serve
  <1>12. ASSUME ServeError PROVE TypeInv'
    <2>1. Head(flying) \in Xfers /\ flying' \in Seq(Xfers) /\ done' \in Seq(Xfers)
      BY <1>12, TailIn, AppendIn DEF TypeInv, ServeError
    <2>2. QED
      BY <1>12, <2>1 DEF TypeInv, ServeError
  <1>13. CASE UNCHANGED vars
    BY <1>13 DEF TypeInv, vars
  <1>14. QED
    BY <1>1, <1>2, <1>3, <1>4, <1>5, <1>6, <1>7, <1>8, <1>9, <1>10, <1>11, <1>12, <1>13 DEF Next, Starter, Stopper, Pump, Kernel

\* The transfers that have ended are counted once each.
LEMMA EndedCounted ==
  ASSUME IsoAssumption, TypeInv, CountInv
  PROVE  /\ IsFiniteSet(ended) /\ dead_xfers \in 0 .. num_xfers
         /\ dead_xfers >= num_xfers => ended = Xfers
  <1>1. IsFiniteSet(Xfers) /\ Cardinality(Xfers) = num_xfers
    BY UpTo DEF IsoAssumption, Xfers
  <1>2. ended \subseteq Xfers
    BY DEF TypeInv
  <1>3. /\ IsFiniteSet(ended) /\ Cardinality(ended) <= Cardinality(Xfers)
        /\ Cardinality(ended) = Cardinality(Xfers) => ended = Xfers
    BY <1>1, <1>2, FS_Subset
  <1>4. Cardinality(ended) \in Nat
    BY <1>3, FS_CardinalityType
  <1>5. QED
    BY <1>1, <1>3, <1>4 DEF CountInv, IsoAssumption

\* Every step keeps the count.
LEMMA CountStep ==
  ASSUME IsoAssumption PROVE TypeInv /\ CountInv /\ PlaceInv /\ [Next]_vars => CountInv'
  <1> SUFFICES ASSUME TypeInv, CountInv, PlaceInv, [Next]_vars
               PROVE  CountInv'
    OBVIOUS
  <1> USE IsoAssumption DEF IsoAssumption, strmVars, kernelVars, cbVars
  <1>1. ASSUME Start PROVE CountInv'
    BY <1>1, FS_EmptySet DEF CountInv, Start
  <1>2. ASSUME StartSubmit PROVE CountInv'
    BY <1>2 DEF CountInv, StartSubmit, Submit
  <1>3. ASSUME Started PROVE CountInv'
    BY <1>3 DEF CountInv, Started
  <1>4. ASSUME Stop PROVE CountInv'
    BY <1>4 DEF CountInv, Stop
  <1>5. ASSUME Cancel PROVE CountInv'
    BY <1>5 DEF CountInv, Cancel
  <1>6. ASSUME Cancelled PROVE CountInv'
    BY <1>6 DEF CountInv, Cancelled
  <1>7. ASSUME Drained PROVE CountInv'
    BY <1>7, FS_EmptySet DEF CountInv, Drained
  <1>8. ASSUME Reap PROVE CountInv'
    <2> DEFINE x == Head(done)
    <2>1. x \in Xfers /\ x \in ToSet(done)
      BY <1>8, TailIn DEF TypeInv, Reap
    <2>2. x \notin ended
      BY <2>1 DEF PlaceInv, InPlace
    <2>3. Cardinality(ended \cup {x}) = Cardinality(ended) + 1
      BY <2>2, EndedCounted, FS_AddElement
    <2>4. QED
      BY <1>8, <2>3 DEF CountInv, Reap, CountDead
  <1>9. ASSUME HandOn PROVE CountInv'
    BY <1>9 DEF CountInv, HandOn, Packet
  <1>10. ASSUME Resubmit PROVE CountInv'
    BY <1>10 DEF CountInv, Resubmit, Submit
  <1>11. ASSUME Serve PROVE CountInv'
    BY <1>11 DEF CountInv, Serve
  <1>12. ASSUME ServeError PROVE CountInv'
    BY <1>12 DEF CountInv, ServeError
  <1>13. CASE UNCHANGED vars
    BY <1>13 DEF CountInv, vars
  <1>14. QED
    BY <1>1, <1>2, <1>3, <1>4, <1>5, <1>6, <1>7, <1>8, <1>9, <1>10, <1>11, <1>12, <1>13 DEF Next, Starter, Stopper, Pump, Kernel

\* No transfer moves.
LEMMA PlaceQuiet ==
  ASSUME PlaceInv, UNCHANGED <<flying, done, cb, ended, refused>>,
         \A x \in Xfers : Begun(x)' <=> Begun(x)
  PROVE  PlaceInv'
  BY DEF PlaceInv, InPlace

\* A transfer that is in no place, or in its callback, is submitted.
LEMMA SubmitPlace ==
  ASSUME TypeInv, PlaceInv, NEW x \in Xfers, Submit(x), UNCHANGED <<done, ended>>,
         \A y \in Xfers : Begun(y)' <=> Begun(y) \/ y = x,
         x \notin ToSet(flying), x \notin ToSet(done), x \notin ended, x \notin refused, x # cb',
         \A y \in Xfers : y = cb' <=> y = cb /\ y # x
  PROVE  PlaceInv'
  <1>1. CASE flying' = Append(flying, x) /\ UNCHANGED refused
    <2>1. flying \in Seq(Xfers) /\ IsInjective(flying)
      BY DEF TypeInv, PlaceInv
    <2>2. IsInjective(flying') /\ ToSet(flying') = ToSet(flying) \cup {x}
      BY <1>1, <2>1, AppendIn
    <2>3. QED
      BY <1>1, <2>2 DEF PlaceInv, InPlace
  <1>2. CASE refused' = refused \cup {x} /\ UNCHANGED flying
    BY <1>2 DEF PlaceInv, InPlace
  <1>3. QED
    BY <1>1, <1>2 DEF Submit

\* Every step keeps each transfer in its place.
LEMMA PlaceStep ==
  ASSUME IsoAssumption PROVE TypeInv /\ CountInv /\ PlaceInv /\ [Next]_vars => PlaceInv'
  <1> SUFFICES ASSUME TypeInv, CountInv, PlaceInv, [Next]_vars
               PROVE  PlaceInv'
    OBVIOUS
  <1> USE IsoAssumption DEF IsoAssumption, strmVars, kernelVars, cbVars
  <1>1. ASSUME Start PROVE PlaceInv'
    <2>1. \A x \in Xfers : ~Begun(x)' /\ ~Begun(x)
      BY <1>1 DEF Begun, Xfers, Start
    <2>2. QED
      BY <1>1, <2>1 DEF PlaceInv, InPlace, Start
  <1>2. ASSUME StartSubmit PROVE PlaceInv'
    <2>1. i \in Xfers /\ UNCHANGED <<done, ended>> /\ Submit(i)
      BY <1>2 DEF TypeInv, Xfers, StartSubmit
    <2>2. \A y \in Xfers : Begun(y)' <=> Begun(y) \/ y = i
      BY <1>2, <2>1 DEF TypeInv, Xfers, PlaceInv, InPlace, Begun, StartSubmit
    <2>3. /\ i \notin ToSet(flying) /\ i \notin ToSet(done) /\ i \notin ended
          /\ i \notin refused /\ i # cb'
      BY <1>2, <2>1 DEF TypeInv, Xfers, PlaceInv, InPlace, Begun, StartSubmit
    <2>4. \A y \in Xfers : y = cb' <=> y = cb /\ y # i
      BY <1>2, <2>1, <2>3 DEF Xfers, PlaceInv, InPlace, Begun, StartSubmit
    <2>5. QED
      BY <2>1, <2>2, <2>3, <2>4, SubmitPlace
  <1>3. ASSUME Started PROVE PlaceInv'
    BY <1>3, PlaceQuiet DEF TypeInv, Xfers, Begun, Started
  <1>4. ASSUME Stop PROVE PlaceInv'
    BY <1>4, PlaceQuiet DEF TypeInv, Xfers, Begun, Stop
  <1>5. ASSUME Cancel PROVE PlaceInv'
    <2>1. \A x \in Xfers : Begun(x)' /\ Begun(x)
      BY <1>5 DEF Begun, Cancel
    <2>2. UNCHANGED <<cb, ended, refused>>
      BY <1>5 DEF Cancel
    <2>3. CASE i \notin ToSet(flying) /\ UNCHANGED <<flying, done>>
      BY <2>1, <2>2, <2>3, PlaceQuiet
    <2>4. ASSUME NEW k \in DOMAIN flying, flying[k] = i, flying' = RemoveAt(flying, k), done' = Append(done, i)
          PROVE  PlaceInv'
      <3>1. i \in ToSet(flying) /\ i \in Xfers
        BY <1>5, <2>4 DEF ToSet, Cancel
      <3>2. i \notin ToSet(done)
        BY <3>1 DEF PlaceInv, InPlace
      <3>3. IsInjective(flying') /\ ToSet(flying') = ToSet(flying) \ {i}
        BY <2>4, RemoveIn DEF TypeInv, PlaceInv
      <3>4. IsInjective(done') /\ ToSet(done') = ToSet(done) \cup {i}
        BY <2>4, <3>1, <3>2, AppendIn DEF TypeInv, PlaceInv
      <3>5. QED
        BY <2>1, <2>2, <3>1, <3>3, <3>4 DEF PlaceInv, InPlace
    <2>5. QED
      BY <1>5, <2>3, <2>4 DEF Cancel
  <1>6. ASSUME Cancelled PROVE PlaceInv'
    BY <1>6, PlaceQuiet DEF TypeInv, Xfers, Begun, Cancelled
  <1>7. ASSUME Drained PROVE PlaceInv'
    <2>1. ended = Xfers
      BY <1>7, EndedCounted DEF Drained
    <2>2. \A x \in Xfers : ~Begun(x)'
      BY <1>7 DEF Begun, Drained
    <2>3. QED
      BY <1>7, <2>1, <2>2 DEF PlaceInv, InPlace, Drained
  <1>8. ASSUME Reap PROVE PlaceInv'
    <2> DEFINE x == Head(done)
    <2>1. /\ x \in Xfers /\ x \in ToSet(done) /\ IsInjective(done')
          /\ ToSet(done') = ToSet(done) \ {x}
      <3>1. x \in Xfers /\ ToSet(done) = ToSet(done') \cup {x} /\ IsInjective(done') /\ x \notin ToSet(done')
        BY <1>8, TailIn DEF TypeInv, PlaceInv, Reap
      <3>2. QED
        BY <3>1
    <2>2. \A y \in Xfers : Begun(y)' <=> Begun(y)
      BY <1>8 DEF Begun, Reap
    <2>3. UNCHANGED <<flying, refused>> /\ cb = 0
      BY <1>8 DEF Reap
    <2>4. \/ ended' = ended \cup {x} /\ UNCHANGED cb
          \/ ended' = ended /\ cb' = x
      BY <1>8 DEF Reap, CountDead
    <2> HIDE DEF x
    <2>5. x # 0
      BY <2>1 DEF Xfers
    <2>6. CASE ended' = ended \cup {x} /\ UNCHANGED cb
      BY <2>1, <2>2, <2>3, <2>5, <2>6 DEF PlaceInv, InPlace
    <2>7. CASE ended' = ended /\ cb' = x
      <3>1. \A y \in Xfers : y # 0
        BY DEF Xfers
      <3>2. QED
        BY <2>1, <2>2, <2>3, <2>7, <3>1 DEF PlaceInv, InPlace
    <2>8. QED
      BY <2>4, <2>6, <2>7
  <1>9. ASSUME HandOn PROVE PlaceInv'
    BY <1>9, PlaceQuiet DEF TypeInv, Xfers, Begun, HandOn
  <1>10. ASSUME Resubmit PROVE PlaceInv'
    <2>1. cb \in Xfers /\ UNCHANGED <<done, ended>> /\ Submit(cb)
      BY <1>10 DEF TypeInv, Xfers, Resubmit
    <2>2. \A y \in Xfers : Begun(y)' <=> Begun(y) \/ y = cb
      BY <1>10, <2>1 DEF TypeInv, Xfers, PlaceInv, InPlace, Begun, Resubmit
    <2>3. /\ cb \notin ToSet(flying) /\ cb \notin ToSet(done) /\ cb \notin ended
          /\ cb \notin refused /\ cb # cb'
      BY <1>10, <2>1 DEF TypeInv, Xfers, PlaceInv, InPlace, Begun, Resubmit
    <2>4. \A y \in Xfers : y = cb' <=> y = cb /\ y # cb
      BY <1>10, <2>1, <2>3 DEF Xfers, PlaceInv, InPlace, Begun, Resubmit
    <2>5. QED
      BY <2>1, <2>2, <2>3, <2>4, SubmitPlace
  <1>11. ASSUME Serve PROVE PlaceInv'
    <2> DEFINE x == Head(flying)
    <2>1. /\ x \in Xfers /\ x \in ToSet(flying) /\ IsInjective(flying')
          /\ ToSet(flying') = ToSet(flying) \ {x}
      <3>1. x \in Xfers /\ ToSet(flying) = ToSet(flying') \cup {x} /\ IsInjective(flying') /\ x \notin ToSet(flying')
        BY <1>11, TailIn DEF TypeInv, PlaceInv, Serve
      <3>2. QED
        BY <3>1
    <2>2. x \notin ToSet(done)
      BY <2>1 DEF PlaceInv, InPlace
    <2>3. done' = Append(done, x)
      BY <1>11 DEF Serve
    <2>4. IsInjective(done') /\ ToSet(done') = ToSet(done) \cup {x}
      BY <2>1, <2>2, <2>3, AppendIn DEF TypeInv, PlaceInv
    <2>5. \A y \in Xfers : Begun(y)' <=> Begun(y)
      BY <1>11 DEF Begun, Serve
    <2>6. UNCHANGED <<cb, ended, refused>>
      BY <1>11 DEF Serve
    <2> HIDE DEF x
    <2>7. QED
      BY <2>1, <2>4, <2>5, <2>6 DEF PlaceInv, InPlace
  <1>12. ASSUME ServeError PROVE PlaceInv'
    <2> DEFINE x == Head(flying)
    <2>1. /\ x \in Xfers /\ x \in ToSet(flying) /\ IsInjective(flying')
          /\ ToSet(flying') = ToSet(flying) \ {x}
      <3>1. x \in Xfers /\ ToSet(flying) = ToSet(flying') \cup {x} /\ IsInjective(flying') /\ x \notin ToSet(flying')
        BY <1>12, TailIn DEF TypeInv, PlaceInv, ServeError
      <3>2. QED
        BY <3>1
    <2>2. x \notin ToSet(done)
      BY <2>1 DEF PlaceInv, InPlace
    <2>3. done' = Append(done, x)
      BY <1>12 DEF ServeError
    <2>4. IsInjective(done') /\ ToSet(done') = ToSet(done) \cup {x}
      BY <2>1, <2>2, <2>3, AppendIn DEF TypeInv, PlaceInv
    <2>5. \A y \in Xfers : Begun(y)' <=> Begun(y)
      BY <1>12 DEF Begun, ServeError
    <2>6. UNCHANGED <<cb, ended, refused>>
      BY <1>12 DEF ServeError
    <2> HIDE DEF x
    <2>7. QED
      BY <2>1, <2>4, <2>5, <2>6 DEF PlaceInv, InPlace
  <1>13. CASE UNCHANGED vars
    BY <1>13 DEF PlaceInv, InPlace, Begun, vars
  <1>14. QED
    BY <1>1, <1>2, <1>3, <1>4, <1>5, <1>6, <1>7, <1>8, <1>9, <1>10, <1>11, <1>12, <1>13 DEF Next, Starter, Stopper, Pump, Kernel

\* Numbering modulo NTags, as far as one transfer goes
LEMMA Numbering ==
  ASSUME IsoAssumption, NEW a \in 0 .. NTags - 1, NEW k \in 1 .. pkts
  PROVE  /\ (a + 1 - 1) % NTags = a
         /\ (((a + k - 1) % NTags) + 1) % NTags = (a + k) % NTags
         /\ (((a + k - 1) % NTags) + 1) % NTags = (a + (k + 1) - 1) % NTags
  <1> DEFINE N == NTags
  <1>1. N \in Nat /\ N > 0 /\ pkts \in Nat /\ pkts < N
    <2>1. num_xfers \in Nat /\ pkts \in Nat /\ NTags \in Nat /\ NTags > (num_xfers + 1) * pkts
      BY DEF IsoAssumption
    <2>2. (num_xfers + 1) * pkts >= pkts
      BY <2>1
    <2>3. QED
      BY <2>1, <2>2
  <1>2. \A x \in 0 .. N - 1 : x % N = x
    BY <1>1
  <1>3. \A x \in N .. 2 * N - 1 : x % N = x - N
    BY <1>1
  <1> a \in 0 .. N - 1
    OBVIOUS
  <1> HIDE DEF N
  <1>4. a + k - 1 \in 0 .. 2 * N - 2 /\ a + k \in 1 .. 2 * N - 1
    BY <1>1
  <1>5. CASE a + k < N
    BY <1>1, <1>2, <1>4, <1>5 DEF N
  <1>6. CASE a + k = N
    <2>1. (a + k - 1) % N = N - 1 /\ N % N = 0
      BY <1>1, <1>2, <1>3, <1>4, <1>6
    <2>2. QED
      BY <1>1, <1>2, <1>6, <2>1 DEF N
  <1>7. CASE a + k > N
    <2>1. (a + k - 1) % N = a + k - 1 - N /\ (a + k) % N = a + k - N
      BY <1>1, <1>3, <1>4, <1>7
    <2>2. a + k - N \in 0 .. N - 1 /\ a + k - 1 - N + 1 = a + k - N
      BY <1>1, <1>4, <1>7
    <2>3. QED
      BY <1>1, <1>2, <2>1, <2>2 DEF N
  <1>8. QED
    BY <1>1, <1>4, <1>5, <1>6, <1>7

\* Nothing that the chain is made of changes.
LEMMA ChainQuiet ==
  ASSUME Chain, UNCHANGED <<done, status, buffer, sent>>, NextUp' = NextUp
  PROVE  Chain'
  <1>1. \A k : (Good(k)' <=> Good(k)) /\ (FirstGood(k)' <=> FirstGood(k)) /\ (LastGood(k)' <=> LastGood(k))
    BY DEF Good, FirstGood, LastGood
  <1>2. \A j, k : Linked(j, k)' <=> Linked(j, k)
    BY DEF Good, Linked
  <1>3. \A x : After(x)' = After(x) /\ (InARow(x)' <=> InARow(x))
    BY DEF After, InARow
  <1>4. QED
    BY <1>1, <1>2, <1>3 DEF Chain

\* The head of the queue is taken out: with an error it is passed over,
\* otherwise its packets come next.
LEMMA ChainReap ==
  ASSUME Chain, done \in Seq(Xfers), done # <<>>, done' = Tail(done), UNCHANGED <<status, buffer, sent>>,
         IF Good(1) THEN NextUp' = After(done[1]) ELSE NextUp' = NextUp
  PROVE  Chain' /\ (Good(1) => InARow(done[1]) /\ buffer[done[1]][1] = NextUp)
  <1>1. Len(done) \in Nat \ {0} /\ Len(done') = Len(done) - 1 /\ \A k \in 1 .. Len(done') : done'[k] = done[k + 1]
    BY HeadTailProperties
  <1>2. \A k \in 1 .. Len(done') : k + 1 \in 1 .. Len(done) /\ (Good(k)' <=> Good(k + 1))
    BY <1>1 DEF Good
  <1>3. \A m \in 2 .. Len(done) : m - 1 \in 1 .. Len(done') /\ (Good(m) <=> Good(m - 1)')
    <2>1. \A m \in 2 .. Len(done) : m - 1 \in 1 .. Len(done') /\ done'[m - 1] = done[m]
      <3>1. ASSUME NEW m \in 2 .. Len(done), NEW k, k = m - 1
            PROVE  k \in 1 .. Len(done') /\ done'[k] = done[m]
        <4>1. k \in 1 .. Len(done') /\ k + 1 = m
          BY <1>1, <3>1
        <4>2. done'[k] = done[k + 1]
          BY <1>1, <4>1
        <4>3. QED
          BY <4>1, <4>2
      <3>2. QED
        BY <3>1
    <2>2. QED
      BY <2>1 DEF Good
  <1>4. \A x : After(x)' = After(x) /\ (InARow(x)' <=> InARow(x))
    BY DEF After, InARow
  <1>5. \A k \in 1 .. Len(done') : Good(k)' => (InARow(done[k]))'
    BY <1>1, <1>2, <1>4 DEF Chain
  <1>6. ASSUME NEW k \in 1 .. Len(done'), FirstGood(k)' PROVE (buffer[done[k]][1])' = NextUp'
    <2>1. Good(k + 1) /\ \A j \in 2 .. k : ~Good(j)
      <3>1. \A j \in 2 .. k : j - 1 \in 1 .. k - 1 /\ j \in 2 .. Len(done)
        BY <1>1
      <3>2. \A j \in 2 .. k : ~Good(j)
        BY <1>3, <1>6, <3>1 DEF FirstGood
      <3>3. QED
        BY <1>2, <1>6, <3>2 DEF FirstGood
    <2>2. CASE Good(1)
      <3>1. Linked(1, k + 1)
        BY <1>1, <2>1, <2>2 DEF Linked
      <3>2. QED
        BY <1>1, <1>2, <2>2, <3>1 DEF Chain
    <2>3. CASE ~Good(1)
      <3>1. FirstGood(k + 1)
        BY <1>1, <2>1, <2>3 DEF FirstGood
      <3>2. QED
        BY <1>1, <1>2, <2>3, <3>1 DEF Chain
    <2>4. QED
      BY <2>2, <2>3
  <1>7. ASSUME NEW j \in 1 .. Len(done'), NEW k \in 1 .. Len(done'), Linked(j, k)'
        PROVE  (buffer[done[k]][1])' = (After(done[j]))'
    <2>1. \A m \in j + 2 .. k : m - 1 \in j + 1 .. k - 1 /\ m \in 2 .. Len(done)
      BY <1>1
    <2>2. \A m \in j + 2 .. k : ~Good(m)
      BY <1>3, <1>7, <2>1 DEF Linked
    <2>3. Linked(j + 1, k + 1)
      BY <1>1, <1>2, <1>7, <2>2 DEF Linked
    <2>4. QED
      BY <1>1, <1>2, <1>4, <2>3 DEF Chain
  <1>8. ASSUME NEW k \in 1 .. Len(done'), LastGood(k)' PROVE sent' = (After(done[k]))'
    <2>1. \A m \in k + 2 .. Len(done) : m - 1 \in k + 1 .. Len(done') /\ m \in 2 .. Len(done)
      BY <1>1
    <2>2. \A m \in k + 2 .. Len(done) : ~Good(m)
      BY <1>3, <1>8, <2>1 DEF LastGood
    <2>3. LastGood(k + 1)
      BY <1>1, <1>2, <1>8, <2>2 DEF LastGood
    <2>4. QED
      BY <1>1, <1>2, <1>4, <2>3 DEF Chain
  <1>9. ASSUME \A k \in 1 .. Len(done') : ~Good(k)' PROVE sent' = NextUp'
    <2>1. \A m \in 2 .. Len(done) : ~Good(m)
      BY <1>3, <1>9
    <2>2. CASE Good(1)
      BY <1>1, <2>1, <2>2 DEF Chain, LastGood
    <2>3. CASE ~Good(1)
      BY <1>1, <2>1, <2>3 DEF Chain
    <2>4. QED
      BY <2>2, <2>3
  <1>10. Good(1) => InARow(done[1]) /\ buffer[done[1]][1] = NextUp
    BY <1>1 DEF Chain, FirstGood
  <1>11. QED
    BY <1>5, <1>6, <1>7, <1>8, <1>9, <1>10 DEF Chain

\* A transfer comes to the end of the queue: with the camera's next packets,
\* or with an error.
LEMMA ChainServe ==
  ASSUME Chain, done \in Seq(Xfers), NEW x \in Xfers, x \notin ToSet(done), x # cb,
         done' = Append(done, x), UNCHANGED <<cb, expected>>,
         \A y : y # x => status'[y] = status[y] /\ buffer'[y] = buffer[y],
         \/ status'[x] = "error" /\ sent' = sent
         \/ status'[x] = "completed" /\ InARow(x)' /\ (buffer[x][1])' = sent /\ sent' = (After(x))'
  PROVE  Chain'
  <1>1. PICK n \in Nat : n = Len(done)
    OBVIOUS
  <1>2. /\ n \in Nat /\ Len(done') = n + 1 /\ done'[n + 1] = x
        /\ \A k \in 1 .. n : done'[k] = done[k] /\ done[k] # x
    BY <1>1, AppendProperties DEF ToSet
  <1>3. \A k \in 1 .. n : (Good(k)' <=> Good(k))
    BY <1>2 DEF Good
  <1>4. Good(n + 1)' <=> status'[x] = "completed"
    BY <1>2 DEF Good
  <1>5. \A y : y # x => (After(y))' = After(y) /\ (InARow(y)' <=> InARow(y))
    BY DEF After, InARow
  <1>6. NextUp' = NextUp
    <2>1. cb # 0 => (After(cb))' = After(cb)
      BY DEF After
    <2>2. QED
      BY <2>1 DEF NextUp
  <1>7. 1 .. Len(done') = (1 .. n) \cup {n + 1}
    BY <1>2
  <1>8. ASSUME NEW k \in 1 .. Len(done'), Good(k)' PROVE (InARow(done[k]))'
    <2>1. CASE k \in 1 .. n
      <3>1. InARow(done[k])
        BY <1>1, <1>3, <1>8, <2>1 DEF Chain
      <3>2. QED
        BY <1>2, <1>5, <2>1, <3>1 DEF InARow
    <2>2. CASE k = n + 1
      BY <1>2, <1>4, <1>8, <2>2 DEF InARow
    <2>3. QED
      BY <1>7, <2>1, <2>2
  <1>9. ASSUME NEW k \in 1 .. Len(done'), FirstGood(k)' PROVE (buffer[done[k]][1])' = NextUp'
    <2>1. CASE k \in 1 .. n
      <3>1. \A j \in 1 .. k - 1 : j \in 1 .. n
        BY <1>2, <2>1
      <3>2. FirstGood(k)
        BY <1>3, <1>9, <2>1, <3>1 DEF FirstGood
      <3>3. QED
        BY <1>1, <1>2, <1>6, <2>1, <3>2 DEF Chain
    <2>2. CASE k = n + 1
      <3>1. \A j \in 1 .. n : ~Good(j)
        BY <1>2, <1>3, <1>9, <2>2 DEF FirstGood
      <3>2. sent = NextUp /\ status'[x] = "completed"
        BY <1>1, <1>4, <1>9, <2>2, <3>1 DEF Chain, FirstGood
      <3>3. QED
        BY <1>2, <1>6, <2>2, <3>2
    <2>3. QED
      BY <1>7, <2>1, <2>2
  <1>10. ASSUME NEW j \in 1 .. Len(done'), NEW k \in 1 .. Len(done'), Linked(j, k)'
        PROVE  (buffer[done[k]][1])' = (After(done[j]))'
    <2>1. j \in 1 .. n
      BY <1>2, <1>10 DEF Linked
    <2>2. (After(done[j]))' = After(done[j])
      BY <1>2, <1>5, <2>1 DEF After
    <2>3. CASE k \in 1 .. n
      <3>1. \A m \in j + 1 .. k - 1 : m \in 1 .. n
        BY <1>2, <2>1, <2>3
      <3>2. Linked(j, k)
        BY <1>3, <1>10, <2>1, <2>3, <3>1 DEF Linked
      <3>3. QED
        BY <1>1, <1>2, <2>1, <2>2, <2>3, <3>2 DEF Chain
    <2>4. CASE k = n + 1
      <3>1. \A m \in j + 1 .. n : m \in 1 .. n /\ m \in j + 1 .. k - 1
        BY <1>2, <2>1, <2>4
      <3>2. LastGood(j)
        BY <1>1, <1>3, <1>10, <2>1, <3>1 DEF Linked, LastGood
      <3>3. sent = After(done[j]) /\ status'[x] = "completed"
        BY <1>1, <1>4, <1>10, <2>1, <2>4, <3>2 DEF Chain, Linked
      <3>4. QED
        BY <1>2, <2>2, <2>4, <3>3
    <2>5. QED
      BY <1>7, <2>3, <2>4
  <1>11. ASSUME NEW k \in 1 .. Len(done'), LastGood(k)' PROVE sent' = (After(done[k]))'
    <2>1. CASE status'[x] = "completed"
      <3>1. k = n + 1
        BY <1>2, <1>4, <1>11, <2>1 DEF LastGood
      <3>2. QED
        BY <1>2, <2>1, <3>1 DEF After
    <2>2. CASE status'[x] = "error" /\ sent' = sent
      <3>1. k \in 1 .. n
        BY <1>4, <1>7, <1>11, <2>2 DEF LastGood
      <3>2. \A j \in k + 1 .. n : j \in 1 .. n /\ j \in k + 1 .. Len(done')
        BY <1>2, <3>1
      <3>3. LastGood(k)
        BY <1>1, <1>3, <1>11, <3>1, <3>2 DEF LastGood
      <3>4. QED
        BY <1>1, <1>2, <1>5, <2>2, <3>1, <3>3 DEF Chain, After
    <2>3. QED
      BY <2>1, <2>2
  <1>12. ASSUME \A k \in 1 .. Len(done') : ~Good(k)' PROVE sent' = NextUp'
    <2>1. \A k \in 1 .. n : ~Good(k)
      BY <1>3, <1>7, <1>12
    <2>2. status'[x] # "completed"
      BY <1>4, <1>7, <1>12
    <2>3. QED
      BY <1>1, <1>6, <2>1, <2>2 DEF Chain
  <1>13. QED
    BY <1>8, <1>9, <1>10, <1>11, <1>12 DEF Chain

\* Every step keeps the packets in the camera's order.
LEMMA OrderStep ==
  ASSUME IsoAssumption PROVE TypeInv /\ PlaceInv /\ OrderInv /\ [Next]_vars => OrderInv'
  <1> SUFFICES ASSUME TypeInv, PlaceInv, OrderInv, [Next]_vars
               PROVE  OrderInv'
    OBVIOUS
  <1> USE IsoAssumption DEF IsoAssumption, strmVars, kernelVars, cbVars
  <1>1. ASSUME Start PROVE OrderInv'
    <2>1. ToSet(done) = {} /\ cb = 0
      <3>1. \A x \in Xfers : x \notin ToSet(done) /\ x # cb
        BY <1>1 DEF PlaceInv, InPlace, Begun, Start
      <3>2. ToSet(done) \subseteq Xfers
        BY QueueElements DEF TypeInv
      <3>3. cb = 0
        <4>1. cb \notin Xfers
          BY <3>1
        <4>2. cb \in 0 .. num_xfers
          BY DEF TypeInv
        <4>3. QED
          BY <4>1, <4>2 DEF Xfers
      <3>4. QED
        BY <3>1, <3>2, <3>3
    <2>2. done = <<>>
      BY <2>1, TailIn DEF TypeInv, ToSet
    <2>3. Len(done') = 0
      BY <1>1, <2>2 DEF Start
    <2>4. Chain'
      BY <1>1, <2>1, <2>3 DEF Chain, NextUp, Start
    <2>5. QED
      BY <1>1, <2>1, <2>4 DEF OrderInv, CallbackDue, Start
  <1>2. ASSUME StartSubmit PROVE OrderInv'
    <2>1. UNCHANGED <<done, status, buffer, sent, cb, pkt, expected, dead>> /\ pc \in {"starting", "running"} /\ pc' \in {pc, "running"}
      BY <1>2 DEF StartSubmit
    <2>2. CallbackDue' <=> CallbackDue
      BY <2>1 DEF CallbackDue, InARow, After
    <2>3. NextUp' = NextUp
      BY <2>1 DEF NextUp, After
    <2>4. QED
      BY <2>1, <2>2, <2>3, ChainQuiet DEF OrderInv
  <1>3. ASSUME Started PROVE OrderInv'
    <2>1. UNCHANGED <<done, status, buffer, sent, cb, pkt, expected, dead>> /\ pc \in {"starting", "running"} /\ pc' \in {pc, "running"}
      BY <1>3 DEF Started
    <2>2. CallbackDue' <=> CallbackDue
      BY <2>1 DEF CallbackDue, InARow, After
    <2>3. NextUp' = NextUp
      BY <2>1 DEF NextUp, After
    <2>4. QED
      BY <2>1, <2>2, <2>3, ChainQuiet DEF OrderInv
  <1>4. ASSUME Stop PROVE OrderInv'
    BY <1>4 DEF OrderInv, Stop
  <1>5. ASSUME Cancel PROVE OrderInv'
    BY <1>5 DEF OrderInv, Cancel
  <1>6. ASSUME Cancelled PROVE OrderInv'
    BY <1>6 DEF OrderInv, Cancelled
  <1>7. ASSUME Drained PROVE OrderInv'
    BY <1>7 DEF OrderInv, Drained
  <1>8. ASSUME Reap PROVE OrderInv'
    <2>1. CASE dead
      BY <1>8, <2>1 DEF OrderInv, Reap, CountDead, Pumping
    <2>2. CASE ~dead
      <3>1. /\ pc = "running" /\ pc' = pc /\ cb = 0 /\ dead' = dead /\ Chain
            /\ done # <<>> /\ done' = Tail(done) /\ UNCHANGED <<status, buffer, sent, expected>>
        BY <1>8, <2>2 DEF OrderInv, Reap, Pumping
      <3>2. done \in Seq(Xfers) /\ Head(done) = done[1] /\ Head(done) \in Xfers
        BY <3>1, TailIn DEF TypeInv
      <3>3. CASE Good(1)
        <4>1. cb' = done[1] /\ pkt' = 1
          BY <1>8, <2>2, <3>2, <3>3 DEF Reap, Good
        <4>2. NextUp' = After(done[1]) /\ NextUp = expected
          BY <3>1, <3>2, <4>1 DEF NextUp, After, Xfers
        <4>3. Chain' /\ InARow(done[1]) /\ buffer[done[1]][1] = NextUp
          BY <3>1, <3>2, <3>3, <4>2, ChainReap
        <4>4. CallbackDue'
          BY <3>1, <4>1, <4>2, <4>3 DEF CallbackDue, InARow
        <4>5. QED
          BY <2>2, <3>1, <4>3, <4>4 DEF OrderInv
      <3>4. CASE ~Good(1)
        <4>1. cb' = cb
          BY <1>8, <3>2, <3>4 DEF Reap, CountDead, Good
        <4>2. NextUp' = NextUp
          BY <3>1, <4>1 DEF NextUp
        <4>3. Chain'
          BY <3>1, <3>2, <3>4, <4>2, ChainReap
        <4>4. QED
          BY <2>2, <3>1, <4>1, <4>3 DEF OrderInv, CallbackDue
      <3>5. QED
        BY <3>3, <3>4
    <2>3. QED
      BY <2>1, <2>2
  <1>9. ASSUME HandOn PROVE OrderInv'
    <2>1. /\ cb # 0 /\ pc = "running" /\ ~dead /\ InARow(cb) /\ Chain /\ pkt \in 1 .. pkts
          /\ UNCHANGED <<pc, cb, dead, done, status, buffer, sent>>
          /\ pkt' = pkt + 1 /\ expected' = (buffer[cb][pkt] + 1) % NTags
      BY <1>9 DEF OrderInv, CallbackDue, TypeInv, HandOn, Packet
    <2>2. NextUp' = NextUp
      BY <2>1 DEF NextUp, After
    <2>3. InARow(cb)'
      BY <2>1 DEF InARow
    <2>4. CASE pkt = pkts
      BY <2>1, <2>2, <2>3, <2>4, ChainQuiet DEF OrderInv, CallbackDue, After
    <2>5. CASE pkt # pkts
      <3>1. pkt \in 1 .. pkts - 1 /\ pkt' <= pkts
        BY <2>1, <2>5
      <3>2. expected' = buffer[cb][pkt + 1]
        BY <2>1, <3>1 DEF InARow
      <3>3. QED
        BY <2>1, <2>2, <2>3, <3>1, <3>2, ChainQuiet DEF OrderInv, CallbackDue
    <2>6. QED
      BY <2>4, <2>5
  <1>10. ASSUME Resubmit PROVE OrderInv'
    <2>1. /\ cb # 0 /\ pc = "running" /\ ~dead /\ Chain /\ expected = After(cb)
          /\ cb' = 0 /\ UNCHANGED <<pc, dead, done, status, buffer, sent, expected>>
      BY <1>10 DEF OrderInv, CallbackDue, TypeInv, Resubmit
    <2>2. NextUp' = NextUp
      BY <2>1 DEF NextUp
    <2>3. QED
      BY <2>1, <2>2, ChainQuiet DEF OrderInv, CallbackDue
  <1>11. ASSUME Serve PROVE OrderInv'
    <2>1. PICK x \in Xfers : x = Head(flying) /\ x \in ToSet(flying)
      BY <1>11, TailIn DEF TypeInv, Serve
    <2>2. /\ x \notin ToSet(done) /\ x # cb /\ done \in Seq(Xfers) /\ done' = Append(done, x)
          /\ UNCHANGED <<pc, dead, cb, pkt, expected>>
      BY <1>11, <2>1 DEF TypeInv, PlaceInv, InPlace, Serve
    <2>3. \A y : y # x => status'[y] = status[y] /\ buffer'[y] = buffer[y]
      BY <1>11, <2>1 DEF TypeInv, Serve
    <2>4. status'[x] = "completed" /\ InARow(x)' /\ (buffer[x][1])' = sent /\ sent' = (After(x))'
      <3>1. /\ status'[x] = "completed" /\ sent' = (sent + pkts) % NTags
            /\ \A k \in 1 .. pkts : buffer'[x][k] = (sent + k - 1) % NTags
        BY <1>11, <2>1 DEF TypeInv, Serve
      <3>2. sent \in 0 .. NTags - 1 /\ 1 \in 1 .. pkts /\ pkts \in 1 .. pkts
        BY DEF TypeInv
      <3>3. buffer'[x][1] = sent
        BY <3>1, <3>2, Numbering
      <3>4. sent' = (buffer'[x][pkts] + 1) % NTags
        <4>1. buffer'[x][pkts] = (sent + pkts - 1) % NTags
          BY <3>1, <3>2
        <4>2. (((sent + pkts - 1) % NTags) + 1) % NTags = (sent + pkts) % NTags
          BY <3>2, Numbering
        <4>3. QED
          BY <3>1, <4>1, <4>2
      <3>5. ASSUME NEW k \in 1 .. pkts - 1 PROVE buffer'[x][k + 1] = (buffer'[x][k] + 1) % NTags
        <4>1. k \in 1 .. pkts /\ k + 1 \in 1 .. pkts
          OBVIOUS
        <4>2. buffer'[x][k] = (sent + k - 1) % NTags /\ buffer'[x][k + 1] = (sent + (k + 1) - 1) % NTags
          BY <3>1, <4>1
        <4>3. (((sent + k - 1) % NTags) + 1) % NTags = (sent + (k + 1) - 1) % NTags
          BY <3>2, <4>1, Numbering
        <4>4. QED
          BY <4>2, <4>3
      <3>6. QED
        BY <3>1, <3>3, <3>4, <3>5 DEF InARow, After
    <2>5. Chain => Chain'
      BY <2>2, <2>3, <2>4, ChainServe
    <2>6. cb # 0 => buffer'[cb] = buffer[cb]
      BY <2>2, <2>3
    <2>7. CallbackDue => CallbackDue'
      BY <2>2, <2>6 DEF CallbackDue, InARow, After
    <2>8. QED
      BY <2>2, <2>5, <2>7 DEF OrderInv
  <1>12. ASSUME ServeError PROVE OrderInv'
    <2>1. PICK x \in Xfers : x = Head(flying) /\ x \in ToSet(flying)
      BY <1>12, TailIn DEF TypeInv, ServeError
    <2>2. /\ x \notin ToSet(done) /\ x # cb /\ done \in Seq(Xfers) /\ done' = Append(done, x)
          /\ UNCHANGED <<pc, dead, cb, pkt, expected>>
      BY <1>12, <2>1 DEF TypeInv, PlaceInv, InPlace, ServeError
    <2>3. \A y : y # x => status'[y] = status[y] /\ buffer'[y] = buffer[y]
      BY <1>12, <2>1 DEF TypeInv, ServeError
    <2>4. status'[x] = "error" /\ sent' = sent
      BY <1>12, <2>1 DEF TypeInv, ServeError
    <2>5. Chain => Chain'
      BY <2>2, <2>3, <2>4, ChainServe
    <2>6. cb # 0 => buffer'[cb] = buffer[cb]
      BY <2>2, <2>3
    <2>7. CallbackDue => CallbackDue'
      BY <2>2, <2>6 DEF CallbackDue, InARow, After
    <2>8. QED
      BY <2>2, <2>5, <2>7 DEF OrderInv
  <1>13. CASE UNCHANGED vars
    <2>1. UNCHANGED <<pc, dead, cb, pkt, expected, sent, done, buffer, status>>
      BY <1>13 DEF vars, strmVars, kernelVars, cbVars
    <2>2. CallbackDue => CallbackDue'
      BY <2>1 DEF CallbackDue, InARow, After
    <2>3. Chain => Chain'
      BY <2>1 DEF Chain, FirstGood, Linked, LastGood, Good, NextUp, After, InARow
    <2>4. QED
      BY <2>1, <2>2, <2>3 DEF OrderInv
  <1>14. QED
    BY <1>1, <1>2, <1>3, <1>4, <1>5, <1>6, <1>7, <1>8, <1>9, <1>10, <1>11, <1>12, <1>13 DEF Next, Starter, Stopper, Pump, Kernel

IsoInv == TypeInv /\ CountInv /\ PlaceInv /\ OrderInv

\* What a stream is before its first start, and what each step leaves
LEMMA Inductive == ASSUME IsoAssumption PROVE Spec => []IsoInv
  <1>1. Init => IsoInv
    <2> SUFFICES ASSUME Init PROVE IsoInv
      OBVIOUS
    <2>1. TypeInv
      <3>1. NoPackets \in [Xfers -> [1 .. pkts -> 0 .. NTags - 1]] /\ 0 \in 0 .. NTags - 1
        BY DEF IsoAssumption, NoPackets
      <3>2. 1 \in 1 .. num_xfers + 1 /\ 1 \in 1 .. pkts + 1 /\ 0 \in 0 .. num_xfers
        BY DEF IsoAssumption
      <3>3. [x \in Xfers |-> "completed"] \in [Xfers -> {"completed", "cancelled", "error"}] /\ <<>> \in Seq(Xfers)
        OBVIOUS
      <3>4. buffer \in [Xfers -> [1 .. pkts -> 0 .. NTags - 1]] /\ status \in [Xfers -> {"completed", "cancelled", "error"}]
        BY <3>1, <3>3 DEF Init
      <3>5. sent \in 0 .. NTags - 1 /\ expected \in 0 .. NTags - 1
        BY <3>1 DEF Init
      <3>6. QED
        BY <3>2, <3>3, <3>4, <3>5 DEF Init, TypeInv
    <2>2. CountInv
      BY FS_EmptySet DEF Init, CountInv
    <2>3. PlaceInv
      BY DEF Init, PlaceInv, InPlace, Begun, ToSet, IsInjective, Xfers
    <2>4. OrderInv
      BY DEF Init, OrderInv
    <2>5. QED
      BY <2>1, <2>2, <2>3, <2>4 DEF IsoInv
  <1>2. IsoInv /\ [Next]_vars => IsoInv'
    BY TypeStep, CountStep, PlaceStep, OrderStep DEF IsoInv
  <1>3. QED
    BY <1>1, <1>2, PTL DEF Spec

\* A transfer that has begun is in one place and another in none; those of the
\* kernel are all different.
LEMMA InvAccounted ==
  ASSUME IsoAssumption PROVE IsoInv => Accounted
  <1> SUFFICES ASSUME IsoInv PROVE Accounted
    OBVIOUS
  <1>1. TypeOK /\ dead_xfers = Cardinality(ended)
    BY EndedCounted DEF IsoInv, TypeInv, TypeOK, CountInv
  <1>2. Len(flying) + Len(done) = Cardinality(ToSet(flying) \cup ToSet(done))
    <2>1. flying \in Seq(Xfers) /\ done \in Seq(Xfers) /\ ToSet(flying) \subseteq Xfers
      BY QueueElements DEF IsoInv, TypeInv
    <2>2. /\ IsFiniteSet(ToSet(flying)) /\ Cardinality(ToSet(flying)) = Len(flying)
          /\ IsFiniteSet(ToSet(done)) /\ Cardinality(ToSet(done)) = Len(done)
      BY <2>1, CardIn DEF IsoInv, PlaceInv
    <2>3. ToSet(flying) \cap ToSet(done) = {}
      BY <2>1 DEF IsoInv, PlaceInv, InPlace
    <2>4. Cardinality(ToSet(flying) \cup ToSet(done)) = Len(flying) + Len(done) - 0
      <3>1. Cardinality(ToSet(flying) \cup ToSet(done)) =
              Cardinality(ToSet(flying)) + Cardinality(ToSet(done)) - Cardinality(ToSet(flying) \cap ToSet(done))
        BY <2>2, FS_Union
      <3>2. QED
        BY <2>2, <2>3, <3>1, FS_EmptySet
    <2>5. QED
      BY <2>1, <2>4
  <1>3. ASSUME NEW x \in Xfers PROVE Cardinality(Places(x)) = IF Begun(x) THEN 1 ELSE 0
    <2>1. InPlace(x)
      BY DEF IsoInv, PlaceInv
    <2>2. CASE ~Begun(x)
      <3>1. Places(x) = {}
        BY <2>1, <2>2 DEF InPlace, Places
      <3>2. QED
        BY <2>2, <3>1, FS_EmptySet
    <2>3. CASE Begun(x)
      <3>1. \E l : Places(x) = {l}
        <4>1. x \in ToSet(flying) => Places(x) = {"flying"}
          BY <2>1 DEF InPlace, Places
        <4>2. x \in ToSet(done) => Places(x) = {"done"}
          BY <2>1 DEF InPlace, Places
        <4>3. x = cb => Places(x) = {"callback"}
          BY <2>1 DEF InPlace, Places
        <4>4. x \in ended => Places(x) = {"ended"}
          BY <2>1 DEF InPlace, Places
        <4>5. x \in refused => Places(x) = {"refused"}
          BY <2>1 DEF InPlace, Places
        <4>6. QED
          BY <2>1, <2>3, <4>1, <4>2, <4>3, <4>4, <4>5 DEF InPlace
      <3>2. QED
        BY <2>3, <3>1, FS_Singleton
    <2>4. QED
      BY <2>2, <2>3
  <1>4. QED
    BY <1>1, <1>2, <1>3 DEF Accounted, Begun

\* iso_callback and fnusb_stop_iso, for any number of transfers that complete,
\* fail or are refused in any order: each is in one place at a time, counted
\* exactly when it has ended, and at rest when it is freed.
THEOREM TransfersAccounted == ASSUME IsoAssumption PROVE Spec => []Accounted
  BY Inductive, InvAccounted, PTL

\* iso_callback hands the camera's packets on in order, none twice and none
\* left out, whichever transfers fail between, for any number of them.
THEOREM InOrder == ASSUME IsoAssumption PROVE Spec => HandedOnInOrder
  <1>1. IsoInv /\ [Next]_vars => [HandOn => Packet(cb, pkt) = expected]_vars
    BY DEF IsoInv, OrderInv, CallbackDue, HandOn, Packet
  <1>2. QED
    BY <1>1, Inductive, PTL DEF Spec, HandedOnInOrder

-----------------------------------------------------------------------------
\* Devices: the shapes of the variables of Kinect, and of what they hold
Stages == {"idle", "scan", "scanned", "send", "poll", "closing", "shutdown", "gone"}
Registers == {\h05, \h06, \h0c, \h12, \h47}
Buffers == {NULL, "user", "lib", "own"}
AnyFormat == AllFormats["depth"] \cup AllFormats["video"]
Stream == [running : BOOLEAN, format : AnyFormat, iso : BOOLEAN, sized : AnyFormat \cup {NULL},
           usr : {NULL, "user"}, lib : {NULL, "lib"}, raw : Buffers, proc : Buffers]
Ages == {"new", "past", "foreign"}
Command == [reg : Registers, val : Nat, tag : Nat, age : Ages]
Reply == [tag : Nat, age : Ages]
ACamera == [regs : [Registers -> Nat], asked : Seq(Command), replies : Seq(Reply), missed : SUBSET Streams]

\* The ranges of the variables, and that no device is in the list twice
ShapeInv ==
  /\ lab \in Labs /\ list \in Seq(Devs) /\ IsInjective(list)
  /\ sub \in [Devs -> [Kinds -> 0 .. Len(bus)]]
  /\ handles \subseteq (DOMAIN bus) \X Devs
  /\ cam_tag \in [Devs -> 0 .. Tags - 1]
  /\ strm \in [Devs -> [Streams -> Stream]]
  /\ \A d \in Devs, s \in Streams : strm[d][s].format \in AllFormats[s]
  /\ stage \in Stages /\ todo \in Seq(Registers \X Nat)
  /\ camera \in [Cameras -> ACamera]

Opening == stage \in {"scan", "scanned"}
Conversing == stage \in {"send", "poll"}
Calling(d, s) == Conversing /\ call.dev = d /\ call.s = s

\* What the thread is about, at each of its places
CallInv ==
  /\ Opening => /\ call \in [op : {"open"}, dev : Devs, index : Int, i : Nat, seen : [Kinds -> Nat]]
                /\ call.dev \notin Open /\ call.i \in 1 .. Len(bus) + 1
  /\ Conversing => /\ call \in [op : {"start", "stop", "close", "shutdown"}, dev : Devs, s : Streams]
                   /\ call.dev \in Open /\ ~strm[call.dev][call.s].running
  /\ stage = "closing" => call \in [op : {"close", "shutdown"}, dev : Devs, s : Streams] /\ call.dev \in Open
  /\ stage = "gone" => list = <<>>

\* What a device has of the bus is of its kind; only one that is open or being
\* opened has any, and the first of its kind that were passed over have been
\* counted.
SubInv ==
  /\ \A d \in Devs, k \in Kinds : sub[d][k] # 0 => bus[sub[d][k]].kind = k
  /\ \A d \in Open, k \in Kinds : sub[d][k] # 0
  /\ \A d \in Open : Before(sub[d]["camera"], "camera") = Before(sub[d]["motor"], "motor")
  /\ \A d \in Devs \ Open : (Opening /\ call.dev = d) \/ \A k \in Kinds : sub[d][k] = 0
  /\ Opening => \A k \in Kinds :
       IF sub[call.dev][k] # 0 THEN Before(sub[call.dev][k], k) = call.index
       ELSE stage = "scan" => call.seen[k] = Before(call.i, k)

\* The handles are those of the devices, and none is of a place another has.
HandleInv ==
  /\ handles = {h \in (DOMAIN bus) \X Devs : \E k \in Kinds : sub[h[2]][k] = h[1]}
  /\ \A g, h \in handles : g[1] = h[1] => g = h

\* A stream has what it needs from when it is being started, and nothing once
\* it has been stopped.
StreamIn(d, s) ==
  /\ strm[d][s].running \/ (Calling(d, s) /\ call.op = "start") => Runs(d, s)
  /\ ~strm[d][s].running /\ ~Calling(d, s) =>
       ~strm[d][s].iso /\ strm[d][s].lib = NULL /\ strm[d][s].raw = NULL /\ strm[d][s].proc = NULL

StreamInv == \A d \in Devs, s \in Streams : StreamIn(d, s)

\* What the call writes in all, and how much of it has been sent
Writing == IF call.op = "start" THEN StartWrites(call.s, strm[call.dev][call.s].format) ELSE StopWrites(call.s)
Sent == Len(Writing) - Len(todo) + IF stage = "poll" THEN 1 ELSE 0

TodoInv ==
  IF Conversing
  THEN /\ Len(todo) <= Len(Writing)
       /\ \A n \in 1 .. Len(todo) : todo[n] = Writing[n + Len(Writing) - Len(todo)]
       /\ stage = "poll" => todo # <<>>
  ELSE todo = <<>>

\* The value a register will have when the camera has done all it was asked
Ends(x, r, v) ==
  \/ x.regs[r] = v /\ \A n \in 1 .. Len(x.asked) : x.asked[n].reg # r
  \/ \E n \in 1 .. Len(x.asked) :
       /\ x.asked[n].reg = r /\ x.asked[n].val = v
       /\ \A m \in n + 1 .. Len(x.asked) : x.asked[m].reg # r

Sends(x, s, f) == Ends(x, Go(s), GoValue(s, f)) /\ Ends(x, ModeOf(s), ModeValue(s, f))

\* How far a camera has been told to do what the stream of a device is for
Told(x, d, s) ==
  IF ~Calling(d, s)
  THEN IF strm[d][s].running THEN Sends(x, s, strm[d][s].format) ELSE Ends(x, Go(s), 0)
  ELSE IF call.op = "start"
  THEN /\ Sent >= 2 => Ends(x, ModeOf(s), ModeValue(s, strm[d][s].format))
       /\ Sent >= 3 => Ends(x, Go(s), GoValue(s, strm[d][s].format))
  ELSE Sent >= 1 => Ends(x, Go(s), 0)

\* A camera that was told everything ends as the library believes.
CameraInv ==
  \A c \in Cameras, s \in Streams : s \notin camera[c].missed =>
    /\ \A d \in Open : sub[d]["camera"] = c => Told(camera[c], d, s)
    /\ (\A d \in Open : sub[d]["camera"] # c) => Ends(camera[c], Go(s), 0)

KinectInv == ShapeInv /\ CallInv /\ SubInv /\ HandleInv /\ StreamInv /\ TodoInv /\ CameraInv
-----------------------------------------------------------------------------
\* The registers of the two streams, and what is written to them
LEMMA RegistersApart ==
  ASSUME NEW s \in Streams
  PROVE  /\ Go(s) \in Registers /\ ModeOf(s) \in Registers /\ \h47 \in Registers
         /\ Go(s) # ModeOf(s) /\ Go(s) # \h47 /\ ModeOf(s) # \h47
         /\ \A t \in Streams \ {s} : {Go(t), ModeOf(t)} \cap {Go(s), ModeOf(s), \h47} = {}
         /\ \A f : GoValue(s, f) \in Nat /\ ModeValue(s, f) \in Nat
  <1>1. \A f : ModeValue(s, f) \in Nat
    BY DEF ModeValue
  <1>2. \A f : GoValue(s, f) \in Nat
    BY DEF GoValue
  <1>3. QED
    BY <1>1, <1>2 DEF Go, ModeOf, Registers, Streams

\* What write_register is called with to start a stream and to stop it
\* (freenect_start_depth, freenect_start_video, freenect_stop_depth)
LEMMA WritesAre ==
  ASSUME NEW s \in Streams, NEW f
  PROVE  /\ StartWrites(s, f) \in Seq(Registers \X Nat) /\ Len(StartWrites(s, f)) \in 3 .. 4
         /\ StartWrites(s, f)[1] = <<Go(s), 0>>
         /\ StartWrites(s, f)[2] = <<ModeOf(s), ModeValue(s, f)>>
         /\ StartWrites(s, f)[3] = <<Go(s), GoValue(s, f)>>
         /\ Len(StartWrites(s, f)) = 4 => StartWrites(s, f)[4] = <<\h47, 0>>
         /\ StopWrites(s) \in Seq(Registers \X Nat) /\ Len(StopWrites(s)) = 1 /\ StopWrites(s)[1] = <<Go(s), 0>>
  <1> DEFINE first == <<<<Go(s), 0>>, <<ModeOf(s), ModeValue(s, f)>>, <<Go(s), GoValue(s, f)>>>>
             second == IF s = "video" THEN <<<<\h47, 0>>>> ELSE <<>>
  <1>1. /\ Go(s) \in Registers /\ ModeOf(s) \in Registers /\ \h47 \in Registers
        /\ GoValue(s, f) \in Nat /\ ModeValue(s, f) \in Nat
    BY RegistersApart
  <1>2. /\ first \in Seq(Registers \X Nat) /\ Len(first) = 3
        /\ first[1] = <<Go(s), 0>> /\ first[2] = <<ModeOf(s), ModeValue(s, f)>> /\ first[3] = <<Go(s), GoValue(s, f)>>
    BY <1>1
  <1>3. /\ second \in Seq(Registers \X Nat) /\ Len(second) \in 0 .. 1
        /\ Len(second) = 1 => second[1] = <<\h47, 0>>
    <2>1. CASE s = "video"
      <3>1. second = <<<<\h47, 0>>>>
        BY <2>1
      <3>2. QED
        BY <1>1, <3>1
    <2>2. CASE s # "video"
      <3>1. second = <<>>
        BY <2>2
      <3>2. <<>> \in Seq(Registers \X Nat) /\ Len(<<>>) = 0
        OBVIOUS
      <3>3. QED
        BY <3>1, <3>2
    <2>3. QED
      BY <2>1, <2>2
  <1>4. StartWrites(s, f) = first \o second
    BY DEF StartWrites
  <1> HIDE DEF first, second
  <1>5. /\ first \o second \in Seq(Registers \X Nat) /\ Len(first \o second) = 3 + Len(second)
        /\ \A n \in 1 .. 3 + Len(second) : (first \o second)[n] = IF n <= 3 THEN first[n] ELSE second[n - 3]
    <2>1. /\ first \o second \in Seq(Registers \X Nat) /\ Len(first \o second) = Len(first) + Len(second)
          /\ \A n \in 1 .. Len(first) + Len(second) :
               (first \o second)[n] = IF n <= Len(first) THEN first[n] ELSE second[n - Len(first)]
      BY <1>2, <1>3, ConcatProperties
    <2>2. Len(first) = 3
      BY <1>2
    <2>3. QED
      BY <2>1, <2>2
  <1>6. StopWrites(s) \in Seq(Registers \X Nat) /\ Len(StopWrites(s)) = 1 /\ StopWrites(s)[1] = <<Go(s), 0>>
    BY <1>1 DEF StopWrites
  <1>7. /\ StartWrites(s, f)[1] = first[1] /\ StartWrites(s, f)[2] = first[2] /\ StartWrites(s, f)[3] = first[3]
        /\ Len(second) = 1 => StartWrites(s, f)[4] = second[1]
    <2>1. \A n \in 1 .. 3 : StartWrites(s, f)[n] = first[n]
      BY <1>3, <1>4, <1>5
    <2>2. Len(second) = 1 => StartWrites(s, f)[4] = second[1]
      BY <1>4, <1>5
    <2>3. QED
      BY <2>1, <2>2
  <1>8. StartWrites(s, f) \in Seq(Registers \X Nat) /\ Len(StartWrites(s, f)) = 3 + Len(second)
    BY <1>4, <1>5
  <1>9. Len(StartWrites(s, f)) \in 3 .. 4 /\ (Len(StartWrites(s, f)) = 4 => StartWrites(s, f)[4] = <<\h47, 0>>)
    <2>1. Len(second) \in 0 .. 1 /\ Len(StartWrites(s, f)) = 3 + Len(second)
      BY <1>3, <1>8
    <2>2. Len(StartWrites(s, f)) \in 3 .. 4 /\ (Len(StartWrites(s, f)) = 4 => Len(second) = 1)
      <3>1. CASE Len(second) = 0
        BY <2>1, <3>1
      <3>2. CASE Len(second) = 1
        BY <2>1, <3>2
      <3>3. QED
        BY <2>1, <3>1, <3>2
    <2>3. Len(second) = 1 => StartWrites(s, f)[4] = <<\h47, 0>>
      BY <1>3, <1>7
    <2>4. QED
      BY <2>2, <2>3
  <1>10. /\ StartWrites(s, f)[1] = <<Go(s), 0>>
         /\ StartWrites(s, f)[2] = <<ModeOf(s), ModeValue(s, f)>>
         /\ StartWrites(s, f)[3] = <<Go(s), GoValue(s, f)>>
    BY <1>2, <1>7
  <1>11. QED
    BY <1>6, <1>8, <1>9, <1>10

\* A camera that is asked for something more ends with that, and with what it
\* was asked before for the other registers;
LEMMA EndsAsked ==
  ASSUME NEW x, x.asked \in Seq(Command), NEW y, y.regs = x.regs,
         NEW w \in Command, y.asked = Append(x.asked, w), NEW r, NEW v
  PROVE  /\ w.reg = r /\ w.val = v => Ends(y, r, v)
         /\ w.reg # r /\ Ends(x, r, v) => Ends(y, r, v)
  <1>1. /\ Len(y.asked) = Len(x.asked) + 1 /\ Len(x.asked) \in Nat /\ y.asked[Len(x.asked) + 1] = w
        /\ \A n \in 1 .. Len(x.asked) : y.asked[n] = x.asked[n]
    OBVIOUS
  <1>2. ASSUME w.reg = r, w.val = v PROVE Ends(y, r, v)
    BY <1>1, <1>2 DEF Ends
  <1>3. ASSUME w.reg # r, Ends(x, r, v) PROVE Ends(y, r, v)
    <2>1. CASE x.regs[r] = v /\ \A n \in 1 .. Len(x.asked) : x.asked[n].reg # r
      BY <1>1, <1>3, <2>1 DEF Ends
    <2>2. ASSUME NEW n \in 1 .. Len(x.asked), x.asked[n].reg = r, x.asked[n].val = v,
                 \A m \in n + 1 .. Len(x.asked) : x.asked[m].reg # r
          PROVE  Ends(y, r, v)
      <3>1. n \in 1 .. Len(y.asked) /\ y.asked[n].reg = r /\ y.asked[n].val = v
        BY <1>1, <2>2
      <3>2. \A m \in n + 1 .. Len(y.asked) : y.asked[m].reg # r
        BY <1>1, <1>3, <2>2
      <3>3. QED
        BY <3>1, <3>2 DEF Ends
    <2>3. QED
      BY <1>3, <2>1, <2>2 DEF Ends
  <1>4. QED
    BY <1>2, <1>3

\* one that carries out what comes next still ends with the same;
LEMMA EndsAnswered ==
  ASSUME NEW x, x.asked \in Seq(Command), x.asked # <<>>, x.regs \in [Registers -> Nat], NEW y,
         y.asked = Tail(x.asked), y.regs = [x.regs EXCEPT ![Head(x.asked).reg] = Head(x.asked).val],
         NEW r \in Registers, NEW v, Ends(x, r, v)
  PROVE  Ends(y, r, v)
  <1>1. /\ Len(x.asked) \in Nat \ {0} /\ Len(y.asked) = Len(x.asked) - 1 /\ Head(x.asked) = x.asked[1]
        /\ \A n \in 1 .. Len(y.asked) : y.asked[n] = x.asked[n + 1]
    OBVIOUS
  <1>2. CASE x.regs[r] = v /\ \A n \in 1 .. Len(x.asked) : x.asked[n].reg # r
    BY <1>1, <1>2 DEF Ends
  <1>3. ASSUME NEW n \in 1 .. Len(x.asked), x.asked[n].reg = r, x.asked[n].val = v,
               \A m \in n + 1 .. Len(x.asked) : x.asked[m].reg # r
        PROVE  Ends(y, r, v)
    <2>1. CASE n = 1
      <3>1. y.regs[r] = v
        BY <1>1, <1>3, <2>1
      <3>2. \A m \in 1 .. Len(y.asked) : y.asked[m].reg # r
        BY <1>1, <1>3, <2>1
      <3>3. QED
        BY <3>1, <3>2 DEF Ends
    <2>2. CASE n # 1
      <3>1. n - 1 \in 1 .. Len(y.asked) /\ y.asked[n - 1].reg = r /\ y.asked[n - 1].val = v
        BY <1>1, <1>3, <2>2
      <3>2. ASSUME NEW m \in (n - 1) + 1 .. Len(y.asked) PROVE y.asked[m].reg # r
        <4>1. m \in 1 .. Len(y.asked) /\ m + 1 \in n + 1 .. Len(x.asked)
          BY <1>1, <2>2
        <4>2. QED
          BY <1>1, <1>3, <4>1
      <3>3. QED
        BY <3>1, <3>2 DEF Ends
    <2>3. QED
      BY <2>1, <2>2
  <1>4. QED
    BY <1>2, <1>3 DEF Ends

\* and that its commands grow old makes no difference.
LEMMA EndsAged ==
  ASSUME NEW x, NEW y, y.regs = x.regs, Len(y.asked) = Len(x.asked),
         \A n \in 1 .. Len(x.asked) : y.asked[n].reg = x.asked[n].reg /\ y.asked[n].val = x.asked[n].val,
         NEW r, NEW v
  PROVE  Ends(y, r, v) <=> Ends(x, r, v)
  <1>1. /\ y.regs[r] = v /\ (\A n \in 1 .. Len(y.asked) : y.asked[n].reg # r)
            <=> x.regs[r] = v /\ (\A n \in 1 .. Len(x.asked) : x.asked[n].reg # r)
    OBVIOUS
  <1>2. ASSUME NEW n \in 1 .. Len(x.asked)
        PROVE  (\A m \in n + 1 .. Len(y.asked) : y.asked[m].reg # r)
                 <=> \A m \in n + 1 .. Len(x.asked) : x.asked[m].reg # r
    <2>1. \A m \in n + 1 .. Len(x.asked) : m \in 1 .. Len(x.asked)
      OBVIOUS
    <2>2. QED
      BY <2>1
  <1> DEFINE last(z, n) == /\ z.asked[n].reg = r /\ z.asked[n].val = v
                           /\ \A m \in n + 1 .. Len(z.asked) : z.asked[m].reg # r
  <1>3. \A n \in 1 .. Len(x.asked) : last(y, n) <=> last(x, n)
    BY <1>2
  <1>4. /\ Ends(y, r, v) <=> \/ y.regs[r] = v /\ \A n \in 1 .. Len(y.asked) : y.asked[n].reg # r
                             \/ \E n \in 1 .. Len(y.asked) : last(y, n)
        /\ Ends(x, r, v) <=> \/ x.regs[r] = v /\ \A n \in 1 .. Len(x.asked) : x.asked[n].reg # r
                             \/ \E n \in 1 .. Len(x.asked) : last(x, n)
    BY DEF Ends
  <1> HIDE DEF last
  <1>5. (\E n \in 1 .. Len(y.asked) : last(y, n)) <=> \E n \in 1 .. Len(x.asked) : last(x, n)
    BY <1>3
  <1>6. QED
    BY <1>1, <1>4, <1>5

\* A camera that was asked the same ends the same,
LEMMA EndsSame ==
  ASSUME NEW x, NEW y, y.regs = x.regs, y.asked = x.asked
  PROVE  \A r, v : Ends(y, r, v) <=> Ends(x, r, v)
  BY DEF Ends

\* and one that has nothing left to do is where it ends.
LEMMA EndsNow ==
  ASSUME NEW x, x.asked = <<>>, NEW r, NEW v, Ends(x, r, v)
  PROVE  x.regs[r] = v
  BY DEF Ends

\* Commands and replies that grow old are commands and replies.
LEMMA AgedIs ==
  ASSUME NEW a \in Ages
  PROVE  /\ \A q \in Seq(Command) :
              /\ Aged(q, a) \in Seq(Command) /\ Len(Aged(q, a)) = Len(q)
              /\ \A n \in 1 .. Len(q) : Aged(q, a)[n].reg = q[n].reg /\ Aged(q, a)[n].val = q[n].val
         /\ \A q \in Seq(Reply) : Aged(q, a) \in Seq(Reply) /\ Len(Aged(q, a)) = Len(q)
  <1>1. ASSUME NEW q \in Seq(Command)
        PROVE  /\ Aged(q, a) \in Seq(Command) /\ Len(Aged(q, a)) = Len(q)
               /\ \A n \in 1 .. Len(q) : Aged(q, a)[n].reg = q[n].reg /\ Aged(q, a)[n].val = q[n].val
    <2>1. \A n \in 1 .. Len(q) : q[n] \in Command
      OBVIOUS
    <2>2. Aged(q, a) = [n \in 1 .. Len(q) |-> [q[n] EXCEPT !.age = IF @ = "new" \/ a = "foreign" THEN a ELSE @]]
      BY DEF Aged
    <2>3. \A n \in 1 .. Len(q) : /\ Aged(q, a)[n] \in Command
                                 /\ Aged(q, a)[n].reg = q[n].reg /\ Aged(q, a)[n].val = q[n].val
      BY <2>1, <2>2 DEF Command
    <2>4. QED
      BY <2>2, <2>3
  <1>2. ASSUME NEW q \in Seq(Reply)
        PROVE  Aged(q, a) \in Seq(Reply) /\ Len(Aged(q, a)) = Len(q)
    <2>1. \A n \in 1 .. Len(q) : q[n] \in Reply
      OBVIOUS
    <2>2. Aged(q, a) = [n \in 1 .. Len(q) |-> [q[n] EXCEPT !.age = IF @ = "new" \/ a = "foreign" THEN a ELSE @]]
      BY DEF Aged
    <2>3. \A n \in 1 .. Len(q) : Aged(q, a)[n] \in Reply
      BY <2>1, <2>2 DEF Reply
    <2>4. QED
      BY <2>2, <2>3
  <1>3. QED
    BY <1>1, <1>2

\* What is done to a stream leaves it one, in its format or the first.
LEMMA StreamOps ==
  ASSUME NEW s \in Streams, NEW u \in Stream, u.format \in AllFormats[s]
  PROVE  /\ StreamInit(s, u) \in Stream /\ StreamInit(s, u).format = u.format
         /\ [StreamInit(s, u) EXCEPT !.iso = TRUE] \in Stream
         /\ FreeBufs(u) \in Stream /\ FreeBufs(u).format = u.format
         /\ \A b \in {NULL, "user"} : SetBuf(s, u, b) \in Stream /\ SetBuf(s, u, b).format = u.format
         /\ FirstFormat[s] \in AllFormats[s] /\ FirstFormat[s] \in AnyFormat
         /\ NewStream(FirstFormat[s]) \in Stream
         /\ Freed(s, u) \in Stream /\ Freed(s, u).format = FirstFormat[s]
         /\ Freed(s, u).running = u.running /\ Freed(s, u).iso = u.iso
         /\ Freed(s, u).lib = u.lib /\ Freed(s, u).raw = u.raw /\ Freed(s, u).proc = u.proc
  <1>1. FirstFormat[s] \in AllFormats[s] /\ FirstFormat[s] \in AnyFormat
    BY DEF FirstFormat, AllFormats, AnyFormat, Streams
  <1>2. /\ StreamInit(s, u) \in Stream /\ StreamInit(s, u).format = u.format
        /\ [StreamInit(s, u) EXCEPT !.iso = TRUE] \in Stream
    <2> DEFINE lib == IF u.usr # NULL THEN NULL ELSE "lib"
               proc == IF u.usr # NULL THEN u.usr ELSE lib
               raw == IF Split(s, u.format) THEN "own" ELSE proc
    <2>1. lib \in {NULL, "lib"} /\ proc \in Buffers /\ raw \in Buffers
      BY DEF Stream, Buffers
    <2>2. StreamInit(s, u) = [u EXCEPT !.lib = lib, !.proc = proc, !.sized = u.format, !.raw = raw]
      BY DEF StreamInit
    <2> HIDE DEF lib, proc, raw
    <2>3. QED
      BY <2>1, <2>2 DEF Stream
  <1>3. FreeBufs(u) \in Stream /\ FreeBufs(u).format = u.format
    BY DEF FreeBufs, Stream, Buffers
  <1>4. ASSUME NEW b \in {NULL, "user"} PROVE SetBuf(s, u, b) \in Stream /\ SetBuf(s, u, b).format = u.format
    <2> DEFINE proc == IF b = NULL THEN u.lib ELSE b
               raw == IF Split(s, u.sized) THEN u.raw ELSE proc
    <2>1. proc \in Buffers /\ raw \in Buffers
      BY DEF Stream, Buffers
    <2>2. \/ SetBuf(s, u, b) = [u EXCEPT !.usr = b] \/ SetBuf(s, u, b) = u
          \/ SetBuf(s, u, b) = [u EXCEPT !.usr = b, !.proc = proc, !.raw = raw]
      BY DEF SetBuf
    <2> HIDE DEF proc, raw
    <2>3. QED
      BY <2>1, <2>2 DEF Stream
  <1>5. NewStream(FirstFormat[s]) \in Stream
    BY <1>1 DEF NewStream, Stream, Buffers, NULL
  <1>6. /\ Freed(s, u) \in Stream /\ Freed(s, u).format = FirstFormat[s]
        /\ Freed(s, u).running = u.running /\ Freed(s, u).iso = u.iso
        /\ Freed(s, u).lib = u.lib /\ Freed(s, u).raw = u.raw /\ Freed(s, u).proc = u.proc
    BY <1>1 DEF Freed, Stream, NULL
  <1>7. QED
    BY <1>1, <1>2, <1>3, <1>4, <1>5, <1>6

\* A stream that is made ready has what it needs to run.
LEMMA StreamReady ==
  ASSUME NEW s \in Streams, NEW u \in Stream, NEW v, v = [StreamInit(s, u) EXCEPT !.iso = TRUE]
  PROVE  /\ v.running = u.running /\ v.format = u.format /\ v.iso /\ v.sized = v.format
         /\ v.proc # NULL /\ v.proc = (IF v.usr # NULL THEN v.usr ELSE v.lib)
         /\ v.raw = (IF Split(s, v.format) THEN "own" ELSE v.proc)
  <1> DEFINE lib == IF u.usr # NULL THEN NULL ELSE "lib"
             proc == IF u.usr # NULL THEN u.usr ELSE lib
             raw == IF Split(s, u.format) THEN "own" ELSE proc
  <1>1. proc # NULL /\ proc = (IF u.usr # NULL THEN u.usr ELSE lib) /\ raw = (IF Split(s, u.format) THEN "own" ELSE proc)
    BY DEF NULL
  <1>2. v = [u EXCEPT !.lib = lib, !.proc = proc, !.sized = u.format, !.raw = raw, !.iso = TRUE]
    BY DEF StreamInit
  <1> HIDE DEF lib, proc, raw
  <1>3. /\ v.running = u.running /\ v.format = u.format /\ v.iso /\ v.sized = u.format
        /\ v.proc = proc /\ v.usr = u.usr /\ v.lib = lib /\ v.raw = raw
    BY <1>2 DEF Stream
  <1>4. QED
    BY <1>1, <1>3

\* One stream changes, and the others do not.
LEMMA StreamChanged ==
  ASSUME ShapeInv, NEW d \in Devs, NEW s \in Streams, NEW u \in Stream, u.format \in AllFormats[s],
         strm' = [strm EXCEPT ![d][s] = u]
  PROVE  /\ strm' \in [Devs -> [Streams -> Stream]] /\ strm'[d][s] = u
         /\ \A e \in Devs, t \in Streams : ~(e = d /\ t = s) => strm'[e][t] = strm[e][t]
         /\ \A e \in Devs, t \in Streams : strm'[e][t].format \in AllFormats[t]
  <1>1. strm \in [Devs -> [Streams -> Stream]] /\ \A e \in Devs, t \in Streams : strm[e][t].format \in AllFormats[t]
    BY DEF ShapeInv
  <1>2. /\ strm' \in [Devs -> [Streams -> Stream]] /\ strm'[d][s] = u
        /\ \A e \in Devs, t \in Streams : ~(e = d /\ t = s) => strm'[e][t] = strm[e][t]
    BY <1>1
  <1>3. ASSUME NEW e \in Devs, NEW t \in Streams PROVE strm'[e][t].format \in AllFormats[t]
    BY <1>1, <1>2
  <1>4. QED
    BY <1>2, <1>3

-----------------------------------------------------------------------------
\* What KinectAssumption says of the bus
LEMMA OnBus ==
  ASSUME KinectAssumption, ShapeInv
  PROVE  /\ bus \in Seq([kind : Kinds, kinect : Nat]) /\ Len(bus) \in Nat /\ DOMAIN bus = 1 .. Len(bus)
         /\ \A n \in 1 .. Len(bus) : bus[n].kind \in Kinds
         /\ Open \subseteq Devs /\ Devs \subseteq Nat \ {0} /\ Tags \in Nat \ {0, 1}
         /\ \A d : In(list, d) <=> d \in Open
  <1>1. bus \in Seq([kind : Kinds, kinect : Nat])
    BY DEF KinectAssumption, ShapeInv, bus
  <1>2. Len(bus) \in Nat /\ DOMAIN bus = 1 .. Len(bus) /\ \A n \in 1 .. Len(bus) : bus[n].kind \in Kinds
    <2>1. Len(bus) \in Nat /\ DOMAIN bus = 1 .. Len(bus)
      BY <1>1
    <2>2. \A n \in 1 .. Len(bus) : bus[n] \in [kind : Kinds, kinect : Nat]
      BY <1>1, ElementOfSeq
    <2>3. QED
      BY <2>1, <2>2
  <1>3. list \in Seq(Devs)
    BY DEF ShapeInv
  <1>4. Open \subseteq Devs /\ \A d : In(list, d) <=> d \in Open
    BY <1>3, QueueElements DEF Open, In, ToSet
  <1>5. QED
    BY <1>1, <1>2, <1>4 DEF KinectAssumption

\* A camera whose commands and replies grow old, or whose replies are read, is
\* as it was otherwise.
LEMMA AgedCameraIs ==
  ASSUME ShapeInv, NEW c \in Cameras, NEW a \in Ages
  PROVE  /\ AgedCamera(c, a) \in [Cameras -> ACamera] /\ \A b \in Cameras \ {c} : AgedCamera(c, a)[b] = camera[b]
         /\ AgedCamera(c, a)[c].missed = camera[c].missed /\ AgedCamera(c, a)[c].regs = camera[c].regs
         /\ Len(AgedCamera(c, a)[c].asked) = Len(camera[c].asked)
         /\ \A n \in 1 .. Len(camera[c].asked) : /\ AgedCamera(c, a)[c].asked[n].reg = camera[c].asked[n].reg
                                                  /\ AgedCamera(c, a)[c].asked[n].val = camera[c].asked[n].val
         /\ AgedCamera(c, a)[c].replies \in Seq(Reply) /\ Len(AgedCamera(c, a)[c].replies) = Len(camera[c].replies)
  <1> DEFINE x == camera[c]
             y == [x EXCEPT !.asked = Aged(x.asked, a), !.replies = Aged(x.replies, a)]
  <1>1. camera \in [Cameras -> ACamera] /\ x \in ACamera
    BY DEF ShapeInv
  <1>2. x.asked \in Seq(Command) /\ x.replies \in Seq(Reply)
    BY <1>1 DEF ACamera
  <1>3. /\ Aged(x.asked, a) \in Seq(Command) /\ Len(Aged(x.asked, a)) = Len(x.asked)
        /\ \A n \in 1 .. Len(x.asked) : /\ Aged(x.asked, a)[n].reg = x.asked[n].reg
                                         /\ Aged(x.asked, a)[n].val = x.asked[n].val
    BY <1>2, AgedIs
  <1>4. Aged(x.replies, a) \in Seq(Reply) /\ Len(Aged(x.replies, a)) = Len(x.replies)
    BY <1>2, AgedIs
  <1>5. AgedCamera(c, a) = [camera EXCEPT ![c] = y]
    BY <1>1 DEF AgedCamera, ACamera
  <1> HIDE DEF x
  <1>6. /\ y \in ACamera /\ y.asked = Aged(x.asked, a) /\ y.replies = Aged(x.replies, a)
        /\ y.regs = x.regs /\ y.missed = x.missed
    BY <1>1, <1>3, <1>4 DEF ACamera
  <1> HIDE DEF y
  <1>7. /\ AgedCamera(c, a) \in [Cameras -> ACamera] /\ AgedCamera(c, a)[c] = y
        /\ \A b \in Cameras \ {c} : AgedCamera(c, a)[b] = camera[b]
    BY <1>1, <1>5, <1>6
  <1>8. x = camera[c]
    BY DEF x
  <1>9. QED
    BY <1>3, <1>4, <1>6, <1>7, <1>8

\* A camera one of whose replies is read is as it was otherwise.
LEMMA RepliesCut ==
  ASSUME NEW f \in [Cameras -> ACamera], NEW c \in Cameras, f[c].replies # <<>>,
         NEW g, g = [f EXCEPT ![c].replies = Tail(@)]
  PROVE  /\ g \in [Cameras -> ACamera] /\ \A b \in Cameras \ {c} : g[b] = f[b]
         /\ g[c].missed = f[c].missed /\ g[c].regs = f[c].regs /\ g[c].asked = f[c].asked
  <1> DEFINE y == [f[c] EXCEPT !.replies = Tail(f[c].replies)]
  <1>1. f[c] \in ACamera
    OBVIOUS
  <1>2. f[c].replies \in Seq(Reply)
    BY <1>1 DEF ACamera
  <1>3. Tail(f[c].replies) \in Seq(Reply)
    BY <1>2
  <1>4. y \in ACamera /\ y.missed = f[c].missed /\ y.regs = f[c].regs /\ y.asked = f[c].asked
    BY <1>1, <1>3 DEF ACamera
  <1>5. g = [f EXCEPT ![c] = y]
    OBVIOUS
  <1> HIDE DEF y
  <1>6. g \in [Cameras -> ACamera] /\ g[c] = y /\ \A b \in Cameras \ {c} : g[b] = f[b]
    BY <1>4, <1>5
  <1>7. QED
    BY <1>4, <1>6

\* The camera of a device is one, and of no other device.
LEMMA TalksTo ==
  ASSUME KinectAssumption, ShapeInv, SubInv, NEW d \in Open
  PROVE  sub[d]["camera"] \in Cameras /\ sub[d]["camera"] # 0
  <1>1. d \in Devs /\ "camera" \in Kinds
    BY OnBus DEF Kinds
  <1>2. sub[d]["camera"] \in 0 .. Len(bus) /\ sub[d]["camera"] # 0
    BY <1>1 DEF ShapeInv, SubInv
  <1>3. sub[d]["camera"] \in 1 .. Len(bus)
    BY <1>2, OnBus
  <1>4. QED
    BY <1>1, <1>2, <1>3, OnBus DEF SubInv, Cameras

\* A place on the bus is had by one device, as what it is there.
LEMMA OneHolder ==
  ASSUME KinectAssumption, ShapeInv, SubInv, HandleInv,
         NEW d \in Devs, NEW e \in Devs, NEW k \in Kinds, NEW l \in Kinds,
         sub[d][k] = sub[e][l], sub[d][k] # 0
  PROVE  d = e /\ k = l
  <1>1. sub[d][k] \in 1 .. Len(bus)
    BY OnBus DEF ShapeInv
  <1>2. <<sub[d][k], d>> \in handles /\ <<sub[d][k], e>> \in handles
    BY <1>1, OnBus DEF HandleInv
  <1>3. d = e
    BY <1>2 DEF HandleInv
  <1>4. QED
    BY <1>3 DEF SubInv

\* The devices of a kind before a place, one place further on
LEMMA BeforeNext ==
  ASSUME KinectAssumption, ShapeInv, NEW n \in 1 .. Len(bus), NEW k
  PROVE  /\ Before(n, k) \in Nat
         /\ Before(n + 1, k) = IF bus[n].kind = k THEN Before(n, k) + 1 ELSE Before(n, k)
  <1> DEFINE B(m) == {j \in 1 .. m - 1 : bus[j].kind = k}
  <1>1. n \in Nat
    BY OnBus
  <1>2. IsFiniteSet(B(n)) /\ n \notin B(n)
    <2>1. IsFiniteSet(1 .. n - 1) /\ B(n) \subseteq 1 .. n - 1 /\ n \notin 1 .. n - 1
      BY <1>1, FS_Interval
    <2>2. QED
      BY <2>1, FS_Subset
  <1>3. B(n + 1) = IF bus[n].kind = k THEN B(n) \cup {n} ELSE B(n)
    BY <1>1
  <1>4. Cardinality(B(n)) \in Nat /\ Cardinality(B(n) \cup {n}) = Cardinality(B(n)) + 1
    BY <1>2, FS_CardinalityType, FS_AddElement
  <1>5. Before(n, k) = Cardinality(B(n)) /\ Before(n + 1, k) = Cardinality(B(n + 1))
    BY DEF Before
  <1>6. QED
    BY <1>3, <1>4, <1>5

-----------------------------------------------------------------------------
\* What most steps leave alone
LEMMA BusKept ==
  ASSUME SubInv, HandleInv, UNCHANGED <<lab, sub, list, handles>>, ~Opening, ~Opening'
  PROVE  SubInv' /\ HandleInv'
  <1>1. bus' = bus /\ Open' = Open
    BY DEF bus, Open
  <1>2. \A n, k : Before(n, k)' = Before(n, k)
    BY <1>1 DEF Before
  <1>3. SubInv'
    BY <1>1 DEF SubInv, Before
  <1>4. HandleInv'
    BY <1>1 DEF HandleInv
  <1>5. QED
    BY <1>3, <1>4

\* Out of a conversation there is nothing to write.
LEMMA SilentKept ==
  ASSUME TodoInv, ~Conversing, ~Conversing', UNCHANGED todo
  PROVE  TodoInv'
  BY DEF TodoInv

\* Streams that run stay as they are, and the others do not run.
LEMMA CameraKept ==
  ASSUME CameraInv, ShapeInv, UNCHANGED <<lab, sub, list, camera>>, ~Conversing, ~Conversing', KinectAssumption,
         \A d \in Devs, s \in Streams : /\ strm'[d][s].running = strm[d][s].running
                                        /\ strm[d][s].running => strm'[d][s].format = strm[d][s].format
  PROVE  CameraInv'
  <1>1. Cameras' = Cameras /\ Open' = Open /\ Open \subseteq Devs
    BY OnBus DEF Cameras, bus, Open
  <1>2. \A d \in Devs, s \in Streams : \A x : Told(x, d, s)' <=> Told(x, d, s)
    BY DEF Told, Calling, Sends
  <1>3. QED
    BY <1>1, <1>2 DEF CameraInv

-----------------------------------------------------------------------------
\* At first nothing is open and nobody is told anything.
LEMMA KinectStart ==
  ASSUME KinectAssumption, KinectInit PROVE KinectInv
  <1>1. /\ lab \in Labs /\ list = <<>> /\ handles = {} /\ sub = [d \in Devs |-> [k \in Kinds |-> 0]]
        /\ cam_tag = [d \in Devs |-> 0] /\ strm = [d \in Devs |-> [s \in Streams |-> NewStream(FirstFormat[s])]]
        /\ stage = "idle" /\ todo = <<>> /\ camera = [c \in Cameras |-> NewCamera]
    BY DEF KinectInit
  <1>2. Open = {} /\ IsInjective(list) /\ list \in Seq(Devs)
    BY <1>1 DEF Open, ToSet, IsInjective
  <1>3. bus \in Seq([kind : Kinds, kinect : Nat]) /\ Len(bus) \in Nat /\ DOMAIN bus = 1 .. Len(bus)
    <2>1. bus \in Seq([kind : Kinds, kinect : Nat])
      BY <1>1 DEF KinectAssumption, bus
    <2>2. QED
      BY <2>1
  <1>4. \A s \in Streams : NewStream(FirstFormat[s]) \in Stream /\ FirstFormat[s] \in AllFormats[s]
    BY DEF NewStream, FirstFormat, AllFormats, AnyFormat, Streams, Stream, Buffers, NULL
  <1>5. \A d \in Devs, s \in Streams : strm[d][s] = NewStream(FirstFormat[s])
    BY <1>1
  <1>6. NewCamera \in ACamera
    BY DEF NewCamera, ACamera, Registers
  <1>7. ShapeInv
    <2>1. strm \in [Devs -> [Streams -> Stream]]
      BY <1>1, <1>4
    <2>2. \A d \in Devs, s \in Streams : strm[d][s].format \in AllFormats[s]
      <3>1. \A s \in Streams : NewStream(FirstFormat[s]).format = FirstFormat[s]
        BY DEF NewStream
      <3>2. QED
        BY <1>4, <1>5, <3>1
    <2>3. cam_tag \in [Devs -> 0 .. Tags - 1]
      BY <1>1 DEF KinectAssumption
    <2>4. sub \in [Devs -> [Kinds -> 0 .. Len(bus)]]
      BY <1>1, <1>3
    <2>5. QED
      BY <1>1, <1>2, <1>6, <2>1, <2>2, <2>3, <2>4 DEF ShapeInv, Stages
  <1>8. CallInv
    BY <1>1 DEF CallInv, Opening, Conversing
  <1>9. SubInv /\ HandleInv
    BY <1>1, <1>2, <1>3 DEF SubInv, HandleInv, Opening
  <1>10. StreamInv
    BY <1>1, <1>5 DEF StreamInv, StreamIn, NewStream, Calling, Conversing
  <1>11. TodoInv
    BY <1>1 DEF TodoInv, Conversing
  <1>12. CameraInv
    <2>1. ASSUME NEW c \in Cameras, NEW s \in Streams PROVE Ends(camera[c], Go(s), 0)
      <3>1. Go(s) \in Registers /\ camera[c] = NewCamera
        BY <1>1, RegistersApart
      <3>2. QED
        BY <3>1 DEF Ends, NewCamera, Registers
    <2>2. QED
      BY <1>2, <2>1 DEF CameraInv
  <1>13. QED
    BY <1>7, <1>8, <1>9, <1>10, <1>11, <1>12 DEF KinectInv

\* A device is being opened that was not: it has nothing of the bus yet.
LEMMA OpenDeviceStep ==
  ASSUME KinectAssumption, KinectInv, NEW n \in 0 .. NumDevices, OpenDevice(n)
  PROVE  KinectInv'
  <1> DEFINE d == CHOOSE x \in Devs \ Open : \A y \in Devs \ Open : x <= y
  <1> USE DEF KinectInv
  <1>1. d \in Devs \ Open
    <2>1. Devs \ Open \subseteq Nat /\ Devs \ Open # {}
      BY OnBus DEF OpenDevice
    <2>2. \E x \in Devs \ Open : \A y \in Devs \ Open : x <= y
      BY <2>1, Least
    <2>3. QED
      BY <2>2
  <1>2. /\ stage = "idle" /\ stage' = "scan"
        /\ call' = [op |-> "open", dev |-> d, index |-> n, i |-> 1, seen |-> [k \in Kinds |-> 0]]
        /\ sub' = [sub EXCEPT ![d] = [k \in Kinds |-> 0]]
        /\ cam_tag' = [cam_tag EXCEPT ![d] = 0]
        /\ strm' = [strm EXCEPT ![d] = [s \in Streams |-> NewStream(FirstFormat[s])]]
        /\ UNCHANGED <<lab, list, handles, todo, camera>>
    BY DEF OpenDevice, Goto
  <1> HIDE DEF d
  <1>3. bus' = bus /\ Cameras' = Cameras /\ Open' = Open /\ Open \subseteq Devs
    BY <1>2, OnBus DEF bus, Cameras, Open
  <1>4. /\ ~Opening /\ Opening' /\ ~Conversing /\ ~Conversing'
        /\ call'.dev = d /\ call'.i = 1 /\ call'.seen = [k \in Kinds |-> 0]
    BY <1>2 DEF Opening, Conversing
  <1>5. sub' = sub
    <2>1. \A k \in Kinds : sub[d][k] = 0
      BY <1>1, <1>4 DEF SubInv
    <2>2. sub[d] = [k \in Kinds |-> 0]
      BY <1>1, <2>1 DEF ShapeInv
    <2>3. QED
      BY <1>2, <2>2 DEF ShapeInv
  <1>6. /\ \A s \in Streams : ~strm[d][s].running /\ strm'[d][s] = NewStream(FirstFormat[s])
        /\ \A e \in Devs \ {d} : strm'[e] = strm[e]
    BY <1>1, <1>2 DEF StreamInv, StreamIn, Runs, ShapeInv
  <1>7. ShapeInv'
    <2>1. strm' \in [Devs -> [Streams -> Stream]] /\ \A s \in Streams : strm'[d][s].format \in AllFormats[s]
      <3>1. \A s \in Streams : /\ NewStream(FirstFormat[s]) \in Stream
                               /\ NewStream(FirstFormat[s]).format \in AllFormats[s]
        BY DEF NewStream, FirstFormat, AllFormats, AnyFormat, Streams, Stream, Buffers, NULL
      <3>2. QED
        BY <1>1, <1>2, <1>6, <3>1 DEF ShapeInv
    <2>2. cam_tag' \in [Devs -> 0 .. Tags - 1]
      <3>1. cam_tag \in [Devs -> 0 .. Tags - 1]
        BY DEF ShapeInv
      <3>2. Tags \in Nat \ {0, 1}
        BY DEF KinectAssumption
      <3>3. 0 \in 0 .. Tags - 1
        BY <3>2
      <3>4. QED
        BY <1>2, <3>1, <3>3
    <2>3. \A e \in Devs, s \in Streams : strm'[e][s].format \in AllFormats[s]
      BY <1>6, <2>1 DEF ShapeInv
    <2>4. QED
      BY <1>2, <1>3, <1>5, <2>1, <2>2, <2>3 DEF ShapeInv, Stages
  <1>8. CallInv'
    <2>1. call' \in [op : {"open"}, dev : Devs, index : Int, i : Nat, seen : [Kinds -> Nat]]
      BY <1>1, <1>2
    <2>2. call'.i \in 1 .. Len(bus) + 1
      BY <1>4, OnBus
    <2>3. QED
      BY <1>1, <1>2, <1>3, <1>4, <2>1, <2>2 DEF CallInv
  <1>9. SubInv'
    <2>1. \A k : Before(1, k) = 0
      <3>1. \A k : {j \in 1 .. 1 - 1 : bus[j].kind = k} = {}
        OBVIOUS
      <3>2. QED
        BY <3>1, FS_EmptySet DEF Before
    <2>2. \A k \in Kinds : call'.seen[k] = Before(call'.i, k) /\ sub[d][k] = 0
      BY <1>1, <1>3, <1>4, <2>1 DEF SubInv, Before
    <2>3. QED
      BY <1>1, <1>3, <1>4, <1>5, <2>2 DEF SubInv, Before
  <1>10. HandleInv'
    BY <1>2, <1>3, <1>5 DEF HandleInv
  <1>11. StreamInv'
    <2>1. \A e, t : ~Calling(e, t) /\ ~Calling(e, t)'
      BY <1>4 DEF Calling
    <2>2. \A s \in Streams : /\ ~strm'[d][s].running /\ ~strm'[d][s].iso
                             /\ strm'[d][s].lib = NULL /\ strm'[d][s].raw = NULL /\ strm'[d][s].proc = NULL
      <3>1. \A f : /\ ~NewStream(f).running /\ ~NewStream(f).iso
                   /\ NewStream(f).lib = NULL /\ NewStream(f).raw = NULL /\ NewStream(f).proc = NULL
        BY DEF NewStream
      <3>2. QED
        BY <1>6, <3>1
    <2>3. \A e \in Devs \ {d} : \A t \in Streams : Runs(e, t)' <=> Runs(e, t)
      BY <1>3, <1>6 DEF Runs
    <2>4. ASSUME NEW e \in Devs, NEW t \in Streams PROVE StreamIn(e, t)'
      <3>1. CASE e = d
        BY <2>1, <2>2, <3>1 DEF StreamIn
      <3>2. CASE e # d
        <4>1. StreamIn(e, t) /\ (Runs(e, t)' <=> Runs(e, t)) /\ strm'[e][t] = strm[e][t]
          BY <1>6, <2>3, <3>2 DEF StreamInv
        <4>2. QED
          BY <2>1, <4>1 DEF StreamIn
      <3>3. QED
        BY <3>1, <3>2
    <2>5. QED
      BY <2>4 DEF StreamInv
  <1>12. CameraInv'
    <2>1. \A s \in Streams : ~strm'[d][s].running
      <3>1. \A f : ~NewStream(f).running
        BY DEF NewStream
      <3>2. QED
        BY <1>6, <3>1
    <2>2. \A e \in Devs, t \in Streams : /\ strm'[e][t].running = strm[e][t].running
                                         /\ strm[e][t].running => strm'[e][t].format = strm[e][t].format
      <3>1. ASSUME NEW t \in Streams PROVE strm'[d][t].running = strm[d][t].running /\ ~strm[d][t].running
        <4>1. strm[d][t] \in Stream /\ strm'[d][t] \in Stream
          BY <1>1, <1>7 DEF ShapeInv
        <4>2. QED
          BY <1>6, <2>1, <4>1 DEF Stream
      <3>2. QED
        BY <1>6, <3>1
    <2>3. QED
      BY <1>2, <1>4, <1>5, <2>2, CameraKept
  <1>13. TodoInv'
    BY <1>2, <1>4, SilentKept
  <1>14. QED
    BY <1>7, <1>8, <1>9, <1>10, <1>11, <1>12, <1>13

\* One turn of the loop over the bus: a place of its kind that was passed over
\* is counted, and the one that is wanted is claimed.
LEMMA ScanStep ==
  ASSUME KinectAssumption, KinectInv, Scan
  PROVE  KinectInv'
  <1> DEFINE n == call.i  d == call.dev  k == bus[n].kind
             Claims == /\ sub[d][k] = 0 /\ ~Passes(k, call.index) /\ Claimable(n)
                       /\ sub' = [sub EXCEPT ![d][k] = n] /\ handles' = handles \cup {<<n, d>>}
                       /\ call' = [call EXCEPT !.i = @ + 1] /\ UNCHANGED stage
  <1> USE DEF KinectInv
  <1>1. /\ stage = "scan" /\ call.i <= Len(bus)
        /\ UNCHANGED <<lab, list, cam_tag, strm, todo, camera>>
    BY DEF Scan
  <1>2. bus' = bus /\ Cameras' = Cameras /\ Open' = Open /\ Open \subseteq Devs
    BY <1>1, OnBus DEF bus, Cameras, Open
  <1>3. /\ call \in [op : {"open"}, dev : Devs, index : Int, i : Nat, seen : [Kinds -> Nat]]
        /\ n \in 1 .. Len(bus) /\ n \in DOMAIN bus /\ n \in Nat \ {0} /\ d \in Devs \ Open /\ k \in Kinds
    BY <1>1, OnBus DEF CallInv, Opening
  <1>4. \A l \in Kinds : Before(n + 1, l) = (IF k = l THEN Before(n, l) + 1 ELSE Before(n, l)) /\ Before(n, l) \in Nat
    BY <1>3, BeforeNext
  <1>5. \A m, l : Before(m, l)' = Before(m, l)
    BY <1>2 DEF Before
  <1>6. \A l \in Kinds : IF sub[d][l] # 0 THEN Before(sub[d][l], l) = call.index ELSE call.seen[l] = Before(n, l)
    BY <1>1 DEF SubInv, Opening
  <1>7. ~Conversing /\ ~Conversing' /\ Opening /\ Opening' /\ stage' \in {"scan", "scanned"}
    BY <1>1 DEF Scan, Goto, Conversing, Opening
  <1>8. StreamInv' /\ TodoInv'
    BY <1>1, <1>2, <1>7, SilentKept DEF StreamInv, StreamIn, Calling, Runs
  <1>9. CASE UNCHANGED <<sub, handles>>
    <2>1. \/ stage' = "scan" /\ call' = [call EXCEPT !.i = @ + 1] /\ sub[d][k] # 0
          \/ stage' = "scan" /\ call' = [call EXCEPT !.i = @ + 1, !.seen[k] = @ + 1] /\ sub[d][k] = 0
          \/ stage' = "scanned" /\ call' = call
      <3>1. \/ sub[d][k] # 0 /\ call' = [call EXCEPT !.i = @ + 1] /\ stage' = stage
            \/ sub[d][k] = 0 /\ call' = [[call EXCEPT !.i = @ + 1] EXCEPT !.seen[k] = @ + 1] /\ stage' = stage
            \/ sub[d][k] = 0 /\ sub' = [sub EXCEPT ![d][k] = n]
            \/ call' = call /\ stage' = "scanned"
        BY DEF Scan, Goto
      <3>2. sub[d][k] = 0 => sub' # [sub EXCEPT ![d][k] = n]
        BY <1>3, <1>9 DEF ShapeInv
      <3>3. QED
        BY <1>1, <1>3, <3>1, <3>2
    <2>2. /\ call'.dev = d /\ call'.index = call.index /\ call'.i \in 1 .. Len(bus) + 1
          /\ call' \in [op : {"open"}, dev : Devs, index : Int, i : Nat, seen : [Kinds -> Nat]]
          /\ \A l \in Kinds : IF sub[d][l] # 0 THEN TRUE ELSE stage' = "scan" => call'.seen[l] = Before(call'.i, l)
      <3>1. Len(bus) \in Nat
        BY OnBus
      <3>2. CASE stage' = "scan" /\ call' = [call EXCEPT !.i = @ + 1] /\ sub[d][k] # 0
        <4>1. call'.i = n + 1 /\ call'.seen = call.seen /\ call'.dev = d /\ call'.index = call.index
          BY <1>3, <3>2
        <4>2. \A l \in Kinds : sub[d][l] = 0 => call'.seen[l] = Before(n + 1, l)
          BY <1>4, <1>6, <3>2, <4>1
        <4>3. QED
          BY <1>3, <3>1, <3>2, <4>1, <4>2
      <3>3. CASE stage' = "scan" /\ call' = [call EXCEPT !.i = @ + 1, !.seen[k] = @ + 1] /\ sub[d][k] = 0
        <4>1. /\ call'.i = n + 1 /\ call'.seen = [call.seen EXCEPT ![k] = @ + 1]
              /\ call'.dev = d /\ call'.index = call.index
          BY <1>3, <3>3
        <4>2. call.seen \in [Kinds -> Nat] /\ call'.seen \in [Kinds -> Nat]
          BY <1>3, <4>1
        <4>3. \A l \in Kinds : sub[d][l] = 0 => call'.seen[l] = Before(n + 1, l)
          BY <1>4, <1>6, <4>1, <4>2
        <4>4. call' \in [op : {"open"}, dev : Devs, index : Int, i : Nat, seen : [Kinds -> Nat]]
          <5>1. /\ call' = [call EXCEPT !.i = n + 1, !.seen = call'.seen] /\ call'.seen \in [Kinds -> Nat]
                /\ n + 1 \in Nat
            BY <1>3, <3>3, <4>1, <4>2
          <5>2. QED
            BY <1>3, <5>1
        <4>5. QED
          BY <1>3, <3>1, <4>1, <4>3, <4>4
      <3>4. CASE stage' = "scanned" /\ call' = call
        BY <1>3, <3>1, <3>4
      <3>5. QED
        BY <2>1, <3>2, <3>3, <3>4
    <2>3. SubInv'
      <3>1. \A l \in Kinds : IF sub'[d][l] # 0 THEN Before(sub'[d][l], l) = call'.index
                             ELSE stage' = "scan" => call'.seen[l] = Before(call'.i, l)
        BY <1>6, <1>9, <2>2
      <3>2. QED
        BY <1>1, <1>2, <1>5, <1>7, <1>9, <2>2, <3>1 DEF SubInv
    <2>4. HandleInv'
      BY <1>2, <1>9 DEF HandleInv
    <2>5. ShapeInv'
      BY <1>1, <1>2, <1>7, <1>9 DEF ShapeInv, Stages
    <2>6. CallInv'
      BY <1>2, <1>3, <1>7, <2>2 DEF CallInv
    <2>7. CameraInv'
      BY <1>1, <1>7, <1>9, CameraKept
    <2>8. QED
      BY <1>8, <2>3, <2>4, <2>5, <2>6, <2>7
  <1>10. CASE Claims
    <2>1. /\ call'.dev = d /\ call'.index = call.index /\ call'.i = n + 1
          /\ call' \in [op : {"open"}, dev : Devs, index : Int, i : Nat, seen : [Kinds -> Nat]]
          /\ call'.seen = call.seen
      <3>1. call' = [call EXCEPT !.i = @ + 1]
        BY <1>10
      <3>2. QED
        BY <1>3, <3>1
    <2>2. /\ sub'[d][k] = n /\ \A l \in Kinds \ {k} : sub'[d][l] = sub[d][l]
          /\ \A e \in Devs \ {d} : sub'[e] = sub[e]
      BY <1>3, <1>10 DEF ShapeInv
    <2>3. Before(n, k) = call.index
      BY <1>3, <1>6, <1>10 DEF Passes
    <2>4. SubInv'
      <3>1. \A l \in Kinds : IF sub'[d][l] # 0 THEN Before(sub'[d][l], l) = call'.index
                             ELSE stage' = "scan" => call'.seen[l] = Before(call'.i, l)
        <4>1. Before(sub'[d][k], k) = call'.index
          BY <1>2, <2>1, <2>2, <2>3 DEF Before
        <4>2. ASSUME NEW l \in Kinds, l # k
              PROVE  IF sub'[d][l] # 0 THEN Before(sub'[d][l], l) = call'.index
                             ELSE stage' = "scan" => call'.seen[l] = Before(call'.i, l)
          <5>1. sub'[d][l] = sub[d][l] /\ Before(n + 1, l) = Before(n, l)
            BY <1>4, <2>2, <4>2
          <5>2. QED
            BY <1>6, <2>1, <5>1
        <4>3. QED
          BY <1>3, <2>2, <4>1, <4>2
      <3>2. \A e \in Devs \ {d}, l \in Kinds : Before(sub'[e][l], l) = Before(sub[e][l], l)
        BY <1>2, <2>2 DEF Before
      <3>3. \A e \in Devs, l \in Kinds : sub'[e][l] # 0 => bus'[sub'[e][l]].kind = l
        BY <1>2, <1>3, <2>2 DEF SubInv
      <3>4. \A e \in Open : e \in Devs \ {d} /\ "camera" \in Kinds /\ "motor" \in Kinds
        BY <1>2, <1>3 DEF Kinds
      <3>5. \A e \in Open', l \in Kinds : sub'[e][l] # 0
        BY <1>2, <2>2, <3>4 DEF SubInv
      <3>6. \A e \in Open' : Before(sub'[e]["camera"], "camera") = Before(sub'[e]["motor"], "motor")
        BY <1>2, <3>2, <3>4 DEF SubInv
      <3>7. \A e \in Devs \ Open' : (Opening' /\ call'.dev = e) \/ \A l \in Kinds : sub'[e][l] = 0
        BY <1>2, <1>7, <2>1, <2>2 DEF SubInv
      <3>8. QED
        BY <1>2, <1>5, <1>7, <2>1, <3>1, <3>3, <3>5, <3>6, <3>7 DEF SubInv
    <2>5. HandleInv'
      <3>1. <<n, d>> \in (DOMAIN bus) \X Devs
        BY <1>3
      <3>2. handles' = {h \in (DOMAIN bus) \X Devs : \E l \in Kinds : sub'[h[2]][l] = h[1]}
        <4>1. ASSUME NEW h \in (DOMAIN bus) \X Devs
              PROVE  h \in handles' <=> \E l \in Kinds : sub'[h[2]][l] = h[1]
          <5>1. h[1] # 0 /\ h = <<h[1], h[2]>> /\ h[2] \in Devs
            BY OnBus
          <5>2. CASE h[2] # d
            BY <1>10, <2>2, <5>1, <5>2 DEF HandleInv
          <5>3. CASE h[2] = d
            BY <1>3, <1>10, <2>2, <5>1, <5>3 DEF HandleInv
          <5>4. QED
            BY <5>2, <5>3
        <4>2. handles' \subseteq (DOMAIN bus) \X Devs
          BY <1>10, <3>1 DEF ShapeInv
        <4>3. QED
          BY <4>1, <4>2
      <3>3. \A g, h \in handles' : g[1] = h[1] => g = h
        BY <1>10 DEF HandleInv, Claimable
      <3>4. QED
        BY <1>2, <3>2, <3>3 DEF HandleInv
    <2>6. ShapeInv'
      <3>1. sub' \in [Devs -> [Kinds -> 0 .. Len(bus)]]
        <4>1. sub \in [Devs -> [Kinds -> 0 .. Len(bus)]] /\ n \in 0 .. Len(bus)
          BY <1>3, OnBus DEF ShapeInv
        <4>2. QED
          BY <1>3, <1>10, <4>1
      <3>2. handles' \subseteq (DOMAIN bus) \X Devs
        BY <1>3, <1>10 DEF ShapeInv
      <3>3. QED
        BY <1>1, <1>2, <1>10, <3>1, <3>2 DEF ShapeInv
    <2>7. CallInv'
      BY <1>2, <1>3, <1>7, <2>1 DEF CallInv
    <2>8. CameraInv'
      <3>1. \A e \in Open : sub'[e]["camera"] = sub[e]["camera"]
        BY <1>2, <1>3, <2>2
      <3>2. \A e \in Devs, s \in Streams : \A x : Told(x, e, s)' <=> Told(x, e, s)
        BY <1>1, <1>7 DEF Told, Calling, Sends
      <3>3. QED
        BY <1>1, <1>2, <3>1, <3>2 DEF CameraInv
    <2>9. QED
      BY <1>8, <2>4, <2>5, <2>6, <2>7, <2>8
  <1>11. UNCHANGED <<sub, handles>> \/ Claims
    BY DEF Scan, Goto, OpensFail
  <1>12. QED
    BY <1>9, <1>10, <1>11

\* The device is put into the list, or all it has of the bus is given back.
LEMMA OpenedStep ==
  ASSUME KinectAssumption, KinectInv, Opened
  PROVE  KinectInv'
  <1> DEFINE d == call.dev
  <1> USE DEF KinectInv
  <1>1. /\ Opening /\ ~Opening' /\ ~Conversing /\ ~Conversing' /\ stage' = "idle"
        /\ UNCHANGED <<lab, cam_tag, strm, todo, camera>>
    BY DEF Opened, Return, Opening, Conversing
  <1>2. bus' = bus /\ Cameras' = Cameras /\ Open \subseteq Devs /\ d \in Devs \ Open
    BY <1>1, OnBus DEF bus, Cameras, CallInv
  <1>3. \A m, l : Before(m, l)' = Before(m, l)
    BY <1>2 DEF Before
  <1>4. TodoInv' /\ CallInv'
    BY <1>1, SilentKept DEF CallInv
  <1>5. CASE /\ \A k \in Kinds : sub[d][k] # 0
             /\ list' = Append(list, d) /\ UNCHANGED <<sub, handles>>
    <2>1. list' \in Seq(Devs) /\ IsInjective(list') /\ Open' = Open \cup {d}
      BY <1>2, <1>5, AppendIn DEF ShapeInv, Open
    <2>2. ShapeInv'
      BY <1>1, <1>2, <1>5, <2>1 DEF ShapeInv, Stages
    <2>3. SubInv'
      <3>1. Before(sub[d]["camera"], "camera") = call.index /\ Before(sub[d]["motor"], "motor") = call.index
        BY <1>1, <1>5 DEF SubInv, Kinds
      <3>2. \A e \in Open' : Before(sub[e]["camera"], "camera") = Before(sub[e]["motor"], "motor")
        BY <2>1, <3>1 DEF SubInv
      <3>3. \A e \in Open', k \in Kinds : sub[e][k] # 0
        BY <1>5, <2>1 DEF SubInv
      <3>4. \A e \in Devs \ Open', k \in Kinds : sub[e][k] = 0
        BY <2>1 DEF SubInv
      <3>5. \A e \in Devs, k \in Kinds : sub[e][k] # 0 => bus[sub[e][k]].kind = k
        BY DEF SubInv
      <3>6. sub' = sub
        BY <1>5
      <3>7. QED
        BY <1>1, <1>2, <3>2, <3>3, <3>4, <3>5, <3>6 DEF SubInv, Before
    <2>4. HandleInv'
      BY <1>2, <1>5 DEF HandleInv
    <2>5. StreamInv'
      BY <1>1, <2>1 DEF StreamInv, StreamIn, Calling, Runs
    <2>6. CameraInv'
      <3>1. \A e \in Devs, s \in Streams : \A x : Told(x, e, s)' <=> Told(x, e, s)
        BY <1>1 DEF Told, Calling, Sends
      <3>2. ASSUME NEW c \in Cameras, NEW s \in Streams, s \notin camera[c].missed, sub[d]["camera"] = c
            PROVE  Told(camera[c], d, s)
        <4>1. \A e \in Open : sub[e]["camera"] # c
          BY <1>2, <1>5, <3>2, OneHolder DEF Kinds
        <4>2. Ends(camera[c], Go(s), 0)
          BY <3>2, <4>1 DEF CameraInv
        <4>3. ~strm[d][s].running
          BY <1>2 DEF StreamInv, StreamIn, Runs
        <4>4. QED
          BY <1>1, <4>2, <4>3 DEF Told, Calling
      <3>3. QED
        BY <1>1, <1>2, <1>5, <2>1, <3>1, <3>2 DEF CameraInv
    <2>7. QED
      BY <1>4, <2>2, <2>3, <2>4, <2>5, <2>6
  <1>6. CASE /\ handles' = Released(d) /\ sub' = [sub EXCEPT ![d] = [k \in Kinds |-> 0]] /\ UNCHANGED list
    <2>1. Open' = Open
      BY <1>6 DEF Open
    <2>2. /\ \A k \in Kinds : sub'[d][k] = 0
          /\ \A e \in Devs \ {d} : sub'[e] = sub[e]
      BY <1>2, <1>6 DEF ShapeInv
    <2>3. ShapeInv'
      <3>1. handles' \subseteq (DOMAIN bus) \X Devs
        BY <1>6 DEF Released, ShapeInv
      <3>2. sub' \in [Devs -> [Kinds -> 0 .. Len(bus)]]
        <4>1. sub \in [Devs -> [Kinds -> 0 .. Len(bus)]]
          BY DEF ShapeInv
        <4>2. 0 \in 0 .. Len(bus)
          BY OnBus
        <4>3. [k \in Kinds |-> 0] \in [Kinds -> 0 .. Len(bus)]
          BY <4>2
        <4>4. QED
          BY <1>6, <4>1, <4>3
      <3>3. QED
        BY <1>1, <1>2, <1>6, <3>1, <3>2 DEF ShapeInv, Stages
    <2>4. SubInv'
      <3>1. \A e \in Open : e \in Devs \ {d} /\ sub'[e] = sub[e]
        BY <1>2, <2>2
      <3>2. \A e \in Open : Before(sub'[e]["camera"], "camera") = Before(sub'[e]["motor"], "motor")
        BY <1>2, <3>1 DEF SubInv, Before
      <3>3. \A e \in Devs \ Open, k \in Kinds : sub'[e][k] = 0
        BY <2>2 DEF SubInv
      <3>4. \A e \in Devs, k \in Kinds : sub'[e][k] # 0 => bus[sub'[e][k]].kind = k
        BY <1>2, <2>2 DEF SubInv
      <3>5. \A e \in Open, k \in Kinds : sub'[e][k] # 0
        BY <3>1 DEF SubInv
      <3>6. QED
        BY <1>1, <1>2, <1>3, <2>1, <3>2, <3>3, <3>4, <3>5 DEF SubInv
    <2>5. HandleInv'
      <3>1. ASSUME NEW h \in (DOMAIN bus) \X Devs
            PROVE  h \in handles' <=> \E k \in Kinds : sub'[h[2]][k] = h[1]
        <4>1. h[1] # 0 /\ h = <<h[1], h[2]>> /\ h[2] \in Devs
          BY OnBus
        <4>2. h \in Released(d) <=> h \in handles /\ ~\E k \in Kinds : h = <<sub[d][k], d>>
          BY DEF Released
        <4>3. CASE h[2] # d
          BY <1>6, <2>2, <4>1, <4>2, <4>3 DEF HandleInv
        <4>4. CASE h[2] = d
          BY <1>6, <2>2, <4>1, <4>2, <4>4 DEF HandleInv
        <4>5. QED
          BY <4>3, <4>4
      <3>2. handles' \subseteq handles /\ handles \subseteq (DOMAIN bus) \X Devs
        BY <1>6 DEF Released, ShapeInv
      <3>3. handles' = {h \in (DOMAIN bus) \X Devs : \E k \in Kinds : sub'[h[2]][k] = h[1]}
        BY <3>1, <3>2
      <3>4. QED
        BY <1>2, <3>2, <3>3 DEF HandleInv
    <2>6. StreamInv'
      BY <1>1, <2>1 DEF StreamInv, StreamIn, Calling, Runs
    <2>7. CameraInv'
      <3>1. \A e \in Open : sub'[e]["camera"] = sub[e]["camera"]
        BY <1>2, <2>2
      <3>2. \A e \in Devs, s \in Streams : \A x : Told(x, e, s)' <=> Told(x, e, s)
        BY <1>1 DEF Told, Calling, Sends
      <3>3. QED
        BY <1>1, <1>2, <2>1, <3>1, <3>2 DEF CameraInv
    <2>8. QED
      BY <1>4, <2>3, <2>4, <2>5, <2>6, <2>7
  <1>7. QED
    BY <1>5, <1>6 DEF Opened

-----------------------------------------------------------------------------
\* Setting a buffer or a format changes one stream, and its format only when
\* it does not run.
LEMMA SettingStep ==
  ASSUME KinectAssumption, KinectInv, NEW d \in Devs, NEW s \in Streams,
         (\E b \in {NULL, "user"} : SetBuffer(d, s, b)) \/ (\E f \in AllFormats[s] : SetFormat(d, s, f))
  PROVE  KinectInv'
  <1> USE DEF KinectInv
  <1>1. /\ stage = "idle" /\ d \in Open
        /\ UNCHANGED <<lab, list, sub, handles, cam_tag, stage, call, todo, camera>>
    BY OnBus DEF SetBuffer, SetFormat
  <1>2. bus' = bus /\ Cameras' = Cameras /\ Open' = Open /\ Open \subseteq Devs
    BY <1>1, OnBus DEF bus, Cameras, Open
  <1>3. ~Opening /\ ~Opening' /\ ~Conversing /\ ~Conversing' /\ \A e, t : ~Calling(e, t) /\ ~Calling(e, t)'
    BY <1>1 DEF Opening, Conversing, Calling
  <1>4. strm[d][s] \in Stream /\ strm[d][s].format \in AllFormats[s]
    BY DEF ShapeInv
  <1>5. PICK u \in Stream : /\ strm' = [strm EXCEPT ![d][s] = u] /\ u.format \in AllFormats[s]
                            /\ u.running = strm[d][s].running
                            /\ u.running => u.format = strm[d][s].format /\ \E b \in {NULL, "user"} : u = SetBuf(s, strm[d][s], b)
                            /\ ~u.running => /\ u.iso = strm[d][s].iso /\ u.lib = strm[d][s].lib
                                             /\ u.raw = strm[d][s].raw /\ u.proc = strm[d][s].proc
    <2>1. ASSUME NEW b \in {NULL, "user"}, SetBuffer(d, s, b)
          PROVE  /\ strm' = [strm EXCEPT ![d][s] = SetBuf(s, strm[d][s], b)]
                 /\ SetBuf(s, strm[d][s], b) \in Stream /\ SetBuf(s, strm[d][s], b).format = strm[d][s].format
                 /\ SetBuf(s, strm[d][s], b).running = strm[d][s].running
                 /\ ~strm[d][s].running => SetBuf(s, strm[d][s], b) = [strm[d][s] EXCEPT !.usr = b]
      <3>1. SetBuf(s, strm[d][s], b) \in Stream /\ SetBuf(s, strm[d][s], b).format = strm[d][s].format
        BY <1>4, StreamOps
      <3>2. strm' = [strm EXCEPT ![d][s] = SetBuf(s, strm[d][s], b)]
        BY <2>1 DEF SetBuffer
      <3>3. SetBuf(s, strm[d][s], b).running = strm[d][s].running
        BY <1>4 DEF SetBuf, Stream
      <3>4. QED
        BY <3>1, <3>2, <3>3 DEF SetBuf
    <2>2. ASSUME NEW f \in AllFormats[s], SetFormat(d, s, f)
          PROVE  /\ strm' = [strm EXCEPT ![d][s] = [strm[d][s] EXCEPT !.format = f]]
                 /\ [strm[d][s] EXCEPT !.format = f] \in Stream /\ ~strm[d][s].running
      <3>1. f \in AnyFormat
        BY DEF AnyFormat, Streams
      <3>2. QED
        BY <1>4, <2>2, <3>1 DEF SetFormat, MaySet, Stream
    <2>3. CASE \E b \in {NULL, "user"} : SetBuffer(d, s, b)
      BY <1>4, <2>1, <2>3 DEF Stream
    <2>4. CASE \E f \in AllFormats[s] : SetFormat(d, s, f)
      BY <1>4, <2>2, <2>4 DEF Stream
    <2>5. QED
      BY <2>3, <2>4
  <1>6. /\ strm'[d][s] = u
        /\ \A e \in Devs, t \in Streams : ~(e = d /\ t = s) => strm'[e][t] = strm[e][t]
    BY <1>5 DEF ShapeInv
  <1>7. ShapeInv'
    <2>1. strm' \in [Devs -> [Streams -> Stream]]
      BY <1>5 DEF ShapeInv
    <2>2. \A e \in Devs, t \in Streams : strm'[e][t].format \in AllFormats[t]
      BY <1>5, <1>6 DEF ShapeInv
    <2>3. QED
      BY <1>1, <1>2, <2>1, <2>2 DEF ShapeInv
  <1>8. CallInv' /\ TodoInv' /\ SubInv' /\ HandleInv'
    BY <1>1, <1>3, BusKept, SilentKept DEF CallInv
  <1>9. StreamInv'
    <2>1. ASSUME u.running PROVE Runs(d, s)'
      <3>1. PICK b \in {NULL, "user"} : u = SetBuf(s, strm[d][s], b)
        BY <1>5, <2>1
      <3>2. Runs(d, s) /\ strm[d][s].running
        BY <1>5, <2>1 DEF StreamInv, StreamIn
      <3>3. QED
        BY <1>2, <1>4, <1>6, <3>1, <3>2 DEF Runs, SetBuf, Stream, NULL
    <2>2. \A e \in Devs, t \in Streams : ~(e = d /\ t = s) => (Runs(e, t)' <=> Runs(e, t))
      BY <1>2, <1>6 DEF Runs
    <2>3. QED
      BY <1>3, <1>5, <1>6, <2>1, <2>2 DEF StreamInv, StreamIn
  <1>10. CameraInv'
    BY <1>1, <1>3, <1>5, <1>6, CameraKept
  <1>11. QED
    BY <1>7, <1>8, <1>9, <1>10

\* A stream no call is about has what it had.
LEMMA OtherStream ==
  ASSUME NEW e, NEW t, StreamIn(e, t), ~Calling(e, t), ~Calling(e, t)', Open' = Open, strm'[e][t] = strm[e][t]
  PROVE  StreamIn(e, t)'
  <1>1. Runs(e, t)' <=> Runs(e, t)
    BY DEF Runs
  <1>2. QED
    BY <1>1 DEF StreamIn

\* A step of the call about one stream: what its camera was told for the other
\* stands, and the other cameras are not told anything.
LEMMA CameraStep ==
  ASSUME KinectAssumption, KinectInv, NEW d \in Open, NEW s \in Streams, NEW c \in Cameras, sub[d]["camera"] = c,
         UNCHANGED <<lab, list, sub>>,
         \A e \in Devs, t \in Streams : ~(e = d /\ t = s) =>
           ~Calling(e, t) /\ ~Calling(e, t)' /\ strm'[e][t] = strm[e][t],
         \A b \in Cameras \ {c} : camera'[b] = camera[b],
         \A t \in Streams \ {s} :
           /\ t \in camera'[c].missed <=> t \in camera[c].missed
           /\ \A v : \A r \in {Go(t), ModeOf(t)} :
                Ends(camera[c], r, v) => Ends(camera'[c], r, v),
         s \notin camera'[c].missed => Told(camera[c], d, s)'
  PROVE  CameraInv'
  <1> USE DEF KinectInv
  <1>1. bus' = bus /\ Cameras' = Cameras /\ Open' = Open /\ Open \subseteq Devs
    BY OnBus DEF bus, Cameras, Open
  <1>2. \A e \in Open : sub[e]["camera"] = c => e = d
    BY <1>1, OneHolder, TalksTo DEF Kinds
  <1>3. ASSUME NEW b \in Cameras, NEW t \in Streams, t \notin camera'[b].missed,
               NEW e \in Open, sub[e]["camera"] = b
        PROVE  Told(camera[b], e, t)'
    <2>1. CASE e = d /\ t = s
      BY <1>3, <2>1
    <2>2. CASE ~(e = d /\ t = s)
      <3>1. /\ ~Calling(e, t) /\ ~Calling(e, t)' /\ strm'[e][t] = strm[e][t]
        BY <1>1, <1>3, <2>2
      <3>2. t \notin camera[b].missed
        BY <1>2, <1>3, <2>2
      <3>3. Told(camera[b], e, t)
        BY <1>3, <3>2 DEF CameraInv
      <3>4. \A r \in {Go(t), ModeOf(t)} : \A v : Ends(camera[b], r, v) => Ends(camera'[b], r, v)
        BY <1>2, <1>3, <2>2
      <3>5. QED
        BY <3>1, <3>3, <3>4 DEF Told, Sends
    <2>3. QED
      BY <2>1, <2>2
  <1>4. ASSUME NEW b \in Cameras, NEW t \in Streams, t \notin camera'[b].missed,
               \A e \in Open : sub[e]["camera"] # b
        PROVE  Ends(camera'[b], Go(t), 0)
    BY <1>4 DEF CameraInv
  <1>5. QED
    BY <1>1, <1>3, <1>4 DEF CameraInv

\* A stream is being started: its buffers are ready, and nothing is sent yet.
LEMMA StartStreamStep ==
  ASSUME KinectAssumption, KinectInv, NEW d \in Devs, NEW s \in Streams, StartStream(d, s)
  PROVE  KinectInv'
  <1> USE DEF KinectInv
  <1>1. d \in Open
    BY OnBus DEF StartStream
  <1>2. PICK c \in Cameras : sub[d]["camera"] = c
    BY <1>1, TalksTo
  <1> DEFINE u == [StreamInit(s, strm[d][s]) EXCEPT !.iso = TRUE]
  <1>3. /\ stage = "idle" /\ stage' = "send" /\ d \in Open /\ ~strm[d][s].running
        /\ strm' = [strm EXCEPT ![d][s] = u]
        /\ todo' = StartWrites(s, strm[d][s].format)
        /\ call' = [op |-> "start", dev |-> d, s |-> s]
        /\ camera' = [camera EXCEPT ![c].missed = @ \ {s}]
        /\ UNCHANGED <<lab, list, sub, handles, cam_tag>>
    BY <1>2, <1>1 DEF StartStream, Goto, Forget
  <1>4. bus' = bus /\ Cameras' = Cameras /\ Open' = Open /\ Open \subseteq Devs
    BY <1>3, OnBus DEF bus, Cameras, Open
  <1>5. /\ ~Opening /\ ~Opening' /\ ~Conversing /\ Conversing' /\ \A e, t : ~Calling(e, t)
        /\ \A e, t : Calling(e, t)' <=> e = d /\ t = s
    BY <1>3 DEF Opening, Conversing, Calling
  <1>6. camera[c] \in ACamera
    BY DEF ShapeInv
  <1>7. strm[d][s] \in Stream /\ strm[d][s].format \in AllFormats[s]
    BY DEF ShapeInv
  <1>8. u \in Stream
    BY <1>7, StreamOps
  <1>9. /\ u.running = strm[d][s].running /\ u.format = strm[d][s].format /\ u.iso /\ u.sized = u.format
        /\ u.proc # NULL /\ u.proc = (IF u.usr # NULL THEN u.usr ELSE u.lib)
        /\ u.raw = (IF Split(s, u.format) THEN "own" ELSE u.proc)
    BY <1>7, StreamReady
  <1> HIDE DEF u
  <1>10. /\ strm' \in [Devs -> [Streams -> Stream]] /\ strm'[d][s] = u
         /\ \A e \in Devs, t \in Streams : ~(e = d /\ t = s) => strm'[e][t] = strm[e][t]
         /\ \A e \in Devs, t \in Streams : strm'[e][t].format \in AllFormats[t]
    BY <1>3, <1>7, <1>8, <1>9, StreamChanged
  <1>11. /\ camera'[c].regs = camera[c].regs /\ camera'[c].asked = camera[c].asked
         /\ camera'[c].missed = camera[c].missed \ {s} /\ \A b \in Cameras \ {c} : camera'[b] = camera[b]
         /\ camera' \in [Cameras -> ACamera]
    BY <1>3, <1>6 DEF ShapeInv, ACamera
  <1>12. ShapeInv'
    <2>1. todo' \in Seq(Registers \X Nat)
      BY <1>3, WritesAre
    <2>2. QED
      BY <1>3, <1>4, <1>10, <1>11, <2>1 DEF ShapeInv, Stages
  <1>13. CallInv'
    BY <1>3, <1>4, <1>5, <1>9, <1>10 DEF CallInv
  <1>14. SubInv' /\ HandleInv'
    BY <1>3, <1>5, BusKept
  <1>15. StreamInv'
    <2>1. Runs(d, s)'
      BY <1>3, <1>4, <1>9, <1>10 DEF Runs
    <2>2. ASSUME NEW e \in Devs, NEW t \in Streams PROVE StreamIn(e, t)'
      <3>1. CASE e = d /\ t = s
        BY <1>3, <1>5, <1>9, <1>10, <2>1, <3>1 DEF StreamIn
      <3>2. CASE ~(e = d /\ t = s)
        BY <1>4, <1>5, <1>10, <3>2, OtherStream DEF StreamInv
      <3>3. QED
        BY <3>1, <3>2
    <2>3. QED
      BY <2>2 DEF StreamInv
  <1>16. Writing' = StartWrites(s, strm[d][s].format) /\ Sent' = 0
    <2>1. Writing' = todo'
      BY <1>3, <1>9, <1>10 DEF Writing
    <2>2. Len(todo') \in Nat
      BY <1>3, WritesAre
    <2>3. QED
      BY <1>3, <2>1, <2>2 DEF Sent
  <1>17. TodoInv'
    <2>1. todo' = Writing' /\ Len(todo') \in Nat
      BY <1>3, <1>16, WritesAre
    <2>2. QED
      BY <1>3, <1>5, <2>1 DEF TodoInv
  <1>18. CameraInv'
    <2>1. Told(camera[c], d, s)'
      BY <1>3, <1>5, <1>16 DEF Told
    <2>2. \A r, v : Ends(camera[c], r, v) => Ends(camera'[c], r, v)
      BY <1>11, EndsSame
    <2>3. \A t \in Streams \ {s} : t \in camera'[c].missed <=> t \in camera[c].missed
      BY <1>11
    <2>4. UNCHANGED <<lab, list, sub>> /\ d \in Open
      BY <1>3
    <2>5. QED
      BY <1>5, <1>10, <1>11, <2>1, <2>2, <2>3, <2>4, <1>2, CameraStep
  <1>19. QED
    BY <1>12, <1>13, <1>14, <1>15, <1>17, <1>18

\* A stream that runs now has been told to, last of all.
LEMMA StreamStartedStep ==
  ASSUME KinectAssumption, KinectInv, StreamStarted
  PROVE  KinectInv'
  <1> USE DEF KinectInv
  <1>1. PICK d \in Open, s \in Streams : call.dev = d /\ call.s = s /\ ~strm[d][s].running
    BY DEF StreamStarted, Conversing, CallInv
  <1>2. PICK c \in Cameras : sub[d]["camera"] = c
    BY TalksTo
  <1> DEFINE u == [strm[d][s] EXCEPT !.running = TRUE]
  <1>3. /\ stage = "send" /\ stage' = "idle" /\ todo = <<>> /\ call.op = "start"
        /\ strm' = [strm EXCEPT ![d][s] = u]
        /\ UNCHANGED <<lab, list, sub, handles, cam_tag, todo, camera>>
    BY <1>1 DEF StreamStarted, Return
  <1>4. bus' = bus /\ Cameras' = Cameras /\ Open' = Open /\ Open \subseteq Devs /\ d \in Devs
    BY <1>3, OnBus DEF bus, Cameras, Open
  <1>5. ~Opening /\ ~Opening' /\ Conversing /\ ~Conversing'
    BY <1>3 DEF Opening, Conversing
  <1>6. \A e, t : (Calling(e, t) <=> e = d /\ t = s) /\ ~Calling(e, t)'
    BY <1>1, <1>5 DEF Calling
  <1>7. camera[c] \in ACamera
    BY DEF ShapeInv
  <1>8. /\ strm[d][s] \in Stream /\ strm[d][s].format \in AllFormats[s]
        /\ u \in Stream /\ u.running /\ u.format = strm[d][s].format /\ u.iso = strm[d][s].iso
        /\ u.sized = strm[d][s].sized /\ u.usr = strm[d][s].usr /\ u.lib = strm[d][s].lib
        /\ u.raw = strm[d][s].raw /\ u.proc = strm[d][s].proc
    <2>1. strm[d][s] \in Stream /\ strm[d][s].format \in AllFormats[s]
      BY <1>4 DEF ShapeInv
    <2>2. QED
      BY <2>1 DEF Stream
  <1> HIDE DEF u
  <1>9. /\ strm' \in [Devs -> [Streams -> Stream]] /\ strm'[d][s] = u
        /\ \A e \in Devs, t \in Streams : ~(e = d /\ t = s) => strm'[e][t] = strm[e][t]
        /\ \A e \in Devs, t \in Streams : strm'[e][t].format \in AllFormats[t]
    BY <1>3, <1>4, <1>8, StreamChanged
  <1>10. ShapeInv'
    BY <1>3, <1>4, <1>9 DEF ShapeInv, Stages
  <1>11. CallInv' /\ TodoInv' /\ SubInv' /\ HandleInv'
    BY <1>3, <1>5, BusKept DEF CallInv, TodoInv
  <1>12. StreamInv'
    <2>1. Runs(d, s)'
      <3>1. Runs(d, s)
        BY <1>3, <1>4, <1>6 DEF StreamInv, StreamIn
      <3>2. QED
        BY <1>4, <1>8, <1>9, <3>1 DEF Runs
    <2>2. ASSUME NEW e \in Devs, NEW t \in Streams PROVE StreamIn(e, t)'
      <3>1. CASE e = d /\ t = s
        BY <1>8, <1>9, <2>1, <3>1 DEF StreamIn
      <3>2. CASE ~(e = d /\ t = s)
        <4>1. StreamIn(e, t) /\ ~Calling(e, t) /\ ~Calling(e, t)' /\ Open' = Open /\ strm'[e][t] = strm[e][t]
          BY <1>4, <1>6, <1>9, <3>2 DEF StreamInv
        <4>2. QED
          BY <4>1, OtherStream
      <3>3. QED
        BY <3>1, <3>2
    <2>3. QED
      BY <2>2 DEF StreamInv
  <1>13. CameraInv'
    <2>1. ASSUME s \notin camera[c].missed PROVE Told(camera[c], d, s)'
      <3>1. Writing = StartWrites(s, strm[d][s].format) /\ Len(Writing) \in 3 .. 4
        BY <1>1, <1>3, WritesAre DEF Writing
      <3>2. Sent \in 3 .. 4
        BY <1>3, <3>1 DEF Sent
      <3>3. Told(camera[c], d, s)
        BY <1>2, <2>1 DEF CameraInv
      <3>4. Sends(camera[c], s, strm[d][s].format)
        <4>1. Sent >= 2 /\ Sent >= 3
          BY <3>2
        <4>2. Calling(d, s) /\ call.op = "start"
          BY <1>3, <1>6
        <4>3. QED
          BY <3>3, <4>1, <4>2 DEF Told, Sends
      <3>5. ~Calling(d, s)' /\ strm'[d][s].running /\ strm'[d][s].format = strm[d][s].format /\ camera' = camera
        BY <1>3, <1>6, <1>8, <1>9
      <3>6. QED
        BY <1>3, <3>4, <3>5 DEF Told, Sends
    <2>2. QED
      BY <1>1, <1>3, <1>6, <1>9, <2>1, <1>2, CameraStep
  <1>14. QED
    BY <1>10, <1>11, <1>12, <1>13

\* A stream that is being stopped does not run any more, and nothing is sent yet.
LEMMA StopFirstStep ==
  ASSUME KinectAssumption, KinectInv, ~Opening, ~Conversing, NEW d \in Open, NEW s \in Streams, StopFirst(d, s),
         UNCHANGED <<lab, list, sub, handles, cam_tag>>,
         NEW o \in {"stop", "close", "shutdown"}, call' = [op |-> o, dev |-> d, s |-> s]
  PROVE  KinectInv'
  <1> USE DEF KinectInv
  <1>1. PICK c \in Cameras : sub[d]["camera"] = c
    BY TalksTo
  <1> DEFINE u == [strm[d][s] EXCEPT !.running = FALSE]
  <1>2. /\ strm' = [strm EXCEPT ![d][s] = u]
        /\ todo' = StopWrites(s) /\ stage' = "send"
        /\ camera' = [camera EXCEPT ![c].missed = @ \ {s}]
    BY <1>1 DEF StopFirst, Goto, Forget
  <1>3. bus' = bus /\ Cameras' = Cameras /\ Open' = Open /\ Open \subseteq Devs /\ d \in Devs
    BY <1>2, OnBus DEF bus, Cameras, Open
  <1>4. /\ ~Opening' /\ Conversing' /\ \A e, t : ~Calling(e, t)
        /\ \A e, t : Calling(e, t)' <=> e = d /\ t = s
    BY <1>2 DEF Opening, Conversing, Calling
  <1>5. camera[c] \in ACamera
    BY DEF ShapeInv
  <1>6. /\ strm[d][s] \in Stream /\ strm[d][s].format \in AllFormats[s]
        /\ u \in Stream /\ ~u.running /\ u.format = strm[d][s].format /\ u.format \in AllFormats[s]
    <2>1. strm[d][s] \in Stream /\ strm[d][s].format \in AllFormats[s]
      BY <1>3 DEF ShapeInv
    <2>2. QED
      BY <2>1 DEF Stream
  <1> HIDE DEF u
  <1>7. /\ strm' \in [Devs -> [Streams -> Stream]] /\ strm'[d][s] = u
        /\ \A e \in Devs, t \in Streams : ~(e = d /\ t = s) => strm'[e][t] = strm[e][t]
        /\ \A e \in Devs, t \in Streams : strm'[e][t].format \in AllFormats[t]
    <2>1. ShapeInv /\ strm' = [strm EXCEPT ![d][s] = u] /\ d \in Devs
      BY <1>2, <1>3
    <2>2. QED
      BY <1>6, <2>1, StreamChanged
  <1>8. /\ camera'[c].regs = camera[c].regs /\ camera'[c].asked = camera[c].asked
        /\ camera'[c].missed = camera[c].missed \ {s} /\ \A b \in Cameras \ {c} : camera'[b] = camera[b]
        /\ camera' \in [Cameras -> ACamera]
    BY <1>2, <1>5 DEF ShapeInv, ACamera
  <1>9. ShapeInv'
    <2>1. todo' \in Seq(Registers \X Nat)
      BY <1>2, WritesAre
    <2>2. QED
      BY <1>2, <1>3, <1>7, <1>8, <2>1 DEF ShapeInv, Stages
  <1>10. CallInv'
    BY <1>2, <1>3, <1>4, <1>6, <1>7 DEF CallInv
  <1>11. SubInv' /\ HandleInv'
    BY <1>4, BusKept
  <1>12. call'.op # "start"
    OBVIOUS
  <1>13. StreamInv'
    <2>1. ASSUME NEW e \in Devs, NEW t \in Streams PROVE StreamIn(e, t)'
      <3>1. CASE e = d /\ t = s
        BY <1>4, <1>6, <1>7, <1>12, <3>1 DEF StreamIn
      <3>2. CASE ~(e = d /\ t = s)
        BY <1>3, <1>4, <1>7, <3>2, OtherStream DEF StreamInv
      <3>3. QED
        BY <3>1, <3>2
    <2>2. QED
      BY <2>1 DEF StreamInv
  <1>14. Writing' = todo' /\ Len(todo') \in Nat /\ Sent' = 0
    <2>1. Writing' = todo'
      BY <1>2, <1>12 DEF Writing
    <2>2. Len(todo') \in Nat
      BY <1>2, WritesAre
    <2>3. QED
      BY <1>2, <2>1, <2>2 DEF Sent
  <1>15. TodoInv'
    BY <1>2, <1>4, <1>14 DEF TodoInv
  <1>16. CameraInv'
    <2>1. Told(camera[c], d, s)'
      BY <1>2, <1>4, <1>12, <1>14 DEF Told
    <2>2. \A r, v : Ends(camera[c], r, v) => Ends(camera'[c], r, v)
      BY <1>8, EndsSame
    <2>3. \A t \in Streams \ {s} : t \in camera'[c].missed <=> t \in camera[c].missed
      BY <1>8
    <2>4. QED
      BY <1>4, <1>7, <1>8, <2>1, <2>2, <2>3, <1>1, CameraStep
  <1>17. QED
    BY <1>9, <1>10, <1>11, <1>13, <1>15, <1>16

\* The program stops a stream: freenect_stop_depth, freenect_stop_video.
LEMMA StopStreamStep ==
  ASSUME KinectAssumption, KinectInv, NEW d \in Devs, NEW s \in Streams, StopStream(d, s)
  PROVE  KinectInv'
  <1> USE DEF KinectInv
  <1>1. /\ stage = "idle" /\ d \in Open /\ StopFirst(d, s) /\ call' = [op |-> "stop", dev |-> d, s |-> s]
        /\ UNCHANGED <<lab, list, sub, handles, cam_tag>>
    BY OnBus DEF StopStream
  <1>2. ~Opening /\ ~Conversing
    BY <1>1 DEF Opening, Conversing
  <1>3. QED
    BY <1>1, <1>2, StopFirstStep

\* A device that is closed stops its streams first: freenect_camera_teardown.
LEMMA CloseStopsStep ==
  ASSUME KinectAssumption, KinectInv, NEW s \in Streams, CloseStops(s)
  PROVE  KinectInv'
  <1> USE DEF KinectInv
  <1>1. /\ stage = "closing" /\ StopFirst(call.dev, s) /\ call' = [call EXCEPT !.s = s]
        /\ UNCHANGED <<lab, list, sub, handles, cam_tag>>
    BY DEF CloseStops
  <1>2. ~Opening /\ ~Conversing
    BY <1>1 DEF Opening, Conversing
  <1>3. call.dev \in Open /\ call \in [op : {"close", "shutdown"}, dev : Devs, s : Streams]
    BY <1>1 DEF CallInv
  <1>4. PICK d \in Open, o \in {"close", "shutdown"} : call.dev = d /\ call.op = o
    BY <1>3
  <1>5. StopFirst(d, s) /\ call' = [op |-> o, dev |-> d, s |-> s]
    BY <1>1, <1>3, <1>4
  <1>6. QED
    BY <1>1, <1>2, <1>5, StopFirstStep

\* A stream that has been stopped has nothing left, and its camera was told.
LEMMA StreamStoppedStep ==
  ASSUME KinectAssumption, KinectInv, StreamStopped
  PROVE  KinectInv'
  <1> USE DEF KinectInv
  <1>1. PICK d \in Open, s \in Streams : call.dev = d /\ call.s = s /\ ~strm[d][s].running
    BY DEF StreamStopped, Conversing, CallInv
  <1>2. PICK c \in Cameras : sub[d]["camera"] = c
    BY TalksTo
  <1> DEFINE u == [FreeBufs(strm[d][s]) EXCEPT !.iso = FALSE]
  <1>3. /\ stage = "send" /\ todo = <<>> /\ call.op # "start"
        /\ strm' = [strm EXCEPT ![d][s] = u]
        /\ stage' = "idle" \/ (stage' = "closing" /\ call.op # "stop" /\ call' = call)
        /\ UNCHANGED <<lab, list, sub, handles, cam_tag, todo, camera>>
    BY <1>1 DEF StreamStopped, Return, Goto
  <1>4. bus' = bus /\ Cameras' = Cameras /\ Open' = Open /\ Open \subseteq Devs /\ d \in Devs
    BY <1>3, OnBus DEF bus, Cameras, Open
  <1>5. ~Opening /\ ~Opening' /\ Conversing /\ ~Conversing'
    BY <1>3 DEF Opening, Conversing
  <1>6. /\ \A e, t : (Calling(e, t) <=> e = d /\ t = s) /\ ~Calling(e, t)'
        /\ call \in [op : {"start", "stop", "close", "shutdown"}, dev : Devs, s : Streams]
    BY <1>1, <1>5 DEF Calling, CallInv
  <1>7. camera[c] \in ACamera
    BY DEF ShapeInv
  <1>8. /\ u \in Stream /\ u.format \in AllFormats[s] /\ ~u.running /\ ~u.iso
        /\ u.lib = NULL /\ u.raw = NULL /\ u.proc = NULL
    <2>1. strm[d][s] \in Stream /\ strm[d][s].format \in AllFormats[s]
      BY <1>4 DEF ShapeInv
    <2>2. u = [strm[d][s] EXCEPT !.raw = NULL, !.proc = NULL, !.lib = NULL, !.iso = FALSE]
      BY DEF FreeBufs
    <2>3. NULL \in Buffers
      BY DEF Buffers
    <2> HIDE DEF u
    <2>4. QED
      BY <1>1, <2>1, <2>2, <2>3 DEF Stream
  <1> HIDE DEF u
  <1>9. /\ strm' \in [Devs -> [Streams -> Stream]] /\ strm'[d][s] = u
        /\ \A e \in Devs, t \in Streams : ~(e = d /\ t = s) => strm'[e][t] = strm[e][t]
        /\ \A e \in Devs, t \in Streams : strm'[e][t].format \in AllFormats[t]
    BY <1>3, <1>4, <1>8, StreamChanged
  <1>10. ShapeInv'
    BY <1>3, <1>4, <1>9 DEF ShapeInv, Stages
  <1>11. CallInv'
    BY <1>1, <1>3, <1>4, <1>5, <1>6 DEF CallInv
  <1>12. TodoInv' /\ SubInv' /\ HandleInv'
    BY <1>3, <1>5, BusKept DEF TodoInv
  <1>13. StreamInv'
    <2>1. ASSUME NEW e \in Devs, NEW t \in Streams PROVE StreamIn(e, t)'
      <3>1. CASE e = d /\ t = s
        BY <1>6, <1>8, <1>9, <3>1 DEF StreamIn
      <3>2. CASE ~(e = d /\ t = s)
        BY <1>4, <1>6, <1>9, <3>2, OtherStream DEF StreamInv
      <3>3. QED
        BY <3>1, <3>2
    <2>2. QED
      BY <2>1 DEF StreamInv
  <1>14. CameraInv'
    <2>1. ASSUME s \notin camera[c].missed PROVE Told(camera[c], d, s)'
      <3>1. Writing = StopWrites(s) /\ Len(Writing) = 1
        BY <1>1, <1>3, WritesAre DEF Writing
      <3>2. Sent = 1
        BY <1>3, <3>1 DEF Sent
      <3>3. Told(camera[c], d, s)
        BY <1>2, <2>1 DEF CameraInv
      <3>4. Ends(camera[c], Go(s), 0)
        BY <1>3, <1>6, <3>2, <3>3 DEF Told
      <3>5. ~Calling(d, s)' /\ ~strm'[d][s].running /\ camera' = camera
        BY <1>3, <1>6, <1>8, <1>9
      <3>6. QED
        BY <1>3, <3>4, <3>5 DEF Told
    <2>2. QED
      BY <1>1, <1>3, <1>6, <1>9, <2>1, <1>2, CameraStep
  <1>15. QED
    BY <1>10, <1>11, <1>12, <1>13, <1>14

-----------------------------------------------------------------------------
\* Beginning to close a device, or to shut down, changes only where the thread is.
LEMMA CloseStep ==
  ASSUME KinectAssumption, KinectInv, (\E d \in Devs : Close(d)) \/ Shutdown \/ ShutdownNext
  PROVE  KinectInv'
  <1> USE DEF KinectInv
  <1>1. /\ stage \in {"idle", "shutdown"} /\ stage' \in {"closing", "shutdown", "gone"}
        /\ UNCHANGED <<lab, list, sub, handles, cam_tag, strm, todo, camera>>
    BY DEF Close, Shutdown, ShutdownNext, Goto
  <1>2. bus' = bus /\ Cameras' = Cameras /\ Open' = Open /\ Open \subseteq Devs
    BY <1>1, OnBus DEF bus, Cameras, Open
  <1>3. ~Opening /\ ~Opening' /\ ~Conversing /\ ~Conversing' /\ \A e, t : ~Calling(e, t) /\ ~Calling(e, t)'
    BY <1>1 DEF Opening, Conversing, Calling
  <1>4. ShapeInv'
    BY <1>1, <1>2 DEF ShapeInv, Stages
  <1>5. CallInv'
    <2>1. ASSUME NEW d \in Devs, Close(d) PROVE CallInv'
      <3>1. d \in Open /\ call' = [op |-> "close", dev |-> d, s |-> "depth"] /\ stage' = "closing"
        BY <2>1, OnBus DEF Close, Goto
      <3>2. QED
        BY <1>2, <1>3, <3>1 DEF CallInv, Streams
    <2>2. CASE Shutdown
      BY <1>3, <2>2 DEF CallInv, Shutdown, Goto
    <2>3. CASE ShutdownNext /\ list = <<>>
      BY <1>1, <1>3, <2>3 DEF CallInv, ShutdownNext, Goto
    <2>4. CASE ShutdownNext /\ list # <<>>
      <3>1. Head(list) \in Open
        <4>1. list \in Seq(Devs)
          BY DEF ShapeInv
        <4>2. Len(list) \in Nat \ {0} /\ Head(list) = list[1]
          BY <2>4, <4>1
        <4>3. QED
          BY <4>1, <4>2, QueueElements DEF Open
      <3>2. call' = [op |-> "shutdown", dev |-> Head(list), s |-> "depth"] /\ stage' = "closing"
        BY <2>4 DEF ShutdownNext, Goto
      <3>3. QED
        BY <1>2, <1>3, <3>1, <3>2 DEF CallInv, Streams
    <2>5. QED
      BY <2>1, <2>2, <2>3, <2>4
  <1>6. SubInv' /\ HandleInv' /\ TodoInv'
    BY <1>1, <1>3, BusKept, SilentKept
  <1>7. StreamInv'
    BY <1>1, <1>2, <1>3 DEF StreamInv, StreamIn, Runs
  <1>8. CameraInv'
    BY <1>1, <1>3, CameraKept
  <1>9. QED
    BY <1>4, <1>5, <1>6, <1>7, <1>8

\* A device is closed once neither stream runs: its camera has been told to be
\* still, and what it had of the bus is given back.
LEMMA ClosedStep ==
  ASSUME KinectAssumption, KinectInv, Closed
  PROVE  KinectInv'
  <1> USE DEF KinectInv
  <1>1. PICK d \in Open : call.dev = d
    BY DEF Closed, CallInv
  <1>2. PICK c \in Cameras : sub[d]["camera"] = c
    BY TalksTo
  <1>3. /\ stage = "closing" /\ \A s \in Streams : ~strm[d][s].running
        /\ handles' = Released(d)
        /\ sub' = [sub EXCEPT ![d] = [k \in Kinds |-> 0]]
        /\ list' = RemoveFirst(list, d)
        /\ strm' = [strm EXCEPT ![d] = [s \in Streams |-> Freed(s, strm[d][s])]]
        /\ cam_tag' = [cam_tag EXCEPT ![d] = 0]
        /\ camera' = AgedCamera(c, "foreign")
        /\ stage' \in {"idle", "shutdown"} /\ UNCHANGED <<lab, todo>>
    BY <1>1, <1>2 DEF Closed, ClosingStops, Return, Goto
  <1>4. bus' = bus /\ Cameras' = Cameras /\ Open \subseteq Devs /\ d \in Devs
    BY <1>3, OnBus DEF bus, Cameras
  <1>5. ~Opening /\ ~Opening' /\ ~Conversing /\ ~Conversing' /\ \A e, t : ~Calling(e, t) /\ ~Calling(e, t)'
    BY <1>3 DEF Opening, Conversing, Calling
  <1>6. list' \in Seq(Devs) /\ IsInjective(list') /\ Open' = Open \ {d}
    BY <1>3, <1>4, RemoveFirstIn DEF ShapeInv, Open
  <1>7. /\ \A k \in Kinds : sub'[d][k] = 0
        /\ \A e \in Devs \ {d} : sub'[e] = sub[e]
    BY <1>3, <1>4 DEF ShapeInv
  <1>8. /\ \A s \in Streams : strm'[d][s] = Freed(s, strm[d][s])
        /\ \A e \in Devs \ {d} : strm'[e] = strm[e]
    BY <1>3, <1>4 DEF ShapeInv
  <1>9. /\ camera' \in [Cameras -> ACamera] /\ \A b \in Cameras \ {c} : camera'[b] = camera[b]
        /\ camera'[c].missed = camera[c].missed /\ camera'[c].regs = camera[c].regs
        /\ Len(camera'[c].asked) = Len(camera[c].asked)
        /\ \A n \in 1 .. Len(camera[c].asked) : /\ camera'[c].asked[n].reg = camera[c].asked[n].reg
                                                 /\ camera'[c].asked[n].val = camera[c].asked[n].val
    <2> DEFINE f == AgedCamera(c, "foreign")
    <2>1. ShapeInv /\ "foreign" \in Ages
      BY DEF Ages
    <2>2. /\ f \in [Cameras -> ACamera] /\ \A b \in Cameras \ {c} : f[b] = camera[b]
          /\ f[c].missed = camera[c].missed /\ f[c].regs = camera[c].regs
          /\ Len(f[c].asked) = Len(camera[c].asked)
          /\ \A n \in 1 .. Len(camera[c].asked) : /\ f[c].asked[n].reg = camera[c].asked[n].reg
                                                   /\ f[c].asked[n].val = camera[c].asked[n].val
      BY <2>1, AgedCameraIs
    <2>3. camera' = f
      BY <1>3
    <2> HIDE DEF f
    <2>4. QED
      BY <2>2, <2>3
  <1>10. \A s \in Streams : /\ strm[d][s] \in Stream /\ strm[d][s].format \in AllFormats[s]
                           /\ ~strm[d][s].running /\ ~strm[d][s].iso
                           /\ strm[d][s].lib = NULL /\ strm[d][s].raw = NULL /\ strm[d][s].proc = NULL
    BY <1>3, <1>4, <1>5 DEF StreamInv, StreamIn, ShapeInv
  <1>11. ShapeInv'
    <2>1. /\ \A s \in Streams : Freed(s, strm[d][s]) \in Stream /\ Freed(s, strm[d][s]).format = FirstFormat[s]
          /\ \A s \in Streams : FirstFormat[s] \in AllFormats[s]
      BY <1>10, StreamOps
    <2>2. strm' \in [Devs -> [Streams -> Stream]]
      BY <1>3, <1>4, <2>1 DEF ShapeInv
    <2>3. \A e \in Devs, t \in Streams : strm'[e][t].format \in AllFormats[t]
      BY <1>8, <2>1 DEF ShapeInv
    <2>4. sub' \in [Devs -> [Kinds -> 0 .. Len(bus)]]
      <3>1. sub \in [Devs -> [Kinds -> 0 .. Len(bus)]]
        BY DEF ShapeInv
      <3>2. 0 \in 0 .. Len(bus)
        BY OnBus
      <3>3. [k \in Kinds |-> 0] \in [Kinds -> 0 .. Len(bus)]
        BY <3>2
      <3>4. QED
        BY <1>3, <1>4, <3>1, <3>3
    <2>5. handles' \subseteq (DOMAIN bus) \X Devs
      BY <1>3 DEF Released, ShapeInv
    <2>6. cam_tag' \in [Devs -> 0 .. Tags - 1]
      <3>1. cam_tag \in [Devs -> 0 .. Tags - 1]
        BY DEF ShapeInv
      <3>2. Tags \in Nat \ {0, 1}
        BY DEF KinectAssumption
      <3>3. 0 \in 0 .. Tags - 1
        BY <3>2
      <3>4. QED
        BY <1>3, <3>1, <3>3
    <2>7. QED
      BY <1>3, <1>4, <1>6, <1>9, <2>2, <2>3, <2>4, <2>5, <2>6 DEF ShapeInv, Stages
  <1>12. CallInv'
    BY <1>3, <1>5 DEF CallInv
  <1>13. TodoInv'
    BY <1>3, <1>5, SilentKept
  <1>14. SubInv'
    <2>1. \A e \in Open' : e \in Open /\ e \in Devs \ {d} /\ sub'[e] = sub[e]
      BY <1>4, <1>6, <1>7
    <2>2. \A e \in Open' : Before(sub'[e]["camera"], "camera") = Before(sub'[e]["motor"], "motor")
      BY <1>4, <2>1 DEF SubInv, Before
    <2>3. \A e \in Devs \ Open', k \in Kinds : sub'[e][k] = 0
      BY <1>5, <1>6, <1>7 DEF SubInv
    <2>4. \A e \in Open', k \in Kinds : sub'[e][k] # 0
      BY <2>1 DEF SubInv
    <2>5. \A e \in Devs, k \in Kinds : sub'[e][k] # 0 => bus[sub'[e][k]].kind = k
      BY <1>4, <1>7 DEF SubInv
    <2>6. \A m, l : Before(m, l)' = Before(m, l)
      BY <1>4 DEF Before
    <2>7. QED
      BY <1>4, <1>5, <2>2, <2>3, <2>4, <2>5, <2>6 DEF SubInv
  <1>15. HandleInv'
    <2>1. ASSUME NEW h \in (DOMAIN bus) \X Devs
          PROVE  h \in handles' <=> \E k \in Kinds : sub'[h[2]][k] = h[1]
      <3>1. h[1] # 0 /\ h = <<h[1], h[2]>> /\ h[2] \in Devs
        BY OnBus
      <3>2. h \in Released(d) <=> h \in handles /\ ~\E k \in Kinds : h = <<sub[d][k], d>>
        BY DEF Released
      <3>3. CASE h[2] # d
        BY <1>3, <1>7, <3>1, <3>2, <3>3 DEF HandleInv
      <3>4. CASE h[2] = d
        BY <1>3, <1>7, <3>1, <3>2, <3>4 DEF HandleInv
      <3>5. QED
        BY <3>3, <3>4
    <2>2. handles' \subseteq handles /\ handles \subseteq (DOMAIN bus) \X Devs
      BY <1>3 DEF Released, ShapeInv
    <2>3. handles' = {h \in (DOMAIN bus) \X Devs : \E k \in Kinds : sub'[h[2]][k] = h[1]}
      BY <2>1, <2>2
    <2>4. QED
      BY <1>4, <2>2, <2>3 DEF HandleInv
  <1>16. StreamInv'
    <2>1. ASSUME NEW e \in Devs, NEW t \in Streams, e # d PROVE StreamIn(e, t)'
      <3>1. StreamIn(e, t) /\ strm'[e][t] = strm[e][t]
        BY <1>8, <2>1 DEF StreamInv
      <3>2. Runs(e, t)' <=> Runs(e, t)
        BY <1>4, <1>6, <2>1, <3>1 DEF Runs
      <3>3. QED
        BY <1>5, <3>1, <3>2 DEF StreamIn
    <2>2. ASSUME NEW t \in Streams PROVE ~strm'[d][t].running /\ ~strm'[d][t].iso /\ strm'[d][t].lib = NULL
                                         /\ strm'[d][t].raw = NULL /\ strm'[d][t].proc = NULL
      <3>1. /\ Freed(t, strm[d][t]).running = strm[d][t].running /\ Freed(t, strm[d][t]).iso = strm[d][t].iso
            /\ Freed(t, strm[d][t]).lib = strm[d][t].lib /\ Freed(t, strm[d][t]).raw = strm[d][t].raw
            /\ Freed(t, strm[d][t]).proc = strm[d][t].proc
        BY <1>10, StreamOps
      <3>2. strm'[d][t] = Freed(t, strm[d][t])
        BY <1>8
      <3>3. QED
        BY <1>10, <3>1, <3>2
    <2>3. ASSUME NEW e \in Devs, NEW t \in Streams, e = d PROVE StreamIn(e, t)'
      BY <1>5, <2>2, <2>3 DEF StreamIn
    <2>4. QED
      BY <2>1, <2>3 DEF StreamInv
  <1>17. CameraInv'
    <2>1. \A b \in Cameras : \A r, v : Ends(camera'[b], r, v) <=> Ends(camera[b], r, v)
      <3>1. \A r, v : Ends(camera'[c], r, v) <=> Ends(camera[c], r, v)
        BY <1>9, EndsAged
      <3>2. QED
        BY <1>9, <3>1
    <2>2. \A b \in Cameras : camera'[b].missed = camera[b].missed
      BY <1>9
    <2>3. ASSUME NEW b \in Cameras, NEW s \in Streams, s \notin camera'[b].missed,
                 NEW e \in Open', sub'[e]["camera"] = b
          PROVE  Told(camera[b], e, s)'
      <3>1. e \in Open /\ e \in Devs \ {d} /\ sub[e]["camera"] = b /\ strm'[e] = strm[e]
        BY <1>4, <1>6, <1>7, <1>8, <2>3
      <3>2. Told(camera[b], e, s)
        BY <2>2, <2>3, <3>1 DEF CameraInv
      <3>3. QED
        BY <1>5, <2>1, <3>1, <3>2 DEF Told, Sends
    <2>4. ASSUME NEW b \in Cameras, NEW s \in Streams, s \notin camera'[b].missed,
                 \A e \in Open' : sub'[e]["camera"] # b
          PROVE  Ends(camera'[b], Go(s), 0)
      <3>1. CASE b = c
        <4>1. Told(camera[c], d, s)
          BY <1>2, <2>2, <2>4, <3>1 DEF CameraInv
        <4>2. ~strm[d][s].running /\ ~Calling(d, s)
          BY <1>3, <1>5
        <4>3. Ends(camera[c], Go(s), 0)
          BY <4>1, <4>2 DEF Told
        <4>4. \A r, v : Ends(camera'[c], r, v) <=> Ends(camera[c], r, v)
          BY <1>2, <2>1
        <4>5. QED
          BY <3>1, <4>3, <4>4
      <3>2. CASE b # c
        <4>1. ASSUME NEW e \in Open PROVE sub[e]["camera"] # b
          <5>1. CASE e = d
            BY <1>2, <3>2, <5>1
          <5>2. CASE e # d
            <6>1. e \in Open' /\ sub'[e] = sub[e]
              BY <1>4, <1>6, <1>7, <5>2
            <6>2. QED
              BY <2>4, <6>1
          <5>3. QED
            BY <5>1, <5>2
        <4>2. QED
          BY <2>1, <2>2, <2>4, <4>1 DEF CameraInv
      <3>3. QED
        BY <3>1, <3>2
    <2>5. QED
      BY <1>4, <2>3, <2>4 DEF CameraInv
  <1>18. QED
    BY <1>11, <1>12, <1>13, <1>14, <1>15, <1>16, <1>17

-----------------------------------------------------------------------------
\* What comes next of what the call writes
LEMMA NextWrite ==
  ASSUME KinectAssumption, KinectInv, Conversing, todo # <<>>
  PROVE  /\ Len(todo) \in Nat \ {0} /\ Len(todo) <= Len(Writing) /\ Len(Writing) \in 1 .. 4
         /\ Head(todo) = Writing[Len(Writing) - Len(todo) + 1] /\ Head(todo) \in Registers \X Nat
         /\ Tail(todo) \in Seq(Registers \X Nat) /\ Len(Tail(todo)) = Len(todo) - 1
         /\ \A n \in 1 .. Len(Tail(todo)) : Tail(todo)[n] = Writing[n + Len(Writing) - Len(Tail(todo))]
  <1> USE DEF KinectInv
  <1>1. todo \in Seq(Registers \X Nat) /\ Len(todo) \in Nat \ {0}
    BY DEF ShapeInv
  <1>2. Len(Writing) \in 1 .. 4
    BY WritesAre DEF Writing, CallInv
  <1>3. /\ Len(todo) <= Len(Writing)
        /\ \A n \in 1 .. Len(todo) : todo[n] = Writing[n + Len(Writing) - Len(todo)]
    BY DEF TodoInv
  <1>4. /\ Head(todo) = todo[1] /\ Tail(todo) \in Seq(Registers \X Nat) /\ Len(Tail(todo)) = Len(todo) - 1
        /\ \A n \in 1 .. Len(Tail(todo)) : Tail(todo)[n] = todo[n + 1]
    BY <1>1
  <1>5. Head(todo) = Writing[Len(Writing) - Len(todo) + 1]
    <2>1. 1 \in 1 .. Len(todo) /\ todo[1] = Writing[1 + Len(Writing) - Len(todo)]
      BY <1>1, <1>3
    <2>2. 1 + Len(Writing) - Len(todo) = Len(Writing) - Len(todo) + 1
      BY <1>1, <1>2
    <2>3. QED
      BY <1>4, <2>1, <2>2
  <1>6. ASSUME NEW n \in 1 .. Len(Tail(todo))
        PROVE  Tail(todo)[n] = Writing[n + Len(Writing) - Len(Tail(todo))]
    <2>1. n + 1 \in 1 .. Len(todo) /\ Tail(todo)[n] = todo[n + 1]
      BY <1>1, <1>4
    <2>2. (n + 1) + Len(Writing) - Len(todo) = n + Len(Writing) - Len(Tail(todo))
      BY <1>1, <1>2, <1>4
    <2>3. QED
      BY <1>3, <2>1, <2>2
  <1>7. Head(todo) \in Registers \X Nat
    BY <1>1
  <1>8. QED
    BY <1>1, <1>2, <1>3, <1>4, <1>5, <1>6, <1>7

\* The writes of a call, one by one
LEMMA WriteIs ==
  ASSUME NEW s \in Streams, NEW f, NEW n \in Nat
  PROVE  /\ n < Len(StartWrites(s, f)) =>
              /\ n \in 0 .. 3
              /\ n \in {0, 2} => StartWrites(s, f)[n + 1][1] = Go(s)
              /\ n = 1 => StartWrites(s, f)[n + 1] = <<ModeOf(s), ModeValue(s, f)>>
              /\ n = 2 => StartWrites(s, f)[n + 1] = <<Go(s), GoValue(s, f)>>
              /\ n = 3 => StartWrites(s, f)[n + 1][1] = \h47
         /\ n < Len(StopWrites(s)) => StopWrites(s)[n + 1] = <<Go(s), 0>>
  <1> DEFINE W == StartWrites(s, f)  N == Len(W)
  <1>1. /\ N \in 3 .. 4 /\ W[1] = <<Go(s), 0>> /\ W[2] = <<ModeOf(s), ModeValue(s, f)>>
        /\ W[3] = <<Go(s), GoValue(s, f)>>
        /\ N = 4 => W[4] = <<\h47, 0>>
    BY WritesAre
  <1>2. Len(StopWrites(s)) = 1 /\ StopWrites(s)[1] = <<Go(s), 0>>
    BY WritesAre
  <1> HIDE DEF W, N
  <1>3. ASSUME n < N PROVE n \in 0 .. 3 /\ (n = 3 => N = 4)
    BY <1>1, <1>3
  <1>4. ASSUME n < N
        PROVE  /\ n \in {0, 2} => W[n + 1][1] = Go(s)
               /\ n = 1 => W[n + 1] = <<ModeOf(s), ModeValue(s, f)>>
               /\ n = 2 => W[n + 1] = <<Go(s), GoValue(s, f)>>
               /\ n = 3 => W[n + 1][1] = \h47
    <2>1. CASE n = 0
      BY <1>1, <2>1
    <2>2. CASE n = 1
      BY <1>1, <2>2
    <2>3. CASE n = 2
      BY <1>1, <2>3
    <2>4. CASE n = 3
      BY <1>1, <1>3, <1>4, <2>4
    <2>5. QED
      BY <1>3, <1>4, <2>1, <2>2, <2>3, <2>4
  <1>5. ASSUME n < Len(StopWrites(s)) PROVE StopWrites(s)[n + 1] = <<Go(s), 0>>
    <2>1. n = 0
      BY <1>2, <1>5
    <2>2. QED
      BY <1>2, <2>1
  <1>6. QED
    BY <1>3, <1>4, <1>5 DEF W, N

\* Sending the next write brings the camera one further, for the stream of the
\* call, and leaves the other as it is.
LEMMA SentOne ==
  ASSUME KinectAssumption, KinectInv, stage = "send", todo # <<>>, NEW d \in Devs, NEW s \in Streams,
         call.dev = d, call.s = s, NEW x, NEW y,
         \A r, v : /\ Head(todo)[1] = r /\ Head(todo)[2] = v => Ends(y, r, v)
                   /\ Head(todo)[1] # r /\ Ends(x, r, v) => Ends(y, r, v)
  PROVE  /\ \A t \in Streams \ {s} : \A v : \A r \in {Go(t), ModeOf(t)} : Ends(x, r, v) => Ends(y, r, v)
         /\ Told(x, d, s) =>
              IF call.op = "start"
              THEN /\ Sent + 1 >= 2 => Ends(y, ModeOf(s), ModeValue(s, strm[d][s].format))
                   /\ Sent + 1 >= 3 => Ends(y, Go(s), GoValue(s, strm[d][s].format))
              ELSE Ends(y, Go(s), 0)
  <1> DEFINE f == strm[d][s].format  h == Head(todo)
  <1>1. Conversing /\ Calling(d, s)
    BY DEF Conversing, Calling
  <1>2. /\ Len(todo) \in Nat \ {0} /\ Len(todo) <= Len(Writing) /\ Len(Writing) \in 1 .. 4
        /\ h = Writing[Len(Writing) - Len(todo) + 1]
    BY <1>1, NextWrite
  <1>3. Sent \in Nat /\ Sent < Len(Writing) /\ h = Writing[Sent + 1]
    <2>1. Sent = Len(Writing) - Len(todo)
      BY <1>2 DEF Sent
    <2>2. QED
      BY <1>2, <2>1
  <1>4. \A r, v : /\ h[1] = r /\ h[2] = v => Ends(y, r, v)
                  /\ h[1] # r /\ Ends(x, r, v) => Ends(y, r, v)
    OBVIOUS
  <1> HIDE DEF h
  <1>5. /\ Go(s) # ModeOf(s) /\ Go(s) # \h47 /\ ModeOf(s) # \h47
        /\ \A t \in Streams \ {s} : {Go(t), ModeOf(t)} \cap {Go(s), ModeOf(s), \h47} = {}
    BY RegistersApart
  <1>6. ASSUME h[1] \in {Go(s), ModeOf(s), \h47}, NEW t \in Streams \ {s}, NEW v, NEW r \in {Go(t), ModeOf(t)},
               Ends(x, r, v)
        PROVE  Ends(y, r, v)
    <2>1. h[1] # r
      BY <1>5, <1>6
    <2>2. QED
      BY <1>4, <1>6, <2>1
  <1>7. CASE call.op = "start"
    <2>1. /\ Sent \in 0 .. 3
          /\ Sent \in {0, 2} => h[1] = Go(s)
          /\ Sent = 1 => h = <<ModeOf(s), ModeValue(s, f)>>
          /\ Sent = 2 => h = <<Go(s), GoValue(s, f)>>
          /\ Sent = 3 => h[1] = \h47
      <3>1. Writing = StartWrites(s, f)
        BY <1>7 DEF Writing
      <3>2. QED
        BY <1>3, <3>1, WriteIs
    <2>2. h[1] \in {Go(s), ModeOf(s), \h47}
      BY <2>1
    <2>3. ASSUME Told(x, d, s)
          PROVE  /\ Sent + 1 >= 2 => Ends(y, ModeOf(s), ModeValue(s, f))
                 /\ Sent + 1 >= 3 => Ends(y, Go(s), GoValue(s, f))
      <3>1. /\ Sent >= 2 => Ends(x, ModeOf(s), ModeValue(s, f))
            /\ Sent >= 3 => Ends(x, Go(s), GoValue(s, f))
        BY <1>1, <1>7, <2>3 DEF Told
      <3>2. CASE Sent = 0
        BY <3>2
      <3>3. CASE Sent = 1
        <4>1. Ends(y, ModeOf(s), ModeValue(s, f))
          BY <1>4, <2>1, <3>3
        <4>2. QED
          BY <3>3, <4>1
      <3>4. CASE Sent = 2
        <4>1. Ends(x, ModeOf(s), ModeValue(s, f)) /\ h = <<Go(s), GoValue(s, f)>>
          BY <2>1, <3>1, <3>4
        <4>2. h[1] = Go(s) /\ h[2] = GoValue(s, f) /\ h[1] # ModeOf(s)
          BY <1>5, <4>1
        <4>3. Ends(y, ModeOf(s), ModeValue(s, f)) /\ Ends(y, Go(s), GoValue(s, f))
          BY <1>4, <4>1, <4>2
        <4>4. QED
          BY <4>3
      <3>5. CASE Sent = 3
        <4>1. Ends(x, ModeOf(s), ModeValue(s, f)) /\ Ends(x, Go(s), GoValue(s, f)) /\ h[1] = \h47
          BY <2>1, <3>1, <3>5
        <4>2. h[1] # Go(s) /\ h[1] # ModeOf(s)
          BY <1>5, <4>1
        <4>3. Ends(y, ModeOf(s), ModeValue(s, f)) /\ Ends(y, Go(s), GoValue(s, f))
          BY <1>4, <4>1, <4>2
        <4>4. QED
          BY <4>3
      <3>6. QED
        BY <2>1, <3>2, <3>3, <3>4, <3>5
    <2>4. \A t \in Streams \ {s} : \A v : \A r \in {Go(t), ModeOf(t)} : Ends(x, r, v) => Ends(y, r, v)
      BY <1>6, <2>2
    <2>5. QED
      BY <1>7, <2>3, <2>4
  <1>8. CASE call.op # "start"
    <2>1. h = <<Go(s), 0>>
      <3>1. Writing = StopWrites(s)
        BY <1>8 DEF Writing
      <3>2. QED
        BY <1>3, <3>1, WriteIs
    <2>2. h[1] = Go(s) /\ h[2] = 0 /\ h[1] \in {Go(s), ModeOf(s), \h47}
      BY <2>1
    <2>3. Ends(y, Go(s), 0)
      BY <1>4, <2>2
    <2>4. \A t \in Streams \ {s} : \A v : \A r \in {Go(t), ModeOf(t)} : Ends(x, r, v) => Ends(y, r, v)
      BY <1>6, <2>2
    <2>5. QED
      BY <1>8, <2>3, <2>4
  <1>9. QED
    BY <1>7, <1>8

\* A step of the conversation: the next write is sent, or done with.
LEMMA ConverseKept ==
  ASSUME KinectAssumption, KinectInv, Conversing, todo # <<>>, UNCHANGED <<lab, list, sub, handles, strm, call>>,
         \/ stage = "send" /\ stage' = "poll" /\ todo' = todo
         \/ stage' = "send" /\ todo' = Tail(todo),
         cam_tag' \in [Devs -> 0 .. Tags - 1], camera' \in [Cameras -> ACamera]
  PROVE  /\ ShapeInv' /\ CallInv' /\ SubInv' /\ HandleInv' /\ StreamInv' /\ TodoInv' /\ Conversing'
         /\ Sent' = IF stage = "send" THEN Sent + 1 ELSE Sent
  <1> USE DEF KinectInv
  <1>1. bus' = bus /\ Cameras' = Cameras /\ Open' = Open /\ Open \subseteq Devs /\ Writing' = Writing
    BY OnBus DEF bus, Cameras, Open, Writing
  <1>2. ~Opening /\ ~Opening' /\ Conversing'
    BY DEF Opening, Conversing
  <1>3. /\ Len(todo) \in Nat \ {0} /\ Len(todo) <= Len(Writing) /\ Len(Writing) \in 1 .. 4
        /\ Tail(todo) \in Seq(Registers \X Nat) /\ Len(Tail(todo)) = Len(todo) - 1
        /\ \A n \in 1 .. Len(Tail(todo)) : Tail(todo)[n] = Writing[n + Len(Writing) - Len(Tail(todo))]
    BY NextWrite
  <1>4. ShapeInv'
    BY <1>1, <1>3 DEF ShapeInv, Stages
  <1>5. CallInv'
    BY <1>1, <1>2 DEF CallInv
  <1>6. SubInv' /\ HandleInv'
    BY <1>2, BusKept
  <1>7. StreamInv'
    <2>1. \A d, s : Calling(d, s)' <=> Calling(d, s)
      BY <1>2 DEF Calling
    <2>2. \A d, s : Runs(d, s)' <=> Runs(d, s)
      BY <1>1 DEF Runs
    <2>3. strm' = strm /\ call' = call
      OBVIOUS
    <2>4. QED
      BY <2>1, <2>2, <2>3 DEF StreamInv, StreamIn
  <1>8. TodoInv'
    <2>1. CASE todo' = todo
      BY <1>1, <1>2, <2>1 DEF TodoInv
    <2>2. CASE todo' = Tail(todo) /\ stage' = "send"
      <3>1. Len(todo') <= Len(Writing)
        BY <1>3, <2>2
      <3>2. \A n \in 1 .. Len(todo') : todo'[n] = Writing[n + Len(Writing) - Len(todo')]
        BY <1>3, <2>2
      <3>3. QED
        BY <1>1, <1>2, <2>2, <3>1, <3>2 DEF TodoInv
    <2>3. QED
      BY <2>1, <2>2
  <1>9. Sent' = IF stage = "send" THEN Sent + 1 ELSE Sent
    <2>1. CASE stage = "poll"
      <3>1. stage' = "send" /\ todo' = Tail(todo)
        BY <2>1
      <3>2. QED
        BY <1>1, <1>3, <2>1, <3>1 DEF Sent
    <2>2. CASE stage = "send" /\ todo' = Tail(todo) /\ stage' = "send"
      BY <1>1, <1>3, <2>2 DEF Sent
    <2>3. CASE stage = "send" /\ todo' = todo /\ stage' = "poll"
      BY <1>1, <1>3, <2>3 DEF Sent
    <2>4. QED
      BY <2>1, <2>2, <2>3 DEF Conversing
  <1>10. QED
    BY <1>2, <1>4, <1>5, <1>6, <1>7, <1>8, <1>9

\* A command is sent, or its transfer fails and the camera misses it.
LEMMA SendStep ==
  ASSUME KinectAssumption, KinectInv, Send
  PROVE  KinectInv'
  <1> USE DEF KinectInv
  <1>1. PICK d \in Open, s \in Streams : call.dev = d /\ call.s = s
    BY DEF Send, Conversing, CallInv
  <1>2. PICK c \in Cameras : sub[d]["camera"] = c
    BY TalksTo
  <1> DEFINE w == [reg |-> Head(todo)[1], val |-> Head(todo)[2], tag |-> cam_tag[d], age |-> "new"]
             x == [camera[c] EXCEPT !.asked = Append(camera[c].asked, w)]
             y == [camera[c] EXCEPT !.missed = camera[c].missed \cup {s}]
  <1>3. /\ stage = "send" /\ todo # <<>> /\ UNCHANGED <<lab, list, sub, handles, cam_tag, strm, call>>
        /\ \/ stage' = "poll" /\ todo' = todo
           \/ stage' = "send" /\ todo' = Tail(todo)
        /\ \/ camera' = [camera EXCEPT ![c] = x]
           \/ camera' = [camera EXCEPT ![c] = y]
    BY <1>1, <1>2 DEF Send, Goto, Talks, Asked
  <1>4. Conversing /\ d \in Devs
    BY <1>3, OnBus DEF Conversing
  <1>5. camera[c] \in ACamera /\ camera[c].asked \in Seq(Command)
    <2>1. camera[c] \in ACamera
      BY DEF ShapeInv
    <2>2. QED
      BY <2>1 DEF ACamera
  <1>6. w \in Command /\ w.reg = Head(todo)[1] /\ w.val = Head(todo)[2]
    <2>1. Head(todo) \in Registers \X Nat
      BY <1>3, <1>4, NextWrite
    <2>2. Head(todo)[1] \in Registers /\ Head(todo)[2] \in Nat
      BY <2>1
    <2>3. cam_tag[d] \in 0 .. Tags - 1
      BY <1>4 DEF ShapeInv
    <2>4. cam_tag[d] \in Nat
      BY <2>3, OnBus
    <2>5. QED
      BY <2>2, <2>4 DEF Command, Ages
  <1> HIDE DEF w
  <1>7. /\ x \in ACamera /\ x.regs = camera[c].regs /\ x.missed = camera[c].missed
        /\ x.asked = Append(camera[c].asked, w)
    <2>1. Append(camera[c].asked, w) \in Seq(Command)
      BY <1>5, <1>6
    <2>2. QED
      BY <1>5, <2>1 DEF ACamera
  <1>8. /\ y \in ACamera /\ y.regs = camera[c].regs /\ y.asked = camera[c].asked
        /\ y.missed = camera[c].missed \cup {s}
    <2>1. camera[c].missed \cup {s} \in SUBSET Streams
      BY <1>1, <1>5 DEF ACamera
    <2>2. QED
      BY <1>5, <2>1 DEF ACamera
  <1> HIDE DEF x, y
  <1>9. /\ camera' \in [Cameras -> ACamera] /\ camera'[c] \in {x, y}
        /\ \A b \in Cameras \ {c} : camera'[b] = camera[b]
    <2>1. camera \in [Cameras -> ACamera]
      BY DEF ShapeInv
    <2>2. CASE camera' = [camera EXCEPT ![c] = x]
      BY <1>5, <1>7, <2>1, <2>2
    <2>3. CASE camera' = [camera EXCEPT ![c] = y]
      BY <1>5, <1>8, <2>1, <2>3
    <2>4. QED
      BY <1>3, <2>2, <2>3
  <1>10. /\ ShapeInv' /\ CallInv' /\ SubInv' /\ HandleInv' /\ StreamInv' /\ TodoInv' /\ Conversing'
         /\ Sent' = Sent + 1
    <2>1. cam_tag' \in [Devs -> 0 .. Tags - 1]
      BY <1>3 DEF ShapeInv
    <2>2. QED
      BY <1>3, <1>4, <1>9, <2>1, ConverseKept
  <1>11. /\ \A e, t : (Calling(e, t) <=> e = d /\ t = s) /\ (Calling(e, t)' <=> e = d /\ t = s)
         /\ strm' = strm /\ call' = call /\ UNCHANGED <<lab, list, sub>>
    BY <1>1, <1>3, <1>4, <1>10 DEF Calling
  <1>12. CASE camera'[c] = x
    <2>1. /\ \A t \in Streams \ {s} : \A v : \A r \in {Go(t), ModeOf(t)} : Ends(camera[c], r, v) => Ends(x, r, v)
          /\ Told(camera[c], d, s) =>
               IF call.op = "start"
               THEN /\ Sent + 1 >= 2 => Ends(x, ModeOf(s), ModeValue(s, strm[d][s].format))
                    /\ Sent + 1 >= 3 => Ends(x, Go(s), GoValue(s, strm[d][s].format))
               ELSE Ends(x, Go(s), 0)
      <3>1. \A r, v : /\ w.reg = r /\ w.val = v => Ends(x, r, v)
                      /\ w.reg # r /\ Ends(camera[c], r, v) => Ends(x, r, v)
        BY <1>5, <1>6, <1>7, EndsAsked
      <3>2. \A r, v : /\ Head(todo)[1] = r /\ Head(todo)[2] = v => Ends(x, r, v)
                      /\ Head(todo)[1] # r /\ Ends(camera[c], r, v) => Ends(x, r, v)
        BY <1>6, <3>1
      <3>3. stage = "send" /\ todo # <<>> /\ d \in Devs /\ s \in Streams /\ call.dev = d /\ call.s = s
        BY <1>1, <1>3, <1>4
      <3> DEFINE a == camera[c]
      <3> HIDE DEF a, KinectInv
      <3>4. \A r, v : /\ Head(todo)[1] = r /\ Head(todo)[2] = v => Ends(x, r, v)
                      /\ Head(todo)[1] # r /\ Ends(a, r, v) => Ends(x, r, v)
        BY <3>2 DEF a
      <3>5. /\ \A t \in Streams \ {s} : \A v : \A r \in {Go(t), ModeOf(t)} : Ends(a, r, v) => Ends(x, r, v)
            /\ Told(a, d, s) =>
                 IF call.op = "start"
                 THEN /\ Sent + 1 >= 2 => Ends(x, ModeOf(s), ModeValue(s, strm[d][s].format))
                      /\ Sent + 1 >= 3 => Ends(x, Go(s), GoValue(s, strm[d][s].format))
                 ELSE Ends(x, Go(s), 0)
        BY <3>3, <3>4, SentOne
      <3>6. QED
        BY <3>5 DEF a
    <2>2. ASSUME s \notin camera'[c].missed PROVE Told(camera[c], d, s)'
      <3>1. Told(camera[c], d, s)
        BY <1>2, <1>7, <1>12, <2>2 DEF CameraInv
      <3>2. /\ call'.op = "start" => /\ Sent' >= 2 => Ends(camera'[c], ModeOf(s), ModeValue(s, strm'[d][s].format))
                                     /\ Sent' >= 3 => Ends(camera'[c], Go(s), GoValue(s, strm'[d][s].format))
            /\ call'.op # "start" => Ends(camera'[c], Go(s), 0)
        BY <1>10, <1>11, <1>12, <2>1, <3>1
      <3>3. Calling(d, s)' /\ sub' = sub
        BY <1>11
      <3>4. QED
        BY <3>2, <3>3 DEF Told
    <2>3. \A t \in Streams \ {s} : t \in camera'[c].missed <=> t \in camera[c].missed
      BY <1>7, <1>12
    <2>4. CameraInv'
      BY <1>1, <1>9, <1>11, <1>12, <1>2, <2>1, <2>2, <2>3, CameraStep
    <2>5. QED
      BY <1>10, <2>4
  <1>13. CASE camera'[c] = y
    <2>1. \A r, v : Ends(camera[c], r, v) => Ends(camera'[c], r, v)
      BY <1>8, <1>13, EndsSame
    <2>2. /\ \A t \in Streams \ {s} : t \in camera'[c].missed <=> t \in camera[c].missed
          /\ s \in camera'[c].missed
      BY <1>8, <1>13
    <2>3. CameraInv'
      BY <1>1, <1>9, <1>11, <1>2, <2>1, <2>2, CameraStep
    <2>4. QED
      BY <1>10, <2>3
  <1>14. QED
    BY <1>9, <1>12, <1>13

\* Whatever comes of waiting for the reply, the camera was told, and the call
\* goes on to its next write.
LEMMA PollStep ==
  ASSUME KinectAssumption, KinectInv, Poll
  PROVE  KinectInv'
  <1> USE DEF KinectInv
  <1>1. PICK d \in Open, s \in Streams : call.dev = d /\ call.s = s
    BY DEF Poll, Conversing, CallInv
  <1>2. PICK c \in Cameras : sub[d]["camera"] = c
    BY TalksTo
  <1>3. /\ stage = "poll" /\ todo' = Tail(todo) /\ stage' = "send"
        /\ UNCHANGED <<lab, list, sub, handles, strm, call>>
        /\ \/ /\ camera[c].replies # <<>> /\ cam_tag' = [cam_tag EXCEPT ![d] = NextTag(@)]
              /\ camera' = [AgedCamera(c, "past") EXCEPT ![c].replies = Tail(@)]
           \/ /\ camera[c].replies # <<>> /\ UNCHANGED cam_tag
              /\ camera' = [camera EXCEPT ![c].replies = Tail(@)]
           \/ UNCHANGED <<camera, cam_tag>>
    BY <1>1, <1>2 DEF Poll, Goto, Talks, NotRead
  <1>4. Conversing /\ todo # <<>> /\ d \in Devs
    BY <1>3, OnBus DEF Conversing, TodoInv
  <1>5. camera \in [Cameras -> ACamera] /\ camera[c].replies \in Seq(Reply)
    <2>1. camera \in [Cameras -> ACamera]
      BY DEF ShapeInv
    <2>2. QED
      BY <2>1 DEF ACamera
  <1>6. /\ camera' \in [Cameras -> ACamera] /\ \A b \in Cameras \ {c} : camera'[b] = camera[b]
        /\ camera'[c].missed = camera[c].missed /\ camera'[c].regs = camera[c].regs
        /\ Len(camera'[c].asked) = Len(camera[c].asked)
        /\ \A n \in 1 .. Len(camera[c].asked) : /\ camera'[c].asked[n].reg = camera[c].asked[n].reg
                                                 /\ camera'[c].asked[n].val = camera[c].asked[n].val
    <2>1. CASE UNCHANGED camera
      BY <1>5, <2>1
    <2>2. CASE camera[c].replies # <<>> /\ camera' = [camera EXCEPT ![c].replies = Tail(@)]
      <3> DEFINE g == camera'
      <3>1. camera[c].replies # <<>> /\ g = [camera EXCEPT ![c].replies = Tail(@)]
        BY <2>2
      <3> HIDE DEF g
      <3>2. /\ g \in [Cameras -> ACamera] /\ \A b \in Cameras \ {c} : g[b] = camera[b]
            /\ g[c].missed = camera[c].missed /\ g[c].regs = camera[c].regs /\ g[c].asked = camera[c].asked
        BY <1>2, <1>5, <3>1, RepliesCut
      <3>3. QED
        BY <3>2 DEF g
    <2>3. CASE /\ camera[c].replies # <<>>
               /\ camera' = [AgedCamera(c, "past") EXCEPT ![c].replies = Tail(@)]
      <3> DEFINE f == AgedCamera(c, "past")
      <3>1. ShapeInv /\ "past" \in Ages
        BY DEF Ages
      <3>2. /\ f \in [Cameras -> ACamera] /\ \A b \in Cameras \ {c} : f[b] = camera[b]
            /\ f[c].missed = camera[c].missed /\ f[c].regs = camera[c].regs
            /\ Len(f[c].asked) = Len(camera[c].asked)
            /\ \A n \in 1 .. Len(camera[c].asked) : /\ f[c].asked[n].reg = camera[c].asked[n].reg
                                                     /\ f[c].asked[n].val = camera[c].asked[n].val
            /\ f[c].replies \in Seq(Reply) /\ Len(f[c].replies) = Len(camera[c].replies)
        BY <3>1, AgedCameraIs
      <3> HIDE DEF f
      <3>3. f[c].replies # <<>>
        BY <1>5, <2>3, <3>2
      <3> DEFINE g == camera'
      <3>4. g = [f EXCEPT ![c].replies = Tail(@)]
        BY <2>3 DEF f
      <3> HIDE DEF g
      <3>5. /\ g \in [Cameras -> ACamera] /\ \A b \in Cameras \ {c} : g[b] = f[b]
            /\ g[c].missed = f[c].missed /\ g[c].regs = f[c].regs /\ g[c].asked = f[c].asked
        BY <1>2, <3>2, <3>3, <3>4, RepliesCut
      <3>6. QED
        BY <3>2, <3>5 DEF g
    <2>4. QED
      BY <1>3, <2>1, <2>2, <2>3
  <1>7. cam_tag' \in [Devs -> 0 .. Tags - 1]
    <2>1. cam_tag \in [Devs -> 0 .. Tags - 1]
      BY DEF ShapeInv
    <2>2. \A t \in 0 .. Tags - 1 : NextTag(t) \in 0 .. Tags - 1
      BY DEF NextTag, KinectAssumption
    <2>3. cam_tag' = [cam_tag EXCEPT ![d] = NextTag(cam_tag[d])] \/ cam_tag' = cam_tag
      BY <1>3
    <2>4. cam_tag[d] \in 0 .. Tags - 1
      BY <1>4, <2>1
    <2>5. NextTag(cam_tag[d]) \in 0 .. Tags - 1
      BY <2>2, <2>4
    <2>6. CASE cam_tag' = [cam_tag EXCEPT ![d] = NextTag(cam_tag[d])]
      BY <2>1, <2>5, <2>6
    <2>7. QED
      BY <2>1, <2>3, <2>6
  <1>8. /\ ShapeInv' /\ CallInv' /\ SubInv' /\ HandleInv' /\ StreamInv' /\ TodoInv' /\ Conversing'
        /\ Sent' = Sent
    BY <1>3, <1>4, <1>6, <1>7, ConverseKept
  <1>9. \A r, v : Ends(camera'[c], r, v) <=> Ends(camera[c], r, v)
    BY <1>6, EndsAged
  <1>10. /\ \A e, t : (Calling(e, t) <=> e = d /\ t = s) /\ (Calling(e, t)' <=> e = d /\ t = s)
         /\ strm' = strm /\ call' = call /\ UNCHANGED <<lab, list, sub>>
    BY <1>1, <1>3, <1>4, <1>8 DEF Calling
  <1>11. ASSUME s \notin camera'[c].missed PROVE Told(camera[c], d, s)'
    <2>1. Told(camera[c], d, s) /\ Calling(d, s) /\ Calling(d, s)' /\ sub' = sub
      BY <1>1, <1>5, <1>6, <1>10, <1>11, <1>2 DEF CameraInv
    <2>2. QED
      BY <1>8, <1>9, <1>10, <2>1 DEF Told
  <1>12. CameraInv'
    BY <1>1, <1>6, <1>9, <1>10, <1>11, <1>2, CameraStep
  <1>13. QED
    BY <1>8, <1>12

\* What the camera does was asked of it.
LEMMA AnswerStep ==
  ASSUME KinectAssumption, KinectInv, NEW c \in Cameras, Answer(c)
  PROVE  KinectInv'
  <1> USE DEF KinectInv
  <1> DEFINE w == Head(camera[c].asked)
  <1>1. /\ camera[c].asked # <<>>
        /\ camera' = [camera EXCEPT ![c].asked = Tail(@), ![c].regs[w.reg] = w.val,
                                    ![c].replies = Append(@, [tag |-> w.tag, age |-> w.age])]
        /\ UNCHANGED <<lab, list, sub, handles, cam_tag, strm, stage, call, todo>>
    BY DEF Answer
  <1>2. bus' = bus /\ Cameras' = Cameras /\ Open' = Open /\ Open \subseteq Devs
    BY <1>1, OnBus DEF bus, Cameras, Open
  <1>3. camera[c] \in ACamera /\ w \in Command
    <2>1. camera[c] \in ACamera
      BY DEF ShapeInv
    <2>2. camera[c].asked \in Seq(Command)
      BY <2>1 DEF ACamera
    <2>3. QED
      BY <1>1, <2>1, <2>2
  <1>4. /\ camera'[c].asked = Tail(camera[c].asked)
        /\ camera'[c].regs = [camera[c].regs EXCEPT ![w.reg] = w.val]
        /\ camera'[c].missed = camera[c].missed
        /\ camera'[c] \in ACamera
        /\ \A b \in Cameras \ {c} : camera'[b] = camera[b]
        /\ camera' \in [Cameras -> ACamera]
    <2>1. camera'[c] = [camera[c] EXCEPT !.asked = Tail(@), !.regs[w.reg] = w.val,
                                         !.replies = Append(@, [tag |-> w.tag, age |-> w.age])]
      BY <1>1, <1>3 DEF ShapeInv, ACamera
    <2>2. /\ Tail(camera[c].asked) \in Seq(Command) /\ [camera[c].regs EXCEPT ![w.reg] = w.val] \in [Registers -> Nat]
          /\ Append(camera[c].replies, [tag |-> w.tag, age |-> w.age]) \in Seq(Reply)
      BY <1>1, <1>3 DEF ACamera, Command, Reply
    <2>3. /\ camera'[c] \in ACamera /\ camera'[c].asked = Tail(camera[c].asked)
          /\ camera'[c].regs = [camera[c].regs EXCEPT ![w.reg] = w.val] /\ camera'[c].missed = camera[c].missed
      BY <1>3, <2>1, <2>2 DEF ACamera
    <2>4. DOMAIN camera' = Cameras /\ \A b \in Cameras \ {c} : camera'[b] = camera[b]
      BY <1>1 DEF ShapeInv
    <2>5. camera' \in [Cameras -> ACamera]
      <3>1. camera \in [Cameras -> ACamera]
        BY DEF ShapeInv
      <3>2. camera' = [b \in Cameras |-> camera'[b]]
        BY <1>1, <3>1
      <3>3. \A b \in Cameras : camera'[b] \in ACamera
        BY <2>3, <2>4, <3>1
      <3>4. QED
        BY <3>2, <3>3
    <2>6. QED
      BY <2>3, <2>4, <2>5
  <1>5. ShapeInv' /\ CallInv' /\ TodoInv'
    <2>1. ShapeInv'
      BY <1>1, <1>2, <1>4 DEF ShapeInv
    <2>2. (Opening' <=> Opening) /\ (Conversing' <=> Conversing) /\ Writing' = Writing
      BY <1>1 DEF Opening, Conversing, Writing
    <2>3. CallInv'
      BY <1>1, <1>2, <2>2 DEF CallInv
    <2>4. TodoInv'
      BY <1>1, <2>2 DEF TodoInv
    <2>5. QED
      BY <2>1, <2>3, <2>4
  <1>6. SubInv'
    <2>1. (Opening' <=> Opening) /\ \A m, l : Before(m, l)' = Before(m, l)
      BY <1>1, <1>2 DEF Opening, Before
    <2>2. QED
      BY <1>1, <1>2, <2>1 DEF SubInv
  <1>7. HandleInv'
    BY <1>1, <1>2 DEF HandleInv
  <1>8. StreamInv'
    BY <1>1, <1>2 DEF StreamInv, StreamIn, Runs, Calling, Conversing
  <1>9. ASSUME NEW b \in Cameras, NEW s \in Streams
        PROVE  /\ \A v : \A r \in {Go(s), ModeOf(s)} : Ends(camera[b], r, v) => Ends(camera'[b], r, v)
               /\ camera'[b].missed = camera[b].missed
    <2>1. Go(s) \in Registers /\ ModeOf(s) \in Registers
      BY RegistersApart
    <2>2. CASE b = c
      <3>1. camera[c].asked \in Seq(Command) /\ camera[c].regs \in [Registers -> Nat]
        BY <1>3 DEF ACamera
      <3>2. \A v : \A r \in Registers : Ends(camera[c], r, v) => Ends(camera'[c], r, v)
        BY <1>1, <1>4, <3>1, EndsAnswered
      <3>3. QED
        BY <1>4, <2>1, <2>2, <3>2
    <2>3. CASE b # c
      BY <1>4, <2>3
    <2>4. QED
      BY <2>2, <2>3
  <1>10. CameraInv'
    <2>1. ASSUME NEW b \in Cameras, NEW s \in Streams, NEW d \in Open, Told(camera[b], d, s)
          PROVE  Told(camera[b], d, s)'
      <3>1. strm' = strm /\ call' = call /\ Sent' = Sent /\ (Calling(d, s)' <=> Calling(d, s))
        BY <1>1 DEF Sent, Writing, Calling, Conversing
      <3>2. QED
        BY <1>9, <2>1, <3>1 DEF Told, Sends
    <2>2. sub' = sub
      BY <1>1
    <2>3. QED
      BY <1>2, <1>9, <2>1, <2>2 DEF CameraInv
  <1>11. QED
    BY <1>5, <1>6, <1>7, <1>8, <1>10

-----------------------------------------------------------------------------
\* Every step keeps the invariant.
LEMMA KinectStep ==
  ASSUME KinectAssumption, KinectInv, [KinectNext]_device
  PROVE  KinectInv'
  <1>1. CASE Calls
    BY <1>1, OpenDeviceStep, StartStreamStep, StopStreamStep, SettingStep, CloseStep DEF Calls
  <1>2. CASE Opens
    BY <1>2, ScanStep, OpenedStep DEF Opens
  <1>3. CASE Writes
    BY <1>3, SendStep, PollStep, StreamStartedStep, StreamStoppedStep DEF Writes
  <1>4. CASE Closes
    BY <1>4, CloseStopsStep, ClosedStep, CloseStep DEF Closes
  <1>5. CASE Answers
    BY <1>5, AnswerStep DEF Answers
  <1>6. CASE UNCHANGED device
    <2>1. UNCHANGED <<lab, list, sub, handles, cam_tag, strm, stage, call, todo, camera>>
      BY <1>6 DEF device
    <2>2. bus' = bus /\ Cameras' = Cameras /\ Open' = Open
      BY <2>1 DEF bus, Cameras, Open
    <2>3. ShapeInv' /\ CallInv' /\ TodoInv' /\ SubInv' /\ HandleInv' /\ StreamInv'
      <3>1. (Opening' <=> Opening) /\ (Conversing' <=> Conversing) /\ Writing' = Writing
        BY <2>1 DEF Opening, Conversing, Writing
      <3>2. \A m, l : Before(m, l)' = Before(m, l)
        BY <2>2 DEF Before
      <3>3. \A e, t : (Calling(e, t)' <=> Calling(e, t)) /\ (Runs(e, t)' <=> Runs(e, t))
        BY <2>1, <2>2 DEF Calling, Conversing, Runs
      <3>4. ShapeInv'
        BY <2>1, <2>2 DEF KinectInv, ShapeInv
      <3>5. CallInv'
        BY <2>1, <2>2, <3>1 DEF KinectInv, CallInv
      <3>6. TodoInv'
        BY <2>1, <3>1 DEF KinectInv, TodoInv
      <3>7. SubInv'
        BY <2>1, <2>2, <3>1, <3>2 DEF KinectInv, SubInv
      <3>8. HandleInv'
        BY <2>1, <2>2 DEF KinectInv, HandleInv
      <3>9. StreamInv'
        BY <2>1, <3>3 DEF KinectInv, StreamInv, StreamIn
      <3>10. QED
        BY <3>4, <3>5, <3>6, <3>7, <3>8, <3>9
    <2>4. \A d, s, x : Told(x, d, s)' <=> Told(x, d, s)
      BY <2>1 DEF Told, Calling, Conversing, Sent, Writing
    <2>5. CameraInv'
      BY <2>1, <2>2, <2>4 DEF KinectInv, CameraInv
    <2>6. QED
      BY <2>3, <2>5 DEF KinectInv
  <1>7. QED
    BY <1>1, <1>2, <1>3, <1>4, <1>5, <1>6 DEF KinectNext

\* The invariant holds throughout.
LEMMA KinectInductive == ASSUME KinectAssumption PROVE KinectSpec => []KinectInv
  <1>1. KinectInit => KinectInv
    BY KinectStart
  <1>2. KinectInv /\ [KinectNext]_device => KinectInv'
    BY KinectStep
  <1>3. QED
    BY <1>1, <1>2, PTL DEF KinectSpec

\* What the invariant says between the calls and at the end
LEMMA ResourcesFollow ==
  ASSUME KinectAssumption, KinectInv PROVE ResourcesExact
  <1> USE DEF KinectInv
  <1>1. KinectTypeOK
    <2>1. Len(list) = Cardinality(Open)
      BY CardIn DEF ShapeInv, Open
    <2>2. QED
      BY <2>1, OnBus DEF KinectTypeOK, ShapeInv, Stages
  <1>2. HandlesExact
    <2>1. ASSUME stage \in {"idle", "gone"} PROVE handles = {<<sub[d][k], d>> : d \in Open, k \in Kinds}
      <3>1. ~Opening
        BY <2>1 DEF Opening
      <3>2. ASSUME NEW h \in handles PROVE \E d \in Open, k \in Kinds : h = <<sub[d][k], d>>
        <4>1. h \in (DOMAIN bus) \X Devs /\ \E k \in Kinds : sub[h[2]][k] = h[1]
          BY DEF HandleInv
        <4>2. h = <<h[1], h[2]>> /\ h[1] # 0 /\ h[2] \in Devs
          BY <4>1, OnBus
        <4>3. h[2] \in Open
          BY <3>1, <4>1, <4>2 DEF SubInv
        <4>4. QED
          BY <4>1, <4>2, <4>3
      <3>3. ASSUME NEW d \in Open, NEW k \in Kinds PROVE <<sub[d][k], d>> \in handles
        <4>1. d \in Devs /\ sub[d][k] \in 1 .. Len(bus)
          BY OnBus DEF ShapeInv, SubInv
        <4>2. QED
          BY <4>1, OnBus DEF HandleInv
      <3>4. QED
        BY <3>2, <3>3
    <2>2. stage = "gone" => Open = {}
      BY DEF CallInv, Open, ToSet
    <2>3. QED
      BY <2>1, <2>2 DEF HandlesExact, HandleInv
  <1>3. OneKinect
    <2>1. ASSUME SameOrder, NEW d \in Open
          PROVE  bus[sub[d]["camera"]].kinect = bus[sub[d]["motor"]].kinect
      <3>1. d \in Devs /\ "camera" \in Kinds /\ "motor" \in Kinds
        BY OnBus DEF Kinds
      <3>2. /\ sub[d]["camera"] \in DOMAIN bus /\ bus[sub[d]["camera"]].kind = "camera"
            /\ sub[d]["motor"] \in DOMAIN bus /\ bus[sub[d]["motor"]].kind = "motor"
            /\ Before(sub[d]["camera"], "camera") = Before(sub[d]["motor"], "motor")
        BY <3>1, OnBus DEF ShapeInv, SubInv
      <3>3. QED
        BY <2>1, <3>2 DEF SameOrder
    <2>2. QED
      BY <2>1 DEF OneKinect
  <1>4. StreamsExact
    <2>1. stage = "idle" => \A d, s : ~Calling(d, s)
      BY DEF Calling, Conversing
    <2>2. QED
      BY <2>1 DEF StreamsExact, StreamInv, StreamIn
  <1>5. QED
    BY <1>1, <1>2, <1>3, <1>4 DEF ResourcesExact

\* A camera with nothing left to do is as the library believes.
LEMMA ObeysFollows ==
  ASSUME KinectAssumption, KinectInv PROVE CameraObeys
  <1> USE DEF KinectInv
  <1> SUFFICES ASSUME stage \in {"idle", "gone"}, NEW c \in Cameras, NEW s \in Streams,
                      camera[c].asked = <<>>, s \notin camera[c].missed
               PROVE  /\ Holder(c, s) = {} => camera[c].regs[Go(s)] = 0
                      /\ \A d \in Holder(c, s) : /\ camera[c].regs[Go(s)] = GoValue(s, strm[d][s].format)
                                                 /\ camera[c].regs[ModeOf(s)] = ModeValue(s, strm[d][s].format)
    BY DEF CameraObeys
  <1>1. \A d : ~Calling(d, s)
    BY DEF Calling, Conversing
  <1>2. \A r, v : Ends(camera[c], r, v) => camera[c].regs[r] = v
    BY EndsNow
  <1>3. ASSUME Holder(c, s) = {} PROVE Ends(camera[c], Go(s), 0)
    <2>1. CASE \E d \in Open : sub[d]["camera"] = c
      BY <1>1, <1>3, <2>1 DEF CameraInv, Told, Holder
    <2>2. CASE \A d \in Open : sub[d]["camera"] # c
      BY <2>2 DEF CameraInv
    <2>3. QED
      BY <2>1, <2>2
  <1>4. ASSUME NEW d \in Holder(c, s) PROVE Sends(camera[c], s, strm[d][s].format)
    BY <1>1 DEF CameraInv, Told, Holder
  <1>5. QED
    BY <1>2, <1>3, <1>4 DEF Sends

\* Whatever fails, handles, buffers and transfers are those of the devices that
\* are open and of their streams that run (freenect_open_device,
\* freenect_close_device, freenect_start_depth, freenect_stop_depth).
THEOREM ResourcesRight == ASSUME KinectAssumption PROVE KinectSpec => []ResourcesExact
  BY KinectInductive, ResourcesFollow, PTL

\* A camera that has done what it was told sends the streams that run, in
\* their formats, and no other (freenect_start_video, freenect_stop_video).
THEOREM CameraRight == ASSUME KinectAssumption PROVE KinectSpec => []CameraObeys
  BY KinectInductive, ObeysFollows, PTL
=============================================================================
