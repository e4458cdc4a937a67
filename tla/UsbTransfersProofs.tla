------------------------- MODULE UsbTransfersProofs -------------------------
(***************************************************************************)
(* What UsbTransfers promises of its list and its callbacks, for any       *)
(* transfers, threads, timeouts and numbers of URBs, as long as a device   *)
(* is unplugged only while nobody submits (QuietUnplug); that nothing is   *)
(* freed which the kernel still has needs that no URB but the last of a    *)
(* transfer overflows (~OverAnywhere).                                     *)
(***************************************************************************)
EXTENDS UsbTransfers, QueueLemmas

-----------------------------------------------------------------------------
\* Nothing is freed that the kernel has, unless any URB may overflow.
Clean(S) == OverAnywhere \/ S = {}

\* What num_retired counts (linux_usbfs.c:1831)
Retired(p) == {k \in DOMAIN p.urbs : p.urbs[k].st \in {"back", "refused"}}

\* While nothing went wrong, URBs are accepted, end and are reaped in order.
Orderly(p) == \A k \in DOMAIN p.urbs :
  /\ p.urbs[k].st # "refused"
  /\ p.urbs[k].st \in {"done", "back"} => \A j \in 1 .. k - 1 : p.urbs[j].st \in {"done", "back"}
  /\ p.urbs[k].st = "back" => \A j \in 1 .. k - 1 : p.urbs[j].st = "back"
  /\ p.urbs[k].st = "done" /\ p.urbs[k].code = "EOVERFLOW" => OverAnywhere \/ k = Len(p.urbs)

\* A bulk transfer of which an URB went wrong, and that goes on as if none had,
\* stalled: handle_bulk_completion leaves reap_action as it was (1872).
Explained(c, p) ==
  /\ p.urbs # <<>> => c \/ p.reap_status \in {"COMPLETED", "STALL"}
  /\ \A k \in DOMAIN p.urbs :
       /\ p.urbs[k].st = "cut" => ~c /\ p.reap_status = "STALL"
       /\ p.urbs[k].st = "done" /\ p.urbs[k].code \in {"EPIPE", "EPROTO"} => p.urbs[k].len = 0
       /\ p.urbs[k].st = "done" /\ p.urbs[k].code = "ENOENT" => IF c THEN p.urbs[k].len = 0 ELSE p.reap_status = "STALL"

\* What Linux keeps of a transfer: the counting is exact, and the kernel has
\* one of its URBs as long as there are any.
UrbsRight(type, c, p) ==
  /\ p \in Linux!Priv
  /\ type = "control" => Len(p.urbs) <= 1
  /\ type # "control" => p.num_retired = Cardinality(Retired(p))
  /\ p.urbs # <<>> => \E k \in DOMAIN p.urbs : p.urbs[k].st \in {"sent", "cut", "done"}
  /\ p.reap_action = "NORMAL" => Orderly(p)
  /\ p.reap_action = "NORMAL" /\ type = "bulk" => Explained(c, p)

-----------------------------------------------------------------------------
PrivOf == CASE backend = "linux" -> Linux!Priv [] backend = "darwin" -> Darwin!Priv
            [] backend = "windows" -> Windows!Priv
Sound(t, p) == p \in PrivOf /\ (backend = "linux" => UrbsRight(Type[t], newKernel, p))
\* Has the backend nothing of the transfer?
Idles(p) == IF backend = "linux" THEN p.urbs = <<>> ELSE p.st = "idle"
Stalls(p) == backend = "linux" /\ p.reap_status = "STALL"

Idle(t) == Idles(priv[t])

\* Where a transfer is: in the list, being added, refused, about to leave the
\* list, or about to be called back
Listed(t) == \E k \in DOMAIN flying : flying[k] = t
At(h, l, t) == pc[h] = l /\ cur[h] = t
Adding(t) == \E h \in Threads : At(h, "add", t)
Undoing(t) == \E h \in Threads : At(h, "undo", t)
Finishing(t) == At(Handler, "complete", t) \/ At(Handler, "gone", t)
Finished(t) == At(Handler, "disarm", t) \/ At(Handler, "callback", t)

Submitting == {"add", "undo", "submitted"}
Handling == {"expire", "timeouts", "timeout", "complete", "gone", "disarm", "callback", "called", "disconnect"}

\* Who submits holds the lock of the transfer; of a device that is gone only
\* callbacks submit.
PcInv ==
  /\ pc \in [Threads -> {"idle"} \cup Submitting \cup Handling]
  /\ \A h \in Apps : pc[h] \notin Handling
  /\ \A h \in Threads : pc[h] \in Submitting => cur[h] \in Transfers /\ tlock[cur[h]] = h
  /\ pc[Handler] \in {"timeout", "complete", "gone", "disarm", "callback", "called"} => cur[Handler] \in Transfers
  /\ ~plugged => \A h \in Apps : pc[h] = "idle"
  /\ ~watched => ~plugged
  /\ pc[Handler] \in {"disconnect", "gone"} => ~watched

\* Of one transfer: it is owed a callback just when it is in the list, or being
\* added, or finished; and the backend has it just when it is in the list and
\* not finishing or refused.  (What Darwin keeps of a transfer of a device that
\* is gone is not cleared: darwin_usb.c:1350.)
OneInv(t) ==
  /\ Listed(t) => owed[t] /\ ~Finished(t) /\ ~Adding(t)
  /\ owed[t] => Type[t] # "unused" /\ (Listed(t) \/ Adding(t) \/ Finished(t))
  /\ Adding(t) => owed[t] /\ ~Finished(t)
  /\ Undoing(t) => Listed(t) /\ ~Finishing(t) /\ Idle(t)
  /\ Finishing(t) => Listed(t)
  /\ Finished(t) => owed[t]
  /\ Finishing(t) \/ ~Listed(t) => Idle(t) \/ (backend = "darwin" /\ ~watched)
  /\ Listed(t) /\ ~Finishing(t) /\ ~Undoing(t) => ~Idle(t)

\* By timeout, those without one last, each once
Ordered(q) == \A i, j \in DOMAIN q : i < j =>
       /\ q[i] # q[j]
       /\ IsSet(q[j]) => IsSet(q[i]) /\ timeout[q[i]] <= timeout[q[j]]
OrderInv == Ordered(flying)

PrivInv == \A t \in Transfers : Sound(t, priv[t])

\* The data of a transfer is reported, unless it stalled or the device is gone.
KeptOf(t) ==
  \/ (Finishing(t) \/ Finished(t)) /\ status = "NO_DEVICE"
  \/ transferred[t] = got[t]
  \/ ~Adding(t) /\ Stalls(priv[t])
DataInv == /\ got \in [Transfers -> Nat]
           /\ \A t \in Transfers : Type[t] = "bulk" /\ owed[t] => KeptOf(t)

ListInv == \A t \in Transfers : OneInv(t)

IInv == TypeOK /\ PcInv /\ ListInv /\ OrderInv /\ PrivInv /\ DataInv /\ Clean(dangling)

-----------------------------------------------------------------------------
\* The parts of what Linux keeps of a transfer
LEMMA PrivParts ==
  ASSUME NEW p \in Linux!Priv
  PROVE  /\ Len(p.urbs) \in Nat /\ DOMAIN p.urbs = 1 .. Len(p.urbs)
         /\ \A k \in 1 .. Len(p.urbs) : p.urbs[k] \in Linux!Urb
         /\ p.urbs # <<>> <=> Len(p.urbs) > 0
         /\ p.num_retired \in Nat /\ p.iso_packet_offset \in Nat
  BY DEF Linux!Priv

\* The URBs that are retired are some of the URBs.
LEMMA RetiredParts ==
  ASSUME NEW p \in Linux!Priv
  PROVE  /\ IsFiniteSet(Retired(p)) /\ Cardinality(Retired(p)) \in Nat
         /\ Cardinality(Retired(p)) <= Len(p.urbs)
         /\ Cardinality(Retired(p)) = Len(p.urbs) <=> Retired(p) = 1 .. Len(p.urbs)
  <1>1. Len(p.urbs) \in Nat /\ Retired(p) \subseteq 1 .. Len(p.urbs)
    BY PrivParts DEF Retired
  <1>2. IsFiniteSet(1 .. Len(p.urbs)) /\ Cardinality(1 .. Len(p.urbs)) = Len(p.urbs)
    BY <1>1, UpTo
  <1>3. /\ IsFiniteSet(Retired(p)) /\ Cardinality(Retired(p)) <= Cardinality(1 .. Len(p.urbs))
        /\ Cardinality(Retired(p)) = Cardinality(1 .. Len(p.urbs)) => Retired(p) = 1 .. Len(p.urbs)
    BY <1>1, <1>2, FS_Subset
  <1>4. QED
    BY <1>2, <1>3, FS_CardinalityType

\* A transfer of which Linux has no URBs
LEMMA NoUrbsRight ==
  ASSUME NEW type, NEW c, NEW p \in Linux!Priv, p.urbs = <<>>, p.num_retired = 0
  PROVE  UrbsRight(type, c, p)
  <1>1. Retired(p) = {} /\ Len(p.urbs) = 0 /\ DOMAIN p.urbs = {}
    BY PrivParts DEF Retired
  <1>2. QED
    BY <1>1, FS_EmptySet DEF UrbsRight, Orderly, Explained

\* A transfer whose URBs from the i-th on were refused counts those as retired.
LEMMA SentRight ==
  ASSUME NEW type \in {"bulk", "iso"}, NEW c, NEW n \in Nat \ {0}, NEW i \in 2 .. n + 1, NEW p \in Linux!Priv,
         Len(p.urbs) = n, p.num_retired = n - i + 1,
         \A k \in 1 .. n : IF k < i THEN p.urbs[k].st \in {"sent", "cut", "done"} ELSE p.urbs[k].st = "refused",
         p.reap_action = "NORMAL" =>
           i = n + 1 /\ p.reap_status = "COMPLETED" /\ \A k \in 1 .. n : p.urbs[k] = Linux!Sent
  PROVE  p.urbs # <<>> /\ UrbsRight(type, c, p)
  <1>1. DOMAIN p.urbs = 1 .. n /\ p.urbs # <<>>
    BY PrivParts
  <1>2. Cardinality(Retired(p)) = n - i + 1
    <2>1. Retired(p) = i .. n
      BY <1>1 DEF Retired
    <2>2. Cardinality(i .. n) = IF i > n THEN 0 ELSE n - i + 1
      BY FS_Interval
    <2>3. QED
      BY <2>1, <2>2
  <1>3. 1 \in 1 .. n /\ p.urbs[1].st \in {"sent", "cut", "done"}
    OBVIOUS
  <1>4. p.reap_action = "NORMAL" => Orderly(p) /\ Explained(c, p)
    BY <1>1 DEF Orderly, Explained, Linux!Sent
  <1>5. QED
    BY <1>1, <1>2, <1>3, <1>4 DEF UrbsRight

\* What is accepted has URBs, and they are counted; of what is refused there is nothing.
Answer(type, c, o) ==
  /\ UrbsRight(type, c, o.p)
  /\ o.r = "SUCCESS" => o.p.urbs # <<>>
  /\ o.r # "SUCCESS" => o.p = Linux!NoPriv

\* A submission that failed before any URB was sent leaves none.
LEMMA RefusedRight ==
  ASSUME NEW type, NEW c, NEW o, o.r # "SUCCESS", o.p = Linux!NoPriv
  PROVE  Answer(type, c, o)
  <1>1. Linux!NoPriv \in Linux!Priv /\ Linux!NoPriv.urbs = <<>> /\ Linux!NoPriv.num_retired = 0
    BY DEF Linux!NoPriv, Linux!Priv
  <1>2. QED
    BY <1>1, NoUrbsRight DEF Answer

\* submit_bulk_transfer: all its URBs sent, some of them, or none
LEMMA SubmitBulkRight ==
  ASSUME NEW n \in Nat \ {0}, NEW c \in BOOLEAN, NEW o \in Linux!SubmitBulk(n, c)
  PROVE  Answer("bulk", c, o)
  <1> DEFINE sent == [k \in 1 .. n |-> Linux!Sent]
             all == [Linux!NoPriv EXCEPT !.urbs = sent]
             kept(i) == [k \in 1 .. n |-> IF k < i THEN Linux!Sent ELSE [Linux!Sent EXCEPT !.st = "refused"]]
             some(i) == [all EXCEPT !.urbs = kept(i), !.num_retired = Linux!Unsent(n, i)]
             early(i) == [some(i) EXCEPT !.reap_action = "COMPLETED_EARLY",
                                         !.urbs[i - 1] = [st |-> "done", code |-> "EREMOTEIO", len |-> 1]]
             cut(i) == [k \in 1 .. n |-> Linux!Discard(some(i).urbs[k])]
             failed(i) == [some(i) EXCEPT !.reap_action = "SUBMIT_FAILED", !.urbs = cut(i)]
  <1>1. \/ o.r # "SUCCESS" /\ o.p = Linux!NoPriv
        \/ o.r = "SUCCESS" /\ \/ o.p = all
                              \/ \E i \in 2 .. n : o.p = failed(i) \/ o.p = early(i)
    BY DEF Linux!SubmitBulk
  <1>2. Linux!Sent \in Linux!Urb /\ Linux!Sent.st = "sent"
    BY DEF Linux!Sent, Linux!Urb, Linux!Full
  <1>3. /\ all \in Linux!Priv /\ all.urbs = sent /\ all.num_retired = 0 /\ all.reap_action = "NORMAL"
        /\ all.reap_status = "COMPLETED"
    BY <1>2 DEF Linux!NoPriv, Linux!Priv
  <1>4. sent \in [1 .. n -> Linux!Urb] /\ \A k \in 1 .. n : sent[k] = Linux!Sent
    BY <1>2
  <1> HIDE DEF all, sent
  <1>5. CASE o.r = "SUCCESS" /\ o.p = all
    <2>1. PICK i \in 2 .. n + 1 : i = n + 1
      OBVIOUS
    <2>2. Len(all.urbs) = n /\ all.num_retired = n - i + 1
      BY <1>3, <1>4, <2>1
    <2>3. \A k \in 1 .. n : k < i /\ all.urbs[k] = Linux!Sent
      BY <1>3, <1>4, <2>1
    <2>4. all.urbs # <<>> /\ UrbsRight("bulk", c, all)
      BY <1>2, <1>3, <2>1, <2>2, <2>3, SentRight
    <2>5. QED
      BY <1>5, <2>4 DEF Answer
  <1>6. ASSUME NEW i \in 2 .. n
        PROVE  /\ some(i) \in Linux!Priv /\ some(i).urbs = kept(i) /\ some(i).num_retired = n - i + 1
               /\ kept(i) \in [1 .. n -> Linux!Urb]
               /\ \A k \in 1 .. n : kept(i)[k].st = IF k < i THEN "sent" ELSE "refused"
    <2>1. [Linux!Sent EXCEPT !.st = "refused"] \in Linux!Urb /\ [Linux!Sent EXCEPT !.st = "refused"].st = "refused"
      BY DEF Linux!Sent, Linux!Urb, Linux!Full
    <2>2. kept(i) \in [1 .. n -> Linux!Urb] /\ \A k \in 1 .. n : kept(i)[k].st = IF k < i THEN "sent" ELSE "refused"
      BY <1>2, <2>1
    <2> HIDE DEF kept
    <2>3. kept(i) \in Seq(Linux!Urb) /\ Linux!Unsent(n, i) \in Nat
      BY <2>2 DEF Linux!Unsent
    <2>4. some(i) \in Linux!Priv /\ some(i).urbs = kept(i) /\ some(i).num_retired = n - i + 1
      BY <1>3, <2>3 DEF Linux!Priv, Linux!Unsent
    <2>5. QED
      BY <2>2, <2>4
  <1> HIDE DEF some, kept
  <1>7. ASSUME NEW i \in 2 .. n, o.r = "SUCCESS", o.p = failed(i)
        PROVE  Answer("bulk", c, o)
    <2>1. ASSUME NEW k \in 1 .. n
          PROVE  cut(i)[k] \in Linux!Urb /\ cut(i)[k].st = IF k < i THEN "cut" ELSE "refused"
      <3>1. kept(i)[k] \in Linux!Urb /\ kept(i)[k].st = IF k < i THEN "sent" ELSE "refused"
        BY <1>6
      <3>2. cut(i)[k] = Linux!Discard(kept(i)[k])
        BY <1>6
      <3>3. QED
        BY <3>1, <3>2 DEF Linux!Discard, Linux!Urb
    <2>2. cut(i) \in [1 .. n -> Linux!Urb]
      BY <2>1
    <2> HIDE DEF cut
    <2>3. cut(i) \in Seq(Linux!Urb) /\ Len(cut(i)) = n
      BY <2>2
    <2>4. /\ failed(i) \in Linux!Priv /\ failed(i).urbs = cut(i) /\ failed(i).num_retired = n - i + 1
          /\ failed(i).reap_action = "SUBMIT_FAILED"
      BY <1>6, <2>3 DEF Linux!Priv
    <2> HIDE DEF failed
    <2>5. failed(i).urbs # <<>> /\ UrbsRight("bulk", c, failed(i))
      BY <2>1, <2>3, <2>4, SentRight
    <2>6. QED
      BY <1>7, <2>5 DEF Answer
  <1>8. ASSUME NEW i \in 2 .. n, o.r = "SUCCESS", o.p = early(i)
        PROVE  Answer("bulk", c, o)
    <2> DEFINE u == [kept(i) EXCEPT ![i - 1] = [st |-> "done", code |-> "EREMOTEIO", len |-> 1]]
    <2>1. [st |-> "done", code |-> "EREMOTEIO", len |-> 1] \in Linux!Urb
      BY DEF Linux!Urb, Linux!Full
    <2>2. u \in [1 .. n -> Linux!Urb]
      BY <1>6, <2>1
    <2>3. \A k \in 1 .. n : IF k < i THEN u[k].st \in {"sent", "cut", "done"} ELSE u[k].st = "refused"
      BY <1>6
    <2>4. early(i) = [some(i) EXCEPT !.reap_action = "COMPLETED_EARLY", !.urbs = u]
      BY <1>6
    <2> HIDE DEF u, early
    <2>5. u \in Seq(Linux!Urb) /\ Len(u) = n
      BY <2>2
    <2>6. /\ early(i) \in Linux!Priv /\ early(i).urbs = u /\ early(i).num_retired = n - i + 1
          /\ early(i).reap_action = "COMPLETED_EARLY"
      BY <1>6, <2>4, <2>5 DEF Linux!Priv
    <2>7. PICK p \in Linux!Priv : p = early(i)
      BY <2>6
    <2>8. /\ Len(p.urbs) = n /\ p.num_retired = n - i + 1 /\ p.reap_action # "NORMAL"
          /\ \A k \in 1 .. n : IF k < i THEN p.urbs[k].st \in {"sent", "cut", "done"} ELSE p.urbs[k].st = "refused"
      BY <2>3, <2>5, <2>6, <2>7
    <2>9. i \in 2 .. n + 1 /\ n \in Nat \ {0}
      BY <1>8
    <2>10. p.urbs # <<>> /\ UrbsRight("bulk", c, p)
      BY <2>8, <2>9, SentRight
    <2>11. o.p = p /\ o.r = "SUCCESS"
      BY <1>8, <2>7
    <2>12. QED
      BY <2>10, <2>11 DEF Answer
  <1>9. QED
    BY <1>1, <1>5, <1>7, <1>8, RefusedRight

\* submit_iso_transfer, in the same way
LEMMA SubmitIsoRight ==
  ASSUME NEW n \in Nat \ {0}, NEW c \in BOOLEAN, NEW o \in Linux!SubmitIso(n)
  PROVE  Answer("iso", c, o)
  <1> DEFINE sent == [k \in 1 .. n |-> Linux!Sent]
             all == [Linux!NoPriv EXCEPT !.urbs = sent]
             cut(i) == [k \in 1 .. n |-> IF k < i THEN Linux!Discard(Linux!Sent) ELSE [Linux!Sent EXCEPT !.st = "refused"]]
             failed(i) == [all EXCEPT !.reap_action = "SUBMIT_FAILED", !.num_retired = Linux!Unsent(n, i), !.urbs = cut(i)]
  <1>1. \/ o.r # "SUCCESS" /\ o.p = Linux!NoPriv
        \/ o.r = "SUCCESS" /\ (o.p = all \/ \E i \in 2 .. n : o.p = failed(i))
    BY DEF Linux!SubmitIso
  <1>2. Linux!Sent \in Linux!Urb /\ Linux!Sent.st = "sent"
    BY DEF Linux!Sent, Linux!Urb, Linux!Full
  <1>3. /\ all \in Linux!Priv /\ all.urbs = sent /\ all.num_retired = 0 /\ all.reap_action = "NORMAL"
        /\ all.reap_status = "COMPLETED"
    BY <1>2 DEF Linux!NoPriv, Linux!Priv
  <1>4. sent \in [1 .. n -> Linux!Urb] /\ \A k \in 1 .. n : sent[k] = Linux!Sent
    BY <1>2
  <1> HIDE DEF all, sent
  <1>5. CASE o.r = "SUCCESS" /\ o.p = all
    <2>1. PICK i \in 2 .. n + 1 : i = n + 1
      OBVIOUS
    <2>2. Len(all.urbs) = n /\ all.num_retired = n - i + 1
      BY <1>3, <1>4, <2>1
    <2>3. \A k \in 1 .. n : k < i /\ all.urbs[k] = Linux!Sent
      BY <1>3, <1>4, <2>1
    <2>4. all.urbs # <<>> /\ UrbsRight("iso", c, all)
      BY <1>2, <1>3, <2>1, <2>2, <2>3, SentRight
    <2>5. QED
      BY <1>5, <2>4 DEF Answer
  <1>6. ASSUME NEW i \in 2 .. n, o.r = "SUCCESS", o.p = failed(i)
        PROVE  Answer("iso", c, o)
    <2>1. /\ [Linux!Sent EXCEPT !.st = "refused"] \in Linux!Urb /\ [Linux!Sent EXCEPT !.st = "refused"].st = "refused"
          /\ Linux!Discard(Linux!Sent) \in Linux!Urb /\ Linux!Discard(Linux!Sent).st = "cut"
      BY DEF Linux!Sent, Linux!Urb, Linux!Full, Linux!Discard
    <2>2. cut(i) \in [1 .. n -> Linux!Urb] /\ \A k \in 1 .. n : cut(i)[k].st = IF k < i THEN "cut" ELSE "refused"
      BY <2>1
    <2> HIDE DEF cut
    <2>3. cut(i) \in Seq(Linux!Urb) /\ Len(cut(i)) = n /\ n - i + 1 \in Nat
      BY <2>2
    <2>4. /\ failed(i) \in Linux!Priv /\ failed(i).urbs = cut(i) /\ failed(i).num_retired = n - i + 1
          /\ failed(i).reap_action = "SUBMIT_FAILED"
      BY <1>3, <2>3 DEF Linux!Priv, Linux!Unsent
    <2> HIDE DEF failed
    <2>5. failed(i).urbs # <<>> /\ UrbsRight("iso", c, failed(i))
      BY <2>2, <2>3, <2>4, SentRight
    <2>6. QED
      BY <1>6, <2>5 DEF Answer
  <1>7. QED
    BY <1>1, <1>5, <1>6, RefusedRight

\* submit_control_transfer: its one URB sent, or none
LEMMA SubmitControlRight ==
  ASSUME NEW c \in BOOLEAN, NEW o \in Linux!SubmitControl
  PROVE  Answer("control", c, o)
  <1> DEFINE p == [Linux!NoPriv EXCEPT !.urbs = <<Linux!Sent>>]
  <1>1. \/ o.r # "SUCCESS" /\ o.p = Linux!NoPriv
        \/ o.r = "SUCCESS" /\ o.p = p
    BY DEF Linux!SubmitControl
  <1>2. p \in Linux!Priv /\ p.urbs = <<Linux!Sent>>
    <2>1. Linux!Sent \in Linux!Urb
      BY DEF Linux!Sent, Linux!Urb, Linux!Full
    <2>2. <<Linux!Sent>> \in Seq(Linux!Urb)
      BY <2>1
    <2>3. QED
      BY <2>2 DEF Linux!NoPriv, Linux!Priv
  <1> HIDE DEF p
  <1>3. Len(p.urbs) = 1 /\ DOMAIN p.urbs = {1} /\ p.urbs[1].st = "sent" /\ p.urbs # <<>>
    BY <1>2 DEF Linux!Sent
  <1>4. UrbsRight("control", c, p)
    BY <1>2, <1>3 DEF UrbsRight, Orderly
  <1>5. QED
    BY <1>1, <1>3, <1>4, RefusedRight DEF Answer

\* What the backend answers on Linux
LEMMA SubmitsRight ==
  ASSUME NEW type \in {"control", "bulk", "iso"}, NEW c \in BOOLEAN, NEW p \in Linux!Priv, p.urbs = <<>>,
         NEW o \in Linux!Submits(type, p, c)
  PROVE  Answer(type, c, o)
  <1>1. NumUrbs["bulk"] \in Nat \ {0} /\ NumUrbs["iso"] \in Nat \ {0}
    BY UrbsSound DEF Linux!UrbAssumption
  <1>2. CASE type = "control"
    BY <1>2, SubmitControlRight DEF Linux!Submits
  <1>3. CASE type = "bulk"
    BY <1>1, <1>3, SubmitBulkRight DEF Linux!Submits
  <1>4. CASE type = "iso"
    BY <1>1, <1>4, SubmitIsoRight DEF Linux!Submits
  <1>5. QED
    BY <1>2, <1>3, <1>4

\* Cancelling takes nothing from what is to come, and changes no result.
LEMMA CancelRight ==
  ASSUME NEW type, NEW c, NEW p, UrbsRight(type, c, p)
  PROVE  /\ UrbsRight(type, c, Linux!Cancel(type, p))
         /\ Linux!Cancel(type, p).urbs = <<>> <=> p.urbs = <<>>
         /\ Linux!Cancel(type, p).reap_status = p.reap_status
  <1> DEFINE q == Linux!Cancel(type, p)
  <1>1. p \in Linux!Priv
    BY DEF UrbsRight
  <1>2. CASE p.urbs = <<>>
    BY <1>2 DEF Linux!Cancel
  <1>3. CASE p.urbs # <<>>
    <2> DEFINE n == Len(p.urbs)
               u == [k \in DOMAIN p.urbs |-> Linux!Discard(p.urbs[k])]
    <2>1. n \in Nat \ {0} /\ DOMAIN p.urbs = 1 .. n /\ \A k \in 1 .. n : p.urbs[k] \in Linux!Urb
      BY <1>1, <1>3, PrivParts
    <2>2. ASSUME NEW k \in 1 .. n
          PROVE  /\ u[k] \in Linux!Urb
                 /\ u[k].st = IF p.urbs[k].st = "sent" THEN "cut" ELSE p.urbs[k].st
      BY <2>1 DEF Linux!Discard, Linux!Urb
    <2>3. u \in [1 .. n -> Linux!Urb]
      BY <2>1, <2>2
    <2>4. /\ q \in Linux!Priv /\ q.urbs = u /\ q.num_retired = p.num_retired /\ q.reap_status = p.reap_status
          /\ q.reap_action # "NORMAL"
      <3> HIDE DEF u
      <3>1. u \in Seq(Linux!Urb)
        BY <2>3
      <3>2. q = [p EXCEPT !.reap_action = IF type = "bulk" /\ @ = "ERROR" THEN @ ELSE "CANCELLED", !.urbs = u]
        BY <1>3 DEF Linux!Cancel, u
      <3>3. QED
        BY <1>1, <3>1, <3>2 DEF Linux!Priv
    <2> HIDE DEF u, q
    <2>5. Len(u) = n /\ DOMAIN u = 1 .. n /\ u # <<>>
      BY <2>1, <2>3
    <2>6. Retired(q) = Retired(p)
      BY <2>1, <2>2, <2>4, <2>5 DEF Retired
    <2>7. \E k \in DOMAIN u : u[k].st \in {"sent", "cut", "done"}
      <3>1. PICK k \in 1 .. n : p.urbs[k].st \in {"sent", "cut", "done"}
        BY <1>3, <2>1 DEF UrbsRight
      <3>2. u[k].st \in {"sent", "cut", "done"}
        BY <2>2, <3>1
      <3>3. QED
        BY <2>5, <3>2
    <2>8. UrbsRight(type, c, q)
      BY <2>1, <2>4, <2>5, <2>6, <2>7 DEF UrbsRight
    <2>9. QED
      BY <1>3, <2>4, <2>5, <2>8 DEF q
  <1>4. QED
    BY <1>2, <1>3

\* What the operating system does to URBs keeps them right: it ends the first
\* it has, and takes the rest along if they continue it.
LEMMA ServeRight ==
  ASSUME NEW type, NEW c \in BOOLEAN, NEW p, UrbsRight(type, c, p),
         NEW q \in Linux!Serve(type, p, c, OverAnywhere)
  PROVE  /\ UrbsRight(type, c, q) /\ p.urbs # <<>> /\ q.urbs # <<>>
         /\ q.reap_status = p.reap_status
  <1> DEFINE n == Len(p.urbs)
             k == Linux!FirstOpen(p)
             give(x, l) == Linux!Done(x, l)
             Open(r) == Linux!Open(r)
             ends == Linux!Endings(type, p, c, OverAnywhere)
  <1>1. Open(p) # {} /\ \E e \in ends : q = [p EXCEPT !.urbs = Linux!Served(type, p, c, e)]
    BY DEF Linux!Serve
  <1>2. p \in Linux!Priv /\ n \in Nat /\ DOMAIN p.urbs = 1 .. n /\ \A m \in 1 .. n : p.urbs[m] \in Linux!Urb
    BY PrivParts DEF UrbsRight
  <1>3. k \in Open(p) /\ \A o \in Open(p) : k <= o
    <2>1. Open(p) \subseteq Nat
      BY <1>2 DEF Linux!Open
    <2>2. \E m \in Open(p) : \A o \in Open(p) : m <= o
      BY <1>1, <2>1, Least
    <2>3. QED
      BY <2>2 DEF Linux!FirstOpen
  <1> HIDE DEF k
  <1>4. PICK e \in ends : q = [p EXCEPT !.urbs = Linux!Served(type, p, c, e)]
    BY <1>1
  <1>5. /\ e \in Linux!Urb /\ e.st = "done"
        /\ e.code = "ENOENT" => p.urbs[k].st = "cut"
        /\ e.code \in {"EPIPE", "EPROTO"} => e.len = 0
        /\ e.code = "EOVERFLOW" => OverAnywhere \/ Open(p) = {k}
    <2>1. \/ e \in {give("OK", Linux!Full), give("EREMOTEIO", 1), give("OK", 1), give("EPIPE", 0), give("EPROTO", 0)}
          \/ e \in {give("ENOENT", 0), give("ENOENT", 1)} /\ p.urbs[k].st = "cut"
          \/ e = give("EOVERFLOW", 1) /\ (OverAnywhere \/ Open(p) = {k})
      BY DEF Linux!Endings, k
    <2>2. QED
      BY <2>1 DEF Linux!Done, Linux!Urb, Linux!Full
  <1> DEFINE u == Linux!Served(type, p, c, e)
  <1>6. /\ DOMAIN u = 1 .. n /\ u[k] = e
        /\ \A m \in (1 .. n) \ {k} : \/ u[m] = p.urbs[m]
                                     \/ /\ c /\ m \in Open(p) /\ u[m] = give("ENOENT", 0)
                                        /\ u[m].st = "done" /\ u[m].code = "ENOENT" /\ u[m].len = 0
    BY <1>2, <1>3 DEF Linux!Served, Linux!Open, Linux!Done, k
  <1>7. u \in [1 .. n -> Linux!Urb]
    <2>1. give("ENOENT", 0) \in Linux!Urb
      BY DEF Linux!Done, Linux!Urb, Linux!Full
    <2>2. \A m \in 1 .. n : u[m] \in Linux!Urb
      BY <1>2, <1>5, <1>6, <2>1
    <2>3. u = [m \in 1 .. n |-> u[m]]
      BY <1>2 DEF Linux!Served
    <2> HIDE DEF u
    <2>4. QED
      BY <2>2, <2>3
  <1>8. u \in Seq(Linux!Urb) /\ Len(u) = n
    <2> HIDE DEF u
    <2> QED
      BY <1>2, <1>7
  <1>9. q = [p EXCEPT !.urbs = u]
    BY <1>4
  <1> HIDE DEF u, ends
  <1>10. /\ q \in Linux!Priv /\ q.urbs = u /\ q.num_retired = p.num_retired /\ q.reap_status = p.reap_status
         /\ q.reap_action = p.reap_action
    BY <1>2, <1>8, <1>9 DEF Linux!Priv
  <1>11. k \in 1 .. n /\ p.urbs[k].st \in {"sent", "cut"}
    BY <1>2, <1>3 DEF Linux!Open
  <1>12. p.urbs # <<>> /\ u # <<>>
    BY <1>2, <1>8, <1>11
  <1>13. Retired(q) = Retired(p)
    BY <1>2, <1>5, <1>6, <1>10, <1>11 DEF Retired, Linux!Open
  <1>14. p.reap_action = "NORMAL" => Orderly(q)
    <2> SUFFICES ASSUME p.reap_action = "NORMAL" PROVE Orderly(q)
      OBVIOUS
    <2>1. Orderly(p)
      BY DEF UrbsRight
    <2>2. \A m \in 1 .. n : u[m].st # p.urbs[m].st => m \in Open(p) /\ u[m].st = "done"
      BY <1>3, <1>5, <1>6
    <2>3. \A m \in 1 .. k - 1 : m \in 1 .. n /\ m \notin Open(p) /\ p.urbs[m].st \in {"done", "back"}
      BY <1>2, <1>3, <1>11, <2>1 DEF Linux!Open, Orderly, Linux!Urb
    <2>4. ASSUME NEW m \in 1 .. n
          PROVE  /\ u[m].st # "refused"
                 /\ u[m].st = "back" => \A j \in 1 .. m - 1 : u[j].st = "back"
      <3>1. p.urbs[m].st # "refused" /\ (p.urbs[m].st = "back" => \A j \in 1 .. m - 1 : p.urbs[j].st = "back")
        BY <1>2, <2>1 DEF Orderly
      <3>2. \A j \in 1 .. n : p.urbs[j].st = "back" => u[j].st = "back"
        BY <2>2 DEF Linux!Open
      <3>3. \A j \in 1 .. m - 1 : j \in 1 .. n
        BY <1>2
      <3>4. QED
        BY <2>2, <3>1, <3>2, <3>3
    <2>5. ASSUME NEW m \in 1 .. n, u[m].st \in {"done", "back"}, NEW j \in 1 .. m - 1
          PROVE  u[j].st \in {"done", "back"}
      <3>1. j \in 1 .. n
        BY <1>2
      <3>2. CASE j < k
        BY <1>11, <2>2, <2>3, <3>1, <3>2
      <3>3. CASE j = k
        BY <1>5, <1>6, <3>3
      <3>4. CASE j > k
        <4>1. m # k /\ m > k
          BY <3>4, <1>2, <1>11
        <4>2. CASE u[m] = p.urbs[m]
          <5>1. k \in 1 .. m - 1
            BY <4>1, <1>11
          <5>2. p.urbs[k].st \in {"done", "back"}
            BY <1>2, <2>1, <2>5, <4>2, <5>1 DEF Orderly
          <5>3. QED
            BY <1>11, <5>2
        <4>3. CASE u[m] # p.urbs[m]
          <5>1. c /\ type = "bulk" /\ e.code # "OK"
            BY <1>2, <4>1, <4>3 DEF u, k, Linux!Served
          <5>2. j \in Open(p) => u[j].st = "done"
            BY <1>2, <3>1, <3>4, <5>1 DEF u, k, Linux!Served, Linux!Done
          <5>3. CASE j \in Open(p)
            BY <5>2, <5>3
          <5>4. CASE j \notin Open(p)
            <6>1. p.urbs[j].st \in {"done", "back"}
              BY <1>2, <2>1, <3>1, <5>4 DEF Linux!Open, Orderly, Linux!Urb
            <6>2. QED
              BY <2>2, <3>1, <6>1
          <5>5. QED
            BY <5>3, <5>4
        <4>4. QED
          BY <4>2, <4>3
      <3>5. QED
        BY <1>2, <1>11, <3>2, <3>3, <3>4
    <2>6. ASSUME NEW m \in 1 .. n, u[m].st = "done", u[m].code = "EOVERFLOW", ~OverAnywhere
          PROVE  m = n
      <3>1. CASE m # k
        <4>1. u[m] = p.urbs[m]
          BY <1>6, <2>6, <3>1
        <4>2. QED
          BY <1>2, <2>1, <2>6, <4>1 DEF Orderly
      <3>2. CASE m = k
        <4>2. Open(p) = {k}
          BY <1>5, <1>6, <2>6, <3>2
        <4>3. SUFFICES ASSUME k < n PROVE FALSE
          BY <1>2, <1>11, <3>2
        <4>4. n \in 1 .. n /\ n \notin Open(p) /\ k \in 1 .. n - 1
          BY <1>2, <1>11, <4>2, <4>3
        <4>5. p.urbs[n].st \in {"done", "back"}
          BY <1>2, <2>1, <4>4 DEF Linux!Open, Orderly, Linux!Urb
        <4>6. p.urbs[k].st \in {"done", "back"}
          BY <1>2, <2>1, <4>4, <4>5 DEF Orderly
        <4>7. QED
          BY <1>11, <4>6
      <3>3. QED
        BY <3>1, <3>2
    <2>7. QED
      BY <1>2, <1>6, <1>8, <1>10, <2>4, <2>5, <2>6 DEF Orderly
  <1>15. p.reap_action = "NORMAL" /\ type = "bulk" => Explained(c, q)
    <2> SUFFICES ASSUME p.reap_action = "NORMAL", type = "bulk" PROVE Explained(c, q)
      OBVIOUS
    <2>1. Explained(c, p)
      BY DEF UrbsRight
    <2>2. ASSUME NEW m \in 1 .. n
          PROVE  /\ u[m].st = "cut" => ~c /\ p.reap_status = "STALL"
                 /\ u[m].st = "done" /\ u[m].code \in {"EPIPE", "EPROTO"} => u[m].len = 0
                 /\ u[m].st = "done" /\ u[m].code = "ENOENT" => IF c THEN u[m].len = 0 ELSE p.reap_status = "STALL"
      <3>1. CASE m = k
        <4>1. p.urbs[k].st = "cut" => ~c /\ p.reap_status = "STALL"
          BY <1>2, <1>11, <2>1 DEF Explained
        <4>2. QED
          BY <1>5, <1>6, <3>1, <4>1
      <3>2. CASE m # k /\ u[m] = p.urbs[m]
        BY <1>2, <2>1, <3>2 DEF Explained
      <3>3. CASE m # k /\ u[m] # p.urbs[m]
        BY <1>6, <3>3
      <3>4. QED
        BY <3>1, <3>2, <3>3
    <2>3. QED
      BY <1>6, <1>10, <1>12, <2>1, <2>2 DEF Explained
  <1>16. UrbsRight(type, c, q)
    <2>1. \E m \in DOMAIN u : u[m].st \in {"sent", "cut", "done"}
      BY <1>5, <1>6, <1>11
    <2>2. QED
      BY <1>8, <1>10, <1>13, <1>14, <1>15, <2>1 DEF UrbsRight
  <1>17. QED
    BY <1>10, <1>12, <1>16

-----------------------------------------------------------------------------
\* What the kernel still has of a transfer
Left(p) == {k \in DOMAIN p.urbs : p.urbs[k].st \in {"sent", "cut", "done"}}

\* Handling an URB frees the URBs of a transfer only when the kernel has none
\* of them, and it is over just then; what the URB brought is added, unless
\* the transfer stalled.
Outcome(type, c, p, k, o) ==
  /\ Clean(o.left) /\ o.add \in Nat /\ UrbsRight(type, c, o.p)
  /\ o.end = "none" <=> o.p.urbs # <<>>
  /\ type = "bulk" => /\ p.reap_status = "STALL" => o.p.reap_status = "STALL"
                      /\ o.add = p.urbs[k].len \/ o.p.reap_status = "STALL"

\* The end of a transfer of which the kernel has nothing
Over(type, c, x, add, e, o) ==
  /\ Clean(o.left) /\ o.add = add /\ o.end = e
  /\ UrbsRight(type, c, o.p) /\ o.p.urbs = <<>> /\ o.p.reap_status = x.reap_status

\* A transfer that is declared over has no URBs, and keeps its reap_status.
LEMMA EndsRight ==
  ASSUME NEW type, NEW c, NEW x \in Linux!Priv, Clean(Left(x)), NEW add \in Nat, NEW e, e # "none"
  PROVE  Over(type, c, x, add, e, Linux!Ends(x, add, e))
  <1> DEFINE o == Linux!Ends(x, add, e)
  <1>1. o.p = [Linux!NoPriv EXCEPT !.reap_status = x.reap_status] /\ o.end = e /\ o.add = add
    BY DEF Linux!Ends
  <1>2. Clean(o.left)
    BY DEF Linux!Ends, Left
  <1>3. o.p \in Linux!Priv /\ o.p.urbs = <<>> /\ o.p.num_retired = 0 /\ o.p.reap_status = x.reap_status
    <2>1. x.reap_status \in {"COMPLETED", "ERROR", "STALL", "OVERFLOW"}
      BY DEF Linux!Priv
    <2>2. Linux!NoPriv \in Linux!Priv /\ Linux!NoPriv.urbs = <<>> /\ Linux!NoPriv.num_retired = 0
      BY DEF Linux!NoPriv, Linux!Priv
    <2> HIDE DEF o
    <2>3. QED
      BY <1>1, <2>1, <2>2 DEF Linux!Priv
  <1> HIDE DEF o
  <1>4. UrbsRight(type, c, o.p)
    BY <1>3, NoUrbsRight
  <1>5. QED
    BY <1>1, <1>2, <1>3, <1>4 DEF o, Over

\* What has retired an URB more
Retires(p, k, x) ==
  /\ x \in Linux!Priv /\ x.num_retired = p.num_retired + 1
  /\ x.urbs = [p.urbs EXCEPT ![k].st = "back"]

\* Retiring the URB that was reaped leaves one fewer to come back.
LEMMA RetireRight ==
  ASSUME NEW type \in {"bulk", "iso"}, NEW c, NEW p, UrbsRight(type, c, p),
         NEW k \in Linux!Reapable(p), NEW x, Retires(p, k, x)
  PROVE  /\ k \in DOMAIN p.urbs /\ x.num_retired = Cardinality(Retired(x))
         /\ Left(x) = {} <=> x.num_retired = Len(p.urbs)
         /\ Orderly(p) => /\ Orderly(x) /\ \A j \in 1 .. k - 1 : x.urbs[j].st = "back"
                          /\ k = Len(p.urbs) => Left(x) = {}
                          /\ k # Len(p.urbs) => Left(x) # {}
  <1> DEFINE n == Len(p.urbs)
  <1>1. /\ p \in Linux!Priv /\ n \in Nat /\ DOMAIN p.urbs = 1 .. n
        /\ \A m \in 1 .. n : p.urbs[m] \in Linux!Urb
    BY PrivParts DEF UrbsRight
  <1>2. k \in 1 .. n /\ p.urbs[k].st = "done" /\ \A m \in 1 .. k - 1 : p.urbs[m].st # "done"
    BY <1>1 DEF Linux!Reapable
  <1>3. /\ DOMAIN x.urbs = 1 .. n /\ Len(x.urbs) = n /\ x.urbs[k].st = "back"
        /\ \A m \in (1 .. n) \ {k} : x.urbs[m] = p.urbs[m]
    <2>1. DOMAIN x.urbs = 1 .. n /\ x.urbs[k].st = "back" /\ \A m \in (1 .. n) \ {k} : x.urbs[m] = p.urbs[m]
      BY <1>1, <1>2 DEF Retires, Linux!Urb
    <2>2. Len(x.urbs) = n
      BY <1>1, <2>1, PrivParts DEF Retires
    <2>3. QED
      BY <2>1, <2>2
  <1>4. Retired(x) = Retired(p) \cup {k} /\ k \notin Retired(p)
    BY <1>1, <1>2, <1>3 DEF Retired
  <1>5. x.num_retired = Cardinality(Retired(x))
    <2>1. IsFiniteSet(Retired(p)) /\ p.num_retired = Cardinality(Retired(p))
      BY <1>1, RetiredParts DEF UrbsRight
    <2>2. Cardinality(Retired(p) \cup {k}) = Cardinality(Retired(p)) + 1
      BY <1>4, <2>1, FS_AddElement
    <2>3. QED
      BY <1>4, <2>1, <2>2 DEF Retires
  <1>6. \A m \in 1 .. n : x.urbs[m] \in Linux!Urb
    BY <1>3, PrivParts DEF Retires
  <1>7. Left(x) = (1 .. n) \ Retired(x)
    BY <1>3, <1>6 DEF Left, Retired, Linux!Urb
  <1>8. Left(x) = {} <=> x.num_retired = n
    <2>1. x \in Linux!Priv /\ Retired(x) \subseteq 1 .. n
      BY <1>3 DEF Retires, Retired
    <2>2. Cardinality(Retired(x)) = n <=> Retired(x) = 1 .. n
      BY <1>3, <2>1, RetiredParts
    <2>3. QED
      BY <1>5, <1>7, <2>1, <2>2
  <1>9. ASSUME Orderly(p)
        PROVE  /\ Orderly(x) /\ \A j \in 1 .. k - 1 : x.urbs[j].st = "back"
               /\ k = n => Left(x) = {}
               /\ k # n => Left(x) # {}
    <2>1. \A j \in 1 .. k - 1 : j \in 1 .. n /\ j # k /\ p.urbs[j].st = "back"
      BY <1>1, <1>2, <1>9 DEF Orderly
    <2>2. \A j \in 1 .. k - 1 : x.urbs[j].st = "back"
      BY <1>3, <2>1
    <2>3. Orderly(x)
      <3>1. ASSUME NEW m \in 1 .. n, m # k
            PROVE  /\ x.urbs[m].st # "refused"
                   /\ x.urbs[m].st \in {"done", "back"} => \A j \in 1 .. m - 1 : x.urbs[j].st \in {"done", "back"}
                   /\ x.urbs[m].st = "back" => \A j \in 1 .. m - 1 : x.urbs[j].st = "back"
                   /\ x.urbs[m].st = "done" /\ x.urbs[m].code = "EOVERFLOW" => OverAnywhere \/ m = n
        <4>1. x.urbs[m] = p.urbs[m]
          BY <1>3, <3>1
        <4>2. /\ p.urbs[m].st # "refused"
              /\ p.urbs[m].st \in {"done", "back"} => \A j \in 1 .. m - 1 : p.urbs[j].st \in {"done", "back"}
              /\ p.urbs[m].st = "back" => \A j \in 1 .. m - 1 : p.urbs[j].st = "back"
              /\ p.urbs[m].st = "done" /\ p.urbs[m].code = "EOVERFLOW" => OverAnywhere \/ m = n
          BY <1>1, <1>9 DEF Orderly
        <4>3. \A j \in 1 .. m - 1 : j \in 1 .. n /\ x.urbs[j].st \in {p.urbs[j].st, "back"}
          BY <1>1, <1>3
        <4>4. QED
          BY <4>1, <4>2, <4>3
      <3>2. QED
        BY <1>3, <2>2, <3>1 DEF Orderly
    <2>4. k = n => Left(x) = {}
      BY <1>1, <1>2, <1>3, <2>2 DEF Left
    <2>5. k # n => Left(x) # {}
      <3>1. SUFFICES ASSUME k # n PROVE k + 1 \in Left(x)
        OBVIOUS
      <3>2. k + 1 \in 1 .. n /\ k \in 1 .. (k + 1) - 1
        BY <1>1, <1>2, <3>1
      <3>3. p.urbs[k + 1].st \notin {"back", "refused"}
        BY <1>1, <1>2, <1>9, <3>2 DEF Orderly
      <3>4. x.urbs[k + 1] = p.urbs[k + 1] /\ p.urbs[k + 1] \in Linux!Urb
        BY <1>1, <1>2, <1>3, <3>2
      <3>5. QED
        BY <1>3, <3>2, <3>3, <3>4 DEF Left, Linux!Urb
    <2>6. QED
      BY <2>2, <2>3, <2>4, <2>5
  <1>10. QED
    BY <1>1, <1>2, <1>5, <1>8, <1>9

\* The transfer goes on without the URBs behind one that failed.
WithoutRest(c, k, x) ==
  [x EXCEPT !.urbs = [m \in DOMAIN @ |-> IF m > k /\ ~c THEN Linux!Discard(@[m]) ELSE @[m]]]

\* Discarding the rest of the URBs keeps them right.
LEMMA RestRight ==
  ASSUME NEW c \in BOOLEAN, NEW p, UrbsRight("bulk", c, p),
         NEW k \in Linux!Reapable(p), NEW x, Retires(p, k, x), Left(x) # {},
         x.reap_action = "NORMAL" =>
           Orderly(p) /\ Explained(c, p) /\ (~c => x.reap_status = "STALL"),
         NEW y, y = WithoutRest(c, k, x)
  PROVE  UrbsRight("bulk", c, y) /\ y.urbs # <<>> /\ y.reap_status = x.reap_status
  <1> DEFINE n == Len(p.urbs)
             u == [m \in DOMAIN x.urbs |-> IF m > k /\ ~c THEN Linux!Discard(x.urbs[m]) ELSE x.urbs[m]]
  <1>1. /\ p \in Linux!Priv /\ n \in Nat /\ DOMAIN p.urbs = 1 .. n /\ k \in 1 .. n
        /\ \A m \in 1 .. n : p.urbs[m] \in Linux!Urb
    BY PrivParts DEF UrbsRight, Linux!Reapable
  <1>2. x \in Linux!Priv /\ DOMAIN x.urbs = 1 .. n /\ \A m \in 1 .. n : x.urbs[m] \in Linux!Urb
    BY <1>1, PrivParts DEF Retires
  <1>3. ASSUME NEW m \in 1 .. n
        PROVE  /\ u[m] \in Linux!Urb
               /\ \/ u[m] = x.urbs[m]
                  \/ ~c /\ x.urbs[m].st = "sent" /\ u[m].st = "cut"
    BY <1>2 DEF Linux!Discard, Linux!Urb
  <1>4. u \in [1 .. n -> Linux!Urb]
    BY <1>2, <1>3
  <1> HIDE DEF u
  <1>5. u \in Seq(Linux!Urb) /\ Len(u) = n /\ DOMAIN u = 1 .. n
    BY <1>1, <1>4
  <1>6. y = [x EXCEPT !.urbs = u]
    BY DEF u, WithoutRest
  <1>7. /\ y \in Linux!Priv /\ y.urbs = u /\ y.num_retired = x.num_retired
        /\ y.reap_action = x.reap_action /\ y.reap_status = x.reap_status
    BY <1>2, <1>5, <1>6 DEF Linux!Priv
  <1>8. /\ x.num_retired = Cardinality(Retired(x))
        /\ Orderly(p) => Orderly(x)
    BY RetireRight
  <1>9. Retired(y) = Retired(x)
    BY <1>2, <1>3, <1>5, <1>7 DEF Retired
  <1>10. \E m \in DOMAIN u : u[m].st \in {"sent", "cut", "done"}
    <2>1. PICK m \in 1 .. n : x.urbs[m].st \in {"sent", "cut", "done"}
      BY <1>2 DEF Left
    <2>2. u[m].st \in {"sent", "cut", "done"}
      BY <1>3, <2>1
    <2>3. QED
      BY <1>5, <2>2
  <1>11. u # <<>>
    BY <1>1, <1>5
  <1>12. x.reap_action = "NORMAL" => Orderly(y) /\ Explained(c, y)
    <2> SUFFICES ASSUME x.reap_action = "NORMAL" PROVE Orderly(y) /\ Explained(c, y)
      OBVIOUS
    <2>1. Orderly(y)
      <3>1. Orderly(x)
        BY <1>8
      <3>2. Len(x.urbs) = n
        BY <1>1, <1>2, PrivParts
      <3>3. ASSUME NEW m \in 1 .. n
            PROVE  /\ u[m].st # "refused"
                   /\ u[m].st \in {"done", "back"} => \A j \in 1 .. m - 1 : u[j].st \in {"done", "back"}
                   /\ u[m].st = "back" => \A j \in 1 .. m - 1 : u[j].st = "back"
                   /\ u[m].st = "done" /\ u[m].code = "EOVERFLOW" => OverAnywhere \/ m = n
        <4>1. u[m].st \in {"done", "back"} => u[m] = x.urbs[m]
          BY <1>3
        <4>2. \A j \in 1 .. m - 1 : j \in 1 .. n /\ (x.urbs[j].st \in {"done", "back"} => u[j] = x.urbs[j])
          BY <1>1, <1>3
        <4>3. /\ x.urbs[m].st # "refused"
              /\ x.urbs[m].st \in {"done", "back"} => \A j \in 1 .. m - 1 : x.urbs[j].st \in {"done", "back"}
              /\ x.urbs[m].st = "back" => \A j \in 1 .. m - 1 : x.urbs[j].st = "back"
              /\ x.urbs[m].st = "done" /\ x.urbs[m].code = "EOVERFLOW" => OverAnywhere \/ m = n
          BY <1>2, <3>1, <3>2 DEF Orderly
        <4>4. u[m].st # "refused"
          BY <1>3, <4>3
        <4>5. QED
          BY <4>1, <4>2, <4>3, <4>4
      <3>4. QED
        BY <1>5, <1>7, <3>3 DEF Orderly
    <2>2. Explained(c, y)
      <3>1. Explained(c, p) /\ (~c => x.reap_status = "STALL")
        OBVIOUS
      <3>2. \A m \in 1 .. n : m # k => x.urbs[m] = p.urbs[m]
        BY <1>1 DEF Retires
      <3>3. x.urbs[k].st = "back"
        BY <1>1 DEF Retires, Linux!Urb
      <3>4. ASSUME NEW m \in 1 .. n
            PROVE  /\ u[m].st = "cut" => ~c
                   /\ u[m].st = "done" /\ u[m].code \in {"EPIPE", "EPROTO"} => u[m].len = 0
                   /\ u[m].st = "done" /\ u[m].code = "ENOENT" /\ c => u[m].len = 0
        <4>1. CASE m = k \/ u[m] # x.urbs[m]
          BY <1>3, <3>3, <4>1
        <4>2. CASE m # k /\ u[m] = x.urbs[m]
          BY <1>1, <3>1, <3>2, <4>2 DEF Explained
        <4>3. QED
          BY <4>1, <4>2
      <3>5. QED
        BY <1>5, <1>7, <3>1, <3>4 DEF Explained
    <2>3. QED
      BY <2>1, <2>2
  <1>13. QED
    BY <1>7, <1>8, <1>9, <1>10, <1>11, <1>12 DEF UrbsRight

\* The transfer is over, goes on without the rest, or goes on.
LEMMA BulkEnds ==
  ASSUME NEW c \in BOOLEAN, NEW p, UrbsRight("bulk", c, p), NEW k \in Linux!Reapable(p),
         NEW x, Retires(p, k, x), p.reap_status = "STALL" => x.reap_status = "STALL",
         NEW add \in Nat, add = p.urbs[k].len \/ x.reap_status = "STALL",
         NEW e, e # "none"
  PROVE  /\ Clean(Left(x)) => Outcome("bulk", c, p, k, Linux!Ends(x, add, e))
         /\ \A y : UrbsRight("bulk", c, y) /\ y.urbs # <<>> /\ y.reap_status = x.reap_status
              => Outcome("bulk", c, p, k, Linux!Goes(y, add))
  <1>1. x \in Linux!Priv
    BY DEF Retires
  <1>2. ASSUME Clean(Left(x))
        PROVE  Outcome("bulk", c, p, k, Linux!Ends(x, add, e))
    <2>1. Over("bulk", c, x, add, e, Linux!Ends(x, add, e))
      BY <1>1, <1>2, EndsRight
    <2>2. QED
      BY <2>1 DEF Outcome, Over
  <1>3. ASSUME NEW y, UrbsRight("bulk", c, y), y.urbs # <<>>, y.reap_status = x.reap_status
        PROVE  Outcome("bulk", c, p, k, Linux!Goes(y, add))
    BY <1>3 DEF Outcome, Linux!Goes, Clean
  <1>4. QED
    BY <1>2, <1>3

\* handle_bulk_completion, branch by branch
LEMMA HandleBulkRight ==
  ASSUME NEW c \in BOOLEAN, NEW p, UrbsRight("bulk", c, p), NEW k \in Linux!Reapable(p)
  PROVE  Outcome("bulk", c, p, k, Linux!HandleBulk(p, k, c))
  <1> DEFINE u == p.urbs[k]
             n == Len(p.urbs)
             v == [p.urbs EXCEPT ![k].st = "back"]
             q == [p EXCEPT !.urbs[k].st = "back", !.num_retired = @ + 1]
             all == q.num_retired = n
             adds == Linux!Adds(p, u)
             to(s) == [q EXCEPT !.reap_status = IF @ = "COMPLETED" THEN s ELSE @]
             erring == [to("ERROR") EXCEPT !.reap_action = "ERROR"]
             short == [q EXCEPT !.reap_action = "COMPLETED_EARLY"]
             end(x) == IF x.reap_action = "CANCELLED" THEN "CANCELLED" ELSE x.reap_status
             done(x) == Linux!Ends(x, adds, end(x))
             cancelRest(x) == IF all THEN done(x) ELSE Linux!Goes(WithoutRest(c, k, x), adds)
             fit(x) == /\ Retires(p, k, x)
                       /\ p.reap_status = "STALL" => x.reap_status = "STALL"
                       /\ adds = u.len \/ x.reap_status = "STALL"
             o == Linux!HandleBulk(p, k, c)
  <1>1. /\ p \in Linux!Priv /\ n \in Nat /\ DOMAIN p.urbs = 1 .. n /\ k \in 1 .. n
        /\ u \in Linux!Urb /\ u.st = "done" /\ u.len \in Nat
    BY PrivParts DEF UrbsRight, Linux!Reapable, Linux!Urb, Linux!Full
  <1>2. /\ u.code \in {"OK", "EREMOTEIO", "EPIPE", "EOVERFLOW", "EPROTO", "ENOENT"}
        /\ p.num_retired \in Nat /\ p.urbs \in Seq(Linux!Urb)
        /\ p.reap_action \in {"NORMAL", "SUBMIT_FAILED", "CANCELLED", "COMPLETED_EARLY", "ERROR"}
        /\ p.reap_status \in {"COMPLETED", "ERROR", "STALL", "OVERFLOW"}
    BY <1>1 DEF Linux!Urb, Linux!Priv
  <1>3. /\ q \in Linux!Priv /\ q.num_retired = p.num_retired + 1 /\ q.urbs = v
        /\ q.reap_action = p.reap_action /\ q.reap_status = p.reap_status
    <2>1. v \in Seq(Linux!Urb)
      BY <1>1, <1>2 DEF Linux!Urb
    <2>2. q = [p EXCEPT !.urbs = v, !.num_retired = @ + 1]
      OBVIOUS
    <2>3. p \in Linux!Priv
      BY <1>1
    <2> HIDE DEF v, q
    <2>4. \E m : m = p.num_retired + 1
      OBVIOUS
    <2>5. PICK m : m = p.num_retired + 1
      BY <2>4
    <2>6. m \in Nat
      BY <1>2, <2>5
    <2>7. q = [p EXCEPT !.urbs = v, !.num_retired = m]
      BY <2>2, <2>5
    <2>8. q \in Linux!Priv /\ q.num_retired = m /\ q.urbs = v /\ q.reap_action = p.reap_action /\ q.reap_status = p.reap_status
      BY <2>1, <2>3, <2>6, <2>7 DEF Linux!Priv
    <2>9. QED
      BY <2>5, <2>8
  <1>4. adds \in Nat
    BY <1>1 DEF Linux!Adds
  <1>5. \/ /\ p.reap_action # "NORMAL" /\ all
           /\ o = done(IF p.reap_action = "COMPLETED_EARLY" THEN q ELSE to("ERROR"))
        \/ p.reap_action # "NORMAL" /\ ~all /\ o = Linux!Goes(q, adds)
        \/ p.reap_action = "NORMAL" /\ u.code = "EPIPE" /\ o = cancelRest(to("STALL"))
        \/ p.reap_action = "NORMAL" /\ u.code = "EOVERFLOW" /\ o = done(to("OVERFLOW"))
        \/ p.reap_action = "NORMAL" /\ u.code = "EPROTO" /\ o = cancelRest(erring)
        \/ p.reap_action = "NORMAL" /\ u.code = "ENOENT" /\ o = cancelRest(to("ERROR"))
        \/ /\ p.reap_action = "NORMAL" /\ u.code \in {"OK", "EREMOTEIO"}
           /\ o = IF k = n THEN done(q) ELSE IF u.len < Linux!Full THEN cancelRest(short) ELSE Linux!Goes(q, adds)
    <2>1. CASE p.reap_action # "NORMAL"
      BY <2>1 DEF Linux!HandleBulk
    <2>2. CASE p.reap_action = "NORMAL" /\ u.code = "EPIPE"
      BY <2>2 DEF Linux!HandleBulk, WithoutRest
    <2>3. CASE p.reap_action = "NORMAL" /\ u.code = "EOVERFLOW"
      BY <2>3 DEF Linux!HandleBulk
    <2>4. CASE p.reap_action = "NORMAL" /\ u.code = "EPROTO"
      BY <2>4 DEF Linux!HandleBulk, WithoutRest
    <2>5. CASE p.reap_action = "NORMAL" /\ u.code = "ENOENT"
      BY <2>5 DEF Linux!HandleBulk, WithoutRest
    <2>6. CASE p.reap_action = "NORMAL" /\ u.code \in {"OK", "EREMOTEIO"}
      BY <2>6 DEF Linux!HandleBulk, WithoutRest
    <2> HIDE DEF u, q, all, adds, to, erring, short, done, cancelRest, o
    <2>7. QED
      BY <1>2, <2>1, <2>2, <2>3, <2>4, <2>5, <2>6
  <1> SUFFICES Outcome("bulk", c, p, k, o)
    OBVIOUS
  <1> HIDE DEF q, v, o
  <1>6. ASSUME NEW s \in {"STALL", "ERROR", "OVERFLOW"}
        PROVE  /\ to(s) \in Linux!Priv /\ to(s).num_retired = p.num_retired + 1 /\ to(s).urbs = v
               /\ to(s).reap_action = p.reap_action
               /\ to(s).reap_status = IF p.reap_status = "COMPLETED" THEN s ELSE p.reap_status
    BY <1>3 DEF Linux!Priv
  <1> HIDE DEF to
  <1>7. /\ erring \in Linux!Priv /\ erring.num_retired = p.num_retired + 1 /\ erring.urbs = v
        /\ erring.reap_action = "ERROR"
        /\ erring.reap_status = IF p.reap_status = "COMPLETED" THEN "ERROR" ELSE p.reap_status
    BY <1>6 DEF Linux!Priv
  <1>8. /\ short \in Linux!Priv /\ short.num_retired = p.num_retired + 1 /\ short.urbs = v
        /\ short.reap_action = "COMPLETED_EARLY" /\ short.reap_status = p.reap_status
    BY <1>3 DEF Linux!Priv
  <1> HIDE DEF erring, short
  <1>9. /\ Retires(p, k, q) /\ Retires(p, k, erring) /\ Retires(p, k, short)
        /\ \A s \in {"STALL", "ERROR", "OVERFLOW"} : Retires(p, k, to(s))
    BY <1>3, <1>6, <1>7, <1>8 DEF Retires, v
  <1> HIDE DEF adds
  <1>10. ASSUME NEW x, fit(x)
         PROVE  /\ Clean(Left(x)) => Outcome("bulk", c, p, k, done(x))
                /\ UrbsRight("bulk", c, x) /\ x.urbs # <<>> => Outcome("bulk", c, p, k, Linux!Goes(x, adds))
                /\ (x.reap_action = "NORMAL" =>
                      Orderly(p) /\ Explained(c, p) /\ (~c => x.reap_status = "STALL"))
                   => Outcome("bulk", c, p, k, cancelRest(x))
    <2>1. x \in Linux!Priv /\ x.num_retired = p.num_retired + 1
      BY <1>10 DEF Retires
    <2>2. end(x) # "none"
      BY <2>1 DEF Linux!Priv
    <2>3. \E e : e = end(x)
      OBVIOUS
    <2>4. PICK e : e = end(x)
      BY <2>3
    <2>5. done(x) = Linux!Ends(x, adds, e) /\ e # "none"
      BY <2>2, <2>4
    <2> HIDE DEF end, done
    <2>6. /\ Clean(Left(x)) => Outcome("bulk", c, p, k, Linux!Ends(x, adds, e))
          /\ \A y : UrbsRight("bulk", c, y) /\ y.urbs # <<>> /\ y.reap_status = x.reap_status
               => Outcome("bulk", c, p, k, Linux!Goes(y, adds))
      BY <1>4, <1>10, <2>5, BulkEnds
    <2>7. all <=> Left(x) = {}
      <3>1. Left(x) = {} <=> x.num_retired = n
        BY <1>10, RetireRight
      <3>2. QED
        BY <1>3, <2>1, <3>1
    <2>8. ASSUME x.reap_action = "NORMAL" =>
                   Orderly(p) /\ Explained(c, p) /\ (~c => x.reap_status = "STALL")
          PROVE  Outcome("bulk", c, p, k, cancelRest(x))
      <3>1. CASE all
        BY <2>5, <2>6, <2>7, <3>1 DEF Clean
      <3>2. CASE ~all
        <4>1. \E y : y = WithoutRest(c, k, x)
          OBVIOUS
        <4>2. PICK y : y = WithoutRest(c, k, x)
          BY <4>1
        <4>3. Retires(p, k, x) /\ Left(x) # {}
          BY <1>10, <2>7, <3>2
        <4>4. UrbsRight("bulk", c, y) /\ y.urbs # <<>> /\ y.reap_status = x.reap_status
          BY <2>8, <4>2, <4>3, RestRight
        <4>5. QED
          BY <2>6, <3>2, <4>2, <4>4
      <3>3. QED
        BY <3>1, <3>2
    <2>9. QED
      BY <2>5, <2>6, <2>8
  <1> HIDE DEF done, cancelRest, fit
  <1>11. /\ v # <<>> /\ q.num_retired = Cardinality(Retired(q))
         /\ Left(q) = {} <=> all
         /\ Orderly(p) => /\ Orderly(q)
                          /\ k = n => Left(q) = {}
                          /\ k # n => Left(q) # {}
    <2>1. v # <<>>
      BY <1>1, <1>2 DEF v
    <2>2. QED
      BY <1>3, <1>9, <2>1, RetireRight
  <1>12. CASE p.reap_action # "NORMAL"
    <2>1. adds = u.len
      BY <1>12 DEF adds, Linux!Adds
    <2>2. fit(q) /\ fit(to("ERROR"))
      BY <1>3, <1>6, <1>9, <2>1 DEF fit
    <2>3. CASE all
      <3>1. Left(q) = {} /\ Left(to("ERROR")) = Left(q)
        BY <1>3, <1>6, <1>11, <2>3 DEF Left
      <3>2. o = done(q) \/ o = done(to("ERROR"))
        BY <1>5, <1>12, <2>3
      <3>3. QED
        BY <1>10, <2>2, <3>1, <3>2 DEF Clean
    <2>4. CASE ~all
      <3>1. UrbsRight("bulk", c, q) /\ q.urbs # <<>>
        <4>1. \E m \in DOMAIN q.urbs : q.urbs[m].st \in {"sent", "cut", "done"}
          BY <1>11, <2>4 DEF Left
        <4>2. QED
          BY <1>3, <1>11, <1>12, <4>1 DEF UrbsRight
      <3>2. o = Linux!Goes(q, adds)
        BY <1>5, <1>12, <2>4
      <3>3. QED
        BY <1>10, <2>2, <3>1, <3>2
    <2>5. QED
      BY <2>3, <2>4
  <1>13. CASE p.reap_action = "NORMAL"
    <2>1. Orderly(p) /\ Explained(c, p)
      BY <1>13 DEF UrbsRight
    <2>2. /\ c \/ p.reap_status \in {"COMPLETED", "STALL"}
          /\ u.code \in {"EPIPE", "EPROTO"} => u.len = 0
          /\ u.code = "ENOENT" => IF c THEN u.len = 0 ELSE p.reap_status = "STALL"
          /\ u.code = "EOVERFLOW" => OverAnywhere \/ k = n
      <3>1. p.urbs # <<>>
        BY <1>1, PrivParts
      <3>2. QED
        BY <1>1, <2>1, <3>1 DEF Explained, Orderly
    <2>3. adds = IF \/ u.code \in {"OK", "EREMOTEIO"}
                    \/ u.code = "EOVERFLOW" /\ u.len > 0 THEN u.len ELSE 0
      BY <1>13 DEF adds, Linux!Adds
    <2>4. CASE u.code = "EPIPE"
      <3>1. o = cancelRest(to("STALL")) /\ adds = u.len
        BY <1>5, <1>13, <2>2, <2>3, <2>4
      <3>2. fit(to("STALL")) /\ (~c => to("STALL").reap_status = "STALL")
        BY <1>6, <1>9, <2>2, <3>1 DEF fit
      <3>3. QED
        BY <1>10, <2>1, <3>1, <3>2
    <2>5. CASE u.code = "EOVERFLOW"
      <3>1. adds = u.len
        BY <1>1, <2>3, <2>5
      <3>2. Clean(Left(to("OVERFLOW"))) /\ fit(to("OVERFLOW"))
        <4>1. Left(to("OVERFLOW")) = Left(q)
          BY <1>3, <1>6 DEF Left
        <4>2. fit(to("OVERFLOW"))
          BY <1>6, <1>9, <3>1 DEF fit
        <4>3. QED
          BY <1>11, <2>1, <2>2, <2>5, <4>1, <4>2 DEF Clean
      <3>3. o = done(to("OVERFLOW"))
        BY <1>5, <1>13, <2>5
      <3>4. QED
        BY <1>10, <3>2, <3>3
    <2>6. CASE u.code = "EPROTO"
      <3>1. o = cancelRest(erring) /\ adds = u.len
        BY <1>5, <1>13, <2>2, <2>3, <2>6
      <3>2. fit(erring) /\ erring.reap_action # "NORMAL"
        BY <1>7, <1>9, <3>1 DEF fit
      <3>3. QED
        BY <1>10, <3>1, <3>2
    <2>7. CASE u.code = "ENOENT"
      <3>1. o = cancelRest(to("ERROR"))
        BY <1>5, <1>13, <2>7
      <3>2. fit(to("ERROR")) /\ (~c => to("ERROR").reap_status = "STALL")
        BY <1>6, <1>9, <2>2, <2>3, <2>7 DEF fit
      <3>3. QED
        BY <1>10, <2>1, <3>1, <3>2
    <2>8. CASE u.code \in {"OK", "EREMOTEIO"}
      <3>1. adds = u.len
        BY <2>3, <2>8
      <3>2. o = IF k = n THEN done(q) ELSE IF u.len < Linux!Full THEN cancelRest(short) ELSE Linux!Goes(q, adds)
        BY <1>5, <1>13, <2>8
      <3>3. fit(q) /\ fit(short) /\ short.reap_action # "NORMAL"
        BY <1>3, <1>8, <1>9, <3>1 DEF fit
      <3>4. CASE k = n
        BY <1>10, <1>11, <2>1, <3>2, <3>3, <3>4 DEF Clean
      <3>5. CASE k # n /\ u.len < Linux!Full
        BY <1>10, <3>2, <3>3, <3>5
      <3>6. CASE k # n /\ ~(u.len < Linux!Full)
        <4>1. Left(q) # {} /\ Orderly(q)
          BY <1>11, <2>1, <3>6
        <4>2. Explained(c, q)
          <5>1. \A m \in 1 .. n : (m = k /\ v[m].st = "back") \/ v[m] = p.urbs[m]
            BY <1>1, <1>2 DEF v, Linux!Urb
          <5>2. DOMAIN v = 1 .. n
            BY <1>1 DEF v
          <5>3. QED
            BY <1>1, <1>3, <2>1, <2>2, <5>1, <5>2 DEF Explained
        <4>3. \E m \in DOMAIN q.urbs : q.urbs[m].st \in {"sent", "cut", "done"}
          BY <4>1 DEF Left
        <4>4. UrbsRight("bulk", c, q) /\ q.urbs # <<>>
          BY <1>3, <1>11, <4>1, <4>2, <4>3 DEF UrbsRight
        <4>5. o = Linux!Goes(q, adds)
          BY <3>2, <3>6
        <4>6. QED
          BY <1>10, <3>3, <4>4, <4>5
      <3>7. QED
        BY <3>4, <3>5, <3>6
    <2>9. QED
      BY <1>2, <2>4, <2>5, <2>6, <2>7, <2>8
  <1>14. QED
    BY <1>12, <1>13

\* handle_iso_completion: the last URB ends the transfer, another does not.
LEMMA HandleIsoRight ==
  ASSUME NEW c \in BOOLEAN, NEW p, UrbsRight("iso", c, p), NEW k \in Linux!Reapable(p)
  PROVE  Outcome("iso", c, p, k, Linux!HandleIso(p, k))
  <1> DEFINE u == p.urbs[k]
             n == Len(p.urbs)
             v == [p.urbs EXCEPT ![k].st = "back"]
             q == [p EXCEPT !.urbs[k].st = "back", !.num_retired = @ + 1,
                            !.iso_packet_offset = IF p.urbs[k].code = "OK" THEN @ + 1 ELSE @]
             end == IF p.reap_action = "CANCELLED" THEN "CANCELLED" ELSE "ERROR"
             o == Linux!HandleIso(p, k)
  <1>1. /\ p \in Linux!Priv /\ n \in Nat /\ DOMAIN p.urbs = 1 .. n /\ k \in 1 .. n
        /\ u \in Linux!Urb /\ u.st = "done" /\ p.urbs \in Seq(Linux!Urb)
        /\ p.num_retired \in Nat /\ p.iso_packet_offset \in Nat
    BY PrivParts DEF UrbsRight, Linux!Reapable, Linux!Urb, Linux!Priv
  <1>2. /\ q \in Linux!Priv /\ q.num_retired = p.num_retired + 1 /\ q.urbs = v
        /\ q.reap_action = p.reap_action
    <2>1. v \in Seq(Linux!Urb)
      BY <1>1 DEF Linux!Urb
    <2>2. \E m, i \in Nat : m = p.num_retired + 1 /\ i = IF p.urbs[k].code = "OK" THEN p.iso_packet_offset + 1 ELSE p.iso_packet_offset
      BY <1>1
    <2>3. PICK m \in Nat, i \in Nat : m = p.num_retired + 1 /\ i = IF p.urbs[k].code = "OK" THEN p.iso_packet_offset + 1 ELSE p.iso_packet_offset
      BY <2>2
    <2>4. q = [p EXCEPT !.urbs = v, !.num_retired = m, !.iso_packet_offset = i]
      BY <2>3
    <2>5. p \in Linux!Priv
      BY <1>1
    <2> HIDE DEF v, q
    <2>6. q \in Linux!Priv /\ q.num_retired = m /\ q.urbs = v /\ q.reap_action = p.reap_action
      BY <2>1, <2>4, <2>5 DEF Linux!Priv
    <2>7. QED
      BY <2>3, <2>6
  <1>3. /\ p.reap_action # "NORMAL" => o = IF q.num_retired # n THEN Linux!Goes(q, 0) ELSE Linux!Ends(q, 0, end)
        /\ p.reap_action = "NORMAL" => o = IF k = n THEN Linux!Ends(q, 0, "COMPLETED") ELSE Linux!Goes(q, 0)
    BY DEF Linux!HandleIso
  <1> SUFFICES Outcome("iso", c, p, k, o)
    OBVIOUS
  <1> HIDE DEF q, v, o
  <1>4. Retires(p, k, q)
    BY <1>2 DEF Retires, v
  <1>5. /\ v # <<>> /\ q.num_retired = Cardinality(Retired(q))
        /\ Left(q) = {} <=> q.num_retired = n
        /\ Orderly(p) => /\ Orderly(q)
                         /\ k = n => Left(q) = {}
                         /\ k # n => Left(q) # {}
    <2>1. v # <<>>
      BY <1>1 DEF v
    <2>2. QED
      BY <1>4, <2>1, RetireRight
  <1>6. p.reap_action = "NORMAL" => Orderly(p)
    BY DEF UrbsRight
  <1>7. ASSUME Left(q) = {}, NEW e, e # "none", o = Linux!Ends(q, 0, e)
        PROVE  Outcome("iso", c, p, k, o)
    <2>1. Over("iso", c, q, 0, e, o)
      BY <1>2, <1>7, EndsRight DEF Clean
    <2>2. QED
      BY <1>7, <2>1 DEF Over, Outcome
  <1>8. ASSUME Left(q) # {}, o = Linux!Goes(q, 0)
        PROVE  Outcome("iso", c, p, k, o)
    <2>1. \E m \in DOMAIN q.urbs : q.urbs[m].st \in {"sent", "cut", "done"}
      BY <1>8 DEF Left
    <2>2. UrbsRight("iso", c, q) /\ q.urbs # <<>>
      BY <1>2, <1>5, <1>6, <2>1 DEF UrbsRight
    <2>3. QED
      BY <1>8, <2>2 DEF Linux!Goes, Outcome, Clean
  <1>9. CASE p.reap_action # "NORMAL"
    <2>1. CASE q.num_retired # n
      BY <1>3, <1>5, <1>8, <1>9, <2>1
    <2>2. CASE q.num_retired = n
      <3>1. o = Linux!Ends(q, 0, "CANCELLED") \/ o = Linux!Ends(q, 0, "ERROR")
        BY <1>3, <1>9, <2>2
      <3>2. Left(q) = {}
        BY <1>5, <2>2
      <3>3. QED
        BY <1>7, <3>1, <3>2
    <2>3. QED
      BY <2>1, <2>2
  <1>10. CASE p.reap_action = "NORMAL"
    <2>1. CASE k = n
      <3>1. o = Linux!Ends(q, 0, "COMPLETED") /\ Left(q) = {}
        BY <1>3, <1>5, <1>6, <1>10, <2>1
      <3>2. QED
        BY <1>7, <3>1
    <2>2. CASE k # n
      BY <1>3, <1>5, <1>6, <1>8, <1>10, <2>2
    <2>3. QED
      BY <2>1, <2>2
  <1>11. QED
    BY <1>9, <1>10

\* handle_control_completion: its one URB ends the transfer.
LEMMA HandleControlRight ==
  ASSUME NEW c \in BOOLEAN, NEW p, UrbsRight("control", c, p), NEW k \in Linux!Reapable(p)
  PROVE  Outcome("control", c, p, k, Linux!HandleControl(p, k))
  <1> DEFINE u == p.urbs[k]
             n == Len(p.urbs)
             v == [p.urbs EXCEPT ![k].st = "back"]
             q == [p EXCEPT !.urbs[k].st = "back"]
             add == IF u.code = "OK" THEN u.len ELSE 0
             end == CASE p.reap_action = "CANCELLED" -> "CANCELLED"
                      [] u.code = "OK" -> "COMPLETED"
                      [] u.code = "EPIPE" -> "STALL"
                      [] OTHER -> "ERROR"
             o == Linux!HandleControl(p, k)
  <1>1. /\ p \in Linux!Priv /\ n \in Nat /\ DOMAIN p.urbs = 1 .. n /\ k \in 1 .. n /\ n <= 1
        /\ u \in Linux!Urb /\ u.len \in Nat /\ p.urbs \in Seq(Linux!Urb)
    BY PrivParts DEF UrbsRight, Linux!Reapable, Linux!Urb, Linux!Priv, Linux!Full
  <1>2. q \in Linux!Priv /\ q.urbs = v
    <2>1. v \in Seq(Linux!Urb)
      BY <1>1 DEF Linux!Urb
    <2>2. q = [p EXCEPT !.urbs = v]
      OBVIOUS
    <2>3. p \in Linux!Priv
      BY <1>1
    <2> HIDE DEF v, q
    <2>4. QED
      BY <2>1, <2>2, <2>3 DEF Linux!Priv
  <1>3. o = Linux!Ends(q, add, end)
    BY DEF Linux!HandleControl
  <1> SUFFICES Outcome("control", c, p, k, o)
    OBVIOUS
  <1>4. add \in Nat
    BY <1>1
  <1>5. end \in {"CANCELLED", "COMPLETED", "STALL", "ERROR"}
    OBVIOUS
  <1>6. DOMAIN v = {1} /\ v[1].st = "back"
    BY <1>1 DEF Linux!Urb
  <1> HIDE DEF q, v, o, add, end
  <1>7. Left(q) = {}
    BY <1>2, <1>6 DEF Left
  <1>8. PICK e : e = end /\ e # "none"
    BY <1>5
  <1>9. Over("control", c, q, add, e, Linux!Ends(q, add, e))
    BY <1>2, <1>4, <1>7, <1>8, EndsRight DEF Clean
  <1>10. QED
    BY <1>3, <1>4, <1>8, <1>9 DEF Over, Outcome

\* What handling an URB leads to on Linux
LEMMA HandleRight ==
  ASSUME NEW type \in {"control", "bulk", "iso"}, NEW c \in BOOLEAN, NEW p, UrbsRight(type, c, p),
         NEW k \in Linux!Reapable(p)
  PROVE  Outcome(type, c, p, k, Linux!Handle(type, p, k, c))
  <1>1. CASE type = "control"
    BY <1>1, HandleControlRight DEF Linux!Handle
  <1>2. CASE type = "bulk"
    BY <1>2, HandleBulkRight DEF Linux!Handle
  <1>3. CASE type = "iso"
    BY <1>3, HandleIsoRight DEF Linux!Handle
  <1>4. QED
    BY <1>1, <1>2, <1>3

-----------------------------------------------------------------------------
\* What a setup is
LEMMA SetupParts ==
  ASSUME TypeOK
  PROVE  /\ backend \in {"linux", "darwin", "windows"} /\ newKernel \in BOOLEAN
         /\ Type \in [Transfers -> {"control", "bulk", "iso", "unused"}]
         /\ priv \in [Transfers -> PrivOf]
  <1>1. /\ backend \in {"linux", "darwin", "windows"} /\ newKernel \in BOOLEAN
        /\ Type \in [Transfers -> {"control", "bulk", "iso", "unused"}]
    BY TransferAssumption DEF TypeOK, backend, newKernel, Type
  <1>2. priv \in [Transfers -> PrivOf]
    BY DEF TypeOK, PrivOf
  <1>3. QED
    BY <1>1, <1>2

\* The facts about the backends that the steps rest on: a transfer begins idle;
LEMMA NoPrivSound ==
  ASSUME TypeOK, NEW t \in Transfers
  PROVE  Sound(t, NoPriv(backend)) /\ Idles(NoPriv(backend))
  <1>1. /\ Linux!NoPriv \in Linux!Priv /\ Linux!NoPriv.urbs = <<>> /\ Linux!NoPriv.num_retired = 0
    BY DEF Linux!NoPriv, Linux!Priv
  <1>2. Darwin!NoPriv \in Darwin!Priv /\ Darwin!NoPriv.st = "idle"
    BY DEF Darwin!NoPriv, Darwin!Priv
  <1>3. Windows!NoPriv \in Windows!Priv /\ Windows!NoPriv.st = "idle"
    BY DEF Windows!NoPriv, Windows!Priv
  <1>4. CASE backend = "linux"
    BY <1>1, <1>4, NoUrbsRight DEF Sound, Idles, PrivOf, NoPriv
  <1>5. CASE backend = "darwin"
    BY <1>2, <1>5 DEF Sound, Idles, PrivOf, NoPriv
  <1>6. CASE backend = "windows"
    BY <1>3, <1>6 DEF Sound, Idles, PrivOf, NoPriv
  <1>7. QED
    BY <1>4, <1>5, <1>6, SetupParts

\* what the backend accepts is not idle, and what it refuses is;
LEMMA SubmitsSound ==
  ASSUME TypeOK, PrivInv, NEW t \in Transfers, Type[t] # "unused", backend = "linux" => Idle(t),
         NEW o \in Submits(t)
  PROVE  Sound(t, o.p) /\ (o.r = "SUCCESS" <=> ~Idles(o.p))
  <1>1. Type[t] \in {"control", "bulk", "iso"} /\ newKernel \in BOOLEAN /\ priv[t] \in PrivOf
    BY SetupParts
  <1>2. CASE backend = "linux"
    <2>1. o \in Linux!Submits(Type[t], priv[t], newKernel)
      BY <1>2 DEF Submits
    <2>2. priv[t] \in Linux!Priv /\ priv[t].urbs = <<>>
      BY <1>1, <1>2 DEF PrivOf, Idle, Idles
    <2>3. Answer(Type[t], newKernel, o)
      BY <1>1, <2>1, <2>2, SubmitsRight
    <2>4. Linux!NoPriv.urbs = <<>>
      BY DEF Linux!NoPriv
    <2>5. QED
      BY <1>2, <2>3, <2>4 DEF Answer, Sound, Idles, PrivOf, UrbsRight
  <1>3. CASE backend = "darwin"
    <2>1. o \in Darwin!Submits(Type[t])
      BY <1>3 DEF Submits
    <2>2. o.p \in Darwin!Priv /\ (o.r = "SUCCESS" <=> o.p.st # "idle")
      BY <2>1 DEF Darwin!Submits, Darwin!NoPriv, Darwin!Priv
    <2>3. QED
      BY <1>3, <2>2 DEF Sound, Idles, PrivOf
  <1>4. CASE backend = "windows"
    <2>1. o \in Windows!Submits(Type[t])
      BY <1>4 DEF Submits
    <2> DEFINE refused == [r : {"NOT_FOUND", "NO_MEM", "IO", "INVALID_PARAM", "NOT_SUPPORTED"}, p : {Windows!NoPriv}]
               all == CASE Type[t] = "control" -> Windows!SubmitControl [] Type[t] = "bulk" -> Windows!SubmitBulk
                        [] Type[t] = "iso" -> Windows!SubmitIso
    <2>2. PICK a \in all : o = IF a.r = "SUCCESS" THEN [a EXCEPT !.p.polled = TRUE] ELSE a
      BY <2>1 DEF Windows!Submits
    <2>3. \/ a \in [r : {"SUCCESS"}, p : Windows!Accepted]
          \/ a \in refused
      <3>1. CASE Type[t] = "control"
        BY <3>1 DEF Windows!SubmitControl
      <3>2. CASE Type[t] = "bulk"
        BY <3>2 DEF Windows!SubmitBulk
      <3>3. CASE Type[t] = "iso"
        BY <3>3 DEF Windows!SubmitIso
      <3>4. QED
        BY <1>1, <3>1, <3>2, <3>3
    <2> HIDE DEF all
    <2>4. CASE a.r = "SUCCESS"
      <3>1. a.p \in Windows!Priv /\ a.p.st # "idle"
        <4>1. a.p \in Windows!Accepted
          BY <2>3, <2>4
        <4>2. Windows!NoPriv \in Windows!Priv
          BY DEF Windows!NoPriv, Windows!Priv
        <4>3. \/ a.p = [Windows!NoPriv EXCEPT !.st = "pending"]
              \/ a.p = [Windows!NoPriv EXCEPT !.st = "ready", !.io_size = 2]
          BY <4>1 DEF Windows!Accepted
        <4>4. PICK p : p = a.p
          OBVIOUS
        <4>5. p \in Windows!Priv /\ p.st # "idle"
          <5>1. CASE p = [Windows!NoPriv EXCEPT !.st = "pending"]
            BY <4>2, <5>1 DEF Windows!Priv
          <5>2. CASE p = [Windows!NoPriv EXCEPT !.st = "ready", !.io_size = 2]
            <6>1. PICK r : r = [Windows!NoPriv EXCEPT !.st = "ready"]
              OBVIOUS
            <6>2. r \in Windows!Priv /\ r.st = "ready"
              BY <4>2, <6>1 DEF Windows!Priv
            <6>3. p = [r EXCEPT !.io_size = 2]
              BY <5>2, <6>1
            <6>4. QED
              BY <6>2, <6>3 DEF Windows!Priv
          <5>3. QED
            BY <4>3, <4>4, <5>1, <5>2
        <4>6. QED
          BY <4>4, <4>5
      <3>2. o.r = "SUCCESS" /\ o.p = [a.p EXCEPT !.polled = TRUE]
        BY <2>2, <2>3, <2>4
      <3>3. o.p \in Windows!Priv /\ o.p.st # "idle"
        BY <3>1, <3>2 DEF Windows!Priv
      <3>4. QED
        BY <1>4, <3>2, <3>3 DEF Sound, Idles, PrivOf
    <2>5. CASE a.r # "SUCCESS"
      <3>1. o = a /\ o.p = Windows!NoPriv
        BY <2>2, <2>3, <2>5
      <3>2. o.p \in Windows!Priv /\ o.p.st = "idle"
        BY <3>1 DEF Windows!NoPriv, Windows!Priv
      <3>3. QED
        BY <1>4, <2>5, <3>1, <3>2 DEF Sound, Idles, PrivOf
    <2>6. QED
      BY <2>4, <2>5
  <1>5. QED
    BY <1>2, <1>3, <1>4, SetupParts

\* cancelling leaves idle what is idle, and what is not;
LEMMA CancelSound ==
  ASSUME TypeOK, PrivInv, NEW t \in Transfers
  PROVE  /\ BackendCancel(t) \in [Transfers -> PrivOf]
         /\ \A u \in Transfers : /\ Sound(u, BackendCancel(t)[u])
                                 /\ Idles(BackendCancel(t)[u]) <=> Idle(u)
                                 /\ Stalls(BackendCancel(t)[u]) <=> Stalls(priv[u])
  <1>1. \A u \in Transfers : Sound(u, priv[u])
    BY DEF PrivInv
  <1>2. priv \in [Transfers -> PrivOf] /\ DOMAIN priv = Transfers
    BY SetupParts
  <1> DEFINE q == BackendCancel(t)
  <1>3. ASSUME NEW u \in Transfers
        PROVE  Sound(u, q[u]) /\ (Idles(q[u]) <=> Idle(u)) /\ (Stalls(q[u]) <=> Stalls(priv[u]))
    <2>1. CASE q[u] = priv[u]
      BY <1>1, <2>1 DEF Idle
    <2>2. CASE backend = "linux" /\ q[u] # priv[u]
      <3>1. u = t /\ q[u] = Linux!Cancel(Type[t], priv[t])
        BY <1>2, <2>2 DEF BackendCancel
      <3>2. UrbsRight(Type[t], newKernel, priv[t])
        BY <1>1, <2>2 DEF Sound
      <3>3. /\ UrbsRight(Type[t], newKernel, q[u]) /\ (q[u].urbs = <<>> <=> priv[t].urbs = <<>>)
            /\ q[u].reap_status = priv[t].reap_status
        BY <3>1, <3>2, CancelRight
      <3> HIDE DEF q
      <3>4. QED
        BY <2>2, <3>1, <3>3 DEF Sound, Idles, Idle, Stalls, PrivOf, UrbsRight
    <2>3. CASE backend = "darwin" /\ q[u] # priv[u]
      <3>1. priv[u].st = "has" /\ q[u] = [priv[u] EXCEPT !.st = "cut"]
        BY <1>2, <2>3 DEF BackendCancel, Darwin!Cancel
      <3>2. priv[u] \in Darwin!Priv
        BY <1>1, <2>3 DEF Sound, PrivOf
      <3> HIDE DEF q
      <3>3. q[u] \in Darwin!Priv /\ q[u].st = "cut"
        BY <3>1, <3>2 DEF Darwin!Priv
      <3>4. QED
        BY <2>3, <3>1, <3>3 DEF Sound, Idles, Idle, Stalls, PrivOf
    <2>4. CASE backend = "windows" /\ q[u] # priv[u]
      <3>1. priv[u].st = "pending" /\ q[u] = [priv[u] EXCEPT !.st = "cut"]
        BY <1>2, <2>4 DEF BackendCancel, Windows!Cancel
      <3>2. priv[u] \in Windows!Priv
        BY <1>1, <2>4 DEF Sound, PrivOf
      <3> HIDE DEF q
      <3>3. q[u] \in Windows!Priv /\ q[u].st = "cut"
        BY <3>1, <3>2 DEF Windows!Priv
      <3>4. QED
        BY <2>4, <3>1, <3>3 DEF Sound, Idles, Idle, Stalls, PrivOf
    <2>5. QED
      BY <2>1, <2>2, <2>3, <2>4, SetupParts
  <1>4. q \in [Transfers -> PrivOf]
    <2>1. q = [u \in Transfers |-> q[u]]
      <3>1. CASE backend = "linux"
        BY <1>2, <3>1 DEF BackendCancel
      <3>2. CASE backend = "darwin"
        BY <1>2, <3>2 DEF BackendCancel, Darwin!Cancel
      <3>3. CASE backend = "windows"
        BY <1>2, <3>3 DEF BackendCancel, Windows!Cancel
      <3>4. QED
        BY <3>1, <3>2, <3>3, SetupParts
    <2>2. \A u \in Transfers : q[u] \in PrivOf
      BY <1>3 DEF Sound
    <2> HIDE DEF q
    <2>3. QED
      BY <2>1, <2>2
  <1>5. QED
    BY <1>3, <1>4

\* what the operating system ends was not idle, and is not yet;
LEMMA ServeSound ==
  ASSUME TypeOK, PrivInv, NEW t \in Transfers, NEW p \in Serves(t)
  PROVE  Sound(t, p) /\ ~Idle(t) /\ ~Idles(p) /\ (Stalls(p) <=> Stalls(priv[t]))
  <1>1. Sound(t, priv[t]) /\ newKernel \in BOOLEAN
    BY SetupParts DEF PrivInv
  <1>2. CASE backend = "linux"
    <2>1. UrbsRight(Type[t], newKernel, priv[t]) /\ p \in Linux!Serve(Type[t], priv[t], newKernel, OverAnywhere)
      BY <1>1, <1>2 DEF Sound, Serves
    <2>2. UrbsRight(Type[t], newKernel, p) /\ priv[t].urbs # <<>> /\ p.urbs # <<>> /\ p.reap_status = priv[t].reap_status
      BY <1>1, <2>1, ServeRight
    <2>3. QED
      BY <1>2, <2>2 DEF Sound, Idle, Idles, Stalls, PrivOf, UrbsRight
  <1>3. CASE backend = "darwin"
    <2>1. p \in Darwin!Serve(Type[t], priv[t])
      BY <1>3 DEF Serves
    <2>2. priv[t].st \in {"has", "cut"} /\ p \in Darwin!Priv /\ p.st = "told"
      BY <2>1 DEF Darwin!Serve, Darwin!Priv
    <2>3. QED
      BY <1>3, <2>2 DEF Sound, Idle, Idles, Stalls, PrivOf
  <1>4. CASE backend = "windows"
    <2>1. p \in Windows!Serve(priv[t]) /\ priv[t] \in Windows!Priv
      BY <1>1, <1>4 DEF Serves, Sound, PrivOf
    <2>2. /\ priv[t].st \in {"pending", "cut"}
          /\ \E r \in {"NO_ERROR", "GEN_FAILURE", "SEM_TIMEOUT", "OPERATION_ABORTED", "OTHER"}, n \in 0 .. 2 :
               p = [priv[t] EXCEPT !.st = "ready", !.io_result = r, !.io_size = n]
      BY <2>1 DEF Windows!Serve
    <2>3. p \in Windows!Priv /\ p.st = "ready"
      BY <2>1, <2>2 DEF Windows!Priv
    <2>4. QED
      BY <1>4, <2>2, <2>3 DEF Sound, Idle, Idles, Stalls, PrivOf
  <1>5. QED
    BY <1>2, <1>3, <1>4, SetupParts

\* and clearing a transfer makes it idle, but for Darwin.
LEMMA ClearSound ==
  ASSUME TypeOK, PrivInv, NEW t \in Transfers
  PROVE  Sound(t, Clear(t)) /\ (backend # "darwin" => Idles(Clear(t)))
  <1>1. Sound(t, NoPriv(backend)) /\ Idles(NoPriv(backend)) /\ Sound(t, priv[t])
    BY NoPrivSound DEF PrivInv
  <1>2. CASE backend = "linux"
    BY <1>1, <1>2 DEF Clear, NoPriv
  <1>3. CASE backend = "darwin"
    BY <1>1, <1>3 DEF Clear, Darwin!Clear
  <1>4. CASE backend = "windows"
    BY <1>1, <1>4 DEF Clear, Windows!Clear, NoPriv
  <1>5. QED
    BY <1>2, <1>3, <1>4, SetupParts

\* At most one URB is reaped next.
LEMMA ReapableOne ==
  ASSUME NEW p \in Linux!Priv, NEW k \in Linux!Reapable(p), NEW l \in Linux!Reapable(p)
  PROVE  k = l
  <1>1. /\ k \in 1 .. Len(p.urbs) /\ l \in 1 .. Len(p.urbs) /\ Len(p.urbs) \in Nat
        /\ p.urbs[k].st = "done" /\ \A m \in 1 .. k - 1 : p.urbs[m].st # "done"
        /\ p.urbs[l].st = "done" /\ \A m \in 1 .. l - 1 : p.urbs[m].st # "done"
    BY PrivParts DEF Linux!Reapable
  <1>2. QED
    BY <1>1

\* An event ends the transfer, and makes it idle, or leaves it as busy as it
\* was; what it brings is added, unless the transfer stalled.
LEMMA HandledSound ==
  ASSUME TypeOK, PrivInv, NEW t \in Transfers, Type[t] # "unused", NEW o \in Handled(t)
  PROVE  /\ Sound(t, o.p) /\ ~Idle(t) /\ Clean(o.left) /\ o.add \in Nat
         /\ o.end = "none" <=> ~Idles(o.p)
         /\ backend = "linux" => \E k \in Linux!Reapable(priv[t]) :
              Type[t] = "bulk" => /\ o.add = priv[t].urbs[k].len \/ Stalls(o.p)
                                  /\ Stalls(priv[t]) => Stalls(o.p)
  <1>1. Sound(t, priv[t]) /\ newKernel \in BOOLEAN /\ Type[t] \in {"control", "bulk", "iso"}
    BY SetupParts DEF PrivInv
  <1>2. CASE backend = "linux"
    <2>1. PICK k \in Linux!Reapable(priv[t]) : o = Linux!Handle(Type[t], priv[t], k, newKernel)
      BY <1>2 DEF Handled
    <2>2. UrbsRight(Type[t], newKernel, priv[t])
      BY <1>1, <1>2 DEF Sound
    <2>3. Outcome(Type[t], newKernel, priv[t], k, o)
      BY <1>1, <2>1, <2>2, HandleRight
    <2>4. priv[t].urbs # <<>>
      BY <2>1, <2>2, PrivParts DEF Linux!Reapable, UrbsRight
    <2>5. Sound(t, o.p) /\ ~Idle(t)
      BY <1>2, <2>3, <2>4 DEF Outcome, Sound, UrbsRight, PrivOf, Idle, Idles
    <2>6. QED
      BY <1>2, <2>3, <2>5 DEF Outcome, Idles, Stalls
  <1>3. CASE backend = "darwin"
    <2>1. priv[t] \in Darwin!Priv /\ priv[t].st = "told" /\ o = Darwin!Handle(Type[t], priv[t], timed_out[t])
      BY <1>1, <1>3 DEF Handled, Sound, PrivOf
    <2>2. /\ o.p = Darwin!NoPriv /\ o.left = {} /\ o.end = Darwin!Status(priv[t], timed_out[t])
          /\ o.add \in {0, priv[t].io_size}
      BY <2>1 DEF Darwin!Handle
    <2>3. Darwin!Status(priv[t], timed_out[t]) # "none"
      BY <2>1 DEF Darwin!Status, Darwin!Priv
    <2>4. Darwin!NoPriv \in Darwin!Priv /\ Darwin!NoPriv.st = "idle"
      BY DEF Darwin!NoPriv, Darwin!Priv
    <2>5. o.add \in Nat
      BY <2>1, <2>2 DEF Darwin!Priv
    <2>6. QED
      BY <1>3, <2>1, <2>2, <2>3, <2>4, <2>5 DEF Sound, PrivOf, Idle, Idles, Clean
  <1>4. CASE backend = "windows"
    <2>1. priv[t] \in Windows!Priv /\ priv[t].st = "ready" /\ o = Windows!Handle(priv[t], timed_out[t])
      BY <1>1, <1>4 DEF Handled, Sound, PrivOf
    <2>2. o.p = Windows!NoPriv /\ o.left = {} /\ o.add \in {0, priv[t].io_size} /\ o.end # "none"
      BY <2>1 DEF Windows!Handle
    <2>3. Windows!NoPriv \in Windows!Priv /\ Windows!NoPriv.st = "idle"
      BY DEF Windows!NoPriv, Windows!Priv
    <2>4. o.add \in Nat
      BY <2>1, <2>2 DEF Windows!Priv
    <2>5. QED
      BY <1>4, <2>1, <2>2, <2>3, <2>4 DEF Sound, PrivOf, Idle, Idles, Clean
  <1>5. QED
    BY <1>2, <1>3, <1>4, SetupParts

-----------------------------------------------------------------------------
InList(u, q) == \E k \in DOMAIN q : q[k] = u

\* Adding a transfer to the list keeps it in order, and all that was there.
LEMMA AddedRight ==
  ASSUME TypeOK, OrderInv, NEW t \in Transfers, ~Listed(t)
  PROVE  /\ Added(t).list \in Seq(Transfers) /\ Ordered(Added(t).list)
         /\ \A u : InList(u, Added(t).list) <=> Listed(u) \/ u = t
  <1> DEFINE n == Len(flying)
             later(k) == Later(flying[k], t)
             due == {k \in DOMAIN flying : later(k)}
             at == IF IsSet(t) /\ \E k \in DOMAIN flying : later(k)
                   THEN CHOOSE k \in DOMAIN flying : later(k) /\ \A m \in 1 .. k - 1 : ~later(m)
                   ELSE Len(flying) + 1
             q == InsertAt(flying, at, t)
  <1>1. /\ flying \in Seq(Transfers) /\ n \in Nat /\ DOMAIN flying = 1 .. n
        /\ \A k \in 1 .. n : flying[k] \in Transfers
        /\ timeout \in [Transfers -> Nat \cup {Unset}]
    BY DEF TypeOK
  <1>2. /\ at \in 1 .. n + 1
        /\ IsSet(t) => /\ \A k \in 1 .. at - 1 : ~later(k)
                       /\ at <= n => later(at)
        /\ ~IsSet(t) => at = n + 1
    <2>1. CASE ~IsSet(t)
      BY <1>1, <2>1
    <2>2. CASE IsSet(t) /\ ~(\E k \in DOMAIN flying : later(k))
      BY <1>1, <2>2
    <2>3. CASE IsSet(t) /\ \E k \in DOMAIN flying : later(k)
      <3>1. due \subseteq Nat /\ due # {}
        BY <1>1, <2>3
      <3>2. PICK k \in due : \A m \in due : k <= m
        BY <3>1, Least
      <3>3. k \in DOMAIN flying /\ later(k) /\ \A m \in 1 .. k - 1 : ~later(m)
        BY <1>1, <3>2
      <3>4. at \in DOMAIN flying /\ later(at) /\ \A m \in 1 .. at - 1 : ~later(m)
        BY <2>3, <3>3
      <3>5. QED
        BY <1>1, <3>4
    <2>4. QED
      BY <2>1, <2>2, <2>3
  <1>3. Added(t).list = q
    BY DEF Added
  <1> HIDE DEF at
  <1>4. /\ q \in Seq(Transfers) /\ Len(q) = n + 1 /\ DOMAIN q = 1 .. n + 1
        /\ \A k \in 1 .. n + 1 : q[k] = IF k < at THEN flying[k] ELSE IF k = at THEN t ELSE flying[k - 1]
    <2>1. at \in 1 .. Len(flying) + 1
      BY <1>2
    <2>2. flying \in Seq(Transfers)
      BY <1>1
    <2>3. /\ q \in Seq(Transfers) /\ Len(q) = n + 1
          /\ \A k \in 1 .. n + 1 : q[k] = IF k < at THEN flying[k] ELSE IF k = at THEN t ELSE flying[k - 1]
      BY <2>1, <2>2, InsertPlaces
    <2> HIDE DEF q
    <2>4. QED
      BY <1>1, <2>3
  <1> HIDE DEF q
  <1>5. ASSUME NEW i \in 1 .. n + 1, NEW j \in 1 .. n + 1, i < j
        PROVE  q[i] # q[j] /\ (IsSet(q[j]) => IsSet(q[i]) /\ timeout[q[i]] <= timeout[q[j]])
    <2> DEFINE From(k) == IF k < at THEN k ELSE k - 1
    <2>1. CASE i # at /\ j # at
      <3>1. From(i) \in 1 .. n /\ From(j) \in 1 .. n /\ From(i) < From(j)
        BY <1>1, <1>2, <1>5, <2>1
      <3>2. q[i] = flying[From(i)] /\ q[j] = flying[From(j)]
        BY <1>2, <1>4, <2>1
      <3> HIDE DEF From
      <3>3. QED
        BY <1>1, <3>1, <3>2 DEF OrderInv, Ordered
    <2>2. CASE j = at
      <3>1. q[j] = t /\ q[i] = flying[i] /\ i \in 1 .. n /\ i \in 1 .. at - 1
        BY <1>1, <1>2, <1>4, <1>5, <2>2
      <3>2. q[i] # t
        BY <1>1, <3>1 DEF Listed
      <3>3. IsSet(t) => IsSet(flying[i]) /\ timeout[flying[i]] <= timeout[t]
        BY <1>1, <1>2, <3>1 DEF Later, IsSet, Unset
      <3>4. QED
        BY <3>1, <3>2, <3>3
    <2>3. CASE i = at
      <3>1. q[i] = t /\ q[j] = flying[j - 1] /\ j - 1 \in 1 .. n /\ at \in 1 .. n /\ at <= j - 1
        <4>1. j - 1 \in 1 .. n /\ at \in 1 .. n /\ at <= j - 1 /\ ~(j < at) /\ j # at /\ ~(i < at)
          BY <1>1, <1>2, <1>5, <2>3
        <4>2. q[j] = flying[j - 1]
          BY <1>4, <4>1
        <4>3. q[i] = t
          BY <1>4, <2>3, <4>1
        <4>4. QED
          BY <4>1, <4>2, <4>3
      <3>2. q[j] # t
        BY <1>1, <3>1 DEF Listed
      <3>3. IsSet(t) /\ later(at)
        BY <1>1, <1>2, <3>1
      <3>4. at = j - 1 \/ at < j - 1
        BY <1>1, <3>1
      <3>5. IsSet(flying[j - 1]) => IsSet(flying[at]) /\ timeout[flying[at]] <= timeout[flying[j - 1]]
        <4>1. CASE at = j - 1
          BY <1>1, <3>1, <4>1 DEF IsSet, Unset
        <4>2. CASE at < j - 1
          BY <1>1, <3>1, <4>2 DEF OrderInv, Ordered
        <4>3. QED
          BY <3>4, <4>1, <4>2
      <3>6. IsSet(flying[at]) => timeout[flying[at]] > timeout[t]
        BY <3>3 DEF Later
      <3>7. timeout[flying[at]] \in Int /\ timeout[flying[j - 1]] \in Int /\ timeout[t] \in Int
        BY <1>1, <3>1 DEF Unset
      <3>8. IsSet(flying[j - 1]) => timeout[t] <= timeout[flying[j - 1]]
        BY <3>5, <3>6, <3>7
      <3>9. QED
        BY <3>1, <3>2, <3>3, <3>8
    <2>4. QED
      BY <2>1, <2>2, <2>3
  <1>6. ASSUME NEW u
        PROVE  InList(u, q) <=> Listed(u) \/ u = t
    <2>1. ASSUME NEW k \in 1 .. n PROVE InList(flying[k], q)
      <3>1. CASE k < at
        BY <1>1, <1>4, <3>1 DEF InList
      <3>2. CASE ~(k < at)
        <4>1. k + 1 \in 1 .. n + 1 /\ q[k + 1] = flying[k]
          BY <1>1, <1>2, <1>4, <3>2
        <4>2. QED
          BY <1>4, <4>1 DEF InList
      <3>3. QED
        BY <3>1, <3>2
    <2>2. InList(t, q)
      BY <1>1, <1>2, <1>4 DEF InList
    <2>3. ASSUME NEW k \in 1 .. n + 1 PROVE q[k] = t \/ \E m \in 1 .. n : flying[m] = q[k]
      <3>1. CASE k < at
        BY <1>1, <1>2, <1>4, <3>1
      <3>2. CASE k = at
        BY <1>1, <1>2, <1>4, <3>2
      <3>3. CASE k > at
        <4>1. k - 1 \in 1 .. n /\ q[k] = flying[k - 1]
          BY <1>1, <1>2, <1>4, <3>3
        <4>2. QED
          BY <4>1
      <3>4. QED
        BY <1>1, <1>2, <3>1, <3>2, <3>3
    <2>4. QED
      BY <1>1, <1>4, <2>1, <2>2, <2>3 DEF InList, Listed
  <1>7. QED
    BY <1>3, <1>4, <1>5, <1>6 DEF Ordered

\* Taking a transfer from the list leaves the others as they were.
LEMMA WithoutRight ==
  ASSUME TypeOK, OrderInv, NEW t \in Transfers, Listed(t)
  PROVE  /\ Without(t) \in Seq(Transfers) /\ Ordered(Without(t))
         /\ \A u : InList(u, Without(t)) <=> Listed(u) /\ u # t
  <1> DEFINE n == Len(flying)
             at == Place(t)
             q == Without(t)
  <1>1. /\ flying \in Seq(Transfers) /\ n \in Nat /\ DOMAIN flying = 1 .. n
    BY DEF TypeOK
  <1>2. at \in 1 .. n /\ flying[at] = t
    BY <1>1 DEF Place, Listed
  <1>3. q = RemoveAt(flying, at)
    BY DEF Without
  <1> HIDE DEF at, q
  <1>4. /\ q \in Seq(Transfers) /\ Len(q) = n - 1
        /\ \A k \in 1 .. n - 1 : q[k] = IF k < at THEN flying[k] ELSE flying[k + 1]
    <2>1. flying \in Seq(Transfers) /\ at \in DOMAIN flying
      BY <1>1, <1>2
    <2>2. /\ RemoveAt(flying, at) \in Seq(Transfers) /\ Len(RemoveAt(flying, at)) = Len(flying) - 1
          /\ \A k \in 1 .. Len(flying) - 1 :
               RemoveAt(flying, at)[k] = IF k < at THEN flying[k] ELSE flying[k + 1]
      BY <2>1, RemovePlaces
    <2>3. QED
      BY <1>3, <2>2
  <1>5. DOMAIN q = 1 .. n - 1
    BY <1>1, <1>4
  <1>6. ASSUME NEW i \in 1 .. n - 1, NEW j \in 1 .. n - 1, i < j
        PROVE  q[i] # q[j] /\ (IsSet(q[j]) => IsSet(q[i]) /\ timeout[q[i]] <= timeout[q[j]])
    <2> DEFINE From(k) == IF k < at THEN k ELSE k + 1
    <2>1. From(i) \in 1 .. n /\ From(j) \in 1 .. n /\ From(i) < From(j)
      BY <1>1, <1>2, <1>6
    <2>2. q[i] = flying[From(i)] /\ q[j] = flying[From(j)]
      BY <1>4
    <2> HIDE DEF From
    <2>3. QED
      BY <1>1, <2>1, <2>2 DEF OrderInv, Ordered
  <1>7. \A k \in 1 .. n : k # at => flying[k] # t
    <2>1. \A k \in 1 .. n : k < at \/ k = at \/ at < k
      BY <1>1, <1>2
    <2>2. QED
      BY <1>1, <1>2, <2>1 DEF OrderInv, Ordered
  <1>8. ASSUME NEW k \in 1 .. n, k # at PROVE InList(flying[k], q)
    <2>1. CASE k < at
      <3>1. k \in 1 .. n - 1 /\ q[k] = flying[k]
        BY <1>1, <1>2, <1>4, <2>1
      <3>2. QED
        BY <1>5, <3>1 DEF InList
    <2>2. CASE ~(k < at)
      <3>1. k - 1 \in 1 .. n - 1 /\ q[k - 1] = flying[k]
        BY <1>1, <1>2, <1>4, <1>8, <2>2
      <3>2. QED
        BY <1>5, <3>1 DEF InList
    <2>3. QED
      BY <2>1, <2>2
  <1>9. ASSUME NEW k \in 1 .. n - 1 PROVE \E m \in 1 .. n : m # at /\ flying[m] = q[k]
    BY <1>1, <1>2, <1>4
  <1>10. \A u : InList(u, q) <=> Listed(u) /\ u # t
    BY <1>1, <1>2, <1>5, <1>7, <1>8, <1>9 DEF InList, Listed
  <1>11. QED
    BY <1>4, <1>5, <1>6, <1>10 DEF Ordered, q

\* The timer is armed with a time that is left, or not.
LEMMA ArmedRight ==
  ASSUME TypeOK, NEW q \in Seq(Transfers)
  PROVE  Armed(q) \in Nat \cup {Unset}
  <1> DEFINE rest == {k \in DOMAIN q : ~timed_out[q[k]] \/ ~IsSet(q[k])}
  <1>1. DOMAIN q = 1 .. Len(q) /\ rest \subseteq DOMAIN q /\ rest \subseteq Nat /\ \A k \in DOMAIN q : q[k] \in Transfers
    OBVIOUS
  <1>2. Armed(q) = IF rest = {} THEN Unset ELSE timeout[q[FirstOf(rest)]]
    BY DEF Armed
  <1> HIDE DEF rest
  <1>3. rest # {} => FirstOf(rest) \in rest
    <2>1. SUFFICES ASSUME rest # {} PROVE FirstOf(rest) \in rest
      OBVIOUS
    <2>2. \E m \in rest : \A k \in rest : m <= k
      BY <1>1, <2>1, Least
    <2>3. QED
      BY <2>2 DEF FirstOf
  <1>4. timeout \in [Transfers -> Nat \cup {Unset}]
    BY DEF TypeOK
  <1>5. QED
    BY <1>1, <1>2, <1>3, <1>4

-----------------------------------------------------------------------------
\* A step that keeps the setup keeps what is made of it.
LEMMA Frame ==
  ASSUME setup' = setup
  PROVE  /\ backend' = backend /\ newKernel' = newKernel /\ Type' = Type /\ usingTimerfd' = usingTimerfd
         /\ PrivOf' = PrivOf
         /\ \A p : (Idles(p)' <=> Idles(p)) /\ (Stalls(p)' <=> Stalls(p))
         /\ \A t, p : Sound(t, p)' <=> Sound(t, p)
  <1>1. backend' = backend /\ newKernel' = newKernel /\ Type' = Type /\ usingTimerfd' = usingTimerfd
    BY DEF backend, newKernel, Type, usingTimerfd
  <1>2. PrivOf' = PrivOf
    BY <1>1 DEF PrivOf
  <1>3. \A p : (Idles(p)' <=> Idles(p)) /\ (Stalls(p)' <=> Stalls(p))
    BY <1>1 DEF Idles, Stalls
  <1>4. \A t, p : Sound(t, p)' <=> Sound(t, p)
    BY <1>1, <1>2 DEF Sound
  <1>5. QED
    BY <1>1, <1>2, <1>3, <1>4

\* Who has which transfer, when nobody moves,
LEMMA RolesStay ==
  ASSUME UNCHANGED <<pc, cur>>
  PROVE  \A t : /\ Adding(t)' <=> Adding(t)
                /\ Undoing(t)' <=> Undoing(t)
                /\ Finishing(t)' <=> Finishing(t)
                /\ Finished(t)' <=> Finished(t)
  BY DEF Adding, Undoing, Finishing, Finished, At

\* and when thread h moves to l, with transfer x.
Moves(h, l, x, t) ==
  /\ Adding(t)' <=> (l = "add" /\ x = t) \/ (Adding(t) /\ ~At(h, "add", t))
  /\ Undoing(t)' <=> (l = "undo" /\ x = t) \/ (Undoing(t) /\ ~At(h, "undo", t))
  /\ IF h = Handler
     THEN /\ Finishing(t)' <=> l \in {"complete", "gone"} /\ x = t
          /\ Finished(t)' <=> l \in {"disarm", "callback"} /\ x = t
     ELSE /\ Finishing(t)' <=> Finishing(t)
          /\ Finished(t)' <=> Finished(t)

\* and when one thread moves from one transfer, or place, to another.
LEMMA RolesMove ==
  ASSUME TypeOK, PcInv, NEW h \in Threads, NEW l, NEW x,
         pc' = [pc EXCEPT ![h] = l], cur' = [cur EXCEPT ![h] = x], NEW t \in Transfers
  PROVE  Moves(h, l, x, t)
  <1>1. /\ pc \in [Threads -> {"idle"} \cup Submitting \cup Handling] /\ cur \in [Threads -> Transfers \cup {NoT}]
        /\ \A g \in Threads : pc[g] \in {"add", "undo"} => tlock[cur[g]] = g
    BY DEF PcInv, TypeOK, Submitting
  <1>2. \A g \in Threads : \A m : At(g, m, t)' <=> IF g = h THEN l = m /\ x = t ELSE At(g, m, t)
    BY <1>1 DEF At
  <1>3. \A g, k \in Threads : At(g, "add", t) /\ At(k, "add", t) => g = k
    BY <1>1 DEF At
  <1>4. \A g, k \in Threads : At(g, "undo", t) /\ At(k, "undo", t) => g = k
    BY <1>1 DEF At
  <1>5. Adding(t)' <=> (l = "add" /\ x = t) \/ (Adding(t) /\ ~At(h, "add", t))
    BY <1>2, <1>3 DEF Adding
  <1>6. Undoing(t)' <=> (l = "undo" /\ x = t) \/ (Undoing(t) /\ ~At(h, "undo", t))
    BY <1>2, <1>4 DEF Undoing
  <1>7. Handler \in Threads
    BY DEF Threads
  <1>8. QED
    BY <1>2, <1>5, <1>6, <1>7 DEF Finishing, Finished, Moves

-----------------------------------------------------------------------------
\* A transfer that is submitted is not in the list, and has nobody else.
LEMMA SubmitStep ==
  ASSUME QuietUnplug, IInv, NEW h \in Threads, NEW t \in Transfers, Submit(h, t)
  PROVE  IInv'
  <1> USE DEF IInv
  <1>1. /\ setup' = setup /\ flying' = flying /\ priv' = priv /\ dangling' = dangling
        /\ Type[t] # "unused" /\ tlock[t] = NoT
        /\ tlock' = [tlock EXCEPT ![t] = h] /\ timeout' = [timeout EXCEPT ![t] = CalculateTimeout(t)]
        /\ transferred' = [transferred EXCEPT ![t] = 0] /\ got' = [got EXCEPT ![t] = 0]
        /\ owed' = [owed EXCEPT ![t] = TRUE] /\ status' = status /\ plugged' = plugged /\ watched' = watched
        /\ pc' = [pc EXCEPT ![h] = "add"] /\ cur' = [cur EXCEPT ![h] = t]
    BY DEF Submit, Goto
  <1>2. \/ h \in Apps /\ h # Handler /\ pc[h] = "idle" /\ ~owed[t] /\ (\A o \in Threads : cur[o] # t) /\ (QuietUnplug => plugged)
        \/ h = Handler /\ pc[h] = "callback" /\ cur[h] = t
    BY TransferAssumption DEF Submit
  <1>3. ~Listed(t) /\ ~Adding(t) /\ ~Undoing(t) /\ ~Finishing(t)
    <2>1. OneInv(t)
      BY DEF ListInv
    <2>2. CASE h # Handler
      BY <1>2, <2>1, <2>2 DEF OneInv, Adding, Undoing, Finishing, At
    <2>3. CASE h = Handler
      BY <1>2, <2>1, <2>3 DEF OneInv, Finished, Finishing, At
    <2>4. QED
      BY <2>2, <2>3
  <1>4. ASSUME NEW u \in Transfers
        PROVE  /\ Adding(u)' <=> Adding(u) \/ u = t
               /\ Undoing(u)' <=> Undoing(u)
               /\ Finishing(u)' <=> Finishing(u)
               /\ u # t => (Finished(u)' <=> Finished(u))
               /\ ~Finished(t)'
    <2>1. ~At(h, "add", u) /\ ~At(h, "undo", u) /\ (h = Handler => ~Finishing(u) /\ (u # t => ~Finished(u)))
      BY <1>2 DEF At, Finishing, Finished
    <2>2. h # Handler => ~Finished(t)
      BY <1>2 DEF Finished, At, Threads
    <2>3. Moves(h, "add", t, u) /\ Moves(h, "add", t, t)
      BY <1>1, RolesMove
    <2>4. QED
      BY <2>1, <2>2, <2>3 DEF Moves
  <1>5. Idle(t) \/ (backend = "darwin" /\ ~watched)
    BY <1>3 DEF ListInv, OneInv
  <1>6. TypeOK'
    <2>1. CalculateTimeout(t) \in Nat \cup {Unset}
      BY TransferAssumption DEF TypeOK, CalculateTimeout
    <2>2. asked' \subseteq Transfers /\ timed_out' = [timed_out EXCEPT ![t] = FALSE] /\ flock' = flock /\ expiring' = expiring /\ timer' = timer
      BY DEF Submit, TypeOK
    <2>3. QED
      BY <1>1, <2>1, <2>2, Frame DEF TypeOK
  <1>7. PcInv'
    <2>1. ~plugged => h = Handler
      BY <1>2 DEF PcInv
    <2>2. pc' \in [Threads -> {"idle"} \cup Submitting \cup Handling] /\ \A g \in Apps : pc'[g] \notin Handling
      BY <1>1, TransferAssumption DEF PcInv, Submitting, Handling, Threads
    <2>3. ASSUME NEW g \in Threads, pc'[g] \in Submitting
          PROVE  cur'[g] \in Transfers /\ tlock'[cur'[g]] = g
      <3>1. CASE g = h
        BY <1>1, <3>1 DEF TypeOK
      <3>2. CASE g # h
        <4>1. pc[g] \in Submitting /\ cur'[g] = cur[g]
          <5>1. pc'[g] = pc[g] /\ cur'[g] = cur[g]
            BY <1>1, <3>2 DEF TypeOK, PcInv
          <5>2. QED
            BY <2>3, <5>1
        <4>2. cur[g] \in Transfers /\ tlock[cur[g]] = g /\ g # NoT
          BY <4>1, TransferAssumption DEF PcInv, Submitting, Threads, NoT, Handler
        <4>3. QED
          BY <1>1, <4>1, <4>2 DEF TypeOK
      <3>3. QED
        BY <3>1, <3>2
    <2>4. pc'[Handler] \in {"timeout", "complete", "gone", "disarm", "callback", "called"} => cur'[Handler] \in Transfers
      BY <1>1 DEF PcInv, TypeOK, Threads
    <2>5. ~plugged' => \A g \in Apps : pc'[g] = "idle"
      BY <1>1, <2>1, TransferAssumption DEF PcInv, Threads
    <2>6. (~watched' => ~plugged') /\ (pc'[Handler] \in {"disconnect", "gone"} => ~watched')
      BY <1>1 DEF PcInv, Threads
    <2>7. QED
      BY <2>2, <2>3, <2>4, <2>5, <2>6 DEF PcInv
  <1>8. ListInv'
    <2>1. ASSUME NEW u \in Transfers PROVE OneInv(u)'
      <3>1. OneInv(u) /\ (Listed(u)' <=> Listed(u)) /\ (Idle(u)' <=> Idle(u))
        BY <1>1, Frame DEF ListInv, Listed, Idle
      <3>2. backend' = backend /\ Type' = Type /\ watched' = watched
        BY <1>1, Frame
      <3>3. CASE u = t
        <4>1. owed'[t]
          BY <1>1 DEF TypeOK
        <4>2. QED
          BY <1>1, <1>3, <1>4, <1>5, <3>1, <3>2, <3>3, <4>1 DEF OneInv
      <3>4. CASE u # t
        <4>1. owed'[u] <=> owed[u]
          BY <1>1, <3>4 DEF TypeOK
        <4>2. QED
          BY <1>4, <3>1, <3>2, <3>4, <4>1 DEF OneInv
      <3>5. QED
        BY <3>3, <3>4
    <2>2. QED
      BY <2>1 DEF ListInv
  <1>9. OrderInv'
    <2>1. \A k \in DOMAIN flying : flying[k] # t /\ flying[k] \in Transfers
      BY <1>3 DEF TypeOK, Listed
    <2>2. \A k \in DOMAIN flying : timeout'[flying[k]] = timeout[flying[k]]
      BY <1>1, <2>1 DEF TypeOK
    <2>3. QED
      BY <1>1, <2>2 DEF OrderInv, Ordered, IsSet
  <1>10. PrivInv'
    BY <1>1, Frame DEF PrivInv
  <1>11. DataInv'
    <2>1. ASSUME NEW u \in Transfers, Type'[u] = "bulk", owed'[u] PROVE KeptOf(u)'
      <3>1. CASE u = t
        BY <1>1, <3>1 DEF KeptOf, DataInv, TypeOK
      <3>2. CASE u # t
        BY <1>1, <1>4, <2>1, <3>2, Frame DEF KeptOf, DataInv, TypeOK
      <3>3. QED
        BY <3>1, <3>2
    <2>2. QED
      BY <1>1, <2>1 DEF DataInv
  <1>12. QED
    BY <1>1, <1>6, <1>7, <1>8, <1>9, <1>10, <1>11

\* Where the threads are when one of them has moved
MayMove(h, l, x) ==
  /\ l \in {"idle"} \cup Submitting \cup Handling /\ plugged' = plugged
  /\ h \in Apps => l \notin Handling /\ (~plugged => l = "idle")
  /\ l \in Submitting => x \in Transfers /\ tlock'[x] = h
  /\ \A g \in Threads \ {h} : pc[g] \in Submitting => tlock'[cur[g]] = tlock[cur[g]]
  /\ h = Handler /\ l \in {"timeout", "complete", "gone", "disarm", "callback", "called"} => x \in Transfers
  /\ ~watched' => ~plugged
  /\ IF h = Handler THEN l \in {"disconnect", "gone"} => ~watched' ELSE watched' = watched

\* A thread that moves where its lock allows keeps every thread where it may be.
LEMMA PcMove ==
  ASSUME TypeOK, PcInv, NEW h \in Threads, NEW l, NEW x, MayMove(h, l, x),
         pc' = [pc EXCEPT ![h] = l], cur' = [cur EXCEPT ![h] = x]
  PROVE  PcInv'
  <1>1. /\ pc \in [Threads -> {"idle"} \cup Submitting \cup Handling] /\ cur \in [Threads -> Transfers \cup {NoT}]
        /\ Handler \in Threads /\ Handler \notin Apps /\ l \in {"idle"} \cup Submitting \cup Handling
    BY TransferAssumption DEF PcInv, TypeOK, Threads, MayMove
  <1>2. pc' \in [Threads -> {"idle"} \cup Submitting \cup Handling]
    BY <1>1
  <1>3. \A g \in Threads : pc'[g] = (IF g = h THEN l ELSE pc[g]) /\ cur'[g] = IF g = h THEN x ELSE cur[g]
    BY <1>1
  <1>4. \A g \in Apps : pc'[g] \notin Handling
    BY <1>3 DEF PcInv, Threads, MayMove
  <1>5. ASSUME NEW g \in Threads, pc'[g] \in Submitting
        PROVE  cur'[g] \in Transfers /\ tlock'[cur'[g]] = g
    <2>1. CASE g = h
      BY <1>3, <1>5, <2>1 DEF MayMove
    <2>2. CASE g # h
      <3>1. pc[g] \in Submitting /\ cur'[g] = cur[g]
        BY <1>3, <1>5, <2>2
      <3>2. cur[g] \in Transfers /\ tlock[cur[g]] = g
        BY <3>1 DEF PcInv
      <3>3. QED
        BY <2>2, <3>1, <3>2 DEF MayMove
    <2>3. QED
      BY <2>1, <2>2
  <1>6. pc'[Handler] \in {"timeout", "complete", "gone", "disarm", "callback", "called"} => cur'[Handler] \in Transfers
    BY <1>1, <1>3 DEF PcInv, MayMove
  <1>7. ~plugged' => \A g \in Apps : pc'[g] = "idle"
    BY <1>3 DEF PcInv, Threads, MayMove
  <1>8. ~watched' => ~plugged'
    BY DEF MayMove
  <1>9. pc'[Handler] \in {"disconnect", "gone"} => ~watched'
    BY <1>1, <1>3 DEF PcInv, MayMove
  <1>10. QED
    BY <1>2, <1>4, <1>5, <1>6, <1>7, <1>8, <1>9 DEF PcInv

\* A step that leaves the list, and who has what, as it was
SameRoles(t) ==
  /\ Adding(t)' <=> Adding(t)
  /\ Undoing(t)' <=> Undoing(t)
  /\ Finishing(t)' <=> Finishing(t)
  /\ Finished(t)' <=> Finished(t)

\* A step that changes no list and no record, and leaves each transfer as busy as
\* it was, keeps the invariant;
LEMMA QuietStep ==
  ASSUME IInv, setup' = setup, flying' = flying, owed' = owed, got' = got, transferred' = transferred,
         status' = status, watched' => watched, \A t \in Transfers : SameRoles(t),
         \A t \in Transfers : /\ Sound(t, priv'[t])
                              /\ Idles(priv'[t]) <=> Idle(t)
                              /\ Stalls(priv'[t]) <=> Stalls(priv[t])
  PROVE  ListInv' /\ PrivInv' /\ DataInv' /\ (timeout' = timeout => OrderInv')
  <1> USE DEF IInv
  <1>1. ASSUME NEW t \in Transfers PROVE OneInv(t)'
    <2>1. OneInv(t) /\ SameRoles(t) /\ (Listed(t)' <=> Listed(t)) /\ (Idle(t)' <=> Idle(t))
      BY Frame DEF ListInv, Listed, Idle
    <2>2. backend' = backend /\ Type' = Type
      BY Frame
    <2>3. QED
      BY <2>1, <2>2 DEF OneInv, SameRoles
  <1>2. PrivInv'
    BY Frame DEF PrivInv
  <1>3. ASSUME NEW t \in Transfers, Type'[t] = "bulk", owed'[t] PROVE KeptOf(t)'
    <2>1. KeptOf(t) /\ SameRoles(t)
      BY <1>3, Frame DEF DataInv
    <2>2. Stalls(priv[t])' <=> Stalls(priv[t])
      BY Frame DEF Stalls
    <2>3. QED
      BY <2>1, <2>2 DEF KeptOf, SameRoles
  <1>4. timeout' = timeout => OrderInv'
    BY DEF OrderInv, Ordered, IsSet
  <1>5. QED
    BY <1>1, <1>2, <1>3, <1>4 DEF ListInv, DataInv

\* a step that changes nothing the backend keeps is such a step,
LEMMA QuietPriv ==
  ASSUME IInv, priv' = priv
  PROVE  \A t \in Transfers : /\ Sound(t, priv'[t])
                              /\ Idles(priv'[t]) <=> Idle(t)
                              /\ Stalls(priv'[t]) <=> Stalls(priv[t])
  BY DEF IInv, PrivInv, Idle

\* What begins or ends neither adding, undoing nor completing
Elsewhere == {"idle", "submitted", "called", "expire", "timeouts", "timeout", "disconnect"}

\* and so is a move that changes who has which transfer in no way.
LEMMA QuietRoles ==
  ASSUME TypeOK, PcInv, NEW h \in Threads, NEW l \in Elsewhere, NEW x, pc[h] \in Elsewhere,
         pc' = [pc EXCEPT ![h] = l], cur' = [cur EXCEPT ![h] = x]
  PROVE  \A t \in Transfers : SameRoles(t)
  <1> TAKE t \in Transfers
  <1>1. Moves(h, l, x, t)
    BY RolesMove
  <1>2. ~At(h, "add", t) /\ ~At(h, "undo", t) /\ (h = Handler => ~Finishing(t) /\ ~Finished(t))
    BY DEF At, Finishing, Finished, Elsewhere
  <1>3. QED
    BY <1>1, <1>2 DEF Moves, SameRoles, Elsewhere

\* Where the one thread holds a lock, no other does.
LEMMA OthersLocks ==
  ASSUME TypeOK, PcInv, NEW h \in Threads, pc[h] \in Submitting, tlock' = [tlock EXCEPT ![cur[h]] = NoT]
  PROVE  \A g \in Threads \ {h} : pc[g] \in Submitting => tlock'[cur[g]] = tlock[cur[g]]
  BY DEF TypeOK, PcInv

\* libusb_submit_transfer returns.
LEMMA SubmittedStep ==
  ASSUME IInv, NEW h \in Threads, Submitted(h)
  PROVE  IInv'
  <1> USE DEF IInv
  <1> DEFINE l == IF h = Handler THEN "called" ELSE "idle"
             x == IF h = Handler THEN cur[h] ELSE NoT
  <1>1. /\ pc[h] = "submitted" /\ pc' = [pc EXCEPT ![h] = l] /\ tlock' = [tlock EXCEPT ![cur[h]] = NoT]
        /\ timer' = IF first[h] /\ usingTimerfd THEN timeout[cur[h]] ELSE timer
        /\ status' = status /\ UNCHANGED <<setup, expiring, flock, plugged, watched, xferVars, histVars>>
    BY DEF Submitted, Answered, Goto
  <1>2. cur' = [cur EXCEPT ![h] = x]
    BY DEF Submitted, Answered, TypeOK
  <1>3. cur[h] \in Transfers
    BY <1>1 DEF PcInv, Submitting
  <1>4. /\ l \in {"idle", "submitted", "called", "expire", "timeouts", "timeout", "disconnect"}
        /\ h = Handler => l = "called" /\ x \in Transfers
        /\ h # Handler => l = "idle"
    BY <1>3
  <1> HIDE DEF l, x
  <1>5. TypeOK'
    BY <1>1, <1>2, <1>3, <1>4, Frame DEF TypeOK, xferVars, histVars, x
  <1>6. PcInv'
    <2>1. \A g \in Threads \ {h} : pc[g] \in Submitting => tlock'[cur[g]] = tlock[cur[g]]
      BY <1>1, OthersLocks DEF Submitting
    <2>2. l \in {"idle"} \cup Submitting \cup Handling /\ l \notin Submitting
      BY <1>4 DEF Submitting, Handling
    <2>3. h \in Apps => l \notin Handling /\ (~plugged => l = "idle")
      BY <1>4, TransferAssumption DEF Handling
    <2>4. ~watched' => ~plugged
      BY <1>1 DEF PcInv
    <2>5. IF h = Handler THEN l \in {"disconnect", "gone"} => ~watched' ELSE watched' = watched
      BY <1>1, <1>4
    <2>6. l \in Submitting => x \in Transfers /\ tlock'[x] = h
      BY <2>2
    <2>7. h = Handler /\ l \in {"timeout", "complete", "gone", "disarm", "callback", "called"} => x \in Transfers
      BY <1>4
    <2>8. plugged' = plugged
      BY <1>1
    <2>9. MayMove(h, l, x)
      BY <2>1, <2>2, <2>3, <2>4, <2>5, <2>6, <2>7, <2>8 DEF MayMove
    <2>10. QED
      BY <1>1, <1>2, <2>9, PcMove
  <1>7. \A t \in Transfers : SameRoles(t)
    <2>1. l \in Elsewhere /\ pc[h] \in Elsewhere
      BY <1>1, <1>4 DEF Elsewhere
    <2>2. QED
      BY <1>1, <1>2, <2>1, QuietRoles
  <1>8. ListInv' /\ PrivInv' /\ DataInv' /\ OrderInv'
    BY <1>1, <1>7, QuietPriv, QuietStep DEF xferVars, histVars
  <1>9. QED
    BY <1>1, <1>5, <1>6, <1>8 DEF histVars

\* libusb_cancel_transfer asks the backend, whatever has become of the transfer.
LEMMA CancelStep ==
  ASSUME IInv, NEW h \in Threads, NEW t \in Transfers, Cancel(h, t)
  PROVE  IInv'
  <1> USE DEF IInv
  <1>1. /\ UNCHANGED <<setup, expiring, flock, tlock, timer, plugged, watched, flying, timeout, timed_out, transferred, thrVars, owed, got, dangling>>
        /\ priv' = BackendCancel(t) /\ asked' = asked \cup {t}
    BY DEF Cancel, CancelTransfer
  <1>2. /\ priv' \in [Transfers -> PrivOf]
        /\ \A u \in Transfers : /\ Sound(u, priv'[u])
                                /\ Idles(priv'[u]) <=> Idle(u)
                                /\ Stalls(priv'[u]) <=> Stalls(priv[u])
    BY <1>1, CancelSound
  <1>3. TypeOK'
    BY <1>1, <1>2, Frame DEF TypeOK, PrivOf, thrVars
  <1>4. PcInv'
    BY <1>1 DEF PcInv, thrVars
  <1>5. \A u \in Transfers : SameRoles(u)
    BY <1>1, RolesStay DEF thrVars, SameRoles
  <1>6. ListInv' /\ PrivInv' /\ DataInv' /\ OrderInv'
    BY <1>1, <1>2, <1>5, QuietStep DEF thrVars
  <1>7. QED
    BY <1>1, <1>3, <1>4, <1>6

\* A thread that waits for the handler marks what is overdue and asks the
\* backend to cancel it, wherever the handler is.
LEMMA WaiterStep ==
  ASSUME IInv, WaitedLong \/ WaiterSteps
  PROVE  IInv'
  <1> USE DEF IInv
  <1>1. /\ UNCHANGED <<setup, tlock, timer, plugged, watched, flying, timeout, transferred, thrVars, owed, got, dangling>>
        /\ flock' \in {NoT, Handler, Waiter} /\ expiring' \in Transfers \cup {NoT}
        /\ timed_out' \in [Transfers -> BOOLEAN]
    <2>1. CASE WaitedLong \/ WaiterDone
      BY <2>1 DEF TypeOK, WaitedLong, WaiterDone, xferVars, histVars
    <2>2. CASE WaiterTimeOut
      <3>1. PICK k \in Overdue : timed_out' = [timed_out EXCEPT ![flying[k]] = TRUE] /\ expiring' = flying[k]
        BY <2>2 DEF WaiterTimeOut
      <3>2. flying[k] \in Transfers
        BY DEF Overdue, TypeOK
      <3>3. QED
        BY <2>2, <3>1, <3>2 DEF TypeOK, WaiterTimeOut, histVars
    <2>3. CASE WaiterCancel
      BY <2>3 DEF TypeOK, WaiterCancel
    <2>4. QED
      BY <2>1, <2>2, <2>3 DEF WaiterSteps
  <1>2. /\ priv' \in [Transfers -> PrivOf] /\ asked' \subseteq Transfers
        /\ \A u \in Transfers : /\ Sound(u, priv'[u])
                                /\ Idles(priv'[u]) <=> Idle(u)
                                /\ Stalls(priv'[u]) <=> Stalls(priv[u])
    <2>1. CASE UNCHANGED <<priv, asked>>
      BY <2>1, QuietPriv, SetupParts DEF TypeOK
    <2>2. CASE WaiterCancel
      <3>1. expiring \in Transfers /\ priv' = BackendCancel(expiring) /\ asked' = asked \cup {expiring}
        BY <2>2 DEF TypeOK, WaiterCancel, CancelTransfer
      <3>2. QED
        BY <3>1, CancelSound DEF TypeOK
    <2>3. QED
      BY <2>1, <2>2 DEF WaitedLong, WaiterSteps, WaiterTimeOut, WaiterDone, xferVars, histVars
  <1>3. TypeOK'
    BY <1>1, <1>2, Frame DEF TypeOK, PrivOf, thrVars
  <1>4. PcInv'
    BY <1>1 DEF PcInv, thrVars
  <1>5. \A u \in Transfers : SameRoles(u)
    BY <1>1, RolesStay DEF thrVars, SameRoles
  <1>6. ListInv' /\ PrivInv' /\ DataInv' /\ OrderInv'
    BY <1>1, <1>2, <1>5, QuietStep DEF thrVars
  <1>7. QED
    BY <1>1, <1>3, <1>4, <1>6

\* The handler moves on, and leaves all but the timer, the lock and what the
\* backend is told.
Moving(l, x) ==
  /\ pc[Handler] \in {"idle", "expire", "timeouts", "timeout"} /\ l \in {"idle", "expire", "timeouts", "timeout", "disconnect"}
  /\ pc' = [pc EXCEPT ![Handler] = l] /\ cur' = [cur EXCEPT ![Handler] = x]
  /\ l = "timeout" => x \in Transfers
  /\ l = "disconnect" => ~watched'
  /\ UNCHANGED <<setup, expiring, tlock, plugged, flying, timeout, transferred, status, owed, got, dangling>>
  /\ flock' \in {NoT, Handler, Waiter} /\ timer' \in Nat \cup {Unset}
  /\ watched' => watched
  /\ ~watched' => ~plugged
  /\ timed_out' \in [Transfers -> BOOLEAN] /\ asked' \subseteq Transfers /\ priv' \in [Transfers -> PrivOf]

\* A step of the thread that handles events that only changes where it is, and
\* what the backend was asked to cancel, keeps the invariant;
LEMMA HandlerStep ==
  ASSUME IInv, NEW l, NEW x \in Transfers \cup {NoT}, Moving(l, x),
         \A t \in Transfers : /\ Sound(t, priv'[t])
                              /\ Idles(priv'[t]) <=> Idle(t)
                              /\ Stalls(priv'[t]) <=> Stalls(priv[t])
  PROVE  IInv'
  <1> USE DEF IInv, Moving
  <1>1. Handler \in Threads /\ Handler \notin Apps
    BY TransferAssumption DEF Threads
  <1>2. TypeOK'
    BY <1>1, Frame DEF TypeOK, PrivOf
  <1>3. PcInv'
    <2>1. l \in {"idle"} \cup Submitting \cup Handling /\ l \notin Submitting
      BY DEF Submitting, Handling
    <2>2. Handler = Handler /\ l \in {"timeout", "complete", "gone", "disarm", "callback", "called"} => x \in Transfers
      OBVIOUS
    <2>3. IF Handler = Handler THEN l \in {"disconnect", "gone"} => ~watched' ELSE watched' = watched
      OBVIOUS
    <2>4. \A g \in Threads \ {Handler} : pc[g] \in Submitting => tlock'[cur[g]] = tlock[cur[g]]
      OBVIOUS
    <2>5. /\ Handler \in Apps => l \notin Handling /\ (~plugged => l = "idle")
          /\ l \in Submitting => x \in Transfers /\ tlock'[x] = Handler
      BY <1>1, <2>1
    <2>6. MayMove(Handler, l, x)
      BY <2>1, <2>2, <2>3, <2>4, <2>5 DEF MayMove
    <2>7. QED
      BY <1>1, <2>6, PcMove
  <1>4. \A t \in Transfers : SameRoles(t)
    <2>1. l \in Elsewhere /\ pc[Handler] \in Elsewhere
      BY DEF Elsewhere
    <2>2. QED
      BY <1>1, <2>1, QuietRoles
  <1>5. ListInv' /\ PrivInv' /\ DataInv' /\ OrderInv'
    BY <1>4, QuietStep
  <1>6. QED
    BY <1>2, <1>3, <1>5

\* it begins to handle the timeouts,
LEMMA HandleTimeoutsStep ==
  ASSUME IInv, HandleTimeouts \/ LockFlying
  PROVE  IInv'
  <1>1. \E l : Moving(l, cur[Handler])
    <2>1. CASE HandleTimeouts
      <3>1. Moving("expire", cur[Handler])
        BY <2>1, SetupParts DEF IInv, PcInv, TypeOK, HandleTimeouts, Goto, xferVars, histVars, Moving, Threads
      <3>2. QED
        BY <3>1
    <2>2. CASE LockFlying
      <3>1. Moving("timeouts", cur[Handler])
        BY <2>2, SetupParts DEF IInv, PcInv, TypeOK, LockFlying, Goto, xferVars, histVars, Moving, Threads
      <3>2. QED
        BY <3>1
    <2>3. QED
      BY <2>1, <2>2
  <1>2. priv' = priv /\ cur[Handler] \in Transfers \cup {NoT}
    BY DEF IInv, TypeOK, HandleTimeouts, LockFlying, xferVars, Threads
  <1>3. QED
    BY <1>1, <1>2, QuietPriv, HandlerStep

\* finds the next transfer that is out of time,
LEMMA TimeOutStep ==
  ASSUME IInv, TimeOut
  PROVE  IInv'
  <1>1. PICK k \in Overdue : cur' = [cur EXCEPT ![Handler] = flying[k]] /\ timed_out' = [timed_out EXCEPT ![flying[k]] = TRUE]
    BY DEF TimeOut
  <1>2. flying[k] \in Transfers
    BY DEF Overdue, IInv, TypeOK
  <1>3. PICK t \in Transfers : t = flying[k]
    BY <1>2
  <1>4. Moving("timeout", t) /\ priv' = priv
    <2>1. /\ UNCHANGED <<setup, expiring, flock, tlock, timer, plugged, watched, flying, timeout, transferred, priv, first, status, histVars>>
          /\ pc[Handler] = "timeouts" /\ pc' = [pc EXCEPT ![Handler] = "timeout"]
          /\ cur' = [cur EXCEPT ![Handler] = t]
      BY <1>1, <1>3 DEF TimeOut, Goto
    <2>2. timed_out' \in [Transfers -> BOOLEAN]
      BY <1>1, <1>3 DEF IInv, TypeOK
    <2>3. QED
      BY <2>1, <2>2, SetupParts DEF IInv, PcInv, TypeOK, Moving, histVars
  <1>5. QED
    BY <1>4, QuietPriv, HandlerStep

\* cancels it,
LEMMA TimeOutCancelStep ==
  ASSUME IInv, TimeOutCancel
  PROVE  IInv'
  <1> DEFINE t == cur[Handler]
  <1>1. t \in Transfers
    BY DEF IInv, PcInv, TimeOutCancel
  <1>2. priv' = BackendCancel(t) /\ asked' = asked \cup {t}
    BY DEF TimeOutCancel, CancelTransfer
  <1>3. /\ priv' \in [Transfers -> PrivOf]
        /\ \A u \in Transfers : /\ Sound(u, priv'[u])
                                /\ Idles(priv'[u]) <=> Idle(u)
                                /\ Stalls(priv'[u]) <=> Stalls(priv[u])
    BY <1>1, <1>2, CancelSound DEF IInv
  <1>4. Moving("timeouts", NoT)
    BY <1>1, <1>2, <1>3 DEF IInv, PcInv, TypeOK, TimeOutCancel, Goto, Moving
  <1>5. QED
    BY <1>3, <1>4, HandlerStep

\* is through with them,
LEMMA TimeoutsDoneStep ==
  ASSUME IInv, TimeoutsDone
  PROVE  IInv'
  <1>1. Armed(flying) \in Nat \cup {Unset}
    BY ArmedRight DEF IInv, TypeOK
  <1>2. Moving("idle", NoT) /\ priv' = priv
    BY <1>1, SetupParts DEF IInv, PcInv, TypeOK, TimeoutsDone, Finish, Goto, Moving, xferVars, histVars
  <1>3. QED
    BY <1>2, QuietPriv, HandlerStep

\* or sees that the device is gone.
LEMMA SeeUnplugStep ==
  ASSUME IInv, SeeUnplug
  PROVE  IInv'
  <1>1. Moving("disconnect", cur[Handler]) /\ priv' = priv /\ cur[Handler] \in Transfers \cup {NoT}
    BY SetupParts DEF IInv, PcInv, TypeOK, SeeUnplug, Goto, Moving, xferVars, histVars, Threads
  <1>2. QED
    BY <1>1, QuietPriv, HandlerStep

\* What the operating system ends is there to be reaped, and no sooner gone.
LEMMA ServeStep ==
  ASSUME IInv, NEW t \in Transfers, Serve(t)
  PROVE  IInv'
  <1> USE DEF IInv
  <1>1. PICK p \in Serves(t) : priv' = [priv EXCEPT ![t] = p]
    BY DEF Serve
  <1>2. UNCHANGED <<setup, expiring, flock, tlock, timer, plugged, watched, flying, timeout, timed_out, transferred, thrVars, histVars>>
    BY DEF Serve
  <1>3. Sound(t, p) /\ ~Idle(t) /\ ~Idles(p) /\ (Stalls(p) <=> Stalls(priv[t]))
    BY ServeSound
  <1>4. priv \in [Transfers -> PrivOf] /\ p \in PrivOf
    BY <1>3, SetupParts DEF Sound
  <1>5. ASSUME NEW u \in Transfers
        PROVE  Sound(u, priv'[u]) /\ (Idles(priv'[u]) <=> Idle(u)) /\ (Stalls(priv'[u]) <=> Stalls(priv[u]))
    <2>1. CASE u = t
      BY <1>1, <1>3, <1>4, <2>1
    <2>2. CASE u # t
      <3>1. priv'[u] = priv[u]
        BY <1>1, <1>4, <2>2
      <3>2. QED
        BY <3>1 DEF PrivInv, Idle
    <2>3. QED
      BY <2>1, <2>2
  <1>6. TypeOK'
    BY <1>1, <1>2, <1>4, Frame DEF TypeOK, PrivOf, thrVars, histVars
  <1>7. PcInv' /\ \A u \in Transfers : SameRoles(u)
    BY <1>2, RolesStay DEF PcInv, thrVars, SameRoles
  <1>8. ListInv' /\ PrivInv' /\ DataInv' /\ OrderInv'
    BY <1>2, <1>5, <1>7, QuietStep DEF thrVars, histVars
  <1>9. QED
    BY <1>2, <1>6, <1>7, <1>8 DEF histVars

\* The device is unplugged while no submission is under way; all else waits.
LEMMA UnplugStep ==
  ASSUME QuietUnplug, IInv, Unplug
  PROVE  IInv'
  <1> USE DEF IInv
  <1>1. UNCHANGED <<setup, expiring, flock, tlock, timer, watched, xferVars, thrVars, histVars>> /\ plugged' = FALSE
    BY DEF Unplug
  <1>2. \A h \in Apps : pc[h] = "idle"
    BY DEF Unplug, PcInv, Threads, Submitting
  <1>3. TypeOK'
    BY <1>1, Frame DEF TypeOK, xferVars, thrVars, histVars
  <1>4. PcInv' /\ \A u \in Transfers : SameRoles(u)
    BY <1>1, <1>2, RolesStay DEF PcInv, thrVars, SameRoles
  <1>5. ListInv' /\ PrivInv' /\ DataInv' /\ OrderInv'
    BY <1>1, <1>4, QuietPriv, QuietStep DEF xferVars, thrVars, histVars
  <1>6. QED
    BY <1>1, <1>3, <1>4, <1>5 DEF histVars

\* Time passes for all alike.
LEMMA TickStep ==
  ASSUME IInv, Tick
  PROVE  IInv'
  <1> USE DEF IInv
  <1>1. /\ UNCHANGED <<setup, expiring, flock, tlock, plugged, watched, flying, timed_out, transferred, priv, thrVars, histVars>>
        /\ timeout' = [t \in Transfers |-> Lower(timeout[t])] /\ timer' = Lower(timer)
    BY DEF Tick
  <1>2. \A n \in Nat \cup {Unset} : Lower(n) \in Nat \cup {Unset} /\ (Lower(n) = Unset <=> n = Unset)
    BY DEF Lower, Unset
  <1>3. \A m, n \in Nat : m <= n => Lower(m) <= Lower(n)
    BY DEF Lower
  <1>4. TypeOK'
    BY <1>1, <1>2, Frame DEF TypeOK, thrVars, histVars
  <1>5. PcInv' /\ \A u \in Transfers : SameRoles(u)
    BY <1>1, RolesStay DEF PcInv, thrVars, SameRoles
  <1>6. ListInv' /\ PrivInv' /\ DataInv'
    BY <1>1, <1>5, QuietPriv, QuietStep DEF thrVars, histVars
  <1>7. OrderInv'
    <2>1. ASSUME NEW i \in DOMAIN flying, NEW j \in DOMAIN flying, i < j
          PROVE  /\ flying[i] # flying[j]
                 /\ IsSet(flying[j])' => IsSet(flying[i])' /\ timeout'[flying[i]] <= timeout'[flying[j]]
      <3>1. /\ flying[i] \in Transfers /\ flying[j] \in Transfers
            /\ timeout[flying[i]] \in Nat \cup {Unset} /\ timeout[flying[j]] \in Nat \cup {Unset}
        BY DEF TypeOK
      <3>2. /\ timeout'[flying[i]] = Lower(timeout[flying[i]])
            /\ timeout'[flying[j]] = Lower(timeout[flying[j]])
        BY <1>1, <3>1
      <3>3. /\ flying[i] # flying[j]
            /\ timeout[flying[j]] # Unset => timeout[flying[i]] # Unset /\ timeout[flying[i]] <= timeout[flying[j]]
        BY <2>1 DEF OrderInv, Ordered, IsSet
      <3>4. ASSUME timeout'[flying[j]] # Unset
            PROVE  timeout'[flying[i]] # Unset /\ timeout'[flying[i]] <= timeout'[flying[j]]
        <4>1. timeout[flying[j]] # Unset /\ timeout[flying[i]] # Unset
          BY <1>2, <3>1, <3>2, <3>3, <3>4
        <4>2. timeout[flying[j]] \in Nat /\ timeout[flying[i]] \in Nat
          BY <3>1, <4>1
        <4>3. QED
          BY <1>2, <1>3, <3>2, <3>3, <4>1, <4>2
      <3>5. QED
        BY <1>1, <3>3, <3>4 DEF IsSet
    <2>2. QED
      BY <1>1, <2>1 DEF OrderInv, Ordered, IsSet
  <1>8. QED
    BY <1>1, <1>4, <1>5, <1>6, <1>7 DEF histVars

\* A transfer that is added is idle, and stays so if the backend refuses it.
LEMMA AddAndSubmitStep ==
  ASSUME IInv, NEW h \in Threads, AddAndSubmit(h)
  PROVE  IInv'
  <1> USE DEF IInv
  <1> DEFINE t == cur[h]
  <1>1. /\ pc[h] = "add" /\ flying' = Added(t).list
        /\ UNCHANGED <<setup, expiring, flock, tlock, timer, plugged, watched, timeout, timed_out, transferred, cur, status, histVars>>
    BY DEF AddAndSubmit
  <1>2. PICK o \in Submits(t) :
          /\ plugged \/ o.r # "SUCCESS"
          /\ priv' = [priv EXCEPT ![t] = o.p]
          /\ pc' = [pc EXCEPT ![h] = IF o.r = "SUCCESS" THEN "submitted" ELSE "undo"]
    BY DEF AddAndSubmit, Goto
  <1> DEFINE l == IF o.r = "SUCCESS" THEN "submitted" ELSE "undo"
  <1>3. t \in Transfers /\ tlock[t] = h
    BY <1>1 DEF PcInv, Submitting
  <1>4. OneInv(t) /\ Adding(t)
    BY <1>1, <1>3 DEF ListInv, Adding, At
  <1>5. ~Listed(t) /\ owed[t] /\ ~Finished(t) /\ ~Finishing(t) /\ ~Undoing(t) /\ Type[t] # "unused"
    BY <1>4 DEF OneInv
  <1>6. Idle(t) \/ (backend = "darwin" /\ ~watched)
    BY <1>4, <1>5 DEF OneInv
  <1>7. Sound(t, o.p) /\ (o.r = "SUCCESS" <=> ~Idles(o.p))
    BY <1>3, <1>5, <1>6, SubmitsSound
  <1>8. /\ flying' \in Seq(Transfers) /\ OrderInv'
        /\ \A u : Listed(u)' <=> Listed(u) \/ u = t
    <2>1. /\ flying' \in Seq(Transfers) /\ Ordered(flying')
          /\ \A u : InList(u, flying') <=> Listed(u) \/ u = t
      BY <1>1, <1>3, <1>5, AddedRight
    <2>2. OrderInv'
      BY <1>1, <2>1 DEF OrderInv, Ordered, IsSet
    <2>3. QED
      BY <2>1, <2>2 DEF InList, Listed
  <1>9. cur' = [cur EXCEPT ![h] = t] /\ pc' = [pc EXCEPT ![h] = l] /\ l \in {"submitted", "undo"}
    BY <1>1, <1>2 DEF TypeOK
  <1>10. (l = "undo" <=> Idles(o.p)) /\ (l = "submitted" => plugged)
    BY <1>2, <1>7
  <1> HIDE DEF t, l
  <1>11. ASSUME NEW u \in Transfers
         PROVE  /\ Adding(u)' <=> Adding(u) /\ u # t
                /\ Undoing(u)' <=> Undoing(u) \/ (u = t /\ l = "undo")
                /\ Finishing(u)' <=> Finishing(u)
                /\ Finished(u)' <=> Finished(u)
    <2>1. Moves(h, l, t, u)
      BY <1>9, RolesMove
    <2>2. ~At(h, "undo", u) /\ (At(h, "add", u) <=> u = t)
      BY <1>1 DEF At, t
    <2>3. h = Handler => ~Finishing(u) /\ ~Finished(u)
      BY <1>1 DEF At, Finishing, Finished
    <2>4. QED
      BY <1>9, <2>1, <2>2, <2>3 DEF Moves
  <1>12. priv \in [Transfers -> PrivOf] /\ o.p \in PrivOf
    BY <1>7, SetupParts DEF Sound
  <1>13. TypeOK'
    BY <1>1, <1>2, <1>8, <1>12, Frame DEF TypeOK, PrivOf, histVars
  <1>14. PcInv'
    <2>1. l \in {"idle"} \cup Submitting \cup Handling /\ l \notin Handling
      BY <1>9 DEF Submitting, Handling
    <2>2. h \in Apps => plugged
      BY <1>1 DEF PcInv
    <2>3. ~watched' => ~plugged
      BY <1>1 DEF PcInv
    <2>4. tlock'[t] = h /\ plugged' = plugged /\ watched' = watched
      BY <1>1, <1>3
    <2>5. \A g \in Threads \ {h} : pc[g] \in Submitting => tlock'[cur[g]] = tlock[cur[g]]
      BY <1>1
    <2>6. l \notin {"disconnect", "gone", "timeout", "complete", "disarm", "callback", "called"}
      BY <1>9
    <2>7. MayMove(h, l, t)
      BY <1>3, <2>1, <2>2, <2>3, <2>4, <2>5, <2>6 DEF MayMove
    <2>8. QED
      BY <1>9, <2>7, PcMove
  <1>15. \A u \in Transfers : priv'[u] = IF u = t THEN o.p ELSE priv[u]
    BY <1>2, <1>12
  <1>16. ListInv'
    <2>1. ASSUME NEW u \in Transfers PROVE OneInv(u)'
      <3>1. backend' = backend /\ Type' = Type /\ watched' = watched /\ owed' = owed
        BY <1>1, Frame DEF histVars
      <3>2. CASE u = t
        <4>1. Idle(u)' <=> Idles(o.p)
          BY <1>1, <1>15, <3>2, Frame DEF Idle
        <4>2. OneInv(u) /\ (u = t => Adding(u))
          BY <1>4, <3>2 DEF ListInv
        <4>3. QED
          BY <1>5, <1>8, <1>10, <1>11, <3>1, <3>2, <4>1, <4>2 DEF OneInv
      <3>3. CASE u # t
        <4>1. Idle(u)' <=> Idle(u)
          BY <1>1, <1>15, <3>3, Frame DEF Idle
        <4>2. OneInv(u)
          BY DEF ListInv
        <4>3. QED
          BY <1>8, <1>11, <3>1, <3>3, <4>1, <4>2 DEF OneInv
      <3>4. QED
        BY <3>2, <3>3
    <2>2. QED
      BY <2>1 DEF ListInv
  <1>17. PrivInv'
    BY <1>1, <1>7, <1>15, Frame DEF PrivInv
  <1>18. DataInv'
    <2>1. ASSUME NEW u \in Transfers, Type'[u] = "bulk", owed'[u] PROVE KeptOf(u)'
      <3>1. KeptOf(u) /\ transferred' = transferred /\ got' = got /\ status' = status
        BY <1>1, <2>1, Frame DEF DataInv, histVars
      <3>2. CASE u = t
        BY <1>4, <1>5, <3>1, <3>2 DEF KeptOf
      <3>3. CASE u # t
        <4>1. Stalls(priv[u])' <=> Stalls(priv[u])
          BY <1>1, <1>15, <3>3, Frame
        <4>2. QED
          BY <1>11, <3>1, <3>3, <4>1 DEF KeptOf
      <3>4. QED
        BY <3>2, <3>3
    <2>2. QED
      BY <1>1, <2>1 DEF DataInv, histVars
  <1>19. QED
    BY <1>1, <1>8, <1>13, <1>14, <1>16, <1>17, <1>18 DEF histVars

\* A transfer the backend refused is idle, and leaves the list.
LEMMA UndoStep ==
  ASSUME IInv, NEW h \in Threads, Undo(h)
  PROVE  IInv'
  <1> USE DEF IInv
  <1> DEFINE t == cur[h]
             l == IF h = Handler THEN "called" ELSE "idle"
             x == IF h = Handler THEN t ELSE NoT
  <1>1. /\ pc[h] = "undo" /\ flying' = Without(t) /\ owed' = [owed EXCEPT ![t] = FALSE]
        /\ tlock' = [tlock EXCEPT ![t] = NoT] /\ pc' = [pc EXCEPT ![h] = l] /\ status' = status
        /\ UNCHANGED <<setup, expiring, flock, timer, plugged, watched, timeout, timed_out, transferred, priv, got, dangling, asked>>
    BY DEF Undo, Answered, Goto
  <1>2. cur' = [cur EXCEPT ![h] = x]
    BY DEF Undo, Answered, TypeOK
  <1>3. t \in Transfers /\ tlock[t] = h
    BY <1>1 DEF PcInv, Submitting
  <1>4. OneInv(t) /\ Undoing(t)
    BY <1>1, <1>3 DEF ListInv, Undoing, At
  <1>5. Listed(t) /\ ~Finished(t) /\ ~Finishing(t) /\ ~Adding(t) /\ Idle(t)
    BY <1>4 DEF OneInv
  <1>6. /\ flying' \in Seq(Transfers) /\ OrderInv'
        /\ \A u : Listed(u)' <=> Listed(u) /\ u # t
    <2>1. /\ flying' \in Seq(Transfers) /\ Ordered(flying')
          /\ \A u : InList(u, flying') <=> Listed(u) /\ u # t
      BY <1>1, <1>3, <1>5, WithoutRight
    <2>2. OrderInv'
      BY <1>1, <2>1 DEF OrderInv, Ordered, IsSet
    <2>3. QED
      BY <2>1, <2>2 DEF InList, Listed
  <1>7. /\ l \in {"called", "idle"} /\ (h # Handler => l = "idle")
        /\ h = Handler => x \in Transfers
        /\ x \in Transfers \cup {NoT}
    BY <1>3
  <1>8. pc[h] \in Submitting /\ \A g \in Threads \ {h} : pc[g] \in Submitting => tlock'[cur[g]] = tlock[cur[g]]
    BY <1>1, OthersLocks DEF Submitting
  <1>9. ASSUME NEW u \in Transfers
        PROVE  /\ Adding(u)' <=> Adding(u)
               /\ Undoing(u)' <=> Undoing(u) /\ u # t
               /\ Finishing(u)' <=> Finishing(u)
               /\ Finished(u)' <=> Finished(u)
    <2>1. Moves(h, l, x, u)
      BY <1>1, <1>2, RolesMove
    <2>2. ~At(h, "add", u) /\ (At(h, "undo", u) <=> u = t)
      BY <1>1 DEF At
    <2>3. h = Handler => ~Finishing(u) /\ ~Finished(u)
      BY <1>1 DEF At, Finishing, Finished
    <2>4. QED
      BY <1>7, <2>1, <2>2, <2>3 DEF Moves
  <1> HIDE DEF t, l, x
  <1>10. TypeOK'
    BY <1>1, <1>2, <1>3, <1>6, <1>7, Frame DEF TypeOK
  <1>11. PcInv'
    <2>1. l \in {"idle"} \cup Submitting \cup Handling /\ l \notin Submitting
      BY <1>7 DEF Submitting, Handling
    <2>2. h \in Apps => l \notin Handling /\ l = "idle"
      BY <1>7, TransferAssumption DEF Handling
    <2>3. ~watched' => ~plugged
      BY <1>1 DEF PcInv
    <2>4. l \notin {"disconnect", "gone", "timeout", "complete", "disarm", "callback"}
      BY <1>7
    <2>5. plugged' = plugged /\ watched' = watched
      BY <1>1
    <2>6. MayMove(h, l, x)
      BY <1>7, <1>8, <2>1, <2>2, <2>3, <2>4, <2>5 DEF MayMove
    <2>7. QED
      BY <1>1, <1>2, <2>6, PcMove
  <1>12. ListInv'
    <2>1. ASSUME NEW u \in Transfers PROVE OneInv(u)'
      <3>1. backend' = backend /\ Type' = Type /\ watched' = watched /\ (Idle(u)' <=> Idle(u)) /\ OneInv(u)
        BY <1>1, Frame DEF ListInv, Idle
      <3>2. owed'[u] <=> owed[u] /\ u # t
        BY <1>1, <1>3 DEF TypeOK
      <3>3. CASE u = t
        BY <1>5, <1>6, <1>9, <3>1, <3>2, <3>3 DEF OneInv
      <3>4. CASE u # t
        BY <1>6, <1>9, <3>1, <3>2, <3>4 DEF OneInv
      <3>5. QED
        BY <3>3, <3>4
    <2>2. QED
      BY <2>1 DEF ListInv
  <1>13. PrivInv'
    BY <1>1, Frame DEF PrivInv
  <1>14. DataInv'
    <2>1. ASSUME NEW u \in Transfers, Type'[u] = "bulk", owed'[u] PROVE KeptOf(u)'
      <3>1. owed[u]
        BY <1>1, <1>3, <2>1 DEF TypeOK
      <3>2. KeptOf(u) /\ transferred' = transferred /\ got' = got /\ status' = status
        BY <1>1, <2>1, <3>1, Frame DEF DataInv
      <3>3. Stalls(priv[u])' <=> Stalls(priv[u])
        BY <1>1, Frame
      <3>4. QED
        BY <1>9, <3>2, <3>3 DEF KeptOf
    <2>2. QED
      BY <1>1, <2>1 DEF DataInv
  <1>15. QED
    BY <1>1, <1>6, <1>10, <1>11, <1>12, <1>13, <1>14

\* What an event brought to a transfer that is in the list
LEMMA GainRight ==
  ASSUME IInv, NEW t \in Transfers, Type[t] # "unused", NEW o \in Handled(t), NEW gain,
         gain = CASE backend # "linux" -> o.add
                  [] OTHER -> LET u == priv[t].urbs IN u[CHOOSE k \in Linux!Reapable(priv[t]) : TRUE].len
  PROVE  /\ gain \in Nat
         /\ Type[t] = "bulk" => /\ o.add = gain \/ Stalls(o.p)
                                /\ Stalls(priv[t]) => Stalls(o.p)
  <1> USE DEF IInv
  <1>1. CASE backend # "linux"
    BY <1>1, HandledSound DEF Stalls
  <1>2. CASE backend = "linux"
    <2>1. PICK k \in Linux!Reapable(priv[t]) :
            Type[t] = "bulk" => /\ o.add = priv[t].urbs[k].len \/ Stalls(o.p)
                                /\ Stalls(priv[t]) => Stalls(o.p)
      BY <1>2, HandledSound
    <2>2. priv[t] \in Linux!Priv
      BY <1>2, SetupParts DEF PrivOf
    <2>3. \A m \in Linux!Reapable(priv[t]) : m = k
      BY <2>1, <2>2, ReapableOne
    <2>4. (CHOOSE m \in Linux!Reapable(priv[t]) : TRUE) = k
      BY <2>1, <2>3
    <2>5. gain = priv[t].urbs[k].len
      BY <1>2, <2>4
    <2>6. k \in DOMAIN priv[t].urbs
      BY <2>1 DEF Linux!Reapable
    <2>7. priv[t].urbs[k].len \in 0 .. Linux!Full
      BY <2>2, <2>6, PrivParts DEF Linux!Urb
    <2>8. QED
      BY <2>1, <2>5, <2>7 DEF Linux!Full
  <1>3. QED
    BY <1>1, <1>2

\* An event is one of a transfer in the list that the backend works on.
LEMMA HandleEventStep ==
  ASSUME IInv, NEW t \in Transfers, HandleEvent(t)
  PROVE  IInv'
  <1> USE DEF IInv
  <1>1. /\ pc[Handler] = "idle" /\ watched
        /\ UNCHANGED <<setup, expiring, flock, tlock, timer, plugged, watched, flying, timeout, timed_out, owed, asked>>
    BY DEF HandleEvent
  <1>2. PICK o \in Handled(t) :
          /\ priv' = [priv EXCEPT ![t] = o.p]
          /\ transferred' = [transferred EXCEPT ![t] = @ + o.add]
          /\ got' = [got EXCEPT ![t] = @ + CASE backend # "linux" -> o.add
                       [] OTHER -> LET u == priv[t].urbs IN u[CHOOSE k \in Linux!Reapable(priv[t]) : TRUE].len]
          /\ dangling' = IF o.left # {} THEN dangling \cup {t} ELSE dangling
          /\ IF o.end = "none" THEN UNCHANGED thrVars
             ELSE Goto(Handler, "complete") /\ cur' = [cur EXCEPT ![Handler] = t]
    BY DEF HandleEvent
  <1>3. PICK gain : gain = CASE backend # "linux" -> o.add
                       [] OTHER -> LET u == priv[t].urbs IN u[CHOOSE k \in Linux!Reapable(priv[t]) : TRUE].len
    OBVIOUS
  <1>4. got' = [got EXCEPT ![t] = @ + gain]
    BY <1>2, <1>3
  <1>5. ~Idle(t)
    <2>1. CASE backend = "linux"
      <3>1. PICK k \in Linux!Reapable(priv[t]) : TRUE
        BY <1>2, <2>1 DEF Handled
      <3>2. priv[t] \in Linux!Priv /\ k \in DOMAIN priv[t].urbs
        BY <2>1, <3>1, SetupParts DEF PrivOf, Linux!Reapable
      <3>3. QED
        BY <2>1, <3>2 DEF Idle, Idles
    <2>2. CASE backend = "darwin"
      BY <1>2, <2>2 DEF Handled, Idle, Idles
    <2>3. CASE backend = "windows"
      BY <1>2, <2>3 DEF Handled, Idle, Idles
    <2>4. QED
      BY <2>1, <2>2, <2>3, SetupParts
  <1>6. Listed(t) /\ ~Finishing(t) /\ ~Undoing(t) /\ ~Finished(t) /\ ~Adding(t) /\ owed[t] /\ Type[t] # "unused"
    BY <1>1, <1>5 DEF ListInv, OneInv
  <1>7. Sound(t, o.p) /\ Clean(o.left) /\ o.add \in Nat /\ (o.end = "none" <=> ~Idles(o.p))
    BY <1>2, <1>6, HandledSound
  <1>8. /\ gain \in Nat
        /\ Type[t] = "bulk" => (o.add = gain \/ Stalls(o.p)) /\ (Stalls(priv[t]) => Stalls(o.p))
    BY <1>3, <1>6, GainRight
  <1> DEFINE l == IF o.end = "none" THEN "idle" ELSE "complete"
             x == IF o.end = "none" THEN cur[Handler] ELSE t
  <1>9. pc' = [pc EXCEPT ![Handler] = l] /\ cur' = [cur EXCEPT ![Handler] = x]
    BY <1>1, <1>2 DEF PcInv, TypeOK, Goto, thrVars
  <1>10. Handler \in Threads /\ Handler \notin Apps /\ x \in Transfers \cup {NoT}
    BY TransferAssumption DEF Threads, TypeOK
  <1>11. /\ l \in {"idle", "complete"} /\ (l = "complete" => x = t)
         /\ l = "idle" <=> ~Idles(o.p)
    BY <1>7
  <1> HIDE DEF l, x
  <1>12. ASSUME NEW u \in Transfers
         PROVE  /\ Adding(u)' <=> Adding(u)
                /\ Undoing(u)' <=> Undoing(u)
                /\ Finishing(u)' <=> u = t /\ l = "complete"
                /\ ~Finished(u)' /\ ~Finished(u) /\ ~Finishing(u)
    <2>1. Moves(Handler, l, x, u)
      BY <1>9, <1>10, RolesMove
    <2>2. ~At(Handler, "add", u) /\ ~At(Handler, "undo", u) /\ ~Finishing(u) /\ ~Finished(u)
      BY <1>1 DEF At, Finishing, Finished
    <2>3. QED
      BY <1>11, <2>1, <2>2 DEF Moves
  <1>13. priv \in [Transfers -> PrivOf] /\ o.p \in PrivOf
    BY <1>7, SetupParts DEF Sound
  <1>14. \A u \in Transfers : /\ priv'[u] = (IF u = t THEN o.p ELSE priv[u])
                              /\ transferred'[u] = (IF u = t THEN transferred[u] + o.add ELSE transferred[u])
                              /\ got'[u] = IF u = t THEN got[u] + gain ELSE got[u]
    BY <1>2, <1>4, <1>13 DEF TypeOK, DataInv
  <1>15. TypeOK'
    <2>1. priv' \in [Transfers -> PrivOf] /\ transferred' \in [Transfers -> Nat]
      BY <1>2, <1>7, <1>13 DEF TypeOK
    <2>2. cur' \in [Threads -> Transfers \cup {NoT}]
      BY <1>9, <1>10 DEF TypeOK
    <2>3. dangling' \subseteq Transfers
      BY <1>2 DEF TypeOK
    <2>4. QED
      BY <1>1, <2>1, <2>2, <2>3, Frame DEF TypeOK, PrivOf
  <1>16. PcInv'
    <2>1. l \in {"idle"} \cup Submitting \cup Handling /\ l \notin Submitting
      BY <1>11 DEF Submitting, Handling
    <2>2. (l = "complete" => x \in Transfers) /\ plugged' = plugged /\ watched'
      BY <1>1, <1>11
    <2>3. \A g \in Threads \ {Handler} : pc[g] \in Submitting => tlock'[cur[g]] = tlock[cur[g]]
      BY <1>1
    <2>4. l \notin {"disconnect", "gone", "timeout", "disarm", "callback", "called"}
      BY <1>11
    <2>5. MayMove(Handler, l, x)
      BY <1>10, <1>11, <2>1, <2>2, <2>3, <2>4 DEF MayMove
    <2>6. QED
      BY <1>9, <1>10, <2>5, PcMove
  <1>17. ListInv'
    <2>1. ASSUME NEW u \in Transfers PROVE OneInv(u)'
      <3>1. /\ backend' = backend /\ Type' = Type /\ watched' = watched /\ owed' = owed
            /\ (Listed(u)' <=> Listed(u)) /\ OneInv(u)
        BY <1>1, Frame DEF ListInv, Listed
      <3>2. CASE u = t
        <4>1. Idle(u)' <=> Idles(o.p)
          BY <1>1, <1>14, <3>2, Frame DEF Idle
        <4>2. QED
          BY <1>6, <1>11, <1>12, <3>1, <3>2, <4>1 DEF OneInv
      <3>3. CASE u # t
        <4>1. Idle(u)' <=> Idle(u)
          BY <1>1, <1>14, <3>3, Frame DEF Idle
        <4>2. QED
          BY <1>12, <3>1, <3>3, <4>1 DEF OneInv
      <3>4. QED
        BY <3>2, <3>3
    <2>2. QED
      BY <2>1 DEF ListInv
  <1>18. PrivInv'
    BY <1>1, <1>7, <1>14, Frame DEF PrivInv
  <1>19. OrderInv'
    BY <1>1 DEF OrderInv, Ordered, IsSet
  <1>20. DataInv'
    <2>1. ASSUME NEW u \in Transfers, Type'[u] = "bulk", owed'[u] PROVE KeptOf(u)'
      <3>1. Type[u] = "bulk" /\ owed[u]
        BY <1>1, <2>1, Frame
      <3>2. transferred[u] = got[u] \/ (~Adding(u) /\ Stalls(priv[u]))
        BY <1>12, <3>1 DEF DataInv, KeptOf
      <3>3. CASE u = t
        <4>1. Stalls(priv[u])' <=> Stalls(o.p)
          BY <1>1, <1>14, <3>3, Frame
        <4>2. transferred'[u] = transferred[u] + o.add /\ got'[u] = got[u] + gain
          BY <1>14, <3>3
        <4>3. ~Adding(u)'
          BY <1>6, <1>12, <3>3
        <4>4. (o.add = gain \/ Stalls(o.p)) /\ (Stalls(priv[u]) => Stalls(o.p))
          BY <1>8, <3>1, <3>3
        <4>5. transferred'[u] = got'[u] \/ Stalls(o.p)
          BY <3>2, <4>2, <4>4
        <4>6. QED
          BY <4>1, <4>3, <4>5 DEF KeptOf
      <3>4. CASE u # t
        <4>1. Stalls(priv[u])' <=> Stalls(priv[u])
          BY <1>1, <1>14, <3>4, Frame
        <4>2. transferred'[u] = transferred[u] /\ got'[u] = got[u]
          BY <1>14, <3>4
        <4>3. QED
          BY <1>12, <3>2, <4>1, <4>2 DEF KeptOf
      <3>5. QED
        BY <3>3, <3>4
    <2>2. got' \in [Transfers -> Nat]
      BY <1>4, <1>8 DEF DataInv
    <2>3. QED
      BY <2>1, <2>2 DEF DataInv
  <1>21. Clean(dangling)'
    BY <1>2, <1>7 DEF Clean
  <1>22. QED
    BY <1>15, <1>16, <1>17, <1>18, <1>19, <1>20, <1>21

\* A transfer that ends leaves the list, and is owed its callback.
LEMMA CompleteStep ==
  ASSUME IInv, Complete
  PROVE  IInv'
  <1> USE DEF IInv
  <1> DEFINE t == cur[Handler]
             l == IF usingTimerfd /\ Armed(flying') = Unset THEN "disarm" ELSE "callback"
  <1>1. /\ pc[Handler] \in {"complete", "gone"} /\ flying' = Without(t)
        /\ timer' = IF usingTimerfd /\ Armed(flying') # Unset THEN Armed(flying') ELSE timer
        /\ pc' = [pc EXCEPT ![Handler] = l]
        /\ UNCHANGED <<setup, expiring, flock, tlock, plugged, watched, timeout, timed_out, transferred, priv, cur, first, status, histVars>>
    BY DEF Complete, Goto
  <1>2. t \in Transfers /\ Handler \in Threads /\ Handler \notin Apps
    BY <1>1, TransferAssumption DEF PcInv, Threads
  <1>3. OneInv(t) /\ Finishing(t)
    BY <1>1, <1>2 DEF ListInv, Finishing, At
  <1>4. Listed(t) /\ owed[t] /\ ~Finished(t) /\ ~Adding(t) /\ ~Undoing(t) /\ (Idle(t) \/ (backend = "darwin" /\ ~watched))
    BY <1>3 DEF OneInv
  <1>5. /\ flying' \in Seq(Transfers) /\ OrderInv'
        /\ \A u : Listed(u)' <=> Listed(u) /\ u # t
    <2>1. /\ flying' \in Seq(Transfers) /\ Ordered(flying')
          /\ \A u : InList(u, flying') <=> Listed(u) /\ u # t
      BY <1>1, <1>2, <1>4, WithoutRight
    <2>2. OrderInv'
      BY <1>1, <2>1 DEF OrderInv, Ordered, IsSet
    <2>3. QED
      BY <2>1, <2>2 DEF InList, Listed
  <1>6. timer' \in Nat \cup {Unset}
    <2>1. PICK q \in Seq(Transfers) : q = flying'
      BY <1>5
    <2>2. Armed(q) \in Nat \cup {Unset}
      BY ArmedRight
    <2>3. QED
      BY <1>1, <2>1, <2>2 DEF TypeOK
  <1>7. cur' = [cur EXCEPT ![Handler] = t] /\ l \in {"disarm", "callback"}
    BY <1>1 DEF TypeOK
  <1> HIDE DEF t, l
  <1>8. ASSUME NEW u \in Transfers
        PROVE  /\ Adding(u)' <=> Adding(u)
               /\ Undoing(u)' <=> Undoing(u)
               /\ ~Finishing(u)' /\ ~Finished(u)
               /\ Finished(u)' <=> u = t
               /\ Finishing(u) <=> u = t
    <2>1. Moves(Handler, l, t, u)
      BY <1>1, <1>2, <1>7, RolesMove
    <2>2. ~At(Handler, "add", u) /\ ~At(Handler, "undo", u) /\ ~Finished(u) /\ (Finishing(u) <=> u = t)
      BY <1>1 DEF At, Finishing, Finished, t
    <2>3. QED
      BY <1>7, <2>1, <2>2 DEF Moves
  <1>9. TypeOK'
    BY <1>1, <1>5, <1>6, Frame DEF TypeOK, PrivOf, histVars
  <1>10. PcInv'
    <2>1. l \in {"idle"} \cup Submitting \cup Handling /\ l \notin Submitting
      BY <1>7 DEF Submitting, Handling
    <2>2. plugged' = plugged /\ (~watched' => ~plugged)
      BY <1>1 DEF PcInv
    <2>3. \A g \in Threads \ {Handler} : pc[g] \in Submitting => tlock'[cur[g]] = tlock[cur[g]]
      BY <1>1
    <2>4. l \notin {"disconnect", "gone"}
      BY <1>7
    <2>5. MayMove(Handler, l, t)
      BY <1>2, <2>1, <2>2, <2>3, <2>4 DEF MayMove
    <2>6. QED
      BY <1>1, <1>2, <1>7, <2>5, PcMove
  <1>11. ListInv'
    <2>1. ASSUME NEW u \in Transfers PROVE OneInv(u)'
      <3>1. /\ backend' = backend /\ Type' = Type /\ watched' = watched /\ owed' = owed
            /\ (Idle(u)' <=> Idle(u)) /\ OneInv(u)
        BY <1>1, Frame DEF ListInv, Idle, histVars
      <3>2. CASE u = t
        BY <1>4, <1>5, <1>8, <3>1, <3>2 DEF OneInv
      <3>3. CASE u # t
        BY <1>5, <1>8, <3>1, <3>3 DEF OneInv
      <3>4. QED
        BY <3>2, <3>3
    <2>2. QED
      BY <2>1 DEF ListInv
  <1>12. PrivInv'
    BY <1>1, Frame DEF PrivInv
  <1>13. DataInv'
    <2>1. ASSUME NEW u \in Transfers, Type'[u] = "bulk", owed'[u] PROVE KeptOf(u)'
      <3>1. KeptOf(u) /\ transferred' = transferred /\ got' = got /\ status' = status
        BY <1>1, <2>1, Frame DEF DataInv, histVars
      <3>2. Stalls(priv[u])' <=> Stalls(priv[u])
        BY <1>1, Frame
      <3>3. QED
        BY <1>8, <3>1, <3>2 DEF KeptOf
    <2>2. QED
      BY <1>1, <2>1 DEF DataInv, histVars
  <1>14. QED
    BY <1>1, <1>5, <1>9, <1>10, <1>11, <1>12, <1>13 DEF histVars

\* The timer of a transfer that is over is disarmed.
LEMMA DisarmStep ==
  ASSUME IInv, Disarm
  PROVE  IInv'
  <1> USE DEF IInv
  <1>1. /\ pc[Handler] = "disarm" /\ timer' = Unset /\ pc' = [pc EXCEPT ![Handler] = "callback"]
        /\ UNCHANGED <<setup, expiring, flock, tlock, plugged, watched, xferVars, cur, first, status, histVars>>
    BY DEF Disarm, Goto
  <1>2. cur[Handler] \in Transfers /\ Handler \in Threads /\ Handler \notin Apps
    BY <1>1, TransferAssumption DEF PcInv, Threads
  <1>3. cur' = [cur EXCEPT ![Handler] = cur[Handler]]
    BY <1>1 DEF TypeOK
  <1>4. TypeOK'
    BY <1>1, Frame DEF TypeOK, PrivOf, xferVars, histVars
  <1>5. PcInv'
    <2>1. MayMove(Handler, "callback", cur[Handler])
      BY <1>1, <1>2 DEF MayMove, PcInv, Submitting, Handling
    <2>2. QED
      BY <1>1, <1>2, <1>3, <2>1, PcMove
  <1>6. ASSUME NEW t \in Transfers PROVE SameRoles(t)
    <2>1. Moves(Handler, "callback", cur[Handler], t)
      BY <1>1, <1>2, <1>3, RolesMove
    <2>2. /\ ~At(Handler, "add", t) /\ ~At(Handler, "undo", t) /\ ~Finishing(t)
          /\ Finished(t) <=> cur[Handler] = t
      BY <1>1 DEF At, Finishing, Finished
    <2>3. QED
      BY <2>1, <2>2 DEF Moves, SameRoles
  <1>7. ListInv' /\ PrivInv' /\ DataInv' /\ OrderInv'
    BY <1>1, <1>6, QuietPriv, QuietStep DEF xferVars, histVars
  <1>8. QED
    BY <1>1, <1>4, <1>5, <1>7 DEF histVars

\* A callback that returns is no longer owed; what it did not submit again is
\* forgotten, which was not in the list.
LEMMA CalledStep ==
  ASSUME IInv, Called
  PROVE  IInv'
  <1> USE DEF IInv
  <1> DEFINE t == cur[Handler]
             l == IF watched THEN "idle" ELSE "disconnect"
  <1>1. /\ pc[Handler] \in {"callback", "called"}
        /\ owed' = IF pc[Handler] = "callback" THEN [owed EXCEPT ![t] = FALSE] ELSE owed
        /\ pc' = [pc EXCEPT ![Handler] = l] /\ cur' = [cur EXCEPT ![Handler] = NoT]
        /\ UNCHANGED <<setup, expiring, flock, tlock, timer, plugged, watched, flying, timeout, first, dangling>>
    BY DEF Called, Goto
  <1>2. IF owed'[t] THEN UNCHANGED <<transferred, timed_out, got, asked, priv>> ELSE Forget(t)
    BY DEF Called
  <1>3. t \in Transfers /\ Handler \in Threads /\ Handler \notin Apps
    BY <1>1, TransferAssumption DEF PcInv, Threads
  <1>4. OneInv(t) /\ (pc[Handler] = "callback" <=> Finished(t)) /\ ~Finishing(t)
    BY <1>1, <1>3 DEF ListInv, Finished, Finishing, At
  <1>5. owed' \in [Transfers -> BOOLEAN] /\ (owed'[t] <=> owed[t] /\ ~Finished(t)) /\ \A u \in Transfers : u # t => (owed'[u] <=> owed[u])
    BY <1>1, <1>3, <1>4 DEF TypeOK
  <1>6. ~owed'[t] => ~Listed(t) /\ ~Adding(t) /\ ~Undoing(t)
    BY <1>4, <1>5 DEF OneInv
  <1>7. /\ transferred' \in [Transfers -> Nat] /\ got' \in [Transfers -> Nat]
        /\ timed_out' \in [Transfers -> BOOLEAN] /\ asked' \subseteq Transfers
        /\ owed'[t] => transferred' = transferred /\ got' = got
        /\ \A u \in Transfers : u # t => transferred'[u] = transferred[u] /\ got'[u] = got[u]
    <2>1. CASE owed'[t]
      BY <1>2, <2>1 DEF TypeOK, DataInv
    <2>2. CASE ~owed'[t]
      <3>1. /\ transferred' = [transferred EXCEPT ![t] = 0] /\ got' = [got EXCEPT ![t] = 0]
            /\ timed_out' = [timed_out EXCEPT ![t] = FALSE] /\ asked' = asked \ {t}
        BY <1>2, <2>2 DEF Forget
      <3>2. /\ transferred \in [Transfers -> Nat] /\ got \in [Transfers -> Nat]
            /\ timed_out \in [Transfers -> BOOLEAN] /\ asked \subseteq Transfers
        BY DEF TypeOK, DataInv
      <3>3. transferred' \in [Transfers -> Nat] /\ got' \in [Transfers -> Nat]
        BY <3>1, <3>2
      <3>4. timed_out' \in [Transfers -> BOOLEAN] /\ asked' \subseteq Transfers
        BY <3>1, <3>2
      <3>5. \A u \in Transfers : u # t => transferred'[u] = transferred[u] /\ got'[u] = got[u]
        BY <3>1, <3>2
      <3>6. QED
        BY <2>2, <3>3, <3>4, <3>5
    <2>3. QED
      BY <2>1, <2>2
  <1>8. /\ priv' \in [Transfers -> PrivOf]
        /\ owed'[t] => priv' = priv
        /\ \A u \in Transfers : u # t => priv'[u] = priv[u]
        /\ priv'[t] = priv[t] \/ priv'[t] = NoPriv(backend)
    <2>1. priv \in [Transfers -> PrivOf] /\ NoPriv(backend) \in PrivOf
      BY <1>3, SetupParts, NoPrivSound DEF Sound
    <2>2. CASE owed'[t]
      BY <1>2, <2>1, <2>2
    <2>3. CASE ~owed'[t]
      <3>1. priv' = [priv EXCEPT ![t] = IF backend = "linux" THEN NoPriv(backend) ELSE @]
        BY <1>2, <2>3 DEF Forget
      <3>2. QED
        BY <1>3, <2>1, <2>3, <3>1
    <2>4. QED
      BY <2>2, <2>3
  <1>9. \A u \in Transfers : /\ Sound(u, priv'[u])
                             /\ Idles(priv'[u]) <=> Idle(u) \/ (u = t /\ Idles(priv'[t]))
                             /\ Idle(t) => Idles(priv'[t])
    <2>1. Sound(t, NoPriv(backend)) /\ Idles(NoPriv(backend)) /\ \A u \in Transfers : Sound(u, priv[u])
      BY <1>3, NoPrivSound DEF PrivInv
    <2>2. QED
      BY <1>8, <2>1 DEF Idle
  <1>10. l \in {"idle", "disconnect"} /\ (l = "disconnect" => ~watched)
    OBVIOUS
  <1> HIDE DEF t, l
  <1>11. ASSUME NEW u \in Transfers
         PROVE  /\ Adding(u)' <=> Adding(u)
                /\ Undoing(u)' <=> Undoing(u)
                /\ ~Finishing(u)' /\ ~Finished(u)' /\ ~Finishing(u)
                /\ u # t => ~Finished(u)
    <2>1. Moves(Handler, l, NoT, u)
      BY <1>1, <1>3, RolesMove
    <2>2. ~At(Handler, "add", u) /\ ~At(Handler, "undo", u) /\ ~Finishing(u) /\ (u # t => ~Finished(u))
      BY <1>1 DEF At, Finishing, Finished, t
    <2>3. QED
      BY <1>10, <2>1, <2>2 DEF Moves
  <1>12. TypeOK'
    BY <1>1, <1>5, <1>7, <1>8, Frame DEF TypeOK, PrivOf
  <1>13. PcInv'
    <2>1. l \in {"idle"} \cup Submitting \cup Handling /\ l \notin Submitting
      BY <1>10 DEF Submitting, Handling
    <2>2. plugged' = plugged /\ watched' = watched /\ (~watched' => ~plugged)
      BY <1>1 DEF PcInv
    <2>3. \A g \in Threads \ {Handler} : pc[g] \in Submitting => tlock'[cur[g]] = tlock[cur[g]]
      BY <1>1
    <2>4. l \notin {"timeout", "complete", "gone", "disarm", "callback", "called"}
      BY <1>10
    <2>5. MayMove(Handler, l, NoT)
      BY <1>3, <1>10, <2>1, <2>2, <2>3, <2>4 DEF MayMove
    <2>6. QED
      BY <1>1, <1>3, <2>5, PcMove
  <1>14. ListInv'
    <2>1. ASSUME NEW u \in Transfers PROVE OneInv(u)'
      <3>1. /\ backend' = backend /\ Type' = Type /\ watched' = watched /\ (Listed(u)' <=> Listed(u)) /\ OneInv(u)
            /\ Idle(u)' <=> Idles(priv'[u])
        BY <1>1, Frame DEF ListInv, Listed, Idle
      <3>2. CASE u = t
        <4>1. CASE owed'[t]
          <5>1. Idles(priv'[u]) <=> Idle(u)
            BY <1>8, <3>2, <4>1 DEF Idle
          <5>2. QED
            BY <1>5, <1>11, <3>1, <3>2, <4>1, <5>1 DEF OneInv
        <4>2. CASE ~owed'[t]
          BY <1>4, <1>6, <1>9, <1>11, <3>1, <3>2, <4>2 DEF OneInv
        <4>3. QED
          BY <4>1, <4>2
      <3>3. CASE u # t
        BY <1>5, <1>9, <1>11, <3>1, <3>3 DEF OneInv
      <3>4. QED
        BY <3>2, <3>3
    <2>2. QED
      BY <2>1 DEF ListInv
  <1>15. PrivInv'
    BY <1>1, <1>9, Frame DEF PrivInv
  <1>16. OrderInv'
    BY <1>1 DEF OrderInv, Ordered, IsSet
  <1>17. DataInv'
    <2>1. ASSUME NEW u \in Transfers, Type'[u] = "bulk", owed'[u] PROVE KeptOf(u)'
      <3>1. Type[u] = "bulk" /\ owed[u] /\ ~Finished(u) /\ ~Finishing(u)
        BY <1>1, <1>5, <1>11, <2>1, Frame
      <3>2. transferred[u] = got[u] \/ (~Adding(u) /\ Stalls(priv[u]))
        BY <3>1 DEF DataInv, KeptOf
      <3>3. transferred'[u] = transferred[u] /\ got'[u] = got[u] /\ priv'[u] = priv[u]
        BY <1>7, <1>8, <2>1
      <3>4. Stalls(priv[u])' <=> Stalls(priv[u])
        BY <1>1, <3>3, Frame
      <3>5. QED
        BY <1>11, <3>2, <3>3, <3>4 DEF KeptOf
    <2>2. QED
      BY <1>7, <2>1 DEF DataInv
  <1>18. QED
    BY <1>1, <1>12, <1>13, <1>14, <1>15, <1>16, <1>17

\* Of a device that is gone each transfer is cleared, and ends as such.
LEMMA DisconnectStep ==
  ASSUME IInv, Disconnect
  PROVE  IInv'
  <1> USE DEF IInv
  <1>1. /\ pc[Handler] = "disconnect"
        /\ UNCHANGED <<setup, expiring, flock, tlock, timer, plugged, watched, flying, timeout, timed_out, transferred, histVars>>
    BY DEF Disconnect
  <1>2. Handler \in Threads /\ Handler \notin Apps /\ ~watched /\ ~plugged
    BY <1>1, TransferAssumption DEF PcInv, Threads
  <1>3. flying \in Seq(Transfers) /\ DOMAIN flying = 1 .. Len(flying) /\ Len(flying) \in Nat
    BY DEF TypeOK
  <1>4. CASE flying = <<>>
    <2>1. pc' = [pc EXCEPT ![Handler] = "idle"] /\ cur' = [cur EXCEPT ![Handler] = NoT] /\ priv' = priv /\ status' = status
      BY <1>4 DEF Disconnect, Finish, Goto
    <2>2. TypeOK'
      BY <1>1, <2>1, Frame DEF TypeOK, PrivOf, histVars
    <2>3. PcInv'
      <3>1. MayMove(Handler, "idle", NoT)
        BY <1>1, <1>2 DEF MayMove, Submitting, Handling
      <3>2. QED
        BY <1>2, <2>1, <3>1, PcMove
    <2>4. \A u \in Transfers : SameRoles(u)
      <3>1. "idle" \in Elsewhere /\ pc[Handler] \in Elsewhere
        BY <1>1 DEF Elsewhere
      <3>2. QED
        BY <1>2, <2>1, <3>1, QuietRoles
    <2>5. ListInv' /\ PrivInv' /\ DataInv' /\ OrderInv'
      BY <1>1, <2>1, <2>4, QuietPriv, QuietStep DEF histVars
    <2>6. QED
      BY <1>1, <2>2, <2>3, <2>5 DEF histVars
  <1>5. CASE flying # <<>>
    <2>1. PICK t \in Transfers : t = Head(flying)
      BY <1>3, <1>5
    <2>2. /\ cur' = [cur EXCEPT ![Handler] = t] /\ priv' = [priv EXCEPT ![t] = Clear(t)]
          /\ status' = "NO_DEVICE" /\ pc' = [pc EXCEPT ![Handler] = "gone"]
      BY <1>5, <2>1 DEF Disconnect, Goto
    <2>3. Listed(t)
      BY <1>3, <1>5, <2>1 DEF Listed
    <2>4. ASSUME NEW u \in Transfers
          PROVE  /\ Adding(u)' <=> Adding(u)
                 /\ Undoing(u)' <=> Undoing(u)
                 /\ Finishing(u)' <=> u = t
                 /\ ~Finished(u)' /\ ~Finished(u) /\ ~Finishing(u)
      <3>1. Moves(Handler, "gone", t, u)
        BY <1>2, <2>2, RolesMove
      <3>2. ~At(Handler, "add", u) /\ ~At(Handler, "undo", u) /\ ~Finishing(u) /\ ~Finished(u)
        BY <1>1 DEF At, Finishing, Finished
      <3>3. QED
        BY <3>1, <3>2 DEF Moves
    <2>5. ~Undoing(t)
      <3>1. SUFFICES ASSUME Undoing(t) PROVE FALSE
        OBVIOUS
      <3>2. PICK h \in Threads : pc[h] = "undo"
        BY <3>1 DEF Undoing, At
      <3>3. QED
        BY <1>1, <1>2, <3>2 DEF PcInv, Threads
    <2>6. owed[t] /\ ~Adding(t)
      BY <2>3 DEF ListInv, OneInv
    <2>7. Sound(t, Clear(t)) /\ (backend # "darwin" => Idles(Clear(t)))
      BY ClearSound
    <2>8. priv \in [Transfers -> PrivOf] /\ Clear(t) \in PrivOf
      BY <2>7, SetupParts DEF Sound
    <2>9. \A u \in Transfers : priv'[u] = IF u = t THEN Clear(t) ELSE priv[u]
      BY <2>2, <2>8
    <2>10. TypeOK'
      <3>1. priv' \in [Transfers -> PrivOf]
        BY <2>2, <2>8
      <3>2. QED
        BY <1>1, <2>2, <3>1, Frame DEF TypeOK, PrivOf, histVars
    <2>11. PcInv'
      <3>1. MayMove(Handler, "gone", t)
        BY <1>1, <1>2 DEF MayMove, Submitting, Handling
      <3>2. QED
        BY <1>2, <2>2, <3>1, PcMove
    <2>12. ListInv'
      <3>1. ASSUME NEW u \in Transfers PROVE OneInv(u)'
        <4>1. /\ backend' = backend /\ Type' = Type /\ watched' = watched /\ owed' = owed
              /\ (Listed(u)' <=> Listed(u)) /\ OneInv(u)
          BY <1>1, Frame DEF ListInv, Listed, histVars
        <4>2. CASE u = t
          <5>1. backend = "darwin" \/ Idle(u)'
            BY <1>1, <2>7, <2>9, <4>2, Frame DEF Idle
          <5>2. QED
            BY <1>2, <2>3, <2>4, <2>5, <2>6, <4>1, <4>2, <5>1 DEF OneInv
        <4>3. CASE u # t
          <5>1. Idle(u)' <=> Idle(u)
            BY <1>1, <2>9, <4>3, Frame DEF Idle
          <5>2. QED
            BY <2>4, <4>1, <4>3, <5>1 DEF OneInv
        <4>4. QED
          BY <4>2, <4>3
      <3>2. QED
        BY <3>1 DEF ListInv
    <2>13. PrivInv'
      BY <1>1, <2>7, <2>9, Frame DEF PrivInv
    <2>14. OrderInv'
      BY <1>1 DEF OrderInv, Ordered, IsSet
    <2>15. DataInv'
      <3>1. ASSUME NEW u \in Transfers, Type'[u] = "bulk", owed'[u] PROVE KeptOf(u)'
        <4>1. CASE u = t
          BY <2>2, <2>4, <4>1 DEF KeptOf
        <4>2. CASE u # t
          <5>1. KeptOf(u) /\ transferred' = transferred /\ got' = got
            BY <1>1, <3>1, Frame DEF DataInv, histVars
          <5>2. Stalls(priv[u])' <=> Stalls(priv[u])
            BY <1>1, <2>9, <4>2, Frame
          <5>3. QED
            BY <2>4, <5>1, <5>2 DEF KeptOf
        <4>3. QED
          BY <4>1, <4>2
      <3>2. QED
        BY <1>1, <3>1 DEF DataInv, histVars
    <2>16. QED
      BY <1>1, <2>10, <2>11, <2>12, <2>13, <2>14, <2>15 DEF histVars
  <1>6. QED
    BY <1>4, <1>5

-----------------------------------------------------------------------------
\* At first no transfer is submitted.
LEMMA InitInv ==
  ASSUME Init
  PROVE  IInv
  <1> USE DEF Init
  <1>1. Handler \in Threads /\ NoT \notin Transfers
    BY TransferAssumption DEF Threads
  <1>2. NoPriv(backend) \in PrivOf
    <2>1. backend \in {"linux", "darwin", "windows"}
      BY TransferAssumption DEF backend
    <2>2. Linux!NoPriv \in Linux!Priv
      BY DEF Linux!NoPriv, Linux!Priv
    <2>3. Darwin!NoPriv \in Darwin!Priv
      BY DEF Darwin!NoPriv, Darwin!Priv
    <2>4. Windows!NoPriv \in Windows!Priv
      BY DEF Windows!NoPriv, Windows!Priv
    <2>5. QED
      BY <2>1, <2>2, <2>3, <2>4 DEF PrivOf, NoPriv
  <1>3. TypeOK
    <2>1. flying \in Seq(Transfers)
      OBVIOUS
    <2>2. priv \in [Transfers -> PrivOf]
      BY <1>2
    <2>3. /\ tlock \in [Transfers -> Threads \cup {NoT}] /\ timeout \in [Transfers -> Nat \cup {Unset}]
          /\ timed_out \in [Transfers -> BOOLEAN] /\ transferred \in [Transfers -> Nat]
          /\ cur \in [Threads -> Transfers \cup {NoT}] /\ owed \in [Transfers -> BOOLEAN]
      OBVIOUS
    <2>4. QED
      BY <2>1, <2>2, <2>3 DEF TypeOK, PrivOf
  <1>4. PcInv
    BY <1>1 DEF PcInv, Submitting, Handling, Threads
  <1>5. \A t \in Transfers : /\ priv[t] = NoPriv(backend) /\ ~owed[t] /\ ~Listed(t)
                             /\ ~Adding(t) /\ ~Undoing(t) /\ ~Finishing(t) /\ ~Finished(t)
    BY <1>1 DEF Listed, Adding, Undoing, Finishing, Finished, At
  <1>6. \A t \in Transfers : Sound(t, priv[t]) /\ Idle(t)
    BY <1>3, <1>5, NoPrivSound DEF Idle
  <1>7. ListInv
    BY <1>5, <1>6 DEF ListInv, OneInv
  <1>8. OrderInv /\ PrivInv /\ DataInv
    BY <1>5, <1>6 DEF OrderInv, Ordered, PrivInv, DataInv
  <1>9. QED
    BY <1>3, <1>4, <1>7, <1>8 DEF IInv, Clean

\* Every step keeps the invariant.
LEMMA IndStep ==
  ASSUME QuietUnplug, IInv, [Next]_vars
  PROVE  IInv'
  <1>1. CASE UNCHANGED vars
    <2>1. UNCHANGED <<setup, expiring, flock, tlock, timer, plugged, watched, xferVars, thrVars, histVars>>
      BY <1>1 DEF vars
    <2>2. TypeOK'
      BY <2>1, Frame DEF IInv, TypeOK, PrivOf, xferVars, thrVars, histVars
    <2>3. PcInv' /\ \A t \in Transfers : SameRoles(t)
      BY <2>1, RolesStay DEF IInv, PcInv, thrVars, SameRoles
    <2>4. ListInv' /\ PrivInv' /\ DataInv' /\ OrderInv'
      BY <2>1, <2>3, QuietPriv, QuietStep DEF xferVars, thrVars, histVars
    <2>5. QED
      BY <2>1, <2>2, <2>3, <2>4 DEF IInv, histVars
  <1>2. ASSUME NEW h \in Threads, NEW t \in Transfers, Submit(h, t) \/ Cancel(h, t) PROVE IInv'
    BY <1>2, SubmitStep, CancelStep
  <1>3. ASSUME NEW h \in Threads, SubmitSteps(h) PROVE IInv'
    BY <1>3, AddAndSubmitStep, UndoStep, SubmittedStep DEF SubmitSteps
  <1>4. CASE TimeoutSteps
    BY <1>4, HandleTimeoutsStep, TimeOutStep, TimeOutCancelStep, TimeoutsDoneStep DEF TimeoutSteps
  <1>5. CASE EventSteps
    BY <1>5, HandleEventStep, CompleteStep, DisarmStep, CalledStep, SeeUnplugStep, DisconnectStep DEF EventSteps
  <1>6. ASSUME NEW t \in Transfers, Serve(t) PROVE IInv'
    BY <1>6, ServeStep
  <1>7. CASE Unplug \/ Tick
    BY <1>7, UnplugStep, TickStep
  <1>8. CASE WaitedLong \/ WaiterSteps
    BY <1>8, WaiterStep
  <1>9. QED
    BY <1>1, <1>2, <1>3, <1>4, <1>5, <1>6, <1>7, <1>8 DEF Next

\* What is listed, added or finished is owed a callback and the other way
\* round, what the backend has is listed, the list is in order, and what the
\* backend keeps of each transfer is sound: through every submission, event,
\* timeout, cancellation and disconnection of io.c.
THEOREM TransfersInv ==
  ASSUME QuietUnplug
  PROVE  Spec => []IInv
  <1>1. Init => IInv
    BY InitInv
  <1>2. IInv /\ [Next]_vars => IInv'
    BY IndStep
  <1>3. QED
    BY <1>1, <1>2, PTL DEF Spec

\* usbi_handle_transfer_completion calls the callback of a transfer only when
\* libusb owes one, and the kernel has no URB of a transfer it calls back.
THEOREM CallbacksRight ==
  ASSUME QuietUnplug, ~OverAnywhere
  PROVE  Spec => []CallbackOwed
  <1>1. IInv => CallbackOwed
    <2>1. SUFFICES ASSUME IInv PROVE CallbackOwed
      OBVIOUS
    <2>2. ASSUME pc[Handler] = "callback" PROVE owed[cur[Handler]]
      <3>1. cur[Handler] \in Transfers /\ Finished(cur[Handler])
        BY <2>1, <2>2 DEF IInv, PcInv, Finished, At
      <3>2. QED
        BY <2>1, <3>1 DEF IInv, ListInv, OneInv
    <2>3. QED
      BY <2>1, <2>2 DEF CallbackOwed, IInv, Clean
  <1>2. QED
    BY <1>1, TransfersInv, PTL

\* The list add_to_flying_list keeps is in the order of the timeouts, each
\* transfer once; what is owed a callback is in it unless some thread is at it;
\* and the operating system has something of each that nobody is at, so that
\* no transfer waits for an URB that will never come back.
THEOREM FlyingRight ==
  ASSUME QuietUnplug
  PROVE  Spec => []FlyingExact
  <1>1. IInv => FlyingExact
    <2>1. SUFFICES ASSUME IInv PROVE FlyingExact
      OBVIOUS
    <2>2. ASSUME NEW t \in Transfers, \A h \in Threads : cur[h] # t
          PROVE  (Listed(t) => Coming(t)) /\ (owed[t] => Listed(t))
      <3>1. ~Adding(t) /\ ~Undoing(t) /\ ~Finishing(t) /\ ~Finished(t)
        BY <2>2 DEF Adding, Undoing, Finishing, Finished, At, Threads
      <3>2. OneInv(t) /\ Sound(t, priv[t])
        BY <2>1 DEF IInv, ListInv, PrivInv
      <3>3. Listed(t) => ~Idle(t)
        BY <3>1, <3>2 DEF OneInv
      <3>4. ~Idle(t) => Coming(t)
        <4>1. CASE backend = "linux"
          BY <3>2, <4>1 DEF Sound, UrbsRight, Idle, Idles, Coming
        <4>2. CASE backend # "linux"
          BY <4>2 DEF Idle, Idles, Coming
        <4>3. QED
          BY <4>1, <4>2
      <3>5. owed[t] => Listed(t)
        BY <3>1, <3>2 DEF OneInv
      <3>6. QED
        BY <3>3, <3>4, <3>5
    <2>3. StillComing
      <3>1. ASSUME NEW k \in DOMAIN flying, \A h \in Threads : cur[h] # flying[k]
            PROVE  Coming(flying[k])
        <4>1. PICK t \in Transfers : t = flying[k]
          BY <2>1 DEF IInv, TypeOK
        <4>2. Listed(t)
          BY <4>1 DEF Listed
        <4>3. Coming(t)
          BY <2>2, <3>1, <4>1, <4>2
        <4>4. QED
          BY <4>1, <4>3
      <3>2. QED
        BY <3>1 DEF StillComing
    <2>4. Sorted
      BY <2>1, <2>2 DEF IInv, OrderInv, Ordered, Listed, Sorted
    <2>5. QED
      BY <2>1, <2>3, <2>4 DEF FlyingExact, IInv
  <1>2. QED
    BY <1>1, TransfersInv, PTL

\* A bulk transfer that completes, is cancelled or times out reports all the
\* data its URBs brought, but after a stall on Linux: handle_bulk_completion
\* adds also what comes while the rest of the transfer is torn down.
THEOREM DataRight ==
  ASSUME QuietUnplug
  PROVE  Spec => []DataKept
  <1>1. IInv => DataKept
    <2>1. SUFFICES ASSUME IInv, Interrupted, ~Stalled(cur[Handler]) PROVE Reported
      BY DEF DataKept
    <2>2. /\ cur[Handler] \in Transfers /\ Type[cur[Handler]] = "bulk" /\ Finished(cur[Handler])
          /\ status # "NO_DEVICE"
      BY <2>1 DEF Interrupted, IInv, PcInv, Finished, At
    <2>3. owed[cur[Handler]]
      BY <2>1, <2>2 DEF IInv, ListInv, OneInv
    <2>4. KeptOf(cur[Handler])
      BY <2>1, <2>2, <2>3 DEF IInv, DataInv
    <2>5. QED
      BY <2>1, <2>2, <2>4 DEF KeptOf, Stalled, Stalls, Reported
  <1>2. QED
    BY <1>1, TransfersInv, PTL
=============================================================================
