----------------------------- MODULE UsbfsUrbs -----------------------------
(***************************************************************************)
(* The URBs of a transfer on Linux (os/linux_usbfs.c).  A bulk or an       *)
(* isochronous transfer may be several URBs.  The private data of a        *)
(* transfer is a record, and each operation of the backend the set of its  *)
(* outcomes; the kernel's part is in Serve.                                *)
(***************************************************************************)
EXTENDS Integers, Sequences

CONSTANT NumUrbs   \* URBs of a transfer of each type

\* What the constants must be (assumed where this is instantiated)
UrbAssumption ==
  /\ NumUrbs \in [{"control", "bulk", "iso"} -> Nat \ {0}]
  /\ NumUrbs["control"] = 1

Full == 2   \* the data of a whole URB; less is a short one

\* An URB: "sent" to the kernel, "cut" while a discard is under way, "done"
\* when it can be reaped, "back" afterwards; "refused" ones never left.
\* linux_usbfs.h 95-109: struct usbfs_urb
Urb == [st : {"sent", "cut", "done", "back", "refused"},
        code : {"OK", "EREMOTEIO", "EPIPE", "EOVERFLOW", "EPROTO", "ENOENT"},
        len : 0 .. Full]

Sent == [st |-> "sent", code |-> "OK", len |-> 0]

\* No urbs is urbs = NULL.
\* linux_usbfs.c 113-142: struct linux_transfer_priv
Priv == [urbs : Seq(Urb),
         reap_action : {"NORMAL", "SUBMIT_FAILED", "CANCELLED", "COMPLETED_EARLY", "ERROR"},
         num_retired : Nat,
         reap_status : {"COMPLETED", "ERROR", "STALL", "OVERFLOW"},
         iso_packet_offset : Nat]

NoPriv == [urbs |-> <<>>, reap_action |-> "NORMAL", num_retired |-> 0,
           reap_status |-> "COMPLETED", iso_packet_offset |-> 0]

\* IOCTL_USBFS_DISCARDURB: what is done already stays done (EINVAL).
Discard(u) == IF u.st = "sent" THEN [u EXCEPT !.st = "cut"] ELSE u

\* The URBs from the i-th on, which are not sent, count as retired.
UnsentShort(n, i) == n - i
\* linux_usbfs.c 1434-1443: submit_bulk_transfer
Unsent(n, i) == n - i + 1

\* All n URBs are accepted, or the first i - 1 of them.  If the first is
\* refused nothing remains; if a later one is, the submission has succeeded,
\* and the transfer ends when the earlier URBs are back.  A continuation is
\* refused with EREMOTEIO when the URB before it was short; Continuation is
\* supports_flag_bulk_continuation.
\* linux_usbfs.c 1340-1463: submit_bulk_transfer
SubmitBulk(n, Continuation) ==
  LET all == [NoPriv EXCEPT !.urbs = [k \in 1 .. n |-> Sent]]
      some(i) == [all EXCEPT !.urbs = [k \in 1 .. n |-> IF k < i THEN Sent ELSE [Sent EXCEPT !.st = "refused"]],
                             !.num_retired = Unsent(n, i)]
      early(i) == [some(i) EXCEPT !.reap_action = "COMPLETED_EARLY",
                                  !.urbs[i - 1] = [st |-> "done", code |-> "EREMOTEIO", len |-> 1]]
      failed(i) == [some(i) EXCEPT !.reap_action = "SUBMIT_FAILED",
                                   !.urbs = [k \in 1 .. n |-> Discard(some(i).urbs[k])]]
  IN [r : {"SUCCESS"}, p : {all} \cup {failed(i) : i \in 2 .. n}
                                 \cup {early(i) : i \in {k \in 2 .. n : Continuation}}]
     \cup [r : {"NO_DEVICE", "IO", "NO_MEM"}, p : {NoPriv}]

\* linux_usbfs.c 1465-1620: submit_iso_transfer
SubmitIso(n) ==
  LET all == [NoPriv EXCEPT !.urbs = [k \in 1 .. n |-> Sent]]
      failed(i) == [all EXCEPT !.reap_action = "SUBMIT_FAILED", !.num_retired = Unsent(n, i),
                               !.urbs = [k \in 1 .. n |-> IF k < i THEN Discard(Sent) ELSE [Sent EXCEPT !.st = "refused"]]]
  IN [r : {"SUCCESS"}, p : {all} \cup {failed(i) : i \in 2 .. n}]
     \cup [r : {"NO_DEVICE", "IO", "NO_MEM"}, p : {NoPriv}]

\* linux_usbfs.c 1622-1663: submit_control_transfer
SubmitControl ==
  [r : {"SUCCESS"}, p : {[NoPriv EXCEPT !.urbs = <<Sent>>]}]
  \cup [r : {"NO_DEVICE", "IO", "NO_MEM", "INVALID_PARAM"}, p : {NoPriv}]

\* linux_usbfs.c 1665-1684: op_submit_transfer
Submits(type, p, Continuation) ==
  IF p.urbs # <<>> THEN {[r |-> "BUSY", p |-> p]}
  ELSE CASE type = "control" -> SubmitControl
         [] type = "bulk" -> SubmitBulk(NumUrbs["bulk"], Continuation)
         [] type = "iso" -> SubmitIso(NumUrbs["iso"])

\* linux_usbfs.c 1686-1778: op_cancel_transfer
Cancel(type, p) ==
  IF p.urbs = <<>> THEN p   \* LIBUSB_ERROR_NOT_FOUND
  ELSE [p EXCEPT !.reap_action = IF type = "bulk" /\ @ = "ERROR" THEN @ ELSE "CANCELLED",
                 !.urbs = [k \in DOMAIN @ |-> Discard(@[k])]]

\* The URBs the kernel has, and the first of them
\* external: the operating system
Open(p) == {k \in DOMAIN p.urbs : p.urbs[k].st \in {"sent", "cut"}}
FirstOpen(p) == CHOOSE k \in Open(p) : \A o \in Open(p) : k <= o

Done(c, l) == [st |-> "done", code |-> c, len |-> l]

\* How that URB may end: what the kernel has in hand when it is told to stop
\* may come with some data; over: may an URB that is not the last overflow?
\* external: the operating system
Endings(type, p, Continuation, over) ==
  {Done("OK", Full)}
  \cup (IF p.urbs[FirstOpen(p)].st = "cut" THEN {Done("ENOENT", 0), Done("ENOENT", 1)} ELSE {})
  \cup (IF type = "iso" THEN {Done("EPROTO", 0)}
        ELSE {Done(IF Continuation THEN "EREMOTEIO" ELSE "OK", 1), Done("EPIPE", 0), Done("EPROTO", 0)})
  \cup (IF type = "bulk" /\ (over \/ Open(p) = {FirstOpen(p)}) THEN {Done("EOVERFLOW", 1)} ELSE {})

\* A short or failed URB takes the continuations behind it along.
\* external: the operating system
Served(type, p, Continuation, e) ==
  IF Continuation /\ type = "bulk" /\ e.code # "OK"
  THEN [m \in DOMAIN p.urbs |->
          IF m = FirstOpen(p) THEN e ELSE IF m \in Open(p) THEN Done("ENOENT", 0) ELSE p.urbs[m]]
  ELSE [p.urbs EXCEPT ![FirstOpen(p)] = e]

\* The kernel finishes the first URB it has.
\* external: the operating system
Serve(type, p, Continuation, over) ==
  IF Open(p) = {} THEN {}
  ELSE {[p EXCEPT !.urbs = Served(type, p, Continuation, e)] : e \in Endings(type, p, Continuation, over)}

\* The URB that is reaped next.
Reapable(p) == {k \in DOMAIN p.urbs : /\ p.urbs[k].st = "done"
                                      /\ \A m \in 1 .. k - 1 : p.urbs[m].st # "done"}

\* What handling an URB leads to: the private data, the data it added, and
\* "none" or how the transfer ends; "CANCELLED" leaves it to
\* usbi_handle_transfer_cancellation whether it has timed out.  left is what
\* the kernel has of a transfer whose URBs are freed.
Goes(p, add) == [p |-> p, add |-> add, end |-> "none", left |-> {}]
Ends(p, add, status) ==
  [p |-> [NoPriv EXCEPT !.reap_status = p.reap_status], add |-> add, end |-> status,
   left |-> {k \in DOMAIN p.urbs : p.urbs[k].st \in {"sent", "cut", "done"}}]

\* What an URB brought: surplus data too, of a transfer that is being torn down.
AddsNormal(p, u) == IF u.code \in {"OK", "EREMOTEIO"} THEN u.len ELSE 0
\* linux_usbfs.c 1833-1861: handle_bulk_completion
Adds(p, u) == IF \/ p.reap_action # "NORMAL" \/ u.code \in {"OK", "EREMOTEIO"}
                 \/ u.code = "EOVERFLOW" /\ u.len > 0
              THEN u.len ELSE 0

\* linux_usbfs.c 1802-1937: handle_bulk_completion
HandleBulk(p, k, Continuation) ==
  LET u == p.urbs[k]  n == Len(p.urbs)
      q == [p EXCEPT !.urbs[k].st = "back", !.num_retired = @ + 1]
      all == q.num_retired = n
      adds == Adds(p, u)
      to(s) == [q EXCEPT !.reap_status = IF @ = "COMPLETED" THEN s ELSE @]
      done(x) == Ends(x, adds, IF x.reap_action = "CANCELLED" THEN "CANCELLED" ELSE x.reap_status)
      cancelRest(x) ==
        IF all THEN done(x)
        ELSE Goes([x EXCEPT !.urbs = [m \in DOMAIN @ |-> IF m > k /\ ~Continuation THEN Discard(@[m]) ELSE @[m]]], adds)
  IN IF p.reap_action # "NORMAL"
     THEN IF all THEN done(IF p.reap_action = "COMPLETED_EARLY" THEN q ELSE to("ERROR")) ELSE Goes(q, adds)
     ELSE CASE u.code = "EPIPE" -> cancelRest(to("STALL"))
            [] u.code = "EOVERFLOW" -> done(to("OVERFLOW"))
            [] u.code = "EPROTO" -> cancelRest([to("ERROR") EXCEPT !.reap_action = "ERROR"])
            [] u.code = "ENOENT" -> cancelRest(to("ERROR"))
            [] OTHER -> IF k = n THEN done(q)
                        ELSE IF u.len < Full THEN cancelRest([q EXCEPT !.reap_action = "COMPLETED_EARLY"])
                        ELSE Goes(q, adds)

\* linux_usbfs.c 1939-2023: handle_iso_completion
HandleIso(p, k) ==
  LET n == Len(p.urbs)
      q == [p EXCEPT !.urbs[k].st = "back", !.num_retired = @ + 1,
                     !.iso_packet_offset = IF p.urbs[k].code = "OK" THEN @ + 1 ELSE @]
  IN IF p.reap_action # "NORMAL"
     THEN IF q.num_retired # n THEN Goes(q, 0)
          ELSE Ends(q, 0, IF p.reap_action = "CANCELLED" THEN "CANCELLED" ELSE "ERROR")
     ELSE IF k = n THEN Ends(q, 0, "COMPLETED") ELSE Goes(q, 0)

\* linux_usbfs.c 2025-2073: handle_control_completion
HandleControl(p, k) ==
  LET u == p.urbs[k]
      add == IF u.code = "OK" THEN u.len ELSE 0
  IN Ends([p EXCEPT !.urbs[k].st = "back"], add, CASE p.reap_action = "CANCELLED" -> "CANCELLED"
                 [] u.code = "OK" -> "COMPLETED"
                 [] u.code = "EPIPE" -> "STALL"
                 [] OTHER -> "ERROR")

\* linux_usbfs.c 2075-2114: reap_for_handle
Handle(type, p, k, Continuation) ==
  CASE type = "control" -> HandleControl(p, k)
    [] type = "bulk" -> HandleBulk(p, k, Continuation)
    [] type = "iso" -> HandleIso(p, k)
=============================================================================
