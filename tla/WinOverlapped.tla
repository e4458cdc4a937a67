--------------------------- MODULE WinOverlapped ---------------------------
(***************************************************************************)
(* Transfers on Windows (os/windows_usb.c, the WinUSB interface): each is  *)
(* an overlapped request with a descriptor of its own that is polled.      *)
(***************************************************************************)
EXTENDS Naturals

\* A request that is pending, that has been cut short, or whose descriptor
\* is ready with a result; polled: is the descriptor among those polled?
\* windows_usb.h 324-330: struct windows_transfer_priv
Priv == [st : {"idle", "pending", "cut", "ready"}, polled : BOOLEAN,
         io_result : {"NO_ERROR", "GEN_FAILURE", "SEM_TIMEOUT", "OPERATION_ABORTED", "OTHER"},
         io_size : 0 .. 2]

NoPriv == [st |-> "idle", polled |-> FALSE, io_result |-> "NO_ERROR", io_size |-> 0]

Accepted == {[NoPriv EXCEPT !.st = "pending"], [NoPriv EXCEPT !.st = "ready", !.io_size = 2]}

\* The interface of the endpoint must be claimed, a descriptor be free, and
\* the request pend or be completed at once.
\* windows_usb.c 2770-2825: winusb_submit_bulk_transfer
SubmitBulk == [r : {"SUCCESS"}, p : Accepted] \cup [r : {"NOT_FOUND", "NO_MEM", "IO"}, p : {NoPriv}]

\* windows_usb.c 2684-2742: winusb_submit_control_transfer
SubmitControl ==
  [r : {"SUCCESS"}, p : Accepted] \cup [r : {"INVALID_PARAM", "NOT_FOUND", "NO_MEM", "IO"}, p : {NoPriv}]

\* windows_usb.c 2305-2322: unsupported_submit_iso_transfer
SubmitIso == [r : {"NOT_SUPPORTED"}, p : {NoPriv}]

\* What was accepted is polled from now on.
\* windows_usb.c 1879-1961: windows_submit_transfer
Submits(type) ==
  {IF o.r = "SUCCESS" THEN [o EXCEPT !.p.polled = TRUE] ELSE o :
     o \in CASE type = "control" -> SubmitControl [] type = "bulk" -> SubmitBulk [] type = "iso" -> SubmitIso}

\* WinUSB cannot cancel a control transfer (winusb_abort_control), and ends
\* all transfers of a pipe together.
\* windows_usb.c 2860-2892: winusb_abort_transfers
Cancel(type, priv, peers) ==
  IF type = "control" THEN priv
  ELSE [t \in DOMAIN priv |-> IF t \in peers /\ priv[t].st = "pending" THEN [priv[t] EXCEPT !.st = "cut"] ELSE priv[t]]

\* external: the operating system
Serve(p) ==
  LET ready(r, n) == [p EXCEPT !.st = "ready", !.io_result = r, !.io_size = n]
  IN CASE p.st = "pending" -> {ready("NO_ERROR", 2), ready("NO_ERROR", 1)}
                              \cup {ready(r, 0) : r \in {"GEN_FAILURE", "SEM_TIMEOUT", "OTHER"}}
       [] p.st = "cut" -> {ready("OPERATION_ABORTED", 0)}
       [] OTHER -> {}

\* windows_usb.c 2003-2055: windows_transfer_callback
Handle(p, timedOut) ==
  [p |-> NoPriv, left |-> {}, add |-> IF p.io_result = "NO_ERROR" THEN p.io_size ELSE 0,
   end |-> CASE p.io_result = "NO_ERROR" -> "COMPLETED"
             [] p.io_result = "GEN_FAILURE" -> "STALL"
             [] p.io_result = "SEM_TIMEOUT" -> "TIMED_OUT"
             [] p.io_result = "OPERATION_ABORTED" -> IF timedOut THEN "TIMED_OUT" ELSE "CANCELLED"
             [] OTHER -> "ERROR"]

\* windows_usb.c 1867-1877: windows_clear_transfer_priv
Clear(p) == NoPriv
=============================================================================
