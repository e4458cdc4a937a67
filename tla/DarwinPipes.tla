---------------------------- MODULE DarwinPipes ----------------------------
(***************************************************************************)
(* Asynchronous transfers on Mac OS (os/darwin_usb.c).  IOKit calls        *)
(* darwin_async_io_callback on the thread of the run loop, which writes    *)
(* the result into the pipe of the handle; op_handle_events reads it.      *)
(***************************************************************************)
EXTENDS Naturals

\* A transfer IOKit "has", has "cut" short, or whose message is "told".
\* darwin_usb.h 147-162: struct darwin_transfer_priv
Priv == [st : {"idle", "has", "cut", "told"},
         result : {"Success", "Underrun", "Aborted", "Stalled", "Overrun", "Timeout", "Other"},
         io_size : 0 .. 2]

NoPriv == [st |-> "idle", result |-> "Success", io_size |-> 0]

\* Endpoints are looked up on the claimed interfaces (ep_to_pipeRef), a bus
\* frame number is asked for; IOKit may refuse.
\* darwin_usb.c 1103-1157: submit_bulk_transfer
SubmitBulk == {"SUCCESS", "NOT_FOUND", "IO"}
\* darwin_usb.c 1159-1237: submit_iso_transfer
SubmitIso == {"SUCCESS", "NO_MEM", "NOT_FOUND", "IO"}
\* darwin_usb.c 1239-1270: submit_control_transfer
SubmitControl == {"SUCCESS", "IO"}

\* Nothing here refuses a transfer that is already submitted.
\* darwin_usb.c 1272-1287: darwin_submit_transfer
Submits(type) ==
  LET r == CASE type = "control" -> SubmitControl
             [] type = "bulk" -> SubmitBulk
             [] type = "iso" -> SubmitIso
  IN {[r |-> x, p |-> IF x = "SUCCESS" THEN [NoPriv EXCEPT !.st = "has"] ELSE NoPriv] : x \in r}

\* AbortPipe ends every transfer of the pipe, USBDeviceAbortPipeZero every
\* control transfer of the device; priv is the private data of all transfers
\* and peers those that share the pipe.
\* darwin_usb.c 1289-1348: darwin_cancel_transfer
Cancel(priv, peers) ==
  [t \in DOMAIN priv |-> IF t \in peers /\ priv[t].st = "has" THEN [priv[t] EXCEPT !.st = "cut"] ELSE priv[t]]

\* darwin_usb.c 1360-1374: darwin_async_io_callback
Serve(type, p) ==
  CASE p.st = "has" -> {[st |-> "told", result |-> "Success", io_size |-> 2],
                        [st |-> "told", result |-> "Underrun", io_size |-> 1]}
                       \cup {[st |-> "told", result |-> x, io_size |-> 0] : x \in {"Stalled", "Other"}}
                       \cup (IF type = "iso" THEN {} ELSE {[st |-> "told", result |-> "Overrun", io_size |-> 0],
                                                           [st |-> "told", result |-> "Timeout", io_size |-> 0]})
    [] p.st = "cut" -> {[st |-> "told", result |-> "Aborted", io_size |-> 0]}
    [] OTHER -> {}

\* darwin_usb.c 1376-1400: darwin_transfer_status
Status(p, timedOut) ==
  IF timedOut THEN "TIMED_OUT"
  ELSE CASE p.result \in {"Success", "Underrun"} -> "COMPLETED"
         [] p.result = "Aborted" -> "CANCELLED"
         [] p.result = "Stalled" -> "STALL"
         [] p.result = "Overrun" -> "OVERFLOW"
         [] p.result = "Timeout" -> "TIMED_OUT"
         [] OTHER -> "ERROR"

\* darwin_usb.c 1402-1434: darwin_handle_callback
Handle(type, p, timedOut) ==
  [p |-> NoPriv, left |-> {},
   add |-> IF type # "iso" /\ p.result \in {"Success", "Underrun"} THEN p.io_size ELSE 0,
   end |-> Status(p, timedOut)]

\* darwin_usb.c 1350-1358: darwin_clear_transfer_priv
Clear(p) == p
=============================================================================
