---------------------------- MODULE UsbTransfers ----------------------------
(***************************************************************************)
(* Asynchronous transfers of libusb (io.c): submission, cancellation,      *)
(* timeouts and completion of the transfers of one device handle, over the *)
(* backend of the platform, which is fixed when libusb is built.           *)
(*                                                                         *)
(* A step is what a thread does between two points where it may have to    *)
(* wait for a lock.  Handlers are the threads that handle events, one at a *)
(* time; Waiters would as well, and wait for them; Apps submit and cancel  *)
(* on their own.  Time is what is left until a timeout: Tick lowers it.    *)
(***************************************************************************)
EXTENDS Integers, Sequences, SequencesExt, FiniteSets

CONSTANTS
  Transfers, Apps,
  Timeout,        \* of each transfer, in ticks; 0: none
  Refusable,      \* the transfers whose submission may fail
  Setups,         \* <<backend, new kernel, type of each transfer>>
  NumUrbs, OverAnywhere,   \* see UsbfsUrbs
  QuietUnplug     \* is the device unplugged only while nobody submits?

Handler == "handler"
Waiter == "waiter"
Threads == Apps \cup {Handler}
NoT == "none"

ASSUME TransferAssumption ==
  /\ NoT \notin Transfers \cup Apps /\ Handler \notin Apps /\ Refusable \subseteq Transfers
  /\ Timeout \in [Transfers -> Nat]
  /\ Setups \subseteq ({"linux", "darwin", "windows"} \X BOOLEAN \X [Transfers -> {"control", "bulk", "iso", "unused"}])
  /\ \A b \in Setups : b[2] => b[1] = "linux"

Linux == INSTANCE UsbfsUrbs
Darwin == INSTANCE DarwinPipes
Windows == INSTANCE WinOverlapped

ASSUME UrbsSound == Linux!UrbAssumption

VARIABLES
  setup,      \* the backend, the kernel, and the type of each transfer
  flying,     \* flying_transfers
  flock,      \* who holds flying_transfers_lock
  expiring,   \* the transfer that the waiter is about to cancel
  tlock,      \* who holds the lock of each transfer
  timeout,    \* of each transfer: the ticks left, Unset when not set
  timed_out,  \* USBI_TRANSFER_TIMED_OUT
  transferred,
  priv,       \* what the backend keeps of each transfer
  timer,      \* the timerfd: ticks left, or Unset
  plugged, watched,   \* the device is there; its descriptor is polled
  pc, cur,    \* where a thread is, and with which transfer
  first,      \* of a thread that submits: what add_to_flying_list returned
  status,     \* of the transfer that the handler completes
  owed,       \* history: accepted, and not yet called back
  got,        \* history: the data of a transfer that came back
  dangling,   \* history: transfers freed of which the kernel has some
  asked       \* history: transfers somebody cancelled since they were submitted

thrVars == <<pc, cur, first, status>>
histVars == <<owed, got, dangling, asked>>
xferVars == <<flying, timeout, timed_out, transferred, priv>>
vars == <<setup, expiring, flock, tlock, timer, plugged, watched, xferVars, thrVars, histVars>>

Unset == -1
backend == setup[1]
newKernel == setup[2]      \* which can continue a bulk transfer (linux_usbfs.c:1400) ...
usingTimerfd == setup[2]   \* ... and has timerfd
Type == setup[3]
IsSet(t) == timeout[t] # Unset
Peers(t) == {u \in Transfers : Type[u] = Type[t]}   \* transfers of the same pipe

NoPriv(b) == CASE b = "linux" -> Linux!NoPriv [] b = "darwin" -> Darwin!NoPriv [] b = "windows" -> Windows!NoPriv

\* io.c 1185-1202: libusb_alloc_transfer
Init ==
  /\ setup \in Setups
  /\ flying = <<>> /\ flock = NoT /\ expiring = NoT /\ tlock = [t \in Transfers |-> NoT]
  /\ timeout = [t \in Transfers |-> Unset] /\ timed_out = [t \in Transfers |-> FALSE]
  /\ transferred = [t \in Transfers |-> 0]
  /\ priv = [t \in Transfers |-> NoPriv(backend)]
  /\ timer = Unset /\ plugged = TRUE /\ watched = TRUE
  /\ pc = [h \in Threads |-> "idle"] /\ cur = [h \in Threads |-> NoT]
  /\ first = [h \in Threads |-> FALSE] /\ status = NoT
  /\ owed = [t \in Transfers |-> FALSE] /\ got = [t \in Transfers |-> 0]
  /\ dangling = {} /\ asked = {}

Goto(h, l) == pc' = [pc EXCEPT ![h] = l]
Finish == /\ Goto(Handler, "idle") /\ cur' = [cur EXCEPT ![Handler] = NoT]
          /\ UNCHANGED <<first, status>>

-----------------------------------------------------------------------------
\* A transfer is submitted by a program that knows it is not in flight, or
\* again by its own callback.  A timeout of 0 leaves the field as it was.
\* io.c 1083-1110: calculate_timeout
CalculateTimeout(t) == IF Timeout[t] = 0 THEN timeout[t] ELSE Timeout[t]

\* io.c 1245-1260: libusb_submit_transfer
Submit(h, t) ==
  /\ \/ h \in Apps /\ pc[h] = "idle" /\ ~owed[t] /\ (\A o \in Threads : cur[o] # t) /\ (QuietUnplug => plugged)
     \/ h = Handler /\ pc[h] = "callback" /\ cur[h] = t
  /\ Type[t] # "unused" /\ tlock[t] = NoT
  /\ tlock' = [tlock EXCEPT ![t] = h]
  /\ transferred' = [transferred EXCEPT ![t] = 0]
  /\ timed_out' = [timed_out EXCEPT ![t] = FALSE]
  /\ timeout' = [timeout EXCEPT ![t] = CalculateTimeout(t)]
  /\ Goto(h, "add") /\ cur' = [cur EXCEPT ![h] = t]
  /\ owed' = [owed EXCEPT ![t] = TRUE] /\ got' = [got EXCEPT ![t] = 0]
  /\ asked' = asked \ {t}
  /\ UNCHANGED <<setup, expiring, flock, timer, plugged, watched, flying, priv, first, status, dangling>>

LaterSet(u, t) == timeout[u] > timeout[t]
\* io.c 1135-1144: add_to_flying_list
Later(u, t) == ~IsSet(u) \/ timeout[u] > timeout[t]

\* The list is ordered by timeout, those without one last.
\* io.c 1115-1159: add_to_flying_list
Added(t) ==
  LET later(k) == Later(flying[k], t)
      at == IF IsSet(t) /\ \E k \in DOMAIN flying : later(k)
            THEN CHOOSE k \in DOMAIN flying : later(k) /\ \A m \in 1 .. k - 1 : ~later(m)
            ELSE Len(flying) + 1
  IN [list |-> InsertAt(flying, at, t), first |-> IsSet(t) /\ at = 1]

\* linux_usbfs.c 1665-1684: op_submit_transfer
Submits(t) ==
  LET all == CASE backend = "linux" -> Linux!Submits(Type[t], priv[t], newKernel)
               [] backend = "darwin" -> Darwin!Submits(Type[t])
               [] backend = "windows" -> Windows!Submits(Type[t])
  IN {o \in all : (plugged /\ t \notin Refusable /\ \E a \in all : a.r = "SUCCESS") => o.r = "SUCCESS"}

\* Once the transfer is in the list nothing waits until the backend answers.
\* io.c 1262-1266: libusb_submit_transfer
AddAndSubmit(h) ==
  /\ pc[h] = "add" /\ flock = NoT
  /\ flying' = Added(cur[h]).list /\ first' = [first EXCEPT ![h] = Added(cur[h]).first]
  /\ \E o \in Submits(cur[h]) :
       /\ plugged \/ o.r # "SUCCESS"
       /\ priv' = [priv EXCEPT ![cur[h]] = o.p]
       /\ Goto(h, IF o.r = "SUCCESS" THEN "submitted" ELSE "undo")
  /\ UNCHANGED <<setup, expiring, flock, tlock, timer, plugged, watched, timeout, timed_out, transferred, cur, status, histVars>>

\* Where a transfer is in the list
Place(t) == CHOOSE k \in DOMAIN flying : flying[k] = t
Kept(t) == flying
\* list_del leaves the order of the others as it is.
\* io.c 1396-1400: usbi_handle_transfer_completion
Without(t) == RemoveAt(flying, Place(t))

\* A callback goes on after its submission.
Answered(h) == /\ first' = [first EXCEPT ![h] = FALSE] /\ UNCHANGED status
               /\ IF h = Handler THEN Goto(h, "called") /\ UNCHANGED cur
                  ELSE Goto(h, "idle") /\ cur' = [cur EXCEPT ![h] = NoT]

\* io.c 1264-1268: libusb_submit_transfer
Undo(h) ==
  /\ pc[h] = "undo" /\ flock = NoT
  /\ flying' = Without(cur[h])
  /\ owed' = [owed EXCEPT ![cur[h]] = FALSE]
  /\ tlock' = [tlock EXCEPT ![cur[h]] = NoT]
  /\ Answered(h)
  /\ UNCHANGED <<setup, expiring, flock, timer, plugged, watched, timeout, timed_out, transferred, priv, got, dangling, asked>>

\* io.c 1269-1285: libusb_submit_transfer
Submitted(h) ==
  /\ pc[h] = "submitted"
  /\ timer' = IF first[h] /\ usingTimerfd THEN timeout[cur[h]] ELSE timer
  /\ tlock' = [tlock EXCEPT ![cur[h]] = NoT]
  /\ Answered(h)
  /\ UNCHANGED <<setup, expiring, flock, plugged, watched, xferVars, histVars>>

-----------------------------------------------------------------------------
\* darwin_usb.c 1301-1332: darwin_abort_transfers
BackendCancel(t) ==
  CASE backend = "linux" -> [priv EXCEPT ![t] = Linux!Cancel(Type[t], @)]
    [] backend = "darwin" -> Darwin!Cancel(priv, Peers(t))
    [] backend = "windows" -> Windows!Cancel(Type[t], priv, Peers(t))

\* io.c 1301-1315: libusb_cancel_transfer
CancelTransfer(t) == /\ tlock[t] = NoT
                     /\ priv' = BackendCancel(t) /\ asked' = asked \cup {t}

\* io.c 1287-1315: libusb_cancel_transfer
Cancel(h, t) ==
  /\ h \in Apps /\ pc[h] = "idle" /\ owed[t]
  /\ CancelTransfer(t)
  /\ UNCHANGED <<setup, expiring, flock, tlock, timer, plugged, watched, flying, timeout, timed_out, transferred, thrVars, owed, got, dangling>>

-----------------------------------------------------------------------------

FirstOf(S) == CHOOSE k \in S : \A m \in S : k <= m
\* On Mac OS the system ends what takes too long, and libusb times nothing.
\* configure.ac 51-59: USBI_OS_HANDLES_TIMEOUT
osHandlesTimeout == backend = "darwin"

\* The first transfer that has not timed out already is due, if there is one.
\* io.c 2114-2177: libusb_get_next_timeout
Untimed == {k \in DOMAIN flying : ~timed_out[flying[k]]}
NextDue == /\ ~osHandlesTimeout /\ ~usingTimerfd
           /\ Untimed # {} /\ timeout[flying[FirstOf(Untimed)]] = 0

\* io.c 1337-1363: arm_timerfd_for_next_timeout
Armed(list) == LET rest == {k \in DOMAIN list : ~timed_out[list[k]] \/ ~IsSet(list[k])}
               IN IF rest = {} THEN Unset ELSE timeout[list[FirstOf(rest)]]

\* A handler that has the events lock begins: it handles timeouts if the
\* first is due before it polls, when the poll is over without events, and
\* with a timerfd when that is up.
\* io.c 1951-1970: libusb_handle_events_timeout
HandleTimeouts ==
  /\ pc[Handler] = "idle"
  /\ IF usingTimerfd THEN timer = 0 ELSE NextDue
  /\ timer' = Unset   \* disarm_timerfd
  /\ Goto(Handler, "expire")
  /\ UNCHANGED <<setup, expiring, flock, tlock, plugged, watched, xferVars, cur, first, status, histVars>>

\* io.c 1765-1773: handle_timeouts
LockFlying ==
  /\ pc[Handler] = "expire" /\ flock = NoT
  /\ flock' = Handler /\ Goto(Handler, "timeouts")
  /\ UNCHANGED <<setup, expiring, tlock, timer, plugged, watched, xferVars, cur, first, status, histVars>>

Expired(t) == ~timed_out[t] /\ timeout[t] = 0
\* io.c 1723-1763: handle_timeouts_locked
Overdue == {k \in DOMAIN flying : Expired(flying[k]) /\ \A m \in 1 .. k - 1 : timed_out[flying[m]]}

\* io.c 1700-1711: handle_timeout
TimeOut ==
  /\ pc[Handler] = "timeouts" /\ Overdue # {}
  /\ LET t == flying[CHOOSE k \in Overdue : TRUE]
     IN /\ timed_out' = [timed_out EXCEPT ![t] = TRUE]
        /\ cur' = [cur EXCEPT ![Handler] = t]
  /\ Goto(Handler, "timeout")
  /\ UNCHANGED <<setup, expiring, flock, tlock, timer, plugged, watched, flying, timeout, transferred, priv, first, status, histVars>>

\* io.c 1707-1707: handle_timeout
TimeOutCancel ==
  /\ pc[Handler] = "timeout" /\ CancelTransfer(cur[Handler])
  /\ cur' = [cur EXCEPT ![Handler] = NoT] /\ Goto(Handler, "timeouts")
  /\ UNCHANGED <<setup, expiring, flock, tlock, timer, plugged, watched, flying, timeout, timed_out, transferred, first, status, owed, got, dangling>>

\* io.c 1777-1798: handle_timerfd_trigger
TimeoutsDone ==
  /\ pc[Handler] = "timeouts" /\ Overdue = {}
  /\ timer' = IF usingTimerfd /\ Armed(flying) # Unset THEN Armed(flying) ELSE timer
  /\ flock' = NoT /\ Finish
  /\ UNCHANGED <<setup, expiring, tlock, plugged, watched, xferVars, histVars>>

\* Who waits while another thread handles events handles timeouts too, when
\* the first is due before it waits and when it has waited long enough: the
\* same loop, beside the handler.  It holds the lock of the list, and does
\* nothing when nothing is overdue.
\* io.c 1956-1962: libusb_handle_events_timeout
WaitedLong ==
  /\ ~osHandlesTimeout /\ flock = NoT /\ Overdue # {}
  /\ flock' = Waiter
  /\ UNCHANGED <<setup, expiring, tlock, timer, plugged, watched, xferVars, thrVars, histVars>>

\* io.c 1746-1760: handle_timeouts_locked
WaiterTimeOut ==
  /\ flock = Waiter /\ expiring = NoT
  /\ \E k \in Overdue : /\ timed_out' = [timed_out EXCEPT ![flying[k]] = TRUE]
                        /\ expiring' = flying[k]
  /\ UNCHANGED <<setup, flock, tlock, timer, plugged, watched, flying, timeout, transferred, priv, thrVars, histVars>>

\* io.c 1707-1707: handle_timeout
WaiterCancel ==
  /\ expiring # NoT /\ CancelTransfer(expiring) /\ expiring' = NoT
  /\ UNCHANGED <<setup, flock, tlock, timer, plugged, watched, flying, timeout, timed_out, transferred, thrVars, owed, got, dangling>>

\* io.c 1765-1773: handle_timeouts
WaiterDone ==
  /\ flock = Waiter /\ expiring = NoT /\ Overdue = {}
  /\ flock' = NoT
  /\ UNCHANGED <<setup, expiring, tlock, timer, plugged, watched, xferVars, thrVars, histVars>>

-----------------------------------------------------------------------------
\* What the backend makes of an event of transfer t.
\* linux_usbfs.c 2116-2155: op_handle_events
Handled(t) ==
  CASE backend = "linux" -> {Linux!Handle(Type[t], priv[t], k, newKernel) : k \in Linux!Reapable(priv[t])}
    [] backend = "darwin" -> {Darwin!Handle(Type[t], p, timed_out[t]) : p \in {q \in {priv[t]} : q.st = "told"}}
    [] backend = "windows" -> {Windows!Handle(p, timed_out[t]) : p \in {q \in {priv[t]} : q.st = "ready" /\ q.polled}}

\* Linux takes the lock of the transfer; Windows looks the transfer up among
\* the flying ones.
\* windows_usb.c 2057-2113: windows_handle_events
CanHandle(t) == CASE backend = "linux" -> tlock[t] = NoT
                  [] backend = "darwin" -> TRUE
                  [] backend = "windows" -> flock = NoT

\* io.c 1435-1452: usbi_handle_transfer_cancellation
HandleEvent(t) ==
  /\ pc[Handler] = "idle" /\ watched /\ CanHandle(t)
  /\ ~NextDue /\ (usingTimerfd => timer # 0)
  /\ \E o \in Handled(t) :
       /\ priv' = [priv EXCEPT ![t] = o.p]
       /\ transferred' = [transferred EXCEPT ![t] = @ + o.add]
       /\ got' = [got EXCEPT ![t] = @ + CASE backend # "linux" -> o.add
                                         [] OTHER -> LET u == priv[t].urbs IN u[CHOOSE k \in Linux!Reapable(priv[t]) : TRUE].len]
       /\ dangling' = IF o.left # {} THEN dangling \cup {t} ELSE dangling
       /\ IF o.end = "none" THEN UNCHANGED thrVars
          ELSE /\ Goto(Handler, "complete") /\ cur' = [cur EXCEPT ![Handler] = t]
               /\ status' = IF backend = "linux" /\ o.end = "CANCELLED" /\ timed_out[t]
                            THEN "TIMED_OUT" ELSE o.end   \* usbi_handle_transfer_cancellation
               /\ UNCHANGED first
  /\ UNCHANGED <<setup, expiring, flock, tlock, timer, plugged, watched, flying, timeout, timed_out, owed, asked>>

\* io.c 1383-1400: usbi_handle_transfer_completion
Complete ==
  /\ pc[Handler] \in {"complete", "gone"} /\ flock = NoT
  /\ flying' = Without(cur[Handler])
  /\ timer' = IF usingTimerfd /\ Armed(flying') # Unset THEN Armed(flying') ELSE timer
  /\ Goto(Handler, IF usingTimerfd /\ Armed(flying') = Unset THEN "disarm" ELSE "callback")
  /\ UNCHANGED <<setup, expiring, flock, tlock, plugged, watched, timeout, timed_out, transferred, priv, cur, first, status, histVars>>

\* io.c 1402-1408: usbi_handle_transfer_completion
Disarm ==
  /\ pc[Handler] = "disarm"
  /\ timer' = Unset /\ Goto(Handler, "callback")
  /\ UNCHANGED <<setup, expiring, flock, tlock, plugged, watched, xferVars, cur, first, status, histVars>>

\* What is not read before the next submission sets it is forgotten.
Forget(t) == /\ transferred' = [transferred EXCEPT ![t] = 0] /\ got' = [got EXCEPT ![t] = 0]
             /\ timed_out' = [timed_out EXCEPT ![t] = FALSE] /\ asked' = asked \ {t}
             /\ priv' = [priv EXCEPT ![t] = IF backend = "linux" THEN NoPriv(backend) ELSE @]

\* The callback returns without submitting; whoever waits is woken.
\* io.c 1421-1433: usbi_handle_transfer_completion
Called ==
  /\ pc[Handler] \in {"callback", "called"}
  /\ owed' = IF pc[Handler] = "callback" THEN [owed EXCEPT ![cur[Handler]] = FALSE] ELSE owed
  /\ Goto(Handler, IF watched THEN "idle" ELSE "disconnect")
  /\ cur' = [cur EXCEPT ![Handler] = NoT] /\ status' = NoT
  /\ IF owed'[cur[Handler]] THEN UNCHANGED <<transferred, timed_out, got, asked, priv>> ELSE Forget(cur[Handler])
  /\ UNCHANGED <<setup, expiring, flock, tlock, timer, plugged, watched, flying, timeout, first, dangling>>

-----------------------------------------------------------------------------
\* The descriptor of the handle reports an error: it is not polled any more.
\* linux_usbfs.c 2138-2142: op_handle_events
SeeUnplug ==
  /\ pc[Handler] = "idle" /\ ~plugged /\ watched /\ backend # "windows"
  /\ watched' = FALSE /\ Goto(Handler, "disconnect")
  /\ UNCHANGED <<setup, expiring, flock, tlock, timer, plugged, xferVars, cur, first, status, histVars>>

\* linux_usbfs.c 1780-1800: op_clear_transfer_priv
Clear(t) == CASE backend = "linux" -> Linux!NoPriv
              [] backend = "darwin" -> Darwin!Clear(priv[t])
              [] backend = "windows" -> Windows!Clear(priv[t])

\* io.c 2307-2345: usbi_handle_disconnect
Disconnect ==
  /\ pc[Handler] = "disconnect" /\ flock = NoT
  /\ IF flying = <<>>
     THEN Finish /\ UNCHANGED priv
     ELSE /\ cur' = [cur EXCEPT ![Handler] = Head(flying)]
          /\ priv' = [priv EXCEPT ![Head(flying)] = Clear(Head(flying))]
          /\ status' = "NO_DEVICE" /\ Goto(Handler, "gone") /\ UNCHANGED first
  /\ UNCHANGED <<setup, expiring, flock, tlock, timer, plugged, watched, flying, timeout, timed_out, transferred, histVars>>

-----------------------------------------------------------------------------
\* The operating system, and time.  Of a device that is gone, only Windows
\* ends the requests by itself, with an error.
\* external: the operating system
Serves(t) == CASE backend = "linux" -> Linux!Serve(Type[t], priv[t], newKernel, OverAnywhere)
               [] backend = "darwin" -> Darwin!Serve(Type[t], priv[t])
               [] backend = "windows" -> Windows!Serve(priv[t])

\* external: the operating system
Serve(t) ==
  /\ \E p \in Serves(t) : /\ (plugged \/ (backend = "windows" /\ p.io_result # "NO_ERROR"))
                         /\ priv' = [priv EXCEPT ![t] = p]
  /\ UNCHANGED <<setup, expiring, flock, tlock, timer, plugged, watched, flying, timeout, timed_out, transferred, thrVars, histVars>>

\* external: the cable
Unplug ==
  /\ plugged /\ plugged' = FALSE
  /\ QuietUnplug => \A h \in Threads : pc[h] \notin {"add", "submitted", "undo"}
  /\ UNCHANGED <<setup, expiring, flock, tlock, timer, watched, xferVars, thrVars, histVars>>

Lower(n) == IF n > 0 THEN n - 1 ELSE n

\* external: the clock
Tick ==
  /\ timeout' = [t \in Transfers |-> Lower(timeout[t])] /\ timer' = Lower(timer)
  /\ <<timeout', timer'>> # <<timeout, timer>>
  /\ UNCHANGED <<setup, expiring, flock, tlock, plugged, watched, flying, timed_out, transferred, priv, thrVars, histVars>>

SubmitSteps(h) == AddAndSubmit(h) \/ Undo(h) \/ Submitted(h)
TimeoutSteps == HandleTimeouts \/ LockFlying \/ TimeOut \/ TimeOutCancel \/ TimeoutsDone
WaiterSteps == WaiterTimeOut \/ WaiterCancel \/ WaiterDone
EventSteps == (\E t \in Transfers : HandleEvent(t)) \/ Complete \/ Disarm \/ Called \/ SeeUnplug \/ Disconnect

Next ==
  \/ \E h \in Threads, t \in Transfers : Submit(h, t) \/ Cancel(h, t)
  \/ \E h \in Threads : SubmitSteps(h)
  \/ TimeoutSteps \/ EventSteps \/ WaitedLong \/ WaiterSteps
  \/ \E t \in Transfers : Serve(t)
  \/ Unplug \/ Tick

Spec == Init /\ [][Next]_vars

\* Threads run, somebody handles events, time passes.  What is ready is
\* handled in the order in which it became so (reaped from a queue, read from
\* a pipe, or found in a pass over all descriptors), hence before long.  That
\* the operating system ends a transfer is assumed of those that have been
\* cancelled: a device may stay silent for ever.
Fairness ==
  /\ \A h \in Threads : WF_vars(SubmitSteps(h))
  /\ WF_vars(TimeoutSteps \/ EventSteps) /\ WF_vars(WaiterSteps)
  /\ \A t \in Transfers : SF_vars(HandleEvent(t))
  /\ \A t \in Transfers : WF_vars(t \in asked /\ Serve(t))
  /\ WF_vars(Tick)

FairSpec == Spec /\ Fairness

-----------------------------------------------------------------------------
TypeOK ==
  /\ setup \in Setups
  /\ flying \in Seq(Transfers) /\ flock \in {NoT, Handler, Waiter} /\ expiring \in Transfers \cup {NoT} /\ tlock \in [Transfers -> Threads \cup {NoT}]
  /\ timeout \in [Transfers -> Nat \cup {Unset}] /\ timer \in Nat \cup {Unset}
  /\ timed_out \in [Transfers -> BOOLEAN] /\ transferred \in [Transfers -> Nat]
  /\ priv \in [Transfers -> CASE backend = "linux" -> Linux!Priv [] backend = "darwin" -> Darwin!Priv
                              [] backend = "windows" -> Windows!Priv]
  /\ cur \in [Threads -> Transfers \cup {NoT}] /\ owed \in [Transfers -> BOOLEAN]
  /\ dangling \subseteq Transfers /\ asked \subseteq Transfers

\* A callback is called once for each submission that was accepted, however
\* completion, cancellation, timeout and unplugging meet, and it is called
\* when the kernel has nothing of the transfer any more (io.c:1376).
CallbackOwed == /\ pc[Handler] = "callback" => owed[cur[Handler]]
                /\ dangling = {}

\* A flying transfer nobody works on is one the operating system will give
\* back: the counting of URBs (num_retired, linux_usbfs.c:1443, 1605) never
\* waits for one that was not sent or is back already.
Coming(t) == CASE backend = "linux" -> \E k \in DOMAIN priv[t].urbs : priv[t].urbs[k].st \in {"sent", "cut", "done"}
               [] OTHER -> priv[t].st # "idle"
StillComing == \A k \in DOMAIN flying : (\A h \in Threads : cur[h] # flying[k]) => Coming(flying[k])

\* The flying transfers are in the order of their timeouts, each once; what is
\* owed a callback is among them unless it is being added or completed.
Sorted ==
  /\ \A i, j \in DOMAIN flying : i < j =>
       /\ flying[i] # flying[j]
       /\ IsSet(flying[j]) => IsSet(flying[i]) /\ timeout[flying[i]] <= timeout[flying[j]]
  /\ \A t \in Transfers : owed[t] /\ (\A h \in Threads : cur[h] # t) => \E k \in DOMAIN flying : flying[k] = t

\* The list of flying transfers is exact: nothing in it is in vain.
FlyingExact == TypeOK /\ StillComing /\ Sorted

\* No data that arrived is lost: a bulk transfer that is cancelled, times out
\* or ends early reports all its URBs brought (linux_usbfs.c:1832, "our
\* objectives are not to lose any surplus data") ...
Reported == transferred[cur[Handler]] = got[cur[Handler]]
Interrupted == pc[Handler] = "callback" /\ Type[cur[Handler]] = "bulk" /\ status \in {"COMPLETED", "CANCELLED", "TIMED_OUT"}
Stalled(t) == backend = "linux" /\ priv[t].reap_status = "STALL"
DataKept == Interrupted /\ ~Stalled(cur[Handler]) => Reported

\* ... and so it should after a stall, which leaves reap_action as it was.
\* (This and the next do not hold: see README.)
DataKeptAfterStall == Interrupted => Reported

\* Whoever handles timeouts holds the lock of the list and waits for that of
\* a transfer; nobody who has the latter waits for the former (io.c:1265).
NoLockCycle ==
  \A t \in Transfers : t = expiring \/ (pc[Handler] = "timeout" /\ t = cur[Handler]) =>
    \A h \in Threads : tlock[t] = h => pc[h] \notin {"add", "undo"}

\* Where libusb itself times transfers, one whose time is up is timed out, or
\* ends otherwise, unless two threads wait for each other's locks.  With a
\* timerfd that is not so: see TimerfdHonoured.
Overtime(t) == owed[t] /\ timeout[t] = 0 /\ ~timed_out[t]
TimeoutHonoured ==
  \A t \in Transfers :
    (Overtime(t) /\ ~usingTimerfd /\ ~osHandlesTimeout) ~> (~Overtime(t) \/ ~NoLockCycle)

\* The same of a timerfd, which a handler that finds nothing more to time may
\* disarm after a submission armed it (io.c:1405).  (It does not hold: see README.)
TimerfdHonoured == \A t \in Transfers : (Overtime(t) /\ usingTimerfd) ~> ~Overtime(t)

\* A cancelled transfer is called back, with the same exception.
CancelEnds ==
  \A t \in Transfers : (owed[t] /\ t \in asked) ~> (t \notin asked \/ ~owed[t] \/ ~NoLockCycle)

\* What shall end ends: by its timeout (handle_timeouts) or by being cancelled.
TransfersEnd == TimeoutHonoured /\ CancelEnds
=============================================================================
