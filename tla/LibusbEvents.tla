---------------------------- MODULE LibusbEvents ----------------------------
(***************************************************************************)
(* Who handles the events of a libusb context (io.c, core.c, sync.c).      *)
(* Threads make synchronous transfers, each handling events until its own  *)
(* transfer has completed, and open and close device handles, which stops  *)
(* whoever handles events by a byte in the control pipe.                   *)
(*                                                                         *)
(* A step is what a thread does between two points where it may wait.  The *)
(* timeouts of transfers are in UsbTransfers.                              *)
(***************************************************************************)
EXTENDS Naturals, FiniteSets

CONSTANTS
  Threads, Handles,
  Uses,        \* which handles each thread transfers on
  Manages,     \* which handles each thread opens and closes
  MaxCalls,    \* how many calls each thread makes
  Setups       \* <<windows, clock, pipeFails, maxFails>>

NoThread == "none"

ASSUME EventAssumption ==
  /\ IsFiniteSet(Threads) /\ NoThread \notin Threads
  /\ Uses \in [Threads -> SUBSET Handles] /\ Manages \in [Threads -> SUBSET Handles] /\ MaxCalls \in [Threads -> Nat]
  /\ Setups \subseteq BOOLEAN \X BOOLEAN \X (SUBSET {"open", "close"}) \X Nat

Queue == INSTANCE WaitQueue

VARIABLES
  setup,
  pollfd_modify,         \* how many are about to change the descriptors
  events_lock, event_handler_active,
  waiters_lock, queue,   \* event_waiters_lock, event_waiters_cond
  ctrl_pipe,             \* bytes in the control pipe
  pollfds, open_devs,    \* handles whose descriptor is polled; open handles
  pc, op, dev,           \* of a thread: where it is, in which call, on which handle
  xfer,                  \* the transfer of a thread
  cancelled,             \* its call goes to give up
  failed,                \* its last handle_events failed
  calls,                 \* how many calls it has made
  polled, todo,          \* what it polls; what it found ready
  fails                  \* how often poll() has failed

ctxVars == <<setup, pollfd_modify, events_lock, event_handler_active, waiters_lock, queue, ctrl_pipe, pollfds, open_devs>>
callVars == <<op, dev, xfer, cancelled, failed, calls, polled, todo, fails>>
vars == <<ctxVars, pc, callVars>>

windows == setup[1]     \* which emulation of condition variables
clock == setup[2]       \* does anybody wait long enough for a timeout?
pipeFails == setup[3]   \* in which calls the write to the control pipe fails
maxFails == setup[4]    \* how often poll() fails

\* io.c 1008-1062: usbi_io_init
Init ==
  /\ setup \in Setups
  /\ pollfd_modify = 0 /\ events_lock = NoThread /\ event_handler_active = FALSE
  /\ waiters_lock = NoThread /\ queue = Queue!Empty /\ ctrl_pipe = 0
  /\ open_devs = UNION {Uses[h] : h \in Threads} /\ pollfds = open_devs
  /\ pc = [h \in Threads |-> "idle"] /\ op = [h \in Threads |-> "none"]
  /\ dev = [h \in Threads |-> CHOOSE d \in Handles : TRUE]
  /\ xfer = [h \in Threads |-> "none"] /\ calls = [h \in Threads |-> 0]
  /\ cancelled = [h \in Threads |-> FALSE] /\ failed = [h \in Threads |-> FALSE]
  /\ polled = [h \in Threads |-> {}] /\ todo = [h \in Threads |-> {}] /\ fails = 0

Goto(h, l) == pc' = [pc EXCEPT ![h] = l]
At(h, l) == pc[h] = l

Calls(h) == calls[h] < MaxCalls[h] /\ calls' = [calls EXCEPT ![h] = @ + 1]

\* The steps of a call that change nothing but what is named.
OnlyCtx(v) == UNCHANGED <<setup, callVars, v>>

-----------------------------------------------------------------------------
\* A synchronous transfer is submitted, and its caller handles events until
\* the callback has set completed.
\* sync.c 72-104: libusb_control_transfer
StartControl(h, d) ==
  /\ At(h, "idle") /\ d \in Uses[h] /\ d \in open_devs
  /\ \A o \in Threads : op[o] # "close" \/ dev[o] # d
  /\ Goto(h, "loop")
  /\ op' = [op EXCEPT ![h] = "transfer"] /\ dev' = [dev EXCEPT ![h] = d]
  /\ xfer' = [xfer EXCEPT ![h] = "flying"] /\ Calls(h)
  /\ UNCHANGED <<ctxVars, cancelled, failed, polled, todo, fails>>

\* sync.c 36-42: ctrl_transfer_cb
Completed(h) == xfer[h] = "completed"

\* sync.c 104-143: libusb_control_transfer
LoopControl(h) ==
  /\ At(h, "loop")
  /\ IF Completed(h)
     THEN /\ Goto(h, "idle") /\ op' = [op EXCEPT ![h] = "none"]
          /\ xfer' = [xfer EXCEPT ![h] = "none"] /\ cancelled' = [cancelled EXCEPT ![h] = FALSE]
     ELSE Goto(h, "try") /\ UNCHANGED <<op, xfer, cancelled>>
  /\ UNCHANGED <<ctxVars, dev, failed, calls, polled, todo, fails>>

\* After an error the transfer is cancelled, and after a second one given up:
\* it is freed though it has not come back.
\* sync.c 153-187: do_sync_bulk_transfer
HandledEvents(h) ==
  IF ~failed[h] THEN Goto(h, "loop") /\ UNCHANGED <<op, cancelled, failed>>
  ELSE /\ failed' = [failed EXCEPT ![h] = FALSE]
       /\ IF cancelled[h]
          THEN Goto(h, "idle") /\ op' = [op EXCEPT ![h] = "none"] /\ cancelled' = [cancelled EXCEPT ![h] = FALSE]
          ELSE Goto(h, "loop") /\ cancelled' = [cancelled EXCEPT ![h] = TRUE] /\ UNCHANGED op

-----------------------------------------------------------------------------
\* io.c 1473-1486: libusb_try_lock_events
TryModify(h) ==
  /\ At(h, "try") /\ Goto(h, IF pollfd_modify = 0 THEN "trylock" ELSE "waiters")
  /\ UNCHANGED <<ctxVars, callVars>>

\* io.c 1488-1493: libusb_try_lock_events
TryLock(h) ==
  /\ At(h, "trylock")
  /\ IF events_lock = NoThread
     THEN events_lock' = h /\ event_handler_active' = TRUE /\ Goto(h, "collect")
     ELSE UNCHANGED <<events_lock, event_handler_active>> /\ Goto(h, "waiters")
  /\ OnlyCtx(<<pollfd_modify, waiters_lock, queue, ctrl_pipe, pollfds, open_devs>>)

\* io.c 1803-1838: handle_events
Collect(h) ==
  /\ At(h, "collect") /\ Goto(h, "poll")
  /\ polled' = [polled EXCEPT ![h] = pollfds]
  /\ UNCHANGED <<ctxVars, op, dev, xfer, cancelled, failed, calls, todo, fails>>

Ready(h) == {o \in Threads : xfer[o] = "ready" /\ dev[o] \in polled[h]}

InterruptedNever == FALSE
\* core.c 861-883: usbi_fd_notification
Interrupted == ctrl_pipe > 0

\* A byte in the control pipe alone ends the call.
\* io.c 1840-1869: handle_events
Poll(h) ==
  /\ At(h, "poll") /\ (Interrupted \/ Ready(h) # {})
  /\ todo' = [todo EXCEPT ![h] = Ready(h)] /\ Goto(h, "handle")
  /\ UNCHANGED <<ctxVars, op, dev, xfer, cancelled, failed, calls, polled, fails>>

\* io.c 1842-1852: handle_events
PollEnds(h) ==
  /\ At(h, "poll") /\ clock /\ ctrl_pipe = 0 /\ Ready(h) = {} /\ Goto(h, "release")
  /\ polled' = [polled EXCEPT ![h] = {}]
  /\ UNCHANGED <<ctxVars, op, dev, xfer, cancelled, failed, calls, todo, fails>>

\* io.c 1848-1852: handle_events
PollFails(h) ==
  /\ At(h, "poll") /\ fails < maxFails /\ fails' = fails + 1
  /\ failed' = [failed EXCEPT ![h] = TRUE] /\ Goto(h, "release")
  /\ polled' = [polled EXCEPT ![h] = {}]
  /\ UNCHANGED <<ctxVars, op, dev, xfer, cancelled, calls, todo>>

\* One transfer after the other is completed.
\* io.c 1894-1903: handle_events
HandleOne(h) ==
  /\ At(h, "handle")
  /\ IF todo[h] = {}
     THEN /\ Goto(h, "release") /\ polled' = [polled EXCEPT ![h] = {}] /\ UNCHANGED <<xfer, todo>>
     ELSE \E o \in todo[h] :
            /\ xfer' = [xfer EXCEPT ![o] = "completed"] /\ todo' = [todo EXCEPT ![h] = @ \ {o}]
            /\ Goto(h, "tell") /\ UNCHANGED polled
  /\ UNCHANGED <<ctxVars, op, dev, cancelled, failed, calls, fails>>

\* Those who wait are woken when the callback has returned.
\* io.c 1429-1433: usbi_handle_transfer_completion
Tell(h) ==
  /\ At(h, "tell") /\ waiters_lock = NoThread
  /\ queue' = Queue!Broadcast(queue, windows) /\ Goto(h, "handle")
  /\ OnlyCtx(<<pollfd_modify, events_lock, event_handler_active, waiters_lock, ctrl_pipe, pollfds, open_devs>>)

ReleasedSilently == events_lock' = NoThread /\ UNCHANGED event_handler_active

\* io.c 1529-1533: libusb_unlock_events
Unlocked == events_lock' = NoThread /\ event_handler_active' = FALSE

UnlockEvents(h) ==
  /\ At(h, "release") /\ Unlocked /\ Goto(h, "wake")
  /\ OnlyCtx(<<pollfd_modify, waiters_lock, queue, ctrl_pipe, pollfds, open_devs>>)

\* io.c 1535-1541: libusb_unlock_events
Wake(h) ==
  /\ At(h, "wake") /\ waiters_lock = NoThread
  /\ queue' = Queue!Broadcast(queue, windows)
  /\ IF op[h] = "transfer" THEN HandledEvents(h)
     ELSE Goto(h, "idle") /\ op' = [op EXCEPT ![h] = "none"] /\ UNCHANGED <<cancelled, failed>>
  /\ UNCHANGED <<setup, pollfd_modify, events_lock, event_handler_active, waiters_lock, ctrl_pipe, pollfds, open_devs,
                 dev, xfer, calls, polled, todo, fails>>

-----------------------------------------------------------------------------
\* io.c 1629-1634: libusb_lock_event_waiters
LockWaiters(h) ==
  /\ At(h, "waiters") /\ waiters_lock = NoThread
  /\ waiters_lock' = h /\ Goto(h, "check")
  /\ OnlyCtx(<<pollfd_modify, events_lock, event_handler_active, queue, ctrl_pipe, pollfds, open_devs>>)

\* io.c 1592-1608: libusb_event_handler_active
HandlerActive == pollfd_modify # 0 \/ event_handler_active

\* Nobody handles events any more, or the lock is given up to sleep.
\* io.c 1971-1985: libusb_handle_events_timeout
CheckActive(h) ==
  /\ At(h, "check") /\ waiters_lock' = NoThread
  /\ IF HandlerActive THEN queue' = Queue!Enter(queue, h) /\ Goto(h, "asleep")
     ELSE UNCHANGED queue /\ Goto(h, "try")
  /\ OnlyCtx(<<pollfd_modify, events_lock, event_handler_active, ctrl_pipe, pollfds, open_devs>>)

\* io.c 1671-1698: libusb_wait_for_event
Wakens(h) ==
  /\ At(h, "asleep")
  /\ queue' = Queue!Awake(queue, h, windows) /\ Goto(h, "relock")
  /\ OnlyCtx(<<pollfd_modify, events_lock, event_handler_active, waiters_lock, ctrl_pipe, pollfds, open_devs>>)

Woken(h) == Queue!Wakes(queue, h) /\ Wakens(h)
Overslept(h) == clock /\ Wakens(h)

\* io.c 1985-1993: libusb_handle_events_timeout
Relock(h) ==
  /\ At(h, "relock") /\ waiters_lock = NoThread
  /\ queue' = Queue!Leave(queue, h) /\ Goto(h, "loop")
  /\ OnlyCtx(<<pollfd_modify, events_lock, event_handler_active, waiters_lock, ctrl_pipe, pollfds, open_devs>>)

-----------------------------------------------------------------------------
\* The backend adds the descriptor to the ones polled.
\* core.c 912-954: libusb_open
Open(h, d) ==
  /\ At(h, "idle") /\ d \in Manages[h] \ open_devs /\ (\A o \in Threads : op[o] = "none" \/ dev[o] # d)
  /\ pollfds' = pollfds \cup {d} /\ open_devs' = open_devs \cup {d} /\ Calls(h)
  /\ Goto(h, "notify") /\ op' = [op EXCEPT ![h] = "open"] /\ dev' = [dev EXCEPT ![h] = d]
  /\ UNCHANGED <<setup, pollfd_modify, events_lock, event_handler_active, waiters_lock, queue, ctrl_pipe,
                 xfer, cancelled, failed, polled, todo, fails>>

\* A handle is closed when no transfer on it is under way.
\* core.c 1035-1045: libusb_close
Close(h, d) ==
  /\ At(h, "idle") /\ d \in Manages[h] \cap open_devs
  /\ \A o \in Threads : (op[o] = "none" /\ xfer[o] = "none") \/ dev[o] # d
  /\ Calls(h) /\ Goto(h, "notify") /\ op' = [op EXCEPT ![h] = "close"] /\ dev' = [dev EXCEPT ![h] = d]
  /\ UNCHANGED <<ctxVars, xfer, cancelled, failed, polled, todo, fails>>

\* core.c 861-865: usbi_fd_notification
Modify(h) ==
  /\ At(h, "notify") /\ pollfd_modify' = pollfd_modify + 1 /\ Goto(h, "write")
  /\ OnlyCtx(<<events_lock, event_handler_active, waiters_lock, queue, ctrl_pipe, pollfds, open_devs>>)

\* core.c 1011-1022: do_close
DoClose(h) ==
  IF op[h] = "close" THEN pollfds' = pollfds \ {dev[h]} /\ open_devs' = open_devs \ {dev[h]}
  ELSE UNCHANGED <<pollfds, open_devs>>

\* If the handler cannot be interrupted the handle is closed all the same.
\* core.c 1058-1067: libusb_close
Write(h) ==
  /\ At(h, "write")
  /\ IF op[h] \notin pipeFails
     THEN /\ ctrl_pipe' = ctrl_pipe + 1 /\ Goto(h, "lock")
          /\ UNCHANGED <<pollfd_modify, pollfds, open_devs, op>>
     ELSE /\ DoClose(h) /\ pollfd_modify' = pollfd_modify - 1
          /\ Goto(h, "idle") /\ op' = [op EXCEPT ![h] = "none"] /\ UNCHANGED ctrl_pipe
  /\ UNCHANGED <<setup, events_lock, event_handler_active, waiters_lock, queue, dev, xfer, cancelled, failed, calls, polled, todo, fails>>

\* core.c 884-887: usbi_fd_notification
Unmodify(h) == pollfd_modify' = pollfd_modify - 1

EventsTaken(h) == TRUE
\* io.c 1514-1519: libusb_lock_events
EventsFree(h) == events_lock = NoThread

\* core.c 1069-1083: libusb_close
LockEvents(h) ==
  /\ At(h, "lock") /\ EventsFree(h)
  /\ events_lock' = h /\ event_handler_active' = TRUE
  /\ ctrl_pipe' = ctrl_pipe - 1 /\ DoClose(h) /\ Unmodify(h)
  /\ Goto(h, "release")
  /\ UNCHANGED <<setup, waiters_lock, queue, callVars>>

-----------------------------------------------------------------------------
\* external: the device
Serve(h) ==
  /\ xfer[h] = "flying" /\ xfer' = [xfer EXCEPT ![h] = "ready"]
  /\ UNCHANGED <<ctxVars, pc, op, dev, cancelled, failed, calls, polled, todo, fails>>

Step(h) ==
  \/ LoopControl(h) \/ TryModify(h) \/ TryLock(h) \/ Collect(h) \/ Poll(h) \/ HandleOne(h) \/ Tell(h)
  \/ UnlockEvents(h) \/ Wake(h) \/ LockWaiters(h) \/ CheckActive(h) \/ Relock(h)
  \/ Modify(h) \/ Write(h) \/ LockEvents(h) \/ Woken(h)

Next ==
  \E h \in Threads : \/ Step(h) \/ PollEnds(h) \/ Overslept(h) \/ PollFails(h) \/ Serve(h)
                     \/ \E d \in Handles : StartControl(h, d) \/ Open(h, d) \/ Close(h, d)

\* Threads run and locks are granted in turn.  Where there is a clock, poll()
\* comes to an end and the device answers at last; elsewhere it may be silent.
Fairness == \A h \in Threads : SF_vars(Step(h)) /\ WF_vars(PollEnds(h)) /\ WF_vars(Overslept(h)) /\ WF_vars(clock /\ Serve(h))

Spec == Init /\ [][Next]_vars

FairSpec == Spec /\ Fairness

-----------------------------------------------------------------------------
TypeOK ==
  /\ pollfd_modify \in 0 .. Cardinality(Threads) /\ ctrl_pipe \in 0 .. Cardinality(Threads)
  /\ {events_lock, waiters_lock} \subseteq Threads \cup {NoThread}
  /\ pollfds \subseteq Handles /\ open_devs \subseteq pollfds
  /\ xfer \in [Threads -> {"none", "flying", "ready", "completed"}]
  /\ polled \in [Threads -> SUBSET Handles] /\ todo \in [Threads -> SUBSET Threads]

Notifying(h) == pc[h] \in {"write", "lock"}

\* Each call that changes the descriptors is counted once, and its byte is in
\* the pipe until it takes it out: reading never blocks (core.c:880, 1073).
NotifiersCounted ==
  /\ pollfd_modify = Cardinality({h \in Threads : Notifying(h)})
  /\ ctrl_pipe = Cardinality({h \in Threads : At(h, "lock")})

\* Whoever polls, polls no descriptor that has been closed, and all that have
\* been opened unless its poll is about to be interrupted (io.c:885-889).
PollsWhatIsOpen ==
  pipeFails = {} =>
    \A h \in Threads : At(h, "poll") =>
      /\ polled[h] \subseteq pollfds
      /\ pollfds \subseteq polled[h] \/ ctrl_pipe > 0 \/ \E o \in Threads : pc[o] \in {"notify", "write"}

\* A thread sleeps only while somebody handles events or will wake it.
SleepersWoken ==
  pipeFails = {} =>
    \A h \in Threads : At(h, "asleep") /\ ~Queue!Wakes(queue, h) =>
      \/ events_lock # NoThread
      \/ \E o \in Threads : Notifying(o) \/ At(o, "wake")

\* The transfer of a call that has returned is not in flight, poll() failing
\* at most once (sync.c:110-113).
FreedAtRest == \A h \in Threads : op[h] = "none" => xfer[h] = "none"

\* Nothing is closed or freed that another thread uses: a handler is stopped
\* before its descriptors change, and a transfer ends before its call does
\* (do_close, usbi_fd_notification, do_sync_bulk_transfer).
ClosedAtRest == TypeOK /\ NotifiersCounted /\ PollsWhatIsOpen /\ FreedAtRest

\* Every call to open or close returns, though the device may be silent and
\* nobody wait long enough for a timeout (each thread makes a bounded number of calls) ...
NotifyReturns == <>[](\A h \in Threads : op[h] \notin {"open", "close"})

\* ... and every transfer returns, at the latest when the poll of its thread
\* is over.  (If the other threads made calls for ever, a thread might find
\* the lock taken and its holder gone each time it looks.)
TransferReturns == clock => <>[](\A h \in Threads : op[h] # "transfer")

\* Every call of libusb returns.
CallsReturn == NotifyReturns /\ TransferReturns

\* It should not need a timeout: no thread sleeps or polls whose own transfer
\* has completed (io.c:757-772, "libusb hides this headache from you").  (It does not hold: see README.)
NobodyOblivious ==
  \A h \in Threads : Completed(h) /\ At(h, "poll") => ctrl_pipe > 0 \/ Ready(h) # {}
=============================================================================
