---------------------------- MODULE SyncWrapper ----------------------------
(***************************************************************************)
(* The synchronous wrapper of libfreenect (wrappers/c_sync/                *)
(* libfreenect_sync.c), the only interface through which the boundary      *)
(* program reaches the cameras.  Client threads call                       *)
(* freenect_sync_get_depth / _video and freenect_sync_stop; an event       *)
(* thread, started by the first call, pumps libusb and receives finished   *)
(* frames in callbacks.  Every (device, stream) pair has a ring of three   *)
(* buffers: bufs[0] is the client's, bufs[1] the newest finished frame     *)
(* (when valid), bufs[2] the one the driver writes.                        *)
(*                                                                         *)
(* A thread that stops or starts a stream waits for control transfers and  *)
(* so pumps libusb itself: callbacks of every running stream may run on    *)
(* that thread, under the locks it already holds.                          *)
(***************************************************************************)
EXTENDS Integers, FiniteSets

CONSTANTS Clients,       \* threads that call the freenect_sync_* functions
          EventThreads,  \* identities pthread_create may hand out
          Devices,       \* device indices that are in 0 .. MAX_KINECTS-1
          Absent,        \* devices that freenect_open_device may fail to open
          Streams,       \* depth, video
          Formats,       \* formats a client may ask for
          RingFormats,   \* formats alloc_buffer_ring_* has a case for
          Requests,      \* calls made: [client, ring, fmt]
          Stoppers,      \* clients that call freenect_sync_stop
          StopAlone,     \* TRUE: stop is never called during another call
          EventsMayFail, \* TRUE: freenect_process_events may return < 0
          NStamps,       \* frame timestamps are counted modulo NStamps
          NoThread, NoRing, NoFormat, NoBufs, Blank

Rings   == Devices \X Streams
Threads == Clients \cup EventThreads
Slots   == 0 .. 2
Frames  == [fmt : Formats, ts : 0 .. NStamps - 1]

ASSUME ConstantsAssumption ==
  /\ IsFiniteSet(Clients) /\ Clients \cap EventThreads = {}
  /\ Absent \subseteq Devices
  /\ RingFormats \subseteq Formats
  /\ Requests \subseteq [client : Clients, ring : Rings, fmt : Formats]
  /\ Stoppers \subseteq Clients
  /\ StopAlone \in BOOLEAN /\ EventsMayFail \in BOOLEAN
  /\ NStamps \in Nat \ {0}
  /\ NoThread \notin Threads
  /\ NoRing \notin Rings
  /\ NoFormat \notin Formats
  /\ NoBufs \notin [Slots -> Slots]
  /\ Blank \notin Frames

VARIABLES
  pc,             \* where each thread is
  arg,            \* the ring and format of each client's current call
  prev,           \* thread_running_prev of setup_kinect
  joinee,         \* the thread a client is joining
  cb,             \* the ring whose producer callback a thread is in
  thread_running, thread, ctx,       \* globals of the wrapper
  runloop,        \* holder of runloop_lock
  pending,        \* pending_runloop_tasks
  opened,         \* devices with kinects[index] # NULL
  lock,           \* holder of each buffer_ring_t.lock
  bufs,           \* bufs[3] of each ring, NoBufs when freed
  fmt, valid, timestamp,             \* the other fields of buffer_ring_t
  mem,            \* what each buffer of each ring holds
  running, proc,  \* packet_stream.running and .proc_buf
  clock,          \* the device's next timestamp
  lent            \* (history) the last get's buffer may still be in use

threadVars == <<pc, arg, prev, joinee, cb>>
loopVars   == <<thread_running, thread, ctx, runloop, pending>>
ringVars   == <<lock, bufs, fmt, valid, timestamp, mem>>
streamVars == <<running, proc, clock>>
vars == <<threadVars, loopVars, opened, ringVars, streamVars, lent>>

clientPCs == {"idle", "check", "inc", "runlock", "ringlock", "stopping",
              "starting", "unlock", "dec", "failunlock", "faildec", "join",
              "stopjoin", "get", "wait", "lost", "dangling"}
eventPCs  == {"none", "zero", "zwait", "lock", "proc", "tear", "done"}

FreshBufs == [i \in Slots |-> i]
AllBlank  == [i \in Slots |-> Blank]
RingsOf(d) == {d} \X Streams

\* set_buffer(dev, temp_buf): the buffer the stream fills next.
NextProc(r) == bufs[r][1]

\* Variant: the second assignment of the exchange is forgotten.
Exchange_Half(b, i, j) ==
  IF b = NoBufs THEN b ELSE [b EXCEPT ![i] = b[j]]

\* A ring's pointers b with those at i and j exchanged (NULLs when freed)
Exchange(b, i, j) ==
  IF b = NoBufs THEN b ELSE [b EXCEPT ![i] = b[j], ![j] = b[i]]

Init ==
  /\ pc = [t \in Threads |-> IF t \in Clients THEN "idle" ELSE "none"]
  /\ arg \in [Clients -> Requests]
  /\ prev = [c \in Clients |-> FALSE]
  /\ joinee = [c \in Clients |-> NoThread]
  /\ cb = [t \in Threads |-> NoRing]
  /\ thread_running = FALSE /\ thread = NoThread /\ ctx = "none"
  /\ runloop = NoThread /\ pending = 0
  /\ opened = {}
  /\ lock = [r \in Rings |-> NoThread]
  /\ bufs = [r \in Rings |-> NoBufs]
  /\ fmt = [r \in Rings |-> NoFormat]
  /\ valid = [r \in Rings |-> FALSE]
  /\ timestamp = [r \in Rings |-> 0]
  /\ mem = [r \in Rings |-> AllBlank]
  /\ running = [r \in Rings |-> FALSE]
  /\ proc = [r \in Rings |-> 0]
  /\ clock = [r \in Rings |-> 0]
  /\ lent = [r \in Rings |-> FALSE]

Goto(t, label) == pc' = [pc EXCEPT ![t] = label]

(***************************************************************************)
(* Event pumping.  libusb_handle_events runs on the event thread, both     *)
(* inside freenect_process_events and while it tears the devices down, and *)
(* on a client that is stopping or starting a stream.                      *)
(***************************************************************************)
Pumping(t) == pc[t] \in {"proc", "tear", "stopping", "starting"}

\* The camera counts its time and wraps around.
NextStamp(ts) == (ts + 1) % NStamps

\* depth_process / video_process: packets of a running stream complete a
\* frame in proc_buf, and the producer callback of its ring is entered.
FrameDone(t, r) ==
  /\ Pumping(t) /\ cb[t] = NoRing
  /\ running[r]
  /\ mem' = [mem EXCEPT ![r][proc[r]] = [fmt |-> fmt[r], ts |-> clock[r]]]
  /\ clock' = [clock EXCEPT ![r] = NextStamp(@)]
  /\ cb' = [cb EXCEPT ![t] = r]
  /\ UNCHANGED <<pc, arg, prev, joinee, loopVars, opened, lock, bufs, fmt,
                 valid, timestamp, running, proc, lent>>

Waiters(r) == {c \in Clients : pc[c] = "wait" /\ arg[c].ring = r}

\* Variant: the callback forgets to signal.
Signal_Never(r) == r \in Rings /\ pc' = pc

\* pthread_cond_signal(&cb_cond): one waiter, if there is one, competes for
\* the ring's lock again.
Signal(r) ==
  IF Waiters(r) = {} THEN pc' = pc
  ELSE \E c \in Waiters(r) : Goto(c, "get")

\* producer_cb_inner: under the ring's lock, publish the finished buffer and
\* give the driver the other one.
ProducerCb(t, r) ==
  /\ cb[t] = r
  /\ lock[r] = NoThread
  /\ bufs' = [bufs EXCEPT ![r] = Exchange(@, 1, 2)]
  /\ proc' = [proc EXCEPT ![r] = NextProc(r)]
  /\ timestamp' = [timestamp EXCEPT ![r] = mem[r][proc[r]].ts]
  /\ valid' = [valid EXCEPT ![r] = TRUE]
  /\ cb' = [cb EXCEPT ![t] = NoRing]
  /\ Signal(r)
  /\ UNCHANGED <<arg, prev, joinee, loopVars, opened, lock, fmt, mem, running,
                 clock, lent>>

(***************************************************************************)
(* The event thread: init() of libfreenect_sync.c.                         *)
(***************************************************************************)
\* while (pending_runloop_tasks).  Variant: the event thread does not look.
NothingPending_Ignored == TRUE
NothingPending == pending = 0

\* pending_runloop_tasks_wait_zero
EventWaitZero(e) ==
  /\ pc[e] = "zero"
  /\ Goto(e, IF NothingPending THEN "lock" ELSE "zwait")
  /\ UNCHANGED <<arg, prev, joinee, cb, loopVars, opened, ringVars,
                 streamVars, lent>>

EventLock(e) ==
  /\ pc[e] = "lock"
  /\ runloop = NoThread
  /\ runloop' = e
  /\ Goto(e, IF thread_running THEN "proc" ELSE "tear")
  /\ UNCHANGED <<arg, prev, joinee, cb, thread_running, thread, ctx, pending,
                 opened, ringVars, streamVars, lent>>

\* freenect_process_events returns, with any number of frames delivered.
EventsHandled(e) ==
  /\ pc[e] = "proc" /\ cb[e] = NoRing
  /\ runloop' = NoThread
  /\ Goto(e, "zero")
  /\ UNCHANGED <<arg, prev, joinee, cb, thread_running, thread, ctx, pending,
                 opened, ringVars, streamVars, lent>>

\* It returns an error (LIBUSB_ERROR_INTERRUPTED when poll meets a signal):
\* the loop ends with runloop_lock held and thread_running still set.
EventsFailed(e) ==
  /\ EventsMayFail
  /\ pc[e] = "proc" /\ cb[e] = NoRing
  /\ Goto(e, "tear")
  /\ UNCHANGED <<arg, prev, joinee, cb, loopVars, opened, ringVars,
                 streamVars, lent>>

\* freenect_stop_video / freenect_stop_depth of one opened device
TearStop(e, r) ==
  /\ pc[e] = "tear" /\ cb[e] = NoRing
  /\ running[r]
  /\ running' = [running EXCEPT ![r] = FALSE]
  /\ UNCHANGED <<threadVars, loopVars, opened, ringVars, proc, clock, lent>>

\* Both streams of a device are stopped before it is closed.
StreamsStopped(d) == \A r \in RingsOf(d) : ~running[r]

\* Close the device and free its rings.  A client that still waits on one of
\* them is lost: its mutex and condition variable are freed memory.
TearFree(e, d) ==
  LET Freed(f, v) == [r \in Rings |-> IF r[1] = d THEN v ELSE f[r]]
  IN /\ pc[e] = "tear" /\ cb[e] = NoRing
     /\ d \in opened
     /\ StreamsStopped(d)
     /\ opened' = opened \ {d}
     /\ bufs' = Freed(bufs, NoBufs)
     /\ fmt' = Freed(fmt, NoFormat)
     /\ valid' = Freed(valid, FALSE)
     /\ timestamp' = Freed(timestamp, 0)
     /\ mem' = Freed(mem, AllBlank)
     /\ pc' = [t \in Threads |->
                 IF pc[t] = "wait" /\ arg[t].ring[1] = d THEN "lost"
                                                         ELSE pc[t]]
     /\ UNCHANGED <<arg, prev, joinee, cb, loopVars, lock, streamVars, lent>>

\* The loop over kinects[] is at its end.
\* Variant: it leaves out the last one.
AllClosed_ButOne == Cardinality(opened) <= 1
AllClosed == opened = {}

\* freenect_shutdown; the thread returns.
TearDone(e) ==
  /\ pc[e] = "tear" /\ cb[e] = NoRing
  /\ AllClosed
  /\ ctx' = "freed"
  /\ runloop' = NoThread
  /\ Goto(e, "done")
  /\ UNCHANGED <<arg, prev, joinee, cb, thread_running, thread, pending,
                 opened, ringVars, streamVars, lent>>

(***************************************************************************)
(* freenect_sync_get_depth / freenect_sync_get_video                       *)
(***************************************************************************)
Stopping == \E c \in Clients : pc[c] = "stopjoin"

\* "The returned buffer is valid until this function is called again."
Call(c) ==
  /\ pc[c] = "idle"
  /\ StopAlone => ~Stopping
  /\ \E q \in Requests :
       /\ q.client = c
       /\ arg' = [arg EXCEPT ![c] = q]
       /\ lent' = [lent EXCEPT ![q.ring] = FALSE]
  /\ Goto(c, "check")
  /\ UNCHANGED <<prev, joinee, cb, loopVars, opened, ringVars, streamVars>>

\* The test of thread_running, kinects[index] and fmt, without any lock.
\* Variant: the format is not compared.
Ready_AnyFormat(c) == thread_running /\ arg[c].ring[1] \in opened
Ready(c) ==
  /\ thread_running
  /\ arg[c].ring[1] \in opened
  /\ fmt[arg[c].ring] = arg[c].fmt

Check(c) ==
  /\ pc[c] = "check"
  /\ Goto(c, IF Ready(c) THEN "get" ELSE "inc")
  /\ UNCHANGED <<arg, prev, joinee, cb, loopVars, opened, ringVars,
                 streamVars, lent>>

\* pending_runloop_tasks_inc, at the start of setup_kinect
PendingInc(c) ==
  /\ pc[c] = "inc"
  /\ pending' = pending + 1
  /\ Goto(c, "runlock")
  /\ UNCHANGED <<arg, prev, joinee, cb, thread_running, thread, ctx, runloop,
                 opened, ringVars, streamVars, lent>>

\* init_thread: a new context and a new event thread replace the old ones;
\* next is where client c goes.
StartThread(c, next) ==
  IF thread_running
  THEN /\ Goto(c, next)
       /\ UNCHANGED <<thread_running, thread, ctx>>
  ELSE \E e \in EventThreads :
         /\ pc[e] = "none"
         /\ pc' = [pc EXCEPT ![e] = "zero", ![c] = next]
         /\ thread_running' = TRUE /\ thread' = e /\ ctx' = "live"

\* setup_kinect under runloop_lock, up to the ring's lock: start the thread,
\* open the device.  alloc_kinect leaves valid uninitialised.  With the
\* context freed and thread_running still set, the open uses freed memory
\* ("dangling").
SetupEnter(c) ==
  LET d == arg[c].ring[1]
  IN /\ pc[c] = "runlock"
     /\ runloop = NoThread
     /\ runloop' = c
     /\ prev' = [prev EXCEPT ![c] = thread_running]
     /\ \/ /\ d \in opened
           /\ StartThread(c, "ringlock")
           /\ UNCHANGED <<opened, valid>>
        \/ /\ d \notin opened /\ (thread_running => ctx = "live")
           /\ StartThread(c, "ringlock")
           /\ opened' = opened \cup {d}
           /\ \E v \in BOOLEAN :
                valid' = [r \in Rings |-> IF r[1] = d THEN v ELSE valid[r]]
        \/ /\ d \notin opened /\ (thread_running => ctx = "live")
           /\ d \in Absent
           /\ StartThread(c, "failunlock")
           /\ UNCHANGED <<opened, valid>>
        \/ /\ d \notin opened /\ thread_running /\ ctx # "live"
           /\ Goto(c, "dangling")
           /\ UNCHANGED <<opened, valid, thread_running, thread, ctx>>
     /\ UNCHANGED <<arg, joinee, cb, pending, lock, bufs, fmt, timestamp, mem,
                    streamVars, lent>>

\* change_*_format once the stream is stopped: free the ring, allocate it in
\* the new format, hand bufs[2] to the stream (usr_buf, which stream_init
\* makes proc_buf) and start it.  An unsupported format leaves the ring
\* freed, and setup_kinect ignores the result.
Reallocate(c, r) ==
  /\ valid' = [valid EXCEPT ![r] = FALSE]
  /\ timestamp' = [timestamp EXCEPT ![r] = 0]
  /\ mem' = [mem EXCEPT ![r] = AllBlank]
  /\ IF arg[c].fmt \in RingFormats
     THEN /\ bufs' = [bufs EXCEPT ![r] = FreshBufs]
          /\ fmt' = [fmt EXCEPT ![r] = arg[c].fmt]
          /\ proc' = [proc EXCEPT ![r] = FreshBufs[2]]
          /\ Goto(c, "starting")
     ELSE /\ bufs' = [bufs EXCEPT ![r] = NoBufs]
          /\ fmt' = [fmt EXCEPT ![r] = NoFormat]
          /\ Goto(c, "unlock")
          /\ UNCHANGED proc

\* Whether RingLock leaves the stream running.
\* Variant: freenect_stop_* clears running only when it is done.
KeepsRunning_Late(c, r) == c \in Clients /\ running[r]
KeepsRunning(c, r) == running[r] /\ fmt[r] = arg[c].fmt

\* Take the ring's lock; in another format the stream is stopped first:
\* freenect_stop_* clears running before it pumps events.
RingLock(c) ==
  LET r == arg[c].ring
  IN /\ pc[c] = "ringlock"
     /\ lock[r] = NoThread
     /\ lock' = [lock EXCEPT ![r] = c]
     /\ running' = [running EXCEPT ![r] = KeepsRunning(c, r)]
     /\ \/ /\ fmt[r] = arg[c].fmt
           /\ Goto(c, "unlock")
           /\ UNCHANGED <<bufs, fmt, valid, timestamp, mem, proc>>
        \/ /\ fmt[r] # arg[c].fmt /\ running[r]
           /\ Goto(c, "stopping")
           /\ UNCHANGED <<bufs, fmt, valid, timestamp, mem, proc>>
        \/ /\ fmt[r] # arg[c].fmt /\ ~running[r]
           /\ Reallocate(c, r)
     /\ UNCHANGED <<arg, prev, joinee, cb, loopVars, opened, clock, lent>>

StreamStopped(c) ==
  /\ pc[c] = "stopping" /\ cb[c] = NoRing
  /\ Reallocate(c, arg[c].ring)
  /\ UNCHANGED <<arg, prev, joinee, cb, loopVars, opened, lock, running,
                 clock, lent>>

\* freenect_start_* sets running last, after its control transfers.
StreamStarted(c) ==
  /\ pc[c] = "starting" /\ cb[c] = NoRing
  /\ running' = [running EXCEPT ![arg[c].ring] = TRUE]
  /\ Goto(c, "unlock")
  /\ UNCHANGED <<arg, prev, joinee, cb, loopVars, opened, ringVars, proc,
                 clock, lent>>

SetupUnlock(c) ==
  /\ pc[c] = "unlock"
  /\ lock' = [lock EXCEPT ![arg[c].ring] = NoThread]
  /\ runloop' = NoThread
  /\ Goto(c, "dec")
  /\ UNCHANGED <<arg, prev, joinee, cb, thread_running, thread, ctx, pending,
                 opened, bufs, fmt, valid, timestamp, mem, streamVars, lent>>

\* pending_runloop_tasks_dec: at zero it signals one waiting event thread.
PendingDec(c, next) ==
  LET asleep == {e \in EventThreads : pc[e] = "zwait"}
  IN /\ pending' = pending - 1
     /\ IF pending = 1 /\ asleep # {}
        THEN \E e \in asleep : pc' = [pc EXCEPT ![e] = "zero", ![c] = next]
        ELSE Goto(c, next)

\* Variant: setup_kinect returns without pending_runloop_tasks_dec.
SetupDone_NoDec(c) ==
  /\ pc[c] = "dec"
  /\ Goto(c, "get")
  /\ UNCHANGED <<arg, prev, joinee, cb, loopVars, opened, ringVars,
                 streamVars, lent>>

SetupDone(c) ==
  /\ pc[c] = "dec"
  /\ PendingDec(c, "get")
  /\ UNCHANGED <<arg, prev, joinee, cb, thread_running, thread, ctx, runloop,
                 opened, ringVars, streamVars, lent>>

\* The device could not be opened: "If we started the thread, we need to
\* bring it back".
FailUnlock(c) ==
  /\ pc[c] = "failunlock"
  /\ thread_running' = (thread_running /\ prev[c])
  /\ runloop' = NoThread
  /\ Goto(c, "faildec")
  /\ UNCHANGED <<arg, prev, joinee, cb, thread, ctx, pending, opened,
                 ringVars, streamVars, lent>>

FailDone(c) ==
  /\ pc[c] = "faildec"
  /\ PendingDec(c, IF prev[c] THEN "idle" ELSE "join")
  /\ joinee' = [joinee EXCEPT ![c] = thread]
  /\ UNCHANGED <<arg, prev, cb, thread_running, thread, ctx, runloop, opened,
                 ringVars, streamVars, lent>>

\* pthread_join of the thread that the global named when it was called
Join(c) ==
  /\ pc[c] \in {"join", "stopjoin"}
  /\ \E e \in EventThreads :
       /\ joinee[c] = e /\ pc[e] = "done"
       /\ pc' = [pc EXCEPT ![e] = "none", ![c] = "idle"]
  /\ UNCHANGED <<arg, prev, joinee, cb, loopVars, opened, ringVars,
                 streamVars, lent>>

\* sync_get.  The device may be gone since Check: kinects[index] is read
\* again, and a NULL one loses the client.
Get(c) ==
  LET r == arg[c].ring
  IN /\ pc[c] = "get"
     /\ r[1] \in opened => lock[r] = NoThread
     /\ \/ /\ r[1] \in opened /\ valid[r]
           /\ bufs' = [bufs EXCEPT ![r] = Exchange(@, 0, 1)]
           /\ valid' = [valid EXCEPT ![r] = FALSE]
           /\ lent' = [lent EXCEPT ![r] = TRUE]
           /\ Goto(c, "idle")
        \/ /\ r[1] \in opened /\ ~valid[r]
           /\ Goto(c, "wait")
           /\ UNCHANGED <<bufs, valid, lent>>
        \/ /\ r[1] \notin opened
           /\ Goto(c, "lost")
           /\ UNCHANGED <<bufs, valid, lent>>
     /\ UNCHANGED <<arg, prev, joinee, cb, loopVars, opened, lock, fmt,
                    timestamp, mem, streamVars>>

\* freenect_sync_stop
Stop(c) ==
  /\ c \in Stoppers
  /\ pc[c] = "idle"
  /\ StopAlone => \A o \in Clients : pc[o] = "idle"
  /\ thread_running
  /\ thread_running' = FALSE
  /\ joinee' = [joinee EXCEPT ![c] = thread]
  /\ lent' = [r \in Rings |-> FALSE]
  /\ Goto(c, "stopjoin")
  /\ UNCHANGED <<arg, prev, cb, thread, ctx, runloop, pending, opened,
                 ringVars, streamVars>>

-----------------------------------------------------------------------------
ClientStep(c) ==
  \/ Check(c) \/ PendingInc(c) \/ SetupEnter(c)
  \/ RingLock(c) \/ StreamStopped(c) \/ StreamStarted(c)
  \/ SetupUnlock(c) \/ SetupDone(c)
  \/ FailUnlock(c) \/ FailDone(c) \/ Join(c) \/ Get(c)

EventStep(e) ==
  \/ EventWaitZero(e) \/ EventLock(e) \/ EventsHandled(e)
  \/ \E r \in Rings : TearStop(e, r)
  \/ \E d \in Devices : TearFree(e, d)
  \/ TearDone(e)

Next ==
  \/ \E c \in Clients : Call(c) \/ Stop(c) \/ ClientStep(c)
  \/ \E e \in EventThreads : EventStep(e) \/ EventsFailed(e)
  \/ \E t \in Threads, r \in Rings : FrameDone(t, r) \/ ProducerCb(t, r)

Spec == Init /\ [][Next]_vars

(***************************************************************************)
(* Threads that can run do run.  Weak fairness is all a lock or a thread   *)
(* switch gets: a mutex need not be fair.  A wait for libusb ends although *)
(* frames keep arriving, since libusb_handle_events handles one poll's     *)
(* events and returns within its 60 s timeout: strong fairness on leaving  *)
(* it.  A running camera completes a frame again and again while somebody  *)
(* pumps events.  Nobody has to call, to stop or to fail.                  *)
(***************************************************************************)
PumpReturns(t) ==
  IF t \in Clients THEN StreamStopped(t) \/ StreamStarted(t)
  ELSE \/ EventsHandled(t)
       \/ \E r \in Rings : TearStop(t, r)
       \/ \E d \in Devices : TearFree(t, d)

Fairness ==
  /\ \A c \in Clients : WF_vars(ClientStep(c))
  /\ \A e \in EventThreads : WF_vars(EventStep(e))
  /\ \A t \in Threads : SF_vars(PumpReturns(t))
  /\ \A t \in Threads, r \in Rings : WF_vars(ProducerCb(t, r))
  /\ \A r \in Rings : SF_vars(\E t \in Threads : FrameDone(t, r))

FairSpec == Spec /\ Fairness

-----------------------------------------------------------------------------
\* Every variable has its type; timestamps stay within their width.
TypeOK ==
  /\ pc \in [Threads -> clientPCs \cup eventPCs]
  /\ \A c \in Clients : pc[c] \in clientPCs
  /\ \A e \in EventThreads : pc[e] \in eventPCs
  /\ arg \in [Clients -> Requests]
  /\ prev \in [Clients -> BOOLEAN]
  /\ joinee \in [Clients -> EventThreads \cup {NoThread}]
  /\ cb \in [Threads -> Rings \cup {NoRing}]
  /\ thread_running \in BOOLEAN
  /\ thread \in EventThreads \cup {NoThread}
  /\ ctx \in {"none", "live", "freed"}
  /\ runloop \in Threads \cup {NoThread}
  /\ pending \in Int
  /\ opened \subseteq Devices
  /\ lock \in [Rings -> Threads \cup {NoThread}]
  /\ bufs \in [Rings -> [Slots -> Slots] \cup {NoBufs}]
  /\ fmt \in [Rings -> Formats \cup {NoFormat}]
  /\ valid \in [Rings -> BOOLEAN]
  /\ timestamp \in [Rings -> 0 .. NStamps - 1]
  /\ mem \in [Rings -> [Slots -> Frames \cup {Blank}]]
  /\ running \in [Rings -> BOOLEAN]
  /\ proc \in [Rings -> Slots]
  /\ clock \in [Rings -> 0 .. NStamps - 1]
  /\ lent \in [Rings -> BOOLEAN]

\* The three buffers of a ring are distinct, and a running stream writes
\* exactly bufs[2]: never the client's buffer, never the published one.  It
\* is the assertion at the head of producer_cb_inner, at every moment.
DriverOwnsBack ==
  \A r \in Rings :
    /\ bufs[r] # NoBufs =>
         \A i, j \in Slots : bufs[r][i] = bufs[r][j] => i = j
    /\ running[r] => bufs[r] # NoBufs /\ proc[r] = bufs[r][2]

\* Client c is between its increment and its decrement.
Pending(c) ==
  pc[c] \in {"runlock", "ringlock", "stopping", "starting", "unlock", "dec",
             "failunlock", "faildec", "dangling"}

\* pending_runloop_tasks counts the clients between their increment and
\* their decrement, so neither assertion on it can fail, whoever stops,
\* fails or starts over in between.
PendingCounts == pending = Cardinality({c \in Clients : Pending(c)})

\* No thread enters the producer callback of a ring whose lock it holds: the
\* callback would wait for its own thread.  It needs freenect_stop_* to clear
\* running before it pumps events and freenect_start_* to set it after.
NoSelfDeadlock ==
  \A t \in Threads, r \in Rings : cb[t] = r => lock[r] # t

\* A get returns a frame in the format it asked for, with the timestamp of
\* that very frame, although format and timestamp live beside the buffers
\* and are checked and changed under different locks.
GetReturnsRequest ==
  [][\A c \in Clients :
       pc[c] = "get" /\ pc'[c] = "idle" =>
         LET r     == arg[c].ring
             frame == mem'[r][bufs'[r][0]]
         IN frame.fmt = arg[c].fmt /\ frame.ts = timestamp[r]]_vars

\* When freenect_sync_stop returns, or a failed first call has taken the
\* event thread back, every device is closed, every ring freed, the context
\* shut down, and no event thread is left.
JoinReleasesAll ==
  [][\A c \in Clients :
       pc[c] \in {"join", "stopjoin"} /\ pc'[c] = "idle" =>
         /\ opened = {} /\ ctx = "freed"
         /\ \A r \in Rings : bufs[r] = NoBufs /\ ~running[r]
         /\ \A e \in EventThreads : pc'[e] = "none"]_vars

\* Every call of the wrapper returns, with a frame or with an error.  A
\* client in setup_kinect gets runloop_lock although the event thread takes
\* it again and again: pending_runloop_tasks holds the event thread off.
CallReturns ==
  \A c \in Clients : pc[c] # "idle" ~> pc[c] = "idle"

\* libfreenect_sync.h: "The returned buffer is valid until this function is
\* called again."  (It does not hold: see README, as for the next.)
LentBufferValid == \A r \in Rings : lent[r] => bufs[r] # NoBufs

\* "If we started the thread, we need to bring it back": the join at the end
\* of a failed first call comes back.
ThreadBroughtBack ==
  \A c \in Clients : pc[c] = "join" ~> pc[c] = "idle"

-----------------------------------------------------------------------------
\* Threads inside the producer callback of r: their frame is complete but
\* not yet published.
Publishing(r) == {t \in Threads : cb[t] = r}

Mailbox == INSTANCE FrameMailbox WITH
  Rings <- Rings, Formats <- Formats, NStamps <- NStamps, Empty <- Blank,
  box   <- [r \in Rings |-> IF valid[r] /\ bufs[r] # NoBufs
                            THEN mem[r][bufs[r][1]] ELSE Blank],
  taken <- [r \in Rings |-> IF lent[r] /\ bufs[r] # NoBufs
                            THEN mem[r][bufs[r][0]] ELSE Blank],
  next  <- [r \in Rings |-> IF Publishing(r) = {} THEN clock[r]
                            ELSE (clock[r] + NStamps - 1) % NStamps]

\* Every frame a client gets is the newest complete one, none is handed out
\* twice, and none changes under the client that reads it.
MailboxSpec == Mailbox!Spec
=============================================================================
