------------------------- MODULE SyncWrapperProofs -------------------------
(***************************************************************************)
(* Type correctness, buffer ownership, freedom from self-deadlock and the  *)
(* count of pending tasks of the synchronous wrapper, for any clients,     *)
(* devices, streams and formats; and for one client, that a get returns    *)
(* what was asked for, that a join releases everything, and that the       *)
(* wrapper implements FrameMailbox.                                        *)
(***************************************************************************)
EXTENDS SyncWrapper, FiniteSetTheorems, TLAPS

\* Where a thread is while it holds runloop_lock
HoldsRunloop(t) ==
  pc[t] \in {"proc", "tear", "ringlock", "stopping", "starting", "unlock",
             "failunlock", "dangling"}

\* Where a client is while it holds the lock of its ring
HoldsRing(t) == pc[t] \in {"stopping", "starting", "unlock"}

\* runloop_lock is held by the thread that is where it is needed.
LoopInv == \A t \in Threads : HoldsRunloop(t) => runloop = t

\* The lock of a ring is held by the client whose call set it up, if anyone.
LockInv ==
  /\ \A c \in Clients : HoldsRing(c) => lock[arg[c].ring] = c
  /\ \A r \in Rings : lock[r] # NoThread =>
       /\ lock[r] \in Clients
       /\ HoldsRing(lock[r])
       /\ arg[lock[r]].ring = r

\* A ring that the driver may write: allocated, without aliases, and the
\* stream points at bufs[2].
DriverReady(r) ==
  bufs[r] # NoBufs /\ fmt[r] # NoFormat /\ proc[r] = bufs[r][2]

\* The three buffers are distinct; a running or starting stream writes bufs[2];
\* a ring whose lock is held runs only when its client is about to unlock it.
OwnInv ==
  /\ \A r \in Rings : bufs[r] # NoBufs =>
       \A i, j \in Slots : bufs[r][i] = bufs[r][j] => i = j
  /\ \A r \in Rings : running[r] => DriverReady(r)
  /\ \A c \in Clients : pc[c] = "starting" => DriverReady(arg[c].ring)
  /\ \A r \in Rings : running[r] /\ lock[r] # NoThread =>
       pc[lock[r]] = "unlock"

\* A callback runs on a pumping thread, for a running stream with a full frame.
CbInv ==
  \A t \in Threads, r \in Rings : cb[t] = r =>
    Pumping(t) /\ running[r] /\ mem[r][proc[r]] # Blank

IInv == TypeOK /\ LoopInv /\ LockInv /\ OwnInv /\ CbInv

-----------------------------------------------------------------------------
\* The assumptions on the constants, as the steps below use them
LEMMA Constants ==
  /\ NoThread \notin Clients /\ NoThread \notin EventThreads
  /\ Clients \cap EventThreads = {}
  /\ Threads = Clients \cup EventThreads
  /\ NoRing \notin Rings /\ NoFormat \notin Formats
  /\ NoBufs \notin [Slots -> Slots] /\ Blank \notin Frames
  /\ NStamps \in Nat \ {0}
  /\ Slots = {0, 1, 2}
  /\ \A q \in Requests : q.ring \in Rings /\ q.fmt \in Formats
  /\ RingFormats \subseteq Formats
  BY ConstantsAssumption DEF Threads, Slots

\* FreshBufs names three different buffers.
LEMMA FreshDistinct ==
  /\ FreshBufs \in [Slots -> Slots] /\ FreshBufs[2] \in Slots
  /\ FreshBufs # NoBufs
  /\ \A i, j \in Slots : FreshBufs[i] = FreshBufs[j] => i = j
  BY Constants DEF FreshBufs, Slots

\* Exchanging two of the three pointers of a ring leaves three different
\* pointers, those of the other places where they were.
LEMMA ExchangeSound ==
  ASSUME NEW b \in [Slots -> Slots] \cup {NoBufs},
         NEW i \in Slots, NEW j \in Slots
  PROVE  /\ Exchange(b, i, j) \in [Slots -> Slots] \cup {NoBufs}
         /\ (Exchange(b, i, j) = NoBufs) <=> (b = NoBufs)
         /\ b # NoBufs =>
              /\ Exchange(b, i, j)[i] = b[j] /\ Exchange(b, i, j)[j] = b[i]
              /\ \A k \in Slots \ {i, j} : Exchange(b, i, j)[k] = b[k]
         /\ b # NoBufs /\ (\A k, l \in Slots : b[k] = b[l] => k = l) =>
              \A k, l \in Slots :
                Exchange(b, i, j)[k] = Exchange(b, i, j)[l] => k = l
  BY Constants DEF Exchange

\* Every thread is at a place of its own kind.
ControlOK ==
  /\ pc \in [Threads -> clientPCs \cup eventPCs]
  /\ \A c \in Clients : pc[c] \in clientPCs
  /\ \A e \in EventThreads : pc[e] \in eventPCs

\* A thread that goes to a label of its own kind keeps pc well typed.
LEMMA GotoType ==
  ASSUME TypeOK, NEW c \in Clients, NEW next \in clientPCs,
         pc' = [pc EXCEPT ![c] = next]
  PROVE  /\ ControlOK' /\ pc'[c] = next
         /\ \A t \in Threads \ {c} : pc'[t] = pc[t]
  BY Constants DEF TypeOK, ControlOK

\* The wrapper before its first call satisfies the inductive invariant.
LEMMA InitInv == Init => IInv
  <1> SUFFICES ASSUME Init PROVE IInv
    OBVIOUS
  <1> USE Constants DEF Init
  <1>1. pc \in [Threads -> clientPCs \cup eventPCs]
    BY DEF clientPCs, eventPCs
  <1>2. /\ \A c \in Clients : pc[c] = "idle"
        /\ \A e \in EventThreads : pc[e] = "none"
    OBVIOUS
  <1>3. mem \in [Rings -> [Slots -> Frames \cup {Blank}]]
    BY DEF AllBlank
  <1>4. 0 \in Slots /\ 0 \in 0 .. NStamps - 1
    OBVIOUS
  <1>5. TypeOK
    <2>1. /\ pc \in [Threads -> clientPCs \cup eventPCs]
          /\ \A c \in Clients : pc[c] \in clientPCs
          /\ \A e \in EventThreads : pc[e] \in eventPCs
      BY <1>1, <1>2 DEF clientPCs, eventPCs
    <2>2. /\ arg \in [Clients -> Requests]
          /\ prev \in [Clients -> BOOLEAN]
          /\ joinee \in [Clients -> EventThreads \cup {NoThread}]
          /\ cb \in [Threads -> Rings \cup {NoRing}]
      OBVIOUS
    <2>3. /\ lock \in [Rings -> Threads \cup {NoThread}]
          /\ bufs \in [Rings -> [Slots -> Slots] \cup {NoBufs}]
          /\ fmt \in [Rings -> Formats \cup {NoFormat}]
          /\ valid \in [Rings -> BOOLEAN]
      OBVIOUS
    <2>4. /\ timestamp \in [Rings -> 0 .. NStamps - 1]
          /\ running \in [Rings -> BOOLEAN]
          /\ proc \in [Rings -> Slots]
          /\ clock \in [Rings -> 0 .. NStamps - 1]
          /\ lent \in [Rings -> BOOLEAN]
      BY <1>4
    <2>5. thread_running \in BOOLEAN
      OBVIOUS
    <2>6. /\ thread \in EventThreads \cup {NoThread}
          /\ ctx \in {"none", "live", "freed"}
          /\ runloop \in Threads \cup {NoThread}
          /\ pending \in Int /\ opened \subseteq Devices
      OBVIOUS
    <2> HIDE DEF Init
    <2>7. QED
      BY <1>3, <2>1, <2>2, <2>3, <2>4, <2>5, <2>6 DEF TypeOK
  <1>6. LoopInv /\ LockInv /\ OwnInv /\ CbInv
    BY DEF LoopInv, LockInv, OwnInv, CbInv, HoldsRunloop, HoldsRing
  <1>7. QED
    BY <1>5, <1>6 DEF IInv

\* What a decrement of the task counter does to the threads: client c goes
\* on, and at most a sleeping event thread is woken.
LEMMA DecStep ==
  ASSUME TypeOK, NEW c \in Clients, NEW next \in clientPCs,
         PendingDec(c, next)
  PROVE  /\ pending' \in Int
         /\ pc' \in [Threads -> clientPCs \cup eventPCs]
         /\ pc'[c] = next
         /\ \A t \in Threads \ {c} :
              \/ pc'[t] = pc[t]
              \/ t \in EventThreads /\ pc[t] = "zwait" /\ pc'[t] = "zero"
  <1> USE Constants DEF TypeOK, PendingDec, eventPCs
  <1>1. CASE pc' = [pc EXCEPT ![c] = next]
    BY <1>1
  <1>2. ASSUME NEW e \in EventThreads, pc[e] = "zwait",
               pc' = [pc EXCEPT ![e] = "zero", ![c] = next]
        PROVE  /\ pc' \in [Threads -> clientPCs \cup eventPCs]
               /\ pc'[c] = next
               /\ \A t \in Threads \ {c} :
                    \/ pc'[t] = pc[t]
                    \/ /\ t \in EventThreads
                       /\ pc[t] = "zwait" /\ pc'[t] = "zero"
    BY <1>2
  <1>3. \/ pc' = [pc EXCEPT ![c] = next]
        \/ \E e \in EventThreads :
             pc[e] = "zwait" /\ pc' = [pc EXCEPT ![e] = "zero", ![c] = next]
    BY DEF Goto
  <1>4. pending' \in Int
    OBVIOUS
  <1>5. QED
    BY <1>1, <1>2, <1>3, <1>4 DEF TypeOK

\* It leaves every thread at a place of its own kind.
LEMMA DecControl ==
  ASSUME TypeOK, NEW c \in Clients, NEW next \in clientPCs,
         PendingDec(c, next)
  PROVE  pending' \in Int /\ ControlOK'
  <1>1. \A b \in Clients : pc'[b] \in clientPCs
    BY DecStep, Constants DEF TypeOK
  <1>2. \A e \in EventThreads : pc'[e] \in eventPCs
    BY DecStep, Constants DEF TypeOK, eventPCs
  <1>3. QED
    BY <1>1, <1>2, DecStep DEF ControlOK

\* What a step of client c that starts a thread does to the threads
LEMMA StartStep ==
  ASSUME TypeOK, NEW c \in Clients, NEW next \in clientPCs,
         StartThread(c, next)
  PROVE  /\ thread_running' \in BOOLEAN
         /\ thread' \in EventThreads \cup {NoThread}
         /\ ctx' \in {"none", "live", "freed"}
         /\ pc' \in [Threads -> clientPCs \cup eventPCs]
         /\ pc'[c] = next
         /\ \A t \in Threads \ {c} :
              \/ pc'[t] = pc[t]
              \/ t \in EventThreads /\ pc[t] = "none" /\ pc'[t] = "zero"
  <1> USE Constants DEF TypeOK, StartThread, eventPCs
  <1>1. CASE thread_running
    BY <1>1 DEF Goto
  <1>2. ASSUME NEW e \in EventThreads, pc[e] = "none",
               pc' = [pc EXCEPT ![e] = "zero", ![c] = next]
        PROVE  /\ pc' \in [Threads -> clientPCs \cup eventPCs]
               /\ pc'[c] = next
               /\ \A t \in Threads \ {c} :
                    \/ pc'[t] = pc[t]
                    \/ /\ t \in EventThreads
                       /\ pc[t] = "none" /\ pc'[t] = "zero"
    BY <1>2
  <1>3. CASE ~thread_running
    <2>1. PICK e \in EventThreads :
            pc[e] = "none" /\ pc' = [pc EXCEPT ![e] = "zero", ![c] = next]
      BY <1>3
    <2>2. /\ thread_running' = TRUE /\ thread' \in EventThreads
          /\ ctx' = "live"
      BY <1>3
    <2>3. QED
      BY <1>2, <2>1, <2>2
  <1>4. QED
    BY <1>1, <1>3

\* A signal moves at most one client, from its wait to the ring's lock.
LEMMA SignalStep ==
  ASSUME TypeOK, NEW r \in Rings, Signal(r)
  PROVE  /\ ControlOK'
         /\ \A t \in Threads :
              \/ pc'[t] = pc[t]
              \/ pc[t] = "wait" /\ pc'[t] = "get"
  <1> USE Constants
  <1>1. \/ pc' = pc
        \/ \E c \in Clients :
             pc[c] = "wait" /\ pc' = [pc EXCEPT ![c] = "get"]
    BY DEF Signal, Waiters, Goto
  <1>2. CASE pc' = pc
    BY <1>2 DEF TypeOK, ControlOK
  <1>3. ASSUME NEW c \in Clients, pc[c] = "wait",
               pc' = [pc EXCEPT ![c] = "get"]
        PROVE  /\ ControlOK'
               /\ \A t \in Threads :
                    \/ pc'[t] = pc[t]
                    \/ pc[t] = "wait" /\ pc'[t] = "get"
    <2>1. "get" \in clientPCs
      BY DEF clientPCs
    <2>2. QED
      BY <1>3, <2>1, GotoType
  <1>4. QED
    BY <1>1, <1>2, <1>3

\* Reallocating a ring keeps its fields well typed.
LEMMA ReallocateType ==
  ASSUME TypeOK, NEW c \in Clients, NEW r \in Rings, Reallocate(c, r)
  PROVE  /\ bufs' \in [Rings -> [Slots -> Slots] \cup {NoBufs}]
         /\ fmt' \in [Rings -> Formats \cup {NoFormat}]
         /\ valid' \in [Rings -> BOOLEAN]
         /\ timestamp' \in [Rings -> 0 .. NStamps - 1]
         /\ mem' \in [Rings -> [Slots -> Frames \cup {Blank}]]
         /\ proc' \in [Rings -> Slots]
         /\ pc' = [pc EXCEPT ![c] = IF arg[c].fmt \in RingFormats
                                    THEN "starting" ELSE "unlock"]
  <1> USE Constants, FreshDistinct DEF TypeOK, Reallocate
  <1>1. AllBlank \in [Slots -> Frames \cup {Blank}]
    BY DEF AllBlank
  <1>2. arg[c].fmt \in Formats
    OBVIOUS
  <1>3. mem' \in [Rings -> [Slots -> Frames \cup {Blank}]]
    BY <1>1
  <1>4. timestamp' \in [Rings -> 0 .. NStamps - 1]
    OBVIOUS
  <1>5. valid' \in [Rings -> BOOLEAN]
    OBVIOUS
  <1>6. /\ bufs' \in [Rings -> [Slots -> Slots] \cup {NoBufs}]
        /\ fmt' \in [Rings -> Formats \cup {NoFormat}]
        /\ proc' \in [Rings -> Slots]
    <2>1. CASE arg[c].fmt \in RingFormats
      <3>1. /\ bufs' = [bufs EXCEPT ![r] = FreshBufs]
            /\ fmt' = [fmt EXCEPT ![r] = arg[c].fmt]
            /\ proc' = [proc EXCEPT ![r] = FreshBufs[2]]
        BY <2>1
      <3> HIDE DEF Reallocate
      <3>2. QED
        BY <1>2, <3>1
    <2>2. CASE arg[c].fmt \notin RingFormats
      BY <1>2, <2>2
    <2>3. QED
      BY <2>1, <2>2
  <1>7. pc' = [pc EXCEPT ![c] = IF arg[c].fmt \in RingFormats
                                THEN "starting" ELSE "unlock"]
    BY DEF Goto
  <1>8. QED
    BY <1>3, <1>4, <1>5, <1>6, <1>7

\* Every step of every thread keeps the variables in their ranges.
LEMMA TypeStep ==
  TypeOK /\ OwnInv /\ CbInv /\ [Next]_vars => TypeOK'
  <1> SUFFICES ASSUME TypeOK, OwnInv, CbInv, [Next]_vars PROVE TypeOK'
    OBVIOUS
  <1> USE Constants
  <1>1. ASSUME NEW t \in Threads, NEW r \in Rings, FrameDone(t, r)
        PROVE  TypeOK'
    <2>1. fmt[r] \in Formats /\ proc[r] \in Slots
      BY <1>1 DEF FrameDone, OwnInv, DriverReady, TypeOK
    <2>2. [fmt |-> fmt[r], ts |-> clock[r]] \in Frames
      BY <2>1 DEF Frames, TypeOK
    <2>3. mem' \in [Rings -> [Slots -> Frames \cup {Blank}]]
      BY <1>1, <2>1, <2>2 DEF FrameDone, TypeOK
    <2>4. clock' \in [Rings -> 0 .. NStamps - 1]
      BY <1>1 DEF FrameDone, NextStamp, TypeOK
    <2>5. cb' \in [Threads -> Rings \cup {NoRing}]
      BY <1>1 DEF FrameDone, TypeOK
    <2>6. QED
      BY <1>1, <2>3, <2>4, <2>5 DEF FrameDone, loopVars, TypeOK
  <1>2. ASSUME NEW t \in Threads, NEW r \in Rings, ProducerCb(t, r)
        PROVE  TypeOK'
    <2>1. cb[t] = r /\ Signal(r)
      BY <1>2 DEF ProducerCb
    <2>2. /\ bufs[r] # NoBufs /\ bufs[r] \in [Slots -> Slots]
          /\ proc[r] \in Slots /\ mem[r][proc[r]] \in Frames
      <3>1. running[r] /\ mem[r][proc[r]] # Blank
        BY <2>1 DEF CbInv
      <3>2. bufs[r] # NoBufs
        BY <3>1 DEF OwnInv, DriverReady
      <3>3. proc[r] \in Slots /\ mem[r] \in [Slots -> Frames \cup {Blank}]
        BY DEF TypeOK
      <3>4. bufs[r] \in [Slots -> Slots] \cup {NoBufs}
        BY DEF TypeOK
      <3>5. QED
        BY <3>1, <3>2, <3>3, <3>4
    <2>3. mem[r][proc[r]].ts \in 0 .. NStamps - 1
      BY <2>2 DEF Frames
    <2>4. timestamp' \in [Rings -> 0 .. NStamps - 1]
      BY <1>2, <2>3 DEF ProducerCb, TypeOK
    <2>5. Exchange(bufs[r], 1, 2) \in [Slots -> Slots] \cup {NoBufs}
      <3>1. 1 \in Slots /\ 2 \in Slots
        OBVIOUS
      <3>2. QED
        BY <2>2, <3>1, ExchangeSound
    <2>6. bufs' \in [Rings -> [Slots -> Slots] \cup {NoBufs}]
      BY <1>2, <2>5 DEF ProducerCb, TypeOK
    <2>7. proc' \in [Rings -> Slots]
      BY <1>2, <2>2 DEF ProducerCb, NextProc, TypeOK
    <2>8. ControlOK'
      BY <2>1, SignalStep
    <2>9. /\ cb' \in [Threads -> Rings \cup {NoRing}]
          /\ valid' \in [Rings -> BOOLEAN]
      BY <1>2 DEF ProducerCb, TypeOK
    <2>10. QED
      BY <1>2, <2>4, <2>6, <2>7, <2>8, <2>9
      DEF ProducerCb, loopVars, TypeOK, ControlOK
  <1>3. ASSUME NEW e \in EventThreads, EventWaitZero(e)
        PROVE  TypeOK'
    BY <1>3 DEF TypeOK, clientPCs, eventPCs, EventWaitZero, Goto, loopVars,
      threadVars,
      ringVars, streamVars
  <1>4. ASSUME NEW e \in EventThreads, EventLock(e)
        PROVE  TypeOK'
    BY <1>4 DEF TypeOK, clientPCs, eventPCs, EventLock, Goto, loopVars,
      threadVars,
      ringVars, streamVars
  <1>5. ASSUME NEW e \in EventThreads, EventsHandled(e)
        PROVE  TypeOK'
    BY <1>5 DEF TypeOK, clientPCs, eventPCs, EventsHandled, Goto, loopVars,
      threadVars,
      ringVars, streamVars
  <1>6. ASSUME NEW e \in EventThreads, EventsFailed(e)
        PROVE  TypeOK'
    BY <1>6 DEF TypeOK, clientPCs, eventPCs, EventsFailed, Goto, loopVars,
      threadVars,
      ringVars, streamVars
  <1>7. ASSUME NEW e \in EventThreads, NEW r \in Rings, TearStop(e, r)
        PROVE  TypeOK'
    BY <1>7 DEF TypeOK, clientPCs, eventPCs, TearStop, Goto, loopVars,
      threadVars,
      ringVars, streamVars
  <1>8. ASSUME NEW e \in EventThreads, NEW d \in Devices, TearFree(e, d)
        PROVE  TypeOK'
    <2>1. AllBlank \in [Slots -> Frames \cup {Blank}]
      BY DEF AllBlank
    <2>2. mem' \in [Rings -> [Slots -> Frames \cup {Blank}]]
      BY <1>8, <2>1 DEF TearFree, TypeOK
    <2>3. /\ bufs' \in [Rings -> [Slots -> Slots] \cup {NoBufs}]
          /\ fmt' \in [Rings -> Formats \cup {NoFormat}]
      BY <1>8 DEF TearFree, TypeOK
    <2>4. timestamp' \in [Rings -> 0 .. NStamps - 1]
      BY <1>8 DEF TearFree, TypeOK
    <2>5. valid' \in [Rings -> BOOLEAN]
      BY <1>8 DEF TearFree, TypeOK
    <2>6. ControlOK'
      BY <1>8 DEF TearFree, TypeOK, ControlOK, clientPCs, eventPCs
    <2>7. QED
      BY <1>8, <2>2, <2>3, <2>6, <2>4, <2>5
      DEF TearFree, loopVars, streamVars, TypeOK, ControlOK
  <1>9. ASSUME NEW e \in EventThreads, TearDone(e)
        PROVE  TypeOK'
    BY <1>9 DEF TypeOK, clientPCs, eventPCs, TearDone, Goto, loopVars,
      threadVars,
      ringVars, streamVars
  <1>10. ASSUME NEW c \in Clients, Call(c)
        PROVE  TypeOK'
    BY <1>10 DEF TypeOK, clientPCs, eventPCs, Call, Goto, loopVars, threadVars,
      ringVars, streamVars
  <1>11. ASSUME NEW c \in Clients, Stop(c)
        PROVE  TypeOK'
    BY <1>11 DEF TypeOK, clientPCs, eventPCs, Stop, Goto, loopVars, threadVars,
      ringVars, streamVars
  <1>12. ASSUME NEW c \in Clients, Check(c)
        PROVE  TypeOK'
    BY <1>12 DEF TypeOK, clientPCs, eventPCs, Check, Goto, loopVars,
      threadVars,
      ringVars, streamVars, Ready
  <1>13. ASSUME NEW c \in Clients, PendingInc(c)
        PROVE  TypeOK'
    BY <1>13 DEF TypeOK, clientPCs, eventPCs, PendingInc, Goto, loopVars,
      threadVars,
      ringVars, streamVars
  <1>14. ASSUME NEW c \in Clients, SetupEnter(c)
        PROVE  TypeOK'
    <2>1. ASSUME NEW next \in clientPCs, StartThread(c, next)
          PROVE  /\ thread_running' \in BOOLEAN
                 /\ thread' \in EventThreads \cup {NoThread}
                 /\ ctx' \in {"none", "live", "freed"}
                 /\ ControlOK'
      <3>1. \A e \in EventThreads : e # c
        OBVIOUS
      <3>2. \A b \in Clients : pc'[b] = pc[b] \/ pc'[b] = next
        BY <2>1, StartStep DEF Threads
      <3>3. \A e \in EventThreads : pc'[e] = pc[e] \/ pc'[e] = "zero"
        BY <2>1, <3>1, StartStep DEF Threads
      <3>4. "zero" \in eventPCs
        BY DEF eventPCs
      <3>5. ControlOK'
        <4>1. pc' \in [Threads -> clientPCs \cup eventPCs]
          BY <2>1, StartStep
        <4>2. \A b \in Clients : pc'[b] \in clientPCs
          BY <3>2 DEF TypeOK
        <4>3. \A e \in EventThreads : pc'[e] \in eventPCs
          BY <3>3, <3>4 DEF TypeOK
        <4>4. QED
          BY <4>1, <4>2, <4>3 DEF ControlOK
      <3>6. QED
        BY <2>1, <3>5, StartStep
    <2>2. ASSUME Goto(c, "dangling"), UNCHANGED <<thread_running, thread, ctx>>
          PROVE  /\ thread_running' \in BOOLEAN
                 /\ thread' \in EventThreads \cup {NoThread}
                 /\ ctx' \in {"none", "live", "freed"}
                 /\ ControlOK'
      <3>1. "dangling" \in clientPCs
        BY DEF clientPCs
      <3>2. ControlOK'
        BY <2>2, <3>1, GotoType DEF Goto
      <3>3. QED
        BY <2>2, <3>2 DEF TypeOK
    <2>3. "ringlock" \in clientPCs /\ "failunlock" \in clientPCs
      BY DEF clientPCs
    <2>4. /\ thread_running' \in BOOLEAN
          /\ thread' \in EventThreads \cup {NoThread}
          /\ ctx' \in {"none", "live", "freed"}
          /\ ControlOK'
      BY <1>14, <2>1, <2>2, <2>3 DEF SetupEnter
    <2>5. valid' \in [Rings -> BOOLEAN]
      BY <1>14 DEF SetupEnter, TypeOK
    <2>6. opened' \subseteq Devices
      BY <1>14 DEF SetupEnter, TypeOK, Rings
    <2>7. prev' \in [Clients -> BOOLEAN]
      BY <1>14 DEF SetupEnter, TypeOK
    <2>8. runloop' \in Threads \cup {NoThread}
      BY <1>14 DEF SetupEnter
    <2>9. QED
      BY <1>14, <2>4, <2>5, <2>6, <2>7, <2>8 
      DEF SetupEnter, streamVars, TypeOK, ControlOK
  <1>15. ASSUME NEW c \in Clients, RingLock(c)
        PROVE  TypeOK'
    <2>1. /\ lock' \in [Rings -> Threads \cup {NoThread}]
          /\ arg[c].ring \in Rings
      BY <1>15 DEF RingLock, TypeOK
    <2>2. running' \in [Rings -> BOOLEAN]
      BY <1>15, <2>1 DEF RingLock, KeepsRunning, TypeOK
    <2>3. CASE fmt[arg[c].ring] # arg[c].fmt /\ ~running[arg[c].ring]
      <3>1. Reallocate(c, arg[c].ring)
        BY <1>15, <2>3 DEF RingLock
      <3>2. ControlOK'
        BY <2>1, <3>1, ReallocateType, GotoType DEF clientPCs
      <3>3. QED
        BY <1>15, <2>1, <2>2, <3>1, <3>2, ReallocateType
        DEF RingLock, loopVars, TypeOK, ControlOK
    <2>4. CASE ~(fmt[arg[c].ring] # arg[c].fmt /\ ~running[arg[c].ring])
      <3>1. ControlOK'
        BY <1>15, <2>4, GotoType DEF RingLock, Goto, clientPCs
      <3>2. UNCHANGED <<bufs, fmt, valid, timestamp, mem, proc>>
        BY <1>15, <2>4 DEF RingLock
      <3>3. QED
        BY <1>15, <2>1, <2>2, <3>1, <3>2
        DEF RingLock, loopVars, TypeOK, ControlOK
    <2>5. QED
      BY <2>3, <2>4
  <1>16. ASSUME NEW c \in Clients, StreamStopped(c)
        PROVE  TypeOK'
    <2>1. Reallocate(c, arg[c].ring) /\ arg[c].ring \in Rings
      BY <1>16 DEF StreamStopped, TypeOK
    <2>2. ControlOK'
      BY <2>1, ReallocateType, GotoType DEF clientPCs
    <2>3. QED
      BY <1>16, <2>1, <2>2, ReallocateType
      DEF StreamStopped, loopVars, TypeOK, ControlOK
  <1>17. ASSUME NEW c \in Clients, StreamStarted(c)
        PROVE  TypeOK'
    BY <1>17 DEF TypeOK, clientPCs, eventPCs, StreamStarted, Goto, loopVars,
      threadVars,
      ringVars, streamVars
  <1>18. ASSUME NEW c \in Clients, SetupUnlock(c)
        PROVE  TypeOK'
    BY <1>18 DEF TypeOK, clientPCs, eventPCs, SetupUnlock, Goto, loopVars,
      threadVars,
      ringVars, streamVars
  <1>19. ASSUME NEW c \in Clients, SetupDone(c)
        PROVE  TypeOK'
    BY <1>19, DecControl
    DEF SetupDone, clientPCs, ringVars, streamVars, TypeOK, ControlOK
  <1>20. ASSUME NEW c \in Clients, FailUnlock(c)
        PROVE  TypeOK'
    BY <1>20 DEF TypeOK, clientPCs, eventPCs, FailUnlock, Goto, loopVars,
      threadVars,
      ringVars, streamVars
  <1>21. ASSUME NEW c \in Clients, FailDone(c)
        PROVE  TypeOK'
    <2>1. joinee' \in [Clients -> EventThreads \cup {NoThread}]
      BY <1>21 DEF FailDone, TypeOK
    <2>2. pending' \in Int /\ ControlOK'
      BY <1>21, DecControl DEF FailDone, clientPCs
    <2>3. QED
      BY <1>21, <2>1, <2>2
      DEF FailDone, ringVars, streamVars, TypeOK, ControlOK
  <1>22. ASSUME NEW c \in Clients, Join(c)
        PROVE  TypeOK'
    <2>1. PICK e \in EventThreads :
            pc[e] = "done" /\ pc' = [pc EXCEPT ![e] = "none", ![c] = "idle"]
      BY <1>22 DEF Join
    <2>2. ControlOK'
      BY <2>1 DEF TypeOK, ControlOK, clientPCs, eventPCs
    <2>3. QED
      BY <1>22, <2>2
      DEF Join, loopVars, ringVars, streamVars, TypeOK, ControlOK
  <1>23. ASSUME NEW c \in Clients, Get(c)
        PROVE  TypeOK'
    <2>1. arg[c].ring \in Rings /\ 0 \in Slots /\ 1 \in Slots
      BY DEF TypeOK
    <2>2. Exchange(bufs[arg[c].ring], 0, 1) \in [Slots -> Slots] \cup {NoBufs}
      <3>1. bufs[arg[c].ring] \in [Slots -> Slots] \cup {NoBufs}
        BY <2>1 DEF TypeOK
      <3>2. QED
        BY <2>1, <3>1, ExchangeSound
    <2>3. bufs' \in [Rings -> [Slots -> Slots] \cup {NoBufs}]
      BY <1>23, <2>1, <2>2 DEF Get, TypeOK
    <2>4. valid' \in [Rings -> BOOLEAN] /\ lent' \in [Rings -> BOOLEAN]
      <3>1. valid \in [Rings -> BOOLEAN] /\ lent \in [Rings -> BOOLEAN]
        BY DEF TypeOK
      <3>2. QED
        BY <1>23, <2>1, <3>1 DEF Get
    <2>5. ControlOK'
      BY <1>23, GotoType DEF Get, Goto, clientPCs
    <2>6. QED
      BY <1>23, <2>3, <2>4, <2>5
      DEF Get, loopVars, streamVars, TypeOK, ControlOK
  <1>24. CASE UNCHANGED vars
    BY <1>24 DEF TypeOK, clientPCs, eventPCs, vars, threadVars, loopVars,
      ringVars, streamVars
  <1>25. QED
    BY <1>1, <1>2, <1>3, <1>4, <1>5, <1>6, <1>7, <1>8, <1>9, <1>10, <1>11,
      <1>12, <1>13, <1>14, <1>15, <1>16, <1>17, <1>18, <1>19, <1>20, <1>21,
      <1>22, <1>23, <1>24
    DEF Next, ClientStep, EventStep

\* pending_runloop_tasks_dec takes no lock: it keeps LoopInv.
LEMMA DecLoop ==
  ASSUME TypeOK, LoopInv, NEW c \in Clients,
         NEW next \in {"get", "idle", "join"},
         PendingDec(c, next), runloop' = runloop
  PROVE  LoopInv'
  <1>1. next \in clientPCs
    BY DEF clientPCs
  <1>2. /\ pc'[c] = next
        /\ \A t \in Threads \ {c} : pc'[t] = pc[t] \/ pc'[t] = "zero"
    BY <1>1, DecStep
  <1>3. \A t \in Threads : HoldsRunloop(t)' => HoldsRunloop(t)
    BY <1>2 DEF HoldsRunloop
  <1>4. QED
    BY <1>3 DEF LoopInv

\* Every step keeps LoopInv: who holds runloop_lock and where it is.
LEMMA LoopStep ==
  TypeOK /\ LoopInv /\ [Next]_vars => LoopInv'
  <1> SUFFICES ASSUME TypeOK, LoopInv, [Next]_vars PROVE LoopInv'
    OBVIOUS
  <1> USE Constants
  <1>1. ASSUME NEW t \in Threads, NEW r \in Rings, FrameDone(t, r)
        PROVE  LoopInv'
    BY <1>1 DEF LoopInv, HoldsRunloop, TypeOK, clientPCs, eventPCs, FrameDone,
      Goto, loopVars, threadVars,
      ringVars, streamVars
  <1>2. ASSUME NEW t \in Threads, NEW r \in Rings, ProducerCb(t, r)
        PROVE  LoopInv'
    BY <1>2 DEF LoopInv, HoldsRunloop, TypeOK, clientPCs, eventPCs, ProducerCb,
      Goto, loopVars, threadVars,
      ringVars, streamVars, Signal, Waiters, NextProc
  <1>3. ASSUME NEW e \in EventThreads, EventWaitZero(e)
        PROVE  LoopInv'
    BY <1>3 DEF LoopInv, HoldsRunloop, TypeOK, clientPCs, eventPCs,
      EventWaitZero, Goto, loopVars, threadVars,
      ringVars, streamVars
  <1>4. ASSUME NEW e \in EventThreads, EventLock(e)
        PROVE  LoopInv'
    BY <1>4 DEF LoopInv, HoldsRunloop, TypeOK, clientPCs, eventPCs, EventLock,
      Goto, loopVars, threadVars,
      ringVars, streamVars
  <1>5. ASSUME NEW e \in EventThreads, EventsHandled(e)
        PROVE  LoopInv'
    BY <1>5 DEF LoopInv, HoldsRunloop, TypeOK, clientPCs, eventPCs,
      EventsHandled, Goto, loopVars, threadVars,
      ringVars, streamVars
  <1>6. ASSUME NEW e \in EventThreads, EventsFailed(e)
        PROVE  LoopInv'
    BY <1>6 DEF LoopInv, HoldsRunloop, TypeOK, clientPCs, eventPCs,
      EventsFailed, Goto, loopVars, threadVars,
      ringVars, streamVars
  <1>7. ASSUME NEW e \in EventThreads, NEW r \in Rings, TearStop(e, r)
        PROVE  LoopInv'
    BY <1>7 DEF LoopInv, HoldsRunloop, TypeOK, clientPCs, eventPCs, TearStop,
      Goto, loopVars, threadVars,
      ringVars, streamVars
  <1>8. ASSUME NEW e \in EventThreads, NEW d \in Devices, TearFree(e, d)
        PROVE  LoopInv'
    BY <1>8 DEF LoopInv, HoldsRunloop, TypeOK, clientPCs, eventPCs, TearFree,
      Goto, loopVars, threadVars,
      ringVars, streamVars
  <1>9. ASSUME NEW e \in EventThreads, TearDone(e)
        PROVE  LoopInv'
    BY <1>9 DEF LoopInv, HoldsRunloop, TypeOK, clientPCs, eventPCs, TearDone,
      Goto, loopVars, threadVars,
      ringVars, streamVars
  <1>10. ASSUME NEW c \in Clients, Call(c)
        PROVE  LoopInv'
    BY <1>10 DEF LoopInv, HoldsRunloop, TypeOK, clientPCs, eventPCs, Call,
      Goto, loopVars, threadVars,
      ringVars, streamVars
  <1>11. ASSUME NEW c \in Clients, Stop(c)
        PROVE  LoopInv'
    BY <1>11 DEF LoopInv, HoldsRunloop, TypeOK, clientPCs, eventPCs, Stop,
      Goto, loopVars, threadVars,
      ringVars, streamVars
  <1>12. ASSUME NEW c \in Clients, Check(c)
        PROVE  LoopInv'
    BY <1>12 DEF LoopInv, HoldsRunloop, TypeOK, clientPCs, eventPCs, Check,
      Goto, loopVars, threadVars,
      ringVars, streamVars, Ready
  <1>13. ASSUME NEW c \in Clients, PendingInc(c)
        PROVE  LoopInv'
    BY <1>13 DEF LoopInv, HoldsRunloop, TypeOK, clientPCs, eventPCs,
      PendingInc, Goto, loopVars, threadVars,
      ringVars, streamVars
  <1>14. ASSUME NEW c \in Clients, SetupEnter(c)
        PROVE  LoopInv'
    BY <1>14 DEF LoopInv, HoldsRunloop, TypeOK, clientPCs, eventPCs,
      SetupEnter, Goto, loopVars, threadVars,
      ringVars, streamVars, StartThread
  <1>15. ASSUME NEW c \in Clients, RingLock(c)
        PROVE  LoopInv'
    BY <1>15 DEF LoopInv, HoldsRunloop, TypeOK, clientPCs, eventPCs, RingLock,
      Goto, loopVars, threadVars,
      ringVars, streamVars, Reallocate, KeepsRunning
  <1>16. ASSUME NEW c \in Clients, StreamStopped(c)
        PROVE  LoopInv'
    BY <1>16 DEF LoopInv, HoldsRunloop, TypeOK, clientPCs, eventPCs,
      StreamStopped, Goto, loopVars, threadVars,
      ringVars, streamVars, Reallocate
  <1>17. ASSUME NEW c \in Clients, StreamStarted(c)
        PROVE  LoopInv'
    BY <1>17 DEF LoopInv, HoldsRunloop, TypeOK, clientPCs, eventPCs,
      StreamStarted, Goto, loopVars, threadVars,
      ringVars, streamVars
  <1>18. ASSUME NEW c \in Clients, SetupUnlock(c)
        PROVE  LoopInv'
    BY <1>18 DEF LoopInv, HoldsRunloop, TypeOK, clientPCs, eventPCs,
      SetupUnlock, Goto, loopVars, threadVars,
      ringVars, streamVars
  <1>19. ASSUME NEW c \in Clients, SetupDone(c)
        PROVE  LoopInv'
    BY <1>19, DecLoop DEF SetupDone
  <1>20. ASSUME NEW c \in Clients, FailUnlock(c)
        PROVE  LoopInv'
    BY <1>20 DEF LoopInv, HoldsRunloop, TypeOK, clientPCs, eventPCs,
      FailUnlock, Goto, loopVars, threadVars,
      ringVars, streamVars
  <1>21. ASSUME NEW c \in Clients, FailDone(c)
        PROVE  LoopInv'
    BY <1>21, DecLoop DEF FailDone
  <1>22. ASSUME NEW c \in Clients, Join(c)
        PROVE  LoopInv'
    BY <1>22 DEF LoopInv, HoldsRunloop, TypeOK, clientPCs, eventPCs, Join,
      Goto, loopVars, threadVars,
      ringVars, streamVars
  <1>23. ASSUME NEW c \in Clients, Get(c)
        PROVE  LoopInv'
    BY <1>23 DEF LoopInv, HoldsRunloop, TypeOK, clientPCs, eventPCs, Get, Goto,
      loopVars, threadVars,
      ringVars, streamVars
  <1>24. CASE UNCHANGED vars
    BY <1>24 DEF LoopInv, HoldsRunloop, TypeOK, clientPCs, eventPCs, vars,
      threadVars, loopVars, ringVars, streamVars
  <1>25. QED
    BY <1>1, <1>2, <1>3, <1>4, <1>5, <1>6, <1>7, <1>8, <1>9, <1>10, <1>11,
      <1>12, <1>13, <1>14, <1>15, <1>16, <1>17, <1>18, <1>19, <1>20, <1>21,
      <1>22, <1>23, <1>24
    DEF Next, ClientStep, EventStep

\* Every step keeps LockInv: who holds the lock of each ring.
LEMMA LockStep ==
  TypeOK /\ LoopInv /\ LockInv /\ [Next]_vars => LockInv'
  <1> SUFFICES ASSUME TypeOK, LoopInv, LockInv, [Next]_vars PROVE LockInv'
    OBVIOUS
  <1> USE Constants
  <1>1. ASSUME NEW t \in Threads, NEW r \in Rings, FrameDone(t, r)
        PROVE  LockInv'
    BY <1>1 DEF LoopInv, LockInv, HoldsRunloop, HoldsRing, TypeOK, clientPCs,
      eventPCs, FrameDone, Goto, loopVars, threadVars,
      ringVars, streamVars
  <1>2. ASSUME NEW t \in Threads, NEW r \in Rings, ProducerCb(t, r)
        PROVE  LockInv'
    BY <1>2, SMTT(30) DEF LoopInv, LockInv, HoldsRunloop, HoldsRing, TypeOK, clientPCs,
      eventPCs, ProducerCb, Goto, loopVars, threadVars,
      ringVars, streamVars, Signal, Waiters, NextProc
  <1>3. ASSUME NEW e \in EventThreads, EventWaitZero(e)
        PROVE  LockInv'
    BY <1>3 DEF LoopInv, LockInv, HoldsRunloop, HoldsRing, TypeOK, clientPCs,
      eventPCs, EventWaitZero, Goto, loopVars, threadVars,
      ringVars, streamVars
  <1>4. ASSUME NEW e \in EventThreads, EventLock(e)
        PROVE  LockInv'
    BY <1>4 DEF LoopInv, LockInv, HoldsRunloop, HoldsRing, TypeOK, clientPCs,
      eventPCs, EventLock, Goto, loopVars, threadVars,
      ringVars, streamVars
  <1>5. ASSUME NEW e \in EventThreads, EventsHandled(e)
        PROVE  LockInv'
    BY <1>5 DEF LoopInv, LockInv, HoldsRunloop, HoldsRing, TypeOK, clientPCs,
      eventPCs, EventsHandled, Goto, loopVars, threadVars,
      ringVars, streamVars
  <1>6. ASSUME NEW e \in EventThreads, EventsFailed(e)
        PROVE  LockInv'
    BY <1>6 DEF LoopInv, LockInv, HoldsRunloop, HoldsRing, TypeOK, clientPCs,
      eventPCs, EventsFailed, Goto, loopVars, threadVars,
      ringVars, streamVars
  <1>7. ASSUME NEW e \in EventThreads, NEW r \in Rings, TearStop(e, r)
        PROVE  LockInv'
    BY <1>7 DEF LoopInv, LockInv, HoldsRunloop, HoldsRing, TypeOK, clientPCs,
      eventPCs, TearStop, Goto, loopVars, threadVars,
      ringVars, streamVars
  <1>8. ASSUME NEW e \in EventThreads, NEW d \in Devices, TearFree(e, d)
        PROVE  LockInv'
    BY <1>8 DEF LoopInv, LockInv, HoldsRunloop, HoldsRing, TypeOK, clientPCs,
      eventPCs, TearFree, Goto, loopVars, threadVars,
      ringVars, streamVars
  <1>9. ASSUME NEW e \in EventThreads, TearDone(e)
        PROVE  LockInv'
    BY <1>9 DEF LoopInv, LockInv, HoldsRunloop, HoldsRing, TypeOK, clientPCs,
      eventPCs, TearDone, Goto, loopVars, threadVars,
      ringVars, streamVars
  <1>10. ASSUME NEW c \in Clients, Call(c)
        PROVE  LockInv'
    BY <1>10 DEF LoopInv, LockInv, HoldsRunloop, HoldsRing, TypeOK, clientPCs,
      eventPCs, Call, Goto, loopVars, threadVars,
      ringVars, streamVars
  <1>11. ASSUME NEW c \in Clients, Stop(c)
        PROVE  LockInv'
    BY <1>11 DEF LoopInv, LockInv, HoldsRunloop, HoldsRing, TypeOK, clientPCs,
      eventPCs, Stop, Goto, loopVars, threadVars,
      ringVars, streamVars
  <1>12. ASSUME NEW c \in Clients, Check(c)
        PROVE  LockInv'
    BY <1>12 DEF LoopInv, LockInv, HoldsRunloop, HoldsRing, TypeOK, clientPCs,
      eventPCs, Check, Goto, loopVars, threadVars,
      ringVars, streamVars, Ready
  <1>13. ASSUME NEW c \in Clients, PendingInc(c)
        PROVE  LockInv'
    BY <1>13 DEF LoopInv, LockInv, HoldsRunloop, HoldsRing, TypeOK, clientPCs,
      eventPCs, PendingInc, Goto, loopVars, threadVars,
      ringVars, streamVars
  <1>14. ASSUME NEW c \in Clients, SetupEnter(c)
        PROVE  LockInv'
    <2>1. \A t \in Threads : ~HoldsRing(t)' \/ (t # c /\ HoldsRing(t))
      BY <1>14, StartStep DEF SetupEnter, HoldsRing, Goto, TypeOK, clientPCs
    <2>2. \A t \in Clients : HoldsRing(t) => t # c /\ pc'[t] = pc[t]
      BY <1>14, StartStep DEF SetupEnter, HoldsRing, Goto, TypeOK, clientPCs
    <2>3. lock' = lock /\ arg' = arg
      BY <1>14 DEF SetupEnter
    <2>4. QED
      BY <2>1, <2>2, <2>3 DEF LockInv, HoldsRing, TypeOK
  <1>15. ASSUME NEW c \in Clients, RingLock(c)
        PROVE  LockInv'
    <2>1. /\ pc[c] = "ringlock" /\ lock[arg[c].ring] = NoThread
          /\ arg' = arg /\ lock' = [lock EXCEPT ![arg[c].ring] = c]
          /\ arg[c].ring \in Rings
      BY <1>15 DEF RingLock, TypeOK
    <2>2. /\ HoldsRing(c)'
          /\ \A t \in Threads \ {c} : pc'[t] = pc[t]
      <3>1. CASE Reallocate(c, arg[c].ring)
        BY <2>1, <3>1, ReallocateType DEF TypeOK, HoldsRing
      <3>2. CASE Goto(c, "unlock") \/ Goto(c, "stopping")
        BY <3>2 DEF Goto, TypeOK, HoldsRing
      <3>3. QED
        BY <1>15, <3>1, <3>2 DEF RingLock
    <2>3. \A b \in Clients \ {c} : HoldsRing(b)' <=> HoldsRing(b)
      BY <2>2 DEF HoldsRing, Threads
    <2>4. \A r \in Rings \ {arg[c].ring} : lock'[r] = lock[r]
      BY <2>1 DEF TypeOK
    <2>5. \A b \in Clients : HoldsRing(b)' => lock'[arg[b].ring] = b
      BY <2>1, <2>3 DEF TypeOK, LockInv
    <2>6. ASSUME NEW r \in Rings, lock'[r] # NoThread
          PROVE  lock'[r] \in Clients /\ pc'[lock'[r]] \in
                   {"stopping", "starting", "unlock"} /\ arg[lock'[r]].ring = r
      <3>1. CASE r = arg[c].ring
        BY <2>1, <2>2, <3>1 DEF TypeOK, HoldsRing
      <3>2. CASE r # arg[c].ring
        <4>1. lock'[r] = lock[r] /\ lock[r] \in Clients
          BY <2>4, <2>6, <3>2 DEF LockInv
        <4>2. HoldsRing(lock[r]) /\ arg[lock[r]].ring = r
          BY <2>6, <4>1 DEF LockInv
        <4>3. lock[r] # c /\ pc'[lock[r]] = pc[lock[r]]
          BY <2>1, <2>2, <4>1, <4>2 DEF HoldsRing
        <4>4. QED
          BY <4>1, <4>2, <4>3 DEF HoldsRing
      <3>3. QED
        BY <3>1, <3>2
    <2>7. arg' = arg
      BY <2>1
    <2>8. QED
      BY <2>5, <2>6, <2>7 DEF LockInv, HoldsRing
  <1>16. ASSUME NEW c \in Clients, StreamStopped(c)
        PROVE  LockInv'
    <2>1. /\ pc[c] = "stopping" /\ arg' = arg /\ lock' = lock
          /\ HoldsRing(c)'
          /\ \A t \in Threads \ {c} : pc'[t] = pc[t]
      BY <1>16, ReallocateType DEF StreamStopped, TypeOK, HoldsRing
    <2>2. \A t \in Clients : HoldsRing(t)' <=> HoldsRing(t)
      BY <2>1 DEF HoldsRing, Threads
    <2>3. QED
      BY <2>1, <2>2 DEF LockInv, HoldsRing
  <1>17. ASSUME NEW c \in Clients, StreamStarted(c)
        PROVE  LockInv'
    BY <1>17 DEF LoopInv, LockInv, HoldsRunloop, HoldsRing, TypeOK, clientPCs,
      eventPCs, StreamStarted, Goto, loopVars, threadVars,
      ringVars, streamVars
  <1>18. ASSUME NEW c \in Clients, SetupUnlock(c)
        PROVE  LockInv'
    BY <1>18 DEF LoopInv, LockInv, HoldsRunloop, HoldsRing, TypeOK, clientPCs,
      eventPCs, SetupUnlock, Goto, loopVars, threadVars,
      ringVars, streamVars
  <1>19. ASSUME NEW c \in Clients, SetupDone(c)
        PROVE  LockInv'
    <2>1. pc[c] = "dec" /\ PendingDec(c, "get") /\ "get" \in clientPCs
      BY <1>19 DEF SetupDone, clientPCs
    <2>2. \A t \in Clients : HoldsRing(t)' <=> HoldsRing(t)
      BY <2>1, DecStep DEF HoldsRing
    <2>3. lock' = lock /\ arg' = arg
      BY <1>19 DEF SetupDone, ringVars
    <2>4. QED
      BY <2>2, <2>3 DEF LockInv, TypeOK
  <1>20. ASSUME NEW c \in Clients, FailUnlock(c)
        PROVE  LockInv'
    BY <1>20 DEF LoopInv, LockInv, HoldsRunloop, HoldsRing, TypeOK, clientPCs,
      eventPCs, FailUnlock, Goto, loopVars, threadVars,
      ringVars, streamVars
  <1>21. ASSUME NEW c \in Clients, FailDone(c)
        PROVE  LockInv'
    <2>1. /\ pc[c] = "faildec" /\ "idle" \in clientPCs /\ "join" \in clientPCs
          /\ PendingDec(c, IF prev[c] THEN "idle" ELSE "join")
      BY <1>21 DEF FailDone, clientPCs
    <2>2. \A t \in Clients : HoldsRing(t)' <=> HoldsRing(t)
      BY <2>1, DecStep DEF HoldsRing
    <2>3. lock' = lock /\ arg' = arg
      BY <1>21 DEF FailDone, ringVars
    <2>4. \A t \in Clients : HoldsRing(t)' => lock'[arg'[t].ring] = t
      BY <2>2, <2>3 DEF LockInv
    <2>5. \A r \in Rings : lock[r] # NoThread =>
            /\ lock'[r] = lock[r] /\ lock[r] \in Clients
            /\ pc'[lock[r]] \in {"stopping", "starting", "unlock"}
      BY <2>2, <2>3 DEF LockInv, HoldsRing
    <2>6. \A r \in Rings : lock[r] # NoThread => arg[lock[r]].ring = r
      BY DEF LockInv
    <2>7. QED
      BY <2>3, <2>4, <2>5, <2>6 DEF LockInv, HoldsRing
  <1>22. ASSUME NEW c \in Clients, Join(c)
        PROVE  LockInv'
    <2>1. PICK e \in EventThreads :
            pc[e] = "done" /\ pc' = [pc EXCEPT ![e] = "none", ![c] = "idle"]
      BY <1>22 DEF Join
    <2>2. pc'[c] = "idle" /\ \A b \in Clients \ {c} : pc'[b] = pc[b]
      <3>1. \A b \in Clients : b \in Threads /\ b # e
        OBVIOUS
      <3>2. pc \in [Threads -> clientPCs \cup eventPCs]
        BY DEF TypeOK
      <3>3. QED
        BY <2>1, <3>1, <3>2
    <2>3. pc[c] \in {"join", "stopjoin"} /\ arg' = arg /\ lock' = lock
      BY <1>22 DEF Join, ringVars
    <2>4. QED
      BY <2>2, <2>3 DEF LockInv, HoldsRing
  <1>23. ASSUME NEW c \in Clients, Get(c)
        PROVE  LockInv'
    <2>1. /\ pc[c] = "get" /\ arg' = arg /\ lock' = lock
          /\ \A t \in Threads \ {c} : pc'[t] = pc[t]
          /\ pc'[c] \in {"idle", "wait", "lost"}
      BY <1>23 DEF Get, Goto, TypeOK
    <2>2. QED
      BY <2>1 DEF TypeOK, LockInv, HoldsRing
  <1>24. CASE UNCHANGED vars
    BY <1>24 DEF LoopInv, LockInv, HoldsRunloop, HoldsRing, TypeOK, clientPCs,
      eventPCs, vars, threadVars, loopVars, ringVars, streamVars
  <1>25. QED
    BY <1>1, <1>2, <1>3, <1>4, <1>5, <1>6, <1>7, <1>8, <1>9, <1>10, <1>11,
      <1>12, <1>13, <1>14, <1>15, <1>16, <1>17, <1>18, <1>19, <1>20, <1>21,
      <1>22, <1>23, <1>24
    DEF Next, ClientStep, EventStep

\* A step that frees, starts and takes nothing keeps the driver's buffers
\* in order.
LEMMA OwnQuiet ==
  ASSUME OwnInv, UNCHANGED <<bufs, fmt, proc>>,
         \A r \in Rings : running'[r] => running[r],
         \A r \in Rings : lock'[r] # NoThread => lock'[r] = lock[r],
         \A c \in Clients : pc'[c] = "starting" =>
           pc[c] = "starting" /\ arg'[c] = arg[c],
         \A r \in Rings : lock'[r] # NoThread /\ pc[lock[r]] = "unlock" =>
           pc'[lock[r]] = "unlock"
  PROVE  OwnInv'
  BY DEF OwnInv, DriverReady

\* One ring at a time: when a step leaves every ring but r as it was, only r
\* is left to show.
LEMMA OwnOneRing ==
  ASSUME TypeOK, LockInv, OwnInv, NEW r \in Rings,
         \A q \in Rings \ {r} :
           /\ bufs'[q] = bufs[q] /\ fmt'[q] = fmt[q] /\ proc'[q] = proc[q]
           /\ running'[q] = running[q] /\ lock'[q] = lock[q],
         arg' = arg,
         \A c \in Clients : pc'[c] = "starting" =>
           \/ pc[c] = "starting" /\ arg[c].ring # r
           \/ arg[c].ring = r /\ DriverReady(r)',
         \A q \in Rings \ {r} : lock[q] # NoThread /\ pc[lock[q]] = "unlock" =>
           pc'[lock[q]] = "unlock",
         bufs'[r] # NoBufs =>
           \A i, j \in Slots : bufs'[r][i] = bufs'[r][j] => i = j,
         running'[r] => DriverReady(r)',
         running'[r] /\ lock'[r] # NoThread => pc'[lock'[r]] = "unlock"
  PROVE  OwnInv'
  <1>1. \A q \in Rings \ {r} : DriverReady(q) => DriverReady(q)'
    BY DEF DriverReady
  <1>2. \A q \in Rings : bufs'[q] # NoBufs =>
          \A i, j \in Slots : bufs'[q][i] = bufs'[q][j] => i = j
    BY DEF OwnInv
  <1>3. \A q \in Rings : running'[q] => DriverReady(q)'
    BY <1>1 DEF OwnInv
  <1>4. \A c \in Clients : pc'[c] = "starting" => DriverReady(arg[c].ring)'
    <2> SUFFICES ASSUME NEW c \in Clients, pc'[c] = "starting"
                 PROVE  DriverReady(arg[c].ring)'
      OBVIOUS
    <2>1. arg[c].ring \in Rings /\ arg'[c].ring = arg[c].ring
      BY Constants DEF TypeOK
    <2>2. CASE arg[c].ring = r
      BY <2>2
    <2>3. CASE arg[c].ring # r
      BY <2>1, <2>3 DEF OwnInv, DriverReady
    <2>4. QED
      BY <2>2, <2>3
  <1>5. \A q \in Rings : running'[q] /\ lock'[q] # NoThread =>
          pc'[lock'[q]] = "unlock"
    BY DEF OwnInv
  <1>6. QED
    BY <1>2, <1>3, <1>4, <1>5 DEF OwnInv

\* The ring that a step of Reallocate has allocated is ready for the driver.
LEMMA ReallocateOwn ==
  ASSUME TypeOK, NEW c \in Clients, NEW r \in Rings, Reallocate(c, r)
  PROVE  /\ bufs'[r] # NoBufs =>
              \A i, j \in Slots : bufs'[r][i] = bufs'[r][j] => i = j
         /\ arg[c].fmt \in RingFormats => DriverReady(r)'
         /\ \A q \in Rings \ {r} :
              /\ bufs'[q] = bufs[q] /\ fmt'[q] = fmt[q] /\ proc'[q] = proc[q]
  <1> USE Constants DEF TypeOK, Reallocate
  <1>1. arg[c].fmt \in Formats
    OBVIOUS
  <1>2. CASE arg[c].fmt \in RingFormats
    <2>1. /\ bufs' = [bufs EXCEPT ![r] = FreshBufs]
          /\ fmt' = [fmt EXCEPT ![r] = arg[c].fmt]
          /\ proc' = [proc EXCEPT ![r] = FreshBufs[2]]
      BY <1>2
    <2> HIDE DEF Reallocate
    <2>2. bufs'[r] = FreshBufs /\ fmt'[r] # NoFormat /\ proc'[r] = FreshBufs[2]
      BY <1>1, <2>1
    <2>3. QED
      BY <2>1, <2>2, FreshDistinct DEF DriverReady
  <1>3. CASE arg[c].fmt \notin RingFormats
    <2>1. /\ bufs' = [bufs EXCEPT ![r] = NoBufs]
          /\ fmt' = [fmt EXCEPT ![r] = NoFormat]
          /\ proc' = proc
      BY <1>3
    <2> HIDE DEF Reallocate
    <2>2. QED
      BY <1>3, <2>1
  <1>4. QED
    BY <1>2, <1>3

\* Every step keeps OwnInv: which buffer belongs to the driver.
LEMMA OwnStep ==
  TypeOK /\ LoopInv /\ LockInv /\ OwnInv /\ CbInv /\ [Next]_vars => OwnInv'
  <1> SUFFICES ASSUME TypeOK, LoopInv, LockInv, OwnInv, CbInv,
                      [Next]_vars
               PROVE  OwnInv'
    OBVIOUS
  <1> USE Constants
  <1>1. ASSUME NEW t \in Threads, NEW r \in Rings, FrameDone(t, r)
        PROVE  OwnInv'
    BY <1>1, OwnQuiet DEF FrameDone
  <1>2. ASSUME NEW t \in Threads, NEW r \in Rings, ProducerCb(t, r)
        PROVE  OwnInv'
    <2>1. /\ cb[t] = r /\ Signal(r) /\ lock[r] = NoThread
          /\ arg' = arg /\ fmt' = fmt /\ running' = running /\ lock' = lock
          /\ bufs' = [bufs EXCEPT ![r] = Exchange(bufs[r], 1, 2)]
          /\ proc' = [proc EXCEPT ![r] = bufs[r][1]]
      BY <1>2 DEF ProducerCb, NextProc
    <2>2. running[r] /\ DriverReady(r)
      BY <2>1 DEF CbInv, OwnInv
    <2>3. /\ 1 \in Slots /\ 2 \in Slots /\ bufs[r] # NoBufs
          /\ \A i, j \in Slots : bufs[r][i] = bufs[r][j] => i = j
          /\ bufs[r] \in [Slots -> Slots] \cup {NoBufs}
      BY <2>2 DEF DriverReady, OwnInv, TypeOK
    <2>4. /\ bufs'[r] # NoBufs /\ bufs'[r][2] = bufs[r][1]
          /\ \A i, j \in Slots : bufs'[r][i] = bufs'[r][j] => i = j
      BY <2>1, <2>3, ExchangeSound DEF TypeOK
    <2>5. DriverReady(r)'
      BY <2>1, <2>2, <2>4 DEF DriverReady, TypeOK
    <2>6. \A c \in Clients : pc'[c] = "starting" =>
            pc[c] = "starting" /\ arg[c].ring # r
      BY <2>1, SignalStep DEF LockInv, HoldsRing, Threads
    <2>7. \A q \in Rings \ {r} :
            /\ bufs'[q] = bufs[q] /\ fmt'[q] = fmt[q] /\ proc'[q] = proc[q]
            /\ running'[q] = running[q] /\ lock'[q] = lock[q]
      BY <2>1 DEF TypeOK
    <2>8. \A q \in Rings \ {r} : lock[q] # NoThread /\ pc[lock[q]] = "unlock" =>
            pc'[lock[q]] = "unlock"
      BY <2>1, SignalStep DEF LockInv, Threads
    <2>9. QED
      BY <2>1, <2>4, <2>5, <2>6, <2>7, <2>8, OwnOneRing
  <1>3. ASSUME NEW e \in EventThreads, EventWaitZero(e)
        PROVE  OwnInv'
    BY <1>3, OwnQuiet
    DEF LockInv, TypeOK, EventWaitZero, Goto, loopVars, threadVars,
      ringVars, streamVars
  <1>4. ASSUME NEW e \in EventThreads, EventLock(e)
        PROVE  OwnInv'
    BY <1>4, OwnQuiet
    DEF LockInv, TypeOK, EventLock, Goto, loopVars, threadVars,
      ringVars, streamVars
  <1>5. ASSUME NEW e \in EventThreads, EventsHandled(e)
        PROVE  OwnInv'
    BY <1>5, OwnQuiet
    DEF LockInv, TypeOK, EventsHandled, Goto, loopVars, threadVars,
      ringVars, streamVars
  <1>6. ASSUME NEW e \in EventThreads, EventsFailed(e)
        PROVE  OwnInv'
    BY <1>6, OwnQuiet
    DEF LockInv, TypeOK, EventsFailed, Goto, loopVars, threadVars,
      ringVars, streamVars
  <1>7. ASSUME NEW e \in EventThreads, NEW r \in Rings, TearStop(e, r)
        PROVE  OwnInv'
    <2>1. \A q \in Rings : running'[q] => running[q]
      BY <1>7 DEF TearStop, TypeOK
    <2>2. QED
      BY <1>7, <2>1, OwnQuiet DEF TearStop, threadVars, ringVars
  <1>8. ASSUME NEW e \in EventThreads, NEW d \in Devices, TearFree(e, d)
        PROVE  OwnInv'
    <2>1. \A c \in Clients : pc[c] # "starting"
      BY <1>8 DEF TearFree, LoopInv, HoldsRunloop
    <2>2. \A c \in Clients : pc'[c] # "starting"
      BY <1>8, <2>1 DEF TearFree
    <2>3. \A q \in Rings : q[1] = d => ~running[q]
      BY <1>8 DEF TearFree, StreamsStopped, RingsOf, Rings
    <2>4. \A q \in Rings : q[1] # d => bufs'[q] = bufs[q] /\ fmt'[q] = fmt[q]
      BY <1>8 DEF TearFree
    <2>5. \A q \in Rings : q[1] = d => bufs'[q] = NoBufs
      BY <1>8 DEF TearFree
    <2>6. proc' = proc /\ running' = running /\ lock' = lock
      BY <1>8 DEF TearFree, streamVars
    <2>7. \A q \in Rings : bufs'[q] # NoBufs =>
            \A i, j \in Slots : bufs'[q][i] = bufs'[q][j] => i = j
      BY <2>4, <2>5 DEF OwnInv
    <2>8. \A q \in Rings : running'[q] => DriverReady(q)'
      BY <2>3, <2>4, <2>6 DEF OwnInv, DriverReady
    <2>9. \A q \in Rings : running'[q] /\ lock'[q] # NoThread =>
            pc'[lock'[q]] = "unlock"
      BY <1>8, <2>6 DEF OwnInv, TearFree, LockInv
    <2>10. QED
      BY <2>2, <2>7, <2>8, <2>9 DEF OwnInv
  <1>9. ASSUME NEW e \in EventThreads, TearDone(e)
        PROVE  OwnInv'
    BY <1>9, OwnQuiet
    DEF LockInv, TypeOK, TearDone, Goto, loopVars, threadVars,
      ringVars, streamVars
  <1>10. ASSUME NEW c \in Clients, Call(c)
        PROVE  OwnInv'
    BY <1>10, OwnQuiet
    DEF LockInv, TypeOK, Call, Goto, loopVars, threadVars,
      ringVars, streamVars
  <1>11. ASSUME NEW c \in Clients, Stop(c)
        PROVE  OwnInv'
    BY <1>11, OwnQuiet
    DEF LockInv, TypeOK, Stop, Goto, loopVars, threadVars,
      ringVars, streamVars
  <1>12. ASSUME NEW c \in Clients, Check(c)
        PROVE  OwnInv'
    BY <1>12, OwnQuiet
    DEF LockInv, TypeOK, Check, Goto, loopVars, threadVars,
      ringVars, streamVars, Ready
  <1>13. ASSUME NEW c \in Clients, PendingInc(c)
        PROVE  OwnInv'
    BY <1>13, OwnQuiet
    DEF LockInv, TypeOK, PendingInc, Goto, loopVars, threadVars,
      ringVars, streamVars
  <1>14. ASSUME NEW c \in Clients, SetupEnter(c)
        PROVE  OwnInv'
    <2>1. /\ pc[c] = "runlock" /\ arg' = arg /\ lock' = lock
          /\ bufs' = bufs /\ fmt' = fmt /\ proc' = proc /\ running' = running
      BY <1>14 DEF SetupEnter, streamVars
    <2>2. \A t \in Clients : t = c \/ pc'[t] = pc[t]
      BY <1>14, StartStep DEF SetupEnter, Goto, TypeOK, clientPCs
    <2>3. pc'[c] # "starting"
      BY <1>14, StartStep DEF SetupEnter, Goto, TypeOK, clientPCs
    <2>4. QED
      BY <2>1, <2>2, <2>3, OwnQuiet DEF LockInv
  <1>15. ASSUME NEW c \in Clients, RingLock(c)
        PROVE  OwnInv'
    <2> PICK r \in Rings : r = arg[c].ring
      BY DEF TypeOK
    <2>1. /\ pc[c] = "ringlock" /\ lock[r] = NoThread /\ r \in Rings
          /\ lock' = [lock EXCEPT ![r] = c] /\ arg' = arg
          /\ running' = [running EXCEPT
                           ![r] = running[r] /\ fmt[r] = arg[c].fmt]
      BY <1>15 DEF RingLock, KeepsRunning, TypeOK
    <2>2. \A q \in Rings \ {r} :
            running'[q] = running[q] /\ lock'[q] = lock[q]
      BY <2>1 DEF TypeOK
    <2>3. /\ lock'[r] = c
          /\ running'[r] <=> running[r] /\ fmt[r] = arg[c].fmt
      BY <2>1 DEF TypeOK
    <2>4. \A b \in Clients : pc[b] # "starting"
      BY <2>1 DEF LoopInv, HoldsRunloop, Threads
    <2>5. ASSUME \A b \in Clients \ {c} : pc'[b] = pc[b]
          PROVE  \A q \in Rings \ {r} :
                   lock[q] # NoThread /\ pc[lock[q]] = "unlock" =>
                     pc'[lock[q]] = "unlock"
      BY <2>1, <2>5 DEF LockInv
    <2>6. bufs[r] # NoBufs =>
            \A i, j \in Slots : bufs[r][i] = bufs[r][j] => i = j
      BY <2>1 DEF OwnInv
    <2>7. CASE fmt[r] = arg[c].fmt \/ running[r]
      <3>1. /\ bufs' = bufs /\ fmt' = fmt /\ proc' = proc
            /\ \/ Goto(c, "unlock")
               \/ fmt[r] # arg[c].fmt /\ Goto(c, "stopping")
        BY <1>15, <2>7 DEF RingLock
      <3>2. \A b \in Clients \ {c} : pc'[b] = pc[b]
        BY <3>1 DEF Goto, TypeOK, Threads
      <3>3. pc'[c] # "starting"
        BY <3>1 DEF Goto, TypeOK, Threads
      <3>4. running'[r] => DriverReady(r)'
        BY <2>1, <2>3, <3>1 DEF OwnInv, DriverReady
      <3>5. running'[r] => pc'[lock'[r]] = "unlock"
        BY <2>3, <3>1 DEF Goto, TypeOK, Threads
      <3>6. \A b \in Clients : pc'[b] # "starting"
        BY <2>4, <3>2, <3>3
      <3>7. QED
        BY <2>1, <2>2, <2>5, <2>6, <3>1, <3>2, <3>4, <3>5, <3>6, OwnOneRing
    <2>8. CASE fmt[r] # arg[c].fmt /\ ~running[r]
      <3>1. Reallocate(c, r)
        BY <1>15, <2>8 DEF RingLock
      <3>2. /\ \A b \in Clients \ {c} : pc'[b] = pc[b]
            /\ pc'[c] = "starting" => arg[c].fmt \in RingFormats
        BY <2>1, <3>1, ReallocateType DEF TypeOK, Threads
      <3>3. \A b \in Clients : pc'[b] = "starting" =>
              arg[b].ring = r /\ DriverReady(r)'
        BY <2>1, <2>4, <3>1, <3>2, ReallocateOwn
      <3>4. ~running'[r]
        BY <2>3, <2>8
      <3>5. QED
        BY <2>1, <2>2, <2>5, <3>1, <3>2, <3>3, <3>4, ReallocateOwn, OwnOneRing
    <2>9. QED
      BY <2>7, <2>8
  <1>16. ASSUME NEW c \in Clients, StreamStopped(c)
        PROVE  OwnInv'
    <2> PICK r \in Rings : r = arg[c].ring
      BY DEF TypeOK
    <2>1. /\ pc[c] = "stopping" /\ r \in Rings /\ lock' = lock /\ arg' = arg
          /\ running' = running /\ Reallocate(c, r)
      BY <1>16 DEF StreamStopped, TypeOK
    <2>2. lock[r] = c /\ ~running[r]
      BY <2>1, Constants DEF LockInv, OwnInv, HoldsRing
    <2>3. \A b \in Clients : pc[b] # "starting"
      BY <2>1 DEF LoopInv, HoldsRunloop, Threads
    <2>4. /\ \A b \in Clients \ {c} : pc'[b] = pc[b]
          /\ pc'[c] = "starting" => arg[c].fmt \in RingFormats
      BY <2>1, ReallocateType DEF TypeOK, Threads
    <2>5. \A b \in Clients : pc'[b] = "starting" =>
            arg[b].ring = r /\ DriverReady(r)'
      BY <2>1, <2>3, <2>4, ReallocateOwn
    <2>6. \A q \in Rings \ {r} :
            lock[q] # NoThread /\ pc[lock[q]] = "unlock" =>
              pc'[lock[q]] = "unlock"
      BY <2>1, <2>4 DEF LockInv
    <2>7. QED
      BY <2>1, <2>2, <2>4, <2>5, <2>6, ReallocateOwn, OwnOneRing
  <1>17. ASSUME NEW c \in Clients, StreamStarted(c)
        PROVE  OwnInv'
    <2> PICK r \in Rings : r = arg[c].ring
      BY DEF TypeOK
    <2>1. /\ pc[c] = "starting" /\ r \in Rings /\ lock' = lock /\ arg' = arg
          /\ running' = [running EXCEPT ![r] = TRUE]
          /\ pc' = [pc EXCEPT ![c] = "unlock"]
          /\ bufs' = bufs /\ fmt' = fmt /\ proc' = proc
      BY <1>17 DEF StreamStarted, TypeOK, Goto, ringVars
    <2>2. lock[r] = c /\ DriverReady(r)
      BY <2>1 DEF LockInv, OwnInv, HoldsRing
    <2>3. \A b \in Clients : pc[b] = "starting" => b = c
      BY <2>1 DEF LoopInv, HoldsRunloop, Threads
    <2>4. pc'[c] = "unlock" /\ \A b \in Clients \ {c} : pc'[b] = pc[b]
      BY <2>1 DEF TypeOK, Threads
    <2>5. \A q \in Rings \ {r} :
            lock[q] # NoThread /\ pc[lock[q]] = "unlock" =>
              pc'[lock[q]] = "unlock"
      BY <2>1, <2>4 DEF LockInv
    <2>6. \A q \in Rings \ {r} : running'[q] = running[q]
      BY <2>1 DEF TypeOK
    <2>7. bufs[r] # NoBufs =>
            \A i, j \in Slots : bufs[r][i] = bufs[r][j] => i = j
      BY <2>1 DEF OwnInv
    <2>8. DriverReady(r)'
      BY <2>1, <2>2 DEF DriverReady
    <2>9. \A b \in Clients : pc'[b] # "starting"
      BY <2>3, <2>4
    <2>10. pc'[lock'[r]] = "unlock"
      BY <2>1, <2>2, <2>4
    <2>11. \A q \in Rings \ {r} :
             /\ bufs'[q] = bufs[q] /\ fmt'[q] = fmt[q] /\ proc'[q] = proc[q]
             /\ running'[q] = running[q] /\ lock'[q] = lock[q]
      BY <2>1, <2>6
    <2>12. bufs'[r] # NoBufs =>
             \A i, j \in Slots : bufs'[r][i] = bufs'[r][j] => i = j
      BY <2>1, <2>7
    <2>13. arg' = arg
      BY <2>1
    <2>14. QED
      BY <2>5, <2>8, <2>9, <2>10, <2>11, <2>12, <2>13, OwnOneRing
  <1>18. ASSUME NEW c \in Clients, SetupUnlock(c)
        PROVE  OwnInv'
    <2>1. /\ pc[c] = "unlock" /\ arg[c].ring \in Rings /\ arg' = arg
          /\ lock' = [lock EXCEPT ![arg[c].ring] = NoThread]
          /\ pc' = [pc EXCEPT ![c] = "dec"] /\ running' = running
          /\ bufs' = bufs /\ fmt' = fmt /\ proc' = proc
      BY <1>18 DEF SetupUnlock, Goto, TypeOK, streamVars
    <2>2. \A q \in Rings : lock'[q] # NoThread =>
            lock'[q] = lock[q] /\ q # arg[c].ring
      BY <2>1 DEF TypeOK
    <2>3. pc'[c] = "dec" /\ \A b \in Clients \ {c} : pc'[b] = pc[b]
      BY <2>1 DEF TypeOK, Threads
    <2>4. \A q \in Rings : lock'[q] # NoThread => lock[q] \in Clients \ {c}
      BY <2>2 DEF LockInv
    <2>5. QED
      BY <2>1, <2>2, <2>3, <2>4, OwnQuiet
  <1>19. ASSUME NEW c \in Clients, SetupDone(c)
        PROVE  OwnInv'
    <2>1. pc[c] = "dec" /\ PendingDec(c, "get") /\ "get" \in clientPCs
      BY <1>19 DEF SetupDone, clientPCs
    <2>2. pc'[c] = "get" /\ \A b \in Clients \ {c} : pc'[b] = pc[b]
      BY <2>1, DecStep DEF Threads
    <2>3. QED
      BY <1>19, <2>1, <2>2, OwnQuiet DEF SetupDone, LockInv, ringVars,
        streamVars
  <1>20. ASSUME NEW c \in Clients, FailUnlock(c)
        PROVE  OwnInv'
    BY <1>20, OwnQuiet
    DEF LockInv, TypeOK, FailUnlock, Goto, loopVars, threadVars,
      ringVars, streamVars
  <1>21. ASSUME NEW c \in Clients, FailDone(c)
        PROVE  OwnInv'
    <2> DEFINE next == IF prev[c] THEN "idle" ELSE "join"
    <2>1. pc[c] = "faildec" /\ PendingDec(c, next) /\ next \in clientPCs
      BY <1>21 DEF FailDone, clientPCs
    <2>2. pc'[c] = next /\ \A b \in Clients \ {c} : pc'[b] = pc[b]
      BY <2>1, DecStep DEF Threads
    <2>3. QED
      BY <1>21, <2>1, <2>2, OwnQuiet DEF FailDone, LockInv, ringVars,
        streamVars
  <1>22. ASSUME NEW c \in Clients, Join(c)
        PROVE  OwnInv'
    <2>1. PICK e \in EventThreads :
            pc[e] = "done" /\ pc' = [pc EXCEPT ![e] = "none", ![c] = "idle"]
      BY <1>22 DEF Join
    <2>2. pc'[c] = "idle" /\ \A b \in Clients \ {c} : pc'[b] = pc[b]
      <3>1. \A b \in Clients : b \in Threads /\ b # e
        OBVIOUS
      <3>2. pc \in [Threads -> clientPCs \cup eventPCs]
        BY DEF TypeOK
      <3>3. QED
        BY <2>1, <3>1, <3>2
    <2>3. pc[c] # "unlock"
      BY <1>22 DEF Join
    <2>4. QED
      BY <1>22, <2>2, <2>3, OwnQuiet DEF Join, LockInv, ringVars, streamVars
  <1>23. ASSUME NEW c \in Clients, Get(c)
        PROVE  OwnInv'
    <2> PICK r \in Rings : r = arg[c].ring
      BY DEF TypeOK
    <2>1. /\ pc[c] = "get" /\ r \in Rings /\ arg' = arg /\ lock' = lock
          /\ fmt' = fmt /\ running' = running /\ proc' = proc
      BY <1>23 DEF Get, TypeOK, streamVars
    <2>2. /\ pc'[c] \in {"idle", "wait", "lost"}
          /\ \A b \in Clients \ {c} : pc'[b] = pc[b]
      BY <1>23 DEF Get, Goto, TypeOK, Threads
    <2>3. CASE bufs' = bufs
      BY <2>1, <2>2, <2>3, OwnQuiet DEF LockInv
    <2>4. CASE bufs' # bufs
      <3>1. /\ lock[r] = NoThread
            /\ bufs' = [bufs EXCEPT ![r] = Exchange(bufs[r], 0, 1)]
        BY <1>23, <2>4 DEF Get
      <3>2. /\ 0 \in Slots /\ 1 \in Slots /\ 2 \in Slots \ {0, 1}
            /\ bufs[r] \in [Slots -> Slots] \cup {NoBufs}
            /\ bufs[r] # NoBufs =>
                 \A i, j \in Slots : bufs[r][i] = bufs[r][j] => i = j
        BY <2>1 DEF TypeOK, OwnInv
      <3>3. bufs'[r] = Exchange(bufs[r], 0, 1)
            /\ \A q \in Rings \ {r} : bufs'[q] = bufs[q]
        BY <2>1, <3>1 DEF TypeOK
      <3>4. /\ bufs'[r] # NoBufs =>
                 \A i, j \in Slots : bufs'[r][i] = bufs'[r][j] => i = j
            /\ bufs[r] # NoBufs => bufs'[r] # NoBufs /\ bufs'[r][2] = bufs[r][2]
        BY <3>2, <3>3, ExchangeSound
      <3>5. DriverReady(r) => DriverReady(r)'
        BY <2>1, <3>4 DEF DriverReady
      <3>6. \A b \in Clients : pc'[b] = "starting" =>
              pc[b] = "starting" /\ arg[b].ring # r
        BY <2>1, <2>2, <3>1 DEF LockInv, HoldsRing
      <3>7. \A q \in Rings : lock[q] # NoThread /\ pc[lock[q]] = "unlock" =>
              pc'[lock[q]] = "unlock"
        BY <2>1, <2>2 DEF LockInv
      <3>8. running'[r] => DriverReady(r)'
        BY <2>1, <3>5 DEF OwnInv
      <3>9. QED
        BY <2>1, <3>1, <3>3, <3>4, <3>6, <3>7, <3>8, OwnOneRing
    <2>5. QED
      BY <2>3, <2>4
  <1>24. CASE UNCHANGED vars
    BY <1>24, OwnQuiet DEF LockInv, TypeOK, vars, threadVars, loopVars,
      ringVars, streamVars
  <1>25. QED
    BY <1>1, <1>2, <1>3, <1>4, <1>5, <1>6, <1>7, <1>8, <1>9, <1>10, <1>11,
      <1>12, <1>13, <1>14, <1>15, <1>16, <1>17, <1>18, <1>19, <1>20,
      <1>21, <1>22, <1>23, <1>24
    DEF Next, ClientStep, EventStep

\* Only the holder of runloop_lock pumps events, so only it can be in a
\* callback.
LEMMA OnlyPumper ==
  ASSUME LoopInv, CbInv, TypeOK, NEW t \in Threads, HoldsRunloop(t),
         NEW u \in Threads, cb[u] # NoRing
  PROVE  u = t
  <1>1. cb[u] \in Rings
    BY DEF TypeOK
  <1>2. HoldsRunloop(u)
    BY <1>1 DEF CbInv, Pumping, HoldsRunloop
  <1>3. QED
    BY <1>2 DEF LoopInv

\* A callback stays sound while its thread keeps pumping and its stream is
\* left alone.
LEMMA CbQuiet ==
  ASSUME CbInv, UNCHANGED <<cb, running, mem, proc>>,
         \A t \in Threads : cb[t] # NoRing /\ Pumping(t) => Pumping(t)'
  PROVE  CbInv'
  BY Constants DEF CbInv

\* A step that pumps no events puts no thread into a callback.
LEMMA CbNobody ==
  ASSUME \A t \in Threads : cb'[t] = NoRing
  PROVE  CbInv'
  BY Constants DEF CbInv

\* Every step keeps CbInv: which callbacks run on which thread.
LEMMA CbStep ==
  TypeOK /\ LoopInv /\ OwnInv /\ CbInv /\ [Next]_vars => CbInv'
  <1> SUFFICES ASSUME TypeOK, LoopInv, OwnInv, CbInv,
                      [Next]_vars
               PROVE  CbInv'
    OBVIOUS
  <1> USE Constants
  <1>1. ASSUME NEW t \in Threads, NEW r \in Rings, FrameDone(t, r)
        PROVE  CbInv'
    <2>1. /\ Pumping(t) /\ cb[t] = NoRing /\ running[r]
          /\ mem' = [mem EXCEPT ![r][proc[r]] =
                             [fmt |-> fmt[r], ts |-> clock[r]]]
          /\ cb' = [cb EXCEPT ![t] = r]
          /\ pc' = pc /\ running' = running /\ proc' = proc
      BY <1>1 DEF FrameDone
    <2>2. [fmt |-> fmt[r], ts |-> clock[r]] # Blank
      <3>1. fmt[r] \in Formats /\ clock[r] \in 0 .. NStamps - 1
        BY <2>1 DEF OwnInv, DriverReady, TypeOK
      <3>2. QED
        BY <3>1 DEF Frames
    <2>3. HoldsRunloop(t)
      BY <2>1 DEF Pumping, HoldsRunloop
    <2>4. \A u \in Threads \ {t} : cb'[u] = NoRing
      BY <2>1, <2>3, OnlyPumper DEF TypeOK
    <2>5. cb'[t] = r
      BY <2>1 DEF TypeOK
    <2>6. mem'[r][proc'[r]] # Blank
      BY <2>1, <2>2 DEF TypeOK
    <2>7. QED
      BY <2>1, <2>4, <2>5, <2>6 DEF CbInv, Pumping
  <1>2. ASSUME NEW t \in Threads, NEW r \in Rings, ProducerCb(t, r)
        PROVE  CbInv'
    <2>1. cb[t] = r /\ cb' = [cb EXCEPT ![t] = NoRing]
      BY <1>2 DEF ProducerCb
    <2>2. HoldsRunloop(t)
      BY <2>1 DEF CbInv, Pumping, HoldsRunloop
    <2>3. \A u \in Threads : cb'[u] = NoRing
      BY <2>1, <2>2, OnlyPumper DEF TypeOK
    <2>4. QED
      BY <2>3, CbNobody
  <1>3. ASSUME NEW e \in EventThreads, EventWaitZero(e)
        PROVE  CbInv'
    BY <1>3, CbQuiet
    DEF TypeOK, Pumping, EventWaitZero, Goto, loopVars, threadVars,
      ringVars, streamVars
  <1>4. ASSUME NEW e \in EventThreads, EventLock(e)
        PROVE  CbInv'
    BY <1>4, CbQuiet
    DEF TypeOK, Pumping, EventLock, Goto, loopVars, threadVars,
      ringVars, streamVars
  <1>5. ASSUME NEW e \in EventThreads, EventsHandled(e)
        PROVE  CbInv'
    <2>1. \A t \in Threads : cb[t] = NoRing
      BY <1>5, OnlyPumper DEF EventsHandled, HoldsRunloop
    <2>2. QED
      BY <1>5, <2>1, CbNobody DEF EventsHandled
  <1>6. ASSUME NEW e \in EventThreads, EventsFailed(e)
        PROVE  CbInv'
    <2>1. \A t \in Threads : cb[t] = NoRing
      BY <1>6, OnlyPumper DEF EventsFailed, HoldsRunloop
    <2>2. QED
      BY <1>6, <2>1, CbNobody DEF EventsFailed
  <1>7. ASSUME NEW e \in EventThreads, NEW r \in Rings, TearStop(e, r)
        PROVE  CbInv'
    <2>1. \A t \in Threads : cb[t] = NoRing
      BY <1>7, OnlyPumper DEF TearStop, HoldsRunloop
    <2>2. QED
      BY <1>7, <2>1, CbNobody DEF TearStop, threadVars
  <1>8. ASSUME NEW e \in EventThreads, NEW d \in Devices, TearFree(e, d)
        PROVE  CbInv'
    <2>1. \A t \in Threads : cb[t] = NoRing
      BY <1>8, OnlyPumper DEF TearFree, HoldsRunloop
    <2>2. QED
      BY <1>8, <2>1, CbNobody DEF TearFree
  <1>9. ASSUME NEW e \in EventThreads, TearDone(e)
        PROVE  CbInv'
    <2>1. \A t \in Threads : cb[t] = NoRing
      BY <1>9, OnlyPumper DEF TearDone, HoldsRunloop
    <2>2. QED
      BY <1>9, <2>1, CbNobody DEF TearDone
  <1>10. ASSUME NEW c \in Clients, Call(c)
        PROVE  CbInv'
    BY <1>10, CbQuiet
    DEF TypeOK, Pumping, Call, Goto, loopVars, threadVars,
      ringVars, streamVars
  <1>11. ASSUME NEW c \in Clients, Stop(c)
        PROVE  CbInv'
    BY <1>11, CbQuiet
    DEF TypeOK, Pumping, Stop, Goto, loopVars, threadVars,
      ringVars, streamVars
  <1>12. ASSUME NEW c \in Clients, Check(c)
        PROVE  CbInv'
    BY <1>12, CbQuiet
    DEF TypeOK, Pumping, Check, Goto, loopVars, threadVars,
      ringVars, streamVars, Ready
  <1>13. ASSUME NEW c \in Clients, PendingInc(c)
        PROVE  CbInv'
    BY <1>13, CbQuiet
    DEF TypeOK, Pumping, PendingInc, Goto, loopVars, threadVars,
      ringVars, streamVars
  <1>14. ASSUME NEW c \in Clients, SetupEnter(c)
        PROVE  CbInv'
    <2>1. \A t \in Threads : cb[t] # NoRing /\ Pumping(t) => pc'[t] = pc[t]
      BY <1>14, StartStep DEF SetupEnter, Goto, TypeOK, clientPCs, Pumping
    <2>2. QED
      BY <1>14, <2>1, CbQuiet DEF SetupEnter, streamVars, Pumping
  <1>15. ASSUME NEW c \in Clients, RingLock(c)
        PROVE  CbInv'
    <2>1. \A t \in Threads : cb[t] = NoRing
      <3>1. pc[c] = "ringlock" /\ HoldsRunloop(c)
        BY <1>15 DEF RingLock, HoldsRunloop
      <3>2. cb[c] = NoRing
        <4>1. cb[c] \in Rings \cup {NoRing} /\ ~Pumping(c)
          BY <3>1 DEF TypeOK, Pumping
        <4>2. QED
          BY <4>1 DEF CbInv
      <3>3. QED
        BY <3>1, <3>2, OnlyPumper
    <2>2. QED
      BY <1>15, <2>1, CbNobody DEF RingLock
  <1>16. ASSUME NEW c \in Clients, StreamStopped(c)
        PROVE  CbInv'
    <2>1. \A t \in Threads : cb[t] = NoRing
      BY <1>16, OnlyPumper DEF StreamStopped, HoldsRunloop
    <2>2. QED
      BY <1>16, <2>1, CbNobody DEF StreamStopped
  <1>17. ASSUME NEW c \in Clients, StreamStarted(c)
        PROVE  CbInv'
    <2>1. \A t \in Threads : cb[t] = NoRing
      BY <1>17, OnlyPumper DEF StreamStarted, HoldsRunloop
    <2>2. QED
      BY <1>17, <2>1, CbNobody DEF StreamStarted
  <1>18. ASSUME NEW c \in Clients, SetupUnlock(c)
        PROVE  CbInv'
    BY <1>18, CbQuiet
    DEF TypeOK, Pumping, SetupUnlock, Goto, loopVars, threadVars,
      ringVars, streamVars
  <1>19. ASSUME NEW c \in Clients, SetupDone(c)
        PROVE  CbInv'
    <2>1. pc[c] = "dec" /\ PendingDec(c, "get") /\ "get" \in clientPCs
      BY <1>19 DEF SetupDone, clientPCs
    <2>2. \A t \in Threads : Pumping(t) => pc'[t] = pc[t]
      BY <2>1, DecStep DEF Pumping
    <2>3. QED
      BY <1>19, <2>2, CbQuiet DEF SetupDone, ringVars, streamVars, Pumping
  <1>20. ASSUME NEW c \in Clients, FailUnlock(c)
        PROVE  CbInv'
    BY <1>20, CbQuiet
    DEF TypeOK, Pumping, FailUnlock, Goto, loopVars, threadVars,
      ringVars, streamVars
  <1>21. ASSUME NEW c \in Clients, FailDone(c)
        PROVE  CbInv'
    <2> DEFINE next == IF prev[c] THEN "idle" ELSE "join"
    <2>1. pc[c] = "faildec" /\ PendingDec(c, next) /\ next \in clientPCs
      BY <1>21 DEF FailDone, clientPCs
    <2>2. \A t \in Threads : Pumping(t) => pc'[t] = pc[t]
      BY <2>1, DecStep DEF Pumping
    <2>3. QED
      BY <1>21, <2>2, CbQuiet DEF FailDone, ringVars, streamVars, Pumping
  <1>22. ASSUME NEW c \in Clients, Join(c)
        PROVE  CbInv'
    <2>1. PICK e \in EventThreads :
            pc[e] = "done" /\ pc' = [pc EXCEPT ![e] = "none", ![c] = "idle"]
      BY <1>22 DEF Join
    <2>2. \A t \in Threads : Pumping(t) => pc'[t] = pc[t]
      BY <1>22, <2>1 DEF Join, TypeOK, Pumping
    <2>3. QED
      BY <1>22, <2>2, CbQuiet DEF Join, ringVars, streamVars, Pumping
  <1>23. ASSUME NEW c \in Clients, Get(c)
        PROVE  CbInv'
    BY <1>23, CbQuiet
    DEF TypeOK, Pumping, Get, Goto, loopVars, threadVars,
      ringVars, streamVars
  <1>24. CASE UNCHANGED vars
    BY <1>24, CbQuiet DEF TypeOK, Pumping, vars, threadVars, loopVars,
      ringVars, streamVars
  <1>25. QED
    BY <1>1, <1>2, <1>3, <1>4, <1>5, <1>6, <1>7, <1>8, <1>9, <1>10, <1>11,
      <1>12, <1>13, <1>14, <1>15, <1>16, <1>17, <1>18, <1>19, <1>20,
      <1>21, <1>22, <1>23, <1>24
    DEF Next, ClientStep, EventStep

-----------------------------------------------------------------------------
\* The inductive invariant.  Ownership of the buffers and the place of the
\* callbacks need each other: a callback finds the buffers it exchanges
\* because its stream runs, and a stream may be taken down because nobody
\* else can be in its callback.
THEOREM Inductive == Spec => []IInv
  <1>1. IInv /\ [Next]_vars => IInv'
    <2> SUFFICES ASSUME IInv, [Next]_vars PROVE IInv'
      OBVIOUS
    <2>1. TypeOK /\ LoopInv /\ LockInv /\ OwnInv /\ CbInv
      BY DEF IInv
    <2>2. TypeOK' /\ LoopInv' /\ LockInv' /\ OwnInv' /\ CbInv'
      BY <2>1, TypeStep, LoopStep, LockStep, OwnStep, CbStep
    <2>3. QED
      BY <2>2 DEF IInv
  <1>2. QED
    BY InitInv, <1>1, PTL DEF Spec

\* Every variable of the wrapper keeps its type; in particular a completed
\* frame always has a ring with a format and buffers to go to.
THEOREM TypeCorrect == Spec => []TypeOK
  <1>1. IInv => TypeOK
    BY DEF IInv
  <1>2. QED
    BY Inductive, <1>1, PTL

\* The assertion of producer_cb_inner, at every moment and for every ring:
\* a running stream writes bufs[2], which is neither the client's buffer nor
\* the published one.
THEOREM Ownership == Spec => []DriverOwnsBack
  <1>1. IInv => DriverOwnsBack
    BY DEF IInv, OwnInv, DriverReady, DriverOwnsBack
  <1>2. QED
    BY Inductive, <1>1, PTL

\* No thread enters the callback of a ring whose lock it holds, though it
\* pumps events with the lock held while it stops and starts a stream.
THEOREM SelfDeadlockFree == Spec => []NoSelfDeadlock
  <1>1. IInv => NoSelfDeadlock
    <2> SUFFICES ASSUME IInv, NEW t \in Threads, NEW r \in Rings,
                        cb[t] = r, lock[r] = t
                 PROVE  FALSE
      BY DEF NoSelfDeadlock
    <2>1. Pumping(t) /\ running[r] /\ lock[r] # NoThread
      BY Constants DEF IInv, CbInv
    <2>2. pc[t] = "unlock"
      BY <2>1 DEF IInv, OwnInv
    <2>3. QED
      BY <2>1, <2>2 DEF Pumping
  <1>2. QED
    BY Inductive, <1>1, PTL
-----------------------------------------------------------------------------
\* A step that leaves the counter alone counts right when it takes no client
\* past its increment or its decrement.
LEMMA CountKept ==
  ASSUME PendingCounts, pending' = pending,
         \A c \in Clients : Pending(c)' <=> Pending(c)
  PROVE  PendingCounts'
  <1>1. {c \in Clients : Pending(c)'} = {c \in Clients : Pending(c)}
    OBVIOUS
  <1>2. QED
    BY <1>1 DEF PendingCounts

\* One client goes past its increment, the others stay.
LEMMA CountUp ==
  ASSUME PendingCounts, NEW c \in Clients, ~Pending(c), Pending(c)',
         \A b \in Clients \ {c} : Pending(b)' <=> Pending(b),
         pending' = pending + 1
  PROVE  PendingCounts'
  <1> DEFINE P == {b \in Clients : Pending(b)}
  <1>1. {b \in Clients : Pending(b)'} = P \cup {c} /\ c \notin P
    OBVIOUS
  <1>2. IsFiniteSet(P)
    BY FS_Subset, ConstantsAssumption
  <1>3. Cardinality(P \cup {c}) = Cardinality(P) + 1
    BY <1>1, <1>2, FS_AddElement
  <1>4. QED
    BY <1>1, <1>3 DEF PendingCounts

\* One client goes past its decrement, the others stay.
LEMMA CountDown ==
  ASSUME PendingCounts, NEW c \in Clients, Pending(c), ~Pending(c)',
         \A b \in Clients \ {c} : Pending(b)' <=> Pending(b),
         pending' = pending - 1
  PROVE  PendingCounts'
  <1> DEFINE P == {b \in Clients : Pending(b)}
  <1>1. {b \in Clients : Pending(b)'} = P \ {c} /\ c \in P
    OBVIOUS
  <1>2. IsFiniteSet(P)
    BY FS_Subset, ConstantsAssumption
  <1>3. Cardinality(P \ {c}) = Cardinality(P) - 1
    BY <1>1, <1>2, FS_RemoveElement
  <1>4. QED
    BY <1>1, <1>3 DEF PendingCounts

\* Every step keeps the count of the clients that hold the event thread off.
LEMMA CountStep ==
  TypeOK /\ PendingCounts /\ [Next]_vars => PendingCounts'
  <1> SUFFICES ASSUME TypeOK, PendingCounts, [Next]_vars PROVE PendingCounts'
    OBVIOUS
  <1> USE Constants
  <1>1. ASSUME NEW t \in Threads, NEW r \in Rings, FrameDone(t, r)
        PROVE  PendingCounts'
    BY <1>1, CountKept DEF FrameDone, Pending, loopVars
  <1>2. ASSUME NEW t \in Threads, NEW r \in Rings, ProducerCb(t, r)
        PROVE  PendingCounts'
    BY <1>2, SignalStep, CountKept DEF ProducerCb, Pending, loopVars
  <1>3. ASSUME NEW e \in EventThreads, EventStep(e) \/ EventsFailed(e)
        PROVE  PendingCounts'
    <2>1. pending' = pending
      BY <1>3 DEF EventStep, EventWaitZero, EventLock, EventsHandled,
        EventsFailed, TearStop, TearFree, TearDone, loopVars
    <2>2. \A c \in Clients : \/ pc'[c] = pc[c]
                             \/ pc[c] = "wait" /\ pc'[c] = "lost"
      <3>1. ASSUME NEW d \in Devices, TearFree(e, d), NEW c \in Clients
            PROVE  pc'[c] = pc[c] \/ (pc[c] = "wait" /\ pc'[c] = "lost")
        BY <3>1 DEF TearFree
      <3>2. CASE pc' = pc \/ \E next \in eventPCs : pc' = [pc EXCEPT ![e] = next]
        BY <3>2 DEF TypeOK
      <3>3. QED
        BY <1>3, <3>1, <3>2 DEF EventStep, EventWaitZero, EventLock,
          EventsHandled, EventsFailed, TearStop, TearDone, Goto, threadVars,
          eventPCs
    <2>3. QED
      BY <2>1, <2>2, CountKept DEF Pending
  <1>4. ASSUME NEW c \in Clients, NEW next \in clientPCs, ~Pending(c),
               next \notin {"runlock", "ringlock", "stopping", "starting",
                 "unlock", "dec", "failunlock", "faildec", "dangling"},
               pc' = [pc EXCEPT ![c] = next], pending' = pending
        PROVE  PendingCounts'
    BY <1>4, GotoType, CountKept DEF Pending
  <1>5. ASSUME NEW c \in Clients, Call(c) \/ Stop(c) \/ Check(c) \/ Get(c)
        PROVE  PendingCounts'
    <2>1. pending' = pending /\ ~Pending(c)
      BY <1>5 DEF Call, Stop, Check, Get, loopVars, Pending
    <2>2. \E next \in {"check", "stopjoin", "get", "inc", "idle", "wait",
                       "lost"} : pc' = [pc EXCEPT ![c] = next]
      BY <1>5 DEF Call, Stop, Check, Get, Goto
    <2>3. QED
      BY <2>1, <2>2, <1>4 DEF clientPCs
  <1>6. ASSUME NEW c \in Clients, PendingInc(c)
        PROVE  PendingCounts'
    BY <1>6, CountUp DEF PendingInc, Goto, Pending, TypeOK
  <1>7. ASSUME NEW c \in Clients, SetupEnter(c)
        PROVE  PendingCounts'
    <2>1. Pending(c) /\ pending' = pending
      BY <1>7 DEF SetupEnter, Pending
    <2>2. Pending(c)' /\ \A b \in Clients \ {c} : pc'[b] = pc[b]
      BY <1>7, StartStep DEF SetupEnter, Pending, Goto, TypeOK, clientPCs
    <2>3. QED
      BY <2>1, <2>2, CountKept DEF Pending
  <1>8. ASSUME NEW c \in Clients,
               \/ RingLock(c) \/ StreamStopped(c) \/ StreamStarted(c)
               \/ SetupUnlock(c) \/ FailUnlock(c)
        PROVE  PendingCounts'
    <2>1. Pending(c) /\ pending' = pending
      BY <1>8 DEF RingLock, StreamStopped, StreamStarted, SetupUnlock,
        FailUnlock, Pending, loopVars
    <2>2. \E next \in {"unlock", "stopping", "starting", "dec", "faildec"} :
            pc' = [pc EXCEPT ![c] = next]
      BY <1>8 DEF RingLock, StreamStopped, StreamStarted, SetupUnlock,
        FailUnlock, Reallocate, Goto
    <2>3. QED
      BY <2>1, <2>2, CountKept DEF Pending, TypeOK
  <1>9. ASSUME NEW c \in Clients, SetupDone(c) \/ FailDone(c)
        PROVE  PendingCounts'
    <2>1. /\ Pending(c)
          /\ \E next \in {"get", "idle", "join"} : PendingDec(c, next)
      BY <1>9 DEF SetupDone, FailDone, Pending
    <2>2. /\ ~Pending(c)' /\ \A b \in Clients \ {c} : pc'[b] = pc[b]
          /\ pending' = pending - 1
      BY <2>1, DecStep DEF PendingDec, Pending, clientPCs
    <2>3. QED
      BY <2>1, <2>2, CountDown DEF Pending
  <1>10. ASSUME NEW c \in Clients, Join(c)
         PROVE  PendingCounts'
    BY <1>10, CountKept DEF Join, Pending, loopVars, TypeOK
  <1>11. CASE UNCHANGED vars
    BY <1>11, CountKept DEF vars, threadVars, loopVars, Pending
  <1>12. QED
    BY <1>1, <1>2, <1>3, <1>5, <1>6, <1>7, <1>8, <1>9, <1>10, <1>11
    DEF Next, ClientStep

\* pending_runloop_tasks is the number of clients in setup_kinect, whatever
\* stops, fails or starts over meanwhile: the event thread is held off while
\* there is one and no longer, and neither assertion on the counter can fail.
THEOREM PendingExact == Spec => []PendingCounts
  <1>1. Init => PendingCounts
    <2> SUFFICES ASSUME Init PROVE PendingCounts
      OBVIOUS
    <2>1. {c \in Clients : Pending(c)} = {}
      BY Constants DEF Init, Pending
    <2>2. QED
      BY <2>1, FS_EmptySet DEF Init, PendingCounts
  <1>2. TypeOK /\ PendingCounts /\ [Next]_vars => PendingCounts'
    BY CountStep
  <1>3. QED
    BY <1>1, <1>2, TypeCorrect, PTL DEF Spec

-----------------------------------------------------------------------------
(***************************************************************************)
(* One client.  The theorems below are about a program that calls the      *)
(* wrapper from one thread, as the boundary program does, while the event  *)
(* thread runs beside it.                                                  *)
(***************************************************************************)
OneClient == \A b, c \in Clients : b = c

\* Where a client holds runloop_lock and has its device open
InSetup(c) == pc[c] \in {"ringlock", "stopping", "starting", "unlock"}

\* Between a call's start and its return, the joins apart
InCall(c) == pc[c] \notin {"idle", "join", "stopjoin"}

\* Where the ring of a call has the call's format, or could not be allocated
Settled(c) == pc[c] \in {"starting", "unlock", "dec", "get", "wait"}

\* One event thread at a time; it shuts down only on request; what has been
\* set up stays until the client itself takes it down.
ThreadOne ==
  /\ \A e \in EventThreads : pc[e] # "none" => e = thread
  /\ thread_running /\ ~EventsMayFail =>
       \A e \in EventThreads : pc[e] \notin {"tear", "done"}
  /\ ~thread_running => \A c \in Clients :
       \/ pc[c] \in {"faildec", "join", "stopjoin"}
       \/ \A e \in EventThreads : pc[e] = "none"
  /\ \A e \in EventThreads : pc[e] = "done" => opened = {} /\ ctx = "freed"
  /\ \A c \in Clients :
       /\ pc[c] \in {"join", "stopjoin"} =>
            joinee[c] = thread /\ ~thread_running
       /\ pc[c] = "faildec" => (thread_running <=> prev[c])
       /\ pc[c] = "failunlock" => thread_running
       /\ InSetup(c) => arg[c].ring[1] \in opened
       /\ InSetup(c) \/ pc[c] \in {"dec", "get", "wait"} => thread_running

\* A device that is not open has no rings; a ring has a format when it has
\* buffers; a client's ring is the one it asked for once it is set up.
RingOne ==
  /\ \A r \in Rings : r[1] \notin opened => bufs[r] = NoBufs
  /\ \A r \in Rings : fmt[r] = NoFormat <=> bufs[r] = NoBufs
  /\ \A c \in Clients : Settled(c) =>
       \/ fmt[arg[c].ring] = arg[c].fmt
       \/ bufs[arg[c].ring] = NoBufs /\ ~valid[arg[c].ring]

\* A published frame has the format and the timestamp that are kept beside
\* it; the frame a callback is about to publish was completed just now.
FrameOne ==
  \A r \in Rings :
    /\ valid[r] /\ bufs[r] # NoBufs =>
         /\ mem[r][bufs[r][1]] # Blank
         /\ mem[r][bufs[r][1]].fmt = fmt[r]
         /\ mem[r][bufs[r][1]].ts = timestamp[r]
    /\ \A t \in Threads : cb[t] = r =>
         /\ mem[r][proc[r]].fmt = fmt[r]
         /\ NextStamp(mem[r][proc[r]].ts) = clock[r]

\* While a frame is lent its ring is not the business of a call, and no
\* failed call is about to shut the event thread down.
LentOne ==
  \A r \in Rings : lent[r] =>
    /\ thread_running
    /\ \A c \in Clients : /\ InCall(c) => arg[c].ring # r
                          /\ pc[c] = "failunlock" => prev[c]

\* Every step keeps ThreadOne.
LEMMA ThreadStep ==
  ASSUME OneClient, IInv, ThreadOne, [Next]_vars PROVE ThreadOne'
  <1> USE Constants
  <1>1. TypeOK /\ LoopInv /\ CbInv /\ (\A b, c \in Clients : b = c)
    BY DEF IInv, OneClient
  <1>2. ASSUME NEW t \in Threads, NEW r \in Rings, FrameDone(t, r)
        PROVE  ThreadOne'
    BY <1>1, <1>2
    DEF ThreadOne, InSetup, TypeOK, clientPCs, eventPCs, FrameDone, Goto,
      loopVars, threadVars, ringVars, streamVars
  <1>3. ASSUME NEW t \in Threads, NEW r \in Rings, ProducerCb(t, r)
        PROVE  ThreadOne'
    <2>1. /\ \A u \in Threads : \/ pc'[u] = pc[u]
                                \/ pc[u] = "wait" /\ pc'[u] = "get"
          /\ UNCHANGED <<arg, prev, joinee, thread_running, thread, ctx, opened>>
      BY <1>1, <1>3, SignalStep DEF ProducerCb, loopVars
    <2>2. \A e \in EventThreads : pc'[e] = pc[e]
      BY <1>1, <2>1 DEF TypeOK, eventPCs
    <2>3. \A b \in Clients : \/ pc'[b] = pc[b]
                             \/ pc[b] = "wait" /\ pc'[b] = "get"
      BY <2>1
    <2>4. QED
      BY <2>1, <2>2, <2>3 DEF ThreadOne, InSetup
  <1>4. ASSUME NEW e \in EventThreads, EventWaitZero(e)
        PROVE  ThreadOne'
    BY <1>1, <1>4
    DEF ThreadOne, InSetup, TypeOK, clientPCs, eventPCs, EventWaitZero, Goto,
      loopVars, threadVars, ringVars, streamVars
  <1>5. ASSUME NEW e \in EventThreads, EventLock(e)
        PROVE  ThreadOne'
    BY <1>1, <1>5
    DEF ThreadOne, InSetup, TypeOK, clientPCs, eventPCs, EventLock, Goto,
      loopVars, threadVars, ringVars, streamVars
  <1>6. ASSUME NEW e \in EventThreads, EventsHandled(e)
        PROVE  ThreadOne'
    BY <1>1, <1>6
    DEF ThreadOne, InSetup, TypeOK, clientPCs, eventPCs, EventsHandled, Goto,
      loopVars, threadVars, ringVars, streamVars
  <1>7. ASSUME NEW e \in EventThreads, NEW r \in Rings, TearStop(e, r)
        PROVE  ThreadOne'
    BY <1>1, <1>7
    DEF ThreadOne, InSetup, TypeOK, clientPCs, eventPCs, TearStop, Goto,
      loopVars, threadVars, ringVars, streamVars
  <1>8. ASSUME NEW e \in EventThreads, NEW d \in Devices, TearFree(e, d)
        PROVE  ThreadOne'
    <2>1. /\ pc[e] = "tear" /\ opened' \subseteq opened
          /\ pc' = [t \in Threads |-> IF pc[t] = "wait" /\ arg[t].ring[1] = d
                                      THEN "lost" ELSE pc[t]]
          /\ UNCHANGED <<arg, prev, joinee, thread_running, thread, ctx>>
      BY <1>8 DEF TearFree, loopVars
    <2>2. \A c \in Clients : ~InSetup(c)
      BY <1>1, <2>1 DEF LoopInv, HoldsRunloop, InSetup
    <2>3. /\ \A f \in EventThreads : pc'[f] = pc[f]
          /\ \A c \in Clients : pc'[c] = pc[c] \/ pc'[c] = "lost"
      BY <1>1, <2>1 DEF TypeOK, eventPCs
    <2>4. QED
      BY <2>1, <2>2, <2>3 DEF ThreadOne, InSetup
  <1>9. ASSUME NEW e \in EventThreads, TearDone(e)
        PROVE  ThreadOne'
    <2>1. /\ pc[e] = "tear" /\ opened = {} /\ ctx' = "freed"
          /\ pc' = [pc EXCEPT ![e] = "done"]
          /\ UNCHANGED <<arg, prev, joinee, thread_running, thread, opened>>
      BY <1>9 DEF TearDone, AllClosed, Goto
    <2>2. pc'[e] = "done" /\ \A u \in Threads \ {e} : pc'[u] = pc[u]
      BY <1>1, <2>1 DEF TypeOK
    <2>3. \A c \in Clients : ~InSetup(c)
      BY <1>1, <2>1 DEF LoopInv, HoldsRunloop, InSetup
    <2>4. thread_running => EventsMayFail
      BY <2>1 DEF ThreadOne
    <2>5. QED
      BY <1>1, <2>1, <2>2, <2>3, <2>4 DEF ThreadOne, InSetup
  <1>10. ASSUME NEW c \in Clients, Call(c)
        PROVE  ThreadOne'
    BY <1>1, <1>10
    DEF ThreadOne, InSetup, TypeOK, clientPCs, eventPCs, Call, Goto, loopVars,
      threadVars, ringVars, streamVars
  <1>11. ASSUME NEW c \in Clients, Stop(c)
        PROVE  ThreadOne'
    BY <1>1, <1>11
    DEF ThreadOne, InSetup, TypeOK, clientPCs, eventPCs, Stop, Goto, loopVars,
      threadVars, ringVars, streamVars
  <1>12. ASSUME NEW c \in Clients, Check(c)
        PROVE  ThreadOne'
    BY <1>1, <1>12
    DEF ThreadOne, InSetup, TypeOK, clientPCs, eventPCs, Check, Ready, Goto,
      loopVars, threadVars, ringVars, streamVars
  <1>13. ASSUME NEW c \in Clients, PendingInc(c)
        PROVE  ThreadOne'
    BY <1>1, <1>13
    DEF ThreadOne, InSetup, TypeOK, clientPCs, eventPCs, PendingInc, Goto,
      loopVars, threadVars, ringVars, streamVars
  <1>14. ASSUME NEW c \in Clients, SetupEnter(c)
        PROVE  ThreadOne'
    <2> DEFINE d == arg[c].ring[1]
    <2>1. /\ pc[c] = "runlock" /\ prev'[c] = thread_running
          /\ UNCHANGED <<arg, joinee>>
      BY <1>1, <1>14 DEF SetupEnter, TypeOK
    <2>2. ASSUME NEW next \in {"ringlock", "failunlock"}, StartThread(c, next),
                 opened \subseteq opened', next = "ringlock" => d \in opened',
                 thread_running => \A e \in EventThreads : pc[e] # "done"
          PROVE  ThreadOne'
      <3>1. next \in clientPCs
        BY DEF clientPCs
      <3>2. CASE thread_running
        <4>1. /\ pc' = [pc EXCEPT ![c] = next] /\ UNCHANGED <<thread_running, thread, ctx>>
          BY <2>2, <3>2 DEF StartThread, Goto
        <4>2. pc'[c] = next /\ \A u \in Threads \ {c} : pc'[u] = pc[u]
          BY <1>1, <4>1 DEF TypeOK
        <4>3. \A e \in EventThreads : pc'[e] = pc[e] /\ pc[e] # "done"
          BY <2>2, <4>2, <3>2
        <4>4. QED
          BY <1>1, <2>1, <2>2, <3>2, <4>1, <4>2, <4>3 DEF ThreadOne, InSetup
      <3>3. CASE ~thread_running
        <4>1. PICK e \in EventThreads :
                /\ pc' = [pc EXCEPT ![e] = "zero", ![c] = next]
                /\ thread_running' = TRUE /\ thread' = e /\ ctx' = "live"
          BY <2>2, <3>3 DEF StartThread
        <4>2. \A f \in EventThreads : pc[f] = "none"
          BY <2>1, <3>3 DEF ThreadOne
        <4>3. /\ pc'[c] = next /\ pc'[e] = "zero"
              /\ \A u \in Threads \ {c, e} : pc'[u] = pc[u]
          BY <1>1, <4>1 DEF TypeOK
        <4>4. \A f \in EventThreads : pc'[f] \in {"none", "zero"} /\ (pc'[f] # "none" => f = e)
          BY <4>2, <4>3
        <4>5. QED
          BY <1>1, <2>1, <2>2, <4>1, <4>3, <4>4 DEF ThreadOne, InSetup
      <3>4. QED
        BY <3>2, <3>3
    <2>3. CASE /\ Goto(c, "dangling")
               /\ UNCHANGED <<opened, thread_running, thread, ctx>>
      <3>1. pc'[c] = "dangling" /\ \A u \in Threads \ {c} : pc'[u] = pc[u]
        BY <1>1, <2>3 DEF TypeOK, Goto
      <3>2. QED
        BY <1>1, <2>1, <2>3, <3>1 DEF ThreadOne, InSetup
    <2>4. \/ \E next \in {"ringlock", "failunlock"} :
               /\ StartThread(c, next) /\ opened \subseteq opened'
               /\ next = "ringlock" => d \in opened'
               /\ thread_running => \A e \in EventThreads : pc[e] # "done"
          \/ /\ Goto(c, "dangling")
             /\ UNCHANGED <<opened, thread_running, thread, ctx>>
      <3> HIDE DEF d
      <3>1. QED
        BY <1>14 DEF SetupEnter, ThreadOne, d
    <2>5. QED
      BY <2>2, <2>3, <2>4
  <1>15. ASSUME NEW c \in Clients, RingLock(c)
        PROVE  ThreadOne'
    BY <1>1, <1>15
    DEF ThreadOne, InSetup, TypeOK, clientPCs, eventPCs, RingLock, Reallocate,
      KeepsRunning, Goto, loopVars, threadVars, ringVars, streamVars
  <1>16. ASSUME NEW c \in Clients, StreamStopped(c)
        PROVE  ThreadOne'
    <2>1. /\ pc[c] = "stopping"
          /\ pc' \in {[pc EXCEPT ![c] = "starting"], [pc EXCEPT ![c] = "unlock"]}
          /\ UNCHANGED <<arg, prev, joinee, thread_running, thread, ctx, opened>>
      BY <1>16 DEF StreamStopped, Reallocate, Goto, loopVars
    <2>2. QED
      BY <1>1, <2>1 DEF ThreadOne, InSetup, TypeOK
  <1>17. ASSUME NEW c \in Clients, StreamStarted(c)
        PROVE  ThreadOne'
    BY <1>1, <1>17
    DEF ThreadOne, InSetup, TypeOK, clientPCs, eventPCs, StreamStarted, Goto,
      loopVars, threadVars, ringVars, streamVars
  <1>18. ASSUME NEW c \in Clients, SetupUnlock(c)
        PROVE  ThreadOne'
    BY <1>1, <1>18
    DEF ThreadOne, InSetup, TypeOK, clientPCs, eventPCs, SetupUnlock, Goto,
      loopVars, threadVars, ringVars, streamVars
  <1>19. ASSUME NEW c \in Clients, SetupDone(c)
        PROVE  ThreadOne'
    <2>1. /\ pc[c] = "dec" /\ PendingDec(c, "get")
          /\ UNCHANGED <<arg, prev, joinee, thread_running, thread, ctx, opened>>
      BY <1>19 DEF SetupDone
    <2>2. "get" \in clientPCs
      BY DEF clientPCs
    <2>3. /\ pc'[c] = "get"
          /\ \A u \in Threads \ {c} :
               \/ pc'[u] = pc[u]
               \/ u \in EventThreads /\ pc[u] = "zwait" /\ pc'[u] = "zero"
      BY <1>1, <2>1, <2>2, DecStep
    <2>4. QED
      BY <1>1, <2>1, <2>3 DEF ThreadOne, InSetup
  <1>20. ASSUME NEW c \in Clients, FailUnlock(c)
        PROVE  ThreadOne'
    BY <1>1, <1>20
    DEF ThreadOne, InSetup, TypeOK, clientPCs, eventPCs, FailUnlock, Goto,
      loopVars, threadVars, ringVars, streamVars
  <1>21. ASSUME NEW c \in Clients, FailDone(c)
        PROVE  ThreadOne'
    <2> DEFINE next == IF prev[c] THEN "idle" ELSE "join"
    <2>1. /\ pc[c] = "faildec" /\ PendingDec(c, next)
          /\ joinee' = [joinee EXCEPT ![c] = thread]
          /\ UNCHANGED <<arg, prev, thread_running, thread, ctx, opened>>
      BY <1>21 DEF FailDone
    <2>2. next \in clientPCs /\ (next = "join" => ~thread_running)
      BY <1>1, <2>1 DEF clientPCs, ThreadOne, TypeOK
    <2>3. next \in {"idle", "join"}
      OBVIOUS
    <2> HIDE DEF next
    <2>4. /\ pc'[c] = next
          /\ \A u \in Threads \ {c} :
               \/ pc'[u] = pc[u]
               \/ u \in EventThreads /\ pc[u] = "zwait" /\ pc'[u] = "zero"
      BY <1>1, <2>1, <2>2, DecStep
    <2>5. joinee'[c] = thread
      BY <1>1, <2>1 DEF TypeOK
    <2>6. thread_running \/ next = "join" \/ \A e \in EventThreads : pc[e] = "none"
      BY <2>1, <2>3, <1>1 DEF ThreadOne, next, TypeOK
    <2>7. QED
      BY <1>1, <2>1, <2>2, <2>3, <2>4, <2>5, <2>6 DEF ThreadOne, InSetup
  <1>22. ASSUME NEW c \in Clients, Join(c)
        PROVE  ThreadOne'
    <2>1. PICK e \in EventThreads :
            /\ pc[c] \in {"join", "stopjoin"} /\ joinee[c] = e
            /\ pc' = [pc EXCEPT ![e] = "none", ![c] = "idle"]
            /\ UNCHANGED <<arg, prev, joinee, thread_running, thread, ctx, opened>>
      BY <1>22 DEF Join, loopVars
    <2>2. /\ pc'[c] = "idle" /\ pc'[e] = "none"
          /\ \A u \in Threads \ {c, e} : pc'[u] = pc[u]
      BY <1>1, <2>1 DEF TypeOK
    <2>3. e = thread /\ \A f \in EventThreads : pc'[f] = "none"
      BY <1>1, <2>1, <2>2 DEF ThreadOne
    <2>4. QED
      BY <1>1, <2>1, <2>2, <2>3 DEF ThreadOne, InSetup
  <1>23. ASSUME NEW c \in Clients, Get(c)
        PROVE  ThreadOne'
    BY <1>1, <1>23
    DEF ThreadOne, InSetup, TypeOK, clientPCs, eventPCs, Get, Goto, loopVars,
      threadVars, ringVars, streamVars
  <1>e. ASSUME NEW e \in EventThreads, EventsFailed(e)
        PROVE  ThreadOne'
    BY <1>1, <1>e DEF ThreadOne, InSetup, TypeOK, clientPCs, eventPCs,
      EventsFailed, Goto, loopVars, ringVars, streamVars
  <1>24. CASE UNCHANGED vars
    BY <1>24 DEF ThreadOne, InSetup, vars, threadVars, loopVars
  <1>25. QED
    BY <1>1, <1>2, <1>3, <1>4, <1>5, <1>6, <1>7, <1>8, <1>9, <1>10, <1>11,
      <1>12, <1>13, <1>14, <1>15, <1>16, <1>17, <1>18, <1>19, <1>20, <1>21,
      <1>22, <1>23, <1>24, <1>e
    DEF Next, ClientStep, EventStep

\* What a ring is after it was freed and allocated again
Reallocated(c, r) ==
  /\ \A q \in Rings \ {r} :
       /\ bufs'[q] = bufs[q] /\ fmt'[q] = fmt[q] /\ proc'[q] = proc[q]
       /\ valid'[q] = valid[q] /\ timestamp'[q] = timestamp[q]
       /\ mem'[q] = mem[q]
  /\ valid'[r] = FALSE /\ mem'[r] = AllBlank
  /\ \/ /\ bufs'[r] = FreshBufs /\ FreshBufs # NoBufs
        /\ fmt'[r] = arg[c].fmt /\ arg[c].fmt # NoFormat
     \/ bufs'[r] = NoBufs /\ fmt'[r] = NoFormat
  /\ pc'[c] \in {"starting", "unlock"}
  /\ \A t \in Threads \ {c} : pc'[t] = pc[t]

LEMMA ReallocateRing ==
  ASSUME TypeOK, NEW c \in Clients, NEW r \in Rings, Reallocate(c, r)
  PROVE  Reallocated(c, r)
  <1> USE Constants
  <1>1. arg[c].fmt \in Formats /\ arg[c].fmt # NoFormat
    BY DEF TypeOK
  <1>2. /\ valid'[r] = FALSE /\ mem'[r] = AllBlank
        /\ \A q \in Rings \ {r} :
             /\ valid'[q] = valid[q] /\ timestamp'[q] = timestamp[q]
             /\ mem'[q] = mem[q]
    BY DEF Reallocate, TypeOK
  <1>3. /\ \A q \in Rings \ {r} :
             /\ bufs'[q] = bufs[q] /\ fmt'[q] = fmt[q] /\ proc'[q] = proc[q]
        /\ \/ bufs'[r] = FreshBufs /\ fmt'[r] = arg[c].fmt
           \/ bufs'[r] = NoBufs /\ fmt'[r] = NoFormat
    BY DEF Reallocate, TypeOK
  <1>4. pc'[c] \in {"starting", "unlock"} /\ \A t \in Threads \ {c} : pc'[t] = pc[t]
    BY ReallocateType DEF TypeOK
  <1>5. QED
    BY <1>1, <1>2, <1>3, <1>4, FreshDistinct DEF Reallocated

\* Nobody is in a callback while a thread that is in none holds runloop_lock.
LEMMA NobodyInCallback ==
  ASSUME IInv, NEW t \in Threads, HoldsRunloop(t), cb[t] = NoRing
  PROVE  \A u \in Threads : cb[u] = NoRing
  BY OnlyPumper DEF IInv

\* Every step keeps RingOne.
LEMMA RingOneStep ==
  ASSUME OneClient, IInv, ThreadOne, RingOne, [Next]_vars PROVE RingOne'
  <1> USE Constants
  <1>1. TypeOK /\ LoopInv /\ OwnInv /\ CbInv /\ (\A b, c \in Clients : b = c)
    BY DEF IInv, OneClient
  <1>2. ASSUME NEW t \in Threads, NEW r \in Rings, FrameDone(t, r)
        PROVE  RingOne'
    BY <1>1, <1>2
    DEF RingOne, ThreadOne, InSetup, Settled, TypeOK, clientPCs, eventPCs,
      FrameDone, Goto, loopVars, threadVars, ringVars, streamVars
  <1>3. ASSUME NEW t \in Threads, NEW r \in Rings, ProducerCb(t, r)
        PROVE  RingOne'
    <2>1. /\ cb[t] = r /\ UNCHANGED <<arg, opened, fmt>>
          /\ bufs' = [bufs EXCEPT ![r] = Exchange(@, 1, 2)]
          /\ valid' = [valid EXCEPT ![r] = TRUE]
          /\ \A u \in Threads : \/ pc'[u] = pc[u]
                                \/ pc[u] = "wait" /\ pc'[u] = "get"
      BY <1>1, <1>3, SignalStep DEF ProducerCb
    <2>2. bufs[r] # NoBufs /\ bufs'[r] # NoBufs
      <3>1. bufs[r] # NoBufs /\ bufs[r] \in [Slots -> Slots] \cup {NoBufs}
        BY <1>1, <2>1 DEF CbInv, OwnInv, DriverReady, TypeOK
      <3>2. Exchange(bufs[r], 1, 2) # NoBufs
        BY <3>1, ExchangeSound
      <3>3. QED
        BY <1>1, <2>1, <3>1, <3>2 DEF TypeOK
    <2>3. \A q \in Rings \ {r} : bufs'[q] = bufs[q] /\ valid'[q] = valid[q]
      BY <1>1, <2>1 DEF TypeOK
    <2>4. \A c \in Clients : Settled(c)' => Settled(c) /\ arg[c].ring \in Rings
      BY <1>1, <2>1 DEF Settled, TypeOK
    <2>5. QED
      BY <2>1, <2>2, <2>3, <2>4 DEF RingOne
  <1>4. ASSUME NEW e \in EventThreads, EventWaitZero(e)
        PROVE  RingOne'
    BY <1>1, <1>4
    DEF RingOne, ThreadOne, InSetup, Settled, TypeOK, clientPCs, eventPCs,
      EventWaitZero, Goto, loopVars, threadVars, ringVars, streamVars
  <1>5. ASSUME NEW e \in EventThreads, EventLock(e)
        PROVE  RingOne'
    BY <1>1, <1>5
    DEF RingOne, ThreadOne, InSetup, Settled, TypeOK, clientPCs, eventPCs,
      EventLock, Goto, loopVars, threadVars, ringVars, streamVars
  <1>6. ASSUME NEW e \in EventThreads, EventsHandled(e)
        PROVE  RingOne'
    BY <1>1, <1>6
    DEF RingOne, ThreadOne, InSetup, Settled, TypeOK, clientPCs, eventPCs,
      EventsHandled, Goto, loopVars, threadVars, ringVars, streamVars
  <1>7. ASSUME NEW e \in EventThreads, NEW r \in Rings, TearStop(e, r)
        PROVE  RingOne'
    BY <1>1, <1>7
    DEF RingOne, ThreadOne, InSetup, Settled, TypeOK, clientPCs, eventPCs,
      TearStop, Goto, loopVars, threadVars, ringVars, streamVars
  <1>8. ASSUME NEW e \in EventThreads, NEW d \in Devices, TearFree(e, d)
        PROVE  RingOne'
    <2>1. /\ opened' = opened \ {d} /\ arg' = arg
          /\ pc' = [t \in Threads |-> IF pc[t] = "wait" /\ arg[t].ring[1] = d
                                      THEN "lost" ELSE pc[t]]
      BY <1>8 DEF TearFree
    <2>2. \A r \in Rings :
            IF r[1] = d
            THEN bufs'[r] = NoBufs /\ fmt'[r] = NoFormat /\ valid'[r] = FALSE
            ELSE bufs'[r] = bufs[r] /\ fmt'[r] = fmt[r] /\ valid'[r] = valid[r]
      BY <1>8 DEF TearFree
    <2>3. \A c \in Clients : Settled(c)' => Settled(c) /\ arg[c].ring \in Rings
      BY <1>1, <2>1 DEF Settled, TypeOK
    <2>4. QED
      BY <2>1, <2>2, <2>3 DEF RingOne
  <1>9. ASSUME NEW e \in EventThreads, TearDone(e)
        PROVE  RingOne'
    BY <1>1, <1>9
    DEF RingOne, ThreadOne, InSetup, Settled, TypeOK, clientPCs, eventPCs,
      TearDone, Goto, loopVars, threadVars, ringVars, streamVars
  <1>10. ASSUME NEW c \in Clients, Call(c)
        PROVE  RingOne'
    BY <1>1, <1>10
    DEF RingOne, ThreadOne, InSetup, Settled, TypeOK, clientPCs, eventPCs,
      Call, Goto, loopVars, threadVars, ringVars, streamVars
  <1>11. ASSUME NEW c \in Clients, Stop(c)
        PROVE  RingOne'
    BY <1>1, <1>11
    DEF RingOne, ThreadOne, InSetup, Settled, TypeOK, clientPCs, eventPCs,
      Stop, Goto, loopVars, threadVars, ringVars, streamVars
  <1>12. ASSUME NEW c \in Clients, Check(c)
        PROVE  RingOne'
    BY <1>1, <1>12
    DEF RingOne, ThreadOne, InSetup, Settled, TypeOK, clientPCs, eventPCs,
      Check, Ready, Goto, loopVars, threadVars, ringVars, streamVars
  <1>13. ASSUME NEW c \in Clients, PendingInc(c)
        PROVE  RingOne'
    BY <1>1, <1>13
    DEF RingOne, ThreadOne, InSetup, Settled, TypeOK, clientPCs, eventPCs,
      PendingInc, Goto, loopVars, threadVars, ringVars, streamVars
  <1>14. ASSUME NEW c \in Clients, SetupEnter(c)
        PROVE  RingOne'
    BY <1>1, <1>14
    DEF RingOne, ThreadOne, InSetup, Settled, TypeOK, clientPCs, eventPCs,
      SetupEnter, StartThread, Goto, loopVars, threadVars, ringVars, streamVars
  <1>15. ASSUME NEW c \in Clients, RingLock(c)
        PROVE  RingOne'
    <2> DEFINE r == arg[c].ring
    <2>1. /\ pc[c] = "ringlock" /\ UNCHANGED <<arg, opened>>
          /\ r \in Rings /\ r[1] \in opened
      BY <1>1, <1>15 DEF RingLock, loopVars, ThreadOne, InSetup, TypeOK
    <2>2. CASE fmt[r] = arg[c].fmt \/ running[r]
      <3>1. /\ UNCHANGED <<bufs, fmt, valid>>
            /\ \/ fmt[r] = arg[c].fmt /\ pc' = [pc EXCEPT ![c] = "unlock"]
               \/ pc' = [pc EXCEPT ![c] = "stopping"]
        BY <1>15, <2>2 DEF RingLock, Goto
      <3>2. \A b \in Clients : Settled(b)' => b = c /\ fmt[r] = arg[c].fmt
        BY <1>1, <3>1 DEF Settled, TypeOK
      <3>3. QED
        BY <2>1, <3>1, <3>2 DEF RingOne
    <2>3. CASE fmt[r] # arg[c].fmt /\ ~running[r]
      <3>1. Reallocate(c, r)
        BY <1>15, <2>3 DEF RingLock
      <3> HIDE DEF r
      <3>r. Reallocated(c, r)
        BY <1>1, <2>1, <3>1, ReallocateRing
      <3>2. /\ \A q \in Rings \ {r} : bufs'[q] = bufs[q] /\ fmt'[q] = fmt[q]
            /\ \/ bufs'[r] # NoBufs /\ fmt'[r] = arg[c].fmt /\ arg[c].fmt # NoFormat
               \/ bufs'[r] = NoBufs /\ fmt'[r] = NoFormat
            /\ valid'[r] = FALSE
        BY <3>r DEF Reallocated
      <3>3. \A b \in Clients : arg'[b].ring = r /\ arg'[b].fmt = arg[c].fmt
        BY <1>1, <2>1 DEF r
      <3>4. QED
        BY <2>1, <3>2, <3>3 DEF RingOne
    <2>4. QED
      BY <2>2, <2>3
  <1>16. ASSUME NEW c \in Clients, StreamStopped(c)
        PROVE  RingOne'
    <2> DEFINE r == arg[c].ring
    <2>1. /\ UNCHANGED <<arg, opened>> /\ r \in Rings /\ r[1] \in opened
          /\ Reallocate(c, r)
      BY <1>1, <1>16 DEF StreamStopped, loopVars, ThreadOne, InSetup, TypeOK
    <2> HIDE DEF r
    <2>r. Reallocated(c, r)
      BY <1>1, <2>1, ReallocateRing
    <2>2. /\ \A q \in Rings \ {r} : bufs'[q] = bufs[q] /\ fmt'[q] = fmt[q]
          /\ \/ bufs'[r] # NoBufs /\ fmt'[r] = arg[c].fmt /\ arg[c].fmt # NoFormat
             \/ bufs'[r] = NoBufs /\ fmt'[r] = NoFormat
          /\ valid'[r] = FALSE
      BY <2>r DEF Reallocated
    <2>3. \A b \in Clients : arg'[b].ring = r /\ arg'[b].fmt = arg[c].fmt
      BY <1>1, <2>1 DEF r
    <2>4. QED
      BY <2>1, <2>2, <2>3 DEF RingOne
  <1>17. ASSUME NEW c \in Clients, StreamStarted(c)
        PROVE  RingOne'
    BY <1>1, <1>17
    DEF RingOne, ThreadOne, InSetup, Settled, TypeOK, clientPCs, eventPCs,
      StreamStarted, Goto, loopVars, threadVars, ringVars, streamVars
  <1>18. ASSUME NEW c \in Clients, SetupUnlock(c)
        PROVE  RingOne'
    BY <1>1, <1>18
    DEF RingOne, ThreadOne, InSetup, Settled, TypeOK, clientPCs, eventPCs,
      SetupUnlock, Goto, loopVars, threadVars, ringVars, streamVars
  <1>19. ASSUME NEW c \in Clients, SetupDone(c)
        PROVE  RingOne'
    BY <1>1, <1>19
    DEF RingOne, ThreadOne, InSetup, Settled, TypeOK, clientPCs, eventPCs,
      SetupDone, PendingDec, Goto, loopVars, threadVars, ringVars, streamVars
  <1>20. ASSUME NEW c \in Clients, FailUnlock(c)
        PROVE  RingOne'
    BY <1>1, <1>20
    DEF RingOne, ThreadOne, InSetup, Settled, TypeOK, clientPCs, eventPCs,
      FailUnlock, Goto, loopVars, threadVars, ringVars, streamVars
  <1>21. ASSUME NEW c \in Clients, FailDone(c)
        PROVE  RingOne'
    BY <1>1, <1>21
    DEF RingOne, ThreadOne, InSetup, Settled, TypeOK, clientPCs, eventPCs,
      FailDone, PendingDec, Goto, loopVars, threadVars, ringVars, streamVars
  <1>22. ASSUME NEW c \in Clients, Join(c)
        PROVE  RingOne'
    BY <1>1, <1>22
    DEF RingOne, ThreadOne, InSetup, Settled, TypeOK, clientPCs, eventPCs,
      Join, Goto, loopVars, threadVars, ringVars, streamVars
  <1>23. ASSUME NEW c \in Clients, Get(c)
        PROVE  RingOne'
    <2> DEFINE r == arg[c].ring
    <2>1. /\ pc[c] = "get" /\ UNCHANGED <<arg, opened, fmt>> /\ r \in Rings
      BY <1>1, <1>23 DEF Get, TypeOK
    <2>2. CASE r[1] \in opened /\ valid[r]
      <3>1. /\ bufs' = [bufs EXCEPT ![r] = Exchange(@, 0, 1)]
            /\ pc' = [pc EXCEPT ![c] = "idle"]
            /\ valid' = [valid EXCEPT ![r] = FALSE]
        BY <1>23, <2>2 DEF Get, Goto
      <3>2. bufs'[r] = NoBufs <=> bufs[r] = NoBufs
        <4>1. bufs[r] \in [Slots -> Slots] \cup {NoBufs} /\ bufs'[r] = Exchange(bufs[r], 0, 1)
          BY <1>1, <2>1, <3>1 DEF TypeOK
        <4>2. QED
          BY <4>1, ExchangeSound
      <3>3. \A q \in Rings \ {r} : bufs'[q] = bufs[q]
        BY <1>1, <3>1 DEF TypeOK
      <3>4. \A b \in Clients : ~Settled(b)'
        BY <1>1, <3>1 DEF Settled, TypeOK
      <3>5. QED
        BY <2>1, <3>2, <3>3, <3>4 DEF RingOne
    <2>3. CASE ~(r[1] \in opened /\ valid[r])
      <3>1. /\ UNCHANGED <<bufs, valid>>
            /\ pc' \in {[pc EXCEPT ![c] = "wait"], [pc EXCEPT ![c] = "lost"]}
        BY <1>23, <2>3 DEF Get, Goto
      <3>2. Settled(c)
        BY <2>1 DEF Settled
      <3>3. QED
        BY <1>1, <2>1, <3>1, <3>2 DEF RingOne
    <2>4. QED
      BY <2>2, <2>3
  <1>e. ASSUME NEW e \in EventThreads, EventsFailed(e)
        PROVE  RingOne'
    BY <1>1, <1>e DEF RingOne, Settled, TypeOK, EventsFailed, Goto, loopVars,
      ringVars, streamVars
  <1>24. CASE UNCHANGED vars
    BY <1>24
    DEF RingOne, Settled, vars, threadVars, loopVars, ringVars, streamVars
  <1>25. QED
    BY <1>1, <1>2, <1>3, <1>4, <1>5, <1>6, <1>7, <1>8, <1>9, <1>10, <1>11,
      <1>12, <1>13, <1>14, <1>15, <1>16, <1>17, <1>18, <1>19, <1>20, <1>21,
      <1>22, <1>23, <1>24, <1>e
    DEF Next, ClientStep, EventStep

\* Every step keeps FrameOne.
LEMMA FrameOneStep ==
  ASSUME OneClient, IInv, RingOne, FrameOne, [Next]_vars PROVE FrameOne'
  <1> USE Constants
  <1>1. TypeOK /\ LoopInv /\ OwnInv /\ CbInv /\ (\A b, c \in Clients : b = c)
    BY DEF IInv, OneClient
  <1>2. ASSUME NEW t \in Threads, NEW r \in Rings, FrameDone(t, r)
        PROVE  FrameOne'
    <2>1. /\ Pumping(t) /\ cb[t] = NoRing /\ running[r]
          /\ mem' = [mem EXCEPT ![r][proc[r]] = [fmt |-> fmt[r], ts |-> clock[r]]]
          /\ clock' = [clock EXCEPT ![r] = NextStamp(@)]
          /\ cb' = [cb EXCEPT ![t] = r]
          /\ UNCHANGED <<bufs, fmt, valid, timestamp, proc>>
      BY <1>2 DEF FrameDone
    <2>2. \A u \in Threads : cb[u] = NoRing
      <3>1. HoldsRunloop(t)
        BY <2>1 DEF Pumping, HoldsRunloop
      <3>2. QED
        BY <2>1, <3>1, NobodyInCallback
    <2>3. /\ bufs[r] # NoBufs /\ proc[r] = bufs[r][2] /\ bufs[r][1] # bufs[r][2]
          /\ bufs[r] \in [Slots -> Slots] /\ proc[r] \in Slots
      BY <1>1, <2>1 DEF OwnInv, DriverReady, TypeOK
    <2>4. mem[r] \in [Slots -> Frames \cup {Blank}] /\ bufs[r][1] \in Slots
      BY <1>1, <2>3 DEF TypeOK
    <2>5. /\ mem'[r][proc[r]] = [fmt |-> fmt[r], ts |-> clock[r]]
          /\ mem'[r][bufs[r][1]] = mem[r][bufs[r][1]]
          /\ clock'[r] = NextStamp(clock[r])
          /\ \A q \in Rings \ {r} : mem'[q] = mem[q] /\ clock'[q] = clock[q]
      BY <1>1, <2>1, <2>3, <2>4 DEF TypeOK
    <2>6. \A u \in Threads, q \in Rings : cb'[u] = q => q = r
      BY <1>1, <2>1, <2>2 DEF TypeOK
    <2>7. QED
      BY <2>1, <2>3, <2>5, <2>6 DEF FrameOne
  <1>3. ASSUME NEW t \in Threads, NEW r \in Rings, ProducerCb(t, r)
        PROVE  FrameOne'
    <2>1. /\ cb[t] = r /\ cb' = [cb EXCEPT ![t] = NoRing]
          /\ bufs' = [bufs EXCEPT ![r] = Exchange(@, 1, 2)]
          /\ timestamp' = [timestamp EXCEPT ![r] = mem[r][proc[r]].ts]
          /\ \A q \in Rings \ {r} : proc'[q] = proc[q] /\ valid'[q] = valid[q]
          /\ UNCHANGED <<fmt, mem, clock>>
      BY <1>1, <1>3 DEF ProducerCb, TypeOK
    <2>2. \A u \in Threads, q \in Rings : cb'[u] # q
      <3>1. Pumping(t) /\ HoldsRunloop(t)
        BY <1>1, <2>1 DEF CbInv, Pumping, HoldsRunloop
      <3>2. \A u \in Threads : cb[u] # NoRing => u = t
        BY <1>1, <3>1, OnlyPumper
      <3>3. QED
        BY <1>1, <2>1, <3>2 DEF TypeOK
    <2>3. /\ bufs[r] # NoBufs /\ proc[r] = bufs[r][2] /\ mem[r][proc[r]] # Blank
          /\ bufs[r] \in [Slots -> Slots] \cup {NoBufs}
      BY <1>1, <2>1, SMTT(30) DEF CbInv, OwnInv, DriverReady, TypeOK
    <2>4. bufs'[r] = Exchange(bufs[r], 1, 2) /\ timestamp'[r] = mem[r][proc[r]].ts
      BY <1>1, <2>1 DEF TypeOK
    <2>5. bufs'[r][1] = proc[r]
      BY <2>3, <2>4, ExchangeSound
    <2>6. mem[r][proc[r]].fmt = fmt[r]
      BY <2>1 DEF FrameOne
    <2>7. \A q \in Rings \ {r} : bufs'[q] = bufs[q] /\ timestamp'[q] = timestamp[q]
      BY <1>1, <2>1 DEF TypeOK
    <2>8. QED
      BY <2>1, <2>2, <2>3, <2>4, <2>5, <2>6, <2>7 DEF FrameOne
  <1>4. ASSUME NEW e \in EventThreads, EventWaitZero(e)
        PROVE  FrameOne'
    BY <1>1, <1>4
    DEF FrameOne, ThreadOne, InSetup, TypeOK, clientPCs, eventPCs,
      EventWaitZero, Goto, loopVars, threadVars, ringVars, streamVars
  <1>5. ASSUME NEW e \in EventThreads, EventLock(e)
        PROVE  FrameOne'
    BY <1>1, <1>5
    DEF FrameOne, ThreadOne, InSetup, TypeOK, clientPCs, eventPCs, EventLock,
      Goto, loopVars, threadVars, ringVars, streamVars
  <1>6. ASSUME NEW e \in EventThreads, EventsHandled(e)
        PROVE  FrameOne'
    BY <1>1, <1>6
    DEF FrameOne, ThreadOne, InSetup, TypeOK, clientPCs, eventPCs,
      EventsHandled, Goto, loopVars, threadVars, ringVars, streamVars
  <1>7. ASSUME NEW e \in EventThreads, NEW r \in Rings, TearStop(e, r)
        PROVE  FrameOne'
    BY <1>1, <1>7
    DEF FrameOne, ThreadOne, InSetup, TypeOK, clientPCs, eventPCs, TearStop,
      Goto, loopVars, threadVars, ringVars, streamVars
  <1>8. ASSUME NEW e \in EventThreads, NEW d \in Devices, TearFree(e, d)
        PROVE  FrameOne'
    <2>1. /\ pc[e] = "tear" /\ cb[e] = NoRing /\ cb' = cb
          /\ \A r \in Rings :
               IF r[1] = d THEN bufs'[r] = NoBufs
               ELSE /\ bufs'[r] = bufs[r] /\ fmt'[r] = fmt[r]
                    /\ valid'[r] = valid[r] /\ mem'[r] = mem[r]
                    /\ timestamp'[r] = timestamp[r]
      BY <1>8 DEF TearFree
    <2>2. \A u \in Threads : cb[u] = NoRing
      <3>1. HoldsRunloop(e)
        BY <2>1 DEF HoldsRunloop
      <3>2. QED
        BY <2>1, <3>1, NobodyInCallback
    <2>3. QED
      BY <2>1, <2>2 DEF FrameOne
  <1>9. ASSUME NEW e \in EventThreads, TearDone(e)
        PROVE  FrameOne'
    BY <1>1, <1>9
    DEF FrameOne, ThreadOne, InSetup, TypeOK, clientPCs, eventPCs, TearDone,
      Goto, loopVars, threadVars, ringVars, streamVars
  <1>10. ASSUME NEW c \in Clients, Call(c)
        PROVE  FrameOne'
    BY <1>1, <1>10
    DEF FrameOne, ThreadOne, InSetup, TypeOK, clientPCs, eventPCs, Call, Goto,
      loopVars, threadVars, ringVars, streamVars
  <1>11. ASSUME NEW c \in Clients, Stop(c)
        PROVE  FrameOne'
    BY <1>1, <1>11
    DEF FrameOne, ThreadOne, InSetup, TypeOK, clientPCs, eventPCs, Stop, Goto,
      loopVars, threadVars, ringVars, streamVars
  <1>12. ASSUME NEW c \in Clients, Check(c)
        PROVE  FrameOne'
    BY <1>1, <1>12
    DEF FrameOne, ThreadOne, InSetup, TypeOK, clientPCs, eventPCs, Check,
      Ready, Goto, loopVars, threadVars, ringVars, streamVars
  <1>13. ASSUME NEW c \in Clients, PendingInc(c)
        PROVE  FrameOne'
    BY <1>1, <1>13
    DEF FrameOne, ThreadOne, InSetup, TypeOK, clientPCs, eventPCs, PendingInc,
      Goto, loopVars, threadVars, ringVars, streamVars
  <1>14. ASSUME NEW c \in Clients, SetupEnter(c)
        PROVE  FrameOne'
    <2>1. /\ \A r \in Rings : r[1] \in opened => valid'[r] = valid[r]
          /\ UNCHANGED <<cb, bufs, fmt, timestamp, mem, proc, clock>>
      BY <1>1, <1>14 DEF SetupEnter, streamVars, TypeOK
    <2>2. \A r \in Rings : bufs[r] # NoBufs => r[1] \in opened
      BY DEF RingOne
    <2>3. QED
      BY <2>1, <2>2 DEF FrameOne
  <1>15. ASSUME NEW c \in Clients, RingLock(c)
        PROVE  FrameOne'
    <2> DEFINE r == arg[c].ring
    <2>1. pc[c] = "ringlock" /\ cb' = cb /\ clock' = clock /\ r \in Rings
      BY <1>1, <1>15 DEF RingLock, TypeOK
    <2>2. \A u \in Threads : cb[u] = NoRing
      <3>1. HoldsRunloop(c) /\ ~Pumping(c)
        BY <2>1 DEF HoldsRunloop, Pumping
      <3>2. cb[c] = NoRing
        BY <1>1, <3>1 DEF CbInv, TypeOK
      <3>3. QED
        BY <3>1, <3>2, NobodyInCallback
    <2>3. CASE fmt[r] = arg[c].fmt \/ running[r]
      <3>1. UNCHANGED <<bufs, fmt, valid, timestamp, mem>>
        BY <1>15, <2>3 DEF RingLock
      <3>2. QED
        BY <2>1, <2>2, <3>1 DEF FrameOne
    <2>4. CASE fmt[r] # arg[c].fmt /\ ~running[r]
      <3>1. Reallocate(c, r)
        BY <1>15, <2>4 DEF RingLock
      <3> HIDE DEF r
      <3>r. Reallocated(c, r)
        BY <1>1, <2>1, <3>1, ReallocateRing
      <3>2. /\ valid'[r] = FALSE
            /\ \A q \in Rings \ {r} : bufs'[q] = bufs[q] /\ fmt'[q] = fmt[q]
            /\ \A q \in Rings \ {r} : valid'[q] = valid[q]
        BY <3>r DEF Reallocated
      <3>3. \A q \in Rings \ {r} : timestamp'[q] = timestamp[q]
        BY <3>r DEF Reallocated
      <3>4. \A q \in Rings \ {r} : mem'[q] = mem[q]
        BY <3>r DEF Reallocated
      <3>5. QED
        BY <2>1, <2>2, <3>2, <3>3, <3>4 DEF FrameOne
    <2>5. QED
      BY <2>3, <2>4
  <1>16. ASSUME NEW c \in Clients, StreamStopped(c)
        PROVE  FrameOne'
    <2> DEFINE r == arg[c].ring
    <2>1. /\ pc[c] = "stopping" /\ cb[c] = NoRing /\ cb' = cb /\ clock' = clock
          /\ r \in Rings /\ Reallocate(c, r)
      BY <1>1, <1>16 DEF StreamStopped, TypeOK
    <2>2. \A u \in Threads : cb[u] = NoRing
      <3>1. HoldsRunloop(c)
        BY <2>1 DEF HoldsRunloop
      <3>2. QED
        BY <2>1, <3>1, NobodyInCallback
    <2> HIDE DEF r
    <2>r. Reallocated(c, r)
      BY <1>1, <2>1, ReallocateRing
    <2>3. /\ valid'[r] = FALSE
          /\ \A q \in Rings \ {r} : bufs'[q] = bufs[q] /\ fmt'[q] = fmt[q]
          /\ \A q \in Rings \ {r} : valid'[q] = valid[q]
      BY <2>r DEF Reallocated
    <2>4. \A q \in Rings \ {r} : timestamp'[q] = timestamp[q]
      BY <2>r DEF Reallocated
    <2>5. \A q \in Rings \ {r} : mem'[q] = mem[q]
      BY <2>r DEF Reallocated
    <2>6. QED
      BY <2>1, <2>2, <2>3, <2>4, <2>5 DEF FrameOne
  <1>17. ASSUME NEW c \in Clients, StreamStarted(c)
        PROVE  FrameOne'
    BY <1>1, <1>17
    DEF FrameOne, ThreadOne, InSetup, TypeOK, clientPCs, eventPCs,
      StreamStarted, Goto, loopVars, threadVars, ringVars, streamVars
  <1>18. ASSUME NEW c \in Clients, SetupUnlock(c)
        PROVE  FrameOne'
    BY <1>1, <1>18
    DEF FrameOne, ThreadOne, InSetup, TypeOK, clientPCs, eventPCs, SetupUnlock,
      Goto, loopVars, threadVars, ringVars, streamVars
  <1>19. ASSUME NEW c \in Clients, SetupDone(c)
        PROVE  FrameOne'
    BY <1>1, <1>19
    DEF FrameOne, ThreadOne, InSetup, TypeOK, clientPCs, eventPCs, SetupDone,
      PendingDec, Goto, loopVars, threadVars, ringVars, streamVars
  <1>20. ASSUME NEW c \in Clients, FailUnlock(c)
        PROVE  FrameOne'
    BY <1>1, <1>20
    DEF FrameOne, ThreadOne, InSetup, TypeOK, clientPCs, eventPCs, FailUnlock,
      Goto, loopVars, threadVars, ringVars, streamVars
  <1>21. ASSUME NEW c \in Clients, FailDone(c)
        PROVE  FrameOne'
    BY <1>1, <1>21
    DEF FrameOne, ThreadOne, InSetup, TypeOK, clientPCs, eventPCs, FailDone,
      PendingDec, Goto, loopVars, threadVars, ringVars, streamVars
  <1>22. ASSUME NEW c \in Clients, Join(c)
        PROVE  FrameOne'
    BY <1>1, <1>22
    DEF FrameOne, ThreadOne, InSetup, TypeOK, clientPCs, eventPCs, Join, Goto,
      loopVars, threadVars, ringVars, streamVars
  <1>23. ASSUME NEW c \in Clients, Get(c)
        PROVE  FrameOne'
    BY <1>1, <1>23, SMTT(30)
    DEF FrameOne, ThreadOne, InSetup, TypeOK, clientPCs, eventPCs, Get, Goto,
      loopVars, threadVars, ringVars, streamVars
  <1>e. ASSUME NEW e \in EventThreads, EventsFailed(e)
        PROVE  FrameOne'
    BY <1>1, <1>e DEF FrameOne, EventsFailed, Goto, loopVars, ringVars,
      streamVars
  <1>24. CASE UNCHANGED vars
    BY <1>24 DEF FrameOne, vars, threadVars, loopVars, ringVars, streamVars
  <1>25. QED
    BY <1>1, <1>2, <1>3, <1>4, <1>5, <1>6, <1>7, <1>8, <1>9, <1>10, <1>11,
      <1>12, <1>13, <1>14, <1>15, <1>16, <1>17, <1>18, <1>19, <1>20, <1>21,
      <1>22, <1>23, <1>24, <1>e
    DEF Next, ClientStep, EventStep

\* Every step keeps LentOne.
LEMMA LentOneStep ==
  ASSUME OneClient, IInv, ThreadOne, LentOne, [Next]_vars PROVE LentOne'
  <1> USE Constants
  <1>1. TypeOK /\ LoopInv /\ OwnInv /\ CbInv /\ (\A b, c \in Clients : b = c)
    BY DEF IInv, OneClient
  <1>2. ASSUME NEW t \in Threads, NEW r \in Rings, FrameDone(t, r)
        PROVE  LentOne'
    BY <1>1, <1>2
    DEF LentOne, ThreadOne, InSetup, InCall, TypeOK, clientPCs, eventPCs,
      FrameDone, Goto, loopVars, threadVars, ringVars, streamVars
  <1>3. ASSUME NEW t \in Threads, NEW r \in Rings, ProducerCb(t, r)
        PROVE  LentOne'
    BY <1>1, <1>3, SignalStep
    DEF LentOne, ThreadOne, InSetup, InCall, TypeOK, clientPCs, eventPCs,
      ProducerCb, Goto, loopVars, threadVars, ringVars, streamVars
  <1>4. ASSUME NEW e \in EventThreads, EventWaitZero(e)
        PROVE  LentOne'
    BY <1>1, <1>4
    DEF LentOne, ThreadOne, InSetup, InCall, TypeOK, clientPCs, eventPCs,
      EventWaitZero, Goto, loopVars, threadVars, ringVars, streamVars
  <1>5. ASSUME NEW e \in EventThreads, EventLock(e)
        PROVE  LentOne'
    BY <1>1, <1>5
    DEF LentOne, ThreadOne, InSetup, InCall, TypeOK, clientPCs, eventPCs,
      EventLock, Goto, loopVars, threadVars, ringVars, streamVars
  <1>6. ASSUME NEW e \in EventThreads, EventsHandled(e)
        PROVE  LentOne'
    BY <1>1, <1>6
    DEF LentOne, ThreadOne, InSetup, InCall, TypeOK, clientPCs, eventPCs,
      EventsHandled, Goto, loopVars, threadVars, ringVars, streamVars
  <1>7. ASSUME NEW e \in EventThreads, NEW r \in Rings, TearStop(e, r)
        PROVE  LentOne'
    BY <1>1, <1>7
    DEF LentOne, ThreadOne, InSetup, InCall, TypeOK, clientPCs, eventPCs,
      TearStop, Goto, loopVars, threadVars, ringVars, streamVars
  <1>8. ASSUME NEW e \in EventThreads, NEW d \in Devices, TearFree(e, d)
        PROVE  LentOne'
    BY <1>1, <1>8
    DEF LentOne, ThreadOne, InSetup, InCall, TypeOK, clientPCs, eventPCs,
      TearFree, Goto, loopVars, threadVars, ringVars, streamVars
  <1>9. ASSUME NEW e \in EventThreads, TearDone(e)
        PROVE  LentOne'
    BY <1>1, <1>9
    DEF LentOne, ThreadOne, InSetup, InCall, TypeOK, clientPCs, eventPCs,
      TearDone, Goto, loopVars, threadVars, ringVars, streamVars
  <1>10. ASSUME NEW c \in Clients, Call(c)
        PROVE  LentOne'
    BY <1>1, <1>10
    DEF LentOne, ThreadOne, InSetup, InCall, TypeOK, clientPCs, eventPCs, Call,
      Goto, loopVars, threadVars, ringVars, streamVars
  <1>11. ASSUME NEW c \in Clients, Stop(c)
        PROVE  LentOne'
    BY <1>1, <1>11
    DEF LentOne, ThreadOne, InSetup, InCall, TypeOK, clientPCs, eventPCs, Stop,
      Goto, loopVars, threadVars, ringVars, streamVars
  <1>12. ASSUME NEW c \in Clients, Check(c)
        PROVE  LentOne'
    BY <1>1, <1>12
    DEF LentOne, ThreadOne, InSetup, InCall, TypeOK, clientPCs, eventPCs,
      Check, Ready, Goto, loopVars, threadVars, ringVars, streamVars
  <1>13. ASSUME NEW c \in Clients, PendingInc(c)
        PROVE  LentOne'
    BY <1>1, <1>13
    DEF LentOne, ThreadOne, InSetup, InCall, TypeOK, clientPCs, eventPCs,
      PendingInc, Goto, loopVars, threadVars, ringVars, streamVars
  <1>14. ASSUME NEW c \in Clients, SetupEnter(c)
        PROVE  LentOne'
    BY <1>1, <1>14
    DEF LentOne, ThreadOne, InSetup, InCall, TypeOK, clientPCs, eventPCs,
      SetupEnter, StartThread, Goto, loopVars, threadVars, ringVars, streamVars
  <1>15. ASSUME NEW c \in Clients, RingLock(c)
        PROVE  LentOne'
    BY <1>1, <1>15
    DEF LentOne, ThreadOne, InSetup, InCall, TypeOK, clientPCs, eventPCs,
      RingLock, Reallocate, KeepsRunning, Goto, loopVars, threadVars, ringVars,
      streamVars
  <1>16. ASSUME NEW c \in Clients, StreamStopped(c)
        PROVE  LentOne'
    BY <1>1, <1>16
    DEF LentOne, ThreadOne, InSetup, InCall, TypeOK, clientPCs, eventPCs,
      StreamStopped, Reallocate, Goto, loopVars, threadVars, ringVars,
      streamVars
  <1>17. ASSUME NEW c \in Clients, StreamStarted(c)
        PROVE  LentOne'
    BY <1>1, <1>17
    DEF LentOne, ThreadOne, InSetup, InCall, TypeOK, clientPCs, eventPCs,
      StreamStarted, Goto, loopVars, threadVars, ringVars, streamVars
  <1>18. ASSUME NEW c \in Clients, SetupUnlock(c)
        PROVE  LentOne'
    BY <1>1, <1>18
    DEF LentOne, ThreadOne, InSetup, InCall, TypeOK, clientPCs, eventPCs,
      SetupUnlock, Goto, loopVars, threadVars, ringVars, streamVars
  <1>19. ASSUME NEW c \in Clients, SetupDone(c)
        PROVE  LentOne'
    BY <1>1, <1>19
    DEF LentOne, ThreadOne, InSetup, InCall, TypeOK, clientPCs, eventPCs,
      SetupDone, PendingDec, Goto, loopVars, threadVars, ringVars, streamVars
  <1>20. ASSUME NEW c \in Clients, FailUnlock(c)
        PROVE  LentOne'
    BY <1>1, <1>20
    DEF LentOne, ThreadOne, InSetup, InCall, TypeOK, clientPCs, eventPCs,
      FailUnlock, Goto, loopVars, threadVars, ringVars, streamVars
  <1>21. ASSUME NEW c \in Clients, FailDone(c)
        PROVE  LentOne'
    BY <1>1, <1>21
    DEF LentOne, ThreadOne, InSetup, InCall, TypeOK, clientPCs, eventPCs,
      FailDone, PendingDec, Goto, loopVars, threadVars, ringVars, streamVars
  <1>22. ASSUME NEW c \in Clients, Join(c)
        PROVE  LentOne'
    BY <1>1, <1>22
    DEF LentOne, ThreadOne, InSetup, InCall, TypeOK, clientPCs, eventPCs, Join,
      Goto, loopVars, threadVars, ringVars, streamVars
  <1>23. ASSUME NEW c \in Clients, Get(c)
        PROVE  LentOne'
    BY <1>1, <1>23
    DEF LentOne, ThreadOne, InSetup, InCall, TypeOK, clientPCs, eventPCs, Get,
      Goto, loopVars, threadVars, ringVars, streamVars
  <1>e. ASSUME NEW e \in EventThreads, EventsFailed(e)
        PROVE  LentOne'
    BY <1>1, <1>e DEF LentOne, InCall, TypeOK, EventsFailed, Goto, loopVars,
      ringVars, streamVars
  <1>24. CASE UNCHANGED vars
    BY <1>24
    DEF LentOne, InCall, vars, threadVars, loopVars, ringVars, streamVars
  <1>25. QED
    BY <1>1, <1>2, <1>3, <1>4, <1>5, <1>6, <1>7, <1>8, <1>9, <1>10, <1>11,
      <1>12, <1>13, <1>14, <1>15, <1>16, <1>17, <1>18, <1>19, <1>20, <1>21,
      <1>22, <1>23, <1>24, <1>e
    DEF Next, ClientStep, EventStep

-----------------------------------------------------------------------------
\* The inductive invariant of one client
OneInv == IInv /\ ThreadOne /\ RingOne /\ FrameOne /\ LentOne

\* The wrapper before its first call
LEMMA InitOne == Init => ThreadOne /\ RingOne /\ FrameOne /\ LentOne
  <1> SUFFICES ASSUME Init PROVE ThreadOne /\ RingOne /\ FrameOne /\ LentOne
    OBVIOUS
  <1> USE Constants
  <1>1. /\ \A c \in Clients : pc[c] = "idle"
        /\ \A e \in EventThreads : pc[e] = "none"
    BY DEF Init
  <1>2. /\ \A r \in Rings : /\ bufs[r] = NoBufs /\ fmt[r] = NoFormat
                            /\ valid[r] = FALSE /\ lent[r] = FALSE
        /\ \A t \in Threads : cb[t] = NoRing
        /\ thread_running = FALSE
    BY DEF Init
  <1>3. ThreadOne
    BY <1>1, <1>2 DEF ThreadOne, InSetup
  <1>4. RingOne
    BY <1>1, <1>2 DEF RingOne, Settled
  <1>5. FrameOne
    BY <1>2 DEF FrameOne
  <1>6. LentOne
    BY <1>2 DEF LentOne
  <1>7. QED
    BY <1>3, <1>4, <1>5, <1>6

\* With one client the four facts are invariants: none of them is inductive
\* alone.  A frame is right because its ring is not freed while the client
\* is past the test, which is because nobody but the client can stop the
\* event thread.
THEOREM OneInductive ==
  ASSUME OneClient PROVE Spec => []OneInv
  <1>1. Init => OneInv
    BY InitInv, InitOne DEF OneInv
  <1>2. OneInv /\ IInv' /\ [Next]_vars => OneInv'
    BY ThreadStep, RingOneStep, FrameOneStep, LentOneStep, OneClient DEF OneInv
  <1>3. QED
    BY <1>1, <1>2, Inductive, PTL DEF Spec

\* A client comes to "idle" from elsewhere in three ways.
LEMMA BackToIdle ==
  ASSUME TypeOK, [Next]_vars, NEW c \in Clients, pc[c] # "idle", pc'[c] = "idle"
  PROVE  \/ /\ pc[c] = "get" /\ Get(c)
            /\ arg[c].ring[1] \in opened /\ valid[arg[c].ring]
         \/ pc[c] \in {"join", "stopjoin"} /\ Join(c)
         \/ pc[c] = "faildec"
  <1> USE Constants
  <1>1. ASSUME NEW e \in EventThreads, EventStep(e) \/ EventsFailed(e)
        PROVE  FALSE
    <2>1. CASE EventWaitZero(e) \/ EventLock(e) \/ EventsHandled(e)
                 \/ EventsFailed(e) \/ TearDone(e)
      <3>1. \E label \in eventPCs : pc' = [pc EXCEPT ![e] = label]
        BY <2>1 DEF EventWaitZero, EventLock, EventsHandled, EventsFailed,
                    TearDone, Goto, eventPCs
      <3>2. QED
        BY <3>1 DEF TypeOK
    <2>2. ASSUME NEW r \in Rings, TearStop(e, r) PROVE FALSE
      BY <2>2 DEF TearStop, threadVars
    <2>3. ASSUME NEW d \in Devices, TearFree(e, d) PROVE FALSE
      <3>1. pc' = [t \in Threads |-> IF pc[t] = "wait" /\ arg[t].ring[1] = d
                                     THEN "lost" ELSE pc[t]]
        BY <2>3 DEF TearFree
      <3>2. QED
        BY <3>1
    <2>4. QED
      BY <1>1, <2>1, <2>2, <2>3 DEF EventStep
  <1>2. \A t \in Threads, r \in Rings : ~FrameDone(t, r)
    BY DEF FrameDone
  <1>3. ASSUME NEW t \in Threads, NEW r \in Rings, ProducerCb(t, r) PROVE FALSE
    BY <1>3, SignalStep DEF ProducerCb
  <1>4. \A b \in Clients : ~(Call(b) \/ Stop(b) \/ Check(b) \/ PendingInc(b))
    BY DEF Call, Stop, Check, PendingInc, Goto, TypeOK
  <1>5. \A b \in Clients : ~SetupEnter(b)
    BY DEF SetupEnter, StartThread, Goto, TypeOK
  <1>6. ASSUME NEW b \in Clients,
               RingLock(b) \/ StreamStopped(b) \/ StreamStarted(b)
        PROVE  FALSE
    <2>1. \E label \in {"unlock", "stopping", "starting"} :
            pc' = [pc EXCEPT ![b] = label]
      BY <1>6 DEF RingLock, StreamStopped, StreamStarted, Reallocate, Goto
    <2>2. QED
      BY <2>1 DEF TypeOK
  <1>7. \A b \in Clients : ~(SetupUnlock(b) \/ FailUnlock(b))
    BY DEF SetupUnlock, FailUnlock, Goto, TypeOK
  <1>8. ASSUME NEW b \in Clients, SetupDone(b) PROVE FALSE
    <2>1. PendingDec(b, "get") /\ "get" \in clientPCs
      BY <1>8 DEF SetupDone, clientPCs
    <2>2. QED
      BY <2>1, DecStep
  <1>9. \A b \in Clients : FailDone(b) => b = c
    BY DEF FailDone, PendingDec, Goto, TypeOK
  <1>10. \A b \in Clients : Join(b) => b = c
    BY DEF Join, TypeOK
  <1>11. \A b \in Clients : Get(b) => b = c
    BY DEF Get, Goto, TypeOK
  <1>12. Get(c) \/ Join(c) \/ FailDone(c)
    BY <1>1, <1>2, <1>3, <1>4, <1>5, <1>6, <1>7, <1>8, <1>9, <1>10, <1>11
    DEF Next, ClientStep, vars, threadVars
  <1>13. QED
    BY <1>12 DEF Get, Join, FailDone, Goto, TypeOK

\* A get returns a frame in the format asked for, with that frame's own
\* timestamp, though both are kept beside the buffers and were tested and
\* published under different locks.
THEOREM GetRight ==
  ASSUME OneClient PROVE Spec => GetReturnsRequest
  <1>1. ASSUME OneInv, [Next]_vars, NEW c \in Clients, pc[c] = "get", pc'[c] = "idle"
        PROVE  LET r     == arg[c].ring
                   frame == mem'[r][bufs'[r][0]]
               IN frame.fmt = arg[c].fmt /\ frame.ts = timestamp[r]
    <2> DEFINE r == arg[c].ring
    <2>1. TypeOK /\ RingOne /\ FrameOne
      BY <1>1 DEF OneInv, IInv
    <2>2. Get(c) /\ r[1] \in opened /\ valid[r] /\ r \in Rings
      BY <1>1, <2>1, BackToIdle, Constants DEF TypeOK
    <2>3. bufs' = [bufs EXCEPT ![r] = Exchange(@, 0, 1)] /\ mem' = mem
      BY <2>2 DEF Get
    <2>4. Settled(c)
      BY <1>1 DEF Settled
    <2>5. fmt[r] = arg[c].fmt /\ bufs[r] # NoBufs
      BY <2>1, <2>2, <2>4, Constants DEF RingOne, TypeOK
    <2> HIDE DEF r
    <2>6. bufs[r] \in [Slots -> Slots] \cup {NoBufs} /\ bufs'[r] = Exchange(bufs[r], 0, 1)
      BY <2>1, <2>2, <2>3 DEF TypeOK
    <2>7. bufs'[r][0] = bufs[r][1]
      BY <2>5, <2>6, ExchangeSound, Constants
    <2>8. mem[r][bufs[r][1]].fmt = fmt[r] /\ mem[r][bufs[r][1]].ts = timestamp[r]
      BY <2>1, <2>2, <2>5 DEF FrameOne
    <2>9. mem'[r][bufs'[r][0]].fmt = arg[c].fmt /\ mem'[r][bufs'[r][0]].ts = timestamp[r]
      BY <2>3, <2>5, <2>7, <2>8
    <2>10. QED
      BY <2>9 DEF r
  <1>2. OneInv /\ [Next]_vars =>
          [\A c \in Clients :
             pc[c] = "get" /\ pc'[c] = "idle" =>
               LET r     == arg[c].ring
                   frame == mem'[r][bufs'[r][0]]
               IN frame.fmt = arg[c].fmt /\ frame.ts = timestamp[r]]_vars
    BY <1>1
  <1>3. QED
    BY <1>2, OneInductive, PTL DEF Spec, GetReturnsRequest

\* When freenect_sync_stop returns, or a failed first call, every device is
\* closed, every ring freed, every stream stopped and no event thread left.
THEOREM JoinRight ==
  ASSUME OneClient PROVE Spec => JoinReleasesAll
  <1>1. ASSUME OneInv, [Next]_vars, NEW c \in Clients,
               pc[c] \in {"join", "stopjoin"}, pc'[c] = "idle"
        PROVE  /\ opened = {} /\ ctx = "freed"
               /\ \A r \in Rings : bufs[r] = NoBufs /\ ~running[r]
               /\ \A e \in EventThreads : pc'[e] = "none"
    <2>1. TypeOK /\ OwnInv /\ ThreadOne /\ RingOne
      BY <1>1 DEF OneInv, IInv
    <2>2. PICK e \in EventThreads :
            /\ joinee[c] = e /\ pc[e] = "done"
            /\ pc' = [pc EXCEPT ![e] = "none", ![c] = "idle"]
      BY <1>1, <2>1, BackToIdle DEF Join
    <2>3. opened = {} /\ ctx = "freed" /\ e = thread
      BY <1>1, <2>1, <2>2 DEF ThreadOne
    <2>4. \A r \in Rings : bufs[r] = NoBufs
      BY <2>1, <2>3 DEF RingOne
    <2>5. \A r \in Rings : ~running[r]
      BY <2>1, <2>4 DEF OwnInv, DriverReady
    <2>6. \A f \in EventThreads : pc'[f] = "none"
      BY <2>1, <2>2, <2>3, Constants DEF TypeOK, ThreadOne
    <2>7. QED
      BY <2>3, <2>4, <2>5, <2>6
  <1>2. OneInv /\ [Next]_vars =>
          [\A c \in Clients :
             pc[c] \in {"join", "stopjoin"} /\ pc'[c] = "idle" =>
               /\ opened = {} /\ ctx = "freed"
               /\ \A r \in Rings : bufs[r] = NoBufs /\ ~running[r]
               /\ \A e \in EventThreads : pc'[e] = "none"]_vars
    BY <1>1
  <1>3. QED
    BY <1>2, OneInductive, PTL DEF Spec, JoinReleasesAll

-----------------------------------------------------------------------------
\* The refinement of FrameMailbox: the image of ring r
BoxOf(r)   == IF valid[r] /\ bufs[r] # NoBufs THEN mem[r][bufs[r][1]] ELSE Blank
TakenOf(r) == IF lent[r] /\ bufs[r] # NoBufs THEN mem[r][bufs[r][0]] ELSE Blank
NextOf(r)  == IF Publishing(r) = {} THEN clock[r]
              ELSE (clock[r] + NStamps - 1) % NStamps

\* Timestamps count modulo NStamps: the one before a timestamp's successor
\* is the timestamp.
LEMMA StampBack ==
  ASSUME NEW ts \in 0 .. NStamps - 1
  PROVE  /\ NextStamp(ts) \in 0 .. NStamps - 1
         /\ (NextStamp(ts) + NStamps - 1) % NStamps = ts
  <1>1. NStamps \in Nat \ {0}
    BY ConstantsAssumption
  <1>2. CASE ts + 1 < NStamps
    <2>1. NextStamp(ts) = ts + 1
      BY <1>1, <1>2 DEF NextStamp
    <2>2. NextStamp(ts) + NStamps - 1 = ts + NStamps /\ (ts + NStamps) % NStamps = ts
      BY <1>1, <2>1
    <2>3. QED
      BY <1>1, <1>2, <2>1, <2>2
  <1>3. CASE ts + 1 = NStamps
    <2>1. NextStamp(ts) = 0
      BY <1>1, <1>3 DEF NextStamp
    <2>2. QED
      BY <1>1, <1>3, <2>1
  <1>4. QED
    BY <1>1, <1>2, <1>3

\* A step that leaves what the mapping reads alone is a stutter.
LEMMA MailboxQuiet ==
  ASSUME UNCHANGED <<valid, bufs, mem, lent, cb, clock>>
  PROVE  UNCHANGED Mailbox!vars
  BY DEF Mailbox!vars, Publishing

\* What a step does to the images of the rings says which step of the
\* mailbox it is.
LEMMA MapsToStutter ==
  ASSUME \A q \in Rings : BoxOf(q)' = BoxOf(q) /\ TakenOf(q)' = TakenOf(q)
                          /\ NextOf(q)' = NextOf(q)
  PROVE  UNCHANGED Mailbox!vars
  BY DEF Mailbox!vars, BoxOf, TakenOf, NextOf

\* A frame appears in the box of one ring.
LEMMA MapsToDeliver ==
  ASSUME NEW r \in Rings, NEW f \in Formats,
         BoxOf(r)' = [fmt |-> f, ts |-> NextOf(r)],
         NextOf(r)' = (NextOf(r) + 1) % NStamps,
         \A q \in Rings : TakenOf(q)' = TakenOf(q),
         \A q \in Rings \ {r} : BoxOf(q)' = BoxOf(q) /\ NextOf(q)' = NextOf(q)
  PROVE  Mailbox!Next
  <1> DEFINE box == [q \in Rings |-> BoxOf(q)]
             taken == [q \in Rings |-> TakenOf(q)]
             next == [q \in Rings |-> NextOf(q)]
  <1>1. Mailbox!Deliver(r)
    <2>1. box' = [box EXCEPT ![r] = [fmt |-> f, ts |-> next[r]]]
      OBVIOUS
    <2>2. next' = [next EXCEPT ![r] = (@ + 1) % NStamps]
      OBVIOUS
    <2>3. taken' = taken
      OBVIOUS
    <2>4. QED
      BY <2>1, <2>2, <2>3 DEF Mailbox!Deliver, BoxOf, TakenOf, NextOf
  <1>2. QED
    BY <1>1 DEF Mailbox!Next

\* The frame in the box of one ring is taken.
LEMMA MapsToTake ==
  ASSUME NEW r \in Rings, BoxOf(r) # Blank, TakenOf(r)' = BoxOf(r), BoxOf(r)' = Blank,
         \A q \in Rings : NextOf(q)' = NextOf(q),
         \A q \in Rings \ {r} : BoxOf(q)' = BoxOf(q) /\ TakenOf(q)' = TakenOf(q)
  PROVE  Mailbox!Next
  <1>1. Mailbox!Take(r)
    BY DEF Mailbox!Take, BoxOf, TakenOf, NextOf
  <1>2. QED
    BY <1>1 DEF Mailbox!Next

\* Frames that were taken are given back.
LEMMA MapsToReturn ==
  ASSUME NEW S \in SUBSET Rings,
         \A q \in Rings : TakenOf(q)' = IF q \in S THEN Blank ELSE TakenOf(q),
         \A q \in Rings : BoxOf(q)' = BoxOf(q) /\ NextOf(q)' = NextOf(q)
  PROVE  Mailbox!Next
  <1>1. Mailbox!Return(S)
    BY DEF Mailbox!Return, BoxOf, TakenOf, NextOf
  <1>2. QED
    BY <1>1 DEF Mailbox!Next

\* The boxes of rings nobody holds a frame of are emptied.
LEMMA MapsToReset ==
  ASSUME NEW S \in SUBSET Rings,
         \A q \in S : TakenOf(q) = Blank,
         \A q \in Rings : BoxOf(q)' = IF q \in S THEN Blank ELSE BoxOf(q),
         \A q \in Rings : TakenOf(q)' = TakenOf(q) /\ NextOf(q)' = NextOf(q)
  PROVE  Mailbox!Next
  <1>1. Mailbox!Reset(S)
    BY DEF Mailbox!Reset, BoxOf, TakenOf, NextOf
  <1>2. QED
    BY <1>1 DEF Mailbox!Next

\* A frame done is a frame of the ring's format with the stamp before clock.
LEMMA FrameDoneMaps ==
  ASSUME OneInv, NEW t \in Threads, NEW r \in Rings, FrameDone(t, r)
  PROVE  UNCHANGED Mailbox!vars
  <1> USE Constants
  <1>1. TypeOK /\ LoopInv /\ OwnInv /\ CbInv
    BY DEF OneInv, IInv
  <1>2. /\ Pumping(t) /\ cb[t] = NoRing /\ running[r]
        /\ mem' = [mem EXCEPT ![r][proc[r]] = [fmt |-> fmt[r], ts |-> clock[r]]]
        /\ clock' = [clock EXCEPT ![r] = NextStamp(@)]
        /\ cb' = [cb EXCEPT ![t] = r]
        /\ UNCHANGED <<bufs, valid, lent>>
    BY DEF FrameDone
  <1>3. \A u \in Threads : cb[u] = NoRing
    <2>1. HoldsRunloop(t)
      BY <1>2 DEF Pumping, HoldsRunloop
    <2>2. QED
      BY <1>2, <2>1, NobodyInCallback DEF OneInv
  <1>4. /\ bufs[r] # NoBufs /\ bufs[r] \in [Slots -> Slots] /\ proc[r] \in Slots
        /\ proc[r] # bufs[r][0] /\ proc[r] # bufs[r][1]
    BY <1>1, <1>2 DEF OwnInv, DriverReady, TypeOK
  <1>5. mem[r] \in [Slots -> Frames \cup {Blank}] /\ clock[r] \in 0 .. NStamps - 1
    BY <1>1 DEF TypeOK
  <1>6. /\ \A i \in Slots \ {proc[r]} : mem'[r][i] = mem[r][i]
        /\ \A q \in Rings \ {r} : mem'[q] = mem[q] /\ clock'[q] = clock[q]
        /\ clock'[r] = NextStamp(clock[r])
    BY <1>1, <1>2, <1>4, <1>5 DEF TypeOK
  <1>7. BoxOf(r)' = BoxOf(r) /\ TakenOf(r)' = TakenOf(r)
    BY <1>2, <1>4, <1>6 DEF BoxOf, TakenOf
  <1>8. \A q \in Rings : Publishing(q) = {}
    BY <1>3 DEF Publishing
  <1>9. /\ Publishing(r)' # {} /\ \A q \in Rings \ {r} : Publishing(q)' = {}
    BY <1>1, <1>2, <1>3 DEF Publishing, TypeOK
  <1>10. NextOf(r) = clock[r] /\ NextOf(r)' = (NextStamp(clock[r]) + NStamps - 1) % NStamps
    BY <1>6, <1>8, <1>9 DEF NextOf
  <1>11. NextOf(r)' = NextOf(r)
    BY <1>5, <1>10, StampBack
  <1>12. \A q \in Rings \ {r} : /\ BoxOf(q)' = BoxOf(q) /\ TakenOf(q)' = TakenOf(q)
                                /\ NextOf(q)' = NextOf(q)
    BY <1>2, <1>6, <1>8, <1>9 DEF BoxOf, TakenOf, NextOf
  <1>13. QED
    BY <1>7, <1>11, <1>12, MapsToStutter

\* The producer callback delivers the frame that was done.
LEMMA ProducerMaps ==
  ASSUME OneInv, NEW t \in Threads, NEW r \in Rings, ProducerCb(t, r)
  PROVE  Mailbox!Next
  <1> USE Constants
  <1>1. TypeOK /\ LoopInv /\ OwnInv /\ CbInv /\ FrameOne
    BY DEF OneInv, IInv
  <1>2. /\ cb[t] = r /\ cb' = [cb EXCEPT ![t] = NoRing]
        /\ bufs' = [bufs EXCEPT ![r] = Exchange(@, 1, 2)]
        /\ valid' = [valid EXCEPT ![r] = TRUE]
        /\ UNCHANGED <<mem, clock, lent>>
    BY DEF ProducerCb
  <1>3. /\ \A u \in Threads : cb'[u] = NoRing
        /\ \A u \in Threads : u # t => cb[u] = NoRing
    <2>1. HoldsRunloop(t)
      BY <1>1, <1>2 DEF CbInv, Pumping, HoldsRunloop
    <2>2. \A u \in Threads : cb[u] # NoRing => u = t
      BY <1>1, <2>1, OnlyPumper
    <2>3. QED
      BY <1>1, <1>2, <2>2 DEF TypeOK
  <1>4. /\ bufs[r] # NoBufs /\ bufs[r] \in [Slots -> Slots] \cup {NoBufs}
        /\ proc[r] = bufs[r][2] /\ proc[r] \in Slots
    BY <1>1, <1>2 DEF CbInv, OwnInv, DriverReady, TypeOK
  <1> DEFINE f == mem[r][proc[r]]
  <1>5. f \in Frames /\ NextStamp(f.ts) = clock[r]
    <2>1. mem[r] \in [Slots -> Frames \cup {Blank}] /\ f # Blank
      BY <1>1, <1>2 DEF CbInv, TypeOK
    <2>2. QED
      BY <1>1, <1>2, <1>4, <2>1 DEF FrameOne
  <1> HIDE DEF f
  <1>6. f.fmt \in Formats /\ f.ts \in 0 .. NStamps - 1 /\ f = [fmt |-> f.fmt, ts |-> f.ts]
    BY <1>5 DEF Frames
  <1>7. /\ bufs'[r] = Exchange(bufs[r], 1, 2) /\ valid'[r] = TRUE
        /\ \A q \in Rings \ {r} : bufs'[q] = bufs[q] /\ valid'[q] = valid[q]
    BY <1>1, <1>2 DEF TypeOK
  <1>8. bufs'[r] # NoBufs /\ bufs'[r][1] = proc[r] /\ bufs'[r][0] = bufs[r][0]
    BY <1>4, <1>7, ExchangeSound
  <1>9. BoxOf(r)' = f /\ TakenOf(r)' = TakenOf(r)
    BY <1>2, <1>4, <1>7, <1>8 DEF BoxOf, TakenOf, f
  <1>10. NextOf(r) = f.ts
    <2>1. Publishing(r) # {}
      BY <1>2 DEF Publishing
    <2>2. NextOf(r) = (NextStamp(f.ts) + NStamps - 1) % NStamps
      BY <1>5, <2>1 DEF NextOf
    <2>3. QED
      BY <1>6, <2>2, StampBack
  <1>11. NextOf(r)' = (NextOf(r) + 1) % NStamps
    <2>1. Publishing(r)' = {}
      BY <1>3 DEF Publishing
    <2>2. NextOf(r)' = NextStamp(f.ts)
      BY <1>2, <1>5, <2>1 DEF NextOf
    <2>3. QED
      BY <1>10, <2>2 DEF NextStamp
  <1>12. \A q \in Rings \ {r} : /\ BoxOf(q)' = BoxOf(q) /\ TakenOf(q)' = TakenOf(q)
                                /\ NextOf(q)' = NextOf(q)
    <2>1. \A q \in Rings \ {r} : Publishing(q) = {} /\ Publishing(q)' = {}
      BY <1>2, <1>3 DEF Publishing
    <2>2. QED
      BY <1>2, <1>7, <2>1 DEF BoxOf, TakenOf, NextOf
  <1>13. BoxOf(r)' = [fmt |-> f.fmt, ts |-> NextOf(r)]
    BY <1>6, <1>9, <1>10
  <1>14. \A q \in Rings : TakenOf(q)' = TakenOf(q)
    BY <1>9, <1>12
  <1>15. QED
    BY <1>6, <1>11, <1>12, <1>13, <1>14, MapsToDeliver

\* A get that returns takes the frame from the box.
LEMMA GetMaps ==
  ASSUME OneInv, NEW c \in Clients, Get(c)
  PROVE  [Mailbox!Next]_(Mailbox!vars)
  <1> USE Constants
  <1>r. PICK r \in Rings : r = arg[c].ring
    BY DEF OneInv, IInv, TypeOK
  <1>1. /\ TypeOK /\ RingOne /\ FrameOne /\ pc[c] = "get"
        /\ UNCHANGED <<mem, cb, clock>>
    BY DEF OneInv, IInv, Get, streamVars
  <1>2. CASE r[1] \in opened /\ valid[r]
    <2>1. /\ bufs' = [bufs EXCEPT ![r] = Exchange(@, 0, 1)]
          /\ valid' = [valid EXCEPT ![r] = FALSE]
          /\ lent' = [lent EXCEPT ![r] = TRUE]
      BY <1>r, <1>2 DEF Get
    <2>2. bufs[r] # NoBufs
      BY <1>r, <1>1, <1>2 DEF RingOne, Settled, TypeOK
    <2>3. /\ bufs[r] \in [Slots -> Slots] \cup {NoBufs}
          /\ bufs'[r] = Exchange(bufs[r], 0, 1) /\ valid'[r] = FALSE /\ lent'[r] = TRUE
          /\ \A q \in Rings \ {r} : /\ bufs'[q] = bufs[q] /\ valid'[q] = valid[q]
                                    /\ lent'[q] = lent[q]
      BY <1>1, <2>1 DEF TypeOK
    <2>4. bufs'[r] # NoBufs /\ bufs'[r][0] = bufs[r][1]
      BY <2>2, <2>3, ExchangeSound
    <2>5. BoxOf(r) = mem[r][bufs[r][1]] /\ BoxOf(r) # Blank
      BY <1>1, <1>2, <2>2 DEF BoxOf, FrameOne
    <2>6. BoxOf(r)' = Blank /\ TakenOf(r)' = mem[r][bufs[r][1]]
      BY <1>1, <2>3, <2>4 DEF BoxOf, TakenOf
    <2>7. \A q \in Rings : NextOf(q)' = NextOf(q)
      BY <1>1 DEF NextOf, Publishing
    <2>8. \A q \in Rings \ {r} : BoxOf(q)' = BoxOf(q) /\ TakenOf(q)' = TakenOf(q)
      BY <1>1, <2>3 DEF BoxOf, TakenOf
    <2>9. QED
      BY <1>1, <2>5, <2>6, <2>7, <2>8, MapsToTake
  <1>3. CASE ~(r[1] \in opened /\ valid[r])
    <2>1. UNCHANGED <<valid, bufs, lent>>
      BY <1>r, <1>3 DEF Get
    <2>2. QED
      BY <1>1, <2>1, MailboxQuiet
  <1>4. QED
    BY <1>2, <1>3

\* The next call gives back the frame of its ring, a stop those of all.
LEMMA CallMaps ==
  ASSUME OneInv, NEW c \in Clients, Call(c) \/ Stop(c)
  PROVE  Mailbox!Next
  <1> USE Constants
  <1>1. UNCHANGED <<valid, bufs, mem, cb, clock>>
    BY DEF Call, Stop, ringVars, streamVars
  <1>2. \E S \in SUBSET Rings :
          \A q \in Rings : lent'[q] = IF q \in S THEN FALSE ELSE lent[q]
    <2>1. CASE Stop(c)
      <3>1. lent' = [r \in Rings |-> FALSE]
        BY <2>1 DEF Stop
      <3>2. Rings \in SUBSET Rings
        OBVIOUS
      <3>3. QED
        BY <3>1, <3>2
    <2>2. CASE Call(c)
      <3>1. PICK q \in Requests : lent' = [lent EXCEPT ![q.ring] = FALSE]
        BY <2>2 DEF Call
      <3>2. {q.ring} \in SUBSET Rings
        OBVIOUS
      <3>3. \A p \in Rings : lent'[p] = IF p \in {q.ring} THEN FALSE ELSE lent[p]
        BY <3>1 DEF OneInv, IInv, TypeOK
      <3>4. QED
        BY <3>2, <3>3
    <2>3. QED
      BY <2>1, <2>2
  <1>3. PICK S \in SUBSET Rings :
          \A q \in Rings : lent'[q] = IF q \in S THEN FALSE ELSE lent[q]
    BY <1>2
  <1>4. \A q \in Rings : TakenOf(q)' = IF q \in S THEN Blank ELSE TakenOf(q)
    BY <1>1, <1>3 DEF TakenOf
  <1>5. \A q \in Rings : BoxOf(q)' = BoxOf(q) /\ NextOf(q)' = NextOf(q)
    BY <1>1 DEF BoxOf, NextOf, Publishing
  <1>6. QED
    BY <1>4, <1>5, MapsToReturn

\* A ring is allocated anew while nobody uses a frame of it.
LEMMA ReallocateMaps ==
  ASSUME OneInv, NEW c \in Clients, InCall(c), Reallocate(c, arg[c].ring),
         UNCHANGED <<cb, clock, lent>>
  PROVE  Mailbox!Next
  <1> USE Constants
  <1>r. PICK r \in Rings : r = arg[c].ring
    BY DEF OneInv, IInv, TypeOK
  <1>1. TypeOK /\ LentOne /\ Reallocate(c, r)
    BY <1>r DEF OneInv, IInv
  <1>2. ~lent[r]
    BY <1>r, <1>1 DEF LentOne
  <1>a. Reallocated(c, r)
    BY <1>1, ReallocateRing
  <1>3. /\ valid'[r] = FALSE
        /\ \A q \in Rings \ {r} : bufs'[q] = bufs[q] /\ fmt'[q] = fmt[q]
        /\ \A q \in Rings \ {r} : valid'[q] = valid[q]
    BY <1>a DEF Reallocated
  <1>4. \A q \in Rings \ {r} : mem'[q] = mem[q]
    BY <1>a DEF Reallocated
  <1>5. TakenOf(r) = Blank /\ TakenOf(r)' = Blank /\ BoxOf(r)' = Blank
    BY <1>2, <1>3 DEF TakenOf, BoxOf
  <1>6. \A q \in Rings \ {r} : BoxOf(q)' = BoxOf(q) /\ TakenOf(q)' = TakenOf(q)
    BY <1>3, <1>4 DEF TakenOf, BoxOf
  <1>7. \A q \in Rings : NextOf(q)' = NextOf(q)
    BY DEF NextOf, Publishing
  <1>8. {r} \in SUBSET Rings
    OBVIOUS
  <1>9. /\ \A q \in {r} : TakenOf(q) = Blank
        /\ \A q \in Rings : BoxOf(q)' = IF q \in {r} THEN Blank ELSE BoxOf(q)
        /\ \A q \in Rings : TakenOf(q)' = TakenOf(q) /\ NextOf(q)' = NextOf(q)
    BY <1>5, <1>6, <1>7
  <1>10. QED
    BY <1>8, <1>9, MapsToReset

\* Rings are freed while nobody uses a frame at all.
LEMMA TearFreeMaps ==
  ASSUME ~EventsMayFail, OneInv, NEW e \in EventThreads, NEW d \in Devices, TearFree(e, d)
  PROVE  Mailbox!Next
  <1> USE Constants
  <1>1. ThreadOne /\ LentOne /\ pc[e] = "tear"
    BY DEF OneInv, TearFree
  <1>2. \A q \in Rings : ~lent[q]
    BY <1>1 DEF ThreadOne, LentOne
  <1>3. /\ \A q \in Rings :
             IF q[1] = d THEN bufs'[q] = NoBufs
             ELSE bufs'[q] = bufs[q] /\ valid'[q] = valid[q] /\ mem'[q] = mem[q]
        /\ UNCHANGED <<cb, clock, lent>>
    BY DEF TearFree, streamVars
  <1> DEFINE S == {q \in Rings : q[1] = d}
  <1>4. S \in SUBSET Rings /\ \A q \in Rings : q \in S <=> q[1] = d
    OBVIOUS
  <1> HIDE DEF S
  <1>5. \A q \in Rings : TakenOf(q) = Blank /\ TakenOf(q)' = Blank
    BY <1>2, <1>3 DEF TakenOf
  <1>6. \A q \in Rings : BoxOf(q)' = IF q \in S THEN Blank ELSE BoxOf(q)
    BY <1>3, <1>4 DEF BoxOf
  <1>7. \A q \in Rings : NextOf(q)' = NextOf(q)
    BY <1>3 DEF NextOf, Publishing
  <1>8. /\ \A q \in S : TakenOf(q) = Blank
        /\ \A q \in Rings : TakenOf(q)' = TakenOf(q) /\ NextOf(q)' = NextOf(q)
    BY <1>4, <1>5, <1>7
  <1>9. QED
    BY <1>4, <1>6, <1>8, MapsToReset

\* Opening a device says nothing of its rings, which are not allocated yet.
LEMMA SetupMaps ==
  ASSUME OneInv, NEW c \in Clients, SetupEnter(c)
  PROVE  UNCHANGED Mailbox!vars
  <1>1. /\ \A r \in Rings : r[1] \in opened => valid'[r] = valid[r]
        /\ UNCHANGED <<cb, bufs, mem, clock, lent>>
    BY DEF SetupEnter, streamVars, OneInv, IInv, TypeOK
  <1>2. \A r \in Rings : bufs[r] # NoBufs => r[1] \in opened
    BY DEF OneInv, RingOne
  <1>3. \A q \in Rings : /\ BoxOf(q)' = BoxOf(q) /\ TakenOf(q)' = TakenOf(q)
                         /\ NextOf(q)' = NextOf(q)
    BY <1>1, <1>2 DEF BoxOf, TakenOf, NextOf, Publishing
  <1>4. QED
    BY <1>3, MapsToStutter

\* Every step of the wrapper is a step of the mailbox or changes nothing
\* of it.
LEMMA MailboxStep ==
  ASSUME ~EventsMayFail, OneInv, [Next]_vars
  PROVE  [Mailbox!Next]_(Mailbox!vars)
  <1>1. ASSUME NEW t \in Threads, NEW r \in Rings, FrameDone(t, r) \/ ProducerCb(t, r)
        PROVE  [Mailbox!Next]_(Mailbox!vars)
    BY <1>1, FrameDoneMaps, ProducerMaps
  <1>2. ASSUME NEW e \in EventThreads, EventStep(e)
        PROVE  [Mailbox!Next]_(Mailbox!vars)
    <2>1. ASSUME NEW d \in Devices, TearFree(e, d)
          PROVE  [Mailbox!Next]_(Mailbox!vars)
      BY <2>1, TearFreeMaps
    <2>2. CASE \/ EventWaitZero(e) \/ EventLock(e) \/ EventsHandled(e)
               \/ TearDone(e) \/ \E r \in Rings : TearStop(e, r)
      BY <2>2, MailboxQuiet
      DEF EventWaitZero, EventLock, EventsHandled, TearDone, TearStop,
          ringVars, streamVars, threadVars
    <2>3. QED
      BY <1>2, <2>1, <2>2 DEF EventStep
  <1>3. ASSUME NEW c \in Clients, RingLock(c) \/ StreamStopped(c)
        PROVE  [Mailbox!Next]_(Mailbox!vars)
    <2>1. /\ InCall(c) /\ UNCHANGED <<cb, clock, lent>>
          /\ \/ Reallocate(c, arg[c].ring)
             \/ UNCHANGED <<valid, bufs, mem>>
      BY <1>3 DEF RingLock, StreamStopped, InCall
    <2>2. QED
      BY <2>1, ReallocateMaps, MailboxQuiet
  <1>4. ASSUME NEW c \in Clients,
               \/ Check(c) \/ PendingInc(c) \/ StreamStarted(c)
               \/ SetupUnlock(c) \/ SetupDone(c)
               \/ FailUnlock(c) \/ FailDone(c) \/ Join(c)
        PROVE  [Mailbox!Next]_(Mailbox!vars)
    BY <1>4, MailboxQuiet
    DEF Check, PendingInc, StreamStarted, SetupUnlock, SetupDone,
        FailUnlock, FailDone, Join, ringVars, streamVars
  <1>5. ASSUME NEW c \in Clients, Call(c) \/ Stop(c) \/ SetupEnter(c) \/ Get(c)
        PROVE  [Mailbox!Next]_(Mailbox!vars)
    BY <1>5, CallMaps, SetupMaps, GetMaps
  <1>6. CASE UNCHANGED vars
    BY <1>6, MailboxQuiet DEF vars, threadVars, ringVars, streamVars
  <1>7. QED
    BY <1>1, <1>2, <1>3, <1>4, <1>5, <1>6
    DEF Next, ClientStep, EventsFailed

\* The wrapper implements the mailbox: every frame a client gets is the
\* newest complete one, none is handed out twice, and the frame it holds
\* stays as it was until its next call.
THEOREM Refinement ==
  ASSUME OneClient, ~EventsMayFail PROVE Spec => MailboxSpec
  <1>1. Init => Mailbox!Init
    <2>1. ASSUME Init PROVE Mailbox!Init
      <3>1. /\ \A q \in Rings : lent[q] = FALSE /\ valid[q] = FALSE /\ clock[q] = 0
            /\ \A q \in Rings : Publishing(q) = {}
        BY <2>1, Constants DEF Init, Publishing
      <3>2. QED
        BY <3>1 DEF Mailbox!Init
    <2>2. QED
      BY <2>1
  <1>2. OneInv /\ [Next]_vars => [Mailbox!Next]_(Mailbox!vars)
    BY MailboxStep
  <1>3. QED
    BY <1>1, <1>2, OneInductive, PTL DEF Spec, MailboxSpec, Mailbox!Spec
=============================================================================
