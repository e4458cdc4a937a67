---------------------------- MODULE LibusbProofs ----------------------------
(***************************************************************************)
(* libusb: the handling of events in a context (LibusbEvents), and the     *)
(* contexts, device objects and handles (UsbDevices).                      *)
(***************************************************************************)
EXTENDS LibusbEvents, UsbDevices, QueueLemmas

(***************************************************************************)
(* Event handling of a context, for any number of threads, handles and     *)
(* calls and any of the setups: what is counted, what is polled, and that  *)
(* no sleeper is forgotten.                                                *)
(***************************************************************************)
Labels ==
  {"idle", "loop", "try", "trylock", "waiters", "collect", "poll", "release",
   "handle", "tell", "wake", "check", "asleep", "relock", "notify", "write",
   "lock"}

\* Where a thread is while it holds the events lock
Handling(h) == pc[h] \in {"collect", "poll", "handle", "tell", "release"}

\* The ranges of the variables, but for the two that are counted
TypeInv ==
  /\ setup \in Setups
  /\ pc \in [Threads -> Labels]
  /\ op \in [Threads -> {"none", "transfer", "open", "close"}]
  /\ xfer \in [Threads -> {"none", "flying", "ready", "completed"}]
  /\ cancelled \in [Threads -> BOOLEAN] /\ failed \in [Threads -> BOOLEAN]
  /\ polled \in [Threads -> SUBSET Handles] /\ todo \in [Threads -> SUBSET Threads]
  /\ events_lock \in Threads \cup {NoThread} /\ waiters_lock \in Threads \cup {NoThread}
  /\ event_handler_active \in BOOLEAN
  /\ queue \in [waiters : SUBSET Threads, signalled : SUBSET Threads]
  /\ pollfds \subseteq Handles /\ open_devs \subseteq pollfds
  /\ fails \in Nat

\* The events lock is held by the thread that is where it is needed, and
\* event_handler_active says whether it is.
HandlerInv ==
  /\ \A h \in Threads : Handling(h) <=> events_lock = h
  /\ event_handler_active <=> events_lock # NoThread

\* A sleeping thread is signalled or waits to be.
QueueInv == \A h \in Threads : At(h, "asleep") => h \in queue.waiters \cup queue.signalled

-----------------------------------------------------------------------------
\* The program before its first call
LEMMA InitTypes == Init => TypeInv /\ HandlerInv /\ QueueInv
  <1> SUFFICES ASSUME Init PROVE TypeInv /\ HandlerInv /\ QueueInv
    OBVIOUS
  <1>1. pollfds \subseteq Handles /\ open_devs \subseteq pollfds
    <2>1. \A h \in Threads : Uses[h] \subseteq Handles
      BY EventAssumption
    <2>2. QED
      BY <2>1 DEF Init
  <1>2. TypeInv
    BY <1>1, EventAssumption DEF Init, TypeInv, Labels, Queue!Empty
  <1>3. HandlerInv /\ QueueInv
    BY EventAssumption DEF Init, HandlerInv, QueueInv, Handling, At
  <1>4. QED
    BY <1>2, <1>3

\* Broadcasting, entering, waking and leaving keep the queue well typed.
LEMMA QueueTypes ==
  ASSUME TypeInv, NEW h \in Threads, NEW w
  PROVE  LET Q == [waiters : SUBSET Threads, signalled : SUBSET Threads]
         IN /\ Queue!Broadcast(queue, w) \in Q
            /\ Queue!Enter(queue, h) \in Q
            /\ Queue!Awake(queue, h, w) \in Q
            /\ Queue!Leave(queue, h) \in Q
  BY DEF TypeInv, Queue!Broadcast, Queue!Enter, Queue!Awake, Queue!Leave

\* Every step keeps the variables in their ranges.
LEMMA TypeStep == TypeInv /\ [Next]_vars => TypeInv'
  <1> SUFFICES ASSUME TypeInv, [Next]_vars PROVE TypeInv'
    OBVIOUS
  <1> USE EventAssumption DEF Goto, At, OnlyCtx, ctxVars, callVars
  <1>1. ASSUME NEW h \in Threads, LoopControl(h)
        PROVE  TypeInv'
    <2>1. /\ pc' \in [Threads -> Labels] /\ op' \in [Threads -> {"none", "transfer", "open", "close"}]
          /\ xfer' \in [Threads -> {"none", "flying", "ready", "completed"}]
          /\ cancelled' \in [Threads -> BOOLEAN]
      <3>1. pc' \in [Threads -> Labels]
        BY <1>1 DEF TypeInv, Labels, LoopControl
      <3>2. op' \in [Threads -> {"none", "transfer", "open", "close"}]
        BY <1>1 DEF TypeInv, LoopControl
      <3>3. xfer' \in [Threads -> {"none", "flying", "ready", "completed"}]
        BY <1>1 DEF TypeInv, LoopControl
      <3>4. cancelled' \in [Threads -> BOOLEAN]
        BY <1>1 DEF TypeInv, LoopControl
      <3>5. QED
        BY <3>1, <3>2, <3>3, <3>4
    <2>2. QED
      BY <1>1, <2>1 DEF TypeInv, LoopControl
  <1>2. ASSUME NEW h \in Threads, TryModify(h)
        PROVE  TypeInv'
    BY <1>2 DEF TypeInv, Labels, TryModify
  <1>3. ASSUME NEW h \in Threads, TryLock(h)
        PROVE  TypeInv'
    BY <1>3 DEF TypeInv, Labels, TryLock
  <1>4. ASSUME NEW h \in Threads, Collect(h)
        PROVE  TypeInv'
    BY <1>4 DEF TypeInv, Labels, Collect
  <1>5. ASSUME NEW h \in Threads, Poll(h)
        PROVE  TypeInv'
    BY <1>5 DEF TypeInv, Labels, Poll, Ready
  <1>6. ASSUME NEW h \in Threads, HandleOne(h)
        PROVE  TypeInv'
    BY <1>6 DEF TypeInv, Labels, HandleOne
  <1>7. ASSUME NEW h \in Threads, Tell(h)
        PROVE  TypeInv'
    BY <1>7, QueueTypes DEF TypeInv, Labels, Tell
  <1>8. ASSUME NEW h \in Threads, UnlockEvents(h)
        PROVE  TypeInv'
    BY <1>8 DEF TypeInv, Labels, UnlockEvents, Unlocked
  <1>9. ASSUME NEW h \in Threads, Wake(h)
        PROVE  TypeInv'
    <2>1. queue' \in [waiters : SUBSET Threads, signalled : SUBSET Threads]
      BY <1>9, QueueTypes DEF Wake
    <2>2. pc' \in [Threads -> Labels]
      BY <1>9 DEF TypeInv, Labels, Wake, HandledEvents
    <2>3. op' \in [Threads -> {"none", "transfer", "open", "close"}]
      BY <1>9 DEF TypeInv, Wake, HandledEvents
    <2>4. cancelled' \in [Threads -> BOOLEAN] /\ failed' \in [Threads -> BOOLEAN]
      BY <1>9 DEF TypeInv, Wake, HandledEvents
    <2>5. QED
      BY <1>9, <2>1, <2>2, <2>3, <2>4 DEF TypeInv, Wake
  <1>10. ASSUME NEW h \in Threads, LockWaiters(h)
        PROVE  TypeInv'
    BY <1>10 DEF TypeInv, Labels, LockWaiters
  <1>11. ASSUME NEW h \in Threads, CheckActive(h)
        PROVE  TypeInv'
    <2>1. queue' \in [waiters : SUBSET Threads, signalled : SUBSET Threads]
      <3>1. queue' \in {queue, Queue!Enter(queue, h)}
        BY <1>11 DEF CheckActive
      <3>2. queue \in [waiters : SUBSET Threads, signalled : SUBSET Threads]
            /\ Queue!Enter(queue, h) \in [waiters : SUBSET Threads, signalled : SUBSET Threads]
        BY DEF TypeInv, Queue!Enter
      <3>3. QED
        BY <3>1, <3>2
    <2>2. pc' \in [Threads -> Labels]
      BY <1>11 DEF TypeInv, Labels, CheckActive
    <2>3. QED
      BY <1>11, <2>1, <2>2 DEF TypeInv, CheckActive
  <1>12. ASSUME NEW h \in Threads, Relock(h)
        PROVE  TypeInv'
    BY <1>12, QueueTypes DEF TypeInv, Labels, Relock
  <1>13. ASSUME NEW h \in Threads, Modify(h)
        PROVE  TypeInv'
    BY <1>13 DEF TypeInv, Labels, Modify
  <1>14. ASSUME NEW h \in Threads, Write(h)
        PROVE  TypeInv'
    BY <1>14 DEF TypeInv, Labels, Write, DoClose
  <1>15. ASSUME NEW h \in Threads, LockEvents(h)
        PROVE  TypeInv'
    BY <1>15 DEF TypeInv, Labels, LockEvents, DoClose, Unmodify
  <1>16. ASSUME NEW h \in Threads, Wakens(h)
        PROVE  TypeInv'
    BY <1>16, QueueTypes DEF TypeInv, Labels, Wakens
  <1>17. ASSUME NEW h \in Threads, PollEnds(h)
        PROVE  TypeInv'
    BY <1>17 DEF TypeInv, Labels, PollEnds
  <1>18. ASSUME NEW h \in Threads, PollFails(h)
        PROVE  TypeInv'
    BY <1>18 DEF TypeInv, Labels, PollFails
  <1>19. ASSUME NEW h \in Threads, Serve(h)
        PROVE  TypeInv'
    BY <1>19 DEF TypeInv, Labels, Serve
  <1>20. ASSUME NEW h \in Threads, NEW d \in Handles, StartControl(h, d)
        PROVE  TypeInv'
    BY <1>20 DEF TypeInv, Labels, StartControl, Calls
  <1>21. ASSUME NEW h \in Threads, NEW d \in Handles, Open(h, d)
        PROVE  TypeInv'
    BY <1>21 DEF TypeInv, Labels, Open, Calls
  <1>22. ASSUME NEW h \in Threads, NEW d \in Handles, Close(h, d)
        PROVE  TypeInv'
    BY <1>22 DEF TypeInv, Labels, Close, Calls
  <1>23. CASE UNCHANGED vars
    BY <1>23 DEF TypeInv, vars
  <1>24. QED
    BY <1>1, <1>2, <1>3, <1>4, <1>5, <1>6, <1>7, <1>8, <1>9, <1>10, <1>11, <1>12, <1>13, <1>14, <1>15, <1>16, <1>17, <1>18, <1>19, <1>20, <1>21, <1>22, <1>23 DEF Next, Step, Woken, Overslept

\* Every step keeps HandlerInv.
LEMMA HandlerStep ==
  TypeInv /\ HandlerInv /\ [Next]_vars => HandlerInv'
  <1> SUFFICES ASSUME TypeInv, HandlerInv, [Next]_vars
               PROVE  HandlerInv'
    OBVIOUS
  <1> USE EventAssumption DEF Goto, At, OnlyCtx, ctxVars, callVars
  <1>1. ASSUME NEW h \in Threads, LoopControl(h)
        PROVE  HandlerInv'
    BY <1>1 DEF TypeInv, HandlerInv, Handling, LoopControl, Completed
  <1>2. ASSUME NEW h \in Threads, TryModify(h)
        PROVE  HandlerInv'
    BY <1>2 DEF TypeInv, HandlerInv, Handling, TryModify
  <1>3. ASSUME NEW h \in Threads, TryLock(h)
        PROVE  HandlerInv'
    BY <1>3 DEF TypeInv, HandlerInv, Handling, TryLock
  <1>4. ASSUME NEW h \in Threads, Collect(h)
        PROVE  HandlerInv'
    BY <1>4 DEF TypeInv, HandlerInv, Handling, Collect
  <1>5. ASSUME NEW h \in Threads, Poll(h)
        PROVE  HandlerInv'
    BY <1>5 DEF TypeInv, HandlerInv, Handling, Poll, Ready
  <1>6. ASSUME NEW h \in Threads, HandleOne(h)
        PROVE  HandlerInv'
    BY <1>6 DEF TypeInv, HandlerInv, Handling, HandleOne
  <1>7. ASSUME NEW h \in Threads, Tell(h)
        PROVE  HandlerInv'
    BY <1>7 DEF TypeInv, HandlerInv, Handling, Tell
  <1>8. ASSUME NEW h \in Threads, UnlockEvents(h)
        PROVE  HandlerInv'
    BY <1>8 DEF TypeInv, HandlerInv, Handling, UnlockEvents, Unlocked
  <1>9. ASSUME NEW h \in Threads, Wake(h)
        PROVE  HandlerInv'
    BY <1>9 DEF TypeInv, HandlerInv, Handling, Wake, HandledEvents
  <1>10. ASSUME NEW h \in Threads, LockWaiters(h)
        PROVE  HandlerInv'
    BY <1>10 DEF TypeInv, HandlerInv, Handling, LockWaiters
  <1>11. ASSUME NEW h \in Threads, CheckActive(h)
        PROVE  HandlerInv'
    BY <1>11 DEF TypeInv, HandlerInv, Handling, CheckActive
  <1>12. ASSUME NEW h \in Threads, Relock(h)
        PROVE  HandlerInv'
    BY <1>12 DEF TypeInv, HandlerInv, Handling, Relock
  <1>13. ASSUME NEW h \in Threads, Modify(h)
        PROVE  HandlerInv'
    BY <1>13 DEF TypeInv, HandlerInv, Handling, Modify
  <1>14. ASSUME NEW h \in Threads, Write(h)
        PROVE  HandlerInv'
    BY <1>14 DEF TypeInv, HandlerInv, Handling, Write, DoClose
  <1>15. ASSUME NEW h \in Threads, LockEvents(h)
        PROVE  HandlerInv'
    BY <1>15 DEF TypeInv, HandlerInv, Handling, LockEvents, DoClose, Unmodify, EventsFree
  <1>16. ASSUME NEW h \in Threads, Wakens(h)
        PROVE  HandlerInv'
    BY <1>16 DEF TypeInv, HandlerInv, Handling, Wakens
  <1>17. ASSUME NEW h \in Threads, PollEnds(h)
        PROVE  HandlerInv'
    BY <1>17 DEF TypeInv, HandlerInv, Handling, PollEnds
  <1>18. ASSUME NEW h \in Threads, PollFails(h)
        PROVE  HandlerInv'
    BY <1>18 DEF TypeInv, HandlerInv, Handling, PollFails
  <1>19. ASSUME NEW h \in Threads, Serve(h)
        PROVE  HandlerInv'
    BY <1>19 DEF TypeInv, HandlerInv, Handling, Serve
  <1>20. ASSUME NEW h \in Threads, NEW d \in Handles, StartControl(h, d)
        PROVE  HandlerInv'
    BY <1>20 DEF TypeInv, HandlerInv, Handling, StartControl, Calls
  <1>21. ASSUME NEW h \in Threads, NEW d \in Handles, Open(h, d)
        PROVE  HandlerInv'
    BY <1>21 DEF TypeInv, HandlerInv, Handling, Open, Calls
  <1>22. ASSUME NEW h \in Threads, NEW d \in Handles, Close(h, d)
        PROVE  HandlerInv'
    BY <1>22 DEF TypeInv, HandlerInv, Handling, Close, Calls
  <1>23. CASE UNCHANGED vars
    BY <1>23 DEF TypeInv, HandlerInv, Handling, vars
  <1>24. QED
    BY <1>1, <1>2, <1>3, <1>4, <1>5, <1>6, <1>7, <1>8, <1>9, <1>10, <1>11, <1>12, <1>13, <1>14, <1>15, <1>16, <1>17, <1>18, <1>19, <1>20, <1>21, <1>22, <1>23 DEF Next, Step, Woken, Overslept

\* Every step keeps QueueInv.
LEMMA QueueStep ==
  TypeInv /\ QueueInv /\ [Next]_vars => QueueInv'
  <1> SUFFICES ASSUME TypeInv, QueueInv, [Next]_vars
               PROVE  QueueInv'
    OBVIOUS
  <1> USE EventAssumption DEF Goto, At, OnlyCtx, ctxVars, callVars
  <1>1. ASSUME NEW h \in Threads, LoopControl(h)
        PROVE  QueueInv'
    BY <1>1 DEF TypeInv, QueueInv, Queue!Broadcast, Queue!Enter, Queue!Awake, Queue!Leave, LoopControl, Completed
  <1>2. ASSUME NEW h \in Threads, TryModify(h)
        PROVE  QueueInv'
    BY <1>2 DEF TypeInv, QueueInv, Queue!Broadcast, Queue!Enter, Queue!Awake, Queue!Leave, TryModify
  <1>3. ASSUME NEW h \in Threads, TryLock(h)
        PROVE  QueueInv'
    BY <1>3 DEF TypeInv, QueueInv, Queue!Broadcast, Queue!Enter, Queue!Awake, Queue!Leave, TryLock
  <1>4. ASSUME NEW h \in Threads, Collect(h)
        PROVE  QueueInv'
    BY <1>4 DEF TypeInv, QueueInv, Queue!Broadcast, Queue!Enter, Queue!Awake, Queue!Leave, Collect
  <1>5. ASSUME NEW h \in Threads, Poll(h)
        PROVE  QueueInv'
    BY <1>5 DEF TypeInv, QueueInv, Queue!Broadcast, Queue!Enter, Queue!Awake, Queue!Leave, Poll, Ready
  <1>6. ASSUME NEW h \in Threads, HandleOne(h)
        PROVE  QueueInv'
    BY <1>6 DEF TypeInv, QueueInv, Queue!Broadcast, Queue!Enter, Queue!Awake, Queue!Leave, HandleOne
  <1>7. ASSUME NEW h \in Threads, Tell(h)
        PROVE  QueueInv'
    BY <1>7 DEF TypeInv, QueueInv, Queue!Broadcast, Queue!Enter, Queue!Awake, Queue!Leave, Tell
  <1>8. ASSUME NEW h \in Threads, UnlockEvents(h)
        PROVE  QueueInv'
    BY <1>8 DEF TypeInv, QueueInv, Queue!Broadcast, Queue!Enter, Queue!Awake, Queue!Leave, UnlockEvents, Unlocked
  <1>9. ASSUME NEW h \in Threads, Wake(h)
        PROVE  QueueInv'
    BY <1>9 DEF TypeInv, QueueInv, Queue!Broadcast, Queue!Enter, Queue!Awake, Queue!Leave, Wake, HandledEvents
  <1>10. ASSUME NEW h \in Threads, LockWaiters(h)
        PROVE  QueueInv'
    BY <1>10 DEF TypeInv, QueueInv, Queue!Broadcast, Queue!Enter, Queue!Awake, Queue!Leave, LockWaiters
  <1>11. ASSUME NEW h \in Threads, CheckActive(h)
        PROVE  QueueInv'
    BY <1>11 DEF TypeInv, QueueInv, Queue!Broadcast, Queue!Enter, Queue!Awake, Queue!Leave, CheckActive
  <1>12. ASSUME NEW h \in Threads, Relock(h)
        PROVE  QueueInv'
    BY <1>12 DEF TypeInv, QueueInv, Queue!Broadcast, Queue!Enter, Queue!Awake, Queue!Leave, Relock
  <1>13. ASSUME NEW h \in Threads, Modify(h)
        PROVE  QueueInv'
    BY <1>13 DEF TypeInv, QueueInv, Queue!Broadcast, Queue!Enter, Queue!Awake, Queue!Leave, Modify
  <1>14. ASSUME NEW h \in Threads, Write(h)
        PROVE  QueueInv'
    BY <1>14 DEF TypeInv, QueueInv, Queue!Broadcast, Queue!Enter, Queue!Awake, Queue!Leave, Write, DoClose
  <1>15. ASSUME NEW h \in Threads, LockEvents(h)
        PROVE  QueueInv'
    BY <1>15 DEF TypeInv, QueueInv, Queue!Broadcast, Queue!Enter, Queue!Awake, Queue!Leave, LockEvents, DoClose, Unmodify, EventsFree
  <1>16. ASSUME NEW h \in Threads, Wakens(h)
        PROVE  QueueInv'
    BY <1>16 DEF TypeInv, QueueInv, Queue!Broadcast, Queue!Enter, Queue!Awake, Queue!Leave, Wakens
  <1>17. ASSUME NEW h \in Threads, PollEnds(h)
        PROVE  QueueInv'
    BY <1>17 DEF TypeInv, QueueInv, Queue!Broadcast, Queue!Enter, Queue!Awake, Queue!Leave, PollEnds
  <1>18. ASSUME NEW h \in Threads, PollFails(h)
        PROVE  QueueInv'
    BY <1>18 DEF TypeInv, QueueInv, Queue!Broadcast, Queue!Enter, Queue!Awake, Queue!Leave, PollFails
  <1>19. ASSUME NEW h \in Threads, Serve(h)
        PROVE  QueueInv'
    BY <1>19 DEF TypeInv, QueueInv, Queue!Broadcast, Queue!Enter, Queue!Awake, Queue!Leave, Serve
  <1>20. ASSUME NEW h \in Threads, NEW d \in Handles, StartControl(h, d)
        PROVE  QueueInv'
    BY <1>20 DEF TypeInv, QueueInv, Queue!Broadcast, Queue!Enter, Queue!Awake, Queue!Leave, StartControl, Calls
  <1>21. ASSUME NEW h \in Threads, NEW d \in Handles, Open(h, d)
        PROVE  QueueInv'
    BY <1>21 DEF TypeInv, QueueInv, Queue!Broadcast, Queue!Enter, Queue!Awake, Queue!Leave, Open, Calls
  <1>22. ASSUME NEW h \in Threads, NEW d \in Handles, Close(h, d)
        PROVE  QueueInv'
    BY <1>22 DEF TypeInv, QueueInv, Queue!Broadcast, Queue!Enter, Queue!Awake, Queue!Leave, Close, Calls
  <1>23. CASE UNCHANGED vars
    BY <1>23 DEF TypeInv, QueueInv, Queue!Broadcast, Queue!Enter, Queue!Awake, Queue!Leave, vars
  <1>24. QED
    BY <1>1, <1>2, <1>3, <1>4, <1>5, <1>6, <1>7, <1>8, <1>9, <1>10, <1>11, <1>12, <1>13, <1>14, <1>15, <1>16, <1>17, <1>18, <1>19, <1>20, <1>21, <1>22, <1>23 DEF Next, Step, Woken, Overslept

-----------------------------------------------------------------------------
Notifiers == {h \in Threads : Notifying(h)}
Lockers   == {h \in Threads : At(h, "lock")}

\* What NotifiersCounted says, with the two sets named
LEMMA CountDef ==
  /\ NotifiersCounted <=>
       pollfd_modify = Cardinality(Notifiers) /\ ctrl_pipe = Cardinality(Lockers)
  /\ NotifiersCounted' <=>
       pollfd_modify' = Cardinality(Notifiers') /\ ctrl_pipe' = Cardinality(Lockers')
  BY DEF NotifiersCounted, Notifiers, Lockers, Notifying, At

\* Both sets are finite, so that they can be counted.
LEMMA CountTypes ==
  ASSUME NotifiersCounted
  PROVE  /\ IsFiniteSet(Notifiers) /\ IsFiniteSet(Lockers)
         /\ pollfd_modify \in 0 .. Cardinality(Threads)
         /\ ctrl_pipe \in 0 .. Cardinality(Threads)
         /\ \A h \in Threads : Notifying(h) => pollfd_modify > 0
         /\ \A h \in Threads : At(h, "lock") => ctrl_pipe > 0
         /\ pollfd_modify > 0 => \E h \in Threads : Notifying(h)
         /\ ctrl_pipe > 0 => \E h \in Threads : At(h, "lock")
  <1>1. Notifiers \in SUBSET Threads /\ Lockers \in SUBSET Threads
    BY DEF Notifiers, Lockers
  <1>2. /\ IsFiniteSet(Notifiers) /\ Cardinality(Notifiers) <= Cardinality(Threads)
        /\ IsFiniteSet(Lockers) /\ Cardinality(Lockers) <= Cardinality(Threads)
    BY <1>1, FS_Subset, EventAssumption
  <1>3. /\ Cardinality(Notifiers) \in Nat /\ Cardinality(Lockers) \in Nat
        /\ Cardinality(Threads) \in Nat
    BY <1>2, FS_CardinalityType, EventAssumption
  <1>4. /\ Cardinality(Notifiers) = 0 <=> Notifiers = {}
        /\ Cardinality(Lockers) = 0 <=> Lockers = {}
    BY <1>2, FS_EmptySet
  <1>5. QED
    BY <1>2, <1>3, <1>4, CountDef DEF Notifiers, Lockers

\* A thread that neither begins nor ends a notification counts nothing.
LEMMA CountQuiet ==
  ASSUME TypeInv, NotifiersCounted, NEW h \in Threads,
         pc[h] \notin {"write", "lock"}, pc'[h] \notin {"write", "lock"},
         \A o \in Threads \ {h} : pc'[o] = pc[o],
         UNCHANGED <<pollfd_modify, ctrl_pipe>>
  PROVE  NotifiersCounted'
  <1>1. Notifiers' = Notifiers /\ Lockers' = Lockers
    BY DEF Notifiers, Lockers, Notifying, At
  <1>2. QED
    BY <1>1, CountDef

\* Every step keeps the two counts: each call that changes the descriptors
\* is counted from its first step to its last, and has its byte in the pipe
\* from the second on.
LEMMA CountStep ==
  TypeInv /\ NotifiersCounted /\ [Next]_vars => NotifiersCounted'
  <1> SUFFICES ASSUME TypeInv, NotifiersCounted, [Next]_vars
               PROVE  NotifiersCounted'
    OBVIOUS
  <1> USE EventAssumption DEF Goto, At, OnlyCtx, ctxVars, callVars
  <1>1. ASSUME NEW h \in Threads, LoopControl(h)
        PROVE  NotifiersCounted'
    BY <1>1, CountQuiet DEF TypeInv, LoopControl, Completed
  <1>2. ASSUME NEW h \in Threads, TryModify(h)
        PROVE  NotifiersCounted'
    BY <1>2, CountQuiet DEF TypeInv, TryModify
  <1>3. ASSUME NEW h \in Threads, TryLock(h)
        PROVE  NotifiersCounted'
    BY <1>3, CountQuiet DEF TypeInv, TryLock
  <1>4. ASSUME NEW h \in Threads, Collect(h)
        PROVE  NotifiersCounted'
    BY <1>4, CountQuiet DEF TypeInv, Collect
  <1>5. ASSUME NEW h \in Threads, Poll(h)
        PROVE  NotifiersCounted'
    BY <1>5, CountQuiet DEF TypeInv, Poll, Ready
  <1>6. ASSUME NEW h \in Threads, HandleOne(h)
        PROVE  NotifiersCounted'
    BY <1>6, CountQuiet DEF TypeInv, HandleOne
  <1>7. ASSUME NEW h \in Threads, Tell(h)
        PROVE  NotifiersCounted'
    BY <1>7, CountQuiet DEF TypeInv, Tell
  <1>8. ASSUME NEW h \in Threads, UnlockEvents(h)
        PROVE  NotifiersCounted'
    BY <1>8, CountQuiet DEF TypeInv, UnlockEvents, Unlocked
  <1>9. ASSUME NEW h \in Threads, Wake(h)
        PROVE  NotifiersCounted'
    BY <1>9, CountQuiet DEF TypeInv, Wake, HandledEvents
  <1>10. ASSUME NEW h \in Threads, LockWaiters(h)
        PROVE  NotifiersCounted'
    BY <1>10, CountQuiet DEF TypeInv, LockWaiters
  <1>11. ASSUME NEW h \in Threads, CheckActive(h)
        PROVE  NotifiersCounted'
    BY <1>11, CountQuiet DEF TypeInv, CheckActive
  <1>12. ASSUME NEW h \in Threads, Relock(h)
        PROVE  NotifiersCounted'
    BY <1>12, CountQuiet DEF TypeInv, Relock
  <1>13. ASSUME NEW h \in Threads, Modify(h)
        PROVE  NotifiersCounted'
    <2>1. /\ Notifiers' = Notifiers \cup {h} /\ h \notin Notifiers
          /\ Lockers' = Lockers
      BY <1>13 DEF Modify, TypeInv, Notifiers, Lockers, Notifying
    <2>2. Cardinality(Notifiers') = Cardinality(Notifiers) + 1
      BY <2>1, CountTypes, FS_AddElement
    <2>3. QED
      BY <1>13, <2>1, <2>2, CountDef DEF Modify
  <1>14. ASSUME NEW h \in Threads, Write(h)
        PROVE  NotifiersCounted'
    <2>1. CASE op[h] \notin pipeFails
      <3>1. /\ Lockers' = Lockers \cup {h} /\ h \notin Lockers
            /\ Notifiers' = Notifiers
        BY <1>14, <2>1 DEF Write, TypeInv, Notifiers, Lockers, Notifying
      <3>2. Cardinality(Lockers') = Cardinality(Lockers) + 1
        BY <3>1, CountTypes, FS_AddElement
      <3>3. QED
        BY <1>14, <2>1, <3>1, <3>2, CountDef DEF Write
    <2>2. CASE op[h] \in pipeFails
      <3>1. /\ Notifiers' = Notifiers \ {h} /\ h \in Notifiers
            /\ Lockers' = Lockers
        BY <1>14, <2>2 DEF Write, TypeInv, Notifiers, Lockers, Notifying
      <3>2. Cardinality(Notifiers') = Cardinality(Notifiers) - 1
        BY <3>1, CountTypes, FS_RemoveElement
      <3>3. QED
        BY <1>14, <2>2, <3>1, <3>2, CountDef DEF Write
    <2>3. QED
      BY <2>1, <2>2
  <1>15. ASSUME NEW h \in Threads, LockEvents(h)
        PROVE  NotifiersCounted'
    <2>1. /\ Notifiers' = Notifiers \ {h} /\ h \in Notifiers
          /\ Lockers' = Lockers \ {h} /\ h \in Lockers
      BY <1>15 DEF LockEvents, TypeInv, Notifiers, Lockers, Notifying
    <2>2. /\ Cardinality(Notifiers') = Cardinality(Notifiers) - 1
          /\ Cardinality(Lockers') = Cardinality(Lockers) - 1
      BY <2>1, CountTypes, FS_RemoveElement
    <2>3. QED
      BY <1>15, <2>1, <2>2, CountDef DEF LockEvents, Unmodify
  <1>16. ASSUME NEW h \in Threads, Wakens(h)
        PROVE  NotifiersCounted'
    BY <1>16, CountQuiet DEF TypeInv, Wakens
  <1>17. ASSUME NEW h \in Threads, PollEnds(h)
        PROVE  NotifiersCounted'
    BY <1>17, CountQuiet DEF TypeInv, PollEnds
  <1>18. ASSUME NEW h \in Threads, PollFails(h)
        PROVE  NotifiersCounted'
    BY <1>18, CountQuiet DEF TypeInv, PollFails
  <1>19. ASSUME NEW h \in Threads, Serve(h)
        PROVE  NotifiersCounted'
    BY <1>19, CountQuiet DEF Serve, NotifiersCounted, Notifying
  <1>20. ASSUME NEW h \in Threads, NEW d \in Handles, StartControl(h, d)
        PROVE  NotifiersCounted'
    BY <1>20, CountQuiet DEF TypeInv, StartControl, Calls
  <1>21. ASSUME NEW h \in Threads, NEW d \in Handles, Open(h, d)
        PROVE  NotifiersCounted'
    BY <1>21, CountQuiet DEF TypeInv, Open, Calls
  <1>22. ASSUME NEW h \in Threads, NEW d \in Handles, Close(h, d)
        PROVE  NotifiersCounted'
    BY <1>22, CountQuiet DEF TypeInv, Close, Calls
  <1>23. CASE UNCHANGED vars
    BY <1>23 DEF vars, NotifiersCounted, Notifying
  <1>24. QED
    BY <1>1, <1>2, <1>3, <1>4, <1>5, <1>6, <1>7, <1>8, <1>9, <1>10, <1>11, <1>12, <1>13, <1>14, <1>15, <1>16, <1>17, <1>18, <1>19, <1>20, <1>21, <1>22, <1>23 DEF Next, Step, Woken, Overslept

-----------------------------------------------------------------------------
\* A step of a thread that does not come to poll, opens nothing and takes
\* nothing back keeps PollsWhatIsOpen.
LEMMA PollsQuiet ==
  ASSUME TypeInv, PollsWhatIsOpen, NEW h \in Threads,
         pc'[h] # "poll", pc[h] \in {"notify", "write"} => pc'[h] = pc[h],
         \A o \in Threads \ {h} : pc'[o] = pc[o] /\ polled'[o] = polled[o],
         UNCHANGED <<setup, ctrl_pipe, pollfds>>
  PROVE  PollsWhatIsOpen'
  BY DEF PollsWhatIsOpen, At, TypeInv, pipeFails

\* Every step keeps PollsWhatIsOpen: a descriptor is added while a
\* notification is under way, and goes when nobody polls.
LEMMA PollsStep ==
  TypeInv /\ HandlerInv /\ NotifiersCounted /\ PollsWhatIsOpen /\ [Next]_vars => PollsWhatIsOpen'
  <1> SUFFICES ASSUME TypeInv, HandlerInv, NotifiersCounted, PollsWhatIsOpen, [Next]_vars
               PROVE  PollsWhatIsOpen'
    OBVIOUS
  <1> USE EventAssumption DEF Goto, At, OnlyCtx, ctxVars, callVars
  <1>1. ASSUME NEW h \in Threads, LoopControl(h)
        PROVE  PollsWhatIsOpen'
    BY <1>1, PollsQuiet DEF TypeInv, LoopControl, Completed
  <1>2. ASSUME NEW h \in Threads, TryModify(h)
        PROVE  PollsWhatIsOpen'
    BY <1>2, PollsQuiet DEF TypeInv, TryModify
  <1>3. ASSUME NEW h \in Threads, TryLock(h)
        PROVE  PollsWhatIsOpen'
    BY <1>3, PollsQuiet DEF TypeInv, TryLock
  <1>4. ASSUME NEW h \in Threads, Collect(h)
        PROVE  PollsWhatIsOpen'
    BY <1>4 DEF Collect, TypeInv, PollsWhatIsOpen, pipeFails
  <1>5. ASSUME NEW h \in Threads, Poll(h)
        PROVE  PollsWhatIsOpen'
    BY <1>5, PollsQuiet DEF TypeInv, Poll, Ready
  <1>6. ASSUME NEW h \in Threads, HandleOne(h)
        PROVE  PollsWhatIsOpen'
    BY <1>6, PollsQuiet DEF TypeInv, HandleOne
  <1>7. ASSUME NEW h \in Threads, Tell(h)
        PROVE  PollsWhatIsOpen'
    BY <1>7, PollsQuiet DEF TypeInv, Tell
  <1>8. ASSUME NEW h \in Threads, UnlockEvents(h)
        PROVE  PollsWhatIsOpen'
    BY <1>8, PollsQuiet DEF TypeInv, UnlockEvents, Unlocked
  <1>9. ASSUME NEW h \in Threads, Wake(h)
        PROVE  PollsWhatIsOpen'
    BY <1>9, PollsQuiet DEF TypeInv, Wake, HandledEvents
  <1>10. ASSUME NEW h \in Threads, LockWaiters(h)
        PROVE  PollsWhatIsOpen'
    BY <1>10, PollsQuiet DEF TypeInv, LockWaiters
  <1>11. ASSUME NEW h \in Threads, CheckActive(h)
        PROVE  PollsWhatIsOpen'
    BY <1>11, PollsQuiet DEF TypeInv, CheckActive
  <1>12. ASSUME NEW h \in Threads, Relock(h)
        PROVE  PollsWhatIsOpen'
    BY <1>12, PollsQuiet DEF TypeInv, Relock
  <1>13. ASSUME NEW h \in Threads, Modify(h)
        PROVE  PollsWhatIsOpen'
    BY <1>13 DEF Modify, TypeInv, PollsWhatIsOpen, pipeFails
  <1>14. ASSUME NEW h \in Threads, Write(h)
        PROVE  PollsWhatIsOpen'
    <2>1. CASE pipeFails = {}
      <3>1. ctrl_pipe' > 0 /\ pollfds' = pollfds /\ polled' = polled
        BY <1>14, <2>1, CountTypes DEF Write
      <3>2. \A o \in Threads : pc'[o] = "poll" => pc[o] = "poll"
        BY <1>14 DEF Write, TypeInv
      <3>3. QED
        BY <1>14, <2>1, <3>1, <3>2 DEF PollsWhatIsOpen
    <2>2. CASE pipeFails # {}
      BY <1>14, <2>2 DEF Write, PollsWhatIsOpen, pipeFails
    <2>3. QED
      BY <2>1, <2>2
  <1>15. ASSUME NEW h \in Threads, LockEvents(h)
        PROVE  PollsWhatIsOpen'
    <2>1. \A o \in Threads : pc'[o] # "poll"
      BY <1>15 DEF LockEvents, EventsFree, TypeInv, HandlerInv, Handling
    <2>2. QED
      BY <2>1 DEF PollsWhatIsOpen
  <1>16. ASSUME NEW h \in Threads, Wakens(h)
        PROVE  PollsWhatIsOpen'
    BY <1>16, PollsQuiet DEF TypeInv, Wakens
  <1>17. ASSUME NEW h \in Threads, PollEnds(h)
        PROVE  PollsWhatIsOpen'
    BY <1>17, PollsQuiet DEF TypeInv, PollEnds
  <1>18. ASSUME NEW h \in Threads, PollFails(h)
        PROVE  PollsWhatIsOpen'
    BY <1>18, PollsQuiet DEF TypeInv, PollFails
  <1>19. ASSUME NEW h \in Threads, Serve(h)
        PROVE  PollsWhatIsOpen'
    BY <1>19 DEF Serve, PollsWhatIsOpen, pipeFails
  <1>20. ASSUME NEW h \in Threads, NEW d \in Handles, StartControl(h, d)
        PROVE  PollsWhatIsOpen'
    BY <1>20, PollsQuiet DEF TypeInv, StartControl
  <1>21. ASSUME NEW h \in Threads, NEW d \in Handles, Open(h, d)
        PROVE  PollsWhatIsOpen'
    BY <1>21 DEF Open, TypeInv, PollsWhatIsOpen, pipeFails
  <1>22. ASSUME NEW h \in Threads, NEW d \in Handles, Close(h, d)
        PROVE  PollsWhatIsOpen'
    BY <1>22, PollsQuiet DEF TypeInv, Close
  <1>23. CASE UNCHANGED vars
    BY <1>23 DEF PollsWhatIsOpen, pipeFails, vars
  <1>24. QED
    BY <1>1, <1>2, <1>3, <1>4, <1>5, <1>6, <1>7, <1>8, <1>9, <1>10, <1>11, <1>12, <1>13, <1>14, <1>15, <1>16, <1>17, <1>18, <1>19, <1>20, <1>21, <1>22, <1>23 DEF Next, Step, Woken, Overslept

\* A step that leaves the events lock with its holder, ends no notification
\* and no call of wake, and neither queues nor forgets anybody keeps
\* SleepersWoken.
LEMMA SleepQuiet ==
  ASSUME TypeInv, SleepersWoken, NEW h \in Threads,
         pc'[h] # "asleep", \A o \in Threads \ {h} : pc'[o] = pc[o],
         Notifying(h) \/ At(h, "wake") => pc'[h] = pc[h] \/ Notifying(h)',
         events_lock # NoThread => events_lock' # NoThread,
         \A o \in Threads \ {h} : Queue!Wakes(queue, o) => Queue!Wakes(queue, o)',
         UNCHANGED setup
  PROVE  SleepersWoken'
  BY DEF SleepersWoken, At, TypeInv, pipeFails, Notifying

\* Every step keeps SleepersWoken: whoever finds nobody to wake it does not
\* go to sleep, and whoever lets the events lock go wakes the rest.
LEMMA SleepStep ==
  TypeInv /\ HandlerInv /\ QueueInv /\ NotifiersCounted /\ SleepersWoken /\ [Next]_vars => SleepersWoken'
  <1> SUFFICES ASSUME TypeInv, HandlerInv, QueueInv, NotifiersCounted, SleepersWoken, [Next]_vars
               PROVE  SleepersWoken'
    OBVIOUS
  <1> USE EventAssumption DEF Goto, At, OnlyCtx, ctxVars, callVars
  <1>1. ASSUME NEW h \in Threads, LoopControl(h)
        PROVE  SleepersWoken'
    BY <1>1, SleepQuiet DEF TypeInv, LoopControl, Notifying, Completed
  <1>2. ASSUME NEW h \in Threads, TryModify(h)
        PROVE  SleepersWoken'
    BY <1>2, SleepQuiet DEF TypeInv, TryModify, Notifying
  <1>3. ASSUME NEW h \in Threads, TryLock(h)
        PROVE  SleepersWoken'
    BY <1>3, SleepQuiet DEF TypeInv, TryLock, Notifying
  <1>4. ASSUME NEW h \in Threads, Collect(h)
        PROVE  SleepersWoken'
    BY <1>4, SleepQuiet DEF TypeInv, Collect, Notifying
  <1>5. ASSUME NEW h \in Threads, Poll(h)
        PROVE  SleepersWoken'
    BY <1>5, SleepQuiet DEF TypeInv, Poll, Notifying, Ready
  <1>6. ASSUME NEW h \in Threads, HandleOne(h)
        PROVE  SleepersWoken'
    BY <1>6, SleepQuiet DEF TypeInv, HandleOne, Notifying
  <1>7. ASSUME NEW h \in Threads, Tell(h)
        PROVE  SleepersWoken'
    BY <1>7, SleepQuiet DEF TypeInv, Tell, Notifying, Queue!Wakes, Queue!Broadcast, Queue!Awake, Queue!Leave
  <1>8. ASSUME NEW h \in Threads, UnlockEvents(h)
        PROVE  SleepersWoken'
    <2>1. pc'[h] = "wake"
      BY <1>8 DEF UnlockEvents, TypeInv
    <2>2. QED
      BY <2>1 DEF SleepersWoken
  <1>9. ASSUME NEW h \in Threads, Wake(h)
        PROVE  SleepersWoken'
    <2>1. /\ \A o \in Threads : pc'[o] = "asleep" => pc[o] = "asleep"
          /\ queue' = Queue!Broadcast(queue, windows)
      BY <1>9 DEF Wake, HandledEvents, TypeInv
    <2>2. \A o \in Threads : pc'[o] = "asleep" => Queue!Wakes(queue', o)
      BY <2>1 DEF QueueInv, TypeInv, Queue!Broadcast, Queue!Wakes
    <2>3. QED
      BY <2>2 DEF SleepersWoken
  <1>10. ASSUME NEW h \in Threads, LockWaiters(h)
        PROVE  SleepersWoken'
    BY <1>10, SleepQuiet DEF TypeInv, LockWaiters, Notifying
  <1>11. ASSUME NEW h \in Threads, CheckActive(h)
        PROVE  SleepersWoken'
    <2>1. CASE HandlerActive
      <3>1. events_lock # NoThread \/ \E o \in Threads : Notifying(o)
        BY <2>1, CountTypes DEF HandlerActive, HandlerInv
      <3>2. /\ events_lock' = events_lock /\ pc' = [pc EXCEPT ![h] = "asleep"]
            /\ \A o \in Threads : Notifying(o) => o # h
        BY <1>11, <2>1 DEF CheckActive, Notifying
      <3>3. \A o \in Threads : Notifying(o) => Notifying(o)'
        BY <3>2 DEF TypeInv, Notifying
      <3>4. QED
        BY <3>1, <3>2, <3>3 DEF SleepersWoken
    <2>2. CASE ~HandlerActive
      BY <1>11, <2>2, SleepQuiet DEF CheckActive, TypeInv, Notifying
    <2>3. QED
      BY <2>1, <2>2
  <1>12. ASSUME NEW h \in Threads, Relock(h)
        PROVE  SleepersWoken'
    BY <1>12, SleepQuiet DEF TypeInv, Relock, Notifying, Queue!Wakes, Queue!Broadcast, Queue!Awake, Queue!Leave
  <1>13. ASSUME NEW h \in Threads, Modify(h)
        PROVE  SleepersWoken'
    BY <1>13, SleepQuiet DEF TypeInv, Modify, Notifying
  <1>14. ASSUME NEW h \in Threads, Write(h)
        PROVE  SleepersWoken'
    <2>1. CASE pipeFails = {}
      BY <1>14, <2>1, SleepQuiet DEF Write, TypeInv, Notifying
    <2>2. CASE pipeFails # {}
      BY <1>14, <2>2 DEF Write, SleepersWoken, pipeFails
    <2>3. QED
      BY <2>1, <2>2
  <1>15. ASSUME NEW h \in Threads, LockEvents(h)
        PROVE  SleepersWoken'
    <2>1. events_lock' # NoThread
      BY <1>15 DEF LockEvents
    <2>2. QED
      BY <2>1 DEF SleepersWoken
  <1>16. ASSUME NEW h \in Threads, Wakens(h)
        PROVE  SleepersWoken'
    BY <1>16, SleepQuiet DEF TypeInv, Wakens, Notifying, Queue!Wakes, Queue!Broadcast, Queue!Awake, Queue!Leave
  <1>17. ASSUME NEW h \in Threads, PollEnds(h)
        PROVE  SleepersWoken'
    BY <1>17, SleepQuiet DEF TypeInv, PollEnds, Notifying
  <1>18. ASSUME NEW h \in Threads, PollFails(h)
        PROVE  SleepersWoken'
    BY <1>18, SleepQuiet DEF TypeInv, PollFails, Notifying
  <1>19. ASSUME NEW h \in Threads, Serve(h)
        PROVE  SleepersWoken'
    BY <1>19 DEF Serve, SleepersWoken, pipeFails, Notifying
  <1>20. ASSUME NEW h \in Threads, NEW d \in Handles, StartControl(h, d)
        PROVE  SleepersWoken'
    BY <1>20, SleepQuiet DEF TypeInv, StartControl, Notifying
  <1>21. ASSUME NEW h \in Threads, NEW d \in Handles, Open(h, d)
        PROVE  SleepersWoken'
    BY <1>21, SleepQuiet DEF TypeInv, Open, Notifying
  <1>22. ASSUME NEW h \in Threads, NEW d \in Handles, Close(h, d)
        PROVE  SleepersWoken'
    BY <1>22, SleepQuiet DEF TypeInv, Close, Notifying
  <1>23. CASE UNCHANGED vars
    BY <1>23 DEF SleepersWoken, pipeFails, Notifying, vars
  <1>24. QED
    BY <1>1, <1>2, <1>3, <1>4, <1>5, <1>6, <1>7, <1>8, <1>9, <1>10, <1>11, <1>12, <1>13, <1>14, <1>15, <1>16, <1>17, <1>18, <1>19, <1>20, <1>21, <1>22, <1>23 DEF Next, Step, Woken, Overslept

-----------------------------------------------------------------------------
\* poll() fails at most once
FailsOnce == \A b \in Setups : b[4] <= 1

\* A transfer belongs to a call of its thread that is under way; what a
\* handler has found ready stays so until it completes it; and one failure
\* of poll() either is yet to be seen or has cancelled a transfer.
FreedInv ==
  /\ \A h \in Threads : op[h] # "transfer" => xfer[h] = "none"
  /\ \A h \in Threads : pc[h] = "idle" => op[h] = "none"
  /\ \A h \in Threads : At(h, "notify") \/ Notifying(h) => op[h] # "transfer"
  /\ \A h \in Threads : \A o \in todo[h] :
       xfer[o] = "ready" /\ pc[h] \in {"handle", "tell"}
  /\ \A h \in Threads : ~(failed[h] /\ cancelled[h])
  /\ \A h \in Threads : failed[h] \/ cancelled[h] => fails > 0

\* Every step keeps FreedInv.
LEMMA FreedStep ==
  FailsOnce /\ TypeInv /\ HandlerInv /\ FreedInv /\ [Next]_vars => FreedInv'
  <1> SUFFICES ASSUME FailsOnce, TypeInv, HandlerInv, FreedInv, [Next]_vars
               PROVE  FreedInv'
    OBVIOUS
  <1> USE EventAssumption DEF Goto, At, OnlyCtx, ctxVars, callVars
  <1>1. ASSUME NEW h \in Threads, LoopControl(h)
        PROVE  FreedInv'
    <2>1. CASE Completed(h)
      <3>1. /\ xfer' = [xfer EXCEPT ![h] = "none"] /\ op' = [op EXCEPT ![h] = "none"]
            /\ cancelled' = [cancelled EXCEPT ![h] = FALSE]
            /\ pc' = [pc EXCEPT ![h] = "idle"] /\ pc[h] = "loop"
            /\ UNCHANGED <<todo, failed, fails>>
        BY <1>1, <2>1 DEF LoopControl
      <3>2. \A g \in Threads : h \notin todo[g]
        BY <2>1 DEF Completed, FreedInv
      <3>3. \A g \in Threads : \A o \in todo'[g] :
              xfer'[o] = "ready" /\ pc'[g] \in {"handle", "tell"}
        BY <3>1, <3>2 DEF TypeInv, FreedInv
      <3>4. QED
        BY <3>1, <3>3 DEF TypeInv, FreedInv, Notifying
    <2>2. CASE ~Completed(h)
      BY <1>1, <2>2 DEF LoopControl, TypeInv, FreedInv, Notifying
    <2>3. QED
      BY <2>1, <2>2
  <1>2. ASSUME NEW h \in Threads, TryModify(h)
        PROVE  FreedInv'
    BY <1>2 DEF TypeInv, FreedInv, Notifying, TryModify
  <1>3. ASSUME NEW h \in Threads, TryLock(h)
        PROVE  FreedInv'
    BY <1>3 DEF TypeInv, FreedInv, Notifying, TryLock
  <1>4. ASSUME NEW h \in Threads, Collect(h)
        PROVE  FreedInv'
    BY <1>4 DEF TypeInv, FreedInv, Notifying, Collect
  <1>5. ASSUME NEW h \in Threads, Poll(h)
        PROVE  FreedInv'
    BY <1>5 DEF TypeInv, FreedInv, Notifying, Poll, Ready
  <1>6. ASSUME NEW h \in Threads, HandleOne(h)
        PROVE  FreedInv'
    <2>1. CASE todo[h] = {}
      BY <1>6, <2>1 DEF HandleOne, TypeInv, FreedInv, Notifying
    <2>2. ASSUME NEW o \in todo[h], xfer' = [xfer EXCEPT ![o] = "completed"],
                 todo' = [todo EXCEPT ![h] = @ \ {o}],
                 pc' = [pc EXCEPT ![h] = "tell"]
          PROVE  FreedInv'
      <3>1. \A g \in Threads \ {h} : todo[g] = {}
        BY <1>6 DEF HandleOne, TypeInv, FreedInv, HandlerInv, Handling
      <3>2. \A g \in Threads : \A q \in todo'[g] :
              xfer'[q] = "ready" /\ pc'[g] \in {"handle", "tell"}
        BY <2>2, <3>1 DEF TypeInv, FreedInv
      <3>3. op[o] = "transfer" /\ o \in Threads
        BY <2>2 DEF TypeInv, FreedInv
      <3>4. \A g \in Threads : op[g] # "transfer" => xfer'[g] = "none"
        BY <2>2, <3>3 DEF TypeInv, FreedInv
      <3>5. QED
        BY <1>6, <2>2, <3>2, <3>4 DEF HandleOne, TypeInv, FreedInv, Notifying
    <2>3. QED
      BY <1>6, <2>1, <2>2 DEF HandleOne
  <1>7. ASSUME NEW h \in Threads, Tell(h)
        PROVE  FreedInv'
    BY <1>7 DEF TypeInv, FreedInv, Notifying, Tell
  <1>8. ASSUME NEW h \in Threads, UnlockEvents(h)
        PROVE  FreedInv'
    BY <1>8 DEF TypeInv, FreedInv, Notifying, UnlockEvents, Unlocked
  <1>9. ASSUME NEW h \in Threads, Wake(h)
        PROVE  FreedInv'
    BY <1>9, SMTT(30) DEF TypeInv, FreedInv, Notifying, Wake, HandledEvents
  <1>10. ASSUME NEW h \in Threads, LockWaiters(h)
        PROVE  FreedInv'
    BY <1>10 DEF TypeInv, FreedInv, Notifying, LockWaiters
  <1>11. ASSUME NEW h \in Threads, CheckActive(h)
        PROVE  FreedInv'
    BY <1>11 DEF TypeInv, FreedInv, Notifying, CheckActive
  <1>12. ASSUME NEW h \in Threads, Relock(h)
        PROVE  FreedInv'
    BY <1>12 DEF TypeInv, FreedInv, Notifying, Relock
  <1>13. ASSUME NEW h \in Threads, Modify(h)
        PROVE  FreedInv'
    BY <1>13 DEF TypeInv, FreedInv, Notifying, Modify
  <1>14. ASSUME NEW h \in Threads, Write(h)
        PROVE  FreedInv'
    BY <1>14 DEF TypeInv, FreedInv, Notifying, Write, DoClose
  <1>15. ASSUME NEW h \in Threads, LockEvents(h)
        PROVE  FreedInv'
    BY <1>15 DEF TypeInv, FreedInv, Notifying, LockEvents, DoClose, Unmodify, EventsFree
  <1>16. ASSUME NEW h \in Threads, Wakens(h)
        PROVE  FreedInv'
    BY <1>16 DEF TypeInv, FreedInv, Notifying, Wakens
  <1>17. ASSUME NEW h \in Threads, PollEnds(h)
        PROVE  FreedInv'
    BY <1>17 DEF TypeInv, FreedInv, Notifying, PollEnds
  <1>18. ASSUME NEW h \in Threads, PollFails(h)
        PROVE  FreedInv'
    <2>1. fails = 0
      BY <1>18 DEF PollFails, TypeInv, FailsOnce, maxFails
    <2>2. \A g \in Threads : ~failed[g] /\ ~cancelled[g]
      BY <2>1 DEF FreedInv, TypeInv
    <2>3. /\ pc[h] = "poll" /\ pc' = [pc EXCEPT ![h] = "release"] /\ failed' = [failed EXCEPT ![h] = TRUE]
          /\ fails' = fails + 1 /\ UNCHANGED <<op, xfer, todo, cancelled>>
      BY <1>18 DEF PollFails
    <2>4. fails' > 0 /\ \A g \in Threads : ~cancelled'[g]
      BY <2>1, <2>2, <2>3
    <2>5. \A g \in Threads : pc'[g] = IF g = h THEN "release" ELSE pc[g]
      BY <2>3 DEF TypeInv
    <2>6. QED
      BY <2>3, <2>4, <2>5 DEF FreedInv, Notifying
  <1>19. ASSUME NEW h \in Threads, Serve(h)
        PROVE  FreedInv'
    BY <1>19 DEF TypeInv, FreedInv, Notifying, Serve
  <1>20. ASSUME NEW h \in Threads, NEW d \in Handles, StartControl(h, d)
        PROVE  FreedInv'
    BY <1>20 DEF TypeInv, FreedInv, Notifying, StartControl, Calls
  <1>21. ASSUME NEW h \in Threads, NEW d \in Handles, Open(h, d)
        PROVE  FreedInv'
    BY <1>21 DEF TypeInv, FreedInv, Notifying, Open, Calls
  <1>22. ASSUME NEW h \in Threads, NEW d \in Handles, Close(h, d)
        PROVE  FreedInv'
    BY <1>22 DEF TypeInv, FreedInv, Notifying, Close, Calls
  <1>23. CASE UNCHANGED vars
    BY <1>23 DEF TypeInv, FreedInv, Notifying, vars
  <1>24. QED
    BY <1>1, <1>2, <1>3, <1>4, <1>5, <1>6, <1>7, <1>8, <1>9, <1>10, <1>11, <1>12, <1>13, <1>14, <1>15, <1>16, <1>17, <1>18, <1>19, <1>20, <1>21, <1>22, <1>23 DEF Next, Step, Woken, Overslept

-----------------------------------------------------------------------------
\* What every state satisfies, whatever fails how often
IInv ==
  /\ TypeInv /\ HandlerInv /\ QueueInv /\ NotifiersCounted
  /\ PollsWhatIsOpen /\ SleepersWoken

\* The counts hold at the start.
LEMMA InitCount == Init => NotifiersCounted
  <1> SUFFICES ASSUME Init PROVE NotifiersCounted
    OBVIOUS
  <1>1. Notifiers = {} /\ Lockers = {}
    BY DEF Init, Notifiers, Lockers, Notifying, At
  <1>2. QED
    BY <1>1, CountDef, FS_EmptySet DEF Init

\* The inductive invariant
THEOREM Inductive == Spec => []IInv
  <1>1. Init => IInv
    BY InitTypes, InitCount DEF Init, IInv, PollsWhatIsOpen, SleepersWoken, At
  <1>2. IInv /\ [Next]_vars => IInv'
    <2> SUFFICES ASSUME IInv, [Next]_vars PROVE IInv'
      OBVIOUS
    <2>1. /\ TypeInv /\ HandlerInv /\ QueueInv /\ NotifiersCounted
          /\ PollsWhatIsOpen /\ SleepersWoken
      BY DEF IInv
    <2>2. TypeInv' /\ HandlerInv' /\ QueueInv'
      BY <2>1, TypeStep, HandlerStep, QueueStep
    <2>3. NotifiersCounted' /\ PollsWhatIsOpen' /\ SleepersWoken'
      BY <2>1, CountStep, PollsStep, SleepStep
    <2>4. QED
      BY <2>2, <2>3 DEF IInv
  <1>3. QED
    BY <1>1, <1>2, PTL DEF Spec

\* No wake-up is lost: a thread that sleeps and is not yet signalled has
\* somebody awake who will signal it, with the condition variables of POSIX
\* and with their emulation on Windows.
THEOREM NoLostWakeup == Spec => []SleepersWoken
  <1>1. IInv => SleepersWoken
    BY DEF IInv
  <1>2. QED
    BY Inductive, <1>1, PTL

\* The descriptors that are polled are those that are open, and what counts
\* their changes is exact, however calls to open and close meet with handlers
\* and with each other.
THEOREM PollsExact == Spec => [](TypeOK /\ NotifiersCounted /\ PollsWhatIsOpen)
  <1>1. IInv => TypeOK /\ NotifiersCounted /\ PollsWhatIsOpen
    BY CountTypes DEF IInv, TypeInv, TypeOK
  <1>2. QED
    BY Inductive, <1>1, PTL

\* Nothing is closed or freed under somebody who uses it, as long as poll()
\* does not fail a second time.
THEOREM NothingFreedInUse == ASSUME FailsOnce PROVE Spec => []ClosedAtRest
  <1>1. Init => FreedInv
    BY DEF Init, FreedInv, At, Notifying
  <1>2. IInv /\ FreedInv /\ [Next]_vars => FreedInv'
    BY FreedStep, FailsOnce DEF IInv
  <1>3. IInv /\ FreedInv => ClosedAtRest
    BY CountTypes DEF IInv, TypeInv, TypeOK, FreedInv, FreedAtRest, ClosedAtRest
  <1>4. QED
    BY Inductive, <1>1, <1>2, <1>3, PTL DEF Spec

-----------------------------------------------------------------------------
(***************************************************************************)
(* Contexts, device objects and handles, for any number of threads,        *)
(* handles, addresses and device objects and any backend: what is counted, *)
(* and that nobody uses what is freed or not complete.                     *)
(***************************************************************************)
\* Where a thread is in its calls; where it works on a device object
Places == {"out", "starting", "idle", "freeing", "stopping", "scan", "listed", "entry", "look", "alloc", "init", "sanitize", "append"}
Working == {"init", "sanitize", "append"}
\* Where it does not use a context: not yet, or not any more
Absent == {"out", "starting", "freeing", "stopping"}
Ended == {"freeing", "stopping"}

CallerRec ==
  [pc : Places, ctx : {0} \cup CtxIds, mode : {"sysfs", "usbfs", "iokit"}, list : Seq(DevIds), disc : Seq(DevIds),
   seen : SUBSET Addrs, must : SUBSET Addrs, cur : {0} \cup Addrs, dev : {0} \cup DevIds, new : BOOLEAN,
   moved : BOOLEAN, quiet : BOOLEAN, res : {"ok", "IO"}]
DevRec ==
  [ref : Nat, ctx : {0} \cup CtxIds, addr : {0} \cup Addrs, ready : BOOLEAN, dir : BOOLEAN, cached : -1 .. 2, opens : Nat]
HandleRec == [dev : {0} \cup DevIds, claimed : BOOLEAN, is_open : BOOLEAN, gone : BOOLEAN]

\* The ranges of the variables
DevicesTypeInv ==
  /\ host \in Hosts /\ bus \subseteq Addrs /\ plugs \in 0 .. MaxPlugs /\ conf \in [Addrs -> Configs]
  /\ owner \in [Addrs -> HandleIds \cup {Nobody, Driver}] /\ opener \in [Addrs -> {0} \cup DevIds]
  /\ st \in Linux!Statics
  /\ alive \subseteq CtxIds /\ default \in {0} \cup CtxIds /\ refs \in Nat
  /\ backend \in [count : Int, runs : {0} \cup CtxIds]
  /\ devs \in [DevIds -> DevRec] /\ th \in [Callers -> CallerRec] /\ hs \in [HandleIds -> HandleRec] /\ wild \in BOOLEAN
  /\ past \subseteq Perils

\* What a thread may hold where it is: a device it creates while it works on
\* one, discoveries while it lists, a list and handles in a context.
WellFormed(r) ==
  /\ r.new => r.pc \in Working
  /\ r.pc \in Working => r.dev # 0
  /\ r.pc \in {"out", "starting", "idle", "freeing", "stopping", "listed"} => r.disc = <<>>
  /\ r.pc \notin {"idle", "listed"} => r.list = <<>>
  /\ r.pc \in {"out", "starting"} <=> r.ctx = 0
PlacesInv ==
  /\ \A t \in Callers : WellFormed(th[t])
  /\ \A t \in Callers, s \in Slots : hs[<<t, s>>].dev # 0 => th[t].pc \notin Absent

\* The references, and how often a device is open
RefsInv ==
  \A d \in DevIds :
    /\ IsFiniteSet(Listings(d))
    /\ devs[d].ref = Cardinality(HandlesOn(d)) + Cardinality(Creators(d)) + Cardinality(Listings(d))
    /\ devs[d].opens = IF onDarwin THEN Cardinality(HandlesOn(d)) ELSE 0

-----------------------------------------------------------------------------
\* What is assumed of the constants, spelled out
LEMMA DeviceNumbers ==
  /\ IsFiniteSet(Callers) /\ Cardinality(Callers) \in Nat /\ IsFiniteSet(HandleIds) /\ IsFiniteSet(Addrs)
  /\ Cardinality(Addrs) \in Nat /\ Addrs = 1 .. Cardinality(Addrs) /\ 1 \in Addrs
  /\ DevIds \subseteq Nat \ {0} /\ CtxIds \subseteq Nat \ {0} /\ IsFiniteSet(CtxIds) /\ Cardinality(CtxIds) = Cardinality(Callers) + 1
  /\ ListStep \in Nat \ {0} /\ MaxPlugs \in Nat
<1>1. IsFiniteSet(Callers) /\ IsFiniteSet(HandleIds) /\ IsFiniteSet(Addrs) /\ MaxDevs \in Nat \ {0} /\ ListStep \in Nat \ {0}
  BY DeviceAssumption
<1>2. Cardinality(Callers) \in Nat /\ Cardinality(Addrs) \in Nat
  BY <1>1, FS_CardinalityType
<1>3. IsFiniteSet(CtxIds) /\ Cardinality(CtxIds) = Cardinality(Callers) + 1
  BY <1>2, UpTo DEF CtxIds
<1> QED
  BY <1>1, <1>2, <1>3, DeviceAssumption DEF DevIds, CtxIds

\* What a record of a thread holds: places and a new device
HeldOf(r) == r.list \o r.disc
NewOf(r, d) == IF r.new /\ r.dev = d THEN 1 ELSE 0
PlacesOf(d, s) == {i \in DOMAIN s : s[i] = d}

\* How often a device is in a sequence
LEMMA OccursIs ==
  ASSUME NEW s \in Seq(DevIds), NEW d \in DevIds
  PROVE  /\ IsFiniteSet(PlacesOf(d, s)) /\ Occurs(d, s) = Cardinality(PlacesOf(d, s)) /\ Occurs(d, s) \in Nat
         /\ Occurs(d, s) = 0 <=> d \notin ToSet(s)
<1>1. Len(s) \in Nat /\ DOMAIN s = 1 .. Len(s) /\ ToSet(s) = {s[k] : k \in 1 .. Len(s)}
  BY QueueElements
<1>2. IsFiniteSet(1 .. Len(s)) /\ PlacesOf(d, s) \in SUBSET (1 .. Len(s))
  BY <1>1, UpTo DEF PlacesOf
<1>3. IsFiniteSet(PlacesOf(d, s)) /\ Cardinality(PlacesOf(d, s)) \in Nat
  BY <1>2, FS_Subset, FS_CardinalityType
<1>4. Cardinality(PlacesOf(d, s)) = 0 <=> PlacesOf(d, s) = {}
  BY <1>3, FS_EmptySet
<1>5. PlacesOf(d, s) = {} <=> d \notin ToSet(s)
  BY <1>1 DEF PlacesOf
<1> QED
  BY <1>3, <1>4, <1>5 DEF Occurs, PlacesOf

\* Appending a device to a discovery
LEMMA OccursMore ==
  ASSUME NEW s \in Seq(DevIds), NEW d \in DevIds, NEW e \in DevIds
  PROVE  Occurs(d, Append(s, e)) = Occurs(d, s) + (IF d = e THEN 1 ELSE 0)
<1> DEFINE n == Len(s) + 1
           a == Append(s, e)
<1>1. /\ Len(s) \in Nat /\ DOMAIN s = 1 .. Len(s) /\ DOMAIN a = 1 .. n /\ n = Len(s) + 1
      /\ a[n] = e /\ \A k \in 1 .. Len(s) : a[k] = s[k]
  OBVIOUS
<1> HIDE DEF n, a
<1>2. (d = e => PlacesOf(d, a) = PlacesOf(d, s) \cup {n}) /\ (d # e => PlacesOf(d, a) = PlacesOf(d, s))
  <2>1. n \in Nat /\ \A k \in 1 .. n : k = n \/ k \in 1 .. Len(s)
    BY <1>1
  <2>2. \A k \in 1 .. Len(s) : k \in 1 .. n /\ (a[k] = d <=> s[k] = d)
    BY <1>1
  <2>3. a[n] = d <=> d = e
    BY <1>1
  <2>4. n \in 1 .. n
    BY <1>1
  <2>5. PlacesOf(d, a) = {k \in 1 .. n : a[k] = d} /\ PlacesOf(d, s) = {k \in 1 .. Len(s) : s[k] = d}
    BY <1>1 DEF PlacesOf
  <2>6. ASSUME d = e PROVE PlacesOf(d, a) = PlacesOf(d, s) \cup {n}
    BY <2>1, <2>2, <2>3, <2>4, <2>5, <2>6
  <2>7. ASSUME d # e PROVE PlacesOf(d, a) = PlacesOf(d, s)
    BY <2>1, <2>2, <2>3, <2>5, <2>7
  <2> QED
    BY <2>6, <2>7
<1>3. n \notin PlacesOf(d, s) /\ IsFiniteSet(PlacesOf(d, s)) /\ Cardinality(PlacesOf(d, s)) \in Nat
  <2>1. n \notin PlacesOf(d, s)
    BY <1>1 DEF PlacesOf
  <2>2. IsFiniteSet(PlacesOf(d, s)) /\ Cardinality(PlacesOf(d, s)) \in Nat
    BY OccursIs
  <2> QED
    BY <2>1, <2>2
<1>4. Cardinality(PlacesOf(d, s) \cup {n}) = Cardinality(PlacesOf(d, s)) + 1
  BY <1>3, FS_AddElement
<1>5. Occurs(d, a) = Cardinality(PlacesOf(d, a)) /\ Occurs(d, s) = Cardinality(PlacesOf(d, s))
  BY DEF Occurs, PlacesOf
<1>6. Occurs(d, a) = Occurs(d, s) + (IF d = e THEN 1 ELSE 0)
  <2>1. ASSUME d = e PROVE Cardinality(PlacesOf(d, a)) = Cardinality(PlacesOf(d, s)) + 1
    BY <1>2, <1>4, <2>1
  <2>2. ASSUME d # e PROVE Cardinality(PlacesOf(d, a)) = Cardinality(PlacesOf(d, s))
    BY <1>2, <2>2
  <2> QED
    BY <1>3, <1>5, <2>1, <2>2
<1> QED
  BY <1>6 DEF a

\* Nothing is nowhere.
LEMMA OccursNot ==
  ASSUME NEW d \in DevIds
  PROVE  Occurs(d, <<>>) = 0 /\ \A s \in Seq(DevIds) : <<>> \o s = s /\ s \o <<>> = s
<1>1. <<>> \in Seq(DevIds) /\ DOMAIN <<>> = {}
  OBVIOUS
<1>2. PlacesOf(d, <<>>) = {}
  BY <1>1 DEF PlacesOf
<1>3. Occurs(d, <<>>) = 0
  BY <1>2, FS_EmptySet DEF Occurs, PlacesOf
<1> QED
  BY <1>3

\* The references that threads have, by what each one is
CreatorsIn(f, d) == {t \in Callers : f[t].new /\ f[t].dev = d}
ListingsIn(f, d) == UNION {{t} \X PlacesOf(d, HeldOf(f[t])) : t \in Callers}

\* The two ways to write who has a reference
LEMMA ReferencesAre ==
  ASSUME NEW d PROVE Creators(d) = CreatorsIn(th, d) /\ Listings(d) = ListingsIn(th, d)
  BY DEF Creators, Listings, CreatorsIn, ListingsIn, Held, HeldOf, PlacesOf

\* There are as many places of a sequence as pairs of its owner and a place.
LEMMA Owned ==
  ASSUME NEW t, NEW P, IsFiniteSet(P)
  PROVE  IsFiniteSet({t} \X P) /\ Cardinality({t} \X P) = Cardinality(P)
<1> DEFINE f == [i \in P |-> <<t, i>>]
<1>1. f \in Bijection(P, {t} \X P)
  BY DEF Bijection, Injection, Surjection, IsInjective
<1>2. ExistsBijection(P, {t} \X P)
  BY <1>1 DEF ExistsBijection
<1> QED
  BY <1>2, FS_Bijection

\* When one thread changes, what it holds is counted anew.
LEMMA Recount ==
  ASSUME NEW f \in [Callers -> CallerRec], NEW t \in Callers, NEW r \in CallerRec, NEW d \in DevIds,
         IsFiniteSet(ListingsIn(f, d))
  PROVE  LET g == [f EXCEPT ![t] = r]
         IN  /\ IsFiniteSet(ListingsIn(g, d))
             /\ Cardinality(ListingsIn(g, d)) + Occurs(d, HeldOf(f[t])) = Cardinality(ListingsIn(f, d)) + Occurs(d, HeldOf(r))
             /\ Cardinality(CreatorsIn(g, d)) + NewOf(f[t], d) = Cardinality(CreatorsIn(f, d)) + NewOf(r, d)
<1> DEFINE g == [f EXCEPT ![t] = r]
           O == UNION {{u} \X PlacesOf(d, HeldOf(f[u])) : u \in Callers \ {t}}
           P == PlacesOf(d, HeldOf(f[t]))
           Q == PlacesOf(d, HeldOf(r))
<1>1. f[t] \in CallerRec /\ HeldOf(f[t]) \in Seq(DevIds) /\ HeldOf(r) \in Seq(DevIds)
  BY DEF CallerRec, HeldOf
<1>2. /\ IsFiniteSet(P) /\ IsFiniteSet(Q)
      /\ Occurs(d, HeldOf(f[t])) = Cardinality(P) /\ Occurs(d, HeldOf(r)) = Cardinality(Q)
      /\ Cardinality(P) \in Nat /\ Cardinality(Q) \in Nat
  BY <1>1, OccursIs
<1>3. /\ IsFiniteSet({t} \X P) /\ Cardinality({t} \X P) = Cardinality(P)
      /\ IsFiniteSet({t} \X Q) /\ Cardinality({t} \X Q) = Cardinality(Q)
  BY <1>2, Owned
<1>4. g[t] = r /\ \A u \in Callers \ {t} : g[u] = f[u]
  OBVIOUS
<1>5. ListingsIn(f, d) = O \cup ({t} \X P) /\ ListingsIn(g, d) = O \cup ({t} \X Q)
  <2>1. ListingsIn(f, d) = O \cup ({t} \X P)
    BY DEF ListingsIn
  <2>2. ListingsIn(g, d) = O \cup ({t} \X Q)
    <3> HIDE DEF g
    <3> QED
      BY <1>4 DEF ListingsIn
  <2> QED
    BY <2>1, <2>2
<1>6. O \cap ({t} \X P) = {} /\ O \cap ({t} \X Q) = {}
  OBVIOUS
<1>7. IsFiniteSet(O) /\ Cardinality(O) \in Nat
  <2>1. O \in SUBSET ListingsIn(f, d)
    BY <1>5
  <2> QED
    BY <2>1, FS_Subset, FS_CardinalityType
<1>8. /\ IsFiniteSet(ListingsIn(g, d)) /\ Cardinality(ListingsIn(g, d)) = Cardinality(O) + Cardinality(Q)
      /\ Cardinality(ListingsIn(f, d)) = Cardinality(O) + Cardinality(P)
  <2> HIDE DEF O, P, Q, g
  <2>1. Cardinality({}) = 0
    BY FS_EmptySet
  <2>2. Cardinality(O \cup ({t} \X P)) = Cardinality(O) + Cardinality({t} \X P) - Cardinality(O \cap ({t} \X P))
    BY <1>7, <1>3, FS_Union
  <2>3. /\ IsFiniteSet(O \cup ({t} \X Q))
        /\ Cardinality(O \cup ({t} \X Q)) = Cardinality(O) + Cardinality({t} \X Q) - Cardinality(O \cap ({t} \X Q))
    BY <1>7, <1>3, FS_Union
  <2>4. IsFiniteSet(ListingsIn(g, d))
    BY <1>5, <2>3
  <2>5. Cardinality(ListingsIn(f, d)) = Cardinality(O) + Cardinality(P) - 0
    BY <1>3, <1>5, <1>6, <2>1, <2>2
  <2>6. Cardinality(ListingsIn(g, d)) = Cardinality(O) + Cardinality(Q) - 0
    BY <1>3, <1>5, <1>6, <2>1, <2>3
  <2> QED
    BY <1>2, <1>7, <2>4, <2>5, <2>6
<1>9. Cardinality(CreatorsIn(g, d)) + NewOf(f[t], d) = Cardinality(CreatorsIn(f, d)) + NewOf(r, d)
  <2> DEFINE C == CreatorsIn(f, d) \ {t}
  <2>1. C \in SUBSET Callers /\ IsFiniteSet(Callers)
    BY DeviceNumbers DEF CreatorsIn
  <2>2. IsFiniteSet(C) /\ Cardinality(C) \in Nat /\ t \notin C
    BY <2>1, FS_Subset, FS_CardinalityType
  <2>3. Cardinality(C \cup {t}) = Cardinality(C) + 1
    BY <2>2, FS_AddElement
  <2>4. CreatorsIn(f, d) = IF f[t].new /\ f[t].dev = d THEN C \cup {t} ELSE C
    BY DEF CreatorsIn
  <2>5. CreatorsIn(g, d) = IF r.new /\ r.dev = d THEN C \cup {t} ELSE C
    <3> HIDE DEF g
    <3> QED
      BY <1>4 DEF CreatorsIn
  <2> HIDE DEF C, g
  <2> QED
    BY <2>2, <2>3, <2>4, <2>5 DEF NewOf
<1> HIDE DEF O, P, Q
<1> QED
  BY <1>2, <1>7, <1>8, <1>9

\* What a handle refers to
HandlesIn(f, d) == {h \in HandleIds : f[h].dev = d}
OnOf(r, d) == IF r.dev = d THEN 1 ELSE 0

\* When one handle changes, what handles refer to is counted anew.
LEMMA RecountHandles ==
  ASSUME NEW f \in [HandleIds -> HandleRec], NEW h \in HandleIds, NEW r \in HandleRec, NEW d \in DevIds
  PROVE  LET g == [f EXCEPT ![h] = r]
         IN  /\ Cardinality(HandlesIn(f, d)) \in Nat /\ Cardinality(HandlesIn(g, d)) \in Nat
             /\ Cardinality(HandlesIn(g, d)) + OnOf(f[h], d) = Cardinality(HandlesIn(f, d)) + OnOf(r, d)
<1> DEFINE g == [f EXCEPT ![h] = r]
           C == HandlesIn(f, d) \ {h}
<1>1. C \in SUBSET HandleIds /\ IsFiniteSet(HandleIds) /\ HandlesIn(f, d) \in SUBSET HandleIds /\ HandlesIn(g, d) \in SUBSET HandleIds
  BY DeviceNumbers DEF HandlesIn
<1>2. IsFiniteSet(C) /\ Cardinality(C) \in Nat /\ h \notin C
  BY <1>1, FS_Subset, FS_CardinalityType
<1>3. Cardinality(C \cup {h}) = Cardinality(C) + 1
  BY <1>2, FS_AddElement
<1>4. HandlesIn(f, d) = IF f[h].dev = d THEN C \cup {h} ELSE C
  BY DEF HandlesIn
<1>5. g[h] = r /\ \A i \in HandleIds \ {h} : g[i] = f[i]
  OBVIOUS
<1>6. HandlesIn(g, d) = IF r.dev = d THEN C \cup {h} ELSE C
  <2> HIDE DEF g
  <2> QED
    BY <1>5 DEF HandlesIn
<1> HIDE DEF C, g
<1>7. Cardinality(HandlesIn(f, d)) = Cardinality(C) + OnOf(f[h], d) /\ Cardinality(HandlesIn(g, d)) = Cardinality(C) + OnOf(r, d)
  BY <1>2, <1>3, <1>4, <1>6 DEF OnOf
<1>8. Cardinality(HandlesIn(f, d)) \in Nat /\ Cardinality(HandlesIn(g, d)) \in Nat
  BY <1>2, <1>7 DEF OnOf
<1>9. Cardinality(HandlesIn(g, d)) + OnOf(f[h], d) = Cardinality(HandlesIn(f, d)) + OnOf(r, d)
  BY <1>2, <1>7 DEF OnOf
<1> QED
  BY <1>8, <1>9 DEF g

\* The two ways to write which handles are on a device
LEMMA HandlesAre ==
  ASSUME NEW d PROVE HandlesOn(d) = HandlesIn(hs, d)
  BY DEF HandlesOn, HandlesIn

\* What is held is counted.
LEMMA HeldCounted ==
  ASSUME DevicesTypeInv, RefsInv, NEW t \in Callers, NEW d \in DevIds
  PROVE  /\ Cardinality(HandlesOn(d)) \in Nat /\ Cardinality(Creators(d)) \in Nat /\ Cardinality(Listings(d)) \in Nat
         /\ NewOf(th[t], d) \in Nat /\ Occurs(d, HeldOf(th[t])) \in Nat
         /\ NewOf(th[t], d) <= Cardinality(Creators(d)) /\ Occurs(d, HeldOf(th[t])) <= Cardinality(Listings(d))
         /\ devs[d].ref = Cardinality(HandlesOn(d)) + Cardinality(Creators(d)) + Cardinality(Listings(d))
         /\ \A h \in HandleIds : hs[h].dev = d => Cardinality(HandlesOn(d)) > 0
<1> DEFINE r == [th[t] EXCEPT !.list = <<>>, !.disc = <<>>, !.new = FALSE]
           g == [th EXCEPT ![t] = r]
<1>1. th \in [Callers -> CallerRec] /\ th[t] \in CallerRec /\ hs \in [HandleIds -> HandleRec]
  BY DEF DevicesTypeInv
<1>2. r \in CallerRec /\ r.list = <<>> /\ r.disc = <<>> /\ r.new = FALSE
  <2>1. <<>> \in Seq(DevIds)
    OBVIOUS
  <2>2. r \in CallerRec
    BY <1>1, <2>1 DEF CallerRec
  <2>3. r.list = <<>> /\ r.disc = <<>> 
    BY <1>1 DEF CallerRec
  <2>4. r.new = FALSE
    BY <1>1 DEF CallerRec
  <2> QED
    BY <2>2, <2>3, <2>4
<1>3. g \in [Callers -> CallerRec]
  BY <1>1, <1>2
<1>4. HeldOf(r) = <<>> /\ NewOf(r, d) = 0 /\ HeldOf(th[t]) \in Seq(DevIds) /\ NewOf(th[t], d) \in Nat
  BY <1>1, <1>2 DEF HeldOf, NewOf, CallerRec
<1>5. Occurs(d, HeldOf(r)) = 0 /\ Occurs(d, HeldOf(th[t])) \in Nat
  BY <1>4, OccursNot, OccursIs
<1>6. IsFiniteSet(ListingsIn(th, d)) /\ devs[d].ref = Cardinality(HandlesOn(d)) + Cardinality(Creators(d)) + Cardinality(Listings(d))
  BY ReferencesAre DEF RefsInv
<1> HIDE DEF r, g
<1>7. /\ IsFiniteSet(ListingsIn(g, d))
      /\ Cardinality(ListingsIn(g, d)) + Occurs(d, HeldOf(th[t])) = Cardinality(ListingsIn(th, d)) + Occurs(d, HeldOf(r))
      /\ Cardinality(CreatorsIn(g, d)) + NewOf(th[t], d) = Cardinality(CreatorsIn(th, d)) + NewOf(r, d)
  BY <1>1, <1>2, <1>6, Recount DEF g
<1>8. CreatorsIn(g, d) \in SUBSET Callers /\ CreatorsIn(th, d) \in SUBSET Callers /\ HandlesOn(d) \in SUBSET HandleIds
  BY DEF CreatorsIn, HandlesOn
<1>9. /\ Cardinality(CreatorsIn(g, d)) \in Nat /\ Cardinality(CreatorsIn(th, d)) \in Nat
      /\ Cardinality(HandlesOn(d)) \in Nat /\ IsFiniteSet(HandlesOn(d))
      /\ Cardinality(ListingsIn(g, d)) \in Nat /\ Cardinality(ListingsIn(th, d)) \in Nat
  BY <1>6, <1>7, <1>8, DeviceNumbers, FS_Subset, FS_CardinalityType
<1>10. ASSUME NEW h \in HandleIds, hs[h].dev = d PROVE Cardinality(HandlesOn(d)) > 0
  <2>1. HandlesOn(d) # {}
    BY <1>10 DEF HandlesOn
  <2> QED
    BY <2>1, <1>9, FS_EmptySet
<1>11. /\ NewOf(th[t], d) <= Cardinality(CreatorsIn(th, d)) /\ Occurs(d, HeldOf(th[t])) <= Cardinality(ListingsIn(th, d))
  BY <1>4, <1>5, <1>7, <1>9
<1> QED
  BY <1>4, <1>5, <1>6, <1>9, <1>10, <1>11, ReferencesAre

\* A device nobody has is not open, and nobody works on it.
LEMMA NobodyHas ==
  ASSUME DevicesTypeInv, RefsInv, NEW d \in DevIds, ~Exists(d)
  PROVE  /\ Cardinality(HandlesOn(d)) = 0 /\ Cardinality(Creators(d)) = 0 /\ Cardinality(Listings(d)) = 0
         /\ devs[d].opens = 0 /\ devs[d].ref = 0
<1>1. devs[d].ref \in Nat /\ ~(devs[d].ref > 0)
  BY DEF DevicesTypeInv, DevRec, Exists
<1>2. HandlesOn(d) \in SUBSET HandleIds /\ Creators(d) \in SUBSET Callers /\ IsFiniteSet(Listings(d))
  BY DEF HandlesOn, Creators, RefsInv
<1>3. Cardinality(HandlesOn(d)) \in Nat /\ Cardinality(Creators(d)) \in Nat /\ Cardinality(Listings(d)) \in Nat
  BY <1>2, DeviceNumbers, FS_Subset, FS_CardinalityType
<1>4. /\ devs[d].ref = Cardinality(HandlesOn(d)) + Cardinality(Creators(d)) + Cardinality(Listings(d))
      /\ devs[d].opens = IF onDarwin THEN Cardinality(HandlesOn(d)) ELSE 0
  BY DEF RefsInv
<1>5. Cardinality(HandlesOn(d)) = 0 /\ Cardinality(Creators(d)) = 0 /\ Cardinality(Listings(d)) = 0
  BY <1>1, <1>3, <1>4
<1> QED
  BY <1>1, <1>4, <1>5

-----------------------------------------------------------------------------
\* What happens to a device object while it lives: its context stays, and it
\* stays ready; the references it loses do not matter to how often it is open.
Lives(D, E) == \A d \in DevIds : D[d].ref > 0 /\ E[d].ref > 0 => E[d].ctx = D[d].ctx /\ (D[d].ready => E[d].ready)
Keeps(D, E) == Lives(D, E) /\ \A d \in DevIds : E[d].opens = D[d].opens \/ (E[d].ref = 0 /\ E[d].opens = 0)

\* What does not change lives on.
LEMMA KeepsSame ==
  ASSUME NEW D \in [DevIds -> DevRec] PROVE Keeps(D, D)
  BY DEF Keeps, Lives

\* Two changes, one after the other
LEMMA KeepsOn ==
  ASSUME NEW D \in [DevIds -> DevRec], NEW E \in [DevIds -> DevRec], NEW F \in [DevIds -> DevRec], Keeps(D, E), Keeps(E, F),
         \A d \in DevIds : E[d].ref = 0 => F[d].ref = 0
  PROVE  Keeps(D, F)
<1> SUFFICES ASSUME NEW d \in DevIds
             PROVE  /\ D[d].ref > 0 /\ F[d].ref > 0 => F[d].ctx = D[d].ctx /\ (D[d].ready => F[d].ready)
                    /\ F[d].opens = D[d].opens \/ (F[d].ref = 0 /\ F[d].opens = 0)
  BY DEF Keeps, Lives
<1>1. D[d] \in DevRec /\ E[d] \in DevRec /\ F[d] \in DevRec
  OBVIOUS
<1>2. E[d].ref \in Nat /\ F[d].ref \in Nat
  BY <1>1 DEF DevRec
<1>3. /\ D[d].ref > 0 /\ E[d].ref > 0 => E[d].ctx = D[d].ctx /\ (D[d].ready => E[d].ready)
      /\ E[d].opens = D[d].opens \/ (E[d].ref = 0 /\ E[d].opens = 0)
      /\ E[d].ref > 0 /\ F[d].ref > 0 => F[d].ctx = E[d].ctx /\ (E[d].ready => F[d].ready)
      /\ F[d].opens = E[d].opens \/ (F[d].ref = 0 /\ F[d].opens = 0)
      /\ E[d].ref = 0 => F[d].ref = 0
  BY DEF Keeps, Lives
<1> QED
  BY <1>2, <1>3

\* The fields of a device object that is free
LEMMA NoDevIs == NoDev \in DevRec /\ NoDev.ref = 0 /\ NoDev.opens = 0
<1>1. NoDev \in DevRec
  BY DEF NoDev, DevRec
<1> QED
  BY <1>1 DEF NoDev

\* A reference is taken (libusb_ref_device).
LEMMA RefIs ==
  ASSUME NEW D \in [DevIds -> DevRec], NEW d \in DevIds
  PROVE  /\ Ref(D, d) \in [DevIds -> DevRec] /\ Ref(D, d)[d] = [D[d] EXCEPT !.ref = @ + 1] /\ Ref(D, d)[d].ref = D[d].ref + 1
         /\ \A e \in DevIds \ {d} : Ref(D, d)[e] = D[e]
         /\ Keeps(D, Ref(D, d))
<1> DEFINE E == Ref(D, d)
           x == [D[d] EXCEPT !.ref = @ + 1]
<1>1. D[d] \in DevRec /\ D[d].ref \in Nat
  BY DEF DevRec
<1>2. x \in DevRec /\ x.ref = D[d].ref + 1 /\ x.ctx = D[d].ctx /\ x.ready = D[d].ready /\ x.opens = D[d].opens
  BY <1>1 DEF DevRec
<1>3. E = [D EXCEPT ![d] = x]
  BY DEF Ref
<1> HIDE DEF x, E
<1>4. E \in [DevIds -> DevRec] /\ E[d] = x /\ \A e \in DevIds \ {d} : E[e] = D[e]
  BY <1>2, <1>3
<1>5. Keeps(D, E)
  BY <1>2, <1>4 DEF Keeps, Lives
<1> QED
  BY <1>2, <1>4, <1>5 DEF E, x

\* A reference is given back (libusb_unref_device).
LEMMA UnrefIs ==
  ASSUME NEW D \in [DevIds -> DevRec], NEW d \in DevIds, D[d].ref > 0
  PROVE  /\ Unref(D, d) \in [DevIds -> DevRec] /\ Unref(D, d)[d].ref = D[d].ref - 1
         /\ \A e \in DevIds \ {d} : Unref(D, d)[e] = D[e]
         /\ Keeps(D, Unref(D, d))
<1> DEFINE E == Unref(D, d)
           m == D[d].ref - 1
           y == [D[d] EXCEPT !.ref = m]
           x == IF D[d].ref <= 1 THEN NoDev ELSE y
<1>1. D[d] \in DevRec /\ D[d].ref \in Nat \ {0}
  BY DEF DevRec
<1>2. y.ref = D[d].ref - 1 /\ y.ctx = D[d].ctx /\ y.ready = D[d].ready /\ y.opens = D[d].opens
  BY <1>1 DEF DevRec
<1>3. y \in DevRec
  <2>1. m \in Nat
    BY <1>1
  <2> HIDE DEF m
  <2> QED
    BY <1>1, <2>1 DEF DevRec
<1>4. E = [D EXCEPT ![d] = x]
  BY DEF Unref
<1> HIDE DEF y
<1>5. x \in DevRec /\ x.ref = D[d].ref - 1
  BY <1>1, <1>2, <1>3, NoDevIs
<1>6. x.ref > 0 => x.ctx = D[d].ctx /\ x.ready = D[d].ready
  BY <1>1, <1>2, NoDevIs
<1>7. x.opens = D[d].opens \/ (x.ref = 0 /\ x.opens = 0)
  BY <1>1, <1>2, NoDevIs
<1> HIDE DEF x, E
<1>8. E \in [DevIds -> DevRec] /\ E[d] = x /\ \A e \in DevIds \ {d} : E[e] = D[e]
  BY <1>4, <1>5
<1>9. Keeps(D, E)
  BY <1>6, <1>7, <1>8 DEF Keeps, Lives
<1> QED
  BY <1>5, <1>8, <1>9 DEF E

\* The references of a list are given back (discovered_devs_free).
LEMMA UnrefAllIs ==
  ASSUME NEW D \in [DevIds -> DevRec], NEW s \in Seq(DevIds), \A d \in DevIds : Occurs(d, s) <= D[d].ref
  PROVE  /\ UnrefAll(D, s) \in [DevIds -> DevRec]
         /\ \A d \in DevIds : UnrefAll(D, s)[d].ref = D[d].ref - Occurs(d, s)
         /\ Keeps(D, UnrefAll(D, s))
<1> DEFINE E == UnrefAll(D, s)
<1> SUFFICES ASSUME NEW d \in DevIds
             PROVE  /\ E[d] \in DevRec /\ E[d].ref = D[d].ref - Occurs(d, s)
                    /\ E[d].ref > 0 => E[d].ctx = D[d].ctx /\ E[d].ready = D[d].ready
                    /\ E[d].opens = D[d].opens \/ (E[d].ref = 0 /\ E[d].opens = 0)
  <2>1. \A d \in DevIds : /\ E[d] \in DevRec /\ E[d].ref = D[d].ref - Occurs(d, s)
                          /\ E[d].ref > 0 => E[d].ctx = D[d].ctx /\ E[d].ready = D[d].ready
                          /\ E[d].opens = D[d].opens \/ (E[d].ref = 0 /\ E[d].opens = 0)
    OBVIOUS
  <2>2. E = [d \in DevIds |-> E[d]]
    BY DEF UnrefAll
  <2> HIDE DEF E
  <2>3. E \in [DevIds -> DevRec]
    BY <2>1, <2>2
  <2>4. Keeps(D, E)
    BY <2>1 DEF Keeps, Lives
  <2> QED
    BY <2>1, <2>3, <2>4 DEF E
<1> DEFINE n == Occurs(d, s)
           y == [D[d] EXCEPT !.ref = @ - n]
<1>1. D[d] \in DevRec /\ D[d].ref \in Nat /\ n \in Nat /\ n <= D[d].ref /\ n = Occurs(d, s)
  BY OccursIs DEF DevRec
<1>2. E[d] = CASE n = 0 -> D[d] [] n > 0 /\ D[d].ref <= n -> NoDev [] OTHER -> y
  BY DEF UnrefAll
<1> HIDE DEF n, E
<1>0. D[d].ref - n \in Nat
  BY <1>1
<1>3. y.ref = D[d].ref - n /\ y.ctx = D[d].ctx /\ y.ready = D[d].ready /\ y.opens = D[d].opens
  BY <1>1 DEF DevRec
<1>4. y \in DevRec
  BY <1>0, <1>1 DEF DevRec
<1> HIDE DEF y
<1>5. CASE n = 0
  BY <1>1, <1>2, <1>5
<1>6. CASE n > 0 /\ D[d].ref <= n
  BY <1>1, <1>2, <1>6, NoDevIs
<1>7. CASE n > 0 /\ ~(D[d].ref <= n)
  BY <1>1, <1>2, <1>3, <1>4, <1>7
<1> QED
  BY <1>1, <1>5, <1>6, <1>7 DEF n

\* A device object that a call of the backend changes is the same to its users.
Same(x, y) == y.ref = x.ref /\ y.ctx = x.ctx /\ y.opens = x.opens /\ (x.ready => y.ready)

\* A descriptor that is kept does not matter to the users.
LEMMA CachedSame ==
  ASSUME NEW x \in DevRec, NEW c \in -1 .. 2
  PROVE  LET y == [x EXCEPT !.cached = c] IN y \in DevRec /\ Same(x, y) /\ Same(x, x)
<1> DEFINE y == [x EXCEPT !.cached = c]
<1>1. y \in DevRec
  BY DEF DevRec
<1>2. y.ref = x.ref /\ y.ctx = x.ctx /\ y.opens = x.opens /\ y.ready = x.ready
  BY DEF DevRec
<1> HIDE DEF y
<1>3. Same(x, y) /\ Same(x, x)
  BY <1>2 DEF Same
<1> QED
  BY <1>1, <1>3 DEF y

\* The contexts: who uses the default one, which ones there are, and that
\* nobody else has one that is being freed; one thread at a time makes one, and
\* not the default one when that is there
Users == {t \in Callers : host.shared /\ th[t].pc \notin Absent}
ContextsInv ==
  /\ refs = Cardinality(Users) /\ (default # 0 <=> refs > 0)
  /\ alive = {th[t].ctx : t \in Callers} \ {0}
  /\ \A t \in Users : th[t].ctx = default
  /\ \A t \in Callers : th[t].pc \in Ended => th[t].ctx # default
  /\ \A t \in Callers : th[t].pc = "starting" => ~(host.shared /\ default # 0)
  /\ \A t, u \in Callers : th[t].pc = "starting" /\ th[u].pc = "starting" => t = u
  /\ \A t, u \in Callers : t # u /\ th[t].ctx = th[u].ctx /\ th[t].ctx # 0 => t \in Users /\ u \in Users
  /\ onDarwin /\ backend # Darwin!Adrift => backend.count = Cardinality(alive) /\ (backend.runs # 0 <=> alive # {})
  /\ ~onDarwin => backend.count = 0

DevicesInv == DevicesTypeInv /\ PlacesInv /\ RefsInv /\ ContextsInv

\* Threads that stay with their contexts
LEMMA ContextsSame ==
  ASSUME ContextsInv, UNCHANGED <<host, contextVars>>,
         \A t \in Callers : th'[t].ctx = th[t].ctx /\ (th'[t].pc = th[t].pc \/ {th'[t].pc, th[t].pc} \cap Absent = {})
  PROVE  ContextsInv'
<1>1. UNCHANGED <<host, alive, default, refs, backend>> /\ onDarwin' = onDarwin
  BY DEF contextVars, onDarwin
<1>3. \A t \in Callers : th'[t].ctx = th[t].ctx /\ (th'[t].pc \in Ended <=> th[t].pc \in Ended)
                         /\ (th'[t].pc \in Absent <=> th[t].pc \in Absent) /\ (th'[t].pc = "starting" <=> th[t].pc = "starting")
  BY DEF Ended, Absent
<1>2. Users' = Users
  BY <1>1, <1>3 DEF Users
<1>4. {th[t].ctx : t \in Callers}' = {th[t].ctx : t \in Callers}
  BY <1>3
<1>5. /\ refs' = Cardinality(Users') /\ (default' # 0 <=> refs' > 0) /\ alive' = {th[t].ctx : t \in Callers}' \ {0}
      /\ onDarwin' /\ backend' # Darwin!Adrift => backend'.count = Cardinality(alive') /\ (backend'.runs # 0 <=> alive' # {})
      /\ ~onDarwin' => backend'.count = 0
  BY <1>1, <1>2, <1>4 DEF ContextsInv
<1>6. \A t \in Users' : th'[t].ctx = default'
  BY <1>1, <1>2, <1>3 DEF ContextsInv, Users
<1>7. /\ \A t \in Callers : th'[t].pc \in Ended => th'[t].ctx # default'
      /\ \A t \in Callers : th'[t].pc = "starting" => ~(host'.shared /\ default' # 0)
      /\ \A t, u \in Callers : th'[t].pc = "starting" /\ th'[u].pc = "starting" => t = u
  BY <1>1, <1>3 DEF ContextsInv
<1>8. \A t, u \in Callers : t # u /\ th'[t].ctx = th'[u].ctx /\ th'[t].ctx # 0 => t \in Users' /\ u \in Users'
  BY <1>1, <1>2, <1>3 DEF ContextsInv
<1> QED
  BY <1>5, <1>6, <1>7, <1>8 DEF ContextsInv

\* A thread that moves
LEMMA ThreadMoves ==
  ASSUME DevicesTypeInv, PlacesInv, NEW t \in Callers, NEW r \in CallerRec, WellFormed(r), Set(t, r), UNCHANGED hs,
         r.pc \in Absent => \A s \in Slots : hs[<<t, s>>].dev = 0
  PROVE  th' \in [Callers -> CallerRec] /\ PlacesInv' /\ th'[t] = r /\ \A u \in Callers \ {t} : th'[u] = th[u]
<1>1. th \in [Callers -> CallerRec] /\ th' = [th EXCEPT ![t] = r]
  BY DEF DevicesTypeInv, Set
<1>2. th' \in [Callers -> CallerRec] /\ th'[t] = r /\ \A u \in Callers \ {t} : th'[u] = th[u]
  BY <1>1
<1>3. \A u \in Callers : WellFormed(th'[u])
  BY <1>2 DEF PlacesInv
<1>4. ASSUME NEW u \in Callers, NEW s \in Slots, hs[<<u, s>>].dev # 0 PROVE th'[u].pc \notin Absent
  BY <1>2, <1>4 DEF PlacesInv
<1> QED
  BY <1>2, <1>3, <1>4 DEF PlacesInv

\* A thread that moves within its context
LEMMA ContextsStay ==
  ASSUME ContextsInv, NEW t \in Callers, NEW r, th'[t] = r, \A u \in Callers \ {t} : th'[u] = th[u],
         r.ctx = th[t].ctx, {r.pc, th[t].pc} \cap Absent = {}, UNCHANGED <<host, contextVars>>
  PROVE  ContextsInv'
<1>1. \A u \in Callers : th'[u].ctx = th[u].ctx /\ (th'[u].pc = th[u].pc \/ {th'[u].pc, th[u].pc} \cap Absent = {})
  OBVIOUS
<1> QED
  BY <1>1, ContextsSame

\* A thread that moves, and what it refers to
LEMMA RefsMove ==
  ASSUME DevicesTypeInv, RefsInv, NEW t \in Callers, NEW r \in CallerRec, Set(t, r), UNCHANGED <<host, hs>>,
         devs' \in [DevIds -> DevRec], Keeps(devs, devs'),
         \A d \in DevIds : devs'[d].ref + NewOf(th[t], d) + Occurs(d, HeldOf(th[t])) = devs[d].ref + NewOf(r, d) + Occurs(d, HeldOf(r))
  PROVE  RefsInv'
<1> SUFFICES ASSUME NEW d \in DevIds
             PROVE  /\ IsFiniteSet(Listings(d)')
                    /\ devs'[d].ref = Cardinality(HandlesOn(d)') + Cardinality(Creators(d)') + Cardinality(Listings(d)')
                    /\ devs'[d].opens = IF onDarwin' THEN Cardinality(HandlesOn(d)') ELSE 0
  BY DEF RefsInv
<1>1. th \in [Callers -> CallerRec] /\ th' = [th EXCEPT ![t] = r] /\ onDarwin' = onDarwin
  BY DEF DevicesTypeInv, Set, onDarwin
<1>2. HandlesOn(d)' = HandlesOn(d)
  BY DEF HandlesOn
<1>3. Listings(d)' = ListingsIn(th', d) /\ Creators(d)' = CreatorsIn(th', d)
  BY DEF Creators, Listings, CreatorsIn, ListingsIn, Held, HeldOf, PlacesOf
<1>4. Listings(d) = ListingsIn(th, d) /\ Creators(d) = CreatorsIn(th, d) /\ IsFiniteSet(ListingsIn(th, d))
  BY ReferencesAre DEF RefsInv
<1>5. /\ IsFiniteSet(ListingsIn(th', d))
      /\ Cardinality(ListingsIn(th', d)) + Occurs(d, HeldOf(th[t])) = Cardinality(ListingsIn(th, d)) + Occurs(d, HeldOf(r))
      /\ Cardinality(CreatorsIn(th', d)) + NewOf(th[t], d) = Cardinality(CreatorsIn(th, d)) + NewOf(r, d)
  BY <1>1, <1>4, Recount
<1>6. CreatorsIn(th', d) \in SUBSET Callers
  BY DEF CreatorsIn
<1>7. Cardinality(CreatorsIn(th', d)) \in Nat /\ Cardinality(ListingsIn(th', d)) \in Nat
  BY <1>5, <1>6, DeviceNumbers, FS_Subset, FS_CardinalityType
<1>8. /\ Cardinality(HandlesOn(d)) \in Nat /\ Cardinality(CreatorsIn(th, d)) \in Nat /\ Cardinality(ListingsIn(th, d)) \in Nat
      /\ NewOf(th[t], d) \in Nat /\ Occurs(d, HeldOf(th[t])) \in Nat
      /\ devs[d].ref = Cardinality(HandlesOn(d)) + Cardinality(CreatorsIn(th, d)) + Cardinality(ListingsIn(th, d))
  BY <1>4, HeldCounted
<1>9. HeldOf(r) \in Seq(DevIds) /\ NewOf(r, d) \in Nat /\ devs'[d].ref \in Nat
  BY DEF HeldOf, NewOf, CallerRec, DevRec
<1>10. Occurs(d, HeldOf(r)) \in Nat
  BY <1>9, OccursIs
<1>11. devs'[d].ref + NewOf(th[t], d) + Occurs(d, HeldOf(th[t])) = devs[d].ref + NewOf(r, d) + Occurs(d, HeldOf(r))
  OBVIOUS
<1>12. /\ devs'[d].ref = Cardinality(HandlesOn(d)) + Cardinality(CreatorsIn(th', d)) + Cardinality(ListingsIn(th', d))
       /\ devs'[d].ref = 0 => Cardinality(HandlesOn(d)) = 0
  <2> DEFINE ref == devs[d].ref
             after == devs'[d].ref
             h == Cardinality(HandlesOn(d))
             c == Cardinality(CreatorsIn(th, d))
             l == Cardinality(ListingsIn(th, d))
             c1 == Cardinality(CreatorsIn(th', d))
             l1 == Cardinality(ListingsIn(th', d))
             n == NewOf(th[t], d)
             o == Occurs(d, HeldOf(th[t]))
             n1 == NewOf(r, d)
             o1 == Occurs(d, HeldOf(r))
  <2>3. h \in Nat /\ c \in Nat /\ l \in Nat /\ n \in Nat /\ o \in Nat /\ ref = h + c + l
    BY <1>8
  <2>4. l1 + o = l + o1 /\ c1 + n = c + n1
    BY <1>5
  <2>5. after \in Nat /\ c1 \in Nat /\ l1 \in Nat /\ n1 \in Nat /\ o1 \in Nat
    BY <1>7, <1>9, <1>10
  <2>1. /\ {after, h, c, l, c1, l1, n, o, n1, o1} \subseteq Nat
        /\ l1 + o = l + o1 /\ c1 + n = c + n1 /\ ref = h + c + l /\ after + n + o = ref + n1 + o1
    BY <1>11, <2>3, <2>4, <2>5
  <2> HIDE DEF ref, after, h, c, l, c1, l1, n, o, n1, o1
  <2>2. after = h + c1 + l1 /\ (after = 0 => h = 0)
    BY <2>1
  <2> QED
    BY <2>2 DEF after, h, c1, l1
<1>13. devs[d].opens = (IF onDarwin THEN Cardinality(HandlesOn(d)) ELSE 0) /\ (devs'[d].opens = devs[d].opens \/ (devs'[d].ref = 0 /\ devs'[d].opens = 0))
  BY DEF RefsInv, Keeps
<1> QED
  BY <1>1, <1>2, <1>3, <1>5, <1>12, <1>13

\* The fields of a thread outside of every context
LEMMA NoCallerIs ==
  /\ NoCaller \in CallerRec /\ WellFormed(NoCaller) /\ HeldOf(NoCaller) = <<>>
  /\ NoCaller.pc = "out" /\ NoCaller.ctx = 0 /\ NoCaller.list = <<>> /\ NoCaller.disc = <<>> /\ NoCaller.new = FALSE
<1>1. NoCaller \in CallerRec
  BY DEF NoCaller, CallerRec, Places
<1>2. NoCaller.pc = "out" /\ NoCaller.ctx = 0 /\ NoCaller.list = <<>> /\ NoCaller.disc = <<>> /\ NoCaller.new = FALSE
  BY DEF NoCaller
<1>3. WellFormed(NoCaller) /\ HeldOf(NoCaller) = <<>>
  BY <1>2 DEF WellFormed, Working, HeldOf
<1> QED
  BY <1>1, <1>2, <1>3

\* The counts hold before the first call.
LEMMA InitDevices == DevicesInit => DevicesInv
<1> SUFFICES ASSUME DevicesInit PROVE DevicesInv
  OBVIOUS
<1>1. DevIds \subseteq Nat \ {0} /\ 1 \in Addrs /\ Cardinality(Callers) \in Nat
  BY DeviceNumbers
<1>2. NoCaller \in CallerRec
  BY NoCallerIs
<1>3. th = [t \in Callers |-> NoCaller] /\ hs = [h \in HandleIds |-> NoHandle] /\ devs = [d \in DevIds |-> NoDev]
  BY DEF DevicesInit
<1>4. NoHandle \in HandleRec
  BY DEF NoHandle, HandleRec
<1>5. DevicesTypeInv
  <2>1. /\ host \in Hosts /\ bus \subseteq Addrs /\ plugs \in 0 .. MaxPlugs /\ conf \in [Addrs -> Configs]
        /\ opener \in [Addrs -> {0} \cup DevIds]
    BY <1>1, DeviceAssumption DEF DevicesInit, Configs, Linux!Configs
  <2>2. owner \in [Addrs -> HandleIds \cup {Nobody, Driver}]
    BY DEF DevicesInit
  <2>3. st \in Linux!Statics
    BY DEF DevicesInit, Linux!Statics, Linux!Unknown
  <2>4. alive \subseteq CtxIds /\ default \in {0} \cup CtxIds /\ refs \in Nat /\ backend \in [count : Int, runs : {0} \cup CtxIds]
    BY DEF DevicesInit
  <2>6. wild \in BOOLEAN /\ past \subseteq Perils
    BY DEF DevicesInit
  <2>5. devs \in [DevIds -> DevRec] /\ th \in [Callers -> CallerRec] /\ hs \in [HandleIds -> HandleRec]
    BY <1>2, <1>3, <1>4, NoDevIs
  <2> QED
    BY <2>1, <2>2, <2>3, <2>4, <2>5, <2>6 DEF DevicesTypeInv
<1>6. /\ NoCaller.pc = "out" /\ NoCaller.ctx = 0 /\ NoCaller.list = <<>> /\ NoCaller.disc = <<>> /\ NoCaller.new = FALSE
  BY NoCallerIs
<1>7. PlacesInv
  <2>1. WellFormed(NoCaller)
    BY NoCallerIs
  <2>2. \A t \in Callers, s \in Slots : hs[<<t, s>>].dev = 0
    BY <1>3 DEF HandleIds, NoHandle
  <2> QED
    BY <1>3, <2>1, <2>2 DEF PlacesInv
<1>8. RefsInv
  <2> SUFFICES ASSUME NEW d \in DevIds
               PROVE  /\ IsFiniteSet(Listings(d))
                      /\ devs[d].ref = Cardinality(HandlesOn(d)) + Cardinality(Creators(d)) + Cardinality(Listings(d))
                      /\ devs[d].opens = IF onDarwin THEN Cardinality(HandlesOn(d)) ELSE 0
    BY DEF RefsInv
  <2>1. \A t \in Callers : Held(t) = <<>> /\ th[t].new = FALSE
    BY <1>3, <1>6 DEF Held
  <2>2. Listings(d) = {}
    BY <2>1 DEF Listings
  <2>3. Creators(d) = {}
    BY <2>1 DEF Creators
  <2>4. HandlesOn(d) = {}
    BY <1>1, <1>3 DEF HandlesOn, NoHandle
  <2>5. devs[d].ref = 0 /\ devs[d].opens = 0
    BY <1>3 DEF NoDev
  <2>6. IsFiniteSet({}) /\ Cardinality({}) = 0
    BY FS_EmptySet
  <2> QED
    BY <2>2, <2>3, <2>4, <2>5, <2>6
<1>9. ContextsInv
  <2>1. \A t \in Callers : th[t].pc = "out" /\ th[t].ctx = 0
    BY <1>3, <1>6
  <2>2. Users = {} /\ {th[t].ctx : t \in Callers} \subseteq {0}
    BY <2>1 DEF Users, Absent
  <2>3. Cardinality({}) = 0
    BY FS_EmptySet
  <2>4. alive = {} /\ default = 0 /\ refs = 0 /\ backend.count = 0 /\ backend.runs = 0
    BY DEF DevicesInit
  <2> QED
    BY <2>1, <2>2, <2>3, <2>4 DEF ContextsInv, Ended
<1> QED
  BY <1>5, <1>7, <1>8, <1>9 DEF DevicesInv

\* What happened is not forgotten.
Remembers == past \subseteq past' /\ past' \subseteq Perils

\* A step of a thread that lists: it stays in its context, and what it holds
\* afterwards is what the devices count.
Moves(t, r) ==
  /\ r \in CallerRec /\ WellFormed(r) /\ Set(t, r)
  /\ r.ctx = th[t].ctx /\ {r.pc, th[t].pc} \cap Absent = {}
  /\ devs' \in [DevIds -> DevRec] /\ Keeps(devs, devs')
  /\ \A d \in DevIds : devs'[d].ref + NewOf(th[t], d) + Occurs(d, HeldOf(th[t])) = devs[d].ref + NewOf(r, d) + Occurs(d, HeldOf(r))
  /\ st' \in Linux!Statics /\ wild' \in BOOLEAN /\ Remembers /\ UNCHANGED <<host, kernelVars, opener, contextVars, hs>>

\* Such a step keeps the counts.
LEMMA MovesKeep ==
  ASSUME DevicesInv, NEW t \in Callers, NEW r, Moves(t, r)
  PROVE  DevicesInv'
<1>1. DevicesTypeInv /\ PlacesInv /\ RefsInv /\ ContextsInv
  BY DEF DevicesInv
<1>2. /\ r \in CallerRec /\ WellFormed(r) /\ Set(t, r) /\ r.ctx = th[t].ctx /\ {r.pc, th[t].pc} \cap Absent = {}
      /\ devs' \in [DevIds -> DevRec] /\ Keeps(devs, devs') /\ st' \in Linux!Statics /\ wild' \in BOOLEAN /\ past' \subseteq Perils
      /\ UNCHANGED <<host, bus, plugs, conf, owner, opener, alive, default, refs, backend, hs>> /\ UNCHANGED contextVars
  BY DEF Moves, kernelVars, contextVars, Remembers
<1>3. th' \in [Callers -> CallerRec] /\ PlacesInv' /\ th'[t] = r /\ \A u \in Callers \ {t} : th'[u] = th[u]
  BY <1>1, <1>2, ThreadMoves
<1>4. DevicesTypeInv'
  BY <1>1, <1>2, <1>3 DEF DevicesTypeInv
<1>5. ContextsInv'
  BY <1>1, <1>2, <1>3, ContextsStay
<1>6. RefsInv'
  BY <1>1, <1>2, RefsMove DEF Moves
<1> QED
  BY <1>3, <1>4, <1>5, <1>6 DEF DevicesInv

\* A step in which a thread keeps what it holds
LEMMA MovesOnly ==
  ASSUME DevicesInv, NEW t \in Callers, NEW r \in CallerRec, WellFormed(r), Set(t, r), r.ctx = th[t].ctx,
         {r.pc, th[t].pc} \cap Absent = {}, HeldOf(r) = HeldOf(th[t]), r.new = th[t].new,
         r.new => r.dev = th[t].dev, st' \in Linux!Statics,
         Remembers, UNCHANGED <<host, kernelVars, opener, contextVars, devs, hs, wild>>
  PROVE  Moves(t, r)
<1>1. devs \in [DevIds -> DevRec] /\ wild \in BOOLEAN /\ devs' = devs /\ wild' = wild
  BY DEF DevicesInv, DevicesTypeInv
<1>2. Keeps(devs, devs')
  BY <1>1, KeepsSame
<1>3. \A d \in DevIds : NewOf(r, d) = NewOf(th[t], d)
  BY DEF NewOf
<1> QED
  BY <1>1, <1>2, <1>3 DEF Moves

-----------------------------------------------------------------------------
(***************************************************************************)
(* Listing                                                                 *)
(***************************************************************************)

\* The fields of a thread that is somewhere
LEMMA ThreadIs ==
  ASSUME DevicesInv, NEW t \in Callers
  PROVE  /\ th[t] \in CallerRec /\ th[t].pc \in Places /\ th[t].list \in Seq(DevIds) /\ th[t].disc \in Seq(DevIds)
         /\ WellFormed(th[t]) /\ HeldOf(th[t]) \in Seq(DevIds) /\ DOMAIN th = Callers
         /\ th[t].list = <<>> => HeldOf(th[t]) = th[t].disc
         /\ th[t].disc = <<>> => HeldOf(th[t]) = th[t].list
<1>1. th \in [Callers -> CallerRec] /\ WellFormed(th[t])
  BY DEF DevicesInv, DevicesTypeInv, PlacesInv
<1>2. th[t] \in CallerRec
  BY <1>1
<1>3. th[t].pc \in Places /\ th[t].list \in Seq(DevIds) /\ th[t].disc \in Seq(DevIds)
  BY <1>2 DEF CallerRec
<1>4. MaxDevs \in Nat /\ 1 \in DevIds
  BY DeviceAssumption DEF DevIds
<1>5. \A s \in Seq(DevIds) : <<>> \o s = s /\ s \o <<>> = s
  BY <1>4, OccursNot
<1>6. HeldOf(th[t]) \in Seq(DevIds)
  BY <1>3 DEF HeldOf
<1> QED
  BY <1>1, <1>2, <1>3, <1>5, <1>6 DEF HeldOf

\* A listing that starts has discovered nothing.
LEMMA GetDeviceListMoves ==
  ASSUME DevicesInv, NEW t \in Callers, GetDeviceList(t)
  PROVE  Moves(t, th'[t])
<1> DEFINE m == IF onDarwin THEN "iokit" ELSE Linux!FirstMode(st)
           r == [StartScan(th[t], m) EXCEPT !.disc = <<>>, !.quiet = TRUE]
<1>1. /\ th[t] \in CallerRec /\ WellFormed(th[t]) /\ th[t].pc = "idle" /\ th[t].list = <<>> /\ bus \subseteq Addrs
      /\ th \in [Callers -> CallerRec] /\ st \in Linux!Statics
  BY ThreadIs DEF GetDeviceList, DevicesInv, DevicesTypeInv
<1>2. m \in {"sysfs", "usbfs", "iokit"}
  BY DEF Linux!FirstMode
<1>3. Set(t, r) /\ Remembers /\ UNCHANGED <<host, kernelVars, opener, st, contextVars, devs, hs, wild>>
  BY DEF GetDeviceList, DevicesInv, DevicesTypeInv, Remembers, Notes, Perils
<1> HIDE DEF m
<1>4. <<>> \in Seq(DevIds)
  OBVIOUS
<1>5. r \in CallerRec
  BY <1>1, <1>2, <1>4 DEF CallerRec, StartScan, Places
<1>6. /\ r.pc = "scan" /\ r.list = th[t].list /\ r.disc = <<>> /\ r.new = th[t].new /\ r.dev = th[t].dev /\ r.ctx = th[t].ctx
  BY <1>1 DEF StartScan, CallerRec
<1> HIDE DEF r
<1>7. th'[t] = r
  BY <1>1, <1>3 DEF Set
<1>8. WellFormed(r) /\ HeldOf(r) = HeldOf(th[t])
  BY <1>1, <1>6 DEF WellFormed, Working, HeldOf
<1> QED
  BY <1>1, <1>3, <1>5, <1>6, <1>7, <1>8, MovesOnly DEF Absent

\* The discoveries become the list when the directory ends.
LEMMA NextEntryMoves ==
  ASSUME DevicesInv, NEW t \in Callers, NextEntry(t)
  PROVE  Moves(t, th'[t])
<1>1. /\ th[t] \in CallerRec /\ WellFormed(th[t]) /\ th[t].pc = "scan" /\ bus \subseteq Addrs
      /\ th \in [Callers -> CallerRec] /\ st \in Linux!Statics
  BY ThreadIs DEF NextEntry, DevicesInv, DevicesTypeInv
<1>2. Remembers /\ UNCHANGED <<host, kernelVars, opener, st, contextVars, devs, hs, wild>>
  BY DEF NextEntry, DevicesInv, DevicesTypeInv, Remembers
<1>3. th[t].list = <<>> /\ th[t].new = FALSE /\ th[t].disc \in Seq(DevIds) /\ th[t].seen \subseteq Addrs
  BY <1>1 DEF WellFormed, Working, CallerRec
<1>4. ASSUME NEW a \in bus, Set(t, [th[t] EXCEPT !.pc = Linux!AfterEntry(th[t].mode), !.cur = a, !.seen = @ \cup {a}])
      PROVE  Moves(t, th'[t])
  <2> DEFINE p == Linux!AfterEntry(th[t].mode)
             r == [th[t] EXCEPT !.pc = p, !.cur = a, !.seen = @ \cup {a}]
  <2>1. p \in {"entry", "look"}
    BY DEF Linux!AfterEntry
  <2> HIDE DEF p
  <2>2. th[t].seen \cup {a} \in SUBSET Addrs
    BY <1>1, <1>3
  <2>3. r \in CallerRec
    BY <1>1, <2>1, <2>2 DEF CallerRec, Places
  <2>4. r.pc = p /\ r.list = th[t].list /\ r.disc = th[t].disc /\ r.new = th[t].new /\ r.dev = th[t].dev /\ r.ctx = th[t].ctx
    BY <1>1 DEF CallerRec
  <2>5. Set(t, r)
    BY <1>4 DEF p
  <2> HIDE DEF r
  <2>6. th'[t] = r
    BY <1>1, <2>5 DEF Set
  <2>7. WellFormed(r) /\ HeldOf(r) = HeldOf(th[t])
    BY <1>1, <1>3, <2>1, <2>4 DEF WellFormed, Working, HeldOf
  <2> QED
    BY <1>1, <1>2, <2>1, <2>3, <2>4, <2>5, <2>6, <2>7, MovesOnly DEF Absent
<1>5. ASSUME Set(t, [th[t] EXCEPT !.pc = "listed", !.list = th[t].disc, !.disc = <<>>, !.cur = 0, !.res = "ok"])
      PROVE  Moves(t, th'[t])
  <2> DEFINE r == [th[t] EXCEPT !.pc = "listed", !.list = th[t].disc, !.disc = <<>>, !.cur = 0, !.res = "ok"]
  <2>1. <<>> \in Seq(DevIds)
    OBVIOUS
  <2>2. r \in CallerRec
    BY <1>1, <1>3, <2>1 DEF CallerRec, Places
  <2>3. r.pc = "listed" /\ r.list = th[t].disc /\ r.disc = <<>> /\ r.new = th[t].new /\ r.dev = th[t].dev /\ r.ctx = th[t].ctx
    BY <1>1 DEF CallerRec
  <2>4. Set(t, r)
    BY <1>5
  <2> HIDE DEF r
  <2>5. th'[t] = r
    BY <1>1, <2>4 DEF Set
  <2>6. \A s \in Seq(DevIds) : <<>> \o s = s /\ s \o <<>> = s
    OBVIOUS
  <2>7. HeldOf(r) = HeldOf(th[t])
    BY <1>3, <2>3, <2>6 DEF HeldOf
  <2>8. WellFormed(r)
    BY <1>1, <1>3, <2>3 DEF WellFormed, Working
  <2> QED
    BY <1>1, <1>2, <2>2, <2>3, <2>4, <2>5, <2>7, <2>8, MovesOnly DEF Absent
<1> QED
  BY <1>4, <1>5 DEF NextEntry

\* An entry of sysfs is looked at, or usbfs takes over with the discoveries.
LEMMA ScanEntryMoves ==
  ASSUME DevicesInv, NEW t \in Callers, ScanEntry(t)
  PROVE  Moves(t, th'[t])
<1> DEFINE x == StartScan(th[t], "usbfs")
           y == [th[t] EXCEPT !.pc = "look"]
<1>1. /\ th[t] \in CallerRec /\ WellFormed(th[t]) /\ th[t].pc = "entry" /\ bus \subseteq Addrs
      /\ th \in [Callers -> CallerRec] /\ st \in Linux!Statics
  BY ThreadIs DEF ScanEntry, DevicesInv, DevicesTypeInv
<1>2. Remembers /\ UNCHANGED <<host, kernelVars, opener, contextVars, devs, hs, wild>>
  BY DEF ScanEntry, DevicesInv, DevicesTypeInv, Remembers
<1>3. st' \in Linux!Statics
  BY <1>1 DEF ScanEntry, Linux!Related, Linux!Statics
<1>4. x \in CallerRec /\ y \in CallerRec
  BY <1>1 DEF CallerRec, Places, StartScan
<1>5. /\ x.pc = "scan" /\ x.list = th[t].list /\ x.disc = th[t].disc /\ x.new = th[t].new /\ x.dev = th[t].dev /\ x.ctx = th[t].ctx
      /\ y.pc = "look" /\ y.list = th[t].list /\ y.disc = th[t].disc /\ y.new = th[t].new /\ y.dev = th[t].dev /\ y.ctx = th[t].ctx
  BY <1>1 DEF CallerRec, StartScan
<1>6. Set(t, IF st'.relate = 0 THEN x ELSE y)
  BY DEF ScanEntry
<1> HIDE DEF x, y
<1>7. PICK r \in {x, y} : Set(t, r)
  BY <1>6
<1>8. th'[t] = r /\ r \in CallerRec
  BY <1>1, <1>4, <1>7 DEF Set
<1>9. WellFormed(r) /\ HeldOf(r) = HeldOf(th[t])
  BY <1>1, <1>5, <1>7 DEF WellFormed, Working, HeldOf
<1> QED
  BY <1>1, <1>2, <1>3, <1>5, <1>7, <1>8, <1>9, MovesOnly DEF Absent

\* A device that is known is worked on without a reference.
LEMMA LookUpMoves ==
  ASSUME DevicesInv, NEW t \in Callers, LookUp(t)
  PROVE  Moves(t, th'[t])
<1> DEFINE known == {d \in DevIds : Exists(d) /\ devs[d].ctx = th[t].ctx /\ devs[d].addr = th[t].cur}
           p == IF onDarwin THEN "init" ELSE "append"
           k == CHOOSE d \in known : TRUE
           x == [th[t] EXCEPT !.pc = "alloc"]
           y == [th[t] EXCEPT !.pc = p, !.dev = k]
<1>1. /\ th[t] \in CallerRec /\ WellFormed(th[t]) /\ th[t].pc = "look"
      /\ th \in [Callers -> CallerRec] /\ st \in Linux!Statics
  BY ThreadIs DEF LookUp, DevicesInv, DevicesTypeInv
<1>2. Remembers /\ UNCHANGED <<host, kernelVars, opener, st, contextVars, devs, hs, wild>>
  BY DEF LookUp, DevicesInv, DevicesTypeInv, Remembers
<1>3. Set(t, IF known = {} THEN x ELSE y)
  BY DEF LookUp
<1>4. known # {} => k \in DevIds /\ k # 0
  BY DeviceNumbers
<1>5. p \in {"init", "append"} /\ th[t].new = FALSE
  BY <1>1 DEF WellFormed, Working, CallerRec
<1> HIDE DEF known, k, p
<1>6. x \in CallerRec /\ (known # {} => y \in CallerRec)
  <2>1. x \in CallerRec
    BY <1>1 DEF CallerRec, Places
  <2>2. ASSUME known # {} PROVE y \in CallerRec
    BY <1>1, <1>4, <1>5, <2>2 DEF CallerRec, Places
  <2> QED
    BY <2>1, <2>2
<1>7. /\ x.pc = "alloc" /\ x.list = th[t].list /\ x.disc = th[t].disc /\ x.new = th[t].new /\ x.ctx = th[t].ctx
      /\ y.pc = p /\ y.list = th[t].list /\ y.disc = th[t].disc /\ y.new = th[t].new /\ y.dev = k /\ y.ctx = th[t].ctx
  BY <1>1 DEF CallerRec
<1> DEFINE r == IF known = {} THEN x ELSE y
<1> HIDE DEF x, y
<1>8. th'[t] = r /\ r \in CallerRec /\ Set(t, r)
  BY <1>1, <1>3, <1>6 DEF Set
<1>9. /\ WellFormed(r) /\ HeldOf(r) = HeldOf(th[t]) /\ r.new = FALSE /\ r.ctx = th[t].ctx /\ r.pc \in {"alloc", "init", "append"}
  BY <1>1, <1>4, <1>5, <1>7 DEF WellFormed, Working, HeldOf
<1> HIDE DEF r
<1> QED
  BY <1>1, <1>2, <1>5, <1>8, <1>9, MovesOnly DEF Absent

\* The caller gets the list.
LEMMA ReturnMoves ==
  ASSUME DevicesInv, NEW t \in Callers, Return(t)
  PROVE  Moves(t, th'[t])
<1> DEFINE r == [NoCaller EXCEPT !.pc = "idle", !.ctx = th[t].ctx, !.list = th[t].list]
<1>1. /\ th[t] \in CallerRec /\ WellFormed(th[t]) /\ th[t].pc = "listed"
      /\ th \in [Callers -> CallerRec] /\ st \in Linux!Statics
  BY ThreadIs DEF Return, DevicesInv, DevicesTypeInv
<1>2. Remembers /\ UNCHANGED <<host, kernelVars, opener, st, contextVars, devs, hs, wild>> /\ Set(t, r)
  BY DEF Return, DevicesInv, DevicesTypeInv, Remembers
<1>3. th[t].list \in Seq(DevIds) /\ th[t].disc = <<>> /\ th[t].new = FALSE /\ th[t].ctx # 0 /\ th[t].ctx \in {0} \cup CtxIds
  BY <1>1 DEF WellFormed, Working, CallerRec
<1>4. r \in CallerRec
  BY <1>3, NoCallerIs DEF CallerRec, Places
<1>5. r.pc = "idle" /\ r.list = th[t].list /\ r.disc = <<>> /\ r.new = FALSE /\ r.ctx = th[t].ctx
  BY NoCallerIs DEF CallerRec
<1> HIDE DEF r
<1>6. th'[t] = r
  BY <1>1, <1>2 DEF Set
<1>7. WellFormed(r) /\ HeldOf(r) = HeldOf(th[t])
  BY <1>3, <1>5 DEF WellFormed, Working, HeldOf
<1> QED
  BY <1>1, <1>2, <1>3, <1>4, <1>5, <1>6, <1>7, MovesOnly DEF Absent

\* A device object that is new counts the thread that creates it.
LEMMA AllocateMoves ==
  ASSUME DevicesInv, NEW t \in Callers, Allocate(t)
  PROVE  Moves(t, th'[t])
<1>1. /\ th[t] \in CallerRec /\ WellFormed(th[t]) /\ th[t].pc = "alloc" /\ RefsInv /\ DevicesTypeInv
      /\ th \in [Callers -> CallerRec] /\ st \in Linux!Statics /\ devs \in [DevIds -> DevRec] /\ wild \in BOOLEAN
  BY ThreadIs DEF Allocate, DevicesInv, DevicesTypeInv
<1>2. Remembers /\ UNCHANGED <<host, kernelVars, opener, st, contextVars, hs, wild>>
  BY DEF Allocate, DevicesInv, DevicesTypeInv, Remembers
<1>3. PICK d \in DevIds :
        /\ ~Exists(d) /\ devs' = [devs EXCEPT ![d] = NewDev(th[t].ctx, th[t].cur)]
        /\ Set(t, [th[t] EXCEPT !.pc = "init", !.dev = d, !.new = TRUE])
  BY DEF Allocate
<1> DEFINE r == [th[t] EXCEPT !.pc = "init", !.dev = d, !.new = TRUE]
           n == NewDev(th[t].ctx, th[t].cur)
<1>4. r \in CallerRec
  BY <1>1 DEF CallerRec, Places
<1>5. r.pc = "init" /\ r.list = th[t].list /\ r.disc = th[t].disc /\ r.new = TRUE /\ r.dev = d /\ r.ctx = th[t].ctx
  BY <1>1 DEF CallerRec
<1>6. n \in DevRec /\ n.ref = 1 /\ n.opens = 0
  <2>1. th[t].ctx \in {0} \cup CtxIds /\ th[t].cur \in {0} \cup Addrs
    BY <1>1 DEF CallerRec
  <2>2. n \in DevRec
    BY <2>1 DEF NewDev, DevRec
  <2> QED
    BY <2>2 DEF NewDev
<1>7. Set(t, r) /\ devs' = [devs EXCEPT ![d] = n]
  BY <1>3
<1> HIDE DEF r, n
<1>8. th'[t] = r /\ devs' \in [DevIds -> DevRec] /\ devs'[d] = n /\ \A e \in DevIds \ {d} : devs'[e] = devs[e]
  BY <1>1, <1>6, <1>7 DEF Set
<1>9. WellFormed(r) /\ HeldOf(r) = HeldOf(th[t]) /\ th[t].new = FALSE
  BY <1>1, <1>5, DeviceNumbers DEF WellFormed, Working, HeldOf, CallerRec
<1>10. devs[d].ref = 0 /\ devs[d].opens = 0
  BY <1>1, <1>3, NobodyHas
<1>11. Keeps(devs, devs')
  BY <1>6, <1>8, <1>10 DEF Keeps, Lives
<1>12. ASSUME NEW e \in DevIds
       PROVE  devs'[e].ref + NewOf(th[t], e) + Occurs(e, HeldOf(th[t])) = devs[e].ref + NewOf(r, e) + Occurs(e, HeldOf(r))
  <2>1. NewOf(th[t], e) = 0 /\ NewOf(r, e) = IF e = d THEN 1 ELSE 0
    BY <1>5, <1>9 DEF NewOf
  <2>2. Occurs(e, HeldOf(th[t])) \in Nat
    BY ThreadIs, OccursIs
  <2>3. devs[e].ref \in Nat
    BY <1>1 DEF DevRec
  <2> QED
    BY <1>6, <1>8, <1>9, <1>10, <2>1, <2>2, <2>3
<1> QED
  BY <1>1, <1>2, <1>4, <1>5, <1>7, <1>8, <1>9, <1>11, <1>12 DEF Moves, Absent

\* What the thread that creates a device gives back
LEMMA LetGoIs ==
  ASSUME DevicesInv, NEW t \in Callers, th[t].pc \in Working
  PROVE  /\ LetGo(t) \in [DevIds -> DevRec] /\ Keeps(devs, LetGo(t)) /\ th[t].dev \in DevIds
         /\ \A d \in DevIds : LetGo(t)[d].ref = devs[d].ref - NewOf(th[t], d)
         /\ \A d \in DevIds : Occurs(d, HeldOf(th[t])) <= devs[d].ref - NewOf(th[t], d)
<1>1. th[t] \in CallerRec /\ WellFormed(th[t]) /\ RefsInv /\ DevicesTypeInv /\ devs \in [DevIds -> DevRec]
  BY ThreadIs DEF DevicesInv, DevicesTypeInv
<1>2. th[t].dev \in DevIds /\ th[t].new \in BOOLEAN
  BY <1>1 DEF WellFormed, CallerRec
<1>3. ASSUME NEW d \in DevIds
      PROVE  /\ devs[d].ref \in Nat /\ NewOf(th[t], d) \in Nat /\ Occurs(d, HeldOf(th[t])) \in Nat
             /\ Occurs(d, HeldOf(th[t])) + NewOf(th[t], d) <= devs[d].ref
  <2>1. devs[d].ref \in Nat
    BY <1>1 DEF DevRec
  <2> QED
    BY <1>1, <2>1, HeldCounted
<1>4. \A d \in DevIds : Occurs(d, HeldOf(th[t])) <= devs[d].ref - NewOf(th[t], d)
  BY <1>3
<1>5. CASE th[t].new
  <2>1. devs[th[t].dev].ref > 0
    <3>1. NewOf(th[t], th[t].dev) = 1
      BY <1>5 DEF NewOf
    <3> QED
      BY <1>2, <1>3, <3>1
  <2>2. LetGo(t) = Unref(devs, th[t].dev)
    BY <1>5 DEF LetGo
  <2>3. /\ LetGo(t) \in [DevIds -> DevRec] /\ LetGo(t)[th[t].dev].ref = devs[th[t].dev].ref - 1
        /\ \A e \in DevIds \ {th[t].dev} : LetGo(t)[e] = devs[e]
        /\ Keeps(devs, LetGo(t))
    BY <1>1, <1>2, <2>1, <2>2, UnrefIs
  <2>4. \A d \in DevIds : NewOf(th[t], d) = IF d = th[t].dev THEN 1 ELSE 0
    BY <1>5 DEF NewOf
  <2>5. \A d \in DevIds : LetGo(t)[d].ref = devs[d].ref - NewOf(th[t], d)
    BY <1>3, <2>3, <2>4
  <2> QED
    BY <1>2, <1>4, <2>3, <2>5
<1>6. CASE ~th[t].new
  <2>1. LetGo(t) = devs /\ \A d \in DevIds : NewOf(th[t], d) = 0
    BY <1>6 DEF LetGo, NewOf
  <2>2. \A d \in DevIds : LetGo(t)[d].ref = devs[d].ref - NewOf(th[t], d)
    BY <1>3, <2>1
  <2> QED
    BY <1>1, <1>2, <1>4, <2>1, <2>2, KeepsSame
<1> QED
  BY <1>5, <1>6

\* An attempt that broken: on Mac OS the next device is looked at, elsewhere all
\* that was found is let go of.
LEMMA FailMoves ==
  ASSUME DevicesInv, NEW t \in Callers, th[t].pc \in Working, NEW e, e \in {"ok", "IO"} \/ onDarwin,
         NEW answered \in BOOLEAN, Fail(t, LetGo(t), e, answered), UNCHANGED <<host, kernelVars, opener, st, contextVars, hs, past>>
  PROVE  /\ Moves(t, th'[t])
         /\ th'[t].pc \in {"scan", "listed"} /\ th'[t].list = <<>> /\ th'[t].disc \in {th[t].disc, <<>>}
<1>1. /\ th[t] \in CallerRec /\ WellFormed(th[t]) /\ th \in [Callers -> CallerRec] /\ st \in Linux!Statics /\ wild \in BOOLEAN
      /\ LetGo(t) \in [DevIds -> DevRec] /\ Keeps(devs, LetGo(t)) /\ devs \in [DevIds -> DevRec]
      /\ \A d \in DevIds : LetGo(t)[d].ref = devs[d].ref - NewOf(th[t], d)
      /\ \A d \in DevIds : Occurs(d, HeldOf(th[t])) <= devs[d].ref - NewOf(th[t], d)
  BY ThreadIs, LetGoIs DEF DevicesInv, DevicesTypeInv
<1>2. th[t].list = <<>> /\ th[t].disc \in Seq(DevIds) /\ HeldOf(th[t]) = th[t].disc /\ th[t].pc \in Working
  <2>1. th[t].list = <<>> /\ th[t].disc \in Seq(DevIds)
    BY <1>1 DEF WellFormed, Working, CallerRec
  <2> QED
    BY <2>1, ThreadIs
<1>3. ASSUME NEW d \in DevIds
      PROVE  devs[d].ref \in Nat /\ NewOf(th[t], d) \in Nat /\ Occurs(d, HeldOf(th[t])) \in Nat
  <2>1. devs[d].ref \in Nat
    BY <1>1 DEF DevRec
  <2>2. Occurs(d, HeldOf(th[t])) \in Nat
    BY ThreadIs, OccursIs
  <2> QED
    BY <2>1, <2>2 DEF NewOf
<1> DEFINE q == th[t].quiet /\ answered
           x == [th[t] EXCEPT !.cur = 0, !.dev = 0, !.new = FALSE, !.quiet = q]
<1>6. th[t].quiet \in BOOLEAN /\ q \in BOOLEAN
  BY <1>1 DEF CallerRec
<1> HIDE DEF q
<1>7. x \in CallerRec /\ x.list = th[t].list /\ x.disc = th[t].disc /\ x.new = FALSE /\ x.ctx = th[t].ctx
  BY <1>1, <1>6 DEF CallerRec
<1> HIDE DEF x
<1>8. Remembers
  BY DEF DevicesInv, DevicesTypeInv, Remembers
<1>4. CASE onDarwin
  <2> DEFINE r == [x EXCEPT !.pc = "scan"]
  <2>1. Set(t, r) /\ devs' = LetGo(t) /\ wild' = wild
    BY <1>4 DEF Fail, x, q
  <2>2. r \in CallerRec
    BY <1>7 DEF CallerRec, Places
  <2>3. r.pc = "scan" /\ r.list = th[t].list /\ r.disc = th[t].disc /\ r.new = FALSE /\ r.ctx = th[t].ctx
    BY <1>7 DEF CallerRec
  <2> HIDE DEF r
  <2>4. th'[t] = r
    BY <1>1, <2>1 DEF Set
  <2>5. WellFormed(r) /\ HeldOf(r) = HeldOf(th[t])
    BY <1>1, <1>2, <2>3 DEF WellFormed, Working, HeldOf
  <2>6. \A d \in DevIds : devs'[d].ref + NewOf(th[t], d) + Occurs(d, HeldOf(th[t])) = devs[d].ref + NewOf(r, d) + Occurs(d, HeldOf(r))
    <3>1. \A d \in DevIds : NewOf(r, d) = 0
      BY <2>3 DEF NewOf
    <3> QED
      BY <1>1, <1>3, <2>1, <2>5, <3>1
  <2>7. Moves(t, r)
    BY <1>1, <1>2, <1>8, <2>1, <2>2, <2>3, <2>5, <2>6 DEF Moves, Working, Absent
  <2> QED
    BY <1>2, <2>3, <2>4, <2>7
<1>5. CASE ~onDarwin
  <2> DEFINE r == [x EXCEPT !.pc = "listed", !.disc = <<>>, !.res = e]
  <2>1. /\ Set(t, r) /\ devs' = UnrefAll(LetGo(t), th[t].disc) /\ e \in {"ok", "IO"}
        /\ wild' = (wild \/ (th[t].mode = "usbfs" /\ th[t].moved))
    BY <1>5 DEF Fail, x, q
  <2>2. <<>> \in Seq(DevIds)
    OBVIOUS
  <2>3. r \in CallerRec
    BY <1>7, <2>1, <2>2 DEF CallerRec, Places
  <2>4. r.pc = "listed" /\ r.list = th[t].list /\ r.disc = <<>> /\ r.new = FALSE /\ r.ctx = th[t].ctx
    BY <1>7 DEF CallerRec
  <2> HIDE DEF r
  <2>5. th'[t] = r
    BY <1>1, <2>1 DEF Set
  <2>6. WellFormed(r) /\ HeldOf(r) = <<>>
    BY <1>1, <1>2, <2>4 DEF WellFormed, Working, HeldOf
  <2>7. \A d \in DevIds : Occurs(d, th[t].disc) <= LetGo(t)[d].ref
    BY <1>1, <1>2
  <2>8. /\ devs' \in [DevIds -> DevRec] /\ Keeps(LetGo(t), devs')
        /\ \A d \in DevIds : devs'[d].ref = LetGo(t)[d].ref - Occurs(d, th[t].disc)
    BY <1>1, <1>2, <2>1, <2>7, UnrefAllIs
  <2>9. Keeps(devs, devs')
    <3>1. \A d \in DevIds : LetGo(t)[d].ref = 0 => devs'[d].ref = 0
      <4> TAKE d \in DevIds
      <4>1. Occurs(d, th[t].disc) \in Nat /\ Occurs(d, th[t].disc) <= LetGo(t)[d].ref /\ devs'[d].ref = LetGo(t)[d].ref - Occurs(d, th[t].disc)
        BY <1>2, <1>3, <2>7, <2>8
      <4> QED
        BY <4>1
    <3> QED
      BY <1>1, <2>8, <3>1, KeepsOn
  <2>10. \A d \in DevIds : devs'[d].ref + NewOf(th[t], d) + Occurs(d, HeldOf(th[t])) = devs[d].ref + NewOf(r, d) + Occurs(d, HeldOf(r))
    <3> TAKE d \in DevIds
    <3>1. NewOf(r, d) = 0 /\ Occurs(d, HeldOf(r)) = 0
      BY <2>4, <2>6, OccursNot DEF NewOf
    <3>2. devs'[d].ref = devs[d].ref - NewOf(th[t], d) - Occurs(d, HeldOf(th[t]))
      BY <1>1, <1>2, <2>8
    <3> QED
      BY <1>3, <3>1, <3>2
  <2>11. wild' \in BOOLEAN
    BY <2>1
  <2>12. Moves(t, r)
    BY <1>1, <1>2, <1>8, <2>1, <2>3, <2>4, <2>6, <2>8, <2>9, <2>10, <2>11 DEF Moves, Working, Absent
  <2> QED
    BY <1>2, <2>4, <2>5, <2>12
<1> QED
  BY <1>4, <1>5

\* What Linux makes of a device
LEMMA LinuxInitializes ==
  ASSUME NEW s \in Linux!Statics, NEW x \in DevRec, NEW mode, NEW here \in BOOLEAN, NEW c, here => c \in Configs,
         NEW i \in Linux!Initialize(s, x, mode, here, c)
  PROVE  i.r \in {"ok", "IO"} /\ (i.r = "ok" => i.d \in DevRec /\ Same(x, i.d))
<1> DEFINE new == [x EXCEPT !.dir = (mode = "sysfs")]
           asked == here /\ (s.relate # 0 => Linux!SysfsConfig(new, here, c).r = "ok")
           got == {[r |-> "ok", d |-> new], [r |-> "IO", d |-> new]} \cup {[r |-> "ok", d |-> [new EXCEPT !.cached = k]] : k \in -1 .. 2}
<1>1. new \in DevRec /\ Same(x, new)
  <2>1. (mode = "sysfs") \in BOOLEAN
    OBVIOUS
  <2> QED
    BY <2>1 DEF DevRec, Same
<1>2. i \in IF s.descs # 0 THEN {[r |-> "ok", d |-> new]}
            ELSE {[r |-> "IO", d |-> new]} \cup
                 (IF asked THEN UNION {IF k = 0 THEN {[r |-> "ok", d |-> new]} ELSE Linux!CacheConfig(new, here, k) : k \in Linux!Supposed(s, c)}
                  ELSE {})
  BY DEF Linux!Initialize
<1>3. asked => Linux!Supposed(s, c) \subseteq -1 .. 2
  BY DEF Linux!Supposed, Linux!AskConfig, Linux!Unsure, Configs, Linux!Configs
<1> HIDE DEF new, asked
<1>4. ASSUME NEW k \in -1 .. 2, i \in Linux!CacheConfig(new, here, k) PROVE i \in got
  BY <1>4 DEF Linux!CacheConfig
<1>5. i \in got
  BY <1>2, <1>3, <1>4
<1>6. ASSUME NEW k \in -1 .. 2, i = [r |-> "ok", d |-> [new EXCEPT !.cached = k]]
      PROVE  i.r = "ok" /\ i.d \in DevRec /\ Same(x, i.d)
  BY <1>1, <1>6 DEF DevRec, Same
<1> QED
  BY <1>1, <1>5, <1>6

\* What the backend of Mac OS makes of a device
LEMMA DarwinInitializes ==
  ASSUME NEW x \in DevRec, NEW here \in BOOLEAN, NEW c, here => c \in Configs, NEW i \in Darwin!Initialize(x, here, c)
  PROVE  i.r = "ok" => i.d \in DevRec /\ Same(x, i.d)
<1> SUFFICES ASSUME here, i.d = [x EXCEPT !.cached = c] PROVE i.d \in DevRec /\ Same(x, i.d)
  BY DEF Darwin!Initialize, Darwin!CheckConfiguration
<1>1. c \in -1 .. 2
  BY DEF Configs, Linux!Configs
<1> QED
  BY <1>1, CachedSame

\* The working thread goes on with its device, which stays what it is.
LEMMA WorkMoves ==
  ASSUME DevicesInv, NEW t \in Callers, th[t].pc \in Working, NEW p \in {"sanitize", "append"}, NEW y \in DevRec,
         Same(devs[th[t].dev], y), devs' = [devs EXCEPT ![th[t].dev] = y], Set(t, [th[t] EXCEPT !.pc = p]), wild' \in BOOLEAN,
         UNCHANGED <<host, kernelVars, opener, st, contextVars, hs, past>>
  PROVE  /\ Moves(t, th'[t])
         /\ th'[t].pc = p /\ th'[t].list = th[t].list /\ th'[t].disc = th[t].disc /\ th'[t].new = th[t].new /\ th'[t].dev = th[t].dev
         /\ th'[t].ctx = th[t].ctx /\ devs'[th[t].dev] = y
<1> DEFINE r == [th[t] EXCEPT !.pc = p]
<1>1. /\ th[t] \in CallerRec /\ WellFormed(th[t]) /\ th \in [Callers -> CallerRec] /\ st \in Linux!Statics
      /\ devs \in [DevIds -> DevRec]
  BY ThreadIs DEF DevicesInv, DevicesTypeInv
<1>2. th[t].dev \in DevIds /\ th[t].dev # 0 /\ th[t].list = <<>>
  BY <1>1 DEF WellFormed, CallerRec, Working
<1>3. r \in CallerRec
  BY <1>1 DEF CallerRec, Places
<1>4. r.pc = p /\ r.list = th[t].list /\ r.disc = th[t].disc /\ r.new = th[t].new /\ r.dev = th[t].dev /\ r.ctx = th[t].ctx
  BY <1>1 DEF CallerRec
<1>5. Set(t, r)
  OBVIOUS
<1> HIDE DEF r
<1>6. th'[t] = r
  BY <1>1, <1>5 DEF Set
<1>7. WellFormed(r) /\ HeldOf(r) = HeldOf(th[t])
  BY <1>1, <1>2, <1>4 DEF WellFormed, Working, HeldOf
<1>8. devs' \in [DevIds -> DevRec] /\ devs'[th[t].dev] = y /\ Keeps(devs, devs') /\ \A e \in DevIds : devs'[e].ref = devs[e].ref
  <2> DEFINE d == th[t].dev
  <2>1. d \in DevIds /\ Same(devs[d], y) /\ devs' = [devs EXCEPT ![d] = y]
    BY <1>2
  <2>2. devs \in [DevIds -> DevRec]
    BY <1>1
  <2> HIDE DEF d
  <2>3. devs' \in [DevIds -> DevRec] /\ devs'[d] = y /\ \A e \in DevIds \ {d} : devs'[e] = devs[e]
    BY <2>1, <2>2
  <2>4. y.ref = devs[d].ref /\ y.ctx = devs[d].ctx /\ y.opens = devs[d].opens /\ (devs[d].ready => y.ready)
    BY <2>1 DEF Same
  <2>5. Keeps(devs, devs') /\ \A e \in DevIds : devs'[e].ref = devs[e].ref
    BY <2>3, <2>4 DEF Keeps, Lives
  <2> QED
    BY <2>3, <2>5 DEF d
<1>9. \A d \in DevIds : NewOf(r, d) = NewOf(th[t], d)
  BY <1>4 DEF NewOf
<1>11. Remembers
  BY DEF DevicesInv, DevicesTypeInv, Remembers
<1>10. Moves(t, r)
  BY <1>1, <1>3, <1>4, <1>5, <1>7, <1>8, <1>9, <1>11 DEF Moves, Working, Absent
<1> QED
  BY <1>4, <1>6, <1>8, <1>10

\* Where a device is looked for, its configuration is known to the kernel.
LEMMA ConfigurationKnown ==
  ASSUME DevicesInv, NEW d \in DevIds
  PROVE  Here(d) \in BOOLEAN /\ (Here(d) => conf[devs[d].addr] \in Configs) /\ devs[d] \in DevRec
<1>1. devs[d] \in DevRec /\ bus \subseteq Addrs /\ conf \in [Addrs -> Configs]
  BY DEF DevicesInv, DevicesTypeInv
<1>2. Here(d) => devs[d].addr \in Addrs
  BY <1>1 DEF Here
<1> QED
  BY <1>1, <1>2 DEF Here

\* The backend reads the descriptors, or the device is let go of.
LEMMA InitializeDeviceMoves ==
  ASSUME DevicesInv, NEW t \in Callers, InitializeDevice(t)
  PROVE  Moves(t, th'[t])
<1> DEFINE d == th[t].dev
           outcomes == IF onDarwin THEN Darwin!Initialize(devs[d], Here(d), conf[devs[d].addr])
                       ELSE Linux!Initialize(st, devs[d], th[t].mode, Here(d), conf[devs[d].addr])
           none == \A o \in outcomes : o.r # "ok"
<1>1. th[t].pc \in Working /\ UNCHANGED <<host, kernelVars, opener, st, contextVars, hs, past>>
  BY DEF InitializeDevice, Working
<1>2. th[t] \in CallerRec /\ WellFormed(th[t]) /\ st \in Linux!Statics /\ wild \in BOOLEAN
  BY ThreadIs DEF DevicesInv, DevicesTypeInv
<1>3. d \in DevIds
  BY <1>1, LetGoIs
<1>4. ASSUME NEW i \in outcomes PROVE (i.r = "ok" => i.d \in DevRec /\ Same(devs[d], i.d)) /\ (i.r \in {"ok", "IO"} \/ onDarwin)
  <2>1. Here(d) \in BOOLEAN /\ (Here(d) => conf[devs[d].addr] \in Configs) /\ devs[d] \in DevRec
    BY <1>3, ConfigurationKnown
  <2> HIDE DEF d
  <2>2. CASE onDarwin
    BY <1>4, <2>1, <2>2, DarwinInitializes
  <2>3. CASE ~onDarwin
    BY <1>2, <1>4, <2>1, <2>3, LinuxInitializes
  <2> QED
    BY <2>2, <2>3
<1>5. PICK i \in outcomes :
        IF i.r = "ok" THEN /\ devs' = [devs EXCEPT ![d] = i.d] /\ Set(t, [th[t] EXCEPT !.pc = "sanitize"])
                           /\ wild' = (wild \/ ~Exists(d))
        ELSE Fail(t, LetGo(t), i.r, none)
  BY DEF InitializeDevice
<1>8. none \in BOOLEAN /\ (i.r = "ok" => i.d \in DevRec /\ Same(devs[d], i.d)) /\ (i.r \in {"ok", "IO"} \/ onDarwin)
  BY <1>4
<1> HIDE DEF outcomes, none
<1>6. CASE i.r = "ok"
  <2>1. wild' \in BOOLEAN
    BY <1>5, <1>6
  <2> QED
    BY <1>1, <1>5, <1>6, <1>8, <2>1, WorkMoves
<1>7. CASE i.r # "ok"
  BY <1>1, <1>5, <1>7, <1>8, FailMoves
<1> QED
  BY <1>6, <1>7

\* The device is complete, or it is let go of.
LEMMA SanitizeMoves ==
  ASSUME DevicesInv, NEW t \in Callers, Sanitize(t)
  PROVE  Moves(t, th'[t])
<1> DEFINE d == th[t].dev
           y == [devs[d] EXCEPT !.ready = TRUE]
<1>1. th[t].pc \in Working /\ UNCHANGED <<host, kernelVars, opener, st, contextVars, hs, past>>
  BY DEF Sanitize, Working
<1>2. devs \in [DevIds -> DevRec] /\ wild \in BOOLEAN /\ d \in DevIds
  BY <1>1, LetGoIs DEF DevicesInv, DevicesTypeInv
<1>3. devs[d] \in DevRec
  BY <1>2
<1>4. y \in DevRec /\ Same(devs[d], y)
  BY <1>3 DEF DevRec, Same
<1>5. \/ devs' = [devs EXCEPT ![d].ready = TRUE] /\ Set(t, [th[t] EXCEPT !.pc = "append"]) /\ UNCHANGED wild
      \/ Fail(t, LetGo(t), "IO", TRUE)
  BY DEF Sanitize
<1>6. CASE devs' = [devs EXCEPT ![d].ready = TRUE] /\ Set(t, [th[t] EXCEPT !.pc = "append"]) /\ UNCHANGED wild
  <2>1. devs' = [devs EXCEPT ![d] = y]
    BY <1>6
  <2>2. wild' \in BOOLEAN
    BY <1>2, <1>6
  <2> HIDE DEF y
  <2> QED
    BY <1>1, <1>4, <1>6, <2>1, <2>2, WorkMoves
<1>7. CASE Fail(t, LetGo(t), "IO", TRUE)
  BY <1>1, <1>7, FailMoves
<1> QED
  BY <1>5, <1>6, <1>7

\* A discovery takes a reference, and the thread that created the device gives
\* its own back.
LEMMA AppendDeviceMoves ==
  ASSUME DevicesInv, NEW t \in Callers, AppendDevice(t)
  PROVE  /\ Moves(t, th'[t])
         /\ th'[t].pc = "scan" /\ th'[t].list = <<>> /\ th'[t].new = FALSE /\ th'[t].disc = Append(th[t].disc, th[t].dev)
         /\ th'[t].seen = th[t].seen /\ th'[t].mode = th[t].mode
         /\ th'[t].moved = (th[t].moved \/ (th[t].disc # <<>> /\ Len(th[t].disc) % ListStep = 0))
<1> DEFINE d == th[t].dev
           r == [Append1(t, th[t]) EXCEPT !.pc = "scan", !.cur = 0, !.dev = 0, !.new = FALSE]
<1>1. th[t].pc \in Working /\ UNCHANGED <<host, kernelVars, opener, st, contextVars, hs>> /\ Set(t, r) /\ wild' = (wild \/ ~Exists(d))
  BY DEF AppendDevice, Working
<1>2. /\ devs \in [DevIds -> DevRec] /\ wild \in BOOLEAN /\ d \in DevIds /\ th[t] \in CallerRec /\ WellFormed(th[t]) /\ st \in Linux!Statics
      /\ th \in [Callers -> CallerRec]
  BY <1>1, LetGoIs, ThreadIs DEF DevicesInv, DevicesTypeInv
<1>3. th[t].list = <<>> /\ th[t].disc \in Seq(DevIds) /\ HeldOf(th[t]) = th[t].disc /\ th[t].moved \in BOOLEAN
  BY <1>1, <1>2, ThreadIs DEF WellFormed, Working, CallerRec
<1>4. Append(th[t].disc, d) \in Seq(DevIds)
  BY <1>2, <1>3
<1>5. r \in CallerRec
  <2> DEFINE a == Append(th[t].disc, d)
             m == th[t].moved \/ (th[t].disc # <<>> /\ Len(th[t].disc) % ListStep = 0)
  <2>1. r = [[th[t] EXCEPT !.disc = a, !.moved = m] EXCEPT !.pc = "scan", !.cur = 0, !.dev = 0, !.new = FALSE]
    BY DEF Append1
  <2>2. m \in BOOLEAN /\ a \in Seq(DevIds)
    BY <1>4
  <2> DEFINE x == [th[t] EXCEPT !.disc = a, !.moved = m]
  <2> HIDE DEF a, m, r
  <2>3. x \in CallerRec
    BY <1>2, <2>2 DEF CallerRec
  <2>4. r = [x EXCEPT !.pc = "scan", !.cur = 0, !.dev = 0, !.new = FALSE]
    BY <2>1
  <2>5. "scan" \in Places
    BY DEF Places
  <2> HIDE DEF x
  <2> QED
    BY <2>3, <2>4, <2>5 DEF CallerRec
<1>6. /\ r.pc = "scan" /\ r.list = th[t].list /\ r.disc = Append(th[t].disc, d) /\ r.new = FALSE /\ r.ctx = th[t].ctx
      /\ r.seen = th[t].seen /\ r.mode = th[t].mode
      /\ r.moved = (th[t].moved \/ (th[t].disc # <<>> /\ Len(th[t].disc) % ListStep = 0))
  BY <1>2 DEF CallerRec, Append1
<1> HIDE DEF r
<1>7. th'[t] = r
  BY <1>1, <1>2 DEF Set
<1>8. WellFormed(r) /\ HeldOf(r) = Append(th[t].disc, d)
  <2>1. <<>> \o Append(th[t].disc, d) = Append(th[t].disc, d)
    BY <1>4
  <2> QED
    BY <1>1, <1>2, <1>3, <1>6, <2>1 DEF WellFormed, Working, HeldOf
<1>9. /\ devs' \in [DevIds -> DevRec] /\ Keeps(devs, devs')
      /\ \A e \in DevIds : devs'[e].ref + NewOf(th[t], e) = devs[e].ref + (IF e = d THEN 1 ELSE 0)
  <2>1. devs' = IF th[t].new THEN Unref(Ref(devs, d), d) ELSE Ref(devs, d)
    BY DEF AppendDevice
  <2>8. devs \in [DevIds -> DevRec] /\ d \in DevIds
    BY <1>2
  <2>2. /\ Ref(devs, d) \in [DevIds -> DevRec] /\ Ref(devs, d)[d].ref = devs[d].ref + 1
        /\ \A e \in DevIds \ {d} : Ref(devs, d)[e] = devs[e]
        /\ Keeps(devs, Ref(devs, d))
    <3> HIDE DEF d
    <3> QED
      BY <2>8, RefIs
  <2>3. \A e \in DevIds : devs[e].ref \in Nat
    BY <1>2 DEF DevRec
  <2>4. CASE ~th[t].new
    <3>1. \A e \in DevIds : NewOf(th[t], e) = 0
      BY <2>4 DEF NewOf
    <3> QED
      BY <2>1, <2>2, <2>3, <2>4, <3>1
  <2>5. CASE th[t].new
    <3> DEFINE E == Ref(devs, d)
    <3> HIDE DEF E
    <3>1. E \in [DevIds -> DevRec] /\ E[d].ref > 0 /\ devs' = Unref(E, d)
      BY <1>2, <2>1, <2>2, <2>3, <2>5 DEF E
    <3>2. /\ devs' \in [DevIds -> DevRec] /\ devs'[d].ref = E[d].ref - 1 /\ \A e \in DevIds \ {d} : devs'[e] = E[e]
          /\ Keeps(E, devs')
      BY <1>2, <3>1, UnrefIs
    <3>3. \A e \in DevIds : E[e].ref = 0 => devs'[e].ref = 0
      BY <3>1, <3>2
    <3>4. Keeps(devs, devs')
      BY <1>2, <2>2, <3>1, <3>2, <3>3, KeepsOn DEF E
    <3>5. \A e \in DevIds : NewOf(th[t], e) = IF e = d THEN 1 ELSE 0
      BY <2>5 DEF NewOf
    <3>6. \A e \in DevIds : devs'[e].ref = devs[e].ref
      BY <2>2, <2>3, <3>2 DEF E
    <3> QED
      BY <3>2, <3>4, <3>5, <3>6
  <2> QED
    BY <1>2, <2>4, <2>5
<1>10. ASSUME NEW e \in DevIds
       PROVE  devs'[e].ref + NewOf(th[t], e) + Occurs(e, HeldOf(th[t])) = devs[e].ref + NewOf(r, e) + Occurs(e, HeldOf(r))
  <2>1. Occurs(e, HeldOf(r)) = Occurs(e, th[t].disc) + (IF e = d THEN 1 ELSE 0) /\ NewOf(r, e) = 0
    BY <1>2, <1>3, <1>6, <1>8, OccursMore DEF NewOf
  <2>2. Occurs(e, th[t].disc) \in Nat /\ devs'[e].ref \in Nat /\ devs[e].ref \in Nat /\ NewOf(th[t], e) \in Nat
    BY <1>2, <1>3, <1>9, OccursIs DEF DevRec, NewOf
  <2> DEFINE after == devs'[e].ref
             n == NewOf(th[t], e)
             o == Occurs(e, th[t].disc)
             more == IF e = d THEN 1 ELSE 0
  <2>3. after + n = devs[e].ref + more /\ more \in Nat
    BY <1>9
  <2>4. after \in Nat /\ n \in Nat /\ o \in Nat
    BY <2>2
  <2> HIDE DEF after, n, o, more
  <2>5. after + n + o = devs[e].ref + 0 + (o + more)
    BY <2>2, <2>3, <2>4
  <2> QED
    BY <1>3, <2>1, <2>5 DEF after, n, o, more
<1>11. wild' \in BOOLEAN
  BY <1>1, <1>2
<1>13. Remembers
  BY DEF AppendDevice, Notes, Perils, Remembers, DevicesInv, DevicesTypeInv
<1>12. Moves(t, r)
  BY <1>1, <1>2, <1>5, <1>6, <1>8, <1>9, <1>10, <1>11, <1>13 DEF Moves, Working, Absent
<1> QED
  BY <1>3, <1>6, <1>7, <1>12

\* A list gives back a reference for each of its places.
LEMMA FreeDeviceListMoves ==
  ASSUME DevicesInv, NEW t \in Callers, FreeDeviceList(t)
  PROVE  /\ Moves(t, th'[t]) /\ \A i \in DOMAIN th[t].list : th[t].list[i] \in DevIds /\ Exists(th[t].list[i])
         /\ th'[t].list = <<>> /\ th'[t].disc = <<>> /\ th'[t].new = FALSE /\ th'[t].pc = "idle"
<1> DEFINE r == [th[t] EXCEPT !.list = <<>>]
<1>1. /\ th[t].pc = "idle" /\ UNCHANGED <<host, kernelVars, opener, st, contextVars, hs>> /\ Set(t, r)
      /\ devs' = UnrefAll(devs, th[t].list)
      /\ wild' = (wild \/ \E i \in DOMAIN th[t].list : ~Exists(th[t].list[i]))
  BY DEF FreeDeviceList
<1>2. /\ devs \in [DevIds -> DevRec] /\ wild \in BOOLEAN /\ th[t] \in CallerRec /\ WellFormed(th[t]) /\ st \in Linux!Statics
      /\ th \in [Callers -> CallerRec] /\ RefsInv /\ DevicesTypeInv
  BY ThreadIs DEF DevicesInv, DevicesTypeInv
<1>3. th[t].disc = <<>> /\ th[t].list \in Seq(DevIds) /\ HeldOf(th[t]) = th[t].list /\ th[t].new = FALSE
  BY <1>1, <1>2, ThreadIs DEF WellFormed, Working, CallerRec
<1>4. r \in CallerRec
  <2>1. <<>> \in Seq(DevIds)
    OBVIOUS
  <2> QED
    BY <1>2, <2>1 DEF CallerRec
<1>5. r.pc = "idle" /\ r.list = <<>> /\ r.disc = <<>> /\ r.new = FALSE /\ r.ctx = th[t].ctx
  BY <1>1, <1>2, <1>3 DEF CallerRec
<1> HIDE DEF r
<1>6. th'[t] = r
  BY <1>1, <1>2 DEF Set
<1>7. WellFormed(r) /\ HeldOf(r) = <<>>
  BY <1>1, <1>2, <1>5 DEF WellFormed, Working, HeldOf
<1>8. ASSUME NEW e \in DevIds
      PROVE  /\ devs[e].ref \in Nat /\ Occurs(e, th[t].list) \in Nat /\ Occurs(e, th[t].list) <= devs[e].ref
             /\ NewOf(th[t], e) = 0 /\ NewOf(r, e) = 0 /\ Occurs(e, HeldOf(r)) = 0
  <2>1. devs[e].ref \in Nat /\ NewOf(th[t], e) = 0 /\ NewOf(r, e) = 0 /\ Occurs(e, HeldOf(r)) = 0
    BY <1>2, <1>3, <1>5, <1>7, OccursNot DEF DevRec, NewOf
  <2> DEFINE h == Cardinality(HandlesOn(e))
             c == Cardinality(Creators(e))
             l == Cardinality(Listings(e))
             o == Occurs(e, th[t].list)
  <2>2. h \in Nat /\ c \in Nat /\ l \in Nat /\ o \in Nat /\ o <= l /\ devs[e].ref = h + c + l
    BY <1>2, <1>3, HeldCounted
  <2> HIDE DEF h, c, l, o
  <2>3. o <= devs[e].ref
    BY <2>2
  <2> QED
    BY <2>1, <2>2, <2>3 DEF o
<1>9. /\ devs' \in [DevIds -> DevRec] /\ Keeps(devs, devs')
      /\ \A e \in DevIds : devs'[e].ref = devs[e].ref - Occurs(e, th[t].list)
  BY <1>1, <1>2, <1>3, <1>8, UnrefAllIs
<1>10. \A e \in DevIds : devs'[e].ref + NewOf(th[t], e) + Occurs(e, HeldOf(th[t])) = devs[e].ref + NewOf(r, e) + Occurs(e, HeldOf(r))
  BY <1>3, <1>8, <1>9
<1>11. wild' \in BOOLEAN
  BY <1>1, <1>2
<1>14. Remembers
  BY DEF FreeDeviceList, Notes, Perils, Remembers, DevicesInv, DevicesTypeInv
<1>12. Moves(t, r)
  BY <1>1, <1>2, <1>4, <1>5, <1>7, <1>9, <1>10, <1>11, <1>14 DEF Moves, Absent
<1>13. ASSUME NEW i \in DOMAIN th[t].list PROVE th[t].list[i] \in DevIds /\ Exists(th[t].list[i])
  <2> DEFINE e == th[t].list[i]
  <2>1. e \in DevIds /\ e \in ToSet(th[t].list)
    BY <1>3 DEF ToSet
  <2> HIDE DEF e
  <2>2. Occurs(e, th[t].list) # 0
    BY <1>3, <2>1, OccursIs
  <2>3. devs[e].ref > 0
    BY <1>8, <2>1, <2>2
  <2> QED
    BY <2>1, <2>3 DEF e, Exists
<1> QED
  BY <1>5, <1>6, <1>12, <1>13

-----------------------------------------------------------------------------
(***************************************************************************)
(* Contexts                                                                *)
(***************************************************************************)

\* There are at most as many contexts as threads, so that one is free.
LEMMA ContextsFew ==
  ASSUME DevicesInv
  PROVE  /\ IsFiniteSet(alive) /\ Cardinality(alive) \in Nat /\ Cardinality(alive) <= Cardinality(Callers)
         /\ Users \in SUBSET Callers /\ IsFiniteSet(Users) /\ Cardinality(Users) \in Nat /\ Cardinality(Users) <= Cardinality(Callers)
         /\ CtxIds \ alive # {}
<1> DEFINE f == [t \in Callers |-> th[t].ctx]
           R == {th[t].ctx : t \in Callers}
<1>1. f \in Surjection(Callers, R)
  BY DEF Surjection
<1>2. IsFiniteSet(Callers) /\ Cardinality(Callers) \in Nat /\ IsFiniteSet(CtxIds) /\ Cardinality(CtxIds) = Cardinality(Callers) + 1
  BY DeviceNumbers
<1> HIDE DEF f
<1>3. IsFiniteSet(R) /\ Cardinality(R) <= Cardinality(Callers)
  BY <1>1, <1>2, FS_Surjection
<1>4. alive \in SUBSET R /\ alive \subseteq CtxIds /\ Users \in SUBSET Callers
  BY DEF DevicesInv, ContextsInv, DevicesTypeInv, Users
<1> HIDE DEF R
<1>5. /\ IsFiniteSet(alive) /\ Cardinality(alive) <= Cardinality(R)
      /\ IsFiniteSet(Users) /\ Cardinality(Users) <= Cardinality(Callers)
  BY <1>2, <1>3, <1>4, FS_Subset
<1>6. Cardinality(alive) \in Nat /\ Cardinality(Users) \in Nat /\ Cardinality(R) \in Nat
  BY <1>3, <1>5, FS_CardinalityType
<1>7. Cardinality(alive) <= Cardinality(Callers)
  BY <1>2, <1>3, <1>5, <1>6
<1>8. alive # CtxIds
  BY <1>2, <1>6, <1>7
<1> QED
  BY <1>2, <1>4, <1>5, <1>6, <1>7, <1>8

\* What the backend of Mac OS counts
BackendRec == [count : Int, runs : {0} \cup CtxIds]

\* A thread that takes up a context or leaves it has no devices.
LEMMA ContextMoves ==
  ASSUME DevicesInv, NEW t \in Callers, NEW r \in CallerRec, WellFormed(r), Set(t, r), HeldOf(r) = <<>>, HeldOf(th[t]) = <<>>,
         ~r.new, ~th[t].new, r.pc \in Absent => \A s \in Slots : hs[<<t, s>>].dev = 0,
         Remembers, UNCHANGED <<host, kernelVars, opener, devs, hs, wild>>, st' \in Linux!Statics,
         alive' \subseteq CtxIds, default' \in {0} \cup CtxIds, refs' \in Nat, backend' \in BackendRec
  PROVE  DevicesTypeInv' /\ PlacesInv' /\ RefsInv' /\ th'[t] = r /\ \A u \in Callers \ {t} : th'[u] = th[u]
<1>1. DevicesTypeInv /\ PlacesInv /\ RefsInv /\ devs \in [DevIds -> DevRec] /\ devs' = devs
  BY DEF DevicesInv, DevicesTypeInv
<1>2. th' \in [Callers -> CallerRec] /\ PlacesInv' /\ th'[t] = r /\ \A u \in Callers \ {t} : th'[u] = th[u]
  BY <1>1, ThreadMoves
<1>3. DevicesTypeInv'
  BY <1>1, <1>2 DEF DevicesTypeInv, kernelVars, Remembers, BackendRec
<1>4. Keeps(devs, devs')
  BY <1>1, KeepsSame
<1>5. \A d \in DevIds : NewOf(th[t], d) = 0 /\ NewOf(r, d) = 0
  BY DEF NewOf
<1>6. \A d \in DevIds : devs'[d].ref + NewOf(th[t], d) + Occurs(d, HeldOf(th[t])) = devs[d].ref + NewOf(r, d) + Occurs(d, HeldOf(r))
  BY <1>1, <1>5
<1>7. RefsInv'
  BY <1>1, <1>4, <1>6, RefsMove
<1> QED
  BY <1>2, <1>3, <1>7

\* Who has a context
LEMMA ContextUsers ==
  ASSUME DevicesInv
  PROVE  /\ \A u \in Callers : th[u].ctx # 0 <=> th[u].pc \notin {"out", "starting"}
         /\ \A u \in Callers : th[u].ctx \in {0} \cup CtxIds /\ (th[u].ctx # 0 => th[u].ctx \in alive)
         /\ default # 0 <=> Users # {}
         /\ ~host.shared => Users = {} /\ default = 0 /\ refs = 0
         /\ \A u \in Callers : th[u].ctx = default /\ default # 0 => u \in Users
         /\ \A c \in alive : \E u \in Callers : th[u].ctx = c
         /\ 0 \notin alive /\ (default # 0 => default \in alive) /\ refs = Cardinality(Users)
<1>1. ContextsInv /\ PlacesInv /\ DevicesTypeInv
  BY DEF DevicesInv
<1>2. \A u \in Callers : WellFormed(th[u]) /\ th[u] \in CallerRec
  BY <1>1 DEF PlacesInv, DevicesTypeInv
<1>3. \A u \in Callers : (th[u].ctx # 0 <=> th[u].pc \notin {"out", "starting"}) /\ th[u].ctx \in {0} \cup CtxIds
  BY <1>2 DEF WellFormed, CallerRec
<1>4. refs = Cardinality(Users) /\ (default # 0 <=> refs > 0) /\ alive = {th[t].ctx : t \in Callers} \ {0}
  BY <1>1 DEF ContextsInv
<1>5. Cardinality(Users) = 0 <=> Users = {}
  BY ContextsFew, FS_EmptySet
<1>6. default # 0 <=> Users # {}
  BY <1>4, <1>5, ContextsFew
<1>7. ~host.shared => Users = {}
  BY DEF Users
<1>8. Users = {} => refs = 0
  BY <1>4, <1>5
<1>9. default # 0 => \E w \in Users : th[w].ctx = default
  BY <1>1, <1>6 DEF ContextsInv
<1>10. ASSUME NEW u \in Callers, th[u].ctx = default, default # 0 PROVE u \in Users
  <2>1. PICK w \in Users : th[w].ctx = default
    BY <1>9, <1>10
  <2>2. w \in Callers
    BY DEF Users
  <2> QED
    BY <1>1, <1>10, <2>1, <2>2 DEF ContextsInv
<1>11. Users \subseteq Callers
  BY DEF Users
<1> QED
  BY <1>3, <1>4, <1>6, <1>7, <1>8, <1>9, <1>10, <1>11

\* What the backend has counted while there are the contexts A
Honest(b, A) ==
  /\ onDarwin /\ b # Darwin!Adrift => b.count = Cardinality(A) /\ (b.runs # 0 <=> A # {})
  /\ ~onDarwin => b.count = 0

\* The backend counts the contexts.
LEMMA BackendIs ==
  ASSUME DevicesInv
  PROVE  backend \in BackendRec /\ Honest(backend, alive) /\ Darwin!Adrift \in BackendRec
<1>1. backend \in BackendRec /\ Honest(backend, alive)
  BY DEF DevicesInv, DevicesTypeInv, ContextsInv, Honest, BackendRec
<1>2. Darwin!Adrift \in BackendRec
  BY DEF BackendRec, Darwin!Adrift
<1> QED
  BY <1>1, <1>2

\* A thread that goes into the backend keeps the count, or it is not known.
LEMMA EntersIs ==
  ASSUME DevicesInv, NEW t \in Callers, Enters(t)
  PROVE  backend' \in BackendRec /\ Honest(backend', alive)
<1>1. backend \in BackendRec /\ Honest(backend, alive) /\ Darwin!Adrift \in BackendRec
  BY BackendIs
<1>2. backend' = backend \/ (onDarwin /\ backend' = Darwin!Adrift)
  BY DEF Enters
<1> QED
  BY <1>1, <1>2 DEF Honest

\* A backend that starts counts the new context.
LEMMA InitsIs ==
  ASSUME DevicesInv, NEW c \in CtxIds \ alive, NEW i \in IF onDarwin THEN Darwin!DarwinInit(backend, c) ELSE {[r |-> "ok", b |-> backend]}
  PROVE  i.b \in BackendRec /\ (i.r = "ok" => Honest(i.b, alive \cup {c})) /\ (i.r # "ok" => Honest(i.b, alive))
<1>1. backend \in BackendRec /\ Honest(backend, alive) /\ Darwin!Adrift \in BackendRec
  BY BackendIs
<1>2. /\ IsFiniteSet(alive) /\ Cardinality(alive) \in Nat /\ Cardinality(alive \cup {c}) = Cardinality(alive) + 1 /\ c # 0
      /\ Cardinality(alive) = 0 <=> alive = {}
  BY ContextsFew, FS_AddElement, FS_EmptySet, DeviceNumbers
<1>3. CASE ~onDarwin
  BY <1>1, <1>3 DEF Honest
<1>4. CASE onDarwin /\ backend = Darwin!Adrift
  <2>1. i.b = Darwin!Adrift
    BY <1>4 DEF Darwin!DarwinInit
  <2> QED
    BY <1>1, <1>4, <2>1 DEF Honest
<1>5. CASE onDarwin /\ backend # Darwin!Adrift
  <2> DEFINE b == [count |-> backend.count + 1, runs |-> IF backend.count = 0 THEN c ELSE backend.runs]
  <2>1. i = [r |-> "ok", b |-> b] \/ i = [r |-> "OTHER", b |-> Darwin!Adrift]
    BY <1>5 DEF Darwin!DarwinInit
  <2>2. backend.count = Cardinality(alive) /\ (backend.runs # 0 <=> alive # {}) /\ backend.runs \in {0} \cup CtxIds
    BY <1>1, <1>5 DEF Honest, BackendRec
  <2>3. b \in BackendRec /\ b.count = Cardinality(alive) + 1 /\ b.runs # 0
    <3>1. (IF backend.count = 0 THEN c ELSE backend.runs) \in {0} \cup CtxIds /\ backend.count + 1 \in Int
      BY <1>2, <2>2
    <3> QED
      BY <1>2, <2>2, <3>1 DEF BackendRec
  <2> HIDE DEF b
  <2>4. Honest(b, alive \cup {c}) /\ Honest(Darwin!Adrift, alive)
    BY <1>2, <1>5, <2>3 DEF Honest
  <2> QED
    BY <1>1, <2>1, <2>3, <2>4
<1> QED
  BY <1>3, <1>4, <1>5

\* A backend that is told to exit counts a context less.
LEMMA ExitsIs ==
  ASSUME NEW b \in BackendRec, NEW A, IsFiniteSet(A), NEW c \in A, Honest(b, A)
  PROVE  LET e == IF onDarwin THEN Darwin!DarwinExit(b) ELSE b IN e \in BackendRec /\ Honest(e, A \ {c})
<1> DEFINE e == [count |-> b.count - 1, runs |-> IF b.count = 1 THEN 0 ELSE b.runs]
<1>1. /\ Cardinality(A) \in Nat /\ IsFiniteSet(A \ {c}) /\ Cardinality(A \ {c}) = Cardinality(A) - 1
      /\ Cardinality(A \ {c}) = 0 <=> A \ {c} = {}
  <2>1. Cardinality(A) \in Nat /\ IsFiniteSet(A \ {c}) /\ Cardinality(A \ {c}) = Cardinality(A) - 1
    BY FS_CardinalityType, FS_RemoveElement
  <2> QED
    BY <2>1, FS_EmptySet
<1>2. CASE ~onDarwin
  BY <1>2 DEF Honest
<1>3. CASE onDarwin /\ b = Darwin!Adrift
  BY <1>3 DEF Honest, Darwin!DarwinExit
<1>4. CASE onDarwin /\ b # Darwin!Adrift
  <2>1. Darwin!DarwinExit(b) = e
    BY <1>4 DEF Darwin!DarwinExit
  <2>2. b.count = Cardinality(A) /\ b.runs # 0 /\ b.runs \in {0} \cup CtxIds
    BY <1>4 DEF Honest, BackendRec
  <2>3. e \in BackendRec /\ e.count = Cardinality(A) - 1 /\ (e.runs # 0 <=> Cardinality(A) # 1)
    <3>1. (IF b.count = 1 THEN 0 ELSE b.runs) \in {0} \cup CtxIds /\ b.count - 1 \in Int
      BY <1>1, <2>2
    <3> QED
      BY <2>2, <3>1 DEF BackendRec
  <2> HIDE DEF e
  <2>4. Honest(e, A \ {c})
    BY <1>1, <1>4, <2>3 DEF Honest
  <2> QED
    BY <1>4, <2>1, <2>3, <2>4
<1> QED
  BY <1>2, <1>3, <1>4

\* A thread between calls that has no list has no devices.
LEMMA HoldsNone ==
  ASSUME DevicesInv, NEW t \in Callers, th[t].pc \in {"out", "starting", "idle", "freeing", "stopping"}, th[t].list = <<>>
  PROVE  HeldOf(th[t]) = <<>> /\ ~th[t].new /\ th[t] \in CallerRec /\ th \in [Callers -> CallerRec]
<1>1. th[t] \in CallerRec /\ WellFormed(th[t]) /\ th \in [Callers -> CallerRec] /\ (th[t].disc = <<>> => HeldOf(th[t]) = th[t].list)
  BY ThreadIs DEF DevicesInv, DevicesTypeInv
<1> QED
  BY <1>1 DEF WellFormed, Working

\* A thread uses the default context another one has made.
LEMMA JoinsContext ==
  ASSUME DevicesInv, NEW t \in Callers, th[t].pc = "out", host.shared, default # 0, refs' = refs + 1,
         Set(t, [th[t] EXCEPT !.pc = "idle", !.ctx = default]),
         UNCHANGED <<st, alive, default, backend, host, kernelVars, opener, devs, hs, wild, past>>
  PROVE  DevicesInv'
<1> DEFINE r == [th[t] EXCEPT !.pc = "idle", !.ctx = default]
<1>1. /\ th[t] \in CallerRec /\ WellFormed(th[t]) /\ th[t].list = <<>> /\ th[t].disc = <<>> /\ th[t].new = FALSE
      /\ default \in {0} \cup CtxIds /\ alive \subseteq CtxIds /\ st \in Linux!Statics /\ th[t].ctx = 0
      /\ ContextsInv
  BY ThreadIs DEF DevicesInv, DevicesTypeInv, WellFormed, Working, CallerRec
<1>2. r \in CallerRec
  BY <1>1 DEF CallerRec, Places
<1>3. r.pc = "idle" /\ r.ctx = default /\ r.list = <<>> /\ r.disc = <<>> /\ r.new = FALSE
  BY <1>1 DEF CallerRec
<1>4. Set(t, r)
  OBVIOUS
<1> HIDE DEF r
<1>5. WellFormed(r) /\ HeldOf(r) = <<>> /\ HeldOf(th[t]) = <<>>
  BY <1>1, <1>3 DEF WellFormed, Working, HeldOf
<1>6. Users \in SUBSET Callers /\ IsFiniteSet(Users) /\ refs = Cardinality(Users) /\ Cardinality(Users) \in Nat /\ t \notin Users
  BY ContextsFew, ContextUsers DEF Users, Absent
<1>7. DevicesTypeInv' /\ PlacesInv' /\ RefsInv' /\ th'[t] = r /\ \A u \in Callers \ {t} : th'[u] = th[u]
  <2>1. refs' \in Nat /\ backend \in BackendRec /\ Remembers
    BY <1>6, BackendIs DEF DevicesInv, DevicesTypeInv, Remembers
  <2> QED
    BY <1>1, <1>2, <1>3, <1>4, <1>5, <2>1, ContextMoves DEF Absent
<1>8. Users' = Users \cup {t}
  BY <1>3, <1>7 DEF Users, Absent
<1>9. Cardinality(Users') = refs + 1
  BY <1>6, <1>8, FS_AddElement
<1>10. alive' = {th[u].ctx : u \in Callers}' \ {0}
  <2>1. \A c \in alive : c # 0 /\ \E u \in Callers : th'[u].ctx = c
    <3> TAKE c \in alive
    <3>1. PICK u \in Callers : th[u].ctx = c
      BY ContextUsers
    <3>2. c # 0
      BY ContextUsers
    <3> QED
      BY <1>1, <1>7, <3>1, <3>2
  <2>2. \A u \in Callers : th'[u].ctx # 0 => th'[u].ctx \in alive
    BY <1>3, <1>7, ContextUsers
  <2> QED
    BY <2>1, <2>2
<1>11. onDarwin' = onDarwin
  BY DEF onDarwin
<1>12. \A u \in Users' : th'[u].ctx = default
  <2>1. \A u \in Users : th[u].ctx = default /\ u \in Callers \ {t}
    BY <1>1, <1>6 DEF ContextsInv
  <2> QED
    BY <1>3, <1>7, <1>8, <2>1
<1>13. /\ \A u \in Callers : th'[u].pc \in Ended => th'[u].ctx # default
       /\ \A u \in Callers : th'[u].pc = "starting" => FALSE
  BY <1>1, <1>3, <1>7 DEF ContextsInv, Ended
<1>14. ASSUME NEW u \in Callers, NEW v \in Callers, u # v, th'[u].ctx = th'[v].ctx, th'[u].ctx # 0
       PROVE  u \in Users' /\ v \in Users'
  <2>1. u # t /\ v # t => u \in Users /\ v \in Users
    BY <1>1, <1>7, <1>14 DEF ContextsInv
  <2>2. u = t => v \in Users
    BY <1>3, <1>7, <1>14, ContextUsers
  <2>3. v = t => u \in Users
    BY <1>3, <1>7, <1>14, ContextUsers
  <2> QED
    BY <1>8, <2>1, <2>2, <2>3
<1>15. refs' = Cardinality(Users') /\ (default' # 0 <=> refs' > 0) /\ default' = default
  BY <1>6, <1>9
<1>16. /\ onDarwin /\ backend' # Darwin!Adrift => backend'.count = Cardinality(alive') /\ (backend'.runs # 0 <=> alive' # {})
       /\ ~onDarwin => backend'.count = 0
  BY <1>1 DEF ContextsInv
<1>17. ContextsInv'
  BY <1>10, <1>11, <1>12, <1>13, <1>14, <1>15, <1>16 DEF ContextsInv
<1> QED
  BY <1>7, <1>17 DEF DevicesInv

\* A thread that goes from one of these places to another stays out.
LEMMA AbsentMoves ==
  ASSUME DevicesInv, NEW t \in Callers, NEW p \in Absent, th[t].pc \in Absent, Set(t, [th[t] EXCEPT !.pc = p]), Enters(t),
         p \in Ended <=> th[t].pc \in Ended, p = "starting" => ~Locked /\ ~(host.shared /\ default # 0),
         UNCHANGED <<st, alive, default, refs, host, kernelVars, opener, devs, hs, wild, past>>
  PROVE  DevicesInv'
<1> DEFINE r == [th[t] EXCEPT !.pc = p]
<1>1. /\ th[t] \in CallerRec /\ WellFormed(th[t]) /\ th[t].list = <<>> /\ th[t].disc = <<>> /\ th[t].new = FALSE
      /\ default \in {0} \cup CtxIds /\ alive \subseteq CtxIds /\ st \in Linux!Statics /\ refs \in Nat
      /\ ContextsInv /\ PlacesInv
  BY ThreadIs DEF DevicesInv, DevicesTypeInv, WellFormed, Working, CallerRec, Absent
<1>2. r \in CallerRec
  BY <1>1 DEF CallerRec, Places, Absent
<1>3. r.pc = p /\ r.ctx = th[t].ctx /\ r.list = <<>> /\ r.disc = <<>> /\ r.new = FALSE
  BY <1>1 DEF CallerRec
<1>4. Set(t, r)
  OBVIOUS
<1> HIDE DEF r
<1>5. WellFormed(r) /\ HeldOf(r) = <<>> /\ HeldOf(th[t]) = <<>>
  BY <1>1, <1>3 DEF WellFormed, Working, HeldOf, Absent, Ended
<1>6. backend' \in BackendRec /\ Honest(backend', alive)
  BY EntersIs
<1>7. \A s \in Slots : hs[<<t, s>>].dev = 0
  BY <1>1 DEF PlacesInv
<1>8. Remembers
  BY DEF DevicesInv, DevicesTypeInv, Remembers
<1>9. DevicesTypeInv' /\ PlacesInv' /\ RefsInv' /\ th'[t] = r /\ \A u \in Callers \ {t} : th'[u] = th[u]
  BY <1>1, <1>2, <1>3, <1>4, <1>5, <1>6, <1>7, <1>8, ContextMoves
<1>10. Users' = Users
  BY <1>3, <1>9 DEF Users
<1>11. \A u \in Callers : th'[u].ctx = th[u].ctx /\ (th'[u].pc \in Ended <=> th[u].pc \in Ended)
  BY <1>3, <1>9
<1>12. {th[u].ctx : u \in Callers}' = {th[u].ctx : u \in Callers}
  BY <1>11
<1>13. /\ \A u \in Callers : th'[u].pc = "starting" => ~(host.shared /\ default # 0)
       /\ \A u, v \in Callers : th'[u].pc = "starting" /\ th'[v].pc = "starting" => u = v
  BY <1>1, <1>3, <1>9 DEF ContextsInv, Locked
<1>14. onDarwin' = onDarwin /\ host' = host
  BY DEF onDarwin
<1>15. \A u \in Users' : th'[u].ctx = default'
  BY <1>1, <1>10, <1>11 DEF ContextsInv, Users
<1>16. \A u, v \in Callers : u # v /\ th'[u].ctx = th'[v].ctx /\ th'[u].ctx # 0 => u \in Users' /\ v \in Users'
  BY <1>1, <1>10, <1>11 DEF ContextsInv
<1>17. \A u \in Callers : th'[u].pc \in Ended => th'[u].ctx # default'
  BY <1>1, <1>11 DEF ContextsInv
<1>18. ContextsInv'
  BY <1>1, <1>6, <1>10, <1>12, <1>13, <1>14, <1>15, <1>16, <1>17 DEF ContextsInv, Honest
<1> QED
  BY <1>9, <1>18 DEF DevicesInv

\* A thread that has no context any more, or had none: the others keep theirs.
LEMMA ContextGone ==
  ASSUME DevicesInv, NEW t \in Callers, th[t].pc \in Absent, Set(t, NoCaller), Remembers, st' \in Linux!Statics,
         alive' = alive \ {th[t].ctx}, backend' \in BackendRec, Honest(backend', alive'),
         UNCHANGED <<host, kernelVars, opener, default, refs, devs, hs, wild>>
  PROVE  DevicesInv'
<1>1. /\ th[t] \in CallerRec /\ WellFormed(th[t]) /\ th[t].list = <<>> /\ th[t].disc = <<>> /\ ~th[t].new
      /\ default \in {0} \cup CtxIds /\ alive \subseteq CtxIds /\ refs \in Nat /\ ContextsInv /\ PlacesInv
  BY ThreadIs DEF DevicesInv, DevicesTypeInv, WellFormed, Working, Absent
<1>2. HeldOf(th[t]) = <<>> /\ \A s \in Slots : hs[<<t, s>>].dev = 0
  BY <1>1, HoldsNone DEF PlacesInv, Absent
<1>3. t \notin Users /\ \A u \in Callers \ {t} : th[u].ctx # 0 => th[u].ctx # th[t].ctx
  BY <1>1 DEF ContextsInv, Users
<1>4. DevicesTypeInv' /\ PlacesInv' /\ RefsInv' /\ th'[t] = NoCaller /\ \A u \in Callers \ {t} : th'[u] = th[u]
  <2>1. alive' \subseteq CtxIds
    BY <1>1
  <2> QED
    BY <1>1, <1>2, <2>1, NoCallerIs, ContextMoves
<1>5. Users' = Users
  BY <1>3, <1>4, NoCallerIs DEF Users, Absent
<1>6. alive' = {th[u].ctx : u \in Callers}' \ {0}
  <2>1. \A d \in alive' : d # 0 /\ \E u \in Callers : th'[u].ctx = d
    <3> TAKE d \in alive'
    <3>1. PICK u \in Callers : th[u].ctx = d
      BY ContextUsers
    <3>2. d # 0 /\ d # th[t].ctx
      BY ContextUsers
    <3> QED
      BY <1>4, <3>1, <3>2
  <2>2. \A u \in Callers : th'[u].ctx # 0 => th'[u].ctx \in alive'
    BY <1>3, <1>4, ContextUsers, NoCallerIs
  <2> QED
    BY <2>1, <2>2
<1>7. onDarwin' = onDarwin /\ host' = host
  BY DEF onDarwin
<1>8. \A u \in Users' : th'[u].ctx = default'
  <2>1. \A u \in Users : u \in Callers \ {t} /\ th[u].ctx = default
    BY <1>1, <1>3 DEF Users, ContextsInv
  <2> QED
    BY <1>4, <1>5, <2>1
<1>9. /\ \A u \in Callers : th'[u].pc \in Ended => th'[u].ctx # default'
      /\ \A u \in Callers : th'[u].pc = "starting" => ~(host.shared /\ default # 0)
      /\ \A u, v \in Callers : th'[u].pc = "starting" /\ th'[v].pc = "starting" => u = v
  BY <1>1, <1>4, NoCallerIs DEF ContextsInv, Ended
<1>10. ASSUME NEW u \in Callers, NEW v \in Callers, u # v, th'[u].ctx = th'[v].ctx, th'[u].ctx # 0
       PROVE  u \in Users' /\ v \in Users'
  <2>1. u # t /\ v # t
    BY <1>4, <1>10, NoCallerIs
  <2> QED
    BY <1>1, <1>4, <1>5, <1>10, <2>1 DEF ContextsInv
<1>11. refs' = Cardinality(Users') /\ (default' # 0 <=> refs' > 0)
  BY <1>1, <1>5 DEF ContextsInv
<1>12. ContextsInv'
  BY <1>6, <1>7, <1>8, <1>9, <1>10, <1>11 DEF ContextsInv, Honest
<1> QED
  BY <1>4, <1>12 DEF DevicesInv

\* A context of its own, or the first default one
LEMMA MakesContext ==
  ASSUME DevicesInv, NEW t \in Callers, th[t].pc = "starting", NEW c \in CtxIds \ alive,
         NEW b \in BackendRec, Honest(b, alive \cup {c}),
         st' \in Linux!Statics, backend' = b, alive' = alive \cup {c},
         default' = IF host.shared THEN c ELSE default, refs' = IF host.shared THEN refs + 1 ELSE refs,
         Set(t, [th[t] EXCEPT !.pc = "idle", !.ctx = c]), UNCHANGED <<host, kernelVars, opener, devs, hs, wild, past>>
  PROVE  DevicesInv'
<1> DEFINE r == [th[t] EXCEPT !.pc = "idle", !.ctx = c]
<1>1. /\ th[t] \in CallerRec /\ WellFormed(th[t]) /\ th[t].list = <<>> /\ th[t].disc = <<>> /\ th[t].new = FALSE
      /\ default \in {0} \cup CtxIds /\ alive \subseteq CtxIds /\ st \in Linux!Statics /\ th[t].ctx = 0
      /\ ContextsInv
  BY ThreadIs DEF DevicesInv, DevicesTypeInv, WellFormed, Working, CallerRec
<1>2. c \in CtxIds /\ c \notin alive /\ c # 0
  BY DeviceNumbers
<1>3. /\ st' \in Linux!Statics /\ backend' = b /\ alive' = alive \cup {c}
      /\ default' = (IF host.shared THEN c ELSE default) /\ refs' = (IF host.shared THEN refs + 1 ELSE refs)
      /\ Set(t, r)
  OBVIOUS
<1>4. r \in CallerRec
  BY <1>1, <1>2 DEF CallerRec, Places
<1>5. r.pc = "idle" /\ r.ctx = c /\ r.list = <<>> /\ r.disc = <<>> /\ r.new = FALSE
  BY <1>1 DEF CallerRec
<1> HIDE DEF r
<1>6. WellFormed(r) /\ HeldOf(r) = <<>> /\ HeldOf(th[t]) = <<>>
  BY <1>1, <1>2, <1>5 DEF WellFormed, Working, HeldOf
<1>7. Users = {} /\ default = 0 /\ refs = 0
  <2>1. ~(host.shared /\ default # 0)
    BY <1>1 DEF ContextsInv
  <2> QED
    BY <1>1, <2>1, ContextUsers, FS_EmptySet DEF ContextsInv
<1>8. Remembers
  BY DEF DevicesInv, DevicesTypeInv, Remembers
<1>11. DevicesTypeInv' /\ PlacesInv' /\ RefsInv' /\ th'[t] = r /\ \A u \in Callers \ {t} : th'[u] = th[u]
  <2>1. alive' \subseteq CtxIds /\ default' \in {0} \cup CtxIds /\ refs' \in Nat
    BY <1>1, <1>2, <1>3, <1>7
  <2> QED
    BY <1>1, <1>3, <1>4, <1>5, <1>6, <1>8, <2>1, ContextMoves DEF Absent
<1>12. Users' = (IF host.shared THEN {t} ELSE {}) /\ Cardinality(Users') = (IF host.shared THEN 1 ELSE 0)
  <2>1. Users' = IF host.shared THEN {t} ELSE {}
    BY <1>5, <1>7, <1>11 DEF Users, Absent
  <2> QED
    BY <2>1, FS_EmptySet, FS_Singleton
<1>13. alive' = {th[u].ctx : u \in Callers}' \ {0}
  <2>1. \A d \in alive : d # 0 /\ \E u \in Callers : th'[u].ctx = d
    <3> TAKE d \in alive
    <3>1. PICK u \in Callers : th[u].ctx = d
      BY ContextUsers
    <3>2. d # 0
      BY ContextUsers
    <3> QED
      BY <1>1, <1>11, <3>1, <3>2
  <2>2. \A u \in Callers : th'[u].ctx # 0 => th'[u].ctx \in alive \cup {c}
    BY <1>5, <1>11, ContextUsers
  <2>3. th'[t].ctx = c /\ c # 0
    BY <1>2, <1>5, <1>11
  <2> QED
    BY <1>3, <2>1, <2>2, <2>3
<1>14. onDarwin' = onDarwin /\ host' = host
  BY DEF onDarwin
<1>15. \A u \in Users' : th'[u].ctx = default'
  BY <1>3, <1>5, <1>11, <1>12
<1>16. /\ \A u \in Callers : th'[u].pc \in Ended => th'[u].ctx # default'
       /\ \A u \in Callers : th'[u].pc # "starting"
  <2>1. \A u \in Callers \ {t} : th[u].pc \in Ended => th[u].ctx # 0 /\ th[u].ctx # c
    BY <1>2, ContextUsers DEF Ended
  <2>2. \A u \in Callers \ {t} : th[u].pc # "starting"
    BY <1>1 DEF ContextsInv
  <2> QED
    BY <1>3, <1>5, <1>7, <1>11, <2>1, <2>2 DEF Ended
<1>17. ASSUME NEW u \in Callers, NEW v \in Callers, u # v, th'[u].ctx = th'[v].ctx, th'[u].ctx # 0
       PROVE  FALSE
  <2>1. u # t /\ v # t
    BY <1>2, <1>5, <1>11, <1>17, ContextUsers
  <2>2. u \in Users /\ v \in Users
    BY <1>1, <1>11, <1>17, <2>1 DEF ContextsInv
  <2> QED
    BY <1>7, <2>2
<1>18. /\ refs' = Cardinality(Users') /\ (default' # 0 <=> refs' > 0)
  BY <1>2, <1>3, <1>7, <1>12
<1>19. /\ onDarwin /\ backend' # Darwin!Adrift => backend'.count = Cardinality(alive') /\ (backend'.runs # 0 <=> alive' # {})
       /\ ~onDarwin => backend'.count = 0
  BY <1>3 DEF Honest
<1>20. ContextsInv'
  BY <1>13, <1>14, <1>15, <1>16, <1>17, <1>18, <1>19 DEF ContextsInv
<1> QED
  BY <1>11, <1>20 DEF DevicesInv

\* libusb_init: the default context is there, or one is to be made
LEMMA InitContextKeeps ==
  ASSUME DevicesInv, NEW t \in Callers, InitContext(t)
  PROVE  DevicesInv'
<1>1. th[t].pc = "out" /\ ~Locked /\ UNCHANGED <<host, kernelVars, opener, st, alive, default, devs, hs, wild, past>>
  BY DEF InitContext
<1>2. CASE host.shared /\ default # 0
  BY <1>1, <1>2, JoinsContext DEF InitContext
<1>3. CASE ~(host.shared /\ default # 0)
  <2>1. Set(t, [th[t] EXCEPT !.pc = "starting"]) /\ Enters(t) /\ UNCHANGED refs
    BY <1>3 DEF InitContext
  <2>2. "starting" \in Absent /\ "out" \in Absent /\ "starting" \notin Ended /\ "out" \notin Ended
    BY DEF Absent, Ended
  <2> QED
    BY <1>1, <1>3, <2>1, <2>2, AbsentMoves
<1> QED
  BY <1>2, <1>3

\* libusb_init, in all of its ways out
LEMMA NewContextKeeps ==
  ASSUME DevicesInv, NEW t \in Callers, NewContext(t)
  PROVE  DevicesInv'
<1> DEFINE c == CHOOSE x \in CtxIds \ alive : TRUE
           starts == IF onDarwin THEN Darwin!DarwinInit(backend, c) ELSE {[r |-> "ok", b |-> backend]}
<1>1. /\ th[t].pc = "starting" /\ st' = Linux!OpInit(st, host.kernel) /\ UNCHANGED <<host, kernelVars, opener, devs, hs, wild, past>>
      /\ st \in Linux!Statics
  BY DEF NewContext, DevicesInv, DevicesTypeInv
<1>2. c \in CtxIds \ alive
  BY ContextsFew
<1>3. PICK i \in starts, denied \in BOOLEAN :
        IF i.r = "ok" /\ ~denied
        THEN /\ backend' = i.b /\ alive' = alive \cup {c}
             /\ default' = (IF host.shared THEN c ELSE default)
             /\ refs' = (IF host.shared THEN refs + 1 ELSE refs)
             /\ Set(t, [th[t] EXCEPT !.pc = "idle", !.ctx = c])
        ELSE /\ backend' = (IF i.r = "ok" /\ onDarwin THEN Darwin!DarwinExit(i.b) ELSE i.b)
             /\ Set(t, NoCaller)
             /\ UNCHANGED <<alive, default, refs>>
  BY DEF NewContext
<1> HIDE DEF c
<1>4. i.b \in BackendRec /\ (i.r = "ok" => Honest(i.b, alive \cup {c})) /\ (i.r # "ok" => Honest(i.b, alive))
  BY <1>2, InitsIs
<1>5. i.r = "ok" \/ onDarwin
  OBVIOUS
<1> HIDE DEF starts
<1>6. st' \in Linux!Statics
  BY <1>1 DEF Linux!OpInit, Linux!Statics
<1>7. CASE i.r = "ok" /\ ~denied
  BY <1>1, <1>2, <1>3, <1>4, <1>6, <1>7, MakesContext
<1>8. CASE ~(i.r = "ok" /\ ~denied)
  <2>1. /\ backend' = (IF i.r = "ok" /\ onDarwin THEN Darwin!DarwinExit(i.b) ELSE i.b)
        /\ Set(t, NoCaller) /\ UNCHANGED <<alive, default, refs>>
    BY <1>3, <1>8
  <2>2. IsFiniteSet(alive \cup {c}) /\ (alive \cup {c}) \ {c} = alive
    BY <1>2, ContextsFew, FS_AddElement
  <2>3. backend' \in BackendRec /\ Honest(backend', alive)
    <3>1. CASE i.r = "ok"
      <4> DEFINE e == IF onDarwin THEN Darwin!DarwinExit(i.b) ELSE i.b
      <4>1. backend' = e
        BY <2>1, <3>1
      <4>2. e \in BackendRec /\ Honest(e, (alive \cup {c}) \ {c})
        BY <1>4, <2>2, <3>1, ExitsIs
      <4> HIDE DEF e
      <4> QED
        BY <2>2, <4>1, <4>2
    <3>2. CASE i.r # "ok"
      BY <1>4, <2>1, <3>2
    <3> QED
      BY <3>1, <3>2
  <2>4. alive' = alive \ {th[t].ctx} /\ th[t].pc \in Absent
    <3>1. th[t].ctx = 0 /\ 0 \notin alive
      BY <1>1, ContextUsers
    <3> QED
      BY <1>1, <2>1, <3>1 DEF Absent
  <2>5. Remembers
    BY <1>1 DEF DevicesInv, DevicesTypeInv, Remembers
  <2> QED
    BY <1>1, <1>6, <2>1, <2>3, <2>4, <2>5, ContextGone
<1> QED
  BY <1>7, <1>8

\* The last user of the default context, or the owner of another, frees it: it
\* is nobody's default any more.
LEMMA LeavesContext ==
  ASSUME DevicesInv, NEW t \in Callers, Exit(t), th[t].ctx # default \/ refs = 1
  PROVE  DevicesInv'
<1> DEFINE r == [th[t] EXCEPT !.pc = "freeing"]
<1>1. /\ th[t].pc = "idle" /\ th[t].list = <<>> /\ \A s \in Slots : hs[<<t, s>>].dev = 0
      /\ Set(t, r) /\ UNCHANGED <<host, kernelVars, opener, st, alive, backend, devs, hs, wild, past>>
      /\ refs' = (IF th[t].ctx = default THEN refs - 1 ELSE refs)
      /\ default' = IF th[t].ctx = default THEN 0 ELSE default
  BY DEF Exit, HoldsNothing
<1>2. /\ th[t] \in CallerRec /\ WellFormed(th[t]) /\ th[t].disc = <<>> /\ ~th[t].new /\ HeldOf(th[t]) = <<>>
      /\ default \in {0} \cup CtxIds /\ alive \subseteq CtxIds /\ st \in Linux!Statics /\ th[t].ctx # 0
      /\ backend \in BackendRec /\ refs \in Nat /\ ContextsInv /\ Remembers
  BY <1>1, ThreadIs, HoldsNone DEF DevicesInv, DevicesTypeInv, WellFormed, BackendRec, Remembers
<1>3. r \in CallerRec
  BY <1>2 DEF CallerRec, Places
<1>4. r.pc = "freeing" /\ r.ctx = th[t].ctx /\ r.list = <<>> /\ r.disc = <<>> /\ ~r.new
  BY <1>1, <1>2 DEF CallerRec
<1> HIDE DEF r
<1>5. WellFormed(r) /\ HeldOf(r) = <<>>
  BY <1>2, <1>4 DEF WellFormed, Working, HeldOf
<1>6. th[t].ctx = default => refs = 1 /\ Users = {t}
  <2> SUFFICES ASSUME th[t].ctx = default PROVE refs = 1 /\ Users = {t}
    OBVIOUS
  <2>1. t \in Users /\ IsFiniteSet(Users) /\ Cardinality(Users) = 1
    BY <1>2, ContextUsers, ContextsFew
  <2>2. \E x : Users = {x}
    BY <2>1, FS_Singleton
  <2> QED
    BY <2>1, <2>2
<1>7. th[t].ctx # default => Users = {} /\ ~host.shared /\ default = 0
  <2> SUFFICES ASSUME th[t].ctx # default PROVE Users = {} /\ ~host.shared /\ default = 0
    OBVIOUS
  <2>1. host.shared => t \in Users
    BY <1>1 DEF Users, Absent
  <2>2. ~host.shared
    BY <1>2, <2>1 DEF ContextsInv
  <2> QED
    BY <2>2, ContextUsers
<1>8. refs' = 0 /\ default' = 0
  BY <1>1, <1>6, <1>7, ContextUsers
<1>9. DevicesTypeInv' /\ PlacesInv' /\ RefsInv' /\ th'[t] = r /\ \A u \in Callers \ {t} : th'[u] = th[u]
  BY <1>1, <1>2, <1>3, <1>4, <1>5, <1>8, ContextMoves DEF Absent
<1>10. Users' = {}
  <2>1. \A u \in Callers \ {t} : u \notin Users
    BY <1>6, <1>7
  <2> QED
    BY <1>1, <1>4, <1>9, <2>1 DEF Users, Absent
<1>11. \A u \in Callers : th'[u].ctx = th[u].ctx
  BY <1>4, <1>9
<1>12. alive' = {th[u].ctx : u \in Callers}' \ {0}
  <2>1. {th[u].ctx : u \in Callers}' = {th[u].ctx : u \in Callers}
    BY <1>11
  <2> QED
    BY <1>1, <1>2, <2>1 DEF ContextsInv
<1>13. /\ \A u \in Callers : th'[u].pc \in Ended => th'[u].ctx # 0
       /\ \A u, v \in Callers : th'[u].pc = "starting" /\ th'[v].pc = "starting" => u = v
  <2>1. \A u \in Callers : th[u].pc \in Ended => th[u].ctx # 0
    BY ContextUsers DEF Ended
  <2>2. \A u \in Callers : th'[u].pc = "starting" => th[u].pc = "starting"
    BY <1>4, <1>9
  <2> QED
    BY <1>2, <1>4, <1>9, <2>1, <2>2 DEF ContextsInv
<1>14. ASSUME NEW u \in Callers, NEW v \in Callers, u # v, th'[u].ctx = th'[v].ctx, th'[u].ctx # 0
       PROVE  FALSE
  <2>1. u \in Users /\ v \in Users
    BY <1>2, <1>11, <1>14 DEF ContextsInv
  <2> QED
    BY <1>6, <1>7, <1>14, <2>1
<1>15. onDarwin' = onDarwin /\ Cardinality({}) = 0
  BY <1>1, FS_EmptySet DEF onDarwin
<1>16. /\ onDarwin /\ backend' # Darwin!Adrift => backend'.count = Cardinality(alive') /\ (backend'.runs # 0 <=> alive' # {})
       /\ ~onDarwin => backend'.count = 0
  BY <1>1, <1>2 DEF ContextsInv
<1>17. refs' = Cardinality(Users') /\ (default' # 0 <=> refs' > 0) /\ \A u \in Users' : th'[u].ctx = default'
  BY <1>8, <1>10, <1>15
<1>18. ContextsInv'
  BY <1>8, <1>12, <1>13, <1>14, <1>15, <1>16, <1>17 DEF ContextsInv
<1> QED
  BY <1>9, <1>18 DEF DevicesInv

\* While others use the default context, a thread only leaves it.
LEMMA LeavesDefault ==
  ASSUME DevicesInv, NEW t \in Callers, Exit(t), th[t].ctx = default, refs # 1
  PROVE  DevicesInv'
<1>1. /\ th[t].pc = "idle" /\ th[t].list = <<>> /\ \A s \in Slots : hs[<<t, s>>].dev = 0
      /\ Set(t, NoCaller) /\ UNCHANGED <<host, kernelVars, opener, st, alive, backend, devs, hs, wild, past>>
      /\ refs' = refs - 1 /\ default' = default
  BY DEF Exit, HoldsNothing
<1>2. /\ th[t] \in CallerRec /\ WellFormed(th[t]) /\ th[t].disc = <<>> /\ ~th[t].new /\ HeldOf(th[t]) = <<>>
      /\ default \in {0} \cup CtxIds /\ alive \subseteq CtxIds /\ st \in Linux!Statics /\ th[t].ctx # 0
      /\ backend \in BackendRec /\ ContextsInv /\ Remembers
  BY <1>1, ThreadIs, HoldsNone DEF DevicesInv, DevicesTypeInv, WellFormed, BackendRec, Remembers
<1>3. t \in Users /\ IsFiniteSet(Users) /\ Cardinality(Users) \in Nat /\ refs = Cardinality(Users) /\ Users \in SUBSET Callers
  BY <1>2, ContextUsers, ContextsFew
<1>4. /\ IsFiniteSet(Users \ {t}) /\ Cardinality(Users \ {t}) = refs - 1 /\ refs - 1 \in Nat /\ refs - 1 > 0
  <2>1. IsFiniteSet(Users \ {t}) /\ Cardinality(Users \ {t}) = Cardinality(Users) - 1
    BY <1>3, FS_RemoveElement
  <2>2. Cardinality(Users \ {t}) \in Nat
    BY <2>1, FS_CardinalityType
  <2> QED
    BY <1>3, <2>1, <2>2
<1>5. PICK w \in Users \ {t} : TRUE
  <2>1. Users \ {t} # {}
    BY <1>4, FS_EmptySet
  <2> QED
    BY <2>1
<1>6. DevicesTypeInv' /\ PlacesInv' /\ RefsInv' /\ th'[t] = NoCaller /\ \A u \in Callers \ {t} : th'[u] = th[u]
  BY <1>1, <1>2, <1>4, NoCallerIs, ContextMoves
<1>7. Users' = Users \ {t}
  BY <1>1, <1>6, NoCallerIs DEF Users, Absent
<1>8. alive' = {th[u].ctx : u \in Callers}' \ {0}
  <2>1. \A c \in alive : c # 0 /\ \E u \in Callers : th'[u].ctx = c
    <3> TAKE c \in alive
    <3>1. PICK u \in Callers : th[u].ctx = c
      BY ContextUsers
    <3>2. c # 0
      BY ContextUsers
    <3>3. CASE u = t
      <4>1. th[w].ctx = default /\ w \in Callers \ {t}
        BY <1>2, <1>3, <1>5 DEF ContextsInv
      <4> QED
        BY <1>6, <3>1, <3>2, <3>3, <4>1
    <3>4. CASE u # t
      BY <1>6, <3>1, <3>2, <3>4
    <3> QED
      BY <3>3, <3>4
  <2>2. \A u \in Callers : th'[u].ctx # 0 => th'[u].ctx \in alive
    BY <1>6, ContextUsers, NoCallerIs
  <2> QED
    BY <1>1, <2>1, <2>2
<1>9. onDarwin' = onDarwin
  BY <1>1 DEF onDarwin
<1>10. \A u \in Users' : th'[u].ctx = default'
  BY <1>1, <1>2, <1>3, <1>6, <1>7 DEF ContextsInv
<1>11. /\ \A u \in Callers : th'[u].pc \in Ended => th'[u].ctx # default'
       /\ \A u \in Callers : th'[u].pc = "starting" => ~(host'.shared /\ default' # 0)
       /\ \A u, v \in Callers : th'[u].pc = "starting" /\ th'[v].pc = "starting" => u = v
  BY <1>1, <1>2, <1>6, NoCallerIs DEF ContextsInv, Ended
<1>12. ASSUME NEW u \in Callers, NEW v \in Callers, u # v, th'[u].ctx = th'[v].ctx, th'[u].ctx # 0
       PROVE  u \in Users' /\ v \in Users'
  <2>1. u # t /\ v # t
    BY <1>6, <1>12, NoCallerIs
  <2>2. u \in Users /\ v \in Users
    BY <1>2, <1>6, <1>12, <2>1 DEF ContextsInv
  <2> QED
    BY <1>7, <2>1, <2>2
<1>13. refs' = Cardinality(Users') /\ (default' # 0 <=> refs' > 0)
  BY <1>1, <1>2, <1>4, <1>7
<1>14. /\ onDarwin /\ backend' # Darwin!Adrift => backend'.count = Cardinality(alive') /\ (backend'.runs # 0 <=> alive' # {})
       /\ ~onDarwin => backend'.count = 0
  BY <1>1, <1>2 DEF ContextsInv
<1>15. ContextsInv'
  BY <1>8, <1>9, <1>10, <1>11, <1>12, <1>13, <1>14 DEF ContextsInv
<1> QED
  BY <1>6, <1>15 DEF DevicesInv

\* The backend is told, by the only thread that has the context.
LEMMA StopBackendKeeps ==
  ASSUME DevicesInv, NEW t \in Callers, StopBackend(t)
  PROVE  DevicesInv'
<1>1. /\ th[t].pc = "freeing" /\ Set(t, [th[t] EXCEPT !.pc = "stopping"]) /\ Enters(t)
      /\ UNCHANGED <<st, alive, default, refs, host, kernelVars, opener, devs, hs, wild, past>>
  BY DEF StopBackend
<1>2. "stopping" \in Absent /\ "freeing" \in Absent /\ "stopping" \in Ended /\ "freeing" \in Ended
  BY DEF Absent, Ended
<1> QED
  BY <1>1, <1>2, AbsentMoves

\* A context is freed.
LEMMA FreeContextKeeps ==
  ASSUME DevicesInv, NEW t \in Callers, FreeContext(t)
  PROVE  DevicesInv'
<1>1. /\ th[t].pc = "stopping" /\ Set(t, NoCaller) /\ UNCHANGED <<host, kernelVars, opener, st, default, refs, devs, hs, wild>>
      /\ alive' = alive \ {th[t].ctx} /\ backend' = IF onDarwin THEN Darwin!DarwinExit(backend) ELSE backend
  BY DEF FreeContext
<1>2. st \in Linux!Statics /\ Remembers
  BY DEF DevicesInv, DevicesTypeInv, FreeContext, Notes, Perils, Remembers
<1>3. th[t].ctx \in alive /\ th[t].pc \in Absent
  BY <1>1, ContextUsers DEF Absent
<1>4. IsFiniteSet(alive) /\ backend \in BackendRec /\ Honest(backend, alive)
  BY ContextsFew, BackendIs
<1> DEFINE e == IF onDarwin THEN Darwin!DarwinExit(backend) ELSE backend
<1>5. e \in BackendRec /\ Honest(e, alive \ {th[t].ctx})
  BY <1>3, <1>4, ExitsIs
<1>6. backend' = e
  BY <1>1
<1> HIDE DEF e
<1> QED
  BY <1>1, <1>2, <1>3, <1>5, <1>6, ContextGone

-----------------------------------------------------------------------------
(***************************************************************************)
(* Handles                                                                 *)
(***************************************************************************)

\* The kernel stays within its ranges.
KernelTypes == /\ bus \subseteq Addrs /\ plugs \in 0 .. MaxPlugs /\ conf \in [Addrs -> Configs]
               /\ owner \in [Addrs -> HandleIds \cup {Nobody, Driver}] /\ opener \in [Addrs -> {0} \cup DevIds]

\* A call that changes a handle, and what the handle refers to
HandleMoves(h, r) ==
  /\ r \in HandleRec /\ hs' = [hs EXCEPT ![h] = r] /\ KernelTypes'
  /\ devs' \in [DevIds -> DevRec] /\ Lives(devs, devs')
  /\ \A d \in DevIds : devs'[d].ref + OnOf(hs[h], d) = devs[d].ref + OnOf(r, d)
  /\ \A d \in DevIds : \/ devs'[d].opens = IF onDarwin THEN devs[d].opens + OnOf(r, d) - OnOf(hs[h], d) ELSE 0
                       \/ devs'[d].ref = 0 /\ devs'[d].opens = 0
  /\ Remembers /\ UNCHANGED <<host, st, contextVars, th, wild>>

\* Such a call keeps the counts.
LEMMA HandleMovesKeep ==
  ASSUME DevicesInv, NEW t \in Callers, NEW s \in Slots, th[t].pc \notin Absent, NEW r, HandleMoves(<<t, s>>, r)
  PROVE  DevicesInv'
<1> DEFINE h == <<t, s>>
<1>1. DevicesTypeInv /\ PlacesInv /\ RefsInv /\ ContextsInv /\ hs \in [HandleIds -> HandleRec] /\ h \in HandleIds
  BY DEF DevicesInv, DevicesTypeInv, HandleIds
<1>2. /\ r \in HandleRec /\ hs' = [hs EXCEPT ![h] = r] /\ KernelTypes' /\ devs' \in [DevIds -> DevRec]
      /\ UNCHANGED <<host, st, th, wild>> /\ UNCHANGED contextVars
      /\ UNCHANGED <<alive, default, refs, backend>> /\ past' \subseteq Perils
  BY DEF HandleMoves, contextVars, Remembers
<1>3. hs' \in [HandleIds -> HandleRec] /\ hs'[h] = r /\ \A g \in HandleIds \ {h} : hs'[g] = hs[g]
  BY <1>1, <1>2
<1>4. DevicesTypeInv'
  BY <1>1, <1>2, <1>3 DEF DevicesTypeInv, KernelTypes
<1>5. PlacesInv'
  <2>1. ASSUME NEW u \in Callers, NEW v \in Slots, hs'[<<u, v>>].dev # 0 PROVE th'[u].pc \notin Absent
    <3>1. <<u, v>> \in HandleIds
      BY DEF HandleIds
    <3>2. CASE <<u, v>> = h
      BY <1>2, <3>2
    <3>3. CASE <<u, v>> # h
      BY <1>1, <1>2, <1>3, <2>1, <3>1, <3>3 DEF PlacesInv
    <3> QED
      BY <3>2, <3>3
  <2> QED
    BY <1>1, <1>2, <2>1 DEF PlacesInv
<1>6. RefsInv'
  <2> SUFFICES ASSUME NEW d \in DevIds
               PROVE  /\ IsFiniteSet(Listings(d)')
                      /\ devs'[d].ref = Cardinality(HandlesOn(d)') + Cardinality(Creators(d)') + Cardinality(Listings(d)')
                      /\ devs'[d].opens = IF onDarwin' THEN Cardinality(HandlesOn(d)') ELSE 0
    BY DEF RefsInv
  <2>1. Listings(d)' = Listings(d) /\ Creators(d)' = Creators(d) /\ onDarwin' = onDarwin
    BY <1>2 DEF Listings, Creators, Held, onDarwin
  <2>2. HandlesOn(d) = HandlesIn(hs, d) /\ HandlesOn(d)' = HandlesIn(hs', d)
    BY DEF HandlesOn, HandlesIn
  <2>3. /\ Cardinality(HandlesIn(hs, d)) \in Nat /\ Cardinality(HandlesIn(hs', d)) \in Nat
        /\ Cardinality(HandlesIn(hs', d)) + OnOf(hs[h], d) = Cardinality(HandlesIn(hs, d)) + OnOf(r, d)
    BY <1>1, <1>2, RecountHandles
  <2>4. Cardinality(Creators(d)) \in Nat /\ Cardinality(Listings(d)) \in Nat /\ OnOf(hs[h], d) \in Nat /\ OnOf(r, d) \in Nat
    BY <1>1, HeldCounted DEF OnOf
  <2>5. /\ IsFiniteSet(Listings(d)) /\ devs[d].opens = (IF onDarwin THEN Cardinality(HandlesIn(hs, d)) ELSE 0)
        /\ devs[d].ref = Cardinality(HandlesIn(hs, d)) + Cardinality(Creators(d)) + Cardinality(Listings(d))
    BY <1>1, <2>2 DEF RefsInv
  <2>6. /\ devs'[d].ref \in Nat /\ devs'[d].ref + OnOf(hs[h], d) = devs[d].ref + OnOf(r, d)
        /\ \/ devs'[d].opens = IF onDarwin THEN devs[d].opens + OnOf(r, d) - OnOf(hs[h], d) ELSE 0
           \/ devs'[d].ref = 0 /\ devs'[d].opens = 0
    BY <1>2 DEF HandleMoves, DevRec
  <2> DEFINE before == Cardinality(HandlesIn(hs, d))
             after == Cardinality(HandlesIn(hs', d))
             c == Cardinality(Creators(d))
             l == Cardinality(Listings(d))
             m == OnOf(hs[h], d)
             n == OnOf(r, d)
  <2>7. /\ {before, after, c, l, m, n, devs'[d].ref} \subseteq Nat /\ after + m = before + n
        /\ devs[d].ref = before + c + l /\ devs[d].opens = (IF onDarwin THEN before ELSE 0)
        /\ devs'[d].ref + m = devs[d].ref + n
        /\ \/ devs'[d].opens = IF onDarwin THEN devs[d].opens + n - m ELSE 0
           \/ devs'[d].ref = 0 /\ devs'[d].opens = 0
    BY <2>3, <2>4, <2>5, <2>6
  <2> HIDE DEF before, after, c, l, m, n
  <2>8. devs'[d].ref = after + c + l
    BY <2>7
  <2>9. devs'[d].opens = IF onDarwin THEN after ELSE 0
    <3>0. after \in Nat /\ c \in Nat /\ l \in Nat
      BY <2>7
    <3>1. devs'[d].ref = 0 => after = 0
      BY <2>8, <3>0
    <3>2. onDarwin => devs[d].opens + n - m = after
      BY <2>7
    <3> QED
      BY <2>7, <3>1, <3>2
  <2> QED
    BY <2>1, <2>2, <2>5, <2>8, <2>9 DEF after, c, l
<1>7. ContextsInv'
  BY <1>1, <1>2, ContextsSame
<1> QED
  BY <1>4, <1>5, <1>6, <1>7 DEF DevicesInv

\* A call that only changes what is known of the device
LEMMA HandleStays ==
  ASSUME DevicesInv, NEW t \in Callers, NEW s \in Slots, NEW r \in HandleRec, r.dev = hs[<<t, s>>].dev,
         hs' = [hs EXCEPT ![<<t, s>>] = r], KernelTypes', NEW d \in DevIds, NEW y \in DevRec, Same(devs[d], y),
         devs' = [devs EXCEPT ![d] = y], UNCHANGED <<host, st, contextVars, th, wild, past>>
  PROVE  HandleMoves(<<t, s>>, r)
<1>1. DevicesTypeInv /\ RefsInv /\ devs \in [DevIds -> DevRec]
  BY DEF DevicesInv, DevicesTypeInv
<1>2. devs' \in [DevIds -> DevRec] /\ Keeps(devs, devs') /\ \A e \in DevIds : devs'[e].ref = devs[e].ref
  <2> DEFINE E == [devs EXCEPT ![d] = y]
  <2>1. E \in [DevIds -> DevRec] /\ E[d] = y /\ (\A e \in DevIds \ {d} : E[e] = devs[e]) /\ devs' = E
    BY <1>1
  <2> HIDE DEF E
  <2> QED
    BY <2>1 DEF Same, Keeps, Lives
<1>3. \A e \in DevIds : OnOf(r, e) = OnOf(hs[<<t, s>>], e) /\ OnOf(r, e) \in Nat
  BY DEF OnOf
<1>4. \A e \in DevIds : devs'[e].opens = devs[e].opens \/ (devs'[e].ref = 0 /\ devs'[e].opens = 0)
  BY <1>2 DEF Keeps
<1>5. \A e \in DevIds : devs[e].opens \in Nat /\ (~onDarwin => devs[e].opens = 0)
  BY <1>1 DEF RefsInv, DevRec
<1>6. \A e \in DevIds : \/ devs'[e].opens = IF onDarwin THEN devs[e].opens + OnOf(r, e) - OnOf(hs[<<t, s>>], e) ELSE 0
                        \/ devs'[e].ref = 0 /\ devs'[e].opens = 0
  BY <1>3, <1>4, <1>5
<1>7. \A e \in DevIds : devs'[e].ref + OnOf(hs[<<t, s>>], e) = devs[e].ref + OnOf(r, e)
  BY <1>2, <1>3
<1> QED
  BY <1>1, <1>2, <1>6, <1>7 DEF HandleMoves, Keeps, Remembers, DevicesTypeInv

\* The fields of a handle, and where its device is
LEMMA HandleIs ==
  ASSUME DevicesInv, NEW t \in Callers, NEW s \in Slots
  PROVE  LET h == <<t, s>>
         IN  /\ h \in HandleIds /\ hs \in [HandleIds -> HandleRec] /\ hs[h] \in HandleRec /\ hs[h].dev \in {0} \cup DevIds
             /\ hs[h].dev # 0 => /\ hs[h].dev \in DevIds /\ devs[hs[h].dev] \in DevRec /\ devs[hs[h].dev].ref > 0
                                 /\ (onDarwin => devs[hs[h].dev].opens > 0)
             /\ KernelTypes /\ devs \in [DevIds -> DevRec] /\ wild \in BOOLEAN /\ st \in Linux!Statics
<1> DEFINE h == <<t, s>>
<1>1. DevicesTypeInv /\ RefsInv
  BY DEF DevicesInv
<1>2. h \in HandleIds /\ hs \in [HandleIds -> HandleRec] /\ devs \in [DevIds -> DevRec] /\ KernelTypes /\ wild \in BOOLEAN /\ st \in Linux!Statics
  BY <1>1 DEF DevicesTypeInv, HandleIds, KernelTypes
<1>3. hs[h] \in HandleRec /\ hs[h].dev \in {0} \cup DevIds
  BY <1>2 DEF HandleRec
<1> HIDE DEF h
<1>4. ASSUME hs[h].dev # 0
      PROVE  /\ hs[h].dev \in DevIds /\ devs[hs[h].dev] \in DevRec /\ devs[hs[h].dev].ref > 0
             /\ (onDarwin => devs[hs[h].dev].opens > 0)
  <2> DEFINE d == hs[h].dev
  <2>1. d \in DevIds
    BY <1>3, <1>4
  <2> HIDE DEF d
  <2>2. /\ Cardinality(HandlesOn(d)) \in Nat /\ Cardinality(Creators(d)) \in Nat /\ Cardinality(Listings(d)) \in Nat
        /\ devs[d].ref = Cardinality(HandlesOn(d)) + Cardinality(Creators(d)) + Cardinality(Listings(d))
        /\ \A g \in HandleIds : hs[g].dev = d => Cardinality(HandlesOn(d)) > 0
    BY <1>1, <2>1, HeldCounted
  <2>3. Cardinality(HandlesOn(d)) > 0
    BY <1>2, <2>2 DEF d
  <2>4. devs[d].opens = IF onDarwin THEN Cardinality(HandlesOn(d)) ELSE 0
    BY <1>1, <2>1 DEF RefsInv
  <2> QED
    BY <1>2, <2>1, <2>2, <2>3, <2>4 DEF d
<1> QED
  BY <1>2, <1>3, <1>4 DEF h

\* What the backends make of a device that is opened
LEMMA OpensIs ==
  ASSUME DevicesInv, NEW d \in DevIds, NEW a, NEW denied \in BOOLEAN
  PROVE  LET o == IF onDarwin THEN Darwin!DarwinOpen(devs[d], d, Here(d), opener[a], denied)
                  ELSE [r |-> Linux!OpOpen(Here(d), denied), d |-> devs[d], is_open |-> FALSE, opener |-> opener[a]]
         IN  /\ o.d \in DevRec /\ o.d.ref = devs[d].ref /\ o.d.ctx = devs[d].ctx /\ o.d.ready = devs[d].ready
             /\ o.r = "ok" => o.d.opens = IF onDarwin THEN devs[d].opens + 1 ELSE 0
             /\ o.is_open \in BOOLEAN /\ (a \in Addrs => o.opener \in {0} \cup DevIds)
<1> DEFINE x == devs[d]
           first == x.opens = 0
           takes == first /\ opener[a] \in {0, d}
           y == [x EXCEPT !.opens = @ + 1]
<1>1. x \in DevRec /\ opener \in [Addrs -> {0} \cup DevIds] /\ (~onDarwin => x.opens = 0) /\ x.opens \in Nat
  BY DEF DevicesInv, DevicesTypeInv, RefsInv, DevRec
<1>2. y \in DevRec /\ y.ref = x.ref /\ y.ctx = x.ctx /\ y.ready = x.ready /\ y.opens = x.opens + 1
  BY <1>1 DEF DevRec
<1>3. a \in Addrs => opener[a] \in {0} \cup DevIds /\ (IF takes THEN d ELSE opener[a]) \in {0} \cup DevIds
  BY <1>1
<1>4. takes \in BOOLEAN
  OBVIOUS
<1>5. CASE onDarwin
  <2> DEFINE o == Darwin!DarwinOpen(x, d, Here(d), opener[a], denied)
             refused == first /\ (~Here(d) \/ denied)
  <2>1. /\ refused => o.r # "ok" /\ o.d = x /\ o.is_open = FALSE /\ o.opener = opener[a]
        /\ ~refused => o = [r |-> "ok", d |-> y, is_open |-> takes, opener |-> IF takes THEN d ELSE opener[a]]
    BY DEF Darwin!DarwinOpen, Darwin!Found
  <2> HIDE DEF x, y, first, takes, refused, o
  <2>2. CASE refused
    <3>2. /\ o.d \in DevRec /\ o.d.ref = x.ref /\ o.d.ctx = x.ctx /\ o.d.ready = x.ready /\ o.r # "ok"
          /\ o.is_open \in BOOLEAN /\ (a \in Addrs => o.opener \in {0} \cup DevIds)
      BY <1>1, <1>3, <2>1, <2>2
    <3> QED
      BY <1>5, <3>2 DEF o, x
  <2>3. CASE ~refused
    <3>1. o.r = "ok" /\ o.d = y /\ o.is_open = takes /\ o.opener = IF takes THEN d ELSE opener[a]
      BY <2>1, <2>3
    <3>2. /\ o.d \in DevRec /\ o.d.ref = x.ref /\ o.d.ctx = x.ctx /\ o.d.ready = x.ready /\ o.d.opens = x.opens + 1
          /\ o.is_open \in BOOLEAN /\ (a \in Addrs => o.opener \in {0} \cup DevIds)
      BY <1>2, <1>3, <1>4, <3>1
    <3> QED
      BY <1>5, <3>2 DEF o, x
  <2> QED
    BY <2>2, <2>3
<1>6. CASE ~onDarwin
  BY <1>1, <1>3, <1>6
<1> QED
  BY <1>5, <1>6

\* A handle takes a reference, and gives it back when the backend cannot open
\* the device.
LEMMA OpenDeviceKeeps ==
  ASSUME DevicesInv, NEW t \in Callers, NEW s \in Slots, OpenDevice(t, s)
  PROVE  /\ DevicesInv' /\ Lives(devs, devs') /\ UNCHANGED <<host, st, contextVars, th, wild, past>> /\ th[t].pc = "idle"
         /\ \A d \in DevIds : Exists(d) => Exists(d)'
         /\ \/ hs' = hs
            \/ \E i \in DOMAIN th[t].list : \E x, y, z : hs' = [hs EXCEPT ![<<t, s>>] = [dev |-> th[t].list[i], claimed |-> x, is_open |-> y, gone |-> z]]
<1> DEFINE h == <<t, s>>
<1>1. /\ th[t].pc = "idle" /\ hs[h].dev = 0 /\ UNCHANGED <<host, kernelVars, st, contextVars, th, wild, past>>
  BY DEF OpenDevice, Closed
<1>2. PICK i \in DOMAIN th[t].list, denied \in BOOLEAN :
       LET d == th[t].list[i]
           a == devs[d].addr
           o == IF onDarwin THEN Darwin!DarwinOpen(devs[d], d, Here(d), opener[a], denied)
                ELSE [r |-> Linux!OpOpen(Here(d), denied), d |-> devs[d], is_open |-> FALSE, opener |-> opener[a]]
       IN /\ Exists(d)
          /\ devs' = IF o.r = "ok" THEN Ref([devs EXCEPT ![d] = o.d], d) ELSE Unref(Ref(devs, d), d)
          /\ hs' = IF o.r = "ok" THEN [hs EXCEPT ![<<t, s>>] = [dev |-> d, claimed |-> FALSE, is_open |-> o.is_open, gone |-> \E g \in HandleIds : hs[g].dev = d /\ hs[g].gone]] ELSE hs
          /\ opener' = [opener EXCEPT ![a] = o.opener]
  BY DEF OpenDevice
<1> DEFINE d == th[t].list[i]
           a == devs[d].addr
           o == IF onDarwin THEN Darwin!DarwinOpen(devs[d], d, Here(d), opener[a], denied)
                ELSE [r |-> Linux!OpOpen(Here(d), denied), d |-> devs[d], is_open |-> FALSE, opener |-> opener[a]]
           gone == \E g \in HandleIds : hs[g].dev = d /\ hs[g].gone
           r == [dev |-> d, claimed |-> FALSE, is_open |-> o.is_open, gone |-> gone]
<1>3. /\ Exists(d) /\ opener' = [opener EXCEPT ![a] = o.opener]
      /\ devs' = IF o.r = "ok" THEN Ref([devs EXCEPT ![d] = o.d], d) ELSE Unref(Ref(devs, d), d)
      /\ hs' = IF o.r = "ok" THEN [hs EXCEPT ![h] = r] ELSE hs
  BY <1>2
<1>4. /\ h \in HandleIds /\ hs \in [HandleIds -> HandleRec] /\ hs[h] \in HandleRec /\ KernelTypes /\ devs \in [DevIds -> DevRec]
  BY HandleIs
<1>5. d \in DevIds
  <2>1. th[t].list \in Seq(DevIds)
    BY ThreadIs
  <2> QED
    BY <2>1
<1>6. /\ o.d \in DevRec /\ o.d.ref = devs[d].ref /\ o.d.ctx = devs[d].ctx /\ o.d.ready = devs[d].ready
      /\ o.r = "ok" => o.d.opens = IF onDarwin THEN devs[d].opens + 1 ELSE 0
      /\ o.is_open \in BOOLEAN /\ (a \in Addrs => o.opener \in {0} \cup DevIds)
  <2> HIDE DEF d, a
  <2> QED
    BY <1>5, OpensIs
<1> HIDE DEF d, a, o, gone, h
<1>7. devs[d] \in DevRec /\ devs[d].ref \in Nat \ {0} /\ d # 0
  <2>1. devs[d] \in DevRec
    BY <1>4, <1>5
  <2> QED
    BY <1>3, <1>5, <2>1, DeviceNumbers DEF Exists, DevRec
<1>8. KernelTypes'
  <2>1. opener' \in [Addrs -> {0} \cup DevIds]
    BY <1>3, <1>4, <1>6 DEF KernelTypes
  <2> QED
    BY <1>1, <1>4, <2>1 DEF KernelTypes, kernelVars
<1>9. \A e \in DevIds : devs[e].opens \in Nat /\ devs[e].ref \in Nat /\ (~onDarwin => devs[e].opens = 0)
  BY DEF DevicesInv, DevicesTypeInv, RefsInv, DevRec
<1>10. \A e \in DevIds : OnOf(hs[h], e) = 0
  BY <1>1, DeviceNumbers DEF OnOf, h
<1>13. Remembers
  BY <1>1 DEF DevicesInv, DevicesTypeInv, Remembers
<1>11. CASE o.r = "ok"
  <2> DEFINE D == [devs EXCEPT ![d] = o.d]
  <2>1. D \in [DevIds -> DevRec] /\ D[d] = o.d /\ \A e \in DevIds \ {d} : D[e] = devs[e]
    BY <1>4, <1>5, <1>6
  <2>2. devs' = Ref(D, d) /\ hs' = [hs EXCEPT ![h] = r]
    BY <1>3, <1>11
  <2> HIDE DEF D
  <2>3. /\ devs' \in [DevIds -> DevRec] /\ devs'[d] = [D[d] EXCEPT !.ref = @ + 1] /\ devs'[d].ref = D[d].ref + 1
        /\ \A e \in DevIds \ {d} : devs'[e] = D[e]
    BY <1>5, <2>1, <2>2, RefIs
  <2>4. devs'[d].opens = D[d].opens /\ devs'[d].ctx = D[d].ctx /\ devs'[d].ready = D[d].ready
    BY <2>1, <2>3, <1>6 DEF DevRec
  <2>5. r \in HandleRec /\ r.dev = d
    <3>1. gone \in BOOLEAN
      BY DEF gone
    <3> QED
      BY <1>5, <1>6, <3>1 DEF HandleRec
  <2>6. \A e \in DevIds : OnOf(r, e) = IF e = d THEN 1 ELSE 0
    BY <2>5 DEF OnOf
  <2> HIDE DEF r
  <2>14. devs'[d].ref = devs[d].ref + 1 /\ devs'[d].opens = IF onDarwin THEN devs[d].opens + 1 ELSE 0
    BY <1>6, <1>11, <2>1, <2>3, <2>4
  <2>15. \A e \in DevIds \ {d} : devs'[e] = devs[e]
    BY <2>1, <2>3
  <2>7. ASSUME NEW e \in DevIds PROVE devs'[e].ref + OnOf(hs[h], e) = devs[e].ref + OnOf(r, e)
    <3>1. CASE e = d
      BY <1>5, <1>9, <1>10, <2>6, <2>14, <3>1
    <3>2. CASE e # d
      BY <1>9, <1>10, <2>6, <2>15, <3>2
    <3> QED
      BY <3>1, <3>2
  <2>8. ASSUME NEW e \in DevIds PROVE devs'[e].opens = IF onDarwin THEN devs[e].opens + OnOf(r, e) - OnOf(hs[h], e) ELSE 0
    <3>1. CASE e = d
      BY <1>5, <1>9, <1>10, <2>6, <2>14, <3>1
    <3>2. CASE e # d
      BY <1>9, <1>10, <2>6, <2>15, <3>2
    <3> QED
      BY <3>1, <3>2
  <2>9. Lives(devs, devs')
    BY <1>6, <2>1, <2>3, <2>4 DEF Lives
  <2>10. HandleMoves(h, r)
    BY <1>1, <1>8, <1>13, <2>2, <2>3, <2>5, <2>7, <2>8, <2>9 DEF HandleMoves
  <2>11. DevicesInv'
    BY <1>1, <2>10, HandleMovesKeep DEF h, Absent
  <2>12. \A e \in DevIds : Exists(e) => Exists(e)'
    BY <1>9, <2>14, <2>15 DEF Exists
  <2>13. hs' = [hs EXCEPT ![<<t, s>>] = [dev |-> th[t].list[i], claimed |-> FALSE, is_open |-> o.is_open, gone |-> gone]]
    BY <2>2 DEF r, h, d
  <2> QED
    BY <1>1, <2>9, <2>11, <2>12, <2>13
<1>12. CASE o.r # "ok"
  <2> DEFINE D == Ref(devs, d)
  <2>1. /\ D \in [DevIds -> DevRec] /\ D[d].ref = devs[d].ref + 1 /\ Keeps(devs, D) /\ \A e \in DevIds \ {d} : D[e] = devs[e]
    BY <1>4, <1>5, RefIs
  <2>2. devs' = Unref(D, d) /\ hs' = hs
    BY <1>3, <1>12
  <2> HIDE DEF D
  <2>3. /\ devs' \in [DevIds -> DevRec] /\ devs'[d].ref = D[d].ref - 1 /\ \A e \in DevIds \ {d} : devs'[e] = D[e]
        /\ Keeps(D, devs')
    <3>1. D[d].ref > 0
      BY <1>7, <2>1
    <3> QED
      BY <1>5, <2>1, <2>2, <3>1, UnrefIs
  <2>4. \A e \in DevIds : devs'[e].ref = devs[e].ref
    BY <1>7, <2>1, <2>3
  <2>5. Keeps(devs, devs')
    <3>1. \A e \in DevIds : D[e].ref = 0 => devs'[e].ref = 0
      BY <1>7, <2>1, <2>3
    <3> QED
      BY <1>4, <2>1, <2>3, <3>1, KeepsOn
  <2>6. \A e \in DevIds : \/ devs'[e].opens = IF onDarwin THEN devs[e].opens + OnOf(hs[h], e) - OnOf(hs[h], e) ELSE 0
                          \/ devs'[e].ref = 0 /\ devs'[e].opens = 0
    BY <1>9, <1>10, <2>5 DEF Keeps
  <2>7. hs' = [hs EXCEPT ![h] = hs[h]]
    BY <1>4, <2>2
  <2>8. Lives(devs, devs')
    BY <2>5 DEF Keeps
  <2>9. HandleMoves(h, hs[h])
    BY <1>1, <1>4, <1>8, <1>13, <2>3, <2>4, <2>6, <2>7, <2>8 DEF HandleMoves
  <2>10. DevicesInv'
    BY <1>1, <2>9, HandleMovesKeep DEF h, Absent
  <2> QED
    BY <1>1, <2>2, <2>4, <2>8, <2>10 DEF Exists
<1> QED
  BY <1>11, <1>12

\* A handle that is closed gives its reference back.
LEMMA CloseHandleKeeps ==
  ASSUME DevicesInv, NEW t \in Callers, NEW s \in Slots, CloseHandle(t, s)
  PROVE  /\ DevicesInv' /\ Lives(devs, devs') /\ UNCHANGED <<host, st, contextVars, th, wild>> /\ th[t].pc = "idle"
         /\ Remembers /\ (past' = {} => Alone(t))
         /\ <<t, s>> \in HandleIds /\ hs[<<t, s>>].dev \in DevIds /\ hs' = [hs EXCEPT ![<<t, s>>] = NoHandle]
         /\ \A e \in DevIds \ {hs[<<t, s>>].dev} : devs'[e] = devs[e]
<1> DEFINE h == <<t, s>>
           d == hs[h].dev
           a == devs[d].addr
           c == IF onDarwin THEN Darwin!DarwinClose(devs[d], d, hs[h].is_open, opener[a])
                ELSE [d |-> devs[d], opener |-> opener[a]]
           D == [devs EXCEPT ![d] = c.d]
<1>1. /\ th[t].pc = "idle" /\ d # 0 /\ UNCHANGED <<host, bus, plugs, conf, st, contextVars, th, wild>>
      /\ devs' = Unref(D, d) /\ opener' = [opener EXCEPT ![a] = c.opener]
      /\ owner' = [owner EXCEPT ![a] = Linux!OpClose(h, @)] /\ hs' = [hs EXCEPT ![h] = NoHandle]
  BY DEF CloseHandle, Closed, Addr
<1>2. /\ h \in HandleIds /\ hs \in [HandleIds -> HandleRec] /\ d \in DevIds /\ devs[d] \in DevRec /\ devs[d].ref > 0
      /\ (onDarwin => devs[d].opens > 0) /\ KernelTypes /\ devs \in [DevIds -> DevRec]
  BY <1>1, HandleIs
<1>3. devs[d].opens \in Nat /\ devs[d].ref \in Nat /\ (~onDarwin => devs[d].opens = 0)
  BY <1>2 DEF DevicesInv, RefsInv, DevRec
<1> HIDE DEF h, d, a
<1>4. /\ c.d \in DevRec /\ c.d.ref = devs[d].ref /\ c.d.ctx = devs[d].ctx /\ c.d.ready = devs[d].ready
      /\ c.d.opens = (IF onDarwin THEN devs[d].opens - 1 ELSE 0) /\ (a \in Addrs => c.opener \in {0} \cup DevIds)
  <2>1. a \in Addrs => opener[a] \in {0} \cup DevIds
    BY <1>2 DEF KernelTypes
  <2>2. CASE onDarwin
    <3> DEFINE x == devs[d]
               y == [x EXCEPT !.opens = @ - 1]
    <3>1. /\ c.d = y /\ c.opener = IF x.opens = 1 /\ hs[h].is_open /\ opener[a] = d THEN 0 ELSE opener[a]
      BY <2>2 DEF Darwin!DarwinClose
    <3>2. x \in DevRec /\ x.opens - 1 \in Nat
      BY <1>2, <1>3, <2>2
    <3> HIDE DEF x, c
    <3>3. y \in DevRec /\ y.ref = x.ref /\ y.ctx = x.ctx /\ y.ready = x.ready /\ y.opens = x.opens - 1
      BY <3>2 DEF DevRec
    <3> QED
      BY <2>1, <2>2, <3>1, <3>3 DEF x
  <2>3. CASE ~onDarwin
    BY <1>2, <1>3, <2>1, <2>3
  <2> QED
    BY <2>2, <2>3
<1> HIDE DEF c
<1>5. D \in [DevIds -> DevRec] /\ D[d] = c.d /\ \A e \in DevIds \ {d} : D[e] = devs[e]
  BY <1>2, <1>4
<1> HIDE DEF D
<1>6. /\ devs' \in [DevIds -> DevRec] /\ devs'[d].ref = D[d].ref - 1 /\ (\A e \in DevIds \ {d} : devs'[e] = D[e])
      /\ Keeps(D, devs')
  BY <1>1, <1>2, <1>4, <1>5, UnrefIs
<1>7. \A e \in DevIds \ {d} : devs'[e] = devs[e]
  BY <1>5, <1>6
<1>8. devs'[d].ref = devs[d].ref - 1 /\ (devs'[d].opens = c.d.opens \/ (devs'[d].ref = 0 /\ devs'[d].opens = 0))
  BY <1>2, <1>4, <1>5, <1>6 DEF Keeps
<1>9. Lives(devs, devs')
  <2> SUFFICES ASSUME NEW e \in DevIds, devs[e].ref > 0, devs'[e].ref > 0
               PROVE  devs'[e].ctx = devs[e].ctx /\ (devs[e].ready => devs'[e].ready)
    BY DEF Lives
  <2>1. CASE e = d
    BY <1>4, <1>5, <1>6, <2>1 DEF Keeps, Lives
  <2>2. CASE e # d
    BY <1>7, <2>2
  <2> QED
    BY <2>1, <2>2
<1>10. NoHandle \in HandleRec /\ NoHandle.dev = 0
  BY DEF NoHandle, HandleRec
<1>11. \A e \in DevIds : OnOf(NoHandle, e) = 0 /\ OnOf(hs[h], e) = IF e = d THEN 1 ELSE 0
  BY <1>10, DeviceNumbers DEF OnOf, d
<1>12. \A e \in DevIds : devs[e].opens \in Nat /\ devs[e].ref \in Nat /\ (~onDarwin => devs[e].opens = 0)
  BY DEF DevicesInv, DevicesTypeInv, RefsInv, DevRec
<1>13. ASSUME NEW e \in DevIds
       PROVE  /\ devs'[e].ref + OnOf(hs[h], e) = devs[e].ref + OnOf(NoHandle, e)
              /\ \/ devs'[e].opens = IF onDarwin THEN devs[e].opens + OnOf(NoHandle, e) - OnOf(hs[h], e) ELSE 0
                 \/ devs'[e].ref = 0 /\ devs'[e].opens = 0
  <2>1. CASE e = d
    BY <1>4, <1>8, <1>11, <1>12, <2>1
  <2>2. CASE e # d
    BY <1>7, <1>11, <1>12, <2>2
  <2> QED
    BY <2>1, <2>2
<1>14. KernelTypes'
  <2>1. opener' \in [Addrs -> {0} \cup DevIds]
    BY <1>1, <1>2, <1>4 DEF KernelTypes
  <2>2. owner' \in [Addrs -> HandleIds \cup {Nobody, Driver}]
    <3>1. owner \in [Addrs -> HandleIds \cup {Nobody, Driver}] /\ owner' = [owner EXCEPT ![a] = Linux!OpClose(h, owner[a])]
      BY <1>1, <1>2 DEF KernelTypes
    <3>2. a \in Addrs => Linux!OpClose(h, owner[a]) \in HandleIds \cup {Nobody, Driver}
      BY <3>1 DEF Linux!OpClose, Nobody
    <3> QED
      BY <3>1, <3>2
  <2> QED
    BY <1>1, <1>2, <2>1, <2>2 DEF KernelTypes
<1>17. Remembers /\ (past' = {} => Alone(t))
  BY DEF CloseHandle, Notes, Perils, DevicesInv, DevicesTypeInv, Remembers
<1>15. HandleMoves(h, NoHandle)
  BY <1>1, <1>6, <1>9, <1>10, <1>13, <1>14, <1>17 DEF HandleMoves
<1>16. DevicesInv'
  BY <1>1, <1>15, HandleMovesKeep DEF h, Absent
<1> QED
  BY <1>1, <1>2, <1>7, <1>9, <1>16, <1>17 DEF h, d

-----------------------------------------------------------------------------
\* A step that concerns neither what threads hold nor which devices there are:
\* Mac OS only tells a context that is gone of them.
Orphaned == onDarwin /\ backend.runs \notin alive \cup {0}
Calm ==
  /\ Lives(devs, devs') /\ (\A d \in DevIds : Exists(d) => devs'[d].ref > 0) /\ (\A h \in HandleIds : hs'[h].dev = hs[h].dev)
  /\ (\A t \in Callers : th'[t] \in {th[t], [th[t] EXCEPT !.quiet = FALSE]}) /\ UNCHANGED <<host, contextVars, past>>
  /\ (wild' = wild \/ Orphaned)

\* A call on a handle that stays where it is
LEMMA StaysCalm ==
  ASSUME DevicesInv, NEW t \in Callers, NEW s \in Slots, NEW r \in HandleRec, r.dev = hs[<<t, s>>].dev,
         hs' = [hs EXCEPT ![<<t, s>>] = r], KernelTypes', NEW d \in DevIds, NEW y \in DevRec, Same(devs[d], y),
         devs' = [devs EXCEPT ![d] = y], UNCHANGED <<host, st, contextVars, th, wild, past>>, th[t].pc = "idle"
  PROVE  DevicesInv' /\ Calm
<1>1. HandleMoves(<<t, s>>, r)
  BY HandleStays
<1>2. DevicesInv'
  BY <1>1, HandleMovesKeep DEF Absent
<1>3. \A e \in DevIds : devs'[e].ref = devs[e].ref
  <2>1. devs \in [DevIds -> DevRec]
    BY DEF DevicesInv, DevicesTypeInv
  <2> QED
    BY <2>1 DEF Same
<1>4. \A h \in HandleIds : hs'[h].dev = hs[h].dev
  <2>1. hs \in [HandleIds -> HandleRec] /\ <<t, s>> \in HandleIds
    BY HandleIs
  <2> QED
    BY <2>1
<1>5. Lives(devs, devs')
  BY <1>1 DEF HandleMoves
<1> QED
  BY <1>2, <1>3, <1>4, <1>5 DEF Calm, Exists

\* An interface is claimed.
LEMMA ClaimKeeps ==
  ASSUME DevicesInv, NEW t \in Callers, NEW s \in Slots, Claim(t, s)
  PROVE  DevicesInv' /\ Calm
<1> DEFINE h == <<t, s>>
           d == hs[h].dev
           a == devs[d].addr
           c == IF onDarwin THEN Darwin!DarwinClaim(h, devs[d], Plugged(h), conf[a], Owner(h), Nobody, MayConfigure(h))
                ELSE [r |-> Linux!OpClaim(h, Plugged(h), conf[a], Owner(h)), conf |-> conf[a], d |-> devs[d]]
           r == [hs[h] EXCEPT !.claimed = (c.r = "ok")]
<1>1. /\ th[t].pc = "idle" /\ d # 0 /\ UNCHANGED <<host, bus, plugs, opener, st, contextVars, th, wild, past>>
      /\ IF hs[h].claimed THEN UNCHANGED <<conf, owner, hs, devs>>
         ELSE /\ conf' = [conf EXCEPT ![a] = c.conf]
              /\ owner' = IF c.r = "ok" THEN [owner EXCEPT ![a] = h] ELSE owner
              /\ hs' = [hs EXCEPT ![h].claimed = (c.r = "ok")]
              /\ devs' = [devs EXCEPT ![d] = c.d]
  BY DEF Claim, Using, Closed, Addr
<1>2. /\ h \in HandleIds /\ hs \in [HandleIds -> HandleRec] /\ hs[h] \in HandleRec /\ d \in DevIds /\ devs[d] \in DevRec
      /\ KernelTypes /\ devs \in [DevIds -> DevRec]
  BY <1>1, HandleIs
<1>3. c.d \in DevRec /\ Same(devs[d], c.d) /\ (a \in Addrs => c.conf \in Configs)
  <2> DEFINE x == devs[d]
             y == [x EXCEPT !.cached = 1]
  <2>1. x \in DevRec /\ y \in DevRec /\ Same(x, x) /\ Same(x, y)
    <3>1. x \in DevRec /\ 1 \in -1 .. 2 /\ 1 \in Configs
      BY <1>2 DEF Configs, Linux!Configs
    <3> HIDE DEF x
    <3> QED
      BY <3>1, CachedSame
  <2>2. a \in Addrs => conf[a] \in Configs /\ 1 \in Configs
    BY <1>2 DEF KernelTypes, Configs, Linux!Configs
  <2>3. c.d \in {x, y} /\ c.conf \in {conf[a], 1}
    BY DEF Darwin!DarwinClaim
  <2> HIDE DEF c, a, x, y
  <2> QED
    BY <2>1, <2>2, <2>3 DEF x
<1> HIDE DEF d, c, a
<1>4. CASE hs[h].claimed
  <2>1. hs' = [hs EXCEPT ![h] = hs[h]] /\ devs' = [devs EXCEPT ![d] = devs[d]] /\ Same(devs[d], devs[d])
    BY <1>1, <1>2, <1>4 DEF Same
  <2>2. KernelTypes'
    BY <1>1, <1>2, <1>4 DEF KernelTypes
  <2> QED
    BY <1>1, <1>2, <2>1, <2>2, StaysCalm
<1>5. CASE ~hs[h].claimed
  <2>1. r \in HandleRec /\ r.dev = hs[h].dev /\ hs' = [hs EXCEPT ![h] = r]
    <3>1. (c.r = "ok") \in BOOLEAN
      OBVIOUS
    <3> QED
      BY <1>1, <1>2, <1>5, <3>1 DEF HandleRec
  <2>2. KernelTypes'
    <3>1. conf' \in [Addrs -> Configs]
      BY <1>1, <1>2, <1>3, <1>5 DEF KernelTypes
    <3>2. owner' \in [Addrs -> HandleIds \cup {Nobody, Driver}]
      BY <1>1, <1>2, <1>5 DEF KernelTypes
    <3> QED
      BY <1>1, <1>2, <3>1, <3>2 DEF KernelTypes
  <2> HIDE DEF r
  <2> QED
    BY <1>1, <1>2, <1>3, <1>5, <2>1, <2>2, StaysCalm
<1> QED
  BY <1>4, <1>5

\* An interface is released.
LEMMA ReleaseKeeps ==
  ASSUME DevicesInv, NEW t \in Callers, NEW s \in Slots, Release(t, s)
  PROVE  DevicesInv' /\ Calm
<1> DEFINE h == <<t, s>>
           d == hs[h].dev
           x == IF onDarwin THEN Darwin!DarwinRelease ELSE Linux!OpRelease(Plugged(h))
           r == IF hs[h].claimed THEN [hs[h] EXCEPT !.claimed = (x # "ok")] ELSE hs[h]
<1>1. /\ th[t].pc = "idle" /\ d # 0 /\ UNCHANGED <<host, bus, plugs, conf, opener, st, contextVars, devs, th, wild, past>>
      /\ hs' = IF ~hs[h].claimed THEN hs ELSE [hs EXCEPT ![h].claimed = (x # "ok")]
      /\ owner' = owner \/ owner' = [owner EXCEPT ![Addr(h)] = Nobody]
  BY DEF Release, Using, Closed
<1>2. /\ h \in HandleIds /\ hs \in [HandleIds -> HandleRec] /\ hs[h] \in HandleRec /\ d \in DevIds /\ devs[d] \in DevRec
      /\ KernelTypes /\ devs \in [DevIds -> DevRec]
  BY <1>1, HandleIs
<1> HIDE DEF x
<1>3. r \in HandleRec /\ r.dev = hs[h].dev /\ hs' = [hs EXCEPT ![h] = r]
  <2>1. (x # "ok") \in BOOLEAN
    OBVIOUS
  <2> QED
    BY <1>1, <1>2, <2>1 DEF HandleRec
<1>4. owner' \in [Addrs -> HandleIds \cup {Nobody, Driver}]
  BY <1>1, <1>2 DEF KernelTypes
<1>5. KernelTypes'
  BY <1>1, <1>2, <1>4 DEF KernelTypes
<1>6. devs' = [devs EXCEPT ![d] = devs[d]] /\ Same(devs[d], devs[d])
  BY <1>1, <1>2 DEF Same
<1>7. /\ th[t].pc = "idle" /\ UNCHANGED <<host, st, contextVars, th, wild, past>>
      /\ d \in DevIds /\ devs[d] \in DevRec /\ r.dev = hs[<<t, s>>].dev /\ hs' = [hs EXCEPT ![<<t, s>>] = r] /\ r \in HandleRec
  BY <1>1, <1>2, <1>3
<1> HIDE DEF r, h, d
<1> QED
  BY <1>5, <1>6, <1>7, StaysCalm

\* A configuration is set.
LEMMA SetConfigurationKeeps ==
  ASSUME DevicesInv, NEW t \in Callers, NEW s \in Slots, NEW c \in Configs, SetConfiguration(t, s, c)
  PROVE  DevicesInv' /\ Calm
<1> DEFINE h == <<t, s>>
           d == hs[h].dev
           a == Addr(h)
           outcomes == IF onDarwin
                       THEN Darwin!DarwinSetConfiguration(h, devs[d], Plugged(h), MayConfigure(h), hs[h].claimed, owner[a], Nobody, c)
                       ELSE {[r |-> r.r, d |-> r.d, owner |-> owner[a]] :
                               r \in Linux!OpSetConfiguration(st, devs[d], Plugged(h), owner[a] \in HandleIds, c)}
<1>1. /\ th[t].pc = "idle" /\ d # 0 /\ UNCHANGED <<host, bus, plugs, opener, st, contextVars, th, hs, wild, past>>
  BY DEF SetConfiguration, Using, Closed
<1>2. /\ h \in HandleIds /\ hs \in [HandleIds -> HandleRec] /\ hs[h] \in HandleRec /\ d \in DevIds /\ devs[d] \in DevRec
      /\ KernelTypes /\ devs \in [DevIds -> DevRec]
  BY <1>1, HandleIs
<1>3. PICK r \in outcomes :
        /\ conf' = (IF r.r = "ok" THEN [conf EXCEPT ![a] = c] ELSE conf)
        /\ owner' = [owner EXCEPT ![a] = r.owner] /\ devs' = [devs EXCEPT ![d] = r.d]
  BY DEF SetConfiguration
<1>4. r.d \in {devs[d]} \cup {[devs[d] EXCEPT !.cached = k] : k \in {c, -1}} /\ r.owner \in {owner[a], Nobody, h}
  <2>1. CASE onDarwin
    BY <1>3, <2>1 DEF Darwin!DarwinSetConfiguration
  <2>2. CASE ~onDarwin
    BY <1>3, <2>2 DEF Linux!OpSetConfiguration, Linux!CacheConfig, Linux!Unsure
  <2> QED
    BY <2>1, <2>2
<1> HIDE DEF outcomes
<1>5. r.d \in DevRec /\ Same(devs[d], r.d)
  <2> DEFINE x == devs[d]
  <2>1. x \in DevRec
    BY <1>2
  <2>2. {c, -1} \subseteq -1 .. 2
    BY DEF Configs, Linux!Configs
  <2>3. r.d = x \/ \E k \in -1 .. 2 : r.d = [x EXCEPT !.cached = k]
    BY <1>4, <2>2
  <2> HIDE DEF x
  <2>4. ASSUME NEW k \in -1 .. 2 PROVE [x EXCEPT !.cached = k] \in DevRec /\ Same(x, [x EXCEPT !.cached = k]) /\ Same(x, x)
    BY <2>1, CachedSame
  <2>5. Same(x, x)
    BY DEF Same
  <2> QED
    BY <2>1, <2>3, <2>4, <2>5 DEF x
<1>6. conf' \in [Addrs -> Configs]
  BY <1>2, <1>3 DEF KernelTypes
<1>7. owner' \in [Addrs -> HandleIds \cup {Nobody, Driver}]
  BY <1>2, <1>3, <1>4 DEF KernelTypes
<1>8. KernelTypes'
  BY <1>1, <1>2, <1>6, <1>7 DEF KernelTypes
<1>9. hs' = [hs EXCEPT ![h] = hs[h]]
  BY <1>1, <1>2
<1>10. UNCHANGED <<host, st, contextVars, th, wild, past>> /\ devs' = [devs EXCEPT ![d] = r.d]
  BY <1>1, <1>3
<1> HIDE DEF d, a
<1> QED
  BY <1>1, <1>2, <1>5, <1>8, <1>9, <1>10, StaysCalm

\* The driver of the kernel is detached or attached.
LEMMA KernelDriverKeeps ==
  ASSUME DevicesInv, NEW t \in Callers, NEW s \in Slots, NEW b \in BOOLEAN, KernelDriver(t, s, b)
  PROVE  DevicesInv' /\ Calm
<1> DEFINE h == <<t, s>>
           d == hs[h].dev
<1>1. /\ th[t].pc = "idle" /\ d # 0 /\ UNCHANGED <<host, bus, plugs, conf, opener, st, contextVars, devs, th, hs, wild, past>>
      /\ owner' \in {owner, [owner EXCEPT ![Addr(h)] = Driver], [owner EXCEPT ![Addr(h)] = Nobody]}
  BY DEF KernelDriver, Using, Closed
<1>2. /\ h \in HandleIds /\ hs \in [HandleIds -> HandleRec] /\ hs[h] \in HandleRec /\ d \in DevIds /\ devs[d] \in DevRec
      /\ KernelTypes /\ devs \in [DevIds -> DevRec]
  BY <1>1, HandleIs
<1>3. owner' \in [Addrs -> HandleIds \cup {Nobody, Driver}]
  BY <1>1, <1>2 DEF KernelTypes
<1>4. KernelTypes'
  BY <1>1, <1>2, <1>3 DEF KernelTypes
<1>5. hs' = [hs EXCEPT ![h] = hs[h]] /\ devs' = [devs EXCEPT ![d] = devs[d]] /\ Same(devs[d], devs[d])
  BY <1>1, <1>2 DEF Same
<1> QED
  BY <1>1, <1>2, <1>4, <1>5, StaysCalm

\* Devices that come and go disturb those who list, and handles see it.
LEMMA PlugKeeps ==
  ASSUME DevicesInv, Plug \/ Unplug
  PROVE  DevicesInv' /\ Calm
<1>1. DevicesTypeInv /\ PlacesInv /\ RefsInv /\ ContextsInv
  BY DEF DevicesInv
<1>2. /\ UNCHANGED <<host, st, contextVars, devs, past>> /\ UNCHANGED <<alive, default, refs, backend>>
      /\ wild' \in BOOLEAN /\ (wild' = wild \/ Orphaned)
      /\ th' = [t \in Callers |-> [th[t] EXCEPT !.quiet = FALSE]]
  BY <1>1 DEF Plug, Unplug, Disturb, contextVars, Orphaned, DevicesTypeInv
<1>3. th \in [Callers -> CallerRec] /\ hs \in [HandleIds -> HandleRec] /\ devs \in [DevIds -> DevRec] /\ KernelTypes
  BY <1>1 DEF DevicesTypeInv, KernelTypes
<1>4. KernelTypes' /\ hs' \in [HandleIds -> HandleRec] /\ \A h \in HandleIds : hs'[h].dev = hs[h].dev
  <2>1. CASE Plug
    <3>1. bus' \subseteq Addrs /\ plugs' \in 0 .. MaxPlugs
      <4>1. host.addrs \subseteq Addrs
        BY <1>1, DeviceAssumption DEF DevicesTypeInv
      <4>2. \E a \in host.addrs \ bus : bus' = bus \cup {a}
        BY <2>1 DEF Plug
      <4>3. plugs < MaxPlugs /\ plugs' = plugs + 1 /\ plugs \in 0 .. MaxPlugs /\ MaxPlugs \in Nat
        BY <1>3, <2>1, DeviceNumbers DEF Plug, KernelTypes
      <4> QED
        BY <1>3, <4>1, <4>2, <4>3 DEF KernelTypes
    <3> QED
      BY <1>3, <2>1, <3>1 DEF Plug, KernelTypes
  <2>2. CASE Unplug
    <3>1. PICK a \in bus : /\ bus' = bus \ {a} /\ owner' = [owner EXCEPT ![a] = Nobody] /\ conf' = [conf EXCEPT ![a] = 1]
                           /\ opener' = [opener EXCEPT ![a] = 0]
                           /\ hs' = [h \in HandleIds |-> [hs[h] EXCEPT !.gone = @ \/ (hs[h].dev # 0 /\ Addr(h) = a)]]
      BY <2>2 DEF Unplug
    <3>2. KernelTypes'
      <4>1. plugs' = plugs
        BY <2>2 DEF Unplug
      <4> QED
        BY <1>3, <3>1, <4>1 DEF KernelTypes, Configs, Linux!Configs
    <3>3. ASSUME NEW h \in HandleIds PROVE hs'[h] \in HandleRec /\ hs'[h].dev = hs[h].dev
      <4> DEFINE x == hs[h].gone \/ (hs[h].dev # 0 /\ Addr(h) = a)
      <4>1. x \in BOOLEAN /\ hs'[h] = [hs[h] EXCEPT !.gone = x] /\ hs[h] \in HandleRec
        BY <1>3, <3>1
      <4> HIDE DEF x
      <4> QED
        BY <4>1 DEF HandleRec
    <3>4. hs' \in [HandleIds -> HandleRec]
      <4>1. hs' = [h \in HandleIds |-> hs'[h]]
        BY <3>1
      <4> QED
        BY <3>3, <4>1
    <3> QED
      BY <3>2, <3>3, <3>4
  <2> QED
    BY <2>1, <2>2
<1>5. ASSUME NEW t \in Callers
      PROVE  /\ th'[t] \in CallerRec /\ th'[t] \in {th[t], [th[t] EXCEPT !.quiet = FALSE]}
             /\ th'[t].pc = th[t].pc /\ th'[t].ctx = th[t].ctx /\ th'[t].new = th[t].new /\ th'[t].dev = th[t].dev
             /\ th'[t].list = th[t].list /\ th'[t].disc = th[t].disc
  <2>1. th[t] \in CallerRec /\ th'[t] = [th[t] EXCEPT !.quiet = FALSE]
    BY <1>2, <1>3
  <2> QED
    BY <2>1 DEF CallerRec
<1>6. th' \in [Callers -> CallerRec]
  <2>1. th' = [t \in Callers |-> th'[t]]
    BY <1>2
  <2> QED
    BY <1>5, <2>1
<1>7. DevicesTypeInv'
  BY <1>1, <1>2, <1>3, <1>4, <1>6 DEF DevicesTypeInv, KernelTypes
<1>8. PlacesInv'
  <2>1. \A t \in Callers : WellFormed(th'[t])
    BY <1>1, <1>5 DEF PlacesInv, WellFormed
  <2>2. ASSUME NEW t \in Callers, NEW s \in Slots, hs'[<<t, s>>].dev # 0 PROVE th'[t].pc \notin Absent
    <3>1. hs[<<t, s>>].dev # 0
      BY <1>4, <2>2 DEF HandleIds
    <3> QED
      BY <1>1, <1>5, <3>1 DEF PlacesInv
  <2> QED
    BY <2>1, <2>2 DEF PlacesInv
<1>9. RefsInv'
  <2>1. ASSUME NEW d \in DevIds PROVE Listings(d)' = Listings(d) /\ Creators(d)' = Creators(d) /\ HandlesOn(d)' = HandlesOn(d)
    <3>1. \A t \in Callers : Held(t)' = Held(t)
      BY <1>5 DEF Held
    <3>2. Listings(d)' = Listings(d)
      BY <3>1 DEF Listings
    <3>3. Creators(d)' = Creators(d)
      BY <1>5 DEF Creators
    <3>4. HandlesOn(d)' = HandlesOn(d)
      BY <1>4 DEF HandlesOn
    <3> QED
      BY <3>2, <3>3, <3>4
  <2> QED
    BY <1>1, <1>2, <2>1 DEF RefsInv, onDarwin
<1>10. ContextsInv'
  BY <1>1, <1>2, <1>5, ContextsSame
<1>11. Calm
  BY <1>2, <1>3, <1>4, <1>5, KeepsSame DEF Calm, Keeps, Exists
<1> QED
  BY <1>7, <1>8, <1>9, <1>10, <1>11 DEF DevicesInv

-----------------------------------------------------------------------------
\* A step of a thread that lists keeps the counts.
ListingStep(t) ==
  \/ GetDeviceList(t) \/ NextEntry(t) \/ ScanEntry(t) \/ LookUp(t) \/ Allocate(t)
  \/ InitializeDevice(t) \/ Sanitize(t) \/ AppendDevice(t) \/ Return(t) \/ FreeDeviceList(t)

\* libusb_init and libusb_exit
ContextStep(t) == InitContext(t) \/ NewContext(t) \/ Exit(t) \/ StopBackend(t) \/ FreeContext(t)

\* Such a step moves its thread.
LEMMA ListingMoves ==
  ASSUME DevicesInv, NEW t \in Callers, ListingStep(t)
  PROVE  Moves(t, th'[t]) /\ DevicesInv'
<1>1. Moves(t, th'[t])
  <2>1. CASE GetDeviceList(t)
    BY <2>1, GetDeviceListMoves
  <2>2. CASE NextEntry(t)
    BY <2>2, NextEntryMoves
  <2>3. CASE ScanEntry(t)
    BY <2>3, ScanEntryMoves
  <2>4. CASE LookUp(t)
    BY <2>4, LookUpMoves
  <2>5. CASE Allocate(t)
    BY <2>5, AllocateMoves
  <2>6. CASE InitializeDevice(t)
    BY <2>6, InitializeDeviceMoves
  <2>7. CASE Sanitize(t)
    BY <2>7, SanitizeMoves
  <2>8. CASE AppendDevice(t)
    BY <2>8, AppendDeviceMoves
  <2>9. CASE Return(t)
    BY <2>9, ReturnMoves
  <2>10. CASE FreeDeviceList(t)
    BY <2>10, FreeDeviceListMoves
  <2> QED
    BY <2>1, <2>2, <2>3, <2>4, <2>5, <2>6, <2>7, <2>8, <2>9, <2>10 DEF ListingStep
<1> QED
  BY <1>1, MovesKeep

\* A step that changes nothing is calm.
LEMMA StutterCalm ==
  ASSUME DevicesInv, UNCHANGED devices
  PROVE  DevicesInv' /\ Calm
<1>1. /\ UNCHANGED <<host, opener, st, devs, th, hs, wild, past>> /\ UNCHANGED <<bus, plugs, conf, owner>>
      /\ UNCHANGED <<alive, default, refs, backend>> /\ UNCHANGED contextVars
  BY DEF devices, kernelVars, contextVars
<1>2. DevicesTypeInv' /\ PlacesInv'
  BY <1>1 DEF DevicesInv, DevicesTypeInv, PlacesInv
<1>3. RefsInv'
  <2>1. ASSUME NEW d \in DevIds PROVE Listings(d)' = Listings(d) /\ Creators(d)' = Creators(d) /\ HandlesOn(d)' = HandlesOn(d)
    BY <1>1 DEF Listings, Creators, HandlesOn, Held
  <2> QED
    BY <1>1, <2>1 DEF DevicesInv, RefsInv, onDarwin
<1>4. ContextsInv'
  BY <1>1, ContextsSame DEF DevicesInv
<1>5. Keeps(devs, devs')
  BY <1>1, KeepsSame DEF DevicesInv, DevicesTypeInv
<1>6. Calm
  BY <1>1, <1>5 DEF Calm, Keeps, Exists
<1> QED
  BY <1>2, <1>3, <1>4, <1>6 DEF DevicesInv

\* What concerns a device: a list, a handle, and a context; everything else is calm.
LEMMA DevicesSteps ==
  ASSUME DevicesInv, [DevicesNext]_devices
  PROVE  /\ DevicesInv'
         /\ \/ Calm
            \/ \E t \in Callers : ContextStep(t) \/ ListingStep(t)
            \/ \E t \in Callers, s \in Slots : OpenDevice(t, s) \/ CloseHandle(t, s)
<1>1. CASE UNCHANGED devices
  BY <1>1, StutterCalm
<1>2. CASE Plug \/ Unplug
  BY <1>2, PlugKeeps
<1>3. ASSUME NEW t \in Callers, NEW s \in Slots,
             \/ Claim(t, s) \/ Release(t, s) \/ \E c \in Configs : SetConfiguration(t, s, c)
             \/ \E b \in BOOLEAN : KernelDriver(t, s, b)
      PROVE  DevicesInv' /\ Calm
  BY <1>3, ClaimKeeps, ReleaseKeeps, SetConfigurationKeeps, KernelDriverKeeps
<1>4. ASSUME NEW t \in Callers, NEW s \in Slots, OpenDevice(t, s) \/ CloseHandle(t, s)
      PROVE  DevicesInv'
  BY <1>4, OpenDeviceKeeps, CloseHandleKeeps
<1>5. ASSUME NEW t \in Callers, ListingStep(t) PROVE DevicesInv'
  BY <1>5, ListingMoves
<1>6. ASSUME NEW t \in Callers, ContextStep(t) PROVE DevicesInv'
  <2>1. CASE InitContext(t)
    BY <2>1, InitContextKeeps
  <2>2. CASE Exit(t)
    BY <2>2, LeavesContext, LeavesDefault
  <2>3. CASE FreeContext(t)
    BY <2>3, FreeContextKeeps
  <2>4. CASE NewContext(t)
    BY <2>4, NewContextKeeps
  <2>5. CASE StopBackend(t)
    BY <2>5, StopBackendKeeps
  <2> QED
    BY <1>6, <2>1, <2>2, <2>3, <2>4, <2>5 DEF ContextStep
<1>7. CASE DevicesNext
  <2>1. \/ Plug \/ Unplug
        \/ \E t \in Callers : ContextStep(t) \/ ListingStep(t)
        \/ \E t \in Callers, s \in Slots :
             \/ OpenDevice(t, s) \/ CloseHandle(t, s) \/ Claim(t, s) \/ Release(t, s)
             \/ \E c \in Configs : SetConfiguration(t, s, c)
             \/ \E b \in BOOLEAN : KernelDriver(t, s, b)
    <3>1. host.configs \subseteq Configs
      BY DeviceAssumption DEF DevicesInv, DevicesTypeInv
    <3> QED
      BY <1>7, <3>1 DEF DevicesNext, ListingStep, ContextStep
  <2> QED
    BY <2>1, <1>2, <1>3, <1>4, <1>5, <1>6
<1> QED
  BY <1>1, <1>7

\* The counts hold always.
LEMMA DevicesInductive == DevicesSpec => []DevicesInv
<1>1. DevicesInit => DevicesInv
  BY InitDevices
<1>2. DevicesInv /\ [DevicesNext]_devices => DevicesInv'
  BY DevicesSteps
<1> QED
  BY <1>1, <1>2, PTL DEF DevicesSpec

\* The invariant says what the property says.
LEMMA DevicesCounted == DevicesInv => Counted
<1> SUFFICES ASSUME DevicesInv PROVE Counted
  OBVIOUS
<1>1. DevicesTypeInv /\ RefsInv /\ ContextsInv
  BY DEF DevicesInv
<1>2. /\ Cardinality(Callers) \in Nat /\ IsFiniteSet(HandleIds) /\ refs \in 0 .. Cardinality(Callers)
      /\ Cardinality(alive) \in Nat /\ Cardinality(alive) <= Cardinality(Callers)
  BY DeviceNumbers, ContextsFew, ContextUsers
<1>3. DevicesTypeOK
  <2>1. backend \in [count : -1 .. Cardinality(Callers), runs : {0} \cup CtxIds]
    <3>1. backend.count \in -1 .. Cardinality(Callers)
      <4>1. backend = Darwin!Adrift => backend.count = -1
        BY DEF Darwin!Adrift
      <4> QED
        BY <1>2, <4>1, BackendIs DEF Honest
    <3> QED
      BY <1>1, <3>1 DEF DevicesTypeInv
  <2>2. ASSUME NEW d \in DevIds
        PROVE  /\ devs[d].ref \in Nat /\ devs[d].ctx \in {0} \cup CtxIds
               /\ devs[d].addr \in {0} \cup Addrs /\ devs[d].cached \in {Linux!Unsure} \cup Configs
               /\ devs[d].opens \in 0 .. Cardinality(HandleIds)
    <3>1. devs[d] \in DevRec
      BY <1>1 DEF DevicesTypeInv
    <3>2. HandlesOn(d) \in SUBSET HandleIds
      BY DEF HandlesOn
    <3>3. IsFiniteSet(HandlesOn(d)) /\ Cardinality(HandlesOn(d)) <= Cardinality(HandleIds)
      BY <1>2, <3>2, FS_Subset
    <3>4. Cardinality(HandlesOn(d)) \in Nat /\ Cardinality(HandleIds) \in Nat
      BY <1>2, <3>3, FS_CardinalityType
    <3>5. devs[d].opens \in 0 .. Cardinality(HandleIds)
      BY <1>1, <3>3, <3>4 DEF RefsInv
    <3> QED
      BY <3>1, <3>5 DEF DevRec, Linux!Unsure, Configs, Linux!Configs
  <2>3. \A t \in Callers : th[t].list \in Seq(DevIds) /\ th[t].disc \in Seq(DevIds) /\ th[t].cur \in {0} \cup Addrs
    BY <1>1 DEF DevicesTypeInv, CallerRec
  <2> QED
    BY <1>1, <1>2, <2>1, <2>2, <2>3 DEF DevicesTypeOK, DevicesTypeInv, HandleRec
<1>4. RefsCounted
  BY <1>1 DEF RefsInv, RefsCounted
<1>5. ContextsCounted
  BY <1>1, ContextUsers DEF ContextsInv, ContextsCounted, Users, Absent
<1> QED
  BY <1>3, <1>4, <1>5 DEF Counted

\* A device object counts exactly the references that handles, lists and the
\* thread that creates it have, the default context its users and the backend
\* of Mac OS its contexts, unless two threads entered it at once or it failed
\* (core.c, darwin_usb.c).
THEOREM CountedRight == DevicesSpec => []Counted
<1> QED
  BY DevicesInductive, DevicesCounted, PTL

-----------------------------------------------------------------------------
(***************************************************************************)
(* What is freed or not complete                                           *)
(***************************************************************************)

\* A device is complete and of the context of a thread.
Good(d, t) == devs[d].ready /\ devs[d].ctx = th[t].ctx

\* What a thread holds and works on; only what it found itself is not held.
HoldsGood(t) ==
  /\ \A d \in ToSet(Held(t)) : Good(d, t)
  /\ \A s \in Slots : hs[<<t, s>>].dev # 0 => Good(hs[<<t, s>>].dev, t)
WorksGood(t) ==
  th[t].pc \in Working =>
    /\ Exists(th[t].dev) /\ devs[th[t].dev].ctx = th[t].ctx
    /\ th[t].pc = "append" \/ ~th[t].new => devs[th[t].dev].ready

\* The list that usbfs_scan_busdir goes on with is where it was.
Unmoved(r) == r.mode = "usbfs" /\ r.pc \notin {"out", "starting", "idle", "freeing", "stopping", "listed"} => ~r.moved
Fine(t) == HoldsGood(t) /\ WorksGood(t) /\ Unmoved(th[t])

\* Of the threads of a context one lists.
OneLists == \A t, u \in Callers : t # u /\ th[t].ctx = th[u].ctx /\ Scanning(t) => ~Scanning(u)
Clean == ~wild /\ OneLists /\ \A t \in Callers : Fine(t)

\* The context that the event thread was given lives.
RunsAlive == backend.runs \in alive \cup {0}
Unharmed == past = {} /\ backend # Darwin!Adrift
StaleInv == Unharmed => Clean /\ RunsAlive

\* What a thread holds exists.
LEMMA HeldExist ==
  ASSUME DevicesInv, NEW t \in Callers
  PROVE  /\ \A d \in ToSet(Held(t)) : d \in DevIds /\ Exists(d)
         /\ \A s \in Slots : hs[<<t, s>>].dev # 0 => hs[<<t, s>>].dev \in DevIds /\ Exists(hs[<<t, s>>].dev)
         /\ th[t].pc \in Working => th[t].dev \in DevIds /\ (th[t].new => Exists(th[t].dev))
<1>1. DevicesTypeInv /\ RefsInv /\ Held(t) = HeldOf(th[t]) /\ Held(t) \in Seq(DevIds)
  BY ThreadIs DEF DevicesInv, Held, HeldOf
<1>2. ASSUME NEW d \in DevIds
      PROVE  (d \in ToSet(Held(t)) \/ NewOf(th[t], d) = 1) => Exists(d)
  <2> DEFINE o == Occurs(d, HeldOf(th[t]))
             n == NewOf(th[t], d)
             g == Cardinality(HandlesOn(d))
             c == Cardinality(Creators(d))
             l == Cardinality(Listings(d))
  <2>1. d \in ToSet(Held(t)) => o # 0
    BY <1>1, OccursIs
  <2>2. o \in Nat /\ n \in Nat /\ g \in Nat /\ c \in Nat /\ l \in Nat /\ n <= c /\ o <= l /\ devs[d].ref = g + c + l
    BY <1>1, HeldCounted
  <2> HIDE DEF o, n, g, c, l
  <2>3. o # 0 \/ n = 1 => devs[d].ref > 0
    BY <2>2
  <2> QED
    BY <2>1, <2>3 DEF n, Exists
<1>3. \A d \in ToSet(Held(t)) : d \in DevIds
  BY <1>1, QueueElements
<1>4. \A s \in Slots : hs[<<t, s>>].dev # 0 => hs[<<t, s>>].dev \in DevIds /\ Exists(hs[<<t, s>>].dev)
  BY HandleIs DEF Exists
<1>5. th[t].pc \in Working => th[t].dev \in DevIds
  BY LetGoIs
<1>6. th[t].pc \in Working /\ th[t].new => Exists(th[t].dev)
  BY <1>2, <1>5 DEF NewOf
<1> QED
  BY <1>2, <1>3, <1>4, <1>5, <1>6

\* What threads have exists.
Attached ==
  \A t \in Callers : /\ \A d \in ToSet(Held(t)) : Exists(d)
                     /\ \A s \in Slots : hs[<<t, s>>].dev # 0 => Exists(hs[<<t, s>>].dev)
                     /\ th[t].pc \in Working /\ th[t].new => Exists(th[t].dev)

\* It is so for every thread.
LEMMA AllAttached == DevicesInv => Attached
  BY HeldExist DEF Attached

\* A thread that goes on with what it had is as fine as it was, unless what it
\* found is lost.
LEMMA StaysFine ==
  ASSUME DevicesInv, DevicesInv', Lives(devs, devs'), NEW u \in Callers, Fine(u),
         th'[u].pc = th[u].pc, th'[u].ctx = th[u].ctx, th'[u].list = th[u].list, th'[u].disc = th[u].disc, th'[u].seen = th[u].seen,
         th'[u].new = th[u].new, th'[u].dev = th[u].dev, th'[u].mode = th[u].mode, th'[u].moved = th[u].moved,
         \A s \in Slots : hs'[<<u, s>>].dev = hs[<<u, s>>].dev,
         th[u].pc \in Working /\ ~th[u].new => devs'[th[u].dev].ref > 0
  PROVE  Fine(u)'
<1>1. Held(u)' = Held(u)
  BY DEF Held
<1>2. ASSUME NEW d \in DevIds, Exists(d), devs'[d].ref > 0, devs[d].ctx = th[u].ctx
      PROVE  devs'[d].ctx = th'[u].ctx /\ (devs[d].ready => devs'[d].ready)
  BY <1>2 DEF Lives, Exists
<1>3. /\ \A d \in ToSet(Held(u)) : d \in DevIds /\ Exists(d)
      /\ \A s \in Slots : hs[<<u, s>>].dev # 0 => hs[<<u, s>>].dev \in DevIds /\ Exists(hs[<<u, s>>].dev)
      /\ th[u].pc \in Working => th[u].dev \in DevIds /\ (th[u].new => Exists(th[u].dev))
  BY HeldExist
<1>4. /\ \A d \in ToSet(Held(u)) : devs'[d].ref > 0
      /\ \A s \in Slots : hs[<<u, s>>].dev # 0 => devs'[hs[<<u, s>>].dev].ref > 0
      /\ th[u].pc \in Working /\ th[u].new => devs'[th[u].dev].ref > 0
  <2>1. Attached'
    BY AllAttached, PTL
  <2> QED
    BY <1>1, <2>1 DEF Attached, Exists
<1>5. HoldsGood(u)'
  <2>1. \A d \in ToSet(Held(u)) : devs'[d].ready /\ devs'[d].ctx = th'[u].ctx
    BY <1>2, <1>3, <1>4 DEF Fine, HoldsGood, Good
  <2>2. \A s \in Slots : hs[<<u, s>>].dev # 0 => devs'[hs[<<u, s>>].dev].ready /\ devs'[hs[<<u, s>>].dev].ctx = th'[u].ctx
    BY <1>2, <1>3, <1>4 DEF Fine, HoldsGood, Good
  <2> QED
    BY <1>1, <2>1, <2>2 DEF HoldsGood, Good
<1>6. WorksGood(u)'
  <2> SUFFICES ASSUME th[u].pc \in Working
               PROVE  /\ devs'[th[u].dev].ref > 0 /\ devs'[th[u].dev].ctx = th[u].ctx
                      /\ th[u].pc = "append" \/ ~th[u].new => devs'[th[u].dev].ready
    BY DEF WorksGood, Exists
  <2>1. devs'[th[u].dev].ref > 0 /\ th[u].dev \in DevIds
    BY <1>3, <1>4
  <2> QED
    BY <1>2, <2>1 DEF Fine, WorksGood
<1>7. Unmoved(th[u])'
  BY DEF Fine, Unmoved
<1> QED
  BY <1>5, <1>6, <1>7 DEF Fine

\* When one thread takes a step, the others stay fine: a device it gives back
\* for good is of its own context, of which no other thread lists.
LEMMA OthersFine ==
  ASSUME DevicesInv, DevicesInv', Clean, Lives(devs, devs'), NEW t \in Callers,
         \A u \in Callers \ {t} : th'[u] = th[u],
         \A u \in Callers \ {t} : \A s \in Slots : hs'[<<u, s>>].dev = hs[<<u, s>>].dev,
         \A d \in DevIds : Exists(d) => devs'[d].ref > 0 \/ (devs[d].ctx = th[t].ctx /\ (Scanning(t) \/ Alone(t))),
         NEW u \in Callers \ {t}
  PROVE  Fine(u)'
<1>1. Fine(u) /\ OneLists
  BY DEF Clean
<1>2. ASSUME th[u].pc \in Working, ~th[u].new PROVE devs'[th[u].dev].ref > 0
  <2>1. th[u].dev \in DevIds
    BY <1>2, HeldExist
  <2>2. Exists(th[u].dev) /\ devs[th[u].dev].ctx = th[u].ctx
    BY <1>1, <1>2 DEF Fine, WorksGood
  <2>3. Scanning(u)
    BY <1>2 DEF Scanning, Working
  <2>4. th[u].ctx = th[t].ctx => ~(Scanning(t) \/ Alone(t))
    BY <1>1, <2>3 DEF OneLists, Alone
  <2> QED
    BY <2>1, <2>2, <2>4
<1> QED
  BY <1>1, <1>2, StaysFine

\* One thread lists as before.
LEMMA OneListsStays ==
  ASSUME Clean, NEW t \in Callers, \A u \in Callers \ {t} : th'[u] = th[u],
         Scanning(t)' => th'[t].ctx = th[t].ctx /\ (Scanning(t) \/ Alone(t))
  PROVE  OneLists'
<1> SUFFICES ASSUME NEW u \in Callers, NEW v \in Callers, u # v, th'[u].ctx = th'[v].ctx, Scanning(u)', Scanning(v)'
             PROVE  FALSE
  BY DEF OneLists
<1>1. OneLists
  BY DEF Clean
<1>2. \A w \in Callers \ {t} : Scanning(w)' <=> Scanning(w)
  BY DEF Scanning
<1>3. CASE u # t /\ v # t
  BY <1>1, <1>2, <1>3 DEF OneLists
<1>4. ASSUME NEW w \in Callers \ {t}, Scanning(w), Scanning(t)', th[w].ctx = th[t].ctx PROVE FALSE
  BY <1>1, <1>4 DEF OneLists, Alone
<1>5. CASE u = t
  BY <1>2, <1>4, <1>5
<1>6. CASE v = t
  BY <1>2, <1>4, <1>6
<1> QED
  BY <1>3, <1>5, <1>6

\* A thread that takes up a context or leaves one has nothing that could be stale.
LEMMA ContextFine ==
  ASSUME DevicesInv, DevicesInv', Clean, NEW t \in Callers, ContextStep(t)
  PROVE  Clean'
<1> DEFINE apart == {"out", "starting", "idle", "freeing", "stopping"}
<1>1. th[t] \in CallerRec /\ WellFormed(th[t]) /\ th \in [Callers -> CallerRec] /\ PlacesInv
  BY ThreadIs DEF DevicesInv, DevicesTypeInv
<1>2. /\ UNCHANGED <<devs, hs, wild>>
      /\ th[t].pc \in Absent \/ HoldsNothing(t)
      /\ \E p \in apart : \E r : Set(t, r) /\ (r = NoCaller \/ \E c \in {0} \cup CtxIds : r = [th[t] EXCEPT !.pc = p, !.ctx = c])
  <2>1. default \in {0} \cup CtxIds /\ th[t].ctx \in {0} \cup CtxIds
    BY <1>1 DEF DevicesInv, DevicesTypeInv, CallerRec
  <2>2. \A p \in apart : [th[t] EXCEPT !.pc = p] = [th[t] EXCEPT !.pc = p, !.ctx = th[t].ctx]
    BY <1>1 DEF CallerRec
  <2>3. CASE InitContext(t)
    <3>1. Set(t, [th[t] EXCEPT !.pc = "idle", !.ctx = default]) \/ Set(t, [th[t] EXCEPT !.pc = "starting"])
      BY <2>3 DEF InitContext
    <3> QED
      BY <2>1, <2>2, <2>3, <3>1 DEF InitContext, Absent
  <2>4. CASE NewContext(t)
    <3>1. \E c \in CtxIds : Set(t, [th[t] EXCEPT !.pc = "idle", !.ctx = c]) \/ Set(t, NoCaller)
      BY <2>4, ContextsFew DEF NewContext
    <3> QED
      BY <2>4, <3>1 DEF NewContext, Absent
  <2>5. CASE Exit(t)
    <3>1. Set(t, [th[t] EXCEPT !.pc = "freeing"]) \/ Set(t, NoCaller)
      BY <2>5 DEF Exit
    <3> QED
      BY <2>1, <2>2, <2>5, <3>1 DEF Exit
  <2>6. CASE StopBackend(t)
    BY <2>1, <2>2, <2>6 DEF StopBackend, Absent
  <2>7. CASE FreeContext(t)
    BY <2>7 DEF FreeContext, Absent
  <2> QED
    BY <2>3, <2>4, <2>5, <2>6, <2>7 DEF ContextStep
<1>3. th[t].list = <<>> /\ th[t].disc = <<>> /\ \A s \in Slots : hs[<<t, s>>].dev = 0
  <2>1. th[t].pc \in Absent => th[t].list = <<>> /\ th[t].disc = <<>>
    BY <1>1 DEF WellFormed, Absent
  <2>2. HoldsNothing(t) => th[t].list = <<>> /\ \A s \in Slots : hs[<<t, s>>].dev = 0
    BY DEF HoldsNothing
  <2>3. th[t].pc \in Absent => \A s \in Slots : hs[<<t, s>>].dev = 0
    BY <1>1 DEF PlacesInv
  <2>4. ContextStep(t) => th[t].pc \in Absent \cup {"idle"}
    BY DEF ContextStep, InitContext, NewContext, Exit, StopBackend, FreeContext, Absent
  <2>5. th[t].pc = "idle" => th[t].disc = <<>>
    BY <1>1 DEF WellFormed
  <2> QED
    BY <1>2, <2>1, <2>2, <2>3, <2>4, <2>5
<1>4. /\ th'[t].list = <<>> /\ th'[t].disc = <<>> /\ th'[t].pc \in apart
      /\ \A u \in Callers \ {t} : th'[u] = th[u]
  <2>0. PICK p \in apart : \E r : Set(t, r) /\ (r = NoCaller \/ \E c \in {0} \cup CtxIds : r = [th[t] EXCEPT !.pc = p, !.ctx = c])
    BY <1>2
  <2>1. PICK r : Set(t, r) /\ (r = NoCaller \/ \E c \in {0} \cup CtxIds : r = [th[t] EXCEPT !.pc = p, !.ctx = c])
    BY <2>0
  <2>2. r.list = <<>> /\ r.disc = <<>> /\ r.pc \in apart
    BY <1>1, <1>3, <2>1, NoCallerIs DEF CallerRec
  <2>3. th'[t] = r /\ \A u \in Callers \ {t} : th'[u] = th[u]
    BY <1>1, <2>1 DEF Set
  <2> QED
    BY <2>2, <2>3
<1>5. Fine(t)'
  <2>1. <<>> \o <<>> = <<>>
    OBVIOUS
  <2>2. Held(t)' = <<>> /\ \A s \in Slots : hs'[<<t, s>>].dev = 0
    BY <1>2, <1>3, <1>4, <2>1 DEF Held
  <2>3. HoldsGood(t)'
    BY <2>2 DEF HoldsGood, ToSet
  <2>4. WorksGood(t)'
    BY <1>4 DEF WorksGood, Working
  <2>5. Unmoved(th[t])'
    BY <1>4 DEF Unmoved
  <2> QED
    BY <2>3, <2>4, <2>5 DEF Fine
<1>6. Lives(devs, devs') /\ \A d \in DevIds : Exists(d) => devs'[d].ref > 0
  BY <1>2, KeepsSame DEF DevicesInv, DevicesTypeInv, Keeps, Exists
<1>7. \A u \in Callers \ {t} : Fine(u)'
  BY <1>2, <1>4, <1>6, OthersFine
<1>8. OneLists'
  <2>1. ~Scanning(t)'
    BY <1>4 DEF Scanning
  <2> QED
    BY <1>4, <2>1, OneListsStays
<1> QED
  BY <1>2, <1>5, <1>7, <1>8 DEF Clean

\* A context that is made or freed leaves the event thread with one that lives,
\* unless it was the one that is freed.  What is not known stays so.
LEMMA ContextRuns ==
  ASSUME DevicesInv, NEW t \in Callers, ContextStep(t), Unharmed'
  PROVE  Unharmed /\ (RunsAlive => RunsAlive')
<1>1. backend \in BackendRec /\ Honest(backend, alive) /\ past' = {} /\ backend' # Darwin!Adrift
  BY BackendIs DEF Unharmed
<1>2. CASE InitContext(t) \/ Exit(t) \/ StopBackend(t)
  <2>1. past' = past /\ alive' = alive /\ backend' \in {backend, Darwin!Adrift}
    BY <1>2 DEF InitContext, Exit, StopBackend, Enters
  <2> QED
    BY <1>1, <2>1 DEF Unharmed, RunsAlive
<1>3. CASE NewContext(t)
  <2> DEFINE c == CHOOSE x \in CtxIds \ alive : TRUE
             starts == IF onDarwin THEN Darwin!DarwinInit(backend, c) ELSE {[r |-> "ok", b |-> backend]}
  <2>1. PICK i \in starts, denied \in BOOLEAN :
          IF i.r = "ok" /\ ~denied THEN backend' = i.b /\ alive' = alive \cup {c}
          ELSE backend' = (IF i.r = "ok" /\ onDarwin THEN Darwin!DarwinExit(i.b) ELSE i.b) /\ alive' = alive
    BY <1>3 DEF NewContext
  <2>2. past' = past
    BY <1>3 DEF NewContext
  <2> HIDE DEF c
  <2>3. backend # Darwin!Adrift
    <3> SUFFICES ASSUME backend = Darwin!Adrift PROVE backend' = Darwin!Adrift
      BY <1>1
    <3>1. i.b = Darwin!Adrift
      BY DEF Darwin!DarwinInit
    <3> QED
      BY <2>1, <3>1 DEF Darwin!DarwinExit
  <2>4. CASE onDarwin
    <3> DEFINE b == [count |-> backend.count + 1, runs |-> IF backend.count = 0 THEN c ELSE backend.runs]
    <3>1. i = [r |-> "ok", b |-> b] \/ i = [r |-> "OTHER", b |-> Darwin!Adrift]
      BY <2>3, <2>4 DEF Darwin!DarwinInit
    <3>2. i = [r |-> "ok", b |-> b]
      BY <1>1, <2>1, <3>1
    <3>3. b.count = backend.count + 1 /\ b.runs = (IF backend.count = 0 THEN c ELSE backend.runs) /\ backend.count \in Int
      BY <1>1 DEF BackendRec
    <3>4. b # Darwin!Adrift
      <4>1. backend.count \in Nat
        BY <1>1, <2>3, <2>4, ContextsFew DEF Honest
      <4>2. Darwin!Adrift.count = -1
        BY DEF Darwin!Adrift
      <4> QED
        BY <3>3, <4>1, <4>2
    <3> HIDE DEF b
    <3>5. (backend' = b /\ alive' = alive \cup {c}) \/ (backend' = Darwin!DarwinExit(b) /\ alive' = alive)
      BY <2>1, <2>4, <3>2
    <3>6. Darwin!DarwinExit(b).runs = (IF b.count = 1 THEN 0 ELSE b.runs)
      BY <3>4 DEF Darwin!DarwinExit
    <3>7. b.count = 1 <=> backend.count = 0
      BY <3>3
    <3>8. RunsAlive => RunsAlive'
      BY <3>3, <3>5, <3>6, <3>7 DEF RunsAlive
    <3> QED
      BY <1>1, <2>2, <2>3, <3>8 DEF Unharmed
  <2>5. CASE ~onDarwin
    <3>1. backend' = backend /\ alive' \in {alive, alive \cup {c}}
      BY <2>1, <2>5
    <3> QED
      BY <1>1, <2>2, <2>3, <3>1 DEF Unharmed, RunsAlive
  <2> QED
    BY <2>4, <2>5
<1>4. CASE FreeContext(t)
  <2>1. /\ alive' = alive \ {th[t].ctx} /\ backend' = (IF onDarwin THEN Darwin!DarwinExit(backend) ELSE backend)
        /\ past' = past \cup (IF backend'.runs = th[t].ctx THEN {"orphaned"} ELSE {})
    BY <1>4 DEF FreeContext, Notes
  <2>2. past = {} /\ backend'.runs # th[t].ctx
    BY <1>1, <2>1
  <2>3. backend # Darwin!Adrift
    BY <1>1, <2>1 DEF Darwin!DarwinExit
  <2>4. backend'.runs \in {backend.runs, 0}
    BY <2>1, <2>3 DEF Darwin!DarwinExit
  <2> QED
    BY <2>1, <2>2, <2>3, <2>4 DEF Unharmed, RunsAlive
<1> QED
  BY <1>2, <1>3, <1>4 DEF ContextStep

\* A device that a thread of its context finds, while no other lists, is complete.
LEMMA FoundReady ==
  ASSUME DevicesInv, Clean, NEW t \in Callers, Scanning(t), ~th[t].new, NEW d \in DevIds, Exists(d), devs[d].ctx = th[t].ctx
  PROVE  devs[d].ready
<1>1. DevicesTypeInv /\ RefsInv /\ OneLists /\ \A u \in Callers : Fine(u) /\ WellFormed(th[u])
  BY ThreadIs DEF Clean, DevicesInv
<1>2. /\ devs[d].ref > 0 /\ IsFiniteSet(Listings(d))
      /\ devs[d].ref = Cardinality(HandlesOn(d)) + Cardinality(Creators(d)) + Cardinality(Listings(d))
  BY <1>1 DEF RefsInv, Exists
<1>3. HandlesOn(d) # {} \/ Creators(d) # {} \/ Listings(d) # {}
  <2>1. Cardinality({}) = 0
    BY FS_EmptySet
  <2> QED
    BY <1>2, <2>1
<1>4. ASSUME NEW h \in HandlesOn(d) PROVE devs[d].ready
  <2>1. PICK u \in Callers, s \in Slots : h = <<u, s>>
    BY DEF HandlesOn, HandleIds
  <2>2. hs[<<u, s>>].dev = d /\ d # 0
    BY <2>1, DeviceNumbers DEF HandlesOn
  <2> QED
    BY <1>1, <2>2 DEF Fine, HoldsGood, Good
<1>5. ASSUME NEW u \in Creators(d) PROVE FALSE
  <2>1. u \in Callers /\ th[u].new /\ th[u].dev = d
    BY DEF Creators
  <2>2. th[u].pc \in Working /\ u # t
    BY <1>1, <2>1 DEF WellFormed
  <2>3. devs[d].ctx = th[u].ctx /\ Scanning(u)
    BY <1>1, <2>1, <2>2 DEF Fine, WorksGood, Working, Scanning
  <2> QED
    BY <1>1, <2>1, <2>2, <2>3 DEF OneLists
<1>6. ASSUME NEW x \in Listings(d) PROVE devs[d].ready
  <2>1. PICK u \in Callers : \E i \in DOMAIN Held(u) : Held(u)[i] = d
    BY DEF Listings
  <2>2. d \in ToSet(Held(u))
    BY <2>1 DEF ToSet
  <2> QED
    BY <1>1, <2>2 DEF Fine, HoldsGood, Good
<1> QED
  BY <1>3, <1>4, <1>5, <1>6

\* What a thread that lists has lost, it has held.
LEMMA MovesLoses ==
  ASSUME DevicesInv, Clean, NEW t \in Callers, NEW r, Moves(t, r), NEW d \in DevIds, Exists(d), ~(devs'[d].ref > 0)
  PROVE  devs[d].ctx = th[t].ctx
<1>1. /\ Fine(t) /\ WellFormed(th[t]) /\ Held(t) = HeldOf(th[t]) /\ HeldOf(th[t]) \in Seq(DevIds)
      /\ r \in CallerRec /\ devs' \in [DevIds -> DevRec] /\ devs \in [DevIds -> DevRec]
      /\ devs'[d].ref + NewOf(th[t], d) + Occurs(d, HeldOf(th[t])) = devs[d].ref + NewOf(r, d) + Occurs(d, HeldOf(r))
  BY ThreadIs DEF Clean, Moves, Held, HeldOf, DevicesInv, DevicesTypeInv
<1>2. HeldOf(r) \in Seq(DevIds)
  BY <1>1 DEF CallerRec, HeldOf
<1>3. NewOf(th[t], d) # 0 \/ Occurs(d, HeldOf(th[t])) # 0
  <2> DEFINE o == Occurs(d, HeldOf(th[t]))
             p == Occurs(d, HeldOf(r))
             n == NewOf(th[t], d)
             m == NewOf(r, d)
             ref == devs[d].ref
             after == devs'[d].ref
  <2>1. o \in Nat /\ p \in Nat
    BY <1>1, <1>2, OccursIs
  <2>2. n \in Nat /\ m \in Nat
    BY DEF NewOf
  <2>3. ref \in Nat /\ after \in Nat
    BY <1>1 DEF DevRec
  <2>4. after + n + o = ref + m + p /\ ref > 0 /\ ~(after > 0)
    BY <1>1 DEF Exists
  <2> HIDE DEF o, p, n, m, ref, after
  <2>5. n # 0 \/ o # 0
    BY <2>1, <2>2, <2>3, <2>4
  <2> QED
    BY <2>5 DEF n, o
<1>4. CASE NewOf(th[t], d) # 0
  BY <1>1, <1>4 DEF NewOf, WellFormed, Fine, WorksGood
<1>5. CASE Occurs(d, HeldOf(th[t])) # 0
  <2>1. d \in ToSet(HeldOf(th[t]))
    BY <1>1, <1>5, OccursIs
  <2> QED
    BY <1>1, <2>1 DEF Fine, HoldsGood, Good
<1> QED
  BY <1>3, <1>4, <1>5

\* A thread that lists and works on nothing holds what it held or less.
LEMMA HoldsOn ==
  ASSUME DevicesInv, DevicesInv', Clean, NEW t \in Callers, NEW r, Moves(t, r), th'[t] = r,
         \A d \in ToSet(HeldOf(r)) : d \in ToSet(HeldOf(th[t])) \/ (devs'[d].ready /\ devs'[d].ctx = th[t].ctx)
  PROVE  HoldsGood(t)'
<1>1. Fine(t) /\ r.ctx = th[t].ctx /\ hs' = hs /\ Lives(devs, devs') /\ Held(t) = HeldOf(th[t]) /\ Held(t)' = HeldOf(r)
  BY DEF Clean, Moves, Keeps, Held, HeldOf
<1>2. Attached /\ Attached'
  BY AllAttached, PTL
<1>3. \A d \in ToSet(HeldOf(r)) : d \in DevIds /\ devs'[d].ref > 0
  <2>1. HeldOf(r) \in Seq(DevIds)
    BY DEF Moves, CallerRec, HeldOf
  <2>2. \A d \in ToSet(HeldOf(r)) : d \in DevIds
    BY <2>1, QueueElements
  <2> QED
    BY <1>1, <1>2, <2>2 DEF Attached, Exists
<1>4. \A d \in ToSet(HeldOf(r)) : devs'[d].ready /\ devs'[d].ctx = r.ctx
  BY <1>1, <1>2, <1>3 DEF Fine, HoldsGood, Good, Attached, Exists, Lives
<1>5. \A s \in Slots : hs[<<t, s>>].dev # 0 => hs[<<t, s>>].dev \in DevIds /\ Exists(hs[<<t, s>>].dev)
  BY HeldExist
<1>6. \A s \in Slots : hs[<<t, s>>].dev # 0 => devs'[hs[<<t, s>>].dev].ref > 0
  BY <1>1, <1>2 DEF Attached, Exists
<1>7. \A s \in Slots : hs[<<t, s>>].dev # 0 => devs'[hs[<<t, s>>].dev].ready /\ devs'[hs[<<t, s>>].dev].ctx = r.ctx
  BY <1>1, <1>5, <1>6 DEF Fine, HoldsGood, Good, Exists, Lives
<1> QED
  BY <1>1, <1>4, <1>7 DEF HoldsGood, Good

\* A listing that starts keeps what the thread holds.
LEMMA GetDeviceListFine ==
  ASSUME DevicesInv, DevicesInv', Clean, NEW t \in Callers, GetDeviceList(t)
  PROVE  Fine(t)' /\ ~wild'
<1> DEFINE m == IF onDarwin THEN "iokit" ELSE Linux!FirstMode(st)
           r == [StartScan(th[t], m) EXCEPT !.disc = <<>>, !.quiet = TRUE]
<1>1. /\ th[t] \in CallerRec /\ WellFormed(th[t]) /\ th[t].pc = "idle" /\ th \in [Callers -> CallerRec]
  BY ThreadIs DEF GetDeviceList, DevicesInv, DevicesTypeInv
<1>2. Set(t, r) /\ wild' = wild
  BY DEF GetDeviceList
<1> HIDE DEF m
<1>3. r.pc = "scan" /\ r.list = th[t].list /\ r.disc = <<>> /\ r.seen = {} /\ r.moved = FALSE /\ r.mode = m
  BY <1>1 DEF StartScan, CallerRec
<1> HIDE DEF r
<1>4. th'[t] = r
  BY <1>1, <1>2 DEF Set
<1>5. HeldOf(r) = HeldOf(th[t])
  BY <1>1, <1>3 DEF WellFormed, HeldOf
<1>6. Moves(t, r)
  BY <1>4, GetDeviceListMoves
<1>7. HoldsGood(t)'
  BY <1>4, <1>5, <1>6, HoldsOn
<1>8. WorksGood(t)'
  BY <1>3, <1>4 DEF WorksGood, Working
<1>9. Unmoved(r)
  BY <1>3 DEF Unmoved
<1> QED
  BY <1>2, <1>4, <1>7, <1>8, <1>9 DEF Fine, Clean

\* An entry is read.
LEMMA NextEntryFine ==
  ASSUME DevicesInv, DevicesInv', Clean, NEW t \in Callers, NextEntry(t)
  PROVE  Fine(t)' /\ ~wild'
<1>1. /\ th[t] \in CallerRec /\ WellFormed(th[t]) /\ th[t].pc = "scan" /\ th \in [Callers -> CallerRec] /\ bus \subseteq Addrs
      /\ wild' = wild /\ Unmoved(th[t]) /\ ~wild
  BY ThreadIs DEF NextEntry, DevicesInv, DevicesTypeInv, Clean, Fine
<1>2. th[t].list = <<>> /\ th[t].disc \in Seq(DevIds) /\ th[t].seen \subseteq Addrs
  BY <1>1 DEF WellFormed, CallerRec
<1>3. Moves(t, th'[t])
  BY NextEntryMoves
<1>4. ASSUME NEW a \in bus \ th[t].seen, Set(t, [th[t] EXCEPT !.pc = Linux!AfterEntry(th[t].mode), !.cur = a, !.seen = @ \cup {a}])
      PROVE  Fine(t)'
  <2> DEFINE p == Linux!AfterEntry(th[t].mode)
             r == [th[t] EXCEPT !.pc = p, !.cur = a, !.seen = @ \cup {a}]
  <2>1. p \in {"entry", "look"} /\ (p = "entry" => th[t].mode = "sysfs")
    BY DEF Linux!AfterEntry
  <2> HIDE DEF p
  <2>2. /\ r.pc = p /\ r.list = th[t].list /\ r.disc = th[t].disc /\ r.seen = th[t].seen \cup {a} /\ r.moved = th[t].moved
        /\ r.mode = th[t].mode
    BY <1>1 DEF CallerRec
  <2>3. Set(t, r)
    BY <1>4 DEF p
  <2> HIDE DEF r
  <2>4. th'[t] = r
    BY <1>1, <2>3 DEF Set
  <2>5. HeldOf(r) = HeldOf(th[t])
    BY <2>2 DEF HeldOf
  <2>6. HoldsGood(t)'
    BY <1>3, <2>4, <2>5, HoldsOn
  <2>7. WorksGood(t)'
    BY <2>1, <2>2, <2>4 DEF WorksGood, Working
  <2>8. Unmoved(r)
    BY <1>1, <2>2 DEF Unmoved
  <2> QED
    BY <2>4, <2>6, <2>7, <2>8 DEF Fine
<1>5. ASSUME Set(t, [th[t] EXCEPT !.pc = "listed", !.list = th[t].disc, !.disc = <<>>, !.cur = 0, !.res = "ok"])
      PROVE  Fine(t)'
  <2> DEFINE r == [th[t] EXCEPT !.pc = "listed", !.list = th[t].disc, !.disc = <<>>, !.cur = 0, !.res = "ok"]
  <2>1. r.pc = "listed" /\ r.list = th[t].disc /\ r.disc = <<>>
    BY <1>1 DEF CallerRec
  <2>2. Set(t, r)
    BY <1>5
  <2> HIDE DEF r
  <2>3. th'[t] = r
    BY <1>1, <2>2 DEF Set
  <2>4. HeldOf(r) = HeldOf(th[t])
    <3>1. \A s \in Seq(DevIds) : <<>> \o s = s /\ s \o <<>> = s
      OBVIOUS
    <3> QED
      BY <1>2, <2>1, <3>1 DEF HeldOf
  <2>5. HoldsGood(t)'
    BY <1>3, <2>3, <2>4, HoldsOn
  <2>6. WorksGood(t)' /\ Unmoved(r)
    BY <2>1, <2>3 DEF WorksGood, Working, Unmoved
  <2> QED
    BY <2>3, <2>5, <2>6 DEF Fine
<1>6. Fine(t)'
  BY <1>4, <1>5 DEF NextEntry
<1>7. ~wild'
  BY <1>1
<1> QED
  BY <1>6, <1>7

\* When usbfs takes over, the list has not moved for it yet.
LEMMA ScanEntryFine ==
  ASSUME DevicesInv, DevicesInv', Clean, NEW t \in Callers, ScanEntry(t)
  PROVE  Fine(t)' /\ ~wild'
<1> DEFINE x == StartScan(th[t], "usbfs")
           y == [th[t] EXCEPT !.pc = "look"]
<1>1. /\ th[t] \in CallerRec /\ WellFormed(th[t]) /\ th[t].pc = "entry" /\ th \in [Callers -> CallerRec]
      /\ wild' = wild /\ Unmoved(th[t]) /\ ~wild
  BY ThreadIs DEF ScanEntry, DevicesInv, DevicesTypeInv, Clean, Fine
<1>2. /\ x.pc = "scan" /\ x.list = th[t].list /\ x.disc = th[t].disc /\ x.seen = {} /\ x.moved = FALSE /\ x.mode = "usbfs"
      /\ y.pc = "look" /\ y.list = th[t].list /\ y.disc = th[t].disc /\ y.seen = th[t].seen /\ y.moved = th[t].moved /\ y.mode = th[t].mode
  BY <1>1 DEF CallerRec, StartScan
<1>3. Set(t, IF st'.relate = 0 THEN x ELSE y)
  BY DEF ScanEntry
<1> HIDE DEF x, y
<1>4. PICK r \in {x, y} : Set(t, r)
  BY <1>3
<1>5. th'[t] = r
  BY <1>1, <1>4 DEF Set
<1>6. HeldOf(r) = HeldOf(th[t])
  BY <1>2, <1>4 DEF HeldOf
<1>7. Moves(t, r)
  BY <1>5, ScanEntryMoves
<1>8. HoldsGood(t)'
  BY <1>5, <1>6, <1>7, HoldsOn
<1>9. WorksGood(t)'
  BY <1>2, <1>4, <1>5 DEF WorksGood, Working
<1>10. Unmoved(r)
  BY <1>1, <1>2, <1>4 DEF Unmoved
<1> QED
  BY <1>1, <1>5, <1>8, <1>9, <1>10 DEF Fine

\* A device that is found without a reference is complete, and stays while no
\* other thread of the context lists.
LEMMA LookUpFine ==
  ASSUME DevicesInv, DevicesInv', Clean, NEW t \in Callers, LookUp(t)
  PROVE  Fine(t)' /\ ~wild'
<1> DEFINE known == {d \in DevIds : Exists(d) /\ devs[d].ctx = th[t].ctx /\ devs[d].addr = th[t].cur}
           p == IF onDarwin THEN "init" ELSE "append"
           k == CHOOSE d \in known : TRUE
           x == [th[t] EXCEPT !.pc = "alloc"]
           y == [th[t] EXCEPT !.pc = p, !.dev = k]
<1>1. /\ th[t] \in CallerRec /\ WellFormed(th[t]) /\ th[t].pc = "look" /\ th \in [Callers -> CallerRec]
      /\ wild' = wild /\ devs' = devs /\ Unmoved(th[t]) /\ ~wild
  BY ThreadIs DEF LookUp, DevicesInv, DevicesTypeInv, Clean, Fine
<1>2. Set(t, IF known = {} THEN x ELSE y)
  BY DEF LookUp
<1>3. known # {} => k \in DevIds /\ Exists(k) /\ devs[k].ctx = th[t].ctx
  <2> SUFFICES ASSUME known # {} PROVE k \in known
    OBVIOUS
  <2> QED
    OBVIOUS
<1>4. p \in {"init", "append"} /\ ~th[t].new /\ Scanning(t)
  BY <1>1 DEF WellFormed, Working, Scanning
<1> HIDE DEF known, k, p
<1>5. /\ x.pc = "alloc" /\ x.list = th[t].list /\ x.disc = th[t].disc /\ x.ctx = th[t].ctx /\ x.seen = th[t].seen /\ x.moved = th[t].moved
      /\ x.mode = th[t].mode
      /\ y.pc = p /\ y.list = th[t].list /\ y.disc = th[t].disc /\ y.dev = k /\ y.ctx = th[t].ctx /\ y.seen = th[t].seen
      /\ y.moved = th[t].moved /\ y.mode = th[t].mode
  BY <1>1 DEF CallerRec
<1> DEFINE r == IF known = {} THEN x ELSE y
<1> HIDE DEF x, y
<1>6. th'[t] = r
  BY <1>1, <1>2 DEF Set
<1>7. /\ HeldOf(r) = HeldOf(th[t]) /\ r.ctx = th[t].ctx /\ r.pc \in {"alloc", "init", "append"} /\ r.disc = th[t].disc
      /\ r.seen = th[t].seen /\ r.moved = th[t].moved /\ r.mode = th[t].mode
      /\ r.pc \in Working => known # {} /\ r.dev = k
  BY <1>4, <1>5 DEF HeldOf, Working
<1> HIDE DEF r
<1>8. HoldsGood(t)'
  BY <1>6, <1>7, LookUpMoves, HoldsOn
<1>9. WorksGood(t)'
  <2> SUFFICES ASSUME r.pc \in Working PROVE Exists(k) /\ devs[k].ctx = th[t].ctx /\ devs[k].ready
    BY <1>1, <1>6, <1>7 DEF WorksGood, Exists
  <2> QED
    BY <1>3, <1>4, <1>7, FoundReady
<1>10. Unmoved(r)
  BY <1>1, <1>7 DEF Unmoved
<1> QED
  BY <1>1, <1>6, <1>8, <1>9, <1>10 DEF Fine

\* A new device is of the context of its thread.
LEMMA AllocateFine ==
  ASSUME DevicesInv, DevicesInv', Clean, NEW t \in Callers, Allocate(t)
  PROVE  Fine(t)' /\ ~wild'
<1>1. /\ th[t] \in CallerRec /\ WellFormed(th[t]) /\ th[t].pc = "alloc" /\ th \in [Callers -> CallerRec]
      /\ wild' = wild /\ devs \in [DevIds -> DevRec] /\ Unmoved(th[t]) /\ ~wild
  BY ThreadIs DEF Allocate, DevicesInv, DevicesTypeInv, Clean, Fine
<1>2. PICK d \in DevIds :
        devs' = [devs EXCEPT ![d] = NewDev(th[t].ctx, th[t].cur)] /\ Set(t, [th[t] EXCEPT !.pc = "init", !.dev = d, !.new = TRUE])
  BY DEF Allocate
<1> DEFINE r == [th[t] EXCEPT !.pc = "init", !.dev = d, !.new = TRUE]
<1>3. /\ r.pc = "init" /\ r.list = th[t].list /\ r.disc = th[t].disc /\ r.new = TRUE /\ r.dev = d /\ r.ctx = th[t].ctx
      /\ r.seen = th[t].seen /\ r.moved = th[t].moved /\ r.mode = th[t].mode
  BY <1>1 DEF CallerRec
<1>4. Set(t, r)
  BY <1>2
<1> HIDE DEF r
<1>5. th'[t] = r
  BY <1>1, <1>4 DEF Set
<1>6. HoldsGood(t)'
  <2>1. HeldOf(r) = HeldOf(th[t])
    BY <1>3 DEF HeldOf
  <2> QED
    BY <1>5, <2>1, AllocateMoves, HoldsOn
<1>7. WorksGood(t)'
  <2>1. devs'[d].ref = 1 /\ devs'[d].ctx = th[t].ctx
    BY <1>1, <1>2 DEF NewDev
  <2> QED
    BY <1>3, <1>5, <2>1 DEF WorksGood, Exists
<1>8. Unmoved(r)
  BY <1>1, <1>3 DEF Unmoved
<1> QED
  BY <1>1, <1>5, <1>6, <1>7, <1>8 DEF Fine

\* A failed attempt leaves nothing of the device.
LEMMA FailFine ==
  ASSUME DevicesInv, DevicesInv', Clean, NEW t \in Callers, th[t].pc \in Working, NEW e, e \in {"ok", "IO"} \/ onDarwin,
         NEW answered \in BOOLEAN, Fail(t, LetGo(t), e, answered), UNCHANGED <<host, kernelVars, opener, st, contextVars, hs, past>>
  PROVE  Fine(t)' /\ ~wild'
<1>1. /\ th[t] \in CallerRec /\ WellFormed(th[t]) /\ th \in [Callers -> CallerRec] /\ Unmoved(th[t]) /\ ~wild
  BY ThreadIs DEF DevicesInv, DevicesTypeInv, Clean, Fine
<1>2. Moves(t, th'[t]) /\ th'[t].pc \in {"scan", "listed"} /\ th'[t].list = <<>> /\ th'[t].disc \in {th[t].disc, <<>>}
  BY FailMoves
<1>3. HeldOf(th'[t]) \in {HeldOf(th[t]), <<>>}
  <2>1. <<>> \o <<>> = <<>> /\ th[t].list = <<>>
    BY <1>1 DEF WellFormed, Working
  <2> QED
    BY <1>2, <2>1 DEF HeldOf
<1>4. HoldsGood(t)'
  <2>1. \A d \in ToSet(HeldOf(th'[t])) : d \in ToSet(HeldOf(th[t]))
    BY <1>3 DEF ToSet
  <2> QED
    BY <1>2, <2>1, HoldsOn
<1>5. WorksGood(t)'
  BY <1>2 DEF WorksGood, Working
<1>6. CASE onDarwin
  <2> DEFINE left == [th[t] EXCEPT !.cur = 0, !.dev = 0, !.new = FALSE, !.quiet = @ /\ answered]
             r == [left EXCEPT !.pc = "scan"]
  <2>1. Set(t, r) /\ wild' = wild
    BY <1>6 DEF Fail
  <2>2. r.pc = "scan" /\ r.mode = th[t].mode /\ r.moved = th[t].moved
    BY <1>1 DEF CallerRec
  <2> HIDE DEF r
  <2>3. th'[t] = r
    BY <1>1, <2>1 DEF Set
  <2>4. Unmoved(r)
    BY <1>1, <2>2 DEF Unmoved, Working
  <2>5. ~wild'
    BY <1>1, <2>1
  <2> QED
    BY <1>4, <1>5, <2>3, <2>4, <2>5 DEF Fine
<1>7. CASE ~onDarwin
  <2> DEFINE left == [th[t] EXCEPT !.cur = 0, !.dev = 0, !.new = FALSE, !.quiet = @ /\ answered]
             r == [left EXCEPT !.pc = "listed", !.disc = <<>>, !.res = e]
  <2>1. /\ Set(t, r)
        /\ wild' = (wild \/ (th[t].mode = "usbfs" /\ th[t].moved))
    BY <1>7 DEF Fail
  <2>2. th'[t].pc = "listed"
    <3>1. r.pc = "listed"
      BY <1>1 DEF CallerRec
    <3> HIDE DEF r
    <3> QED
      BY <1>1, <2>1, <3>1 DEF Set
  <2>3. Unmoved(th[t])'
    BY <2>2 DEF Unmoved
  <2>4. ~(th[t].mode = "usbfs" /\ th[t].moved)
    BY <1>1 DEF Unmoved, Working
  <2>5. ~wild'
    BY <1>1, <2>1, <2>4
  <2> QED
    BY <1>4, <1>5, <2>3, <2>5 DEF Fine
<1> QED
  BY <1>6, <1>7

\* A thread that works on its device
LEMMA WorkFine ==
  ASSUME DevicesInv, DevicesInv', Clean, NEW t \in Callers, th[t].pc \in Working, NEW p \in {"sanitize", "append"}, NEW y \in DevRec,
         Same(devs[th[t].dev], y), p = "append" => y.ready,
         devs' = [devs EXCEPT ![th[t].dev] = y], Set(t, [th[t] EXCEPT !.pc = p]), wild' \in BOOLEAN,
         UNCHANGED <<host, kernelVars, opener, st, contextVars, hs, past>>
  PROVE  Fine(t)'
<1>1. /\ th[t] \in CallerRec /\ WellFormed(th[t]) /\ th \in [Callers -> CallerRec] /\ Unmoved(th[t]) /\ WorksGood(t)
  BY ThreadIs DEF DevicesInv, DevicesTypeInv, Clean, Fine
<1>2. /\ Moves(t, th'[t])
      /\ th'[t].pc = p /\ th'[t].list = th[t].list /\ th'[t].disc = th[t].disc /\ th'[t].new = th[t].new /\ th'[t].dev = th[t].dev
      /\ th'[t].ctx = th[t].ctx /\ devs'[th[t].dev] = y
  BY WorkMoves
<1>3. th'[t].seen = th[t].seen /\ th'[t].mode = th[t].mode /\ th'[t].moved = th[t].moved
  BY <1>1 DEF Set, CallerRec
<1>4. HoldsGood(t)'
  <2>1. HeldOf(th'[t]) = HeldOf(th[t])
    BY <1>2 DEF HeldOf
  <2> QED
    BY <1>2, <2>1, HoldsOn
<1>5. WorksGood(t)'
  <2>1. y.ref = devs[th[t].dev].ref /\ y.ctx = devs[th[t].dev].ctx /\ (devs[th[t].dev].ready => y.ready)
    BY DEF Same
  <2>2. /\ devs[th[t].dev].ref > 0 /\ devs[th[t].dev].ctx = th[t].ctx
        /\ ~th[t].new => devs[th[t].dev].ready
    BY <1>1 DEF WorksGood, Exists
  <2>3. y.ref > 0 /\ y.ctx = th[t].ctx /\ (p = "append" \/ ~th[t].new => y.ready)
    BY <2>1, <2>2
  <2> QED
    BY <1>2, <2>3 DEF WorksGood, Exists
<1>6. Unmoved(th[t])'
  BY <1>1, <1>2, <1>3 DEF Unmoved, Working
<1> QED
  BY <1>4, <1>5, <1>6 DEF Fine

\* The backend works on a device that exists.
LEMMA InitializeDeviceFine ==
  ASSUME DevicesInv, DevicesInv', Clean, NEW t \in Callers, InitializeDevice(t)
  PROVE  Fine(t)' /\ ~wild'
<1> DEFINE d == th[t].dev
           outcomes == IF onDarwin THEN Darwin!Initialize(devs[d], Here(d), conf[devs[d].addr])
                       ELSE Linux!Initialize(st, devs[d], th[t].mode, Here(d), conf[devs[d].addr])
           none == \A o \in outcomes : o.r # "ok"
<1>1. th[t].pc \in Working /\ UNCHANGED <<host, kernelVars, opener, st, contextVars, hs, past>>
  BY DEF InitializeDevice, Working
<1>2. st \in Linux!Statics /\ ~wild /\ WorksGood(t)
  BY DEF DevicesInv, DevicesTypeInv, Clean, Fine
<1>3. d \in DevIds /\ Exists(d)
  BY <1>1, <1>2, LetGoIs DEF WorksGood
<1>4. ASSUME NEW i \in outcomes PROVE (i.r = "ok" => i.d \in DevRec /\ Same(devs[d], i.d)) /\ (i.r \in {"ok", "IO"} \/ onDarwin)
  <2>1. Here(d) \in BOOLEAN /\ (Here(d) => conf[devs[d].addr] \in Configs) /\ devs[d] \in DevRec
    BY <1>3, ConfigurationKnown
  <2> HIDE DEF d
  <2>2. CASE onDarwin
    BY <1>4, <2>1, <2>2, DarwinInitializes
  <2>3. CASE ~onDarwin
    BY <1>2, <1>4, <2>1, <2>3, LinuxInitializes
  <2> QED
    BY <2>2, <2>3
<1>5. PICK i \in outcomes :
        IF i.r = "ok" THEN /\ devs' = [devs EXCEPT ![d] = i.d] /\ Set(t, [th[t] EXCEPT !.pc = "sanitize"])
                           /\ wild' = (wild \/ ~Exists(d))
        ELSE Fail(t, LetGo(t), i.r, none)
  BY DEF InitializeDevice
<1>6. none \in BOOLEAN /\ (i.r = "ok" => i.d \in DevRec /\ Same(devs[d], i.d)) /\ (i.r \in {"ok", "IO"} \/ onDarwin)
  BY <1>4
<1> HIDE DEF outcomes, none
<1>7. CASE i.r = "ok"
  <2>1. wild' = FALSE
    BY <1>2, <1>3, <1>5, <1>7
  <2>2. Fine(t)'
    BY <1>1, <1>5, <1>6, <1>7, <2>1, WorkFine
  <2> QED
    BY <2>1, <2>2
<1>8. CASE i.r # "ok"
  BY <1>1, <1>5, <1>6, <1>8, FailFine
<1> QED
  BY <1>7, <1>8

\* A device whose descriptors can be read is complete.
LEMMA SanitizeFine ==
  ASSUME DevicesInv, DevicesInv', Clean, NEW t \in Callers, Sanitize(t)
  PROVE  Fine(t)' /\ ~wild'
<1> DEFINE d == th[t].dev
           y == [devs[d] EXCEPT !.ready = TRUE]
<1>1. th[t].pc \in Working /\ UNCHANGED <<host, kernelVars, opener, st, contextVars, hs, past>>
  BY DEF Sanitize, Working
<1>2. devs \in [DevIds -> DevRec] /\ ~wild /\ d \in DevIds
  BY <1>1, LetGoIs DEF DevicesInv, DevicesTypeInv, Clean
<1>3. devs[d] \in DevRec
  BY <1>2
<1>4. y \in DevRec /\ Same(devs[d], y) /\ y.ready
  BY <1>3 DEF DevRec, Same
<1>5. \/ devs' = [devs EXCEPT ![d].ready = TRUE] /\ Set(t, [th[t] EXCEPT !.pc = "append"]) /\ UNCHANGED wild
      \/ Fail(t, LetGo(t), "IO", TRUE)
  BY DEF Sanitize
<1>6. CASE devs' = [devs EXCEPT ![d].ready = TRUE] /\ Set(t, [th[t] EXCEPT !.pc = "append"]) /\ UNCHANGED wild
  <2>1. devs' = [devs EXCEPT ![d] = y]
    BY <1>6
  <2>2. wild' = FALSE
    <3>1. wild \in BOOLEAN
      BY DEF DevicesInv, DevicesTypeInv
    <3> QED
      BY <1>2, <1>6, <3>1
  <2> HIDE DEF y
  <2>3. Fine(t)'
    BY <1>1, <1>4, <1>6, <2>1, <2>2, WorkFine
  <2> QED
    BY <2>2, <2>3
<1>7. CASE Fail(t, LetGo(t), "IO", TRUE)
  BY <1>1, <1>7, FailFine
<1> QED
  BY <1>5, <1>6, <1>7

\* A list that moves while usbfs goes on with it is one that outgrew its memory.
LEMMA AppendDeviceFine ==
  ASSUME DevicesInv, DevicesInv', Clean, NEW t \in Callers, AppendDevice(t), past' = {}
  PROVE  Fine(t)' /\ ~wild'
<1> DEFINE d == th[t].dev
           r == th'[t]
<1>1. /\ Moves(t, r) /\ r.pc = "scan" /\ r.list = <<>> /\ r.new = FALSE /\ r.disc = Append(th[t].disc, d)
      /\ r.seen = th[t].seen /\ r.mode = th[t].mode
      /\ r.moved = (th[t].moved \/ (th[t].disc # <<>> /\ Len(th[t].disc) % ListStep = 0))
  BY AppendDeviceMoves
<1>2. /\ th[t] \in CallerRec /\ WellFormed(th[t]) /\ th[t].pc = "append" /\ Unmoved(th[t]) /\ WorksGood(t) /\ ~wild
      /\ wild' = (wild \/ ~Exists(d))
  BY ThreadIs DEF Clean, Fine, AppendDevice
<1>3. Exists(d) /\ devs[d].ctx = th[t].ctx /\ devs[d].ready /\ d \in DevIds
  BY <1>2, HeldExist DEF WorksGood, Working
<1>4. th[t].list = <<>> /\ th[t].disc \in Seq(DevIds) /\ HeldOf(th[t]) = th[t].disc
  BY <1>2, ThreadIs DEF WellFormed, CallerRec
<1>5. ~wild'
  BY <1>2, <1>3
<1>6. ToSet(HeldOf(r)) \subseteq ToSet(HeldOf(th[t])) \cup {d}
  <2>1. HeldOf(r) = Append(th[t].disc, d)
    <3>1. Append(th[t].disc, d) \in Seq(DevIds)
      BY <1>3, <1>4
    <3>2. <<>> \o Append(th[t].disc, d) = Append(th[t].disc, d)
      BY <3>1
    <3> QED
      BY <1>1, <3>2 DEF HeldOf
  <2>2. ASSUME NEW x \in ToSet(Append(th[t].disc, d)) PROVE x \in ToSet(th[t].disc) \cup {d}
    <3> DEFINE a == Append(th[t].disc, d)
               n == Len(th[t].disc) + 1
    <3>1. /\ Len(th[t].disc) \in Nat /\ DOMAIN th[t].disc = 1 .. Len(th[t].disc) /\ DOMAIN a = 1 .. n /\ a[n] = d
          /\ \A k \in 1 .. Len(th[t].disc) : a[k] = th[t].disc[k]
      BY <1>3, <1>4
    <3>2. PICK k \in DOMAIN a : x = a[k]
      BY DEF ToSet
    <3> HIDE DEF a
    <3>3. k = n \/ k \in 1 .. Len(th[t].disc)
      BY <3>1, <3>2
    <3> HIDE DEF n
    <3>4. CASE k = n
      BY <3>1, <3>2, <3>4
    <3>5. CASE k \in 1 .. Len(th[t].disc)
      BY <3>1, <3>2, <3>5 DEF ToSet
    <3> QED
      BY <3>3, <3>4, <3>5
  <2> QED
    BY <1>4, <2>1, <2>2
<1>7. HoldsGood(t)'
  <2>1. devs'[d].ref > 0
    <3>1. Attached'
      BY AllAttached, PTL
    <3>2. d \in ToSet(HeldOf(r))
      <4>1. HeldOf(r) = r.disc /\ r.disc = Append(th[t].disc, d)
        <5>1. Append(th[t].disc, d) \in Seq(DevIds)
          BY <1>3, <1>4
        <5>2. <<>> \o Append(th[t].disc, d) = Append(th[t].disc, d)
          BY <5>1
        <5> QED
          BY <1>1, <5>2 DEF HeldOf
      <4>2. Len(th[t].disc) + 1 \in DOMAIN Append(th[t].disc, d) /\ Append(th[t].disc, d)[Len(th[t].disc) + 1] = d
        BY <1>3, <1>4
      <4> QED
        BY <4>1, <4>2 DEF ToSet
    <3> QED
      BY <3>1, <3>2 DEF Attached, Held, HeldOf, Exists
  <2>2. devs'[d].ready /\ devs'[d].ctx = th[t].ctx
    BY <1>1, <1>3, <2>1 DEF Moves, Keeps, Lives, Exists
  <2> HIDE DEF r, d
  <2>3. \A e \in ToSet(HeldOf(r)) : e \in ToSet(HeldOf(th[t])) \/ (devs'[e].ready /\ devs'[e].ctx = th[t].ctx)
    BY <1>6, <2>2
  <2> QED
    BY <1>1, <2>3, HoldsOn DEF r
<1>8. WorksGood(t)'
  BY <1>1 DEF WorksGood, Working
<1>9. Unmoved(r)
  <2>1. ~(th[t].mode = "usbfs" /\ Append1(t, th[t]).moved)
    BY DEF AppendDevice, Notes
  <2>2. Append1(t, th[t]).moved = (th[t].moved \/ (th[t].disc # <<>> /\ Len(th[t].disc) % ListStep = 0))
    BY <1>2 DEF Append1, CallerRec
  <2> QED
    BY <1>1, <2>1, <2>2 DEF Unmoved
<1> QED
  BY <1>5, <1>7, <1>8, <1>9 DEF Fine

\* The list that a caller gets is what was discovered.
LEMMA ReturnFine ==
  ASSUME DevicesInv, DevicesInv', Clean, NEW t \in Callers, Return(t)
  PROVE  Fine(t)' /\ ~wild'
<1> DEFINE r == [NoCaller EXCEPT !.pc = "idle", !.ctx = th[t].ctx, !.list = th[t].list]
<1>1. /\ th[t] \in CallerRec /\ WellFormed(th[t]) /\ th[t].pc = "listed" /\ th \in [Callers -> CallerRec]
      /\ wild' = wild /\ Set(t, r) /\ ~wild
  BY ThreadIs DEF Return, DevicesInv, DevicesTypeInv, Clean
<1>2. r.pc = "idle" /\ r.list = th[t].list /\ r.disc = <<>>
  BY NoCallerIs DEF CallerRec
<1> HIDE DEF r
<1>3. th'[t] = r
  BY <1>1 DEF Set
<1>4. HeldOf(r) = HeldOf(th[t])
  BY <1>1, <1>2 DEF WellFormed, HeldOf
<1>5. HoldsGood(t)'
  BY <1>3, <1>4, ReturnMoves, HoldsOn
<1>6. WorksGood(t)' /\ Unmoved(r)
  BY <1>2, <1>3 DEF WorksGood, Working, Unmoved
<1>7. ~wild'
  BY <1>1
<1> QED
  BY <1>3, <1>5, <1>6, <1>7 DEF Fine

\* The devices of a list exist until it is freed.
LEMMA FreeDeviceListFine ==
  ASSUME DevicesInv, DevicesInv', Clean, NEW t \in Callers, FreeDeviceList(t)
  PROVE  Fine(t)' /\ ~wild'
<1>1. /\ Moves(t, th'[t]) /\ \A i \in DOMAIN th[t].list : Exists(th[t].list[i])
      /\ th'[t].list = <<>> /\ th'[t].disc = <<>> /\ th'[t].pc = "idle"
  BY FreeDeviceListMoves
<1>2. wild' = (wild \/ \E i \in DOMAIN th[t].list : ~Exists(th[t].list[i])) /\ ~wild
  BY DEF FreeDeviceList, Clean
<1>3. ToSet(HeldOf(th'[t])) = {}
  <2>1. <<>> \o <<>> = <<>>
    OBVIOUS
  <2> QED
    BY <1>1, <2>1 DEF HeldOf, ToSet
<1>4. HoldsGood(t)'
  BY <1>1, <1>3, HoldsOn
<1>5. WorksGood(t)' /\ Unmoved(th[t])'
  BY <1>1 DEF WorksGood, Working, Unmoved
<1>6. ~wild'
  BY <1>1, <1>2
<1> QED
  BY <1>4, <1>5, <1>6 DEF Fine

\* A thread that lists does so alone, and gives the list it has to its caller
\* without a change of a device.
LEMMA ListsAlone ==
  ASSUME DevicesInv, NEW t \in Callers, ListingStep(t), past' = {}
  PROVE  Scanning(t) \/ Alone(t) \/ (devs' = devs /\ ~Scanning(t)')
<1>1. CASE GetDeviceList(t) \/ FreeDeviceList(t)
  BY <1>1 DEF GetDeviceList, FreeDeviceList, Notes
<1>2. CASE \/ NextEntry(t) \/ ScanEntry(t) \/ LookUp(t) \/ Allocate(t)
           \/ InitializeDevice(t) \/ Sanitize(t) \/ AppendDevice(t)
  <2>1. th[t].pc \in {"scan", "entry", "look", "alloc", "init", "sanitize", "append"}
    BY <1>2 DEF NextEntry, ScanEntry, LookUp, Allocate, InitializeDevice, Sanitize, AppendDevice
  <2> QED
    BY <2>1 DEF Scanning
<1>3. CASE Return(t)
  <2> DEFINE r == [NoCaller EXCEPT !.pc = "idle", !.ctx = th[t].ctx, !.list = th[t].list]
  <2>1. devs' = devs /\ Set(t, r) /\ th \in [Callers -> CallerRec]
    BY <1>3 DEF Return, DevicesInv, DevicesTypeInv
  <2>2. r.pc = "idle"
    BY NoCallerIs DEF CallerRec
  <2> HIDE DEF r
  <2>3. th'[t] = r
    BY <2>1 DEF Set
  <2> QED
    BY <2>1, <2>2, <2>3 DEF Scanning
<1> QED
  BY <1>1, <1>2, <1>3 DEF ListingStep

\* A step of a listing leaves everyone with complete devices that exist.
LEMMA ListingFine ==
  ASSUME DevicesInv, DevicesInv', Clean, NEW t \in Callers, ListingStep(t), past' = {}
  PROVE  Clean'
<1>1. Fine(t)' /\ ~wild'
  <2>1. CASE GetDeviceList(t)
    BY <2>1, GetDeviceListFine
  <2>2. CASE NextEntry(t)
    BY <2>2, NextEntryFine
  <2>3. CASE ScanEntry(t)
    BY <2>3, ScanEntryFine
  <2>4. CASE LookUp(t)
    BY <2>4, LookUpFine
  <2>5. CASE Allocate(t)
    BY <2>5, AllocateFine
  <2>6. CASE InitializeDevice(t)
    BY <2>6, InitializeDeviceFine
  <2>7. CASE Sanitize(t)
    BY <2>7, SanitizeFine
  <2>8. CASE AppendDevice(t)
    BY <2>8, AppendDeviceFine
  <2>9. CASE Return(t)
    BY <2>9, ReturnFine
  <2>10. CASE FreeDeviceList(t)
    BY <2>10, FreeDeviceListFine
  <2> QED
    BY <2>1, <2>2, <2>3, <2>4, <2>5, <2>6, <2>7, <2>8, <2>9, <2>10 DEF ListingStep
<1> DEFINE r == th'[t]
<1>2. Moves(t, r)
  BY ListingMoves
<1> HIDE DEF r
<1>3. /\ r.ctx = th[t].ctx /\ Set(t, r) /\ hs' = hs /\ Lives(devs, devs')
  BY <1>2 DEF Moves, Keeps
<1>4. \A u \in Callers \ {t} : th'[u] = th[u]
  <2>1. th \in [Callers -> CallerRec]
    BY DEF DevicesInv, DevicesTypeInv
  <2> QED
    BY <1>3, <2>1 DEF Set
<1>5. Scanning(t) \/ Alone(t) \/ (devs' = devs /\ ~Scanning(t)')
  BY ListsAlone
<1>6. \A d \in DevIds : Exists(d) => devs'[d].ref > 0 \/ (devs[d].ctx = th[t].ctx /\ (Scanning(t) \/ Alone(t)))
  <2> SUFFICES ASSUME NEW d \in DevIds, Exists(d), ~(devs'[d].ref > 0)
               PROVE  devs[d].ctx = th[t].ctx /\ (Scanning(t) \/ Alone(t))
    OBVIOUS
  <2>1. devs[d].ctx = th[t].ctx
    BY <1>2, MovesLoses
  <2>2. devs' # devs
    BY DEF Exists
  <2> QED
    BY <1>5, <2>1, <2>2
<1>7. \A u \in Callers \ {t} : Fine(u)'
  BY <1>3, <1>4, <1>6, OthersFine
<1>8. OneLists'
  BY <1>3, <1>4, <1>5, OneListsStays DEF r
<1> QED
  BY <1>1, <1>7, <1>8 DEF Clean

\* A thread that opens and closes devices
LEMMA IdleFine ==
  ASSUME NEW t \in Callers, th[t].pc = "idle", th' = th
  PROVE  WorksGood(t)' /\ Unmoved(th[t])' /\ Held(t)' = Held(t)
<1>1. th'[t].pc = "idle"
  OBVIOUS
<1>2. WorksGood(t)'
  BY <1>1 DEF WorksGood, Working
<1>3. Unmoved(th[t])'
  BY <1>1 DEF Unmoved
<1> QED
  BY <1>2, <1>3 DEF Held

\* A handle has a device of its thread's list.
LEMMA OpenDeviceFine ==
  ASSUME DevicesInv, DevicesInv', Clean, NEW t \in Callers, NEW s \in Slots, OpenDevice(t, s)
  PROVE  Clean'
<1>1. /\ Lives(devs, devs') /\ UNCHANGED <<host, st, contextVars, th, wild, past>> /\ th[t].pc = "idle"
      /\ \A d \in DevIds : Exists(d) => Exists(d)'
      /\ \/ hs' = hs
         \/ \E i \in DOMAIN th[t].list : \E x, y, z : hs' = [hs EXCEPT ![<<t, s>>] = [dev |-> th[t].list[i], claimed |-> x, is_open |-> y, gone |-> z]]
  BY OpenDeviceKeeps
<1>2. hs \in [HandleIds -> HandleRec] /\ Fine(t) /\ OneLists /\ ~wild
  BY DEF DevicesInv, DevicesTypeInv, Clean
<1>3. PICK i : \/ hs' = hs
               \/ i \in DOMAIN th[t].list /\ hs'[<<t, s>>].dev = th[t].list[i]
                  /\ \A h \in HandleIds \ {<<t, s>>} : hs'[h] = hs[h]
  <2>1. ASSUME NEW i \in DOMAIN th[t].list, NEW x, NEW y, NEW z,
               hs' = [hs EXCEPT ![<<t, s>>] = [dev |-> th[t].list[i], claimed |-> x, is_open |-> y, gone |-> z]]
        PROVE  hs'[<<t, s>>].dev = th[t].list[i] /\ \A h \in HandleIds \ {<<t, s>>} : hs'[h] = hs[h]
    <3> DEFINE r == [dev |-> th[t].list[i], claimed |-> x, is_open |-> y, gone |-> z]
               h == <<t, s>>
    <3>1. r.dev = th[t].list[i]
      OBVIOUS
    <3>2. h \in HandleIds /\ hs' = [hs EXCEPT ![h] = r]
      BY <2>1 DEF HandleIds
    <3> HIDE DEF r, h
    <3>3. hs'[h] = r /\ \A g \in HandleIds \ {h} : hs'[g] = hs[g]
      BY <1>2, <3>2
    <3> QED
      BY <3>1, <3>3 DEF h
  <2>2. CASE hs' = hs
    BY <2>2
  <2>3. CASE ~(hs' = hs)
    <3>1. PICK i \in DOMAIN th[t].list : \E x, y, z :
            hs' = [hs EXCEPT ![<<t, s>>] = [dev |-> th[t].list[i], claimed |-> x, is_open |-> y, gone |-> z]]
      BY <1>1, <2>3
    <3>2. hs'[<<t, s>>].dev = th[t].list[i] /\ \A h \in HandleIds \ {<<t, s>>} : hs'[h] = hs[h]
      BY <2>1, <3>1
    <3> QED
      BY <3>2
  <2> QED
    BY <2>2, <2>3
<1>4. \A u \in Callers \ {t} : \A v \in Slots : hs'[<<u, v>>].dev = hs[<<u, v>>].dev
  BY <1>3 DEF HandleIds
<1>5. \A d \in DevIds : Exists(d) => devs'[d].ref > 0
  BY <1>1 DEF Exists
<1>6. \A u \in Callers \ {t} : Fine(u)'
  BY <1>1, <1>4, <1>5, OthersFine
<1>7. ASSUME NEW d \in DevIds, Exists(d), Good(d, t) PROVE devs'[d].ready /\ devs'[d].ctx = th'[t].ctx
  BY <1>1, <1>5, <1>7 DEF Good, Lives, Exists
<1>8. Fine(t)'
  <2>1. WorksGood(t)' /\ Unmoved(th[t])' /\ Held(t)' = Held(t)
    BY <1>1, IdleFine
  <2>2. /\ \A d \in ToSet(Held(t)) : d \in DevIds /\ Exists(d)
        /\ \A v \in Slots : hs[<<t, v>>].dev # 0 => hs[<<t, v>>].dev \in DevIds /\ Exists(hs[<<t, v>>].dev)
    BY HeldExist
  <2>3. /\ \A d \in ToSet(Held(t)) : Good(d, t)
        /\ \A v \in Slots : hs[<<t, v>>].dev # 0 => Good(hs[<<t, v>>].dev, t)
    BY <1>2 DEF Fine, HoldsGood
  <2>4. \A d \in ToSet(Held(t)) : devs'[d].ready /\ devs'[d].ctx = th'[t].ctx
    BY <1>7, <2>2, <2>3
  <2>5. \A v \in Slots : hs[<<t, v>>].dev # 0 => devs'[hs[<<t, v>>].dev].ready /\ devs'[hs[<<t, v>>].dev].ctx = th'[t].ctx
    BY <1>7, <2>2, <2>3
  <2>6. \A v \in Slots : \/ hs'[<<t, v>>].dev = hs[<<t, v>>].dev
                         \/ hs'[<<t, v>>].dev \in ToSet(Held(t))
    <3>1. i \in DOMAIN th[t].list => th[t].list[i] \in ToSet(Held(t))
      <4>1. th[t].disc = <<>> /\ HeldOf(th[t]) = th[t].list
        <5>1. WellFormed(th[t]) /\ (th[t].disc = <<>> => HeldOf(th[t]) = th[t].list)
          BY ThreadIs
        <5> QED
          BY <1>1, <5>1 DEF WellFormed
      <4> QED
        BY <4>1 DEF Held, HeldOf, ToSet
    <3>2. ASSUME NEW v \in Slots, i \in DOMAIN th[t].list, hs'[<<t, s>>].dev = th[t].list[i],
                 \A h \in HandleIds \ {<<t, s>>} : hs'[h] = hs[h]
          PROVE  hs'[<<t, v>>].dev = hs[<<t, v>>].dev \/ hs'[<<t, v>>].dev \in ToSet(Held(t))
      <4>1. CASE v = s
        BY <3>1, <3>2, <4>1
      <4>2. CASE v # s
        <5>1. <<t, v>> \in HandleIds \ {<<t, s>>}
          BY <4>2 DEF HandleIds
        <5> QED
          BY <3>2, <5>1
      <4> QED
        BY <4>1, <4>2
    <3> QED
      BY <1>3, <3>2
  <2>7. HoldsGood(t)'
    <3>1. \A v \in Slots : hs'[<<t, v>>].dev # 0 => devs'[hs'[<<t, v>>].dev].ready /\ devs'[hs'[<<t, v>>].dev].ctx = th'[t].ctx
      BY <2>4, <2>5, <2>6
    <3> QED
      BY <2>1, <2>4, <3>1 DEF HoldsGood, Good
  <2> QED
    BY <2>1, <2>7 DEF Fine
<1>9. OneLists'
  BY <1>1, <1>2 DEF OneLists, Scanning
<1> QED
  BY <1>1, <1>2, <1>6, <1>8, <1>9 DEF Clean

\* The last reference to a device goes only while nobody else of its context
\* looks devices up.
LEMMA CloseHandleFine ==
  ASSUME DevicesInv, DevicesInv', Clean, NEW t \in Callers, NEW s \in Slots, CloseHandle(t, s), past' = {}
  PROVE  Clean'
<1> DEFINE h == <<t, s>>
           x == hs[h].dev
<1>1. /\ Lives(devs, devs') /\ UNCHANGED <<host, st, contextVars, th, wild>> /\ th[t].pc = "idle" /\ Alone(t)
      /\ h \in HandleIds /\ x \in DevIds /\ hs' = [hs EXCEPT ![h] = NoHandle]
      /\ \A e \in DevIds \ {x} : devs'[e] = devs[e]
  BY CloseHandleKeeps
<1>2. hs \in [HandleIds -> HandleRec] /\ Fine(t) /\ OneLists /\ ~wild
  BY DEF DevicesInv, DevicesTypeInv, Clean
<1>3. x # 0 /\ devs[x].ctx = th[t].ctx
  <2>1. x # 0
    BY <1>1, DeviceNumbers
  <2> QED
    BY <1>2, <2>1 DEF Fine, HoldsGood, Good
<1>4. hs'[h].dev = 0 /\ \A g \in HandleIds \ {h} : hs'[g] = hs[g]
  <2>1. NoHandle.dev = 0
    BY DEF NoHandle
  <2> HIDE DEF h, x
  <2> QED
    BY <1>1, <1>2, <2>1
<1>5. /\ \A u \in Callers \ {t} : \A v \in Slots : hs'[<<u, v>>].dev = hs[<<u, v>>].dev
      /\ \A v \in Slots : hs'[<<t, v>>].dev \in {0, hs[<<t, v>>].dev}
  BY <1>4 DEF HandleIds
<1> HIDE DEF h, x
<1>6. \A d \in DevIds : Exists(d) => devs'[d].ref > 0 \/ (devs[d].ctx = th[t].ctx /\ (Scanning(t) \/ Alone(t)))
  BY <1>1, <1>3 DEF Exists
<1>7. \A u \in Callers \ {t} : Fine(u)'
  BY <1>1, <1>5, <1>6, OthersFine
<1>8. Fine(t)'
  <2>1. WorksGood(t)' /\ Unmoved(th[t])' /\ Held(t)' = Held(t)
    BY <1>1, IdleFine
  <2>2. /\ \A d \in ToSet(Held(t)) : d \in DevIds /\ Exists(d)
        /\ \A v \in Slots : hs[<<t, v>>].dev # 0 => hs[<<t, v>>].dev \in DevIds /\ Exists(hs[<<t, v>>].dev)
    BY HeldExist
  <2>3. /\ \A d \in ToSet(Held(t)) : Good(d, t)
        /\ \A v \in Slots : hs[<<t, v>>].dev # 0 => Good(hs[<<t, v>>].dev, t)
    BY <1>2 DEF Fine, HoldsGood
  <2>4. Attached'
    BY AllAttached, PTL
  <2>5. /\ \A d \in ToSet(Held(t)) : devs'[d].ref > 0
        /\ \A v \in Slots : hs'[<<t, v>>].dev # 0 => devs'[hs'[<<t, v>>].dev].ref > 0
    BY <2>1, <2>4 DEF Attached, Exists
  <2>6. ASSUME NEW d \in DevIds, Exists(d), Good(d, t), devs'[d].ref > 0
        PROVE  devs'[d].ready /\ devs'[d].ctx = th'[t].ctx
    BY <1>1, <2>6 DEF Good, Lives, Exists
  <2>7. \A d \in ToSet(Held(t)) : devs'[d].ready /\ devs'[d].ctx = th'[t].ctx
    BY <2>2, <2>3, <2>5, <2>6
  <2>8. \A v \in Slots : hs'[<<t, v>>].dev # 0 => devs'[hs'[<<t, v>>].dev].ready /\ devs'[hs'[<<t, v>>].dev].ctx = th'[t].ctx
    BY <1>5, <2>2, <2>3, <2>5, <2>6
  <2>9. HoldsGood(t)'
    BY <2>1, <2>7, <2>8 DEF HoldsGood, Good
  <2> QED
    BY <2>1, <2>9 DEF Fine
<1>9. OneLists'
  BY <1>1, <1>2 DEF OneLists, Scanning
<1> QED
  BY <1>1, <1>2, <1>7, <1>8, <1>9 DEF Clean

\* What is calm makes nothing stale.
LEMMA CalmFine ==
  ASSUME DevicesInv, DevicesInv', Clean, RunsAlive, Calm
  PROVE  Clean'
<1>1. /\ Lives(devs, devs') /\ (\A d \in DevIds : Exists(d) => devs'[d].ref > 0) /\ (\A h \in HandleIds : hs'[h].dev = hs[h].dev)
      /\ (\A t \in Callers : th'[t] \in {th[t], [th[t] EXCEPT !.quiet = FALSE]}) /\ wild' = wild
      /\ ~wild /\ OneLists /\ \A t \in Callers : Fine(t)
  BY DEF Calm, Clean, Orphaned, RunsAlive
<1>2. ASSUME NEW t \in Callers
      PROVE  /\ th'[t].pc = th[t].pc /\ th'[t].ctx = th[t].ctx /\ th'[t].list = th[t].list /\ th'[t].disc = th[t].disc /\ th'[t].seen = th[t].seen
             /\ th'[t].new = th[t].new /\ th'[t].dev = th[t].dev /\ th'[t].mode = th[t].mode /\ th'[t].moved = th[t].moved
  <2>1. th[t] \in CallerRec /\ th'[t] \in {th[t], [th[t] EXCEPT !.quiet = FALSE]}
    BY <1>1, ThreadIs
  <2> QED
    BY <2>1 DEF CallerRec
<1>3. ASSUME NEW t \in Callers PROVE Fine(t)'
  <2>1. \A s \in Slots : hs'[<<t, s>>].dev = hs[<<t, s>>].dev
    BY <1>1 DEF HandleIds
  <2>2. ASSUME th[t].pc \in Working, ~th[t].new PROVE devs'[th[t].dev].ref > 0
    <3>1. th[t].dev \in DevIds
      BY <2>2, HeldExist
    <3>2. Exists(th[t].dev)
      BY <1>1, <2>2 DEF Fine, WorksGood
    <3> QED
      BY <1>1, <3>1, <3>2
  <2>3. Fine(t)
    BY <1>1
  <2> QED
    BY <1>1, <1>2, <2>1, <2>2, <2>3, StaysFine
<1>4. OneLists'
  BY <1>1, <1>2 DEF OneLists, Scanning
<1> QED
  BY <1>1, <1>3, <1>4 DEF Clean

\* At the start nobody has anything.
LEMMA InitStale == DevicesInit => StaleInv
<1> SUFFICES ASSUME DevicesInit PROVE StaleInv
  OBVIOUS
<1>1. /\ wild = FALSE /\ RunsAlive /\ \A t \in Callers : th[t] = NoCaller
      /\ \A t \in Callers, s \in Slots : hs[<<t, s>>].dev = 0
  BY DEF DevicesInit, NoHandle, HandleIds, RunsAlive
<1>2. \A t \in Callers : th[t].pc = "out" /\ Held(t) = <<>>
  BY <1>1, NoCallerIs DEF Held, HeldOf
<1>3. \A t \in Callers : ~Scanning(t)
  BY <1>2 DEF Scanning
<1>4. ASSUME NEW t \in Callers PROVE Fine(t)
  <2>1. HoldsGood(t)
    BY <1>1, <1>2 DEF HoldsGood, ToSet
  <2>2. WorksGood(t) /\ Unmoved(th[t])
    BY <1>2 DEF WorksGood, Working, Unmoved
  <2> QED
    BY <2>1, <2>2 DEF Fine
<1>5. OneLists
  BY <1>3 DEF OneLists
<1> QED
  BY <1>1, <1>4, <1>5 DEF StaleInv, Clean

\* What threads hold is complete and of their contexts, which exist.
LEMMA FineReady ==
  ASSUME DevicesInv, Clean
  PROVE  NeverWild /\ ListedReady
<1>1. NeverWild
  BY DEF Clean, NeverWild
<1>2. ASSUME NEW t \in Callers
      PROVE  /\ \A d \in (ToSet(th[t].list) \cup {hs[<<t, s>>].dev : s \in Slots}) \ {0} :
                  devs[d].ready /\ devs[d].ctx = th[t].ctx
             /\ th[t].pc \notin {"out", "starting"} => th[t].ctx \in alive
  <2>1. HoldsGood(t)
    BY DEF Clean, Fine
  <2>2. \A d \in ToSet(th[t].list) : d \in ToSet(Held(t))
    <3>1. WellFormed(th[t]) /\ (th[t].disc = <<>> => HeldOf(th[t]) = th[t].list)
      BY ThreadIs
    <3>2. CASE th[t].pc \in {"idle", "listed"}
      BY <3>1, <3>2 DEF WellFormed, Held, HeldOf
    <3>3. CASE th[t].pc \notin {"idle", "listed"}
      <4>1. ToSet(th[t].list) = {}
        BY <3>1, <3>3 DEF WellFormed, ToSet
      <4> QED
        BY <4>1
    <3> QED
      BY <3>2, <3>3
  <2>3. \A d \in ToSet(th[t].list) : devs[d].ready /\ devs[d].ctx = th[t].ctx
    BY <2>1, <2>2 DEF HoldsGood, Good
  <2>4. \A s \in Slots : hs[<<t, s>>].dev # 0 => devs[hs[<<t, s>>].dev].ready /\ devs[hs[<<t, s>>].dev].ctx = th[t].ctx
    BY <2>1 DEF HoldsGood, Good
  <2>5. th[t].pc \notin {"out", "starting"} => th[t].ctx \in alive
    BY ContextUsers
  <2> QED
    BY <2>3, <2>4, <2>5
<1>3. ListedReady
  BY <1>2 DEF ListedReady
<1> QED
  BY <1>1, <1>3

\* A step leaves everyone with complete devices that exist, or one of the things
\* has happened that NothingStale names.
LEMMA StaleStep ==
  ASSUME DevicesInv, StaleInv, [DevicesNext]_devices
  PROVE  DevicesInv' /\ StaleInv'
<1>1. /\ DevicesInv'
      /\ \/ Calm
         \/ \E t \in Callers : ContextStep(t) \/ ListingStep(t)
         \/ \E t \in Callers, s \in Slots : OpenDevice(t, s) \/ CloseHandle(t, s)
  BY DevicesSteps
<1> SUFFICES ASSUME Unharmed' PROVE Clean' /\ RunsAlive'
  BY <1>1 DEF StaleInv
<1>2. past' = {} /\ backend' # Darwin!Adrift
  BY DEF Unharmed
<1>3. ASSUME past \subseteq past', UNCHANGED contextVars PROVE Clean /\ RunsAlive /\ RunsAlive'
  <2>1. Unharmed /\ backend' = backend /\ alive' = alive
    BY <1>2, <1>3 DEF Unharmed, contextVars
  <2> QED
    BY <2>1 DEF StaleInv, RunsAlive
<1>4. CASE Calm
  <2>1. past' = past /\ UNCHANGED contextVars
    BY <1>4 DEF Calm
  <2> QED
    BY <1>1, <1>3, <1>4, <2>1, CalmFine
<1>5. ASSUME NEW t \in Callers, ContextStep(t) PROVE Clean' /\ RunsAlive'
  <2>1. Unharmed /\ (RunsAlive => RunsAlive')
    BY <1>5, ContextRuns
  <2>2. Clean /\ RunsAlive
    BY <2>1 DEF StaleInv
  <2> QED
    BY <1>1, <1>5, <2>1, <2>2, ContextFine
<1>6. ASSUME NEW t \in Callers, ListingStep(t) PROVE Clean' /\ RunsAlive'
  <2>1. past \subseteq past' /\ UNCHANGED contextVars
    BY <1>6, ListingMoves DEF Moves, Remembers
  <2> QED
    BY <1>1, <1>2, <1>3, <1>6, <2>1, ListingFine
<1>7. ASSUME NEW t \in Callers, NEW s \in Slots, OpenDevice(t, s) PROVE Clean' /\ RunsAlive'
  <2>1. past' = past /\ UNCHANGED contextVars
    BY <1>7, OpenDeviceKeeps
  <2> QED
    BY <1>1, <1>3, <1>7, <2>1, OpenDeviceFine
<1>8. ASSUME NEW t \in Callers, NEW s \in Slots, CloseHandle(t, s) PROVE Clean' /\ RunsAlive'
  <2>1. past \subseteq past' /\ UNCHANGED contextVars
    BY <1>8, CloseHandleKeeps DEF Remembers
  <2> QED
    BY <1>1, <1>2, <1>3, <1>8, <2>1, CloseHandleFine
<1> QED
  BY <1>1, <1>4, <1>5, <1>6, <1>7, <1>8

\* Nobody uses a device object or a list of discoveries that has been freed, nor
\* the context of Mac OS's event thread, and what a program gets hold of is
\* complete and of its own context, until one of these happens: two threads are
\* at the devices of a context at once, one of them listing; a list of usbfs
\* outgrows its memory; the event thread's context goes before others; Mac OS's
\* backend is entered by two threads at once or fails (core.c, linux_usbfs.c,
\* darwin_usb.c).
THEOREM NothingStaleRight == DevicesSpec => []NothingStale
<1>1. DevicesInit => DevicesInv /\ StaleInv
  BY InitDevices, InitStale
<1>2. DevicesInv /\ StaleInv /\ [DevicesNext]_devices => (DevicesInv /\ StaleInv)'
  BY StaleStep
<1>3. DevicesInv /\ StaleInv => NothingStale
  BY FineReady DEF StaleInv, Unharmed, NothingStale
<1> QED
  BY <1>1, <1>2, <1>3, PTL DEF DevicesSpec
=============================================================================
