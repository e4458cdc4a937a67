------------------------------ MODULE WinPoll ------------------------------
(***************************************************************************)
(* poll() for Windows (os/poll_windows.c) under the threads that use it:   *)
(* threads submit transfers, each with a descriptor of its own, and one    *)
(* thread handles events and submits again in callbacks (windows_usb.c).   *)
(*                                                                         *)
(* A descriptor is a number of the C library, which gives numbers out      *)
(* again, and an entry of a table of MAX_FDS; each entry has a lock.  It    *)
(* is held from one step to the next by whoever frees the entry (see       *)
(* Freed), and in usbi_read (see PipeExact).  WinUSB, and a system that    *)
(* has CancelIoEx.                                                         *)
(***************************************************************************)
EXTENDS Integers, Sequences, SequencesExt, FiniteSets, FiniteSetsExt

CONSTANTS
  Threads,
  Transfers,
  By,          \* who submits a transfer first
  Direction,   \* the access mode of its descriptor
  Tables,      \* the size of the table, MAX_FDS
  MaxTurns     \* how often each transfer is submitted

Handler == "handler"
Pipe == "pipe"
Owners == Transfers \cup {Pipe}
None == "none"
\* What an entry has for its overlapped while it is being freed and locked:
\* the number has been given back but still stands in the entry.
Freed == "freed"

\* What the constants must be (assumed where this is instantiated)
PollAssumption ==
  /\ {Handler, None} \cap Threads = {} /\ {Pipe, None, Freed} \cap Transfers = {}
  /\ By \in [Transfers -> Threads] /\ Direction \in [Transfers -> {"read", "write"}]
  /\ Tables \subseteq Nat \ {0} /\ MaxTurns \in [Transfers -> Nat]

VARIABLES
  poll_fd,        \* the table: number, overlapped (named after its owner), rw
  overlapped,     \* Internal, InternalHigh, and the event
  crt,            \* the numbers in use
  flying,         \* flying_transfers
  pollable_fd,    \* the number each transfer remembers
  pollfds,        \* what the context polls
  pollfd_modify, events_lock,
  pc, cur,        \* of a thread: where, and with which transfer
  at, wfd,        \* the entry it looks at, the number it has got
  fds, k,         \* the snapshot usbi_poll works on, and how far it is
  turns, astray

Slots == DOMAIN poll_fd

tableVars == <<poll_fd, overlapped, crt>>
ctxVars == <<flying, pollable_fd, pollfds, pollfd_modify, events_lock>>
pollVars == <<fds, k, astray>>
vars == <<tableVars, ctxVars, pc, cur, at, wfd, pollVars, turns>>

\* poll_windows.h 66-79: struct winfd
Entry == [fd : Nat \cup {-1}, overlapped : Owners \cup {None, Freed}, rw : {"none", "read", "write"}]
INVALID_WINFD == [fd |-> -1, overlapped |-> None, rw |-> "none"]

\* poll_windows.c 201-213: create_overlapped
NewOverlapped == [live |-> TRUE, Internal |-> "zero", InternalHigh |-> 0, event |-> FALSE]
\* poll_windows.c 215-225: free_overlapped
NoOverlapped == [NewOverlapped EXCEPT !.live = FALSE]

\* The number of entry of a descriptor, or 0.  Its entry never moves.
\* poll_windows.c 180-199: _fd_to_index_and_lock
Index(fd) ==
  LET has(i) == poll_fd[i].fd = fd /\ poll_fd[i].overlapped # Freed
  IN  IF \E i \in Slots : has(i) THEN CHOOSE i \in Slots : has(i) ELSE 0

\* The search comes to its end: it waits for the lock of an entry before that
\* one which is being freed and carries the number still, and finds there that
\* it has changed.
\* poll_windows.c 188-195: _fd_to_index_and_lock
Searched(fd) == \A j \in Slots : poll_fd[j].fd = fd /\ poll_fd[j].overlapped = Freed => Index(fd) # 0 /\ Index(fd) < j

\* poll_windows.c 288-347: usbi_pipe
Init ==
  /\ poll_fd \in {[i \in 1 .. n |-> IF i = 1 THEN [fd |-> 1, overlapped |-> Pipe, rw |-> "read"] ELSE INVALID_WINFD] : n \in Tables}
  /\ overlapped = [o \in Owners |-> IF o = Pipe THEN [NewOverlapped EXCEPT !.Internal = "pending"] ELSE NoOverlapped]
  /\ crt = {1} /\ flying = <<>> /\ pollable_fd = [t \in Transfers |-> 0]
  /\ pollfds = <<[fd |-> 1, events |-> "read"]>>
  /\ pollfd_modify = 0 /\ events_lock = None
  /\ pc = [p \in Threads \cup {Handler} |-> IF p = Handler THEN "try" ELSE "idle"]
  /\ cur = [p \in Threads \cup {Handler} |-> None] /\ at = [p \in Threads \cup {Handler} |-> 0] /\ wfd = at
  /\ fds = <<>> /\ k = 0 /\ turns = [t \in Transfers |-> 0] /\ astray = FALSE

At(p, l) == pc[p] = l
Goto(p, l) == pc' = [pc EXCEPT ![p] = l]
\* Where a thread that has submitted, or failed to, goes on.
Back(p) ==
  /\ Goto(p, IF p = Handler THEN "next" ELSE "idle") /\ cur' = [cur EXCEPT ![p] = None]
  /\ at' = [at EXCEPT ![p] = 0] /\ wfd' = [wfd EXCEPT ![p] = 0]

-----------------------------------------------------------------------------
\* A number, and an overlapped structure; then an entry is looked for.
\* poll_windows.c 363-397: usbi_create_fd
CreateFd(p) ==
  LET fd == CHOOSE n \in 1 .. Cardinality(crt) + 1 : n \notin crt IN
  /\ crt' = crt \cup {fd} /\ wfd' = [wfd EXCEPT ![p] = fd] /\ at' = [at EXCEPT ![p] = 1]
  /\ overlapped' = [overlapped EXCEPT ![cur[p]] = NewOverlapped]

\* Submission: the transfer flies before it has a descriptor.  Whoever submits
\* a transfer again does so in its callback (see README).
\* io.c 1247-1278: libusb_submit_transfer
Submit(p, t) ==
  /\ turns[t] < MaxTurns[t] /\ turns' = [turns EXCEPT ![t] = @ + 1]
  /\ \/ At(p, "idle") /\ By[t] = p /\ turns[t] = 0
     \/ At(p, "callback") /\ cur[p] = t
  /\ flying' = Append(flying, t) /\ cur' = [cur EXCEPT ![p] = t] /\ Goto(p, "prepare")
  /\ UNCHANGED <<tableVars, pollable_fd, pollfds, pollfd_modify, events_lock, at, wfd, pollVars>>

\* io.c 1257-1262: libusb_submit_transfer
Refused(p) == Back(p) /\ flying' = RemoveFirst(flying, cur[p])

\* The interface of the endpoint may be unclaimed, or there is no memory.
\* windows_usb.c 2770-2802: winusb_submit_bulk_transfer
Prepare(p) ==
  /\ At(p, "prepare") /\ pollable_fd' = [pollable_fd EXCEPT ![cur[p]] = -1]
  /\ \/ CreateFd(p) /\ Goto(p, "look") /\ UNCHANGED <<flying, cur>>
     \/ Refused(p) /\ UNCHANGED <<crt, overlapped>>
  /\ UNCHANGED <<poll_fd, pollfds, pollfd_modify, events_lock, pollVars, turns>>

\* The search for a free entry reads without the lock.
\* poll_windows.c 399-400: usbi_create_fd
Look(p) ==
  /\ At(p, "look") /\ at[p] \in Slots
  /\ IF poll_fd[at[p]].fd < 0 THEN Goto(p, "claim") /\ UNCHANGED at
     ELSE at' = [at EXCEPT ![p] = @ + 1] /\ UNCHANGED pc
  /\ UNCHANGED <<tableVars, ctxVars, cur, wfd, pollVars, turns>>

\* poll_windows.c 437-439: usbi_create_fd
NoEntry(p) ==
  /\ At(p, "look") /\ at[p] \notin Slots /\ Refused(p)
  /\ crt' = crt \ {wfd[p]} /\ overlapped' = [overlapped EXCEPT ![cur[p]] = NoOverlapped]
  /\ UNCHANGED <<poll_fd, pollable_fd, pollfds, pollfd_modify, events_lock, pollVars, turns>>

\* a mutated form: the entry is not looked at again under its lock
ClaimUnseen(p) ==
  /\ At(p, "claim") /\ Goto(p, "start")
  /\ poll_fd' = [poll_fd EXCEPT ![at[p]] = [fd |-> wfd[p], overlapped |-> cur[p], rw |-> Direction[cur[p]]]]
  /\ UNCHANGED <<overlapped, crt, ctxVars, cur, at, wfd, pollVars, turns>>
\* poll_windows.c 401-435: usbi_create_fd
Claim(p) ==
  /\ At(p, "claim")
  /\ IF poll_fd[at[p]].fd >= 0 THEN Goto(p, "look") /\ at' = [at EXCEPT ![p] = @ + 1] /\ UNCHANGED poll_fd
     ELSE /\ Goto(p, "start") /\ UNCHANGED at
          /\ poll_fd' = [poll_fd EXCEPT ![at[p]] = [fd |-> wfd[p], overlapped |-> cur[p], rw |-> Direction[cur[p]]]]
  /\ UNCHANGED <<overlapped, crt, ctxVars, cur, wfd, pollVars, turns>>

\* The descriptor fd is freed, if it is there (WinUSB's handles are no files,
\* so the number is given back): the number first, and whoever creates a
\* descriptor may have it from then on, for another entry.
\* poll_windows.c 442-477: usbi_free_fd
GiveBack(p, fd) ==
  LET i == Index(fd) IN
  /\ Searched(fd) /\ at' = [at EXCEPT ![p] = i]
  /\ IF i = 0 THEN UNCHANGED tableVars
     ELSE /\ crt' = crt \ {fd} /\ poll_fd' = [poll_fd EXCEPT ![i].overlapped = Freed]
          /\ overlapped' = [overlapped EXCEPT ![poll_fd[i].overlapped] = NoOverlapped]

\* poll_windows.c 459-480: usbi_free_fd
Empty(p) ==
  /\ poll_fd' = [i \in Slots |-> IF i = at[p] THEN INVALID_WINFD ELSE poll_fd[i]]
  /\ UNCHANGED <<overlapped, crt>>

\* The system takes the request, completes it at once, or refuses it.
\* windows_usb.c 2804-2824: winusb_submit_bulk_transfer
Start(p) ==
  LET t == cur[p] IN
  /\ At(p, "start")
  /\ \/ \E io \in {"pending", "sync"} :
          /\ overlapped' = [overlapped EXCEPT ![t].Internal = io, ![t].InternalHigh = IF io = "sync" THEN 1 ELSE 0]
          /\ pollable_fd' = [pollable_fd EXCEPT ![t] = wfd[p]]
          /\ Goto(p, "add") /\ UNCHANGED <<poll_fd, crt, flying, cur, at, wfd>>
     \/ GiveBack(p, wfd[p]) /\ Goto(p, "undo") /\ UNCHANGED <<pollable_fd, flying, cur, wfd>>
  /\ UNCHANGED <<pollfds, pollfd_modify, events_lock, pollVars, turns>>

\* windows_usb.c 2812-2814: winusb_submit_bulk_transfer
Undo(p) ==
  /\ At(p, "undo") /\ Empty(p) /\ Refused(p)
  /\ UNCHANGED <<pollable_fd, pollfds, pollfd_modify, events_lock, pollVars, turns>>

\* a mutated form: whoever polls is not told
AddSilently(p) ==
  /\ At(p, "add") /\ Back(p)
  /\ pollfds' = Append(pollfds, [fd |-> pollable_fd[cur[p]], events |-> Direction[cur[p]]])
  /\ UNCHANGED <<tableVars, flying, pollable_fd, pollfd_modify, events_lock, pollVars, turns>>
\* windows_usb.c 1879-1943: submit_bulk_transfer
Add(p) ==
  /\ At(p, "add") /\ Goto(p, "modify")
  /\ pollfds' = Append(pollfds, [fd |-> pollable_fd[cur[p]], events |-> Direction[cur[p]]])
  /\ UNCHANGED <<tableVars, flying, pollable_fd, pollfd_modify, events_lock, cur, at, wfd, pollVars, turns>>

-----------------------------------------------------------------------------
\* Whoever polls is interrupted, so that it takes the new descriptor in.
\* core.c 861-864: usbi_fd_notification
Modify(p) ==
  /\ At(p, "modify") /\ Goto(p, "write") /\ pollfd_modify' = pollfd_modify + 1
  /\ UNCHANGED <<tableVars, flying, pollable_fd, pollfds, events_lock, cur, at, wfd, pollVars, turns>>

\* poll_windows.c 787-817: usbi_write
Write(p) ==
  /\ At(p, "write") /\ Goto(p, "lock")
  /\ overlapped' = [overlapped EXCEPT ![Pipe].event = TRUE, ![Pipe].Internal = "done", ![Pipe].InternalHigh = @ + 1]
  /\ UNCHANGED <<poll_fd, crt, ctxVars, cur, at, wfd, pollVars, turns>>

\* Mutexes are recursive here: the handler notifies itself from a callback.
\* core.c 876-877: usbi_fd_notification
LockEvents(p) ==
  /\ At(p, "lock") /\ events_lock \in {None, p} /\ events_lock' = p /\ Goto(p, "read")
  /\ UNCHANGED <<tableVars, flying, pollable_fd, pollfds, pollfd_modify, cur, at, wfd, pollVars, turns>>

\* core.c 884-891: usbi_fd_notification
Unmodify(p) ==
  /\ Back(p) /\ pollfd_modify' = pollfd_modify - 1
  /\ events_lock' = IF p = Handler THEN Handler ELSE None

\* The reader waits for the event with the entry locked.
\* poll_windows.c 822-860: usbi_read
Read(p) ==
  /\ At(p, "read") /\ overlapped[Pipe].event
  /\ overlapped' = IF overlapped[Pipe].InternalHigh > 1 THEN [overlapped EXCEPT ![Pipe].InternalHigh = @ - 1]
                   ELSE [overlapped EXCEPT ![Pipe].InternalHigh = 0, ![Pipe].event = FALSE, ![Pipe].Internal = "pending"]
  /\ Unmodify(p) /\ UNCHANGED <<poll_fd, crt, flying, pollable_fd, pollfds, pollVars, turns>>

-----------------------------------------------------------------------------
\* The handler polls what is listed when it has the lock.
\* io.c 1803-1840: handle_events
Collect ==
  /\ At(Handler, "try") /\ pollfd_modify = 0 /\ events_lock = None
  /\ events_lock' = Handler /\ Goto(Handler, "scan") /\ k' = 1
  /\ fds' = [j \in DOMAIN pollfds |-> [fd |-> pollfds[j].fd, events |-> pollfds[j].events, revents |-> FALSE]]
  /\ UNCHANGED <<tableVars, flying, pollable_fd, pollfds, pollfd_modify, cur, at, wfd, turns, astray>>

Triggered == {j \in DOMAIN fds : fds[j].revents}

\* HasOverlappedIoCompleted, HasOverlappedIoCompletedSync
\* poll_windows.h 33-37: HasOverlappedIoCompletedSync
IoCompleted(o) == overlapped[o].Internal # "pending"

\* A descriptor that is unknown, or polled for the wrong direction, ends the
\* call with an error.
\* poll_windows.c 603-673: usbi_poll
Scan ==
  LET i == Index(fds[k].fd) IN
  /\ At(Handler, "scan") /\ k \in DOMAIN fds /\ Searched(fds[k].fd)
  /\ IF i = 0 \/ (i # 0 /\ poll_fd[i].rw # fds[k].events)
     THEN astray' = TRUE /\ Goto(Handler, "release") /\ UNCHANGED <<fds, k>>
     ELSE fds' = [fds EXCEPT ![k].revents = IoCompleted(poll_fd[i].overlapped)] /\ k' = k + 1 /\ UNCHANGED <<pc, astray>>
  /\ UNCHANGED <<tableVars, ctxVars, cur, at, wfd, turns>>

Signalled == {j \in DOMAIN fds : overlapped[poll_fd[Index(fds[j].fd)].overlapped].event}

\* It waits for an event only if nothing has completed, and reports the
\* first one it finds.  Its timeout is left out.
\* poll_windows.c 692-751: usbi_poll
Wait ==
  /\ At(Handler, "scan") /\ k \notin DOMAIN fds
  /\ IF Triggered # {} THEN UNCHANGED fds
     ELSE Signalled # {} /\ fds' = [fds EXCEPT ![Min(Signalled)].revents = TRUE]
  /\ k' = 2 /\ Goto(Handler, "next") /\ UNCHANGED <<tableVars, ctxVars, cur, at, wfd, turns, astray>>

\* windows_usb.c 2080-2081: windows_handle_events
Matches(t, fd) == pollable_fd[t] = fd

\* The first transfer of the list that remembers the number.
\* windows_usb.c 2078-2086: windows_handle_events
Found(fd) == IF \E n \in DOMAIN flying : Matches(flying[n], fd)
             THEN {flying[Min({n \in DOMAIN flying : Matches(flying[n], fd)})]} ELSE {}

\* io.c 2232-2256: usbi_remove_pollfd
WithoutPollfd(fd) == RemoveFirstMatch(pollfds, LAMBDA f : f.fd = fd)

Left == {j \in Triggered : j >= k}

\* The next descriptor that is ready, and its transfer.
\* windows_usb.c 2065-2109: windows_handle_events
Take ==
  /\ At(Handler, "next") /\ Left # {} /\ k' = Min(Left) + 1
  /\ LET fd == fds[Min(Left)].fd IN
     \/ /\ Found(fd) = {} /\ astray' = TRUE /\ Goto(Handler, "release") /\ UNCHANGED <<pollfds, cur>>
     \/ \E t \in Found(fd) :
          /\ cur' = [cur EXCEPT ![Handler] = t] /\ Goto(Handler, "clear") /\ UNCHANGED astray
          /\ pollfds' = WithoutPollfd(fd)
  /\ UNCHANGED <<tableVars, flying, pollable_fd, pollfd_modify, events_lock, at, wfd, fds, turns>>

\* Its descriptor is freed, then it leaves the list and is called back.
\* windows_usb.c 2003-2037: windows_transfer_callback
Clear ==
  LET t == cur[Handler] IN
  /\ At(Handler, "clear") /\ Goto(Handler, "empty") /\ GiveBack(Handler, pollable_fd[t])
  /\ UNCHANGED <<ctxVars, cur, wfd, pollVars, turns>>

\* windows_usb.c 2037-2039: windows_transfer_callback
Complete ==
  /\ At(Handler, "empty") /\ Goto(Handler, "callback") /\ Empty(Handler)
  /\ flying' = RemoveFirst(flying, cur[Handler]) /\ at' = [at EXCEPT ![Handler] = 0]
  /\ UNCHANGED <<pollable_fd, pollfds, pollfd_modify, events_lock, cur, wfd, pollVars, turns>>

\* A callback submits its transfer again, as freenect's does, or ends.
\* external: the program
CallbackReturns == At(Handler, "callback") /\ turns[cur[Handler]] = MaxTurns[cur[Handler]] /\ Back(Handler) /\ UNCHANGED <<tableVars, ctxVars, pollVars, turns>>

\* io.c 1870-1886: handle_events
Release ==
  /\ At(Handler, "release") \/ (At(Handler, "next") /\ Left = {})
  /\ events_lock' = None /\ Goto(Handler, "try") /\ fds' = <<>> /\ k' = 0
  /\ UNCHANGED <<tableVars, flying, pollable_fd, pollfds, pollfd_modify, cur, at, wfd, turns, astray>>

\* external: the operating system
IoEnds(t) ==
  /\ overlapped[t].live /\ overlapped[t].Internal = "pending"
  /\ overlapped' = [overlapped EXCEPT ![t].Internal = "done", ![t].InternalHigh = 1, ![t].event = TRUE]
  /\ UNCHANGED <<poll_fd, crt, ctxVars, pc, cur, at, wfd, pollVars, turns>>

\* The handler stops when everything has ended: the pipe is closed (its
\* number stays taken, see README) and the table emptied.
\* poll_windows.c 756-782: usbi_close
Close ==
  /\ At(Handler, "try") /\ flying = <<>> /\ \A p \in Threads : At(p, "idle")
  /\ \A t \in Transfers : turns[t] > 0
  /\ Goto(Handler, "closed") /\ pollfds' = <<>>
  /\ poll_fd' = [poll_fd EXCEPT ![Index(1)] = INVALID_WINFD] /\ overlapped' = [overlapped EXCEPT ![Pipe] = NoOverlapped]
  /\ UNCHANGED <<crt, flying, pollable_fd, pollfd_modify, events_lock, cur, at, wfd, pollVars, turns>>

\* poll_windows.c 241-280: exit_polling
ExitPolling ==
  /\ At(Handler, "closed") /\ Goto(Handler, "exited") /\ poll_fd' = [i \in Slots |-> INVALID_WINFD]
  /\ overlapped' = [o \in Owners |-> IF \E i \in Slots : poll_fd[i].overlapped = o THEN NoOverlapped ELSE overlapped[o]]
  /\ UNCHANGED <<crt, ctxVars, cur, at, wfd, pollVars, turns>>

Submits(p) ==
  \/ \E t \in Transfers : Submit(p, t)
  \/ Prepare(p) \/ Look(p) \/ NoEntry(p) \/ Claim(p) \/ Start(p) \/ Undo(p) \/ Add(p)
  \/ Modify(p) \/ Write(p) \/ LockEvents(p) \/ Read(p)

Handles == Collect \/ Scan \/ Wait \/ Take \/ Clear \/ Complete \/ CallbackReturns \/ Release \/ Close \/ ExitPolling

Next ==
  \/ \E p \in Threads \cup {Handler} : Submits(p)
  \/ Handles
  \/ \E t \in Transfers : IoEnds(t)

Spec == Init /\ [][Next]_vars

\* Threads run, and the handler calls libusb_handle_events again and again;
\* a device answers in the end, or the transfer is cancelled.
Fairness ==
  /\ \A p \in Threads : WF_vars(Submits(p))
  /\ WF_vars(Submits(Handler) \/ Handles)
  /\ WF_vars(\E t \in Transfers : IoEnds(t))

FairSpec == Spec /\ Fairness

-----------------------------------------------------------------------------
TypeOK ==
  /\ Cardinality(Slots) \in Tables /\ \A i \in Slots : poll_fd[i] \in Entry /\ crt \subseteq Nat \ {0}
  /\ overlapped \in [Owners -> [live : BOOLEAN, Internal : {"zero", "pending", "sync", "done"}, InternalHigh : Nat, event : BOOLEAN]]
  /\ Range(flying) \subseteq Transfers /\ pollable_fd \in [Transfers -> Int] /\ pollfd_modify \in Nat
  /\ events_lock \in Threads \cup {Handler, None} /\ \A t \in Transfers : turns[t] \in 0 .. MaxTurns[t] /\ astray \in BOOLEAN

\* Threads that create and free descriptors at the same time never take the
\* same entry: every request has one entry and one number in use that no
\* other entry has, but one that somebody is freeing and has locked; and
\* nothing is left in the table that nobody will free (usbi_create_fd,
\* usbi_free_fd).
OneEntryEach ==
  \A t \in Transfers :
    LET mine == {i \in Slots : poll_fd[i].overlapped = t} IN
    /\ Cardinality(mine) = (IF overlapped[t].live /\ ~\E p \in DOMAIN pc : cur[p] = t /\ pc[p] \in {"look", "claim"} THEN 1 ELSE 0)
    /\ \A i \in mine, j \in Slots : poll_fd[i].fd \in crt /\ (poll_fd[i].fd = poll_fd[j].fd => i = j \/ poll_fd[j].overlapped = Freed)
    /\ \A j \in Slots : poll_fd[j].overlapped = Freed <=> \E p \in DOMAIN pc : pc[p] \in {"undo", "empty"} /\ at[p] = j
    /\ overlapped[t].live => Contains(flying, t)

\* The handler polls a snapshot while others add descriptors, and numbers
\* are used again: it never polls one that has gone or that is for the other
\* direction, and finds the transfer of each one that is ready (usbi_poll,
\* windows_handle_events).
NeverAstray == ~astray

\* A transfer is called back only when its own request has ended.
EndedFirst == At(Handler, "clear") => overlapped[cur[Handler]].live /\ IoCompleted(cur[Handler])

\* The pipe counts what was written and not yet read, its event is set while
\* it counts anything, and so nobody who reads it waits with the entry locked.
PipeExact ==
  LET o == overlapped[Pipe]
      written == Cardinality({p \in DOMAIN pc : pc[p] \in {"lock", "read"}})
  IN o.live => o.InternalHigh = written /\ (o.event <=> written > 0) /\ (IoCompleted(Pipe) <=> written > 0)

\* Every transfer that was accepted is called back, though it may be added
\* while the handler waits on other events, and nobody gets lost in between.
EveryOneEnds == flying # <<>> ~> flying = <<>>

\* The table of descriptors, its requests and the pipe agree, and the handler
\* takes none for another.
TableExact == TypeOK /\ OneEntryEach /\ NeverAstray /\ EndedFirst /\ PipeExact
=============================================================================
