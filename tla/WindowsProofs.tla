--------------------------- MODULE WindowsProofs ---------------------------
(***************************************************************************)
(* The Windows backend for any number of threads, transfers and callers.   *)
(*                                                                         *)
(* First the descriptors.  The invariant follows a transfer from hand to   *)
(* hand: who submits it owns it until it is polled, the system has it      *)
(* until its request ends, and the handler owns it until it is called      *)
(* back.  Then the clock: requests and answers are counted right, and the  *)
(* thread outlives everybody who may ask it.                               *)
(***************************************************************************)
EXTENDS Windows, FiniteSetTheorems, QueueLemmas

\* Everybody who takes steps
Procs == Threads \cup {Handler}
Submitting == {"prepare", "look", "claim", "start", "undo", "add", "modify", "write", "lock", "read"}
Completing == {"clear", "empty", "callback"}
Closing == {"closed", "exited"}

\* Who is at work on a transfer, before it is polled or when it has ended
Owning(p) == pc[p] \in {"prepare", "look", "claim", "start", "undo", "add", "clear", "empty", "callback"}
Owns(p, t) == cur[p] = t /\ Owning(p)
Owned(t) == \E p \in Procs : Owns(p, t)
Listed(t) == t \in ToSet(flying)
Live(o) == overlapped[o].live
InFlight(t) == Live(t) /\ ~Owned(t)
Creating(p) == pc[p] \in {"look", "claim"}
\* Who has given a number back and has its entry locked still
Freeing(p) == pc[p] \in {"undo", "empty"}
BeingFreed(i) == poll_fd[i].overlapped = Freed

EntryOf(t, n) == [fd |-> n, overlapped |-> t, rw |-> Direction[t]]
PipeEntry == [fd |-> 1, overlapped |-> Pipe, rw |-> "read"]
Entered(t, n) == \E i \in Slots : poll_fd[i] = EntryOf(t, n)

Overlapped == [live : BOOLEAN, Internal : {"zero", "pending", "sync", "done"}, InternalHigh : Nat, event : BOOLEAN]
Pollfd == [fd : Nat, events : {"read", "write"}]
Snapped == [fd : Nat, events : {"read", "write"}, revents : BOOLEAN]

\* Types, and that no transfer is in the list twice
Shape ==
  /\ \E n \in Tables : poll_fd \in [1 .. n -> Entry]
  /\ crt \subseteq Nat \ {0} /\ IsFiniteSet(crt) /\ 1 \in crt
  /\ overlapped \in [Owners -> Overlapped]
  /\ flying \in Seq(Transfers) /\ IsInjective(flying)
  /\ pollable_fd \in [Transfers -> Int] /\ pollfds \in Seq(Pollfd)
  /\ events_lock \in Procs \cup {None}
  /\ cur \in [Procs -> Transfers \cup {None}] /\ at \in [Procs -> Nat] /\ wfd \in [Procs -> Nat]
  /\ fds \in Seq(Snapped) /\ k \in Nat
  /\ turns \in [Transfers -> Nat] /\ \A t \in Transfers : turns[t] <= MaxTurns[t]

\* Where the threads and the handler may be, and with what
PcInv ==
  /\ pc \in [Procs -> {"idle", "try", "scan", "next", "release"} \cup Submitting \cup Completing \cup Closing]
  /\ \A p \in Threads : pc[p] \in {"idle"} \cup Submitting
  /\ pc[Handler] # "idle"
  /\ \A p \in Procs : pc[p] \in Submitting \cup Completing => cur[p] \in Transfers
  /\ \A p \in Procs : pc[p] = "claim" => at[p] \in Slots

\* Who looks for an entry has a number of its own that no entry has yet, but
\* one that is being freed.
NumberInv ==
  \A p \in Procs : Creating(p) =>
    /\ wfd[p] \in crt \ {1} /\ \A i \in Slots : ~BeingFreed(i) => poll_fd[i].fd # wfd[p]
    /\ \A q \in Procs \ {p} : Creating(q) => wfd[q] # wfd[p]

\* What whoever works on a transfer has done so far
OwnerInv(p, t) ==
  /\ pc[p] # "callback" <=> Listed(t)
  /\ pc[p] \notin {"prepare", "undo", "empty", "callback"} <=> Live(t)
  /\ pc[p] = "prepare" /\ p # Handler => pollable_fd[t] = 0
  /\ pc[p] \in {"look", "claim", "start"} => pollable_fd[t] = -1 /\ overlapped[t].Internal = "zero" /\ ~overlapped[t].event
  /\ pc[p] = "undo" => pollable_fd[t] = -1
  /\ pc[p] = "add" => pollable_fd[t] = wfd[p]
  /\ pc[p] \in {"start", "add"} => Entered(t, wfd[p])
  /\ pc[p] = "clear" => Entered(t, pollable_fd[t]) /\ IoCompleted(t)
  /\ turns[t] > 0
  /\ \A q \in Procs : Owns(q, t) => q = p

\* A transfer is owned by one thread, or is in flight with an entry that has
\* the number it remembers, or is not submitted.
TransferOk(t) ==
  /\ \A p \in Procs : Owns(p, t) => OwnerInv(p, t)
  /\ ~Owned(t) => (Live(t) <=> Listed(t))
  /\ InFlight(t) => Entered(t, pollable_fd[t])
  /\ turns[t] = 0 => ~Live(t) /\ pollable_fd[t] = 0
  /\ overlapped[t].event => IoCompleted(t)
  /\ ~Live(t) => ~overlapped[t].event

TransferInv == \A t \in Transfers : TransferOk(t)

\* An entry of the table that is in use
HasEntry(i, t) ==
  /\ poll_fd[i] = EntryOf(t, poll_fd[i].fd) /\ poll_fd[i].fd \in crt \ {1}
  /\ Live(t) /\ \A p \in Procs : Creating(p) => cur[p] # t

\* Each entry is free, the pipe's, that of one request, or being freed.
TableInv ==
  /\ \A i \in Slots : \/ poll_fd[i] = INVALID_WINFD
                      \/ i = 1 /\ poll_fd[i] = PipeEntry
                      \/ \E t \in Transfers : HasEntry(i, t)
                      \/ BeingFreed(i) /\ poll_fd[i].fd \in Nat
  /\ \A i, j \in Slots : i # j /\ poll_fd[i] # INVALID_WINFD /\ ~BeingFreed(i) =>
       /\ poll_fd[i].fd = poll_fd[j].fd => BeingFreed(j)
       /\ poll_fd[i].overlapped # poll_fd[j].overlapped

\* A list of descriptors to poll, none of them twice
Distinct(q) == \A i, j \in 1 .. Len(q) : q[i].fd = q[j].fd => i = j
Polled(t, f) == InFlight(t) /\ f.fd = pollable_fd[t] /\ f.events = Direction[t]

\* What is polled is the pipe and transfers in flight, each for its own
\* direction.
PollInv ==
  IF pc[Handler] \in Closing
  THEN /\ flying = <<>> /\ pollfds = <<>> /\ \A p \in Threads : pc[p] = "idle"
       /\ \A t \in Transfers : turns[t] > 0
       /\ \A i \in Slots : poll_fd[i] = INVALID_WINFD
       /\ ~Live(Pipe)
  ELSE /\ 1 \in Slots /\ poll_fd[1] = PipeEntry /\ Live(Pipe)
       /\ pollfds # <<>> /\ pollfds[1] = [fd |-> 1, events |-> "read"]
       /\ \A j \in 2 .. Len(pollfds) : \E t \in Transfers : Polled(t, pollfds[j])
       /\ Distinct(pollfds)

\* While the handler works on a snapshot, what is still ahead of it is of
\* transfers in flight, though what it has done may be submitted again
\* under the same number.
Snap == pc[Handler] \in {"scan", "next"} \cup Completing \cup Submitting
From == IF pc[Handler] = "scan" THEN 2 ELSE k
SnapInv ==
  Snap =>
    /\ fds # <<>> /\ fds[1].fd = 1 /\ fds[1].events = "read" /\ Distinct(fds)
    /\ IF pc[Handler] = "scan" THEN k >= 1 ELSE k >= 2
    /\ \A j \in From .. Len(fds) : \E t \in Transfers : Polled(t, fds[j]) /\ (fds[j].revents => IoCompleted(t))

Notifying == {p \in DOMAIN pc : pc[p] \in {"write", "lock", "read"}}
Written == {p \in DOMAIN pc : pc[p] \in {"lock", "read"}}

\* pollfd_modify and the pipe count who notifies.
CountInv ==
  /\ IsFiniteSet(Notifying) /\ pollfd_modify = Cardinality(Notifying)
  /\ IsFiniteSet(Written)
  /\ PipeExact

\* Whoever frees an entry has one of its own, and no entry is left that
\* nobody frees.
FreedInv ==
  /\ \A p \in Procs : Freeing(p) => at[p] \in Slots /\ BeingFreed(at[p])
  /\ \A p, q \in Procs : Freeing(p) /\ Freeing(q) /\ at[p] = at[q] => p = q
  /\ \A i \in Slots : BeingFreed(i) => \E p \in Procs : Freeing(p) /\ at[p] = i

IInv == Shape /\ PcInv /\ NumberInv /\ TransferInv /\ TableInv /\ PollInv /\ SnapInv /\ CountInv /\ NeverAstray

-----------------------------------------------------------------------------
\* What PollAssumption says of the names
LEMMA Given ==
  ASSUME PollAssumption
  PROVE  /\ Handler \notin Threads /\ None \notin Threads /\ None \notin Transfers /\ Pipe \notin Transfers /\ Freed \notin Transfers
         /\ Direction \in [Transfers -> {"read", "write"}] /\ MaxTurns \in [Transfers -> Nat]
  BY DEF PollAssumption

\* What a step of p that works on the transfers T leaves alone
Work(p, T) ==
  /\ \A q \in Procs \ {p} : pc'[q] = pc[q] /\ cur'[q] = cur[q] /\ wfd'[q] = wfd[q]
  /\ Owning(p) => cur[p] \in T
  /\ Owning(p)' => cur'[p] \in T
  /\ \A t \in Transfers \ T :
       /\ overlapped'[t] = overlapped[t] /\ pollable_fd'[t] = pollable_fd[t] /\ turns'[t] = turns[t]
       /\ Listed(t)' <=> Listed(t)
       /\ \A n : Entered(t, n) => Entered(t, n)'

\* A transfer that a step does not work on is as before: so are who owns it,
\* what is polled of it and whether its request has ended.
LEMMA Others ==
  ASSUME NEW p \in Procs, NEW T, Work(p, T), TransferInv, NEW t \in Transfers \ T
  PROVE  /\ TransferOk(t)' /\ (InFlight(t)' <=> InFlight(t)) /\ (IoCompleted(t)' <=> IoCompleted(t))
         /\ \A f : Polled(t, f)' <=> Polled(t, f)
  <1>1. \A q \in Procs : Owns(q, t)' <=> Owns(q, t)
    BY DEF Work, Owns, Owning
  <1>2. \A q \in Procs : Owns(q, t) => pc'[q] = pc[q] /\ wfd'[q] = wfd[q]
    BY DEF Work, Owns
  <1>3. (Owned(t)' <=> Owned(t)) /\ (Live(t)' <=> Live(t)) /\ (Listed(t)' <=> Listed(t))
    BY <1>1 DEF Owned, Live, Work
  <1>4. (InFlight(t)' <=> InFlight(t)) /\ (IoCompleted(t)' <=> IoCompleted(t))
    BY <1>3 DEF InFlight, IoCompleted, Work
  <1>5. \A f : Polled(t, f)' <=> Polled(t, f)
    BY <1>4 DEF Polled, Work
  <1>6. ASSUME NEW q \in Procs, Owns(q, t)' PROVE OwnerInv(q, t)'
    <2>1. OwnerInv(q, t) /\ pc'[q] = pc[q] /\ wfd'[q] = wfd[q] /\ pollable_fd'[t] = pollable_fd[t] /\ turns'[t] = turns[t]
         /\ overlapped'[t] = overlapped[t]
      BY <1>1, <1>2, <1>6 DEF TransferInv, TransferOk, Work
    <2>2. \A n : Entered(t, n) => Entered(t, n)'
      BY DEF Work
    <2>3. QED
      BY <1>1, <1>3, <1>4, <2>1, <2>2 DEF OwnerInv
  <1>7. TransferOk(t)'
    <2>1. TransferOk(t) /\ overlapped'[t] = overlapped[t] /\ pollable_fd'[t] = pollable_fd[t] /\ turns'[t] = turns[t]
      BY DEF TransferInv, Work
    <2>2. \A n : Entered(t, n) => Entered(t, n)'
      BY DEF Work
    <2>3. QED
      BY <1>3, <1>4, <1>6, <2>1, <2>2 DEF TransferOk
  <1>8. QED
    BY <1>4, <1>5, <1>7

\* Who creates a descriptor keeps its number to itself while the table stays.
LEMMA NumbersKept ==
  ASSUME NumberInv, poll_fd' = poll_fd, crt \subseteq crt',
         \A q \in Procs : Creating(q)' => Creating(q) /\ wfd'[q] = wfd[q]
  PROVE  NumberInv'
  BY DEF NumberInv, Slots, BeingFreed

\* The entries stay in use while the table does.
LEMMA TableKept ==
  ASSUME TableInv, poll_fd' = poll_fd, crt \subseteq crt',
         \A t \in Transfers, i \in Slots : HasEntry(i, t) => Live(t)' /\ \A q \in Procs : Creating(q)' => cur'[q] # t
  PROVE  TableInv'
  <1>1. \A i \in Slots, t \in Transfers : HasEntry(i, t) => HasEntry(i, t)'
    BY DEF HasEntry, EntryOf
  <1>2. QED
    BY <1>1 DEF TableInv, Slots, INVALID_WINFD, PipeEntry, BeingFreed

\* What is polled stays while the transfers it is of stay in flight.
LEMMA PollKept ==
  ASSUME PollInv, pc[Handler] \notin Closing, pc'[Handler] \notin Closing, pollfds' = pollfds,
         1 \in Slots => 1 \in Slots' /\ poll_fd'[1] = poll_fd[1],
         overlapped'[Pipe].live = overlapped[Pipe].live,
         \A t \in Transfers, f \in Pollfd : Polled(t, f) => Polled(t, f)',
         Shape
  PROVE  PollInv'
  <1>1. \A j \in 1 .. Len(pollfds) : pollfds[j] \in Pollfd
    BY DEF Shape
  <1>2. QED
    BY <1>1 DEF PollInv, Distinct, PipeEntry, Live

\* So does the snapshot the handler works on.
LEMMA SnapKept ==
  ASSUME SnapInv, fds' = fds, k' = k, Snap' => Snap /\ (pc'[Handler] = "scan" <=> pc[Handler] = "scan"),
         \A t \in Transfers, f \in Snapped : Polled(t, f) => Polled(t, f)' /\ (IoCompleted(t) => IoCompleted(t)'),
         Shape
  PROVE  SnapInv'
  <1> SUFFICES ASSUME Snap' PROVE SnapInv'
    BY DEF SnapInv
  <1>1. \A j \in 1 .. Len(fds) : fds[j] \in Snapped
    BY DEF Shape
  <1>2. Snap /\ From' = From /\ From \in Nat \ {0}
    BY DEF From, SnapInv, Shape
  <1>3. \A j \in From .. Len(fds) : j \in 1 .. Len(fds)
    BY <1>2 DEF Shape
  <1>4. QED
    BY <1>1, <1>2, <1>3 DEF SnapInv, Distinct

\* So does the count of what is written to the pipe.
LEMMA CountKept ==
  ASSUME CountInv, Shape, DOMAIN pc = Procs, DOMAIN pc' = Procs, overlapped'[Pipe] = overlapped[Pipe], pollfd_modify' = pollfd_modify,
         \A q \in Procs : /\ pc'[q] \in {"write", "lock", "read"} <=> pc[q] \in {"write", "lock", "read"}
                          /\ pc'[q] \in {"lock", "read"} <=> pc[q] \in {"lock", "read"}
  PROVE  CountInv'
  <1>1. Notifying' = Notifying /\ Written' = Written
    BY DEF Notifying, Written
  <1>2. {q \in DOMAIN pc' : pc'[q] \in {"lock", "read"}} = {q \in DOMAIN pc : pc[q] \in {"lock", "read"}}
    OBVIOUS
  <1>3. PipeExact'
    BY <1>2 DEF CountInv, PipeExact, IoCompleted
  <1>4. QED
    BY <1>1, <1>3 DEF CountInv

\* An entry is found by its number.
LEMMA IndexIs ==
  ASSUME Shape, TableInv, NEW i \in Slots, poll_fd[i] # INVALID_WINFD, ~BeingFreed(i)
  PROVE  Index(poll_fd[i].fd) = i /\ \A j \in Slots : poll_fd[j].fd = poll_fd[i].fd /\ ~BeingFreed(j) => j = i
  BY DEF Index, TableInv, BeingFreed

\* The handler has not stopped while anybody is at work.
LEMMA AtWork ==
  ASSUME PcInv, PollInv, NEW p \in Procs, pc[p] \notin {"idle", "closed", "exited"}
  PROVE  pc[Handler] \notin Closing
  BY DEF PollInv, Closing, Procs

\* libusb_submit_transfer, before the backend is called
LEMMA SubmitStep ==
  ASSUME PollAssumption, IInv, NEW p \in Procs, NEW t \in Transfers, Submit(p, t)
  PROVE  IInv'
  <1> USE Given DEF IInv
  <1>1. /\ ~Live(t) /\ ~Listed(t) /\ turns[t] \in Nat
        /\ \A q \in Procs : Owns(q, t) => q = p
        /\ pc[p] = "idle" => ~Owned(t) /\ pollable_fd[t] = 0
    <2>1. CASE pc[p] = "idle"
      <3>1. turns[t] = 0
        BY <2>1 DEF Submit, At
      <3>2. ~Owned(t)
        BY <3>1 DEF TransferInv, TransferOk, Owned, OwnerInv
      <3>3. QED
        BY <3>1, <3>2 DEF TransferInv, TransferOk, Owned
    <2>2. CASE pc[p] # "idle"
      <3>1. Owns(p, t) /\ pc[p] = "callback"
        BY <2>2 DEF Submit, At, Owns, Owning
      <3>2. OwnerInv(p, t)
        BY <3>1 DEF TransferInv, TransferOk
      <3>3. QED
        BY <3>1, <3>2 DEF OwnerInv, Shape
    <2>3. QED
      BY <2>1, <2>2
  <1>2. /\ flying' \in Seq(Transfers) /\ IsInjective(flying') /\ ToSet(flying') = ToSet(flying) \cup {t}
    BY <1>1, AppendIn DEF Submit, Shape, Listed
  <1>3. Shape'
    <2>1. cur' \in [Procs -> Transfers \cup {None}]
      BY DEF Shape, Submit
    <2>2. turns' \in [Transfers -> Nat] /\ \A u \in Transfers : turns'[u] <= MaxTurns[u]
      <3>1. /\ turns[t] \in Nat /\ turns[t] < MaxTurns[t] /\ MaxTurns[t] \in Nat /\ turns' = [turns EXCEPT ![t] = turns[t] + 1]
            /\ turns \in [Transfers -> Nat] /\ \A u \in Transfers : turns[u] <= MaxTurns[u]
        BY <1>1 DEF Shape, Submit
      <3>2. QED
        BY <3>1
    <2>3. QED
      BY <1>2, <2>1, <2>2 DEF Shape, Submit, tableVars, pollVars, Slots
  <1>4. /\ pc[p] \in {"idle", "callback"} /\ (pc[p] = "callback" => p = Handler /\ cur[p] = t)
        /\ pc' = [pc EXCEPT ![p] = "prepare"] /\ cur' = [cur EXCEPT ![p] = t]
    <2>1. pc[p] = "callback" => p = Handler
      BY DEF PcInv, Procs, Submitting
    <2>2. pc[p] = "idle" \/ (pc[p] = "callback" /\ cur[p] = t)
      BY DEF Submit, At
    <2>3. pc' = [pc EXCEPT ![p] = "prepare"] /\ cur' = [cur EXCEPT ![p] = t]
      BY DEF Submit, Goto
    <2>4. QED
      BY <2>1, <2>2, <2>3
  <1>5. PcInv'
    BY <1>4, <1>3 DEF PcInv, Shape, Submit, Submitting, Completing, Closing, Slots, Procs, tableVars
  <1>6. Work(p, {t})
    BY <1>2, <1>4 DEF Work, Submit, Owning, Listed, Entered, Slots, tableVars, Shape, PcInv
  <1>7. TransferOk(t)'
    <2>1. \A q \in Procs : Owns(q, t)' <=> q = p
      BY <1>1, <1>4, <1>6 DEF Owns, Owning, Work, Shape, PcInv
    <2>2. Listed(t)' /\ ~Live(t)' /\ turns'[t] = turns[t] + 1
      BY <1>1, <1>2 DEF Listed, Live, Submit, tableVars, Shape
    <2>3. pc'[p] = "prepare"
      BY <1>4 DEF PcInv
    <2>4. p # Handler => pollable_fd'[t] = 0
      BY <1>1, <1>4 DEF Submit
    <2>5. OwnerInv(p, t)'
      BY <1>1, <2>1, <2>2, <2>3, <2>4 DEF OwnerInv
    <2>6. overlapped' = overlapped
      BY DEF Submit, tableVars
    <2>7. QED
      BY <1>1, <2>1, <2>2, <2>5, <2>6 DEF TransferOk, Owned, InFlight, IoCompleted, TransferInv
  <1>8. TransferInv'
    BY <1>6, <1>7, Others DEF TransferInv
  <1>9. \A q \in Procs : Creating(q)' => Creating(q) /\ wfd'[q] = wfd[q] /\ cur'[q] = cur[q]
    BY <1>4 DEF Creating, Submit, PcInv, Shape
  <1>10. NumberInv'
    BY <1>9, NumbersKept DEF Submit, tableVars
  <1>11. TableInv'
    BY <1>9, TableKept DEF HasEntry, Live, Submit, tableVars
  <1>12. ~InFlight(t)
    BY <1>1 DEF InFlight
  <1>13. \A u \in Transfers : InFlight(u) => u # t /\ \A f : Polled(u, f) => Polled(u, f)' /\ (IoCompleted(u) => IoCompleted(u)')
    BY <1>6, <1>12, Others
  <1>14. \A u \in Transfers : \A f : Polled(u, f) => Polled(u, f)' /\ (IoCompleted(u) => IoCompleted(u)')
    BY <1>13 DEF Polled
  <1>15. pc[Handler] \notin Closing /\ pc'[Handler] \notin Closing
    <2>1. CASE pc[p] = "idle"
      <3>1. turns[t] = 0 /\ p # Handler
        BY <2>1 DEF Submit, At, PcInv
      <3>2. pc[Handler] \notin Closing
        BY <3>1 DEF PollInv
      <3>3. QED
        BY <1>4, <3>1, <3>2 DEF PcInv, Procs
    <2>2. CASE pc[p] # "idle"
      BY <1>4, <2>2 DEF Closing, PcInv, Procs
    <2>3. QED
      BY <2>1, <2>2
  <1>16. PollInv'
    BY <1>14, <1>15, PollKept DEF Submit, tableVars, Slots
  <1>17. SnapInv'
    BY <1>4, <1>14, SnapKept DEF Submit, pollVars, Snap, Submitting, Completing, PcInv, Procs
  <1>18. CountInv'
    BY <1>4, CountKept DEF Submit, tableVars, PcInv
  <1>19. NeverAstray'
    BY DEF NeverAstray, Submit, pollVars
  <1>20. QED
    BY <1>3, <1>5, <1>8, <1>10, <1>11, <1>16, <1>17, <1>18, <1>19

\* A step that leaves the snapshot and the list of what is polled alone, and
\* works on a transfer that is not polled
LEMMA Mostly ==
  ASSUME IInv, NEW p \in Procs, NEW T, Work(p, T),
         pc[p] \notin {"idle", "closed", "exited", "scan", "try", "release"}, pc'[p] \notin {"closed", "exited", "scan"},
         Shape', PcInv', \A t \in Transfers : t \in T => TransferOk(t)' /\ ~InFlight(t), NumberInv', TableInv', CountInv',
         pollfds' = pollfds, fds' = fds, k' = k, astray' = astray,
         1 \in Slots => 1 \in Slots' /\ poll_fd'[1] = poll_fd[1],
         overlapped'[Pipe].live = overlapped[Pipe].live
  PROVE  IInv'
  <1> USE DEF IInv
  <1>1. \A t \in Transfers : t \in T \/ t \in Transfers \ T
    OBVIOUS
  <1>2. TransferInv'
    BY <1>1, Others DEF TransferInv
  <1>3. \A t \in Transfers : \A f : Polled(t, f) => Polled(t, f)' /\ (IoCompleted(t) => IoCompleted(t)')
    <2> TAKE t \in Transfers
    <2> TAKE f
    <2>1. CASE t \in T
      BY <2>1 DEF Polled
    <2>2. CASE t \in Transfers \ T
      BY <2>2, Others
    <2>3. QED
      BY <1>1, <2>1, <2>2
  <1>4. pc[Handler] \notin Closing
    BY AtWork
  <1>5. /\ pc'[Handler] \notin Closing
        /\ Snap' => Snap /\ (pc'[Handler] = "scan" <=> pc[Handler] = "scan")
    <2>1. Handler \in Procs
      BY DEF Procs
    <2>2. CASE p = Handler
      <3>1. Snap
        BY <2>2, <1>4 DEF Snap, PcInv, Closing, Procs
      <3>2. QED
        BY <2>2, <3>1 DEF Closing
    <2>3. CASE p # Handler
      <3>1. pc'[Handler] = pc[Handler]
        BY <2>1, <2>3 DEF Work
      <3>2. QED
        BY <1>4, <3>1 DEF Snap
    <2>4. QED
      BY <2>2, <2>3
  <1>6. PollInv'
    BY <1>3, <1>4, <1>5, PollKept
  <1>7. SnapInv'
    BY <1>3, <1>5, SnapKept
  <1>8. NeverAstray'
    BY DEF NeverAstray
  <1>9. QED
    BY <1>2, <1>6, <1>7, <1>8

\* Who works on a transfer is the only one, and it is not polled.
LEMMA Owner ==
  ASSUME TransferInv, PcInv, NEW p \in Procs, Owning(p)
  PROVE  /\ cur[p] \in Transfers /\ OwnerInv(p, cur[p]) /\ ~InFlight(cur[p]) /\ Owned(cur[p])
         /\ \A q \in Procs : cur[q] = cur[p] /\ Owning(q) => q = p
  <1>1. cur[p] \in Transfers
    BY DEF Owning, PcInv, Submitting, Completing
  <1>2. Owns(p, cur[p]) /\ Owned(cur[p])
    BY DEF Owns, Owned
  <1>3. OwnerInv(p, cur[p])
    BY <1>1, <1>2 DEF TransferInv, TransferOk
  <1>4. QED
    BY <1>1, <1>2, <1>3 DEF InFlight, OwnerInv, Owns

\* The place in the list is given up, with what was allotted.
LEMMA GivenUp ==
  ASSUME PollAssumption, IInv, NEW p \in Procs, NEW t, t = cur[p], Owning(p), Refused(p),
         pc[p] \notin {"clear", "empty", "callback"},
         ~overlapped'[t].live, ~overlapped'[t].event, turns' = turns, Slots' = Slots
  PROVE  /\ flying' \in Seq(Transfers) /\ IsInjective(flying') /\ ToSet(flying') = ToSet(flying) \ {t}
         /\ cur' \in [Procs -> Transfers \cup {None}] /\ at' \in [Procs -> Nat] /\ wfd' \in [Procs -> Nat]
         /\ pc' = [pc EXCEPT ![p] = IF p = Handler THEN "next" ELSE "idle"] /\ PcInv'
         /\ TransferOk(t)'
  <1> USE Given DEF IInv
  <1>1. t \in Transfers /\ OwnerInv(p, t) /\ \A q \in Procs : cur[q] = t /\ Owning(q) => q = p
    BY Owner
  <1>2. /\ flying' \in Seq(Transfers) /\ IsInjective(flying') /\ ToSet(flying') = ToSet(flying) \ {t}
    <2>1. flying' = RemoveFirst(flying, t)
      BY DEF Refused
    <2>2. flying \in Seq(Transfers) /\ IsInjective(flying)
      BY DEF Shape
    <2>3. QED
      BY <1>1, <2>1, <2>2, RemoveFirstIn
  <1>3. cur' \in [Procs -> Transfers \cup {None}] /\ at' \in [Procs -> Nat] /\ wfd' \in [Procs -> Nat]
    BY DEF Shape, Refused, Back
  <1>4. /\ pc' = [pc EXCEPT ![p] = IF p = Handler THEN "next" ELSE "idle"] /\ cur' = [cur EXCEPT ![p] = None]
        /\ at' = [at EXCEPT ![p] = 0]
    BY DEF Refused, Back, Goto
  <1>5. \A q \in Procs : ~Owns(q, t)'
    BY <1>1, <1>4 DEF Owns, Owning, PcInv, Shape
  <1>6. turns'[t] > 0
    BY <1>1 DEF OwnerInv, Owning, Owns
  <1>7. TransferOk(t)'
    BY <1>1, <1>2, <1>5, <1>6 DEF TransferOk, Owned, Live, Listed, InFlight, Shape
  <1>8. PcInv'
    BY <1>4 DEF PcInv, Submitting, Completing, Closing, Procs, Shape
  <1>9. QED
    BY <1>2, <1>3, <1>4, <1>7, <1>8

\* The numbers taken are finitely many, so there is a lowest one that is not.
LEMMA FreshNumber ==
  ASSUME Shape
  PROVE  LET fd == CHOOSE n \in 1 .. Cardinality(crt) + 1 : n \notin crt
         IN fd \in Nat \ {0, 1} /\ fd \notin crt
  <1>1. Cardinality(crt) \in Nat
    BY FS_CardinalityType DEF Shape
  <1> DEFINE c == Cardinality(crt)
  <1>2. IsFiniteSet(1 .. c + 1) /\ Cardinality(1 .. c + 1) = c + 1
    BY <1>1, UpTo
  <1>3. \E n \in 1 .. c + 1 : n \notin crt
    <2>1. SUFFICES ASSUME 1 .. c + 1 \subseteq crt PROVE FALSE
      OBVIOUS
    <2>2. Cardinality(1 .. c + 1) <= c
      BY <2>1, FS_Subset DEF Shape
    <2>3. QED
      BY <1>1, <1>2, <2>2
  <1>4. QED
    BY <1>1, <1>3 DEF Shape

\* Numbers of entries are in use, but those of entries being freed.
LEMMA EntriesTyped ==
  ASSUME PollAssumption, Shape, TableInv, NEW i \in Slots
  PROVE  /\ poll_fd[i].fd \in crt \cup {-1} \/ BeingFreed(i)
         /\ poll_fd[i].fd \in Int /\ (poll_fd[i].fd < 0 => poll_fd[i] = INVALID_WINFD)
         /\ poll_fd[i].fd = -1 => poll_fd[i] = INVALID_WINFD
  <1>1. \/ poll_fd[i] = INVALID_WINFD \/ poll_fd[i] = PipeEntry \/ poll_fd[i].fd \in crt
        \/ BeingFreed(i) /\ poll_fd[i].fd \in Nat
    BY DEF TableInv, HasEntry
  <1>2. INVALID_WINFD.fd = -1 /\ PipeEntry.fd = 1 /\ 1 \in crt /\ \A n \in crt : n \in Nat
    BY DEF INVALID_WINFD, PipeEntry, Shape
  <1>3. CASE poll_fd[i] = INVALID_WINFD
    BY <1>2, <1>3
  <1>4. CASE poll_fd[i].fd \in crt
    <2>1. poll_fd[i].fd \in Nat
      BY <1>2, <1>4
    <2>2. QED
      BY <1>4, <2>1
  <1>5. QED
    BY <1>1, <1>2, <1>3, <1>4

\* usbi_create_fd gives a number out and allots a structure.
LEMMA CreateStep ==
  ASSUME PollAssumption, IInv, NEW p \in Procs, NEW t \in Transfers, cur[p] = t, At(p, "prepare"), pollable_fd' = [pollable_fd EXCEPT ![cur[p]] = -1],
         CreateFd(p), Goto(p, "look"),
         UNCHANGED <<flying, cur, poll_fd, pollfds, pollfd_modify, events_lock, pollVars, turns>>
  PROVE  IInv'
  <1> DEFINE fd == CHOOSE n \in 1 .. Cardinality(crt) + 1 : n \notin crt
  <1> USE Given DEF IInv
  <1>1. Owning(p) /\ OwnerInv(p, t) /\ ~InFlight(t) /\ \A q \in Procs : cur[q] = t /\ Owning(q) => q = p
    BY Owner DEF At, Owning
  <1>2. fd \in Nat \ {0, 1} /\ fd \notin crt
    BY FreshNumber
  <1>3. /\ crt' = crt \cup {fd} /\ wfd' = [wfd EXCEPT ![p] = fd] /\ at' = [at EXCEPT ![p] = 1]
        /\ overlapped' = [overlapped EXCEPT ![t] = NewOverlapped] /\ pc' = [pc EXCEPT ![p] = "look"]
        /\ cur' = cur /\ poll_fd' = poll_fd /\ Slots' = Slots /\ flying' = flying /\ turns' = turns
        /\ pollable_fd' = [pollable_fd EXCEPT ![t] = -1]
    BY DEF CreateFd, Goto, Slots
  <1> HIDE DEF fd
  <1>4. Shape'
    <2>1. crt' \subseteq Nat \ {0} /\ IsFiniteSet(crt') /\ 1 \in crt'
      BY <1>2, <1>3, FS_AddElement DEF Shape
    <2>2. overlapped' \in [Owners -> Overlapped] /\ pollable_fd' \in [Transfers -> Int]
      <3>1. NewOverlapped \in Overlapped /\ t \in Owners /\ -1 \in Int
        BY DEF Overlapped, NewOverlapped, Owners
      <3>2. QED
        BY <1>3, <3>1 DEF Shape
    <2>3. at' \in [Procs -> Nat] /\ wfd' \in [Procs -> Nat]
      BY <1>2, <1>3 DEF Shape
    <2>4. /\ poll_fd' = poll_fd /\ flying' = flying /\ cur' = cur /\ pollfds' = pollfds /\ events_lock' = events_lock
          /\ fds' = fds /\ k' = k /\ turns' = turns
      BY <1>3 DEF pollVars
    <2>5. /\ \E n \in Tables : poll_fd' \in [1 .. n -> Entry]
          /\ flying' \in Seq(Transfers) /\ IsInjective(flying')
          /\ pollfds' \in Seq(Pollfd) /\ events_lock' \in Procs \cup {None}
          /\ cur' \in [Procs -> Transfers \cup {None}] /\ fds' \in Seq(Snapped) /\ k' \in Nat
      BY <2>4 DEF Shape
    <2>6. turns' \in [Transfers -> Nat] /\ \A u \in Transfers : turns'[u] <= MaxTurns[u]
      BY <2>4 DEF Shape
    <2>7. QED
      BY <2>1, <2>2, <2>3, <2>5, <2>6 DEF Shape
  <1>5. PcInv'
    BY <1>1, <1>3 DEF PcInv, Submitting, Completing, Closing, Procs, Shape, At
  <1>6. Work(p, {t})
    BY <1>1, <1>3 DEF Work, Owning, Listed, Entered, Slots, Shape, PcInv, Owners
  <1>7. TransferOk(t)'
    <2>1. \A q \in Procs : Owns(q, t)' <=> q = p
      BY <1>1, <1>3 DEF Owns, Owning, Shape, PcInv, At
    <2>2. Listed(t)' /\ overlapped'[t] = NewOverlapped /\ turns'[t] > 0 /\ pollable_fd'[t] = -1 /\ pc'[p] = "look"
      BY <1>1, <1>3 DEF OwnerInv, Listed, Shape, Owns, PcInv, At, Owners
    <2>3. OwnerInv(p, t)'
      BY <2>1, <2>2 DEF OwnerInv, Live, NewOverlapped
    <2>4. QED
      BY <2>1, <2>2, <2>3 DEF TransferOk, Owned, InFlight, IoCompleted, NewOverlapped
  <1>8. \A q \in Procs : IF q = p THEN pc'[q] = "look" /\ wfd'[q] = fd ELSE pc'[q] = pc[q] /\ wfd'[q] = wfd[q]
    BY <1>3 DEF PcInv, Shape
  <1>9. NumberInv'
    <2>1. \A i \in Slots : ~BeingFreed(i) => poll_fd[i].fd # fd
      BY <1>2, EntriesTyped
    <2>2. \A q \in Procs : Creating(q)' => wfd'[q] \in crt' \ {1} /\ \A i \in Slots : ~BeingFreed(i) => poll_fd[i].fd # wfd'[q]
      BY <1>2, <1>3, <1>8, <2>1 DEF NumberInv, Creating
    <2>3. \A q, r \in Procs : Creating(q)' /\ Creating(r)' /\ q # r => wfd'[q] # wfd'[r]
      BY <1>2, <1>8 DEF NumberInv, Creating
    <2>4. QED
      BY <1>3, <2>2, <2>3 DEF NumberInv, BeingFreed
  <1>10. TableInv'
    <2>1. ASSUME NEW u \in Transfers, NEW i \in Slots, HasEntry(i, u)
          PROVE  Live(u)' /\ \A q \in Procs : Creating(q)' => cur'[q] # u
      <3>1. u # t
        BY <1>1, <2>1 DEF HasEntry, OwnerInv, At
      <3>2. Live(u)'
        BY <1>3, <2>1, <3>1 DEF HasEntry, Live, Shape, Owners
      <3>3. QED
        BY <1>3, <1>8, <2>1, <3>1, <3>2 DEF HasEntry, Creating
    <2>2. QED
      BY <1>3, <2>1, TableKept
  <1>11. overlapped'[Pipe] = overlapped[Pipe]
    BY <1>1, <1>3 DEF Shape, Owners
  <1>12. CountInv'
    BY <1>3, <1>8, <1>11, CountKept DEF PcInv, At
  <1>13. QED
    <2>1. pc[p] = "prepare" /\ pc'[p] = "look"
      BY <1>8 DEF At
    <2>2. QED
      BY <1>1, <1>3, <1>4, <1>5, <1>6, <1>7, <1>9, <1>10, <1>11, <1>12, <2>1, Mostly DEF pollVars

\* A number is given back, and what is left is as it was.
LEMMA GiveBackOne ==
  ASSUME PollAssumption, Shape, PcInv, TableInv, NumberInv, PollInv, pc[Handler] \notin Closing,
         NEW p \in Procs, NEW t \in Transfers, NEW n, Entered(t, n), GiveBack(p, n),
         \A q \in Procs : Creating(q)' => Creating(q) /\ cur'[q] = cur[q] /\ wfd'[q] = wfd[q]
  PROVE  /\ \E m \in Tables : poll_fd' \in [1 .. m -> Entry]
         /\ Slots' = Slots /\ poll_fd'[1] = poll_fd[1] /\ overlapped' = [overlapped EXCEPT ![t] = NoOverlapped]
         /\ crt' \subseteq Nat \ {0} /\ IsFiniteSet(crt') /\ 1 \in crt' /\ at' \in [Procs -> Nat]
         /\ \A u \in Transfers \ {t} : \A m : Entered(u, m) => Entered(u, m)'
         /\ TableInv' /\ NumberInv'
         /\ \E i \in Slots : /\ at' = [at EXCEPT ![p] = i] /\ ~BeingFreed(i) /\ BeingFreed(i)'
                             /\ \A j \in Slots \ {i} : poll_fd'[j] = poll_fd[j]
  <1> USE Given
  <1>1. PICK i \in Slots : poll_fd[i] = EntryOf(t, n)
    BY DEF Entered
  <1>2. /\ poll_fd[i].fd = n /\ poll_fd[i].overlapped = t /\ poll_fd[i] # INVALID_WINFD /\ poll_fd[i] # PipeEntry
        /\ ~BeingFreed(i)
    BY <1>1 DEF EntryOf, INVALID_WINFD, PipeEntry, BeingFreed
  <1>3. HasEntry(i, t) /\ n \in crt \ {1}
    <2>1. PICK u \in Transfers : HasEntry(i, u)
      BY <1>2 DEF TableInv
    <2>2. u = t
      BY <1>2, <2>1 DEF HasEntry, EntryOf
    <2>3. QED
      BY <1>2, <2>1, <2>2 DEF HasEntry
  <1>4. Index(n) = i /\ \A j \in Slots : poll_fd[j].fd = n /\ ~BeingFreed(j) => j = i
    BY <1>2, IndexIs
  <1>5. i # 0 /\ i \in Nat
    BY DEF Slots, Shape, PollAssumption
  <1>6. /\ poll_fd' = [poll_fd EXCEPT ![i].overlapped = Freed]
        /\ overlapped' = [overlapped EXCEPT ![t] = NoOverlapped]
        /\ crt' = crt \ {n} /\ at' = [at EXCEPT ![p] = i]
    BY <1>2, <1>4, <1>5 DEF GiveBack
  <1>7. i # 1 /\ 1 \in Slots
    BY <1>2 DEF PollInv
  <1>8. Slots' = Slots /\ poll_fd'[1] = poll_fd[1] /\ at' \in [Procs -> Nat]
    BY <1>5, <1>6, <1>7 DEF Slots, Shape
  <1>12. \A j \in Slots \ {i} : poll_fd'[j] = poll_fd[j] /\ (BeingFreed(j)' <=> BeingFreed(j)) /\ (~BeingFreed(j) => poll_fd[j].fd # n)
    BY <1>4, <1>6 DEF BeingFreed, Slots
  <1>13. poll_fd'[i].overlapped = Freed /\ poll_fd'[i].fd = n /\ BeingFreed(i)'
    BY <1>1, <1>6 DEF EntryOf, Slots, BeingFreed
  <1>9. \E m \in Tables : poll_fd' \in [1 .. m -> Entry]
    <2>1. PICK m \in Tables : poll_fd \in [1 .. m -> Entry]
      BY DEF Shape
    <2>2. poll_fd[i] \in Entry /\ i \in 1 .. m
      BY <2>1 DEF Slots
    <2> DEFINE e == [poll_fd[i] EXCEPT !.overlapped = Freed]
    <2>3. e \in Entry
      BY <2>2 DEF Entry
    <2>4. poll_fd' = [poll_fd EXCEPT ![i] = e]
      BY <1>6, <2>1, <2>2
    <2> HIDE DEF e
    <2>5. QED
      BY <2>1, <2>2, <2>3, <2>4
  <1>10. crt' \subseteq Nat \ {0} /\ IsFiniteSet(crt') /\ 1 \in crt'
    BY <1>3, <1>6, FS_RemoveElement DEF Shape
  <1>11. ASSUME NEW u \in Transfers \ {t}, NEW m, Entered(u, m) PROVE Entered(u, m)'
    <2>1. PICK j \in Slots : poll_fd[j] = EntryOf(u, m)
      BY <1>11 DEF Entered
    <2>2. j # i
      BY <1>2, <2>1 DEF EntryOf
    <2>3. poll_fd'[j] = EntryOf(u, m)
      BY <1>12, <2>1, <2>2
    <2>4. QED
      BY <1>8, <2>3 DEF Entered, EntryOf
  <1>14. ASSUME NEW j \in Slots \ {i}, NEW u \in Transfers, HasEntry(j, u) PROVE HasEntry(j, u)'
    <2>1. poll_fd[j].overlapped = u /\ poll_fd[j] # INVALID_WINFD /\ ~BeingFreed(j)
      BY <1>14 DEF HasEntry, EntryOf, INVALID_WINFD, BeingFreed
    <2>2. u # t
      BY <1>2, <2>1 DEF TableInv
    <2>3. Live(u)'
      BY <1>6, <1>14, <2>2 DEF HasEntry, Live, Shape, Owners
    <2>4. poll_fd'[j].fd \in crt' \ {1}
      BY <1>6, <1>12, <1>14, <2>1 DEF HasEntry
    <2>5. QED
      BY <1>12, <1>14, <2>3, <2>4 DEF HasEntry, EntryOf
  <1>15. TableInv'
    <2>1. \A j \in Slots : \/ poll_fd'[j] = INVALID_WINFD
                           \/ j = 1 /\ poll_fd'[j] = PipeEntry
                           \/ \E u \in Transfers : HasEntry(j, u)'
                           \/ BeingFreed(j)' /\ poll_fd'[j].fd \in Nat
      <3> TAKE j \in Slots
      <3>1. CASE j = i
        BY <1>3, <1>13, <3>1 DEF Shape
      <3>2. CASE j # i
        BY <1>12, <1>14, <3>2 DEF TableInv
      <3>3. QED
        BY <3>1, <3>2
    <2>2. \A j, l \in Slots : j # l /\ poll_fd'[j] # INVALID_WINFD /\ ~BeingFreed(j)' =>
            (poll_fd'[j].fd = poll_fd'[l].fd => BeingFreed(l)') /\ poll_fd'[j].overlapped # poll_fd'[l].overlapped
      <3> TAKE j, l \in Slots
      <3>1. SUFFICES ASSUME j # l, poll_fd'[j] # INVALID_WINFD, ~BeingFreed(j)'
            PROVE (poll_fd'[j].fd = poll_fd'[l].fd => BeingFreed(l)') /\ poll_fd'[j].overlapped # poll_fd'[l].overlapped
        OBVIOUS
      <3>2. j # i /\ poll_fd'[j] = poll_fd[j] /\ poll_fd[j] # INVALID_WINFD /\ ~BeingFreed(j)
        BY <1>12, <1>13, <3>1
      <3>3. CASE l # i
        BY <1>12, <3>1, <3>2, <3>3 DEF TableInv
      <3>4. CASE l = i
        BY <1>13, <3>2, <3>4 DEF BeingFreed
      <3>5. QED
        BY <3>3, <3>4
    <2>3. QED
      BY <1>8, <2>1, <2>2 DEF TableInv, INVALID_WINFD, PipeEntry
  <1>16. NumberInv'
    <2>1. \A q \in Procs : Creating(q)' => wfd[q] # n
      BY <1>2 DEF NumberInv
    <2>2. \A q \in Procs : Creating(q)' => wfd'[q] \in crt' \ {1} /\ \A j \in Slots : ~BeingFreed(j)' => poll_fd'[j].fd # wfd'[q]
      BY <1>6, <1>12, <1>13, <2>1 DEF NumberInv
    <2>3. QED
      BY <1>8, <2>2 DEF NumberInv
  <1>17. QED
    BY <1>2, <1>6, <1>8, <1>9, <1>10, <1>11, <1>12, <1>13, <1>15, <1>16

\* Its entry is emptied, and the others are as they were.
LEMMA EmptyOne ==
  ASSUME PollAssumption, Shape, FreedInv, TableInv, NumberInv, PollInv, pc[Handler] \notin Closing,
         NEW p \in Procs, Freeing(p), Empty(p),
         \A q \in Procs : Creating(q)' => Creating(q) /\ cur'[q] = cur[q] /\ wfd'[q] = wfd[q]
  PROVE  /\ \E m \in Tables : poll_fd' \in [1 .. m -> Entry]
         /\ Slots' = Slots /\ poll_fd'[1] = poll_fd[1]
         /\ \A u \in Transfers : \A m : Entered(u, m) => Entered(u, m)'
         /\ TableInv' /\ NumberInv'
  <1> USE Given
  <1>1. PICK i \in Slots : i = at[p] /\ BeingFreed(i)
    BY DEF FreedInv
  <1>2. poll_fd' = [j \in Slots |-> IF j = i THEN INVALID_WINFD ELSE poll_fd[j]] /\ overlapped' = overlapped /\ crt' = crt
    BY <1>1 DEF Empty
  <1>3. i # 1 /\ 1 \in Slots
    BY <1>1 DEF PollInv, PipeEntry, BeingFreed, Pipe, Freed
  <1>4. Slots' = Slots /\ poll_fd'[1] = poll_fd[1]
    BY <1>2, <1>3 DEF Slots, Shape
  <1>5. poll_fd'[i] = INVALID_WINFD /\ ~BeingFreed(i)' /\ \A j \in Slots \ {i} : poll_fd'[j] = poll_fd[j] /\ (BeingFreed(j)' <=> BeingFreed(j))
    BY <1>2 DEF BeingFreed, INVALID_WINFD, None, Freed
  <1>6. \E m \in Tables : poll_fd' \in [1 .. m -> Entry]
    <2>1. PICK m \in Tables : poll_fd \in [1 .. m -> Entry]
      BY DEF Shape
    <2>2. INVALID_WINFD \in Entry /\ Slots = 1 .. m
      BY <2>1 DEF INVALID_WINFD, Entry, Slots
    <2>3. poll_fd' \in [1 .. m -> Entry]
      BY <1>2, <2>1, <2>2
    <2>4. QED
      BY <2>3
  <1>7. ASSUME NEW u \in Transfers, NEW m, Entered(u, m) PROVE Entered(u, m)'
    <2>1. PICK j \in Slots : poll_fd[j] = EntryOf(u, m)
      BY <1>7 DEF Entered
    <2>2. j # i
      BY <1>1, <2>1 DEF EntryOf, BeingFreed
    <2>3. poll_fd'[j] = EntryOf(u, m)
      BY <1>5, <2>1, <2>2
    <2>4. QED
      BY <1>4, <2>3 DEF Entered, EntryOf
  <1>8. ASSUME NEW j \in Slots, NEW u \in Transfers, HasEntry(j, u) PROVE HasEntry(j, u)'
    <2>1. j # i
      BY <1>1, <1>8 DEF HasEntry, EntryOf, BeingFreed
    <2>2. QED
      BY <1>2, <1>5, <1>8, <2>1 DEF HasEntry, EntryOf, Live
  <1>9. TableInv'
    <2>1. \A j \in Slots : \/ poll_fd'[j] = INVALID_WINFD
                           \/ j = 1 /\ poll_fd'[j] = PipeEntry
                           \/ \E u \in Transfers : HasEntry(j, u)'
                           \/ BeingFreed(j)' /\ poll_fd'[j].fd \in Nat
      <3> TAKE j \in Slots
      <3>1. CASE j = i
        BY <1>5, <3>1
      <3>2. CASE j # i
        BY <1>5, <1>8, <3>2 DEF TableInv
      <3>3. QED
        BY <3>1, <3>2
    <2>2. \A j, l \in Slots : j # l /\ poll_fd'[j] # INVALID_WINFD /\ ~BeingFreed(j)' =>
            (poll_fd'[j].fd = poll_fd'[l].fd => BeingFreed(l)') /\ poll_fd'[j].overlapped # poll_fd'[l].overlapped
      <3> TAKE j, l \in Slots
      <3>1. SUFFICES ASSUME j # l, poll_fd'[j] # INVALID_WINFD, ~BeingFreed(j)'
            PROVE (poll_fd'[j].fd = poll_fd'[l].fd => BeingFreed(l)') /\ poll_fd'[j].overlapped # poll_fd'[l].overlapped
        OBVIOUS
      <3>2. j # i /\ poll_fd'[j] = poll_fd[j] /\ poll_fd[j] # INVALID_WINFD /\ ~BeingFreed(j)
        BY <1>5, <3>1
      <3>3. CASE l # i
        BY <1>5, <3>1, <3>2, <3>3 DEF TableInv
      <3>4. CASE l = i
        <4>1. poll_fd[j].fd # -1 /\ poll_fd[j].overlapped # None
          <5>1. CASE poll_fd[j] = PipeEntry
            BY <5>1 DEF PipeEntry, Pipe, None
          <5>2. ASSUME NEW u \in Transfers, HasEntry(j, u) PROVE poll_fd[j].fd # -1 /\ poll_fd[j].overlapped # None
            <6>1. poll_fd[j].overlapped = u /\ poll_fd[j].fd \in Nat
              BY <5>2 DEF HasEntry, EntryOf, Shape
            <6>2. QED
              BY <6>1
          <5>3. QED
            BY <3>2, <5>1, <5>2 DEF TableInv
        <4>2. QED
          BY <1>5, <3>2, <3>4, <4>1 DEF INVALID_WINFD
      <3>5. QED
        BY <3>3, <3>4
    <2>3. QED
      BY <1>4, <2>1, <2>2 DEF TableInv, INVALID_WINFD, PipeEntry
  <1>10. NumberInv'
    <2>1. INVALID_WINFD.fd = -1 /\ \A q \in Procs : wfd[q] # -1
      BY DEF INVALID_WINFD, Shape
    <2>2. \A q \in Procs : Creating(q)' => wfd'[q] \in crt' \ {1} /\ \A j \in Slots : ~BeingFreed(j)' => poll_fd'[j].fd # wfd'[q]
      BY <1>2, <1>5, <2>1 DEF NumberInv
    <2>3. QED
      BY <1>4, <2>2 DEF NumberInv
  <1>11. QED
    BY <1>4, <1>6, <1>7, <1>9, <1>10

\* Who gives a number back, because its request was refused or has ended
LEMMA GiveBackStep ==
  ASSUME PollAssumption, IInv, NEW p \in Procs, NEW t \in Transfers, cur[p] = t, NEW n, Entered(t, n), GiveBack(p, n),
         NEW l, (pc[p] = "start" /\ l = "undo") \/ (pc[p] = "clear" /\ l = "empty"), pc' = [pc EXCEPT ![p] = l],
         UNCHANGED <<flying, pollable_fd, pollfds, pollfd_modify, events_lock, cur, wfd, fds, k, astray, turns>>
  PROVE  IInv'
  <1> USE Given DEF IInv
  <1>1. Owning(p) /\ OwnerInv(p, t) /\ ~InFlight(t) /\ Owned(t)
    BY Owner DEF Owning
  <1>2. \A q \in Procs : IF q = p THEN pc'[q] = l ELSE pc'[q] = pc[q]
    BY DEF PcInv
  <1>3. pc[Handler] \notin Closing
    BY AtWork
  <1>4. \A q \in Procs : Creating(q)' => Creating(q) /\ cur'[q] = cur[q] /\ wfd'[q] = wfd[q]
    BY <1>2 DEF Creating
  <1>5. /\ \E m \in Tables : poll_fd' \in [1 .. m -> Entry]
        /\ Slots' = Slots /\ poll_fd'[1] = poll_fd[1] /\ overlapped' = [overlapped EXCEPT ![t] = NoOverlapped]
        /\ crt' \subseteq Nat \ {0} /\ IsFiniteSet(crt') /\ 1 \in crt' /\ at' \in [Procs -> Nat]
        /\ \A u \in Transfers \ {t} : \A m : Entered(u, m) => Entered(u, m)'
        /\ TableInv' /\ NumberInv' /\ \A q \in Procs \ {p} : at'[q] = at[q]
    BY <1>3, <1>4, GiveBackOne DEF Shape
  <1>6. ~overlapped'[t].live /\ ~overlapped'[t].event /\ overlapped' \in [Owners -> Overlapped]
    <2>1. NoOverlapped \in Overlapped /\ ~NoOverlapped.live /\ ~NoOverlapped.event /\ t \in Owners
      BY DEF Overlapped, NoOverlapped, NewOverlapped, Owners
    <2>2. QED
      BY <1>5, <2>1 DEF Shape
  <1>7. \A o \in Owners \ {t} : overlapped'[o] = overlapped[o]
    BY <1>5 DEF Shape
  <1>8. Shape'
    BY <1>5, <1>6 DEF Shape
  <1>9. PcInv'
    BY <1>2, <1>5 DEF PcInv, Submitting, Completing, Closing, Procs
  <1>10. Work(p, {t})
    BY <1>1, <1>2, <1>5, <1>7 DEF Work, Listed, Owning, Owners
  <1>11. TransferOk(t)'
    <2>1. \A q \in Procs : (Owns(q, t)' <=> Owns(q, t)) /\ (Owns(q, t) => q = p)
      BY <1>1, <1>2 DEF Owns, Owning, OwnerInv
    <2>2. Listed(t)' /\ ~Live(t)' /\ turns'[t] > 0 /\ Owned(t)'
      BY <1>1, <1>6, <2>1 DEF Listed, Live, OwnerInv, Owned
    <2>3. OwnerInv(p, t)'
      BY <1>1, <1>2, <2>1, <2>2 DEF OwnerInv
    <2>4. \A q \in Procs : Owns(q, t)' => OwnerInv(q, t)'
      BY <2>1, <2>3
    <2>5. QED
      BY <1>6, <2>2, <2>4 DEF TransferOk, InFlight, Live
  <1>12. overlapped'[Pipe] = overlapped[Pipe]
    BY <1>7 DEF Owners
  <1>13. CountInv'
    BY <1>2, <1>8, <1>9, <1>12, CountKept DEF PcInv
  <1>14. /\ pc[p] \notin {"idle", "closed", "exited", "scan", "try", "release"} /\ pc'[p] \notin {"closed", "exited", "scan"}
         /\ 1 \in Slots => 1 \in Slots' /\ poll_fd'[1] = poll_fd[1]
    BY <1>2, <1>5
  <1>15. TableInv' /\ NumberInv'
    BY <1>5
  <1> HIDE DEF IInv
  <1>16. QED
    BY <1>1, <1>8, <1>9, <1>10, <1>11, <1>12, <1>13, <1>14, <1>15, Mostly

\* A submission that fails takes everything back.
LEMMA RefusedStep ==
  ASSUME PollAssumption, IInv, NEW p \in Procs, NEW t \in Transfers, cur[p] = t, Owning(p), pc[p] \notin {"clear", "empty", "callback"}, Refused(p),
         ~overlapped'[t].live, ~overlapped'[t].event, overlapped' \in [Owners -> Overlapped],
         \A o \in Owners \ {t} : overlapped'[o] = overlapped[o],
         pollable_fd' \in [Transfers -> Int], \A u \in Transfers \ {t} : pollable_fd'[u] = pollable_fd[u],
         \E m \in Tables : poll_fd' \in [1 .. m -> Entry],
         Slots' = Slots, 1 \in Slots => poll_fd'[1] = poll_fd[1],
         crt' \subseteq Nat \ {0}, IsFiniteSet(crt'), 1 \in crt',
         \A u \in Transfers \ {t} : \A m : Entered(u, m) => Entered(u, m)',
         (\A q \in Procs : Creating(q)' => Creating(q) /\ q # p /\ cur'[q] = cur[q] /\ wfd'[q] = wfd[q]) => TableInv' /\ NumberInv',
         UNCHANGED <<pollfds, pollfd_modify, events_lock, pollVars, turns>>
  PROVE  IInv'
  <1> USE Given DEF IInv
  <1>1. /\ flying' \in Seq(Transfers) /\ IsInjective(flying') /\ ToSet(flying') = ToSet(flying) \ {t}
        /\ cur' \in [Procs -> Transfers \cup {None}] /\ at' \in [Procs -> Nat] /\ wfd' \in [Procs -> Nat]
        /\ pc' = [pc EXCEPT ![p] = IF p = Handler THEN "next" ELSE "idle"] /\ PcInv'
        /\ TransferOk(t)'
    BY GivenUp
  <1>2. cur' = [cur EXCEPT ![p] = None] /\ wfd' = [wfd EXCEPT ![p] = 0]
    BY DEF Refused, Back
  <1>3. \A q \in Procs : IF q = p THEN pc'[q] \in {"next", "idle"} /\ cur'[q] = None
                         ELSE pc'[q] = pc[q] /\ cur'[q] = cur[q] /\ wfd'[q] = wfd[q]
    BY <1>1, <1>2 DEF PcInv, Shape
  <1>4. Shape'
    BY <1>1 DEF Shape, pollVars
  <1>5. Work(p, {t})
    BY <1>1, <1>3 DEF Work, Owning, Listed, Owners
  <1>6. TableInv' /\ NumberInv'
    BY <1>3 DEF Creating
  <1>7. overlapped'[Pipe] = overlapped[Pipe]
    BY DEF Owners
  <1>8. pc[p] \in {"prepare", "look", "claim", "start", "undo", "add"}
    BY DEF Owning
  <1>9. CountInv'
    BY <1>3, <1>4, <1>7, <1>8, CountKept, <1>1 DEF PcInv
  <1>10. ~InFlight(t)
    BY Owner
  <1>11. /\ pc[p] \notin {"idle", "closed", "exited", "scan", "try", "release"} /\ pc'[p] \notin {"closed", "exited", "scan"}
         /\ pollfds' = pollfds /\ fds' = fds /\ k' = k /\ astray' = astray
         /\ 1 \in Slots => 1 \in Slots' /\ poll_fd'[1] = poll_fd[1]
    BY <1>3, <1>8 DEF pollVars
  <1> HIDE DEF IInv
  <1>12. QED
    BY <1>1, <1>4, <1>5, <1>6, <1>7, <1>9, <1>10, <1>11, Mostly

\* The first part of winusb_submit_bulk_transfer
LEMMA PrepareStep ==
  ASSUME PollAssumption, IInv, NEW p \in Procs, Prepare(p)
  PROVE  IInv'
  <1> USE Given DEF IInv
  <1>1. PICK t \in Transfers : cur[p] = t /\ Owning(p) /\ OwnerInv(p, t) /\ pc[p] = "prepare"
    BY Owner DEF Prepare, At, Owning
  <1>2. CASE CreateFd(p) /\ Goto(p, "look") /\ UNCHANGED <<flying, cur>>
    BY <1>1, <1>2, CreateStep DEF Prepare
  <1>3. CASE Refused(p) /\ UNCHANGED <<crt, overlapped>>
    <2>1. pollable_fd' = [pollable_fd EXCEPT ![t] = -1] /\ poll_fd' = poll_fd /\ Slots' = Slots
      BY <1>1 DEF Prepare, Slots
    <2>2. ~overlapped'[t].live /\ ~overlapped'[t].event
      BY <1>1, <1>3 DEF OwnerInv, Live, TransferInv, TransferOk
    <2>3. pollable_fd' \in [Transfers -> Int] /\ \A u \in Transfers \ {t} : pollable_fd'[u] = pollable_fd[u]
      BY <2>1 DEF Shape
    <2>4. \A u \in Transfers : \A m : Entered(u, m) => Entered(u, m)'
      BY <2>1 DEF Entered, EntryOf
    <2>5. ASSUME \A q \in Procs : Creating(q)' => Creating(q) /\ q # p /\ cur'[q] = cur[q] /\ wfd'[q] = wfd[q]
          PROVE  TableInv' /\ NumberInv'
      <3>1. NumberInv'
        BY <1>3, <2>1, <2>5, NumbersKept
      <3>2. \A u \in Transfers : Live(u)' <=> Live(u)
        BY <1>3 DEF Live
      <3>3. TableInv'
        BY <1>3, <2>1, <2>5, <3>2, TableKept DEF HasEntry
      <3>4. QED
        BY <3>1, <3>3
    <2>6. overlapped' \in [Owners -> Overlapped] /\ \E m \in Tables : poll_fd' \in [1 .. m -> Entry]
      BY <1>3, <2>1 DEF Shape
    <2>7. crt' \subseteq Nat \ {0} /\ IsFiniteSet(crt') /\ 1 \in crt'
      BY <1>3 DEF Shape
    <2>8. UNCHANGED <<pollfds, pollfd_modify, events_lock, pollVars, turns>>
      BY DEF Prepare
    <2>9. QED
      BY <1>1, <1>3, <2>1, <2>2, <2>3, <2>4, <2>5, <2>6, <2>7, <2>8, RefusedStep
  <1>4. QED
    BY <1>2, <1>3 DEF Prepare

\* The table is full.
LEMMA NoEntryStep ==
  ASSUME PollAssumption, IInv, NEW p \in Procs, NoEntry(p)
  PROVE  IInv'
  <1> USE Given DEF IInv
  <1>1. PICK t \in Transfers : cur[p] = t /\ Owning(p) /\ OwnerInv(p, t) /\ pc[p] = "look"
    BY Owner DEF NoEntry, At, Owning
  <1>2. /\ overlapped' = [overlapped EXCEPT ![t] = NoOverlapped] /\ crt' = crt \ {wfd[p]}
        /\ poll_fd' = poll_fd /\ Slots' = Slots /\ pollable_fd' = pollable_fd /\ Refused(p)
    BY <1>1 DEF NoEntry, Slots
  <1>3. Creating(p) /\ wfd[p] # 1 /\ \A i \in Slots : ~BeingFreed(i) => poll_fd[i].fd # wfd[p]
    BY <1>1 DEF Creating, NumberInv
  <1>4. ~overlapped'[t].live /\ ~overlapped'[t].event /\ overlapped' \in [Owners -> Overlapped]
    <2>1. NoOverlapped \in Overlapped /\ ~NoOverlapped.live /\ ~NoOverlapped.event /\ t \in Owners
      BY DEF Overlapped, NoOverlapped, NewOverlapped, Owners
    <2>2. QED
      BY <1>2, <2>1 DEF Shape
  <1>5. \A o \in Owners \ {t} : overlapped'[o] = overlapped[o]
    BY <1>2 DEF Shape
  <1>6. crt' \subseteq Nat \ {0} /\ IsFiniteSet(crt') /\ 1 \in crt'
    BY <1>2, <1>3, FS_RemoveElement DEF Shape
  <1>7. \A u \in Transfers : \A m : Entered(u, m) => Entered(u, m)'
    BY <1>2 DEF Entered, EntryOf
  <1>8. ASSUME \A q \in Procs : Creating(q)' => Creating(q) /\ q # p /\ cur'[q] = cur[q] /\ wfd'[q] = wfd[q]
        PROVE  TableInv' /\ NumberInv'
    <2>1. NumberInv'
      BY <1>2, <1>3, <1>8 DEF NumberInv, BeingFreed
    <2>2. ASSUME NEW i \in Slots, NEW u \in Transfers, HasEntry(i, u) PROVE HasEntry(i, u)'
      <3>0. ~BeingFreed(i)
        BY <2>2 DEF HasEntry, EntryOf, BeingFreed
      <3>1. u # t /\ poll_fd[i].fd \in crt' \ {1}
        BY <1>1, <1>2, <1>3, <2>2, <3>0 DEF HasEntry
      <3>2. Live(u)'
        BY <1>5, <2>2, <3>1 DEF HasEntry, Live, Owners
      <3>3. QED
        BY <1>2, <1>8, <2>2, <3>1, <3>2 DEF HasEntry, EntryOf
    <2>3. TableInv'
      BY <1>2, <2>2 DEF TableInv, INVALID_WINFD, PipeEntry, BeingFreed
    <2>4. QED
      BY <2>1, <2>3
  <1>9. /\ pollable_fd' \in [Transfers -> Int] /\ \E m \in Tables : poll_fd' \in [1 .. m -> Entry]
        /\ UNCHANGED <<pollfds, pollfd_modify, events_lock, pollVars, turns>>
    BY <1>2 DEF Shape, NoEntry
  <1>10. QED
    BY <1>1, <1>2, <1>4, <1>5, <1>6, <1>7, <1>8, <1>9, RefusedStep

\* An entry is looked at without its lock.
LEMMA LookStep ==
  ASSUME PollAssumption, IInv, NEW p \in Procs, Look(p)
  PROVE  IInv'
  <1> USE Given DEF IInv
  <1>1. PICK t \in Transfers : cur[p] = t /\ Owning(p) /\ OwnerInv(p, t) /\ pc[p] = "look" /\ ~InFlight(t)
    BY Owner DEF Look, At, Owning
  <1>2. /\ poll_fd' = poll_fd /\ overlapped' = overlapped /\ crt' = crt /\ flying' = flying /\ pollable_fd' = pollable_fd
        /\ pollfds' = pollfds /\ pollfd_modify' = pollfd_modify /\ events_lock' = events_lock /\ cur' = cur /\ wfd' = wfd
        /\ fds' = fds /\ k' = k /\ astray' = astray /\ turns' = turns /\ Slots' = Slots
    BY DEF Look, tableVars, ctxVars, pollVars, Slots
  <1>3. pc' = [q \in Procs |-> pc'[q]] /\ at' \in [Procs -> Nat] /\ pc'[p] \in {"look", "claim"} /\ \A q \in Procs \ {p} : pc'[q] = pc[q] /\ at'[q] = at[q]
    <2>1. at[p] \in Slots /\ at[p] \in Nat
      BY DEF Look, Shape
    <2>2. CASE pc' = [pc EXCEPT ![p] = "claim"] /\ at' = at
      BY <2>2 DEF PcInv, Shape, Submitting, Completing, Closing
    <2>3. CASE pc' = pc /\ at' = [at EXCEPT ![p] = @ + 1]
      BY <1>1, <2>1, <2>3 DEF PcInv, Shape, Submitting, Completing, Closing
    <2>4. QED
      BY <2>2, <2>3 DEF Look, Goto
  <1>4. pc'[p] = "claim" => at'[p] \in Slots
    <2>1. CASE pc' = [pc EXCEPT ![p] = "claim"] /\ at' = at
      BY <2>1 DEF Look
    <2>2. CASE pc' = pc
      BY <1>1, <2>2
    <2>3. QED
      BY <2>1, <2>2 DEF Look, Goto
  <1>5. Shape'
    BY <1>2, <1>3 DEF Shape
  <1>6. PcInv'
    <2>2. \A q \in Procs : pc'[q] \in {"idle", "try", "scan", "next", "release"} \cup Submitting \cup Completing \cup Closing
      BY <1>3 DEF PcInv, Submitting
    <2>3. pc' \in [Procs -> {"idle", "try", "scan", "next", "release"} \cup Submitting \cup Completing \cup Closing]
      BY <1>3, <2>2
    <2>4. (\A q \in Threads : pc'[q] \in {"idle"} \cup Submitting) /\ pc'[Handler] # "idle"
      BY <1>3 DEF PcInv, Submitting, Procs
    <2>5. \A q \in Procs : pc'[q] \in Submitting \cup Completing => cur'[q] \in Transfers
      BY <1>1, <1>2, <1>3 DEF PcInv
    <2>6. \A q \in Procs : pc'[q] = "claim" => at'[q] \in Slots'
      BY <1>2, <1>3, <1>4 DEF PcInv
    <2>7. QED
      BY <2>3, <2>4, <2>5, <2>6 DEF PcInv
  <1>7. Work(p, {t})
    BY <1>1, <1>2, <1>3 DEF Work, Listed, Entered, EntryOf, Owning
  <1>8. TransferOk(t)'
    <2>1. \A q \in Procs : (Owns(q, t)' <=> Owns(q, t)) /\ (Owns(q, t) => q = p)
      BY <1>1, <1>2, <1>3 DEF Owns, Owning, OwnerInv
    <2>2. OwnerInv(p, t)'
      BY <1>1, <1>2, <1>3, <2>1 DEF OwnerInv, Listed, Live
    <2>3. TransferOk(t) /\ (Owned(t)' <=> Owned(t)) /\ (Live(t)' <=> Live(t)) /\ Owned(t)
      BY <1>1, <1>2, <2>1, Owner DEF TransferInv, Live, Owned
    <2>4. QED
      BY <1>2, <2>1, <2>2, <2>3 DEF TransferOk, InFlight, IoCompleted
  <1>9. \A q \in Procs : Creating(q)' <=> Creating(q)
    BY <1>1, <1>3 DEF Creating
  <1>10. NumberInv' /\ TableInv'
    <2>1. NumberInv'
      BY <1>2, <1>9, NumbersKept
    <2>2. TableInv'
      BY <1>2, <1>9, TableKept DEF HasEntry, Live
    <2>3. QED
      BY <2>1, <2>2
  <1>11. CountInv'
    BY <1>1, <1>2, <1>3, CountKept DEF PcInv
  <1>12. QED
    BY <1>1, <1>2, <1>3, <1>5, <1>6, <1>7, <1>8, <1>10, <1>11, Mostly

\* An entry is taken under its lock, if it is still free.
LEMMA ClaimStep ==
  ASSUME PollAssumption, IInv, NEW p \in Procs, Claim(p)
  PROVE  IInv'
  <1> USE Given DEF IInv
  <1>1. PICK t \in Transfers : cur[p] = t /\ Owning(p) /\ OwnerInv(p, t) /\ pc[p] = "claim" /\ ~InFlight(t)
    BY Owner DEF Claim, At, Owning
  <1>2. /\ overlapped' = overlapped /\ crt' = crt /\ flying' = flying /\ pollable_fd' = pollable_fd
        /\ pollfds' = pollfds /\ pollfd_modify' = pollfd_modify /\ events_lock' = events_lock /\ cur' = cur /\ wfd' = wfd
        /\ fds' = fds /\ k' = k /\ astray' = astray /\ turns' = turns
    BY DEF Claim, ctxVars, pollVars
  <1>3. at[p] \in Slots /\ at[p] \in Nat
    BY <1>1 DEF PcInv, Shape
  <1>0. \A q \in Procs : Owns(q, t) => q = p
    BY <1>1 DEF OwnerInv
  <1>4. CASE poll_fd[at[p]].fd >= 0
    <2>1. pc' = [pc EXCEPT ![p] = "look"] /\ at' = [at EXCEPT ![p] = @ + 1] /\ poll_fd' = poll_fd /\ Slots' = Slots
      BY <1>4 DEF Claim, Goto, Slots
    <2>2. Shape'
      <3>1. at' \in [Procs -> Nat]
        BY <1>3, <2>1 DEF Shape
      <3>2. QED
        BY <1>2, <2>1, <3>1 DEF Shape
    <2>3. PcInv'
      BY <1>1, <1>2, <2>1 DEF PcInv, Submitting, Completing, Closing, Procs, Shape
    <2>4. \A q \in Procs : IF q = p THEN pc'[q] = "look" ELSE pc'[q] = pc[q]
      BY <2>1 DEF PcInv
    <2>5. Work(p, {t})
      BY <1>1, <1>2, <2>1, <2>4 DEF Work, Listed, Entered, EntryOf, Owning
    <2>6. TransferOk(t)'
      <3>1. \A q \in Procs : (Owns(q, t)' <=> Owns(q, t)) /\ (Owns(q, t) => q = p)
        BY <1>1, <1>2, <1>0, <2>4 DEF Owns, Owning
      <3>2. OwnerInv(p, t)'
        BY <1>1, <1>2, <2>4, <3>1 DEF OwnerInv, Listed, Live
      <3>3. TransferOk(t) /\ (Owned(t)' <=> Owned(t)) /\ (Live(t)' <=> Live(t)) /\ Owned(t)
        BY <1>1, <1>2, <3>1, Owner DEF TransferInv, Live, Owned
      <3>4. QED
        BY <1>2, <3>1, <3>2, <3>3 DEF TransferOk, InFlight, IoCompleted
    <2>7. \A q \in Procs : Creating(q)' <=> Creating(q)
      BY <1>1, <2>4 DEF Creating
    <2>8. NumberInv'
      BY <1>2, <2>1, <2>7, NumbersKept
    <2>9. TableInv'
      BY <1>2, <2>1, <2>7, TableKept DEF HasEntry, Live
    <2>10. CountInv'
      BY <1>1, <1>2, <2>2, <2>3, <2>4, CountKept DEF PcInv
    <2>11. QED
      BY <1>1, <1>2, <2>1, <2>2, <2>3, <2>4, <2>5, <2>6, <2>8, <2>9, <2>10, Mostly
  <1>5. CASE ~(poll_fd[at[p]].fd >= 0)
    <2>0. PICK i \in Slots : i = at[p]
      BY <1>3
    <2>1. pc' = [pc EXCEPT ![p] = "start"] /\ at' = at /\ poll_fd' = [poll_fd EXCEPT ![i] = EntryOf(t, wfd[p])] /\ Slots' = Slots
      BY <1>1, <1>5, <2>0 DEF Claim, Goto, Slots, EntryOf
    <2>2. poll_fd[i] = INVALID_WINFD /\ i \in Slots
      BY <1>3, <1>5, <2>0, EntriesTyped
    <2>3. Creating(p) /\ wfd[p] \in crt \ {1} /\ wfd[p] \in Nat /\ \A j \in Slots : ~BeingFreed(j) => poll_fd[j].fd # wfd[p]
      BY <1>1 DEF Creating, NumberInv, Shape
    <2>4. \A q \in Procs : IF q = p THEN pc'[q] = "start" ELSE pc'[q] = pc[q]
      BY <2>1 DEF PcInv
    <2>5. Shape'
      <3>1. PICK m \in Tables : poll_fd \in [1 .. m -> Entry]
        BY DEF Shape
      <3>2. EntryOf(t, wfd[p]) \in Entry
        BY <2>3 DEF EntryOf, Entry, Owners
      <3>3. poll_fd' \in [1 .. m -> Entry]
        BY <2>1, <3>1, <3>2
      <3>4. QED
        BY <1>2, <2>1, <3>3 DEF Shape
    <2>6. PcInv'
      BY <1>1, <1>2, <2>1 DEF PcInv, Submitting, Completing, Closing, Procs, Shape
    <2>7. /\ poll_fd'[i] = EntryOf(t, wfd[p]) /\ \A j \in Slots \ {i} : poll_fd'[j] = poll_fd[j] /\ (BeingFreed(j)' <=> BeingFreed(j))
          /\ ~BeingFreed(i)'
      BY <2>1, <2>2 DEF Slots, BeingFreed, EntryOf
    <2>8. \A u \in Transfers : \A m : Entered(u, m) => Entered(u, m)'
      <3> TAKE u \in Transfers
      <3> TAKE m
      <3>1. SUFFICES ASSUME NEW j \in Slots, poll_fd[j] = EntryOf(u, m) PROVE poll_fd'[j] = EntryOf(u, m)
        BY <2>1 DEF Entered, EntryOf
      <3>2. j # i
        BY <2>2, <3>1 DEF EntryOf, INVALID_WINFD
      <3>3. QED
        BY <2>7, <3>1, <3>2
    <2>9. Work(p, {t})
      BY <1>1, <1>2, <2>4, <2>8 DEF Work, Listed, Owning
    <2>10. TransferOk(t)'
      <3>1. \A q \in Procs : (Owns(q, t)' <=> Owns(q, t)) /\ (Owns(q, t) => q = p)
        <4> TAKE q \in Procs
        <4>1. CASE q = p
          BY <1>1, <1>2, <2>4, <4>1 DEF Owns, Owning
        <4>2. CASE q # p
          BY <1>2, <1>0, <2>4, <4>2 DEF Owns, Owning
        <4>3. QED
          BY <4>1, <4>2
      <3>2. Entered(t, wfd[p])'
        BY <1>2, <2>1, <2>2, <2>7 DEF Entered, EntryOf
      <3>3. OwnerInv(p, t)'
        BY <1>1, <1>2, <2>4, <3>1, <3>2 DEF OwnerInv, Listed, Live
      <3>4. TransferOk(t) /\ (Owned(t)' <=> Owned(t)) /\ (Live(t)' <=> Live(t)) /\ Owned(t)
        BY <1>1, <1>2, <3>1, Owner DEF TransferInv, Live, Owned
      <3>5. QED
        BY <1>2, <3>1, <3>3, <3>4 DEF TransferOk, InFlight, IoCompleted
    <2>11. \A q \in Procs : Creating(q)' <=> Creating(q) /\ q # p
      BY <1>1, <2>4 DEF Creating
    <2>12. NumberInv'
      <3>1. EntryOf(t, wfd[p]).fd = wfd[p]
        BY DEF EntryOf
      <3>2. \A q \in Procs : Creating(q)' => \A j \in Slots : ~BeingFreed(j)' => poll_fd'[j].fd # wfd[q]
        BY <2>3, <2>7, <2>11, <3>1 DEF NumberInv
      <3>3. QED
        BY <1>2, <2>1, <2>11, <3>2 DEF NumberInv
    <2>13. \A j \in Slots : j # i => poll_fd[j].overlapped # t
      <3>1. \A u \in Transfers, j \in Slots : HasEntry(j, u) => poll_fd[j].overlapped = u /\ u # t
        BY <1>1, <2>3 DEF HasEntry, EntryOf
      <3>2. INVALID_WINFD.overlapped # t /\ PipeEntry.overlapped # t
        BY DEF INVALID_WINFD, PipeEntry
      <3>3. QED
        BY <3>1, <3>2 DEF TableInv, BeingFreed
    <2>14. \A j \in Slots, u \in Transfers : HasEntry(j, u) => HasEntry(j, u)'
      <3> TAKE j \in Slots, u \in Transfers
      <3>1. SUFFICES ASSUME HasEntry(j, u) PROVE HasEntry(j, u)'
        OBVIOUS
      <3>2. j # i
        BY <2>2, <3>1 DEF HasEntry, EntryOf, INVALID_WINFD
      <3>3. QED
        BY <1>2, <2>7, <2>11, <3>1, <3>2 DEF HasEntry, EntryOf, Live
    <2>15. HasEntry(i, t)'
      <3>1. Live(t)'
        BY <1>1, <1>2 DEF OwnerInv, Live
      <3>2. \A q \in Procs : Creating(q)' => cur'[q] # t
        <4> SUFFICES ASSUME NEW q \in Procs, Creating(q)', cur'[q] = t PROVE FALSE
          OBVIOUS
        <4>1. Creating(q) /\ q # p /\ cur[q] = t
          BY <1>2, <2>11
        <4>2. QED
          BY <1>0, <4>1 DEF Owns, Owning, Creating
      <3>3. QED
        BY <1>2, <2>3, <2>7, <3>1, <3>2 DEF HasEntry, EntryOf
    <2>16. TableInv'
      <3>1. \A j \in Slots : \/ poll_fd'[j] = INVALID_WINFD
                             \/ j = 1 /\ poll_fd'[j] = PipeEntry
                             \/ \E u \in Transfers : HasEntry(j, u)'
                             \/ BeingFreed(j)' /\ poll_fd'[j].fd \in Nat
        <4> TAKE j \in Slots
        <4>1. CASE j = i
          BY <2>15, <4>1
        <4>2. CASE j # i
          BY <2>7, <2>14, <4>2 DEF TableInv
        <4>3. QED
          BY <4>1, <4>2
      <3>2. EntryOf(t, wfd[p]).fd = wfd[p] /\ EntryOf(t, wfd[p]).overlapped = t
        BY DEF EntryOf
      <3>3. \A j, l \in Slots : j # l /\ poll_fd'[j] # INVALID_WINFD /\ ~BeingFreed(j)' =>
              (poll_fd'[j].fd = poll_fd'[l].fd => BeingFreed(l)') /\ poll_fd'[j].overlapped # poll_fd'[l].overlapped
        BY <2>3, <2>7, <2>13, <3>2 DEF TableInv
      <3>4. QED
        BY <2>1, <3>1, <3>3 DEF TableInv, INVALID_WINFD, PipeEntry
    <2>17. CountInv'
      BY <1>1, <1>2, <2>4, <2>5, <2>6, CountKept DEF PcInv
    <2>18. 1 \in Slots => poll_fd'[1] = poll_fd[1]
      <3>1. poll_fd[1] = PipeEntry
        BY <1>1, AtWork DEF PollInv
      <3>2. i # 1
        BY <2>2, <3>1 DEF PipeEntry, INVALID_WINFD
      <3>3. QED
        BY <2>7, <3>2
    <2>19. QED
      BY <1>1, <1>2, <2>1, <2>4, <2>5, <2>6, <2>9, <2>10, <2>12, <2>16, <2>17, <2>18, Mostly
  <1>6. QED
    BY <1>4, <1>5

Accepted(p, t, io) ==
  /\ overlapped' = [overlapped EXCEPT ![t].Internal = io, ![t].InternalHigh = IF io = "sync" THEN 1 ELSE 0]
  /\ pollable_fd' = [pollable_fd EXCEPT ![t] = wfd[p]] /\ Goto(p, "add")
  /\ UNCHANGED <<poll_fd, crt, flying, cur, at, wfd, pollfds, pollfd_modify, events_lock, pollVars, turns>>

\* The system takes the request, or completes it at once.
LEMMA AcceptedStep ==
  ASSUME PollAssumption, IInv, NEW p \in Procs, NEW t \in Transfers, cur[p] = t, At(p, "start"),
         NEW io \in {"pending", "sync"}, Accepted(p, t, io)
  PROVE  IInv'
  <1> USE Given DEF IInv
  <1>1. Owning(p) /\ OwnerInv(p, t) /\ pc[p] = "start" /\ ~InFlight(t) /\ TransferOk(t) /\ Owned(t)
    BY Owner DEF At, Owning, TransferInv
  <1>2. t \in Owners /\ t # Pipe /\ Slots' = Slots /\ fds' = fds /\ k' = k /\ astray' = astray
        /\ poll_fd' = poll_fd /\ crt' = crt /\ flying' = flying /\ cur' = cur /\ at' = at /\ wfd' = wfd /\ turns' = turns
        /\ pollfds' = pollfds /\ pollfd_modify' = pollfd_modify /\ events_lock' = events_lock
    BY DEF Owners, Slots, pollVars, Accepted
  <1>3. \A q \in Procs : IF q = p THEN pc'[q] = "add" ELSE pc'[q] = pc[q]
    BY DEF PcInv, Goto, Accepted
  <1>4. /\ overlapped'[t].Internal = io /\ overlapped'[t].live /\ ~overlapped'[t].event
        /\ \A o \in Owners \ {t} : overlapped'[o] = overlapped[o]
        /\ overlapped' \in [Owners -> Overlapped]
    <2>1. overlapped[t] \in Overlapped /\ overlapped[t].live /\ ~overlapped[t].event
      BY <1>1, <1>2 DEF OwnerInv, Live, Shape
    <2> DEFINE o == [[overlapped[t] EXCEPT !.Internal = io] EXCEPT !.InternalHigh = IF io = "sync" THEN 1 ELSE 0]
    <2>2. o \in Overlapped /\ o.Internal = io /\ o.live /\ ~o.event
      BY <2>1 DEF Overlapped
    <2>3. overlapped' = [overlapped EXCEPT ![t] = o]
      BY <1>2 DEF Shape, Accepted
    <2> HIDE DEF o
    <2>4. overlapped \in [Owners -> Overlapped]
      BY DEF Shape
    <2>5. overlapped'[t] = o /\ \A x \in Owners \ {t} : overlapped'[x] = overlapped[x]
      BY <1>2, <2>3, <2>4
    <2>6. overlapped' \in [Owners -> Overlapped]
      BY <2>2, <2>3, <2>4
    <2>7. QED
      BY <2>2, <2>5, <2>6
  <1>5. pollable_fd' \in [Transfers -> Int] /\ pollable_fd'[t] = wfd[p] /\ \A u \in Transfers \ {t} : pollable_fd'[u] = pollable_fd[u]
    BY DEF Shape, Accepted
  <1>6. Shape'
    BY <1>2, <1>4, <1>5 DEF Shape
  <1>7. PcInv'
    BY <1>1, <1>2 DEF PcInv, Submitting, Completing, Closing, Procs, Shape, Goto, Accepted
  <1>8. \A u \in Transfers : \A m : Entered(u, m) => Entered(u, m)'
    BY <1>2 DEF Entered, EntryOf
  <1>9. Work(p, {t})
    BY <1>1, <1>2, <1>3, <1>4, <1>5, <1>8 DEF Work, Listed, Owning, Owners
  <1>10. TransferOk(t)'
    <2>1. \A q \in Procs : (Owns(q, t)' <=> Owns(q, t)) /\ (Owns(q, t) => q = p)
      BY <1>1, <1>2, <1>3 DEF Owns, Owning, OwnerInv
    <2>2. Entered(t, wfd[p])'
      BY <1>1, <1>2, <1>8 DEF OwnerInv
    <2>3. OwnerInv(p, t)'
      BY <1>1, <1>2, <1>3, <1>4, <1>5, <2>1, <2>2 DEF OwnerInv, Listed, Live
    <2>4. Owned(t)' /\ turns'[t] > 0
      BY <1>1, <1>2, <2>1 DEF Owned, OwnerInv
    <2>5. QED
      BY <1>4, <2>1, <2>3, <2>4 DEF TransferOk, InFlight
  <1>11. \A q \in Procs : Creating(q)' <=> Creating(q)
    BY <1>1, <1>3 DEF Creating
  <1>12. NumberInv'
    BY <1>2, <1>11, NumbersKept
  <1>13. \A u \in Transfers : Live(u) => Live(u)'
    BY <1>4 DEF Live, Owners
  <1>14. TableInv'
    BY <1>2, <1>11, <1>13, TableKept DEF HasEntry
  <1>15. overlapped'[Pipe] = overlapped[Pipe]
    BY <1>2, <1>4 DEF Owners
  <1>16. CountInv'
    BY <1>1, <1>2, <1>3, <1>6, <1>7, <1>15, CountKept DEF PcInv
  <1>17. QED
    <2>1. pc'[p] = "add" /\ pollfds' = pollfds /\ poll_fd'[1] = poll_fd[1] /\ overlapped'[Pipe].live = overlapped[Pipe].live
      BY <1>2, <1>3, <1>15
    <2>2. QED
      BY <1>1, <1>2, <1>6, <1>7, <1>9, <1>10, <1>12, <1>14, <1>16, <2>1, Mostly

\* The second part of winusb_submit_bulk_transfer
LEMMA StartStep ==
  ASSUME PollAssumption, IInv, NEW p \in Procs, Start(p)
  PROVE  IInv'
  <1> USE Given DEF IInv
  <1>1. PICK t \in Transfers : cur[p] = t /\ Owning(p) /\ OwnerInv(p, t) /\ pc[p] = "start"
    BY Owner DEF Start, At, Owning
  <1>2. CASE GiveBack(p, wfd[p]) /\ Goto(p, "undo") /\ UNCHANGED <<pollable_fd, flying, cur, wfd>>
    <2>1. Entered(t, wfd[p]) /\ UNCHANGED <<pollfds, pollfd_modify, events_lock, pollVars, turns>>
      BY <1>1 DEF OwnerInv, Start
    <2>2. QED
      BY <1>1, <1>2, <2>1, GiveBackStep DEF Goto, pollVars
  <1>3. CASE ~(GiveBack(p, wfd[p]) /\ Goto(p, "undo") /\ UNCHANGED <<pollable_fd, flying, cur, wfd>>)
    <2>1. PICK io \in {"pending", "sync"} :
            /\ overlapped' = [overlapped EXCEPT ![t].Internal = io, ![t].InternalHigh = IF io = "sync" THEN 1 ELSE 0]
            /\ pollable_fd' = [pollable_fd EXCEPT ![t] = wfd[p]]
            /\ Goto(p, "add") /\ UNCHANGED <<poll_fd, crt, flying, cur, at, wfd>>
      BY <1>1, <1>3 DEF Start
    <2>2. UNCHANGED <<pollfds, pollfd_modify, events_lock, pollVars, turns>> /\ At(p, "start")
      BY DEF Start
    <2>3. QED
      BY <1>1, <2>1, <2>2, AcceptedStep DEF Accepted
  <1>4. QED
    BY <1>2, <1>3

\* and what it does when it is refused
LEMMA UndoStep ==
  ASSUME PollAssumption, IInv, FreedInv, NEW p \in Procs, Undo(p)
  PROVE  IInv'
  <1> USE Given DEF IInv
  <1>1. PICK t \in Transfers : cur[p] = t /\ Owning(p) /\ OwnerInv(p, t) /\ pc[p] = "undo"
    BY Owner DEF Undo, At, Owning
  <1>2. /\ Empty(p) /\ Refused(p) /\ UNCHANGED <<pollable_fd, pollfds, pollfd_modify, events_lock, pollVars, turns>>
        /\ overlapped' = overlapped /\ crt' = crt
    BY DEF Undo, Empty
  <1>3. pc[Handler] \notin Closing /\ Freeing(p)
    BY <1>1, AtWork DEF Freeing
  <1>4. \A q \in Procs : Creating(q)' => Creating(q) /\ cur'[q] = cur[q] /\ wfd'[q] = wfd[q]
    <2>1. pc' = [pc EXCEPT ![p] = IF p = Handler THEN "next" ELSE "idle"] /\ cur' = [cur EXCEPT ![p] = None] /\ wfd' = [wfd EXCEPT ![p] = 0]
      BY <1>2 DEF Refused, Back, Goto
    <2>2. QED
      BY <2>1 DEF Creating, PcInv, Shape
  <1>5. /\ \E m \in Tables : poll_fd' \in [1 .. m -> Entry]
        /\ Slots' = Slots /\ poll_fd'[1] = poll_fd[1]
        /\ \A u \in Transfers : \A m : Entered(u, m) => Entered(u, m)'
        /\ TableInv' /\ NumberInv'
    BY <1>2, <1>3, <1>4, EmptyOne
  <1>6. ~overlapped'[t].live /\ ~overlapped'[t].event
    BY <1>1, <1>2 DEF OwnerInv, Live, TransferInv, TransferOk
  <1>7. /\ overlapped' \in [Owners -> Overlapped] /\ crt' \subseteq Nat \ {0} /\ IsFiniteSet(crt') /\ 1 \in crt'
        /\ pollable_fd' \in [Transfers -> Int] /\ pollable_fd' = pollable_fd
    BY <1>2 DEF Shape
  <1>8. QED
    BY <1>1, <1>2, <1>5, <1>6, <1>7, RefusedStep

\* A number is of one request.
LEMMA OneNumber ==
  ASSUME PollAssumption, Shape, TableInv, NEW t \in Transfers, NEW n, Entered(t, n)
  PROVE  n \in crt \ {1} /\ n \in Nat /\ \A u \in Transfers : Entered(u, n) => u = t
  <1> USE Given
  <1>1. PICK i \in Slots : poll_fd[i] = EntryOf(t, n)
    BY DEF Entered
  <1>2. poll_fd[i].fd = n /\ poll_fd[i].overlapped = t /\ poll_fd[i] # INVALID_WINFD /\ poll_fd[i] # PipeEntry
    BY <1>1 DEF EntryOf, INVALID_WINFD, PipeEntry
  <1>3. n \in crt \ {1} /\ n \in Nat
    BY <1>2 DEF TableInv, HasEntry, Shape, BeingFreed
  <1>4. ASSUME NEW u \in Transfers, Entered(u, n) PROVE u = t
    <2>1. PICK j \in Slots : poll_fd[j] = EntryOf(u, n)
      BY <1>4 DEF Entered
    <2>2. poll_fd[j].fd = n /\ poll_fd[j].overlapped = u
      BY <2>1 DEF EntryOf
    <2>3. j = i
      BY <1>2, <2>2 DEF TableInv, BeingFreed
    <2>4. QED
      BY <1>2, <2>2, <2>3
  <1>5. QED
    BY <1>3, <1>4

\* The descriptor is polled from now on: it is one of its own.
LEMMA AddStep ==
  ASSUME PollAssumption, IInv, NEW p \in Procs, Add(p)
  PROVE  IInv'
  <1> USE Given DEF IInv
  <1>1. PICK t \in Transfers : cur[p] = t /\ Owning(p) /\ OwnerInv(p, t) /\ pc[p] = "add" /\ ~InFlight(t) /\ TransferOk(t)
    BY Owner DEF Add, At, Owning, TransferInv
  <1>5. Entered(t, pollable_fd[t]) /\ pollable_fd[t] \in crt \ {1} /\ pollable_fd[t] \in Nat
    BY <1>1, OneNumber DEF OwnerInv
  <1>6. PICK f \in Pollfd : f = [fd |-> pollable_fd[t], events |-> Direction[t]] /\ f.fd = pollable_fd[t] /\ f.events = Direction[t]
    <2>1. [fd |-> pollable_fd[t], events |-> Direction[t]] \in Pollfd
      BY <1>5 DEF Pollfd
    <2>2. QED
      BY <2>1
  <1>2. /\ poll_fd' = poll_fd /\ overlapped' = overlapped /\ crt' = crt /\ flying' = flying /\ pollable_fd' = pollable_fd
        /\ pollfd_modify' = pollfd_modify /\ events_lock' = events_lock /\ cur' = cur /\ at' = at /\ wfd' = wfd
        /\ fds' = fds /\ k' = k /\ astray' = astray /\ turns' = turns /\ Slots' = Slots
    BY DEF Add, tableVars, pollVars, Slots
  <1>3. pc' = [pc EXCEPT ![p] = "modify"] /\ pollfds' = Append(pollfds, f)
    BY <1>1, <1>6 DEF Add, Goto
  <1>4. \A q \in Procs : IF q = p THEN pc'[q] = "modify" ELSE pc'[q] = pc[q]
    BY <1>3 DEF PcInv
  <1>7. /\ pollfds' \in Seq(Pollfd) /\ Len(pollfds') = Len(pollfds) + 1 /\ pollfds'[Len(pollfds) + 1] = f /\ Len(pollfds) \in Nat
        /\ \A j \in 1 .. Len(pollfds) : pollfds'[j] = pollfds[j] /\ pollfds[j] \in Pollfd
    BY <1>3, <1>6 DEF Shape
  <1>8. Shape'
    BY <1>2, <1>7 DEF Shape
  <1>9. PcInv'
    BY <1>1, <1>2, <1>3 DEF PcInv, Submitting, Completing, Closing, Procs
  <1>10. \A u \in Transfers : \A m : Entered(u, m) => Entered(u, m)'
    BY <1>2 DEF Entered, EntryOf
  <1>11. Work(p, {t})
    BY <1>1, <1>2, <1>4, <1>10 DEF Work, Listed, Owning
  <1>12. ~Owned(t)' /\ Live(t)' /\ Listed(t)' /\ InFlight(t)' /\ turns[t] > 0 /\ Entered(t, pollable_fd[t])'
    <2>1. \A q \in Procs : ~Owns(q, t)'
      BY <1>1, <1>2, <1>4 DEF Owns, Owning, OwnerInv
    <2>2. Live(t)' /\ Listed(t)' /\ turns[t] > 0
      BY <1>1, <1>2 DEF OwnerInv, Live, Listed
    <2>3. QED
      BY <1>2, <1>5, <1>10, <2>1, <2>2 DEF Owned, InFlight
  <1>13. TransferOk(t)'
    BY <1>1, <1>2, <1>12 DEF TransferOk, IoCompleted, Owned
  <1>14. TransferInv'
    BY <1>11, <1>13, Others DEF TransferInv
  <1>15. \A q \in Procs : Creating(q)' <=> Creating(q)
    BY <1>1, <1>4 DEF Creating
  <1>16. NumberInv'
    BY <1>2, <1>15, NumbersKept
  <1>17. TableInv'
    BY <1>2, <1>15, TableKept DEF HasEntry, Live
  <1>18. CountInv'
    BY <1>1, <1>2, <1>4, <1>8, <1>9, CountKept DEF PcInv
  <1>19. \A u \in Transfers : \A g : Polled(u, g) => u # t /\ Polled(u, g)' /\ (IoCompleted(u) => IoCompleted(u)')
    BY <1>1, <1>11, Others DEF Polled
  <1>20. Polled(t, f)'
    BY <1>2, <1>6, <1>12 DEF Polled
  <1>21. pc[Handler] \notin Closing /\ pc'[Handler] \notin Closing
    BY <1>1, <1>4, AtWork DEF Closing, Procs
  <1>22. \A j \in 1 .. Len(pollfds) : pollfds[j].fd # f.fd
    <2> TAKE j \in 1 .. Len(pollfds)
    <2>1. CASE j = 1
      BY <1>5, <1>6, <1>21, <2>1 DEF PollInv
    <2>2. CASE j # 1
      <3>1. PICK u \in Transfers : Polled(u, pollfds[j])
        <4>1. j \in 2 .. Len(pollfds)
          BY <1>7, <2>2
        <4>2. QED
          BY <1>21, <4>1 DEF PollInv
      <3>2. u # t /\ Entered(u, pollfds[j].fd)
        BY <1>19, <3>1 DEF Polled, TransferInv, TransferOk
      <3>3. QED
        BY <1>5, <1>6, <3>2, OneNumber
    <2>3. QED
      BY <2>1, <2>2
  <1>23. PollInv'
    <2>1. 1 \in Slots /\ poll_fd[1] = PipeEntry /\ Live(Pipe) /\ pollfds # <<>> /\ pollfds[1] = [fd |-> 1, events |-> "read"]
      BY <1>21 DEF PollInv
    <2>2. pollfds' # <<>> /\ pollfds'[1] = pollfds[1]
      BY <1>7, <2>1
    <2>3. \A j \in 2 .. Len(pollfds') : \E u \in Transfers : Polled(u, pollfds[j])'
      <3> TAKE j \in 2 .. Len(pollfds')
      <3>1. CASE j = Len(pollfds) + 1
        <4>1. pollfds'[j] = f
          BY <1>7, <3>1
        <4>2. QED
          BY <1>20, <4>1
      <3>2. CASE j # Len(pollfds) + 1
        <4>1. j \in 2 .. Len(pollfds) /\ pollfds'[j] = pollfds[j]
          BY <1>7, <3>2
        <4>2. PICK u \in Transfers : Polled(u, pollfds[j])
          BY <1>21, <4>1 DEF PollInv
        <4>3. QED
          BY <1>19, <4>1, <4>2
      <3>3. QED
        BY <3>1, <3>2
    <2>4. Distinct(pollfds)'
      <3>1. Distinct(pollfds)
        BY <1>21 DEF PollInv
      <3>2. \A j \in 1 .. Len(pollfds') : j = Len(pollfds) + 1 \/ j \in 1 .. Len(pollfds)
        BY <1>7
      <3>3. QED
        BY <1>7, <1>22, <3>1, <3>2 DEF Distinct
    <2>5. (PipeEntry)' = PipeEntry
      BY DEF PipeEntry
    <2>6. QED
      BY <1>2, <1>21, <2>1, <2>2, <2>3, <2>4, <2>5 DEF PollInv, Live
  <1>24. SnapInv'
    <2>1. Snap' => Snap /\ (pc'[Handler] = "scan" <=> pc[Handler] = "scan")
      BY <1>1, <1>4 DEF Snap, Submitting, Procs
    <2>2. QED
      BY <1>2, <1>19, <2>1, SnapKept
  <1>25. QED
    BY <1>2, <1>8, <1>9, <1>14, <1>16, <1>17, <1>18, <1>23, <1>24 DEF NeverAstray

\* A step between the submission of a transfer and the end of the notification
LEMMA NotifyStep ==
  ASSUME PollAssumption, IInv, NEW p \in Procs, NEW l \in {"write", "lock", "read", "next", "idle"}, pc[p] \in {"modify", "write", "lock", "read"},
         pc' = [pc EXCEPT ![p] = l], l = "next" => p = Handler, l = "idle" => p # Handler,
         \A q \in Procs \ {p} : cur'[q] = cur[q] /\ wfd'[q] = wfd[q] /\ at'[q] = at[q],
         cur' \in [Procs -> Transfers \cup {None}], at' \in [Procs -> Nat], wfd' \in [Procs -> Nat],
         l \in Submitting => cur'[p] = cur[p],
         overlapped' \in [Owners -> Overlapped], \A t \in Transfers : overlapped'[t] = overlapped[t],
         overlapped'[Pipe].live = overlapped[Pipe].live, events_lock' \in Procs \cup {None},
         UNCHANGED <<poll_fd, crt, flying, pollable_fd, pollfds, pollVars, turns>>, CountInv'
  PROVE  IInv'
  <1> USE Given DEF IInv
  <1>1. Shape'
    BY DEF Shape, pollVars
  <1>2. \A q \in Procs : IF q = p THEN pc'[q] = l ELSE pc'[q] = pc[q]
    BY DEF PcInv
  <1>3. Slots' = Slots /\ fds' = fds /\ k' = k /\ astray' = astray
    BY DEF Slots, pollVars
  <1>4. PcInv'
    <2>1. pc' \in [Procs -> {"idle", "try", "scan", "next", "release"} \cup Submitting \cup Completing \cup Closing]
      BY DEF PcInv, Submitting
    <2>2. (\A q \in Threads : pc'[q] \in {"idle"} \cup Submitting) /\ pc'[Handler] # "idle"
      BY <1>2 DEF PcInv, Submitting, Procs
    <2>3. \A q \in Procs : pc'[q] \in Submitting \cup Completing => cur'[q] \in Transfers
      <3> TAKE q \in Procs
      <3>1. CASE q = p
        BY <1>2, <3>1 DEF PcInv, Submitting, Completing
      <3>2. CASE q # p
        BY <1>2, <3>2 DEF PcInv
      <3>3. QED
        BY <3>1, <3>2
    <2>4. \A q \in Procs : pc'[q] = "claim" => at'[q] \in Slots'
      BY <1>2, <1>3 DEF PcInv
    <2>5. QED
      BY <2>1, <2>2, <2>3, <2>4 DEF PcInv
  <1>5. \A t \in Transfers : \A m : Entered(t, m) => Entered(t, m)'
    BY DEF Entered, EntryOf, Slots
  <1>6. Work(p, {})
    BY <1>2, <1>5 DEF Work, Listed, Owning
  <1>7. \A q \in Procs : Creating(q)' => Creating(q) /\ wfd'[q] = wfd[q] /\ cur'[q] = cur[q]
    BY <1>2 DEF Creating
  <1>8. NumberInv'
    BY <1>7, NumbersKept
  <1>9. TableInv'
    BY <1>7, TableKept DEF HasEntry, Live
  <1>10. QED
    BY <1>1, <1>2, <1>3, <1>4, <1>6, <1>8, <1>9, Mostly

\* The steps of usbi_fd_notification: a write and its read, each counted
LEMMA ModifyStep ==
  ASSUME PollAssumption, IInv, NEW p \in Procs, Modify(p)
  PROVE  IInv'
  <1> USE Given DEF IInv
  <1>1. /\ pc[p] = "modify" /\ pc' = [pc EXCEPT ![p] = "write"] /\ pollfd_modify' = pollfd_modify + 1
        /\ UNCHANGED <<poll_fd, crt, overlapped, flying, pollable_fd, pollfds, pollVars, turns, events_lock, cur, at, wfd>>
    BY DEF Modify, At, Goto, tableVars
  <1>2. DOMAIN pc = Procs /\ DOMAIN pc' = Procs /\ \A q \in Procs : IF q = p THEN pc'[q] = "write" ELSE pc'[q] = pc[q]
    BY <1>1 DEF PcInv
  <1>3. Notifying' = Notifying \cup {p} /\ p \notin Notifying /\ Written' = Written
    BY <1>1, <1>2 DEF Notifying, Written
  <1>4. CountInv'
    <2>1. IsFiniteSet(Notifying') /\ pollfd_modify' = Cardinality(Notifying')
      BY <1>1, <1>3, FS_AddElement DEF CountInv
    <2>2. {q \in DOMAIN pc' : pc'[q] \in {"lock", "read"}} = {q \in DOMAIN pc : pc[q] \in {"lock", "read"}}
      BY <1>3 DEF Written
    <2>3. PipeExact'
      BY <1>1, <2>2 DEF CountInv, PipeExact, IoCompleted
    <2>4. QED
      BY <1>3, <2>1, <2>3 DEF CountInv
  <1>5. QED
    BY <1>1, <1>4, NotifyStep DEF Shape

\* usbi_write
LEMMA WriteStep ==
  ASSUME PollAssumption, IInv, NEW p \in Procs, Write(p)
  PROVE  IInv'
  <1> USE Given DEF IInv
  <1>1. /\ pc[p] = "write" /\ pc' = [pc EXCEPT ![p] = "lock"]
        /\ UNCHANGED <<poll_fd, crt, flying, pollable_fd, pollfds, pollVars, turns, events_lock, cur, at, wfd, pollfd_modify>>
    BY DEF Write, At, Goto, ctxVars
  <1>2. DOMAIN pc = Procs /\ DOMAIN pc' = Procs /\ \A q \in Procs : IF q = p THEN pc'[q] = "lock" ELSE pc'[q] = pc[q]
    BY <1>1 DEF PcInv
  <1>3. Written' = Written \cup {p} /\ p \notin Written /\ Notifying' = Notifying
    BY <1>1, <1>2 DEF Notifying, Written
  <1>4. /\ overlapped' \in [Owners -> Overlapped] /\ \A t \in Transfers : overlapped'[t] = overlapped[t]
        /\ overlapped'[Pipe].live = overlapped[Pipe].live /\ overlapped'[Pipe].InternalHigh = overlapped[Pipe].InternalHigh + 1
        /\ overlapped'[Pipe].event /\ overlapped'[Pipe].Internal = "done"
    <2> DEFINE o == [live |-> overlapped[Pipe].live, Internal |-> "done", InternalHigh |-> overlapped[Pipe].InternalHigh + 1, event |-> TRUE]
    <2>1. Pipe \in Owners /\ overlapped \in [Owners -> Overlapped] /\ overlapped[Pipe] \in Overlapped
      BY DEF Owners, Shape
    <2>2. o \in Overlapped /\ o.live = overlapped[Pipe].live /\ o.InternalHigh = overlapped[Pipe].InternalHigh + 1 /\ o.event /\ o.Internal = "done"
      BY <2>1 DEF Overlapped
    <2>3. overlapped' = [overlapped EXCEPT ![Pipe] = o]
      BY <2>1 DEF Write, Overlapped
    <2> HIDE DEF o
    <2>4. QED
      BY <2>1, <2>2, <2>3 DEF Owners
  <1>5. CountInv'
    <2>1. IsFiniteSet(Written') /\ Cardinality(Written') = Cardinality(Written) + 1 /\ Cardinality(Written) \in Nat
      BY <1>3, FS_AddElement, FS_CardinalityType DEF CountInv
    <2>2. {q \in DOMAIN pc' : pc'[q] \in {"lock", "read"}} = Written' /\ {q \in DOMAIN pc : pc[q] \in {"lock", "read"}} = Written
      BY DEF Written
    <2>3. overlapped[Pipe].live => overlapped[Pipe].InternalHigh = Cardinality(Written)
      BY <2>2 DEF CountInv, PipeExact
    <2>4. overlapped'[Pipe].live => overlapped'[Pipe].InternalHigh = Cardinality(Written') /\ Cardinality(Written') > 0
      BY <1>4, <2>1, <2>3
    <2>5. PipeExact'
      BY <1>4, <2>2, <2>4 DEF PipeExact, IoCompleted
    <2>6. QED
      BY <1>1, <1>3, <2>1, <2>5 DEF CountInv
  <1>6. QED
    BY <1>1, <1>4, <1>5, NotifyStep DEF Shape

\* The lock is taken once whoever polls has let it go.
LEMMA LockEventsStep ==
  ASSUME PollAssumption, IInv, NEW p \in Procs, LockEvents(p)
  PROVE  IInv'
  <1> USE Given DEF IInv
  <1>1. /\ pc[p] = "lock" /\ pc' = [pc EXCEPT ![p] = "read"] /\ events_lock' = p
        /\ UNCHANGED <<poll_fd, crt, overlapped, flying, pollable_fd, pollfds, pollVars, turns, cur, at, wfd, pollfd_modify>>
    BY DEF LockEvents, At, Goto, tableVars
  <1>2. DOMAIN pc = Procs /\ DOMAIN pc' = Procs /\ \A q \in Procs : IF q = p THEN pc'[q] = "read" ELSE pc'[q] = pc[q]
    BY <1>1 DEF PcInv
  <1>3. CountInv'
    BY <1>1, <1>2, CountKept
  <1>4. QED
    BY <1>1, <1>3, NotifyStep DEF Shape

\* usbi_read takes one of the writes back.
LEMMA ReadStep ==
  ASSUME PollAssumption, IInv, NEW p \in Procs, Read(p)
  PROVE  IInv'
  <1> USE Given DEF IInv
  <1> DEFINE l == IF p = Handler THEN "next" ELSE "idle"
  <1>1. /\ pc[p] = "read" /\ pc' = [pc EXCEPT ![p] = l] /\ events_lock' \in Procs \cup {None} /\ pollfd_modify' = pollfd_modify - 1
        /\ cur' = [cur EXCEPT ![p] = None] /\ at' = [at EXCEPT ![p] = 0] /\ wfd' = [wfd EXCEPT ![p] = 0]
        /\ UNCHANGED <<poll_fd, crt, flying, pollable_fd, pollfds, pollVars, turns>>
    BY DEF Read, Unmodify, Back, At, Goto, Procs
  <1>2. DOMAIN pc = Procs /\ DOMAIN pc' = Procs /\ \A q \in Procs : IF q = p THEN pc'[q] = l ELSE pc'[q] = pc[q]
    BY <1>1 DEF PcInv
  <1>3. Written' = Written \ {p} /\ p \in Written /\ Notifying' = Notifying \ {p} /\ p \in Notifying
    BY <1>1, <1>2 DEF Notifying, Written
  <1>4. IsFiniteSet(Written') /\ Cardinality(Written') = Cardinality(Written) - 1 /\ Cardinality(Written') \in Nat
    BY <1>3, FS_RemoveElement, FS_CardinalityType DEF CountInv
  <1>5. IsFiniteSet(Notifying') /\ pollfd_modify' = Cardinality(Notifying')
    BY <1>1, <1>3, FS_RemoveElement DEF CountInv
  <1>6. Live(Pipe) /\ overlapped[Pipe].InternalHigh = Cardinality(Written) /\ overlapped[Pipe].event /\ overlapped[Pipe].Internal # "pending"
    <2>1. Live(Pipe)
      BY <1>1, AtWork DEF PollInv
    <2>2. {q \in DOMAIN pc : pc[q] \in {"lock", "read"}} = Written
      BY DEF Written
    <2>3. Cardinality(Written) > 0
      BY <1>4, FS_CardinalityType DEF CountInv
    <2>4. QED
      BY <2>1, <2>2, <2>3 DEF CountInv, PipeExact, Live, IoCompleted
  <1>7. /\ overlapped' \in [Owners -> Overlapped] /\ \A t \in Transfers : overlapped'[t] = overlapped[t]
        /\ overlapped'[Pipe].live = overlapped[Pipe].live /\ overlapped'[Pipe].InternalHigh = Cardinality(Written')
        /\ overlapped'[Pipe].event <=> Cardinality(Written') > 0
        /\ overlapped'[Pipe].Internal # "pending" <=> Cardinality(Written') > 0
    <2>1. Pipe \in Owners /\ overlapped \in [Owners -> Overlapped] /\ overlapped[Pipe] \in Overlapped
      BY DEF Owners, Shape
    <2> DEFINE o == overlapped[Pipe]
               n == IF o.InternalHigh > 1
                    THEN [live |-> o.live, Internal |-> o.Internal, InternalHigh |-> o.InternalHigh - 1, event |-> o.event]
                    ELSE [live |-> o.live, Internal |-> "pending", InternalHigh |-> 0, event |-> FALSE]
    <2>2. overlapped' = [overlapped EXCEPT ![Pipe] = n]
      <3>1. CASE o.InternalHigh > 1
        <4>1. overlapped' = [overlapped EXCEPT ![Pipe].InternalHigh = overlapped[Pipe].InternalHigh - 1]
          BY <3>1 DEF Read
        <4>2. [overlapped[Pipe] EXCEPT !.InternalHigh = overlapped[Pipe].InternalHigh - 1] = n
          BY <2>1, <3>1 DEF Overlapped
        <4>3. QED
          BY <2>1, <4>1, <4>2
      <3>2. CASE ~(o.InternalHigh > 1)
        BY <2>1, <3>2 DEF Read, Overlapped
      <3>3. QED
        BY <3>1, <3>2
    <2>3. /\ n \in Overlapped /\ n.live = o.live /\ n.InternalHigh = Cardinality(Written')
          /\ n.event <=> Cardinality(Written') > 0
          /\ n.Internal # "pending" <=> Cardinality(Written') > 0
      <3>1. CASE o.InternalHigh > 1
        BY <1>4, <1>6, <2>1, <3>1 DEF Overlapped
      <3>2. CASE ~(o.InternalHigh > 1)
        BY <1>4, <1>6, <2>1, <3>2 DEF Overlapped
      <3>3. QED
        BY <3>1, <3>2
    <2> HIDE DEF n, o
    <2>4. QED
      BY <2>1, <2>2, <2>3 DEF Owners, o
  <1>8. CountInv'
    <2>1. {q \in DOMAIN pc' : pc'[q] \in {"lock", "read"}} = Written'
      BY DEF Written
    <2>2. PipeExact'
      BY <1>7, <2>1 DEF PipeExact, IoCompleted
    <2>3. QED
      BY <1>4, <1>5, <2>2 DEF CountInv
  <1>9. QED
    <2>1. l \in {"write", "lock", "read", "next", "idle"} /\ (l = "next" => p = Handler) /\ (l = "idle" => p # Handler) /\ l \notin Submitting
      BY DEF Submitting
    <2>2. /\ cur' \in [Procs -> Transfers \cup {None}] /\ at' \in [Procs -> Nat] /\ wfd' \in [Procs -> Nat]
          /\ \A q \in Procs \ {p} : cur'[q] = cur[q] /\ wfd'[q] = wfd[q] /\ at'[q] = at[q]
      BY <1>1 DEF Shape
    <2>3. overlapped' \in [Owners -> Overlapped] /\ (\A t \in Transfers : overlapped'[t] = overlapped[t]) /\ overlapped'[Pipe].live = overlapped[Pipe].live
      BY <1>7
    <2> HIDE DEF l, IInv
    <2>4. QED
      BY <1>1, <1>8, <2>1, <2>2, <2>3, NotifyStep, ZenonT(60)

\* A step of the handler between two transfers
LEMMA HandlerStep ==
  ASSUME PollAssumption, IInv, pc[Handler] \in {"try", "scan", "next", "release"}, NEW l \in {"try", "scan", "next", "release"},
         pc' = [pc EXCEPT ![Handler] = l], events_lock' \in Procs \cup {None},
         fds' \in Seq(Snapped), k' \in Nat, SnapInv', NeverAstray',
         UNCHANGED <<poll_fd, overlapped, crt, flying, pollable_fd, pollfds, pollfd_modify, cur, at, wfd, turns>>
  PROVE  IInv'
  <1> USE Given DEF IInv
  <1>1. Shape'
    BY DEF Shape
  <1>2. Handler \in Procs /\ \A q \in Procs : IF q = Handler THEN pc'[q] = l ELSE pc'[q] = pc[q]
    BY DEF PcInv, Procs
  <1>3. PcInv'
    BY <1>2 DEF PcInv, Submitting, Completing, Closing, Procs, Slots
  <1>4. \A t \in Transfers : \A m : Entered(t, m) => Entered(t, m)'
    BY DEF Entered, EntryOf, Slots
  <1>5. Work(Handler, {})
    BY <1>2, <1>4 DEF Work, Listed, Owning
  <1>6. \A t \in Transfers : TransferOk(t)' /\ \A f : Polled(t, f) => Polled(t, f)' /\ (IoCompleted(t) => IoCompleted(t)')
    BY <1>2, <1>5, Others
  <1>7. \A q \in Procs : Creating(q)' <=> Creating(q)
    BY <1>2 DEF Creating
  <1>8. NumberInv'
    BY <1>7, NumbersKept
  <1>9. TableInv'
    BY <1>7, TableKept DEF HasEntry, Live
  <1>10. pc[Handler] \notin Closing /\ pc'[Handler] \notin Closing
    BY <1>2 DEF Closing
  <1>11. PollInv'
    BY <1>6, <1>10, PollKept DEF Slots
  <1>12. CountInv'
    BY <1>2, <1>3, CountKept DEF PcInv
  <1>13. QED
    BY <1>1, <1>3, <1>6, <1>8, <1>9, <1>11, <1>12 DEF TransferInv

\* The snapshot is what is polled now.
LEMMA CollectStep ==
  ASSUME PollAssumption, IInv, Collect
  PROVE  IInv'
  <1> USE Given DEF IInv
  <1>1. /\ pc[Handler] = "try" /\ pc' = [pc EXCEPT ![Handler] = "scan"] /\ k' = 1 /\ Handler \in Procs
        /\ fds' = [j \in DOMAIN pollfds |-> [fd |-> pollfds[j].fd, events |-> pollfds[j].events, revents |-> FALSE]]
        /\ UNCHANGED <<poll_fd, overlapped, crt, flying, pollable_fd, pollfds, pollfd_modify, cur, at, wfd, turns, astray>>
        /\ events_lock' \in Procs \cup {None}
    BY DEF Collect, At, Goto, tableVars, Procs
  <1>2. Len(pollfds) \in Nat /\ DOMAIN pollfds = 1 .. Len(pollfds) /\ \A j \in 1 .. Len(pollfds) : pollfds[j] \in Pollfd
    BY DEF Shape
  <1>3. /\ fds' \in Seq(Snapped) /\ Len(fds') = Len(pollfds)
        /\ \A j \in 1 .. Len(pollfds) : fds'[j].fd = pollfds[j].fd /\ fds'[j].events = pollfds[j].events /\ ~fds'[j].revents
    <2>1. \A j \in 1 .. Len(pollfds) : [fd |-> pollfds[j].fd, events |-> pollfds[j].events, revents |-> FALSE] \in Snapped
      BY <1>2 DEF Pollfd, Snapped
    <2>2. fds' \in [1 .. Len(pollfds) -> Snapped]
      BY <1>1, <1>2, <2>1
    <2>3. QED
      BY <1>1, <1>2, <2>2
  <1>4. /\ pollfds # <<>> /\ pollfds[1].fd = 1 /\ pollfds[1].events = "read" /\ Distinct(pollfds)
        /\ \A j \in 2 .. Len(pollfds) : \E t \in Transfers : Polled(t, pollfds[j])
    BY <1>1 DEF PollInv, Closing
  <1>5. pc'[Handler] = "scan"
    BY <1>1 DEF PcInv
  <1>6. \A t \in Transfers : \A j \in 1 .. Len(pollfds) : Polled(t, pollfds[j]) => Polled(t, fds[j])'
    <2>1. \A t \in Transfers : InFlight(t)' <=> InFlight(t)
      BY <1>1, <1>5 DEF InFlight, Live, Owned, Owns, Owning, PcInv
    <2>2. QED
      BY <1>1, <1>3, <2>1 DEF Polled
  <1>7. SnapInv'
    <2>1. fds' # <<>> /\ fds'[1].fd = 1 /\ fds'[1].events = "read" /\ k' >= 1
      BY <1>1, <1>2, <1>3, <1>4
    <2>2. Distinct(fds)'
      BY <1>3, <1>4 DEF Distinct
    <2>3. \A j \in 2 .. Len(fds') : \E t \in Transfers : Polled(t, fds[j])' /\ ~fds'[j].revents
      BY <1>2, <1>3, <1>4, <1>6
    <2>4. QED
      BY <1>5, <2>1, <2>2, <2>3 DEF SnapInv, From
  <1>8. NeverAstray'
    BY <1>1 DEF NeverAstray
  <1>9. QED
    BY <1>1, <1>3, <1>7, <1>8, HandlerStep

\* What is polled has an entry, for the same direction.
LEMMA Found1 ==
  ASSUME PollAssumption, IInv, NEW t \in Transfers, NEW f, Polled(t, f)
  PROVE  LET i == Index(f.fd)
         IN /\ i \in Slots /\ i # 0 /\ poll_fd[i].rw = f.events /\ poll_fd[i].overlapped = t /\ poll_fd[i].fd = f.fd
            /\ f.fd \in Nat \ {0, 1} /\ f.fd \in crt /\ Live(t) /\ Listed(t)
  <1> USE DEF IInv
  <1>1. InFlight(t) /\ Entered(t, f.fd)
    BY DEF Polled, TransferInv, TransferOk
  <1>2. PICK i \in Slots : poll_fd[i] = EntryOf(t, f.fd)
    BY <1>1 DEF Entered
  <1>3. f.fd \in crt \ {1} /\ f.fd \in Nat \ {0}
    BY <1>1, OneNumber DEF Shape
  <1>4. poll_fd[i].fd = f.fd /\ poll_fd[i].overlapped = t /\ poll_fd[i].rw = f.events /\ poll_fd[i] # INVALID_WINFD /\ ~BeingFreed(i)
    BY <1>2, <1>3, Given DEF EntryOf, INVALID_WINFD, Polled, BeingFreed
  <1>5. Index(f.fd) = i
    BY <1>4, IndexIs
  <1>6. i # 0
    BY DEF Slots, Shape
  <1>7. Live(t) /\ Listed(t)
    BY <1>1 DEF InFlight, TransferInv, TransferOk
  <1>8. QED
    BY <1>3, <1>4, <1>5, <1>6, <1>7

\* The pipe is the first entry for as long as anybody polls.
LEMMA PipeFound ==
  ASSUME IInv, pc[Handler] \notin Closing
  PROVE  Index(1) = 1 /\ poll_fd[1] = PipeEntry /\ 1 \in Slots
  <1>1. 1 \in Slots /\ poll_fd[1] = PipeEntry
    BY DEF IInv, PollInv
  <1>2. poll_fd[1].fd = 1 /\ poll_fd[1] # INVALID_WINFD /\ ~BeingFreed(1)
    BY <1>1 DEF PipeEntry, INVALID_WINFD, BeingFreed, Pipe, Freed
  <1>3. QED
    BY <1>1, <1>2, IndexIs DEF IInv

\* The entry of a descriptor that is polled is found, for the same direction.
LEMMA ScanStep ==
  ASSUME PollAssumption, IInv, Scan
  PROVE  IInv'
  <1> USE Given DEF IInv
  <1> DEFINE i == Index(fds[k].fd)
             f == [fd |-> fds[k].fd, events |-> fds[k].events, revents |-> IoCompleted(poll_fd[i].overlapped)]
  <1>1. pc[Handler] = "scan" /\ k \in DOMAIN fds /\ Snap /\ Handler \in Procs /\ pc[Handler] \notin Closing
    BY DEF Scan, At, Snap, Procs, Closing
  <1>2. k \in 1 .. Len(fds) /\ Len(fds) \in Nat /\ fds \in Seq(Snapped) /\ fds[k] \in Snapped /\ DOMAIN fds = 1 .. Len(fds)
    BY <1>1 DEF Shape
  <1>3. /\ fds # <<>> /\ fds[1].fd = 1 /\ fds[1].events = "read" /\ Distinct(fds)
        /\ \A j \in 2 .. Len(fds) : \E t \in Transfers : Polled(t, fds[j]) /\ (fds[j].revents => IoCompleted(t))
    BY <1>1 DEF SnapInv, From
  <1>4. i # 0 /\ poll_fd[i].rw = fds[k].events /\ (k # 1 => \E t \in Transfers : Polled(t, fds[k]) /\ poll_fd[i].overlapped = t)
    <2>1. CASE k = 1
      BY <1>1, <1>3, <2>1, PipeFound DEF PipeEntry
    <2>2. CASE k # 1
      <3>1. PICK t \in Transfers : Polled(t, fds[k])
        BY <1>2, <1>3, <2>2
      <3>2. QED
        BY <3>1, Found1
    <2>3. QED
      BY <2>1, <2>2
  <1> HIDE DEF i
  <1>5. /\ k' = k + 1 /\ fds' = [fds EXCEPT ![k] = f]
        /\ UNCHANGED <<pc, poll_fd, overlapped, crt, flying, pollable_fd, pollfds, pollfd_modify, events_lock, cur, at, wfd, turns, astray>>
    <2>1. fds' = [fds EXCEPT ![k].revents = IoCompleted(poll_fd[i].overlapped)]
      BY <1>4 DEF Scan, i
    <2>2. [fds[k] EXCEPT !.revents = IoCompleted(poll_fd[i].overlapped)] = f
      <3>1. fds[k] = [fd |-> fds[k].fd, events |-> fds[k].events, revents |-> fds[k].revents]
        BY <1>2 DEF Snapped
      <3>2. QED
        BY <3>1
    <2>3. fds' = [fds EXCEPT ![k] = f]
      BY <1>2, <2>1, <2>2
    <2>4. QED
      BY <1>4, <2>3 DEF Scan, i, tableVars, ctxVars
  <1>6. f \in Snapped /\ f.fd = fds[k].fd /\ f.events = fds[k].events /\ (f.revents <=> IoCompleted(poll_fd[i].overlapped))
    BY <1>2 DEF Snapped, IoCompleted
  <1> HIDE DEF f
  <1>7. /\ fds' \in Seq(Snapped) /\ Len(fds') = Len(fds) /\ fds'[k] = f /\ \A j \in 1 .. Len(fds) : j # k => fds'[j] = fds[j]
    BY <1>2, <1>5, <1>6
  <1>8. \A j \in 1 .. Len(fds) : fds'[j].fd = fds[j].fd /\ fds'[j].events = fds[j].events
    BY <1>6, <1>7
  <1>9. pc' = [pc EXCEPT ![Handler] = "scan"] /\ pc'[Handler] = "scan"
    BY <1>1, <1>5 DEF PcInv
  <1>10. \A t \in Transfers : (InFlight(t)' <=> InFlight(t)) /\ (IoCompleted(t)' <=> IoCompleted(t))
    BY <1>5 DEF InFlight, Live, Owned, Owns, Owning, IoCompleted
  <1>11. \A j \in 2 .. Len(fds) : \E t \in Transfers : Polled(t, fds[j])' /\ (fds'[j].revents => IoCompleted(t)')
    <2> TAKE j \in 2 .. Len(fds)
    <2>0. j \in 1 .. Len(fds)
      BY <1>2
    <2>1. CASE j = k
      <3>1. PICK t \in Transfers : Polled(t, fds[k]) /\ poll_fd[i].overlapped = t
        BY <1>4, <2>1
      <3>2. Polled(t, fds[j])'
        BY <1>5, <1>8, <1>10, <2>0, <2>1, <3>1 DEF Polled
      <3>3. fds'[j].revents => IoCompleted(t)'
        BY <1>6, <1>7, <1>10, <2>1, <3>1
      <3>4. QED
        BY <3>2, <3>3
    <2>2. CASE j # k
      <3>1. PICK t \in Transfers : Polled(t, fds[j]) /\ (fds[j].revents => IoCompleted(t))
        BY <1>3
      <3>2. Polled(t, fds[j])'
        BY <1>5, <1>8, <1>10, <2>0, <3>1 DEF Polled
      <3>3. QED
        BY <1>7, <1>10, <2>0, <2>2, <3>1, <3>2
    <2>3. QED
      BY <2>1, <2>2
  <1>12. SnapInv'
    <2>1. fds' # <<>> /\ fds'[1].fd = 1 /\ fds'[1].events = "read" /\ k' >= 1
      BY <1>2, <1>3, <1>5, <1>7, <1>8
    <2>2. Distinct(fds)'
      BY <1>3, <1>7, <1>8 DEF Distinct
    <2>3. QED
      BY <1>7, <1>9, <1>11, <2>1, <2>2 DEF SnapInv, From
  <1>13. NeverAstray' /\ k' \in Nat /\ events_lock' \in Procs \cup {None}
    BY <1>2, <1>5 DEF NeverAstray, Shape
  <1>14. QED
    BY <1>1, <1>5, <1>7, <1>9, <1>12, <1>13, HandlerStep

\* Whatever has an event set has ended.
LEMMA WaitStep ==
  ASSUME PollAssumption, IInv, Wait
  PROVE  IInv'
  <1> USE Given DEF IInv
  <1>1. pc[Handler] = "scan" /\ Snap /\ Handler \in Procs /\ pc[Handler] \notin Closing
    BY DEF Wait, At, Snap, Procs, Closing
  <1>2. Len(fds) \in Nat /\ fds \in Seq(Snapped) /\ DOMAIN fds = 1 .. Len(fds) /\ \A j \in 1 .. Len(fds) : fds[j] \in Snapped
    BY <1>1 DEF Shape
  <1>3. /\ fds # <<>> /\ fds[1].fd = 1 /\ fds[1].events = "read" /\ Distinct(fds)
        /\ \A j \in 2 .. Len(fds) : \E t \in Transfers : Polled(t, fds[j]) /\ (fds[j].revents => IoCompleted(t))
    BY <1>1 DEF SnapInv, From
  <1>4. /\ k' = 2 /\ pc' = [pc EXCEPT ![Handler] = "next"] /\ pc'[Handler] = "next"
        /\ UNCHANGED <<poll_fd, overlapped, crt, flying, pollable_fd, pollfds, pollfd_modify, events_lock, cur, at, wfd, turns, astray>>
    BY <1>1 DEF Wait, Goto, tableVars, ctxVars, PcInv
  <1>5. /\ fds' \in Seq(Snapped) /\ Len(fds') = Len(fds)
        /\ \A j \in 1 .. Len(fds) : /\ fds'[j].fd = fds[j].fd /\ fds'[j].events = fds[j].events
                                    /\ fds'[j].revents => fds[j].revents \/ j \in Signalled
    <2>1. CASE fds' = fds
      BY <1>2, <2>1
    <2>2. CASE fds' # fds
      <3>1. Signalled # {} /\ fds' = [fds EXCEPT ![Min(Signalled)].revents = TRUE]
        BY <2>2 DEF Wait
      <3>2. Signalled \subseteq Nat
        BY <1>2 DEF Signalled
      <3>3. PICK m \in Signalled : m = Min(Signalled)
        <4>1. \E m \in Signalled : \A n \in Signalled : m <= n
          BY <3>1, <3>2, Least
        <4>2. QED
          BY <4>1 DEF Min
      <3>4. m \in 1 .. Len(fds)
        BY <1>2, <3>3 DEF Signalled
      <3>5. PICK f \in Snapped : fds' = [fds EXCEPT ![m] = f] /\ f.fd = fds[m].fd /\ f.events = fds[m].events
        <4>1. fds[m] \in Snapped
          BY <1>2, <3>4
        <4> DEFINE g == [fds[m] EXCEPT !.revents = TRUE]
        <4>2. g \in Snapped /\ g.fd = fds[m].fd /\ g.events = fds[m].events
          BY <4>1 DEF Snapped
        <4>3. fds' = [fds EXCEPT ![m] = g]
          BY <1>2, <3>1, <3>3, <3>4
        <4> HIDE DEF g
        <4>4. QED
          BY <4>2, <4>3
      <3>6. fds' \in Seq(Snapped) /\ Len(fds') = Len(fds) /\ fds'[m] = f /\ \A j \in 1 .. Len(fds) : j # m => fds'[j] = fds[j]
        BY <1>2, <3>4, <3>5
      <3>7. QED
        BY <3>3, <3>5, <3>6
    <2>3. QED
      BY <2>1, <2>2
  <1>6. \A t \in Transfers : (InFlight(t)' <=> InFlight(t)) /\ (IoCompleted(t)' <=> IoCompleted(t))
    BY <1>1, <1>4 DEF InFlight, Live, Owned, Owns, Owning, IoCompleted, PcInv
  <1>7. \A j \in 2 .. Len(fds) : \E t \in Transfers : Polled(t, fds[j])' /\ (fds'[j].revents => IoCompleted(t)')
    <2> TAKE j \in 2 .. Len(fds)
    <2>1. j \in 1 .. Len(fds)
      BY <1>2
    <2>2. PICK t \in Transfers : Polled(t, fds[j]) /\ (fds[j].revents => IoCompleted(t))
      BY <1>3
    <2>3. Polled(t, fds[j])'
      BY <1>4, <1>5, <1>6, <2>1, <2>2 DEF Polled
    <2>4. j \in Signalled => IoCompleted(t)
      <3>1. poll_fd[Index(fds[j].fd)].overlapped = t
        BY <2>2, Found1
      <3>2. QED
        BY <3>1 DEF Signalled, TransferInv, TransferOk
    <2>5. QED
      BY <1>5, <1>6, <2>1, <2>2, <2>3, <2>4
  <1>8. SnapInv'
    <2>1. fds' # <<>> /\ fds'[1].fd = 1 /\ fds'[1].events = "read" /\ k' >= 2 /\ k' = 2
      BY <1>2, <1>3, <1>4, <1>5
    <2>2. Distinct(fds)'
      BY <1>3, <1>5 DEF Distinct
    <2>3. QED
      BY <1>4, <1>5, <1>7, <2>1, <2>2 DEF SnapInv, From
  <1>9. NeverAstray' /\ k' \in Nat /\ events_lock' \in Procs \cup {None}
    BY <1>4 DEF NeverAstray, Shape
  <1>10. QED
    BY <1>1, <1>4, <1>5, <1>8, <1>9, HandlerStep

\* The lock is let go, whatever was found.
LEMMA ReleaseStep ==
  ASSUME PollAssumption, IInv, Release
  PROVE  IInv'
  <1> USE Given DEF IInv
  <1>1. /\ pc[Handler] \in {"next", "release"} /\ pc' = [pc EXCEPT ![Handler] = "try"] /\ events_lock' \in Procs \cup {None}
        /\ fds' = <<>> /\ k' = 0 /\ Handler \in Procs
        /\ UNCHANGED <<poll_fd, overlapped, crt, flying, pollable_fd, pollfds, pollfd_modify, cur, at, wfd, turns, astray>>
    BY DEF Release, At, Goto, tableVars, Procs
  <1>2. SnapInv'
    BY <1>1 DEF SnapInv, Snap, Completing, Submitting, PcInv
  <1>3. fds' \in Seq(Snapped) /\ k' \in Nat /\ NeverAstray'
    BY <1>1 DEF NeverAstray
  <1>4. QED
    BY <1>1, <1>2, <1>3, HandlerStep

\* One descriptor leaves the list, and the others keep their order.
LEMMA RemovePollfd ==
  ASSUME NEW S, pollfds \in Seq(S), NEW x
  PROVE  LET r == WithoutPollfd(x)
             q == pollfds
         IN /\ r \in Seq(S)
            /\ (\A g, h \in 1 .. Len(q) : q[g].fd = q[h].fd => g = h) =>
                 /\ \A g, h \in 1 .. Len(r) : r[g].fd = r[h].fd => g = h
                 /\ \A g \in 1 .. Len(r) : r[g].fd # x /\ \E h \in 1 .. Len(q) : r[g] = q[h] /\ g <= h
            /\ q # <<>> /\ q[1].fd # x => r # <<>> /\ r[1] = q[1]
  <1> DEFINE q == pollfds
             r == WithoutPollfd(x)
             I == {g \in 1 .. Len(q) : q[g].fd = x}
  <1>1. Len(q) \in Nat /\ DOMAIN q = 1 .. Len(q)
    BY QueueElements
  <1>2. CASE I = {}
    <2>1. r = q
      BY <1>1, <1>2 DEF WithoutPollfd, RemoveFirstMatch
    <2> HIDE DEF r
    <2>2. \A g \in 1 .. Len(q) : q[g].fd # x /\ g <= g
      BY <1>1, <1>2
    <2>3. QED
      BY <1>1, <2>1, <2>2 DEF r
  <1>3. CASE I # {}
    <2>0. I \subseteq Nat
      BY <1>1
    <2>1. \E m \in I : \A n \in I : m <= n
      BY <1>3, <2>0, Least
    <2>2. PICK i \in I : i = Min(I)
      BY <2>1 DEF Min
    <2>3. r = RemoveAt(q, i)
      BY <1>3, <2>2 DEF WithoutPollfd, RemoveFirstMatch, SelectInSeq
    <2>4. /\ r \in Seq(S) /\ Len(r) = Len(q) - 1
          /\ \A g \in 1 .. Len(q) - 1 : r[g] = IF g < i THEN q[g] ELSE q[g + 1]
      <3>1. i \in DOMAIN q
        BY <1>1, <2>2
      <3> HIDE DEF r, I
      <3>2. QED
        BY <2>3, <3>1, RemovePlaces
    <2> HIDE DEF r
    <2>5. \A g \in 1 .. Len(r) : \E h \in 1 .. Len(q) : h # i /\ r[g] = q[h] /\ (g < i => h = g) /\ (g >= i => h = g + 1)
      <3> TAKE g \in 1 .. Len(r)
      <3>1. i \in 1 .. Len(q) /\ g \in 1 .. Len(q) - 1 /\ g \in 1 .. Len(q) /\ g + 1 \in 1 .. Len(q)
        BY <1>1, <2>2, <2>4
      <3>2. CASE g < i
        <4>1. g # i /\ r[g] = q[g] /\ ~(g >= i)
          BY <2>4, <3>1, <3>2
        <4>2. QED
          BY <3>1, <3>2, <4>1
      <3>3. CASE g >= i
        <4>1. g + 1 # i /\ r[g] = q[g + 1] /\ ~(g < i)
          BY <2>4, <3>1, <3>3
        <4>2. QED
          BY <3>1, <3>3, <4>1
      <3>4. QED
        BY <3>1, <3>2, <3>3
    <2>6. ASSUME \A g, h \in 1 .. Len(q) : q[g].fd = q[h].fd => g = h
          PROVE  \A g, h \in 1 .. Len(r) : r[g].fd = r[h].fd => g = h
      <3> TAKE g, h \in 1 .. Len(r)
      <3>1. PICK m \in 1 .. Len(q) : r[g] = q[m] /\ (g < i => m = g) /\ (g >= i => m = g + 1)
        BY <2>5
      <3>2. PICK n \in 1 .. Len(q) : r[h] = q[n] /\ (h < i => n = h) /\ (h >= i => n = h + 1)
        BY <2>5
      <3>3. r[g].fd = r[h].fd => m = n
        BY <2>6, <3>1, <3>2
      <3>4. g \in Nat /\ h \in Nat /\ i \in Nat
        BY <1>1, <2>2, <2>4
      <3>5. QED
        BY <3>1, <3>2, <3>3, <3>4
    <2>7. ASSUME \A g, h \in 1 .. Len(q) : q[g].fd = q[h].fd => g = h
          PROVE  \A g \in 1 .. Len(r) : r[g].fd # x /\ \E h \in 1 .. Len(q) : r[g] = q[h] /\ g <= h
      <3> TAKE g \in 1 .. Len(r)
      <3>1. PICK h \in 1 .. Len(q) : h # i /\ r[g] = q[h] /\ (g < i => h = g) /\ (g >= i => h = g + 1)
        BY <2>5
      <3>2. g \in Nat /\ i \in Nat /\ g <= h
        BY <1>1, <2>2, <2>4, <3>1
      <3>3. r[g].fd # x
        BY <2>2, <2>7, <3>1
      <3>4. QED
        BY <3>1, <3>2, <3>3
    <2>8. q # <<>> /\ q[1].fd # x => r # <<>> /\ r[1] = q[1]
      <3> SUFFICES ASSUME q # <<>>, q[1].fd # x PROVE r # <<>> /\ r[1] = q[1]
        OBVIOUS
      <3>1. i \in 2 .. Len(q)
        BY <1>1, <2>2
      <3>2. Len(r) # 0 /\ 1 \in 1 .. Len(q) - 1 /\ 1 < i
        BY <1>1, <2>4, <3>1
      <3>3. QED
        BY <2>4, <3>2
    <2>9. r \in Seq(S)
      BY <2>4
    <2> HIDE DEF I
    <2>10. QED
      BY <2>6, <2>7, <2>8, <2>9 DEF r
  <1>4. QED
    BY <1>2, <1>3

\* A transfer that remembers the number of one that is polled is that one.
LEMMA FoundOne ==
  ASSUME PollAssumption, IInv, pc[Handler] = "next", NEW t \in Transfers, NEW f, Polled(t, f)
  PROVE  Found(f.fd) = {t}
  <1> USE Given DEF IInv
  <1>1. Listed(t) /\ pollable_fd[t] = f.fd /\ f.fd \in Nat \ {0, 1} /\ Entered(t, f.fd)
    BY Found1 DEF Polled, TransferInv, TransferOk
  <1>2. flying \in Seq(Transfers) /\ DOMAIN flying = 1 .. Len(flying) /\ ToSet(flying) = {flying[n] : n \in 1 .. Len(flying)} /\ Len(flying) \in Nat
    BY QueueElements DEF Shape
  <1>3. ASSUME NEW u \in Transfers, Listed(u), pollable_fd[u] = f.fd PROVE u = t
    <2>1. CASE InFlight(u)
      <3>1. Entered(u, f.fd)
        BY <1>3, <2>1 DEF TransferInv, TransferOk
      <3>2. QED
        BY <1>1, <3>1, OneNumber
    <2>2. CASE ~InFlight(u)
      <3>1. Owned(u)
        BY <1>3, <2>2 DEF InFlight, TransferInv, TransferOk
      <3>2. PICK p \in Procs : Owns(p, u)
        BY <3>1 DEF Owned
      <3>3. OwnerInv(p, u) /\ p # Handler /\ pc[p] \in {"prepare", "look", "claim", "start", "undo", "add"}
        BY <3>2 DEF TransferInv, TransferOk, Owns, Owning, PcInv, Procs, Submitting
      <3>4. pc[p] = "add"
        BY <1>1, <1>3, <3>3 DEF OwnerInv
      <3>5. Entered(u, f.fd)
        BY <1>3, <3>3, <3>4 DEF OwnerInv
      <3>6. QED
        BY <1>1, <3>5, OneNumber
    <2>3. QED
      BY <2>1, <2>2
  <1> DEFINE N == {n \in DOMAIN flying : Matches(flying[n], f.fd)}
  <1>4. N # {} /\ N \subseteq Nat
    <2>1. PICK n \in 1 .. Len(flying) : flying[n] = t
      BY <1>1, <1>2 DEF Listed
    <2>2. n \in N
      BY <1>1, <1>2, <2>1 DEF Matches
    <2>3. QED
      BY <1>2, <2>2
  <1>5. Min(N) \in N
    <2>1. \E m \in N : \A n \in N : m <= n
      BY <1>4, Least
    <2>2. QED
      BY <2>1 DEF Min
  <1>6. \A n \in N : flying[n] = t
    BY <1>2, <1>3 DEF Listed, Matches
  <1>7. QED
    BY <1>4, <1>5, <1>6 DEF Found

\* The transfer of a descriptor that is ready is found.
LEMMA TakeStep ==
  ASSUME PollAssumption, IInv, Take
  PROVE  IInv'
  <1> USE Given DEF IInv
  <1>1. pc[Handler] = "next" /\ Snap /\ Handler \in Procs /\ pc[Handler] \notin Closing /\ Left # {}
    BY DEF Take, At, Snap, Procs, Closing
  <1>2. Len(fds) \in Nat /\ fds \in Seq(Snapped) /\ DOMAIN fds = 1 .. Len(fds) /\ k \in Nat /\ k >= 2
    BY <1>1 DEF Shape, SnapInv
  <1>3. /\ fds # <<>> /\ fds[1].fd = 1 /\ fds[1].events = "read" /\ Distinct(fds)
        /\ \A j \in k .. Len(fds) : \E t \in Transfers : Polled(t, fds[j]) /\ (fds[j].revents => IoCompleted(t))
    BY <1>1 DEF SnapInv, From
  <1>4. PICK m \in Left : m = Min(Left)
    <2>1. Left \subseteq Nat
      BY <1>2 DEF Left, Triggered
    <2>2. \E m \in Left : \A n \in Left : m <= n
      BY <1>1, <2>1, Least
    <2>3. QED
      BY <2>2 DEF Min
  <1>5. m \in k .. Len(fds) /\ fds[m].revents /\ m \in Nat
    BY <1>2, <1>4 DEF Left, Triggered
  <1>6. PICK t \in Transfers : Polled(t, fds[m]) /\ IoCompleted(t)
    BY <1>3, <1>5
  <1>7. /\ Found(fds[m].fd) = {t} /\ Listed(t) /\ Live(t) /\ InFlight(t) /\ ~Owned(t) /\ Entered(t, pollable_fd[t]) /\ fds[m].fd \in Nat \ {0, 1}
        /\ TransferOk(t) /\ turns[t] > 0
    <2>1. TransferOk(t) /\ turns[t] \in Nat
      BY DEF TransferInv, Shape
    <2>2. QED
      BY <1>1, <1>6, <2>1, FoundOne, Found1 DEF Polled, InFlight, TransferOk
  <1>8. /\ k' = m + 1 /\ cur' = [cur EXCEPT ![Handler] = t] /\ pc' = [pc EXCEPT ![Handler] = "clear"]
        /\ pollfds' = WithoutPollfd(fds[m].fd)
        /\ UNCHANGED <<poll_fd, overlapped, crt, flying, pollable_fd, pollfd_modify, events_lock, at, wfd, fds, turns, astray>>
    BY <1>4, <1>7 DEF Take, Goto, tableVars
  <1>9. \A q \in Procs : IF q = Handler THEN pc'[q] = "clear" /\ cur'[q] = t ELSE pc'[q] = pc[q] /\ cur'[q] = cur[q]
    BY <1>1, <1>8 DEF PcInv, Shape
  <1>10. pollfds \in Seq(Pollfd) /\ Len(pollfds) \in Nat /\ pollfds # <<>> /\ pollfds[1] = [fd |-> 1, events |-> "read"] /\ Distinct(pollfds)
         /\ \A j \in 2 .. Len(pollfds) : \E u \in Transfers : Polled(u, pollfds[j])
    BY <1>1 DEF Shape, PollInv
  <1>11. /\ pollfds' \in Seq(Pollfd) /\ Len(pollfds') \in Nat /\ Distinct(pollfds)' /\ pollfds' # <<>> /\ pollfds'[1] = pollfds[1]
         /\ \A j \in 1 .. Len(pollfds') : pollfds'[j].fd # fds[m].fd /\ \E l \in 1 .. Len(pollfds) : pollfds'[j] = pollfds[l] /\ j <= l
    <2>1. pollfds[1].fd # fds[m].fd
      BY <1>7, <1>10
    <2>2. \A i, j \in 1 .. Len(pollfds) : pollfds[i].fd = pollfds[j].fd => i = j
      BY <1>10 DEF Distinct
    <2> DEFINE r == WithoutPollfd(fds[m].fd)
    <2>3. /\ r \in Seq(Pollfd) /\ r # <<>> /\ r[1] = pollfds[1]
          /\ \A i, j \in 1 .. Len(r) : r[i].fd = r[j].fd => i = j
          /\ \A j \in 1 .. Len(r) : r[j].fd # fds[m].fd /\ \E l \in 1 .. Len(pollfds) : r[j] = pollfds[l] /\ j <= l
      BY <1>10, <2>1, <2>2, RemovePollfd
    <2>4. pollfds' = r
      BY <1>8
    <2> HIDE DEF r
    <2>5. Distinct(pollfds)'
      BY <2>3, <2>4 DEF Distinct
    <2>6. pollfds' \in Seq(Pollfd) /\ pollfds' # <<>> /\ pollfds'[1] = pollfds[1]
      BY <2>3, <2>4
    <2>7. \A j \in 1 .. Len(pollfds') : pollfds'[j].fd # fds[m].fd /\ \E l \in 1 .. Len(pollfds) : pollfds'[j] = pollfds[l] /\ j <= l
      BY <2>3, <2>4
    <2>8. QED
      BY <2>5, <2>6, <2>7
  <1>12. Shape'
    <2>1. cur' \in [Procs -> Transfers \cup {None}] /\ k' \in Nat
      BY <1>1, <1>5, <1>8 DEF Shape
    <2>2. QED
      BY <1>8, <1>11, <2>1 DEF Shape
  <1>13. PcInv'
    BY <1>1, <1>8, <1>9 DEF PcInv, Submitting, Completing, Closing, Procs, Slots
  <1>14. \A u \in Transfers : \A n : Entered(u, n) => Entered(u, n)'
    BY <1>8 DEF Entered, EntryOf, Slots
  <1>15. Work(Handler, {t})
    BY <1>1, <1>8, <1>9, <1>14 DEF Work, Listed, Owning
  <1>16. TransferOk(t)'
    <2>1. \A q \in Procs : Owns(q, t)' <=> q = Handler
      BY <1>7, <1>9 DEF Owned, Owns, Owning
    <2>2. OwnerInv(Handler, t)'
      <3>1. pc'[Handler] = "clear" /\ pollable_fd'[t] = pollable_fd[t] /\ turns'[t] > 0 /\ Entered(t, pollable_fd[t])'
        BY <1>1, <1>7, <1>8, <1>9, <1>14
      <3>2. Listed(t)' /\ Live(t)' /\ IoCompleted(t)'
        BY <1>6, <1>7, <1>8 DEF Listed, Live, IoCompleted
      <3>3. QED
        BY <1>1, <2>1, <3>1, <3>2 DEF OwnerInv
    <2>3. Owned(t)' /\ turns'[t] > 0 /\ Live(t)' /\ IoCompleted(t)'
      BY <1>1, <1>6, <1>7, <1>8, <2>1 DEF Owned, Live, IoCompleted
    <2>4. \A q \in Procs : Owns(q, t)' => OwnerInv(q, t)'
      BY <2>1, <2>2
    <2>5. QED
      BY <2>3, <2>4 DEF TransferOk, InFlight
  <1>17. TransferInv'
    BY <1>1, <1>15, <1>16, Others DEF TransferInv
  <1>18. \A q \in Procs : (Creating(q)' <=> Creating(q)) /\ (Creating(q) => cur'[q] = cur[q])
    BY <1>1, <1>9 DEF Creating
  <1>19. NumberInv'
    BY <1>8, <1>18, NumbersKept
  <1>20. TableInv'
    BY <1>8, <1>18, TableKept DEF HasEntry, Live
  <1>21. CountInv'
    BY <1>1, <1>8, <1>9, <1>12, <1>13, CountKept DEF PcInv
  <1>22. pc'[Handler] = "clear" /\ pc'[Handler] \notin Closing
    BY <1>1, <1>9 DEF Closing
  <1>23. \A u \in Transfers : \A f : Polled(u, f) /\ f.fd # fds[m].fd => Polled(u, f)' /\ (IoCompleted(u)' <=> IoCompleted(u))
    <2> TAKE u \in Transfers
    <2> TAKE f
    <2>1. SUFFICES ASSUME Polled(u, f), f.fd # fds[m].fd PROVE Polled(u, f)' /\ (IoCompleted(u)' <=> IoCompleted(u))
      OBVIOUS
    <2>2. u # t
      BY <1>6, <2>1 DEF Polled
    <2>3. QED
      BY <1>1, <1>15, <2>1, <2>2, Others
  <1>24. PollInv'
    <2>1. 1 \in Slots' /\ poll_fd'[1] = PipeEntry /\ Live(Pipe)'
      BY <1>1, <1>8 DEF PollInv, Slots, Live
    <2>2. \A j \in 2 .. Len(pollfds') : \E u \in Transfers : Polled(u, pollfds[j])'
      <3> TAKE j \in 2 .. Len(pollfds')
      <3>1. PICK l \in 2 .. Len(pollfds) : pollfds'[j] = pollfds[l] /\ pollfds[l].fd # fds[m].fd
        <4>1. j \in 1 .. Len(pollfds') /\ j >= 2
          BY <1>11
        <4>2. PICK l \in 1 .. Len(pollfds) : pollfds'[j] = pollfds[l] /\ j <= l /\ pollfds'[j].fd # fds[m].fd
          BY <1>11, <4>1
        <4>3. l \in 2 .. Len(pollfds)
          BY <1>10, <4>1, <4>2
        <4>4. QED
          BY <4>2, <4>3
      <3>2. PICK u \in Transfers : Polled(u, pollfds[l])
        BY <1>10
      <3>3. QED
        BY <1>23, <3>1, <3>2
    <2>3. QED
      BY <1>10, <1>11, <1>22, <2>1, <2>2 DEF PollInv, PipeEntry
  <1>25. SnapInv'
    <2>1. \A j \in m + 1 .. Len(fds) : \E u \in Transfers : Polled(u, fds[j])' /\ (fds[j].revents => IoCompleted(u)')
      <3> TAKE j \in m + 1 .. Len(fds)
      <3>1. j \in k .. Len(fds) /\ j \in 1 .. Len(fds) /\ m \in 1 .. Len(fds) /\ j # m
        BY <1>2, <1>5
      <3>2. fds[j].fd # fds[m].fd
        BY <1>3, <3>1 DEF Distinct
      <3>3. PICK u \in Transfers : Polled(u, fds[j]) /\ (fds[j].revents => IoCompleted(u))
        BY <1>3, <3>1
      <3>4. QED
        BY <1>8, <1>23, <3>2, <3>3
    <2>2. m + 1 >= 2
      BY <1>2, <1>5
    <2>3. Distinct(fds)'
      BY <1>3, <1>8 DEF Distinct
    <2>4. QED
      BY <1>3, <1>8, <1>22, <2>1, <2>2, <2>3 DEF SnapInv, From
  <1>26. NeverAstray'
    BY <1>8 DEF NeverAstray
  <1>27. QED
    BY <1>12, <1>13, <1>17, <1>19, <1>20, <1>21, <1>24, <1>25, <1>26

\* The number of the request is given back: nobody polls it any more.
LEMMA ClearStep ==
  ASSUME PollAssumption, IInv, Clear
  PROVE  IInv'
  <1>1. pc[Handler] = "clear" /\ Handler \in Procs /\ Owning(Handler)
    BY DEF Clear, At, Procs, Owning
  <1>2. PICK t \in Transfers : cur[Handler] = t /\ OwnerInv(Handler, t)
    BY <1>1, Owner DEF IInv
  <1>3. /\ pc' = [pc EXCEPT ![Handler] = "empty"] /\ GiveBack(Handler, pollable_fd[t])
        /\ UNCHANGED <<flying, pollable_fd, pollfds, pollfd_modify, events_lock, cur, wfd, fds, k, astray, turns>>
    BY <1>2 DEF Clear, Goto, pollVars, ctxVars
  <1>4. Entered(t, pollable_fd[t])
    BY <1>1, <1>2 DEF OwnerInv
  <1>5. QED
    BY <1>1, <1>2, <1>3, <1>4, GiveBackStep

\* Its entry is emptied, and the transfer leaves the list.
LEMMA CompleteStep ==
  ASSUME PollAssumption, IInv, FreedInv, Complete
  PROVE  IInv'
  <1> USE Given DEF IInv
  <1>1. pc[Handler] = "empty" /\ Handler \in Procs /\ Owning(Handler) /\ pc[Handler] \notin Closing /\ Freeing(Handler)
    BY DEF Complete, At, Procs, Owning, Closing, Freeing
  <1>2. PICK t \in Transfers : cur[Handler] = t /\ OwnerInv(Handler, t) /\ ~InFlight(t) /\ Owned(t) /\ TransferOk(t)
    BY <1>1, Owner DEF TransferInv
  <1>3. /\ pc' = [pc EXCEPT ![Handler] = "callback"] /\ Empty(Handler) /\ flying' = RemoveFirst(flying, t)
        /\ at' = [at EXCEPT ![Handler] = 0] /\ overlapped' = overlapped /\ crt' = crt
        /\ UNCHANGED <<pollable_fd, pollfds, pollfd_modify, events_lock, cur, wfd, fds, k, astray, turns>>
    BY <1>2 DEF Complete, Goto, pollVars, Empty
  <1>4. \A q \in Procs : IF q = Handler THEN pc'[q] = "callback" ELSE pc'[q] = pc[q]
    BY <1>1, <1>3 DEF PcInv
  <1>5. \A q \in Procs : Creating(q)' => Creating(q) /\ cur'[q] = cur[q] /\ wfd'[q] = wfd[q]
    BY <1>3, <1>4 DEF Creating
  <1>6. /\ \E m \in Tables : poll_fd' \in [1 .. m -> Entry]
        /\ Slots' = Slots /\ poll_fd'[1] = poll_fd[1]
        /\ \A u \in Transfers : \A m : Entered(u, m) => Entered(u, m)'
        /\ TableInv' /\ NumberInv'
    BY <1>1, <1>3, <1>5, EmptyOne
  <1>7. /\ flying' \in Seq(Transfers) /\ IsInjective(flying') /\ ToSet(flying') = ToSet(flying) \ {t}
    BY <1>3, RemoveFirstIn DEF Shape
  <1>8. Shape'
    BY <1>3, <1>6, <1>7 DEF Shape
  <1>9. PcInv'
    BY <1>2, <1>3, <1>4, <1>6 DEF PcInv, Submitting, Completing, Closing, Procs
  <1>10. Work(Handler, {t})
    BY <1>2, <1>3, <1>4, <1>6, <1>7 DEF Work, Listed, Owning
  <1>11. TransferOk(t)'
    <2>1. \A q \in Procs : (Owns(q, t)' <=> Owns(q, t)) /\ (Owns(q, t) => q = Handler)
      BY <1>1, <1>2, <1>3, <1>4 DEF Owns, Owning, OwnerInv
    <2>2. ~Listed(t)' /\ ~Live(t)' /\ turns'[t] > 0 /\ Owned(t)' /\ ~overlapped'[t].event
      BY <1>1, <1>2, <1>3, <1>7, <2>1 DEF Listed, Live, OwnerInv, Owned, TransferOk
    <2>3. OwnerInv(Handler, t)'
      BY <1>1, <1>4, <2>1, <2>2 DEF OwnerInv
    <2>4. \A q \in Procs : Owns(q, t)' => OwnerInv(q, t)'
      BY <2>1, <2>3
    <2>5. QED
      BY <2>2, <2>4 DEF TransferOk, InFlight, Live
  <1>12. CountInv'
    BY <1>1, <1>3, <1>4, <1>8, <1>9, CountKept DEF PcInv
  <1>13. /\ pc[Handler] \notin {"idle", "closed", "exited", "scan", "try", "release"} /\ pc'[Handler] \notin {"closed", "exited", "scan"}
         /\ pollfds' = pollfds /\ fds' = fds /\ k' = k /\ astray' = astray /\ overlapped'[Pipe].live = overlapped[Pipe].live
         /\ 1 \in Slots => 1 \in Slots' /\ poll_fd'[1] = poll_fd[1]
    BY <1>1, <1>3, <1>4, <1>6
  <1>14. TableInv' /\ NumberInv' /\ Handler \in Procs /\ ~InFlight(t) /\ t \in Transfers
    BY <1>1, <1>2, <1>6
  <1> HIDE DEF IInv
  <1>15. QED
    BY <1>8, <1>9, <1>10, <1>11, <1>12, <1>13, <1>14, Mostly

\* A callback that does not submit again
LEMMA CallbackStep ==
  ASSUME PollAssumption, IInv, CallbackReturns
  PROVE  IInv'
  <1> USE Given DEF IInv
  <1>1. pc[Handler] = "callback" /\ Handler \in Procs /\ Owning(Handler)
    BY DEF CallbackReturns, At, Procs, Owning
  <1>2. PICK t \in Transfers : cur[Handler] = t /\ OwnerInv(Handler, t) /\ ~InFlight(t) /\ Owned(t) /\ TransferOk(t)
    BY <1>1, Owner DEF TransferInv
  <1>3. /\ pc' = [pc EXCEPT ![Handler] = "next"] /\ cur' = [cur EXCEPT ![Handler] = None]
        /\ at' = [at EXCEPT ![Handler] = 0] /\ wfd' = [wfd EXCEPT ![Handler] = 0]
        /\ UNCHANGED <<poll_fd, overlapped, crt, flying, pollable_fd, pollfds, pollfd_modify, events_lock, fds, k, astray, turns>>
    BY DEF CallbackReturns, Back, Goto, tableVars, ctxVars, pollVars
  <1>4. \A q \in Procs : IF q = Handler THEN pc'[q] = "next" /\ cur'[q] = None ELSE pc'[q] = pc[q] /\ cur'[q] = cur[q] /\ wfd'[q] = wfd[q]
    BY <1>1, <1>3 DEF PcInv, Shape
  <1>5. Shape'
    BY <1>1, <1>3 DEF Shape
  <1>6. PcInv'
    BY <1>3, <1>4, <1>5 DEF PcInv, Submitting, Completing, Closing, Procs, Slots, Shape
  <1>7. \A u \in Transfers : \A n : Entered(u, n) => Entered(u, n)'
    BY <1>3 DEF Entered, EntryOf, Slots
  <1>8. Work(Handler, {t})
    BY <1>1, <1>2, <1>3, <1>4, <1>7 DEF Work, Listed, Owning
  <1>9. TransferOk(t)'
    <2>1. \A q \in Procs : ~Owns(q, t)'
      BY <1>1, <1>2, <1>4 DEF Owns, Owning, OwnerInv
    <2>2. ~Live(t)' /\ ~Listed(t)' /\ turns'[t] > 0
      BY <1>1, <1>2, <1>3 DEF OwnerInv, Live, Listed
    <2>3. ~overlapped'[t].event
      BY <1>1, <1>2, <1>3 DEF OwnerInv, TransferOk
    <2>4. QED
      BY <2>1, <2>2, <2>3 DEF TransferOk, Owned, InFlight, Live
  <1>10. \A q \in Procs : Creating(q)' => Creating(q) /\ wfd'[q] = wfd[q] /\ cur'[q] = cur[q]
    BY <1>4 DEF Creating
  <1>11. NumberInv'
    BY <1>3, <1>10, NumbersKept
  <1>12. TableInv'
    BY <1>3, <1>10, TableKept DEF HasEntry, Live
  <1>13. CountInv'
    BY <1>1, <1>3, <1>4, <1>5, <1>6, CountKept DEF PcInv
  <1>14. QED
    <2>1. pc'[Handler] = "next" /\ Slots' = Slots /\ poll_fd'[1] = poll_fd[1]
      BY <1>1, <1>3, <1>4 DEF Slots
    <2>2. QED
      BY <1>1, <1>2, <1>3, <1>5, <1>6, <1>8, <1>9, <1>11, <1>12, <1>13, <2>1, Mostly

\* The system ends a request.
LEMMA IoStep ==
  ASSUME PollAssumption, IInv, NEW t \in Transfers, IoEnds(t)
  PROVE  IInv'
  <1> USE Given DEF IInv
  <1>1. /\ Live(t) /\ ~IoCompleted(t) /\ t \in Owners /\ t # Pipe
        /\ UNCHANGED <<poll_fd, crt, flying, pollable_fd, pollfds, pollfd_modify, events_lock, pc, cur, at, wfd, fds, k, astray, turns>>
    BY DEF IoEnds, Live, IoCompleted, Owners, ctxVars, pollVars
  <1>2. PICK o \in Overlapped : overlapped' = [overlapped EXCEPT ![t] = o] /\ o.live /\ o.Internal = "done" /\ o.event
    <2>1. overlapped[t] \in Overlapped /\ overlapped[t].live
      BY <1>1 DEF Shape, Live
    <2> DEFINE o == [[[overlapped[t] EXCEPT !.Internal = "done"] EXCEPT !.InternalHigh = 1] EXCEPT !.event = TRUE]
    <2>2. o \in Overlapped /\ o.live /\ o.Internal = "done" /\ o.event
      BY <2>1 DEF Overlapped
    <2>3. overlapped' = [overlapped EXCEPT ![t] = o]
      BY <1>1 DEF IoEnds, Shape
    <2> HIDE DEF o
    <2>4. QED
      BY <2>2, <2>3
  <1>3. overlapped' \in [Owners -> Overlapped] /\ overlapped'[t] = o /\ \A x \in Owners \ {t} : overlapped'[x] = overlapped[x]
    BY <1>1, <1>2 DEF Shape
  <1>4. Shape'
    BY <1>1, <1>3 DEF Shape
  <1>5. PcInv'
    BY <1>1 DEF PcInv, Slots
  <1>6. \A u \in Transfers : \A n : Entered(u, n)' <=> Entered(u, n)
    BY <1>1 DEF Entered, EntryOf, Slots
  <1>7. \A u \in Transfers : (Live(u)' <=> Live(u)) /\ (Listed(u)' <=> Listed(u)) /\ (IoCompleted(u) => IoCompleted(u)')
    BY <1>1, <1>2, <1>3 DEF Live, Listed, Owners, IoCompleted
  <1>8. \A u \in Transfers : (Owned(u)' <=> Owned(u)) /\ (InFlight(u)' <=> InFlight(u)) /\ \A q \in Procs : Owns(q, u)' <=> Owns(q, u)
    BY <1>1, <1>7 DEF Owned, InFlight, Owns, Owning
  <1>9. TransferInv'
    <2>1. ASSUME NEW u \in Transfers PROVE TransferOk(u)'
      <3>1. TransferOk(u)
        BY DEF TransferInv
      <3>2. ASSUME NEW q \in Procs, Owns(q, u)' PROVE OwnerInv(q, u)'
        <4>1. OwnerInv(q, u)
          BY <1>8, <3>1, <3>2 DEF TransferOk
        <4>2. pc[q] \in {"look", "claim", "start"} => overlapped'[u] = overlapped[u]
          <5>1. pc[q] \in {"look", "claim", "start"} => u # t
            BY <1>1, <4>1 DEF OwnerInv, IoCompleted
          <5>2. QED
            BY <1>3, <5>1 DEF Owners
        <4>3. QED
          BY <1>1, <1>6, <1>7, <1>8, <4>1, <4>2 DEF OwnerInv
      <3>3. overlapped'[u].event => IoCompleted(u)'
        BY <1>2, <1>3, <3>1 DEF TransferOk, IoCompleted, Owners
      <3>4. ~Live(u)' => ~overlapped'[u].event
        BY <1>1, <1>3, <1>7, <3>1 DEF TransferOk, Owners
      <3>5. QED
        BY <1>1, <1>6, <1>7, <1>8, <3>1, <3>2, <3>3, <3>4 DEF TransferOk
    <2>2. QED
      BY <2>1 DEF TransferInv
  <1>10. \A q \in Procs : Creating(q)' <=> Creating(q)
    BY <1>1 DEF Creating
  <1>11. NumberInv'
    BY <1>1, <1>10, NumbersKept
  <1>12. TableInv'
    BY <1>1, <1>7, <1>10, TableKept DEF HasEntry
  <1>13. overlapped'[Pipe] = overlapped[Pipe]
    BY <1>1, <1>3 DEF Owners
  <1>14. CountInv'
    BY <1>1, <1>4, <1>5, <1>13, CountKept DEF PcInv
  <1>15. \A u \in Transfers : \A f : Polled(u, f) => Polled(u, f)' /\ (IoCompleted(u) => IoCompleted(u)')
    BY <1>1, <1>7, <1>8 DEF Polled
  <1>16. PollInv'
    <2>1. CASE pc[Handler] \in Closing
      BY <1>1, <1>13, <2>1 DEF PollInv, Live, INVALID_WINFD, Slots
    <2>2. CASE pc[Handler] \notin Closing
      BY <1>1, <1>13, <1>15, <2>2, PollKept DEF Slots
    <2>3. QED
      BY <2>1, <2>2
  <1>17. SnapInv'
    BY <1>1, <1>15, SnapKept DEF Snap
  <1>18. NeverAstray'
    BY <1>1 DEF NeverAstray
  <1>19. QED
    BY <1>4, <1>5, <1>9, <1>11, <1>12, <1>14, <1>16, <1>17, <1>18

\* An empty list holds nothing.
LEMMA NoElements == ToSet(<<>>) = {}
  <1>1. ToSet(<<>>) = {<<>>[i] : i \in DOMAIN <<>>}
    BY DEF ToSet
  <1>2. DOMAIN <<>> = {}
    OBVIOUS
  <1>3. QED
    BY <1>1, <1>2

\* When everything has ended the table holds the pipe alone.
LEMMA CloseStep ==
  ASSUME PollAssumption, IInv, FreedInv, Close
  PROVE  IInv'
  <1> USE Given DEF IInv
  <1>1. /\ pc[Handler] = "try" /\ Handler \in Procs /\ pc[Handler] \notin Closing /\ flying = <<>> /\ \A p \in Threads : pc[p] = "idle"
        /\ \A t \in Transfers : turns[t] > 0
    BY DEF Close, At, Procs, Closing
  <1>2. Index(1) = 1 /\ poll_fd[1] = PipeEntry /\ 1 \in Slots
    BY <1>1, PipeFound
  <1>3. /\ pc' = [pc EXCEPT ![Handler] = "closed"] /\ pollfds' = <<>> /\ poll_fd' = [poll_fd EXCEPT ![1] = INVALID_WINFD]
        /\ overlapped' = [overlapped EXCEPT ![Pipe] = NoOverlapped]
        /\ UNCHANGED <<crt, flying, pollable_fd, pollfd_modify, events_lock, cur, at, wfd, fds, k, astray, turns>>
    BY <1>2 DEF Close, Goto, pollVars
  <1>4. \A q \in Procs : IF q = Handler THEN pc'[q] = "closed" ELSE pc'[q] = "idle" /\ pc[q] = "idle"
    BY <1>1, <1>3 DEF PcInv, Procs
  <1>5. \A t \in Transfers : ~Live(t) /\ ~Listed(t) /\ ~Owned(t)
    <2> TAKE t \in Transfers
    <2>1. ~Owned(t)
      BY <1>1, <1>4 DEF Owned, Owns, Owning
    <2>2. ~Listed(t)
      BY <1>1, NoElements DEF Listed
    <2>3. QED
      BY <2>1, <2>2 DEF TransferInv, TransferOk
  <1>6. \A i \in Slots \ {1} : poll_fd[i] = INVALID_WINFD
    <2>1. \A i \in Slots : ~BeingFreed(i)
      BY <1>1, <1>4 DEF FreedInv, Freeing
    <2>2. QED
      BY <1>5, <2>1 DEF TableInv, HasEntry
  <1>7. Slots' = Slots /\ \A i \in Slots : poll_fd'[i] = INVALID_WINFD
    BY <1>2, <1>3, <1>6 DEF Slots, Shape
  <1>8. \E m \in Tables : poll_fd' \in [1 .. m -> Entry]
    <2>1. PICK m \in Tables : poll_fd \in [1 .. m -> Entry]
      BY DEF Shape
    <2>2. INVALID_WINFD \in Entry
      BY DEF INVALID_WINFD, Entry
    <2>3. poll_fd' \in [1 .. m -> Entry]
      BY <1>3, <2>1, <2>2
    <2>4. QED
      BY <2>3
  <1>9. /\ overlapped' \in [Owners -> Overlapped] /\ \A t \in Transfers : overlapped'[t] = overlapped[t]
        /\ ~overlapped'[Pipe].live
    <2>1. NoOverlapped \in Overlapped /\ ~NoOverlapped.live /\ Pipe \in Owners
      BY DEF Overlapped, NoOverlapped, NewOverlapped, Owners
    <2>2. QED
      BY <1>3, <2>1 DEF Shape, Owners
  <1>10. Shape'
    BY <1>3, <1>8, <1>9 DEF Shape
  <1>11. PcInv'
    BY <1>1, <1>3, <1>4, <1>7 DEF PcInv, Submitting, Completing, Closing, Procs
  <1>12. \A t \in Transfers : \A n : ~Entered(t, n)
    BY <1>2, <1>6 DEF Entered, EntryOf, INVALID_WINFD, PipeEntry
  <1>13. Work(Handler, {})
    BY <1>1, <1>3, <1>4, <1>9, <1>12 DEF Work, Listed, Owning
  <1>14. TransferInv'
    BY <1>1, <1>13, Others DEF TransferInv
  <1>15. NumberInv'
    BY <1>4 DEF NumberInv, Creating
  <1>16. TableInv'
    BY <1>7 DEF TableInv, INVALID_WINFD
  <1>17. PollInv'
    BY <1>1, <1>3, <1>4, <1>7, <1>9 DEF PollInv, Closing, Live, INVALID_WINFD
  <1>18. SnapInv'
    BY <1>1, <1>4 DEF SnapInv, Snap, Submitting, Completing
  <1>19. CountInv'
    <2>1. Notifying' = Notifying /\ Written' = Written
      BY <1>1, <1>3, <1>4 DEF Notifying, Written, PcInv
    <2>2. PipeExact'
      BY <1>9 DEF PipeExact
    <2>3. QED
      BY <1>3, <2>1, <2>2 DEF CountInv
  <1>20. NeverAstray'
    BY <1>3 DEF NeverAstray
  <1>21. QED
    BY <1>10, <1>11, <1>14, <1>15, <1>16, <1>17, <1>18, <1>19, <1>20

\* There is nothing left to free.
LEMMA ExitStep ==
  ASSUME PollAssumption, IInv, ExitPolling
  PROVE  IInv'
  <1> USE Given DEF IInv
  <1>1. /\ pc[Handler] = "closed" /\ Handler \in Procs /\ pc[Handler] \in Closing
    BY DEF ExitPolling, At, Procs, Closing
  <1>2. /\ flying = <<>> /\ pollfds = <<>> /\ \A p \in Threads : pc[p] = "idle"
        /\ \A t \in Transfers : turns[t] > 0
        /\ \A i \in Slots : poll_fd[i] = INVALID_WINFD
        /\ ~Live(Pipe)
    BY <1>1 DEF PollInv
  <1>3. poll_fd' = poll_fd
    BY <1>2 DEF ExitPolling, Slots, Shape
  <1>4. overlapped' = overlapped
    <2>1. \A i \in Slots : poll_fd[i].overlapped \notin Owners
      BY <1>2 DEF INVALID_WINFD, Owners, Pipe, None
    <2>2. \A o \in Owners : overlapped'[o] = overlapped[o]
      BY <2>1 DEF ExitPolling
    <2>3. overlapped' = [o \in Owners |-> overlapped'[o]] /\ overlapped = [o \in Owners |-> overlapped[o]]
      BY DEF ExitPolling, Shape
    <2>4. QED
      BY <2>2, <2>3
  <1>5. /\ pc' = [pc EXCEPT ![Handler] = "exited"]
        /\ UNCHANGED <<crt, flying, pollable_fd, pollfds, pollfd_modify, events_lock, cur, at, wfd, fds, k, astray, turns>>
    BY DEF ExitPolling, Goto, ctxVars, pollVars
  <1>6. \A q \in Procs : IF q = Handler THEN pc'[q] = "exited" ELSE pc'[q] = "idle" /\ pc[q] = "idle"
    BY <1>1, <1>2, <1>5 DEF PcInv, Procs
  <1>7. Shape'
    BY <1>3, <1>4, <1>5 DEF Shape
  <1>8. PcInv'
    BY <1>1, <1>5, <1>6 DEF PcInv, Submitting, Completing, Closing, Procs
  <1>9. Work(Handler, {})
    BY <1>1, <1>3, <1>4, <1>5, <1>6 DEF Work, Listed, Owning, Entered, EntryOf, Slots
  <1>10. TransferInv'
    BY <1>1, <1>9, Others DEF TransferInv
  <1>11. NumberInv'
    BY <1>6 DEF NumberInv, Creating
  <1>12. TableInv'
    BY <1>2, <1>3 DEF TableInv, INVALID_WINFD, Slots
  <1>13. PollInv'
    BY <1>1, <1>2, <1>3, <1>4, <1>5, <1>6 DEF PollInv, Closing, Live, INVALID_WINFD, Slots
  <1>14. SnapInv'
    BY <1>1, <1>6 DEF SnapInv, Snap, Submitting, Completing
  <1>15. CountInv'
    BY <1>1, <1>4, <1>5, <1>6, <1>7, <1>8, CountKept DEF PcInv
  <1>16. NeverAstray'
    BY <1>5 DEF NeverAstray
  <1>17. QED
    BY <1>7, <1>8, <1>10, <1>11, <1>12, <1>13, <1>14, <1>15, <1>16

\* What usbi_pipe leaves satisfies the invariant,
LEMMA PollStart ==
  ASSUME PollAssumption, Init
  PROVE  IInv /\ FreedInv
  <1> USE Given
  <1>0. /\ poll_fd \in {[i \in 1 .. n |-> IF i = 1 THEN PipeEntry ELSE INVALID_WINFD] : n \in Tables}
        /\ overlapped = [o \in Owners |-> IF o = Pipe THEN [NewOverlapped EXCEPT !.Internal = "pending"] ELSE NoOverlapped]
        /\ crt = {1} /\ flying = <<>> /\ pollable_fd = [t \in Transfers |-> 0]
        /\ pollfds = <<[fd |-> 1, events |-> "read"]>>
        /\ pollfd_modify = 0 /\ events_lock = None
        /\ pc = [p \in Procs |-> IF p = Handler THEN "try" ELSE "idle"]
        /\ cur = [p \in Procs |-> None] /\ at = [p \in Procs |-> 0] /\ wfd = at
        /\ fds = <<>> /\ k = 0 /\ turns = [t \in Transfers |-> 0] /\ astray = FALSE
    BY DEF Init, PipeEntry, Procs
  <1>1. Handler \in Procs /\ \A p \in Procs : pc[p] = IF p = Handler THEN "try" ELSE "idle"
    BY <1>0 DEF Procs
  <1>2. \E n \in Tables : poll_fd = [i \in 1 .. n |-> IF i = 1 THEN PipeEntry ELSE INVALID_WINFD]
    BY <1>0
  <1>3. PICK n \in Tables : poll_fd = [i \in 1 .. n |-> IF i = 1 THEN PipeEntry ELSE INVALID_WINFD] /\ n \in Nat \ {0} /\ Slots = 1 .. n
    BY <1>2 DEF Slots, PollAssumption
  <1>4. \A o \in Owners : overlapped[o] \in Overlapped /\ ~overlapped[o].event /\ (overlapped[o].live <=> o = Pipe)
        /\ (o = Pipe => overlapped[o].Internal = "pending" /\ overlapped[o].InternalHigh = 0)
    <2>1. NewOverlapped = [live |-> TRUE, Internal |-> "zero", InternalHigh |-> 0, event |-> FALSE]
      BY DEF NewOverlapped
    <2>2. NoOverlapped \in Overlapped /\ ~NoOverlapped.live /\ ~NoOverlapped.event
      BY DEF NoOverlapped, NewOverlapped, Overlapped
    <2> DEFINE o == [NewOverlapped EXCEPT !.Internal = "pending"]
    <2>3. o \in Overlapped /\ o.live /\ ~o.event /\ o.Internal = "pending" /\ o.InternalHigh = 0
      BY <2>1 DEF Overlapped
    <2>4. \A x \in Owners : overlapped[x] = IF x = Pipe THEN o ELSE NoOverlapped
      BY <1>0
    <2> HIDE DEF o
    <2>5. QED
      BY <2>2, <2>3, <2>4
  <1>5. Shape
    <2>1. PipeEntry \in Entry /\ INVALID_WINFD \in Entry
      BY DEF PipeEntry, INVALID_WINFD, Entry, Owners
    <2>2. poll_fd \in [1 .. n -> Entry]
      BY <1>3, <2>1
    <2>3. crt \subseteq Nat \ {0} /\ IsFiniteSet(crt) /\ 1 \in crt
      <3>1. IsFiniteSet({1})
        BY FS_Singleton
      <3>2. QED
        BY <1>0, <3>1
    <2>4. overlapped \in [Owners -> Overlapped]
      BY <1>0, <1>4
    <2>5. flying \in Seq(Transfers) /\ IsInjective(flying) /\ fds \in Seq(Snapped)
      BY <1>0 DEF IsInjective
    <2>6. pollfds \in Seq(Pollfd)
      <3>1. [fd |-> 1, events |-> "read"] \in Pollfd
        BY DEF Pollfd
      <3>2. QED
        BY <1>0, <3>1
    <2>7. \A t \in Transfers : turns[t] <= MaxTurns[t]
      BY <1>0
    <2>8. /\ cur \in [Procs -> Transfers \cup {None}] /\ at \in [Procs -> Nat] /\ wfd \in [Procs -> Nat] /\ k \in Nat
          /\ turns \in [Transfers -> Nat] /\ pollable_fd \in [Transfers -> Int] /\ events_lock \in Procs \cup {None}
      BY <1>0 DEF Procs
    <2>9. QED
      BY <2>2, <2>3, <2>4, <2>5, <2>6, <2>7, <2>8 DEF Shape
  <1>6. PcInv
    BY <1>0, <1>1 DEF PcInv, Submitting, Completing, Procs
  <1>7. NumberInv
    BY <1>1 DEF NumberInv, Creating
  <1>8. \A t \in Transfers : ~Owned(t) /\ ~Listed(t) /\ ~Live(t) /\ ~overlapped[t].event
    <2> TAKE t \in Transfers
    <2>1. ~Owned(t)
      BY <1>1 DEF Owned, Owns, Owning
    <2>2. ~Listed(t)
      BY <1>0, NoElements DEF Listed
    <2>3. ~Live(t) /\ ~overlapped[t].event
      BY <1>4 DEF Live, Owners
    <2>4. QED
      BY <2>1, <2>2, <2>3
  <1>9. TransferInv
    BY <1>0, <1>8 DEF TransferInv, TransferOk, Owned, InFlight
  <1>10. \A i \in Slots : IF i = 1 THEN poll_fd[i] = PipeEntry ELSE poll_fd[i] = INVALID_WINFD
    BY <1>3
  <1>11. PipeEntry.fd = 1 /\ INVALID_WINFD.fd = -1 /\ PipeEntry.overlapped = "pipe" /\ INVALID_WINFD.overlapped = "none" /\ Freed = "freed"
    BY DEF PipeEntry, INVALID_WINFD, Pipe, None, Freed
  <1>12. TableInv /\ FreedInv
    BY <1>1, <1>10, <1>11 DEF TableInv, FreedInv, BeingFreed, Freeing
  <1>13. Live(Pipe) /\ overlapped[Pipe].Internal = "pending" /\ overlapped[Pipe].InternalHigh = 0 /\ ~overlapped[Pipe].event
    BY <1>4 DEF Live, Owners
  <1>14. PollInv
    <2>1. Distinct(pollfds) /\ pollfds # <<>> /\ pollfds[1] = [fd |-> 1, events |-> "read"] /\ \A j \in 2 .. Len(pollfds) : FALSE
      BY <1>0 DEF Distinct
    <2>2. 1 \in Slots /\ poll_fd[1] = PipeEntry
      BY <1>3, <1>10
    <2>3. QED
      BY <1>1, <1>13, <2>1, <2>2 DEF PollInv, Closing
  <1>15. SnapInv
    BY <1>1 DEF SnapInv, Snap, Submitting, Completing
  <1>16. CountInv
    <2>1. Notifying = {} /\ Written = {}
      BY <1>0, <1>1 DEF Notifying, Written
    <2>2. IsFiniteSet({}) /\ Cardinality({}) = 0
      BY FS_EmptySet
    <2>3. {q \in DOMAIN pc : pc[q] \in {"lock", "read"}} = {}
      BY <2>1 DEF Written
    <2>4. Cardinality({q \in DOMAIN pc : pc[q] \in {"lock", "read"}}) = 0
      BY <2>2, <2>3
    <2>5. PipeExact
      BY <1>13, <2>4 DEF PipeExact, IoCompleted
    <2>6. QED
      BY <1>0, <2>1, <2>2, <2>5 DEF CountInv
  <1>17. QED
    BY <1>0, <1>5, <1>6, <1>7, <1>9, <1>12, <1>14, <1>15, <1>16 DEF IInv, NeverAstray

\* Whoever frees an entry keeps it while others do something else.
LEMMA FreedKept ==
  ASSUME FreedInv, poll_fd' = poll_fd,
         \A q \in Procs : (Freeing(q)' <=> Freeing(q)) /\ (Freeing(q) => at'[q] = at[q])
  PROVE  FreedInv'
  BY DEF FreedInv, BeingFreed, Slots

\* A step of p that frees nothing
Aside(p) ==
  /\ ~Freeing(p) /\ ~Freeing(p)' /\ poll_fd' = poll_fd
  /\ \A q \in Procs \ {p} : pc'[q] = pc[q] /\ at'[q] = at[q]

\* A number is given back, and its entry is then one to be emptied.
LEMMA FreedMore ==
  ASSUME PollAssumption, IInv, FreedInv, NEW p \in Procs, NEW t \in Transfers, NEW n, Entered(t, n), GiveBack(p, n),
         cur[p] = t, (pc[p] = "start" /\ pc' = [pc EXCEPT ![p] = "undo"]) \/ (pc[p] = "clear" /\ pc' = [pc EXCEPT ![p] = "empty"]),
         cur' = cur, wfd' = wfd
  PROVE  FreedInv'
  <1>1. \A q \in Procs : Freeing(q)' <=> Freeing(q) \/ q = p
    BY DEF Freeing, IInv, PcInv
  <1>2. ~Freeing(p) /\ pc[Handler] \notin Closing
    BY AtWork DEF IInv, Freeing
  <1>3. \A q \in Procs : Creating(q)' => Creating(q) /\ cur'[q] = cur[q] /\ wfd'[q] = wfd[q]
    BY DEF Creating, IInv, PcInv
  <1>4. /\ Slots' = Slots
        /\ \E i \in Slots : /\ at' = [at EXCEPT ![p] = i] /\ ~BeingFreed(i) /\ BeingFreed(i)'
                            /\ \A j \in Slots \ {i} : poll_fd'[j] = poll_fd[j]
    BY <1>2, <1>3, GiveBackOne DEF IInv
  <1>5. PICK i \in Slots : /\ at' = [at EXCEPT ![p] = i] /\ ~BeingFreed(i) /\ BeingFreed(i)'
                           /\ \A j \in Slots \ {i} : poll_fd'[j] = poll_fd[j]
    BY <1>4
  <1>6. \A q \in Procs : at'[q] = IF q = p THEN i ELSE at[q]
    BY <1>5 DEF IInv, Shape
  <1>7. \A j \in Slots : BeingFreed(j)' <=> BeingFreed(j) \/ j = i
    BY <1>5 DEF BeingFreed
  <1>8. \A q \in Procs : Freeing(q) => at[q] # i
    BY <1>5 DEF FreedInv
  <1>9. QED
    BY <1>1, <1>2, <1>4, <1>6, <1>7, <1>8 DEF FreedInv

\* The entry is emptied, and it was the only one of whoever freed it.
LEMMA FreedLess ==
  ASSUME IInv, FreedInv, NEW p \in Procs, Freeing(p), Empty(p),
         \A q \in Procs \ {p} : pc'[q] = pc[q] /\ at'[q] = at[q], ~Freeing(p)'
  PROVE  FreedInv'
  <1>1. PICK i \in Slots : i = at[p]
    BY DEF FreedInv
  <1>2. poll_fd' = [j \in Slots |-> IF j = i THEN INVALID_WINFD ELSE poll_fd[j]] /\ Slots' = Slots
    BY <1>1 DEF Empty, Slots
  <1>3. \A j \in Slots : BeingFreed(j)' <=> BeingFreed(j) /\ j # i
    BY <1>2 DEF BeingFreed, INVALID_WINFD, None, Freed
  <1>4. \A q \in Procs : (Freeing(q)' <=> Freeing(q) /\ q # p) /\ (q # p => at'[q] = at[q])
    BY DEF Freeing
  <1>5. \A q \in Procs : Freeing(q) /\ q # p => at[q] # i
    BY <1>1 DEF FreedInv
  <1>6. QED
    BY <1>1, <1>2, <1>3, <1>4, <1>5 DEF FreedInv

\* No step takes an entry from whoever frees it, or leaves one that nobody
\* frees.
LEMMA FreedStep ==
  ASSUME PollAssumption, IInv, FreedInv, [Next]_vars
  PROVE  FreedInv'
  <1> USE Given
  <1>1. pc \in [Procs -> {"idle", "try", "scan", "next", "release"} \cup Submitting \cup Completing \cup Closing]
        /\ at \in [Procs -> Nat] /\ Handler \in Procs
    BY DEF IInv, PcInv, Shape, Procs
  <1>2. ASSUME NEW p \in Procs, Aside(p) PROVE FreedInv'
    BY <1>2, FreedKept DEF Aside, Freeing
  <1>3. CASE UNCHANGED vars \/ \E t \in Transfers : IoEnds(t)
    <2>1. poll_fd' = poll_fd /\ pc' = pc /\ at' = at
      BY <1>3 DEF vars, tableVars, IoEnds
    <2>2. QED
      BY <2>1, FreedKept DEF Freeing
  <1>4. ASSUME NEW p \in Procs, Submits(p) PROVE FreedInv'
    <2>1. CASE (\E t \in Transfers : Submit(p, t)) \/ Prepare(p) \/ Look(p) \/ NoEntry(p)
      <3>1. Aside(p)
        BY <1>1, <2>1 DEF Aside, Freeing, Submit, Prepare, Look, NoEntry, Refused, Back, CreateFd, At, Goto, tableVars
      <3>2. QED
        BY <1>2, <3>1
    <2>2. CASE Add(p) \/ Modify(p) \/ Write(p) \/ LockEvents(p) \/ Read(p)
      <3>1. Aside(p)
        BY <1>1, <2>2 DEF Aside, Freeing, Add, Modify, Write, LockEvents, Read, Unmodify, Back, At, Goto, tableVars
      <3>2. QED
        BY <1>2, <3>1
    <2>3. CASE Claim(p)
      <3>1. pc[p] = "claim" /\ at[p] \in Slots /\ pc'[p] \in {"look", "start"} /\ \A q \in Procs \ {p} : pc'[q] = pc[q] /\ at'[q] = at[q]
        BY <1>1, <2>3 DEF Claim, At, Goto, IInv, PcInv
      <3>2. \A q \in Procs : (Freeing(q)' <=> Freeing(q)) /\ (Freeing(q) => q # p /\ at'[q] = at[q])
        BY <3>1 DEF Freeing
      <3>3. CASE poll_fd' = poll_fd
        BY <3>2, <3>3, FreedKept
      <3>4. CASE poll_fd' # poll_fd
        <4>1. /\ poll_fd[at[p]] = INVALID_WINFD /\ cur[p] \in Transfers
              /\ poll_fd' = [poll_fd EXCEPT ![at[p]] = [fd |-> wfd[p], overlapped |-> cur[p], rw |-> Direction[cur[p]]]]
          BY <2>3, <3>1, <3>4, EntriesTyped DEF Claim, IInv, PcInv, Submitting
        <4>2. \A j \in Slots : BeingFreed(j)' <=> BeingFreed(j)
          BY <3>1, <4>1 DEF BeingFreed, INVALID_WINFD, None, Freed, Slots
        <4>3. Slots' = Slots
          BY <4>1 DEF Slots
        <4>4. QED
          BY <3>2, <4>2, <4>3 DEF FreedInv
      <3>5. QED
        BY <3>3, <3>4
    <2>4. CASE Start(p)
      <3>1. PICK t \in Transfers : cur[p] = t /\ OwnerInv(p, t) /\ pc[p] = "start"
        BY <2>4, Owner DEF Start, At, Owning, IInv
      <3>2. CASE GiveBack(p, wfd[p]) /\ Goto(p, "undo") /\ UNCHANGED <<pollable_fd, flying, cur, wfd>>
        BY <3>1, <3>2, FreedMore DEF OwnerInv, Goto
      <3>3. CASE ~(GiveBack(p, wfd[p]) /\ Goto(p, "undo") /\ UNCHANGED <<pollable_fd, flying, cur, wfd>>)
        <4>1. Goto(p, "add") /\ UNCHANGED <<poll_fd, at>>
          BY <2>4, <3>3 DEF Start
        <4>2. Aside(p)
          BY <1>1, <3>1, <4>1 DEF Aside, Freeing, Goto
        <4>3. QED
          BY <1>2, <4>2
      <3>4. QED
        BY <3>2, <3>3
    <2>5. CASE Undo(p)
      <3>1. Freeing(p) /\ Empty(p) /\ ~Freeing(p)' /\ \A q \in Procs \ {p} : pc'[q] = pc[q] /\ at'[q] = at[q]
        BY <1>1, <2>5 DEF Undo, Refused, Back, Freeing, At, Goto
      <3>2. QED
        BY <3>1, FreedLess
    <2>6. QED
      BY <1>4, <2>1, <2>2, <2>3, <2>4, <2>5 DEF Submits
  <1>5. CASE Collect \/ Scan \/ Wait \/ Take \/ CallbackReturns \/ Release
    <2>1. Aside(Handler)
      BY <1>1, <1>5 DEF Aside, Freeing, Collect, Scan, Wait, Take, CallbackReturns, Release, Back, At, Goto, tableVars
    <2>2. QED
      BY <1>1, <1>2, <2>1
  <1>6. CASE Clear
    <2>1. PICK t \in Transfers : cur[Handler] = t /\ OwnerInv(Handler, t) /\ pc[Handler] = "clear"
      BY <1>1, <1>6, Owner DEF Clear, At, Owning, IInv
    <2>2. Entered(t, pollable_fd[t]) /\ GiveBack(Handler, pollable_fd[t]) /\ pc' = [pc EXCEPT ![Handler] = "empty"] /\ cur' = cur /\ wfd' = wfd
      BY <1>6, <2>1 DEF Clear, OwnerInv, Goto
    <2>3. QED
      BY <1>1, <2>1, <2>2, FreedMore
  <1>7. CASE Complete
    <2>1. Freeing(Handler) /\ Empty(Handler) /\ ~Freeing(Handler)' /\ \A q \in Procs \ {Handler} : pc'[q] = pc[q] /\ at'[q] = at[q]
      BY <1>1, <1>7 DEF Complete, Freeing, At, Goto
    <2>2. QED
      BY <1>1, <2>1, FreedLess
  <1>8. CASE Close \/ ExitPolling
    <2>1. \A q \in Procs : ~Freeing(q)'
      <3>1. \A q \in Threads : pc[q] = "idle"
        BY <1>8 DEF Close, ExitPolling, At, IInv, PollInv, Closing
      <3>2. pc' = [pc EXCEPT ![Handler] = IF pc[Handler] = "try" THEN "closed" ELSE "exited"]
        BY <1>8 DEF Close, ExitPolling, At, Goto
      <3>3. QED
        BY <1>1, <3>1, <3>2 DEF Freeing, Procs
    <2>2. \A i \in Slots' : ~BeingFreed(i)'
      <3>1. IInv'
        BY <1>8, CloseStep, ExitStep
      <3>2. pc'[Handler] \in Closing
        BY <1>1, <1>8 DEF Close, ExitPolling, Goto, Closing
      <3>3. QED
        BY <3>1, <3>2 DEF IInv, PollInv, BeingFreed, INVALID_WINFD, None, Freed
    <2>3. QED
      BY <2>1, <2>2 DEF FreedInv
  <1>9. QED
    BY <1>3, <1>4, <1>5, <1>6, <1>7, <1>8 DEF Next, Handles, Procs

\* and every step keeps it.
LEMMA PollStep ==
  ASSUME PollAssumption, IInv, FreedInv, [Next]_vars
  PROVE  IInv' /\ FreedInv'
  <1>0. FreedInv'
    BY FreedStep
  <1>1. CASE UNCHANGED vars
    <2> USE <1>1 DEF vars, tableVars, ctxVars, pollVars
    <2>1. Shape'
      BY DEF IInv, Shape
    <2>2. PcInv'
      BY DEF IInv, PcInv, Slots
    <2>3. NumberInv'
      BY DEF IInv, NumberInv, Creating, Slots, BeingFreed
    <2>4. \A t \in Transfers : TransferOk(t)'
      BY DEF IInv, TransferInv, TransferOk, Owns, Owned, Owning, OwnerInv, Listed, Live, InFlight, Entered, EntryOf, IoCompleted, Slots
    <2>5. TableInv'
      BY DEF IInv, TableInv, HasEntry, Live, Creating, Slots, BeingFreed
    <2>6. PollInv'
      BY DEF IInv, PollInv, Distinct, Polled, InFlight, Live, Owned, Owns, Owning, Slots
    <2>7. SnapInv'
      BY DEF IInv, SnapInv, Snap, From, Distinct, Polled, InFlight, Live, Owned, Owns, Owning, IoCompleted
    <2>8. CountInv'
      BY DEF IInv, CountInv, Notifying, Written, PipeExact, IoCompleted
    <2>9. QED
      BY <1>0, <2>1, <2>2, <2>3, <2>4, <2>5, <2>6, <2>7, <2>8 DEF IInv, TransferInv, NeverAstray
  <1>2. ASSUME NEW p \in Procs, Submits(p) PROVE IInv'
    <2>1. ASSUME NEW t \in Transfers, Submit(p, t) PROVE IInv'
      BY <2>1, SubmitStep
    <2>2. CASE Prepare(p)
      BY <2>2, PrepareStep
    <2>3. CASE Look(p)
      BY <2>3, LookStep
    <2>4. CASE NoEntry(p)
      BY <2>4, NoEntryStep
    <2>5. CASE Claim(p)
      BY <2>5, ClaimStep
    <2>6. CASE Start(p)
      BY <2>6, StartStep
    <2>7. CASE Add(p)
      BY <2>7, AddStep
    <2>8. CASE Modify(p)
      BY <2>8, ModifyStep
    <2>9. CASE Write(p)
      BY <2>9, WriteStep
    <2>10. CASE LockEvents(p)
      BY <2>10, LockEventsStep
    <2>11. CASE Read(p)
      BY <2>11, ReadStep
    <2>12. CASE Undo(p)
      BY <2>12, UndoStep
    <2>13. QED
      BY <1>2, <2>1, <2>2, <2>3, <2>4, <2>5, <2>6, <2>7, <2>8, <2>9, <2>10, <2>11, <2>12 DEF Submits
  <1>3. CASE Handles
    BY <1>0, <1>3, CollectStep, ScanStep, WaitStep, TakeStep, ClearStep, CompleteStep, CallbackStep, ReleaseStep, CloseStep, ExitStep DEF Handles
  <1>4. ASSUME NEW t \in Transfers, IoEnds(t) PROVE IInv'
    BY <1>4, IoStep
  <1>5. QED
    BY <1>0, <1>1, <1>2, <1>3, <1>4 DEF Next, Procs

\* Of a live transfer the list holds it, and after the search for an entry
\* it has one.
LEMMA LiveEntered ==
  ASSUME IInv, NEW t \in Transfers, Live(t)
  PROVE  /\ Listed(t)
         /\ (\A p \in Procs : Creating(p) => cur[p] # t) => \E n : Entered(t, n)
  <1>1. TransferOk(t)
    BY DEF IInv, TransferInv
  <1>2. CASE Owned(t)
    <2>1. PICK p \in Procs : Owns(p, t)
      BY <1>2 DEF Owned
    <2>2. OwnerInv(p, t) /\ pc[p] \notin {"prepare", "undo", "empty", "callback"}
      BY <1>1, <2>1 DEF TransferOk, OwnerInv
    <2>3. Listed(t)
      BY <2>2 DEF OwnerInv
    <2>4. ~Creating(p) => \E n : Entered(t, n)
      BY <2>1, <2>2 DEF OwnerInv, Owns, Owning, Creating
    <2>5. QED
      BY <2>1, <2>3, <2>4 DEF Owns
  <1>3. CASE ~Owned(t)
    BY <1>1, <1>3 DEF TransferOk, InFlight
  <1>4. QED
    BY <1>2, <1>3

\* It says what OneEntryEach says,
LEMMA OneEntry ==
  ASSUME PollAssumption, IInv, FreedInv
  PROVE  OneEntryEach
  <1> USE Given
  <1> SUFFICES ASSUME NEW t \in Transfers
               PROVE  LET mine == {i \in Slots : poll_fd[i].overlapped = t} IN
                      /\ Cardinality(mine) = (IF overlapped[t].live /\ ~\E p \in DOMAIN pc : cur[p] = t /\ pc[p] \in {"look", "claim"} THEN 1 ELSE 0)
                      /\ \A i \in mine, j \in Slots : poll_fd[i].fd \in crt /\ (poll_fd[i].fd = poll_fd[j].fd => i = j \/ poll_fd[j].overlapped = Freed)
                      /\ \A j \in Slots : poll_fd[j].overlapped = Freed <=> \E p \in DOMAIN pc : pc[p] \in {"undo", "empty"} /\ at[p] = j
                      /\ overlapped[t].live => Contains(flying, t)
    BY DEF OneEntryEach
  <1> DEFINE mine == {i \in Slots : poll_fd[i].overlapped = t}
             creating == \E p \in DOMAIN pc : cur[p] = t /\ pc[p] \in {"look", "claim"}
  <1>1. creating <=> \E p \in Procs : Creating(p) /\ cur[p] = t
    BY DEF IInv, PcInv, Creating
  <1>2. \A i \in mine : HasEntry(i, t)
    <2> TAKE i \in mine
    <2>1. poll_fd[i] # INVALID_WINFD /\ poll_fd[i] # PipeEntry
      BY DEF INVALID_WINFD, PipeEntry, Pipe, None
    <2>2. PICK u \in Transfers : HasEntry(i, u)
      BY <2>1 DEF IInv, TableInv, BeingFreed
    <2>3. u = t
      BY <2>2 DEF HasEntry, EntryOf
    <2>4. QED
      BY <2>2, <2>3
  <1>3. \A i \in mine, j \in Slots : poll_fd[i].fd \in crt /\ (poll_fd[i].fd = poll_fd[j].fd => i = j \/ poll_fd[j].overlapped = Freed)
    <2> TAKE i \in mine, j \in Slots
    <2>1. poll_fd[i] # INVALID_WINFD /\ ~BeingFreed(i)
      BY DEF INVALID_WINFD, None, BeingFreed
    <2>2. QED
      BY <1>2, <2>1 DEF HasEntry, IInv, TableInv, BeingFreed
  <1>4. Cardinality(mine) = IF overlapped[t].live /\ ~creating THEN 1 ELSE 0
    <2>1. CASE Live(t) /\ ~creating
      <3>0. PICK n : Entered(t, n)
        BY <1>1, <2>1, LiveEntered
      <3>1. PICK i \in Slots : poll_fd[i] = EntryOf(t, n)
        BY <3>0 DEF Entered
      <3>2. i \in mine /\ poll_fd[i] # INVALID_WINFD /\ ~BeingFreed(i)
        BY <3>1 DEF EntryOf, INVALID_WINFD, None, BeingFreed
      <3>3. \A j \in mine : j = i
        BY <3>2 DEF IInv, TableInv
      <3>4. mine = {i}
        BY <3>2, <3>3
      <3>5. Cardinality(mine) = 1
        BY <3>4, FS_Singleton
      <3>6. QED
        BY <2>1, <3>5 DEF Live
    <2>2. CASE ~(Live(t) /\ ~creating)
      <3>1. mine = {}
        BY <1>1, <1>2, <2>2 DEF HasEntry
      <3>2. Cardinality(mine) = 0
        BY <3>1, FS_EmptySet
      <3>3. QED
        BY <2>2, <3>2 DEF Live
    <2>3. QED
      BY <2>1, <2>2
  <1>5. overlapped[t].live => Contains(flying, t)
    <2>1. Live(t) => Listed(t)
      BY LiveEntered
    <2>2. flying \in Seq(Transfers)
      BY DEF IInv, Shape
    <2>3. Listed(t) => Contains(flying, t)
      BY <2>2, QueueElements DEF Listed, Contains
    <2>4. QED
      BY <2>1, <2>3 DEF Live
  <1>6. \A j \in Slots : poll_fd[j].overlapped = Freed <=> \E p \in DOMAIN pc : pc[p] \in {"undo", "empty"} /\ at[p] = j
    BY DEF FreedInv, Freeing, BeingFreed, IInv, PcInv
  <1>7. QED
    BY <1>3, <1>4, <1>5, <1>6

\* what TypeOK says,
LEMMA PollTyped ==
  ASSUME PollAssumption, IInv, astray \in BOOLEAN
  PROVE  TypeOK
  <1>1. Cardinality(Slots) \in Tables /\ \A i \in Slots : poll_fd[i] \in Entry
    <2>1. PICK n \in Tables : poll_fd \in [1 .. n -> Entry]
      BY DEF IInv, Shape
    <2>2. n \in Nat /\ Slots = 1 .. n
      BY <2>1 DEF PollAssumption, Slots
    <2>3. Cardinality(Slots) = n
      BY <2>2, UpTo
    <2>4. QED
      BY <2>1, <2>2, <2>3
  <1>2. Range(flying) \subseteq Transfers
    BY DEF IInv, Shape, Range
  <1>3. pollfd_modify \in Nat
    BY FS_CardinalityType DEF IInv, CountInv
  <1>4. \A t \in Transfers : turns[t] \in 0 .. MaxTurns[t]
    <2> TAKE t \in Transfers
    <2>1. turns[t] \in Nat /\ MaxTurns[t] \in Nat /\ turns[t] <= MaxTurns[t]
      BY Given DEF IInv, Shape
    <2>2. QED
      BY <2>1
  <1>5. QED
    BY <1>1, <1>2, <1>3, <1>4 DEF TypeOK, IInv, Shape, Overlapped, Procs

\* and the rest.
LEMMA PollExact ==
  ASSUME PollAssumption, IInv, FreedInv, astray \in BOOLEAN
  PROVE  TableExact
  <1>1. EndedFirst
    <2> SUFFICES ASSUME At(Handler, "clear") PROVE Live(cur[Handler]) /\ IoCompleted(cur[Handler])
      BY DEF EndedFirst, Live
    <2>1. Owning(Handler) /\ Handler \in Procs
      BY DEF At, Owning, Procs
    <2>2. PICK t \in Transfers : t = cur[Handler] /\ OwnerInv(Handler, t)
      BY <2>1, Owner DEF IInv
    <2>3. QED
      BY <2>2 DEF OwnerInv, At
  <1>2. QED
    BY <1>1, OneEntry, PollTyped DEF TableExact, IInv, CountInv

\* poll_windows.c and the functions of windows_usb.c that use it: for any
\* number of threads and transfers, any size of the table and any order of
\* steps, a request has one entry and one number, which no other entry has but
\* one that somebody is freeing, nothing is left in the table that nobody will
\* free, the handler finds the entry and the
\* transfer of every descriptor it polls, a transfer is called back when its
\* own request has ended, and the pipe counts what was written.
THEOREM TableRight == Spec => []TableExact
  <1>1. Init => IInv /\ FreedInv /\ astray \in BOOLEAN
    BY PollSound, PollStart DEF Init
  <1>2. IInv /\ FreedInv /\ astray \in BOOLEAN /\ [Next]_vars => IInv' /\ FreedInv' /\ (astray \in BOOLEAN)'
    <2>1. IInv /\ FreedInv /\ [Next]_vars => IInv' /\ FreedInv'
      BY PollSound, PollStep
    <2>2. astray \in BOOLEAN /\ [Next]_vars => astray' \in BOOLEAN
      <3> SUFFICES ASSUME astray \in BOOLEAN, [Next]_vars PROVE astray' \in BOOLEAN
        OBVIOUS
      <3>1. ASSUME NEW p \in Procs, Submits(p) PROVE astray' = astray
        BY <3>1 DEF Submits, Submit, Prepare, Look, NoEntry, Claim, Start, Undo, Add, Modify, Write, LockEvents, Read, pollVars
      <3>2. CASE Scan \/ Take
        BY <3>2 DEF Scan, Take
      <3>3. CASE Collect \/ Wait \/ Clear \/ Complete \/ CallbackReturns \/ Release \/ Close \/ ExitPolling
        BY <3>3 DEF Collect, Wait, Clear, Complete, CallbackReturns, Release, Close, ExitPolling, pollVars
      <3>4. ASSUME NEW t \in Transfers, IoEnds(t) PROVE astray' = astray
        BY <3>4 DEF IoEnds, pollVars
      <3>5. QED
        BY <3>1, <3>2, <3>3, <3>4 DEF Next, Handles, vars, pollVars, Procs
    <2>3. QED
      BY <2>1, <2>2
  <1>3. IInv /\ FreedInv /\ astray \in BOOLEAN => TableExact
    BY PollSound, PollExact
  <1>4. QED
    BY <1>1, <1>2, <1>3, PTL DEF Spec

-----------------------------------------------------------------------------
\* Where a caller may be
Labels == {"out", "enter", "init", "in", "fail", "join", "leave", "signal", "await", "again"}

\* Where a caller holds the semaphore, and where it may read the clock
Holding(p) == clock_pc[p] \in {"init", "fail", "join", "leave"}
Using(p) == clock_pc[p] \in {"in", "signal", "await", "again"}

\* Where a caller has returned with the semaphore
Leaks(p) == semaphore = p /\ clock_pc[p] \in {"out", "enter"}

\* Those whose context is counted in concurrent_usage
Open ==
  {p \in Callers : \/ Using(p) \/ CallerAt(p, "init") \/ Leaks(p)
                   \/ clock_pc[p] \in {"fail", "join"} /\ reads[p] = 0
                   \/ CallerAt(p, "leave") /\ concurrent_usage >= 0 /\ reads[p] < MaxReads}

Alive == timer_thread \notin {"none", "ended"} /\ ~timer_request[2]

\* One caller creates or ends its context at a time.
LockInv ==
  /\ clock_pc \in [Callers -> Labels] /\ reads \in [Callers -> 0..MaxReads] /\ inits \in [Callers -> Nat]
  /\ \A p \in Callers : (Holding(p) \/ Leaks(p)) <=> semaphore = p
  /\ \A p \in Callers : clock_pc[p] \in {"out", "enter", "init"} => reads[p] = 0
  /\ \A p \in Callers : clock_pc[p] \in {"fail", "join"} => reads[p] \in {0, MaxReads}

\* concurrent_usage is the number of contexts less one.
UsageInv == concurrent_usage + 1 = Cardinality(Open)

\* The thread lives while a context is open: it starts and ends under the
\* semaphore, when no other context is.
ThreadInv ==
  /\ timer_thread \in {"none", "ended"} => request_count = 0
  /\ timer_thread # "respond" => nb_responses = 0
  /\ semaphore = Nobody => IF concurrent_usage >= 0 THEN Alive ELSE timer_thread = "none"
  /\ \A p \in Callers :
       /\ CallerAt(p, "leave") => IF concurrent_usage >= 0 THEN Alive ELSE timer_thread = "none"
       /\ CallerAt(p, "init") => IF concurrent_usage > 0 THEN Alive ELSE timer_thread = "none"
       /\ Leaks(p) => concurrent_usage = 0
       /\ CallerAt(p, "fail") => Alive
       /\ CallerAt(p, "join") => timer_thread # "none"
       /\ clock_pc[p] \in {"fail", "join"} => \A q \in Callers : ~Using(q)

\* The invariant: what is claimed with what it rests on
ClockInv == ClockTypeOK /\ LockInv /\ UsageInv /\ ThreadInv /\ NoRequestLost /\ AnswersOwed

\* An open context is counted, and when the count is 0 it is the only one.
LEMMA OpenCounted ==
  ASSUME ClockAssumption, ClockTypeOK, UsageInv
  PROVE  /\ IsFiniteSet(Open) /\ concurrent_usage >= -1
         /\ \A p \in Open : concurrent_usage >= 0
         /\ concurrent_usage = 0 => \A p, q \in Open : p = q
  <1>1. IsFiniteSet(Open)
    BY FS_Subset DEF ClockAssumption, Open
  <1>2. Cardinality(Open) \in Nat
    BY <1>1, FS_CardinalityType
  <1>3. \A p \in Open : Cardinality(Open) # 0
    BY <1>1, FS_EmptySet
  <1>4. Cardinality(Open) = 1 => \A p, q \in Open : p = q
    <2>1. Cardinality(Open) = 1 => \E x : Open = {x}
      BY <1>1, FS_Singleton
    <2>2. QED
      BY <2>1
  <1>5. QED
    BY <1>1, <1>2, <1>3, <1>4 DEF UsageInv, ClockTypeOK

\* Whoever may read the clock finds the thread alive.
LEMMA UserAlive ==
  ASSUME ClockAssumption, ClockTypeOK, LockInv, UsageInv, ThreadInv, NEW p \in Callers, Using(p)
  PROVE  Alive /\ concurrent_usage >= 0 /\ p \in Open
  <1>1. p \in Open /\ concurrent_usage >= 0
    BY OpenCounted DEF Open
  <1>2. CASE semaphore = Nobody
    BY <1>1, <1>2 DEF ThreadInv
  <1>3. CASE semaphore # Nobody
    <2>1. semaphore \in Callers /\ Holding(semaphore)
      <3>1. semaphore \in Callers /\ (Holding(semaphore) \/ Leaks(semaphore))
        BY <1>3 DEF ClockTypeOK, LockInv
      <3>2. CASE Leaks(semaphore)
        <4>1. semaphore \in Open /\ concurrent_usage = 0
          BY <3>1, <3>2 DEF Open, ThreadInv
        <4>2. semaphore = p
          BY <1>1, <4>1, OpenCounted
        <4>3. QED
          BY <3>2, <4>2 DEF Leaks, Using
      <3>3. QED
        BY <3>1, <3>2
    <2>2. CallerAt(semaphore, "init") => concurrent_usage > 0
      <3>1. CallerAt(semaphore, "init") => semaphore \in Open /\ semaphore # p
        BY <2>1 DEF Open, CallerAt, Using
      <3>2. QED
        BY <1>1, <3>1, OpenCounted DEF ClockTypeOK
    <2>3. QED
      BY <1>1, <2>1, <2>2 DEF ThreadInv, Holding, CallerAt
  <1>4. QED
    BY <1>1, <1>2, <1>3

\* Those who wait can be counted.
LEMMA WaitingFinite ==
  ASSUME ClockAssumption
  PROVE  IsFiniteSet(Waiting) /\ Cardinality(Waiting) \in Nat
  BY FS_Subset, FS_CardinalityType DEF ClockAssumption, Waiting

\* Who waits is counted.
LEMMA SomebodyWaits ==
  ASSUME ClockAssumption, NEW p \in Waiting
  PROVE  Cardinality(Waiting) \in Nat /\ Cardinality(Waiting) > 0
  BY WaitingFinite, FS_EmptySet

\* Every step keeps the types.
LEMMA TypeStep ==
  ASSUME ClockAssumption PROVE ClockTypeOK /\ LockInv /\ AnswersOwed /\ [ClockNext]_clock => ClockTypeOK'
  <1> SUFFICES ASSUME ClockTypeOK, LockInv, AnswersOwed, [ClockNext]_clock
               PROVE  ClockTypeOK'
    OBVIOUS
  <1> USE ClockAssumption DEF ClockAssumption, CallerGoto, CallerAt, Alone, Quietly, Thread, clockVars
  <1>1. ASSUME NEW p \in Callers, InitLock(p) PROVE ClockTypeOK'
    BY <1>1 DEF ClockTypeOK, LockInv, InitLock
  <1>2. ASSUME NEW p \in Callers, InitDo(p) PROVE ClockTypeOK'
    <2>1. timer_request' \in [1..2 -> BOOLEAN]
      BY <1>2 DEF ClockTypeOK, InitDo
    <2>2. timer_thread' \in {timer_thread, "start"} /\ timer_response' \in Nat
      BY <1>2 DEF ClockTypeOK, InitDo
    <2>3. UNCHANGED <<concurrent_usage, semaphore, request_count, nb_responses, hires, retries>> /\ refused' \in Nat
      BY <1>2 DEF InitDo, ClockTypeOK
    <2>4. QED
      BY <2>1, <2>2, <2>3 DEF ClockTypeOK
  <1>3. ASSUME NEW p \in Callers, ExitLock(p) PROVE ClockTypeOK'
    BY <1>3 DEF ClockTypeOK, LockInv, ExitLock
  <1>4. ASSUME NEW p \in Callers, Quit(p) PROVE ClockTypeOK'
    BY <1>4 DEF ClockTypeOK, LockInv, Quit
  <1>5. ASSUME NEW p \in Callers, Join(p) PROVE ClockTypeOK'
    BY <1>5 DEF ClockTypeOK, LockInv, Join
  <1>6. ASSUME NEW p \in Callers, Leave(p) PROVE ClockTypeOK'
    BY <1>6 DEF ClockTypeOK, LockInv, Leave
  <1>7. ASSUME NEW p \in Callers, Ask(p) PROVE ClockTypeOK'
    BY <1>7 DEF ClockTypeOK, LockInv, Ask
  <1>8. ASSUME NEW p \in Callers, Signal(p) PROVE ClockTypeOK'
    BY <1>8 DEF ClockTypeOK, LockInv, Signal
  <1>9. ASSUME NEW p \in Callers, Answered(p) PROVE ClockTypeOK'
    BY <1>9 DEF ClockTypeOK, LockInv, Answered
  <1>10. ASSUME NEW p \in Callers, Retry(p) PROVE ClockTypeOK'
    <2>1. Starving => refused > 0
      BY <1>10, SomebodyWaits DEF AnswersOwed, Starving, ClockTypeOK, Waiting, Retry
    <2>2. QED
      BY <1>10, <2>1 DEF ClockTypeOK, LockInv, Retry
  <1>11. ASSUME ThreadStart PROVE ClockTypeOK'
    BY <1>11 DEF ClockTypeOK, LockInv, ThreadStart
  <1>12. ASSUME Woken PROVE ClockTypeOK'
    BY <1>12 DEF ClockTypeOK, LockInv, Woken
  <1>13. ASSUME Check PROVE ClockTypeOK'
    BY <1>13 DEF ClockTypeOK, LockInv, Check
  <1>14. ASSUME Reset PROVE ClockTypeOK'
    BY <1>14 DEF ClockTypeOK, LockInv, Reset
  <1>15. ASSUME Recheck PROVE ClockTypeOK'
    BY <1>15 DEF ClockTypeOK, LockInv, Recheck
  <1>16. ASSUME Sample PROVE ClockTypeOK'
    BY <1>16 DEF ClockTypeOK, LockInv, Sample
  <1>17. ASSUME Respond PROVE ClockTypeOK'
    BY <1>17 DEF ClockTypeOK, LockInv, Respond
  <1>18. ASSUME NEW p \in Callers, InitCall(p) PROVE ClockTypeOK'
    BY <1>18 DEF ClockTypeOK, LockInv, InitCall
  <1>19. ASSUME NEW p \in Callers, InitFails(p) PROVE ClockTypeOK'
    BY <1>19 DEF ClockTypeOK, LockInv, InitFails
  <1>20. ASSUME NEW p \in Callers, InitLeaks(p) PROVE ClockTypeOK'
    BY <1>20 DEF ClockTypeOK, LockInv, InitLeaks
  <1>21. CASE UNCHANGED clock
    BY <1>21 DEF ClockTypeOK, LockInv, clock
  <1>22. QED
    BY <1>1, <1>2, <1>3, <1>4, <1>5, <1>6, <1>7, <1>8, <1>9, <1>10, <1>11, <1>12, <1>13, <1>14, <1>15, <1>16, <1>17, <1>18, <1>19, <1>20, <1>21 DEF ClockNext, Asks, Lives, Ticks

\* Every step keeps the semaphore to one caller.
LEMMA LockStep ==
  ASSUME ClockAssumption PROVE ClockTypeOK /\ LockInv /\ UsageInv /\ [ClockNext]_clock => LockInv'
  <1> SUFFICES ASSUME ClockTypeOK, LockInv, UsageInv, [ClockNext]_clock
               PROVE  LockInv'
    OBVIOUS
  <1> USE ClockAssumption DEF ClockAssumption, CallerGoto, CallerAt, Alone, Quietly, Thread, clockVars
  <1>1. ASSUME NEW p \in Callers, InitLock(p) PROVE LockInv'
    BY <1>1 DEF ClockTypeOK, LockInv, Labels, Holding, Leaks, InitLock
  <1>2. ASSUME NEW p \in Callers, InitDo(p) PROVE LockInv'
    BY <1>2 DEF ClockTypeOK, LockInv, Labels, Holding, Leaks, InitDo
  <1>3. ASSUME NEW p \in Callers, ExitLock(p) PROVE LockInv'
    BY <1>3 DEF ClockTypeOK, LockInv, Labels, Holding, Leaks, ExitLock
  <1>4. ASSUME NEW p \in Callers, Quit(p) PROVE LockInv'
    BY <1>4 DEF ClockTypeOK, LockInv, Labels, Holding, Leaks, Quit
  <1>5. ASSUME NEW p \in Callers, Join(p) PROVE LockInv'
    BY <1>5 DEF ClockTypeOK, LockInv, Labels, Holding, Leaks, Join
  <1>6. ASSUME NEW p \in Callers, Leave(p) PROVE LockInv'
    BY <1>6, OpenCounted DEF ClockTypeOK, LockInv, Labels, Holding, Leaks, Leave
  <1>7. ASSUME NEW p \in Callers, Ask(p) PROVE LockInv'
    BY <1>7 DEF ClockTypeOK, LockInv, Labels, Holding, Leaks, Ask
  <1>8. ASSUME NEW p \in Callers, Signal(p) PROVE LockInv'
    BY <1>8 DEF ClockTypeOK, LockInv, Labels, Holding, Leaks, Signal
  <1>9. ASSUME NEW p \in Callers, Answered(p) PROVE LockInv'
    BY <1>9 DEF ClockTypeOK, LockInv, Labels, Holding, Leaks, Answered
  <1>10. ASSUME NEW p \in Callers, Retry(p) PROVE LockInv'
    BY <1>10 DEF ClockTypeOK, LockInv, Labels, Holding, Leaks, Retry
  <1>11. ASSUME ThreadStart PROVE LockInv'
    BY <1>11 DEF ClockTypeOK, LockInv, Labels, Holding, Leaks, ThreadStart
  <1>12. ASSUME Woken PROVE LockInv'
    BY <1>12 DEF ClockTypeOK, LockInv, Labels, Holding, Leaks, Woken
  <1>13. ASSUME Check PROVE LockInv'
    BY <1>13 DEF ClockTypeOK, LockInv, Labels, Holding, Leaks, Check
  <1>14. ASSUME Reset PROVE LockInv'
    BY <1>14 DEF ClockTypeOK, LockInv, Labels, Holding, Leaks, Reset
  <1>15. ASSUME Recheck PROVE LockInv'
    BY <1>15 DEF ClockTypeOK, LockInv, Labels, Holding, Leaks, Recheck
  <1>16. ASSUME Sample PROVE LockInv'
    BY <1>16 DEF ClockTypeOK, LockInv, Labels, Holding, Leaks, Sample
  <1>17. ASSUME Respond PROVE LockInv'
    BY <1>17 DEF ClockTypeOK, LockInv, Labels, Holding, Leaks, Respond
  <1>18. ASSUME NEW p \in Callers, InitCall(p) PROVE LockInv'
    BY <1>18 DEF ClockTypeOK, LockInv, Labels, Holding, Leaks, InitCall
  <1>19. ASSUME NEW p \in Callers, InitFails(p) PROVE LockInv'
    BY <1>19 DEF ClockTypeOK, LockInv, Labels, Holding, Leaks, InitFails
  <1>20. ASSUME NEW p \in Callers, InitLeaks(p) PROVE LockInv'
    BY <1>20 DEF ClockTypeOK, LockInv, Labels, Holding, Leaks, InitLeaks
  <1>21. CASE UNCHANGED clock
    BY <1>21 DEF ClockTypeOK, LockInv, Labels, Holding, Leaks, clock
  <1>22. QED
    BY <1>1, <1>2, <1>3, <1>4, <1>5, <1>6, <1>7, <1>8, <1>9, <1>10, <1>11, <1>12, <1>13, <1>14, <1>15, <1>16, <1>17, <1>18, <1>19, <1>20, <1>21 DEF ClockNext, Asks, Lives, Ticks

\* What is counted stays.
LEMMA UsageQuiet ==
  ASSUME UsageInv, concurrent_usage' = concurrent_usage, Open' = Open
  PROVE  UsageInv'
  BY DEF UsageInv

\* Every step keeps concurrent_usage exact.
LEMMA UsageStep ==
  ASSUME ClockAssumption PROVE ClockTypeOK /\ LockInv /\ UsageInv /\ ThreadInv /\ [ClockNext]_clock => UsageInv'
  <1> SUFFICES ASSUME ClockTypeOK, LockInv, UsageInv, ThreadInv, [ClockNext]_clock
               PROVE  UsageInv'
    OBVIOUS
  <1> USE ClockAssumption DEF ClockAssumption, CallerGoto, CallerAt, Alone, Quietly, Thread, clockVars
  <1>1. ASSUME NEW p \in Callers, InitLock(p) PROVE UsageInv'
    <2>1. Open' = Open \cup {p} /\ p \notin Open
      BY <1>1 DEF ClockTypeOK, LockInv, Labels, Holding, Leaks, Using, Open, InitLock
    <2>2. Cardinality(Open') = Cardinality(Open) + 1
      BY <2>1, OpenCounted, FS_AddElement
    <2>3. QED
      BY <1>1, <2>2 DEF UsageInv, ClockTypeOK, InitLock
  <1>2. ASSUME NEW p \in Callers, InitDo(p) PROVE UsageInv'
    <2>1. p \in Open /\ concurrent_usage >= 0
      BY <1>2, OpenCounted DEF Open, InitDo
    <2>2. \A q \in Callers \ {p} : ~Holding(q) /\ clock_pc'[q] = clock_pc[q] /\ reads'[q] = reads[q]
      BY <1>2 DEF LockInv, Holding, InitDo
    <2>3. p \in Open'
      BY <1>2, <2>1 DEF ClockTypeOK, LockInv, Open, Using, InitDo
    <2>4. Open' = Open
      BY <1>2, <2>1, <2>2, <2>3 DEF Open, Using, Leaks, Holding, InitDo
    <2>5. QED
      BY <1>2, <2>4, UsageQuiet DEF InitDo
  <1>3. ASSUME NEW p \in Callers, ExitLock(p) PROVE UsageInv'
    <2>1. Open' = Open \ {p} /\ p \in Open
      BY <1>3 DEF ClockTypeOK, LockInv, Labels, Holding, Leaks, Using, Open, ExitLock
    <2>2. Cardinality(Open') = Cardinality(Open) - 1
      BY <2>1, OpenCounted, FS_RemoveElement
    <2>3. Cardinality(Open) \in Nat
      BY OpenCounted, FS_CardinalityType
    <2>4. QED
      BY <1>3, <2>2, <2>3 DEF UsageInv, ClockTypeOK, ExitLock
  <1>4. ASSUME NEW p \in Callers, Quit(p) PROVE UsageInv'
    <2>1. Open' = Open
      BY <1>4 DEF ClockTypeOK, LockInv, Labels, Holding, Leaks, Using, Open, Quit
    <2>2. QED
      BY <1>4, <2>1, UsageQuiet DEF Quit
  <1>5. ASSUME NEW p \in Callers, Join(p) PROVE UsageInv'
    <2>1. Open' = {}
      BY <1>5 DEF ClockTypeOK, LockInv, Labels, Holding, Leaks, Using, Open, ThreadInv, Join
    <2>2. QED
      BY <1>5, <2>1, FS_EmptySet DEF UsageInv, Join
  <1>6. ASSUME NEW p \in Callers, Leave(p) PROVE UsageInv'
    <2>1. Open' = Open
      BY <1>6, OpenCounted DEF ClockTypeOK, LockInv, Labels, Holding, Leaks, Using, Open, Leave
    <2>2. QED
      BY <1>6, <2>1, UsageQuiet DEF Leave
  <1>7. ASSUME NEW p \in Callers, Ask(p) PROVE UsageInv'
    <2>1. Open' = Open
      BY <1>7 DEF ClockTypeOK, LockInv, Labels, Holding, Leaks, Using, Open, Ask
    <2>2. QED
      BY <1>7, <2>1, UsageQuiet DEF Ask
  <1>8. ASSUME NEW p \in Callers, Signal(p) PROVE UsageInv'
    <2>1. Open' = Open
      BY <1>8 DEF ClockTypeOK, LockInv, Labels, Holding, Leaks, Using, Open, Signal
    <2>2. QED
      BY <1>8, <2>1, UsageQuiet DEF Signal
  <1>9. ASSUME NEW p \in Callers, Answered(p) PROVE UsageInv'
    <2>1. Open' = Open
      BY <1>9 DEF ClockTypeOK, LockInv, Labels, Holding, Leaks, Using, Open, Answered
    <2>2. QED
      BY <1>9, <2>1, UsageQuiet DEF Answered
  <1>10. ASSUME NEW p \in Callers, Retry(p) PROVE UsageInv'
    <2>1. Open' = Open
      BY <1>10 DEF ClockTypeOK, LockInv, Labels, Holding, Leaks, Using, Open, Retry
    <2>2. QED
      BY <1>10, <2>1, UsageQuiet DEF Retry
  <1>11. ASSUME ThreadStart PROVE UsageInv'
    <2>1. Open' = Open
      BY <1>11 DEF ClockTypeOK, LockInv, Labels, Holding, Leaks, Using, Open, ThreadStart
    <2>2. QED
      BY <1>11, <2>1, UsageQuiet DEF ThreadStart
  <1>12. ASSUME Woken PROVE UsageInv'
    <2>1. Open' = Open
      BY <1>12 DEF ClockTypeOK, LockInv, Labels, Holding, Leaks, Using, Open, Woken
    <2>2. QED
      BY <1>12, <2>1, UsageQuiet DEF Woken
  <1>13. ASSUME Check PROVE UsageInv'
    <2>1. Open' = Open
      BY <1>13 DEF ClockTypeOK, LockInv, Labels, Holding, Leaks, Using, Open, Check
    <2>2. QED
      BY <1>13, <2>1, UsageQuiet DEF Check
  <1>14. ASSUME Reset PROVE UsageInv'
    <2>1. Open' = Open
      BY <1>14 DEF ClockTypeOK, LockInv, Labels, Holding, Leaks, Using, Open, Reset
    <2>2. QED
      BY <1>14, <2>1, UsageQuiet DEF Reset
  <1>15. ASSUME Recheck PROVE UsageInv'
    <2>1. Open' = Open
      BY <1>15 DEF ClockTypeOK, LockInv, Labels, Holding, Leaks, Using, Open, Recheck
    <2>2. QED
      BY <1>15, <2>1, UsageQuiet DEF Recheck
  <1>16. ASSUME Sample PROVE UsageInv'
    <2>1. Open' = Open
      BY <1>16 DEF ClockTypeOK, LockInv, Labels, Holding, Leaks, Using, Open, Sample
    <2>2. QED
      BY <1>16, <2>1, UsageQuiet DEF Sample
  <1>17. ASSUME Respond PROVE UsageInv'
    <2>1. Open' = Open
      BY <1>17 DEF ClockTypeOK, LockInv, Labels, Holding, Leaks, Using, Open, Respond
    <2>2. QED
      BY <1>17, <2>1, UsageQuiet DEF Respond
  <1>18. ASSUME NEW p \in Callers, InitCall(p) PROVE UsageInv'
    <2>1. Open' = Open
      BY <1>18 DEF ClockTypeOK, LockInv, Labels, Holding, Leaks, Using, Open, InitCall
    <2>2. QED
      BY <1>18, <2>1, UsageQuiet DEF InitCall, clockVars
  <1>19. ASSUME NEW p \in Callers, InitFails(p) PROVE UsageInv'
    <2>1. Open' = {}
      BY <1>19, OpenCounted DEF ClockTypeOK, LockInv, Labels, Holding, Leaks, Using, Open, InitFails
    <2>2. QED
      BY <1>19, <2>1, FS_EmptySet DEF UsageInv, InitFails
  <1>20. ASSUME NEW p \in Callers, InitLeaks(p) PROVE UsageInv'
    <2>1. Open' = Open
      BY <1>20 DEF ClockTypeOK, LockInv, Labels, Holding, Leaks, Using, Open, InitLeaks
    <2>2. QED
      BY <1>20, <2>1, UsageQuiet DEF InitLeaks, clockVars
  <1>21. CASE UNCHANGED clock
    BY <1>21 DEF UsageInv, ClockTypeOK, LockInv, Labels, Holding, Leaks, Using, Open, clock
  <1>22. QED
    BY <1>1, <1>2, <1>3, <1>4, <1>5, <1>6, <1>7, <1>8, <1>9, <1>10, <1>11, <1>12, <1>13, <1>14, <1>15, <1>16, <1>17, <1>18, <1>19, <1>20, <1>21 DEF ClockNext, Asks, Lives, Ticks

\* Every step keeps the thread alive while it is needed.
LEMMA ThreadStep ==
  ASSUME ClockAssumption PROVE ClockTypeOK /\ LockInv /\ UsageInv /\ ThreadInv /\ NoRequestLost /\ [ClockNext]_clock => ThreadInv'
  <1> SUFFICES ASSUME ClockTypeOK, LockInv, UsageInv, ThreadInv, NoRequestLost, [ClockNext]_clock
               PROVE  ThreadInv'
    OBVIOUS
  <1> USE ClockAssumption DEF ClockAssumption, CallerGoto, CallerAt, Alone, Quietly, Thread, clockVars
  <1>1. ASSUME NEW p \in Callers, InitLock(p) PROVE ThreadInv'
    <2>1. \A q \in Callers : ~Holding(q)
      BY <1>1 DEF LockInv, InitLock
    <2>2. QED
      BY <1>1, <2>1, OpenCounted DEF ClockTypeOK, LockInv, ThreadInv, Alive, Holding, Using, Leaks, InitLock
  <1>2. ASSUME NEW p \in Callers, InitDo(p) PROVE ThreadInv'
    <2>1. p \in Open /\ concurrent_usage >= 0
      BY <1>2, OpenCounted DEF Open, InitDo
    <2>2. concurrent_usage = 0 => \A q \in Callers \ {p} : ~Using(q)
      BY <2>1, OpenCounted DEF Open
    <2>3. QED
      BY <1>2, <2>1, <2>2 DEF ClockTypeOK, LockInv, ThreadInv, Alive, Holding, Using, Leaks, InitDo
  <1>3. ASSUME NEW p \in Callers, ExitLock(p) PROVE ThreadInv'
    <2>1. Alive /\ concurrent_usage >= 0 /\ p \in Open
      BY <1>3, UserAlive DEF Using, ExitLock
    <2>2. concurrent_usage = 0 => \A q \in Callers \ {p} : ~Using(q)
      BY <2>1, OpenCounted DEF Open
    <2>3. QED
      BY <1>3, <2>1, <2>2 DEF ClockTypeOK, LockInv, ThreadInv, Alive, Holding, Using, Leaks, ExitLock
  <1>4. ASSUME NEW p \in Callers, Quit(p) PROVE ThreadInv'
    BY <1>4 DEF ClockTypeOK, LockInv, ThreadInv, Alive, Holding, Using, Leaks, Quit
  <1>5. ASSUME NEW p \in Callers, Join(p) PROVE ThreadInv'
    BY <1>5 DEF ClockTypeOK, LockInv, ThreadInv, Alive, Holding, Using, Leaks, Join
  <1>6. ASSUME NEW p \in Callers, Leave(p) PROVE ThreadInv'
    BY <1>6 DEF ClockTypeOK, LockInv, ThreadInv, Alive, Holding, Using, Leaks, Leave
  <1>7. ASSUME NEW p \in Callers, Ask(p) PROVE ThreadInv'
    <2>1. Alive /\ concurrent_usage >= 0
      BY <1>7, UserAlive DEF Using, Ask
    <2>2. QED
      BY <1>7, <2>1 DEF ClockTypeOK, LockInv, ThreadInv, Alive, Holding, Using, Leaks, Ask
  <1>8. ASSUME NEW p \in Callers, Signal(p) PROVE ThreadInv'
    BY <1>8 DEF ClockTypeOK, LockInv, ThreadInv, Alive, Holding, Using, Leaks, Signal
  <1>9. ASSUME NEW p \in Callers, Answered(p) PROVE ThreadInv'
    BY <1>9 DEF ClockTypeOK, LockInv, ThreadInv, Alive, Holding, Using, Leaks, Answered
  <1>10. ASSUME NEW p \in Callers, Retry(p) PROVE ThreadInv'
    BY <1>10 DEF ClockTypeOK, LockInv, ThreadInv, Alive, Holding, Using, Leaks, Retry
  <1>11. ASSUME ThreadStart PROVE ThreadInv'
    BY <1>11 DEF ClockTypeOK, LockInv, ThreadInv, Alive, Holding, Using, Leaks, ThreadStart
  <1>12. ASSUME Woken PROVE ThreadInv'
    <2>1. CASE timer_request[1]
      BY <1>12, <2>1 DEF ClockTypeOK, LockInv, ThreadInv, Alive, Holding, Using, Leaks, Woken
    <2>2. CASE ~timer_request[1] /\ timer_request[2]
      <3>1. \A q \in Callers : ~CallerAt(q, "signal")
        BY <2>2, UserAlive DEF Using, Alive
      <3>2. request_count = 0
        BY <1>12, <2>2, <3>1 DEF NoRequestLost, ClockTypeOK, Woken
      <3>3. QED
        BY <1>12, <2>2, <3>2 DEF ClockTypeOK, LockInv, ThreadInv, Alive, Holding, Using, Leaks, Woken
    <2>3. QED
      BY <1>12, <2>1, <2>2 DEF Woken
  <1>13. ASSUME Check PROVE ThreadInv'
    BY <1>13 DEF ClockTypeOK, LockInv, ThreadInv, Alive, Holding, Using, Leaks, Check
  <1>14. ASSUME Reset PROVE ThreadInv'
    BY <1>14 DEF ClockTypeOK, LockInv, ThreadInv, Alive, Holding, Using, Leaks, Reset
  <1>15. ASSUME Recheck PROVE ThreadInv'
    BY <1>15 DEF ClockTypeOK, LockInv, ThreadInv, Alive, Holding, Using, Leaks, Recheck
  <1>16. ASSUME Sample PROVE ThreadInv'
    BY <1>16 DEF ClockTypeOK, LockInv, ThreadInv, Alive, Holding, Using, Leaks, Sample
  <1>17. ASSUME Respond PROVE ThreadInv'
    BY <1>17 DEF ClockTypeOK, LockInv, ThreadInv, Alive, Holding, Using, Leaks, Respond
  <1>18. ASSUME NEW p \in Callers, InitCall(p) PROVE ThreadInv'
    BY <1>18 DEF ClockTypeOK, LockInv, ThreadInv, Alive, Holding, Using, Leaks, InitCall
  <1>19. ASSUME NEW p \in Callers, InitFails(p) PROVE ThreadInv'
    BY <1>19 DEF ClockTypeOK, LockInv, ThreadInv, Alive, Holding, Using, Leaks, InitFails
  <1>20. ASSUME NEW p \in Callers, InitLeaks(p) PROVE ThreadInv'
    BY <1>20 DEF ClockTypeOK, LockInv, ThreadInv, Alive, Holding, Using, Leaks, InitLeaks
  <1>21. CASE UNCHANGED clock
    BY <1>21 DEF ClockTypeOK, LockInv, ThreadInv, Alive, Holding, Using, Leaks, clock
  <1>22. QED
    BY <1>1, <1>2, <1>3, <1>4, <1>5, <1>6, <1>7, <1>8, <1>9, <1>10, <1>11, <1>12, <1>13, <1>14, <1>15, <1>16, <1>17, <1>18, <1>19, <1>20, <1>21 DEF ClockNext, Asks, Lives, Ticks

\* Every step keeps a request from being left behind.
LEMMA RequestStep ==
  ASSUME ClockAssumption PROVE ClockTypeOK /\ LockInv /\ UsageInv /\ ThreadInv /\ NoRequestLost /\ [ClockNext]_clock => NoRequestLost'
  <1> SUFFICES ASSUME ClockTypeOK, LockInv, UsageInv, ThreadInv, NoRequestLost, [ClockNext]_clock
               PROVE  NoRequestLost'
    OBVIOUS
  <1> USE ClockAssumption DEF ClockAssumption, CallerGoto, CallerAt, Alone, Quietly, Thread, clockVars
  <1>1. ASSUME NEW p \in Callers, InitLock(p) PROVE NoRequestLost'
    BY <1>1 DEF ClockTypeOK, LockInv, ThreadInv, NoRequestLost, InitLock
  <1>2. ASSUME NEW p \in Callers, InitDo(p) PROVE NoRequestLost'
    <2>1. p \in Open /\ concurrent_usage >= 0
      BY <1>2, OpenCounted DEF Open, InitDo
    <2>2. CASE concurrent_usage > 0
      BY <1>2, <2>2 DEF NoRequestLost, LockInv, InitDo
    <2>3. CASE concurrent_usage = 0
      BY <1>2, <2>3 DEF NoRequestLost, ThreadInv, ClockTypeOK, InitDo
    <2>4. QED
      BY <2>1, <2>2, <2>3 DEF ClockTypeOK
  <1>3. ASSUME NEW p \in Callers, ExitLock(p) PROVE NoRequestLost'
    BY <1>3 DEF ClockTypeOK, LockInv, ThreadInv, NoRequestLost, ExitLock
  <1>4. ASSUME NEW p \in Callers, Quit(p) PROVE NoRequestLost'
    BY <1>4 DEF ClockTypeOK, LockInv, ThreadInv, NoRequestLost, Quit
  <1>5. ASSUME NEW p \in Callers, Join(p) PROVE NoRequestLost'
    BY <1>5 DEF ClockTypeOK, LockInv, ThreadInv, NoRequestLost, Join
  <1>6. ASSUME NEW p \in Callers, Leave(p) PROVE NoRequestLost'
    BY <1>6 DEF ClockTypeOK, LockInv, ThreadInv, NoRequestLost, Leave
  <1>7. ASSUME NEW p \in Callers, Ask(p) PROVE NoRequestLost'
    BY <1>7 DEF ClockTypeOK, LockInv, ThreadInv, NoRequestLost, Ask
  <1>8. ASSUME NEW p \in Callers, Signal(p) PROVE NoRequestLost'
    BY <1>8 DEF ClockTypeOK, LockInv, ThreadInv, NoRequestLost, Signal
  <1>9. ASSUME NEW p \in Callers, Answered(p) PROVE NoRequestLost'
    BY <1>9 DEF ClockTypeOK, LockInv, ThreadInv, NoRequestLost, Answered
  <1>10. ASSUME NEW p \in Callers, Retry(p) PROVE NoRequestLost'
    BY <1>10 DEF ClockTypeOK, LockInv, ThreadInv, NoRequestLost, Retry
  <1>11. ASSUME ThreadStart PROVE NoRequestLost'
    BY <1>11 DEF ClockTypeOK, LockInv, ThreadInv, NoRequestLost, ThreadStart
  <1>12. ASSUME Woken PROVE NoRequestLost'
    BY <1>12 DEF ClockTypeOK, LockInv, ThreadInv, NoRequestLost, Woken
  <1>13. ASSUME Check PROVE NoRequestLost'
    BY <1>13 DEF ClockTypeOK, LockInv, ThreadInv, NoRequestLost, Check
  <1>14. ASSUME Reset PROVE NoRequestLost'
    BY <1>14 DEF ClockTypeOK, LockInv, ThreadInv, NoRequestLost, Reset
  <1>15. ASSUME Recheck PROVE NoRequestLost'
    BY <1>15 DEF ClockTypeOK, LockInv, ThreadInv, NoRequestLost, Recheck
  <1>16. ASSUME Sample PROVE NoRequestLost'
    BY <1>16 DEF ClockTypeOK, LockInv, ThreadInv, NoRequestLost, Sample
  <1>17. ASSUME Respond PROVE NoRequestLost'
    BY <1>17 DEF ClockTypeOK, LockInv, ThreadInv, NoRequestLost, Respond
  <1>18. ASSUME NEW p \in Callers, InitCall(p) PROVE NoRequestLost'
    BY <1>18 DEF ClockTypeOK, LockInv, ThreadInv, NoRequestLost, InitCall
  <1>19. ASSUME NEW p \in Callers, InitFails(p) PROVE NoRequestLost'
    BY <1>19 DEF ClockTypeOK, LockInv, ThreadInv, NoRequestLost, InitFails
  <1>20. ASSUME NEW p \in Callers, InitLeaks(p) PROVE NoRequestLost'
    BY <1>20 DEF ClockTypeOK, LockInv, ThreadInv, NoRequestLost, InitLeaks
  <1>21. CASE UNCHANGED clock
    BY <1>21 DEF ClockTypeOK, LockInv, ThreadInv, NoRequestLost, clock
  <1>22. QED
    BY <1>1, <1>2, <1>3, <1>4, <1>5, <1>6, <1>7, <1>8, <1>9, <1>10, <1>11, <1>12, <1>13, <1>14, <1>15, <1>16, <1>17, <1>18, <1>19, <1>20, <1>21 DEF ClockNext, Asks, Lives, Ticks

\* Who waits stays, and so do the requests and answers together.
LEMMA AnswersQuiet ==
  ASSUME ClockTypeOK, AnswersOwed, Waiting' = Waiting, retries' = retries,
         timer_response' = timer_response, refused' = refused,
         request_count' + nb_responses' = request_count + nb_responses,
         request_count' \in Nat, nb_responses' \in Nat
  PROVE  AnswersOwed'
  BY DEF AnswersOwed, ClockTypeOK

\* Every step keeps an answer for everybody who waits.
LEMMA AnswersStep ==
  ASSUME ClockAssumption PROVE ClockTypeOK /\ LockInv /\ UsageInv /\ ThreadInv /\ AnswersOwed /\ [ClockNext]_clock => AnswersOwed'
  <1> SUFFICES ASSUME ClockTypeOK, LockInv, UsageInv, ThreadInv, AnswersOwed, [ClockNext]_clock
               PROVE  AnswersOwed'
    OBVIOUS
  <1> USE ClockAssumption DEF ClockAssumption, CallerGoto, CallerAt, Alone, Quietly, Thread, clockVars
  <1>1. ASSUME NEW p \in Callers, InitLock(p) PROVE AnswersOwed'
    <2>1. Waiting' = Waiting
      BY <1>1 DEF ClockTypeOK, LockInv, Labels, Waiting, InitLock
    <2>2. QED
      BY <1>1, <2>1, AnswersQuiet DEF ClockTypeOK, ThreadInv, InitLock
  <1>2. ASSUME NEW p \in Callers, InitDo(p) PROVE AnswersOwed'
    <2>1. p \in Open /\ concurrent_usage >= 0
      BY <1>2, OpenCounted DEF Open, InitDo
    <2>2. Waiting' = Waiting
      BY <1>2 DEF ClockTypeOK, LockInv, Labels, Waiting, InitDo
    <2>3. CASE concurrent_usage > 0
      BY <1>2, <2>2, <2>3, AnswersQuiet DEF InitDo, ClockTypeOK
    <2>4. CASE concurrent_usage = 0
      <3>1. Waiting = {}
        BY <1>2, <2>1, <2>4, OpenCounted DEF Open, Using, Waiting, InitDo
      <3>2. timer_response' = 0 /\ refused' = 0 /\ UNCHANGED <<request_count, nb_responses, retries>>
        BY <1>2, <2>4 DEF InitDo
      <3>3. QED
        BY <2>2, <3>1, <3>2, FS_EmptySet DEF ClockAssumption, AnswersOwed, ClockTypeOK
    <2>5. QED
      BY <2>1, <2>3, <2>4 DEF ClockTypeOK
  <1>3. ASSUME NEW p \in Callers, ExitLock(p) PROVE AnswersOwed'
    <2>1. Waiting' = Waiting
      BY <1>3 DEF ClockTypeOK, LockInv, Labels, Waiting, ExitLock
    <2>2. QED
      BY <1>3, <2>1, AnswersQuiet DEF ClockTypeOK, ThreadInv, ExitLock
  <1>4. ASSUME NEW p \in Callers, Quit(p) PROVE AnswersOwed'
    <2>1. Waiting' = Waiting
      BY <1>4 DEF ClockTypeOK, LockInv, Labels, Waiting, Quit
    <2>2. QED
      BY <1>4, <2>1, AnswersQuiet DEF ClockTypeOK, ThreadInv, Quit
  <1>5. ASSUME NEW p \in Callers, Join(p) PROVE AnswersOwed'
    <2>1. Waiting' = Waiting
      BY <1>5 DEF ClockTypeOK, LockInv, Labels, Waiting, Join
    <2>2. QED
      BY <1>5, <2>1, AnswersQuiet DEF ClockTypeOK, ThreadInv, Join
  <1>6. ASSUME NEW p \in Callers, Leave(p) PROVE AnswersOwed'
    <2>1. Waiting' = Waiting
      BY <1>6 DEF ClockTypeOK, LockInv, Labels, Waiting, Leave
    <2>2. QED
      BY <1>6, <2>1, AnswersQuiet DEF ClockTypeOK, ThreadInv, Leave
  <1>7. ASSUME NEW p \in Callers, Ask(p) PROVE AnswersOwed'
    <2>1. CASE hires
      <3>1. Waiting' = Waiting \cup {p} /\ p \notin Waiting
        BY <1>7, <2>1 DEF ClockTypeOK, LockInv, Labels, Waiting, Ask
      <3>2. Cardinality(Waiting') = Cardinality(Waiting) + 1
        BY <3>1, WaitingFinite, FS_AddElement
      <3>3. QED
        BY <1>7, <2>1, <3>2, WaitingFinite DEF AnswersOwed, ClockTypeOK, Ask
    <2>2. CASE ~hires
      <3>1. Waiting' = Waiting
        BY <1>7, <2>2 DEF ClockTypeOK, LockInv, Labels, Waiting, Ask
      <3>2. QED
        BY <1>7, <2>2, <3>1, AnswersQuiet DEF Ask, ClockTypeOK
    <2>3. QED
      BY <2>1, <2>2
  <1>8. ASSUME NEW p \in Callers, Signal(p) PROVE AnswersOwed'
    <2>1. Waiting' = Waiting
      BY <1>8 DEF ClockTypeOK, LockInv, Labels, Waiting, Signal
    <2>2. QED
      BY <1>8, <2>1, AnswersQuiet DEF ClockTypeOK, ThreadInv, Signal
  <1>9. ASSUME NEW p \in Callers, Answered(p) PROVE AnswersOwed'
    <2>1. Waiting' = Waiting \ {p} /\ p \in Waiting
      BY <1>9 DEF ClockTypeOK, LockInv, Labels, Waiting, Answered
    <2>2. Cardinality(Waiting') = Cardinality(Waiting) - 1
      BY <2>1, WaitingFinite, FS_RemoveElement
    <2>3. QED
      BY <1>9, <2>2, WaitingFinite DEF AnswersOwed, ClockTypeOK, Answered
  <1>10. ASSUME NEW p \in Callers, Retry(p) PROVE AnswersOwed'
    <2>1. Waiting' = Waiting \ {p} /\ p \in Waiting
      BY <1>10 DEF ClockTypeOK, LockInv, Labels, Waiting, Retry
    <2>2. Cardinality(Waiting') = Cardinality(Waiting) - 1
      BY <2>1, WaitingFinite, FS_RemoveElement
    <2>3. CASE Starving
      <3>1. refused' = refused - 1 /\ UNCHANGED <<request_count, nb_responses, timer_response, retries>>
        BY <1>10, <2>3 DEF Retry
      <3>2. QED
        BY <2>2, <2>3, <3>1, WaitingFinite DEF Starving, AnswersOwed, ClockTypeOK
    <2>4. CASE ~Starving
      <3>1. retries' = retries + 1 /\ UNCHANGED <<request_count, nb_responses, timer_response, refused>>
        BY <1>10, <2>4 DEF Retry
      <3>2. Cardinality(Callers) \in Nat
        BY FS_CardinalityType
      <3>3. QED
        BY <2>2, <3>1, <3>2, WaitingFinite DEF AnswersOwed, ClockTypeOK
    <2>5. QED
      BY <2>3, <2>4
  <1>11. ASSUME ThreadStart PROVE AnswersOwed'
    <2>1. Waiting' = Waiting
      BY <1>11 DEF ClockTypeOK, LockInv, Labels, Waiting, ThreadStart
    <2>2. QED
      BY <1>11, <2>1, AnswersQuiet DEF ClockTypeOK, ThreadInv, ThreadStart
  <1>12. ASSUME Woken PROVE AnswersOwed'
    <2>1. Waiting' = Waiting
      BY <1>12 DEF ClockTypeOK, LockInv, Labels, Waiting, Woken
    <2>2. QED
      BY <1>12, <2>1, AnswersQuiet DEF ClockTypeOK, ThreadInv, Woken
  <1>13. ASSUME Check PROVE AnswersOwed'
    <2>1. Waiting' = Waiting
      BY <1>13 DEF ClockTypeOK, LockInv, Labels, Waiting, Check
    <2>2. QED
      BY <1>13, <2>1, AnswersQuiet DEF ClockTypeOK, ThreadInv, Check
  <1>14. ASSUME Reset PROVE AnswersOwed'
    <2>1. Waiting' = Waiting
      BY <1>14 DEF ClockTypeOK, LockInv, Labels, Waiting, Reset
    <2>2. QED
      BY <1>14, <2>1, AnswersQuiet DEF ClockTypeOK, ThreadInv, Reset
  <1>15. ASSUME Recheck PROVE AnswersOwed'
    <2>1. Waiting' = Waiting
      BY <1>15 DEF ClockTypeOK, LockInv, Labels, Waiting, Recheck
    <2>2. QED
      BY <1>15, <2>1, AnswersQuiet DEF ClockTypeOK, ThreadInv, Recheck
  <1>16. ASSUME Sample PROVE AnswersOwed'
    <2>1. Waiting' = Waiting
      BY <1>16 DEF ClockTypeOK, LockInv, Labels, Waiting, Sample
    <2>2. QED
      BY <1>16, <2>1, AnswersQuiet DEF ClockTypeOK, ThreadInv, Sample
  <1>17. ASSUME Respond PROVE AnswersOwed'
    <2>1. Waiting' = Waiting /\ nb_responses' = 0 /\ UNCHANGED <<request_count, retries>>
      BY <1>17 DEF ClockTypeOK, LockInv, Labels, Waiting, Respond
    <2>2. CASE timer_response + nb_responses <= MAX_TIMER_SEMAPHORES
      <3>1. timer_response' = timer_response + nb_responses /\ refused' = refused
        BY <1>17, <2>2 DEF Respond
      <3>2. QED
        BY <2>1, <2>2, <3>1, WaitingFinite DEF AnswersOwed, ClockTypeOK
    <2>3. CASE timer_response + nb_responses > MAX_TIMER_SEMAPHORES
      <3>1. refused' = refused + nb_responses /\ timer_response' = timer_response
        BY <1>17, <2>3 DEF Respond, ClockTypeOK
      <3>2. Cardinality(Waiting) <= Cardinality(Callers) /\ Cardinality(Callers) \in Nat
        BY FS_Subset, FS_CardinalityType DEF Waiting
      <3>3. QED
        BY <2>1, <2>3, <3>1, <3>2, WaitingFinite DEF AnswersOwed, ClockTypeOK
    <2>4. QED
      BY <2>2, <2>3 DEF ClockTypeOK
  <1>18. ASSUME NEW p \in Callers, InitCall(p) PROVE AnswersOwed'
    <2>1. Waiting' = Waiting
      BY <1>18 DEF ClockTypeOK, LockInv, Labels, Waiting, InitCall
    <2>2. QED
      BY <1>18, <2>1, AnswersQuiet DEF ClockTypeOK, ThreadInv, InitCall
  <1>19. ASSUME NEW p \in Callers, InitFails(p) PROVE AnswersOwed'
    <2>1. Waiting' = Waiting
      BY <1>19 DEF ClockTypeOK, LockInv, Labels, Waiting, InitFails
    <2>2. QED
      BY <1>19, <2>1, AnswersQuiet DEF ClockTypeOK, ThreadInv, InitFails
  <1>20. ASSUME NEW p \in Callers, InitLeaks(p) PROVE AnswersOwed'
    <2>1. Waiting' = Waiting
      BY <1>20 DEF ClockTypeOK, LockInv, Labels, Waiting, InitLeaks
    <2>2. QED
      BY <1>20, <2>1, AnswersQuiet DEF ClockTypeOK, ThreadInv, InitLeaks
  <1>21. CASE UNCHANGED clock
    BY <1>21 DEF ClockTypeOK, Waiting, AnswersOwed, clock
  <1>22. QED
    BY <1>1, <1>2, <1>3, <1>4, <1>5, <1>6, <1>7, <1>8, <1>9, <1>10, <1>11, <1>12, <1>13, <1>14, <1>15, <1>16, <1>17, <1>18, <1>19, <1>20, <1>21 DEF ClockNext, Asks, Lives, Ticks

\* The events and the semaphore outlive every context that uses them.
LEMMA InvOpen ==
  ASSUME ClockAssumption PROVE ClockInv => ClockExact
  <1> SUFFICES ASSUME ClockInv PROVE OpenWhileUsed
    BY DEF ClockExact, ClockInv
  <1>1. (\E p \in Callers : Using(p)) => Alive /\ concurrent_usage >= 0
    BY UserAlive DEF ClockInv
  <1>2. timer_thread = "ended" => request_count = 0 /\ nb_responses = 0
    BY DEF ClockInv, ThreadInv
  <1>3. QED
    BY <1>1, <1>2 DEF OpenWhileUsed, Using, Alive

\* windows_clock_gettime, windows_init and windows_exit: for any number of
\* callers, reads and timeouts and a semaphore of any size, no request is left
\* behind a reset event; each who waits has an answer given, to come or refused,
\* with at most one more for each wait that ran out of time before its answer
\* came; answers are refused only if callers and such waits outnumber the
\* semaphore; and the thread, its events and its semaphore outlive every context.
THEOREM ClockRight == ASSUME ClockAssumption PROVE ClockSpec => []ClockExact
  <1>1. ClockInit => ClockInv
    <2> SUFFICES ASSUME ClockInit PROVE ClockInv
      OBVIOUS
    <2>1. ClockTypeOK /\ LockInv
      <3>1. ClockTypeOK
        <4>1. [e \in 1..2 |-> FALSE] \in [1..2 -> BOOLEAN]
          OBVIOUS
        <4>2. concurrent_usage \in Int
          BY DEF ClockInit
        <4>3. QED
          BY <4>1, <4>2 DEF ClockInit, ClockTypeOK
      <3>2. \A p \in Callers : ~Holding(p) /\ ~Leaks(p) /\ p # Nobody
        BY DEF ClockAssumption, ClockInit, Holding, Leaks
      <3>3. LockInv
        BY <3>2 DEF ClockAssumption, ClockInit, LockInv, Labels
      <3>4. QED
        BY <3>1, <3>3
    <2>2. Open = {} /\ Waiting = {}
      BY DEF ClockAssumption, ClockInit, Open, Using, Leaks, Waiting, CallerAt
    <2>3. UsageInv /\ AnswersOwed
      BY <2>2, FS_EmptySet DEF ClockAssumption, ClockInit, UsageInv, AnswersOwed
    <2>4. ThreadInv /\ NoRequestLost
      BY DEF ClockAssumption, ClockInit, ThreadInv, Leaks, NoRequestLost, CallerAt
    <2>5. QED
      BY <2>1, <2>3, <2>4 DEF ClockInv
  <1>2. ClockInv /\ [ClockNext]_clock => ClockInv'
    BY TypeStep, LockStep, UsageStep, ThreadStep, RequestStep, AnswersStep DEF ClockInv
  <1>3. ClockInv => ClockExact
    BY InvOpen
  <1>4. QED
    BY <1>1, <1>2, <1>3, PTL DEF ClockSpec
=============================================================================
