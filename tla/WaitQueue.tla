----------------------------- MODULE WaitQueue -----------------------------
(***************************************************************************)
(* The condition variables of libusb: those of POSIX, and their emulation  *)
(* on Windows (os/threads_windows.c), where every waiting thread has an    *)
(* event object of its own that resets itself when it wakes the thread.    *)
(* A queue is a record: who waits, and for whom the signal is set.         *)
(***************************************************************************)

\* threads_windows.c 84-90: usbi_cond_init
Empty == [waiters |-> {}, signalled |-> {}]

\* On Windows a thread stays among the waiters until it has the mutex again,
\* so that a signal may find it awake already and stay set.
\* threads_windows.c 107-120: usbi_cond_broadcast
Broadcast(q, windows) ==
  [waiters |-> IF windows THEN q.waiters ELSE {}, signalled |-> q.signalled \cup q.waiters]

\* threads_windows.c 132-162: usbi_cond_intwait
Enter(q, h) == [q EXCEPT !.waiters = @ \cup {h}]

\* threads_windows.c 162-162: usbi_cond_intwait
Wakes(q, h) == h \in q.signalled

\* threads_windows.c 177-207: usbi_cond_timedwait
Awake(q, h, windows) ==
  [waiters |-> IF windows THEN q.waiters ELSE q.waiters \ {h}, signalled |-> q.signalled \ {h}]

\* The mutex is taken again before the thread leaves.
\* threads_windows.c 163-172: usbi_cond_intwait
Leave(q, h) == [q EXCEPT !.waiters = @ \ {h}]
=============================================================================
