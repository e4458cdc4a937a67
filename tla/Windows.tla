------------------------------ MODULE Windows ------------------------------
(***************************************************************************)
(* The Windows backend: the descriptors it polls (WinPoll) and the thread  *)
(* that reads the clock (WinClock).  They share the process and nothing    *)
(* else, so a behaviour is one of the first or one of the second.          *)
(***************************************************************************)
EXTENDS WinPoll, WinClock

ASSUME PollSound == PollAssumption
ASSUME ClockSound == ClockAssumption

VARIABLE side

windows == <<side, vars, clock>>

Polling == side = "poll" /\ UNCHANGED <<side, clock>>
Reading == side = "clock" /\ UNCHANGED <<side, vars>>

WindowsInit == side \in {"poll", "clock"} /\ Init /\ ClockInit

WindowsNext ==
  \/ Polling /\ Next
  \/ Reading /\ ClockNext

\* That of WinPoll and that of WinClock (see there)
WindowsFairness ==
  /\ \A p \in Threads : WF_windows(Polling /\ Submits(p))
  /\ WF_windows(Polling /\ (Submits(Handler) \/ Handles))
  /\ WF_windows(Polling /\ \E t \in Transfers : IoEnds(t))
  /\ WF_windows(Reading /\ Ticks)
  /\ \A p \in Callers : WF_windows(Reading /\ (Asks(p) \/ Lives(p)))

\* Every transfer that was accepted is called back (usbi_poll), and nobody waits
\* for ever to read the clock or to end a context (windows_clock_gettime, windows_exit).
NobodyWaitsForEver == EveryOneEnds /\ ClockReturns
=============================================================================
