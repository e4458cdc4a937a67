------------------------------ MODULE WinClock ------------------------------
(***************************************************************************)
(* The clock of libusb on Windows (os/windows_usb.c): one thread reads the *)
(* performance counter for everybody.  It starts with the first context    *)
(* and ends with the last.                                                 *)
(***************************************************************************)
EXTENDS Integers, FiniteSets

CONSTANTS
  Callers,      \* threads that have a context each
  MaxReads,     \* how often each reads the clock
  MaxInits,     \* how often each creates its context
  MaxRetries,   \* how often a wait runs out of time while its answer is still to come
  MAX_TIMER_SEMAPHORES   \* answers the semaphore has room for (128)

Nobody == "nobody"

\* What the constants must be (assumed where this is instantiated)
ClockAssumption ==
  /\ IsFiniteSet(Callers) /\ Nobody \notin Callers /\ MaxReads \in Nat \ {0} /\ MaxInits \in Nat /\ MaxRetries \in Nat
  /\ MAX_TIMER_SEMAPHORES \in Nat \ {0}

VARIABLES
  concurrent_usage,  \* contexts, less one
  semaphore,         \* who is in windows_init or windows_exit
  request_count,     \* requests not yet answered, request_count[0]
  timer_request,     \* the two events: a request, the end
  timer_response,    \* the semaphore: answers not yet taken
  timer_thread,      \* where the thread is
  nb_responses,      \* answers it is about to give
  hires,             \* it has set hires_frequency
  clock_pc,          \* of a caller
  reads, inits, retries,
  refused            \* answers there was no room for, for which nobody has asked again yet

clockVars == <<concurrent_usage, semaphore, request_count, timer_request, timer_response, timer_thread, nb_responses, hires>>
clock == <<clockVars, clock_pc, reads, inits, retries, refused>>

ClockInit ==
  /\ concurrent_usage = -1 /\ semaphore = Nobody /\ request_count = 0
  /\ timer_request = [e \in 1..2 |-> FALSE] /\ timer_response = 0
  /\ timer_thread = "none" /\ nb_responses = 0 /\ hires = FALSE
  /\ clock_pc = [p \in Callers |-> "out"] /\ reads = [p \in Callers |-> 0] /\ inits = [p \in Callers |-> 0]
  /\ retries = 0 /\ refused = 0

CallerAt(p, l) == clock_pc[p] = l
CallerGoto(p, l) == clock_pc' = [clock_pc EXCEPT ![p] = l]

-----------------------------------------------------------------------------
\* A thread that creates a context waits for the semaphore.
\* windows_usb.c 510-526: windows_init
InitCall(p) ==
  /\ CallerAt(p, "out") /\ inits[p] < MaxInits /\ CallerGoto(p, "enter") /\ inits' = [inits EXCEPT ![p] = @ + 1]
  /\ UNCHANGED <<clockVars, reads, retries, refused>>

\* windows_usb.c 528-538: windows_init
InitLock(p) ==
  /\ CallerAt(p, "enter") /\ semaphore = Nobody /\ CallerGoto(p, "init")
  /\ semaphore' = p /\ concurrent_usage' = concurrent_usage + 1
  /\ UNCHANGED <<request_count, timer_request, timer_response, timer_thread, nb_responses, hires, reads, inits, retries, refused>>

\* The first starts the thread; it may find no controller.
\* windows_usb.c 538-645: windows_init
InitDo(p) ==
  /\ CallerAt(p, "init")
  /\ IF concurrent_usage > 0 THEN CallerGoto(p, "leave") /\ UNCHANGED <<timer_thread, timer_request, timer_response, refused>>
     ELSE /\ timer_thread' = "start" /\ timer_request' = [e \in 1..2 |-> FALSE] /\ timer_response' = 0 /\ refused' = 0
          /\ CallerGoto(p, "leave") \/ CallerGoto(p, "fail")
  /\ UNCHANGED <<concurrent_usage, semaphore, request_count, nb_responses, hires, reads, inits, retries>>

\* The system is not supported, or there are no events, semaphore, mutex or
\* thread: there is no thread to end.
\* windows_usb.c 555-605: windows_init
InitFails(p) ==
  /\ CallerAt(p, "init") /\ concurrent_usage = 0 /\ concurrent_usage' = -1 /\ CallerGoto(p, "leave")
  /\ UNCHANGED <<semaphore, request_count, timer_request, timer_response, timer_thread, nb_responses, hires, reads, inits, retries, refused>>

\* Functions of cfgmgr32.dll are missing: the caller returns with the
\* semaphore, and stays counted.
\* windows_usb.c 568-572: windows_init
InitLeaks(p) ==
  /\ CallerAt(p, "init") /\ concurrent_usage = 0 /\ CallerGoto(p, "out")
  /\ UNCHANGED <<clockVars, reads, inits, retries, refused>>

\* windows_usb.c 1629-1643: windows_exit
ExitLock(p) ==
  /\ CallerAt(p, "in") /\ reads[p] = MaxReads /\ semaphore = Nobody
  /\ semaphore' = p /\ concurrent_usage' = concurrent_usage - 1
  /\ CallerGoto(p, IF concurrent_usage = 0 THEN "fail" ELSE "leave")
  /\ UNCHANGED <<request_count, timer_request, timer_response, timer_thread, nb_responses, hires, reads, inits, retries, refused>>

\* The last, or a first that failed, asks the thread to end.
\* windows_usb.c 646-650: windows_init
Quit(p) ==
  /\ CallerAt(p, "fail") /\ CallerGoto(p, "join") /\ timer_request' = [timer_request EXCEPT ![2] = TRUE]
  /\ UNCHANGED <<concurrent_usage, semaphore, request_count, timer_response, timer_thread, nb_responses, hires, reads, inits, retries, refused>>

\* windows_usb.c 1655-1680: windows_exit
Join(p) ==
  /\ CallerAt(p, "join") /\ timer_thread = "ended" /\ CallerGoto(p, "leave") /\ timer_thread' = "none"
  /\ concurrent_usage' = -1
  /\ UNCHANGED <<semaphore, request_count, timer_request, timer_response, nb_responses, hires, reads, inits, retries, refused>>

\* windows_usb.c 674-680: windows_init
Leave(p) ==
  /\ CallerAt(p, "leave") /\ semaphore' = Nobody
  /\ CallerGoto(p, IF concurrent_usage >= 0 /\ reads[p] < MaxReads THEN "in" ELSE "out")
  /\ reads' = [reads EXCEPT ![p] = IF concurrent_usage = -1 \/ reads[p] = MaxReads THEN 0 ELSE @]
  /\ UNCHANGED <<concurrent_usage, request_count, timer_request, timer_response, timer_thread, nb_responses, hires, inits, retries, refused>>

-----------------------------------------------------------------------------
\* Until the thread has run for the first time the answer is the real time.
\* windows_usb.c 2183-2192: windows_clock_gettime
Ask(p) ==
  /\ \/ CallerAt(p, "in") /\ reads[p] < MaxReads /\ reads' = [reads EXCEPT ![p] = @ + 1]
     \/ CallerAt(p, "again") /\ UNCHANGED reads
  /\ IF hires THEN request_count' = request_count + 1 /\ CallerGoto(p, "signal") ELSE UNCHANGED request_count /\ CallerGoto(p, "in")
  /\ UNCHANGED <<concurrent_usage, semaphore, timer_request, timer_response, timer_thread, nb_responses, hires, inits, retries, refused>>

\* windows_usb.c 2193-2193: windows_clock_gettime
Signal(p) ==
  /\ CallerAt(p, "signal") /\ CallerGoto(p, "await") /\ timer_request' = [timer_request EXCEPT ![1] = TRUE]
  /\ UNCHANGED <<concurrent_usage, semaphore, request_count, timer_response, timer_thread, nb_responses, hires, reads, inits, retries, refused>>

\* windows_usb.c 2194-2200: windows_clock_gettime
Answered(p) ==
  /\ CallerAt(p, "await") /\ timer_response > 0 /\ CallerGoto(p, "in") /\ timer_response' = timer_response - 1
  /\ UNCHANGED <<concurrent_usage, semaphore, request_count, timer_request, timer_thread, nb_responses, hires, reads, inits, retries, refused>>

\* There is no answer, and none to come.
Starving == request_count = 0 /\ nb_responses = 0 /\ timer_response = 0

\* The request of a wait that ran out of time is not taken back.
\* windows_usb.c 2201-2203: windows_clock_gettime
Retry(p) ==
  /\ CallerAt(p, "await") /\ timer_response = 0 /\ CallerGoto(p, "again")
  /\ IF Starving THEN refused' = refused - 1 /\ UNCHANGED retries
     ELSE retries < MaxRetries /\ retries' = retries + 1 /\ UNCHANGED refused
  /\ UNCHANGED <<clockVars, reads, inits>>

\* Steps of the thread
Thread(from, to) == timer_thread = from /\ timer_thread' = to
Alone == UNCHANGED <<concurrent_usage, semaphore, clock_pc, reads, inits, retries>>
Quietly == Alone /\ UNCHANGED refused

\* windows_usb.c 2118-2135: windows_clock_gettime_threaded
ThreadStart ==
  /\ Thread("start", "wait") /\ hires' \in BOOLEAN
  /\ UNCHANGED <<request_count, timer_request, timer_response, nb_responses>> /\ Quietly

\* The first of the events that are set counts.
\* windows_usb.c 2138-2143: windows_clock_gettime_threaded
Woken ==
  /\ \/ timer_request[1] /\ Thread("wait", "check")
     \/ ~timer_request[1] /\ timer_request[2] /\ Thread("wait", "ended")
  /\ UNCHANGED <<request_count, timer_request, timer_response, nb_responses, hires>> /\ Quietly

\* windows_usb.c 2144-2144: windows_clock_gettime_threaded
Check ==
  /\ Thread("check", IF request_count = 0 THEN "reset" ELSE "sample")
  /\ UNCHANGED <<request_count, timer_request, timer_response, nb_responses, hires>> /\ Quietly

\* a mutated form: a request that came before the reset is not looked for
ResetOnly ==
  /\ Thread("reset", "wait") /\ timer_request' = [timer_request EXCEPT ![1] = FALSE]
  /\ UNCHANGED <<request_count, timer_response, nb_responses, hires>> /\ Quietly
\* windows_usb.c 2145-2150: windows_clock_gettime_threaded
Reset ==
  /\ Thread("reset", "recheck") /\ timer_request' = [timer_request EXCEPT ![1] = FALSE]
  /\ UNCHANGED <<request_count, timer_response, nb_responses, hires>> /\ Quietly

\* windows_usb.c 2151-2153: windows_clock_gettime_threaded
Recheck ==
  /\ Thread("recheck", IF request_count = 0 THEN "wait" ELSE "sample")
  /\ UNCHANGED <<request_count, timer_request, timer_response, nb_responses, hires>> /\ Quietly

\* windows_usb.c 2155-2168: windows_clock_gettime_threaded
Sample ==
  /\ Thread("sample", "respond") /\ nb_responses' = request_count /\ request_count' = 0
  /\ UNCHANGED <<timer_request, timer_response, hires>> /\ Quietly

\* Answers the semaphore has no room for are not given at all, and nobody is told.
\* windows_usb.c 2169-2173: windows_clock_gettime_threaded
Respond ==
  /\ Thread("respond", "wait") /\ nb_responses' = 0
  /\ IF timer_response + nb_responses <= MAX_TIMER_SEMAPHORES THEN timer_response' = timer_response + nb_responses /\ UNCHANGED refused
     ELSE refused' = refused + nb_responses /\ UNCHANGED timer_response
  /\ UNCHANGED <<request_count, timer_request, hires>> /\ Alone

Asks(p) == Ask(p) \/ Signal(p) \/ Answered(p) \/ (Starving /\ Retry(p))
Lives(p) == InitLock(p) \/ InitDo(p) \/ InitFails(p) \/ InitLeaks(p) \/ ExitLock(p) \/ Quit(p) \/ Join(p) \/ Leave(p)
Ticks == ThreadStart \/ Woken \/ Check \/ Reset \/ Recheck \/ Sample \/ Respond

ClockNext == (\E p \in Callers : InitCall(p) \/ Asks(p) \/ Retry(p) \/ Lives(p)) \/ Ticks

ClockSpec == ClockInit /\ [][ClockNext]_clock

\* Threads run.  A wait for an answer that does not come runs out of time (after
\* TIMER_REQUEST_RETRY_MS); that one does whose answer comes is not relied on.
ClockFairness == WF_clock(Ticks) /\ \A p \in Callers : WF_clock(Asks(p) \/ Lives(p))

-----------------------------------------------------------------------------
Waiting == {p \in Callers : clock_pc[p] \in {"signal", "await"}}

ClockTypeOK ==
  /\ concurrent_usage \in Int /\ semaphore \in Callers \cup {Nobody}
  /\ request_count \in Nat /\ timer_response \in Nat /\ nb_responses \in Nat /\ retries \in Nat /\ refused \in Nat
  /\ timer_request \in [1..2 -> BOOLEAN] /\ hires \in BOOLEAN
  /\ timer_thread \in {"none", "start", "wait", "check", "reset", "recheck", "sample", "respond", "ended"}

\* The thread resets the event while others set it: a request that has been
\* counted is never left behind a reset event.
NoRequestLost ==
  request_count > 0 => timer_request[1] \/ timer_thread \in {"recheck", "sample"} \/ \E p \in Callers : CallerAt(p, "signal")

\* There is an answer for everybody who waits, given, still to be given or
\* refused, and at most one more for each wait that ran out of time before its
\* answer came.  Answers are refused only if the callers, and such waits, are
\* more than the semaphore has room for.
AnswersOwed ==
  LET answers == request_count + nb_responses + timer_response
  IN  /\ Cardinality(Waiting) <= answers + refused
      /\ answers + refused <= Cardinality(Waiting) + retries
      /\ timer_response <= MAX_TIMER_SEMAPHORES
      /\ refused > 0 => Cardinality(Callers) + retries > MAX_TIMER_SEMAPHORES

\* The events and the semaphore outlive every context that uses them, and
\* the thread ends with no request left.
OpenWhileUsed ==
  /\ (\E p \in Callers : clock_pc[p] \in {"in", "signal", "await", "again"}) =>
       timer_thread \notin {"none", "ended"} /\ concurrent_usage >= 0 /\ ~timer_request[2]
  /\ timer_thread = "ended" => request_count = 0 /\ nb_responses = 0

\* A caller that has returned left the semaphore taken.
SemaphoreLeaked == \E p \in Callers : semaphore = p /\ clock_pc[p] \in {"out", "enter"}

\* Reading the clock, and creating or ending a context, come to an end, unless
\* windows_init has returned with the semaphore (windows_usb.c:571): then every
\* later one waits for ever.
ClockReturns == (\E p \in Callers : clock_pc[p] # "out") ~> ((\A p \in Callers : clock_pc[p] = "out") \/ SemaphoreLeaked)

\* The same without the exception, which the code does not keep
ClockReturnsAlways == (\E p \in Callers : clock_pc[p] # "out") ~> (\A p \in Callers : clock_pc[p] = "out")

\* Requests and answers are counted right, for as long as anybody may ask.
ClockExact == ClockTypeOK /\ NoRequestLost /\ AnswersOwed /\ OpenWhileUsed
=============================================================================
