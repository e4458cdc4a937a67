# Verification of CarBoundary

CarBoundary builds a view from above of what surrounds a car, from the depth
pictures of two or more Kinects.  The program is `boundary_main.c`; below it
are libfreenect (the driver of the camera, with a synchronous wrapper) and
libusb, both in `ext/`.  These modules model the program and the layers below
it from the top down.  Line numbers are those of the sources.

## The system

| Part | State | Operations | Talks to |
|---|---|---|---|
| Boundary program (`boundary_main.c`, `boundary_sdl.c`) | `environmentCubes`, `columnStatus`, the screen | `sdl_pollevent`, `kinect_poll`, `poll_one_device`, `draw_depths` in one loop | calls the wrapper |
| Synchronous wrapper (`wrappers/c_sync`) | `kinects[]` with a ring of three buffers per stream, `thread_running`, `ctx`, three kinds of locks | `freenect_sync_get_depth/_video`, `freenect_sync_stop`, the event thread `init`, the producer callbacks | drives libfreenect; called back by it on any thread that pumps events |
| Freenect devices (`src/core.c`, `usb_libusb10.c`) | the list of devices of a context, their handles | init, open, close, shutdown | USB devices |
| Camera commands (`src/cameras.c`) | `cam_tag`, the registers of the camera | `send_cmd`, `write_register`, start and stop of a stream | control transfers |
| Packet streams (`src/cameras.c`) | `packet_stream` of each stream | `stream_process`, `stream_init`, `stream_setbuf` | called by isochronous streaming; calls the frame callback |
| Pixel conversion (`src/cameras.c`) | none | unpacking, mosaic and UYVY to RGB | called for each frame |
| Isochronous streaming (`src/usb_libusb10.c`) | 16 transfers per stream, `dead`, `dead_xfers` | `fnusb_start_iso`, `iso_callback`, `fnusb_stop_iso` | libusb transfers and event handling |
| Recorded devices (`fakenect`) | an index and its files | `record.c`, and the interface of libfreenect | the file system |
| libusb transfers (`io.c`) | flying transfers, their timeouts, a timerfd | submit, cancel, complete, time out, disconnect | the backend, callbacks |
| libusb event handling (`io.c`, `sync.c`, `os/threads_windows.c`) | events lock, event waiters, control pipe | `libusb_handle_events`, synchronous transfers, the interruption by open and close | poll, transfers |
| libusb devices (`core.c`) | contexts, device objects, handles | init, exit, list, open, close, claim, configure | the backend |
| USB descriptors (`descriptor.c`) | a tree being built | get, parse, clear a configuration | the backend |
| Backends (`os/linux_usbfs.c`, `os/darwin_usb.c`, `os/windows_usb.c`, `os/poll_windows.c`) | URBs; pipes and run loop; overlapped requests, a table of descriptors, a clock thread | submit, cancel, reap, enumerate, open, claim | the kernel |

### What is hard

* **Callbacks on any thread.**  `freenect_stop_*` and `freenect_start_*` wait
  for transfers and so pump libusb: a client that changes the format of one
  stream runs the frame callbacks of the other, under the locks it holds.
* **Locks that are let go between decisions.**  The wrapper checks the format
  without a lock, sets the ring up under two, waits under one.  libusb looks a
  device up, lets the list go, and fills the device in afterwards.
* **Starting, failing, stopping.**  The event thread is started by the first
  call, taken back when that call fails, joined by stop, and ends by itself
  when poll is interrupted.
* **Loss.**  Packets carry sequence numbers of eight bits; a frame's end may be
  lost, and the packet that shows it belongs to the next frame.  A reply of the
  camera may be late and be read for a later command.
* **Transfers.**  A transfer is several URBs, some of which may be refused,
  end early or fail while others are in flight; completion, cancellation,
  timeout and unplugging race.
* **One handler among many threads.**  Whoever has the events lock serves
  everybody; the others sleep and must be woken, and the handler must be
  stopped for a descriptor to be added or closed.
* **Numbers.**  Counters are chars, a picture has 307200 pixels, the grid has
  another scale vertically, and descriptors say their own lengths.

`PROJECT.json` lists every hazard at its line with the properties that cover
it.

## Modules

| Module | Models | Run |
|---|---|---|
| `SyncWrapper`, `SyncWrapperMC` | `libfreenect_sync.c`, all of it but the sizes of buffers; proofs in `SyncWrapperProofs` | `SyncOneClient`, `SyncOwn`, `SyncRaces`, `SyncEventsFail` |
| `FrameMailbox` | abstract: what the wrapper promises about frames | `SyncOneClient` |
| `BoundaryGrid`, `BoundaryGridMC` | `boundary_main.c`, `boundary_sdl.c`; proofs in `BoundaryGridProofs`, over `QueueLemmas` | `BoundaryRays`, `BoundaryNear` |
| `PacketStream` | `stream_process` and around it; proofs in `PacketStreamProofs` | `Packets` |
| `IsoStream` | `fnusb_start_iso`, `iso_callback`, `fnusb_stop_iso`; proofs in `KinectProofs`, over `QueueLemmas` | `Kinect` |
| `Kinect` | contexts, devices, commands, start and stop of streams; proofs in `KinectProofs` | `Kinect` |
| `Pixels` | the conversions of pictures | `Packets` |
| `Recording` | `record.c` and `fakenect.c` | `Kinect` |
| `UsbTransfers` over `UsbfsUrbs`, `DarwinPipes`, `WinOverlapped` | asynchronous transfers over each backend; proofs in `UsbTransfersProofs`, over `QueueLemmas` | `Transfers` |
| `LibusbEvents` over `WaitQueue` | who handles events; synchronous transfers; proofs in `LibusbProofs` | `Events` |
| `UsbDevices` over `LinuxDevices`, `DarwinDevices` | contexts, devices, handles, enumeration; proofs in `LibusbProofs`, over `QueueLemmas` | `Devices` |
| `Descriptors` | `descriptor.c` and its callers | `Devices` |
| `WinPoll` | `poll_windows.c` under `windows_usb.c` | `Windows` |
| `WinClock` | the clock thread of `windows_usb.c` | `Windows` |
| `Windows`, `WindowsMC` | the two together; proofs of both in `WindowsProofs`, over `QueueLemmas` | `Windows` |

Some runs check two or three modules that share nothing.  Their MC modules
(`PacketsMC`, `KinectMC`, `UsbDevicesMC`, and `Windows` for `WindowsMC`) hold the variables of
all and a variable `side` that says, from the initial state on, which of them
this behaviour is about; the others stay in a state of theirs.  No property
relates two sides.

The backends are modules of operators without variables: the private data of a
transfer or a device is a record, and an operation of the backend is the set of
its outcomes.  A setup, chosen in the initial state, says which backend the
library was built with; one instance explores them all.

### SyncWrapper

Variables have the names of the code (`thread_running`, `pending` for
`pending_runloop_tasks`, `lock`, `bufs`, `fmt`, `valid`, `timestamp`); `pc` is
where each thread is, `cb` the ring whose callback it is in.  `mem` holds what
each of a ring's three buffers contains; `running` and `proc` are the fields of
the stream below that the wrapper depends on.  `lent` is history.

| Action | Code |
|---|---|
| `Call`, `Check` | the unlocked test at 339 and 352 |
| `PendingInc`, `SetupEnter`, `RingLock`, `StreamStopped`, `StreamStarted`, `SetupUnlock`, `SetupDone` | `setup_kinect` with `init_thread`, `alloc_kinect`, `change_*_format` |
| `FailUnlock`, `FailDone`, `Join` | its way out when the device cannot be opened |
| `Get` | `sync_get` |
| `Stop`, `Join` | `freenect_sync_stop` |
| `EventWaitZero`, `EventLock`, `EventsHandled`, `EventsFailed`, `TearStop`, `TearFree`, `TearDone` | `init`, the event thread |
| `FrameDone`, `ProducerCb` | a finished frame below, and `producer_cb_inner` |

A step is what happens between two points where another thread can interfere:
a lock is taken, let go or waited for, or libusb is pumped.  A thread pumps in
`stopping`, `starting`, `proc` and `tear`; there `FrameDone` may put it into the
callback of any running stream.  What freed memory does is not modelled: a
client that waits on a freed ring is `lost`, one that opens a device on a freed
context `dangling`, and both stay there.

### BoundaryGrid

One thread: events, clear, then for each device a frame (any) and for each of
its pixels the walk of `poll_one_device` (`Pixel`, `Walk`, `Land`, `Guess`,
`RayDone`), then `Draw`.  Angles come from a table of Pythagorean triples
(5-12-13) and lengths are multiples of a small unit, so that all arithmetic is
exact; rounding is not modelled.  The walk's step is the code's: unit vectors
of the two angles, *not* scaled like the landing.

### PacketStream

The camera (external) sends frames as packets; each arrives, arrives with
another length, or is lost.  `Process` is `stream_process` followed by the end
of `depth_process`: its cases are the code's returns.  `raw` says for each
place of `raw_buf` which frame's packet it begins with.  `split_bufs`, chosen
at each start, tells formats that are converted out of `raw_buf` from formats
whose buffer the callback exchanges.  `gap` and `clean` are history.

### IsoStream

The layer between libusb and `stream_process`.  `Start`, `StartSubmit`,
`Started` are `fnusb_start_iso`; `Reap`, `HandOn`, `Resubmit` are
`iso_callback`, packet by packet; `Stop`, `Cancel`, `Cancelled`, `Drained` are
`fnusb_stop_iso` with its two loops.  The kernel (external) serves what it was
given in order, with data or an error.  `refused` and `ended` are history:
the code does not remember which transfers died or were never accepted, it
only counts.  The thread that stops is not also in a callback and no other
thread pumps meanwhile, which is what `runloop_lock` ensures in the wrapper.

### Kinect

One thread calls the library.  A lab (`Labs`) says what is on the bus, which
formats the program uses and how many transfers fail.  Opening goes through the
bus for a camera and a motor, each by its index (`fnusb_open_subdevices`), and
takes back what it has opened when one fails.  Starting or stopping a stream
puts the registers it writes into `todo`; each is a command that is sent and
whose reply is polled for (`Writes`).  The camera (external, `Answer`) carries
commands out in order and replies to each; a transfer may fail before or after
it had its effect, and a command be lost without a trace.  Between the write and
the reply, libusb may hand packets on: that is `PacketStream`'s.  `camera` keeps
the camera's registers, the commands it still has to do and the replies nobody
has read, each with its age.

### Pixels

A step is one turn of an inner loop.  Unpacking shifts bytes into a register of
`Register` bits of which `bitsIn` are unused; the mosaic's loop keeps windows of
three columns and rows and repeats the edges; UYVY is arithmetic on four bytes.
The reference definitions (`Unpacked`, `Demosaiced`, `YuvClose`) say for each
pixel, independently of the loop, what it must be.

### Recording

The recorder writes the name of a file into the index (buffered) and then the
file.  It looks for a signal before a round of events only (`Round`), so that a
last state may follow it; a file that cannot be opened ends it as a kill does.  The
player reads the index line by line and sleeps until the line is due on its own
clock.  Only what a reader of a whole recording sees is modelled further; a
file that is cut ends the program or is read past its end (`parse_line`).

### UsbTransfers and its backends

`Submit`, `AddAndSubmit`, `Undo`, `Submitted` are `libusb_submit_transfer`,
with the transfer's lock (`tlock`) and that of the list (`flock`);
`HandleTimeouts` to `TimeoutsDone` are `handle_timeouts_locked` on the thread
that handles events, `WaitedLong` to `WaiterDone` the same on one that waits for
it (`io.c:1958-1962`, 1990); neither runs on Mac OS, where `configure.ac:57` has
the system handle timeouts (`osHandlesTimeout`).  An isochronous or interrupt
transfer has none there (`darwin_usb.c:1131`), and what IOKit times is one of the
results it may give;
`HandleEvent`, `Complete`, `Disarm`, `Called` a completion from the backend to
the callback, which may submit again; `SeeUnplug`, `Disconnect` are
`usbi_handle_disconnect`.  `Tick` lowers what is left of each timeout.
`UsbfsUrbs` has the URBs of each transfer with `reap_action` and `num_retired`,
`DarwinPipes` the message written into the pipe by the run loop, and
`WinOverlapped` the overlapped request.  `owed` is history: an accepted
submission whose callback has not been called; so are `got`, what the device
has transferred, and `asked`, what was cancelled.

### LibusbEvents

`pc` walks through `libusb_handle_events_timeout`, `handle_events`,
`libusb_open`/`do_close` and the loops of `sync.c`.  `WaitQueue` is the event
waiters' condition variable, of POSIX and as emulated on Windows: there a thread
stays among the waiters until it has the mutex again, so that a second
broadcast finds it awake.  A setup says which, whether there is a clock,
which notifications find the pipe broken, and how often `poll` fails.

### UsbDevices and its backends

`GetDeviceList` to `Return` is `libusb_get_device_list`: an entry of a
directory, or an object of the registry, is read, looked up among the devices of
the context, allocated, initialised, sanitised, appended and returned, each of
these a step that another thread of the same context may come between.
`InitContext` and `NewContext` are `libusb_init`, which has
`default_context_lock` from one to the other; `Exit`, `StopBackend` and
`FreeContext` are `libusb_exit`, which has it for the count of users only and
tells the backend without it.  `th` is the state of each thread with its
context, list and the device it works on.  Memory that is used after it was freed
sets `wild`.  `past` is history: which of the events (`Perils`) took place after
which the code does use freed memory.  `Darwin!Adrift` stands for the counters
of Mac OS when two threads were in `darwin_init` and `darwin_exit` at once, or
`darwin_init` failed; an `Unsure` descriptor is one that is kept although the
device could not be asked for its configuration, or for the descriptor.  `LinuxDevices` has the process-wide
`sysfs_can_relate_devices` and `sysfs_has_descriptors`, which are learnt from
the first device; `DarwinDevices` the run-loop thread of the first context and
the device that several handles share.

### Descriptors

The configuration of a device is a sequence of descriptors; the tree it stands
for is known (`device`), so that what is parsed can be compared with it
(`TreeRead`).  `heap` is what has been allocated, by its place in the tree.

### WinPoll and WinClock

`WinPoll`: submitting creates a descriptor in two steps (`look` for a free
entry, `claim` it), as `usbi_create_fd` does; the handler takes a snapshot of
the descriptors, polls it, and finds the transfer of each one that is ready.
`crt` are the numbers of the C library in use.  Freeing a descriptor gives its
number back (`GiveBack`, line 449) before its entry is emptied (`Empty`, 460),
and creating one takes a number without that entry's lock (387): in between the
entry is `Freed`, and another may carry the same number.  A search that comes
upon the freed entry first waits for its lock and finds it changed (`Searched`,
190-195).  `WinClock`: callers count a
request and signal it, the thread resets the event and checks again, and answers
as many as were counted, or nobody if the semaphore has no room for so many
(`MAX_TIMER_SEMAPHORES`, line 2169).  `refused` counts such answers until
somebody asks again.  A context is created under a semaphore of the process
(`enter`, `init`): the first may fail before there is a thread (`InitFails`),
after (`fail`), or return with the semaphore (`InitLeaks`, line 571).

## What is checked

| Run | Shows |
|---|---|
| `SyncOneClient` | One client that alternates between two formats and stops, on a device that may be absent: frames are handed over as `FrameMailbox` says, a get returns what it asked for, every call returns, a join leaves nothing behind. |
| `SyncOwn` | Two clients, each its own ring: every call returns. |
| `SyncRaces` | Two clients of different minds, concurrent stops, failing event handling: ownership, self-deadlock, the counter of pending tasks. |
| `BoundaryRays` | Two cameras, all distances: accesses inside the arrays, free space before and guesses behind the surface, columns that agree with cubes, nothing left of an earlier poll; a quit at any moment ends the program. |
| `Packets` | Packets placed right and inside the buffer, what a delivered frame may contain, recovery within a frame.  Pictures are decoded right to the last column and row. |
| `Kinect` | Each transfer of a stream is in one place and counted once; what is freed is at rest; packets stay in order; stop returns unless a submission was refused.  Handles, buffers and streams left over by no failure; the camera does what the library believes and is never given another format in the middle of a stream; no late reply is taken for a later command while the device stays open; calls return.  A recording is whole unless the recorder was killed, and replayed no faster than it was made, with the motor's state of its time. |
| `Transfers` | On each backend: a callback exactly once for each accepted submission; nothing in flight that will not come back; the list sorted; no data of an interrupted transfer lost; timeouts (without timerfd) and cancellations end. |
| `Events` | Interruptions counted, no closed descriptor polled, no thread asleep that nobody will wake, no synchronous transfer left in flight by a call that has returned; open, close and transfers return. |
| `Devices` | References exact; nothing used after it was freed but after the events the property names; lists exact when nothing changed meanwhile; claims as in the kernel; contexts counted, on Mac OS unless its unlocked functions met or failed; cached descriptor fresh where it was got.  What is parsed is what the device has, whatever fails all memory is freed, and once. |
| `Windows` | Each request has one entry and one number, which only an entry being freed may have too; nobody polls a descriptor that has gone; completions and requests are not lost, and answers only where the semaphore has no room; the clock outlives its users; everybody returns unless the semaphore was kept by a failed `windows_init`. |

A property that belongs together is stated as one, of named parts:

| Property | Parts |
|---|---|
| `ColumnsExact` (BoundaryGrid) | `ColumnsTellAll`, `KnownByLanding` |
| `FrameHonest` (PacketStream) | `TypeOK`, `WholeIsPure`, `AtMostOneNewer`, `CountHonest` |
| `ResourcesExact` (Kinect) | `KinectTypeOK`, `HandlesExact`, `OneKinect`, `StreamsExact` |
| `Conversation` (Kinect) | `ModeWhileStill`, `RepliesNew`, `CallReturns` |
| `PicturesRight` (`Decoded` of Pixels) | `Unpacked`, `Demosaiced`, `YuvClose` |
| `ReplayRight` (Recording) | `WholeUnlessKilled`, `StateOfItsTime`, `NeverFaster` |
| `FlyingExact` (UsbTransfers) | `TypeOK`, `StillComing`, `Sorted` |
| `TransfersEnd` (UsbTransfers) | `TimeoutHonoured`, `CancelEnds` |
| `ClosedAtRest` (LibusbEvents) | `TypeOK`, `NotifiersCounted`, `PollsWhatIsOpen`, `FreedAtRest` |
| `CallsReturn` (LibusbEvents) | `NotifyReturns`, `TransferReturns` |
| `Counted` (UsbDevices) | `DevicesTypeOK`, `RefsCounted`, `ContextsCounted` |
| `NothingStale` (UsbDevices) | `NeverWild`, `ListedReady` |
| `HandlesAgree` (UsbDevices) | `ClaimsAgree`, `CacheFresh`, `OpensCounted` |
| `ParsedExact` (Descriptors) | `TypeOK`, `TreeRead`, `SizeHonest`, `HeapExact`, `NeverTwice` |
| `TableExact` (WinPoll) | `TypeOK`, `OneEntryEach`, `NeverAstray`, `EndedFirst`, `PipeExact` |
| `ClockExact` (WinClock) | `ClockTypeOK`, `NoRequestLost`, `AnswersOwed`, `OpenWhileUsed` |
| `NobodyWaitsForEver` (Windows) | `EveryOneEnds`, `ClockReturns` |

Two runs end with a violation, each of a sentence that the repository says of
itself (quoted in `PROJECT.json`):

| Run | Shows |
|---|---|
| `SyncEventsFail` | A lent buffer is freed when poll is interrupted (`libfreenect_sync.h:56` says it is valid until the next call). |
| `BoundaryNear` | The counter of a near cube wraps and the cube is no longer recognized (`device_definitions.h:77`). |

### What does not hold

These definitions state what one would expect, or what a comment says, and
TLC finds them violated on a small instance.  They belong to no run; each says
so where it stands.

| Definition | What happens |
|---|---|
| `SyncWrapper!ThreadBroughtBack` | Two first calls that fail together: the second joins a thread that need not end (`libfreenect_sync.c:287`). |
| `BoundaryGrid!LandingKnown` | A low surface inside the grid is not marked: the walk has left below (`boundary_main.c:252`). |
| `UsbTransfers!DataKeptAfterStall` | A stall leaves `reap_action` as it was, so that data of the URBs behind it is dropped (`linux_usbfs.c:1861-1870`; the comment at 1820 wants none lost). |
| `UsbTransfers!NoLockCycle` | A refused submission holds a transfer's lock and waits for the list's (`io.c:1265`), a timeout the other way round (1707): both wait for ever, which `TransfersEnd` leaves out by name. |
| `UsbTransfers!TimerfdHonoured` | A completion that finds nothing more to time disarms the timerfd after a concurrent submission armed it (`io.c:1405`). |
| `LibusbEvents!NobodyOblivious` | A thread polls although its own transfer was completed by another handler just before (`io.c:757-772`); it returns when its poll is over. |
| `WinClock!ClockReturnsAlways` | `windows_init` returns with the semaphore when `cfgmgr32.dll` lacks a function (`windows_usb.c:571`): whoever creates a context afterwards waits for ever, which `ClockReturns` leaves out by name. |
| `UsbDevices!ListExact` with `VanishMC` | A device that goes between `readdir` and the reading of `busnum` makes the backend believe that sysfs has no `busnum`, for the life of the process (`linux_usbfs.c:955-961`, 1044-1051): lists fail or have devices twice. |
| `UsbDevices!NeverWild` | Freed memory is used after each of three events, although `core.c:74` calls the library thread safe: two threads are at the devices of a context, and one lists them while the other lets the last reference go (`core.c:564-579`, 834); a list of more than 8 devices moves, and a later device of usbfs fails (`linux_usbfs.c:880-922`); the context that Mac OS's event thread was given is freed before others, and a device goes (`darwin_usb.c:217-254`, 328).  `NothingStale` leaves them out by name. |
| `UsbDevices!NeverAdrift` | `libusb_exit` calls the backend without `default_context_lock` (`core.c:1602`), so that `darwin_exit` and another thread's `darwin_init` share counter, thread and port without a lock (`darwin_usb.c:316-350`); and a `darwin_init` without a port leaves `initCount` increased (319-325).  `ContextsCounted` leaves them out by name. |

A get for a YUV format never returns: `setup_kinect` ignores that
`change_video_format` refused (`libfreenect_sync.c:310`); the instances ask for
formats that are supported.

### Seen while modelling

Disagreements that the models show plainly or leave out on purpose, without a
run of their own.

* Wrapper and program: a client that restarts one stream runs the producer
  callback of the other, which takes the other ring's lock while the client
  holds its own, although `libfreenect_sync.c:67` says that one may only have
  one of them (`NoSelfDeadlock` and `runloop_lock` are why that is no deadlock).
  `device_definitions.h:94` says of landings that "Anything below get stuck to
  bottom"; `INBOUNDS` drops them before the clamp of `iz` is reached.
  `draw_depths` samples one row of cubes for each row of pixels, so that a grid
  of more rows than the screen has rows that are never drawn.
* libfreenect: `send_cmd` polls without a limit (`cameras.c:587-589`), takes a
  reply shorter than its header for success (593), and counts tags only on
  success (621); a device that is opened again may take a reply left from
  before.  `fnusb_open_subdevices` pairs the n-th camera with the n-th motor,
  which are those of one Kinect only where the bus lists both in one order.
  The results of `write_register` are ignored.
* fakenect: a recording that was killed ends the player or is copied past its
  end; `freenect_shutdown` does not put the index back to its first line.
* Transfers: an overflow on an URB that is not the last frees URBs the kernel
  still has (`linux_usbfs.c:1877`; hence `OverAnywhere` is `FALSE`).  Unplugging
  during a submission may disconnect a transfer that is still being added
  (`io.c` 2324; hence `QuietUnplug`).  A submission of a transfer that is
  already in flight corrupts the list.  A transfer whose timeout was set to 0
  keeps the time of its last submission (`io.c:1090`).
  `iso_packet_offset` advances only past packets without an error.
  Cancelling aborts every transfer of the pipe on Mac OS and Windows, so that
  others are called back as cancelled.  A second failure of `poll` frees a
  synchronous transfer in flight (`sync.c:110-113`).
* Devices: a device is in the list of its context before it is initialised
  (`core.c:529`), and what is found there has no reference yet (564-579); what
  comes of two threads there is in the table above.
  On Mac OS a device that was opened twice stays
  open to the system when the handle that came first is closed first, because
  only that one has `is_open` (`darwin_usb.c:675`, 723).
  `libusb_get_max_packet_size` leaks the configuration when the endpoint is not
  there (`core.c:739`), which `HeapExact` excepts.
  `parse_interface` and `parse_endpoint` skip a descriptor without asking
  whether it is longer than what is left.
* Mac OS: setting the configuration through one handle takes the interfaces of
  the others, whose `claimed_interfaces` stay set (`darwin_usb.c:770` says that it
  "will invalidate the interface"), so that `ClaimsAgree` has half of itself only
  there; two handles of one device
  must be closed in the order they were opened (722-737: the first one owns the
  device).  Windows: `usbi_close` does not close the number of the C library
  (`poll_windows.c:756-782`), a wait for the clock that runs out of time leaves
  one answer too many (`AnswersOwed` bounds it), answers the semaphore has no
  room for are all refused (`windows_usb.c:2169`; more than
  `MAX_TIMER_SEMAPHORES` callers at once could be refused again and again),
  `windows_init` returns with the semaphore of the process where functions of
  `cfgmgr32.dll` are missing (571), so that `libusb_init` in another thread, or
  again, waits for ever (`ClockReturnsAlways`), `windows_handle_events`
  returns without unlocking (2107), and more than 64 descriptors cannot
  be waited for although the table has 256.  A transfer that another thread than
  its callback submits again is in `flying_transfers` with the number of its
  last turn until `windows_usb.c:2784`, and `windows_handle_events` may take it
  for the transfer that has got the number since; nobody here does that
  (libfreenect submits again in callbacks, `sync.c` allocates each transfer
  anew), so `Submit` of `WinPoll` leaves it out.  With it TLC finds `EndedFirst`,
  `OneEntryEach` and `NeverAstray` violated.

### Bounds

* Wrapper: one or two clients, one or two event threads (a second is needed
  only where a thread can be replaced before it was joined), one device and
  one or two streams, two formats (one to change to).  Timestamps count modulo
  3 where the order of frames matters (the ring holds two frames at most besides
  the one being written), else modulo 1.  The ring has the code's three
  buffers.  No bound is put on the number of calls, frames or format changes.
* Grid: 4 to 5 by 5 to 14 by 2 cubes, three pixels, up to six distances, so
  that rays land inside, outside, above and below, and leave before and after
  landing.  `CharBits` is 3 or 4 instead of 8, with `MIN_COUNT` 2: what
  wraps at 127 wraps at 3 or 7.  `MaxQueue` bounds the waiting events.
* Packets: frames of four packets of which the last is shorter, `SeqMod` 8 for
  256, `MaxLost` 2 for 5.  `MaxFrames` bounds the frames sent in a run to one
  to be damaged and two to recover by.  `MaxGap` keeps a gap shorter than the
  sequence numbers.  `ShortestCut` is 1: a packet cut to its header counts as
  arrived although nothing of it has, which is what the code does.  Pictures are
  4 by 4 (every window of the mosaic's loop occurs at an edge and inside) or a
  whole period of the bit packing; `Register` is 20 bits, no less than the code
  needs of its 32.
* Kinect: three transfers of two packets (the code has 16 of 16), so that one may be in
  its callback, one in the kernel and one dead at once; packet numbers are
  modulo `NTags`, more than can be outstanding.  Two device structures; one Kinect with both streams and one failing
  transfer, one with the depth in two formats, two failing transfers and one
  lost command, and two Kinects without.  `Tags` is 4 for 65536.  Recordings have up to three lines (a state and two frames)
  up to three ticks apart.
* Transfers: two transfers, one with a timeout and one that may be refused, one
  thread that submits and cancels and the handler, for six combinations of
  backend and type; three URBs for bulk (first, middle and last differ in the
  code), two for isochronous.  An URB's data is none, some or all.  Submissions
  are not bounded.
* Events: two threads with one transfer each on a handle that stays open, a
  third with two calls on another; calls are bounded because liveness is not
  otherwise to be had (below).
* Devices: two threads with one handle each, which may be of one device object;
  up to three addresses, one of which may be plugged in later; four device
  objects (a list, a discovery and a handle on one that has gone, for two
  contexts).  Lists grow by 1 instead of 8, so that they move with two devices.
  Seven hosts (`HostsMC`): threads that list in one context and in one each; the
  kernels without descriptors with configurations 0 to 2 and kernel drivers;
  usbfs alone with three devices and a thread; Mac OS with a context each (the
  device may go, for good) and with one (it may go at any moment, and come back).
  Configurations: one or two interfaces of one or two settings of six kinds,
  with limits of 2 for 32 interfaces and endpoints, and counts that are one off.
* Windows: two threads and transfers, one submitted twice, a table with room for
  the pipe and one or two; two contexts created twice, two readings in each, one
  wait that runs out of time with its answer still to come, and a semaphore with
  room for two answers, so that it is full when both have asked and one again.

`CHECK_DEADLOCK FALSE` stands where the system really stops: the boundary
program exits (`BoundaryRays`, `BoundaryNear`); wrapper clients may be lost in
freed memory (`SyncRaces`, `SyncEventsFail`); a stop waits for ever for a
transfer that was refused (`Kinect`); the camera has sent its frames
(`Packets`); and threads that have made their calls, contexts that are shut
down and devices that are unplugged are the end (`Kinect`, `Transfers`, `Events`, `Devices`, `Windows`).

### Fairness

* Wrapper (`FairSpec`): threads that can run do run (weak fairness of each
  client's and each event thread's steps, and of a callback that can have its
  lock).  Leaving libusb is strongly fair, because `libusb_handle_events` handles
  the events of one poll and returns at the latest after 60 s, although frames
  that keep arriving put the thread into callbacks between.  A running camera
  completes a frame again and again while somebody pumps.  Locks are *not* fair:
  that a client gets `runloop_lock` is what `pending_runloop_tasks` is for, and
  `CallReturns` depends on it.  Nobody has to call, to stop or to fail.
* The boundary program only has to run.
* `IsoStream`: a stop that has begun goes on, somebody pumps and the kernel
  serves what it was given; nobody has to start or stop.
* `Kinect`: the thread goes on with a call it has begun and the camera answers
  what it was asked; that it does is assumed because `send_cmd` polls without a
  limit.  A failing transfer is bounded, not unfair.
* `UsbTransfers`: threads run, somebody handles events, time passes.  What is
  ready is handled in the order in which it became so, hence each transfer's
  event is handled strongly fairly.  The kernel must end only transfers that
  were cancelled: a device may stay silent for ever.  Nothing is assumed of a
  thread that waits but that it goes on with timeouts it has begun to handle.
* `LibusbEvents`: locks are granted in turn (strong fairness of each thread's
  steps), which POSIX does not promise but the code depends on: a thread that
  goes round its loop lets the events lock go and takes it again.  `poll` ends,
  a timed wait runs out and a device answers only in the setups with a clock; in
  the others `NotifyReturns` must hold though no timeout ever helps.  The calls
  of each thread are bounded: others that made calls for ever could take the
  lock each time one looks.
* `WinPoll`, `WinClock`: threads run, the handler is called again and again, a
  request ends (or is cancelled).  A wait for the clock runs out of time when no
  answer is to come (after 100 ms, line 2194); that another one does is not
  relied on.  Nobody has to create a context.
* `Devices` has no liveness: its calls wait for nobody but a lock.

## What is proved

TLAPS checks the theorems below for every value of the constants: any number of
threads, rings, transfers, cubes or packets of any size.  What they assume of
the constants are the assumptions named in each component's module (and
evaluated by TLC on every run), and the hypotheses in the last column.

| Theorem | Property | Assumes |
|---|---|---|
| `SyncWrapperProofs!TypeCorrect` | `TypeOK` | |
| `SyncWrapperProofs!Ownership` | `DriverOwnsBack` | |
| `SyncWrapperProofs!SelfDeadlockFree` | `NoSelfDeadlock` | |
| `SyncWrapperProofs!PendingExact` | `PendingCounts` | finitely many clients |
| `SyncWrapperProofs!GetRight` | `GetReturnsRequest` | one client |
| `SyncWrapperProofs!JoinRight` | `JoinReleasesAll` | one client |
| `SyncWrapperProofs!Refinement` | `MailboxSpec` | one client, event handling does not fail |
| `BoundaryGridProofs!RaysRight` | `FreeThenHidden` | |
| `BoundaryGridProofs!IndexRight` | `IndexSafe` | |
| `BoundaryGridProofs!ColumnsRight` | `ColumnsExact` | |
| `PacketStreamProofs!StreamType` | `TypeOK`, of `FrameHonest` | |
| `PacketStreamProofs!CopySafe` | `CopyInBuffer` | |
| `PacketStreamProofs!PlaceCorrect` | `PlacedRight` | |
| `PacketStreamProofs!FramesHonest` | `FrameHonest` | every packet brings data |
| `PacketStreamProofs!RecoversSoon` | `RecoversInAFrame` | |
| `KinectProofs!TransfersAccounted` | `Accounted` | |
| `KinectProofs!InOrder` | `HandedOnInOrder` | |
| `KinectProofs!ResourcesRight` | `ResourcesExact` | |
| `KinectProofs!CameraRight` | `CameraObeys` | |
| `UsbTransfersProofs!TransfersInv` | its `IInv` | `QuietUnplug` |
| `UsbTransfersProofs!FlyingRight` | `FlyingExact` | `QuietUnplug` |
| `UsbTransfersProofs!DataRight` | `DataKept` | `QuietUnplug` |
| `UsbTransfersProofs!CallbacksRight` | `CallbackOwed` | `QuietUnplug`, not `OverAnywhere` |
| `LibusbProofs!NoLostWakeup` | `SleepersWoken` | |
| `LibusbProofs!PollsExact` | `TypeOK`, `NotifiersCounted`, `PollsWhatIsOpen` | |
| `LibusbProofs!NothingFreedInUse` | `ClosedAtRest` | poll fails at most once |
| `LibusbProofs!CountedRight` | `Counted` | |
| `LibusbProofs!NothingStaleRight` | `NothingStale` | |
| `WindowsProofs!TableRight` | `TableExact` | |
| `WindowsProofs!ClockRight` | `ClockExact` | |

None of these invariants is inductive alone; the rest of this section says what
was missing.

### SyncWrapper

`IInv` adds: who holds `runloop_lock` and where that thread is (`LoopInv`); a
ring's lock is held exactly by the client whose call sets that ring up
(`LockInv`); a stream that is running *or starting* has its ring ready, and
while the ring's lock is held it runs only once its client is about to unlock
(`OwnInv`); and a callback runs only on a pumping thread, for a running stream
(`CbInv`).  Self-deadlock is then impossible: a pumping client that holds the
ring's lock is stopping or starting, and its stream is not running.  Only one
thread pumps at a time since pumping needs `runloop_lock`, which is why two
callbacks never meet in one ring.  `PendingExact` is the count of a set: each
step adds a client to those that are pending or takes one out.

`OneInv` is for a program that calls from one thread, as the boundary program
does.  There is one event thread, which ends only when it is told to or fails,
and nobody but the client takes down what it has set up (`ThreadOne`); a ring
has the format that its client asked for from the moment it is set up
(`RingOne`); a published frame has the format and timestamp kept beside it, and
a callback publishes one completed just now (`FrameOne`); no call is under way
on a ring whose frame is lent (`LentOne`).  The refinement mapping takes
`lent`, `valid`, the frame in `bufs[1]` or lent, the camera's clock, and whether
a callback is about to publish (`Publishing`) to the mailbox.

The hypotheses are needed.  With two clients TLC finds each of
`GetReturnsRequest`, `JoinReleasesAll` and `MailboxSpec` violated: the other
client changes the format or stops between the test and the get.  With one
client and failing events it finds `MailboxSpec` violated, since the event
thread frees a frame that is lent (`SyncEventsFail`).

### BoundaryGrid

`GridInv` says where the point `c` is on its ray.  In Step 1 it is the camera
plus `k` steps (`OnRay`).  In Step 3 it is either the landing plus `k >= 1`
steps (`Behind`), or, if the ray left the grid before it landed, outside the
grid and moving away (`Gone`), so that no cube is guessed.  That the comparison
of Step 1 stops before the surface, and that what lies behind the landing on the
ground is behind it for the camera, is arithmetic on products of three and more
constants; those lemmas stand first.  `PlacementAssumption` (equal ground
scales, cameras within the grid) and `ForwardAssumption` (a pixel looks at most
21.5 degrees up or down, with 30 cubes to a metre on the ground and 10 in
height) are what the program defines.  From the latter it follows that a ray is
never at or above the grid's height when it lands with its last step inside,
which is why the `>` in the clamp of `iz` (`boundary_main.c:233`) does no harm.

`ColumnsRight` proves both parts of `ColumnsExact` for frames of any size.
Neither speaks of a counter that is not zero, because a char that is counted
256 times in one poll is back at zero while its column stays marked
(`BoundaryNear` shows the wrap): a recognized cube has a marked column
whatever was counted, and that a column is known is `known_by`'s to say.

### PacketStream

`PacketsFill` is the arithmetic of `stream_init`: all packets but the last are
whole and together they are the frame.  `PlaceInv` says that a stream in step is
at the camera's place less the packets it missed (`Ahead`, the difference of
sequence numbers modulo their width), and needs `PlaceAssumption`: a gap is
shorter than the sequence numbers, and a gap that is counted shorter than a
frame (255 and 5 against frames of 162 packets and more in the code).

`HonestInv` adds what is in the buffers: nothing there is newer than the
camera's frame (`Newest`); the last packet copied is of the frame in work, which
is the one before the camera's if its end got lost (`Current`); and as many
places as were counted hold packets of it (`Counted`).  It needs
`ShortestCut > 0`, since a packet cut to its header is counted though nothing of
it is copied.  `RecoverInv` follows two whole frames: after a packet that came
whole the stream is level with the camera or out of step (`Level`), and after a
frame it has all of the next (`Caught`).

### IsoStream

`PlaceInv` is `Accounted` position by position: the queues hold nothing twice,
and a transfer that was submitted is in exactly one of them, in the callback,
ended or refused.  `OrderInv` says that the packets that wait form a `Chain`:
the good transfers between the callback and the camera follow each other, with
any number of failed ones between.  `QueueLemmas` has the facts about queues
without repetition that these need.

### Kinect

For any bus, any number of device structures and any failures, `KinectInv` has
two halves.  The first is about what a device holds.  A handle is one that some
device has of the bus, and no place is had twice (`HandleInv`); while a device
is being opened, `seen` counts the cameras and motors that were passed over, so
that the n-th camera goes with the n-th motor (`SubInv`); a stream has its
transfers and buffers from the moment its start begins, through the whole
conversation, and nothing once its stop has returned (`StreamInv`).  That the
pair is of one Kinect (`OneKinect`) is proved of a bus that lists both kinds in
one order (`SameOrder`), and false of another.

The second is about what a camera will do.  Between a command and its effect
the camera's registers and the library's view differ, so the invariant is not
about the registers but about the value each will have when the camera has done
all it was asked (`Ends`).  `TodoInv` says that what is left to write is the
rest of the call's writes, `Sent` how many of them were sent, and `Told` what a
camera ends with after so many: a start has set the mode after the second, and
the stream after the third.  Each write is to a register of its own stream
(`RegistersApart`), so that a call for the depth disturbs nothing that was said
of the video.  Replies, tags and timeouts change nothing of this, since
`write_register`'s callers ignore what it returns; a camera that missed a command
(`missed`) is left out until its stream is started or stopped anew, and so it must be.

### UsbTransfers

`UsbTransfersProofs` is about all three backends, any number of transfers,
submitting threads and URBs, and every mixture of transfer types.  `PcInv` is
who holds which transfer's lock and when the device is seen to be gone.
`OneInv`, one transfer at a time, is the core: a transfer is owed a callback
just when it is in the list, being added, or taken out and about to be called
back, and the backend works on it just when it is in the list and neither
finishing nor refused.  `OrderInv` is the order of the list by timeout;
`DataInv` says that `transferred` keeps up with `got` unless the transfer
stalled or the device is gone (`KeptOf`).

`PrivInv` is what makes the counting of URBs on Linux right (`UrbsRight`): as
many are retired as came back or were refused, and at least one is still to
come while the transfer has any.  For that, while nothing went wrong
(`reap_action` is `NORMAL`) they come back in order (`Orderly`), and an URB of a
bulk transfer that was cut nevertheless is explained by a stall (`Explained`),
which is the one failure after which `handle_bulk_completion` discards URBs and
leaves `reap_action` as it was.  The lemmas go through the backends first
(`SubmitsRight`, `CancelRight`, `ServeRight`, `HandleRight`), then state what
the steps of `io.c` need of any backend (`SubmitsSound` to `HandledSound`), so
that the steps themselves do not look inside a URB.  On Mac OS a transfer of a
device that is gone leaves the list with its message still to come, because
`darwin_clear_transfer_priv` (`darwin_usb.c:1350`) clears little; `OneInv` says
so.

TLC checked each part of the invariant on a small instance first, and its runs
show that the hypotheses are needed.  Without `QuietUnplug` it finds a transfer
that is taken out of the list twice: the disconnection takes one whose
submission then fails (`io.c:2324`).  With `OverAnywhere` it finds
`CallbackOwed` violated by an overflow on an URB that is not the last
(`linux_usbfs.c:1877`), which the comment there says cannot occur; the other
two properties hold, and are proved, either way.

### LibusbEvents

`IInv` of `LibusbProofs` adds who holds the events lock (`HandlerInv`) and
that a sleeper is in the wait queue (`QueueInv`); `FreedInv` that one failure of
poll either is still to be seen or has cancelled a transfer.  After a second
one `ClosedAtRest` is false (`sync.c:110-113`).

### UsbDevices

`DevicesInv` adds to what is counted what a thread may hold where it is
(`PlacesInv`: a device it creates while it works on one, discoveries while it
lists, a list and handles in a context), so that references move from one holder
to another.  A reference count is the number of handles, of creating threads and
of places in lists (`RefsInv`).  All steps of `libusb_get_device_list` are one
kind of step to the proof (`Moves`): the thread exchanges what it holds, and the
count of each device changes by as much as what this thread holds of it, which
keeps the invariant (`MovesKeep`); what is left for each step is one sum.
`ContextsInv` adds who uses the default context, that one thread at most is in
`libusb_init`, and that nobody else is in a context that is being freed, which
makes the count of the run loop's users on Mac OS that of the contexts (unless
it is `Adrift`, which the lemmas carry along as a case).

`StaleInv` is about what the counts do not say.  A device that a listing finds
in its context (`usbi_get_device_by_session_id`, `core.c:564-579`) is not
referenced until it is appended, and might be one that its creator has not
completed.  `WorksGood` says that it exists all the same and is complete, and
`HoldsGood` that what is held is complete and of its holder's context.  Both
depend on what other threads do, so the invariant is conditional: as long as
none of the events of `past` took place (`Unharmed`), one thread at most lists
in a context (`OneLists`), a list of usbfs under way has not moved
(`Unmoved`), nothing freed was used and everything held or worked on is as it
should be (`Clean`), and the context of Mac OS's event thread is alive
(`RunsAlive`).  A step that makes one of the events happen notes it, so that
only those steps remain that the invariant survives.  The theorem assumes
nothing: the threads may be at the devices of one context at once, and the
events are what they can do there.

### Windows

Each theorem is about the specification of its module, whatever the other does.

`IInv`, for the descriptors, follows a transfer from hand to hand.  Whoever
submits it owns it until it is added to what is polled, the system has it until
its request ends, and the handler owns it from then until the callback returns
(`Owned`, `InFlight`); `OwnerInv` says what an owner has done so far, so that
no two own the same.  An entry of the table is free, the pipe's, or of one live
transfer whose owner is not still looking for an entry, or it is being freed
and then its number may be that of one other entry (`TableInv`); a number that
has no entry yet belongs to one thread (`NumberInv`), which is why looking for
an entry without its lock and taking it with the lock (`poll_windows.c:401`) is
sound.  `FreedInv`, which needs the rest of the invariant, says that whoever
frees an entry has one of its own, and that none is left that nobody frees.

What made `NeverAstray` inductive is `SnapInv`.  The handler works on a copy of
the descriptors, during which others add and a callback may submit again under
the number that has just been freed.  So the copy as a whole is out of date;
but what is still *ahead* of the handler (`From`) is of transfers in flight,
each for its own number, since only the handler ends one, and it does so at
descriptors it then leaves behind.  That windows_handle_events never clears
`found` between two descriptors (`windows_usb.c:2066`) is therefore harmless:
there is always a transfer to find.  `CountInv` is the pipe: `pollfd_modify` and
the bytes in it are the numbers of threads that announce a change.

`ClockInv`, for the clock, adds which callers have the semaphore (`LockInv`), that
`concurrent_usage` is the number of open contexts less one (`UsageInv`), and
that the thread starts and ends only while no other context is open
(`ThreadInv`).  A caller that has returned with the semaphore keeps its place in
both (`Leaks`): it stays counted, and nobody else is open.  `AnswersOwed` is
inductive because each answer that is refused is set against somebody who will
ask again, and each that is given too often against a wait that ran out of time.

### Only model-checked

* Liveness (`CallReturns`, `QuitHonoured`, `StopReturns`, `TransfersEnd`,
  `CallsReturn`, `NobodyWaitsForEver`, and `CallReturns` in `Conversation`),
  which is out of the prover's reach.
* What a loop or a parser computes for every input (`PicturesRight`,
  `ParsedExact`, `ReplayRight`): induction over data.
* Of `UsbDevices`, `ListExact`, which holds only as long as no device goes while
  its entry is read, and `HandlesAgree` (of its parts, that `opens` counts the
  handles is in the invariant that is proved, `RefsInv`).
* The modules without proofs: `Pixels`, `Recording` and `Descriptors`.

## Not modelled

* The angle and the accelerometer (`tilt.c`): a control transfer and a
  conversion each, which the boundary program does not use.
* Floating point rounding, the calibration table and colours; SDL; buffer sizes
  (`libfreenect_sync.c:84` allocates an enum's value).
* String descriptors, alternate settings, `clear_halt` and `reset_device`: one
  request to the kernel each.
* The interface for foreign event loops (`libusb_get_pollfds` and notifiers).
* The enumeration of hubs and drivers on Windows, its HID and composite devices;
  the endpoint tables, hotplug notifications and `reset` on Mac OS: mostly
  calls of the system whose behaviour is not in these sources.
* Of `libusb_submit_transfer`, a failing clock or `timerfd_settime` (an error is
  returned though the transfer flies) and `SHORT_NOT_OK`; the addition to the
  list and the backend's answer are one step, during which the transfer is not
  seen to be in the list but not yet at the backend.
* Details that no property here tells apart: `sync_get` reads `thread_running`,
  `kinects[]` and the format one after the other without a lock, `Check` at once
  (`libfreenect_sync.c:339`, 352); `StartWrites` leaves out registers that are
  written with constants; `Poll` takes replies that fail and replies shorter than
  a header for one case (`cameras.c:587-593`); `SkipConfiguration` does not ask
  whether a descriptor is longer than what is left (`descriptor.c:372`, and
  `parse_interface`'s return at 259-264), since the devices here send none.
* Examples and wrappers the program does not link; build files and documents.

## Plan

The components above are modelled and their invariants proved as listed.  What
could follow: the proofs of `ListExact` for devices that stay, and of
`HandlesAgree`.
