----------------------------- MODULE UsbDevices -----------------------------
(***************************************************************************)
(* Contexts, device objects and handles of libusb (core.c) over the        *)
(* backends that find devices: threads initialise the library, list the    *)
(* devices, open them, claim their interface and let go of everything      *)
(* again, while devices come and go.                                       *)
(*                                                                         *)
(* Listing is the long operation: a step reads one entry of a directory,   *)
(* or looks a device up, or talks to it.  The other calls are one step     *)
(* each; what they tell the handler of events is in LibusbEvents.          *)
(***************************************************************************)
EXTENDS Integers, Sequences, SequencesExt, FiniteSets

CONSTANTS
  Callers, Slots,  \* a thread has as many handles as there are Slots
  Addrs,           \* bus addresses (Linux) or locations (Darwin): 1 .. n
  MaxDevs,         \* device objects at a time
  MaxPlugs,        \* devices plugged in after the start
  ListStep,        \* DISCOVERED_DEVICES_SIZE_STEP
  Hosts

DevIds == 1 .. MaxDevs
CtxIds == 1 .. Cardinality(Callers) + 1
HandleIds == Callers \X Slots

Linux == INSTANCE LinuxDevices
Darwin == INSTANCE DarwinDevices
Nobody == Linux!Nobody
Driver == Linux!Driver
Configs == Linux!Configs

\* A host is a backend with its kernel, how many threads use the library
\* at a time, whether they share the default context, whether a device may go
\* while its entry is being read, how many handles are open at a time, the
\* addresses where devices may be plugged in and those in use at the start, the
\* configurations that programs set, and whether they detach and attach kernel
\* drivers.
ASSUME DeviceAssumption ==
  /\ IsFiniteSet(Callers) /\ IsFiniteSet(HandleIds) /\ 1 \in Addrs /\ IsFiniteSet(Addrs) /\ Addrs = 1 .. Cardinality(Addrs)
  /\ {MaxDevs, ListStep} \subseteq Nat \ {0} /\ MaxPlugs \in Nat
  /\ \A s \in Hosts : s.kernel \in {"none", "bare", "busnum", "full", "darwin"} /\ {s.shared, s.vanish, s.driver} \subseteq BOOLEAN
                      /\ {s.threads, s.handles} \subseteq Nat /\ s.addrs \subseteq Addrs /\ s.start \subseteq Addrs /\ s.configs \subseteq Configs

VARIABLES
  host,
  bus, plugs, conf, owner,   \* the kernel: devices, their configuration, who has the interface
  opener,     \* Darwin: the device object that has the device open
  st,         \* Linux: what is known of sysfs
  alive,      \* contexts
  default, refs,  \* usbi_default_context (or 0), default_context_refcnt
  backend,    \* Darwin: initCount, and the context the event thread was given, or Adrift
  devs,       \* device objects
  th,         \* what each thread does
  hs,         \* handles; one is gone when the device it was opened on is
  wild,       \* history: freed memory was used
  past        \* history: what happened of Perils

kernelVars == <<bus, plugs, conf, owner>>
contextVars == <<alive, default, refs, backend>>
devices == <<host, kernelVars, opener, st, contextVars, devs, th, hs, wild, past>>

onDarwin == host.kernel = "darwin"

\* Two threads were at the devices of a context at once, one listing; a list of
\* usbfs was moved; the context of the event thread was freed before others.
Perils == {"overlap", "outgrown", "orphaned"}
Notes(peril, cond) == past' = past \cup (IF cond THEN {peril} ELSE {})

\* core.c 507-532: usbi_alloc_device
NewDev(c, a) == [ref |-> 1, ctx |-> c, addr |-> a, ready |-> FALSE, dir |-> FALSE, cached |-> 0, opens |-> 0]
NoDev == [ref |-> 0, ctx |-> 0, addr |-> 0, ready |-> FALSE, dir |-> FALSE, cached |-> 0, opens |-> 0]
NoHandle == [dev |-> 0, claimed |-> FALSE, is_open |-> FALSE, gone |-> FALSE]
NoCaller == [pc |-> "out", ctx |-> 0, mode |-> "usbfs", list |-> <<>>, disc |-> <<>>, seen |-> {}, must |-> {},
             cur |-> 0, dev |-> 0, new |-> FALSE, moved |-> FALSE, quiet |-> FALSE, res |-> "ok"]

DevicesInit ==
  /\ host \in Hosts
  /\ bus = host.start /\ plugs = 0 /\ conf = [a \in Addrs |-> 1]
  /\ owner = [a \in Addrs |-> IF a \in host.start THEN Driver ELSE Nobody] /\ opener = [a \in Addrs |-> 0]
  /\ st = Linux!Unknown
  /\ alive = {} /\ default = 0 /\ refs = 0 /\ backend = [count |-> 0, runs |-> 0]
  /\ devs = [d \in DevIds |-> NoDev]
  /\ th = [t \in Callers |-> NoCaller] /\ hs = [h \in HandleIds |-> NoHandle] /\ wild = FALSE /\ past = {}

Set(t, r) == th' = [th EXCEPT ![t] = r]
Here(d) == devs[d].addr \in bus
Exists(d) == devs[d].ref > 0

-----------------------------------------------------------------------------

\* Contexts.  A thread has default_context_lock from the start of libusb_init to
\* its end; libusb_exit has it for the count of users only.
Locked == \E u \in Callers : th[u].pc = "starting"

\* darwin_init and darwin_exit work on variables of the process.  What comes of
\* them when two threads are there at once is not followed.
Enters(t) ==
  backend' = IF onDarwin /\ \E u \in Callers \ {t} : th[u].pc \in {"starting", "stopping"} THEN Darwin!Adrift ELSE backend

\* core.c 1504-1533: libusb_init
InitContext(t) ==
  /\ th[t].pc = "out" /\ ~Locked /\ Cardinality({u \in Callers : th[u].pc # "out"}) < host.threads
  /\ IF host.shared /\ default # 0
     THEN /\ refs' = refs + 1 /\ Set(t, [th[t] EXCEPT !.pc = "idle", !.ctx = default])
          /\ UNCHANGED backend
     ELSE Set(t, [th[t] EXCEPT !.pc = "starting"]) /\ Enters(t) /\ UNCHANGED refs
  /\ UNCHANGED <<host, kernelVars, opener, st, alive, default, devs, hs, wild, past>>

\* When the backend cannot start there is no context; when usbi_io_init fails,
\* the backend is told to exit.
\* core.c 1534-1572: libusb_init
NewContext(t) ==
  /\ th[t].pc = "starting"
  /\ st' = Linux!OpInit(st, host.kernel)
  /\ LET c == CHOOSE x \in CtxIds \ alive : TRUE
     IN \E i \in IF onDarwin THEN Darwin!DarwinInit(backend, c) ELSE {[r |-> "ok", b |-> backend]}, fails \in BOOLEAN :
          IF i.r = "ok" /\ ~fails
          THEN /\ backend' = i.b /\ alive' = alive \cup {c}
               /\ default' = IF host.shared THEN c ELSE default
               /\ refs' = IF host.shared THEN refs + 1 ELSE refs
               /\ Set(t, [th[t] EXCEPT !.pc = "idle", !.ctx = c])
          ELSE /\ backend' = IF i.r = "ok" /\ onDarwin THEN Darwin!DarwinExit(i.b) ELSE i.b
               /\ Set(t, NoCaller)
               /\ UNCHANGED <<alive, default, refs>>
  /\ UNCHANGED <<host, kernelVars, opener, devs, hs, wild, past>>

\* A program lets go of its devices first.
HoldsNothing(t) == th[t].list = <<>> /\ \A s \in Slots : hs[<<t, s>>].dev = 0

\* core.c 1578-1595: libusb_exit
Exit(t) ==
  /\ th[t].pc = "idle" /\ HoldsNothing(t) /\ (th[t].ctx = default => ~Locked)
  /\ LET last == th[t].ctx = default /\ refs = 1
     IN /\ refs' = IF th[t].ctx = default THEN refs - 1 ELSE refs
        /\ default' = IF last THEN 0 ELSE default
        /\ Set(t, IF last \/ th[t].ctx # default THEN [th[t] EXCEPT !.pc = "freeing"] ELSE NoCaller)
  /\ UNCHANGED <<host, kernelVars, opener, st, alive, backend, devs, hs, wild, past>>

\* core.c 1596-1603: libusb_exit
StopBackend(t) ==
  /\ th[t].pc = "freeing"
  /\ Set(t, [th[t] EXCEPT !.pc = "stopping"]) /\ Enters(t)
  /\ UNCHANGED <<host, kernelVars, opener, st, alive, default, refs, devs, hs, wild, past>>

\* core.c 1604-1609: libusb_exit
FreeContext(t) ==
  /\ th[t].pc = "stopping"
  /\ alive' = alive \ {th[t].ctx}
  /\ backend' = IF onDarwin THEN Darwin!DarwinExit(backend) ELSE backend
  /\ Notes("orphaned", backend'.runs = th[t].ctx)
  /\ Set(t, NoCaller)
  /\ UNCHANGED <<host, kernelVars, opener, st, default, refs, devs, hs, wild>>

-----------------------------------------------------------------------------
\* References to device objects.
\* core.c 810-816: libusb_ref_device
Ref(D, d) == [D EXCEPT ![d].ref = @ + 1]
\* core.c 823-847: libusb_unref_device
Unref(D, d) == [D EXCEPT ![d] = IF D[d].ref <= 1 THEN NoDev ELSE [D[d] EXCEPT !.ref = @ - 1]]

\* A list, or a discovery, has a reference for each of its places.
Occurs(d, s) == Cardinality({i \in DOMAIN s : s[i] = d})

\* All references of a sequence are given back, one after the other.
\* core.c 495-503: discovered_devs_free
UnrefAll(D, s) ==
  [d \in DevIds |->
     CASE Occurs(d, s) = 0 -> D[d]
       [] Occurs(d, s) > 0 /\ D[d].ref <= Occurs(d, s) -> NoDev
       [] OTHER -> [D[d] EXCEPT !.ref = @ - Occurs(d, s)]]

Scanning(t) == th[t].pc \notin {"out", "starting", "idle", "freeing", "stopping", "listed"}
Alone(t) == \A u \in Callers \ {t} : th[u].ctx = th[t].ctx => ~Scanning(u)

StartScan(r, mode) == [r EXCEPT !.pc = "scan", !.mode = mode, !.seen = {}, !.must = bus, !.moved = FALSE]

\* The list of discovered devices starts empty.
\* core.c 601-619: libusb_get_device_list
GetDeviceList(t) ==
  /\ th[t].pc = "idle" /\ th[t].list = <<>>
  /\ Set(t, [StartScan(th[t], IF onDarwin THEN "iokit" ELSE Linux!FirstMode(st)) EXCEPT !.disc = <<>>, !.quiet = TRUE])
  /\ Notes("overlap", ~Alone(t))
  /\ UNCHANGED <<host, kernelVars, opener, st, contextVars, devs, hs, wild>>

\* What is in the directory when it is opened, and stays, is read.
\* linux_usbfs.c 998-1028: sysfs_get_device_list
NextEntry(t) ==
  /\ th[t].pc = "scan"
  /\ \/ \E a \in bus \ th[t].seen :
          /\ \A b \in bus \ th[t].seen : a <= b
          /\ Set(t, [th[t] EXCEPT !.pc = Linux!AfterEntry(th[t].mode), !.cur = a, !.seen = @ \cup {a}])
     \/ /\ th[t].must \cap bus \subseteq th[t].seen
        /\ Set(t, [th[t] EXCEPT !.pc = "listed", !.list = th[t].disc, !.disc = <<>>, !.cur = 0, !.res = "ok"])
  /\ UNCHANGED <<host, kernelVars, opener, st, contextVars, devs, hs, wild, past>>

\* The rest of a list that fails: what was found is let go of.  usbfs_scan_busdir
\* has not told its caller when the list moved.  (History: quiet is that nothing
\* came between, and all devices answered.)
\* linux_usbfs.c 880-922: usbfs_scan_busdir, usbfs_get_device_list
Fail(t, D, r, answered) ==
  LET failed == [th[t] EXCEPT !.cur = 0, !.dev = 0, !.new = FALSE, !.quiet = @ /\ answered]
  IN IF onDarwin
     THEN Set(t, [failed EXCEPT !.pc = "scan"]) /\ devs' = D /\ UNCHANGED wild
     ELSE /\ Set(t, [failed EXCEPT !.pc = "listed", !.disc = <<>>, !.res = r])
          /\ devs' = UnrefAll(D, th[t].disc)
          /\ wild' = (wild \/ (th[t].mode = "usbfs" /\ th[t].moved))

\* Without busnum everything is left to usbfs, which goes on with the list.
\* linux_usbfs.c 953-996: sysfs_scan_device
ScanEntry(t) ==
  /\ th[t].pc = "entry"
  /\ st' = Linux!Related(st, host.kernel, th[t].cur \in bus)
  /\ Set(t, IF st'.relate = 0 THEN StartScan(th[t], "usbfs") ELSE [th[t] EXCEPT !.pc = "look"])
  /\ UNCHANGED <<host, kernelVars, opener, contextVars, devs, hs, wild, past>>

KnownIsSkipped(t) ==    \* a mutated form: a device that is known is not listed again
  /\ th[t].pc = "look"
  /\ LET known == {d \in DevIds : Exists(d) /\ devs[d].ctx = th[t].ctx /\ devs[d].addr = th[t].cur}
     IN Set(t, [th[t] EXCEPT !.pc = IF known = {} THEN "alloc" ELSE "scan"])
  /\ UNCHANGED <<host, kernelVars, opener, st, contextVars, devs, hs, wild, past>>

\* core.c 564-579: usbi_get_device_by_session_id
LookUp(t) ==
  /\ th[t].pc = "look"
  /\ LET known == {d \in DevIds : Exists(d) /\ devs[d].ctx = th[t].ctx /\ devs[d].addr = th[t].cur}
     IN Set(t, IF known = {} THEN [th[t] EXCEPT !.pc = "alloc"]
               ELSE [th[t] EXCEPT !.pc = IF onDarwin THEN "init" ELSE "append", !.dev = CHOOSE d \in known : TRUE])
  /\ UNCHANGED <<host, kernelVars, opener, st, contextVars, devs, hs, wild, past>>

\* darwin_usb.c 496-518: process_new_device
\* linux_usbfs.c 811-818: enumerate_device
Allocate(t) ==
  /\ th[t].pc = "alloc"
  /\ \E d \in DevIds :
       /\ ~Exists(d) /\ \A e \in DevIds : ~Exists(e) => d <= e
       /\ devs' = [devs EXCEPT ![d] = NewDev(th[t].ctx, th[t].cur)]
       /\ Set(t, [th[t] EXCEPT !.pc = "init", !.dev = d, !.new = TRUE])
  /\ UNCHANGED <<host, kernelVars, opener, st, contextVars, hs, wild, past>>

LetGo(t) == IF th[t].new THEN Unref(devs, th[t].dev) ELSE devs

\* linux_usbfs.c 819-821: enumerate_device
InitializeDevice(t) ==
  /\ th[t].pc = "init"
  /\ LET d == th[t].dev
         outcomes == IF onDarwin THEN Darwin!Initialize(devs[d], Here(d), conf[devs[d].addr])
                     ELSE Linux!Initialize(st, devs[d], th[t].mode, Here(d), conf[devs[d].addr])
     IN \E i \in outcomes :
          IF i.r = "ok" THEN /\ devs' = [devs EXCEPT ![d] = i.d] /\ Set(t, [th[t] EXCEPT !.pc = "sanitize"])
                             /\ wild' = (wild \/ ~Exists(d))
          ELSE Fail(t, LetGo(t), i.r, \A o \in outcomes : o.r # "ok")
  /\ UNCHANGED <<host, kernelVars, opener, st, contextVars, hs, past>>

\* core.c 537-559: usbi_sanitize_device
Sanitize(t) ==
  /\ th[t].pc = "sanitize"
  /\ LET d == th[t].dev
     IN IF onDarwin \/ Linux!DescriptorReads(st, devs[d], Here(d))
        THEN devs' = [devs EXCEPT ![d].ready = TRUE] /\ Set(t, [th[t] EXCEPT !.pc = "append"]) /\ UNCHANGED wild
        ELSE Fail(t, LetGo(t), "IO", TRUE)
  /\ UNCHANGED <<host, kernelVars, opener, st, contextVars, hs, past>>

\* core.c 468-493: discovered_devs_append
Append1(t, r) ==
  [r EXCEPT !.disc = Append(@, th[t].dev), !.moved = @ \/ (r.disc # <<>> /\ Len(r.disc) % ListStep = 0)]

\* linux_usbfs.c 827-837: enumerate_device
AppendDevice(t) ==
  /\ th[t].pc = "append"
  /\ LET d == th[t].dev
     IN /\ wild' = (wild \/ ~Exists(d))
        /\ devs' = IF th[t].new THEN Unref(Ref(devs, d), d) ELSE Ref(devs, d)
        /\ Set(t, [Append1(t, th[t]) EXCEPT !.pc = "scan", !.cur = 0, !.dev = 0, !.new = FALSE])
  /\ Notes("outgrown", th[t].mode = "usbfs" /\ Append1(t, th[t]).moved)
  /\ UNCHANGED <<host, kernelVars, opener, st, contextVars, hs>>

ReturnUncounted(t) ==    \* a mutated form: the list takes no references of its own
  /\ th[t].pc = "listed"
  /\ devs' = UnrefAll(devs, th[t].list)
  /\ Set(t, [NoCaller EXCEPT !.pc = "idle", !.ctx = th[t].ctx, !.list = th[t].list])
  /\ UNCHANGED <<host, kernelVars, opener, st, contextVars, hs, wild, past>>

\* core.c 621-637: libusb_get_device_list
Return(t) ==
  /\ th[t].pc = "listed"
  /\ Set(t, [NoCaller EXCEPT !.pc = "idle", !.ctx = th[t].ctx, !.list = th[t].list])
  /\ UNCHANGED <<host, kernelVars, opener, st, contextVars, devs, hs, wild, past>>

\* core.c 647-661: libusb_free_device_list
FreeDeviceList(t) ==
  /\ th[t].pc = "idle" /\ th[t].list # <<>>
  /\ devs' = UnrefAll(devs, th[t].list)
  /\ wild' = (wild \/ \E i \in DOMAIN th[t].list : ~Exists(th[t].list[i]))
  /\ Set(t, [th[t] EXCEPT !.list = <<>>])
  /\ Notes("overlap", ~Alone(t))
  /\ UNCHANGED <<host, kernelVars, opener, st, contextVars, hs>>

-----------------------------------------------------------------------------
\* Handles.
Closed(t, s) == hs[<<t, s>>].dev = 0
Addr(h) == devs[hs[h].dev].addr
Plugged(h) == ~hs[h].gone
Owner(h) == owner[Addr(h)]
MayConfigure(h) == opener[Addr(h)] = hs[h].dev

OpenKeeps(t, s) ==    \* a mutated form: keeps the reference when it fails
  /\ th[t].pc = "idle" /\ Closed(t, s)
  /\ \E i \in DOMAIN th[t].list : Exists(th[t].list[i]) /\ ~Here(th[t].list[i]) /\ devs' = Ref(devs, th[t].list[i])
  /\ UNCHANGED <<host, kernelVars, opener, st, contextVars, th, hs, wild, past>>

\* The reference goes again when the backend cannot open the device.
\* core.c 912-956: libusb_open
OpenDevice(t, s) ==
  /\ th[t].pc = "idle" /\ Closed(t, s) /\ Cardinality({h \in HandleIds : hs[h].dev # 0}) < host.handles
  /\ \E i \in DOMAIN th[t].list, fails \in BOOLEAN :
       LET d == th[t].list[i]
           a == devs[d].addr
           o == IF onDarwin THEN Darwin!DarwinOpen(devs[d], d, Here(d), opener[a], fails)
                ELSE [r |-> Linux!OpOpen(Here(d), fails), d |-> devs[d], is_open |-> FALSE, opener |-> opener[a]]
       IN /\ Exists(d)
          /\ devs' = IF o.r = "ok" THEN Ref([devs EXCEPT ![d] = o.d], d) ELSE Unref(Ref(devs, d), d)
          /\ hs' = IF o.r = "ok" THEN [hs EXCEPT ![<<t, s>>] = [dev |-> d, claimed |-> FALSE, is_open |-> o.is_open, gone |-> \E h \in HandleIds : hs[h].dev = d /\ hs[h].gone]] ELSE hs
          /\ opener' = [opener EXCEPT ![a] = o.opener]
  /\ UNCHANGED <<host, kernelVars, st, contextVars, th, wild, past>>

\* The kernel lets go of what the handle had claimed.
\* core.c 1011-1022: do_close
CloseHandle(t, s) ==
  /\ th[t].pc = "idle" /\ ~Closed(t, s)
  /\ LET h == <<t, s>>
         d == hs[h].dev
         c == IF onDarwin THEN Darwin!DarwinClose(devs[d], d, hs[h].is_open, opener[Addr(h)])
              ELSE [d |-> devs[d], opener |-> opener[Addr(h)]]
     IN /\ devs' = Unref([devs EXCEPT ![d] = c.d], d)
        /\ opener' = [opener EXCEPT ![Addr(h)] = c.opener]
        /\ owner' = [owner EXCEPT ![Addr(h)] = Linux!OpClose(h, @)]
        /\ hs' = [hs EXCEPT ![h] = NoHandle]
  /\ Notes("overlap", ~Alone(t))
  /\ UNCHANGED <<host, bus, plugs, conf, st, contextVars, th, wild>>

Using(t, s) == th[t].pc = "idle" /\ ~Closed(t, s)

\* An interface that is claimed already is not asked for again.
\* core.c 1222-1242: libusb_claim_interface
Claim(t, s) ==
  /\ Using(t, s)
  /\ LET h == <<t, s>>
         a == Addr(h)
         d == devs[hs[h].dev]
         c == IF onDarwin THEN Darwin!DarwinClaim(h, d, Plugged(h), conf[a], Owner(h), Nobody, MayConfigure(h))
              ELSE [r |-> Linux!OpClaim(h, Plugged(h), conf[a], Owner(h)), conf |-> conf[a], d |-> d]
     IN IF hs[h].claimed THEN UNCHANGED <<conf, owner, hs, devs>>
        ELSE /\ conf' = [conf EXCEPT ![a] = c.conf]
             /\ owner' = IF c.r = "ok" THEN [owner EXCEPT ![a] = h] ELSE owner
             /\ hs' = [hs EXCEPT ![h].claimed = (c.r = "ok")]
             /\ devs' = [devs EXCEPT ![hs[h].dev] = c.d]
  /\ UNCHANGED <<host, bus, plugs, opener, st, contextVars, th, wild, past>>

\* core.c 1259-1281: libusb_release_interface
Release(t, s) ==
  /\ Using(t, s)
  /\ LET h == <<t, s>>
         r == IF onDarwin THEN Darwin!DarwinRelease ELSE Linux!OpRelease(Plugged(h))
     IN IF ~hs[h].claimed THEN UNCHANGED <<owner, hs>>
        ELSE /\ owner' = IF Owner(h) = h THEN [owner EXCEPT ![Addr(h)] = Nobody] ELSE owner
             /\ hs' = [hs EXCEPT ![h].claimed = (r # "ok")]
  /\ UNCHANGED <<host, bus, plugs, conf, opener, st, contextVars, devs, th, wild, past>>

\* core.c 1191-1196: libusb_set_configuration
SetConfiguration(t, s, c) ==
  /\ Using(t, s)
  /\ LET h == <<t, s>>
         a == Addr(h)
         d == hs[h].dev
     IN \E r \in IF onDarwin
                 THEN Darwin!DarwinSetConfiguration(h, devs[d], Plugged(h), MayConfigure(h), hs[h].claimed, owner[a], Nobody, c)
                 ELSE {[r |-> r.r, d |-> r.d, owner |-> owner[a]] :
                         r \in Linux!OpSetConfiguration(st, devs[d], Plugged(h), owner[a] \in HandleIds, c)} :
          /\ conf' = IF r.r = "ok" THEN [conf EXCEPT ![a] = c] ELSE conf
          /\ owner' = [owner EXCEPT ![a] = r.owner]
          /\ devs' = [devs EXCEPT ![d] = r.d]
  /\ UNCHANGED <<host, bus, plugs, opener, st, contextVars, th, hs, wild, past>>

\* core.c 1415-1453: libusb_detach_kernel_driver, libusb_attach_kernel_driver
KernelDriver(t, s, attach) ==
  /\ Using(t, s) /\ host.driver
  /\ LET h == <<t, s>>
         r == IF onDarwin THEN "NOT_SUPPORTED"
              ELSE IF attach THEN Linux!OpAttach(Plugged(h), Owner(h)) ELSE Linux!OpDetach(Plugged(h), Owner(h))
     IN owner' = IF r = "ok" THEN [owner EXCEPT ![Addr(h)] = IF attach THEN Driver ELSE Nobody] ELSE owner
  /\ UNCHANGED <<host, bus, plugs, conf, opener, st, contextVars, devs, th, hs, wild, past>>

-----------------------------------------------------------------------------
\* Devices come and go.  A Linux address is not given twice (it wraps after
\* 127 devices); a location is that of the socket.
Disturb == th' = [t \in Callers |-> [th[t] EXCEPT !.quiet = FALSE]]
Reads(a) == \E t \in Callers : th[t].cur = a

\* external: a device is plugged in
Plug ==
  /\ plugs < MaxPlugs /\ plugs' = plugs + 1
  /\ \E a \in host.addrs \ bus :
       /\ IF onDarwin THEN TRUE ELSE a = Cardinality(host.start) + plugs'
       /\ bus' = bus \cup {a}
  /\ Disturb
  /\ UNCHANGED <<host, conf, owner, opener, st, contextVars, devs, hs, wild, past>>

\* Mac OS tells the context the event thread was given.
\* external: a device is unplugged
Unplug ==
  /\ \E a \in bus :
       /\ host.vanish \/ ~Reads(a)
       /\ bus' = bus \ {a}
       /\ owner' = [owner EXCEPT ![a] = Nobody] /\ conf' = [conf EXCEPT ![a] = 1]
       /\ opener' = [opener EXCEPT ![a] = 0]
       /\ hs' = [h \in HandleIds |-> [hs[h] EXCEPT !.gone = @ \/ (hs[h].dev # 0 /\ Addr(h) = a)]]
  /\ wild' = (wild \/ (onDarwin /\ backend.runs \notin alive \cup {0}))
  /\ Disturb
  /\ UNCHANGED <<host, plugs, st, contextVars, devs, past>>

\* What follows the use of freed memory is not followed.
DevicesNext ==
  /\ ~wild
  /\ \/ \E t \in Callers :
          \/ InitContext(t) \/ NewContext(t) \/ Exit(t) \/ StopBackend(t) \/ FreeContext(t)
          \/ GetDeviceList(t) \/ NextEntry(t) \/ ScanEntry(t) \/ LookUp(t) \/ Allocate(t)
          \/ InitializeDevice(t) \/ Sanitize(t) \/ AppendDevice(t) \/ Return(t) \/ FreeDeviceList(t)
          \/ \E s \in Slots :
               \/ OpenDevice(t, s) \/ CloseHandle(t, s) \/ Claim(t, s) \/ Release(t, s)
               \/ \E c \in host.configs : SetConfiguration(t, s, c)
               \/ \E b \in BOOLEAN : KernelDriver(t, s, b)
     \/ Plug \/ Unplug

DevicesSpec == DevicesInit /\ [][DevicesNext]_devices
-----------------------------------------------------------------------------
DevicesTypeOK ==
  /\ host \in Hosts /\ bus \subseteq Addrs /\ plugs \in 0 .. MaxPlugs /\ conf \in [Addrs -> Configs]
  /\ owner \in [Addrs -> HandleIds \cup {Nobody, Driver}] /\ opener \in [Addrs -> {0} \cup DevIds]
  /\ st \in Linux!Statics
  /\ alive \subseteq CtxIds /\ default \in {0} \cup CtxIds /\ refs \in 0 .. Cardinality(Callers)
  /\ backend \in [count : -1 .. Cardinality(Callers), runs : {0} \cup CtxIds] /\ past \subseteq Perils
  /\ \A d \in DevIds : /\ devs[d].ref \in Nat /\ devs[d].ctx \in {0} \cup CtxIds
                       /\ devs[d].addr \in {0} \cup Addrs /\ devs[d].cached \in {Linux!Unsure} \cup Configs
                       /\ devs[d].opens \in 0 .. Cardinality(HandleIds)
  /\ \A t \in Callers : th[t].list \in Seq(DevIds) /\ th[t].disc \in Seq(DevIds) /\ th[t].cur \in {0} \cup Addrs
  /\ hs \in [HandleIds -> [dev : {0} \cup DevIds, claimed : BOOLEAN, is_open : BOOLEAN, gone : BOOLEAN]] /\ wild \in BOOLEAN

\* Who has a reference to a device object: handles, threads that create it, and
\* places of lists and discoveries
Held(t) == th[t].list \o th[t].disc
HandlesOn(d) == {h \in HandleIds : hs[h].dev = d}
Creators(d) == {t \in Callers : th[t].new /\ th[t].dev = d}
Listings(d) == UNION {{t} \X {i \in DOMAIN Held(t) : Held(t)[i] = d} : t \in Callers}

\* A device object counts exactly the references that lists, discoveries,
\* handles and the thread that creates it hold, and lives until the last goes.
RefsCounted ==
  \A d \in DevIds : devs[d].ref = Cardinality(HandlesOn(d)) + Cardinality(Creators(d)) + Cardinality(Listings(d))

\* No call reads or writes memory that another has freed: not a device object
\* found before its last reference went, nor a list that has moved, nor the
\* context that Mac OS's event thread was given.  (Alone it does not hold: see
\* NothingStale.)
NeverWild == ~wild

\* Not checked: only one thread at a time is in darwin_init and darwin_exit,
\* and both succeed.  It does not hold: libusb_exit calls the backend without
\* default_context_lock (core.c:1602), and a darwin_init without a port to IOKit
\* leaves initCount increased.
NeverAdrift == backend # Darwin!Adrift

\* What a program gets hold of is complete, and of its own context, which
\* nobody has freed.
ListedReady ==
  \A t \in Callers :
    /\ \A d \in (ToSet(th[t].list) \cup {hs[<<t, s>>].dev : s \in Slots}) \ {0} :
         devs[d].ready /\ devs[d].ctx = th[t].ctx
    /\ th[t].pc \notin {"out", "starting"} => th[t].ctx \in alive

\* A list that was made while no device came or went or failed to answer, by
\* the only thread at work on the devices of the context, has every device of
\* the bus once and no other, and does not fail.
ListExact ==
  \A t \in Callers :
    th[t].pc = "listed" /\ th[t].quiet /\ "overlap" \notin past =>
      /\ th[t].res = "ok" /\ Len(th[t].list) = Cardinality(bus)
      /\ {devs[th[t].list[i]].addr : i \in DOMAIN th[t].list} = bus

\* While its device is there, a handle that has the interface knows it, and on
\* Linux a handle has it when it believes to (on Mac OS another handle that
\* configures the device takes it away).
ClaimsAgree ==
  \A h \in HandleIds :
    hs[h].dev # 0 /\ Plugged(h) => (Owner(h) = h => hs[h].claimed) /\ (hs[h].claimed /\ ~onDarwin => Owner(h) = h)

\* The default context is counted by the threads that use it, and the last one
\* to exit frees it.  On Mac OS, unless two threads were in darwin_init or
\* darwin_exit at once or the port to IOKit was not to be had, the backend
\* counts the contexts, and the event thread runs while there is one.
ContextsCounted ==
  /\ refs = Cardinality({t \in Callers : host.shared /\ th[t].pc \notin {"out", "starting", "freeing", "stopping"}})
  /\ (default # 0 <=> refs > 0) /\ (default # 0 => default \in alive)
  /\ alive = {th[t].ctx : t \in Callers} \ {0}
  /\ onDarwin /\ backend # Darwin!Adrift => backend.count = Cardinality(alive) /\ (backend.runs # 0 <=> alive # {})

\* Without the descriptors of sysfs, the descriptor that is kept is the one of
\* the configuration in effect, when one context configures the device, unless
\* it could not be asked for (Unsure: see LinuxDevices).
CacheFresh ==
  host.shared /\ ~onDarwin /\ st.descs = 0 /\ "overlap" \notin past =>
    \A d \in DevIds : Exists(d) /\ devs[d].ready /\ devs[d].cached # Linux!Unsure /\ Here(d) =>
      Linux!ActiveConfig(st, devs[d], TRUE, 0).conf = conf[devs[d].addr]

\* Mac OS's backend closes the device with the last handle of the device object.
OpensCounted == onDarwin => \A d \in DevIds : devs[d].opens = Cardinality(HandlesOn(d))

\* What is counted is exact: the references of devices, the users of contexts.
Counted == DevicesTypeOK /\ RefsCounted /\ ContextsCounted

\* Nobody uses what has been freed or is not complete yet, but after one of
\* these: two threads were at the devices of one context at once, one of them
\* listing (libusb_get_device_list, the last libusb_unref_device); a list of
\* usbfs outgrew DISCOVERED_DEVICES_SIZE_STEP; on Mac OS the first context went
\* before the others, or the backend was entered by two threads or failed.
NothingStale == past = {} /\ backend # Darwin!Adrift => NeverWild /\ ListedReady

\* What libusb remembers of an open device is as the kernel has it: claims, the
\* active configuration; and who has it open as the handles are.
HandlesAgree == ClaimsAgree /\ CacheFresh /\ OpensCounted
=============================================================================
