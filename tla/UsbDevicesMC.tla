---------------------------- MODULE UsbDevicesMC ----------------------------
(***************************************************************************)
(* Instances of UsbDevices and of Descriptors, one after the other: what   *)
(* is on the bus, and what is in the configuration of a device.            *)
(*                                                                         *)
(* Kernels with and without sysfs, threads with the default context or a   *)
(* context each.                                                           *)
(*                                                                         *)
(* Every configuration of one or two interfaces with one or two settings   *)
(* each, of six kinds: bare, with an endpoint, with class descriptors and  *)
(* two endpoints (one of an audio device), with too many endpoints, with a *)
(* broken descriptor, and with an endpoint less than it announces.         *)
(***************************************************************************)
EXTENDS UsbDevices, TLC

CONSTANTS t1, t2

VARIABLES side, device, pc, result, buffer, size, config, heap, twice

parsing == <<device, pc, result, buffer, size, config, heap, twice>>

Symmetry == Permutations(Callers)
S(k, ts, sh, v, n, as, bs, cs, d) ==
  [kernel |-> k, threads |-> ts, shared |-> sh, vanish |-> v, handles |-> n, addrs |-> as, start |-> bs, configs |-> cs, driver |-> d]
HostsMC ==
  {S("full", 2, TRUE, FALSE, 1, {1, 2}, {1}, {}, FALSE), S("full", 2, FALSE, FALSE, 0, {1, 2}, {1}, {}, FALSE),
   S("busnum", 2, TRUE, FALSE, 2, {1}, {1}, 0 .. 2, TRUE), S("bare", 2, TRUE, FALSE, 1, {1}, {1}, 0 .. 2, FALSE),
   S("none", 1, FALSE, TRUE, 1, 1 .. 3, 1 .. 3, {}, FALSE),
   S("darwin", 2, FALSE, FALSE, 2, {}, {1}, {0}, FALSE), S("darwin", 2, TRUE, TRUE, 2, {1}, {1}, {}, FALSE)}
\* A kernel with sysfs, and a device that goes while its entry is read: ListExact fails (see README).
VanishMC == {S("full", 2, FALSE, TRUE, 1, {1, 2}, {1}, {}, FALSE)}

E(n, a, x) == [address |-> n, audio |-> a, extra |-> x]
Setting(x, e, m) == [extra |-> x, endpoint |-> e, missing |-> m]

SettingsMC ==
  {Setting(<<>>, <<>>, 0), Setting(<<>>, <<E(1, FALSE, <<>>)>>, 0), Setting(<<4, 2>>, <<E(1, TRUE, <<7>>), E(2, FALSE, <<>>)>>, 0),
   Setting(<<>>, <<E(1, FALSE, <<>>), E(2, FALSE, <<>>), E(3, FALSE, <<>>)>>, 0), Setting(<<9>>, <<E(2, FALSE, <<3, 1>>)>>, 0),
   Setting(<<>>, <<E(2, FALSE, <<5>>)>>, 1)}
InterfacesMC == {<<s>> : s \in SettingsMC} \cup {<<s, t>> : s, t \in SettingsMC}
LastMissing(f) == f[Len(f)].missing > 0
TreesMC ==
  {t \in [extra : {<<>>, <<8>>}, interface : {<<f>> : f \in InterfacesMC} \cup {<<f, g>> : f, g \in InterfacesMC}] :
     ~LastMissing(t.interface[Len(t.interface)])}

Parser == INSTANCE Descriptors WITH
  Trees <- TreesMC, Declared <- {-1, 0, 1}, USB_MAXINTERFACES <- 2, USB_MAXENDPOINTS <- 2, Endpoints <- {1, 3}

ASSUME ParserSound == Parser!DescriptorAssumption

all == <<side, devices, parsing>>

FirstDevice == CHOOSE d \in [tree : TreesMC, bNumInterfaces : 1 .. 2] : d.bNumInterfaces = Len(d.tree.interface)

InitMC ==
  /\ side \in {"devices", "descriptors"} /\ DevicesInit /\ Parser!Init
  /\ side # "devices" => host = CHOOSE s \in Hosts : TRUE
  /\ side # "descriptors" => device = FirstDevice

Listing == side = "devices" /\ UNCHANGED <<side, parsing>>
Parsing == side = "descriptors" /\ UNCHANGED <<side, devices>>

NextMC ==
  \/ Listing /\ DevicesNext
  \/ Parsing /\ Parser!Next

SpecMC == InitMC /\ [][NextMC]_all

\* The properties of Descriptors (see there)
\* A configuration is read as the device has it or not at all, and its memory
\* is given back, once (descriptor.c).
ParsedExact == side = "descriptors" => Parser!ParsedExact
=============================================================================
