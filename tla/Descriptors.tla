---------------------------- MODULE Descriptors ----------------------------
(***************************************************************************)
(* How libusb reads a configuration of a device (descriptor.c, core.c):    *)
(* the descriptors follow one another in one buffer, and a tree of         *)
(* interfaces, alternate settings and endpoints is built from them.        *)
(* Memory may run out at every step; then all of it is given back.         *)
(*                                                                         *)
(* A descriptor is a record with its type and bLength; the type "class"    *)
(* stands for every type the parser does not know.                         *)
(***************************************************************************)
EXTENDS Integers, Sequences, SequencesExt, FiniteSets, FiniteSetsExt, Functions

CONSTANTS
  Trees,              \* what devices may be: see Flat
  Declared,           \* by how much bNumInterfaces may differ from the truth
  USB_MAXINTERFACES, USB_MAXENDPOINTS,
  Endpoints           \* addresses that are asked for

\* What the constants must be (assumed where this is instantiated)
DescriptorAssumption ==
  /\ USB_MAXINTERFACES \in Nat /\ USB_MAXENDPOINTS \in Nat /\ Declared \subseteq Int

-----------------------------------------------------------------------------
\* What a device sends: the configuration, each interface and endpoint, each
\* followed by the class descriptors it has (a sequence of their lengths; one
\* shorter than 2 is broken).  A setting may announce more endpoints than it
\* has, if something follows that shows it.
Class(lengths) == [n \in DOMAIN lengths |-> [type |-> "class", bLength |-> lengths[n]]]

FlatEndpoint(e) ==
  <<[type |-> "endpoint", bLength |-> IF e.audio THEN 9 ELSE 7, address |-> e.address]>> \o Class(e.extra)

FlatSetting(s, n) ==
  <<[type |-> "interface", bLength |-> 9, bAlternateSetting |-> n - 1, bNumEndpoints |-> Len(s.endpoint) + s.missing]>>
  \o Class(s.extra) \o FlattenSeq([m \in DOMAIN s.endpoint |-> FlatEndpoint(s.endpoint[m])])

FlatInterface(f) == FlattenSeq([n \in DOMAIN f |-> FlatSetting(f[n], n)])

Flat(t) ==
  <<[type |-> "config", bLength |-> 9]>> \o Class(t.extra)
  \o FlattenSeq([n \in DOMAIN t.interface |-> FlatInterface(t.interface[n])])

Bytes(seq) == FoldSeq(LAMBDA d, n : d.bLength + n, 0, seq)

-----------------------------------------------------------------------------
VARIABLES
  device,       \* the tree the device has, and its bNumInterfaces
  pc, result,
  buffer, size, \* what is left of it, and how much of it the parser thinks is left
  config,       \* the tree that is built: NULL is <<>>, or 0 for the length of extra
  heap,         \* what has been allocated
  twice         \* something was freed that had not been allocated

vars == <<device, pc, result, buffer, size, config, heap, twice>>

NoConfig == [extra |-> <<>>, interface |-> <<>>]

Init ==
  /\ device \in {[tree |-> t, bNumInterfaces |-> Len(t.interface) + n] : t \in Trees, n \in Declared}
  /\ pc = "idle" /\ result = "none" /\ buffer = <<>> /\ size = 0
  /\ config = NoConfig /\ heap = {} /\ twice = FALSE

At(l) == pc = l
I == Len(config.interface)                      \* the interface, setting and endpoint that are read
Settings == config.interface[I].altsetting
J == Len(Settings)
Setting == Settings[J]
K == Len(Setting.endpoint)

-----------------------------------------------------------------------------
\* descriptor.c 72-76: clear_endpoint
ClearEndpoint(e, i, j, k) == IF e.extra # <<>> THEN {<<"endpointExtra", i, j, k>>} ELSE {}

\* descriptor.c 163-175: clear_interface
ClearSetting(s, i, j) ==
  (IF s.extra # <<>> THEN {<<"extra", i, j>>} ELSE {}) \cup
  (IF s.allocated THEN {<<"endpoint", i, j>>} \cup UNION {ClearEndpoint(s.endpoint[k], i, j, k) : k \in DOMAIN s.endpoint} ELSE {})

\* descriptor.c 158-181: clear_interface
ClearInterface(f, i) ==
  IF f.altsetting = <<>> THEN {}
  ELSE {<<"altsetting", i>>} \cup UNION {ClearSetting(f.altsetting[j], i, j) : j \in DOMAIN f.altsetting}

\* descriptor.c 317-328: clear_configuration
ClearConfiguration ==
  {<<"interface">>} \cup UNION {ClearInterface(config.interface[i], i) : i \in DOMAIN config.interface}
  \cup (IF config.extra # <<>> THEN {<<"extra">>} ELSE {})

Frees(set) == heap' = heap \ set /\ twice' = (twice \/ ~(set \subseteq heap))
Allocates(set) == heap' = heap \cup set /\ UNCHANGED twice

\* An error below parse_interface: the interface is cleared, and forgotten.
\* descriptor.c 312-315: parse_interface
FailInterface(r) ==
  /\ result' = r /\ pc' = "clear" /\ Frees(ClearInterface(config.interface[I], I))
  /\ config' = [config EXCEPT !.interface[I].altsetting = <<>>]
  /\ UNCHANGED <<device, buffer, size>>

\* descriptor.c 419-422: parse_configuration
FailConfiguration ==
  /\ At("clear") /\ pc' = "end" /\ Frees(ClearConfiguration \cup {<<"config">>, <<"buffer">>})
  /\ config' = NoConfig /\ UNCHANGED <<device, result, buffer, size>>

-----------------------------------------------------------------------------
\* The backend may fail, and memory run out, before anything is parsed.
\* descriptor.c 469-499: libusb_get_active_config_descriptor
GetActive ==
  /\ At("idle")
  /\ \/ /\ Allocates({<<"config">>, <<"buffer">>}) /\ pc' = "configuration" /\ UNCHANGED result
        /\ buffer' = Flat(device.tree) /\ size' = Bytes(Flat(device.tree))
     \/ pc' = "end" /\ result' \in {"NO_MEM", "IO"} /\ UNCHANGED <<buffer, size, heap, twice>>
  /\ UNCHANGED <<device, config>>

\* A call that ends before it has allocated anything.
Refused(r) == At("idle") /\ pc' = "end" /\ result' = r /\ UNCHANGED <<device, buffer, size, config, heap, twice>>

\* The device has one configuration.
\* descriptor.c 534-586: libusb_get_config_descriptor
GetIndexed(config_index) == IF config_index >= 1 THEN Refused("NOT_FOUND") ELSE GetActive

\* Its value is 1; each is asked for in turn, which may fail.
\* descriptor.c 593-644: libusb_get_config_descriptor_by_value
GetByValue(bConfigurationValue) ==
  IF bConfigurationValue = 1 THEN GetIndexed(0) \/ Refused("IO") ELSE Refused("NOT_FOUND") \/ Refused("IO")

\* descriptor.c 330-360: parse_configuration
Configuration ==
  /\ At("configuration")
  /\ \/ /\ device.bNumInterfaces <= USB_MAXINTERFACES /\ Allocates({<<"interface">>}) /\ pc' = "skip"
        /\ buffer' = Tail(buffer) /\ size' = size - Head(buffer).bLength /\ UNCHANGED result
     \/ /\ result' = IF device.bNumInterfaces > USB_MAXINTERFACES THEN "IO" ELSE "NO_MEM"
        /\ pc' = "end" /\ Frees({<<"config">>, <<"buffer">>}) /\ UNCHANGED <<buffer, size>>
  /\ UNCHANGED <<device, config>>

\* How many descriptors are passed over, from the first on.
\* descriptor.c 115-134: parse_endpoint
Passed ==
  LET stops == {n \in DOMAIN buffer : buffer[n].type # "class" \/ buffer[n].bLength < 2}
  IN IF stops = {} THEN Len(buffer) ELSE Min(stops) - 1

Rest == SubSeq(buffer, Passed + 1, Len(buffer))
Broken == Rest # <<>> /\ Head(Rest).type = "class"
Extra == [n \in 1 .. Passed |-> buffer[n].bLength]

\* a mutated form: what was passed over is taken off twice
PassTwice == buffer' = Rest /\ size' = size - 2 * Bytes(SubSeq(buffer, 1, Passed))
\* a mutated form: only the place is moved
PassForgets == buffer' = Rest /\ size' = size
\* descriptor.c 241-243: parse_interface
Pass == buffer' = Rest /\ size' = size - Bytes(SubSeq(buffer, 1, Passed))

\* What lies between two interfaces is kept once, for the configuration.
\* descriptor.c 362-407: parse_configuration
SkipConfiguration ==
  /\ At("skip") /\ I < device.bNumInterfaces
  /\ LET keeps == Passed > 0 /\ config.extra = <<>> IN
     IF Broken THEN pc' = "clear" /\ result' = "IO" /\ UNCHANGED <<buffer, size, config, heap, twice>>
     ELSE \/ /\ Pass /\ pc' = "setting" /\ UNCHANGED result
             /\ config' = [config EXCEPT !.interface = Append(@, [altsetting |-> <<>>]), !.extra = IF keeps THEN Extra ELSE @]
             /\ Allocates(IF keeps THEN {<<"extra">>} ELSE {})
          \/ keeps /\ pc' = "clear" /\ result' = "NO_MEM" /\ UNCHANGED <<buffer, size, config, heap, twice>>
  /\ UNCHANGED device

\* descriptor.c 183-220: parse_interface
ReadSetting ==
  /\ At("setting")
  /\ \/ size < 9 /\ pc' = "skip" /\ UNCHANGED <<result, buffer, size, config, heap, twice>>
     \/ /\ size >= 9 /\ Allocates({<<"altsetting", I>>}) /\ pc' = "settingExtra" /\ UNCHANGED result
        /\ buffer' = Tail(buffer) /\ size' = size - Head(buffer).bLength
        /\ config' = [config EXCEPT !.interface[I].altsetting = Append(@,
                        [extra |-> <<>>, bNumEndpoints |-> Head(buffer).bNumEndpoints, allocated |-> FALSE, endpoint |-> <<>>])]
     \/ size >= 9 /\ FailInterface("NO_MEM")
  /\ UNCHANGED device

\* descriptor.c 222-281: parse_interface
SkipSetting ==
  /\ At("settingExtra")
  /\ LET n == Setting.bNumEndpoints
         new == (IF Passed > 0 THEN {<<"extra", I, J>>} ELSE {}) \cup (IF n > 0 THEN {<<"endpoint", I, J>>} ELSE {})
         fits == ~Broken /\ n <= USB_MAXENDPOINTS
     IN \/ /\ fits /\ Pass /\ Allocates(new) /\ pc' = "endpoint" /\ UNCHANGED result
           /\ config' = [config EXCEPT !.interface[I].altsetting[J].extra = Extra, !.interface[I].altsetting[J].allocated = n > 0]
        \/ ~fits /\ FailInterface("IO")
        \/ new # {} /\ FailInterface("NO_MEM")
  /\ UNCHANGED device

NoEndpoint == [address |-> 0, audio |-> FALSE, extra |-> <<>>]

\* An endpoint that is not there is left as it is, all zero.
\* descriptor.c 78-112: parse_endpoint
ReadEndpoint ==
  /\ At("endpoint") /\ K < Setting.bNumEndpoints
  /\ LET e == [address |-> Head(buffer).address, audio |-> Head(buffer).bLength >= 9, extra |-> <<>>] IN
     \/ /\ Head(buffer).bLength <= size /\ Head(buffer).type # "endpoint"
        /\ config' = [config EXCEPT !.interface[I].altsetting[J].endpoint = Append(@, NoEndpoint)]
        /\ UNCHANGED <<pc, result, buffer, size, heap, twice>>
     \/ /\ Head(buffer).bLength <= size /\ Head(buffer).type = "endpoint" /\ pc' = "endpointExtra"
        /\ buffer' = Tail(buffer) /\ size' = size - Head(buffer).bLength
        /\ config' = [config EXCEPT !.interface[I].altsetting[J].endpoint = Append(@, e)]
        /\ UNCHANGED <<result, heap, twice>>
     \/ Head(buffer).bLength > size /\ FailInterface("IO")
  /\ UNCHANGED device

\* descriptor.c 136-155: parse_endpoint
SkipEndpoint ==
  /\ At("endpointExtra")
  /\ \/ /\ ~Broken /\ Pass /\ pc' = "endpoint" /\ UNCHANGED result
        /\ Allocates(IF Passed > 0 THEN {<<"endpointExtra", I, J, K>>} ELSE {})
        /\ config' = [config EXCEPT !.interface[I].altsetting[J].endpoint[K].extra = Extra]
     \/ Broken /\ FailInterface("IO")
     \/ Passed > 0 /\ FailInterface("NO_MEM")
  /\ UNCHANGED device

\* descriptor.c 304-308: parse_interface
AlternateFollows == size >= 9 /\ Head(buffer).type = "interface" /\ Head(buffer).bAlternateSetting # 0

\* descriptor.c 283-309: parse_interface
SettingEnds ==
  /\ At("endpoint") /\ K = Setting.bNumEndpoints
  /\ pc' = (IF AlternateFollows THEN "setting" ELSE "skip")
  /\ UNCHANGED <<device, result, buffer, size, config, heap, twice>>

\* descriptor.c 500-516: libusb_get_active_config_descriptor
Got ==
  /\ At("skip") /\ I = device.bNumInterfaces /\ pc' = "have" /\ result' = "SUCCESS" /\ Frees({<<"buffer">>})
  /\ UNCHANGED <<device, buffer, size, config>>

-----------------------------------------------------------------------------
\* The first endpoint with that address, whichever setting it is of.
\* core.c 683-706: find_endpoint
Positions(address) ==
  {<<i, j, k>> \in (1 .. I) \X (1 .. 4) \X (1 .. 4) :
     /\ j \in DOMAIN config.interface[i].altsetting
     /\ k \in DOMAIN config.interface[i].altsetting[j].endpoint
     /\ config.interface[i].altsetting[j].endpoint[k].address = address}

\* The configuration stays allocated if there is no such endpoint.
\* core.c 724-802: libusb_get_max_packet_size
MaxPacketSize ==
  /\ At("have") /\ pc' = "end" /\ UNCHANGED <<device, buffer, size>>
  /\ \E a \in Endpoints :
       IF Positions(a) = {} THEN result' = "NO_ENDPOINT" /\ UNCHANGED <<heap, twice, config>>
       ELSE result' = "SUCCESS" /\ Frees(ClearConfiguration \cup {<<"config">>}) /\ config' = NoConfig

\* descriptor.c 654-662: libusb_free_config_descriptor
Free ==
  /\ At("have") /\ pc' = "end" /\ Frees(ClearConfiguration \cup {<<"config">>}) /\ config' = NoConfig
  /\ UNCHANGED <<device, result, buffer, size>>

Next ==
  \/ GetActive \/ (\E n \in 0 .. 1 : GetIndexed(n)) \/ (\E v \in 1 .. 2 : GetByValue(v))
  \/ Configuration \/ SkipConfiguration \/ ReadSetting \/ SkipSetting \/ ReadEndpoint \/ SkipEndpoint
  \/ SettingEnds \/ Got \/ FailConfiguration \/ MaxPacketSize \/ Free

Spec == Init /\ [][Next]_vars

-----------------------------------------------------------------------------
TypeOK ==
  /\ pc \in {"idle", "configuration", "skip", "setting", "settingExtra", "endpoint", "endpointExtra", "clear", "have", "end"}
  /\ result \in {"none", "SUCCESS", "NO_MEM", "IO", "NOT_FOUND", "NO_ENDPOINT"} /\ size \in Nat /\ twice \in BOOLEAN
  /\ \A d \in Range(buffer) : d.type \in {"config", "class", "interface", "endpoint"} /\ d.bLength \in Nat
  /\ Len(config.extra) \in Nat /\ Len(config.interface) \in Nat

\* What a setting, and the whole device, must be read as.
ReadAs(s) ==
  [extra |-> s.extra, bNumEndpoints |-> Len(s.endpoint) + s.missing, allocated |-> Len(s.endpoint) + s.missing > 0,
   endpoint |-> s.endpoint \o [m \in 1 .. s.missing |-> NoEndpoint]]

Sound(s) ==
  /\ Len(s.endpoint) + s.missing <= USB_MAXENDPOINTS
  /\ \A n \in Range(s.extra) : n >= 2
  /\ \A e \in Range(s.endpoint), n \in 1 .. 2 : n \in DOMAIN e.extra => e.extra[n] >= 2

\* A configuration that is returned is the one of the device: every setting
\* belongs to its interface, every class descriptor to what it follows, and
\* none of what was read is broken (parse_configuration, parse_interface,
\* parse_endpoint).
TreeRead ==
  At("have") =>
    /\ Len(config.interface) = device.bNumInterfaces /\ device.bNumInterfaces <= USB_MAXINTERFACES
    /\ config.extra = (IF device.bNumInterfaces > 0 THEN device.tree.extra ELSE <<>>)
    /\ \A i \in DOMAIN config.interface :
         config.interface[i].altsetting =
           IF i \in DOMAIN device.tree.interface
           THEN [j \in DOMAIN device.tree.interface[i] |-> ReadAs(device.tree.interface[i][j])] ELSE <<>>
    /\ \A i \in DOMAIN config.interface \cap DOMAIN device.tree.interface : \A s \in Range(device.tree.interface[i]) : Sound(s)

\* The parser keeps where it is and how much is left in two variables, in
\* three functions: they agree, and an interface or an endpoint is read only
\* where there is something to read.
SizeHonest ==
  /\ pc \notin {"clear", "end"} => size = Bytes(buffer)
  /\ At("setting") /\ size >= 9 => Head(buffer).type = "interface"
  /\ At("endpoint") /\ K < Setting.bNumEndpoints => buffer # <<>>

\* Whatever fails, all that was allocated is freed, and what is returned can
\* be freed whole - but for libusb_get_max_packet_size of an endpoint that is
\* not there (see README).
HeapExact ==
  /\ At("have") => heap = ClearConfiguration \cup {<<"config">>}
  /\ At("end") /\ result # "NO_ENDPOINT" => heap = {}

\* Nothing is freed twice: parse_interface and parse_configuration both clear
\* the interface that failed (clear_interface).
NeverTwice == ~twice

\* A configuration is read as the device has it or not at all, and its memory
\* is given back, once.
ParsedExact == TypeOK /\ TreeRead /\ SizeHonest /\ HeapExact /\ NeverTwice
=============================================================================
