--------------------------- MODULE DarwinDevices ----------------------------
(***************************************************************************)
(* How os/darwin_usb.c finds and opens devices, by their location; cached  *)
(* is active_config.                                                       *)
(***************************************************************************)
EXTENDS Integers

\* initCount and the context the thread of the run loop was given, which starts
\* with the first context and serves them all.  It is not known any more when two
\* threads were in these functions at once, which no lock prevents, or when there
\* was no port to IOKit, and initCount stays increased without a context.
Adrift == [count |-> -1, runs |-> 0]
\* darwin_usb.c 316-335: darwin_init
DarwinInit(b, c) ==
  IF b = Adrift THEN {[r |-> r, b |-> b] : r \in {"ok", "OTHER"}}
  ELSE {[r |-> "ok", b |-> [count |-> b.count + 1, runs |-> IF b.count = 0 THEN c ELSE b.runs]]} \cup
       (IF b.count = 0 THEN {[r |-> "OTHER", b |-> Adrift]} ELSE {})
\* darwin_usb.c 337-350: darwin_exit
DarwinExit(b) == IF b = Adrift THEN b ELSE [count |-> b.count - 1, runs |-> IF b.count = 1 THEN 0 ELSE b.runs]

\* The descriptor is asked for again when the device is known, and a device
\* that is suspended is woken for it.
\* darwin_usb.c 439-494: darwin_check_configuration
CheckConfiguration(d, conf) == [d EXCEPT !.cached = conf]
\* A device that does not answer, or not as IOKit knows it, is skipped.
\* darwin_usb.c 519-594: process_new_device
Initialize(d, here, conf) ==
  {[r |-> "skip", d |-> d]} \cup (IF here THEN {[r |-> "ok", d |-> CheckConfiguration(d, conf)]} ELSE {})

\* darwin_usb.c 190-213: darwin_get_device
Found(here) == here

\* The first handle of a device object opens the device, unless another
\* object has it; the others use that.
\* darwin_usb.c 642-701: darwin_open
DarwinOpen(d, id, here, opener, fails) ==
  LET first == d.opens = 0
      takes == first /\ opener \in {0, id}
      Refused(r) == [r |-> r, d |-> d, is_open |-> FALSE, opener |-> opener]
  IN CASE first /\ ~Found(here) -> Refused("NO_DEVICE")
       [] first /\ Found(here) /\ fails -> Refused("OTHER")
       [] OTHER -> [r |-> "ok", d |-> [d EXCEPT !.opens = @ + 1], is_open |-> takes, opener |-> IF takes THEN id ELSE opener]

\* darwin_usb.c 703-755: darwin_close
DarwinClose(d, id, is_open, opener) ==
  [d |-> [d EXCEPT !.opens = @ - 1], opener |-> IF d.opens = 1 /\ is_open /\ opener = id THEN 0 ELSE opener]

\* An unconfigured device is configured first, which takes having it open.
\* darwin_usb.c 790-818: darwin_get_interface
HasInterface(conf) == conf # 0
\* darwin_usb.c 863-964: darwin_claim_interface
DarwinClaim(h, d, here, conf, owner, nobody, mayConfigure) ==
  CASE ~here -> [r |-> "NO_DEVICE", conf |-> conf, d |-> d]
    [] here /\ ~HasInterface(conf) /\ ~mayConfigure -> [r |-> "NO_DEVICE", conf |-> conf, d |-> d]
    [] OTHER -> [r |-> IF owner \in {nobody, h} THEN "ok" ELSE "ACCESS", conf |-> 1,
                 d |-> IF HasInterface(conf) THEN d ELSE [d EXCEPT !.cached = 1]]

\* What USBInterfaceClose answers is not returned.
\* darwin_usb.c 966-997: darwin_release_interface
DarwinRelease == "ok"

\* The interfaces go with the configuration: the handle's own are released
\* before and claimed again after it, if it changed; those of others are lost.
\* darwin_usb.c 765-788: darwin_set_configuration
DarwinSetConfiguration(h, d, here, mayConfigure, claimed, owner, nobody, c) ==
  LET released == IF claimed /\ owner = h THEN nobody ELSE owner
  IN {[r |-> "NO_DEVICE", d |-> d, owner |-> released]} \cup
     (IF here /\ mayConfigure
      THEN {[r |-> "ok", d |-> [d EXCEPT !.cached = c], owner |-> o] : o \in IF claimed /\ c # 0 THEN {nobody, h} ELSE {nobody}}
      ELSE {})

\* darwin_usb.c 385-397: darwin_get_active_config_descriptor
ActiveConfig(d) == IF d.cached = 0 THEN [r |-> "INVALID_PARAM", conf |-> 0] ELSE [r |-> "ok", conf |-> d.cached]
=============================================================================
