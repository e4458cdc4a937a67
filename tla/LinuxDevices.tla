---------------------------- MODULE LinuxDevices ----------------------------
(***************************************************************************)
(* How os/linux_usbfs.c finds and opens devices: what it learns once about *)
(* sysfs, for all contexts of the process, and what each operation then    *)
(* reads.  A kernel has no sysfs ("none"), sysfs without busnum ("bare"),  *)
(* with busnum ("busnum"), or with the descriptors as well ("full").       *)
(***************************************************************************)
EXTENDS Integers

\* Who has an interface: a handle, or one of these.
Nobody == <<"nobody", 0>>
Driver == <<"driver", 0>>

Kernels == {"none", "bare", "busnum", "full"}

\* Neither is known (-1) before the first device is looked at.
\* linux_usbfs.c 96-101: sysfs_can_relate_devices, sysfs_has_descriptors
Statics == [relate : -1 .. 1, descs : -1 .. 1]
Unknown == [relate |-> -1, descs |-> -1]

\* linux_usbfs.c 237-272: op_init
OpInit(st, kernel) == IF kernel = "none" THEN [relate |-> 0, descs |-> 0] ELSE st

\* linux_usbfs.c 1031-1052: op_get_device_list
FirstMode(st) == IF st.relate # 0 THEN "sysfs" ELSE "usbfs"

\* In usbfs the name of an entry says which device it is.
\* linux_usbfs.c 843-879: usbfs_scan_busdir
AfterEntry(mode) == IF mode = "sysfs" THEN "entry" ELSE "look"

\* The attributes are those of the kernel, and gone when the device is.
\* linux_usbfs.c 938-967: sysfs_scan_device
Related(st, kernel, here) ==
  [relate |-> IF here /\ kernel \in {"busnum", "full"} THEN 1 ELSE 0,
   descs |-> IF st.descs # -1 THEN st.descs ELSE IF here /\ kernel = "full" THEN 1 ELSE 0]

\* A device the fallback found has no directory in sysfs.
\* linux_usbfs.c 284-300: __open_sysfs_attr
AttrOpens(d, here) == here /\ d.dir

\* bConfigurationValue, or 0.  Of a copy that may be another's than of the
\* configuration in effect it is not kept which (Unsure).
Configs == 0 .. 2
Unsure == -1

\* The configuration in effect, or 0: by bConfigurationValue.
\* linux_usbfs.c 352-392: sysfs_get_active_config
SysfsConfig(d, here, conf) == IF AttrOpens(d, here) THEN [r |-> "ok", conf |-> conf] ELSE [r |-> "IO", conf |-> 0]
\* A device that fails to answer is taken to be unconfigured.
\* linux_usbfs.c 641-668: usbfs_get_active_config
AskConfig(conf) == {conf, Unsure}

\* The descriptor file of usbfs holds every configuration, in order; what cannot
\* be read, and configuration 0, leaves the copy as it is.
\* linux_usbfs.c 532-638: get_config_descriptor, op_get_config_descriptor, cache_active_config
CacheConfig(d, here, c) ==
  {[r |-> "IO", d |-> d]} \cup (IF here /\ c # 0 THEN {[r |-> "ok", d |-> [d EXCEPT !.cached = c]]} ELSE {})

\* The configuration that initialize_device goes by: where the device can only
\* be read, its first.
\* linux_usbfs.c 702-751: initialize_device
Supposed(st, conf) ==
  CASE st.relate # 0 /\ conf = 0 -> {0}
    [] st.relate # 0 /\ conf # 0 -> {conf, Unsure}
    [] OTHER -> {Unsure} \cup AskConfig(conf)

\* The file of the device may fail to open, or to be read.
\* linux_usbfs.c 670-789: initialize_device
Initialize(st, d, mode, here, conf) ==
  LET new == [d EXCEPT !.dir = (mode = "sysfs")]
      asked == here /\ (st.relate # 0 => SysfsConfig(new, here, conf).r = "ok")
  IN IF st.descs # 0 THEN {[r |-> "ok", d |-> new]}
     ELSE {[r |-> "IO", d |-> new]} \cup
          (IF asked THEN UNION {IF c = 0 THEN {[r |-> "ok", d |-> new]} ELSE CacheConfig(new, here, c) : c \in Supposed(st, conf)}
           ELSE {})

\* linux_usbfs.c 302-326: sysfs_get_device_descriptor
\* linux_usbfs.c 274-336: op_get_device_descriptor
DescriptorReads(st, d, here) == st.descs # 0 => AttrOpens(d, here)

\* linux_usbfs.c 425-528: sysfs_get_active_config_descriptor, op_get_active_config_descriptor
ActiveConfig(st, d, here, conf) == IF st.descs # 0 THEN SysfsConfig(d, here, conf) ELSE [r |-> "ok", conf |-> d.cached]

\* linux_usbfs.c 1054-1078: op_open
OpOpen(here, fails) == CASE ~here -> "NO_DEVICE" [] here /\ fails -> "ACCESS" [] OTHER -> "ok"

\* What the kernel answers, as op_claim_interface translates it; the
\* interface exists while the device is configured.
\* linux_usbfs.c 1136-1153: op_claim_interface
OpClaim(h, here, conf, owner) ==
  CASE ~here -> "NO_DEVICE" [] conf = 0 -> "NOT_FOUND" [] owner \notin {Nobody, h} -> "BUSY" [] OTHER -> "ok"
\* linux_usbfs.c 1155-1168: op_release_interface
OpRelease(here) == IF here THEN "ok" ELSE "NO_DEVICE"

\* The kernel lets go of what was claimed.
\* linux_usbfs.c 1080-1085: op_close
OpClose(h, owner) == IF owner = h THEN Nobody ELSE owner

SetsOnly(st, d, here, claimed, c) ==    \* a mutated form: leaves the copy of the descriptor
  {[r |-> CASE ~here -> "NO_DEVICE" [] here /\ claimed -> "BUSY" [] OTHER -> "ok", d |-> d]}

\* A configuration cannot change while somebody has claimed an interface.  When
\* the copy is not refreshed, and for configuration 0 it is not, the old one stays.
\* linux_usbfs.c 1101-1134: op_set_configuration
OpSetConfiguration(st, d, here, claimed, c) ==
  CASE ~here -> {[r |-> "NO_DEVICE", d |-> d]}
    [] here /\ claimed -> {[r |-> "BUSY", d |-> d]}
    [] OTHER -> {[r |-> "OTHER", d |-> d]} \cup
                (IF st.descs # 0 THEN {[r |-> "ok", d |-> d]}
                 ELSE {[r |-> "ok", d |-> IF i.r = "ok" THEN i.d ELSE [d EXCEPT !.cached = Unsure]] : i \in CacheConfig(d, here, c)})

\* linux_usbfs.c 1253-1279: op_detach_kernel_driver
OpDetach(here, owner) == CASE ~here -> "NO_DEVICE" [] owner # Driver -> "NOT_FOUND" [] OTHER -> "ok"
\* linux_usbfs.c 1281-1311: op_attach_kernel_driver
OpAttach(here, owner) == CASE ~here -> "NO_DEVICE" [] owner # Nobody -> "BUSY" [] OTHER -> "ok"
=============================================================================
