--------------------------- MODULE GenericDevices ---------------------------
(***************************************************************************)
(* Character devices in ueventd (init/devices.cpp): the uevents that       *)
(* handle_device_event routes to handle_generic_device_event.  The handler *)
(* picks the /dev path (an override from ueventd.rc, USB bus numbering, a  *)
(* directory per subsystem prefix, or /dev), drops names over 64 bytes and *)
(* paths over 95, derives the /dev/usb/<subsystem><interface> link of a    *)
(* device under a platform USB controller, and makes or removes the node   *)
(* and the link through handle_device.                                     *)
(*                                                                         *)
(* The socket carries the kernel's messages as sequences of KEY=VALUE     *)
(* records <<key, value>>, numbers as decimal digit sequences; parse_event *)
(* turns one into a uevent record.                                         *)
(*                                                                         *)
(* A /dev path is a pair <<directory, leaf>>; leaves are model values or,  *)
(* for /dev/bus/usb, the two %03d-formatted numbers as digit sequences.    *)
(* The devpath after the platform device is a sequence of segments.        *)
(***************************************************************************)
EXTENDS Integers, SequencesExt

CONSTANTS
  Device,           \* character devices the kernel may add
  Subsystem,        \* SUBSYSTEM= of each device (a string)
  SubsystemPrefix,  \* <<lit, s>> : strncmp(s, lit, strlen(lit)) = 0
  Override,         \* ueventd.rc subsystem entries: [dirname, dirLen, src]
  Name,             \* the devpath's last segment, and its length
  NameLen,
  LogStripped,      \* name + 4 for the names that start with "log_"
  DevName,          \* DEVNAME= of each device, or NoDevName
  DevNameLen,       \* strlen of each DEVNAME
  NoDevName,
  HasDevnode,       \* devices with a device number (MAJOR=, MINOR=)
  Major,            \* the major number of each of them
  MinorChoices,     \* the minors the kernel may give each device
  HasPlatform,      \* devices for which find_platform_device succeeds
  Rest,             \* segments of the devpath after the platform device
  UsbSegment,       \* segments that start with "usb"
  MaxHotplug        \* bound on plug and unplug steps of the kernel

Drop == <<"none", "none">>

VARIABLES
  present,   \* kernel: devices that exist
  plugs,     \* kernel: plug and unplug steps so far
  kMinor,    \* kernel: the minor of each device while it is present
  socket,    \* messages not yet read: Seq of record sequences
  nodes,     \* device nodes under /dev
  links      \* symlinks: link name -> target /dev path

vars == <<present, plugs, kMinor, socket, nodes, links>>

-----------------------------------------------------------------------------
(* snprintf "%03d": the decimal digits, padded with zeros to three. *)
RECURSIVE Digits(_)
Digits(n) == IF n < 10 THEN <<n>> ELSE Digits(n \div 10) \o <<n % 10>>

Fmt03(n) == [i \in 1..(3 - Len(Digits(n))) |-> 0] \o Digits(n)

DecimalOf(ds) == FoldLeft(LAMBDA acc, x : acc * 10 + x, 0, ds)

(* The message the kernel sends for device d (kobject_uevent): the         *)
(* "action@devpath" header, then ACTION, DEVPATH, SUBSYSTEM, MAJOR, MINOR  *)
(* and DEVNAME when the device has a number, and SEQNUM.                   *)
KernelMsg(action, d, m) ==
  << <<"HEADER", action>>, <<"ACTION", action>>, <<"DEVPATH", d>>,
     <<"SUBSYSTEM", Subsystem[d]>> >>
  \o (IF d \in HasDevnode
        THEN << <<"MAJOR", Digits(Major[d])>>, <<"MINOR", Digits(m)>> >>
        ELSE << >>)
  \o (IF d \in HasDevnode /\ DevName[d] # NoDevName
        THEN << <<"DEVNAME", DevName[d]>> >> ELSE << >>)
  \o << <<"SEQNUM", <<1>> >> >>

(* The fields parse_event sets for each key; MAJOR, MINOR and PARTN go     *)
(* through atoi.                                                           *)
KeyField ==
  ("ACTION" :> "action") @@ ("DEVPATH" :> "path") @@ ("SUBSYSTEM" :> "subsystem")
  @@ ("FIRMWARE" :> "firmware") @@ ("MAJOR" :> "major") @@ ("MINOR" :> "minor")
  @@ ("PARTN" :> "partition_num") @@ ("PARTNAME" :> "partition_name")
  @@ ("DEVNAME" :> "device_name") @@ ("MODALIAS" :> "modalias")

NumericKey == {"MAJOR", "MINOR", "PARTN"}

(* One record: a known key sets its field (the last one wins), others are *)
(* ignored.                                                                *)
ParseRecord(u, r) ==
  IF r[1] \notin DOMAIN KeyField THEN u
  ELSE [u EXCEPT ![KeyField[r[1]]] = IF r[1] \in NumericKey THEN DecimalOf(r[2]) ELSE r[2]]

(* Mutant: the device numbers default to 0 rather than -1. *)
ParseEvent_DefaultZero(msg) ==
  FoldLeft(ParseRecord,
           [action |-> "", path |-> "", subsystem |-> "", firmware |-> "",
            major |-> 0, minor |-> 0, partition_name |-> NoDevName,
            partition_num |-> -1, device_name |-> NoDevName, modalias |-> NoDevName],
           msg)

(* parse_event: the defaults, then the records in order. *)
ParseEvent(msg) ==
  FoldLeft(ParseRecord,
           [action |-> "", path |-> "", subsystem |-> "", firmware |-> "",
            major |-> -1, minor |-> -1, partition_name |-> NoDevName,
            partition_num |-> -1, device_name |-> NoDevName, modalias |-> NoDevName],
           msg)

(* Mutant: the device number starts at 000. *)
UsbLeaf_NoIncrement(minor) == <<Fmt03(minor \div 128 + 1), Fmt03(minor % 128)>>

(* /dev/bus/usb/BBB/DDD from the minor, in groups of 128 from "001". *)
UsbLeaf(minor) == <<Fmt03(minor \div 128 + 1), Fmt03((minor % 128) + 1)>>

(* parse_device_name: a uevent without a device number is not a /dev      *)
(* device; the name after the last '/' of DEVPATH must be at most len.     *)
ParseDeviceName(u, len) == u.major >= 0 /\ u.minor >= 0 /\ NameLen[u.path] <= len

(* assemble_devpath: dirname "/" devname must fit in DEVPATH_LEN (96). *)
AssembleDevpath(dirname, dirLen, leaf, leafLen) ==
  IF dirLen + 1 + leafLen >= 96 THEN Drop ELSE <<dirname, leaf>>

(* The subsystem prefixes with a directory of their own, in test order. *)
BaseTable ==
  << <<"graphics", "/dev/graphics/">>, <<"drm", "/dev/dri/">>,
     <<"oncrpc", "/dev/oncrpc/">>, <<"adsp", "/dev/adsp/">>,
     <<"msm_camera", "/dev/msm_camera/">>, <<"input", "/dev/input/">>,
     <<"mtd", "/dev/mtd/">>, <<"sound", "/dev/snd/">> >>

HasPrefix(u, lit) == <<lit, u.subsystem>> \in SubsystemPrefix

(* The base directory chain of handle_generic_device_event, after the      *)
(* override and usb branches: the first prefix in BaseTable, then misc     *)
(* with a "log_" name (stripped), else /dev/.                              *)
BasePath(u) ==
  LET i == SelectInSeq(BaseTable, LAMBDA e : HasPrefix(u, e[1]))
      name == Name[u.path]
  IN  IF i # 0 THEN <<BaseTable[i][2], name>>
      ELSE IF HasPrefix(u, "misc") /\ name \in DOMAIN LogStripped
        THEN <<"/dev/log/", LogStripped[name]>>
      ELSE <<"/dev/", name>>

(* The /dev path handle_generic_device_event gives uevent u, or Drop when  *)
(* it returns early.  DEVNAME lengths are those of the device's DEVNAME.   *)
DevpathOf(u) ==
  IF ~ParseDeviceName(u, 64) THEN Drop
  ELSE IF u.subsystem \in DOMAIN Override THEN
    LET o == Override[u.subsystem] IN
    CASE o.src = "devname" -> AssembleDevpath(o.dirname, o.dirLen, u.device_name, DevNameLen[u.path])
      [] o.src = "devpath" -> AssembleDevpath(o.dirname, o.dirLen, Name[u.path], NameLen[u.path])
      [] OTHER             -> Drop
  ELSE IF HasPrefix(u, "usb") THEN
    IF u.subsystem \notin {"usb", "usbmisc"} THEN Drop
    ELSE IF u.device_name # NoDevName
      THEN AssembleDevpath("/dev", 4, u.device_name, DevNameLen[u.path])
      ELSE <<"/dev/bus/usb/", UsbLeaf(u.minor)>>
  ELSE BasePath(u)

(* get_character_device_symlinks: for a device of a platform device whose  *)
(* path continues with /usb<hub>/<device>/<interface>/..., the link        *)
(* /dev/usb/<subsystem><interface>.                                        *)
CharacterDeviceSymlinks(u) ==
  IF /\ u.path \in HasPlatform
     /\ Len(Rest[u.path]) >= 4
     /\ Rest[u.path][1] \in UsbSegment
    THEN {<<"/dev/usb/", u.subsystem, Rest[u.path][3]>>}
    ELSE {}

(* Mutant: remove leaves the node in place. *)
HandleDevice_KeepNode(action, dp, ls) ==
  IF action = "add"
    THEN /\ nodes' = nodes \cup {dp}
         /\ links' = [l \in DOMAIN links \cup ls |-> IF l \in DOMAIN links THEN links[l] ELSE dp]
    ELSE /\ nodes' = nodes
         /\ links' = Restrict(links, DOMAIN links \ ls)

(* handle_device for a character device: on add, make_device and           *)
(* make_link_init for each link (an existing link is left as it is); on    *)
(* remove, remove_link for each link and unlink of the node.               *)
HandleDevice(action, dp, ls) ==
  IF action = "add"
    THEN /\ nodes' = nodes \cup {dp}
         /\ links' = [l \in DOMAIN links \cup ls |-> IF l \in DOMAIN links THEN links[l] ELSE dp]
    ELSE /\ nodes' = nodes \ {dp}
         /\ links' = Restrict(links, DOMAIN links \ ls)

(* Mutant: the early returns of the handler are not taken. *)
HandleGenericDeviceEvent_NoReturn(u) ==
  HandleDevice(u.action, DevpathOf(u), CharacterDeviceSymlinks(u))

(* handle_generic_device_event for one uevent. *)
HandleGenericDeviceEvent(u) ==
  LET dp == DevpathOf(u) IN
  IF dp = Drop THEN UNCHANGED <<nodes, links>>
  ELSE HandleDevice(u.action, dp, CharacterDeviceSymlinks(u))

-----------------------------------------------------------------------------
Init ==
  /\ present = {}
  /\ plugs = 0
  /\ kMinor = [d \in Device |-> 0]
  /\ socket = <<>>
  /\ nodes = {}
  /\ links = [l \in {} |-> Drop]

(* Kernel: a device appears with a minor and its "add" uevent is queued. *)
Plug(d, m) ==
  /\ plugs < MaxHotplug
  /\ d \notin present
  /\ present' = present \cup {d}
  /\ kMinor' = [kMinor EXCEPT ![d] = m]
  /\ socket' = Append(socket, KernelMsg("add", d, m))
  /\ plugs' = plugs + 1
  /\ UNCHANGED <<nodes, links>>

(* Kernel: a device goes away and its "remove" uevent is queued. *)
Unplug(d) ==
  /\ plugs < MaxHotplug
  /\ d \in present
  /\ present' = present \ {d}
  /\ socket' = Append(socket, KernelMsg("remove", d, kMinor[d]))
  /\ plugs' = plugs + 1
  /\ UNCHANGED <<kMinor, nodes, links>>

(* handle_device_fd reads the next message and parses it; a character     *)
(* device's uevent goes to handle_generic_device_event.                    *)
HandleUevent ==
  /\ socket # <<>>
  /\ HandleGenericDeviceEvent(ParseEvent(Head(socket)))
  /\ socket' = Tail(socket)
  /\ UNCHANGED <<present, plugs, kMinor>>

Next ==
  \/ \E d \in Device : \/ \E m \in MinorChoices[d] : Plug(d, m)
                       \/ Unplug(d)
  \/ HandleUevent

Spec == Init /\ [][Next]_vars /\ WF_vars(HandleUevent)

-----------------------------------------------------------------------------
(* What the kernel means by the message of device d with minor m. *)
KernelUevent(d, m) ==
  [path |-> d, subsystem |-> Subsystem[d],
   major |-> IF d \in HasDevnode THEN Major[d] ELSE -1,
   minor |-> IF d \in HasDevnode THEN m ELSE -1,
   device_name |-> IF d \in HasDevnode THEN DevName[d] ELSE NoDevName]

ExpectedNode(d, m) == DevpathOf(KernelUevent(d, m))

AnyMsg ==
  UNION {{KernelMsg(a, d, m) : a \in {"add", "remove"}, m \in MinorChoices[d]} : d \in Device}

AnyDevpath == UNION {{ExpectedNode(d, m) : m \in MinorChoices[d]} : d \in Device}

TypeOK ==
  /\ present \subseteq Device
  /\ plugs \in 0..MaxHotplug
  /\ kMinor \in [Device -> Nat]
  /\ \A i \in DOMAIN socket : socket[i] \in AnyMsg
  /\ nodes \subseteq AnyDevpath \ {Drop}
  /\ DOMAIN links \subseteq UNION {CharacterDeviceSymlinks(KernelUevent(d, 0)) : d \in Device}
  /\ \A l \in DOMAIN links : links[l] \in AnyDevpath

Idle == socket = <<>>

(* Once ueventd has read and parsed every message, /dev holds exactly the  *)
(* nodes of the present devices the handler does not drop (none for a      *)
(* device without a number, such as a USB interface), whatever order the   *)
(* kernel added and removed them in.                                       *)
NodesMirrorKernel ==
  Idle => nodes = {ExpectedNode(d, kMinor[d]) : d \in present} \ {Drop}

(* Each /dev/bus/usb/BBB/DDD node, once ueventd is idle, names the bus and *)
(* device numbers of a present device: BBB and DDD are at least three      *)
(* digits, DDD is within 1..128, and (BBB - 1) * 128 + (DDD - 1), the      *)
(* kernel's usb minor, is that device's minor (the minors include the      *)
(* 127/128 and 255/256 group boundaries).                                  *)
UsbNodesNameKernelNumbers ==
  Idle => \A dp \in nodes : dp[1] = "/dev/bus/usb/" =>
    LET bus == DecimalOf(dp[2][1])
        dev == DecimalOf(dp[2][2])
    IN  /\ Len(dp[2][1]) >= 3 /\ Len(dp[2][2]) >= 3
        /\ dev \in 1..128
        /\ \E d \in present : (bus - 1) * 128 + (dev - 1) = kMinor[d]

(* Once ueventd is idle, each present device that has a /dev/usb interface *)
(* link finds that link in /dev.                                           *)
InterfaceLinkKept ==
  Idle => \A d \in present : ExpectedNode(d, kMinor[d]) # Drop =>
            CharacterDeviceSymlinks(KernelUevent(d, kMinor[d])) \subseteq DOMAIN links

=============================================================================
