--------------------------- MODULE BlockDevices ----------------------------
(***************************************************************************)
(* Block device nodes and their symlinks under /dev, as ueventd maintains  *)
(* them (init/devices.cpp): the platform device registry (platform_names), *)
(* the derivation of /dev/block/{platform,pci}/<device>/... links, the     *)
(* creation and removal of nodes and links, and the coldboot walk of       *)
(* /sys/devices that replays "add" for devices that existed before ueventd *)
(* opened its uevent socket.                                               *)
(*                                                                         *)
(* The kernel is the environment: it plugs and unplugs devices (a device   *)
(* only below a present parent, and only after its children are gone) and *)
(* queues one uevent per change, or per "add" written to a uevent file, on *)
(* the socket, which ueventd reads in order.  A devpath is abstracted to   *)
(* the device tree: "p is a strict directory prefix of d" is "p is an      *)
(* ancestor of d".                                                         *)
(***************************************************************************)
EXTENDS Integers, Sequences, SequencesExt, FiniteSets

CONSTANTS
  Platform,         \* platform devices (subsystem "platform")
  Block,            \* block devices, disks and partitions (subsystem "block")
  PciController,    \* /devices/pciDDDD:BB/DDDD:BB:SS.F controllers (always present)
  Virtual,          \* the parent of a device outside platform and PCI
  Parent,           \* the parent directory of each device's devpath
  PartName,         \* PARTNAME of a block device, already sanitized, or NoName
  PartNum,          \* PARTN of a block device, or -1
  NoName,
  InitiallyPresent, \* devices that exist when ueventd opens its socket
  LabelMissing,     \* devices for which selabel_lookup_best_match fails
  MaxHotplug        \* bound on plug and unplug steps of the kernel

Device == Platform \cup Block
Top    == PciController \cup {Virtual}

ASSUME Parent \in [Device -> Device \cup Top]
ASSUME \A p \in Platform : Parent[p] \in Platform \cup Top
ASSUME InitiallyPresent \subseteq Device /\ LabelMissing \subseteq Block
ASSUME \A d \in InitiallyPresent : Parent[d] \in Top \cup InitiallyPresent
ASSUME MaxHotplug \in Nat

NoTarget == "none"

(* The strict ancestors of a device in the sysfs tree. *)
RECURSIVE Ancestors(_)
Ancestors(d) ==
  IF Parent[d] \in Top THEN {Parent[d]} ELSE {Parent[d]} \cup Ancestors(Parent[d])

Children(d) == {c \in Device : Parent[c] = d}

(* The order in which do_coldboot visits /sys/devices: depth first, the    *)
(* uevent file of a directory before its subdirectories (readdir order is  *)
(* arbitrary; SetToSeq fixes one).                                         *)
RECURSIVE WalkFrom_PostOrder(_)
(* Mutant: the uevent file is written after the subdirectories.           *)
WalkFrom_PostOrder(d) ==
  LET kids == SetToSeq(Children(d))
  IN  FlattenSeq([i \in 1..Len(kids) |-> WalkFrom_PostOrder(kids[i])]) \o <<d>>

RECURSIVE WalkFrom(_)
WalkFrom(d) ==
  LET kids == SetToSeq(Children(d))
  IN  <<d>> \o FlattenSeq([i \in 1..Len(kids) |-> WalkFrom(kids[i])])

ColdbootOrder ==
  LET roots == SetToSeq({d \in Device : Parent[d] \in Top})
  IN  FlattenSeq([i \in 1..Len(roots) |-> WalkFrom(roots[i])])

LinkBase == [type : {"platform"}, device : Platform]
            \cup [type : {"pci"}, device : PciController]
Link == [base : LinkBase, kind : {"by-name"}, key : {PartName[b] : b \in Block}]
        \cup [base : LinkBase, kind : {"by-num"}, key : {PartNum[b] : b \in Block}]
        \cup [base : LinkBase, kind : {"leaf"}, key : Block]

Uevent == [action : {"add", "remove"}, dev : Device]

VARIABLES
  present,        \* kernel: devices that exist
  socket,         \* kernel: uevents queued on ueventd's netlink socket
  hotplugs,       \* kernel: plug and unplug steps taken
  platformNames,  \* platform_names: Seq of registered platform devices
  nodes,          \* block devices whose node /dev/block/<name> exists
  links,          \* the symlinks that exist, each with the node it names
  walkPos,        \* the next entry of ColdbootOrder do_coldboot visits
  inColdboot,     \* device_init has not finished coldboot
  draining        \* do_coldboot is in the handle_device_fd after a write

vars == <<present, socket, hotplugs, platformNames, nodes, links, walkPos, inColdboot,
         draining>>

-----------------------------------------------------------------------------
(* find_platform_device: the NEWEST registered platform device whose path  *)
(* is a strict directory prefix of the device's path (reverse list scan).  *)
FindPlatformDevice(reg, d) ==
  LET i == SelectLastInSeq(reg, LAMBDA p : p \in Ancestors(d))
  IN  IF i = 0 THEN NoTarget ELSE reg[i]

(* find_pci_device_prefix: the domain/bus and peripheral id of a devpath   *)
(* under /devices/pci..., i.e. its PCI controller.                         *)
FindPciDevicePrefix(d) ==
  IF Ancestors(d) \cap PciController = {} THEN NoTarget
  ELSE CHOOSE c \in Ancestors(d) \cap PciController : TRUE

(* get_block_device_symlinks: the base /dev/block/<type>/<device> from the *)
(* platform registry, else from the PCI prefix, else no links; then        *)
(* by-name/<partname>, by-num/p<partn> and the leaf link.                  *)
GetBlockDeviceSymlinks(reg, d) ==
  LET pdev == FindPlatformDevice(reg, d)
      pci  == FindPciDevicePrefix(d)
      base == IF pdev # NoTarget THEN [type |-> "platform", device |-> pdev]
              ELSE [type |-> "pci", device |-> pci]
  IN  IF pdev = NoTarget /\ pci = NoTarget THEN {}
      ELSE { [base |-> base, kind |-> "leaf", key |-> d] }
           \cup (IF PartName[d] # NoName
                   THEN {[base |-> base, kind |-> "by-name", key |-> PartName[d]]} ELSE {})
           \cup (IF PartNum[d] >= 0
                   THEN {[base |-> base, kind |-> "by-num", key |-> PartNum[d]]} ELSE {})

(* remove_platform_device: drop the newest entry with exactly this path.   *)
RemovePlatformDevice(reg, p) ==
  LET i == SelectLastInSeq(reg, LAMBDA q : q = p)
  IN  IF i = 0 THEN reg ELSE RemoveAt(reg, i)

(* make_device: the node is made unless selabel_lookup_best_match fails;   *)
(* an existing node (EEXIST) stays and is relabelled.                      *)
MakeDevice(d) == IF d \in LabelMissing THEN nodes ELSE nodes \cup {d}

(* Mutant: the remove path forgets to unlink the node.                     *)
HandleDevice_KeepNode(action, d, ls) ==
  IF action = "add"
    THEN /\ nodes' = MakeDevice(d)
         /\ links' = [l \in Link |-> IF l \in ls /\ links[l] = NoTarget
                                       THEN d ELSE links[l]]
    ELSE /\ nodes' = nodes
         /\ links' = [l \in Link |-> IF l \in ls THEN NoTarget ELSE links[l]]

(* handle_device.  On "add": make_device creates the node unless the       *)
(* SELinux label lookup fails (mknod's EEXIST is not an error), and then,  *)
(* whatever make_device did, make_link_init creates each link that does    *)
(* not exist yet.  On "remove": each link is deleted, then the node.       *)
HandleDevice(action, d, ls) ==
  IF action = "add"
    THEN /\ nodes' = MakeDevice(d)
         /\ links' = [l \in Link |-> IF l \in ls /\ links[l] = NoTarget
                                       THEN d ELSE links[l]]
    ELSE /\ nodes' = nodes \ {d}
         /\ links' = [l \in Link |-> IF l \in ls THEN NoTarget ELSE links[l]]

-----------------------------------------------------------------------------
Init ==
  /\ present = InitiallyPresent
  /\ socket = <<>>
  /\ hotplugs = 0
  /\ platformNames = <<>>
  /\ nodes = {}
  /\ links = [l \in Link |-> NoTarget]
  /\ walkPos = 1
  /\ inColdboot = TRUE
  /\ draining = FALSE

(* Kernel: a device appears below a present parent and announces "add".   *)
Plug(d) ==
  /\ hotplugs < MaxHotplug
  /\ d \notin present
  /\ Parent[d] \in Top \cup present
  /\ present' = present \cup {d}
  /\ socket' = Append(socket, [action |-> "add", dev |-> d])
  /\ hotplugs' = hotplugs + 1
  /\ UNCHANGED <<platformNames, nodes, links, walkPos, inColdboot, draining>>

(* Kernel: a device without present children disappears, "remove".       *)
Unplug(d) ==
  /\ hotplugs < MaxHotplug
  /\ d \in present
  /\ Children(d) \cap present = {}
  /\ present' = present \ {d}
  /\ socket' = Append(socket, [action |-> "remove", dev |-> d])
  /\ hotplugs' = hotplugs + 1
  /\ UNCHANGED <<platformNames, nodes, links, walkPos, inColdboot, draining>>

(* do_coldboot at one directory, once the previous handle_device_fd has    *)
(* returned: the uevent file exists only while the device does; if it was  *)
(* opened, "add" is written (the kernel queues the uevent behind any       *)
(* hotplug uevents already on the socket, the write does not wait) and     *)
(* handle_device_fd drains the socket.                                     *)
ColdbootStep ==
  LET d == ColdbootOrder[walkPos]
  IN  /\ inColdboot
      /\ ~draining
      /\ walkPos <= Len(ColdbootOrder)
      /\ socket' = IF d \in present THEN Append(socket, [action |-> "add", dev |-> d])
                   ELSE socket
      /\ draining' = (d \in present)
      /\ walkPos' = walkPos + 1
      /\ UNCHANGED <<present, hotplugs, platformNames, nodes, links, inColdboot>>

(* The end of device_init: the walk is over and COLDBOOT_DONE is created.  *)
ColdbootDone ==
  /\ inColdboot
  /\ ~draining
  /\ walkPos > Len(ColdbootOrder)
  /\ inColdboot' = FALSE
  /\ UNCHANGED <<present, socket, hotplugs, platformNames, nodes, links, walkPos, draining>>

(* handle_platform_device_event: add_platform_device appends the device   *)
(* (duplicates included); remove_platform_device drops the newest match.   *)
AddPlatformDevice(reg, p) == Append(reg, p)

HandlePlatformDeviceEvent(ev) ==
  /\ platformNames' = IF ev.action = "add" THEN AddPlatformDevice(platformNames, ev.dev)
                      ELSE RemovePlatformDevice(platformNames, ev.dev)
  /\ UNCHANGED <<nodes, links>>

(* handle_block_device_event: the node is /dev/block/<name>; the links are *)
(* derived from the registry as it is when the uevent is handled.          *)
HandleBlockDeviceEvent(ev) ==
  /\ HandleDevice(ev.action, ev.dev, GetBlockDeviceSymlinks(platformNames, ev.dev))
  /\ UNCHANGED platformNames

(* Mutant: the platform test is skipped, platform uevents reach the device *)
(* handlers.                                                               *)
HandleDeviceEvent_NoPlatformRoute(ev) ==
  IF ev.dev \in Block \cup Platform THEN HandleBlockDeviceEvent(ev)
  ELSE HandlePlatformDeviceEvent(ev)

(* handle_device_event: route by subsystem.                                *)
HandleDeviceEvent(ev) ==
  IF ev.dev \in Platform THEN HandlePlatformDeviceEvent(ev)
  ELSE HandleBlockDeviceEvent(ev)

(* One iteration of handle_device_fd: the oldest uevent on the socket is   *)
(* parsed and handled.  During device_init the socket is read only by the *)
(* drain after a coldboot write, which returns once recv finds nothing.    *)
HandleUevent ==
  /\ socket # <<>>
  /\ ~inColdboot \/ draining
  /\ draining' = (draining /\ Len(socket) > 1)
  /\ socket' = Tail(socket)
  /\ HandleDeviceEvent(Head(socket))
  /\ UNCHANGED <<present, hotplugs, walkPos, inColdboot>>

Next ==
  \/ \E d \in Device : Plug(d) \/ Unplug(d)
  \/ ColdbootStep
  \/ ColdbootDone
  \/ HandleUevent

Spec == Init /\ [][Next]_vars /\ WF_vars(HandleUevent) /\ WF_vars(ColdbootStep)
                              /\ WF_vars(ColdbootDone)

-----------------------------------------------------------------------------
TypeOK ==
  /\ present \subseteq Device
  /\ socket \in Seq(Uevent)
  /\ hotplugs \in 0..MaxHotplug
  /\ platformNames \in Seq(Platform)
  /\ nodes \subseteq Block
  /\ links \in [Link -> Block \cup {NoTarget}]
  /\ walkPos \in 1..Len(ColdbootOrder) + 1
  /\ inColdboot \in BOOLEAN
  /\ draining \in BOOLEAN

(* The platform device closest to a device in the sysfs tree. *)
NearestPlatform(b) ==
  CHOOSE p \in Ancestors(b) \cap Platform : Children(p) \cap Ancestors(b) \cap Platform = {}

(* ueventd is idle: coldboot is over and every queued uevent is handled.   *)
Idle == ~inColdboot /\ socket = <<>>

(* Whenever ueventd is idle, /dev/block holds a node for exactly the block *)
(* devices the kernel has: coldboot replayed the ones that predate the     *)
(* socket, and no node outlives its device, whatever the interleaving of   *)
(* hotplug with the walk.                                                  *)
NodesMirrorKernel == Idle => nodes = present \cap Block

(* Whenever ueventd is idle, every present block device below a present   *)
(* platform device, or below a PCI controller, has its leaf link           *)
(* /dev/block/<type>/<device>/<name>, pointing at it.                      *)
LinksOfPresentDevices ==
  Idle =>
    \A b \in present \cap Block :
      LET base == IF Ancestors(b) \cap Platform # {}
                    THEN [type |-> "platform", device |-> NearestPlatform(b)]
                    ELSE [type |-> "pci", device |-> FindPciDevicePrefix(b)]
      IN  (Ancestors(b) \cap (Platform \cup PciController) # {})
            => links[[base |-> base, kind |-> "leaf", key |-> b]] = b

(* Spec section 3 (Platform Device Entry): the registry is scanned newest   *)
(* first "so that the longest-matching (most-recent) prefix wins": every   *)
(* platform-typed link of a block device is under the platform device      *)
(* nearest to it.                                                          *)
LinksUnderNearestPlatform ==
  \A l \in Link :
    links[l] # NoTarget /\ l.base.type = "platform"
      => l.base.device = NearestPlatform(links[l])

=============================================================================
