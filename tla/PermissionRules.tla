--------------------------- MODULE PermissionRules --------------------------
(***************************************************************************)
(* The permission rules of ueventd (init/devices.cpp): the two rule lists  *)
(* dev_perms and sys_perms filled by add_dev_perms while the configuration *)
(* is read, the reverse scan of get_device_perm that gives a new device    *)
(* node its owner, group and mode in make_device, and the forward scan of  *)
(* fixup_sys_perms that chowns and chmods the sysfs attributes of a device *)
(* on add, change and online.                                              *)
(*                                                                         *)
(* Paths are model values; string prefix and fnmatch(FNM_PATHNAME) are     *)
(* given as relations, and string lengths as a table, by the MC module.    *)
(***************************************************************************)
EXTENDS Integers, Sequences, FiniteSets

CONSTANTS
  Str,          \* path and name strings
  PrefixOf,     \* <<s, t>> : t starts with s (strncmp(t, s, strlen(s)) = 0)
  GlobMatches,  \* <<p, t>> : fnmatch(p, t, FNM_PATHNAME) = 0
  StrLen,       \* strlen of the device paths and attribute names
  NamePlus4,    \* dp->name + 4 for the sysfs rule names ("/sys" skipped)
  NoAttr,       \* attr == NULL: a rule for device nodes
  Configs,      \* the possible configurations: add_dev_perms calls in order
  Attr,         \* sysfs attribute names
  Device,       \* devices with a node under /dev
  DevPath,      \* /dev path of each device
  UPath,        \* devpath of each device (its /sys path without "/sys")
  LinkSets,     \* for each device, the link sets an add event may carry
  LabelMissing  \* devices whose SELinux label lookup fails

Rule == [name : Str, attr : Attr \cup {NoAttr}, perm : Nat, uid : Nat,
         gid : Nat, prefix : BOOLEAN, wildcard : BOOLEAN]

ASSUME Configs \subseteq Seq(Rule)

Owner == [uid : Nat, gid : Nat, mode : Nat]
OwnerOf(dp) == [uid |-> dp.uid, gid |-> dp.gid, mode |-> dp.perm]
NoNode == [uid |-> -1, gid |-> -1, mode |-> -1]
NoOwner == [uid |-> -1, gid |-> -1, mode |-> -1]     \* attribute not fixed up
DefaultOwner == [uid |-> 0, gid |-> 0, mode |-> 384]  \* root:root 0600
NoChown == [dev |-> "none", uid |-> 0, fresh |-> FALSE]

VARIABLES
  config,     \* the rule lines of the configuration files read at start
  configPos,  \* how many configuration rules have been added
  devPerms,   \* dev_perms: Seq of rules
  sysPerms,   \* sys_perms: Seq of rules
  node,       \* owner, group and mode of each device node, or NoNode
  sysAttr,    \* owner, group and mode of /sys<upath>/<attr>, or NoOwner
  fixed,      \* history: devices whose sysfs attributes were fixed up
  chown       \* the chown make_device still owes a node, or NoChown

vars == <<config, configPos, devPerms, sysPerms, node, sysAttr, fixed, chown>>

-----------------------------------------------------------------------------
(* perm_path_matches: prefix is tested before wildcard. *)
PermPathMatches(path, dp) ==
  IF dp.prefix THEN <<dp.name, path>> \in PrefixOf
  ELSE IF dp.wildcard THEN <<dp.name, path>> \in GlobMatches
  ELSE path = dp.name

RuleHits(path, links, dp) ==
  PermPathMatches(path, dp) \/ \E l \in links : PermPathMatches(l, dp)

(* Mutant: dev_perms scanned in insertion order. *)
RECURSIVE ScanForward(_, _, _)
ScanForward(path, links, i) ==
  IF i > Len(devPerms) THEN DefaultOwner
  ELSE IF RuleHits(path, links, devPerms[i]) THEN OwnerOf(devPerms[i])
  ELSE ScanForward(path, links, i + 1)

GetDevicePerm_Forward(path, links) == ScanForward(path, links, 1)

(* list_for_each_reverse over dev_perms: the first rule, from the newest,  *)
(* that matches the path or one of the links decides; else root:root 0600. *)
RECURSIVE ScanReverse(_, _, _)
ScanReverse(path, links, i) ==
  IF i = 0 THEN DefaultOwner
  ELSE IF RuleHits(path, links, devPerms[i]) THEN OwnerOf(devPerms[i])
  ELSE ScanReverse(path, links, i - 1)

GetDevicePerm(path, links) == ScanReverse(path, links, Len(devPerms))

(* The "continue" tests of fixup_sys_perms, on dp->name + 4. *)
SysMatches(upath, dp) ==
  IF dp.prefix THEN <<NamePlus4[dp.name], upath>> \in PrefixOf
  ELSE IF dp.wildcard THEN <<NamePlus4[dp.name], upath>> \in GlobMatches
  ELSE upath = NamePlus4[dp.name]

(* Mutant: a path that exactly fills buf is taken as too long. *)
Overlong_AtLimit(upath, dp) == StrLen[upath] + StrLen[dp.attr] + 6 >= 512

(* "/sys" upath "/" attr and its NUL would not fit in buf[512]. *)
Overlong(upath, dp) == StrLen[upath] + StrLen[dp.attr] + 6 > 512

(* The loop of fixup_sys_perms from sys_perms[i] on: a matching rule whose *)
(* path would overflow buf ends the loop (break), skipping later rules.   *)
RECURSIVE FixupSysPerms(_, _, _)
FixupSysPerms(sa, d, i) ==
  IF i > Len(sysPerms) THEN sa
  ELSE LET dp == sysPerms[i] IN
       IF ~SysMatches(UPath[d], dp) THEN FixupSysPerms(sa, d, i + 1)
       ELSE IF Overlong(UPath[d], dp) THEN sa
       ELSE FixupSysPerms([sa EXCEPT ![<<d, dp.attr>>] = OwnerOf(dp)], d, i + 1)

(* make_device up to the chown: no node when the label lookup fails.       *)
(* Otherwise mknod, run as root with the egid set to the resolved group,   *)
(* makes the node with that group and mode and owner root; when the node   *)
(* exists mknod fails with EEXIST and the node is left as it is.  The      *)
(* chown of the resolved owner is the next step.                           *)
MakeDevice(d, links) ==
  IF d \in LabelMissing THEN UNCHANGED <<node, chown>>
  ELSE LET o == GetDevicePerm(DevPath[d], links) IN
       /\ node' = IF node[d] = NoNode
                    THEN [node EXCEPT ![d] = [uid |-> 0, gid |-> o.gid, mode |-> o.mode]]
                    ELSE node
       /\ chown' = [dev |-> d, uid |-> o.uid, fresh |-> node[d] = NoNode]

-----------------------------------------------------------------------------
Init ==
  /\ config \in Configs
  /\ configPos = 0
  /\ devPerms = <<>>
  /\ sysPerms = <<>>
  /\ node = [d \in Device |-> NoNode]
  /\ sysAttr = [t \in Device \X Attr |-> NoOwner]
  /\ fixed = {}
  /\ chown = NoChown

(* Mutant: the test of attr is inverted. *)
AddDevPerms_Swapped ==
  /\ configPos < Len(config)
  /\ LET dp == config[configPos + 1] IN
       IF dp.attr = NoAttr
         THEN /\ sysPerms' = Append(sysPerms, dp) /\ UNCHANGED devPerms
         ELSE /\ devPerms' = Append(devPerms, dp) /\ UNCHANGED sysPerms
  /\ configPos' = configPos + 1
  /\ UNCHANGED <<config, node, sysAttr, fixed, chown>>

(* add_dev_perms for the next rule of the configuration: a rule with an    *)
(* attribute goes to the tail of sys_perms, one without to dev_perms.      *)
AddDevPerms ==
  /\ configPos < Len(config)
  /\ LET dp == config[configPos + 1] IN
       IF dp.attr # NoAttr
         THEN /\ sysPerms' = Append(sysPerms, dp) /\ UNCHANGED devPerms
         ELSE /\ devPerms' = Append(devPerms, dp) /\ UNCHANGED sysPerms
  /\ configPos' = configPos + 1
  /\ UNCHANGED <<config, node, sysAttr, fixed, chown>>

(* The permission steps of handle_device_event for one uevent, once the    *)
(* configuration is read: fixup_sys_perms on add, change and online, then  *)
(* handle_device: make_device on add, unlink on remove.                    *)
HandleDeviceEvent(d, action, links) ==
  /\ configPos = Len(config)
  /\ chown = NoChown
  /\ IF action \in {"add", "change", "online"}
       THEN /\ sysAttr' = FixupSysPerms(sysAttr, d, 1)
            /\ fixed' = fixed \cup {d}
       ELSE UNCHANGED <<sysAttr, fixed>>
  /\ CASE action = "add"    -> MakeDevice(d, links)
       [] action = "remove" -> node' = [node EXCEPT ![d] = NoNode] /\ UNCHANGED chown
       [] OTHER             -> UNCHANGED <<node, chown>>
  /\ UNCHANGED <<config, configPos, devPerms, sysPerms>>

(* The end of make_device: chown(path, uid, -1) sets the owner and leaves  *)
(* the group; the egid and the creation label are reset.                   *)
Chown ==
  /\ chown # NoChown
  /\ node' = [node EXCEPT ![chown.dev].uid = chown.uid]
  /\ chown' = NoChown
  /\ UNCHANGED <<config, configPos, devPerms, sysPerms, sysAttr, fixed>>

Next ==
  \/ AddDevPerms
  \/ Chown
  \/ \E d \in Device, action \in {"add", "change", "online", "remove"} :
       \E links \in LinkSets[d] : HandleDeviceEvent(d, action, links)

Spec == Init /\ [][Next]_vars

-----------------------------------------------------------------------------
(* Type invariant: among others, add_dev_perms keeps rules for device      *)
(* nodes (no attribute) in dev_perms and sysfs rules in sys_perms.         *)
TypeOK ==
  /\ config \in Configs
  /\ configPos \in 0..Len(config)
  /\ devPerms \in Seq({dp \in Rule : dp.attr = NoAttr})
  /\ sysPerms \in Seq({dp \in Rule : dp.attr # NoAttr})
  /\ node \in [Device -> Owner \cup {NoNode}]
  /\ sysAttr \in [Device \X Attr -> Owner \cup {NoOwner}]
  /\ fixed \subseteq Device
  /\ chown \in {NoChown} \cup [dev : Device, uid : Nat, fresh : BOOLEAN]

(* The owner sys_perms gives /sys<upath>/<a> by the rule list's meaning:   *)
(* every matching rule for the attribute whose path fits buf applies, in   *)
(* list order, so the last one wins.                                       *)
SysExpected(d, a) ==
  LET hits == {i \in DOMAIN sysPerms :
                 /\ sysPerms[i].attr = a
                 /\ SysMatches(UPath[d], sysPerms[i])
                 /\ 4 + StrLen[UPath[d]] + 1 + StrLen[a] + 1 <= 512}
  IN  IF hits = {} THEN NoOwner
      ELSE OwnerOf(sysPerms[CHOOSE i \in hits : \A j \in hits : j <= i])

(* After an add, change or online uevent of a device, each of its sysfs    *)
(* attributes carries the owner and mode of the last matching sys_perms    *)
(* rule that applies to it: fixup_sys_perms must neither skip a rule nor   *)
(* apply one whose path does not fit, whatever other rules precede it.     *)
SysPermsApplied ==
  \A d \in fixed, a \in Attr : sysAttr[<<d, a>>] = SysExpected(d, a)

(* The device nodes implement PermissionSpec: each node's owner, group and *)
(* mode are those of the newest dev_perms rule matching its path or a      *)
(* link, including when a node is added again (coldboot replay of a device *)
(* that hotplug already added).                                            *)
Abs == INSTANCE PermissionSpec
         WITH rules <- devPerms,
              node <- [d \in Device |->
                         IF chown.dev = d /\ chown.fresh THEN NoNode ELSE node[d]],
              DevRule <- UNION {{c[i] : i \in DOMAIN c} : c \in Configs},
              Matches <- PermPathMatches

ImplementsPermissionSpec == Abs!Spec

=============================================================================
