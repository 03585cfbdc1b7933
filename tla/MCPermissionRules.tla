------------------------- MODULE MCPermissionRules --------------------------
(***************************************************************************)
(* A configuration in the style of ueventd.rc followed by ueventd.<hw>.rc: *)
(*   /dev/*               prefix   0600 root   root                        *)
(*   /dev/ttyS*           glob     0660 system system                      *)
(*   /sys/devices/ enable prefix   0664 system system                      *)
(* and, when the hardware file exists,                                     *)
(*   <by-name link>       exact    0640 system 1001   (the link of mmc0)   *)
(*   /sys<mmc0 devpath> enable     0644 root   1001                        *)
(* Four devices: a serial tty; a block device whose by-name link under     *)
(* /dev/block/platform/<soc> may differ between two adds (see the          *)
(* BlockDevicesNested run); a USB serial device only the /dev/ prefix rule *)
(* matches; and a device without an SELinux label (in the passing run).   *)
(* The block devpath and the attribute name are long enough that "/sys"    *)
(* devpath "/enable" fills buf[512] exactly; for the unlabelled device it  *)
(* overflows buf.                                                          *)
(***************************************************************************)
EXTENDS PermissionRules, TLC

CONSTANTS
  sDev, sTtyGlob, pTty, pBlk, lnkA, lnkB,   \* /dev names and paths
  sSysDevices, sDevices, sSysBlk,           \* sysfs rule names, name + 4
  pUsb, pDsp,                               \* more /dev paths
  upTty, upBlk, upUsb, upDsp,               \* devpaths
  aEnable, aLong,                           \* attributes
  tty, blk, usb, dsp                        \* devices

MCStr == {sDev, sTtyGlob, pTty, pBlk, pUsb, pDsp, lnkA, lnkB, sSysDevices,
          sDevices, sSysBlk, upTty, upBlk, upUsb, upDsp, aEnable, aLong}

MCPrefixOf ==
  {<<s, s>> : s \in MCStr}
    \cup {<<sDev, p>> : p \in {sTtyGlob, pTty, pBlk, pUsb, pDsp, lnkA, lnkB}}
    \cup {<<sDevices, u>> : u \in {upTty, upBlk, upUsb, upDsp}}

MCGlobMatches ==
  {<<s, s>> : s \in MCStr \ {sTtyGlob}} \cup {<<sTtyGlob, pTty>>}

MCStrLen == (upTty :> 30) @@ (upBlk :> 400) @@ (upUsb :> 60) @@ (upDsp :> 420)
              @@ (aEnable :> 106) @@ (aLong :> 200)

MCNamePlus4 == (sSysDevices :> sDevices) @@ (sSysBlk :> upBlk)

DevRuleOf(name, perm, uid, gid, prefix, wildcard) ==
  [name |-> name, attr |-> NoAttr, perm |-> perm, uid |-> uid, gid |-> gid,
   prefix |-> prefix, wildcard |-> wildcard]

SysRuleOf(name, attr, perm, uid, gid, prefix) ==
  [name |-> name, attr |-> attr, perm |-> perm, uid |-> uid, gid |-> gid,
   prefix |-> prefix, wildcard |-> FALSE]

(* ueventd.rc *)
MCBaseRules ==
  << DevRuleOf(sDev, 384, 0, 0, TRUE, FALSE),
     DevRuleOf(sTtyGlob, 432, 1000, 1000, FALSE, TRUE),
     SysRuleOf(sSysDevices, aEnable, 436, 1000, 1000, TRUE) >>

(* ueventd.<hardware>.rc *)
MCHardwareRules ==
  << DevRuleOf(lnkA, 416, 1000, 1001, FALSE, FALSE),
     SysRuleOf(sSysBlk, aEnable, 420, 0, 1001, FALSE) >>

MCConfigs == {MCBaseRules, MCBaseRules \o MCHardwareRules}

(* The prefix rule of ueventd.rc names an attribute whose /sys path        *)
(* overflows buf for the block device; the exact rule after it fits.       *)
MCConfigsLong ==
  {[MCBaseRules EXCEPT ![3].attr = aLong] \o MCHardwareRules}

MCDevPath == (tty :> pTty) @@ (blk :> pBlk) @@ (usb :> pUsb) @@ (dsp :> pDsp)
MCUPath == (tty :> upTty) @@ (blk :> upBlk) @@ (usb :> upUsb) @@ (dsp :> upDsp)

MCLinkSets == (tty :> {{}}) @@ (blk :> {{lnkA}}) @@ (usb :> {{}}) @@ (dsp :> {{}})

(* The by-name link of the block device under one of two platform parents. *)
MCLinkSetsMoving == (tty :> {{}}) @@ (blk :> {{lnkA}, {lnkB}}) @@ (usb :> {{}}) @@ (dsp :> {{}})

=============================================================================
