\* Node permissions and sysfs fixups for a fixed link set per device.
CONSTANTS
  sDev = sDev
  sTtyGlob = sTtyGlob
  pTty = pTty
  pBlk = pBlk
  lnkA = lnkA
  lnkB = lnkB
  sSysDevices = sSysDevices
  sDevices = sDevices
  sSysBlk = sSysBlk
  upTty = upTty
  upBlk = upBlk
  upUsb = upUsb
  upDsp = upDsp
  pUsb = pUsb
  pDsp = pDsp
  usb = usb
  dsp = dsp
  aEnable = aEnable
  aLong = aLong
  tty = tty
  blk = blk
  NoAttr = NoAttr
  Str <- MCStr
  PrefixOf <- MCPrefixOf
  GlobMatches <- MCGlobMatches
  StrLen <- MCStrLen
  NamePlus4 <- MCNamePlus4
  Attr = {aEnable, aLong}
  Device = {tty, blk, usb, dsp}
  DevPath <- MCDevPath
  UPath <- MCUPath
  LabelMissing = {dsp}
  Configs <- MCConfigs
  LinkSets <- MCLinkSets
SPECIFICATION Spec
INVARIANTS
  TypeOK
  SysPermsApplied
PROPERTY
  ImplementsPermissionSpec
\* ueventd idles in poll() once the kernel has no more uevents; the model
\* lets the same uevents repeat, so it never stops, but stays safe to say.
CHECK_DEADLOCK FALSE
