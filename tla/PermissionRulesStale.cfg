\* A device added twice with a different by-name link keeps stale mode and group.
CONSTANTS
  sDev = sDev
  sTtyGlob = sTtyGlob
  pTty = pTty
  pBlk = pBlk
  lnkA = lnkA
  lnkB = lnkB
  sSysDevices = sSysDevices
  sDevices = sDevices
  sSysBlk = sSysBlk
  upTty = upTty
  upBlk = upBlk
  upUsb = upUsb
  upDsp = upDsp
  pUsb = pUsb
  pDsp = pDsp
  usb = usb
  dsp = dsp
  aEnable = aEnable
  aLong = aLong
  tty = tty
  blk = blk
  NoAttr = NoAttr
  Str <- MCStr
  PrefixOf <- MCPrefixOf
  GlobMatches <- MCGlobMatches
  StrLen <- MCStrLen
  NamePlus4 <- MCNamePlus4
  Attr = {aEnable, aLong}
  Device = {tty, blk, usb, dsp}
  DevPath <- MCDevPath
  UPath <- MCUPath
  LabelMissing = {}
  Configs <- MCConfigs
  LinkSets <- MCLinkSetsMoving
SPECIFICATION Spec
PROPERTY
  ImplementsPermissionSpec
CHECK_DEADLOCK FALSE
