\* Routes, length limits, USB numbering and the interface link of one port.
CONSTANTS
  acm0 = acm0
  acm1 = acm1
  ev0 = ev0
  logm = logm
  ugen = ugen
  udn = udn
  adf0 = adf0
  lng = lng
  uold = uold
  uif = uif
  nAcm0 = nAcm0
  nAcm1 = nAcm1
  nEvent0 = nEvent0
  nLogMain = nLogMain
  nMain = nMain
  nUsbDev = nUsbDev
  nUdn = nUdn
  nAdf = nAdf
  nLong = nLong
  nUold = nUold
  nUif = nUif
  dnUdn = dnUdn
  dnAdf = dnAdf
  sUsb1 = sUsb1
  s11 = s11
  sIface = sIface
  sTty = sTty
  sTty1 = sTty1
  NoDevName = "none"
  Device = {acm0, ev0, logm, ugen, udn, adf0, lng, uold, uif}
  Subsystem <- MCSubsystem
  SubsystemPrefix <- MCSubsystemPrefix
  Override <- MCOverride
  Name <- MCName
  NameLen <- MCNameLen
  LogStripped <- MCLogStripped
  DevName <- MCDevName
  DevNameLen <- MCDevNameLen
  HasDevnode <- MCHasDevnode
  Major <- MCMajor
  MinorChoices <- MCMinorChoices
  HasPlatform <- MCHasPlatform
  Rest <- MCRest
  UsbSegment = {sUsb1}
  MaxHotplug = 3
SPECIFICATION Spec
INVARIANTS
  TypeOK
  NodesMirrorKernel
  UsbNodesNameKernelNumbers
\* ueventd blocks in poll() once the kernel's bounded plugs are handled.
CHECK_DEADLOCK FALSE
