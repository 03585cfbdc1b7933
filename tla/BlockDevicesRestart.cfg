\* The eMMC partition is replugged around a restart of ueventd after coldboot.
CONSTANTS
  soc = soc
  soc2 = soc2
  mmc0 = mmc0
  mmc0p1 = mmc0p1
  sda = sda
  sda1 = sda1
  sdb1 = sdb1
  pci0 = pci0
  virt = virt
  nmSystem = nmSystem
  NoName = NoName
  Platform = {soc}
  Block = {mmc0, mmc0p1, sda, sda1}
  PciController = {pci0}
  Virtual = virt
  Parent <- MCParentOf
  PartName <- MCPartNameOf
  PartNum <- MCPartNumOf
  InitiallyPresent = {soc, mmc0, mmc0p1, sda}
  LabelMissing = {}
  MaxRestarts = 1
  MaxHotplug = 3
SPECIFICATION SpecWithRestart
INVARIANT
  LinksOfPresentDevices
\* ueventd blocks in poll() once the kernel has nothing more to send.
CHECK_DEADLOCK FALSE
