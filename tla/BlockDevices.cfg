\* Nodes and links of an eMMC disk below a platform device and of a SATA
\* disk below a PCI controller, with hotplug during and after coldboot.
CONSTANTS
  soc = soc
  soc2 = soc2
  mmc0 = mmc0
  mmc0p1 = mmc0p1
  sda = sda
  sda1 = sda1
  sdb1 = sdb1
  pci0 = pci0
  virt = virt
  nmSystem = nmSystem
  NoName = NoName
  Platform = {soc}
  Block = {mmc0, mmc0p1, sda, sda1}
  PciController = {pci0}
  Virtual = virt
  Parent <- MCParentOf
  PartName <- MCPartNameOf
  PartNum <- MCPartNumOf
  InitiallyPresent = {soc, mmc0, mmc0p1, sda}
  LabelMissing = {}
  MaxHotplug = 3
SPECIFICATION Spec
INVARIANTS
  TypeOK
  NodesMirrorKernel
  LinksOfPresentDevices
\* ueventd blocks in poll() once the kernel has nothing more to send.
CHECK_DEADLOCK FALSE
