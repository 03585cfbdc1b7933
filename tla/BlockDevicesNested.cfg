\* Nested platform devices hotplugged while coldboot replays their parent.
CONSTANTS
  soc = soc
  soc2 = soc2
  mmc0 = mmc0
  mmc0p1 = mmc0p1
  sda = sda
  sda1 = sda1
  sdb1 = sdb1
  pci0 = pci0
  virt = virt
  nmSystem = nmSystem
  NoName = NoName
  Platform = {soc, soc2}
  Block = {mmc0}
  PciController = {pci0}
  Virtual = virt
  Parent <- MCNestedParentOf
  PartName <- MCPartNameOf
  PartNum <- MCPartNumOf
  InitiallyPresent = {soc}
  LabelMissing = {}
  MaxHotplug = 2
SPECIFICATION Spec
INVARIANT
  LinksUnderNearestPlatform
\* ueventd blocks in poll() once the kernel has nothing more to send.
CHECK_DEADLOCK FALSE
