--------------------------- MODULE MCBlockDevices ---------------------------
(* An eMMC disk with a named partition below platform device soc, and a    *)
(* SATA disk with a partition below a PCI controller.                      *)
EXTENDS BlockDevices

CONSTANTS soc, soc2, mmc0, mmc0p1, sda, sda1, sdb1, pci0, virt, nmSystem

MCParent == (soc :> virt) @@ (soc2 :> soc) @@ (mmc0 :> soc) @@ (mmc0p1 :> mmc0)
              @@ (sda :> pci0) @@ (sda1 :> sda) @@ (sdb1 :> pci0)
MCPartName == (mmc0 :> NoName) @@ (mmc0p1 :> nmSystem) @@ (sda :> NoName)
              @@ (sda1 :> NoName) @@ (sdb1 :> NoName)
MCPartNum == (mmc0 :> -1) @@ (mmc0p1 :> 1) @@ (sda :> -1) @@ (sda1 :> 1) @@ (sdb1 :> 1)

(* soc2 is a platform device nested in soc, with the eMMC disk below it. *)
MCNestedParentOf == [d \in Device |-> IF d = mmc0 THEN soc2 ELSE MCParent[d]]

(* The tables restricted to the devices of the run's configuration. *)
MCParentOf   == [d \in Device |-> MCParent[d]]
MCPartNameOf == [b \in Block |-> MCPartName[b]]
MCPartNumOf  == [b \in Block |-> MCPartNum[b]]
=============================================================================
