----------------------- MODULE MCBlockDevicesRestart ------------------------
(* The devices of MCBlockDevices, with one restart of ueventd. *)
EXTENDS BlockDevicesRestart, MCBlockDevices
=============================================================================
