-------------------------- MODULE MCFirmwareLoader --------------------------
(* Two requests for different files; one file is there from the start, the *)
(* other may or may not appear while the system boots.                     *)
EXTENDS FirmwareLoader

CONSTANTS r1, r2, fwA, fwB

MCFwName == (r1 :> fwA) @@ (r2 :> fwB)
=============================================================================
