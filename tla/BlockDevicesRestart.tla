------------------------ MODULE BlockDevicesRestart -------------------------
(***************************************************************************)
(* BlockDevices with init restarting ueventd after a crash.  /dev is a     *)
(* tmpfs that outlives the process, so nodes, links and COLDBOOT_DONE      *)
(* survive; platform_names and the netlink socket, with the uevents still  *)
(* queued on it, do not.  device_init then skips coldboot when             *)
(* COLDBOOT_DONE exists, and walks /sys from the start when it does not.   *)
(***************************************************************************)
EXTENDS BlockDevices

CONSTANT MaxRestarts   \* bound on the number of restarts

VARIABLE restarts      \* restarts so far

(* init restarts ueventd: device_init opens a new socket, and runs the     *)
(* walk again only if COLDBOOT_DONE is absent.                             *)
Restart ==
  /\ restarts < MaxRestarts
  /\ restarts' = restarts + 1
  /\ socket' = <<>>
  /\ platformNames' = <<>>
  /\ walkPos' = IF inColdboot THEN 1 ELSE walkPos
  /\ draining' = FALSE
  /\ UNCHANGED <<present, hotplugs, nodes, links, inColdboot>>

NextWithRestart == (Next /\ UNCHANGED restarts) \/ Restart

SpecWithRestart ==
  /\ Init /\ restarts = 0
  /\ [][NextWithRestart]_<<vars, restarts>>
  /\ WF_vars(HandleUevent) /\ WF_vars(ColdbootStep) /\ WF_vars(ColdbootDone)

=============================================================================
