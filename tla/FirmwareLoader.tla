-------------------------- MODULE FirmwareLoader ---------------------------
(***************************************************************************)
(* The firmware sub-protocol of ueventd (init/devices.cpp), run by the     *)
(* firmware child (handle_device_fd(true)): for each "add" uevent of       *)
(* subsystem firmware it opens /sys<path>/loading and data, searches the   *)
(* firmware directories, and streams the file, writing "1" before and "0"  *)
(* or "-1" after the transfer to loading.  While /dev/.booting exists a    *)
(* miss is retried every 100 ms.  The child handles uevents one at a time, *)
(* so one request waiting for its file holds up those queued behind it.    *)
(*                                                                         *)
(* The environment: the kernel queues firmware requests, the partitions    *)
(* holding the firmware directories are mounted (a file becomes            *)
(* available), and init removes /dev/.booting.  fstat, read and write      *)
(* failures are nondeterministic outcomes of a transfer.                   *)
(***************************************************************************)
EXTENDS Integers, Sequences, FiniteSets, TLC

CONSTANTS
  Request,            \* firmware requests of the kernel (one uevent each)
  FwName,             \* FIRMWARE= of each request
  InitiallyAvailable  \* firmware files that can be opened from the start

FirmwareFile == {FwName[r] : r \in Request}

ASSUME DOMAIN FwName = Request
ASSUME InitiallyAvailable \subseteq FirmwareFile

NoRequest == "none"

(* The values ueventd writes to a loading file. *)
Start == "1"
Done  == "0"
Abort == "-1"

VARIABLES
  requested,   \* kernel: requests made so far
  socket,      \* the child's uevent socket: Seq of requests
  cur,         \* the request process_firmware_event is working on
  stage,       \* "idle", "search" (the loop over firmware_dirs) or "sleep"
  booting,     \* /dev/.booting exists
  seenBooting, \* the local `booting` of process_firmware_event
  available,   \* firmware files that can be opened now
  loading,     \* for each request, the values written to its loading file
  finished     \* history: requests process_firmware_event has returned from

vars == <<requested, socket, cur, stage, booting, seenBooting, available, loading, finished>>

-----------------------------------------------------------------------------
(* load_firmware with its outcome: fstat fails before anything is written; *)
(* otherwise "1" is written and, after the copy loop, "0" unless a read or *)
(* a write failed, in which case "-1".                                     *)
Outcome == {"fstat_fails", "copied", "io_fails"}

(* Mutant: the abort is written with length 1, so the kernel reads "-".   *)
LoadFirmware_ShortAbort(outcome) ==
  CASE outcome = "fstat_fails" -> <<>>
    [] outcome = "copied"      -> <<Start, Done>>
    [] outcome = "io_fails"    -> <<Start, "-">>

LoadFirmware(outcome) ==
  CASE outcome = "fstat_fails" -> <<>>
    [] outcome = "copied"      -> <<Start, Done>>
    [] outcome = "io_fails"    -> <<Start, Abort>>

(* The end of process_firmware_event: the fds are closed, the child goes   *)
(* back to handle_device_fd.                                               *)
Finish(writes) ==
  /\ loading' = [loading EXCEPT ![cur] = @ \o writes]
  /\ finished' = finished \cup {cur}
  /\ cur' = NoRequest
  /\ stage' = "idle"

-----------------------------------------------------------------------------
Init ==
  /\ requested = {}
  /\ socket = <<>>
  /\ cur = NoRequest
  /\ stage = "idle"
  /\ booting = TRUE
  /\ seenBooting = TRUE
  /\ available = InitiallyAvailable
  /\ loading = [r \in Request |-> <<>>]
  /\ finished = {}

(* Kernel: request_firmware creates the loading/data files and sends an    *)
(* "add" uevent of subsystem firmware.                                     *)
KernelRequest(r) ==
  /\ r \notin requested
  /\ requested' = requested \cup {r}
  /\ socket' = Append(socket, r)
  /\ UNCHANGED <<cur, stage, booting, seenBooting, available, loading, finished>>

(* handle_device_fd reads the next uevent; handle_firmware_event passes it *)
(* to process_firmware_event, which reads is_booting() once and opens the  *)
(* loading and data files.                                                 *)
ProcessFirmwareEvent ==
  /\ stage = "idle"
  /\ socket # <<>>
  /\ cur' = Head(socket)
  /\ socket' = Tail(socket)
  /\ seenBooting' = booting
  /\ stage' = "search"
  /\ UNCHANGED <<requested, booting, available, loading, finished>>

(* Mutant: the "could not open" path also runs after a file was loaded.  *)
TryLoading_AbortAfterLoad ==
  /\ stage = "search"
  /\ IF FwName[cur] \in available
       THEN \E outcome \in Outcome :
              /\ Finish(LoadFirmware(outcome) \o <<Abort>>)
              /\ UNCHANGED seenBooting
       ELSE IF seenBooting
              THEN /\ stage' = "sleep"
                   /\ UNCHANGED <<cur, loading, finished, seenBooting>>
              ELSE /\ Finish(<<Abort>>)
                   /\ UNCHANGED seenBooting
  /\ UNCHANGED <<requested, socket, booting, available>>

(* One pass of try_loading_again over firmware_dirs.  On a hit the file is *)
(* loaded and the request is done.  On a miss while booting (as last read) *)
(* the child sleeps; otherwise it writes "-1" and is done.                 *)
TryLoading ==
  /\ stage = "search"
  /\ IF FwName[cur] \in available
       THEN \E outcome \in Outcome :
              /\ Finish(LoadFirmware(outcome))
              /\ UNCHANGED seenBooting
       ELSE IF seenBooting
              THEN /\ stage' = "sleep"
                   /\ UNCHANGED <<cur, loading, finished, seenBooting>>
              ELSE /\ Finish(<<Abort>>)
                   /\ UNCHANGED seenBooting
  /\ UNCHANGED <<requested, socket, booting, available>>

(* Mutant: after the sleep, the booting flag is not read again.           *)
WakeUp_Stale ==
  /\ stage = "sleep"
  /\ stage' = "search"
  /\ UNCHANGED <<requested, socket, cur, booting, seenBooting, available, loading, finished>>

(* usleep(100000) is over: booting = is_booting(); goto try_loading_again. *)
WakeUp ==
  /\ stage = "sleep"
  /\ seenBooting' = booting
  /\ stage' = "search"
  /\ UNCHANGED <<requested, socket, cur, booting, available, loading, finished>>

(* Environment: a partition with firmware is mounted.                      *)
Mount(f) ==
  /\ f \notin available
  /\ available' = available \cup {f}
  /\ UNCHANGED <<requested, socket, cur, stage, booting, seenBooting, loading, finished>>

(* Environment: init removes /dev/.booting when boot is complete.          *)
BootComplete ==
  /\ booting
  /\ booting' = FALSE
  /\ UNCHANGED <<requested, socket, cur, stage, seenBooting, available, loading, finished>>

Next ==
  \/ \E r \in Request : KernelRequest(r)
  \/ ProcessFirmwareEvent
  \/ TryLoading
  \/ WakeUp
  \/ \E f \in FirmwareFile : Mount(f)
  \/ BootComplete

(* The child runs whenever it has work; init eventually finishes booting.  *)
(* Mounting is not assumed: a firmware file may never appear.              *)
Fairness ==
  /\ WF_vars(ProcessFirmwareEvent)
  /\ WF_vars(TryLoading)
  /\ WF_vars(WakeUp)
  /\ WF_vars(BootComplete)

Spec == Init /\ [][Next]_vars /\ Fairness

-----------------------------------------------------------------------------
(* Type invariant: among others, a loading file only ever receives the     *)
(* kernel's three commands "1", "0" and "-1", written in full.             *)
TypeOK ==
  /\ requested \subseteq Request
  /\ socket \in Seq(Request)
  /\ cur \in Request \cup {NoRequest}
  /\ stage \in {"idle", "search", "sleep"}
  /\ (stage = "idle") <=> (cur = NoRequest)
  /\ booting \in BOOLEAN /\ seenBooting \in BOOLEAN
  /\ available \subseteq FirmwareFile
  /\ loading \in [Request -> Seq({Start, Done, Abort})]
  /\ finished \subseteq Request

(* The loading file of a request sees at most one transfer, and a started  *)
(* transfer ("1") is always closed by exactly one "0" or "-1", whatever    *)
(* read, write or lookup failures and retries happen: the only sequences   *)
(* are nothing, "-1" alone, "1" "0" and "1" "-1".                          *)
LoadingWellFormed ==
  \A r \in Request :
    loading[r] \in {<<>>, <<Abort>>, <<Start, Done>>, <<Start, Abort>>}

(* Every firmware request the kernel makes is eventually taken up and      *)
(* finished by the child, even when its file never appears: the retry loop *)
(* ends once /dev/.booting is gone.                                        *)
EveryRequestFinished ==
  \A r \in Request : (r \in requested) ~> (r \in finished)

=============================================================================
