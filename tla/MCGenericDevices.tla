------------------------- MODULE MCGenericDevices ---------------------------
(***************************************************************************)
(* Character devices, one for each route of handle_generic_device_event:   *)
(*   acm0  tty ttyACM0 of a platform USB controller: /dev/ttyACM0 and the  *)
(*         interface link /dev/usb/tty1-1:1.0                              *)
(*   ev0   input event0: /dev/input/event0                                 *)
(*   logm  misc log_main: /dev/log/main                                    *)
(*   ugen  usb without DEVNAME: /dev/bus/usb/BBB/DDD from its minor        *)
(*   udn   usbmisc with DEVNAME: /dev/<DEVNAME>                            *)
(*   adf0  subsystem with a ueventd.rc entry (devname from DEVNAME)        *)
(*   lng   a name of 65 bytes: dropped                                     *)
(*   uold  usb_device: another usb* subsystem, ignored                     *)
(*   uif   the USB interface 1-1:1.0 of the tty ports: subsystem usb, no   *)
(*         device number, so no node                                       *)
(* A second tty port on the same USB interface (acm1) is used by the       *)
(* interface-link run.                                                     *)
(***************************************************************************)
EXTENDS GenericDevices, TLC

CONSTANTS
  acm0, acm1, ev0, logm, ugen, udn, adf0, lng, uold, uif, \* devices
  nAcm0, nAcm1, nEvent0, nLogMain, nMain, nUsbDev, nUdn,  \* names
  nAdf, nLong, nUold, nUif, dnUdn, dnAdf,
  sUsb1, s11, sIface, sTty, sTty1                        \* path segments

MCSubsystem ==
  (acm0 :> "tty") @@ (acm1 :> "tty") @@ (ev0 :> "input") @@ (logm :> "misc")
  @@ (ugen :> "usb") @@ (udn :> "usbmisc") @@ (adf0 :> "adf") @@ (lng :> "input")
  @@ (uold :> "usb_device") @@ (uif :> "usb")

MCSubsystemPrefix ==
  {<<s, s>> : s \in {"tty", "input", "misc", "usb", "usbmisc", "adf", "usb_device"}}
    \cup {<<"usb", "usbmisc">>, <<"usb", "usb_device">>}

MCOverride == "adf" :> [dirname |-> "/dev/adf", dirLen |-> 8, src |-> "devname"]

MCName ==
  (acm0 :> nAcm0) @@ (acm1 :> nAcm1) @@ (ev0 :> nEvent0) @@ (logm :> nLogMain)
  @@ (ugen :> nUsbDev) @@ (udn :> nUdn) @@ (adf0 :> nAdf) @@ (lng :> nLong)
  @@ (uold :> nUold) @@ (uif :> nUif)

(* The longest accepted name is 64 bytes; lng has 65. *)
MCNameLen ==
  [d \in {acm0, acm1, ev0, logm, ugen, udn, adf0, uold, uif} |-> 7] @@ (lng :> 65)

MCLogStripped == nLogMain :> nMain

MCDevName ==
  [d \in {acm0, acm1, ev0, logm, ugen, lng, uold, uif} |-> "none"] @@ (udn :> dnUdn) @@ (adf0 :> dnAdf)

MCDevNameLen == [d \in {acm0, acm1, ev0, logm, ugen, lng, uold, uif} |-> 0] @@ (udn :> 12) @@ (adf0 :> 4)

(* Every device but the interface has a number; majors as on Linux. *)
MCHasDevnode == {acm0, acm1, ev0, logm, ugen, udn, adf0, lng, uold}

MCMajor ==
  (acm0 :> 166) @@ (acm1 :> 166) @@ (ev0 :> 13) @@ (logm :> 10) @@ (ugen :> 189)
  @@ (udn :> 180) @@ (adf0 :> 250) @@ (lng :> 13) @@ (uold :> 189)

(* The usb device gets its minor when it is attached. *)
MCMinorChoices ==
  [d \in {acm0, acm1, ev0, logm, udn, adf0, lng, uold, uif} |-> {0}]
    @@ (ugen :> {0, 127, 128, 255, 256})

MCHasPlatform == {acm0, acm1, uif}

MCRest ==
  (acm0 :> <<sUsb1, s11, sIface, sTty, nAcm0>>) @@ (acm1 :> <<sUsb1, s11, sIface, sTty1, nAcm1>>)
  @@ (uif :> <<sUsb1, s11, sIface>>)
  @@ [d \in {ev0, logm, ugen, udn, adf0, lng, uold} |-> <<>>]

=============================================================================
