------------------------------- MODULE MCSetup -------------------------------
(***************************************************************************)
(* Small databases for Setup.  A connection finds any of the databases of  *)
(* its run, so a reconnection may find another one.                        *)
(***************************************************************************)
EXTENDS Setup

Read(handle, characteristic, purpose) ==
  [handle |-> handle, characteristic_handle |-> characteristic, service_instance |-> 1,
   purpose |-> purpose, required |-> purpose = "HID_REPORT_MAP"]

Subscription(characteristic, cccd, kind) ==
  [characteristic_handle |-> characteristic, cccd_handle |-> cccd, service_instance |-> 1,
   kind |-> kind, required |-> kind = "HID"]

Source(handle, kind, defined) ==
  [handle |-> handle, service_instance |-> 1, kind |-> kind, defined |-> defined]

\* A boot keyboard: one read, one subscription.
Keyboard ==
  [inventory      |-> "COMPLETE",
   hid_services   |-> {1},
   reads          |-> <<Read(1, 1, "HID_REPORT_MAP")>>,
   reports        |-> {Source(2, "BOOT", TRUE)},
   protocol_modes |-> <<7>>,
   subscriptions  |-> <<Subscription(2, 4, "HID")>>]

\* The keyboard with a battery subscription before the input, and without
\* Protocol Mode.
BatteryKeyboard ==
  [Keyboard EXCEPT !.subscriptions = <<Subscription(5, 6, "BATTERY"), Subscription(2, 4, "HID")>>]

PlainKeyboard == [Keyboard EXCEPT !.protocol_modes = <<>>]

\* A remote whose inventory is incomplete, with a reference to an undefined
\* report, a Report without a CCCD and one that indicates Service Changed.
Broken ==
  [inventory      |-> "PARTIAL",
   hid_services   |-> {1},
   reads          |-> <<Read(1, 1, "HID_REPORT_MAP"), Read(3, 2, "HID_REPORT_REFERENCE")>>,
   reports        |-> {Source(2, "REPORT", FALSE)},
   protocol_modes |-> <<>>,
   subscriptions  |-> <<Subscription(2, NoHandle, "HID"), Subscription(5, 6, "SERVICE_CHANGED")>>]

\* A remote with more inputs than MaxSubscriptions, more reads than MaxReads, and
\* two Protocol Mode characteristics.
ManyInputs ==
  [Keyboard EXCEPT !.subscriptions = <<Subscription(5, NoHandle, "BATTERY"),
                                       Subscription(6, NoHandle, "FORENSIC"),
                                       Subscription(2, 4, "HID")>>]

ManyReads ==
  [Keyboard EXCEPT !.reads = <<Read(1, 1, "HID_REPORT_MAP"), Read(5, 5, "BATTERY_LEVEL"),
                               Read(8, 8, "GENERIC_STANDARD")>>,
                   !.reports = {}, !.protocol_modes = <<7, 8>>, !.subscriptions = <<>>]

\* A HID service without inputs, and a read that may fail.
Silent ==
  [Keyboard EXCEPT !.reads = <<Read(8, 8, "GENERIC_STANDARD")>>,
                   !.reports = {}, !.protocol_modes = <<>>, !.subscriptions = <<>>]

NoHid ==
  [Keyboard EXCEPT !.hid_services = {}, !.reports = {},
                   !.subscriptions = <<Subscription(5, 6, "BATTERY")>>]

PartialNoHid == [NoHid EXCEPT !.inventory = "PARTIAL"]

Failed == [NoHid EXCEPT !.inventory = "FAILED"]

MCHandles    == 1 .. 8
AllPeers     == {Keyboard, Broken, ManyInputs, ManyReads, Silent, NoHid, PartialNoHid, Failed}
LivePeers    == {Keyboard, NoHid}
JustKeyboard == {Keyboard}
JustPlain    == {PlainKeyboard}
JustBattery  == {BatteryKeyboard}
=============================================================================
