---------------------------- MODULE MCGattProfile ----------------------------
(***************************************************************************)
(* Small GATT databases for GattProfile.                                   *)
(***************************************************************************)
EXTENDS GattProfile

Descriptor(handle, uuid) == [uuid |-> uuid, handle |-> handle]

Characteristic(handle, uuid, properties, descriptors) ==
  [uuid |-> uuid, handle |-> handle, properties |-> properties, descriptors |-> descriptors]

Service(uuid, included, characteristics) ==
  [uuid |-> uuid, included |-> included, characteristics |-> characteristics]

ServiceChanged(h) ==
  Characteristic(h, "SERVICE_CHANGED", {"INDICATE"}, <<Descriptor(h + 1, "CCCD")>>)
ReportMap(h) ==
  Characteristic(h, "HID_REPORT_MAP", {"READ"}, <<Descriptor(h + 1, "EXTERNAL_REPORT_REFERENCE")>>)
InputReport(h) ==
  Characteristic(h, "HID_REPORT", {"READ", "NOTIFY"},
                 <<Descriptor(h + 1, "CCCD"), Descriptor(h + 2, "REPORT_REFERENCE")>>)
Plain(h, uuid, properties) == Characteristic(h, uuid, properties, <<>>)
Battery(h) == Service("BATTERY", 0, <<Plain(h, "BATTERY_LEVEL", {"READ", "NOTIFY"})>>)

\* A remote that fits all limits.
Remote == <<Service("GATT", 1, <<ServiceChanged(1)>>),
            Service("HID", 0, <<InputReport(3), Plain(6, "HID_REPORT_MAP", {"READ"})>>)>>

\* One that fills every list exactly.
ExactRemote == <<Service("GATT", 1, <<ServiceChanged(1)>>),
                 Service("HID", 1, <<ReportMap(3), InputReport(5)>>),
                 Service("GAP", 0, <<Plain(8, "DEVICE_NAME", {"READ"}), Plain(9, "APPEARANCE", {"READ"}),
                                     Plain(10, "VENDOR", {"READ"})>>)>>

\* One that exceeds every limit.
LargeRemote == <<Service("HID", 3, <<InputReport(1), InputReport(4), InputReport(7)>>),
                 Battery(10),
                 Service("DIS", 1, <<Plain(11, "PNP_ID", {"READ"}), Plain(12, "SERIAL_NUMBER", {"READ"}),
                                     Plain(13, "OTHER_DIS", {"READ"})>>),
                 Battery(14)>>

\* Two HID services with more inputs than subscriptions, and two Protocol Modes.
TwoHids == <<Service("HID", 0, <<Plain(1, "BOOT_KEYBOARD_INPUT", {"NOTIFY"}),
                                 Plain(2, "BOOT_MOUSE_INPUT", {"READ", "NOTIFY"}),
                                 Plain(3, "HID_PROTOCOL_MODE", {"READ"})>>),
             Service("HID", 0, <<Plain(4, "HID_PROTOCOL_MODE", {}),
                                 Plain(5, "HID_REPORT", {"NOTIFY"}),
                                 Plain(6, "HID_REPORT", {"INDICATE"})>>)>>

\* A vendor characteristic that notifies, beside a keyboard.
VendorRemote == <<Service("VENDOR", 0, <<Characteristic(1, "VENDOR", {"READ", "NOTIFY"},
                                                        <<Descriptor(2, "OTHER"), Descriptor(3, "USER_DESCRIPTION")>>)>>),
                  Service("HID", 0, <<Plain(4, "BOOT_KEYBOARD_INPUT", {"NOTIFY"})>>)>>

\* Two services that both claim the characteristic of the other.
Overlapping == <<Service("HID", 0, <<InputReport(1)>>), Service("HID", 0, <<InputReport(1)>>)>>

\* A HID service behind as many others as are kept.
LateHid == <<Battery(1), Battery(2), Battery(3), Service("HID", 0, <<InputReport(4)>>)>>

NoHid == <<Service("DIS", 0, <<Plain(1, "PNP_ID", {"READ"}), Plain(2, "MANUFACTURER_NAME", {"READ"})>>)>>

MCHandles   == 1 .. 14
MCServices  == 0 .. 2
MCDatabases == {Remote, ExactRemote, LargeRemote, TwoHids, VendorRemote, Overlapping, LateHid, NoHid, <<>>}
=============================================================================
