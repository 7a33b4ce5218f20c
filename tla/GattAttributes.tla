--------------------------- MODULE GattAttributes ---------------------------
(***************************************************************************)
(* What the component calls the attributes of a GATT database: the handle  *)
(* that is none, and the purposes of a read (ble_client_hid.h).            *)
(***************************************************************************)

NoHandle == 0      \* the code's handle value for "none"

\* The purposes of a read whose value process_read_value_ checks the length of.
CheckedPurposes ==
  {"APPEARANCE", "PREFERRED_CONNECTION_PARAMETERS", "BATTERY_LEVEL", "PNP_ID",
   "HID_INFORMATION", "HID_REPORT_MAP", "HID_PROTOCOL_MODE",
   "HID_REPORT_REFERENCE", "HID_EXTERNAL_REPORT_REFERENCE"}

Purposes == CheckedPurposes \cup
  {"GENERIC_STANDARD", "GENERIC_FORENSIC", "DEVICE_NAME", "MANUFACTURER",
   "SERIAL_NUMBER", "HID_REPORT_VALUE"}
=============================================================================
