------------------------------ MODULE GattPeer ------------------------------
(***************************************************************************)
(* A GATT database in the form the planning functions of BLEClientHID make *)
(* of it.  GattProfile shows that inventory and planning leave any         *)
(* database in this form, and Setup starts from it.                        *)
(***************************************************************************)
EXTENDS GattAttributes, Sequences

CONSTANTS
  Handles,             \* attribute handles, all different from NoHandle
  Services             \* service instances

\* GattReadOperation; required for a Report Map only.
ReadOperations ==
  [handle : Handles, characteristic_handle : Handles, service_instance : Services,
   purpose : Purposes, required : BOOLEAN]

\* SubscriptionInfo, with what plan_subscriptions_ takes the characteristic for.
Subscriptions ==
  [characteristic_handle : Handles, cccd_handle : Handles \cup {NoHandle},
   service_instance : Services,
   kind : {"HID", "BATTERY", "SERVICE_CHANGED", "FORENSIC"}, required : BOOLEAN]

\* A characteristic of a HID service that has a report source: a Report, a boot
\* report, or another characteristic with a Report Reference.  defined: the
\* report its reference names is in the Report Map.
ReportSources ==
  [handle : Handles, service_instance : Services,
   kind : {"REPORT", "BOOT", "OTHER"}, defined : BOOLEAN]

\* A database as inventory leaves it: the reads and subscriptions it calls for,
\* in the order the planning functions visit them, its Protocol Mode handles
\* and its HID services.
PeerType ==
  [inventory     : {"COMPLETE", "PARTIAL", "FAILED"},
   hid_services  : SUBSET Services,
   reads         : Seq(ReadOperations),
   reports       : SUBSET ReportSources,
   protocol_modes: Seq(Handles),
   subscriptions : Seq(Subscriptions)]

\* What plan_reads_, plan_subscriptions_ and build_hid_profiles_ make of any
\* database: a characteristic has one subscription, required exactly if it is a
\* HID input, and a HID input has a report source and is no battery level.
WellFormed(p) ==
  /\ \A i, j \in DOMAIN p.subscriptions :
       p.subscriptions[i].characteristic_handle = p.subscriptions[j].characteristic_handle => i = j
  /\ \A i \in DOMAIN p.subscriptions :
       LET s == p.subscriptions[i] IN
         /\ s.required <=> s.kind = "HID"
         /\ s.required =>
              /\ s.service_instance \in p.hid_services
              /\ \E r \in p.reports : r.handle = s.characteristic_handle /\ r.kind # "OTHER"
              /\ \A k \in DOMAIN p.reads :
                   p.reads[k].purpose = "BATTERY_LEVEL" =>
                     p.reads[k].characteristic_handle # s.characteristic_handle
=============================================================================
