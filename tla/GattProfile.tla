----------------------------- MODULE GattProfile -----------------------------
(***************************************************************************)
(* The GATT inventory of BLEClientHID and the plans made from it           *)
(* (ble_client_hid.cpp: inventory_gatt_database_, plan_reads_,             *)
(* build_hid_profiles_ and plan_subscriptions_).                           *)
(*                                                                         *)
(* Inventory is one call that asks the Bluetooth stack about one attribute *)
(* after another.  The stack's answers are outside src/: each may be an    *)
(* error, so there is an action per question.  What is planned from the    *)
(* services found is one action per function.  The reads themselves, the   *)
(* Protocol Mode writes and the subscriptions are module Setup's: this     *)
(* module ends with the GattPeer that Setup starts from.                   *)
(*                                                                         *)
(* A service's instance is its offset, and one service is kept for every   *)
(* offset asked: the instance of services_[i] is i - 1.                    *)
(***************************************************************************)
EXTENDS GattPeer, Naturals, FiniteSets, SequencesExt

CONSTANTS
  Databases,           \* what the stack may have discovered
  MaxServices,         \* MAX_SERVICES
  MaxIncludedServices, \* MAX_INCLUDED_SERVICES
  MaxCharacteristics,  \* MAX_CHARACTERISTICS
  MaxDescriptors,      \* MAX_DESCRIPTORS
  MaxReads,            \* MAX_READ_OPERATIONS
  MaxSubscriptions,    \* MAX_SUBSCRIPTIONS
  MaxErrors            \* bound: questions the stack answers with an error

\* The characteristics of each standard service that are read whatever the mode.
StandardReads ==
  [GAP     |-> {"DEVICE_NAME", "APPEARANCE", "PREFERRED_CONNECTION_PARAMETERS"},
   GATT    |-> {"SERVICE_CHANGED", "DATABASE_HASH", "CLIENT_SUPPORTED_FEATURES",
                "SERVER_SUPPORTED_FEATURES"},
   DIS     |-> {"PNP_ID", "MANUFACTURER_NAME", "SERIAL_NUMBER", "OTHER_DIS"},
   BATTERY |-> {"BATTERY_LEVEL"},
   HID     |-> {"HID_INFORMATION", "HID_REPORT_MAP", "HID_PROTOCOL_MODE", "HID_REPORT",
                "BOOT_KEYBOARD_INPUT", "BOOT_KEYBOARD_OUTPUT", "BOOT_MOUSE_INPUT"},
   VENDOR  |-> {}]

ServiceUuids == DOMAIN StandardReads
HidInputs == {"HID_REPORT", "BOOT_KEYBOARD_INPUT", "BOOT_MOUSE_INPUT"}
ReferenceDescriptors == {"REPORT_REFERENCE", "EXTERNAL_REPORT_REFERENCE"}
StandardDescriptors == ReferenceDescriptors \cup {"USER_DESCRIPTION", "PRESENTATION", "AGGREGATE"}
CharacteristicUuids == UNION {StandardReads[s] : s \in ServiceUuids} \cup {"VENDOR"}
DescriptorUuids == StandardDescriptors \cup {"CCCD", "OTHER"}

\* GattDescriptorInfo, GattCharacteristicInfo and GattServiceInfo.  Of the included
\* services only their number is told apart.
Descriptors == [uuid : DescriptorUuids, handle : Handles]
Characteristics ==
  [uuid : CharacteristicUuids, handle : Handles, properties : SUBSET {"READ", "NOTIFY", "INDICATE"},
   descriptors : Seq(Descriptors)]
GattServices == [uuid : ServiceUuids, included : Nat, characteristics : Seq(Characteristics)]

ASSUME DatabaseAssumption ==
  /\ Handles \subseteq Nat \ {NoHandle}
  /\ Databases \subseteq Seq(GattServices)
  /\ 0 .. MaxServices - 1 \subseteq Services

ASSUME LimitAssumption ==
  /\ {MaxServices, MaxIncludedServices, MaxCharacteristics, MaxDescriptors} \subseteq Nat
  /\ {MaxReads, MaxSubscriptions, MaxErrors} \subseteq Nat

VARIABLES
  database,                \* what the stack knows of the peer
  discovery_mode_,
  pc,                      \* the question inventory asks next, or the function that runs next
  services_,
  service, characteristic, \* the ones inventory is at
  included_service_total, characteristic_total, descriptor_total,
  operations_failed_,      \* calls of mark_degraded_: degraded_ is that there was one
  errors,                  \* questions answered with an error so far
  uncounted,               \* one of them was the number of included services
  read_queue_,
  hid_report_handles_, protocol_modes,
  subscription_queue_, battery_handles_, service_changed_handles_

inputs    == <<database, discovery_mode_>>
inventory == <<services_, service, characteristic,
               included_service_total, characteristic_total, descriptor_total>>
answers   == <<errors, uncounted>>
plans     == <<read_queue_, hid_report_handles_, protocol_modes,
               subscription_queue_, battery_handles_, service_changed_handles_>>
vars      == <<inputs, pc, inventory, operations_failed_, answers, plans>>

Inventorying == {"SERVICES", "INCLUDES", "CHARACTERISTICS", "DESCRIPTORS"}

\* Where this module hands over to Setup.
Ends == {"FAILED", "NO_HID", "DONE"}

-----------------------------------------------------------------------------
(* Inventory. *)

MarkDegraded(times) == operations_failed_' = operations_failed_ + times

Error == errors < MaxErrors /\ errors' = errors + 1

\* Mutant of AtLimit: a truncated list is taken for one that fits.
PastLimit(total, limit) == total > limit

\* What inventory tests before it calls a list truncated.
AtLimit(total, limit) == total >= limit

HidServices == {i \in DOMAIN services_ : services_[i].uuid = "HID"}

\* The service, characteristic and descriptor asked for next, if the peer has it.
AskedService == database[Len(services_) + 1]
AskedCharacteristic == AskedService.characteristics[Len(service.characteristics) + 1]
AskedDescriptor == AskedCharacteristic.descriptors[Len(characteristic.descriptors) + 1]

GetService ==
  /\ pc = "SERVICES" /\ Len(services_) < MaxServices /\ Len(services_) < Len(database)
  /\ service' = [AskedService EXCEPT !.included = 0, !.characteristics = <<>>]
  /\ pc' = "INCLUDES"
  /\ UNCHANGED <<inputs, services_, characteristic, included_service_total,
                 characteristic_total, descriptor_total, operations_failed_, answers, plans>>

\* The inventory is given up; loop() marks that.
ServiceError ==
  /\ pc = "SERVICES" /\ Len(services_) < MaxServices
  /\ Error /\ MarkDegraded(1)
  /\ pc' = "FAILED"
  /\ UNCHANGED <<inputs, inventory, uncounted, plans>>

\* No further service, or no room for one.  Without any service the inventory
\* failed, which loop() marks too.
EndInventory ==
  /\ pc = "SERVICES" /\ (Len(services_) = Len(database) \/ Len(services_) >= MaxServices)
  /\ MarkDegraded((IF AtLimit(Len(services_), MaxServices) THEN 1 ELSE 0)
                  + (IF services_ = <<>> THEN 1 ELSE 0))
  /\ pc' = CASE services_ = <<>> -> "FAILED"
             [] services_ # <<>> /\ HidServices = {} -> "NO_HID"
             [] OTHER -> "INVENTORIED"
  /\ UNCHANGED <<inputs, inventory, answers, plans>>

\* A count that fails is taken for none.
CountError ==
  /\ pc = "INCLUDES"
  /\ Error /\ uncounted' = TRUE
  /\ pc' = "CHARACTERISTICS"
  /\ UNCHANGED <<inputs, inventory, operations_failed_, plans>>

\* Mutant of KeptIncludes: the array is as long as the peer says.
AllIncludes(count) == count

\* How many of count included services there is room for.
KeptIncludes(count) ==
  LET remaining == MaxIncludedServices - included_service_total
  IN  IF count > remaining THEN remaining ELSE count

GetIncludes ==
  LET kept == KeptIncludes(AskedService.included)
      over == IF kept < AskedService.included THEN 1 ELSE 0
  IN  /\ pc = "INCLUDES"
      /\ \/ /\ service' = [service EXCEPT !.included = kept]
            /\ included_service_total' = included_service_total + kept
            /\ MarkDegraded(over)
            /\ UNCHANGED errors
         \/ /\ kept # 0
            /\ Error /\ MarkDegraded(over + 1)
            /\ UNCHANGED <<service, included_service_total>>
      /\ pc' = "CHARACTERISTICS"
      /\ UNCHANGED <<inputs, services_, characteristic, characteristic_total, descriptor_total,
                     uncounted, plans>>

GetCharacteristic ==
  /\ pc = "CHARACTERISTICS" /\ characteristic_total < MaxCharacteristics
  /\ Len(service.characteristics) < Len(AskedService.characteristics)
  /\ characteristic' = [AskedCharacteristic EXCEPT !.descriptors = <<>>]
  /\ characteristic_total' = characteristic_total + 1
  /\ pc' = "DESCRIPTORS"
  /\ UNCHANGED <<inputs, services_, service, included_service_total, descriptor_total,
                 operations_failed_, answers, plans>>

\* The characteristics of a service end: there is no further one, no room, or an
\* error instead of the next.
EndService ==
  /\ pc = "CHARACTERISTICS"
  /\ \/ /\ \/ characteristic_total >= MaxCharacteristics
           \/ Len(service.characteristics) = Len(AskedService.characteristics)
        /\ MarkDegraded(IF AtLimit(characteristic_total, MaxCharacteristics) THEN 1 ELSE 0)
        /\ UNCHANGED errors
     \/ /\ characteristic_total < MaxCharacteristics
        /\ Error /\ MarkDegraded(1)
  /\ services_' = Append(services_, service)
  /\ pc' = "SERVICES"
  /\ UNCHANGED <<inputs, service, characteristic, included_service_total, characteristic_total,
                 descriptor_total, uncounted, plans>>

GetDescriptor ==
  /\ pc = "DESCRIPTORS" /\ descriptor_total < MaxDescriptors
  /\ Len(characteristic.descriptors) < Len(AskedCharacteristic.descriptors)
  /\ characteristic' = [characteristic EXCEPT !.descriptors = Append(@, AskedDescriptor)]
  /\ descriptor_total' = descriptor_total + 1
  /\ UNCHANGED <<inputs, pc, services_, service, included_service_total, characteristic_total,
                 operations_failed_, answers, plans>>

EndCharacteristic ==
  /\ pc = "DESCRIPTORS"
  /\ \/ /\ \/ descriptor_total >= MaxDescriptors
           \/ Len(characteristic.descriptors) = Len(AskedCharacteristic.descriptors)
        /\ MarkDegraded(IF AtLimit(descriptor_total, MaxDescriptors) THEN 1 ELSE 0)
        /\ UNCHANGED errors
     \/ /\ descriptor_total < MaxDescriptors
        /\ Error /\ MarkDegraded(1)
  /\ service' = [service EXCEPT !.characteristics = Append(@, characteristic)]
  /\ pc' = "CHARACTERISTICS"
  /\ UNCHANGED <<inputs, services_, characteristic, included_service_total, characteristic_total,
                 descriptor_total, uncounted, plans>>

-----------------------------------------------------------------------------
(* Planning, from the services found. *)

Min2(m, n) == IF m <= n THEN m ELSE n

\* Those of a list of attributes that have one of the UUIDs.
OfUuid(attributes, uuids) ==
  FlattenSeq([k \in DOMAIN attributes |->
                IF attributes[k].uuid \in uuids THEN <<attributes[k]>> ELSE <<>>])

\* What f makes of the characteristics of the services, in their order; f(i, c)
\* is a sequence for characteristic c of services_[i].
OfService(i, f(_, _)) ==
  LET cs == services_[i].characteristics
  IN  FlattenSeq([j \in DOMAIN cs |-> f(i, cs[j])])

OfServices(f(_, _)) == FlattenSeq([i \in DOMAIN services_ |-> OfService(i, f)])

\* The purposes that plan_reads_ gives by name; those of the other standard
\* characteristics follow from the service.
NamedPurpose(uuid) ==
  CASE uuid \in Purposes -> uuid
    [] uuid = "MANUFACTURER_NAME" -> "MANUFACTURER"
    [] OTHER -> "GENERIC_STANDARD"

Purpose(i, c) ==
  LET own == services_[i].uuid
  IN  CASE c.uuid \notin StandardReads[own] -> "GENERIC_FORENSIC"
        [] own = "HID" /\ NamedPurpose(c.uuid) = "GENERIC_STANDARD" -> "HID_REPORT_VALUE"
        [] OTHER -> NamedPurpose(c.uuid)

DescriptorPurpose(d) ==
  CASE d.uuid = "REPORT_REFERENCE" -> "HID_REPORT_REFERENCE"
    [] d.uuid = "EXTERNAL_REPORT_REFERENCE" -> "HID_EXTERNAL_REPORT_REFERENCE"
    [] d.uuid \in StandardDescriptors \ ReferenceDescriptors -> "GENERIC_STANDARD"
    [] OTHER -> "GENERIC_FORENSIC"

\* The GattReadOperation of a handle of c.
ReadOperation(i, c, handle, purpose) ==
  [handle |-> handle, characteristic_handle |-> c.handle, service_instance |-> i - 1,
   purpose |-> purpose, required |-> purpose = "HID_REPORT_MAP"]

\* The reads plan_reads_ calls add_read_ for: the characteristic, if it can be
\* read, and its descriptors.
WantedReads(i, c) ==
  LET forensic    == discovery_mode_ = "FORENSIC"
      descriptors == OfUuid(c.descriptors, IF forensic THEN DescriptorUuids ELSE StandardDescriptors)
  IN  (IF "READ" \in c.properties /\ (Purpose(i, c) # "GENERIC_FORENSIC" \/ forensic)
       THEN <<ReadOperation(i, c, c.handle, Purpose(i, c))>> ELSE <<>>)
      \o [k \in DOMAIN descriptors |->
            ReadOperation(i, c, descriptors[k].handle, DescriptorPurpose(descriptors[k]))]

\* Mutant of AddRead: a characteristic is planned once, with its descriptors.
AddReadOfCharacteristic(plan, read) ==
  LET planned == {r.characteristic_handle : r \in ToSet(plan.queue)}
  IN  IF read.characteristic_handle \in planned THEN plan
      ELSE IF Len(plan.queue) >= MaxReads THEN [plan EXCEPT !.refused = @ + 1]
      ELSE [plan EXCEPT !.queue = Append(@, read)]

\* add_read_; planned_read_handles_ are the handles of the queue.
AddRead(plan, read) ==
  LET planned == {r.handle : r \in ToSet(plan.queue)}
  IN  IF read.handle \in planned THEN plan
      ELSE IF Len(plan.queue) >= MaxReads THEN [plan EXCEPT !.refused = @ + 1]
      ELSE [plan EXCEPT !.queue = Append(@, read)]

NothingPlanned == [queue |-> <<>>, refused |-> 0]

\* All reads that are called for, added one after the other.
ReadPlan ==
  LET reads         == OfServices(WantedReads)
      after[k \in 0 .. Len(reads)] == IF k = 0 THEN NothingPlanned ELSE AddRead(after[k - 1], reads[k])
  IN  after[Len(reads)]

PlanReads ==
  /\ pc = "INVENTORIED"
  /\ read_queue_' = ReadPlan.queue /\ MarkDegraded(ReadPlan.refused)
  /\ pc' = "BUILDING_PROFILE"
  /\ UNCHANGED <<inputs, inventory, answers, hid_report_handles_, protocol_modes,
                 subscription_queue_, battery_handles_, service_changed_handles_>>

\* The last Protocol Mode characteristic of a HID service is the one written.
ProtocolMode(i) ==
  LET modes == OfUuid(services_[i].characteristics, {"HID_PROTOCOL_MODE"})
  IN  IF services_[i].uuid = "HID" /\ modes # <<>> THEN <<Last(modes).handle>> ELSE <<>>

ProtocolModes == FlattenSeq([i \in DOMAIN services_ |-> ProtocolMode(i)])

HidInputsOf(i) ==
  {c \in ToSet(services_[i].characteristics) : services_[i].uuid = "HID" /\ c.uuid \in HidInputs}

HidReportHandles == {c.handle : c \in UNION {HidInputsOf(i) : i \in DOMAIN services_}}

\* build_hid_profiles_, but for what it makes of values that were read.
BuildHidProfiles ==
  /\ pc = "BUILDING_PROFILE"
  /\ hid_report_handles_' = HidReportHandles
  /\ protocol_modes' = ProtocolModes
  /\ pc' = "REGISTERING"
  /\ UNCHANGED <<inputs, inventory, operations_failed_, answers, read_queue_,
                 subscription_queue_, battery_handles_, service_changed_handles_>>

SubscriptionKind(i, c) ==
  CASE services_[i].uuid = "BATTERY" /\ c.uuid = "BATTERY_LEVEL" -> "BATTERY"
    [] services_[i].uuid = "GATT" /\ c.uuid = "SERVICE_CHANGED" -> "SERVICE_CHANGED"
    [] c \in HidInputsOf(i) -> "HID"
    [] OTHER -> "FORENSIC"

\* The first CCCD of a characteristic.
Cccd(c) ==
  LET cccds == OfUuid(c.descriptors, {"CCCD"})
  IN  IF cccds = <<>> THEN NoHandle ELSE Head(cccds).handle

WantedSubscriptions(i, c) ==
  IF /\ c.properties \cap {"NOTIFY", "INDICATE"} # {}
     /\ SubscriptionKind(i, c) # "FORENSIC" \/ discovery_mode_ = "FORENSIC"
  THEN <<[characteristic_handle |-> c.handle, cccd_handle |-> Cccd(c), service_instance |-> i - 1,
          kind |-> SubscriptionKind(i, c), required |-> SubscriptionKind(i, c) = "HID"]>>
  ELSE <<>>

\* Mutant of AddSubscriptions: the limit is reported for every characteristic.
AddSubscriptionsOneByOne(plan, i) ==
  LET wanted == OfService(i, WantedSubscriptions)
      room   == Min2(Len(wanted), MaxSubscriptions - Len(plan.queue))
  IN  [queue   |-> plan.queue \o SubSeq(wanted, 1, room),
       refused |-> plan.refused + Len(wanted) - room]

\* A service's subscriptions are planned up to the limit, which is reported once.
AddSubscriptions(plan, i) ==
  LET wanted == OfService(i, WantedSubscriptions)
      room   == Min2(Len(wanted), MaxSubscriptions - Len(plan.queue))
  IN  [queue   |-> plan.queue \o SubSeq(wanted, 1, room),
       refused |-> plan.refused + (IF room < Len(wanted) THEN 1 ELSE 0)]

HandlesOfKind(queue, kind) ==
  {s.characteristic_handle : s \in {q \in ToSet(queue) : q.kind = kind}}

\* The subscriptions of all services, one service after the other.
SubscriptionPlan ==
  LET after[i \in 0 .. Len(services_)] ==
        IF i = 0 THEN NothingPlanned ELSE AddSubscriptions(after[i - 1], i)
  IN  after[Len(services_)]

PlanSubscriptions ==
  /\ pc = "REGISTERING"
  /\ subscription_queue_' = SubscriptionPlan.queue
  /\ battery_handles_' = HandlesOfKind(SubscriptionPlan.queue, "BATTERY")
  /\ service_changed_handles_' = HandlesOfKind(SubscriptionPlan.queue, "SERVICE_CHANGED")
  /\ MarkDegraded(SubscriptionPlan.refused)
  /\ pc' = "DONE"
  /\ UNCHANGED <<inputs, inventory, answers, read_queue_, hid_report_handles_, protocol_modes>>

-----------------------------------------------------------------------------

NoService == [uuid |-> "VENDOR", included |-> 0, characteristics |-> <<>>]

NoCharacteristic ==
  [uuid |-> "VENDOR", handle |-> NoHandle, properties |-> {}, descriptors |-> <<>>]

Init ==
  /\ database \in Databases /\ discovery_mode_ \in {"STANDARD", "FORENSIC"}
  /\ pc = "SERVICES"
  /\ services_ = <<>> /\ service = NoService
  /\ characteristic = NoCharacteristic
  /\ included_service_total = 0 /\ characteristic_total = 0 /\ descriptor_total = 0
  /\ operations_failed_ = 0 /\ errors = 0 /\ uncounted = FALSE
  /\ read_queue_ = <<>> /\ hid_report_handles_ = {} /\ protocol_modes = <<>>
  /\ subscription_queue_ = <<>> /\ battery_handles_ = {} /\ service_changed_handles_ = {}

Next ==
  \/ GetService \/ ServiceError \/ EndInventory
  \/ CountError \/ GetIncludes
  \/ GetCharacteristic \/ EndService
  \/ GetDescriptor \/ EndCharacteristic
  \/ PlanReads \/ BuildHidProfiles \/ PlanSubscriptions

Spec == Init /\ [][Next]_vars

-----------------------------------------------------------------------------
(* Properties. *)

\* Type correctness, with the limits the arrays of the code are sized by.
TypeOK ==
  /\ database \in Databases /\ discovery_mode_ \in {"STANDARD", "FORENSIC"}
  /\ pc \in Inventorying \cup Ends \cup {"INVENTORIED", "BUILDING_PROFILE", "REGISTERING"}
  /\ services_ \in Seq(GattServices) /\ Len(services_) <= MaxServices
  /\ service \in GattServices /\ characteristic \in Characteristics \cup {NoCharacteristic}
  /\ included_service_total \in 0 .. MaxIncludedServices
  /\ characteristic_total \in 0 .. MaxCharacteristics
  /\ descriptor_total \in 0 .. MaxDescriptors
  /\ operations_failed_ \in Nat /\ errors \in 0 .. MaxErrors /\ uncounted \in BOOLEAN
  /\ read_queue_ \in Seq(ReadOperations) /\ Len(read_queue_) <= MaxReads
  /\ subscription_queue_ \in Seq(Subscriptions) /\ Len(subscription_queue_) <= MaxSubscriptions
  /\ hid_report_handles_ \subseteq Handles /\ protocol_modes \in Seq(Handles)
  /\ battery_handles_ \subseteq Handles /\ service_changed_handles_ \subseteq Handles

\* found is what inventory may keep of what is there: of a characteristic leading
\* descriptors, of a service leading characteristics and some included services.
CharacteristicTruncates(found, there) ==
  /\ found = [there EXCEPT !.descriptors = found.descriptors]
  /\ Len(found.descriptors) <= Len(there.descriptors)
  /\ \A k \in DOMAIN found.descriptors : found.descriptors[k] = there.descriptors[k]

Truncates(found, there) ==
  /\ found.uuid = there.uuid /\ found.included <= there.included
  /\ Len(found.characteristics) <= Len(there.characteristics)
  /\ \A j \in DOMAIN found.characteristics :
       CharacteristicTruncates(found.characteristics[j], there.characteristics[j])

LimitReached ==
  \/ Len(services_) = MaxServices
  \/ included_service_total = MaxIncludedServices
  \/ characteristic_total = MaxCharacteristics
  \/ descriptor_total = MaxDescriptors

\* Inventory never invents or reorders attributes, and what it leaves out it
\* reports: the services found are the database truncated; they are the whole
\* database if nothing was marked degraded, unless the number of included services
\* could not be had, which inventory_gatt_database_ takes for none; and a mark has
\* a cause, an error or a limit reached -- reached, not exceeded: a database that
\* fits exactly is marked.
InventoryIsAccountedFor ==
  /\ Len(services_) <= Len(database)
  /\ \A i \in DOMAIN services_ : Truncates(services_[i], database[i])
  /\ pc \in {"INVENTORIED", "NO_HID"} =>
       /\ operations_failed_ = 0 /\ ~uncounted => services_ = database
       /\ operations_failed_ > 0 => errors > 0 \/ LimitReached

Attributes(c) == {c.handle} \cup {d.handle : d \in ToSet(c.descriptors)}

\* Every characteristic of the peer, with the UUID of its service.
PeerCharacteristics ==
  UNION {{<<database[i].uuid, c>> : c \in ToSet(database[i].characteristics)} : i \in DOMAIN database}

\* Where the peer has an attribute: characteristic j of service i is at <<i, j, 0>>,
\* descriptor k of it at <<i, j, k>>.
Positions ==
  LET of(i, j) == {<<i, j, k>> : k \in 0 .. Len(database[i].characteristics[j].descriptors)}
  IN  UNION {UNION {of(i, j) : j \in DOMAIN database[i].characteristics} : i \in DOMAIN database}

HandleAt(p) ==
  LET c == database[p[1]].characteristics[p[2]]
  IN  IF p[3] = 0 THEN c.handle ELSE c.descriptors[p[3]].handle

\* Handles are what ATT makes them, different for different attributes.
HandlesDiffer == \A p, q \in Positions : HandleAt(p) = HandleAt(q) => p = q

\* A setup that is not degraded by its plans uses all of the peer (README.md,
\* "Standard versus forensic discovery"): every HID input that notifies is
\* subscribed to and routed to the decoders, the reads that decode it (Report Map,
\* Report References) are planned, Battery Level and Service Changed are routed to
\* their handlers, and forensic mode reads every attribute that can be read and
\* subscribes to all there is to subscribe to.
NothingMissedSilently ==
  pc = "DONE" /\ operations_failed_ = 0 =>
    LET read       == {r.handle : r \in ToSet(read_queue_)}
        subscribed == {s.characteristic_handle : s \in ToSet(subscription_queue_)}
    IN  \A p \in PeerCharacteristics :
          LET c == p[2]
              notifies == c.properties \cap {"NOTIFY", "INDICATE"} # {}
          IN  /\ p[1] = "HID" /\ c.uuid \in HidInputs =>
                   /\ c.handle \in hid_report_handles_
                   /\ notifies => c.handle \in subscribed
                   /\ \A d \in ToSet(c.descriptors) : d.uuid = "REPORT_REFERENCE" => d.handle \in read
              /\ p[1] = "HID" /\ c.uuid = "HID_REPORT_MAP" /\ "READ" \in c.properties /\ HandlesDiffer =>
                   \E r \in ToSet(read_queue_) : r.handle = c.handle /\ r.required
              /\ p[1] = "BATTERY" /\ c.uuid = "BATTERY_LEVEL" /\ notifies =>
                   c.handle \in battery_handles_
              /\ p[1] = "GATT" /\ c.uuid = "SERVICE_CHANGED" /\ notifies =>
                   c.handle \in service_changed_handles_
              /\ discovery_mode_ = "FORENSIC" =>
                   /\ notifies => c.handle \in subscribed
                   /\ Attributes(c) \ (IF "READ" \in c.properties THEN {} ELSE {c.handle}) \subseteq read

\* The peer as Setup takes it, but for which references the Report Map defines.
Source(handle, i, kind) ==
  [handle |-> handle, service_instance |-> i - 1, kind |-> kind, defined |-> TRUE]

InputSources ==
  UNION {{Source(c.handle, i, IF c.uuid = "HID_REPORT" THEN "REPORT" ELSE "BOOT") : c \in HidInputsOf(i)} :
           i \in DOMAIN services_}

OtherSources(reads) ==
  {Source(r.characteristic_handle, r.service_instance + 1, "OTHER") :
     r \in {q \in ToSet(reads) : /\ q.purpose = "HID_REPORT_REFERENCE"
                                 /\ \A s \in InputSources : s.handle # q.characteristic_handle}}

Peer ==
  LET reads == OfServices(WantedReads)
  IN  [inventory      |-> CASE pc = "FAILED" -> "FAILED"
                            [] pc # "FAILED" /\ operations_failed_ > 0 -> "PARTIAL"
                            [] OTHER -> "COMPLETE",
       hid_services   |-> {i - 1 : i \in HidServices},
       reads          |-> reads,
       reports        |-> InputSources \cup OtherSources(reads),
       protocol_modes |-> ProtocolModes,
       subscriptions  |-> OfServices(WantedSubscriptions)]

\* The services that have a subscription too many.
OverLimitServices(p) ==
  {p.subscriptions[i].service_instance : i \in (MaxSubscriptions + 1) .. Len(p.subscriptions)}

\* Inventory and planning implement what Setup assumes of them, PeerAssumption: the
\* services found have the form of GattPeer, whatever was left out; the queues are
\* the reads and subscriptions they call for, in that order, cut at the limits, and
\* the operations cut off are marked as often as Setup counts them.  No handle is
\* read twice, even if two services claim it.
PlansFitSetup ==
  [][/\ pc \in Inventorying /\ pc' \notin Inventorying /\ HandlesDiffer =>
          \A p \in {Peer'} : p \in PeerType /\ WellFormed(p)
     /\ pc = "INVENTORIED" =>
          /\ \A j, k \in DOMAIN read_queue_' : read_queue_'[j].handle = read_queue_'[k].handle => j = k
          /\ HandlesDiffer =>
               \A p \in {Peer} :
                 LET kept == Min2(MaxReads, Len(p.reads))
                 IN  /\ read_queue_' = SubSeq(p.reads, 1, kept)
                     /\ operations_failed_' = operations_failed_ + Len(p.reads) - kept
     /\ pc = "REGISTERING" =>
          \A p \in {Peer} :
            /\ subscription_queue_' =
                 SubSeq(p.subscriptions, 1, Min2(MaxSubscriptions, Len(p.subscriptions)))
            /\ operations_failed_' = operations_failed_ + Cardinality(OverLimitServices(p))
            /\ hid_report_handles_ = {r.handle : r \in {q \in p.reports : q.kind # "OTHER"}}
            /\ protocol_modes = p.protocol_modes]_vars
=============================================================================
