-------------------------------- MODULE Setup --------------------------------
(***************************************************************************)
(* The connection and setup lifecycle of BLEClientHID (ble_client_hid.cpp):*)
(* from CONNECT_EVT through inventory, reads, profile, Protocol Mode       *)
(* writes and subscriptions to READY, DEGRADED or NO_HID.                  *)
(*                                                                         *)
(* ESPHome runs gattc_event_handler and loop() on one thread: a callback   *)
(* and a loop iteration are atomic, and interleave in any order.  loop()'s *)
(* report half (the pending FIFO and the coalescing window) touches none   *)
(* of this state and is module ReportPipeline's; the handling of           *)
(* advertisements is independent of both.                                  *)
(*                                                                         *)
(* The peer is one of Peers: the GATT database that inventory finds, in    *)
(* the form of GattPeer; GattProfile models how the component gets there.  *)
(* It may differ on every connection (Service Changed).                    *)
(*                                                                         *)
(* The Bluetooth stack, the ESPHome client that owns the connection and    *)
(* the peripheral are outside src/: the variables of "stack" below say     *)
(* what they owe the component.  Requests on the ATT bearer are answered   *)
(* in the order they were made, or never.                                  *)
(***************************************************************************)
EXTENDS SubscriptionAttempt, GattPeer, FiniteSets

CONSTANTS
  None,                \* an unset std::unique_ptr; a connection without a peer
  Peers,               \* the databases a connection may find
  Policy,              \* protocol_mode_policy_
  MaxReads,            \* MAX_READ_OPERATIONS
  MaxSubscriptions,    \* MAX_SUBSCRIPTIONS
  PhaseTimeout,        \* PHASE_TIMEOUT_MS
  MaxLoopGap,          \* bound: clock ticks between two iterations of loop()
  MaxForeign           \* bound: registrations by other nodes, per connection

Phases == {"DISCONNECTED", "WAITING_FOR_DISCOVERY", "INVENTORY", "READING",
           "BUILDING_PROFILE", "WRITING_PROTOCOL_MODE", "REGISTERING",
           "WAITING_FOR_CCCD", "READY", "DEGRADED", "NO_HID"}

FinalPhases == {"READY", "DEGRADED", "NO_HID"}

\* The phases handle_phase_timeout_ gives up on.
TimedPhases == Phases \ (FinalPhases \cup {"DISCONNECTED", "WAITING_FOR_DISCOVERY"})

ASSUME PeerAssumption ==
  /\ Handles \subseteq Nat \ {NoHandle}
  /\ IsFiniteSet(Services)
  /\ Peers \subseteq PeerType
  /\ None \notin PeerType /\ None \notin ReadOperations /\ None \notin Subscriptions
  /\ \A p \in Peers : WellFormed(p)

ASSUME ParameterAssumption ==
  /\ Policy \in {"UNCHANGED", "REPORT", "BOOT"}
  /\ MaxReads \in Nat /\ MaxSubscriptions \in Nat
  /\ PhaseTimeout \in Nat \ {0}
  /\ MaxLoopGap \in Nat \ {0} /\ MaxForeign \in Nat
  /\ 2 * (PhaseTimeout + FallbackDelay + MaxLoopGap) < TimeModulus

\* CCCD_FALLBACK_DELAY_MS is 250, PHASE_TIMEOUT_MS 15000.
ASSUME FallbackAssumption == FallbackDelay <= PhaseTimeout

VARIABLES
  \* what loop() and the callbacks keep
  setup_phase_, phase_started_ms_, degraded_, congested_, rediscovery_requested_,
  status_warning,              \* the component's ESPHome warning flag
  operations_succeeded_, operations_failed_,
  read_queue_, active_read_,
  has_report_id_,              \* handle_report_source_: sources with a Report ID
  report_maps_,                \* hid_services_: instances with a parsed Report Map
  hid_report_handles_, battery_handles_, service_changed_handles_,
  protocol_write_handles_,
  subscription_queue_, active_subscription_, subscription_state_,
  \* the stack, the client that owns the connection, the peer, the clock
  now, since_loop,
  link,                        \* "DOWN", "DISCOVERING" or "UP"
  closing,                     \* disconnect() was called on a live connection
  peer,
  att_requests,                \* requests on the bearer, in order, not yet answered
  registrations,               \* handles whose REG_FOR_NOTIFY_EVT is still due
  registered,                  \* handles registered for notifications
  enabled_cccds,               \* CCCD handles the peripheral accepted a write to
  foreign                      \* registrations other nodes made on this connection

phaseVars  == <<setup_phase_, phase_started_ms_>>
statusVars == <<degraded_, status_warning, operations_succeeded_, operations_failed_>>
flowVars   == <<congested_, rediscovery_requested_>>
readVars   == <<read_queue_, active_read_>>
valueVars  == <<has_report_id_, report_maps_>>
routeVars  == <<hid_report_handles_, battery_handles_, service_changed_handles_>>
subVars    == <<subscription_queue_, active_subscription_, subscription_state_>>
clockVars  == <<now, since_loop>>
linkVars   == <<link, closing, peer>>
stackVars  == <<att_requests, registrations, registered, enabled_cccds, foreign>>

vars == <<phaseVars, statusVars, flowVars, readVars, valueVars, routeVars,
          protocol_write_handles_, subVars, clockVars, linkVars, stackVars>>

\* What setup itself decides.
setupVars == <<phaseVars, statusVars, readVars, valueVars, routeVars, subVars>>

Requests == [op : {"READ", "FRAMEWORK_CCCD", "OWN_CCCD"}, handle : Handles]

CharacteristicHandles(p) == {p.subscriptions[i].characteristic_handle : i \in DOMAIN p.subscriptions}

-----------------------------------------------------------------------------
(* Pieces of handlers.  A handler that marks the setup degraded and then    *)
(* changes phase states the tally first: Finalize reads degraded_'.         *)

\* Mutant of Elapsed: the comparison without uint32_t arithmetic.
ElapsedWithoutWrap(start, interval) == now - start >= interval

Elapsed(start, interval) == (now - start) % TimeModulus >= interval

Transition(p) == setup_phase_' = p /\ phase_started_ms_' = now

\* ok operations succeeded, failures were counted, and mark_degraded_ was among
\* the calls that counted them (marked) or degraded_ was set without it (silent).
Tally(ok, failures, marked, silent) ==
  /\ operations_succeeded_' = operations_succeeded_ + ok
  /\ operations_failed_' = operations_failed_ + failures
  /\ degraded_' = (degraded_ \/ marked \/ silent)

KeepWarning(marked) == status_warning' = (status_warning \/ marked)

\* Mutant of TallyFailure: an optional operation that fails is not counted.
TallyRequiredFailure(required) ==
  Tally(0, IF required THEN 1 ELSE 0, required, FALSE) /\ KeepWarning(required)

\* A failed operation: mark_degraded_ if it was required, else only counted.
TallyFailure(required) == Tally(0, 1, required, FALSE) /\ KeepWarning(required)

\* Mutant of Finalize: the outcome does not depend on degraded_.
FinalizeReady(marked) == Transition("READY") /\ status_warning' = FALSE

\* finalize_setup_, called by a handler that may have called mark_degraded_.
Finalize(marked) ==
  /\ Transition(IF degraded_' THEN "DEGRADED" ELSE "READY")
  /\ status_warning' = (degraded_' /\ (status_warning \/ marked))

\* Mutant of DropSubscription: the attempt's state outlives the attempt.
DropSubscriptionOnly == active_subscription_' = None /\ UNCHANGED subscription_state_

DropSubscription ==
  active_subscription_' = None /\ subscription_state_' = ResetAttempt

\* The subscription failed: count it, drop it, go on with the next one.
FailSubscription ==
  /\ TallyFailure(active_subscription_.required)
  /\ DropSubscription
  /\ Transition("REGISTERING")

\* reset_connection_state_.
ResetConnectionState ==
  /\ read_queue_' = <<>> /\ active_read_' = None
  /\ has_report_id_' = {} /\ report_maps_' = {}
  /\ hid_report_handles_' = {} /\ battery_handles_' = {} /\ service_changed_handles_' = {}
  /\ protocol_write_handles_' = <<>>
  /\ subscription_queue_' = <<>> /\ DropSubscription
  /\ congested_' = FALSE /\ rediscovery_requested_' = FALSE
  /\ operations_succeeded_' = 0 /\ operations_failed_' = 0 /\ degraded_' = FALSE

-----------------------------------------------------------------------------
(* Planning: what the component makes of the database. *)

\* plan_reads_, in an iteration that counted failures before: the operations
\* past the limit are each reported and dropped.
PlanReads(failures) ==
  LET kept == IF Len(peer.reads) <= MaxReads THEN Len(peer.reads) ELSE MaxReads
      bad  == failures + Len(peer.reads) - kept
  IN  /\ read_queue_' = SubSeq(peer.reads, 1, kept)
      /\ active_read_' = active_read_
      /\ Tally(0, bad, bad > 0, FALSE) /\ KeepWarning(bad > 0)

\* The subscriptions plan_subscriptions_ keeps, and how often it reports the
\* limit: once for every service that has one too many.
KeptSubscriptions ==
  IF Len(peer.subscriptions) <= MaxSubscriptions THEN peer.subscriptions
  ELSE SubSeq(peer.subscriptions, 1, MaxSubscriptions)

\* Mutant of OverLimitReports: the limit is applied silently.
OverLimitUnreported == 0

OverLimitReports ==
  Cardinality({service \in Services :
                 \E i \in (MaxSubscriptions + 1) .. Len(peer.subscriptions) :
                   peer.subscriptions[i].service_instance = service})

HandlesOfKind(queue, kind) ==
  {queue[i].characteristic_handle : i \in {j \in DOMAIN queue : queue[j].kind = kind}}

\* plan_subscriptions_, after failures protocol mode writes failed just before.
PlanSubscriptions ==
  /\ subscription_queue_' = KeptSubscriptions
  /\ battery_handles_' = battery_handles_ \cup HandlesOfKind(KeptSubscriptions, "BATTERY")
  /\ service_changed_handles_' =
       service_changed_handles_ \cup HandlesOfKind(KeptSubscriptions, "SERVICE_CHANGED")

\* build_hid_profiles_ finds a Report without a reference, or a reference to a
\* report its service's Report Map does not define.
SchemaIncomplete ==
  \E r \in peer.reports :
    \/ r.kind = "REPORT" /\ r.handle \notin has_report_id_
    \/ /\ r.handle \in has_report_id_ /\ r.service_instance \in report_maps_
       /\ ~r.defined

ProtocolModeWrites == IF Policy = "UNCHANGED" THEN <<>> ELSE peer.protocol_modes

-----------------------------------------------------------------------------
(* loop(): the branch of the current phase, then handle_phase_timeout_.     *)
(* Every branch that changes phase restarts the timer, so the timeout can   *)
(* only follow a branch that leaves phase and timer alone.                  *)

\* Mutant of TimedOut: the timeout is due one tick late.
TimedOutLate == setup_phase_ \in TimedPhases /\ Elapsed(phase_started_ms_, PhaseTimeout + 1)

TimedOut == setup_phase_ \in TimedPhases /\ Elapsed(phase_started_ms_, PhaseTimeout)

Request(op, handle) == att_requests' = Append(att_requests, [op |-> op, handle |-> handle])

LoopInventory ==
  /\ setup_phase_ = "INVENTORY"
  /\ LET failed  == peer.inventory = "FAILED"
         partial == peer.inventory = "PARTIAL"
     IN  \/ /\ failed
            /\ Tally(0, 1, TRUE, FALSE) /\ Finalize(TRUE)
            /\ UNCHANGED readVars
         \/ /\ ~failed /\ peer.hid_services = {}
            /\ Tally(0, IF partial THEN 1 ELSE 0, partial, FALSE)
            /\ Transition("NO_HID") /\ status_warning' = TRUE
            /\ UNCHANGED readVars
         \/ /\ ~failed /\ peer.hid_services # {}
            /\ PlanReads(IF partial THEN 1 ELSE 0)
            /\ Transition("READING")
  /\ UNCHANGED <<valueVars, routeVars, protocol_write_handles_, subVars, stackVars>>

\* Mutant of GiveUpReading: the read in flight is still waited for.
GiveUpQueuedReads(failures) ==
  /\ active_read_' = active_read_ /\ read_queue_' = <<>>
  /\ Tally(0, failures + 1, TRUE, FALSE) /\ KeepWarning(TRUE)
  /\ Transition("BUILDING_PROFILE")

\* handle_phase_timeout_ in READING, after issue failures of this iteration.
GiveUpReading(failures) ==
  /\ active_read_' = None /\ read_queue_' = <<>>
  /\ Tally(0, failures + 1, TRUE, FALSE) /\ KeepWarning(TRUE)
  /\ Transition("BUILDING_PROFILE")

LoopReading ==
  /\ setup_phase_ = "READING"
  /\ LET idle == active_read_ = None /\ ~congested_
     IN  \/ /\ idle /\ read_queue_ = <<>>
            /\ Transition("BUILDING_PROFILE")
            /\ UNCHANGED <<statusVars, readVars, att_requests>>
         \/ /\ idle /\ read_queue_ # <<>>
            /\ \E scheduled \in BOOLEAN :
                 /\ IF scheduled THEN Request("READ", Head(read_queue_).handle)
                    ELSE UNCHANGED att_requests
                 /\ IF TimedOut THEN GiveUpReading(IF scheduled THEN 0 ELSE 1)
                    ELSE /\ read_queue_' = Tail(read_queue_)
                         /\ UNCHANGED phaseVars
                         /\ IF scheduled
                            THEN active_read_' = Head(read_queue_) /\ UNCHANGED statusVars
                            ELSE /\ active_read_' = None
                                 /\ TallyFailure(Head(read_queue_).required)
         \/ /\ ~idle /\ TimedOut
            /\ GiveUpReading(0)
            /\ UNCHANGED att_requests
         \/ /\ ~idle /\ ~TimedOut
            /\ UNCHANGED <<phaseVars, statusVars, readVars, att_requests>>
  /\ UNCHANGED <<valueVars, routeVars, protocol_write_handles_, subVars,
                 registrations, registered, enabled_cccds, foreign>>

\* build_hid_profiles_, then start_protocol_mode_write_.  A Protocol Mode write
\* is one without response: the stack owes no answer.
LoopBuilding ==
  /\ setup_phase_ = "BUILDING_PROFILE"
  /\ hid_report_handles_' = {r.handle : r \in {q \in peer.reports : q.kind # "OTHER"}}
  /\ \/ /\ ProtocolModeWrites = <<>>
        /\ protocol_write_handles_' = <<>>
        /\ PlanSubscriptions
        /\ Tally(0, OverLimitReports, OverLimitReports > 0, SchemaIncomplete)
        /\ KeepWarning(OverLimitReports > 0)
        /\ Transition("REGISTERING")
     \/ /\ ProtocolModeWrites # <<>>
        /\ protocol_write_handles_' = Tail(ProtocolModeWrites)
        /\ \E scheduled \in BOOLEAN :
             /\ IF scheduled THEN Tally(1, 0, FALSE, SchemaIncomplete)
                ELSE Tally(0, 1, TRUE, SchemaIncomplete)
             /\ KeepWarning(~scheduled)
        /\ Transition("WRITING_PROTOCOL_MODE")
        /\ UNCHANGED <<subscription_queue_, battery_handles_, service_changed_handles_>>
  /\ UNCHANGED <<readVars, valueVars, active_subscription_, subscription_state_, stackVars>>

LoopWriting ==
  /\ setup_phase_ = "WRITING_PROTOCOL_MODE"
  /\ \/ /\ protocol_write_handles_ = <<>>
        /\ PlanSubscriptions
        /\ Tally(0, OverLimitReports, OverLimitReports > 0, FALSE)
        /\ KeepWarning(OverLimitReports > 0)
        /\ Transition("REGISTERING")
        /\ UNCHANGED protocol_write_handles_
     \/ /\ protocol_write_handles_ # <<>>
        /\ protocol_write_handles_' = Tail(protocol_write_handles_)
        /\ \E scheduled \in BOOLEAN :
             LET ok     == IF scheduled THEN 1 ELSE 0
                 failed == 1 - ok
             IN  IF TimedOut THEN Tally(ok, failed + 1, TRUE, FALSE) /\ Finalize(TRUE)
                 ELSE /\ Tally(ok, failed, ~scheduled, FALSE) /\ KeepWarning(~scheduled)
                      /\ UNCHANGED phaseVars
        /\ UNCHANGED <<subscription_queue_, battery_handles_, service_changed_handles_>>
  /\ UNCHANGED <<readVars, valueVars, hid_report_handles_, active_subscription_,
                 subscription_state_, stackVars>>

\* Mutant of GiveUpSubscribing: the attempt in progress is still waited for.
GiveUpQueuedSubscriptions(failures) ==
  /\ UNCHANGED <<active_subscription_, subscription_state_>> /\ subscription_queue_' = <<>>
  /\ Tally(0, failures + 1, TRUE, FALSE)
  /\ Finalize(TRUE)

\* handle_phase_timeout_ while subscribing, after failures of this iteration.
GiveUpSubscribing(failures) ==
  /\ DropSubscription /\ subscription_queue_' = <<>>
  /\ Tally(0, failures + 1, TRUE, FALSE)
  /\ Finalize(TRUE)

\* start_next_subscription_.
LoopRegistering ==
  /\ setup_phase_ = "REGISTERING"
  /\ LET idle == active_subscription_ = None /\ ~congested_
         next == Head(subscription_queue_)
     IN  \/ /\ idle /\ subscription_queue_ = <<>>
            /\ Tally(0, 0, FALSE, FALSE) /\ Finalize(FALSE)
            /\ UNCHANGED <<subVars, registrations>>
         \/ /\ idle /\ subscription_queue_ # <<>>
            /\ \E scheduled \in BOOLEAN :
                 /\ scheduled => next.cccd_handle # NoHandle
                 /\ registrations' = IF scheduled
                                     THEN Append(registrations, next.characteristic_handle)
                                     ELSE registrations
                 /\ IF TimedOut THEN GiveUpSubscribing(IF scheduled THEN 0 ELSE 1)
                    ELSE /\ subscription_queue_' = Tail(subscription_queue_)
                         /\ UNCHANGED phaseVars
                         /\ IF scheduled
                            THEN /\ active_subscription_' = next
                                 /\ subscription_state_' =
                                      Begin(next.characteristic_handle, next.cccd_handle)
                                 /\ UNCHANGED statusVars
                            ELSE DropSubscription /\ TallyFailure(next.required)
         \/ /\ ~idle /\ TimedOut
            /\ GiveUpSubscribing(0)
            /\ UNCHANGED registrations
         \/ /\ ~idle /\ ~TimedOut
            /\ UNCHANGED <<phaseVars, statusVars, subVars, registrations>>
  /\ UNCHANGED <<readVars, valueVars, routeVars, protocol_write_handles_,
                 att_requests, registered, enabled_cccds, foreign>>

\* write_current_cccd_ when the stack does not take the write.
OwnWriteNotScheduled == FailSubscription /\ UNCHANGED <<subscription_queue_, att_requests>>

LoopWaiting ==
  /\ setup_phase_ = "WAITING_FOR_CCCD"
  /\ LET due == active_subscription_ # None /\ FallbackDue(subscription_state_, now)
     IN  \/ /\ due
            /\ \/ OwnWriteNotScheduled
               \/ /\ Request("OWN_CCCD", active_subscription_.cccd_handle)
                  /\ IF TimedOut THEN GiveUpSubscribing(0)
                     ELSE /\ subscription_state_' = OwnCccdWriteAttempted(subscription_state_)
                          /\ UNCHANGED <<phaseVars, statusVars, subscription_queue_,
                                         active_subscription_>>
         \/ /\ ~due /\ TimedOut
            /\ GiveUpSubscribing(0)
            /\ UNCHANGED att_requests
         \/ /\ ~due /\ ~TimedOut
            /\ UNCHANGED <<phaseVars, statusVars, subVars, att_requests>>
  /\ UNCHANGED <<readVars, valueVars, routeVars, protocol_write_handles_,
                 registrations, registered, enabled_cccds, foreign>>

\* In the other phases the switch and the timeout do nothing.
LoopIdle ==
  /\ setup_phase_ \notin TimedPhases
  /\ UNCHANGED <<phaseVars, statusVars, readVars, valueVars, routeVars,
                 protocol_write_handles_, subVars, stackVars>>

\* Mutant of InvalidateProfile: a request during setup is forgotten.
InvalidateProfileWhenSettled ==
  /\ rediscovery_requested_' = FALSE
  /\ closing' = (closing \/ (rediscovery_requested_ /\ setup_phase_ \in FinalPhases))

\* A pending rediscovery closes the connection, if there is one.
InvalidateProfile ==
  /\ rediscovery_requested_' = FALSE
  /\ closing' = (closing \/ (rediscovery_requested_ /\ link # "DOWN"))

\* The iteration goes on after disconnect(), in the phase it was in.
Loop ==
  /\ InvalidateProfile
  /\ since_loop' = 0
  /\ \/ LoopInventory \/ LoopReading \/ LoopBuilding \/ LoopWriting
     \/ LoopRegistering \/ LoopWaiting \/ LoopIdle
  /\ UNCHANGED <<congested_, now, link, peer>>

-----------------------------------------------------------------------------
(* gattc_event_handler: one action per event. *)

\* ESP_GATTC_CONNECT_EVT: a peer answers, with a database of its own.
Connect ==
  /\ link = "DOWN"
  /\ link' = "DISCOVERING" /\ closing' = FALSE
  /\ peer' \in Peers
  /\ ResetConnectionState
  /\ Transition("WAITING_FOR_DISCOVERY")
  /\ UNCHANGED <<status_warning, clockVars, stackVars>>

\* ESP_GATTC_DISCONNECT_EVT: whatever the stack owed is gone with the link.
Disconnect ==
  /\ link # "DOWN"
  /\ link' = "DOWN" /\ closing' = FALSE /\ peer' = None
  /\ ResetConnectionState
  /\ status_warning' = TRUE
  /\ Transition("DISCONNECTED")
  /\ att_requests' = <<>> /\ registrations' = <<>>
  /\ registered' = {} /\ enabled_cccds' = {} /\ foreign' = 0
  /\ UNCHANGED clockVars

\* ESP_GATTC_SEARCH_CMPL_EVT: the client searches once on a connection.
SearchComplete ==
  /\ link = "DISCOVERING"
  /\ link' = "UP"
  /\ \/ /\ Transition("INVENTORY")
        /\ UNCHANGED statusVars
     \/ /\ Tally(0, 1, TRUE, FALSE) /\ Finalize(TRUE)
  /\ UNCHANGED <<flowVars, readVars, valueVars, routeVars, protocol_write_handles_, subVars,
                 clockVars, closing, peer, stackVars>>

\* What process_read_value_ can meet in a value that was read: a valid one, one
\* of a wrong length or content, a null pointer with a length, and a Report
\* Reference whose Report Type is unknown.
ReadValues == {"OK", "MALFORMED", "NULL", "UNKNOWN_TYPE"}

\* process_read_value_ calls mark_degraded_.
ValueRejected(operation, value) ==
  \/ value = "MALFORMED" /\ operation.purpose \in CheckedPurposes
  \/ value = "NULL" /\ operation.required
  \/ value = "UNKNOWN_TYPE" /\ operation.purpose = "HID_REPORT_REFERENCE"

\* process_read_value_: what it keeps of the value.
ProcessReadValue(operation, value) ==
  /\ report_maps_' = report_maps_ \cup
       {s \in {operation.service_instance} :
          operation.purpose = "HID_REPORT_MAP" /\ value = "OK"}
  /\ has_report_id_' = has_report_id_ \cup
       {h \in {operation.characteristic_handle} :
          operation.purpose = "HID_REPORT_REFERENCE" /\ value \in {"OK", "UNKNOWN_TYPE"}}
  /\ battery_handles_' = battery_handles_ \cup
       {h \in {operation.characteristic_handle} :
          operation.purpose = "BATTERY_LEVEL" /\ value \in {"OK", "MALFORMED"}}

\* ESP_GATTC_READ_CHAR_EVT, ESP_GATTC_READ_DESCR_EVT and finish_active_read_.
ReadResult ==
  /\ att_requests # <<>> /\ Head(att_requests).op = "READ"
  /\ att_requests' = Tail(att_requests)
  /\ LET matched == active_read_ # None /\ active_read_.handle = Head(att_requests).handle
     IN  \/ /\ ~matched
            /\ UNCHANGED <<active_read_, statusVars, valueVars, battery_handles_>>
         \/ /\ matched
            /\ active_read_' = None
            /\ TallyFailure(active_read_.required)      \* failed, or too large a value
            /\ UNCHANGED <<valueVars, battery_handles_>>
         \/ /\ matched
            /\ active_read_' = None
            /\ \E value \in ReadValues :
                 LET rejected == ValueRejected(active_read_, value)
                 IN  /\ Tally(1, IF rejected THEN 1 ELSE 0, rejected, FALSE)
                     /\ KeepWarning(rejected)
                     /\ ProcessReadValue(active_read_, value)
  /\ UNCHANGED <<phaseVars, flowVars, read_queue_, hid_report_handles_, service_changed_handles_,
                 protocol_write_handles_, subVars, clockVars, linkVars,
                 registrations, registered, enabled_cccds, foreign>>

\* The CCCD write the ESPHome client makes for a characteristic it sees
\* registered, unless it leaves that to its nodes (a V3 client).
FrameworkWrites(handle) ==
  {<<>>} \cup {<<[op |-> "FRAMEWORK_CCCD", handle |-> peer.subscriptions[i].cccd_handle]>> :
                 i \in {j \in DOMAIN peer.subscriptions :
                          /\ peer.subscriptions[j].characteristic_handle = handle
                          /\ peer.subscriptions[j].cccd_handle # NoHandle}}

\* ESP_GATTC_REG_FOR_NOTIFY_EVT: the client's handler, then
\* handle_registration_result_.
RegistrationResult ==
  /\ link # "DOWN" /\ registrations # <<>>
  /\ registrations' = Tail(registrations)
  /\ \E success \in BOOLEAN :
       LET handle   == Head(registrations)
           decision == RegistrationDecision(subscription_state_, handle, success)
           ignored  == active_subscription_ = None \/ decision = "UNMATCHED"
       IN  /\ registered' = IF success THEN registered \cup {handle} ELSE registered
           /\ \E writes \in (IF success THEN FrameworkWrites(handle) ELSE {<<>>}) :
                att_requests' = att_requests \o writes
           /\ \/ /\ ignored
                 /\ UNCHANGED <<phaseVars, statusVars, active_subscription_, subscription_state_>>
              \/ /\ ~ignored /\ decision = "FAILED"
                 /\ FailSubscription
              \/ /\ ~ignored /\ decision = "WAIT_FOR_CCCD"
                 /\ subscription_state_' = Registered(subscription_state_, now)
                 /\ Transition("WAITING_FOR_CCCD")
                 /\ UNCHANGED <<statusVars, active_subscription_>>
  /\ UNCHANGED <<flowVars, readVars, valueVars, routeVars, protocol_write_handles_,
                 subscription_queue_, clockVars, linkVars, enabled_cccds, foreign>>

\* ESP_GATTC_WRITE_DESCR_EVT and handle_cccd_result_.
CccdResult ==
  /\ att_requests # <<>> /\ Head(att_requests).op \in {"FRAMEWORK_CCCD", "OWN_CCCD"}
  /\ \E success \in BOOLEAN :
       LET handle   == Head(att_requests).handle
           decision == CccdDecision(subscription_state_, handle, success)
           ignored  == active_subscription_ = None \/ decision = "UNMATCHED"
       IN  /\ enabled_cccds' = IF success THEN enabled_cccds \cup {handle} ELSE enabled_cccds
           /\ \/ /\ ignored
                 /\ att_requests' = Tail(att_requests)
                 /\ UNCHANGED <<phaseVars, statusVars, active_subscription_, subscription_state_>>
              \/ /\ ~ignored /\ decision = "COMPLETE"
                 /\ att_requests' = Tail(att_requests)
                 /\ Tally(1, 0, FALSE, FALSE) /\ KeepWarning(FALSE)
                 /\ DropSubscription /\ Transition("REGISTERING")
              \/ /\ ~ignored /\ decision = "RETRY_CCCD"
                 /\ att_requests' = Append(Tail(att_requests),
                                           [op |-> "OWN_CCCD",
                                            handle |-> active_subscription_.cccd_handle])
                 /\ subscription_state_' = OwnCccdWriteAttempted(subscription_state_)
                 /\ UNCHANGED <<phaseVars, statusVars, active_subscription_>>
              \/ /\ ~ignored /\ decision \in {"RETRY_CCCD", "FAILED"}
                 /\ att_requests' = Tail(att_requests)      \* or the retry is not scheduled
                 /\ FailSubscription
  /\ UNCHANGED <<flowVars, readVars, valueVars, routeVars, protocol_write_handles_,
                 subscription_queue_, clockVars, linkVars, registrations, registered, foreign>>

unchangedButFlow ==
  <<phaseVars, statusVars, readVars, valueVars, routeVars, protocol_write_handles_,
    subVars, clockVars, linkVars>>

\* ESP_GATTC_NOTIFY_EVT, as far as setup is concerned: an indication of the
\* Service Changed characteristic.
Notification(handle) ==
  /\ link # "DOWN" /\ handle \in service_changed_handles_
  /\ rediscovery_requested_' = TRUE
  /\ UNCHANGED <<unchangedButFlow, congested_, stackVars>>

\* ESP_GATTC_SRVC_CHG_EVT: the stack keeps the indication to itself.
ServiceChanged ==
  /\ link # "DOWN"
  /\ rediscovery_requested_' = TRUE
  /\ UNCHANGED <<unchangedButFlow, congested_, stackVars>>

\* ESP_GATTC_CONGEST_EVT, ESP_GATTC_QUEUE_FULL_EVT.
Congestion(congested) ==
  /\ link # "DOWN"
  /\ congested_' = congested
  /\ UNCHANGED <<unchangedButFlow, rediscovery_requested_, stackVars>>

\* Another node of the same client registers for a characteristic of the peer:
\* its event comes to every node.
ForeignRegistration ==
  /\ link = "UP" /\ foreign < MaxForeign
  /\ foreign' = foreign + 1
  /\ \E handle \in CharacteristicHandles(peer) :
       registrations' = Append(registrations, handle)
  /\ UNCHANGED <<unchangedButFlow, flowVars, att_requests, registered, enabled_cccds>>

\* The clock.  It is read in the timed phases only, and stands still elsewhere.
Tick ==
  /\ setup_phase_ \in TimedPhases
  /\ since_loop < MaxLoopGap
  /\ since_loop' = since_loop + 1
  /\ now' = (now + 1) % TimeModulus
  /\ UNCHANGED <<phaseVars, statusVars, flowVars, readVars, valueVars, routeVars,
                 protocol_write_handles_, subVars, linkVars, stackVars>>

-----------------------------------------------------------------------------
Init ==
  /\ setup_phase_ = "DISCONNECTED" /\ phase_started_ms_ = 0
  /\ degraded_ = FALSE /\ status_warning = FALSE
  /\ operations_succeeded_ = 0 /\ operations_failed_ = 0
  /\ congested_ = FALSE /\ rediscovery_requested_ = FALSE
  /\ read_queue_ = <<>> /\ active_read_ = None
  /\ has_report_id_ = {} /\ report_maps_ = {}
  /\ hid_report_handles_ = {} /\ battery_handles_ = {} /\ service_changed_handles_ = {}
  /\ protocol_write_handles_ = <<>>
  /\ subscription_queue_ = <<>> /\ active_subscription_ = None
  /\ subscription_state_ = ResetAttempt
  /\ now \in Time /\ since_loop = 0
  /\ link = "DOWN" /\ closing = FALSE /\ peer = None
  /\ att_requests = <<>> /\ registrations = <<>>
  /\ registered = {} /\ enabled_cccds = {} /\ foreign = 0

Callback ==
  \/ Connect \/ Disconnect \/ SearchComplete
  \/ ReadResult \/ RegistrationResult \/ CccdResult
  \/ \E handle \in Handles : Notification(handle)
  \/ ServiceChanged
  \/ \E congested \in BOOLEAN : Congestion(congested)

Next == Loop \/ Callback \/ ForeignRegistration \/ Tick

\* loop() keeps running and time passes; a connection the component closed is
\* reported as disconnected.  No answer of the peer is ever owed.
Fairness ==
  /\ WF_vars(Loop)
  /\ WF_vars(Tick)
  /\ WF_vars(closing /\ Disconnect)

Spec == Init /\ [][Next]_vars /\ Fairness

-----------------------------------------------------------------------------
(* Properties *)

StatusType ==
  /\ setup_phase_ \in Phases /\ phase_started_ms_ \in Time
  /\ degraded_ \in BOOLEAN /\ status_warning \in BOOLEAN
  /\ operations_succeeded_ \in Nat /\ operations_failed_ \in Nat

FlowType == congested_ \in BOOLEAN /\ rediscovery_requested_ \in BOOLEAN

ReadType ==
  /\ read_queue_ \in Seq(ReadOperations) /\ active_read_ \in ReadOperations \cup {None}
  /\ has_report_id_ \subseteq Handles /\ report_maps_ \subseteq Services

RouteType ==
  /\ hid_report_handles_ \subseteq Handles /\ battery_handles_ \subseteq Handles
  /\ service_changed_handles_ \subseteq Handles
  /\ protocol_write_handles_ \in Seq(Handles)

SubscriptionType ==
  /\ subscription_queue_ \in Seq(Subscriptions)
  /\ active_subscription_ \in Subscriptions \cup {None}
  /\ subscription_state_ \in Attempts(Handles)

LinkType ==
  /\ now \in Time /\ since_loop \in 0 .. MaxLoopGap
  /\ link \in {"DOWN", "DISCOVERING", "UP"} /\ closing \in BOOLEAN
  /\ peer \in Peers \cup {None}

StackType ==
  /\ att_requests \in Seq(Requests) /\ registrations \in Seq(Handles)
  /\ registered \subseteq Handles /\ enabled_cccds \subseteq Handles
  /\ foreign \in 0 .. MaxForeign

TypeOK ==
  StatusType /\ FlowType /\ ReadType /\ RouteType /\ SubscriptionType /\ LinkType /\ StackType

\* The phase follows the link: DISCONNECTED exactly when there is none, waiting
\* for discovery exactly while the client searches (gattc_event_handler).
PhaseFollowsLink ==
  /\ setup_phase_ = "DISCONNECTED" <=> link = "DOWN"
  /\ setup_phase_ = "WAITING_FOR_DISCOVERY" <=> link = "DISCOVERING"
  /\ peer = None <=> link = "DOWN"

\* active_subscription_, subscription_state_ and setup_phase_ are three memories
\* of one attempt that nine handlers update: they always agree.  If they did not,
\* every later callback would be "unexpected" and setup would wait for a timeout.
AttemptIsCoherent ==
  /\ active_subscription_ = None => subscription_state_ = ResetAttempt
  /\ active_subscription_ # None =>
       /\ setup_phase_ = subscription_state_.stage
       /\ subscription_state_.characteristic_handle = active_subscription_.characteristic_handle
       /\ subscription_state_.cccd_handle = active_subscription_.cccd_handle
       /\ active_subscription_.cccd_handle # NoHandle
  /\ setup_phase_ = "WAITING_FOR_CCCD" => active_subscription_ # None

\* A read in flight is the one read the stack still owes an answer to, and is
\* waited for in READING only (start_next_read_, finish_active_read_).
ReadIsOwed ==
  /\ active_read_ # None =>
       /\ setup_phase_ = "READING"
       /\ \E i \in DOMAIN att_requests :
            att_requests[i] = [op |-> "READ", handle |-> active_read_.handle]
  /\ Cardinality({i \in DOMAIN att_requests : att_requests[i].op = "READ"}) <= 1
  /\ read_queue_ # <<>> => setup_phase_ = "READING"

\* A notification of this handle goes to the report FIFO (gattc_event_handler).
RoutedToReports(handle) ==
  /\ handle \notin service_changed_handles_ /\ handle \notin battery_handles_
  /\ handle \in hid_report_handles_

\* READY is a promise about the peripheral: every HID input the database offers
\* is registered locally, its CCCD was accepted remotely, and its notifications
\* reach the report FIFO; nothing is degraded and no warning stands.
ReadyMeansSubscribed ==
  setup_phase_ = "READY" =>
    /\ ~degraded_ /\ ~status_warning
    /\ \A i \in DOMAIN peer.subscriptions :
         peer.subscriptions[i].required =>
           /\ peer.subscriptions[i].characteristic_handle \in registered
           /\ peer.subscriptions[i].cccd_handle \in enabled_cccds
           /\ RoutedToReports(peer.subscriptions[i].characteristic_handle)

\* At READY, operations_succeeded and operations_failed of the HID_READY record
\* account for every operation the database called for, each exactly once.
ReadyAccountsForOperations ==
  setup_phase_ = "READY" =>
    operations_succeeded_ + operations_failed_ =
      Len(peer.reads) + Len(ProtocolModeWrites) + Len(peer.subscriptions)

\* No phase with a timeout outlives it by more than one gap between iterations of
\* loop(), across wraparound of millis() (handle_phase_timeout_).
PhaseAgeBounded ==
  setup_phase_ \in TimedPhases =>
    (now - phase_started_ms_) % TimeModulus < PhaseTimeout + MaxLoopGap

\* A setup that reached its outcome keeps it until the link goes down: answers
\* that come late, after a timeout dropped their operation, change nothing.
OutcomeIsFinal ==
  [][(setup_phase_ \in FinalPhases) => (link' = "DOWN" \/ UNCHANGED setupVars)]_vars

\* A CCCD wait is given up only after the component made its own write: the
\* fallback is never starved by the timeout (loop()).
FallbackBeforeTimeout ==
  [][setup_phase_ = "WAITING_FOR_CCCD" /\ setup_phase_' = "DEGRADED" =>
       \/ subscription_state_.own_cccd_write_attempted
       \/ att_requests' = Append(att_requests,
            [op |-> "OWN_CCCD", handle |-> active_subscription_.cccd_handle])]_vars

\* The component never waits for ever: setup reaches an outcome or loses the
\* link, although the peer may answer nothing at all.
SetupTerminates == setup_phase_ \in TimedPhases ~> setup_phase_ \in FinalPhases \cup {"DISCONNECTED"}

\* A Service Changed indication ends the connection whose profile it invalidated.
RediscoveryReconnects == rediscovery_requested_ ~> link = "DOWN"

-----------------------------------------------------------------------------
(* What setup promises the rest of the device: SetupContract.               *)

RequiredHandles(p) ==
  {p.subscriptions[i].characteristic_handle :
     i \in {j \in DOMAIN p.subscriptions : p.subscriptions[j].required}}

\* The HID inputs whose notifications are enabled and decoded.
DeliveredHandles(p) ==
  {p.subscriptions[i].characteristic_handle :
     i \in {j \in DOMAIN p.subscriptions :
              /\ p.subscriptions[j].required
              /\ p.subscriptions[j].characteristic_handle \in registered
              /\ p.subscriptions[j].cccd_handle \in enabled_cccds
              /\ RoutedToReports(p.subscriptions[j].characteristic_handle)}}

outcomeOfPhase ==
  CASE setup_phase_ = "DISCONNECTED" -> "NO_LINK"
    [] setup_phase_ = "WAITING_FOR_DISCOVERY" -> "DISCOVERING"
    [] setup_phase_ \in TimedPhases -> "PENDING"
    [] setup_phase_ \in FinalPhases -> setup_phase_

Contract == INSTANCE SetupContract WITH
  outcome   <- outcomeOfPhase,
  offered   <- IF peer = None THEN {} ELSE RequiredHandles(peer),
  delivered <- IF peer = None THEN {} ELSE DeliveredHandles(peer)

\* Setup implements the contract: one outcome per connection, reached in bounded
\* phases, and READY only with every HID input delivered.
KeepsContract == Contract!Spec

-----------------------------------------------------------------------------
(* What the documentation says and the code does not do. *)

\* README.md: DEGRADED means every enabled setup operation reached a known
\* outcome: no planned subscription is dropped before it was tried.
NoSubscriptionSkipped ==
  [][setup_phase_' = "DEGRADED" /\ setup_phase_ \in {"REGISTERING", "WAITING_FOR_CCCD"} =>
       subscription_queue_ = <<>>]_vars

\* subscription_state_test.cpp: only a failure of the component's own retry is
\* terminal for a subscription attempt.
OnlyRetryFailureIsTerminal ==
  [][(/\ active_subscription_ # None /\ active_subscription_' = None
      /\ subscription_state_.own_cccd_write_attempted
      /\ att_requests # <<>> /\ att_requests' = Tail(att_requests)
      /\ operations_failed_' > operations_failed_)
     => Head(att_requests).op = "OWN_CCCD"]_vars

\* README.md: a device that does not expose Protocol Mode is set up as degraded.
MissingProtocolModeDegrades ==
  setup_phase_ = "READY" /\ Policy # "UNCHANGED" => peer.protocol_modes # <<>>
=============================================================================
