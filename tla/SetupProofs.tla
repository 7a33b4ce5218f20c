----------------------------- MODULE SetupProofs -----------------------------
(***************************************************************************)
(* Proofs about Setup, for every database, limit, timeout and clock width  *)
(* that PeerAssumption, ParameterAssumption and TimeAssumption allow: the  *)
(* attempt and the phases agree, outcomes stand, timeouts hold, the read   *)
(* in flight is the one that is due, READY means that every HID input of   *)
(* the peer is registered, enabled and routed and that every operation is  *)
(* counted once, and a step of Setup is a step of SetupContract or changes *)
(* nothing the contract speaks of.                                         *)
(***************************************************************************)
EXTENDS Setup, SequenceTheorems, FiniteSetTheorems, TLAPS

-----------------------------------------------------------------------------
(* The attempt: its operators keep its type. *)

LEMMA ClockStep ==
  ASSUME NEW n \in Time, NEW d \in Nat
  PROVE  (n + d) % TimeModulus \in Time
BY TimeAssumption DEF Time

LEMMA ResetAttemptType == ResetAttempt \in Attempts(Handles)
BY TimeAssumption DEF ResetAttempt, Attempts, Stages, Time

LEMMA BeginType ==
  ASSUME NEW c \in Handles, NEW d \in Handles \cup {NoHandle}
  PROVE  Begin(c, d) \in Attempts(Handles)
BY TimeAssumption DEF Begin, Attempts, Stages, Time

LEMMA RegisteredType ==
  ASSUME NEW a \in Attempts(Handles), NEW n \in Time
  PROVE  Registered(a, n) \in Attempts(Handles)
<1>1. (n + FallbackDelay) % TimeModulus \in Time
  BY ClockStep, TimeAssumption
<1> QED
  BY <1>1 DEF Registered, Attempts, Stages

LEMMA OwnWriteType ==
  ASSUME NEW a \in Attempts(Handles)
  PROVE  OwnCccdWriteAttempted(a) \in Attempts(Handles)
BY DEF OwnCccdWriteAttempted, Attempts

LEMMA OverLimitType == OverLimitReports \in Nat
<1>1. IsFiniteSet({service \in Services :
                     \E i \in (MaxSubscriptions + 1) .. Len(peer.subscriptions) :
                       peer.subscriptions[i].service_instance = service})
  BY PeerAssumption, FS_Subset
<1> QED
  BY <1>1, FS_CardinalityType DEF OverLimitReports

-----------------------------------------------------------------------------
(* Type correctness.  A handler that plans uses the database of the peer, and *)
(* one that writes a CCCD uses the handle of the attempt: the invariant also  *)
(* says that there is a peer while the link is up, and that an attempt is     *)
(* coherent.                                                                  *)

SetupInv == TypeOK /\ PhaseFollowsLink /\ AttemptIsCoherent

LEMMA TypeInit == Init => SetupInv
<1> SUFFICES ASSUME Init PROVE SetupInv
  OBVIOUS
<1>1. 0 \in Time
  BY TimeAssumption DEF Time
<1>2. StatusType /\ FlowType BY <1>1 DEF Init, StatusType, FlowType, Phases
<1>3. ReadType BY EmptySeq DEF Init, ReadType
<1>4. RouteType BY EmptySeq DEF Init, RouteType
<1>5. SubscriptionType BY EmptySeq, ResetAttemptType DEF Init, SubscriptionType
<1>6. LinkType
  <2>1. 0 \in 0 .. MaxLoopGap
    BY ParameterAssumption
  <2> QED
    BY <2>1 DEF Init, LinkType
<1>7. StackType
  <2>1. 0 \in 0 .. MaxForeign
    BY ParameterAssumption
  <2> QED
    BY <2>1, EmptySeq DEF Init, StackType
<1>8. PhaseFollowsLink
  BY DEF Init, PhaseFollowsLink
<1>9. AttemptIsCoherent
  BY DEF Init, AttemptIsCoherent
<1> QED
  BY <1>2, <1>3, <1>4, <1>5, <1>6, <1>7, <1>8, <1>9 DEF SetupInv, TypeOK

\* Facts about the peer that the handlers of a live connection rely on.
LEMMA PeerTyped ==
  ASSUME SetupInv, setup_phase_ # "DISCONNECTED"
  PROVE  /\ peer \in Peers
         /\ peer.reads \in Seq(ReadOperations)
         /\ peer.subscriptions \in Seq(Subscriptions)
         /\ peer.protocol_modes \in Seq(Handles)
         /\ peer.reports \subseteq ReportSources
<1>1. peer \in Peers
  BY DEF SetupInv, TypeOK, LinkType, PhaseFollowsLink
<1>2. peer \in PeerType
  BY <1>1, PeerAssumption
<1> QED
  BY <1>1, <1>2 DEF PeerType

-----------------------------------------------------------------------------
(* The pieces of handlers. *)

LEMMA TransitionType ==
  ASSUME TypeOK, NEW p \in Phases, Transition(p)
  PROVE  setup_phase_' = p /\ setup_phase_' \in Phases /\ phase_started_ms_' \in Time
BY DEF Transition, TypeOK, LinkType

LEMMA TallyType ==
  ASSUME TypeOK, NEW ok \in Nat, NEW failures \in Nat,
         NEW marked \in BOOLEAN, NEW silent \in BOOLEAN,
         Tally(ok, failures, marked, silent)
  PROVE  /\ operations_succeeded_' \in Nat /\ operations_failed_' \in Nat
         /\ degraded_' \in BOOLEAN
<1>1. operations_succeeded_' \in Nat /\ operations_failed_' \in Nat
  BY DEF Tally, TypeOK, StatusType
<1>2. degraded_' \in BOOLEAN
  BY DEF Tally
<1> QED
  BY <1>1, <1>2

LEMMA FinalizeType ==
  ASSUME TypeOK, NEW ok \in Nat, NEW failures \in Nat,
         NEW marked \in BOOLEAN, NEW silent \in BOOLEAN, NEW warned \in BOOLEAN,
         Tally(ok, failures, marked, silent), Finalize(warned)
  PROVE  StatusType' /\ setup_phase_' \in {"READY", "DEGRADED"}
<1>1. operations_succeeded_' \in Nat /\ operations_failed_' \in Nat /\ degraded_' \in BOOLEAN
  BY TallyType
<1>2. setup_phase_' \in {"READY", "DEGRADED"} /\ phase_started_ms_' = now
  BY DEF Finalize, Transition
<1>3. status_warning' \in BOOLEAN
  BY DEF Finalize
<1>4. now \in Time
  BY DEF TypeOK, LinkType
<1> QED
  BY <1>1, <1>2, <1>3, <1>4 DEF StatusType, Phases

LEMMA MoveType ==
  ASSUME TypeOK, NEW ok \in Nat, NEW failures \in Nat,
         NEW marked \in BOOLEAN, NEW silent \in BOOLEAN, NEW warned \in BOOLEAN,
         Tally(ok, failures, marked, silent), KeepWarning(warned),
         NEW p \in Phases, Transition(p) \/ (p = setup_phase_ /\ UNCHANGED phaseVars)
  PROVE  StatusType' /\ setup_phase_' = p
<1>1. operations_succeeded_' \in Nat /\ operations_failed_' \in Nat /\ degraded_' \in BOOLEAN
  BY TallyType
<1>2. setup_phase_' = p /\ phase_started_ms_' \in Time
  BY DEF Transition, phaseVars, TypeOK, StatusType, LinkType
<1>3. status_warning' \in BOOLEAN
  BY DEF KeepWarning
<1> QED
  BY <1>1, <1>2, <1>3 DEF StatusType

LEMMA TallyFailureType ==
  ASSUME TypeOK, NEW required \in BOOLEAN, TallyFailure(required),
         NEW p \in Phases, Transition(p) \/ (p = setup_phase_ /\ UNCHANGED phaseVars)
  PROVE  StatusType' /\ setup_phase_' = p
BY MoveType, 0 \in Nat, 1 \in Nat, FALSE \in BOOLEAN DEF TallyFailure

LEMMA SamePhaseType ==
  ASSUME TypeOK, UNCHANGED phaseVars, UNCHANGED statusVars
  PROVE  StatusType' /\ setup_phase_' = setup_phase_
BY DEF TypeOK, StatusType, phaseVars, statusVars

LEMMA QuietMoveType ==
  ASSUME TypeOK, NEW p \in Phases, Transition(p), UNCHANGED statusVars
  PROVE  StatusType' /\ setup_phase_' = p
BY DEF TypeOK, StatusType, LinkType, Transition, statusVars

LEMMA DropType ==
  ASSUME DropSubscription
  PROVE  /\ active_subscription_' \in Subscriptions \cup {None}
         /\ subscription_state_' \in Attempts(Handles)
BY ResetAttemptType DEF DropSubscription

LEMMA KeptType ==
  ASSUME SetupInv, setup_phase_ # "DISCONNECTED"
  PROVE  /\ KeptSubscriptions \in Seq(Subscriptions)
         /\ \A kind : HandlesOfKind(KeptSubscriptions, kind) \subseteq Handles
<1>1. peer.subscriptions \in Seq(Subscriptions)
  BY PeerTyped
<1>2. Len(peer.subscriptions) \in Nat /\ MaxSubscriptions \in Nat
  BY <1>1, LenProperties, ParameterAssumption
<1>3. KeptSubscriptions \in Seq(Subscriptions)
  <2>1. CASE Len(peer.subscriptions) <= MaxSubscriptions
    BY <2>1, <1>1 DEF KeptSubscriptions
  <2>2. CASE ~(Len(peer.subscriptions) <= MaxSubscriptions)
    <3>1. KeptSubscriptions = SubSeq(peer.subscriptions, 1, MaxSubscriptions)
      BY <2>2 DEF KeptSubscriptions
    <3>2. \A i \in 1 .. MaxSubscriptions : peer.subscriptions[i] \in Subscriptions
      BY <2>2, <1>1, <1>2, ElementOfSeq
    <3> QED
      BY <3>1, <3>2, <1>1, <1>2, SubSeqProperties
  <2> QED
    BY <2>1, <2>2
<1>4. \A kind : HandlesOfKind(KeptSubscriptions, kind) \subseteq Handles
  <2> SUFFICES ASSUME NEW kind, NEW i \in DOMAIN KeptSubscriptions
               PROVE  KeptSubscriptions[i].characteristic_handle \in Handles
    BY DEF HandlesOfKind
  <2>1. KeptSubscriptions[i] \in Subscriptions
    BY <1>3, ElementOfSeq, LenProperties
  <2> QED
    BY <2>1 DEF Subscriptions
<1> QED
  BY <1>3, <1>4

LEMMA PlanSubscriptionsType ==
  ASSUME SetupInv, setup_phase_ # "DISCONNECTED", PlanSubscriptions
  PROVE  /\ subscription_queue_' \in Seq(Subscriptions)
         /\ battery_handles_' \subseteq Handles /\ service_changed_handles_' \subseteq Handles
BY KeptType DEF PlanSubscriptions, SetupInv, TypeOK, RouteType

LEMMA RequestType ==
  ASSUME TypeOK, NEW op \in {"READ", "FRAMEWORK_CCCD", "OWN_CCCD"}, NEW handle \in Handles,
         Request(op, handle)
  PROVE  att_requests' \in Seq(Requests)
<1>1. [op |-> op, handle |-> handle] \in Requests
  BY DEF Requests
<1> QED
  BY <1>1, AppendProperties DEF Request, TypeOK, StackType

-----------------------------------------------------------------------------
(* loop().  A branch keeps the types of what it may change, and leaves the   *)
(* phases in which the link is down or searched alone.                       *)

BranchTyped == StatusType /\ ReadType /\ RouteType /\ SubscriptionType /\ StackType

StaysConnected ==
  \/ setup_phase_' = setup_phase_
  \/ {setup_phase_, setup_phase_'} \cap {"DISCONNECTED", "WAITING_FOR_DISCOVERY"} = {}

LEMMA PlanReadsType ==
  ASSUME SetupInv, setup_phase_ # "DISCONNECTED", NEW failures \in Nat, PlanReads(failures)
  PROVE  /\ read_queue_' \in Seq(ReadOperations) /\ active_read_' = active_read_
         /\ \E bad \in Nat, marked \in BOOLEAN :
              Tally(0, bad, marked, FALSE) /\ KeepWarning(marked)
<1> DEFINE kept == IF Len(peer.reads) <= MaxReads THEN Len(peer.reads) ELSE MaxReads
           bad  == failures + Len(peer.reads) - kept
           marked == bad > 0
<1>1. peer.reads \in Seq(ReadOperations) /\ Len(peer.reads) \in Nat /\ MaxReads \in Nat
  BY PeerTyped, LenProperties, ParameterAssumption
<1>2. kept \in Nat /\ bad \in Nat /\ kept <= Len(peer.reads)
  BY <1>1
<1>3. SubSeq(peer.reads, 1, kept) \in Seq(ReadOperations)
  <2> HIDE DEF kept
  <2>1. \A i \in 1 .. kept : peer.reads[i] \in ReadOperations
    BY <1>1, <1>2, ElementOfSeq
  <2> QED
    BY <2>1, <1>1, <1>2, SubSeqProperties
<1>4. /\ read_queue_' = SubSeq(peer.reads, 1, kept) /\ active_read_' = active_read_
      /\ Tally(0, bad, marked, FALSE) /\ KeepWarning(marked)
  BY DEF PlanReads
<1>5. marked \in BOOLEAN
  OBVIOUS
<1> QED
  <2> HIDE DEF kept, bad, marked
  <2> QED BY <1>2, <1>3, <1>4, <1>5

LEMMA LoopInventoryType ==
  ASSUME SetupInv, LoopInventory
  PROVE  BranchTyped' /\ StaysConnected
<1> USE DEF SetupInv
<1>0. setup_phase_ = "INVENTORY" /\ setup_phase_ # "DISCONNECTED"
  BY DEF LoopInventory
<1>1. RouteType' /\ SubscriptionType' /\ StackType'
  BY DEF LoopInventory, TypeOK, RouteType, SubscriptionType, StackType, routeVars, subVars, stackVars
<1>2. has_report_id_' \subseteq Handles /\ report_maps_' \subseteq Services
  BY DEF LoopInventory, TypeOK, ReadType, valueVars
<1> DEFINE partial == peer.inventory = "PARTIAL"
<1>3. CASE /\ Tally(0, 1, TRUE, FALSE) /\ Finalize(TRUE)
           /\ UNCHANGED readVars
  <2>1. StatusType' /\ setup_phase_' \in {"READY", "DEGRADED"}
    BY <1>3, FinalizeType, 0 \in Nat, 1 \in Nat
  <2>2. ReadType'
    BY <1>2, <1>3 DEF TypeOK, ReadType, readVars
  <2> QED
    BY <1>0, <1>1, <2>1, <2>2 DEF BranchTyped, StaysConnected
<1>4. CASE /\ Tally(0, IF partial THEN 1 ELSE 0, partial, FALSE)
           /\ Transition("NO_HID") /\ status_warning' = TRUE
           /\ UNCHANGED readVars
  <2>1. (IF partial THEN 1 ELSE 0) \in Nat
    OBVIOUS
  <2>2. operations_succeeded_' \in Nat /\ operations_failed_' \in Nat /\ degraded_' \in BOOLEAN
    BY <1>4, <2>1, TallyType
  <2>3. setup_phase_' = "NO_HID" /\ phase_started_ms_' \in Time
    BY <1>4 DEF Transition, TypeOK, LinkType
  <2>4. ReadType'
    BY <1>2, <1>4 DEF TypeOK, ReadType, readVars
  <2>5. StatusType'
    BY <1>4, <2>2, <2>3 DEF StatusType, Phases
  <2> QED
    BY <1>0, <1>1, <2>3, <2>4, <2>5 DEF BranchTyped, StaysConnected
<1>5. CASE PlanReads(IF partial THEN 1 ELSE 0) /\ Transition("READING")
  <2>1. (IF partial THEN 1 ELSE 0) \in Nat
    OBVIOUS
  <2> HIDE DEF partial
  <2>2. /\ read_queue_' \in Seq(ReadOperations) /\ active_read_' = active_read_
        /\ \E bad \in Nat, marked \in BOOLEAN :
             Tally(0, bad, marked, FALSE) /\ KeepWarning(marked)
    BY <1>0, <1>5, <2>1, PlanReadsType
  <2>3. PICK bad \in Nat, marked \in BOOLEAN :
          Tally(0, bad, marked, FALSE) /\ KeepWarning(marked)
    BY <2>2
  <2>4. "READING" \in Phases
    BY DEF Phases
  <2>5. StatusType' /\ setup_phase_' = "READING"
    BY <1>5, <2>3, <2>4, MoveType, 0 \in Nat, FALSE \in BOOLEAN
  <2>6. ReadType'
    BY <1>2, <2>2 DEF TypeOK, ReadType
  <2> QED
    BY <1>0, <1>1, <2>5, <2>6 DEF BranchTyped, StaysConnected
<1> QED
  BY <1>3, <1>4, <1>5 DEF LoopInventory

LEMMA GiveUpReadingType ==
  ASSUME TypeOK, NEW failures \in Nat, GiveUpReading(failures)
  PROVE  /\ StatusType' /\ setup_phase_' = "BUILDING_PROFILE"
         /\ read_queue_' \in Seq(ReadOperations) /\ active_read_' \in ReadOperations \cup {None}
<1>1. "BUILDING_PROFILE" \in Phases /\ failures + 1 \in Nat
  BY DEF Phases
<1>2. StatusType' /\ setup_phase_' = "BUILDING_PROFILE"
  BY <1>1, MoveType, 0 \in Nat DEF GiveUpReading
<1> QED
  BY <1>2, EmptySeq DEF GiveUpReading

\* The head and the tail of a queue that is not empty.
LEMMA QueueType ==
  ASSUME NEW S, NEW queue \in Seq(S), queue # <<>>
  PROVE  Head(queue) \in S /\ Tail(queue) \in Seq(S)
BY HeadTailProperties

LEMMA LoopReadingType ==
  ASSUME SetupInv, LoopReading
  PROVE  BranchTyped' /\ StaysConnected
<1> USE DEF SetupInv
<1> DEFINE scheduling(scheduled) ==
             IF scheduled THEN Request("READ", Head(read_queue_).handle)
             ELSE UNCHANGED att_requests
           Goal ==
             /\ StatusType' /\ setup_phase_' \in {"READING", "BUILDING_PROFILE"}
             /\ read_queue_' \in Seq(ReadOperations)
             /\ active_read_' \in ReadOperations \cup {None}
             /\ att_requests' \in Seq(Requests)
<1>1. RouteType' /\ SubscriptionType'
  BY DEF LoopReading, TypeOK, RouteType, SubscriptionType, routeVars, subVars
<1>2. /\ has_report_id_' \subseteq Handles /\ report_maps_' \subseteq Services
      /\ registrations' \in Seq(Handles) /\ registered' \subseteq Handles
      /\ enabled_cccds' \subseteq Handles /\ foreign' \in 0 .. MaxForeign
  BY DEF LoopReading, TypeOK, ReadType, StackType, valueVars
<1>3. /\ setup_phase_ = "READING" /\ "READING" \in Phases /\ "BUILDING_PROFILE" \in Phases
      /\ read_queue_ \in Seq(ReadOperations) /\ active_read_ \in ReadOperations \cup {None}
      /\ att_requests \in Seq(Requests)
  BY DEF LoopReading, Phases, TypeOK, ReadType, StackType
<1> SUFFICES Goal
  BY <1>1, <1>2, <1>3 DEF BranchTyped, StaysConnected, ReadType, StackType
<1>4. CASE /\ Transition("BUILDING_PROFILE")
           /\ UNCHANGED <<statusVars, readVars, att_requests>>
  <2>1. StatusType' /\ setup_phase_' = "BUILDING_PROFILE"
    BY <1>3, <1>4, QuietMoveType
  <2>2. UNCHANGED <<read_queue_, active_read_, att_requests>>
    BY <1>4 DEF readVars
  <2> QED
    BY <1>3, <2>1, <2>2
<1>5. ASSUME read_queue_ # <<>>, NEW scheduled \in BOOLEAN, scheduling(scheduled),
             IF TimedOut THEN GiveUpReading(IF scheduled THEN 0 ELSE 1)
             ELSE /\ read_queue_' = Tail(read_queue_)
                  /\ UNCHANGED phaseVars
                  /\ IF scheduled
                     THEN active_read_' = Head(read_queue_) /\ UNCHANGED statusVars
                     ELSE /\ active_read_' = None
                          /\ TallyFailure(Head(read_queue_).required)
      PROVE  Goal
  <2>1. Head(read_queue_) \in ReadOperations /\ Tail(read_queue_) \in Seq(ReadOperations)
    BY <1>3, <1>5, QueueType
  <2>2. Head(read_queue_).handle \in Handles /\ Head(read_queue_).required \in BOOLEAN
    BY <2>1 DEF ReadOperations
  <2>3. att_requests' \in Seq(Requests)
    <3>1. CASE scheduled
      BY <1>5, <2>2, <3>1, RequestType
    <3>2. CASE ~scheduled
      BY <1>3, <1>5, <3>2
    <3> QED
      BY <3>1, <3>2
  <2>4. CASE TimedOut
    <3>1. (IF scheduled THEN 0 ELSE 1) \in Nat
      OBVIOUS
    <3> QED
      BY <1>5, <2>3, <2>4, <3>1, GiveUpReadingType
  <2>5. CASE ~TimedOut /\ scheduled
    <3>1. StatusType' /\ setup_phase_' = setup_phase_
      BY <1>5, <2>5, SamePhaseType
    <3> QED
      BY <1>3, <1>5, <2>1, <2>3, <2>5, <3>1
  <2>6. CASE ~TimedOut /\ ~scheduled
    <3>1. StatusType' /\ setup_phase_' = setup_phase_
      BY <1>3, <1>5, <2>2, <2>6, TallyFailureType
    <3> QED
      BY <1>3, <1>5, <2>1, <2>3, <2>6, <3>1
  <2> QED
    BY <2>4, <2>5, <2>6
<1>6. CASE GiveUpReading(0) /\ UNCHANGED att_requests
  <2>1. UNCHANGED att_requests /\ GiveUpReading(0) /\ 0 \in Nat
    BY <1>6
  <2> QED
    BY <1>3, <2>1, GiveUpReadingType
<1>7. CASE UNCHANGED <<phaseVars, statusVars, readVars, att_requests>>
  <2>1. StatusType' /\ setup_phase_' = setup_phase_
    BY <1>7, SamePhaseType
  <2>2. UNCHANGED <<read_queue_, active_read_, att_requests>>
    BY <1>7 DEF readVars
  <2> QED
    BY <1>3, <2>1, <2>2
<1> QED
  <2> HIDE DEF Goal
  <2> QED
    BY <1>4, <1>5, <1>6, <1>7 DEF LoopReading

\* The tally and the phase of an iteration that plans the subscriptions.
LEMMA PlanningStatusType ==
  ASSUME TypeOK, NEW silent \in BOOLEAN,
         Tally(0, OverLimitReports, OverLimitReports > 0, silent),
         KeepWarning(OverLimitReports > 0), Transition("REGISTERING")
  PROVE  StatusType' /\ setup_phase_' = "REGISTERING"
<1> DEFINE marked == OverLimitReports > 0
<1>1. marked \in BOOLEAN /\ "REGISTERING" \in Phases
  BY DEF Phases
<1>2. Tally(0, OverLimitReports, marked, silent) /\ KeepWarning(marked)
  OBVIOUS
<1> HIDE DEF marked
<1> QED
  BY <1>1, <1>2, OverLimitType, MoveType, 0 \in Nat

LEMMA ProtocolModeWritesType ==
  ASSUME SetupInv, setup_phase_ # "DISCONNECTED"
  PROVE  ProtocolModeWrites \in Seq(Handles)
BY PeerTyped, EmptySeq DEF ProtocolModeWrites

LEMMA LoopBuildingType ==
  ASSUME SetupInv, LoopBuilding
  PROVE  BranchTyped' /\ StaysConnected
<1> USE DEF SetupInv
<1> DEFINE Goal ==
             /\ StatusType' /\ setup_phase_' \in {"REGISTERING", "WRITING_PROTOCOL_MODE"}
             /\ subscription_queue_' \in Seq(Subscriptions)
             /\ battery_handles_' \subseteq Handles /\ service_changed_handles_' \subseteq Handles
             /\ protocol_write_handles_' \in Seq(Handles)
<1>1. ReadType' /\ StackType'
  BY DEF LoopBuilding, TypeOK, ReadType, StackType, readVars, valueVars, stackVars
<1>2. /\ active_subscription_' \in Subscriptions \cup {None}
      /\ subscription_state_' \in Attempts(Handles)
  BY DEF LoopBuilding, TypeOK, SubscriptionType
<1>3. setup_phase_ = "BUILDING_PROFILE" /\ setup_phase_ # "DISCONNECTED"
  BY DEF LoopBuilding
<1>4. hid_report_handles_' \subseteq Handles
  <2>1. peer.reports \subseteq ReportSources
    BY <1>3, PeerTyped
  <2>2. hid_report_handles_' = {r.handle : r \in {q \in peer.reports : q.kind # "OTHER"}}
    BY DEF LoopBuilding
  <2> QED
    BY <2>1, <2>2 DEF ReportSources
<1> SUFFICES Goal
  BY <1>1, <1>2, <1>3, <1>4 DEF BranchTyped, StaysConnected, RouteType, SubscriptionType
<1>5. SchemaIncomplete \in BOOLEAN
  BY DEF SchemaIncomplete
<1>6. ASSUME /\ protocol_write_handles_' = <<>>
             /\ PlanSubscriptions
             /\ Tally(0, OverLimitReports, OverLimitReports > 0, SchemaIncomplete)
             /\ KeepWarning(OverLimitReports > 0)
             /\ Transition("REGISTERING")
      PROVE  Goal
  <2>1. StatusType' /\ setup_phase_' = "REGISTERING"
    BY <1>5, <1>6, PlanningStatusType
  <2>2. /\ subscription_queue_' \in Seq(Subscriptions)
        /\ battery_handles_' \subseteq Handles /\ service_changed_handles_' \subseteq Handles
    BY <1>3, <1>6, PlanSubscriptionsType
  <2> QED
    BY <1>6, <2>1, <2>2, EmptySeq
<1>7. ASSUME /\ ProtocolModeWrites # <<>>
             /\ protocol_write_handles_' = Tail(ProtocolModeWrites),
             NEW scheduled \in BOOLEAN,
             IF scheduled THEN Tally(1, 0, FALSE, SchemaIncomplete)
             ELSE Tally(0, 1, TRUE, SchemaIncomplete),
             KeepWarning(~scheduled),
             Transition("WRITING_PROTOCOL_MODE"),
             UNCHANGED <<subscription_queue_, battery_handles_, service_changed_handles_>>
      PROVE  Goal
  <2>1. /\ subscription_queue_' \in Seq(Subscriptions)
        /\ battery_handles_' \subseteq Handles /\ service_changed_handles_' \subseteq Handles
    BY <1>7 DEF TypeOK, RouteType, SubscriptionType
  <2>2. protocol_write_handles_' \in Seq(Handles)
    BY <1>3, <1>7, ProtocolModeWritesType, QueueType
  <2>3. "WRITING_PROTOCOL_MODE" \in Phases
    BY DEF Phases
  <2>4. StatusType' /\ setup_phase_' = "WRITING_PROTOCOL_MODE"
    <3>1. CASE scheduled
      <4>1. Tally(1, 0, FALSE, SchemaIncomplete) /\ KeepWarning(FALSE)
        BY <1>7, <3>1
      <4> QED
        BY <1>5, <1>7, <2>3, <4>1, MoveType, 0 \in Nat, 1 \in Nat, FALSE \in BOOLEAN
    <3>2. CASE ~scheduled
      <4>1. Tally(0, 1, TRUE, SchemaIncomplete) /\ KeepWarning(TRUE)
        BY <1>7, <3>2
      <4> QED
        BY <1>5, <1>7, <2>3, <4>1, MoveType, 0 \in Nat, 1 \in Nat, TRUE \in BOOLEAN
    <3> QED
      BY <3>1, <3>2
  <2> QED
    BY <2>1, <2>2, <2>4
<1> QED
  <2> HIDE DEF Goal
  <2> QED
    BY <1>6, <1>7 DEF LoopBuilding

LEMMA LoopWritingType ==
  ASSUME SetupInv, LoopWriting
  PROVE  BranchTyped' /\ StaysConnected
<1> USE DEF SetupInv
<1> DEFINE Goal ==
             /\ StatusType'
             /\ setup_phase_' \in {"WRITING_PROTOCOL_MODE", "REGISTERING", "READY", "DEGRADED"}
             /\ subscription_queue_' \in Seq(Subscriptions)
             /\ battery_handles_' \subseteq Handles /\ service_changed_handles_' \subseteq Handles
             /\ protocol_write_handles_' \in Seq(Handles)
<1>1. ReadType' /\ StackType'
  BY DEF LoopWriting, TypeOK, ReadType, StackType, readVars, valueVars, stackVars
<1>2. /\ active_subscription_' \in Subscriptions \cup {None}
      /\ subscription_state_' \in Attempts(Handles)
      /\ hid_report_handles_' \subseteq Handles
  BY DEF LoopWriting, TypeOK, SubscriptionType, RouteType
<1>3. /\ setup_phase_ = "WRITING_PROTOCOL_MODE" /\ setup_phase_ # "DISCONNECTED"
      /\ setup_phase_ \in Phases
  BY DEF LoopWriting, Phases
<1> SUFFICES Goal
  BY <1>1, <1>2, <1>3 DEF BranchTyped, StaysConnected, RouteType, SubscriptionType
<1>4. protocol_write_handles_ \in Seq(Handles)
  BY DEF TypeOK, RouteType
<1>5. ASSUME /\ PlanSubscriptions
             /\ Tally(0, OverLimitReports, OverLimitReports > 0, FALSE)
             /\ KeepWarning(OverLimitReports > 0)
             /\ Transition("REGISTERING")
             /\ UNCHANGED protocol_write_handles_
      PROVE  Goal
  <2>1. StatusType' /\ setup_phase_' = "REGISTERING"
    BY <1>5, PlanningStatusType, FALSE \in BOOLEAN
  <2>2. /\ subscription_queue_' \in Seq(Subscriptions)
        /\ battery_handles_' \subseteq Handles /\ service_changed_handles_' \subseteq Handles
    BY <1>3, <1>5, PlanSubscriptionsType
  <2> QED
    BY <1>4, <1>5, <2>1, <2>2
<1>6. ASSUME protocol_write_handles_ # <<>>,
             protocol_write_handles_' = Tail(protocol_write_handles_),
             UNCHANGED <<subscription_queue_, battery_handles_, service_changed_handles_>>,
             NEW ok \in Nat, NEW failed \in Nat, NEW marked \in BOOLEAN,
             IF TimedOut THEN Tally(ok, failed + 1, TRUE, FALSE) /\ Finalize(TRUE)
             ELSE /\ Tally(ok, failed, marked, FALSE) /\ KeepWarning(marked)
                  /\ UNCHANGED phaseVars
      PROVE  Goal
  <2>1. /\ subscription_queue_' \in Seq(Subscriptions)
        /\ battery_handles_' \subseteq Handles /\ service_changed_handles_' \subseteq Handles
    BY <1>6 DEF TypeOK, RouteType, SubscriptionType
  <2>2. protocol_write_handles_' \in Seq(Handles)
    BY <1>4, <1>6, QueueType
  <2>3. CASE TimedOut
    <3>1. failed + 1 \in Nat
      OBVIOUS
    <3>2. StatusType' /\ setup_phase_' \in {"READY", "DEGRADED"}
      BY <1>6, <2>3, <3>1, FinalizeType, FALSE \in BOOLEAN, TRUE \in BOOLEAN
    <3> QED
      BY <2>1, <2>2, <3>2
  <2>4. CASE ~TimedOut
    <3>1. StatusType' /\ setup_phase_' = setup_phase_
      BY <1>3, <1>6, <2>4, MoveType, FALSE \in BOOLEAN
    <3> QED
      BY <1>3, <2>1, <2>2, <3>1
  <2> QED
    BY <2>3, <2>4
<1>7. ASSUME protocol_write_handles_ # <<>>,
             protocol_write_handles_' = Tail(protocol_write_handles_),
             UNCHANGED <<subscription_queue_, battery_handles_, service_changed_handles_>>,
             NEW scheduled \in BOOLEAN,
             LET ok     == IF scheduled THEN 1 ELSE 0
                 failed == 1 - ok
             IN  IF TimedOut THEN Tally(ok, failed + 1, TRUE, FALSE) /\ Finalize(TRUE)
                 ELSE /\ Tally(ok, failed, ~scheduled, FALSE) /\ KeepWarning(~scheduled)
                      /\ UNCHANGED phaseVars
      PROVE  Goal
  <2> DEFINE ok == IF scheduled THEN 1 ELSE 0
             failed == 1 - ok
             marked == ~scheduled
  <2>1. ok \in Nat /\ failed \in Nat
    OBVIOUS
  <2>2. marked \in BOOLEAN
    OBVIOUS
  <2>3. IF TimedOut THEN Tally(ok, failed + 1, TRUE, FALSE) /\ Finalize(TRUE)
        ELSE /\ Tally(ok, failed, marked, FALSE) /\ KeepWarning(marked)
             /\ UNCHANGED phaseVars
    BY <1>7
  <2> HIDE DEF ok, failed, marked, Goal
  <2> QED
    BY <1>6, <1>7, <2>1, <2>2, <2>3
<1> QED
  <2> HIDE DEF Goal
  <2> QED
    BY <1>5, <1>7 DEF LoopWriting

LEMMA GiveUpSubscribingType ==
  ASSUME TypeOK, NEW failures \in Nat, GiveUpSubscribing(failures)
  PROVE  StatusType' /\ SubscriptionType' /\ setup_phase_' \in {"READY", "DEGRADED"}
<1>0. failures + 1 \in Nat
  OBVIOUS
<1>1. Tally(0, failures + 1, TRUE, FALSE) /\ Finalize(TRUE)
  BY DEF GiveUpSubscribing
<1>2. StatusType' /\ setup_phase_' \in {"READY", "DEGRADED"}
  BY <1>0, <1>1, FinalizeType, 0 \in Nat, FALSE \in BOOLEAN, TRUE \in BOOLEAN
<1> QED
  BY <1>2, DropType, EmptySeq DEF GiveUpSubscribing, SubscriptionType

LEMMA FailSubscriptionType ==
  ASSUME TypeOK, active_subscription_ # None, FailSubscription, UNCHANGED subscription_queue_
  PROVE  StatusType' /\ SubscriptionType' /\ setup_phase_' = "REGISTERING"
<1>1. active_subscription_.required \in BOOLEAN
  BY DEF TypeOK, SubscriptionType, Subscriptions
<1>2. "REGISTERING" \in Phases
  BY DEF Phases
<1>3. StatusType' /\ setup_phase_' = "REGISTERING"
  BY <1>1, <1>2, TallyFailureType DEF FailSubscription
<1>4. SubscriptionType'
  BY DropType DEF FailSubscription, TypeOK, SubscriptionType
<1> QED
  BY <1>3, <1>4

LEMMA LoopRegisteringType ==
  ASSUME SetupInv, LoopRegistering
  PROVE  BranchTyped' /\ StaysConnected
<1> USE DEF SetupInv
<1> DEFINE Goal ==
             /\ StatusType' /\ setup_phase_' \in {"REGISTERING", "READY", "DEGRADED"}
             /\ SubscriptionType' /\ registrations' \in Seq(Handles)
           next == Head(subscription_queue_)
<1>1. ReadType' /\ RouteType'
  BY DEF LoopRegistering, TypeOK, ReadType, RouteType, readVars, valueVars, routeVars
<1>2. /\ att_requests' \in Seq(Requests) /\ registered' \subseteq Handles
      /\ enabled_cccds' \subseteq Handles /\ foreign' \in 0 .. MaxForeign
  BY DEF LoopRegistering, TypeOK, StackType
<1>3. /\ setup_phase_ = "REGISTERING" /\ setup_phase_ \in Phases
      /\ registrations \in Seq(Handles) /\ subscription_queue_ \in Seq(Subscriptions)
  BY DEF LoopRegistering, Phases, TypeOK, StackType, SubscriptionType
<1> SUFFICES Goal
  BY <1>1, <1>2, <1>3 DEF BranchTyped, StaysConnected, StackType
<1>4. ASSUME Tally(0, 0, FALSE, FALSE), Finalize(FALSE), UNCHANGED <<subVars, registrations>>
      PROVE  Goal
  <2>1. StatusType' /\ setup_phase_' \in {"READY", "DEGRADED"}
    BY <1>4, FinalizeType, 0 \in Nat, FALSE \in BOOLEAN
  <2>2. SubscriptionType' /\ registrations' = registrations
    BY <1>4 DEF TypeOK, SubscriptionType, subVars
  <2> QED
    BY <1>3, <2>1, <2>2
<1>5. ASSUME subscription_queue_ # <<>>, NEW scheduled \in BOOLEAN,
             registrations' = IF scheduled
                              THEN Append(registrations, next.characteristic_handle)
                              ELSE registrations,
             IF TimedOut THEN GiveUpSubscribing(IF scheduled THEN 0 ELSE 1)
             ELSE /\ subscription_queue_' = Tail(subscription_queue_)
                  /\ UNCHANGED phaseVars
                  /\ IF scheduled
                     THEN /\ active_subscription_' = next
                          /\ subscription_state_' =
                               Begin(next.characteristic_handle, next.cccd_handle)
                          /\ UNCHANGED statusVars
                     ELSE DropSubscription /\ TallyFailure(next.required)
      PROVE  Goal
  <2>1. next \in Subscriptions /\ Tail(subscription_queue_) \in Seq(Subscriptions)
    BY <1>3, <1>5, QueueType
  <2>2. /\ next.characteristic_handle \in Handles /\ next.cccd_handle \in Handles \cup {NoHandle}
        /\ next.required \in BOOLEAN
    BY <2>1 DEF Subscriptions
  <2> HIDE DEF next
  <2>3. registrations' \in Seq(Handles)
    BY <1>3, <1>5, <2>2, AppendProperties
  <2>4. CASE TimedOut
    <3>1. (IF scheduled THEN 0 ELSE 1) \in Nat
      OBVIOUS
    <3> QED
      BY <1>5, <2>3, <2>4, <3>1, GiveUpSubscribingType
  <2>5. CASE ~TimedOut /\ scheduled
    <3>1. StatusType' /\ setup_phase_' = setup_phase_
      BY <1>5, <2>5, SamePhaseType
    <3>2. Begin(next.characteristic_handle, next.cccd_handle) \in Attempts(Handles)
      BY <2>2, BeginType
    <3>3. SubscriptionType'
      BY <1>5, <2>1, <2>5, <3>2 DEF SubscriptionType
    <3> QED
      BY <1>3, <2>3, <3>1, <3>3
  <2>6. CASE ~TimedOut /\ ~scheduled
    <3>1. StatusType' /\ setup_phase_' = setup_phase_
      BY <1>3, <1>5, <2>2, <2>6, TallyFailureType
    <3>2. SubscriptionType'
      BY <1>5, <2>1, <2>6, DropType DEF SubscriptionType
    <3> QED
      BY <1>3, <2>3, <3>1, <3>2
  <2> QED
    BY <2>4, <2>5, <2>6
<1>6. ASSUME GiveUpSubscribing(0), UNCHANGED registrations
      PROVE  Goal
  BY <1>3, <1>6, GiveUpSubscribingType, 0 \in Nat
<1>7. ASSUME UNCHANGED <<phaseVars, statusVars, subVars, registrations>>
      PROVE  Goal
  <2>1. StatusType' /\ setup_phase_' = setup_phase_
    BY <1>7, SamePhaseType
  <2>2. SubscriptionType' /\ registrations' = registrations
    BY <1>7 DEF TypeOK, SubscriptionType, subVars
  <2> QED
    BY <1>3, <2>1, <2>2
<1> QED
  <2> HIDE DEF Goal
  <2> QED
    BY <1>4, <1>5, <1>6, <1>7 DEF LoopRegistering

LEMMA LoopWaitingType ==
  ASSUME SetupInv, LoopWaiting
  PROVE  BranchTyped' /\ StaysConnected
<1> USE DEF SetupInv
<1> DEFINE Goal ==
             /\ StatusType'
             /\ setup_phase_' \in {"REGISTERING", "WAITING_FOR_CCCD", "READY", "DEGRADED"}
             /\ SubscriptionType' /\ att_requests' \in Seq(Requests)
<1>1. ReadType' /\ RouteType'
  BY DEF LoopWaiting, TypeOK, ReadType, RouteType, readVars, valueVars, routeVars
<1>2. /\ registrations' \in Seq(Handles) /\ registered' \subseteq Handles
      /\ enabled_cccds' \subseteq Handles /\ foreign' \in 0 .. MaxForeign
  BY DEF LoopWaiting, TypeOK, StackType
<1>3. setup_phase_ = "WAITING_FOR_CCCD" /\ att_requests \in Seq(Requests)
  BY DEF LoopWaiting, TypeOK, StackType
<1> SUFFICES Goal
  BY <1>1, <1>2, <1>3 DEF BranchTyped, StaysConnected, StackType
<1>4. ASSUME active_subscription_ # None, OwnWriteNotScheduled
      PROVE  Goal
  BY <1>3, <1>4, FailSubscriptionType DEF OwnWriteNotScheduled
<1>5. ASSUME active_subscription_ # None, FallbackDue(subscription_state_, now),
             Request("OWN_CCCD", active_subscription_.cccd_handle),
             IF TimedOut THEN GiveUpSubscribing(0)
             ELSE /\ subscription_state_' = OwnCccdWriteAttempted(subscription_state_)
                  /\ UNCHANGED <<phaseVars, statusVars, subscription_queue_, active_subscription_>>
      PROVE  Goal
  <2>1. active_subscription_.cccd_handle \in Handles
    BY <1>5 DEF AttemptIsCoherent, TypeOK, SubscriptionType, Subscriptions
  <2>2. att_requests' \in Seq(Requests)
    BY <1>5, <2>1, RequestType
  <2>3. CASE TimedOut
    BY <1>5, <2>2, <2>3, GiveUpSubscribingType, 0 \in Nat
  <2>4. CASE ~TimedOut
    <3>1. StatusType' /\ setup_phase_' = setup_phase_
      BY <1>5, <2>4, SamePhaseType
    <3>2. SubscriptionType'
      BY <1>5, <2>4, OwnWriteType DEF TypeOK, SubscriptionType
    <3> QED
      BY <1>3, <2>2, <3>1, <3>2
  <2> QED
    BY <2>3, <2>4
<1>6. ASSUME GiveUpSubscribing(0), UNCHANGED att_requests
      PROVE  Goal
  BY <1>3, <1>6, GiveUpSubscribingType, 0 \in Nat
<1>7. ASSUME UNCHANGED <<phaseVars, statusVars, subVars, att_requests>>
      PROVE  Goal
  <2>1. StatusType' /\ setup_phase_' = setup_phase_
    BY <1>7, SamePhaseType
  <2>2. SubscriptionType' /\ att_requests' = att_requests
    BY <1>7 DEF TypeOK, SubscriptionType, subVars
  <2> QED
    BY <1>3, <2>1, <2>2
<1> QED
  <2> HIDE DEF Goal
  <2> QED
    BY <1>4, <1>5, <1>6, <1>7 DEF LoopWaiting

LEMMA LoopIdleType ==
  ASSUME SetupInv, LoopIdle
  PROVE  BranchTyped' /\ StaysConnected
<1> USE DEF SetupInv, LoopIdle, TypeOK
<1>1. ReadType' /\ RouteType'
  BY DEF ReadType, RouteType, readVars, valueVars, routeVars
<1>2. SubscriptionType' /\ StackType'
  BY DEF SubscriptionType, StackType, subVars, stackVars
<1>3. StatusType' /\ setup_phase_' = setup_phase_
  BY SamePhaseType
<1> QED
  BY <1>1, <1>2, <1>3 DEF BranchTyped, StaysConnected

LEMMA LoopType ==
  ASSUME SetupInv, Loop
  PROVE  TypeOK' /\ PhaseFollowsLink'
<1> USE DEF SetupInv
<1>1. BranchTyped' /\ StaysConnected
  BY LoopInventoryType, LoopReadingType, LoopBuildingType, LoopWritingType,
     LoopRegisteringType, LoopWaitingType, LoopIdleType DEF Loop
<1>2. FlowType'
  BY DEF Loop, InvalidateProfile, TypeOK, FlowType
<1>3. LinkType'
  <2>1. closing' \in BOOLEAN
    BY DEF Loop, InvalidateProfile
  <2>2. 0 \in 0 .. MaxLoopGap
    BY ParameterAssumption
  <2> QED
    BY <2>1, <2>2 DEF Loop, TypeOK, LinkType
<1>4. PhaseFollowsLink'
  BY <1>1 DEF Loop, PhaseFollowsLink, StaysConnected
<1> QED
  BY <1>1, <1>2, <1>3, <1>4 DEF TypeOK, BranchTyped

-----------------------------------------------------------------------------
(* The coherence of the attempt: what a handler does to it, and when.        *)

LEMMA NoAttempt ==
  ASSUME SetupInv, setup_phase_ \notin {"REGISTERING", "WAITING_FOR_CCCD"}
  PROVE  active_subscription_ = None
<1>1. setup_phase_ \in Phases /\ subscription_state_ \in Attempts(Handles)
  BY DEF SetupInv, TypeOK, StatusType, SubscriptionType
<1>2. subscription_state_.stage \in Stages
  BY <1>1 DEF Attempts
<1> QED
  BY <1>1, <1>2 DEF SetupInv, AttemptIsCoherent, Stages, Phases

LEMMA CoherentUntouched ==
  ASSUME SetupInv, UNCHANGED <<active_subscription_, subscription_state_>>,
         \/ setup_phase_' = setup_phase_
         \/ active_subscription_ = None /\ setup_phase_' # "WAITING_FOR_CCCD"
  PROVE  AttemptIsCoherent'
BY DEF SetupInv, AttemptIsCoherent

LEMMA CoherentDropped ==
  ASSUME DropSubscription, setup_phase_' # "WAITING_FOR_CCCD"
  PROVE  AttemptIsCoherent'
BY DEF DropSubscription, AttemptIsCoherent

LEMMA CoherentStart ==
  ASSUME NEW s \in Subscriptions, s.cccd_handle # NoHandle, setup_phase_' = "REGISTERING",
         active_subscription_' = s,
         subscription_state_' = Begin(s.characteristic_handle, s.cccd_handle)
  PROVE  AttemptIsCoherent'
<1>1. s # None
  BY PeerAssumption
<1> QED
  BY <1>1 DEF AttemptIsCoherent, Begin

\* The attempt goes on: only its stage, its deadline or its own write change.
LEMMA CoherentAdvance ==
  ASSUME SetupInv, active_subscription_ # None, UNCHANGED active_subscription_,
         subscription_state_' \in Attempts(Handles),
         subscription_state_'.characteristic_handle = subscription_state_.characteristic_handle,
         subscription_state_'.cccd_handle = subscription_state_.cccd_handle,
         subscription_state_'.stage = setup_phase_'
  PROVE  AttemptIsCoherent'
BY DEF SetupInv, AttemptIsCoherent

LEMMA CoherentOwnWrite ==
  ASSUME SetupInv, active_subscription_ # None,
         UNCHANGED active_subscription_, setup_phase_' = setup_phase_,
         subscription_state_' = OwnCccdWriteAttempted(subscription_state_)
  PROVE  AttemptIsCoherent'
<1>1. subscription_state_ \in Attempts(Handles)
  BY DEF SetupInv, TypeOK, SubscriptionType
<1>2. /\ subscription_state_' \in Attempts(Handles)
      /\ subscription_state_'.characteristic_handle = subscription_state_.characteristic_handle
      /\ subscription_state_'.cccd_handle = subscription_state_.cccd_handle
      /\ subscription_state_'.stage = subscription_state_.stage
  BY <1>1 DEF OwnCccdWriteAttempted, Attempts
<1>3. subscription_state_.stage = setup_phase_
  BY DEF SetupInv, AttemptIsCoherent
<1> QED
  BY <1>2, <1>3, CoherentAdvance

LEMMA LoopCoherent ==
  ASSUME SetupInv, Loop
  PROVE  AttemptIsCoherent'
<1>1. CASE LoopInventory \/ LoopReading \/ LoopBuilding \/ LoopWriting
  <2>1. active_subscription_ = None
    BY <1>1, NoAttempt DEF LoopInventory, LoopReading, LoopBuilding, LoopWriting
  <2>2. UNCHANGED <<active_subscription_, subscription_state_>>
    BY <1>1 DEF LoopInventory, LoopReading, LoopBuilding, LoopWriting, subVars
  <2>3. setup_phase_' # "WAITING_FOR_CCCD"
    BY <1>1 DEF LoopInventory, LoopReading, LoopBuilding, LoopWriting, Transition, Finalize,
                GiveUpReading, phaseVars
  <2> QED
    BY <2>1, <2>2, <2>3, CoherentUntouched
<1>2. CASE LoopRegistering
  <2>1. CASE UNCHANGED subVars
    <3>1. setup_phase_' = setup_phase_ \/ active_subscription_ = None \/ DropSubscription
      BY <1>2 DEF LoopRegistering, phaseVars, GiveUpSubscribing
    <3>2. setup_phase_' # "WAITING_FOR_CCCD"
      BY <1>2 DEF LoopRegistering, phaseVars, GiveUpSubscribing, Finalize, Transition
    <3> QED
      BY <2>1, <3>1, <3>2, CoherentUntouched, CoherentDropped DEF subVars
  <2>2. CASE DropSubscription
    <3>1. setup_phase_' # "WAITING_FOR_CCCD"
      BY <1>2 DEF LoopRegistering, phaseVars, GiveUpSubscribing, Finalize, Transition
    <3> QED
      BY <2>2, <3>1, CoherentDropped
  <2>3. CASE /\ subscription_queue_ # <<>> /\ setup_phase_' = "REGISTERING"
             /\ Head(subscription_queue_).cccd_handle # NoHandle
             /\ active_subscription_' = Head(subscription_queue_)
             /\ subscription_state_' = Begin(Head(subscription_queue_).characteristic_handle,
                                             Head(subscription_queue_).cccd_handle)
    <3>1. Head(subscription_queue_) \in Subscriptions
      BY <2>3, QueueType DEF SetupInv, TypeOK, SubscriptionType
    <3> QED
      BY <2>3, <3>1, CoherentStart
  <2> QED
    BY <1>2, <2>1, <2>2, <2>3 DEF LoopRegistering, GiveUpSubscribing, phaseVars
<1>3. CASE LoopWaiting
  <2>1. CASE OwnWriteNotScheduled
    BY <2>1, CoherentDropped DEF OwnWriteNotScheduled, FailSubscription, Transition
  <2>2. CASE GiveUpSubscribing(0)
    BY <2>2, CoherentDropped DEF GiveUpSubscribing, Finalize, Transition
  <2>3. CASE /\ active_subscription_ # None /\ UNCHANGED active_subscription_
             /\ setup_phase_' = setup_phase_
             /\ subscription_state_' = OwnCccdWriteAttempted(subscription_state_)
    BY <2>3, CoherentOwnWrite
  <2>4. CASE UNCHANGED <<active_subscription_, subscription_state_, setup_phase_>>
    BY <2>4, CoherentUntouched
  <2> QED
    BY <1>3, <2>1, <2>2, <2>3, <2>4 DEF LoopWaiting, phaseVars, subVars
<1>4. CASE LoopIdle
  BY <1>4, CoherentUntouched DEF LoopIdle, phaseVars, subVars
<1> QED
  BY <1>1, <1>2, <1>3, <1>4 DEF Loop

-----------------------------------------------------------------------------
(* gattc_event_handler. *)

LEMMA ResetType ==
  ASSUME ResetConnectionState
  PROVE  /\ ReadType' /\ RouteType' /\ SubscriptionType' /\ FlowType'
         /\ degraded_' \in BOOLEAN /\ operations_succeeded_' \in Nat /\ operations_failed_' \in Nat
<1>1. ReadType'
  BY EmptySeq DEF ResetConnectionState, ReadType
<1>2. RouteType'
  BY EmptySeq DEF ResetConnectionState, RouteType
<1>3. SubscriptionType'
  BY EmptySeq, DropType DEF ResetConnectionState, SubscriptionType
<1>4. FlowType' /\ degraded_' \in BOOLEAN
  BY DEF ResetConnectionState, FlowType
<1>5. operations_succeeded_' \in Nat /\ operations_failed_' \in Nat
  BY DEF ResetConnectionState
<1> QED
  BY <1>1, <1>2, <1>3, <1>4, <1>5

LEMMA ConnectInv ==
  ASSUME SetupInv, Connect
  PROVE  SetupInv'
<1> USE DEF SetupInv
<1>1. /\ ReadType' /\ RouteType' /\ SubscriptionType' /\ FlowType'
      /\ degraded_' \in BOOLEAN /\ operations_succeeded_' \in Nat /\ operations_failed_' \in Nat
  BY ResetType DEF Connect
<1>2. setup_phase_' = "WAITING_FOR_DISCOVERY" /\ phase_started_ms_' \in Time
  BY DEF Connect, Transition, TypeOK, LinkType
<1>3. StatusType'
  BY <1>1, <1>2 DEF Connect, StatusType, TypeOK, Phases
<1>4. LinkType'
  BY DEF Connect, TypeOK, LinkType, clockVars
<1>5. StackType'
  BY DEF Connect, TypeOK, StackType, stackVars
<1>6. PhaseFollowsLink'
  <2>1. peer' # None
    BY PeerAssumption DEF Connect
  <2> QED
    BY <1>2, <2>1 DEF Connect, PhaseFollowsLink
<1>7. AttemptIsCoherent'
  BY <1>2, CoherentDropped DEF Connect, ResetConnectionState
<1> QED
  BY <1>1, <1>3, <1>4, <1>5, <1>6, <1>7 DEF TypeOK

LEMMA DisconnectInv ==
  ASSUME SetupInv, Disconnect
  PROVE  SetupInv'
<1> USE DEF SetupInv
<1>1. /\ ReadType' /\ RouteType' /\ SubscriptionType' /\ FlowType'
      /\ degraded_' \in BOOLEAN /\ operations_succeeded_' \in Nat /\ operations_failed_' \in Nat
  BY ResetType DEF Disconnect
<1>2. setup_phase_' = "DISCONNECTED" /\ phase_started_ms_' \in Time
  BY DEF Disconnect, Transition, TypeOK, LinkType
<1>3. StatusType'
  BY <1>1, <1>2 DEF Disconnect, StatusType, Phases
<1>4. LinkType'
  BY DEF Disconnect, TypeOK, LinkType, clockVars
<1>5. StackType'
  <2>1. 0 \in 0 .. MaxForeign
    BY ParameterAssumption
  <2> QED
    BY <2>1, EmptySeq DEF Disconnect, StackType
<1>6. PhaseFollowsLink'
  BY <1>2 DEF Disconnect, PhaseFollowsLink
<1>7. AttemptIsCoherent'
  BY <1>2, CoherentDropped DEF Disconnect, ResetConnectionState
<1> QED
  BY <1>1, <1>3, <1>4, <1>5, <1>6, <1>7 DEF TypeOK

\* What the other handlers leave alone.
LEMMA LinkUntouched ==
  ASSUME TypeOK, UNCHANGED clockVars, UNCHANGED linkVars
  PROVE  LinkType'
BY DEF TypeOK, LinkType, clockVars, linkVars

LEMMA ReadUntouched ==
  ASSUME TypeOK, UNCHANGED readVars, UNCHANGED valueVars
  PROVE  ReadType'
BY DEF TypeOK, ReadType, readVars, valueVars

LEMMA RouteUntouched ==
  ASSUME TypeOK, UNCHANGED routeVars, UNCHANGED protocol_write_handles_
  PROVE  RouteType'
BY DEF TypeOK, RouteType, routeVars

LEMMA FlowUntouched == ASSUME TypeOK, UNCHANGED flowVars PROVE FlowType'
BY DEF TypeOK, FlowType, flowVars

LEMMA SubscriptionUntouched == ASSUME TypeOK, UNCHANGED subVars PROVE SubscriptionType'
BY DEF TypeOK, SubscriptionType, subVars

LEMMA StackUntouched == ASSUME TypeOK, UNCHANGED stackVars PROVE StackType'
BY DEF TypeOK, StackType, stackVars

LEMMA PhaseUntouched ==
  ASSUME PhaseFollowsLink, StaysConnected, UNCHANGED <<link, peer>>
  PROVE  PhaseFollowsLink'
BY DEF PhaseFollowsLink, StaysConnected

LEMMA SearchCompleteInv ==
  ASSUME SetupInv, SearchComplete
  PROVE  SetupInv'
<1> USE DEF SetupInv
<1>1. ReadType' /\ RouteType' /\ SubscriptionType' /\ FlowType' /\ StackType'
  BY ReadUntouched, RouteUntouched, SubscriptionUntouched, FlowUntouched, StackUntouched
     DEF SearchComplete
<1>2. LinkType'
  BY DEF SearchComplete, TypeOK, LinkType, clockVars
<1>3. StatusType' /\ setup_phase_' \in {"INVENTORY", "READY", "DEGRADED"}
  <2>1. CASE Transition("INVENTORY") /\ UNCHANGED statusVars
    <3>1. "INVENTORY" \in Phases
      BY DEF Phases
    <3> QED
      BY <2>1, <3>1, QuietMoveType
  <2>2. CASE Tally(0, 1, TRUE, FALSE) /\ Finalize(TRUE)
    BY <2>2, FinalizeType, 0 \in Nat, 1 \in Nat, TRUE \in BOOLEAN, FALSE \in BOOLEAN
  <2> QED
    BY <2>1, <2>2 DEF SearchComplete
<1>4. setup_phase_ = "WAITING_FOR_DISCOVERY"
  BY DEF SearchComplete, PhaseFollowsLink
<1>5. PhaseFollowsLink'
  BY <1>3 DEF SearchComplete, PhaseFollowsLink
<1>6. AttemptIsCoherent'
  <2>1. active_subscription_ = None
    BY <1>4, NoAttempt
  <2>2. UNCHANGED <<active_subscription_, subscription_state_>>
    BY DEF SearchComplete, subVars
  <2> QED
    BY <1>3, <2>1, <2>2, CoherentUntouched
<1> QED
  BY <1>1, <1>2, <1>3, <1>5, <1>6 DEF TypeOK

LEMMA ProcessReadValueType ==
  ASSUME TypeOK, active_read_ # None, NEW value, ProcessReadValue(active_read_, value)
  PROVE  /\ has_report_id_' \subseteq Handles /\ report_maps_' \subseteq Services
         /\ battery_handles_' \subseteq Handles
<1>1. active_read_.characteristic_handle \in Handles /\ active_read_.service_instance \in Services
  BY DEF TypeOK, ReadType, ReadOperations
<1>2. /\ has_report_id_ \subseteq Handles /\ report_maps_ \subseteq Services
      /\ battery_handles_ \subseteq Handles
  BY DEF TypeOK, ReadType, RouteType
<1> QED
  BY <1>1, <1>2 DEF ProcessReadValue

LEMMA ReadResultInv ==
  ASSUME SetupInv, ReadResult
  PROVE  SetupInv'
<1> USE DEF SetupInv
<1>1. SubscriptionType' /\ FlowType' /\ LinkType'
  BY SubscriptionUntouched, FlowUntouched, LinkUntouched DEF ReadResult
<1>2. UNCHANGED <<setup_phase_, phase_started_ms_, link, peer, active_subscription_,
                  subscription_state_>>
  BY DEF ReadResult, phaseVars, linkVars, subVars
<1>3. PhaseFollowsLink' /\ AttemptIsCoherent'
  BY <1>2, PhaseUntouched, CoherentUntouched DEF StaysConnected
<1>4. StackType'
  <2>1. att_requests' \in Seq(Requests)
    BY QueueType DEF ReadResult, TypeOK, StackType
  <2> QED
    BY <2>1 DEF ReadResult, TypeOK, StackType
<1>5. /\ read_queue_' = read_queue_ /\ hid_report_handles_' = hid_report_handles_
      /\ service_changed_handles_' = service_changed_handles_
      /\ protocol_write_handles_' = protocol_write_handles_
  BY DEF ReadResult
<1> DEFINE Goal == /\ StatusType' /\ active_read_' \in ReadOperations \cup {None}
                   /\ has_report_id_' \subseteq Handles /\ report_maps_' \subseteq Services
                   /\ battery_handles_' \subseteq Handles
<1> SUFFICES Goal
  BY <1>1, <1>3, <1>4, <1>5 DEF TypeOK, ReadType, RouteType
<1>6. /\ has_report_id_ \subseteq Handles /\ report_maps_ \subseteq Services
      /\ battery_handles_ \subseteq Handles /\ active_read_ \in ReadOperations \cup {None}
      /\ setup_phase_ \in Phases /\ UNCHANGED phaseVars
  BY DEF ReadResult, TypeOK, StatusType, ReadType, RouteType
<1>7. ASSUME UNCHANGED <<active_read_, statusVars, valueVars, battery_handles_>>
      PROVE  Goal
  <2>1. StatusType'
    BY <1>6, <1>7, SamePhaseType
  <2>2. UNCHANGED <<active_read_, has_report_id_, report_maps_, battery_handles_>>
    BY <1>7 DEF valueVars
  <2> QED
    BY <1>6, <2>1, <2>2
<1>8. ASSUME active_read_ # None, active_read_' = None, TallyFailure(active_read_.required),
             UNCHANGED <<valueVars, battery_handles_>>
      PROVE  Goal
  <2>1. active_read_.required \in BOOLEAN
    BY <1>6, <1>8 DEF ReadOperations
  <2>2. StatusType'
    BY <1>6, <1>8, <2>1, TallyFailureType
  <2>3. UNCHANGED <<has_report_id_, report_maps_, battery_handles_>>
    BY <1>8 DEF valueVars
  <2> QED
    BY <1>6, <1>8, <2>2, <2>3
<1>9. ASSUME active_read_ # None, active_read_' = None, NEW value \in ReadValues,
             LET rejected == ValueRejected(active_read_, value)
             IN  /\ Tally(1, IF rejected THEN 1 ELSE 0, rejected, FALSE)
                 /\ KeepWarning(rejected)
                 /\ ProcessReadValue(active_read_, value)
      PROVE  Goal
  <2> DEFINE rejected == ValueRejected(active_read_, value)
             failures == IF rejected THEN 1 ELSE 0
  <2>1. rejected \in BOOLEAN
    BY DEF ValueRejected
  <2>2. failures \in Nat
    OBVIOUS
  <2>3. Tally(1, failures, rejected, FALSE) /\ KeepWarning(rejected)
    BY <1>9
  <2>4. StatusType'
    <3> HIDE DEF rejected, failures
    <3> QED
      BY <1>6, <2>1, <2>2, <2>3, MoveType, 1 \in Nat, FALSE \in BOOLEAN
  <2> QED
    BY <1>9, <2>4, ProcessReadValueType
<1> QED
  <2> HIDE DEF Goal
  <2> QED
    BY <1>7, <1>8, <1>9 DEF ReadResult

LEMMA FrameworkWritesType ==
  ASSUME SetupInv, setup_phase_ # "DISCONNECTED", NEW handle,
         NEW writes \in FrameworkWrites(handle)
  PROVE  writes \in Seq(Requests)
<1>1. CASE writes = <<>>
  BY <1>1, EmptySeq
<1>2. CASE writes # <<>>
  <2>1. PICK i \in DOMAIN peer.subscriptions :
          /\ peer.subscriptions[i].cccd_handle # NoHandle
          /\ writes = <<[op |-> "FRAMEWORK_CCCD",
                         handle |-> peer.subscriptions[i].cccd_handle]>>
    BY <1>2 DEF FrameworkWrites
  <2>2. peer.subscriptions[i] \in Subscriptions
    BY PeerTyped, ElementOfSeq, LenProperties
  <2>3. [op |-> "FRAMEWORK_CCCD", handle |-> peer.subscriptions[i].cccd_handle] \in Requests
    BY <2>1, <2>2 DEF Subscriptions, Requests
  <2> QED
    BY <2>1, <2>3
<1> QED
  BY <1>1, <1>2

LEMMA RegistrationResultInv ==
  ASSUME SetupInv, RegistrationResult
  PROVE  SetupInv'
<1> USE DEF SetupInv
<1>1. ReadType' /\ RouteType' /\ FlowType' /\ LinkType'
  BY ReadUntouched, RouteUntouched, FlowUntouched, LinkUntouched DEF RegistrationResult
<1>2. UNCHANGED <<link, peer, subscription_queue_, enabled_cccds, foreign>>
  BY DEF RegistrationResult, linkVars
<1>3. setup_phase_ # "DISCONNECTED"
  BY DEF RegistrationResult, PhaseFollowsLink
<1> DEFINE handle == Head(registrations)
<1>4. handle \in Handles /\ registrations' \in Seq(Handles)
  BY QueueType DEF RegistrationResult, TypeOK, StackType
<1> HIDE DEF handle
<1>5. PICK success \in BOOLEAN :
        /\ registered' = IF success THEN registered \cup {handle} ELSE registered
        /\ \E writes \in (IF success THEN FrameworkWrites(handle) ELSE {<<>>}) :
             att_requests' = att_requests \o writes
        /\ \/ UNCHANGED <<phaseVars, statusVars, active_subscription_, subscription_state_>>
           \/ active_subscription_ # None /\ FailSubscription
           \/ /\ active_subscription_ # None
              /\ RegistrationDecision(subscription_state_, handle, success) = "WAIT_FOR_CCCD"
              /\ subscription_state_' = Registered(subscription_state_, now)
              /\ Transition("WAITING_FOR_CCCD")
              /\ UNCHANGED <<statusVars, active_subscription_>>
  BY DEF RegistrationResult, handle
<1>6. StackType'
  <2>1. registered' \subseteq Handles
    BY <1>4, <1>5 DEF TypeOK, StackType
  <2>2. PICK writes \in (IF success THEN FrameworkWrites(handle) ELSE {<<>>}) :
          att_requests' = att_requests \o writes
    BY <1>5
  <2>3. writes \in Seq(Requests)
    BY <1>3, <2>2, FrameworkWritesType, EmptySeq
  <2>4. att_requests' \in Seq(Requests)
    BY <2>2, <2>3, ConcatProperties DEF TypeOK, StackType
  <2> QED
    BY <1>2, <1>4, <2>1, <2>4 DEF TypeOK, StackType
<1>7. CASE UNCHANGED <<phaseVars, statusVars, active_subscription_, subscription_state_>>
  <2>1. StatusType' /\ setup_phase_' = setup_phase_
    BY <1>7, SamePhaseType
  <2>2. UNCHANGED <<active_subscription_, subscription_state_>>
    BY <1>7
  <2>3. SubscriptionType'
    BY <1>2, <2>2 DEF TypeOK, SubscriptionType
  <2>4. PhaseFollowsLink' /\ AttemptIsCoherent'
    BY <1>2, <2>1, <2>2, PhaseUntouched, CoherentUntouched DEF StaysConnected
  <2> QED
    BY <1>1, <1>6, <2>1, <2>3, <2>4 DEF TypeOK
<1>8. ASSUME active_subscription_ # None PROVE setup_phase_ \in {"REGISTERING", "WAITING_FOR_CCCD"}
  BY <1>8, NoAttempt
<1>9. CASE active_subscription_ # None /\ FailSubscription
  <2>1. StatusType' /\ SubscriptionType' /\ setup_phase_' = "REGISTERING"
    BY <1>2, <1>9, FailSubscriptionType
  <2>2. PhaseFollowsLink'
    BY <1>2, <1>8, <1>9, <2>1, PhaseUntouched DEF StaysConnected
  <2>3. AttemptIsCoherent'
    BY <1>9, <2>1, CoherentDropped DEF FailSubscription
  <2> QED
    BY <1>1, <1>6, <2>1, <2>2, <2>3 DEF TypeOK
<1>10. CASE /\ active_subscription_ # None
            /\ subscription_state_' = Registered(subscription_state_, now)
            /\ Transition("WAITING_FOR_CCCD")
            /\ UNCHANGED <<statusVars, active_subscription_>>
  <2>1. "WAITING_FOR_CCCD" \in Phases
    BY DEF Phases
  <2>2. StatusType' /\ setup_phase_' = "WAITING_FOR_CCCD"
    BY <1>10, <2>1, QuietMoveType
  <2>3. subscription_state_ \in Attempts(Handles) /\ now \in Time
    BY DEF TypeOK, SubscriptionType, LinkType
  <2>4. subscription_state_' \in Attempts(Handles)
    BY <1>10, <2>3, RegisteredType
  <2>5. SubscriptionType'
    BY <1>2, <1>10, <2>4 DEF TypeOK, SubscriptionType
  <2>6. PhaseFollowsLink'
    BY <1>2, <1>8, <1>10, <2>2, PhaseUntouched DEF StaysConnected
  <2>7. /\ subscription_state_'.characteristic_handle = subscription_state_.characteristic_handle
        /\ subscription_state_'.cccd_handle = subscription_state_.cccd_handle
        /\ subscription_state_'.stage = "WAITING_FOR_CCCD"
    BY <1>10, <2>3 DEF Registered, Attempts
  <2>8. AttemptIsCoherent'
    BY <1>10, <2>2, <2>4, <2>7, CoherentAdvance
  <2> QED
    BY <1>1, <1>6, <2>2, <2>5, <2>6, <2>8 DEF TypeOK
<1> QED
  BY <1>5, <1>7, <1>9, <1>10

LEMMA CccdResultInv ==
  ASSUME SetupInv, CccdResult
  PROVE  SetupInv'
<1> USE DEF SetupInv
<1>1. ReadType' /\ RouteType' /\ FlowType' /\ LinkType'
  BY ReadUntouched, RouteUntouched, FlowUntouched, LinkUntouched DEF CccdResult
<1>2. UNCHANGED <<link, peer, subscription_queue_, registrations, registered, foreign>>
  BY DEF CccdResult, linkVars
<1>3. /\ Head(att_requests) \in Requests /\ Head(att_requests).handle \in Handles
      /\ Tail(att_requests) \in Seq(Requests)
  <2>1. Head(att_requests) \in Requests /\ Tail(att_requests) \in Seq(Requests)
    BY QueueType DEF CccdResult, TypeOK, StackType
  <2> QED
    BY <2>1 DEF Requests
<1>4. enabled_cccds' \subseteq Handles
  BY <1>3 DEF CccdResult, TypeOK, StackType
<1> DEFINE Goal == /\ StatusType' /\ SubscriptionType' /\ StaysConnected
                   /\ AttemptIsCoherent' /\ att_requests' \in Seq(Requests)
<1> SUFFICES Goal
  BY <1>1, <1>2, <1>4, PhaseUntouched DEF TypeOK, StackType
<1>5. ASSUME att_requests' = Tail(att_requests),
             UNCHANGED <<phaseVars, statusVars, active_subscription_, subscription_state_>>
      PROVE  Goal
  <2>1. StatusType' /\ setup_phase_' = setup_phase_
    BY <1>5, SamePhaseType
  <2>2. UNCHANGED <<active_subscription_, subscription_state_>>
    BY <1>5
  <2>3. SubscriptionType'
    BY <1>2, <2>2 DEF TypeOK, SubscriptionType
  <2> QED
    BY <1>3, <1>5, <2>1, <2>2, <2>3, CoherentUntouched DEF StaysConnected
<1>6. ASSUME active_subscription_ # None
      PROVE  setup_phase_ \in {"REGISTERING", "WAITING_FOR_CCCD"}
  BY <1>6, NoAttempt
<1>7. ASSUME active_subscription_ # None, att_requests' = Tail(att_requests),
             Tally(1, 0, FALSE, FALSE), KeepWarning(FALSE),
             DropSubscription, Transition("REGISTERING")
      PROVE  Goal
  <2>1. "REGISTERING" \in Phases
    BY DEF Phases
  <2>2. StatusType' /\ setup_phase_' = "REGISTERING"
    BY <1>7, <2>1, MoveType, 0 \in Nat, 1 \in Nat, FALSE \in BOOLEAN
  <2>3. SubscriptionType'
    BY <1>2, <1>7, DropType DEF TypeOK, SubscriptionType
  <2> QED
    BY <1>3, <1>6, <1>7, <2>2, <2>3, CoherentDropped DEF StaysConnected
<1>8. ASSUME active_subscription_ # None,
             att_requests' = Append(Tail(att_requests),
                                    [op |-> "OWN_CCCD",
                                     handle |-> active_subscription_.cccd_handle]),
             subscription_state_' = OwnCccdWriteAttempted(subscription_state_),
             UNCHANGED <<phaseVars, statusVars, active_subscription_>>
      PROVE  Goal
  <2>1. StatusType' /\ setup_phase_' = setup_phase_
    BY <1>8, SamePhaseType
  <2>2. SubscriptionType'
    BY <1>2, <1>8, OwnWriteType DEF TypeOK, SubscriptionType
  <2>3. AttemptIsCoherent'
    BY <1>8, <2>1, CoherentOwnWrite
  <2>4. [op |-> "OWN_CCCD", handle |-> active_subscription_.cccd_handle] \in Requests
    BY <1>8 DEF AttemptIsCoherent, TypeOK, SubscriptionType, Subscriptions, Requests
  <2>5. att_requests' \in Seq(Requests)
    BY <1>3, <1>8, <2>4, AppendProperties
  <2> QED
    BY <2>1, <2>2, <2>3, <2>5 DEF StaysConnected
<1>9. ASSUME active_subscription_ # None, att_requests' = Tail(att_requests), FailSubscription
      PROVE  Goal
  <2>1. StatusType' /\ SubscriptionType' /\ setup_phase_' = "REGISTERING"
    BY <1>2, <1>9, FailSubscriptionType
  <2> QED
    BY <1>3, <1>6, <1>9, <2>1, CoherentDropped DEF StaysConnected, FailSubscription
<1> QED
  <2> HIDE DEF Goal
  <2> QED
    BY <1>5, <1>7, <1>8, <1>9 DEF CccdResult

LEMMA FlowEventInv ==
  ASSUME SetupInv, UNCHANGED <<unchangedButFlow, stackVars>>, FlowType'
  PROVE  SetupInv'
<1> USE DEF SetupInv
<1>1. UNCHANGED <<phaseVars, statusVars, readVars, valueVars, routeVars,
                  protocol_write_handles_, subVars, clockVars, linkVars>>
  BY DEF unchangedButFlow
<1>2. ReadType' /\ RouteType' /\ SubscriptionType' /\ LinkType' /\ StackType'
  BY <1>1, ReadUntouched, RouteUntouched, SubscriptionUntouched, LinkUntouched, StackUntouched
<1>3. StatusType' /\ setup_phase_' = setup_phase_
  BY <1>1, SamePhaseType
<1>4. UNCHANGED <<link, peer, active_subscription_, subscription_state_>>
  BY <1>1 DEF linkVars, subVars
<1>5. PhaseFollowsLink' /\ AttemptIsCoherent'
  BY <1>3, <1>4, PhaseUntouched, CoherentUntouched DEF StaysConnected
<1> QED
  BY <1>2, <1>3, <1>5 DEF TypeOK

LEMMA ForeignRegistrationInv ==
  ASSUME SetupInv, ForeignRegistration
  PROVE  SetupInv'
<1> USE DEF SetupInv
<1>1. UNCHANGED <<phaseVars, statusVars, readVars, valueVars, routeVars,
                  protocol_write_handles_, subVars, clockVars, linkVars, flowVars>>
  BY DEF ForeignRegistration, unchangedButFlow
<1>2. ReadType' /\ RouteType' /\ SubscriptionType' /\ LinkType' /\ FlowType'
  BY <1>1, ReadUntouched, RouteUntouched, SubscriptionUntouched, LinkUntouched, FlowUntouched
<1>3. StatusType' /\ setup_phase_' = setup_phase_
  BY <1>1, SamePhaseType
<1>4. UNCHANGED <<link, peer, active_subscription_, subscription_state_>>
  BY <1>1 DEF linkVars, subVars
<1>5. PhaseFollowsLink' /\ AttemptIsCoherent'
  BY <1>3, <1>4, PhaseUntouched, CoherentUntouched DEF StaysConnected
<1>6. StackType'
  <2>1. foreign' \in 0 .. MaxForeign
    BY ParameterAssumption DEF ForeignRegistration, TypeOK, StackType
  <2>2. setup_phase_ # "DISCONNECTED"
    BY DEF ForeignRegistration, PhaseFollowsLink
  <2>3. PICK h \in CharacteristicHandles(peer) : registrations' = Append(registrations, h)
    BY DEF ForeignRegistration
  <2>4. PICK i \in DOMAIN peer.subscriptions :
          h = peer.subscriptions[i].characteristic_handle
    BY <2>3 DEF CharacteristicHandles
  <2>5. peer.subscriptions[i] \in Subscriptions
    BY <2>2, <2>4, PeerTyped, ElementOfSeq, LenProperties
  <2>6. h \in Handles
    BY <2>4, <2>5 DEF Subscriptions
  <2>7. registrations' \in Seq(Handles)
    BY <2>3, <2>6, AppendProperties DEF TypeOK, StackType
  <2> QED
    BY <2>1, <2>7 DEF ForeignRegistration, TypeOK, StackType
<1> QED
  BY <1>2, <1>3, <1>5, <1>6 DEF TypeOK

LEMMA TickInv ==
  ASSUME SetupInv, Tick
  PROVE  SetupInv'
<1> USE DEF SetupInv
<1>1. ReadType' /\ RouteType' /\ SubscriptionType' /\ FlowType' /\ StackType'
  BY ReadUntouched, RouteUntouched, SubscriptionUntouched, FlowUntouched, StackUntouched DEF Tick
<1>2. StatusType' /\ setup_phase_' = setup_phase_
  BY SamePhaseType DEF Tick
<1>3. LinkType'
  <2>1. now' \in Time
    BY ClockStep, 1 \in Nat DEF Tick, TypeOK, LinkType
  <2>2. since_loop' \in 0 .. MaxLoopGap
    BY ParameterAssumption DEF Tick, TypeOK, LinkType
  <2> QED
    BY <2>1, <2>2 DEF Tick, TypeOK, LinkType, linkVars
<1>4. UNCHANGED <<link, peer, active_subscription_, subscription_state_>>
  BY DEF Tick, linkVars, subVars
<1>5. PhaseFollowsLink' /\ AttemptIsCoherent'
  BY <1>2, <1>4, PhaseUntouched, CoherentUntouched DEF StaysConnected
<1> QED
  BY <1>1, <1>2, <1>3, <1>5 DEF TypeOK

LEMMA StutterInv ==
  ASSUME SetupInv, UNCHANGED vars
  PROVE  SetupInv'
<1>1. UNCHANGED <<unchangedButFlow, stackVars>> /\ UNCHANGED flowVars
  BY DEF vars, unchangedButFlow
<1>2. FlowType'
  BY <1>1, FlowUntouched DEF SetupInv
<1> QED
  BY <1>1, <1>2, FlowEventInv

-----------------------------------------------------------------------------
(* The invariant. *)

LEMMA StepInv == SetupInv /\ [Next]_vars => SetupInv'
<1> SUFFICES ASSUME SetupInv, [Next]_vars PROVE SetupInv'
  OBVIOUS
<1>1. CASE Loop
  BY <1>1, LoopType, LoopCoherent DEF SetupInv
<1>2. CASE Connect
  BY <1>2, ConnectInv
<1>3. CASE Disconnect
  BY <1>3, DisconnectInv
<1>4. CASE SearchComplete
  BY <1>4, SearchCompleteInv
<1>5. CASE ReadResult
  BY <1>5, ReadResultInv
<1>6. CASE RegistrationResult
  BY <1>6, RegistrationResultInv
<1>7. CASE CccdResult
  BY <1>7, CccdResultInv
<1>8. ASSUME NEW handle \in Handles, Notification(handle) PROVE SetupInv'
  <2>1. FlowType'
    BY <1>8 DEF Notification, FlowType, SetupInv, TypeOK
  <2>2. UNCHANGED <<unchangedButFlow, stackVars>>
    BY <1>8 DEF Notification
  <2> QED
    BY <2>1, <2>2, FlowEventInv
<1>9. CASE ServiceChanged
  <2>1. FlowType'
    BY <1>9 DEF ServiceChanged, FlowType, SetupInv, TypeOK
  <2>2. UNCHANGED <<unchangedButFlow, stackVars>>
    BY <1>9 DEF ServiceChanged
  <2> QED
    BY <2>1, <2>2, FlowEventInv
<1>10. ASSUME NEW congested \in BOOLEAN, Congestion(congested) PROVE SetupInv'
  <2>1. FlowType'
    BY <1>10 DEF Congestion, FlowType, SetupInv, TypeOK
  <2>2. UNCHANGED <<unchangedButFlow, stackVars>>
    BY <1>10 DEF Congestion
  <2> QED
    BY <2>1, <2>2, FlowEventInv
<1>11. CASE ForeignRegistration
  BY <1>11, ForeignRegistrationInv
<1>12. CASE Tick
  BY <1>12, TickInv
<1>13. CASE UNCHANGED vars
  BY <1>13, StutterInv
<1> QED
  BY <1>1, <1>2, <1>3, <1>4, <1>5, <1>6, <1>7, <1>8, <1>9, <1>10, <1>11, <1>12, <1>13
     DEF Next, Callback

\* Every reachable state of setup is typed, and in it the phase agrees with the
\* link and the attempt with the phase, whatever the peer answers and when.
THEOREM SetupInvariant == Spec => []SetupInv
<1>1. Init => SetupInv
  BY TypeInit
<1>2. SetupInv /\ [Next]_vars => SetupInv'
  BY StepInv
<1> QED
  BY <1>1, <1>2, PTL DEF Spec

\* The variables of BLEClientHID keep the types their declarations give them, and
\* the clock its width.
THEOREM TypeCorrect == Spec => []TypeOK
<1>1. SetupInv => TypeOK
  BY DEF SetupInv
<1> QED
  BY <1>1, SetupInvariant, PTL

\* active_subscription_, subscription_state_ and setup_phase_ always agree on the
\* subscription attempt, for every database and every order of events.
THEOREM AttemptCoherence == Spec => []AttemptIsCoherent
<1>1. SetupInv => AttemptIsCoherent
  BY DEF SetupInv
<1> QED
  BY <1>1, SetupInvariant, PTL

-----------------------------------------------------------------------------
(* The outcome is final.  A late answer finds no operation in progress: no    *)
(* attempt, by the invariant above, and no read, by the one below.            *)

ReadFollowsPhase == active_read_ # None => setup_phase_ = "READING"

LEMMA ReadFollowsPhaseInit == Init => ReadFollowsPhase
BY DEF Init, ReadFollowsPhase

LEMMA ReadFollowsPhaseStep ==
  ASSUME SetupInv, ReadFollowsPhase, [Next]_vars
  PROVE  ReadFollowsPhase'
<1> USE DEF ReadFollowsPhase
<1>1. CASE LoopInventory
  BY <1>1 DEF LoopInventory, readVars, PlanReads
<1>2. CASE LoopReading
  BY <1>2 DEF LoopReading, readVars, GiveUpReading, phaseVars, Transition
<1>3. CASE LoopBuilding \/ LoopWriting \/ LoopRegistering \/ LoopWaiting
  BY <1>3 DEF LoopBuilding, LoopWriting, LoopRegistering, LoopWaiting, readVars
<1>4. CASE LoopIdle
  BY <1>4 DEF LoopIdle, readVars, phaseVars
<1>5. CASE Connect \/ Disconnect
  BY <1>5 DEF Connect, Disconnect, ResetConnectionState
<1>6. CASE SearchComplete
  BY <1>6 DEF SearchComplete, readVars, SetupInv, PhaseFollowsLink
<1>7. CASE ReadResult
  BY <1>7 DEF ReadResult, phaseVars
<1>8. CASE RegistrationResult \/ CccdResult
  <2>1. active_read_' = active_read_
    BY <1>8 DEF RegistrationResult, CccdResult, readVars
  <2>2. CASE active_subscription_ = None
    BY <1>8, <2>1, <2>2 DEF RegistrationResult, CccdResult, phaseVars
  <2>3. CASE active_subscription_ # None
    BY <2>1, <2>3, NoAttempt
  <2> QED
    BY <2>2, <2>3
<1>9. CASE UNCHANGED <<readVars, phaseVars>>
  BY <1>9 DEF readVars, phaseVars
<1> QED
  BY <1>1, <1>2, <1>3, <1>4, <1>5, <1>6, <1>7, <1>8, <1>9
     DEF Next, Loop, Callback, Notification, ServiceChanged, Congestion, ForeignRegistration,
         Tick, unchangedButFlow, vars

LEMMA OutcomeStep ==
  ASSUME SetupInv, ReadFollowsPhase, [Next]_vars, setup_phase_ \in FinalPhases
  PROVE  link' = "DOWN" \/ UNCHANGED setupVars
<1> USE DEF FinalPhases
<1>1. link = "UP"
  BY DEF SetupInv, PhaseFollowsLink, TypeOK, LinkType
<1>2. active_subscription_ = None /\ active_read_ = None
  BY NoAttempt DEF ReadFollowsPhase
<1>3. CASE Loop
  BY <1>3 DEF Loop, LoopInventory, LoopReading, LoopBuilding, LoopWriting, LoopRegistering,
              LoopWaiting, LoopIdle, setupVars
<1>4. CASE Connect \/ SearchComplete
  BY <1>1, <1>4 DEF Connect, SearchComplete
<1>5. CASE Disconnect
  BY <1>5 DEF Disconnect
<1>6. CASE ReadResult
  BY <1>2, <1>6 DEF ReadResult, setupVars, phaseVars, readVars, routeVars, subVars
<1>7. CASE RegistrationResult \/ CccdResult
  BY <1>2, <1>7 DEF RegistrationResult, CccdResult, setupVars, subVars
<1>8. CASE UNCHANGED setupVars
  BY <1>8
<1> QED
  BY <1>3, <1>4, <1>5, <1>6, <1>7, <1>8
     DEF Next, Callback, Notification, ServiceChanged, Congestion, ForeignRegistration,
         Tick, unchangedButFlow, vars, setupVars

\* READY, DEGRADED and NO_HID stand until the link goes down: no answer that comes
\* after the operation it belongs to was given up changes anything setup keeps.
THEOREM OutcomeStands == Spec => OutcomeIsFinal
<1>1. Init => SetupInv /\ ReadFollowsPhase
  BY TypeInit, ReadFollowsPhaseInit
<1>2. SetupInv /\ ReadFollowsPhase /\ [Next]_vars => (SetupInv /\ ReadFollowsPhase)'
  BY StepInv, ReadFollowsPhaseStep
<1>3. SetupInv /\ ReadFollowsPhase /\ [Next]_vars
        => [(setup_phase_ \in FinalPhases) => (link' = "DOWN" \/ UNCHANGED setupVars)]_vars
  BY OutcomeStep
<1> QED
  BY <1>1, <1>2, <1>3, PTL DEF Spec, OutcomeIsFinal

-----------------------------------------------------------------------------
(* What timeouts may not break.  The phase timeouts hold across the          *)
(* wraparound of millis(): the age of a phase, a difference modulo           *)
(* TimeModulus, never gets so old that it could be taken for a young one.    *)
(* The CCCD fallback is not starved by the timeout of its phase.  And a read *)
(* that a timeout gave up leaves an answer due that is never taken for       *)
(* another's.                                                                *)

PhaseAge == (now - phase_started_ms_) % TimeModulus

\* The last iteration of loop() left a phase that had not timed out, and the clock
\* has advanced since_loop ticks since.
AgeFollowsLoop == setup_phase_ \in TimedPhases => PhaseAge < PhaseTimeout + since_loop

LEMMA AgeType ==
  ASSUME NEW a \in Time, NEW b \in Time
  PROVE  (a - b) % TimeModulus = IF a >= b THEN a - b ELSE a - b + TimeModulus
BY TimeAssumption DEF Time

LEMMA AgeStep ==
  ASSUME NEW a \in Time, NEW b \in Time, ((a - b) % TimeModulus) + 1 < TimeModulus
  PROVE  (((a + 1) % TimeModulus) - b) % TimeModulus = ((a - b) % TimeModulus) + 1
<1>1. TimeModulus \in Nat \ {0} /\ a \in Int /\ b \in Int
  BY TimeAssumption DEF Time
<1>2. CASE a + 1 < TimeModulus
  <2>1. (a + 1) % TimeModulus = a + 1 /\ a + 1 \in Time
    BY <1>1, <1>2 DEF Time
  <2> QED
    BY <1>1, <2>1, AgeType DEF Time
<1>3. CASE ~(a + 1 < TimeModulus)
  <2>1. a + 1 = TimeModulus
    BY <1>1, <1>3 DEF Time
  <2>2. (a + 1) % TimeModulus = 0 /\ 0 \in Time
    BY <1>1, <2>1 DEF Time
  <2> QED
    BY <1>1, <2>1, <2>2, AgeType DEF Time
<1> QED
  BY <1>2, <1>3

LEMMA AgeZero == ASSUME NEW a \in Time PROVE (a - a) % TimeModulus = 0
BY TimeAssumption DEF Time

-----------------------------------------------------------------------------
\* What a step may do to the timer of the phase.
Restarted == phase_started_ms_' = now /\ now' = now /\ since_loop' \in 0 .. MaxLoopGap
Kept == setup_phase_' = setup_phase_ /\ phase_started_ms_' = phase_started_ms_ /\ now' = now

LEMMA RestartedStep ==
  ASSUME SetupInv, Restarted
  PROVE  AgeFollowsLoop'
<1>1. now \in Time
  BY DEF SetupInv, TypeOK, LinkType
<1>2. PhaseAge' = 0
  BY <1>1, AgeZero DEF Restarted, PhaseAge
<1>3. ASSUME NEW gap \in 0 .. MaxLoopGap PROVE 0 < PhaseTimeout + gap
  BY ParameterAssumption
<1>4. 0 < PhaseTimeout + since_loop'
  BY <1>3 DEF Restarted
<1> QED
  BY <1>2, <1>4 DEF AgeFollowsLoop

LEMMA KeptStep ==
  ASSUME AgeFollowsLoop, Kept, since_loop' = since_loop
  PROVE  AgeFollowsLoop'
BY DEF AgeFollowsLoop, Kept, PhaseAge

LEMMA LoopTimer ==
  ASSUME SetupInv, Loop
  PROVE  Restarted \/ (Kept /\ ~TimedOut)
<1>1. 0 \in 0 .. MaxLoopGap
  BY ParameterAssumption
<1>2. now' = now /\ since_loop' = 0
  BY DEF Loop
<1>3. CASE LoopInventory \/ LoopReading \/ LoopBuilding
  BY <1>1, <1>2, <1>3 DEF LoopInventory, LoopReading, LoopBuilding, Restarted, Kept, Transition,
                          Finalize, GiveUpReading, phaseVars
<1>4. CASE LoopWriting
  BY <1>1, <1>2, <1>4 DEF LoopWriting, Restarted, Kept, Transition, Finalize, phaseVars
<1>5. CASE LoopRegistering \/ LoopWaiting
  BY <1>1, <1>2, <1>5 DEF LoopRegistering, LoopWaiting, Restarted, Kept, Transition, Finalize,
                          OwnWriteNotScheduled, FailSubscription, GiveUpSubscribing, phaseVars
<1>6. CASE LoopIdle
  BY <1>1, <1>2, <1>6 DEF LoopIdle, Kept, TimedOut, phaseVars
<1> QED
  BY <1>3, <1>4, <1>5, <1>6 DEF Loop

LEMMA LoopAge ==
  ASSUME SetupInv, Loop
  PROVE  AgeFollowsLoop'
<1>1. CASE Restarted
  BY <1>1, RestartedStep
<1>2. CASE Kept /\ ~TimedOut
  <2>1. since_loop' = 0 /\ PhaseTimeout \in Nat
    BY ParameterAssumption DEF Loop
  <2>2. PhaseAge' = PhaseAge /\ setup_phase_' = setup_phase_
    BY <1>2 DEF Kept, PhaseAge
  <2>3. PhaseAge \in Nat
    BY TimeAssumption DEF PhaseAge, SetupInv, TypeOK, StatusType, LinkType, Time
  <2>4. setup_phase_ \in TimedPhases => ~(PhaseAge >= PhaseTimeout)
    BY <1>2 DEF TimedOut, Elapsed, PhaseAge
  <2> QED
    BY <2>1, <2>2, <2>3, <2>4 DEF AgeFollowsLoop
<1> QED
  BY <1>1, <1>2, LoopTimer

LEMMA TickAge ==
  ASSUME SetupInv, AgeFollowsLoop, Tick
  PROVE  AgeFollowsLoop'
<1>1. now \in Time /\ phase_started_ms_ \in Time /\ since_loop \in 0 .. MaxLoopGap
  BY DEF SetupInv, TypeOK, StatusType, LinkType
<1>2. PhaseAge \in Nat
  BY <1>1, TimeAssumption DEF PhaseAge, Time
<1>3. /\ PhaseTimeout \in Nat /\ FallbackDelay \in Nat /\ MaxLoopGap \in Nat /\ TimeModulus \in Nat
      /\ 2 * (PhaseTimeout + FallbackDelay + MaxLoopGap) < TimeModulus
  BY ParameterAssumption, TimeAssumption
<1>4. PhaseAge < PhaseTimeout + since_loop /\ since_loop < MaxLoopGap
  BY DEF AgeFollowsLoop, Tick
<1>5. PhaseAge + 1 < TimeModulus
  BY <1>1, <1>2, <1>3, <1>4
<1>6. PhaseAge' = PhaseAge + 1
  BY <1>1, <1>5, AgeStep DEF PhaseAge, Tick, phaseVars
<1>7. since_loop' = since_loop + 1
  BY DEF Tick
<1> QED
  BY <1>1, <1>2, <1>3, <1>4, <1>6, <1>7 DEF AgeFollowsLoop

LEMMA CallbackAge ==
  ASSUME SetupInv, AgeFollowsLoop, Callback \/ ForeignRegistration \/ UNCHANGED vars
  PROVE  AgeFollowsLoop'
<1>1. since_loop \in 0 .. MaxLoopGap
  BY DEF SetupInv, TypeOK, LinkType
<1>2. since_loop' = since_loop
  BY DEF Callback, Connect, Disconnect, SearchComplete, ReadResult, RegistrationResult,
         CccdResult, Notification, ServiceChanged, Congestion, ForeignRegistration,
         unchangedButFlow, clockVars, vars
<1>3. CASE Connect \/ Disconnect \/ SearchComplete
  <2>1. Restarted
    BY <1>1, <1>2, <1>3 DEF Connect, Disconnect, SearchComplete, Transition, Finalize,
                            Restarted, clockVars
  <2> QED
    BY <2>1, RestartedStep
<1>4. CASE RegistrationResult \/ CccdResult
  <2>1. Restarted \/ Kept
    BY <1>1, <1>2, <1>4 DEF RegistrationResult, CccdResult, FailSubscription, Transition,
                            Restarted, Kept, phaseVars, clockVars
  <2> QED
    BY <1>2, <2>1, RestartedStep, KeptStep
<1>5. CASE UNCHANGED phaseVars /\ now' = now
  BY <1>2, <1>5, KeptStep DEF Kept, phaseVars
<1> QED
  BY <1>3, <1>4, <1>5
     DEF Callback, ReadResult, Notification, ServiceChanged, Congestion, ForeignRegistration,
         unchangedButFlow, clockVars, vars

LEMMA AgeInit == Init => AgeFollowsLoop
BY DEF Init, AgeFollowsLoop, TimedPhases

LEMMA AgeBound ==
  ASSUME SetupInv, AgeFollowsLoop
  PROVE  PhaseAgeBounded
<1>1. since_loop \in 0 .. MaxLoopGap /\ now \in Time /\ phase_started_ms_ \in Time
  BY DEF SetupInv, TypeOK, StatusType, LinkType
<1>2. PhaseAge \in Nat /\ PhaseTimeout \in Nat /\ MaxLoopGap \in Nat
  BY <1>1, TimeAssumption, ParameterAssumption DEF PhaseAge, Time
<1>3. setup_phase_ \in TimedPhases => PhaseAge < PhaseTimeout + MaxLoopGap
  BY <1>1, <1>2 DEF AgeFollowsLoop
<1> QED
  BY <1>3 DEF PhaseAgeBounded, PhaseAge

\* No phase with a timeout outlives it by more than a gap between two iterations
\* of loop(), whatever the clock reads when the phase begins: elapsed's unsigned
\* difference is sound across the wraparound of millis().
THEOREM TimeoutsHold == Spec => []PhaseAgeBounded
<1>1. Init => SetupInv /\ AgeFollowsLoop
  BY TypeInit, AgeInit
<1>2. SetupInv /\ AgeFollowsLoop /\ [Next]_vars => (SetupInv /\ AgeFollowsLoop)'
  <2> SUFFICES ASSUME SetupInv, AgeFollowsLoop, [Next]_vars
               PROVE  (SetupInv /\ AgeFollowsLoop)'
    OBVIOUS
  <2>1. SetupInv'
    BY StepInv
  <2>2. AgeFollowsLoop'
    BY LoopAge, TickAge, CallbackAge DEF Next
  <2> QED
    BY <2>1, <2>2
<1>3. SetupInv /\ AgeFollowsLoop => PhaseAgeBounded
  BY AgeBound
<1> QED
  BY <1>1, <1>2, <1>3, PTL DEF Spec

-----------------------------------------------------------------------------
(* The fallback is not starved.  The CCCD wait starts phase and deadline at   *)
(* one reading of the clock, and no step moves one without the other; so an   *)
(* iteration that finds the phase timed out finds the fallback due, unless it *)
(* was made before, however the clock wrapped in between.                     *)

DeadlineFollowsPhase ==
  setup_phase_ = "WAITING_FOR_CCCD" =>
    subscription_state_.fallback_at_ms = (phase_started_ms_ + FallbackDelay) % TimeModulus

LEMMA DeadlineAge ==
  ASSUME NEW a \in Time, NEW b \in Time, FallbackDelay <= (a - b) % TimeModulus
  PROVE  (a - ((b + FallbackDelay) % TimeModulus)) % TimeModulus
           = ((a - b) % TimeModulus) - FallbackDelay
<1> DEFINE age == (a - b) % TimeModulus
<1>1. /\ TimeModulus \in Nat \ {0} /\ FallbackDelay \in Nat /\ a \in Int /\ b \in Int
      /\ 0 <= a /\ a < TimeModulus /\ 0 <= b /\ b < TimeModulus
  BY TimeAssumption DEF Time
<1>2. age = IF a >= b THEN a - b ELSE a - b + TimeModulus
  BY AgeType
<1>3. age \in Int /\ age < TimeModulus /\ FallbackDelay <= age
  BY <1>1, <1>2
<1> HIDE DEF age
<1>4. CASE b + FallbackDelay < TimeModulus
  <2>1. (b + FallbackDelay) % TimeModulus = b + FallbackDelay /\ b + FallbackDelay \in Time
    BY <1>1, <1>4 DEF Time
  <2>2. (a - (b + FallbackDelay)) % TimeModulus =
          IF a >= b + FallbackDelay THEN a - (b + FallbackDelay)
          ELSE a - (b + FallbackDelay) + TimeModulus
    BY <2>1, AgeType
  <2> QED
    BY <1>1, <1>2, <1>3, <2>1, <2>2 DEF age
<1>5. CASE ~(b + FallbackDelay < TimeModulus)
  <2> DEFINE wrapped == b + FallbackDelay - TimeModulus
  <2>1. wrapped \in Time /\ (b + FallbackDelay) % TimeModulus = wrapped
    BY <1>1, <1>3, <1>5 DEF Time
  <2>2. (a - wrapped) % TimeModulus =
          IF a >= wrapped THEN a - wrapped ELSE a - wrapped + TimeModulus
    BY <2>1, AgeType
  <2> QED
    BY <1>1, <1>2, <1>3, <1>5, <2>1, <2>2 DEF age
<1> QED
  BY <1>1, <1>4, <1>5

LEMMA DeadlineKept ==
  ASSUME DeadlineFollowsPhase, UNCHANGED phaseVars,
         subscription_state_'.fallback_at_ms = subscription_state_.fallback_at_ms
  PROVE  DeadlineFollowsPhase'
BY DEF DeadlineFollowsPhase, phaseVars

LEMMA DeadlineElsewhere ==
  ASSUME setup_phase_' # "WAITING_FOR_CCCD"
  PROVE  DeadlineFollowsPhase'
BY DEF DeadlineFollowsPhase

LEMMA OwnWriteKeepsDeadline ==
  ASSUME SetupInv
  PROVE  OwnCccdWriteAttempted(subscription_state_).fallback_at_ms
           = subscription_state_.fallback_at_ms
BY DEF OwnCccdWriteAttempted, SetupInv, TypeOK, SubscriptionType, Attempts

LEMMA DeadlineStep ==
  ASSUME SetupInv, DeadlineFollowsPhase, [Next]_vars
  PROVE  DeadlineFollowsPhase'
<1>1. CASE LoopInventory \/ LoopReading \/ LoopBuilding \/ LoopWriting \/ LoopRegistering
  BY <1>1, DeadlineElsewhere
     DEF LoopInventory, LoopReading, LoopBuilding, LoopWriting, LoopRegistering, Tally,
         Finalize, Transition, GiveUpReading, GiveUpSubscribing, phaseVars
<1>2. CASE LoopWaiting
  <2>1. CASE FailSubscription \/ GiveUpSubscribing(0)
    BY <2>1, DeadlineElsewhere
       DEF FailSubscription, GiveUpSubscribing, Tally, Finalize, Transition
  <2>2. CASE UNCHANGED phaseVars /\ subscription_state_' = OwnCccdWriteAttempted(subscription_state_)
    BY <2>2, OwnWriteKeepsDeadline, DeadlineKept
  <2>3. CASE UNCHANGED <<phaseVars, subVars>>
    BY <2>3, DeadlineKept DEF subVars
  <2> QED
    BY <1>2, <2>1, <2>2, <2>3 DEF LoopWaiting, OwnWriteNotScheduled
<1>3. CASE LoopIdle
  BY <1>3, DeadlineKept DEF LoopIdle, subVars
<1>4. CASE Connect \/ Disconnect \/ SearchComplete
  BY <1>4, DeadlineElsewhere DEF Connect, Disconnect, SearchComplete, Tally, Finalize, Transition
<1>5. CASE RegistrationResult
  <2>1. CASE UNCHANGED <<phaseVars, subscription_state_>>
    BY <2>1, DeadlineKept
  <2>2. CASE FailSubscription
    BY <2>2, DeadlineElsewhere DEF FailSubscription, Transition
  <2>3. CASE /\ subscription_state_' = Registered(subscription_state_, now)
             /\ Transition("WAITING_FOR_CCCD")
    <3>1. phase_started_ms_' = now
      BY <2>3 DEF Transition
    <3>2. subscription_state_'.fallback_at_ms = (now + FallbackDelay) % TimeModulus
      BY <2>3 DEF Registered, SetupInv, TypeOK, SubscriptionType, Attempts
    <3> QED
      BY <3>1, <3>2 DEF DeadlineFollowsPhase
  <2> QED
    BY <1>5, <2>1, <2>2, <2>3 DEF RegistrationResult
<1>6. CASE CccdResult
  <2>1. CASE UNCHANGED <<phaseVars, subscription_state_>>
    BY <2>1, DeadlineKept
  <2>2. CASE FailSubscription \/ Transition("REGISTERING")
    BY <2>2, DeadlineElsewhere DEF FailSubscription, Transition
  <2>3. CASE UNCHANGED phaseVars /\ subscription_state_' = OwnCccdWriteAttempted(subscription_state_)
    BY <2>3, OwnWriteKeepsDeadline, DeadlineKept
  <2> QED
    BY <1>6, <2>1, <2>2, <2>3 DEF CccdResult
<1>7. CASE UNCHANGED <<phaseVars, subVars>>
  BY <1>7, DeadlineKept DEF subVars
<1> QED
  BY <1>1, <1>2, <1>3, <1>4, <1>5, <1>6, <1>7
     DEF Next, Loop, Callback, ReadResult, Notification, ServiceChanged, Congestion,
         ForeignRegistration, Tick, unchangedButFlow, vars

LEMMA TimedOutIsDue ==
  ASSUME SetupInv, AgeFollowsLoop, DeadlineFollowsPhase, TimedOut,
         setup_phase_ = "WAITING_FOR_CCCD"
  PROVE  subscription_state_.own_cccd_write_attempted \/ FallbackDue(subscription_state_, now)
<1>1. /\ now \in Time /\ phase_started_ms_ \in Time /\ since_loop \in 0 .. MaxLoopGap
      /\ subscription_state_.own_cccd_write_attempted \in BOOLEAN
  BY DEF SetupInv, TypeOK, LinkType, StatusType, SubscriptionType, Attempts
<1>2. PhaseTimeout <= PhaseAge /\ PhaseAge \in Int
  <2>1. PhaseTimeout <= PhaseAge
    BY DEF TimedOut, Elapsed, PhaseAge
  <2> QED
    BY <1>1, <2>1, TimeAssumption DEF PhaseAge, Time
<1>3. PhaseAge < PhaseTimeout + MaxLoopGap
  <2>1. PhaseAge < PhaseTimeout + since_loop
    BY DEF AgeFollowsLoop, TimedOut
  <2> QED
    BY <1>1, <1>2, <2>1, ParameterAssumption
<1>4. (now - subscription_state_.fallback_at_ms) % TimeModulus = PhaseAge - FallbackDelay
  <2>1. FallbackDelay <= (now - phase_started_ms_) % TimeModulus
    BY <1>2, FallbackAssumption, TimeAssumption, ParameterAssumption DEF PhaseAge
  <2>2. subscription_state_.fallback_at_ms = (phase_started_ms_ + FallbackDelay) % TimeModulus
    BY DEF DeadlineFollowsPhase
  <2> QED
    BY <1>1, <2>1, <2>2, DeadlineAge DEF PhaseAge
<1>5. 2 * (PhaseAge - FallbackDelay) < TimeModulus
  BY <1>2, <1>3, TimeAssumption, ParameterAssumption
<1>6. subscription_state_.stage = "WAITING_FOR_CCCD"
  BY DEF SetupInv, AttemptIsCoherent
<1> QED
  BY <1>1, <1>4, <1>5, <1>6 DEF FallbackDue

LEMMA FallbackStep ==
  ASSUME SetupInv, AgeFollowsLoop, DeadlineFollowsPhase, Next,
         setup_phase_ = "WAITING_FOR_CCCD", setup_phase_' = "DEGRADED"
  PROVE  \/ subscription_state_.own_cccd_write_attempted
         \/ att_requests' = Append(att_requests,
              [op |-> "OWN_CCCD", handle |-> active_subscription_.cccd_handle])
<1>1. LoopWaiting
  <2>1. link # "DISCOVERING" /\ link # "DOWN"
    BY DEF SetupInv, PhaseFollowsLink
  <2>2. ~SearchComplete /\ ~Connect /\ ~Disconnect
    BY <2>1 DEF SearchComplete, Connect, Disconnect, Transition
  <2>3. ~RegistrationResult /\ ~CccdResult
    BY DEF RegistrationResult, CccdResult, FailSubscription, Transition, phaseVars
  <2> QED
    BY <2>2, <2>3
       DEF Next, Loop, Callback, ReadResult, Notification, ServiceChanged, Congestion,
           ForeignRegistration, Tick, unchangedButFlow, phaseVars, LoopInventory, LoopReading,
           LoopBuilding, LoopWriting, LoopRegistering, LoopIdle, TimedPhases, FinalPhases, Phases
<1>2. active_subscription_ # None
  BY DEF SetupInv, AttemptIsCoherent
<1>3. CASE FallbackDue(subscription_state_, now)
  <2>1. ~OwnWriteNotScheduled
    BY DEF OwnWriteNotScheduled, FailSubscription, Transition
  <2>2. Request("OWN_CCCD", active_subscription_.cccd_handle)
    BY <1>1, <1>2, <1>3, <2>1 DEF LoopWaiting
  <2> QED
    BY <2>2 DEF Request
<1>4. CASE ~FallbackDue(subscription_state_, now)
  <2>1. TimedOut
    BY <1>1, <1>4 DEF LoopWaiting, phaseVars
  <2> QED
    BY <1>4, <2>1, TimedOutIsDue
<1> QED
  BY <1>3, <1>4

\* A CCCD wait that ends in DEGRADED had its own write: an iteration of loop() that
\* finds the phase timed out has made the write by then, or makes it first.
THEOREM FallbackIsNotStarved == Spec => FallbackBeforeTimeout
<1>1. Init => SetupInv /\ AgeFollowsLoop /\ DeadlineFollowsPhase
  BY TypeInit, AgeInit DEF Init, DeadlineFollowsPhase
<1>2. SetupInv /\ AgeFollowsLoop /\ DeadlineFollowsPhase /\ [Next]_vars =>
        (SetupInv /\ AgeFollowsLoop /\ DeadlineFollowsPhase)'
  <2> SUFFICES ASSUME SetupInv, AgeFollowsLoop, DeadlineFollowsPhase, [Next]_vars
               PROVE  (SetupInv /\ AgeFollowsLoop /\ DeadlineFollowsPhase)'
    OBVIOUS
  <2>1. SetupInv' /\ DeadlineFollowsPhase'
    BY StepInv, DeadlineStep
  <2>2. AgeFollowsLoop'
    BY LoopAge, TickAge, CallbackAge DEF Next
  <2> QED
    BY <2>1, <2>2
<1>3. SetupInv /\ AgeFollowsLoop /\ DeadlineFollowsPhase /\ [Next]_vars
        => [setup_phase_ = "WAITING_FOR_CCCD" /\ setup_phase_' = "DEGRADED" =>
              \/ subscription_state_.own_cccd_write_attempted
              \/ att_requests' = Append(att_requests,
                   [op |-> "OWN_CCCD", handle |-> active_subscription_.cccd_handle])]_vars
  BY FallbackStep
<1> QED
  BY <1>1, <1>2, <1>3, PTL DEF Spec, FallbackBeforeTimeout

-----------------------------------------------------------------------------
(* Reads that are owed an answer. *)

NoReadIn(s) == \A i \in DOMAIN s : s[i].op # "READ"

OneReadIn(s) == \A i, j \in DOMAIN s : s[i].op = "READ" /\ s[j].op = "READ" => i = j

OwedIn(s, h) == \E i \in DOMAIN s : s[i] = [op |-> "READ", handle |-> h]

LEMMA OtherAppended ==
  ASSUME NEW s \in Seq(Requests), NEW r \in Requests, r.op # "READ"
  PROVE  /\ NoReadIn(s) => NoReadIn(Append(s, r))
         /\ OneReadIn(s) => OneReadIn(Append(s, r))
         /\ \A h : OwedIn(s, h) => OwedIn(Append(s, r), h)
<1>1. /\ Len(s) \in Nat /\ DOMAIN s = 1 .. Len(s)
      /\ DOMAIN Append(s, r) = 1 .. Len(s) + 1
      /\ \A i \in 1 .. Len(s) : Append(s, r)[i] = s[i]
      /\ Append(s, r)[Len(s) + 1] = r
  BY AppendProperties, LenProperties
<1>2. \A i \in DOMAIN Append(s, r) :
        (i \in DOMAIN s /\ Append(s, r)[i] = s[i]) \/ Append(s, r)[i].op # "READ"
  BY <1>1
<1>3. \A i \in DOMAIN s : i \in DOMAIN Append(s, r) /\ Append(s, r)[i] = s[i]
  BY <1>1
<1> QED
  BY <1>2, <1>3 DEF NoReadIn, OneReadIn, OwedIn

LEMMA ReadAppended ==
  ASSUME NEW s \in Seq(Requests), NEW h \in Handles, NoReadIn(s)
  PROVE  LET t == Append(s, [op |-> "READ", handle |-> h]) IN OneReadIn(t) /\ OwedIn(t, h)
<1> DEFINE r == [op |-> "READ", handle |-> h]
<1>0. r \in Requests
  BY DEF Requests
<1> HIDE DEF r
<1>1. /\ Len(s) \in Nat /\ DOMAIN s = 1 .. Len(s)
      /\ DOMAIN Append(s, r) = 1 .. Len(s) + 1
      /\ \A i \in 1 .. Len(s) : Append(s, r)[i] = s[i]
      /\ Append(s, r)[Len(s) + 1] = r
  BY <1>0, AppendProperties, LenProperties
<1>2. \A i \in DOMAIN Append(s, r) : Append(s, r)[i].op = "READ" => i = Len(s) + 1
  BY <1>1 DEF NoReadIn
<1>3. OneReadIn(Append(s, r))
  BY <1>2 DEF OneReadIn
<1>4. Len(s) + 1 \in DOMAIN Append(s, r) /\ Append(s, r)[Len(s) + 1] = r
  BY <1>1
<1>5. OwedIn(Append(s, r), h)
  BY <1>4 DEF OwedIn, r
<1> QED
  BY <1>3, <1>5 DEF r

LEMMA HeadAnswered ==
  ASSUME NEW s \in Seq(Requests), s # <<>>
  PROVE  /\ Tail(s) \in Seq(Requests)
         /\ NoReadIn(s) => NoReadIn(Tail(s)) /\ Head(s).op # "READ"
         /\ OneReadIn(s) => OneReadIn(Tail(s))
         /\ OneReadIn(s) /\ Head(s).op = "READ" => NoReadIn(Tail(s))
         /\ \A h : OwedIn(s, h) /\ Head(s).op # "READ" => OwedIn(Tail(s), h)
         /\ \A h : OwedIn(s, h) /\ OneReadIn(s) /\ Head(s).op = "READ" => Head(s).handle = h
<1>1. /\ Len(s) \in Nat /\ Len(s) # 0 /\ DOMAIN s = 1 .. Len(s) /\ Head(s) = s[1]
      /\ Tail(s) \in Seq(Requests) /\ DOMAIN Tail(s) = 1 .. Len(s) - 1
      /\ \A i \in 1 .. Len(s) - 1 : Tail(s)[i] = s[i + 1]
  BY HeadTailProperties, LenProperties, EmptySeq
<1>2. 1 \in DOMAIN s
  BY <1>1
<1>3. \A i \in DOMAIN Tail(s) : i + 1 \in DOMAIN s /\ Tail(s)[i] = s[i + 1] /\ i + 1 # 1
  BY <1>1
<1>4. \A i \in DOMAIN s : i = 1 \/ \E j \in DOMAIN Tail(s) : j + 1 = i /\ Tail(s)[j] = s[i]
  <2>1. ASSUME NEW i \in DOMAIN s, i # 1
        PROVE  i - 1 \in DOMAIN Tail(s) /\ (i - 1) + 1 = i /\ Tail(s)[i - 1] = s[i]
    BY <1>1, <2>1
  <2> QED
    BY <2>1
<1>5. NoReadIn(s) => NoReadIn(Tail(s)) /\ Head(s).op # "READ"
  BY <1>1, <1>2, <1>3 DEF NoReadIn
<1>6. OneReadIn(s) => OneReadIn(Tail(s))
  <2> SUFFICES ASSUME OneReadIn(s), NEW i \in DOMAIN Tail(s), NEW j \in DOMAIN Tail(s),
                      Tail(s)[i].op = "READ", Tail(s)[j].op = "READ"
               PROVE  i = j
    BY DEF OneReadIn
  <2>1. i + 1 = j + 1
    BY <1>3 DEF OneReadIn
  <2> QED
    BY <1>1, <2>1
<1>7. OneReadIn(s) /\ Head(s).op = "READ" => NoReadIn(Tail(s))
  BY <1>1, <1>2, <1>3 DEF OneReadIn, NoReadIn
<1>8. ASSUME NEW h, OwedIn(s, h), Head(s).op # "READ" PROVE OwedIn(Tail(s), h)
  BY <1>1, <1>4, <1>8 DEF OwedIn
<1>9. ASSUME NEW h, OwedIn(s, h), OneReadIn(s), Head(s).op = "READ" PROVE Head(s).handle = h
  BY <1>1, <1>2, <1>9 DEF OwedIn, OneReadIn
<1> QED
  BY <1>1, <1>5, <1>6, <1>7, <1>8, <1>9

-----------------------------------------------------------------------------
(* The inductive invariant: of the reads on the bearer only the one of this  *)
(* moment is waited for, and none was left over when reading began.          *)

BeforeReading == {"DISCONNECTED", "WAITING_FOR_DISCOVERY", "INVENTORY"}

OwedInv ==
  /\ OneReadIn(att_requests)
  /\ setup_phase_ \in BeforeReading \/ (setup_phase_ = "READING" /\ active_read_ = None) =>
       NoReadIn(att_requests)
  /\ active_read_ # None => OwedIn(att_requests, active_read_.handle)
  /\ read_queue_ # <<>> => setup_phase_ = "READING"

\* A step that neither makes, answers nor drops a read.
LEMMA ReadsUndisturbed ==
  ASSUME OwedInv, UNCHANGED readVars,
         NoReadIn(att_requests) => NoReadIn(att_requests'),
         OneReadIn(att_requests) => OneReadIn(att_requests'),
         \A h : OwedIn(att_requests, h) => OwedIn(att_requests', h),
         setup_phase_' \in BeforeReading => setup_phase_ \in BeforeReading,
         setup_phase_ = "READING" \/ setup_phase_' = "READING" => setup_phase_' = setup_phase_
  PROVE  OwedInv'
BY DEF OwedInv, readVars

LEMMA BearerTyped == ASSUME SetupInv PROVE att_requests \in Seq(Requests)
BY DEF SetupInv, TypeOK, StackType

LEMMA LoopReadingOwed ==
  ASSUME SetupInv, OwedInv, LoopReading
  PROVE  OwedInv'
<1> DEFINE idle == active_read_ = None /\ ~congested_
           h == Head(read_queue_).handle
<1>0. setup_phase_ = "READING" /\ att_requests \in Seq(Requests)
  BY BearerTyped DEF LoopReading
<1>1. CASE att_requests' = att_requests
  <2>1. \/ active_read_' = None /\ read_queue_' = <<>> /\ setup_phase_' = "BUILDING_PROFILE"
        \/ active_read_ = None /\ active_read_' = None /\ setup_phase_' = setup_phase_
        \/ UNCHANGED <<active_read_, read_queue_, setup_phase_>>
        \/ /\ idle /\ read_queue_ # <<>>
           /\ Request("READ", h)
    BY <1>0, <1>1 DEF LoopReading, GiveUpReading, Transition, phaseVars, readVars
  <2>2. ~Request("READ", h)
    <3> SUFFICES ASSUME Request("READ", h) PROVE FALSE
      OBVIOUS
    <3>1. att_requests = Append(att_requests, [op |-> "READ", handle |-> h])
      BY <1>1 DEF Request
    <3>2. Len(Append(att_requests, [op |-> "READ", handle |-> h])) = Len(att_requests) + 1
      BY <1>0
    <3>3. Len(att_requests) \in Nat
      BY <1>0, LenProperties
    <3> QED
      BY <3>1, <3>2, <3>3
  <2> QED
    BY <1>0, <1>1, <2>1, <2>2 DEF OwedInv, BeforeReading
<1>2. CASE idle /\ read_queue_ # <<>> /\ Request("READ", h)
           /\ \/ active_read_' = None /\ read_queue_' = <<>>
                 /\ setup_phase_' = "BUILDING_PROFILE"
              \/ active_read_' = Head(read_queue_) /\ setup_phase_' = setup_phase_
  <2>1. Head(read_queue_) \in ReadOperations /\ h \in Handles
    <3>1. read_queue_ \in Seq(ReadOperations)
      BY DEF SetupInv, TypeOK, ReadType
    <3>2. Head(read_queue_) \in ReadOperations
      BY <1>2, <3>1, HeadTailProperties
    <3> QED
      BY <3>2 DEF ReadOperations
  <2>2. NoReadIn(att_requests)
    BY <1>0, <1>2 DEF OwedInv
  <2>3. OneReadIn(att_requests') /\ OwedIn(att_requests', h)
    BY <1>0, <1>2, <2>1, <2>2, ReadAppended DEF Request
  <2>4. Head(read_queue_) # None
    BY <2>1, PeerAssumption
  <2> QED
    BY <1>0, <1>2, <2>3, <2>4 DEF OwedInv, BeforeReading
<1> QED
  BY <1>0, <1>1, <1>2 DEF LoopReading, GiveUpReading, Transition, phaseVars, readVars

LEMMA LoopOwed ==
  ASSUME SetupInv, ReadFollowsPhase, OwedInv, Loop
  PROVE  OwedInv'
<1>1. CASE LoopInventory
  <2>1. /\ setup_phase_ = "INVENTORY" /\ active_read_ = None /\ read_queue_ = <<>>
        /\ NoReadIn(att_requests) /\ att_requests' = att_requests /\ active_read_' = active_read_
    BY <1>1 DEF LoopInventory, PlanReads, readVars, stackVars, ReadFollowsPhase, OwedInv,
                BeforeReading
  <2>2. \/ setup_phase_' = "READING"
        \/ read_queue_' = <<>> /\ setup_phase_' \notin BeforeReading
    BY <1>1, <2>1 DEF LoopInventory, Finalize, Transition, readVars, BeforeReading
  <2> QED
    BY <2>1, <2>2 DEF OwedInv
<1>2. CASE LoopReading
  BY <1>2, LoopReadingOwed
<1>3. CASE LoopBuilding \/ LoopWriting \/ LoopRegistering
  <2>1. UNCHANGED readVars /\ att_requests' = att_requests
    BY <1>3 DEF LoopBuilding, LoopWriting, LoopRegistering, stackVars
  <2>2. /\ setup_phase_ \notin BeforeReading \cup {"READING"}
        /\ setup_phase_' \notin BeforeReading \cup {"READING"}
    BY <1>3 DEF LoopBuilding, LoopWriting, LoopRegistering, GiveUpSubscribing, Finalize,
                Transition, phaseVars, BeforeReading
  <2> QED
    BY <2>1, <2>2, ReadsUndisturbed
<1>4. CASE LoopWaiting
  <2> DEFINE r == [op |-> "OWN_CCCD", handle |-> active_subscription_.cccd_handle]
  <2>1. /\ UNCHANGED readVars
        /\ \/ att_requests' = att_requests
           \/ /\ active_subscription_ # None
              /\ att_requests' = Append(att_requests, r)
    BY <1>4 DEF LoopWaiting, OwnWriteNotScheduled, Request
  <2>2. /\ setup_phase_ \notin BeforeReading \cup {"READING"}
        /\ setup_phase_' \notin BeforeReading \cup {"READING"}
    BY <1>4 DEF LoopWaiting, OwnWriteNotScheduled, FailSubscription, GiveUpSubscribing, Finalize,
                Transition, phaseVars, BeforeReading
  <2>3. CASE att_requests' = att_requests
    BY <2>1, <2>2, <2>3, ReadsUndisturbed
  <2>4. CASE active_subscription_ # None /\ att_requests' = Append(att_requests, r)
    <3>1. r \in Requests /\ r.op # "READ"
      <4>1. active_subscription_.cccd_handle \in Handles
        BY <2>4 DEF SetupInv, TypeOK, SubscriptionType, AttemptIsCoherent, Subscriptions
      <4> QED
        BY <4>1 DEF Requests
    <3> HIDE DEF r
    <3> QED
      BY <2>1, <2>2, <2>4, <3>1, BearerTyped, OtherAppended, ReadsUndisturbed
  <2> QED
    BY <2>1, <2>3, <2>4
<1>5. CASE LoopIdle
  BY <1>5, ReadsUndisturbed DEF LoopIdle, phaseVars, stackVars
<1> QED
  BY <1>1, <1>2, <1>3, <1>4, <1>5 DEF Loop

\* An answer to a read is the answer to the read that is waited for, or to one that
\* a timeout gave up; then no other read was made.
LEMMA ReadResultOwed ==
  ASSUME SetupInv, ReadFollowsPhase, OwedInv, ReadResult
  PROVE  OwedInv'
<1>1. /\ att_requests \in Seq(Requests) /\ att_requests # <<>>
      /\ Head(att_requests).op = "READ" /\ att_requests' = Tail(att_requests)
      /\ UNCHANGED <<setup_phase_, read_queue_>>
  BY BearerTyped DEF ReadResult, phaseVars
<1>2. NoReadIn(att_requests') /\ OneReadIn(att_requests')
  BY <1>1, HeadAnswered DEF OwedInv
<1>3. active_read_' = None
  <2>1. active_read_ # None => Head(att_requests).handle = active_read_.handle
    BY <1>1, HeadAnswered DEF OwedInv
  <2> QED
    BY <2>1 DEF ReadResult
<1> QED
  BY <1>1, <1>2, <1>3 DEF OwedInv

LEMMA FrameworkWriteOnly ==
  ASSUME SetupInv, link # "DOWN", NEW handle \in Handles, NEW writes \in FrameworkWrites(handle)
  PROVE  \/ writes = <<>>
         \/ \E r \in Requests : writes = <<r>> /\ r.op # "READ"
<1>1. \A i \in DOMAIN peer.subscriptions : peer.subscriptions[i] \in Subscriptions
  <2>1. setup_phase_ # "DISCONNECTED"
    BY DEF SetupInv, PhaseFollowsLink
  <2> QED
    BY <2>1, PeerTyped, ElementOfSeq, LenProperties
<1>2. CASE writes = <<>>
  BY <1>2
<1>3. CASE writes # <<>>
  <2>1. PICK i \in DOMAIN peer.subscriptions :
          /\ writes = <<[op |-> "FRAMEWORK_CCCD", handle |-> peer.subscriptions[i].cccd_handle]>>
          /\ peer.subscriptions[i].cccd_handle # NoHandle
    BY <1>3 DEF FrameworkWrites
  <2>2. peer.subscriptions[i].cccd_handle \in Handles
    BY <1>1, <2>1 DEF Subscriptions
  <2>3. [op |-> "FRAMEWORK_CCCD", handle |-> peer.subscriptions[i].cccd_handle] \in Requests
    BY <2>2 DEF Requests
  <2> QED
    BY <2>1, <2>3
<1> QED
  BY <1>2, <1>3

\* The answer to an attempt leads from one phase of subscribing to another.
LEMMA AnswerPhase ==
  ASSUME SetupInv, RegistrationResult \/ CccdResult
  PROVE  /\ UNCHANGED readVars
         /\ \/ setup_phase_' = setup_phase_
            \/ /\ setup_phase_ \notin BeforeReading \cup {"READING"}
               /\ setup_phase_' \notin BeforeReading \cup {"READING"}
<1>1. UNCHANGED readVars
  BY DEF RegistrationResult, CccdResult
<1>2. CASE active_subscription_ = None
  BY <1>1, <1>2 DEF RegistrationResult, CccdResult, phaseVars
<1>3. CASE active_subscription_ # None
  <2>1. setup_phase_ \in {"REGISTERING", "WAITING_FOR_CCCD"}
    BY <1>3, NoAttempt
  <2>2. setup_phase_' = setup_phase_ \/ setup_phase_' \in {"REGISTERING", "WAITING_FOR_CCCD"}
    BY DEF RegistrationResult, CccdResult, FailSubscription, Transition, phaseVars
  <2> QED
    BY <1>1, <2>1, <2>2 DEF BeforeReading
<1> QED
  BY <1>2, <1>3

LEMMA RegistrationOwed ==
  ASSUME SetupInv, OwedInv, RegistrationResult
  PROVE  OwedInv'
<1>1. att_requests \in Seq(Requests) /\ Head(registrations) \in Handles /\ link # "DOWN"
  <2>1. registrations \in Seq(Handles) /\ registrations # <<>> /\ link # "DOWN"
    BY DEF RegistrationResult, SetupInv, TypeOK, StackType
  <2> QED
    BY <2>1, BearerTyped, HeadTailProperties
<1>2. PICK success \in BOOLEAN :
        \E writes \in (IF success THEN FrameworkWrites(Head(registrations)) ELSE {<<>>}) :
          att_requests' = att_requests \o writes
  BY DEF RegistrationResult
<1>3. PICK writes \in (IF success THEN FrameworkWrites(Head(registrations)) ELSE {<<>>}) :
        att_requests' = att_requests \o writes
  BY <1>2
<1>4. writes = <<>> \/ \E r \in Requests : writes = <<r>> /\ r.op # "READ"
  BY <1>1, FrameworkWriteOnly
<1>5. CASE writes = <<>>
  <2>1. att_requests' = att_requests
    BY <1>1, <1>3, <1>5, ConcatEmptySeq
  <2> QED
    BY <2>1, AnswerPhase, ReadsUndisturbed
<1>6. CASE \E r \in Requests : writes = <<r>> /\ r.op # "READ"
  <2>1. PICK r \in Requests : writes = <<r>> /\ r.op # "READ"
    BY <1>6
  <2>2. att_requests' = Append(att_requests, r)
    BY <1>1, <1>3, <2>1, AppendIsConcat
  <2> QED
    BY <1>1, <2>1, <2>2, OtherAppended, AnswerPhase, ReadsUndisturbed
<1> QED
  BY <1>4, <1>5, <1>6

LEMMA CccdOwed ==
  ASSUME SetupInv, OwedInv, CccdResult
  PROVE  OwedInv'
<1> DEFINE r == [op |-> "OWN_CCCD", handle |-> active_subscription_.cccd_handle]
<1>1. /\ att_requests \in Seq(Requests) /\ att_requests # <<>>
      /\ Head(att_requests).op # "READ"
  BY BearerTyped DEF CccdResult
<1>2. /\ Tail(att_requests) \in Seq(Requests)
      /\ NoReadIn(att_requests) => NoReadIn(Tail(att_requests))
      /\ OneReadIn(att_requests) => OneReadIn(Tail(att_requests))
      /\ \A h : OwedIn(att_requests, h) => OwedIn(Tail(att_requests), h)
  BY <1>1, HeadAnswered
<1>3. \/ att_requests' = Tail(att_requests)
      \/ active_subscription_ # None /\ att_requests' = Append(Tail(att_requests), r)
  BY DEF CccdResult
<1>4. CASE att_requests' = Tail(att_requests)
  BY <1>2, <1>4, AnswerPhase, ReadsUndisturbed
<1>5. CASE active_subscription_ # None /\ att_requests' = Append(Tail(att_requests), r)
  <2>1. r \in Requests /\ r.op # "READ"
    <3>1. active_subscription_.cccd_handle \in Handles
      BY <1>5 DEF SetupInv, TypeOK, SubscriptionType, AttemptIsCoherent, Subscriptions
    <3> QED
      BY <3>1 DEF Requests
  <2> HIDE DEF r
  <2>2. /\ NoReadIn(att_requests) => NoReadIn(att_requests')
        /\ OneReadIn(att_requests) => OneReadIn(att_requests')
        /\ \A h : OwedIn(att_requests, h) => OwedIn(att_requests', h)
    BY <1>2, <1>5, <2>1, OtherAppended
  <2> QED
    BY <2>2, AnswerPhase, ReadsUndisturbed
<1> QED
  BY <1>3, <1>4, <1>5

LEMMA OwedStep ==
  ASSUME SetupInv, ReadFollowsPhase, OwedInv, [Next]_vars
  PROVE  OwedInv'
<1>1. CASE Loop
  BY <1>1, LoopOwed
<1>2. CASE Connect
  <2>1. /\ setup_phase_ = "DISCONNECTED" /\ att_requests' = att_requests
        /\ read_queue_' = <<>> /\ active_read_' = None
    BY <1>2 DEF Connect, ResetConnectionState, stackVars, SetupInv, PhaseFollowsLink
  <2> QED
    BY <2>1 DEF OwedInv, BeforeReading
<1>3. CASE Disconnect
  <2>1. att_requests' = <<>> /\ read_queue_' = <<>> /\ active_read_' = None
    BY <1>3 DEF Disconnect, ResetConnectionState
  <2>2. NoReadIn(<<>>) /\ OneReadIn(<<>>)
    BY DEF NoReadIn, OneReadIn
  <2> QED
    BY <2>1, <2>2 DEF OwedInv
<1>4. CASE SearchComplete
  <2>1. /\ setup_phase_ = "WAITING_FOR_DISCOVERY" /\ att_requests' = att_requests
        /\ UNCHANGED readVars
    BY <1>4 DEF SearchComplete, stackVars, SetupInv, PhaseFollowsLink
  <2>2. setup_phase_' # "READING"
    BY <1>4 DEF SearchComplete, Finalize, Transition
  <2> QED
    BY <2>1, <2>2, ReadsUndisturbed DEF BeforeReading
<1>5. CASE ReadResult
  BY <1>5, ReadResultOwed
<1>6. CASE RegistrationResult
  BY <1>6, RegistrationOwed
<1>7. CASE CccdResult
  BY <1>7, CccdOwed
<1>8. CASE UNCHANGED <<phaseVars, readVars, att_requests>>
  BY <1>8, ReadsUndisturbed DEF phaseVars
<1> QED
  BY <1>1, <1>2, <1>3, <1>4, <1>5, <1>6, <1>7, <1>8
     DEF Next, Callback, Notification, ServiceChanged, Congestion, ForeignRegistration, Tick,
         unchangedButFlow, stackVars, vars

LEMMA OwedInit == Init => OwedInv
BY DEF Init, OwedInv, OneReadIn, NoReadIn

LEMMA OwedBound ==
  ASSUME ReadFollowsPhase, OwedInv
  PROVE  ReadIsOwed
<1> DEFINE owed == {i \in DOMAIN att_requests : att_requests[i].op = "READ"}
<1>1. Cardinality(owed) <= 1
  <2>1. CASE owed = {}
    BY <2>1, FS_EmptySet
  <2>2. CASE owed # {}
    <3>1. PICK i : i \in owed
      BY <2>2
    <3>2. owed = {i}
      BY <3>1 DEF OwedInv, OneReadIn
    <3> HIDE DEF owed
    <3>3. Cardinality(owed) = 1
      BY <3>2, FS_Singleton
    <3> QED
      BY <3>3
  <2> QED
    BY <2>1, <2>2
<1> QED
  BY <1>1 DEF ReadIsOwed, ReadFollowsPhase, OwedInv, OwedIn

\* A read in flight is the only one the stack owes an answer to, whichever reads a
\* timeout gave up: a late answer is never taken for another read's value.
THEOREM ReadsAreOwed == Spec => []ReadIsOwed
<1>1. Init => SetupInv /\ ReadFollowsPhase /\ OwedInv
  BY TypeInit, ReadFollowsPhaseInit, OwedInit
<1>2. SetupInv /\ ReadFollowsPhase /\ OwedInv /\ [Next]_vars =>
        (SetupInv /\ ReadFollowsPhase /\ OwedInv)'
  <2> SUFFICES ASSUME SetupInv, ReadFollowsPhase, OwedInv, [Next]_vars
               PROVE  (SetupInv /\ ReadFollowsPhase /\ OwedInv)'
    OBVIOUS
  <2>1. SetupInv' /\ ReadFollowsPhase'
    BY StepInv, ReadFollowsPhaseStep
  <2>2. OwedInv'
    BY OwedStep
  <2> QED
    BY <2>1, <2>2
<1>3. SetupInv /\ ReadFollowsPhase /\ OwedInv => ReadIsOwed
  BY OwedBound
<1> QED
  BY <1>1, <1>2, <1>3, PTL DEF Spec

-----------------------------------------------------------------------------
(* The inductive invariant.  A required subscription is never forgotten      *)
(* between planning and READY unless setup is degraded; and nothing that is  *)
(* read or planned takes a HID input for something else.                     *)

Delivered(s) ==
  s.characteristic_handle \in registered /\ s.cccd_handle \in enabled_cccds

Waits(s) == \E k \in DOMAIN subscription_queue_ : subscription_queue_[k] = s

Required(s) == (\E i \in DOMAIN peer.subscriptions : peer.subscriptions[i] = s) /\ s.required

\* Delivered, in the queue, or the attempt of the moment.
NothingForgotten ==
  setup_phase_ \in {"REGISTERING", "WAITING_FOR_CCCD", "READY"} /\ ~degraded_ =>
    \A s \in Subscriptions : Required(s) => Delivered(s) \/ Waits(s) \/ active_subscription_ = s

WaitingIsRegistered ==
  setup_phase_ = "WAITING_FOR_CCCD" =>
    active_subscription_.characteristic_handle \in registered

ReadyIsSettled ==
  setup_phase_ = "READY" => ~degraded_ /\ ~status_warning /\ subscription_queue_ = <<>>

ProgressInv == NothingForgotten /\ WaitingIsRegistered /\ ReadyIsSettled

\* What the reads of this connection are, planned or in flight.
ReadOfPeer(r) == \E j \in DOMAIN peer.reads : peer.reads[j] = r

ReadsOfPeer ==
  /\ \A k \in DOMAIN read_queue_ : ReadOfPeer(read_queue_[k])
  /\ active_read_ # None => ReadOfPeer(active_read_)

SourcesRouted ==
  setup_phase_ \in {"WRITING_PROTOCOL_MODE", "REGISTERING", "WAITING_FOR_CCCD", "READY"} =>
    hid_report_handles_ = {r.handle : r \in {q \in peer.reports : q.kind # "OTHER"}}

InputsNotDiverted ==
  \A s \in Subscriptions :
    peer # None /\ Required(s) =>
      /\ s.characteristic_handle \notin battery_handles_
      /\ s.characteristic_handle \notin service_changed_handles_

RouteInv == ReadsOfPeer /\ SourcesRouted /\ InputsNotDiverted

-----------------------------------------------------------------------------
(* The peer and the queue. *)

LEMMA OverLimitReported ==
  ASSUME SetupInv, setup_phase_ # "DISCONNECTED", ~(Len(peer.subscriptions) <= MaxSubscriptions)
  PROVE  OverLimitReports > 0
<1> DEFINE over == {service \in Services :
                      \E i \in (MaxSubscriptions + 1) .. Len(peer.subscriptions) :
                        peer.subscriptions[i].service_instance = service}
<1>1. /\ peer.subscriptions \in Seq(Subscriptions) /\ Len(peer.subscriptions) \in Nat
      /\ MaxSubscriptions \in Nat
  BY PeerTyped, LenProperties, ParameterAssumption
<1>2. /\ MaxSubscriptions + 1 \in (MaxSubscriptions + 1) .. Len(peer.subscriptions)
      /\ MaxSubscriptions + 1 \in 1 .. Len(peer.subscriptions)
  BY <1>1
<1>3. peer.subscriptions[MaxSubscriptions + 1] \in Subscriptions
  BY <1>1, <1>2, ElementOfSeq
<1>4. peer.subscriptions[MaxSubscriptions + 1].service_instance \in over
  BY <1>2, <1>3 DEF Subscriptions
<1>5. IsFiniteSet(over)
  BY PeerAssumption, FS_Subset
<1>6. Cardinality(over) \in Nat /\ Cardinality(over) # 0
  <2> HIDE DEF over
  <2> QED
    BY <1>4, <1>5, FS_CardinalityType, FS_EmptySet
<1> QED
  BY <1>6 DEF OverLimitReports

LEMMA TakeFirst ==
  ASSUME subscription_queue_ \in Seq(Subscriptions), subscription_queue_ # <<>>,
         subscription_queue_' = Tail(subscription_queue_), NEW s, Waits(s)
  PROVE  s = Head(subscription_queue_) \/ Waits(s)'
<1>1. PICK k \in DOMAIN subscription_queue_ : subscription_queue_[k] = s
  BY DEF Waits
<1>2. k \in 1 .. Len(subscription_queue_) /\ Len(subscription_queue_) \in Nat
  BY <1>1, LenProperties
<1>3. CASE k = 1
  BY <1>1, <1>3
<1>4. CASE k # 1
  <2>1. /\ Len(Tail(subscription_queue_)) = Len(subscription_queue_) - 1
        /\ Tail(subscription_queue_) \in Seq(Subscriptions)
        /\ k - 1 \in 1 .. Len(subscription_queue_) - 1
    BY <1>2, <1>4, HeadTailProperties
  <2>2. Tail(subscription_queue_)[k - 1] = subscription_queue_[k]
    BY <1>2, <1>4, <2>1, HeadTailProperties
  <2>3. k - 1 \in DOMAIN subscription_queue_'
    BY <2>1, LenProperties
  <2> QED
    BY <1>1, <2>2, <2>3 DEF Waits
<1> QED
  BY <1>3, <1>4

\* The subscriptions of the peer of a connection.
LEMMA RequiredOfPeer ==
  ASSUME SetupInv, peer # None, NEW s \in Subscriptions, Required(s)
  PROVE  /\ \E r \in peer.reports : r.handle = s.characteristic_handle /\ r.kind # "OTHER"
         /\ \A k \in DOMAIN peer.reads :
              peer.reads[k].purpose = "BATTERY_LEVEL" =>
                peer.reads[k].characteristic_handle # s.characteristic_handle
         /\ \A j \in DOMAIN peer.subscriptions :
              peer.subscriptions[j].characteristic_handle = s.characteristic_handle =>
                peer.subscriptions[j].kind = "HID"
<1>1. peer \in Peers
  BY DEF SetupInv, TypeOK, LinkType
<1>2. WellFormed(peer)
  BY <1>1, PeerAssumption
<1>3. PICK i \in DOMAIN peer.subscriptions : peer.subscriptions[i] = s
  BY DEF Required
<1>4. s.required /\ s.kind = "HID"
  BY <1>2, <1>3 DEF Required, WellFormed
<1> QED
  BY <1>2, <1>3, <1>4 DEF WellFormed

-----------------------------------------------------------------------------
(* Progress: what a handler does to the required subscriptions. *)

LEMMA ProgressElsewhere ==
  ASSUME setup_phase_' \notin {"REGISTERING", "WAITING_FOR_CCCD", "READY"}
  PROVE  ProgressInv'
BY DEF ProgressInv, NothingForgotten, WaitingIsRegistered, ReadyIsSettled

LEMMA ProgressDegraded ==
  ASSUME degraded_' = TRUE, setup_phase_' \notin {"WAITING_FOR_CCCD", "READY"}
  PROVE  ProgressInv'
BY DEF ProgressInv, NothingForgotten, WaitingIsRegistered, ReadyIsSettled

\* An attempt that goes on, or a phase in which nothing happens.
LEMMA ProgressUntouched ==
  ASSUME ProgressInv, UNCHANGED <<setup_phase_, statusVars, subscription_queue_, active_subscription_, peer>>,
         registered \subseteq registered', enabled_cccds \subseteq enabled_cccds'
  PROVE  ProgressInv'
<1>1. degraded_' = degraded_ /\ status_warning' = status_warning
  BY DEF statusVars
<1>2. NothingForgotten'
  BY <1>1 DEF ProgressInv, NothingForgotten, Required, Waits, Delivered
<1>3. WaitingIsRegistered' /\ ReadyIsSettled'
  BY <1>1 DEF ProgressInv, WaitingIsRegistered, ReadyIsSettled
<1> QED
  BY <1>2, <1>3 DEF ProgressInv

\* A subscription leaves the attempt: it was delivered, or was not required, or
\* setup is degraded.
LEMMA ProgressDropped ==
  ASSUME ProgressInv, setup_phase_ \in {"REGISTERING", "WAITING_FOR_CCCD"},
         setup_phase_' = "REGISTERING", UNCHANGED <<subscription_queue_, peer>>,
         registered \subseteq registered', enabled_cccds \subseteq enabled_cccds',
         \/ degraded_' = TRUE
         \/ /\ degraded_' = degraded_
            /\ active_subscription_.characteristic_handle \in registered'
            /\ active_subscription_.cccd_handle \in enabled_cccds'
         \/ degraded_' = degraded_ /\ active_subscription_.required = FALSE,
         DropSubscription
  PROVE  ProgressInv'
<1>1. WaitingIsRegistered' /\ ReadyIsSettled'
  BY DEF WaitingIsRegistered, ReadyIsSettled
<1>2. CASE degraded_' = TRUE
  BY <1>2, ProgressDegraded
<1>3. CASE degraded_' = degraded_
  <2>1. SUFFICES ASSUME ~degraded_, NEW s \in Subscriptions, Required(s)'
                 PROVE  Delivered(s)' \/ Waits(s)'
    BY <1>1, <1>3 DEF ProgressInv, NothingForgotten
  <2>2. Required(s)
    BY <2>1 DEF Required
  <2>3. Delivered(s) \/ Waits(s) \/ active_subscription_ = s
    BY <2>1, <2>2 DEF ProgressInv, NothingForgotten
  <2>4. CASE Delivered(s) \/ Waits(s)
    BY <2>4 DEF Delivered, Waits
  <2>5. CASE active_subscription_ = s
    <3>1. s.required
      BY <2>2 DEF Required
    <3>2. CASE degraded_' = TRUE
      BY <1>3, <2>1, <3>2
    <3> QED
      BY <2>5, <3>1, <3>2 DEF Delivered
  <2> QED
    BY <2>3, <2>4, <2>5
<1> QED
  BY <1>2, <1>3

LEMMA FailedProgress ==
  ASSUME SetupInv, ProgressInv, active_subscription_ # None, FailSubscription,
         UNCHANGED <<subscription_queue_, peer>>,
         registered \subseteq registered', enabled_cccds \subseteq enabled_cccds'
  PROVE  ProgressInv'
<1>1. setup_phase_ \in {"REGISTERING", "WAITING_FOR_CCCD"}
  BY NoAttempt
<1>2. /\ active_subscription_.required \in BOOLEAN /\ degraded_ \in BOOLEAN
  BY DEF SetupInv, TypeOK, SubscriptionType, Subscriptions, StatusType
<1>3. degraded_' = (degraded_ \/ active_subscription_.required)
  BY <1>2 DEF FailSubscription, TallyFailure, Tally
<1>4. setup_phase_' = "REGISTERING" /\ DropSubscription
  BY DEF FailSubscription, Transition
<1>5. CASE active_subscription_.required = TRUE
  BY <1>1, <1>3, <1>4, <1>5, ProgressDegraded
<1>6. CASE active_subscription_.required = FALSE
  <2>1. degraded_' = degraded_
    BY <1>2, <1>3, <1>6
  <2> QED
    BY <1>1, <1>4, <1>6, <2>1, ProgressDropped
<1> QED
  BY <1>2, <1>5, <1>6

LEMMA GivenUpProgress ==
  ASSUME NEW failures, GiveUpSubscribing(failures)
  PROVE  ProgressInv'
<1>1. degraded_' = TRUE
  BY DEF GiveUpSubscribing, Tally
<1>2. setup_phase_' = "DEGRADED"
  BY <1>1 DEF GiveUpSubscribing, Finalize, Transition
<1> QED
  BY <1>2, ProgressElsewhere

\* plan_subscriptions_ leaves out a subscription only if it marks that.
LEMMA PlannedProgress ==
  ASSUME SetupInv, setup_phase_ # "DISCONNECTED", PlanSubscriptions,
         Transition("REGISTERING"), UNCHANGED peer,
         OverLimitReports > 0 => degraded_' = TRUE
  PROVE  ProgressInv'
<1>1. setup_phase_' = "REGISTERING"
  BY DEF Transition
<1>2. CASE ~(Len(peer.subscriptions) <= MaxSubscriptions)
  BY <1>1, <1>2, OverLimitReported, ProgressDegraded
<1>3. CASE Len(peer.subscriptions) <= MaxSubscriptions
  <2>1. subscription_queue_' = peer.subscriptions
    BY <1>3 DEF PlanSubscriptions, KeptSubscriptions
  <2>2. \A s \in Subscriptions : Required(s)' => Waits(s)'
    BY <2>1 DEF Required, Waits
  <2> QED
    BY <1>1, <2>2 DEF ProgressInv, NothingForgotten, WaitingIsRegistered, ReadyIsSettled
<1> QED
  BY <1>2, <1>3

LEMMA LoopRegisteringProgress ==
  ASSUME SetupInv, ProgressInv, LoopRegistering, UNCHANGED peer
  PROVE  ProgressInv'
<1>1. /\ setup_phase_ = "REGISTERING" /\ UNCHANGED <<registered, enabled_cccds>>
      /\ degraded_ \in BOOLEAN /\ subscription_queue_ \in Seq(Subscriptions)
  BY DEF LoopRegistering, SetupInv, TypeOK, StatusType, SubscriptionType
<1>2. ASSUME subscription_queue_ = <<>>, Tally(0, 0, FALSE, FALSE), Finalize(FALSE),
             UNCHANGED subVars
      PROVE  ProgressInv'
  <2>1. degraded_' = degraded_
    BY <1>1, <1>2 DEF Tally
  <2>2. CASE degraded_ = TRUE
    BY <1>2, <2>1, <2>2, ProgressElsewhere DEF Finalize, Transition
  <2>3. CASE degraded_ = FALSE
    <3>1. setup_phase_' = "READY" /\ status_warning' = FALSE
      BY <1>2, <2>1, <2>3 DEF Finalize, Transition
    <3>2. NothingForgotten'
      BY <1>1, <1>2, <2>1, <2>3
         DEF ProgressInv, NothingForgotten, Required, Waits, Delivered, subVars
    <3> QED
      BY <1>2, <2>1, <2>3, <3>1, <3>2 DEF ProgressInv, WaitingIsRegistered, ReadyIsSettled, subVars
  <2> QED
    BY <1>1, <2>2, <2>3
<1>3. ASSUME subscription_queue_ # <<>>, active_subscription_ = None, UNCHANGED phaseVars,
             subscription_queue_' = Tail(subscription_queue_),
             \/ active_subscription_' = Head(subscription_queue_) /\ UNCHANGED statusVars
             \/ DropSubscription /\ TallyFailure(Head(subscription_queue_).required)
      PROVE  ProgressInv'
  <2> DEFINE next == Head(subscription_queue_)
  <2>1. next \in Subscriptions /\ next.required \in BOOLEAN
    <3>1. next \in Subscriptions
      BY <1>1, <1>3, QueueType
    <3> QED
      BY <3>1 DEF Subscriptions
  <2>2. setup_phase_' = "REGISTERING"
    BY <1>1, <1>3 DEF phaseVars
  <2>3. WaitingIsRegistered' /\ ReadyIsSettled'
    BY <2>2 DEF WaitingIsRegistered, ReadyIsSettled
  <2>4. ASSUME degraded_' = degraded_,
               NEW s \in Subscriptions, ~degraded_, Required(s)'
        PROVE  Delivered(s)' \/ Waits(s)' \/ s = next
    <3>1. Required(s) /\ s # None
      BY <2>4, PeerAssumption DEF Required
    <3>2. Delivered(s) \/ Waits(s)
      BY <1>1, <1>3, <2>4, <3>1 DEF ProgressInv, NothingForgotten
    <3>3. CASE Delivered(s)
      BY <1>1, <3>3 DEF Delivered
    <3>4. CASE Waits(s)
      BY <1>1, <1>3, <3>4, TakeFirst
    <3> QED
      BY <3>2, <3>3, <3>4
  <2> HIDE DEF next
  <2>5. CASE active_subscription_' = next /\ UNCHANGED statusVars
    <3>1. degraded_' = degraded_
      BY <2>5 DEF statusVars
    <3>2. NothingForgotten'
      BY <2>4, <2>5, <3>1 DEF NothingForgotten
    <3> QED
      BY <2>3, <3>2 DEF ProgressInv
  <2>6. CASE TallyFailure(next.required)
    <3>1. degraded_' = (degraded_ \/ next.required)
      BY <1>1, <2>1, <2>6 DEF TallyFailure, Tally
    <3>2. CASE next.required = TRUE
      BY <2>2, <3>1, <3>2, ProgressDegraded
    <3>3. CASE next.required = FALSE
      <4>1. degraded_' = degraded_
        BY <1>1, <3>1, <3>3
      <4>2. \A s \in Subscriptions : Required(s)' => s # next
        BY <3>3 DEF Required
      <4>3. NothingForgotten'
        BY <2>4, <4>1, <4>2 DEF NothingForgotten
      <4> QED
        BY <2>3, <4>3 DEF ProgressInv
    <3> QED
      BY <2>1, <3>2, <3>3
  <2> QED
    BY <1>3, <2>5, <2>6 DEF next
<1>4. CASE UNCHANGED <<phaseVars, statusVars, subVars>>
  BY <1>1, <1>4, ProgressUntouched DEF phaseVars, subVars
<1>5. CASE \E failures \in {0, 1} : GiveUpSubscribing(failures)
  BY <1>5, GivenUpProgress
<1> QED
  BY <1>2, <1>3, <1>4, <1>5 DEF LoopRegistering

LEMMA LoopProgress ==
  ASSUME SetupInv, ProgressInv, Loop
  PROVE  ProgressInv'
<1>1. UNCHANGED peer
  BY DEF Loop
<1>2. CASE LoopInventory
  <2>1. setup_phase_' \in {"DEGRADED", "NO_HID", "READING"}
    BY <1>2 DEF LoopInventory, Tally, Finalize, Transition
  <2> QED
    BY <2>1, ProgressElsewhere
<1>3. CASE LoopReading
  <2>1. setup_phase_' \in {"READING", "BUILDING_PROFILE"}
    BY <1>3 DEF LoopReading, GiveUpReading, Transition, phaseVars
  <2> QED
    BY <2>1, ProgressElsewhere
<1>4. CASE LoopBuilding
  <2>1. CASE setup_phase_' = "WRITING_PROTOCOL_MODE"
    BY <2>1, ProgressElsewhere
  <2>2. CASE /\ PlanSubscriptions /\ Transition("REGISTERING")
             /\ Tally(0, OverLimitReports, OverLimitReports > 0, SchemaIncomplete)
    BY <1>1, <1>4, <2>2, PlannedProgress DEF LoopBuilding, Tally
  <2> QED
    BY <1>4, <2>1, <2>2 DEF LoopBuilding, Transition
<1>5. CASE LoopWriting
  <2>1. CASE /\ PlanSubscriptions /\ Transition("REGISTERING")
             /\ Tally(0, OverLimitReports, OverLimitReports > 0, FALSE)
    BY <1>1, <1>5, <2>1, PlannedProgress DEF LoopWriting, Tally
  <2>2. CASE setup_phase_' \in {"WRITING_PROTOCOL_MODE", "DEGRADED"}
    BY <2>2, ProgressElsewhere
  <2> QED
    BY <1>5, <2>1, <2>2 DEF LoopWriting, Tally, Finalize, Transition, phaseVars
<1>6. CASE LoopRegistering
  BY <1>1, <1>6, LoopRegisteringProgress
<1>7. CASE LoopWaiting
  <2>1. UNCHANGED <<registered, enabled_cccds>>
    BY <1>7 DEF LoopWaiting
  <2>2. CASE active_subscription_ # None /\ OwnWriteNotScheduled
    BY <1>1, <2>1, <2>2, FailedProgress DEF OwnWriteNotScheduled
  <2>3. CASE GiveUpSubscribing(0)
    BY <2>3, GivenUpProgress
  <2>4. CASE UNCHANGED <<phaseVars, statusVars, subscription_queue_, active_subscription_>>
    BY <1>1, <2>1, <2>4, ProgressUntouched DEF phaseVars
  <2> QED
    BY <1>7, <2>2, <2>3, <2>4 DEF LoopWaiting, subVars
<1>8. CASE LoopIdle
  BY <1>1, <1>8, ProgressUntouched DEF LoopIdle, phaseVars, subVars, stackVars
<1> QED
  BY <1>2, <1>3, <1>4, <1>5, <1>6, <1>7, <1>8 DEF Loop

LEMMA RegistrationProgress ==
  ASSUME SetupInv, ProgressInv, RegistrationResult
  PROVE  ProgressInv'
<1>1. UNCHANGED <<peer, subscription_queue_, enabled_cccds>> /\ registered \subseteq registered'
  BY DEF RegistrationResult, linkVars
<1>2. CASE UNCHANGED <<phaseVars, statusVars, active_subscription_>>
  BY <1>1, <1>2, ProgressUntouched DEF phaseVars
<1>3. CASE active_subscription_ # None /\ FailSubscription
  BY <1>1, <1>3, FailedProgress
<1>4. ASSUME NEW success \in BOOLEAN, active_subscription_ # None,
             RegistrationDecision(subscription_state_, Head(registrations), success)
               = "WAIT_FOR_CCCD",
             registered' = IF success THEN registered \cup {Head(registrations)} ELSE registered,
             Transition("WAITING_FOR_CCCD"), UNCHANGED <<statusVars, active_subscription_>>
      PROVE  ProgressInv'
  <2>1. /\ subscription_state_.stage = "REGISTERING" /\ success = TRUE
        /\ Head(registrations) = subscription_state_.characteristic_handle
    BY <1>4 DEF RegistrationDecision
  <2>2. /\ setup_phase_ = "REGISTERING"
        /\ Head(registrations) = active_subscription_.characteristic_handle
    BY <1>4, <2>1 DEF SetupInv, AttemptIsCoherent
  <2>3. setup_phase_' = "WAITING_FOR_CCCD" /\ degraded_' = degraded_
    BY <1>4 DEF Transition, statusVars
  <2>4. NothingForgotten'
    BY <1>1, <1>4, <2>2, <2>3 DEF ProgressInv, NothingForgotten, Required, Waits, Delivered
  <2>5. WaitingIsRegistered' /\ ReadyIsSettled'
    BY <1>4, <2>1, <2>2, <2>3 DEF WaitingIsRegistered, ReadyIsSettled
  <2> QED
    BY <2>4, <2>5 DEF ProgressInv
<1> QED
  BY <1>2, <1>3, <1>4 DEF RegistrationResult

\* handle_cccd_result_ completes a subscription that waits for its CCCD, and that
\* is registered by then.
LEMMA CccdProgress ==
  ASSUME SetupInv, ProgressInv, CccdResult
  PROVE  ProgressInv'
<1>1. UNCHANGED <<peer, subscription_queue_, registered>> /\ enabled_cccds \subseteq enabled_cccds'
  BY DEF CccdResult, linkVars
<1>2. CASE UNCHANGED <<phaseVars, statusVars, active_subscription_>>
  BY <1>1, <1>2, ProgressUntouched DEF phaseVars
<1>3. CASE active_subscription_ # None /\ FailSubscription
  BY <1>1, <1>3, FailedProgress
<1>4. ASSUME NEW success \in BOOLEAN, active_subscription_ # None,
             CccdDecision(subscription_state_, Head(att_requests).handle, success) = "COMPLETE",
             enabled_cccds' = IF success THEN enabled_cccds \cup {Head(att_requests).handle}
                              ELSE enabled_cccds,
             Tally(1, 0, FALSE, FALSE), DropSubscription, Transition("REGISTERING")
      PROVE  ProgressInv'
  <2>1. /\ subscription_state_.stage = "WAITING_FOR_CCCD" /\ success = TRUE
        /\ Head(att_requests).handle = subscription_state_.cccd_handle
    BY <1>4 DEF CccdDecision
  <2>2. /\ setup_phase_ = "WAITING_FOR_CCCD"
        /\ Head(att_requests).handle = active_subscription_.cccd_handle
    BY <1>4, <2>1 DEF SetupInv, AttemptIsCoherent
  <2>3. active_subscription_.characteristic_handle \in registered
    BY <2>2 DEF ProgressInv, WaitingIsRegistered
  <2>4. degraded_' = degraded_
    BY <1>4 DEF Tally, SetupInv, TypeOK, StatusType
  <2>5. setup_phase_' = "REGISTERING"
    BY <1>4 DEF Transition
  <2> QED
    BY <1>1, <1>4, <2>1, <2>2, <2>3, <2>4, <2>5, ProgressDropped
<1> QED
  BY <1>2, <1>3, <1>4 DEF CccdResult

LEMMA ProgressStep ==
  ASSUME SetupInv, ReadFollowsPhase, ProgressInv, [Next]_vars
  PROVE  ProgressInv'
<1>1. CASE Loop
  BY <1>1, LoopProgress
<1>2. CASE Connect \/ Disconnect
  BY <1>2, ProgressElsewhere DEF Connect, Disconnect, Transition
<1>3. CASE SearchComplete
  <2>1. setup_phase_' \in {"INVENTORY", "DEGRADED"}
    BY <1>3 DEF SearchComplete, Tally, Finalize, Transition
  <2> QED
    BY <2>1, ProgressElsewhere
<1>4. CASE ReadResult
  <2>1. UNCHANGED <<phaseVars, subscription_queue_, active_subscription_, peer, registered, enabled_cccds>>
    BY <1>4 DEF ReadResult, subVars, linkVars
  <2>2. CASE UNCHANGED statusVars
    BY <2>1, <2>2, ProgressUntouched DEF phaseVars
  <2>3. CASE active_read_ # None
    <3>1. setup_phase_' = "READING"
      BY <2>1, <2>3 DEF ReadFollowsPhase, phaseVars
    <3> QED
      BY <3>1, ProgressElsewhere
  <2> QED
    BY <1>4, <2>2, <2>3 DEF ReadResult
<1>5. CASE RegistrationResult
  BY <1>5, RegistrationProgress
<1>6. CASE CccdResult
  BY <1>6, CccdProgress
<1>7. CASE UNCHANGED <<phaseVars, statusVars, subVars, linkVars, registered, enabled_cccds>>
  BY <1>7, ProgressUntouched DEF phaseVars, subVars, linkVars
<1> QED
  BY <1>1, <1>2, <1>3, <1>4, <1>5, <1>6, <1>7
     DEF Next, Callback, Notification, ServiceChanged, Congestion, ForeignRegistration, Tick,
         unchangedButFlow, stackVars, vars

-----------------------------------------------------------------------------
(* Routes: what the reads and the plans take a handle for. *)

Routed == {"WRITING_PROTOCOL_MODE", "REGISTERING", "WAITING_FOR_CCCD", "READY"}

LEMMA RoutesKept ==
  ASSUME RouteInv, UNCHANGED <<readVars, routeVars, peer>>,
         setup_phase_' \in Routed => setup_phase_ \in Routed
  PROVE  RouteInv'
<1>1. ReadsOfPeer'
  BY DEF RouteInv, ReadsOfPeer, ReadOfPeer, readVars
<1>2. SourcesRouted'
  BY DEF RouteInv, SourcesRouted, Routed, routeVars
<1>3. InputsNotDiverted'
  BY DEF RouteInv, InputsNotDiverted, Required, routeVars
<1> QED
  BY <1>1, <1>2, <1>3 DEF RouteInv

LEMMA ReadsTaken ==
  ASSUME read_queue_ \in Seq(ReadOperations), read_queue_ # <<>>, RouteInv, UNCHANGED peer,
         read_queue_' = Tail(read_queue_), active_read_' \in {Head(read_queue_), None}
  PROVE  ReadsOfPeer'
<1>1. Len(read_queue_) \in Nat /\ Len(read_queue_) # 0
  BY EmptySeq, LenProperties
<1>2. 1 \in DOMAIN read_queue_ /\ Head(read_queue_) = read_queue_[1]
  BY <1>1, LenProperties
<1>3. ReadOfPeer(Head(read_queue_))
  BY <1>2 DEF RouteInv, ReadsOfPeer
<1>4. ASSUME NEW k \in DOMAIN read_queue_' PROVE ReadOfPeer(read_queue_'[k])
  <2>1. /\ Len(Tail(read_queue_)) = Len(read_queue_) - 1 /\ Tail(read_queue_) \in Seq(ReadOperations)
    BY <1>1, HeadTailProperties
  <2>2. k \in 1 .. Len(read_queue_) - 1 /\ k + 1 \in 1 .. Len(read_queue_)
    BY <1>1, <1>4, <2>1, LenProperties
  <2>3. read_queue_'[k] = read_queue_[k + 1] /\ k + 1 \in DOMAIN read_queue_
    BY <1>1, <2>1, <2>2, HeadTailProperties, LenProperties
  <2> QED
    BY <2>3 DEF RouteInv, ReadsOfPeer
<1> QED
  BY <1>3, <1>4 DEF ReadsOfPeer, ReadOfPeer

LEMMA ReadsDropped ==
  ASSUME read_queue_' = <<>>, active_read_' = None
  PROVE  ReadsOfPeer'
BY DEF ReadsOfPeer

LEMMA ReadsPlanned ==
  ASSUME SetupInv, setup_phase_ # "DISCONNECTED", RouteInv, UNCHANGED peer,
         NEW failures, PlanReads(failures)
  PROVE  ReadsOfPeer'
<1> DEFINE kept == IF Len(peer.reads) <= MaxReads THEN Len(peer.reads) ELSE MaxReads
<1>1. peer.reads \in Seq(ReadOperations) /\ Len(peer.reads) \in Nat /\ MaxReads \in Nat
  BY PeerTyped, LenProperties, ParameterAssumption
<1>2. kept \in Nat /\ kept <= Len(peer.reads)
  BY <1>1
<1>3. read_queue_' = SubSeq(peer.reads, 1, kept) /\ active_read_' = active_read_
  BY DEF PlanReads
<1> HIDE DEF kept
<1>4. ASSUME NEW k \in DOMAIN read_queue_' PROVE ReadOfPeer(read_queue_'[k])
  <2>1. \A i \in 1 .. kept : peer.reads[i] \in ReadOperations
    BY <1>1, <1>2, ElementOfSeq
  <2>2. k \in 1 .. kept /\ read_queue_'[k] = peer.reads[k]
    BY <1>1, <1>2, <1>3, <1>4, <2>1, SubSeqProperties, LenProperties
  <2>3. k \in DOMAIN peer.reads
    BY <1>1, <1>2, <2>2, LenProperties
  <2> QED
    BY <2>2, <2>3 DEF ReadOfPeer
<1> QED
  BY <1>3, <1>4 DEF RouteInv, ReadsOfPeer, ReadOfPeer

LEMMA KeptOfPeer ==
  ASSUME SetupInv, setup_phase_ # "DISCONNECTED", NEW k \in DOMAIN KeptSubscriptions
  PROVE  \E j \in DOMAIN peer.subscriptions : KeptSubscriptions[k] = peer.subscriptions[j]
<1>1. /\ peer.subscriptions \in Seq(Subscriptions) /\ Len(peer.subscriptions) \in Nat
      /\ MaxSubscriptions \in Nat
  BY PeerTyped, LenProperties, ParameterAssumption
<1>2. CASE Len(peer.subscriptions) <= MaxSubscriptions
  BY <1>2 DEF KeptSubscriptions
<1>3. CASE ~(Len(peer.subscriptions) <= MaxSubscriptions)
  <2>1. KeptSubscriptions = SubSeq(peer.subscriptions, 1, MaxSubscriptions)
    BY <1>3 DEF KeptSubscriptions
  <2>2. \A i \in 1 .. MaxSubscriptions : peer.subscriptions[i] \in Subscriptions
    BY <1>1, <1>3, ElementOfSeq
  <2>3. k \in 1 .. MaxSubscriptions /\ KeptSubscriptions[k] = peer.subscriptions[k]
    BY <1>1, <1>3, <2>1, <2>2, SubSeqProperties, LenProperties
  <2>4. k \in DOMAIN peer.subscriptions
    BY <1>1, <1>3, <2>3, LenProperties
  <2> QED
    BY <2>3, <2>4
<1> QED
  BY <1>2, <1>3

\* plan_subscriptions_ files no HID input as a battery level or Service Changed.
LEMMA PlannedRoutes ==
  ASSUME SetupInv, setup_phase_ # "DISCONNECTED", RouteInv, UNCHANGED peer, PlanSubscriptions
  PROVE  InputsNotDiverted'
<1>1. SUFFICES ASSUME NEW s \in Subscriptions, peer # None, Required(s),
                      NEW kind \in {"BATTERY", "SERVICE_CHANGED"}
               PROVE  s.characteristic_handle \notin HandlesOfKind(KeptSubscriptions, kind)
  BY DEF RouteInv, InputsNotDiverted, Required, PlanSubscriptions
<1>2. SUFFICES ASSUME NEW k \in DOMAIN KeptSubscriptions, KeptSubscriptions[k].kind = kind,
                      KeptSubscriptions[k].characteristic_handle = s.characteristic_handle
               PROVE  FALSE
  BY DEF HandlesOfKind
<1>3. PICK j \in DOMAIN peer.subscriptions : KeptSubscriptions[k] = peer.subscriptions[j]
  BY KeptOfPeer
<1> QED
  BY <1>1, <1>2, <1>3, RequiredOfPeer

LEMMA LoopRoutes ==
  ASSUME SetupInv, RouteInv, Loop
  PROVE  RouteInv'
<1>1. UNCHANGED peer
  BY DEF Loop
<1>2. ASSUME ReadsOfPeer', UNCHANGED routeVars, setup_phase_' \notin Routed
      PROVE  RouteInv'
  <2>1. SourcesRouted'
    BY <1>2 DEF SourcesRouted, Routed
  <2>2. InputsNotDiverted'
    BY <1>1, <1>2 DEF RouteInv, InputsNotDiverted, Required, routeVars
  <2> QED
    BY <1>2, <2>1, <2>2 DEF RouteInv
<1>3. CASE LoopInventory
  <2>1. setup_phase_' \notin Routed /\ UNCHANGED routeVars /\ setup_phase_ # "DISCONNECTED"
    BY <1>3 DEF LoopInventory, Tally, Finalize, Transition, Routed
  <2>2. CASE UNCHANGED readVars
    BY <1>1, <1>2, <2>1, <2>2 DEF RouteInv, ReadsOfPeer, ReadOfPeer, readVars
  <2>3. CASE \E failures \in {0, 1} : PlanReads(failures)
    BY <1>1, <1>2, <2>1, <2>3, ReadsPlanned
  <2> QED
    BY <1>3, <2>2, <2>3 DEF LoopInventory
<1>4. CASE LoopReading
  <2>1. setup_phase_' \notin Routed /\ UNCHANGED routeVars
    BY <1>4 DEF LoopReading, GiveUpReading, Transition, phaseVars, Routed
  <2>2. CASE UNCHANGED readVars
    BY <1>1, <1>2, <2>1, <2>2 DEF RouteInv, ReadsOfPeer, ReadOfPeer, readVars
  <2>3. CASE read_queue_' = <<>> /\ active_read_' = None
    BY <1>2, <2>1, <2>3, ReadsDropped
  <2>4. CASE /\ read_queue_ # <<>> /\ read_queue_' = Tail(read_queue_)
             /\ active_read_' \in {Head(read_queue_), None}
    <3>1. read_queue_ \in Seq(ReadOperations)
      BY DEF SetupInv, TypeOK, ReadType
    <3> QED
      BY <1>1, <1>2, <2>1, <2>4, <3>1, ReadsTaken
  <2> QED
    BY <1>4, <2>2, <2>3, <2>4 DEF LoopReading, GiveUpReading
<1>5. CASE LoopBuilding \/ LoopWriting
  <2>1. UNCHANGED readVars /\ setup_phase_ \in {"BUILDING_PROFILE", "WRITING_PROTOCOL_MODE"}
    BY <1>5 DEF LoopBuilding, LoopWriting
  <2>2. ReadsOfPeer'
    BY <1>1, <2>1 DEF RouteInv, ReadsOfPeer, ReadOfPeer, readVars
  <2>3. SourcesRouted'
    <3>1. CASE LoopBuilding
      BY <1>1, <3>1 DEF LoopBuilding, SourcesRouted
    <3>2. CASE LoopWriting
      BY <1>1, <3>2 DEF LoopWriting, RouteInv, SourcesRouted
    <3> QED
      BY <1>5, <3>1, <3>2
  <2>4. InputsNotDiverted'
    <3>1. CASE PlanSubscriptions
      BY <1>1, <2>1, <3>1, PlannedRoutes
    <3>2. CASE UNCHANGED <<battery_handles_, service_changed_handles_>>
      BY <1>1, <3>2 DEF RouteInv, InputsNotDiverted, Required
    <3> QED
      BY <1>5, <3>1, <3>2 DEF LoopBuilding, LoopWriting
  <2> QED
    BY <2>2, <2>3, <2>4 DEF RouteInv
<1>6. CASE LoopRegistering \/ LoopWaiting
  BY <1>1, <1>6, RoutesKept DEF LoopRegistering, LoopWaiting, Routed
<1>7. CASE LoopIdle
  BY <1>1, <1>7, RoutesKept DEF LoopIdle, phaseVars
<1> QED
  BY <1>3, <1>4, <1>5, <1>6, <1>7 DEF Loop

\* A value read says of a HID input that it is a battery level for no peer.
LEMMA ReadResultRoutes ==
  ASSUME SetupInv, RouteInv, ReadResult
  PROVE  RouteInv'
<1>1. /\ UNCHANGED <<phaseVars, read_queue_, hid_report_handles_, service_changed_handles_, peer>>
      /\ active_read_' \in {active_read_, None}
  BY DEF ReadResult, linkVars
<1>2. ReadsOfPeer'
  BY <1>1 DEF RouteInv, ReadsOfPeer, ReadOfPeer
<1>3. SourcesRouted'
  BY <1>1 DEF RouteInv, SourcesRouted, phaseVars
<1>4. CASE UNCHANGED battery_handles_
  BY <1>1, <1>2, <1>3, <1>4 DEF RouteInv, InputsNotDiverted, Required
<1>5. ASSUME NEW value \in ReadValues, active_read_ # None, ProcessReadValue(active_read_, value)
      PROVE  RouteInv'
  <2>1. PICK j \in DOMAIN peer.reads : peer.reads[j] = active_read_
    BY <1>5 DEF RouteInv, ReadsOfPeer, ReadOfPeer
  <2>2. battery_handles_' = battery_handles_ \cup
          {h \in {active_read_.characteristic_handle} :
             active_read_.purpose = "BATTERY_LEVEL" /\ value \in {"OK", "MALFORMED"}}
    BY <1>5 DEF ProcessReadValue
  <2>3. InputsNotDiverted'
    <3>1. SUFFICES ASSUME NEW s \in Subscriptions, peer # None, Required(s)
                   PROVE  s.characteristic_handle \notin battery_handles_'
      BY <1>1 DEF RouteInv, InputsNotDiverted, Required
    <3>2. active_read_.purpose = "BATTERY_LEVEL" =>
            active_read_.characteristic_handle # s.characteristic_handle
      BY <2>1, <3>1, RequiredOfPeer
    <3>3. s.characteristic_handle \notin battery_handles_
      BY <3>1 DEF RouteInv, InputsNotDiverted
    <3> QED
      BY <2>2, <3>2, <3>3
  <2> QED
    BY <1>2, <1>3, <2>3 DEF RouteInv
<1> QED
  BY <1>4, <1>5 DEF ReadResult

LEMMA RouteStep ==
  ASSUME SetupInv, RouteInv, [Next]_vars
  PROVE  RouteInv'
<1>1. CASE Loop
  BY <1>1, LoopRoutes
<1>2. CASE Connect \/ Disconnect
  <2>1. /\ read_queue_' = <<>> /\ active_read_' = None
        /\ battery_handles_' = {} /\ service_changed_handles_' = {}
        /\ setup_phase_' \in {"DISCONNECTED", "WAITING_FOR_DISCOVERY"}
    BY <1>2 DEF Connect, Disconnect, ResetConnectionState, Transition
  <2>2. ReadsOfPeer' /\ SourcesRouted' /\ InputsNotDiverted'
    BY <2>1, ReadsDropped DEF SourcesRouted, InputsNotDiverted
  <2> QED
    BY <2>2 DEF RouteInv
<1>3. CASE SearchComplete
  <2>1. setup_phase_' \notin Routed
    BY <1>3 DEF SearchComplete, Tally, Finalize, Transition, Routed
  <2> QED
    BY <1>3, <2>1, RoutesKept DEF SearchComplete
<1>4. CASE ReadResult
  BY <1>4, ReadResultRoutes
<1>5. CASE RegistrationResult \/ CccdResult
  <2>1. UNCHANGED <<readVars, routeVars, peer>>
    BY <1>5 DEF RegistrationResult, CccdResult, linkVars
  <2>2. CASE active_subscription_ = None
    BY <1>5, <2>1, <2>2, RoutesKept DEF RegistrationResult, CccdResult, phaseVars
  <2>3. CASE active_subscription_ # None
    BY <2>1, <2>3, NoAttempt, RoutesKept DEF Routed
  <2> QED
    BY <2>2, <2>3
<1>6. CASE UNCHANGED <<phaseVars, readVars, routeVars, linkVars>>
  BY <1>6, RoutesKept DEF phaseVars, linkVars
<1> QED
  BY <1>1, <1>2, <1>3, <1>4, <1>5, <1>6
     DEF Next, Callback, Notification, ServiceChanged, Congestion, ForeignRegistration, Tick,
         unchangedButFlow, vars

-----------------------------------------------------------------------------
(* READY. *)

ReadyInv == SetupInv /\ ReadFollowsPhase /\ ProgressInv /\ RouteInv

LEMMA ReadyInit == Init => ReadyInv
<1> SUFFICES ASSUME Init PROVE ReadyInv
  OBVIOUS
<1>1. SetupInv /\ ReadFollowsPhase
  BY TypeInit, ReadFollowsPhaseInit
<1>2. ProgressInv
  BY DEF Init, ProgressInv, NothingForgotten, WaitingIsRegistered, ReadyIsSettled
<1>3. RouteInv
  BY DEF Init, RouteInv, ReadsOfPeer, SourcesRouted, InputsNotDiverted
<1> QED
  BY <1>1, <1>2, <1>3 DEF ReadyInv

LEMMA ReadyStep == ReadyInv /\ [Next]_vars => ReadyInv'
BY StepInv, ReadFollowsPhaseStep, ProgressStep, RouteStep DEF ReadyInv

\* What the invariant says of READY.
LEMMA ReadyIsDelivered == ReadyInv => ReadyMeansSubscribed
<1> SUFFICES ASSUME ReadyInv, setup_phase_ = "READY" PROVE
      /\ ~degraded_ /\ ~status_warning
      /\ \A i \in DOMAIN peer.subscriptions :
           peer.subscriptions[i].required =>
             /\ peer.subscriptions[i].characteristic_handle \in registered
             /\ peer.subscriptions[i].cccd_handle \in enabled_cccds
             /\ RoutedToReports(peer.subscriptions[i].characteristic_handle)
  BY DEF ReadyMeansSubscribed
<1>1. ~degraded_ /\ ~status_warning /\ subscription_queue_ = <<>>
  BY DEF ReadyInv, ProgressInv, ReadyIsSettled
<1>2. active_subscription_ = None /\ peer # None
  BY NoAttempt DEF ReadyInv, SetupInv, PhaseFollowsLink
<1>3. ASSUME NEW i \in DOMAIN peer.subscriptions, peer.subscriptions[i].required
      PROVE  /\ peer.subscriptions[i].characteristic_handle \in registered
             /\ peer.subscriptions[i].cccd_handle \in enabled_cccds
             /\ RoutedToReports(peer.subscriptions[i].characteristic_handle)
  <2> DEFINE s == peer.subscriptions[i]
  <2>1. s \in Subscriptions /\ s # None
    BY PeerTyped, ElementOfSeq, LenProperties, PeerAssumption DEF ReadyInv
  <2>2. Required(s)
    BY <1>3 DEF Required
  <2> HIDE DEF s
  <2>3. Delivered(s)
    BY <1>1, <1>2, <2>1, <2>2 DEF ReadyInv, ProgressInv, NothingForgotten, Waits
  <2>4. /\ s.characteristic_handle \notin battery_handles_
        /\ s.characteristic_handle \notin service_changed_handles_
    BY <1>2, <2>1, <2>2 DEF ReadyInv, RouteInv, InputsNotDiverted
  <2>5. s.characteristic_handle \in hid_report_handles_
    BY <1>2, <2>1, <2>2, RequiredOfPeer DEF ReadyInv, RouteInv, SourcesRouted
  <2> QED
    BY <2>3, <2>4, <2>5 DEF s, Delivered, RoutedToReports
<1> QED
  BY <1>1, <1>3

\* READY is reached only with every HID input registered, its CCCD accepted and its
\* handle routed to the reports, whatever was dropped, answered late or answered
\* for another node on the way.
THEOREM ReadyIsSubscribed == Spec => []ReadyMeansSubscribed
BY ReadyIsDelivered, ReadyInit, ReadyStep, PTL DEF Spec

-----------------------------------------------------------------------------
(* The account.  Unless setup is degraded, what has an outcome and what still *)
(* waits for one add up to what the database calls for, stage by stage; and   *)
(* whatever drops an operation without an outcome degrades the setup.         *)

Settled == operations_succeeded_ + operations_failed_

InFlight(operation) == IF operation = None THEN 0 ELSE 1

ReadsDue  == Len(peer.reads)
WritesDue == ReadsDue + Len(ProtocolModeWrites)
AllDue    == WritesDue + Len(peer.subscriptions)

AccountInv ==
  ~degraded_ =>
    /\ setup_phase_ \in {"WAITING_FOR_DISCOVERY", "INVENTORY"} => Settled = 0
    /\ setup_phase_ = "READING" =>
         Settled + Len(read_queue_) + InFlight(active_read_) = ReadsDue
    /\ setup_phase_ = "BUILDING_PROFILE" => Settled = ReadsDue
    /\ setup_phase_ = "WRITING_PROTOCOL_MODE" =>
         Settled + Len(protocol_write_handles_) = WritesDue
    /\ setup_phase_ \in {"REGISTERING", "WAITING_FOR_CCCD"} =>
         Settled + Len(subscription_queue_) + InFlight(active_subscription_) = AllDue
    /\ setup_phase_ = "READY" => Settled = AllDue

accountVars == <<setup_phase_, statusVars, read_queue_, active_read_, protocol_write_handles_,
                 subscription_queue_, active_subscription_, peer>>

LEMMA AccountTypes ==
  ASSUME SetupInv, setup_phase_ # "DISCONNECTED"
  PROVE  /\ Settled \in Nat /\ degraded_ \in BOOLEAN
         /\ Len(peer.reads) \in Nat /\ Len(ProtocolModeWrites) \in Nat
         /\ Len(peer.subscriptions) \in Nat
         /\ Len(read_queue_) \in Nat /\ Len(protocol_write_handles_) \in Nat
         /\ Len(subscription_queue_) \in Nat
<1>1. Settled \in Nat /\ degraded_ \in BOOLEAN
  BY DEF Settled, SetupInv, TypeOK, StatusType
<1>2. /\ read_queue_ \in Seq(ReadOperations) /\ protocol_write_handles_ \in Seq(Handles)
      /\ subscription_queue_ \in Seq(Subscriptions)
  BY DEF SetupInv, TypeOK, ReadType, RouteType, SubscriptionType
<1> QED
  BY <1>1, <1>2, PeerTyped, ProtocolModeWritesType, LenProperties

LEMMA TakenShorter ==
  ASSUME NEW S, NEW queue \in Seq(S), queue # <<>>
  PROVE  Len(Tail(queue)) = Len(queue) - 1 /\ Len(queue) \in Nat
BY HeadTailProperties, LenProperties

LEMMA AccountUntouched ==
  ASSUME AccountInv, UNCHANGED accountVars
  PROVE  AccountInv'
BY DEF AccountInv, accountVars, statusVars, Settled, ReadsDue, WritesDue, AllDue, ProtocolModeWrites

LEMMA AccountElsewhere ==
  ASSUME setup_phase_' \in {"DISCONNECTED", "DEGRADED", "NO_HID"}
  PROVE  AccountInv'
BY DEF AccountInv

LEMMA AccountDegraded ==
  ASSUME degraded_' = TRUE
  PROVE  AccountInv'
BY DEF AccountInv

\* An operation of the current attempt got its outcome.
LEMMA AccountDropped ==
  ASSUME SetupInv, AccountInv, setup_phase_ \in {"REGISTERING", "WAITING_FOR_CCCD"},
         active_subscription_ # None, DropSubscription, Transition("REGISTERING"),
         UNCHANGED <<subscription_queue_, peer>>,
         Settled' = Settled + 1, ~degraded_' => ~degraded_
  PROVE  AccountInv'
<1>1. setup_phase_' = "REGISTERING" /\ active_subscription_' = None
  BY DEF Transition, DropSubscription
<1>2. Settled \in Nat /\ Len(subscription_queue_) \in Nat
  BY AccountTypes
<1>3. ~degraded_' => Settled' + Len(subscription_queue_) = AllDue
  <2>1. ~degraded_ => Settled + Len(subscription_queue_) + 1 = AllDue
    BY DEF AccountInv, InFlight
  <2> QED
    BY <1>2, <2>1
<1>4. ~degraded_' => Settled' + Len(subscription_queue_)' + InFlight(active_subscription_)' = AllDue'
  <2>1. InFlight(active_subscription_)' = 0
    BY <1>1 DEF InFlight
  <2>2. AllDue' = AllDue /\ Settled' \in Nat
    BY <1>2 DEF AllDue, WritesDue, ReadsDue, ProtocolModeWrites
  <2> QED
    BY <1>2, <1>3, <2>1, <2>2
<1> QED
  BY <1>1, <1>4 DEF AccountInv

LEMMA FailedAccount ==
  ASSUME SetupInv, AccountInv, active_subscription_ # None, FailSubscription,
         UNCHANGED <<subscription_queue_, peer>>
  PROVE  AccountInv'
<1>1. setup_phase_ \in {"REGISTERING", "WAITING_FOR_CCCD"}
  BY NoAttempt
<1>2. active_subscription_.required \in BOOLEAN
  BY DEF SetupInv, TypeOK, SubscriptionType, Subscriptions
<1>3. Settled' = Settled + 1 /\ (~degraded_' => ~degraded_)
  BY <1>2 DEF FailSubscription, TallyFailure, Tally, Settled, SetupInv, TypeOK, StatusType
<1>4. DropSubscription /\ Transition("REGISTERING")
  BY DEF FailSubscription
<1> QED
  BY <1>1, <1>3, <1>4, AccountDropped

LEMMA GivenUpAccount ==
  ASSUME NEW failures, GiveUpSubscribing(failures)
  PROVE  AccountInv'
BY AccountDegraded DEF GiveUpSubscribing, Tally

\* The subscriptions over the limit degrade the setup; else all are in the queue.
LEMMA PlannedAccount ==
  ASSUME SetupInv, setup_phase_ \in {"BUILDING_PROFILE", "WRITING_PROTOCOL_MODE"},
         PlanSubscriptions, Transition("REGISTERING"),
         OverLimitReports > 0 => degraded_' = TRUE,
         OverLimitReports = 0 => Settled' = Settled,
         ~degraded_' => ~degraded_,
         UNCHANGED <<active_subscription_, peer>>,
         ~degraded_ => Settled = WritesDue
  PROVE  AccountInv'
<1>1. setup_phase_' = "REGISTERING"
  BY DEF Transition
<1>2. active_subscription_' = None
  BY NoAttempt
<1>3. CASE ~(Len(peer.subscriptions) <= MaxSubscriptions)
  BY <1>3, OverLimitReported, AccountDegraded
<1>4. CASE Len(peer.subscriptions) <= MaxSubscriptions /\ OverLimitReports > 0
  BY <1>4, AccountDegraded
<1>5. CASE Len(peer.subscriptions) <= MaxSubscriptions /\ OverLimitReports = 0
  <2>1. subscription_queue_' = peer.subscriptions
    BY <1>5 DEF PlanSubscriptions, KeptSubscriptions
  <2>2. Settled' = Settled /\ Settled \in Nat
    BY <1>5, AccountTypes
  <2>3. AllDue' = AllDue /\ WritesDue \in Nat /\ Len(peer.subscriptions) \in Nat
    <3>1. AllDue' = AllDue
      BY DEF AllDue, WritesDue, ReadsDue, ProtocolModeWrites
    <3>2. WritesDue \in Nat /\ Len(peer.subscriptions) \in Nat
      BY AccountTypes DEF WritesDue, ReadsDue
    <3> QED
      BY <3>1, <3>2
  <2>4. ~degraded_' => Settled' + Len(subscription_queue_') + 0 = AllDue'
    BY <2>1, <2>2, <2>3 DEF AllDue
  <2> QED
    BY <1>1, <1>2, <2>4 DEF AccountInv, InFlight
<1> QED
  BY <1>3, <1>4, <1>5, OverLimitType

LEMMA InventoryAccount ==
  ASSUME SetupInv, AccountInv, ReadFollowsPhase, LoopInventory, UNCHANGED peer
  PROVE  AccountInv'
<1>1. setup_phase_ = "INVENTORY" /\ active_read_ = None
  BY DEF LoopInventory, ReadFollowsPhase
<1>2. CASE setup_phase_' \in {"DEGRADED", "NO_HID"}
  BY <1>2, AccountElsewhere
<1>3. ASSUME NEW failures \in {0, 1}, PlanReads(failures), Transition("READING")
      PROVE  AccountInv'
  <2> DEFINE total == Len(peer.reads)
             kept == IF total <= MaxReads THEN total ELSE MaxReads
             bad  == failures + total - kept
  <2>1. total \in Nat /\ MaxReads \in Nat /\ Settled \in Nat
    BY <1>1, AccountTypes, ParameterAssumption
  <2>2. kept \in Nat /\ bad \in Nat /\ kept <= total /\ (bad = 0 => kept = total)
    BY <2>1
  <2>3. /\ read_queue_' = SubSeq(peer.reads, 1, kept) /\ active_read_' = active_read_
        /\ Tally(0, bad, bad > 0, FALSE)
    BY <1>3 DEF PlanReads
  <2>4. peer.reads \in Seq(ReadOperations)
    BY <1>1, PeerTyped
  <2> HIDE DEF kept, bad
  <2>5. Len(read_queue_') = kept
    <3>1. \A i \in 1 .. kept : peer.reads[i] \in ReadOperations
      BY <2>1, <2>2, <2>4, ElementOfSeq
    <3> QED
      BY <2>1, <2>2, <2>3, <2>4, <3>1, SubSeqProperties
  <2>6. CASE bad > 0
    BY <2>3, <2>6, AccountDegraded DEF Tally
  <2>7. CASE bad = 0
    <3>1. /\ Settled' = Settled + 0 + 0
          /\ ~degraded_' => ~degraded_
      BY <2>2, <2>3, <2>7 DEF Tally, Settled, SetupInv, TypeOK, StatusType
    <3>2. ~degraded_ => Settled = 0
      BY <1>1 DEF AccountInv
    <3>3. setup_phase_' = "READING" /\ InFlight(active_read_)' = 0
      BY <1>1, <1>3, <2>3 DEF Transition, InFlight
    <3>4. ReadsDue' = total /\ Len(read_queue_)' = total
      BY <2>2, <2>5, <2>7 DEF ReadsDue
    <3>5. ~degraded_' => Settled' + Len(read_queue_)' + InFlight(active_read_)' = ReadsDue'
      BY <2>1, <3>1, <3>2, <3>3, <3>4
    <3> QED
      BY <3>3, <3>5 DEF AccountInv
  <2> QED
    BY <2>2, <2>6, <2>7
<1> QED
  BY <1>2, <1>3 DEF LoopInventory, Tally, Finalize, Transition

LEMMA ReadingAccount ==
  ASSUME SetupInv, AccountInv, LoopReading, UNCHANGED peer
  PROVE  AccountInv'
<1>1. /\ setup_phase_ = "READING" /\ Settled \in Nat /\ Len(read_queue_) \in Nat
      /\ read_queue_ \in Seq(ReadOperations) /\ ReadsDue' = ReadsDue /\ degraded_ \in BOOLEAN
      /\ UNCHANGED <<protocol_write_handles_, subscription_queue_, active_subscription_>>
  BY AccountTypes DEF LoopReading, SetupInv, TypeOK, ReadType, ReadsDue, subVars
<1>2. ~degraded_ => Settled + Len(read_queue_) + InFlight(active_read_) = ReadsDue
  BY <1>1 DEF AccountInv
<1>3. ASSUME active_read_ = None, read_queue_ = <<>>, Transition("BUILDING_PROFILE"),
             UNCHANGED statusVars
      PROVE  AccountInv'
  <2>1. /\ Settled' = Settled /\ degraded_' = degraded_ /\ setup_phase_' = "BUILDING_PROFILE"
    BY <1>3 DEF Transition, Settled, statusVars
  <2>2. ~degraded_ => Settled = ReadsDue
    <3>1. Len(read_queue_) = 0 /\ InFlight(active_read_) = 0
      BY <1>3 DEF InFlight
    <3> QED
      BY <1>1, <1>2, <3>1
  <2> QED
    BY <1>1, <2>1, <2>2 DEF AccountInv
<1>4. ASSUME NEW failures, GiveUpReading(failures)
      PROVE  AccountInv'
  BY <1>4, AccountDegraded DEF GiveUpReading, Tally
<1>5. ASSUME active_read_ = None, read_queue_ # <<>>, read_queue_' = Tail(read_queue_),
             UNCHANGED phaseVars,
             \/ active_read_' = Head(read_queue_) /\ UNCHANGED statusVars
             \/ active_read_' = None /\ TallyFailure(Head(read_queue_).required)
      PROVE  AccountInv'
  <2>1. setup_phase_' = "READING"
    BY <1>1, <1>5 DEF phaseVars
  <2>2. Len(read_queue_') = Len(read_queue_) - 1
    BY <1>1, <1>5, TakenShorter
  <2>3. Head(read_queue_) \in ReadOperations /\ Head(read_queue_).required \in BOOLEAN
    <3>1. Head(read_queue_) \in ReadOperations
      BY <1>1, <1>5, QueueType
    <3> QED
      BY <3>1 DEF ReadOperations
  <2>4. ~degraded_ => Settled + Len(read_queue_) = ReadsDue
    BY <1>1, <1>2, <1>5 DEF InFlight
  <2>5. CASE active_read_' = Head(read_queue_) /\ UNCHANGED statusVars
    <3>1. Settled' = Settled /\ degraded_' = degraded_ /\ InFlight(active_read_)' = 1
      BY <2>3, <2>5, PeerAssumption DEF statusVars, Settled, InFlight
    <3> QED
      BY <1>1, <2>1, <2>2, <2>4, <3>1 DEF AccountInv
  <2>6. CASE active_read_' = None /\ TallyFailure(Head(read_queue_).required)
    <3>1. Settled' = Settled + 0 + 1 /\ (~degraded_' => ~degraded_)
      BY <2>3, <2>6 DEF TallyFailure, Tally, Settled, SetupInv, TypeOK, StatusType
    <3>2. InFlight(active_read_)' = 0
      BY <2>6 DEF InFlight
    <3> QED
      BY <1>1, <2>1, <2>2, <2>4, <3>1, <3>2 DEF AccountInv
  <2> QED
    BY <1>5, <2>5, <2>6
<1>6. CASE UNCHANGED <<phaseVars, statusVars, readVars>>
  BY <1>1, <1>6, AccountUntouched DEF accountVars, phaseVars, readVars
<1> QED
  BY <1>3, <1>4, <1>5, <1>6 DEF LoopReading

LEMMA BuildingAccount ==
  ASSUME SetupInv, AccountInv, LoopBuilding, UNCHANGED peer
  PROVE  AccountInv'
<1>1. /\ setup_phase_ = "BUILDING_PROFILE" /\ Settled \in Nat /\ UNCHANGED active_subscription_
      /\ Len(peer.reads) \in Nat /\ SchemaIncomplete \in BOOLEAN
      /\ ProtocolModeWrites \in Seq(Handles)
  <2>1. setup_phase_ = "BUILDING_PROFILE" /\ UNCHANGED active_subscription_
    BY DEF LoopBuilding
  <2> QED
    BY <2>1, AccountTypes, ProtocolModeWritesType DEF SchemaIncomplete
<1>2. ~degraded_ => Settled = ReadsDue
  BY <1>1 DEF AccountInv
<1>3. ASSUME ProtocolModeWrites = <<>>, PlanSubscriptions, Transition("REGISTERING"),
             Tally(0, OverLimitReports, OverLimitReports > 0, SchemaIncomplete)
      PROVE  AccountInv'
  <2>1. ~degraded_ => Settled = WritesDue
    <3>1. Len(ProtocolModeWrites) = 0
      BY <1>3
    <3> QED
      BY <1>1, <1>2, <3>1 DEF WritesDue, ReadsDue
  <2>2. OverLimitReports > 0 => degraded_' = TRUE
    BY <1>3 DEF Tally
  <2>3. OverLimitReports = 0 => Settled' = Settled
    BY <1>3 DEF Tally, Settled, SetupInv, TypeOK, StatusType
  <2>4. ~degraded_' => ~degraded_
    BY <1>3 DEF Tally
  <2> QED
    BY <1>1, <1>3, <2>1, <2>2, <2>3, <2>4, PlannedAccount
<1>4. ASSUME ProtocolModeWrites # <<>>, protocol_write_handles_' = Tail(ProtocolModeWrites),
             Transition("WRITING_PROTOCOL_MODE"),
             \/ Tally(1, 0, FALSE, SchemaIncomplete)
             \/ Tally(0, 1, TRUE, SchemaIncomplete)
      PROVE  AccountInv'
  <2>1. setup_phase_' = "WRITING_PROTOCOL_MODE"
    BY <1>4 DEF Transition
  <2>2. Settled' = Settled + 1 /\ (~degraded_' => ~degraded_)
    <3>1. CASE Tally(1, 0, FALSE, SchemaIncomplete)
      BY <1>1, <3>1 DEF Tally, Settled, SetupInv, TypeOK, StatusType
    <3>2. CASE Tally(0, 1, TRUE, SchemaIncomplete)
      BY <1>1, <3>2 DEF Tally, Settled, SetupInv, TypeOK, StatusType
    <3> QED
      BY <1>4, <3>1, <3>2
  <2>3. Len(protocol_write_handles_') = Len(ProtocolModeWrites) - 1 /\ Len(ProtocolModeWrites) \in Nat
    BY <1>1, <1>4, TakenShorter
  <2>4. WritesDue' = ReadsDue + Len(ProtocolModeWrites) /\ ReadsDue \in Nat
    BY <1>1 DEF WritesDue, ReadsDue, ProtocolModeWrites
  <2>5. ~degraded_' => Settled' + Len(protocol_write_handles_') = WritesDue'
    BY <1>1, <1>2, <2>2, <2>3, <2>4
  <2> QED
    BY <2>1, <2>5 DEF AccountInv
<1> QED
  BY <1>3, <1>4 DEF LoopBuilding

LEMMA WritingAccount ==
  ASSUME SetupInv, AccountInv, LoopWriting, UNCHANGED peer
  PROVE  AccountInv'
<1>1. /\ setup_phase_ = "WRITING_PROTOCOL_MODE" /\ Settled \in Nat
      /\ UNCHANGED active_subscription_
      /\ protocol_write_handles_ \in Seq(Handles) /\ Len(protocol_write_handles_) \in Nat
  BY AccountTypes DEF LoopWriting, SetupInv, TypeOK, RouteType
<1>2. ~degraded_ => Settled + Len(protocol_write_handles_) = WritesDue
  BY <1>1 DEF AccountInv
<1>3. ASSUME protocol_write_handles_ = <<>>, PlanSubscriptions, Transition("REGISTERING"),
             Tally(0, OverLimitReports, OverLimitReports > 0, FALSE)
      PROVE  AccountInv'
  <2>1. ~degraded_ => Settled = WritesDue
    <3>1. Len(protocol_write_handles_) = 0
      BY <1>3
    <3> QED
      BY <1>1, <1>2, <3>1
  <2>2. OverLimitReports > 0 => degraded_' = TRUE
    BY <1>3 DEF Tally
  <2>3. OverLimitReports = 0 => Settled' = Settled
    BY <1>3 DEF Tally, Settled, SetupInv, TypeOK, StatusType
  <2>4. ~degraded_' => ~degraded_
    BY <1>3 DEF Tally
  <2> QED
    BY <1>1, <1>3, <2>1, <2>2, <2>3, <2>4, PlannedAccount
<1>4. ASSUME protocol_write_handles_ # <<>>,
             protocol_write_handles_' = Tail(protocol_write_handles_), UNCHANGED phaseVars,
             NEW ok \in {0, 1}, NEW marked \in BOOLEAN, Tally(ok, 1 - ok, marked, FALSE)
      PROVE  AccountInv'
  <2>1. setup_phase_' = "WRITING_PROTOCOL_MODE"
    BY <1>1, <1>4 DEF phaseVars
  <2>2. Settled' = Settled + 1 /\ (~degraded_' => ~degraded_)
    <3>1. ok \in Nat /\ 1 - ok \in Nat
      OBVIOUS
    <3> QED
      BY <1>1, <1>4, <3>1 DEF Tally, Settled, SetupInv, TypeOK, StatusType
  <2>3. Len(protocol_write_handles_') = Len(protocol_write_handles_) - 1
    BY <1>1, <1>4, TakenShorter
  <2>4. WritesDue' = WritesDue
    BY DEF WritesDue, ReadsDue, ProtocolModeWrites
  <2>5. ~degraded_' => Settled' + Len(protocol_write_handles_') = WritesDue'
    BY <1>1, <1>2, <2>2, <2>3, <2>4
  <2> QED
    BY <2>1, <2>5 DEF AccountInv
<1>5. ASSUME NEW ok, NEW failures, Tally(ok, failures, TRUE, FALSE)
      PROVE  AccountInv'
  BY <1>5, AccountDegraded DEF Tally
<1> QED
  <2>1. CASE protocol_write_handles_ = <<>>
    BY <1>3, <2>1 DEF LoopWriting
  <2>2. CASE protocol_write_handles_ # <<>>
    <3>1. PICK scheduled \in BOOLEAN :
            LET ok     == IF scheduled THEN 1 ELSE 0
                failed == 1 - ok
            IN  IF TimedOut THEN Tally(ok, failed + 1, TRUE, FALSE) /\ Finalize(TRUE)
                ELSE /\ Tally(ok, failed, ~scheduled, FALSE) /\ KeepWarning(~scheduled)
                     /\ UNCHANGED phaseVars
      BY <2>2 DEF LoopWriting
    <3>2. protocol_write_handles_' = Tail(protocol_write_handles_)
      BY <2>2 DEF LoopWriting
    <3>3. CASE TimedOut
      BY <3>1, <3>3, <1>5
    <3>4. CASE ~TimedOut
      <4> DEFINE ok == IF scheduled THEN 1 ELSE 0
      <4>1. ok \in {0, 1} /\ (~scheduled) \in BOOLEAN
        OBVIOUS
      <4>2. Tally(ok, 1 - ok, ~scheduled, FALSE) /\ UNCHANGED phaseVars
        BY <3>1, <3>4
      <4> HIDE DEF ok
      <4> QED
        BY <2>2, <3>2, <4>1, <4>2, <1>4
    <3> QED
      BY <3>3, <3>4
  <2> QED
    BY <2>1, <2>2

LEMMA RegisteringAccount ==
  ASSUME SetupInv, AccountInv, LoopRegistering, UNCHANGED peer
  PROVE  AccountInv'
<1>1. /\ setup_phase_ = "REGISTERING" /\ Settled \in Nat /\ degraded_ \in BOOLEAN
      /\ subscription_queue_ \in Seq(Subscriptions) /\ Len(subscription_queue_) \in Nat
      /\ UNCHANGED <<read_queue_, active_read_, protocol_write_handles_>>
  BY AccountTypes DEF LoopRegistering, SetupInv, TypeOK, SubscriptionType, readVars
<1>2. ~degraded_ => Settled + Len(subscription_queue_) + InFlight(active_subscription_) = AllDue
  BY <1>1 DEF AccountInv
<1>3. AllDue' = AllDue
  BY DEF AllDue, WritesDue, ReadsDue, ProtocolModeWrites
<1>4. ASSUME active_subscription_ = None, subscription_queue_ = <<>>,
             Tally(0, 0, FALSE, FALSE), Finalize(FALSE)
      PROVE  AccountInv'
  <2>1. Settled' = Settled + 0 + 0 /\ (~degraded_' => ~degraded_)
    BY <1>4 DEF Tally, Settled, SetupInv, TypeOK, StatusType
  <2>2. Len(subscription_queue_) = 0 /\ InFlight(active_subscription_) = 0
    BY <1>4 DEF InFlight
  <2>3. ~degraded_' => Settled' = AllDue'
    BY <1>1, <1>2, <1>3, <2>1, <2>2
  <2>4. setup_phase_' \in {"READY", "DEGRADED"}
    BY <1>4 DEF Finalize, Transition
  <2> QED
    BY <2>3, <2>4 DEF AccountInv
<1>5. ASSUME active_subscription_ = None, subscription_queue_ # <<>>, UNCHANGED phaseVars,
             subscription_queue_' = Tail(subscription_queue_),
             \/ active_subscription_' = Head(subscription_queue_) /\ UNCHANGED statusVars
             \/ DropSubscription /\ TallyFailure(Head(subscription_queue_).required)
      PROVE  AccountInv'
  <2>1. setup_phase_' = "REGISTERING"
    BY <1>1, <1>5 DEF phaseVars
  <2>2. Len(subscription_queue_') = Len(subscription_queue_) - 1
    BY <1>1, <1>5, TakenShorter
  <2>3. Head(subscription_queue_) \in Subscriptions /\ Head(subscription_queue_).required \in BOOLEAN
    <3>1. Head(subscription_queue_) \in Subscriptions
      BY <1>1, <1>5, QueueType
    <3> QED
      BY <3>1 DEF Subscriptions
  <2>4. ~degraded_ => Settled + Len(subscription_queue_) = AllDue
    BY <1>1, <1>2, <1>5 DEF InFlight
  <2>5. CASE active_subscription_' = Head(subscription_queue_) /\ UNCHANGED statusVars
    <3>1. Settled' = Settled /\ degraded_' = degraded_ /\ InFlight(active_subscription_)' = 1
      BY <2>3, <2>5, PeerAssumption DEF statusVars, Settled, InFlight
    <3> QED
      BY <1>1, <1>3, <2>1, <2>2, <2>4, <3>1 DEF AccountInv
  <2>6. CASE DropSubscription /\ TallyFailure(Head(subscription_queue_).required)
    <3>1. Settled' = Settled + 0 + 1 /\ (~degraded_' => ~degraded_)
      BY <2>3, <2>6 DEF TallyFailure, Tally, Settled, SetupInv, TypeOK, StatusType
    <3>2. InFlight(active_subscription_)' = 0
      BY <2>6 DEF InFlight, DropSubscription
    <3> QED
      BY <1>1, <1>3, <2>1, <2>2, <2>4, <3>1, <3>2 DEF AccountInv
  <2> QED
    BY <1>5, <2>5, <2>6
<1>6. CASE UNCHANGED <<phaseVars, statusVars, subVars>>
  BY <1>1, <1>6, AccountUntouched DEF accountVars, phaseVars, subVars
<1>7. CASE \E failures \in {0, 1} : GiveUpSubscribing(failures)
  BY <1>7, GivenUpAccount
<1> QED
  BY <1>4, <1>5, <1>6, <1>7 DEF LoopRegistering

LEMMA LoopAccount ==
  ASSUME SetupInv, ReadFollowsPhase, AccountInv, Loop
  PROVE  AccountInv'
<1>1. UNCHANGED peer
  BY DEF Loop
<1>2. CASE LoopWaiting
  <2>1. UNCHANGED <<read_queue_, active_read_, protocol_write_handles_>>
    BY <1>2 DEF LoopWaiting, readVars
  <2>2. CASE active_subscription_ # None /\ OwnWriteNotScheduled
    BY <1>1, <2>2, FailedAccount DEF OwnWriteNotScheduled
  <2>3. CASE GiveUpSubscribing(0)
    BY <2>3, GivenUpAccount
  <2>4. CASE UNCHANGED <<phaseVars, statusVars, subscription_queue_, active_subscription_>>
    BY <1>1, <2>1, <2>4, AccountUntouched DEF phaseVars, accountVars
  <2> QED
    BY <1>2, <2>2, <2>3, <2>4 DEF LoopWaiting, subVars
<1>3. CASE LoopIdle
  BY <1>1, <1>3, AccountUntouched DEF LoopIdle, phaseVars, readVars, subVars, accountVars
<1> QED
  BY <1>1, <1>2, <1>3, InventoryAccount, ReadingAccount, BuildingAccount, WritingAccount,
     RegisteringAccount DEF Loop

LEMMA ReadResultAccount ==
  ASSUME SetupInv, ReadFollowsPhase, AccountInv, ReadResult
  PROVE  AccountInv'
<1>1. /\ UNCHANGED <<phaseVars, read_queue_, protocol_write_handles_, subscription_queue_,
                     active_subscription_, peer>>
  BY DEF ReadResult, subVars, linkVars
<1>2. CASE UNCHANGED <<active_read_, statusVars>>
  BY <1>1, <1>2, AccountUntouched DEF phaseVars, accountVars
<1>3. ASSUME active_read_ # None, active_read_' = None,
             degraded_' = TRUE \/ (Settled' = Settled + 1 /\ (~degraded_' => ~degraded_))
      PROVE  AccountInv'
  <2>1. /\ setup_phase_ = "READING" /\ setup_phase_' = "READING"
    BY <1>1, <1>3 DEF ReadFollowsPhase, phaseVars
  <2>2. CASE degraded_' = TRUE
    BY <2>2, AccountDegraded
  <2>3. CASE Settled' = Settled + 1 /\ (~degraded_' => ~degraded_)
    <3>2. Settled \in Nat /\ Len(read_queue_) \in Nat /\ Len(peer.reads) \in Nat
      BY <2>1, AccountTypes
    <3>3. ~degraded_ => Settled + Len(read_queue_) + 1 = ReadsDue
      BY <1>3, <2>1 DEF AccountInv, InFlight
    <3>4. InFlight(active_read_)' = 0 /\ ReadsDue' = ReadsDue
      BY <1>1, <1>3 DEF InFlight, ReadsDue
    <3>5. ~degraded_' => Settled' + Len(read_queue_)' + InFlight(active_read_)' = ReadsDue'
      BY <1>1, <2>3, <3>2, <3>3, <3>4
    <3> QED
      BY <2>1, <3>5 DEF AccountInv
  <2> QED
    BY <1>3, <2>2, <2>3
<1>4. CASE active_read_ # None /\ active_read_' = None /\ TallyFailure(active_read_.required)
  <2>1. active_read_.required \in BOOLEAN
    BY <1>4 DEF SetupInv, TypeOK, ReadType, ReadOperations
  <2>2. Settled' = Settled + 1 /\ (~degraded_' => ~degraded_)
    BY <1>4, <2>1 DEF TallyFailure, Tally, Settled, SetupInv, TypeOK, StatusType
  <2> QED
    BY <1>3, <1>4, <2>2
<1>5. ASSUME active_read_ # None, active_read_' = None, NEW value \in ReadValues,
             LET rejected == ValueRejected(active_read_, value)
             IN  Tally(1, IF rejected THEN 1 ELSE 0, rejected, FALSE)
      PROVE  AccountInv'
  <2>1. ValueRejected(active_read_, value) \in BOOLEAN
    BY <1>5 DEF ValueRejected, SetupInv, TypeOK, ReadType, ReadOperations
  <2>2. CASE ValueRejected(active_read_, value) = TRUE
    <3>1. degraded_' = TRUE
      BY <1>5, <2>2 DEF Tally
    <3> QED
      BY <1>3, <1>5, <3>1
  <2>3. CASE ValueRejected(active_read_, value) = FALSE
    <3>1. Settled' = Settled + 1 /\ (~degraded_' => ~degraded_)
      BY <1>5, <2>3 DEF Tally, Settled, SetupInv, TypeOK, StatusType
    <3> QED
      BY <1>3, <1>5, <3>1
  <2> QED
    BY <2>1, <2>2, <2>3
<1> QED
  BY <1>2, <1>4, <1>5 DEF ReadResult

LEMMA RegistrationAccount ==
  ASSUME SetupInv, AccountInv, RegistrationResult
  PROVE  AccountInv'
<1>1. UNCHANGED <<peer, subscription_queue_, read_queue_, active_read_, protocol_write_handles_>>
  BY DEF RegistrationResult, linkVars, readVars
<1>2. CASE UNCHANGED <<phaseVars, statusVars, active_subscription_>>
  BY <1>1, <1>2, AccountUntouched DEF phaseVars, accountVars
<1>3. CASE active_subscription_ # None /\ FailSubscription
  BY <1>1, <1>3, FailedAccount
<1>4. ASSUME active_subscription_ # None, Transition("WAITING_FOR_CCCD"),
             UNCHANGED <<statusVars, active_subscription_>>
      PROVE  AccountInv'
  <2>1. /\ setup_phase_ \in {"REGISTERING", "WAITING_FOR_CCCD"}
        /\ setup_phase_' = "WAITING_FOR_CCCD"
    BY <1>4, NoAttempt DEF Transition
  <2>2. Settled' = Settled /\ degraded_' = degraded_ /\ AllDue' = AllDue
    BY <1>1, <1>4 DEF statusVars, Settled, AllDue, WritesDue, ReadsDue, ProtocolModeWrites
  <2> QED
    BY <1>1, <1>4, <2>1, <2>2 DEF AccountInv, InFlight
<1> QED
  BY <1>2, <1>3, <1>4 DEF RegistrationResult

LEMMA CccdAccount ==
  ASSUME SetupInv, AccountInv, CccdResult
  PROVE  AccountInv'
<1>1. UNCHANGED <<peer, subscription_queue_, read_queue_, active_read_, protocol_write_handles_>>
  BY DEF CccdResult, linkVars, readVars
<1>2. CASE UNCHANGED <<phaseVars, statusVars, active_subscription_>>
  BY <1>1, <1>2, AccountUntouched DEF phaseVars, accountVars
<1>3. CASE active_subscription_ # None /\ FailSubscription
  BY <1>1, <1>3, FailedAccount
<1>4. ASSUME active_subscription_ # None, Tally(1, 0, FALSE, FALSE), DropSubscription,
             Transition("REGISTERING")
      PROVE  AccountInv'
  <2>1. Settled' = Settled + 1 /\ (~degraded_' => ~degraded_)
    BY <1>4 DEF Tally, Settled, SetupInv, TypeOK, StatusType
  <2>2. setup_phase_ \in {"REGISTERING", "WAITING_FOR_CCCD"}
    BY <1>4, NoAttempt
  <2> QED
    BY <1>1, <1>4, <2>1, <2>2, AccountDropped
<1> QED
  BY <1>2, <1>3, <1>4 DEF CccdResult

LEMMA AccountStep ==
  ASSUME SetupInv, ReadFollowsPhase, AccountInv, [Next]_vars
  PROVE  AccountInv'
<1>1. CASE Loop
  BY <1>1, LoopAccount
<1>2. CASE Connect
  <2>1. /\ setup_phase_' = "WAITING_FOR_DISCOVERY"
        /\ operations_succeeded_' = 0 /\ operations_failed_' = 0
    BY <1>2 DEF Connect, Transition, ResetConnectionState
  <2> QED
    BY <2>1 DEF AccountInv, Settled
<1>3. CASE Disconnect
  BY <1>3, AccountElsewhere DEF Disconnect, Transition
<1>4. CASE SearchComplete
  <2>1. CASE Transition("INVENTORY") /\ UNCHANGED statusVars
    <3>1. setup_phase_ = "WAITING_FOR_DISCOVERY"
      BY <1>4 DEF SearchComplete, SetupInv, PhaseFollowsLink
    <3>2. /\ setup_phase_' = "INVENTORY" /\ Settled' = Settled /\ degraded_' = degraded_
      BY <2>1 DEF Transition, statusVars, Settled
    <3> QED
      BY <3>1, <3>2 DEF AccountInv
  <2>2. CASE Tally(0, 1, TRUE, FALSE)
    BY <2>2, AccountDegraded DEF Tally
  <2> QED
    BY <1>4, <2>1, <2>2 DEF SearchComplete
<1>5. CASE ReadResult
  BY <1>5, ReadResultAccount
<1>6. CASE RegistrationResult
  BY <1>6, RegistrationAccount
<1>7. CASE CccdResult
  BY <1>7, CccdAccount
<1>8. CASE UNCHANGED <<phaseVars, statusVars, readVars, protocol_write_handles_, subVars, linkVars>>
  BY <1>8, AccountUntouched DEF phaseVars, readVars, subVars, linkVars, accountVars
<1> QED
  BY <1>1, <1>2, <1>3, <1>4, <1>5, <1>6, <1>7, <1>8
     DEF Next, Callback, Notification, ServiceChanged, Congestion, ForeignRegistration, Tick,
         unchangedButFlow, vars

LEMMA AccountInit == Init => AccountInv
BY DEF Init, AccountInv

\* At READY nothing waits and setup is not degraded, so the account says all.
LEMMA ReadyIsAccounted == ReadyInv /\ AccountInv => ReadyAccountsForOperations
<1> SUFFICES ASSUME ReadyInv, AccountInv, setup_phase_ = "READY"
             PROVE  operations_succeeded_ + operations_failed_ =
                      Len(peer.reads) + Len(ProtocolModeWrites) + Len(peer.subscriptions)
  BY DEF ReadyAccountsForOperations
<1>1. ~degraded_
  BY DEF ReadyInv, ProgressInv, ReadyIsSettled
<1> QED
  BY <1>1 DEF AccountInv, Settled, AllDue, WritesDue, ReadsDue

\* The counters HID_READY reports account for every read, Protocol Mode write and
\* subscription of the database, each once: no callback, timeout or late answer
\* counts one twice or drops one silently.
THEOREM ReadyIsComplete == Spec => []ReadyAccountsForOperations
<1>1. ReadyInv /\ AccountInv /\ [Next]_vars => (ReadyInv /\ AccountInv)'
  BY ReadyStep, AccountStep DEF ReadyInv
<1>2. Init => ReadyInv /\ AccountInv
  BY ReadyInit, AccountInit
<1> QED
  BY <1>1, <1>2, ReadyIsAccounted, PTL DEF Spec

-----------------------------------------------------------------------------
(* The refinement mapping. *)

offeredHandles == IF peer = None THEN {} ELSE RequiredHandles(peer)
deliveredHandles == IF peer = None THEN {} ELSE DeliveredHandles(peer)

LEMMA OutcomeNow ==
  ASSUME TypeOK
  PROVE  /\ setup_phase_ = "DISCONNECTED" => outcomeOfPhase = "NO_LINK"
         /\ setup_phase_ = "WAITING_FOR_DISCOVERY" => outcomeOfPhase = "DISCOVERING"
         /\ setup_phase_ \in TimedPhases => outcomeOfPhase = "PENDING"
         /\ setup_phase_ \in FinalPhases => outcomeOfPhase = setup_phase_
BY DEF outcomeOfPhase, TypeOK, StatusType, TimedPhases, FinalPhases, Phases

LEMMA OutcomeNext ==
  ASSUME TypeOK'
  PROVE  /\ setup_phase_' = "DISCONNECTED" => outcomeOfPhase' = "NO_LINK"
         /\ setup_phase_' = "WAITING_FOR_DISCOVERY" => outcomeOfPhase' = "DISCOVERING"
         /\ setup_phase_' \in TimedPhases => outcomeOfPhase' = "PENDING"
         /\ setup_phase_' \in FinalPhases => outcomeOfPhase' = setup_phase_'
BY DEF outcomeOfPhase, TypeOK, StatusType, TimedPhases, FinalPhases, Phases

LEMMA DeliveryUntouched ==
  ASSUME UNCHANGED <<peer, registered, enabled_cccds, routeVars>>
  PROVE  offeredHandles' = offeredHandles /\ deliveredHandles' = deliveredHandles
BY DEF offeredHandles, deliveredHandles, RequiredHandles, DeliveredHandles, RoutedToReports, routeVars

\* Nothing that is delivered is lost while there is a link.
LEMMA DeliveryKept ==
  ASSUME ReadyInv, ReadyInv', [Next]_vars, peer # None, UNCHANGED peer
  PROVE  offeredHandles' = offeredHandles /\ deliveredHandles \subseteq deliveredHandles'
<1>1. offeredHandles' = offeredHandles
  BY DEF offeredHandles, RequiredHandles
<1>2. registered \subseteq registered' /\ enabled_cccds \subseteq enabled_cccds'
  <2>1. CASE Loop
    BY <2>1 DEF Loop, LoopInventory, LoopReading, LoopBuilding, LoopWriting, LoopRegistering,
                LoopWaiting, LoopIdle, stackVars
  <2>2. CASE RegistrationResult
    BY <2>2 DEF RegistrationResult
  <2>3. CASE CccdResult
    BY <2>3 DEF CccdResult
  <2>4. CASE Disconnect
    BY <2>4 DEF Disconnect
  <2> QED
    BY <2>1, <2>2, <2>3, <2>4
       DEF Next, Callback, Connect, SearchComplete, ReadResult, Notification, ServiceChanged,
           Congestion, ForeignRegistration, Tick, stackVars, vars
<1>3. UNCHANGED hid_report_handles_ \/ LoopBuilding
  <2>1. CASE Loop
    BY <2>1 DEF Loop, LoopInventory, LoopReading, LoopWriting, LoopRegistering,
                LoopWaiting, LoopIdle, routeVars
  <2>2. CASE Connect \/ Disconnect
    BY <2>2 DEF Connect, Disconnect, ReadyInv, SetupInv, PhaseFollowsLink
  <2>3. CASE RegistrationResult \/ CccdResult
    BY <2>3 DEF RegistrationResult, CccdResult, routeVars
  <2> QED
    BY <2>1, <2>2, <2>3
       DEF Next, Callback, SearchComplete, ReadResult, Notification, ServiceChanged,
           Congestion, ForeignRegistration, Tick, unchangedButFlow, routeVars, vars
<1>4. ASSUME NEW s \in Subscriptions, Required(s), Delivered(s),
             RoutedToReports(s.characteristic_handle)
      PROVE  Delivered(s)' /\ RoutedToReports(s.characteristic_handle)'
  <2>1. peer' # None /\ Required(s)'
    BY <1>4 DEF Required
  <2>2. /\ s.characteristic_handle \notin service_changed_handles_'
        /\ s.characteristic_handle \notin battery_handles_'
    BY <2>1 DEF ReadyInv, RouteInv, InputsNotDiverted
  <2>3. s.characteristic_handle \in hid_report_handles_'
    <3>1. CASE UNCHANGED hid_report_handles_
      BY <1>4, <3>1 DEF RoutedToReports
    <3>2. CASE LoopBuilding
      BY <1>4, <3>2, RequiredOfPeer DEF LoopBuilding, ReadyInv
    <3> QED
      BY <1>3, <3>1, <3>2
  <2> QED
    BY <1>2, <1>4, <2>2, <2>3 DEF Delivered, RoutedToReports
<1>5. \A i \in DOMAIN peer.subscriptions : peer.subscriptions[i] \in Subscriptions
  <2>1. setup_phase_ # "DISCONNECTED"
    BY DEF ReadyInv, SetupInv, PhaseFollowsLink
  <2> QED
    BY <2>1, PeerTyped, ElementOfSeq, LenProperties DEF ReadyInv
<1>6. deliveredHandles \subseteq deliveredHandles'
  BY <1>4, <1>5 DEF deliveredHandles, DeliveredHandles, Delivered, Required
<1> QED
  BY <1>1, <1>6

\* The step in which an outcome is reported changes nothing else of the contract.
LEMMA LoopOutcome ==
  ASSUME ReadyInv, Loop
  PROVE  \/ setup_phase_' = setup_phase_
         \/ setup_phase_ \in TimedPhases /\ setup_phase_' \in TimedPhases
         \/ /\ setup_phase_ \in TimedPhases /\ setup_phase_' \in FinalPhases
            /\ UNCHANGED <<peer, registered, enabled_cccds, routeVars>>
            /\ setup_phase_' = "NO_HID" => peer.hid_services = {}
<1> USE DEF TimedPhases, FinalPhases, Phases
<1>1. UNCHANGED peer
  BY DEF Loop
<1>2. CASE LoopInventory
  <2>1. UNCHANGED <<registered, enabled_cccds, routeVars>> /\ setup_phase_ = "INVENTORY"
    BY <1>2 DEF LoopInventory, stackVars
  <2>2. \/ setup_phase_' \in {"READY", "DEGRADED", "READING"}
        \/ setup_phase_' = "NO_HID" /\ peer.hid_services = {}
    BY <1>2 DEF LoopInventory, Finalize, Transition
  <2> QED
    BY <1>1, <2>1, <2>2
<1>3. CASE LoopReading \/ LoopBuilding
  <2>1. /\ setup_phase_ \in {"READING", "BUILDING_PROFILE"}
        /\ \/ setup_phase_' = setup_phase_
           \/ setup_phase_' \in {"BUILDING_PROFILE", "WRITING_PROTOCOL_MODE", "REGISTERING"}
    BY <1>3 DEF LoopReading, LoopBuilding, GiveUpReading, Transition, phaseVars
  <2> QED
    BY <2>1
<1>4. CASE LoopWriting
  <2>1. setup_phase_ = "WRITING_PROTOCOL_MODE" /\ UNCHANGED <<registered, enabled_cccds>>
    BY <1>4 DEF LoopWriting, stackVars
  <2>2. CASE setup_phase_' \in {"WRITING_PROTOCOL_MODE", "REGISTERING"}
    BY <2>1, <2>2
  <2>3. CASE Finalize(TRUE) /\ UNCHANGED routeVars
    BY <1>1, <2>1, <2>3 DEF Finalize, Transition
  <2> QED
    BY <1>4, <2>1, <2>2, <2>3 DEF LoopWriting, Transition, phaseVars, routeVars
<1>5. CASE LoopRegistering \/ LoopWaiting
  <2>1. /\ setup_phase_ \in {"REGISTERING", "WAITING_FOR_CCCD"}
        /\ UNCHANGED <<registered, enabled_cccds, routeVars>>
    BY <1>5 DEF LoopRegistering, LoopWaiting
  <2>2. \/ setup_phase_' = setup_phase_
        \/ setup_phase_' \in {"REGISTERING", "READY", "DEGRADED"}
    BY <1>5 DEF LoopRegistering, LoopWaiting, OwnWriteNotScheduled, FailSubscription,
                GiveUpSubscribing, Finalize, Transition, phaseVars
  <2> QED
    BY <1>1, <2>1, <2>2
<1>6. CASE LoopIdle
  BY <1>6 DEF LoopIdle, phaseVars
<1> QED
  BY <1>2, <1>3, <1>4, <1>5, <1>6 DEF Loop

\* A callback on a connection leaves the phase, or the answer to an attempt leads
\* from one phase of subscribing to another.
LEMMA CallbackOutcome ==
  ASSUME ReadyInv, [Next]_vars, ~Loop, ~Connect, ~Disconnect, ~SearchComplete
  PROVE  /\ UNCHANGED <<link, peer>>
         /\ \/ setup_phase_' = setup_phase_
            \/ setup_phase_ \in TimedPhases /\ setup_phase_' \in TimedPhases
<1>1. CASE RegistrationResult \/ CccdResult
  <2>1. UNCHANGED <<link, peer>>
    BY <1>1 DEF RegistrationResult, CccdResult, linkVars
  <2>2. CASE active_subscription_ = None
    BY <1>1, <2>1, <2>2 DEF RegistrationResult, CccdResult, phaseVars
  <2>3. CASE active_subscription_ # None
    <3>1. setup_phase_ \in {"REGISTERING", "WAITING_FOR_CCCD"}
      BY <2>3, NoAttempt DEF ReadyInv
    <3>2. setup_phase_' = setup_phase_ \/ setup_phase_' \in {"REGISTERING", "WAITING_FOR_CCCD"}
      BY <1>1 DEF RegistrationResult, CccdResult, FailSubscription, Transition, phaseVars
    <3> QED
      BY <2>1, <3>1, <3>2 DEF TimedPhases, FinalPhases, Phases
  <2> QED
    BY <2>2, <2>3
<1>2. CASE UNCHANGED <<phaseVars, linkVars>>
  BY <1>2 DEF phaseVars, linkVars
<1> QED
  BY <1>1, <1>2
     DEF Next, Callback, ReadResult, Notification, ServiceChanged, Congestion,
         ForeignRegistration, Tick, unchangedButFlow, vars

LEMMA RequiredAreOffered ==
  ASSUME ReadyInv, peer # None
  PROVE  /\ offeredHandles \subseteq Handles
         /\ deliveredHandles \subseteq offeredHandles
         /\ peer.hid_services = {} => offeredHandles = {}
<1>1. /\ \A i \in DOMAIN peer.subscriptions : peer.subscriptions[i] \in Subscriptions
      /\ peer \in Peers
  <2>1. setup_phase_ # "DISCONNECTED"
    BY DEF ReadyInv, SetupInv, PhaseFollowsLink
  <2> QED
    BY <2>1, PeerTyped, ElementOfSeq, LenProperties DEF ReadyInv
<1>2. offeredHandles \subseteq Handles /\ deliveredHandles \subseteq offeredHandles
  BY <1>1 DEF offeredHandles, deliveredHandles, RequiredHandles, DeliveredHandles, Subscriptions
<1>3. WellFormed(peer)
  BY <1>1, PeerAssumption
<1>4. peer.hid_services = {} => offeredHandles = {}
  BY <1>3 DEF WellFormed, offeredHandles, RequiredHandles
<1> QED
  BY <1>2, <1>4

-----------------------------------------------------------------------------
(* Steps of the contract. *)

LEMMA OfferedTyped ==
  ASSUME NEW p \in Peers
  PROVE  RequiredHandles(p) \subseteq Handles
<1>1. p \in PeerType
  BY PeerAssumption
<1>2. p.subscriptions \in Seq(Subscriptions)
  BY <1>1 DEF PeerType
<1>3. \A i \in DOMAIN p.subscriptions : p.subscriptions[i] \in Subscriptions
  BY <1>2, ElementOfSeq, LenProperties
<1> QED
  BY <1>3 DEF RequiredHandles, Subscriptions

LEMMA ConnectIsLinkUp ==
  ASSUME ReadyInv, ReadyInv', Connect
  PROVE  Contract!LinkUp
<1>1. outcomeOfPhase = "NO_LINK" /\ outcomeOfPhase' = "DISCOVERING"
  <2>1. setup_phase_ = "DISCONNECTED" /\ setup_phase_' = "WAITING_FOR_DISCOVERY"
    BY DEF Connect, Transition, ReadyInv, SetupInv, PhaseFollowsLink
  <2> QED
    BY <2>1, OutcomeNow, OutcomeNext DEF ReadyInv, SetupInv
<1>2. peer' \in Peers /\ peer' # None
  BY PeerAssumption DEF Connect
<1>3. RequiredHandles(peer') \subseteq Handles
  BY <1>2, OfferedTyped
<1>4. offeredHandles' \in SUBSET Handles
  BY <1>2, <1>3 DEF offeredHandles, RequiredHandles
<1>5. deliveredHandles' = {}
  <2>1. hid_report_handles_' = {}
    BY DEF Connect, ResetConnectionState
  <2> QED
    BY <2>1 DEF deliveredHandles, DeliveredHandles, RoutedToReports
<1> QED
  BY <1>1, <1>4, <1>5 DEF Contract!LinkUp, offeredHandles, deliveredHandles

LEMMA DisconnectIsLinkDown ==
  ASSUME ReadyInv, ReadyInv', Disconnect
  PROVE  Contract!LinkDown
<1>1. setup_phase_ # "DISCONNECTED" /\ setup_phase_' = "DISCONNECTED" /\ peer' = None
  BY DEF Disconnect, Transition, ReadyInv, SetupInv, PhaseFollowsLink
<1>2. outcomeOfPhase # "NO_LINK" /\ outcomeOfPhase' = "NO_LINK"
  BY <1>1, OutcomeNow, OutcomeNext
     DEF ReadyInv, SetupInv, TypeOK, StatusType, Phases, TimedPhases, FinalPhases
<1> QED
  BY <1>1, <1>2 DEF Contract!LinkDown

LEMMA SearchCompleteIsContract ==
  ASSUME ReadyInv, ReadyInv', SearchComplete
  PROVE  Contract!Discovered \/ Contract!Report("DEGRADED")
<1>1. setup_phase_ = "WAITING_FOR_DISCOVERY"
  BY DEF SearchComplete, ReadyInv, SetupInv, PhaseFollowsLink
<1>2. outcomeOfPhase = "DISCOVERING"
  BY <1>1, OutcomeNow DEF ReadyInv, SetupInv
<1>3. offeredHandles' = offeredHandles /\ deliveredHandles' = deliveredHandles
  <2>1. UNCHANGED <<peer, registered, enabled_cccds, routeVars>>
    BY DEF SearchComplete, stackVars
  <2> QED
    BY <2>1, DeliveryUntouched
<1>4. CASE setup_phase_' = "INVENTORY"
  <2>1. outcomeOfPhase' = "PENDING"
    BY <1>4, OutcomeNext DEF ReadyInv, SetupInv, Phases, TimedPhases, FinalPhases
  <2> QED
    BY <1>2, <1>3, <2>1 DEF Contract!Discovered, offeredHandles, deliveredHandles
<1>5. CASE setup_phase_' = "DEGRADED"
  <2>1. outcomeOfPhase' = "DEGRADED"
    BY <1>5, OutcomeNext DEF ReadyInv, SetupInv, FinalPhases
  <2> QED
    BY <1>2, <1>3, <2>1 DEF Contract!Report, offeredHandles, deliveredHandles
<1>6. setup_phase_' \in {"INVENTORY", "DEGRADED"}
  <2>1. CASE Transition("INVENTORY")
    BY <2>1 DEF Transition
  <2>2. CASE Tally(0, 1, TRUE, FALSE) /\ Finalize(TRUE)
    BY <2>2 DEF Tally, Finalize, Transition
  <2> QED
    BY <2>1, <2>2 DEF SearchComplete
<1> QED
  BY <1>4, <1>5, <1>6

\* A step that stays within pending, or within one outcome, delivers inputs or nothing.
LEMMA SameOutcomeDelivers ==
  ASSUME ReadyInv, ReadyInv', [Next]_vars, UNCHANGED peer, outcomeOfPhase' = outcomeOfPhase
  PROVE  Contract!Deliver \/ UNCHANGED Contract!vars
<1>1. CASE peer = None
  BY <1>1 DEF Contract!vars
<1>2. CASE peer # None
  <2>1. outcomeOfPhase # "NO_LINK"
    <3>1. setup_phase_ # "DISCONNECTED"
      BY <1>2 DEF ReadyInv, SetupInv, PhaseFollowsLink
    <3> QED
      BY <3>1, OutcomeNow
         DEF ReadyInv, SetupInv, TypeOK, StatusType, Phases, TimedPhases, FinalPhases
  <2>2. offeredHandles' = offeredHandles /\ deliveredHandles \subseteq deliveredHandles'
    BY <1>2, DeliveryKept
  <2>3. deliveredHandles' \subseteq offeredHandles
    BY <2>2 DEF deliveredHandles, DeliveredHandles, offeredHandles, RequiredHandles
  <2>4. /\ deliveredHandles' \ deliveredHandles \in SUBSET (offeredHandles \ deliveredHandles)
        /\ deliveredHandles' = deliveredHandles \cup (deliveredHandles' \ deliveredHandles)
    BY <2>2, <2>3
  <2> QED
    BY <2>1, <2>2, <2>4 DEF Contract!Deliver, offeredHandles, deliveredHandles
<1> QED
  BY <1>1, <1>2

LEMMA ReadyIsDeliveredNext == ReadyInv' => ReadyMeansSubscribed'
BY ReadyIsDelivered, PTL

\* READY is reported only with everything delivered, NO_HID with nothing offered.
LEMMA LoopReports ==
  ASSUME ReadyInv, ReadyInv', Loop, setup_phase_ \in TimedPhases, setup_phase_' \in FinalPhases,
         UNCHANGED <<peer, registered, enabled_cccds, routeVars>>,
         setup_phase_' = "NO_HID" => peer.hid_services = {}
  PROVE  Contract!Report(setup_phase_')
<1>1. outcomeOfPhase = "PENDING" /\ outcomeOfPhase' = setup_phase_'
  BY OutcomeNow, OutcomeNext DEF ReadyInv, SetupInv
<1>2. offeredHandles' = offeredHandles /\ deliveredHandles' = deliveredHandles
  BY DeliveryUntouched
<1>3. peer # None
  BY DEF ReadyInv, SetupInv, PhaseFollowsLink, TimedPhases
<1>4. setup_phase_' = "READY" => deliveredHandles' = offeredHandles'
  <2>1. ReadyMeansSubscribed'
    BY ReadyIsDeliveredNext
  <2>2. peer' # None
    BY <1>3
  <2> QED
    BY <2>1, <2>2 DEF ReadyMeansSubscribed, deliveredHandles, DeliveredHandles,
                      offeredHandles, RequiredHandles, RoutedToReports
<1>5. setup_phase_' = "NO_HID" => offeredHandles = {}
  BY <1>3, RequiredAreOffered
<1> QED
  BY <1>1, <1>2, <1>4, <1>5 DEF Contract!Report, offeredHandles, deliveredHandles

LEMMA ContractStep ==
  ASSUME ReadyInv, ReadyInv', [Next]_vars
  PROVE  [Contract!Next]_(Contract!vars)
<1>1. CASE Connect
  BY <1>1, ConnectIsLinkUp DEF Contract!Next
<1>2. CASE Disconnect
  BY <1>2, DisconnectIsLinkDown DEF Contract!Next
<1>3. CASE SearchComplete
  BY <1>3, SearchCompleteIsContract DEF Contract!Next, Contract!Outcomes
<1>4. CASE Loop /\ setup_phase_ \in TimedPhases /\ setup_phase_' \in FinalPhases
  <2>1. /\ UNCHANGED <<peer, registered, enabled_cccds, routeVars>>
        /\ setup_phase_' = "NO_HID" => peer.hid_services = {}
    BY <1>4, LoopOutcome DEF TimedPhases
  <2>2. Contract!Report(setup_phase_')
    BY <1>4, <2>1, LoopReports
  <2>3. setup_phase_' \in Contract!Outcomes
    BY <1>4 DEF Contract!Outcomes, FinalPhases
  <2> QED
    BY <2>2, <2>3 DEF Contract!Next
<1>5. CASE ~Connect /\ ~Disconnect /\ ~SearchComplete
           /\ ~(Loop /\ setup_phase_ \in TimedPhases /\ setup_phase_' \in FinalPhases)
  <2>1. \/ setup_phase_' = setup_phase_
        \/ setup_phase_ \in TimedPhases /\ setup_phase_' \in TimedPhases
    BY <1>5, LoopOutcome, CallbackOutcome
  <2>2. outcomeOfPhase' = outcomeOfPhase
    <3>1. CASE setup_phase_' = setup_phase_
      BY <3>1 DEF outcomeOfPhase
    <3>2. CASE setup_phase_ \in TimedPhases /\ setup_phase_' \in TimedPhases
      BY <3>2, OutcomeNow, OutcomeNext DEF ReadyInv, SetupInv
    <3> QED
      BY <2>1, <3>1, <3>2
  <2>3. UNCHANGED peer
    <3>1. CASE Loop
      BY <3>1 DEF Loop
    <3>2. CASE ~Loop
      BY <1>5, <3>2, CallbackOutcome
    <3> QED
      BY <3>1, <3>2
  <2> QED
    BY <2>2, <2>3, SameOutcomeDelivers DEF Contract!Next
<1> QED
  BY <1>1, <1>2, <1>3, <1>4, <1>5

LEMMA ContractInit == Init => Contract!Init
<1> SUFFICES ASSUME Init PROVE Contract!Init
  OBVIOUS
<1>1. outcomeOfPhase = "NO_LINK"
  <2>1. TypeOK
    BY ReadyInit DEF ReadyInv, SetupInv
  <2>2. setup_phase_ = "DISCONNECTED"
    BY DEF Init
  <2> QED
    BY <2>1, <2>2, OutcomeNow
<1>2. peer = None
  BY DEF Init
<1> QED
  BY <1>1, <1>2 DEF Contract!Init

\* Setup takes no step its contract does not allow: one outcome per connection that
\* stands until the link is lost, READY only with every HID input delivered, NO_HID
\* only with none offered, and no input that was delivered lost on the way.
THEOREM ContractSteps == Spec => Contract!Init /\ [][Contract!Next]_(Contract!vars)
BY ReadyInit, ReadyStep, ContractInit, ContractStep, PTL DEF Spec
=============================================================================
