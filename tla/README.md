# A verification development for ble_client_hid

`src/components/ble_client_hid` is an ESPHome component for the ESP32. It connects
to a Bluetooth LE HID peripheral (a remote, a keyboard, a mouse), finds out from
its GATT database and Report Maps what it can do, subscribes to its input reports
and publishes them as Home Assistant events.

The modules here follow a connection from end to end. *Inventory and planning*
take in the GATT database; *setup* takes the connection to READY, DEGRADED or
NO_HID; the *Report Map parser* and the *decoders* give reports their meaning; the
*report pipeline* takes notifications to events. Two small modules stand beside them:
the capture of advertisements and the lookup of usage names. TLC checks each on
small instances; TLAPS proves the central invariants for every value of the constants.

## Inventory

Everything runs on ESPHome's main loop: the Bluetooth stack's events come to
`gattc_event_handler`, and `loop()` is called over and over. A callback is atomic,
and so is the setup half of an iteration; they interleave in any order. The report
half reads `micros()` several times, so time passes within it.

| Component | State | Operations | Correct when |
| --- | --- | --- | --- |
| Setup lifecycle (`ble_client_hid.cpp` 165-289, 483-1109) | phase and its timer, read queue and active read, write and subscription queues, active subscription, tally, `degraded_`, `congested_` | one branch of `loop()` per phase, a timeout, one handler per event | the outcome is what the peripheral's state justifies, it is reached in bounded time whatever the peer leaves unanswered, and it stands |
| Subscription attempt (`subscription_state.h`) | stage, two handles, the fallback timer, whether the own write was made | begin, registration result, CCCD result, fallback due | it agrees with the phase and the active subscription; late and foreign events do not move it |
| Report FIFO and window (`ble_client_hid.cpp` 254-268, 1145-1277) | pending reports and their bytes, sampling window | enqueue, take and decode, pass through, emit, accumulate, expire | within limits; order, movement and the last state survive overload and coalescing |
| Ordered event buffer (`ordered_event_buffer.h`) | at most 16 events, insertion ordered | accumulate, drain, clear | one event per field, sums saturate, spans are inclusive |
| Decoders (`hid_parser.cpp` 441-577, `boot_report_decoder.cpp`) | last value of each variable, usages each array asserts, boot keys and buttons by handle | parse, decode | what was shown is what complete reports state; a refused report changes nothing; no read leaves the payload |
| Report Map parser (`hid_parser.cpp` 171-404) | globals and their stack, local usages, open collections, fields | one item at a time | fields tile their reports; each has the globals, usages and collection of its place; limits are never exceeded |
| GATT inventory and planning (`ble_client_hid.cpp` 354-568, 787-895) | services, characteristics, descriptors, totals, queues, handle sets | one question to the stack at a time; read, classify, plan | what is found is what is there; what is left out is marked; every HID input is planned once |
| Advertisement capture (1345-1403) | last and pending advertisement | parse_device, process | the newest is never lost; its elements are its bytes |
| Usage lookup (`usage_data.cpp`) | generated tables | binary search | finds exactly the table's entries |
| Emission, sensors, battery, logging, Python configuration, generators | none of their own | output, build time | not modelled |

Interactions: inventory fills `services_` and planning the queues that the phases of
setup work off; reads bring the Report Maps, from which the parser makes the fields
the decoders use; setup fills the sets that route a notification
(`service_changed_handles_`, then `battery_handles_`, then
`hid_report_handles_`); routed reports enter the FIFO; both halves are reset
together by CONNECT_EVT and DISCONNECT_EVT. The ESPHome `BLEClient` that owns the
connection reacts to the same events as the component (it writes the CCCD of a
characteristic it sees registered), and other nodes of the client cause events the
component sees.

What is hard: answers that never come, come late or come for somebody else; an
operation dropped by a timeout and answered afterwards; the framework's CCCD write
racing the component's retry; congestion; Service Changed in any phase; a link lost
in any phase; 32-bit clocks that wrap; a FIFO and a buffer at their limits; a window
that elapses in the middle of a report; values that are merged while others stand
between them; an inventory that ends in the middle, by an error or at one of four
limits; a Report Map written by somebody else, whose items act at a distance.

## Modules

`SubscriptionAttempt.tla` is `SubscriptionAttemptState` as operators: a method that
changes the attempt is an operator from attempt to attempt.

`GattAttributes.tla` and `GattPeer.tla` hold what the two modules on the database
share: purposes of reads, and a database in the form planning makes of it, constrained by
`WellFormed`.

`GattProfile.tla` gets it there. The variables are those of `inventory_gatt_database_`
(`services_`, the service and characteristic at hand, the totals), the actions the answers
of the stack to its nested loops: `GetService`, `GetIncludes`, `GetCharacteristic`,
`GetDescriptor`, the end of each list, and an error in place of each (`ServiceError`,
`CountError`, and errors within the `End` actions). `PlanReads`, `BuildHidProfiles` and
`PlanSubscriptions` are the planning functions of the same names, functions of the services
found (`ReadPlan`, `SubscriptionPlan`). An action that calls `mark_degraded_` counts it in `operations_failed_`.

`Setup.tla` is the lifecycle. Its variables have the names of the members they
model; `hid_services_` and `handle_report_source_` are reduced to what later
decisions read (`report_maps_`, `has_report_id_`). One action per phase of `loop()`
(`LoopInventory` ... `LoopIdle`), each including the timeout that follows the branch,
and one per callback. `InvalidateProfile` is the rediscovery branch at the head of
`loop()`. A connection finds one of `Peers`, databases in the form of `GattPeer`. The environment is
explicit: requests on the ATT bearer (`att_requests`) are answered in order or
never; registrations are answered in order or never; the client may or may not
write the CCCD on registration; another node may register for a characteristic;
disconnection is possible at any time. Requests may fail to be scheduled.

`SetupContract.tla` says what setup promises without saying how: one outcome per
connection, which stands; READY only with every HID input delivered; no outcome
pending for ever. `Setup!KeepsContract` is the refinement.

`EventBuffer.tla` is `OrderedEventBuffer` as operators on a sequence of events.

`ReportPipeline.tla` is the path of a report. `Notify` is the notification up to the
FIFO; `BeginLoop`, `TakeReport`, `PassThrough`, `EmitRun`, `AccumulateEvent`,
`FinishReport` and `EndLoop` are the stretches of an iteration between two reads of
`micros()`. Three history variables serve the properties: `emitted`, `said` (what
reports that were not dropped say of absolute fields) and `moved` (the movement that
was decoded). A report is a status, a size and a value for each field; a field is
relative (summed), an absolute scalar (latest value) or a barrier.

`InputChannel.tla` is the promise to the consumer of the events: of an absolute
field it is shown values that were said, in that order, and does not keep one that is
not the last; what is lost on the way never includes the value just said.
`ReportPipeline!KeepsChannel` is the refinement: what was said is
`said`, and what is shown of a field is its last event among `emitted`.

`HidReportMap.tla` is `parse_report_map_data`, one action per item or kind of item
(`SetGlobal`, `PushGlobal`, `PopGlobal`, `AddUsage`, `SetUsageBound`, `Delimit`,
`BeginCollection`, `EndCollection`, `AddField`, ...), each with the conditions under which
it calls `fail`. A report of the map is its size so far and its fields.

`HidReportDecoder.tla` extends it: when the map of one of `Devices` is parsed, notifications
come. `ProcessInputReport` is the function of that name up to the decoded values: selection of the
report, the length check, `read_bits_` with sign extension over real bits, change detection of
variables, array usages as a multiset, the fallback to the boot decoder and its own
state by handle.

`UsageTable.tla` is the usage tables with `binary_find` over them, as a function, and the name
lookups.

`Advertisement.tla` is `parse_device` and `process_pending_advertisement_` with the walk over
the AD elements, as a recursion over the bytes left.

The `MC` modules hold the small databases, devices and reports; the `Proofs` modules
hold the theorems. An operator whose comment calls it a *mutant* is a plausible bug in the
definition that follows it; it takes no part in the specification and documents what
the property named for it in `PROJECT.json` would catch.

## Runs

| Run | Question | Properties |
| --- | --- | --- |
| `setup` | Is the outcome what it claims, in time, in every interleaving? | types; `AttemptIsCoherent`: the three memories of an attempt agree; `ReadIsOwed`: a read in flight is the one still unanswered; `ReadyMeansSubscribed`: READY means every HID input is registered, enabled and routed; `ReadyAccountsForOperations`: each operation is counted exactly once; `PhaseAgeBounded`: timeouts hold across wraparound; `OutcomeIsFinal`: late answers change nothing; `FallbackBeforeTimeout`: the own CCCD write comes before giving up |
| `setup_liveness` | Does setup end, and implement its contract? | `SetupTerminates`, `RediscoveryReconnects`, `KeepsContract` |
| `pipeline` | What survives overload, coalescing and expiry? | types with saturation; `QueueWithinLimits`: the byte count never drifts and the limits hold; `WindowCoversBuffer`, `BufferedValuesAreFresh`: what is buffered is flushed in time; `EmissionOrder`: barriers and spans; `SpansAccountForMovement`: movement is neither lost nor doubled; `BarriersAlternate`: press and release alternate; `ConsumerConverges`: with nothing on its way the consumer has the last state |
| `pipeline_liveness` | Does it all arrive? | `MovementArrives`, `KeepsChannel` |
| `gatt_profile` | Is anything left out silently, and does setup start from what it assumes? | types within the limits; `InventoryIsAccountedFor`: what was found is the database truncated, a truncation has its mark, a mark its cause; `NothingMissedSilently`: plans without a mark use all the peer offers; `PlansFitSetup`: the result is `WellFormed`, queues are cut where and counted as `Setup` does |
| `hid_report` | Do reports mean what their Report Map says? | types within the limits; `ReportsAreTiled`, `GlobalsAreScoped`, `UsagesBelongToOneItem`, `CollectionsNest`: each field has the bits, globals, usages and collection of its place; `VariablesFollowReports`, `HeldUsagesBalance`, `BootStateFollowsReports`: what was shown is what complete reports state; `ReorderingIsSilent`; `FieldIdsNameElements`: what coalescing merges is one element; `UsagesAreNamed` |
| `advertisement` | Is the newest advertisement ever lost, or an element misread? | `LatestIsCaptured`, `ElementsTile` |
| `setup_skipped`, `setup_retry`, `setup_protocol_mode`, `pipeline_short`, `array_set` | Does the code do what its documentation says? | each ends in a counterexample, see *Findings* |

Bounds. `setup` uses eight databases: a boot keyboard; a remote with an incomplete
inventory, an undefined report, a missing CCCD and Service Changed; one with more
inputs than `MaxSubscriptions` = 2; one with more reads than `MaxReads` = 2 and two
Protocol Mode characteristics; one with an optional
read only; and three without HID or with a failed inventory. Each reaches
every decision of the planning and of the phases behind it. `PhaseTimeout` = 2,
`FallbackDelay` = 1 and `MaxLoopGap` = 1 are the smallest values in which fallback,
timeout and an iteration late by a tick are three different things; `TimeModulus` = 9
is just above what the assumption asks for, and the clock starts anywhere, so that
every timer wraps. The clock stands still in phases without a timeout. One foreign
registration per connection is enough to answer for the component's own attempt.

`pipeline` has four notifications per behaviour, which overfill a FIFO of two reports
and three bytes, by count and by bytes, and a buffer of `Capacity` = 2 with three mergeable
fields; `MaxSum` = 2 is exceeded by two coalesced moves. The interval is 0 (no
coalescing) or 2 ticks, with a clock of 4 that starts anywhere. The seven reports
differ in what they change: movement in both directions, a press, a level, a report that says
nothing of some fields, one too short, one unknown and one too long. Sequence
numbers grow over reconnections, as in the code, and bound the behaviour.
`pipeline_liveness` uses three of the reports and three notifications.

`gatt_profile` has limits of 3 services, 2 included services, 6 characteristics, 4
descriptors, 4 reads and 2 subscriptions, and nine databases, so that each limit is
missed, met exactly and exceeded, by one service and by several together; two of the
questions to the stack, anywhere, are answered with an error, so that an error meets a limit and
another error. One database claims the same handles in two services: a handle is read once even so.

`hid_report` parses three composite or unusual devices whose reports are followed, 1,024
descriptors that put every pair of sixteen items behind four prologues (nothing open; a Push with an unsigned
maximum; a collection with a usage left over; an open Delimiter) and before a field, and
one descriptor for each error path that is left. Limits of 2 reports, 6 fields, 2
collections in depth 2, 2 pushes, 24 bits and 8 elements are met and exceeded. Three of
twenty reports follow each other, enough for a change, its refusal in between and its
reversal; values are negative, out of range, unaligned and repeated.

`advertisement` takes every sequence of results of up to three bytes, each 0, 1 or 2, with
every division between advertisement and scan response, and one result too long for the
slot: every element is empty, complete, exact or truncated somewhere.

Fairness. `Setup!Fairness`: `loop()` keeps being called, time passes, and a
connection that the component closed is reported as disconnected. No answer of the
peer is assumed. `ReportPipeline!Fairness`: `loop()` keeps being called and its
steps are taken; `TakeReport` is strongly fair because the only thing that keeps an
iteration from its first report is that 4 ms pass between two adjacent instructions,
which does not happen every time.

## Proofs

`SetupProofs`: `SetupInv == TypeOK /\ PhaseFollowsLink /\ AttemptIsCoherent` is
inductive. Types alone are not: the handlers read the database of the connection, so
`PhaseFollowsLink` is needed to know there is one in every phase that reads it; and
`write_current_cccd_` requests a write to the active subscription's CCCD, so
`AttemptIsCoherent` is needed to know that there is an attempt and that its handle is a
real one. From `SetupInv` follow `TypeCorrect` and `AttemptCoherence`.
`OutcomeStands` proves `OutcomeIsFinal` with one more conjunct, `ReadFollowsPhase`
(no read is active outside READING): otherwise a late answer could still be matched.

`TimeoutsHold`, in the same module, proves `PhaseAgeBounded`. The invariant is
`AgeFollowsLoop`: a phase is younger than its timeout plus the ticks since the last
iteration, because the last iteration either restarted the timer or found it not
elapsed. The assumption that twice the sum of timeout, fallback delay and gap fits the clock makes
the unsigned difference faithful; the code's 15 s, 250 ms and a 32-bit millisecond clock meet
it by a wide margin. `FallbackIsNotStarved` proves the action property `FallbackBeforeTimeout`:
phase and fallback deadline start at one reading of the clock (`DeadlineFollowsPhase`), so an
iteration that finds the phase timed out finds the fallback due or made (`TimedOutIsDue`);
it needs `FallbackDelay <= PhaseTimeout`. `ReadsAreOwed` proves `ReadIsOwed`. It needs more than itself: a timeout in
READING gives up a read whose answer is still due. `OwedInv` says that the bearer never has two
READs, and that it has none before READING, and none in READING while nothing is waited for,
so that what is waited for is the one that is due.

`ReadyIsSubscribed`, in the same module, proves `ReadyMeansSubscribed`, a claim about the
last step of a long protocol, so that every earlier step must be shown to lead there.
`NothingForgotten` says that a required subscription that was planned is delivered, in the
queue or under way unless setup is degraded: a timeout, a limit or a failure drops it
only with a mark. `WaitingIsRegistered` carries the registration over to the answer of the
CCCD write, and `ReadyIsSettled` empties the queue. For the routes, `ReadsOfPeer` follows
each read from the plan to its value, since a battery read claims a handle
for the battery; with `WellFormed` no HID input is among them (`InputsNotDiverted`);
`SourcesRouted` keeps what `build_hid_profiles_` routed.

`ReadyIsComplete`, in the same module, proves `ReadyAccountsForOperations`. `AccountInv` is the
balance of every stage: unless setup is degraded, what was counted, what is queued and
what is in flight add up to what the database has called for by then. Nothing is
said of a degraded setup, and nothing needs to be: each way an operation goes without being counted
(a limit, a timeout) sets `degraded_`, and so does a value that is counted twice, as read and
as rejected; `ReadyIsSettled` excludes it at READY.

`ContractSteps`, in the same module, proves the safety part of `KeepsContract`: `Init` maps to
the contract's, and each step to a step of the contract or a stutter. `DeliveryKept` is its core:
while the link is up nothing takes a delivered input away. Several may be delivered in one
step of `build_hid_profiles_`, when another node subscribed to them before. READY
and NO_HID satisfy their guards by `ReadyMeansSubscribed` and `WellFormed`.

`ReportPipelineProofs`: `BufferIsCovered` proves `WindowCoversBuffer`, which is
inductive by itself. `BufferIsFresh` proves `BufferedValuesAreFresh` from it and from
`ClockInv`, the same argument on the window's clock. Its assumption, interval plus gap
less than the range of `micros()`, is the code's: the configuration limits the interval to one
hour and `micros()` wraps after 71 minutes, so the main loop may stall for eleven.
`EventsKeepOrder` proves `EmissionOrder`. `OrderInv` speaks of one sequence, the events
emitted, buffered and decoded, in this order: it is ordered by sequence number and lies below
whatever the FIFO still has. Most steps only move an event along it; a new
report extends it and a reset empties it. The one change within is a contribution
that joins a span in the buffer (`JoinedOrder`): only mergeable events are
buffered, so the span may grow past those behind it. A run that bypasses the buffer
finds it empty, by `WindowCoversBuffer`.

The same module proves the other invariants of the pipeline. `PipelineTypes` proves
`TypeOK` with one more conjunct, that a report in progress is one of the iteration's share.
`QueueKeepsLimits` proves `QueueWithinLimits`; it is inductive by itself once sums are understood:
a sum is the last value of the one running total there is, by induction over sets of numbers, and
`TotalSplit` cuts it where the FIFO is cut. That a report fits after enough others are
dropped needs `MaxPayload <= MaxPendingBytes`, as 512 and 4096 bytes are.

The last three speak of `Outgoing` again. `ShownInv` says that `last_values` is what the consumer
*will* have been shown once all of `Outgoing` is out, and that barriers alternate along it:
`TakenShown` extends it by a report's changes, and `JoinedShown` moves a value
forward to the event it joins, past events that are all of other fields (`JoinedAt`). `BarriersHold`
follows for the part that is out. `SaidInv` ties `last_values` to what the peripheral said:
what was said is in the FIFO or has been taken, and `last_values` has the latest that was taken; what the
FIFO drops it drops whole, before any of it was taken. With nothing on its way
the two meet in `ConsumerCatchesUp`, which proves `ConsumerConverges`. `MovementIsAccountedFor` proves
`SpansAccountForMovement` from `MovementInv`: spans of a field are disjoint, every movement lies in one,
all of them are older than the FIFO, and an event has the sum over its span. The step that
matters is again the contribution that joins: what lies between the two spans
moved nothing, since it would be covered by an event between them, and a sum that its distances
keep below `MaxSum` has not saturated (`JoinedMovement`). `ChannelSteps` proves that the pipeline starts as
`InputChannel` does and that every step is a step of it, the safety part of `KeepsChannel`, from
`ChannelInv`: every event of an absolute field along `Outgoing` is one of the statements that have not been
lost, and those of a field come in the order of their reports. What the FIFO drops is later than all that
is out (`LostStatements`), so nothing shown is ever lost, and a step that emits, in whatever way, lets
the consumer see of each field what it saw or a later statement (`LaterShown`). `Total`, `Delta` and `ValueAfter` are written as a recursive
function, a choice and a maximum, not as folds, so that these proofs can be made.

`GattProfileProofs`: `InventoryAccounted` proves `InventoryIsAccountedFor` for every
database and all limits. It is not inductive: the service at hand is not yet in
`services_`, and a loop may end three actions after the limit was reached. `InventoryInv` adds
that the service and the characteristic at hand truncate those asked for, that they are
whole unless something was marked or could not be counted, and where in the nested
loops each total can have met its limit. `PlanInv` (`PlanInvariant`) adds that from its phase on, what is
planned is the plan of the services found. `TypesCorrect` proves `TypeOK` from the two, with the limits of both
queues. `PlansComplete` proves `NothingMissedSilently`: where nothing was marked the services found
are the database whole, and a plan that was refused nothing has every wanted read, by induction over
`add_read_`'s calls, except one whose handle is planned already. `PlansFit` proves `PlansFitSetup`, which discharges `Setup`'s
`PeerAssumption`: where handles differ no call of `add_read_` meets a planned handle, so the queue is a
prefix of the wanted reads and what is cut off has as many marks; the
subscriptions are cut service by service, with one mark for each that does not fit; and a peer of different
handles is well formed (`PeerFits`), since flattening tables of different
entries gives different entries (`FlattenTableDistinct`). Both plans are recursive functions over
the list of reads and of services, not folds, so that these proofs can be made.

`HidReportProofs`: `ReportsTiled` proves `ReportsAreTiled` for every Report Map. `MapInv`
adds what `AddField` relies on: items and globals are numbers of their range, also those on the
global stack, a field's size is its count times its element size, and a report's list of
fields refers to fields there are, each once. `ReadsStayInside` concludes from it, with a field's
bits inside its report, that no element `read_bits_` is asked for lies beyond a payload of
the length the map demands, so that nothing in a peripheral's Report Map makes the decoder
read outside its report. `FieldsGetGlobalsInForce` and `CollectionsAreNested` prove `GlobalsAreScoped` and
`CollectionsNest` from `ScopeInv`, which ties the two stacks to the items: what is at level d
is from the item that opened the scope of level d and has not been closed since (`Opens`). The properties
speak of the items alone, so the lemmas are about those: how the depth moves with an
item, that an item which closes a scope brings back exactly what stood before the
scope's opener (`AliveClosed`), and that an item is found by its rank among those
of its tags (`ItemOfRank`), by which fields and collections are numbered.
`UsagesGoToTheirItem` proves `UsagesBelongToOneItem` in the same way: `LocalsScoped` says that
`local` has what the items since the last main item said, outside of a Delimiter, in their order, and
the ends of a range as they were given last (`BoundsScoped`), so that a field's list of usages and its
range are exactly that. `ParserKeepsTypes` proves `ParserTypeOK`.

`HidDecoderProofs`: `DecoderKeepsTypes` proves `DecoderTypeOK` from `DecoderInv`, which says where
each value comes from (`Named`): it has a usage an array or a boot keyboard gave it, or is of an element of a
field, or is a movement of a boot mouse. `MergedValuesAreOfOneElement` proves `FieldIdsNameElements`: fields
tile their report and no two reports have one kind and one ID (`MapInv`), so two elements with the
same bit are the same (`ElementsApart`), and the boot mouse's IDs lie above every bit. That needs
`MaxReportBits <= 0xF000`; the code's limit is far below. `LookupFindsName`
proves that `binary_find` over pages and then over the page's usages finds a row if and only if
there is one (`BinaryFindIs`, by induction over the length of the slice), for every sorted table. With it and
`ElementsApart`, `ValuesKeepTheirUsages` proves `UsagesAreNamed`.
The orders in which values are listed (of a multimap, of a loop) are defined by counting what
comes before (`InOrder`), and the binary search as a function of the slice, so that these
proofs can be made. `ReorderedArraysAreSilent` proves the action property `ReorderingIsSilent` from `ArraysFollow`:
what an array remembers is what its last complete report asserts, so a report that asserts the same has
nothing to add and nothing to take away.

`HidHistoryProofs` proves the three properties that compare everything shown with everything received.
`VariablesFollow` proves `VariablesFollowReports` and `HeldUsagesAreCounted` proves `HeldUsagesBalance`, both from one
invariant, `FieldsFollow`: of each element of a variable, `Tracked` relates what was shown and what is remembered
to what was stated so far; of each array, `Balanced` says that asserts less releases are the slots that assert now.
A report appends to three histories at once, and the step has to match them: at the place of an element a report
shows what that element's field gives and nothing of another's (`FieldShown`, from the tiling of
`MapInv`; boot values lie past every element, `AllPast`); a variable's new value extends what was stated by `StatedBy`
(`TrackedAfter`); an array's values are, usage by usage, the differences of two multisets. What an
element states is defined in the property without a bit, as a
division and a remainder of the number that the payload is, and `read_bits_` is modelled bit by bit, so the proof
needs that they agree for every payload, offset and size up to 32, sign included (`SequenceLemmas`, the bits
of a number). `BootStateFollows` proves `BootStateFollowsReports` from `BootsTell`: a boot decoder
remembers the last report of its handle, and the last value shown of a key is the one remembered (`Shows`);
`Switches` says that the values of one report take a key from the one state to the other. A report of the other kind and
a short one leave both alone. The invariant does not hold of a modifier that a keyboard names both by its bit and in a slot: the
code remembers the two apart, so that the release of one is shown while the other holds it. Nothing in
the documentation says what the state of such a key is, and the property excludes it (`NamedBothWays`); `hid_report` has a report
that names a modifier in a slot, and fails without the exclusion.
`Histories.tla` has the operators of these properties (`Chosen`, `Total`) as a flattening and a recursive
function, so that these proofs can be made.

`AdvertisementProofs`: `LatestCaptured` proves `LatestIsCaptured`; the invariant adds that
`last_advertisement_` is what the scanner saw last. `ElementsAreBytes` proves `ElementsTile` for every
scan result. The walk over the elements is a function by recursion that the bytes left
bound (`WalkExists`), and encoding its elements gives the bytes back: an element that is read is
what was encoded (`ReadPrepended`), and the walk of the rest tiles the rest (`WalkTiles`).

`SequenceLemmas` has what several of these need: induction over the naturals as a statement about sets, which
the provers can instantiate, what flattening a list of lists yields and what is chosen of a history, and the
bits of a number.

Assumptions on constants: `TimeAssumption`, `PeerAssumption`, `ParameterAssumption`, `FallbackAssumption`,
`BufferAssumption`, `PipelineAssumption`, `DatabaseAssumption`, `LimitAssumption`,
`ReportMapAssumption`, `DecoderAssumption`, `UsageTableAssumption`, `ScanAssumption`, each
checked by TLC for its instance.

Only model-checked: everything about liveness under fairness
(`SetupTerminates`, `RediscoveryReconnects`, `MovementArrives` and the liveness parts
of `KeepsContract` and `KeepsChannel`): the prover has neither ENABLED nor fairness reasoning of that kind.

## Findings

- `setup_skipped`: a timeout in REGISTERING or WAITING_FOR_CCCD clears the whole
  queue, so one silent characteristic leaves the subscriptions behind it untried,
  while `README.md` says DEGRADED means that every enabled operation reached a known outcome.
- `setup_retry`: a late failure of the framework's CCCD write is taken for the failure
  of the component's own, while a test's comment says that only the latter is terminal.
- `setup_protocol_mode`: a device without Protocol Mode is READY under a policy that asks
  for it, while `README.md` says that setup continues as degraded.
- `pipeline_short`: a report shorter than its schema yields no event at all, while
  `README.md` says that it produces a raw envelope.
- `array_set`: when two slots of an array assert one usage and one of them stops, the usage is
  released although the other still asserts it, while a test's comment says that array
  state is a set of asserted usages.

## Abstractions

- The preferred connection parameters request, `node_state`, logging, hashes and
  formatting are left out: no decision reads them.
- `millis()` is constant within a handler.
- For `Setup`, a database that inventory could not take in completely is `PARTIAL` and counts as one
  failure; `GattProfile` counts each limit and error.
- The stack answers one question at a time in `GattProfile`; the code asks them all
  within one iteration, and nothing else can intervene.
- Handles of a database are different, as ATT has it, where a property needs it
  (`HandlesDiffer`). UUIDs are the classes that planning distinguishes, properties the three it reads.
- Items of a Report Map are given as tag, size and value; prefix bytes and their
  decoding are left out. Long items, indices and unknown tags are
  kept as far as they affect the parser's state. Diagnostics are not modelled.
- `HidReportDecoder` follows one Report Map at a time; `parse_device` compares bytes and
  not the division between advertisement and scan response, in the model as in the code.
- Battery and raw-only notifications use a sequence number in the code; only HID
  notifications do here. Gaps in the numbers still occur (a report that is too long).
- A field's identity stands for service instance, Report ID and bit position.
  In `ReportPipeline` array fields and key sets are barrier fields; their bits and usages
  are `HidReportDecoder`'s.
- EXACT and LONG are one status. Everything with which no decoder recognizes a report is
  UNDECODABLE.
- At most 8 reports per iteration is `MaxReportsPerLoop`; the time limit is a free choice.

## Not modelled

- Event emission, sensors and battery values, logging, `dump_config`, hashes and formatting:
  output, without state that a later decision reads.
- The rows of the usage tables, the Python configuration and the generators: data, or code that runs at build time.
- The tests and build scripts; what they say of the code is taken as documentation.
- Setup and pipeline over one connection. They share handle sets that the first
  writes and the second reads, and both are reset by the same events; `RoutedToReports` and
  `Disconnect` are their interface in either module. What a device with several Report
  IDs loses under overload is the documented policy of dropping the oldest report; between
  Service Changed and the disconnection the code decodes with the old profile and has no
  rule that could be stated.

## Order of work

Written in this order: `SubscriptionAttempt`, `Setup`, `SetupContract`; `EventBuffer`,
`ReportPipeline`, `InputChannel`; `HidReportMap`, `UsageTable`, `HidReportDecoder`;
`GattProfile`, with `GattPeer` taken out of `Setup`; `Advertisement`; the proofs along
with each. What remains worth doing: a module that composes setup
and pipeline, for several Report IDs.
