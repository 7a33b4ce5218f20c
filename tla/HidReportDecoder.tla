--------------------------- MODULE HidReportDecoder ---------------------------
(***************************************************************************)
(* Decoding input reports: HIDReportMap::parse with the runtime state of   *)
(* its fields, HIDBootReportDecoder, and process_input_report_, which      *)
(* picks one of them.  Reports arrive once the Report Map has been parsed, *)
(* whether that succeeded or not.                                          *)
(*                                                                         *)
(* A notification is its source (the characteristic, and the Report        *)
(* Reference if one was read) and its payload, a sequence of bytes.        *)
(* received, shown and boot_shown are histories: what arrived, and what    *)
(* was decoded, of boot reports by the handle that an event names.         *)
(***************************************************************************)
EXTENDS HidReportMap, Bags, UsageTable, Histories

CONSTANTS
  Devices,              \* bound: the Report Maps whose input reports are followed
  Notifications,        \* the reports the peripheral may send
  MaxReceived           \* bound: reports in a behaviour

NoType == "NONE"

\* Unset and NoType: no Report Reference gave a Report ID or a report type.
\* A null payload is refused before it is queued (enqueue_input_report_).
Notification ==
  [handle : Nat, characteristic : {"REPORT", "BOOT_KEYBOARD", "BOOT_MOUSE"},
   report_id : 0 .. 255 \cup {Unset}, report_type : DataTags \cup {NoType},
   payload : Seq(0 .. 255)]

\* A report is too short for its bits to reach the field IDs of boot values.
ASSUME DecoderAssumption ==
  /\ Devices \subseteq Descriptors /\ MaxReceived \in Nat
  /\ Notifications \subseteq Notification
  /\ MaxReportBits <= 61440

VARIABLES
  runtime_,             \* by field id: the last values, or the asserted usages
  boot_decoder_,        \* by handle: modifiers, keys and buttons
  status, values,       \* of the last report
  received, shown, boot_shown

runtimeVars == <<runtime_, boot_decoder_>>
decoderVars == <<runtimeVars, status, values, received, shown, boot_shown>>

Handles == {n.handle : n \in Notifications}

-----------------------------------------------------------------------------
(* Fields. *)

Bit(number, bit) == (number \div 2 ^ bit) % 2

IsSet(number, bit) == Bit(number, bit) = 1

IsConstant(field) == IsSet(field.flags, 0)
IsVariable(field) == IsSet(field.flags, 1)
IsRelative(field) == IsSet(field.flags, 2)

\* HIDFieldSchema::usage_at.
UsageAt(field, index, repeat_last) ==
  LET listed == field.local.usage_sets[1]
      low    == field.local.usage_bound["USAGE_MINIMUM"]
      high   == field.local.usage_bound["USAGE_MAXIMUM"]
  IN  IF index < Len(listed) THEN listed[index + 1]
      ELSE IF repeat_last /\ listed # <<>> THEN Last(listed)
      ELSE IF /\ field.local.given = UsageBounds
              /\ low.page = high.page /\ low.usage + index <= high.usage
           THEN Usage(low.page, low.usage + index)
      ELSE NoUsage

\* application_usage: that of the nearest application collection around it.
ApplicationUsage(collection_id) ==
  LET of[c \in {collections_[i].id : i \in DOMAIN collections_} \cup {NoParent}] ==
        IF c = NoParent THEN NoUsage
        ELSE IF collections_[c + 1].type = 1 THEN collections_[c + 1].usage
        ELSE of[collections_[c + 1].parent]
  IN  of[collection_id]

\* The bits from bit_offset on that are set, each at its place.
RawBits(payload, bit_offset, bit_size) ==
  LET raw[b \in 0 .. bit_size] ==
        IF b = 0 THEN 0
        ELSE LET at == bit_offset + b - 1
             IN  raw[b - 1] + IF IsSet(payload[at \div 8 + 1], at % 8) THEN 2 ^ (b - 1) ELSE 0
  IN  raw[bit_size]

\* Mutant of ReadBits: a value of fewer than 32 bits is not sign-extended.
ReadBitsUnsigned(payload, bit_offset, bit_size, signed) ==
  RawBits(payload, bit_offset, bit_size)

\* read_bits_, of bits that the payload has (ReportsAreTiled).
ReadBits(payload, bit_offset, bit_size, signed) ==
  LET raw == RawBits(payload, bit_offset, bit_size)
  IN  IF signed /\ raw >= 2 ^ (bit_size - 1) THEN raw - 2 ^ bit_size ELSE raw

Elements(field) == 0 .. field.global["REPORT_COUNT"] - 1

ElementOffset(field, k) == field.bit_offset + k * field.global["REPORT_SIZE"]

ElementValue(field, k, payload) ==
  ReadBits(payload, ElementOffset(field, k), field.global["REPORT_SIZE"],
           field.global["LOGICAL_MINIMUM"] < 0)

InRange(field, value) ==
  value \in field.global["LOGICAL_MINIMUM"] .. field.global["LOGICAL_MAXIMUM"]

Runtime(field) ==
  IF field.id \in DOMAIN runtime_ THEN runtime_[field.id]
  ELSE [last_values |-> [k \in Elements(field) |-> 0], active |-> EmptyBag]

ItemValue(usage, application, value, field_id, report_id, aggregation) ==
  [usage |-> usage, application |-> application, value |-> value, field_id |-> field_id,
   report_id |-> report_id, aggregation |-> aggregation]

-----------------------------------------------------------------------------
(* HIDReportMap::parse_input_. *)

\* A variable element is reported: in range, and moved or changed.
Speaks(field, k, payload) ==
  LET value == ElementValue(field, k, payload)
  IN  /\ InRange(field, value)
      /\ value # IF IsRelative(field) THEN 0 ELSE Runtime(field).last_values[k]

DiscretePages == {7, 9, 12}

Aggregation(field, usage) ==
  IF IsRelative(field) THEN "SUM"
  ELSE IF /\ usage.page \notin DiscretePages
          /\ field.global["LOGICAL_MAXIMUM"] - field.global["LOGICAL_MINIMUM"] > 16
  THEN "LATEST" ELSE "PASSTHROUGH"

\* Mutant of VariableValue: a value is named by the main item it comes from.
VariableValueOfItem(field, k, payload) ==
  ItemValue(UsageAt(field, k, TRUE), ApplicationUsage(field.collection_id),
            ElementValue(field, k, payload), field.id, field.global["REPORT_ID"],
            Aggregation(field, UsageAt(field, k, TRUE)))

VariableValue(field, k, payload) ==
  ItemValue(UsageAt(field, k, TRUE), ApplicationUsage(field.collection_id),
            ElementValue(field, k, payload), ElementOffset(field, k), field.global["REPORT_ID"],
            Aggregation(field, UsageAt(field, k, TRUE)))

\* The usages an array's payload asserts, one for each slot that asserts it.
Asserted(field, payload) ==
  LET usage(k) == UsageAt(field,
                    ElementValue(field, k, payload) - field.global["LOGICAL_MINIMUM"], FALSE)
      slots == {k \in Elements(field) : /\ InRange(field, ElementValue(field, k, payload))
                                        /\ usage(k).page # 0 /\ usage(k).usage # 0}
      used  == {usage(k) : k \in slots}
  IN  [u \in used |-> Cardinality({k \in slots : usage(k) = u})]

\* A set in an order.
InOrder(S, before(_, _)) ==
  [k \in 1 .. Cardinality(S) |->
     CHOOSE x \in S : Cardinality({y \in S : before(y, x)}) = k - 1]

Less(a, b) == a < b

UsageBefore(u, v) == u.page < v.page \/ (u.page = v.page /\ u.usage < v.usage)

\* The entries of a multimap keyed by usage, in its order.
Entries(bag) ==
  LET usages == InOrder(BagToSet(bag), UsageBefore)
  IN  FlattenSeq([i \in DOMAIN usages |-> [n \in 1 .. bag[usages[i]] |-> usages[i]]])

\* Mutant of ArrayValues: every asserted usage is a press.
ArrayValuesAgain(field, payload) ==
  LET held == Entries(Asserted(field, payload))
  IN  [i \in DOMAIN held |->
         ItemValue(held[i], ApplicationUsage(field.collection_id), 1, field.bit_offset,
                   field.global["REPORT_ID"], "PASSTHROUGH")]

\* Presses of what is asserted now, releases of what was.
ArrayValues(field, payload) ==
  LET now     == Asserted(field, payload)
      before  == Runtime(field).active
      change(usages, value) ==
        [i \in DOMAIN usages |->
           ItemValue(usages[i], ApplicationUsage(field.collection_id), value, field.bit_offset,
                     field.global["REPORT_ID"], "PASSTHROUGH")]
  IN  change(Entries(now (-) before), 1) \o change(Entries(before (-) now), 0)

FieldValues(field, payload) ==
  IF IsConstant(field) THEN <<>>
  ELSE IF IsVariable(field)
  THEN LET spoken == InOrder({k \in Elements(field) : Speaks(field, k, payload)}, Less)
       IN  [i \in DOMAIN spoken |-> VariableValue(field, spoken[i], payload)]
  ELSE ArrayValues(field, payload)

\* Mutant of FieldRuntime: two slots with the same usage are remembered as one.
FieldRuntimeAsSet(field, payload) ==
  IF IsVariable(field)
  THEN [Runtime(field) EXCEPT !.last_values =
          [k \in Elements(field) |-> IF Speaks(field, k, payload)
                                     THEN ElementValue(field, k, payload) ELSE @[k]]]
  ELSE [Runtime(field) EXCEPT !.active = SetToBag(BagToSet(Asserted(field, payload)))]

FieldRuntime(field, payload) ==
  IF IsVariable(field)
  THEN [Runtime(field) EXCEPT !.last_values =
          [k \in Elements(field) |-> IF Speaks(field, k, payload)
                                     THEN ElementValue(field, k, payload) ELSE @[k]]]
  ELSE [Runtime(field) EXCEPT !.active = Asserted(field, payload)]

FieldsOf(report) == [k \in DOMAIN report.field_ids |-> fields_[report.field_ids[k] + 1]]

ByteSize(report) == (report.bit_size + 7) \div 8

-----------------------------------------------------------------------------
(* HIDReportMap::parse. *)

\* find_report, of the Report Reference's ID or of 0; none if there is no map.
InputReport(n) ==
  IF phase # "VALID" THEN {}
  ELSE ReportOf("INPUT", IF n.report_id = Unset THEN 0 ELSE n.report_id)

Length(n, expected) ==
  IF Len(n.payload) < expected THEN "SHORT"
  ELSE IF Len(n.payload) = expected THEN "EXACT" ELSE "LONG"

MapStatus(n) ==
  IF phase = "VALID" /\ n.report_type \notin {NoType, "INPUT"} THEN "REPORT_KIND_MISMATCH"
  ELSE IF InputReport(n) = {} THEN "SCHEMA_MISSING"
  ELSE Length(n, ByteSize(reports_[CHOOSE r \in InputReport(n) : TRUE]))

Complete == {"EXACT", "LONG"}

\* A report that is not complete leaves the state of its fields alone.
ParseInput(n) ==
  /\ status' = MapStatus(n)
  /\ LET fields  == IF MapStatus(n) \in Complete
                    THEN FieldsOf(reports_[CHOOSE r \in InputReport(n) : TRUE]) ELSE <<>>
         decoded == {f \in Range(fields) : ~IsConstant(f)}
     IN  /\ values' = FlattenSeq([i \in DOMAIN fields |-> FieldValues(fields[i], n.payload)])
         /\ runtime_' = [id \in DOMAIN runtime_ \cup {f.id : f \in decoded} |->
                           IF \E f \in decoded : f.id = id
                           THEN FieldRuntime(fields_[id + 1], n.payload) ELSE runtime_[id]]
  /\ UNCHANGED boot_decoder_

-----------------------------------------------------------------------------
(* HIDBootReportDecoder::decode. *)

BootUsage(characteristic) == IF characteristic = "BOOT_MOUSE" THEN Usage(1, 2) ELSE Usage(1, 6)

BootValue(n, page, usage, value, field_id) ==
  ItemValue(Usage(page, usage), BootUsage(n.characteristic), value, field_id, 0,
            IF page = 1 THEN "SUM" ELSE "PASSTHROUGH")

\* The bits of a byte that differ from what was stored, as values.
BitChanges(n, byte, before, count, page, first_usage, first_field) ==
  LET changed == InOrder({b \in 0 .. count - 1 : IsSet(byte, b) # IsSet(before, b)}, Less)
  IN  [i \in DOMAIN changed |->
         BootValue(n, page, first_usage + changed[i], IF IsSet(byte, changed[i]) THEN 1 ELSE 0,
                   first_field + changed[i])]

Signed8(byte) == DecodeSigned(byte, 1)

Moved(n, byte, usage, field_id) ==
  IF byte = 0 THEN <<>> ELSE <<BootValue(n, 1, usage, Signed8(byte), field_id)>>

BootMouse(n) ==
  LET p == n.payload
  IN  /\ values' = BitChanges(n, p[1], boot_decoder_[n.handle].buttons, 3, 9, 1, 61440)
                     \o Moved(n, p[2], 48, 61456) \o Moved(n, p[3], 49, 61457)
      /\ boot_decoder_' = [boot_decoder_ EXCEPT ![n.handle].buttons = p[1]]

\* The keys as values, in their order.
KeyChanges(n, keys, value) ==
  LET sorted == InOrder(keys, Less)
  IN  [i \in DOMAIN sorted |-> BootValue(n, 7, sorted[i], value, 61952)]

\* Mutant of BootKeyboard: a key that is released is forgotten, not reported.
BootKeyboardPressesOnly(n) ==
  LET p    == n.payload
      held == {p[i] : i \in 3 .. 8} \cap 1 .. 231
      was  == boot_decoder_[n.handle].keys
  IN  /\ values' = BitChanges(n, p[1], boot_decoder_[n.handle].modifiers, 8, 7, 224, 61696)
                     \o KeyChanges(n, held \ was, 1)
      /\ boot_decoder_' = [boot_decoder_ EXCEPT ![n.handle] =
                           [@ EXCEPT !.modifiers = p[1], !.keys = held]]

\* Mutant of BootKeyboard: a code that is no usage is taken for a key.
BootKeyboardAnyCode(n) ==
  LET p    == n.payload
      held == {p[i] : i \in 3 .. 8} \ {0}
      was  == boot_decoder_[n.handle].keys
  IN  /\ values' = BitChanges(n, p[1], boot_decoder_[n.handle].modifiers, 8, 7, 224, 61696)
                     \o KeyChanges(n, held \ was, 1) \o KeyChanges(n, was \ held, 0)
      /\ boot_decoder_' = [boot_decoder_ EXCEPT ![n.handle] =
                           [@ EXCEPT !.modifiers = p[1], !.keys = held]]

BootKeyboard(n) ==
  LET p    == n.payload
      held == {p[i] : i \in 3 .. 8} \cap 1 .. 231
      was  == boot_decoder_[n.handle].keys
  IN  /\ values' = BitChanges(n, p[1], boot_decoder_[n.handle].modifiers, 8, 7, 224, 61696)
                     \o KeyChanges(n, held \ was, 1) \o KeyChanges(n, was \ held, 0)
      /\ boot_decoder_' = [boot_decoder_ EXCEPT ![n.handle] =
                           [@ EXCEPT !.modifiers = p[1], !.keys = held]]

DecodeBoot(n) ==
  /\ status' = Length(n, IF n.characteristic = "BOOT_MOUSE" THEN 3 ELSE 8)
  /\ \/ status' = "SHORT" /\ values' = <<>> /\ UNCHANGED boot_decoder_
     \/ status' \in Complete /\ n.characteristic = "BOOT_MOUSE" /\ BootMouse(n)
     \/ status' \in Complete /\ n.characteristic = "BOOT_KEYBOARD" /\ BootKeyboard(n)
  /\ UNCHANGED runtime_

-----------------------------------------------------------------------------
\* process_input_report_, up to the values it hands to the pipeline.
ProcessInputReport(n) ==
  /\ descriptor \in Devices /\ phase # "PARSING" /\ Len(received) < MaxReceived
  /\ IF n.characteristic = "REPORT" THEN ParseInput(n) ELSE DecodeBoot(n)
  /\ received' = Append(received, n)
  /\ shown' = shown \o values'
  /\ boot_shown' = IF n.characteristic = "REPORT" THEN boot_shown
                   ELSE [boot_shown EXCEPT ![n.handle] = @ \o values']
  /\ UNCHANGED vars

DecoderInit ==
  /\ Init
  /\ runtime_ = << >>
  /\ boot_decoder_ = [h \in Handles |-> [modifiers |-> 0, keys |-> {}, buttons |-> 0]]
  /\ status = "SCHEMA_MISSING" /\ values = <<>>
  /\ received = <<>> /\ shown = <<>> /\ boot_shown = [h \in Handles |-> <<>>]

DecoderNext ==
  \/ Next /\ UNCHANGED decoderVars
  \/ \E n \in Notifications : ProcessInputReport(n)

allVars == <<vars, decoderVars>>

DecoderSpec == DecoderInit /\ [][DecoderNext]_allVars

-----------------------------------------------------------------------------
(* Properties *)

\* Every variable of the decoders has its type: a status of a decoder, field states
\* of fields there are, boot keys that are usages of the keyboard page.
DecoderTypeOK ==
  /\ status \in {"EXACT", "LONG", "SHORT", "SCHEMA_MISSING", "REPORT_KIND_MISMATCH"}
  /\ DOMAIN runtime_ \subseteq {f.id : f \in Range(fields_)}
  /\ \A id \in DOMAIN runtime_ : IsABag(runtime_[id].active)
  /\ \A h \in Handles : /\ boot_decoder_[h].keys \subseteq 1 .. 231
                        /\ {boot_decoder_[h].modifiers, boot_decoder_[h].buttons} \subseteq 0 .. 255
  /\ received \in Seq(Notifications)

\* The reports that are decoded with the input report of the field.
CompleteFor(field) ==
  {n \in Notifications :
     /\ n.characteristic = "REPORT" /\ n.report_type \in {NoType, "INPUT"}
     /\ field.global["REPORT_ID"] = IF n.report_id = Unset THEN 0 ELSE n.report_id
     /\ \E r \in Range(reports_) :
          /\ r.kind = "INPUT" /\ r.report_id = field.global["REPORT_ID"]
          /\ 8 * Len(n.payload) >= r.bit_size}

CompleteReports(field) == Chosen(received, CompleteFor(field))

DecodedFields ==
  {f \in Range(fields_) : phase = "VALID" /\ f.kind = "INPUT" /\ ~IsConstant(f)}

ShownOf(report_id, field_id) ==
  Chosen(shown, {v \in Range(shown) : v.report_id = report_id /\ v.field_id = field_id})

\* The number the payload is, least significant byte first.
NumberOf(payload) ==
  LET last[k \in 0 .. Len(payload)] ==
        IF k = 0 THEN 0 ELSE payload[Len(payload) - k + 1] + 256 * last[k - 1]
  IN  last[Len(payload)]

\* The number in some of its bits.
BitsOf(payload, bit_offset, bit_size) ==
  (NumberOf(payload) \div 2 ^ bit_offset) % 2 ^ bit_size

\* The number that an element of the payload stands for.
Meaning(field, k, payload) ==
  LET size == field.global["REPORT_SIZE"]
      bits == BitsOf(payload, ElementOffset(field, k), size)
  IN  IF field.global["LOGICAL_MINIMUM"] < 0 /\ bits >= 2 ^ (size - 1) THEN bits - 2 ^ size ELSE bits

\* What reports state of an element: its values in the field's range.
Stated(field, k, reports) ==
  LET value(i) == Meaning(field, k, reports[i].payload)
  IN  FlattenSeq([i \in DOMAIN reports |-> IF InRange(field, value(i)) THEN <<value(i)>> ELSE <<>>])

\* What was shown of a variable element is what complete reports stated of it: the
\* movements add up, and the last value shown of an absolute element is the last
\* one stated in its range, each value once, whatever was short, of another kind,
\* of another ID or out of range in between.
VariablesFollowReports ==
  \A f \in {g \in DecodedFields : IsVariable(g)} : \A k \in Elements(f) :
    LET stated == Stated(f, k, CompleteReports(f))
        events == ShownOf(f.global["REPORT_ID"], ElementOffset(f, k))
        was(i) == IF i = 1 THEN 0 ELSE events[i - 1].value
    IN  IF IsRelative(f) THEN Total([i \in DOMAIN events |-> events[i].value]) = Total(stated)
        ELSE /\ (IF events = <<>> THEN 0 ELSE Last(events).value)
                  = (IF stated = <<>> THEN 0 ELSE Last(stated))
             /\ \A i \in DOMAIN events : events[i].value # was(i)

\* How many slots of the payload assert the usage.
SlotsOf(field, usage, payload) ==
  Cardinality({k \in Elements(field) :
                 /\ InRange(field, Meaning(field, k, payload))
                 /\ UsageAt(field, Meaning(field, k, payload) - field.global["LOGICAL_MINIMUM"],
                            FALSE) = usage})

\* A consumer that counts presses and releases knows what is held: for each usage
\* of an array they differ by the number of slots that assert it in the last
\* complete report, so no release is lost and no key stays down after one.
HeldUsagesBalance ==
  \A f \in {g \in DecodedFields : ~IsVariable(g)} :
    LET reports == CompleteReports(f)
        events  == ShownOf(f.global["REPORT_ID"], f.bit_offset)
        count(u, value) ==
          Len(Chosen(events, {e \in Range(events) : e.usage = u /\ e.value = value}))
    IN  \A u \in {e.usage : e \in Range(events)} \cup (IF reports = <<>> THEN {}
                   ELSE BagToSet(Asserted(f, Last(reports).payload))) :
          count(u, 1) - count(u, 0) =
            IF reports = <<>> THEN 0 ELSE SlotsOf(f, u, Last(reports).payload)

\* The same keys in other slots are no news: an array whose complete report asserts
\* what the one before did, in whatever order, has no value.
ReorderingIsSilent ==
  [][LET n == Last(received')
     IN  received' # received =>
           \A f \in {g \in DecodedFields : ~IsVariable(g)} :
             /\ status' \in Complete /\ n \in Range(CompleteReports(f)')
             /\ CompleteReports(f) # <<>>
             /\ Asserted(f, n.payload) = Asserted(f, Last(CompleteReports(f)).payload)
             => \A v \in Range(values') : v.field_id # f.bit_offset]_allVars

\* Values that the coalescing buffer would merge, having one report and one field
\* ID, are of one element: same usage, same application, same aggregation.
FieldIdsNameElements ==
  \A v, w \in Range(shown) :
    /\ v.report_id = w.report_id /\ v.field_id = w.field_id
    /\ "PASSTHROUGH" \notin {v.aggregation, w.aggregation}
    => [v EXCEPT !.value = w.value] = w

\* The reports of a handle that its boot decoder takes.
CompleteBoot(h) ==
  {n \in Notifications : /\ n.handle = h /\ n.characteristic # "REPORT"
                         /\ Len(n.payload) >= IF n.characteristic = "BOOT_MOUSE" THEN 3 ELSE 8}

\* The keys that a keyboard's report names by a modifier's bit, and in its slots.
BitKeys(n)  == {224 + b : b \in {c \in 0 .. 7 : IsSet(n.payload[1], c)}}
SlotKeys(n) == {n.payload[i] : i \in 3 .. 8} \cap 1 .. 231

\* A modifier that the reports of a boot keyboard name both ways has two states.
NamedBothWays(reports, u) ==
  LET keyboards == {n \in Range(reports) : n.characteristic = "BOOT_KEYBOARD"}
  IN  \E m, n \in keyboards : u \in BitKeys(m) \cap SlotKeys(n)

\* Presses and releases of a boot keyboard leave exactly the keys of its last
\* complete report held, and those of a boot mouse its buttons.
BootStateFollowsReports ==
  \A h \in Handles :
    LET complete == Chosen(received, CompleteBoot(h))
        last     == Last(complete)
        mouse    == last.characteristic = "BOOT_MOUSE"
        held     == IF mouse THEN {b + 1 : b \in {c \in 0 .. 2 : IsSet(last.payload[1], c)}}
                    ELSE BitKeys(last) \cup SlotKeys(last)
        of(u)    == LET usage == Usage(IF mouse THEN 9 ELSE 7, u)
                    IN  Chosen(boot_shown[h], {v \in Range(boot_shown[h]) : v.usage = usage})
    IN  complete # <<>> =>
          \A u \in 0 .. 255 :
            \/ NamedBothWays(complete, u)
            \/ IF u \in held THEN of(u) # <<>> /\ Last(of(u)).value = 1
               ELSE of(u) # <<>> => Last(of(u)).value = 0

\* A value past the end of its field's list of usages still has one: HID's last
\* usage repeats, and only a list that says so leaves an element without.  The name
\* is that of the usage's own row, at whatever place of its page it stands.
UsagesAreNamed ==
  \A v \in Range(values) :
    /\ LookupUsageName(v.usage.page, v.usage.usage) = NameOf(v.usage.page, v.usage.usage)
    /\ v.usage = NoUsage =>
         \A f \in DecodedFields :
           v.report_id = f.global["REPORT_ID"] /\ v.field_id \in
             {ElementOffset(f, k) : k \in Elements(f)}
             => f.local.usage_sets[1] = <<>> \/ NoUsage \in Range(f.local.usage_sets[1])

-----------------------------------------------------------------------------
(* What a test's comment says and the code does not do. *)

\* hid_parser_test.cpp: array state is a set of asserted usages, not a slot-by-slot
\* state, so that a usage is released when no slot asserts it any more.
ArrayStateIsASet ==
  [][\A f \in {g \in DecodedFields : ~IsVariable(g)} :
       received' # received /\ f.global["REPORT_ID"] = Last(received').report_id =>
         \A v \in Range(values') :
           v.field_id = f.bit_offset /\ v.value = 0 /\ v.report_id = f.global["REPORT_ID"]
             => SlotsOf(f, v.usage, Last(received').payload) = 0]_allVars
=============================================================================
