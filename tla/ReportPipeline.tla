---------------------------- MODULE ReportPipeline ----------------------------
(***************************************************************************)
(* The path of an input report through BLEClientHID, from the notification *)
(* to the Home Assistant event: the bounded FIFO (enqueue_input_report_),  *)
(* loop()'s report half, decoding against the last known values and the    *)
(* coalescing window.                                                      *)
(*                                                                         *)
(* One iteration of loop() is several steps: it reads micros() more than   *)
(* once, and the clock advances between its steps.  A callback runs        *)
(* between iterations only.                                                *)
(*                                                                         *)
(* A report is what the decoder tells apart: whether it decodes, its size  *)
(* and the value it has for every field.  A field is relative (SumFields), *)
(* a suitable absolute scalar (LatestFields) or an ordering barrier, one   *)
(* whose values pass through.  The bits, and array fields, which compare   *)
(* sets of usages the same way, are left out; COMPLETE stands for EXACT    *)
(* and LONG, which decode alike.                                           *)
(***************************************************************************)
EXTENDS EventBuffer, FiniteSetsExt

CONSTANTS
  Raw,                  \* the field of an event without a usage
  Absent,               \* a field's value in a report that says nothing of it
  FieldOrder,           \* the fields of the report, in descriptor order
  LatestFields,         \* absolute scalars that keep their latest value
  Reports,              \* the reports the peripheral may send
  Intervals,            \* event_sampling_interval_us_; 0 disables coalescing
  MaxPendingReports,    \* MAX_PENDING_REPORTS
  MaxPendingBytes,      \* MAX_PENDING_REPORT_BYTES
  MaxPayload,           \* MAX_REPORT_PAYLOAD_BYTES
  MaxReportsPerLoop,    \* MAX_REPORTS_PER_LOOP
  ClockModulus,         \* number of values of micros()
  MaxGap,               \* bound: ticks between two looks at the window
  MaxNotifications      \* bound: notifications in a behaviour

Fields == {FieldOrder[i] : i \in DOMAIN FieldOrder}

AbsoluteFields == Fields \ SumFields

Mergeable(field) == field \in SumFields \cup LatestFields

\* SHORT is refused by the Report Map that recognized the report, UNDECODABLE
\* stands for every status with which no decoder recognizes it.
ReportType ==
  [status : {"COMPLETE", "SHORT", "UNDECODABLE"}, size : Nat,
   input : [Fields -> (-MaxSum - 1 .. MaxSum) \cup {Absent}]]

\* A report of another Report ID says nothing of a field, nor does a value outside
\* its logical range (parse_input_).
Says(report, field) == report.input[field] # Absent

ASSUME PipelineAssumption ==
  /\ Reports \subseteq ReportType /\ FieldOrder \in Seq(Fields)
  /\ \A i, j \in DOMAIN FieldOrder : FieldOrder[i] = FieldOrder[j] => i = j
  /\ SumFields \subseteq Fields /\ LatestFields \subseteq Fields \ SumFields
  /\ Raw \notin Fields /\ Absent \notin Int
  /\ MaxPendingReports \in Nat \ {0} /\ MaxReportsPerLoop \in Nat \ {0}
  /\ MaxPayload \in Nat /\ MaxPendingBytes \in Nat /\ MaxPayload <= MaxPendingBytes
  /\ ClockModulus \in Nat \ {0} /\ MaxGap \in Nat \ {0} /\ MaxNotifications \in Nat
  /\ Intervals \subseteq Nat /\ \A i \in Intervals : i + MaxGap < ClockModulus

VARIABLES
  connected,
  event_sampling_interval_us_,
  next_seq_id_,
  pending_reports_, pending_report_bytes_,
  last_values,                  \* runtime_: the last value of an absolute field
  sampled_events_,
  sampling_window_active_, sampling_window_started_us_,
  \* the iteration of loop() in progress
  at,                           \* "IDLE", "REPORTS" or "VALUES"
  processed,
  values,                       \* decoded, not yet emitted or accumulated
  \* the clock, and what the properties compare
  now, since_check,
  emitted,                      \* the events of this connection
  said,                         \* what reports not dropped said of absolute fields
  moved                         \* what was decoded of the relative fields

fifoVars   == <<pending_reports_, pending_report_bytes_>>
windowVars == <<sampled_events_, sampling_window_active_, sampling_window_started_us_>>
loopVars   == <<at, processed, values>>
clockVars  == <<now, since_check>>
inputVars  == <<connected, next_seq_id_, said>>

vars == <<inputVars, event_sampling_interval_us_, fifoVars, last_values, windowVars,
          loopVars, clockVars, emitted, moved>>

Clock == 0 .. ClockModulus - 1

-----------------------------------------------------------------------------
(* The FIFO. *)

\* The sum of terms[from] .. terms[to].
Total(terms, from, to) ==
  LET total[k \in from - 1 .. to] == IF k = from - 1 THEN 0 ELSE total[k - 1] + terms[k]
  IN  total[to]

TotalSize(queue) == Total([i \in DOMAIN queue |-> queue[i].report.size], 1, Len(queue))

\* enqueue_input_report_ drops the oldest until the newest fits or none is left.
Fits(count, bytes, size) == count < MaxPendingReports /\ bytes + size <= MaxPendingBytes

\* Mutant of Dropped: a queue that is full makes room for one report only.
DroppedOne(size) ==
  IF pending_reports_ = <<>> \/ Fits(Len(pending_reports_), pending_report_bytes_, size)
  THEN 0 ELSE 1

Dropped(size) ==
  CHOOSE d \in 0 .. Len(pending_reports_) :
    LET enough(k) == \/ k = Len(pending_reports_)
                     \/ Fits(Len(pending_reports_) - k,
                             pending_report_bytes_ - TotalSize(SubSeq(pending_reports_, 1, k)), size)
    IN  enough(d) /\ \A k \in 0 .. d - 1 : ~enough(k)

\* Mutant of Enqueue: a full queue drops the newest report instead.
EnqueueOrDropNewest(report) ==
  IF Fits(Len(pending_reports_), pending_report_bytes_, report.size)
  THEN /\ pending_reports_' = Append(pending_reports_, [report |-> report, seq_id |-> next_seq_id_])
       /\ pending_report_bytes_' = pending_report_bytes_ + report.size
  ELSE UNCHANGED fifoVars

Enqueue(report) ==
  LET d == Dropped(report.size)
  IN  /\ pending_reports_' =
           Append(SubSeq(pending_reports_, d + 1, Len(pending_reports_)),
                  [report |-> report, seq_id |-> next_seq_id_])
      /\ pending_report_bytes_' =
           pending_report_bytes_ - TotalSize(SubSeq(pending_reports_, 1, d)) + report.size

\* What a complete report says of the given fields.
Statements(report, seq, fields) ==
  {[field |-> f, value |-> report.input[f], seq |-> seq] :
     f \in {g \in fields : report.status = "COMPLETE" /\ Says(report, g)}}

\* ESP_GATTC_NOTIFY_EVT of a HID input.
Notify(report) ==
  /\ at = "IDLE" /\ connected /\ next_seq_id_ <= MaxNotifications
  /\ next_seq_id_' = next_seq_id_ + 1
  /\ \/ /\ report.size > MaxPayload
        /\ UNCHANGED <<fifoVars, said>>
     \/ /\ report.size <= MaxPayload
        /\ Enqueue(report)
        /\ LET dropped == {pending_reports_[i].seq_id : i \in 1 .. Dropped(report.size)}
           IN  said' = {s \in said : s.seq \notin dropped}
                         \cup Statements(report, next_seq_id_, AbsoluteFields)
  /\ UNCHANGED <<connected, event_sampling_interval_us_, last_values, windowVars, loopVars,
                 clockVars, emitted, moved>>

-----------------------------------------------------------------------------
(* Decoding. *)

\* HIDReportMap::parse_input_: a relative field has a value unless it is zero, an
\* absolute one unless it is the last known.
Changed(report, field) ==
  /\ Says(report, field)
  /\ report.input[field] # IF field \in SumFields THEN 0 ELSE last_values[field]

\* The numbers of a set in order, as the one sequence that lists them so.
Ascending(numbers) ==
  {s \in [1 .. Cardinality(numbers) -> numbers] : \A i, j \in DOMAIN s : i < j => s[i] < s[j]}

\* The values of a report: those that changed, in descriptor order; one without
\* a usage if no decoder recognizes the report.  Every case has one element.
Decodings(report, seq) ==
  CASE report.status = "COMPLETE" ->
         {[k \in DOMAIN changed |->
             Event(FieldOrder[changed[k]], report.input[FieldOrder[changed[k]]], seq)] :
            changed \in Ascending({i \in DOMAIN FieldOrder : Changed(report, FieldOrder[i])})}
    [] report.status = "SHORT" -> {<<>>}
    [] report.status = "UNDECODABLE" -> {<<Event(Raw, 0, seq)>>}

\* Mutant of Remember: the values of a short report are remembered as well.
RememberAny(report) ==
  last_values' = [f \in AbsoluteFields |->
                    IF Says(report, f) THEN report.input[f] ELSE last_values[f]]

Remember(report) ==
  last_values' = [f \in AbsoluteFields |->
                    IF report.status = "COMPLETE" /\ Says(report, f)
                    THEN report.input[f] ELSE last_values[f]]

-----------------------------------------------------------------------------
(* The window. *)

\* Mutant of WindowElapsed: the comparison without uint32_t arithmetic.
WindowElapsedWithoutWrap ==
  /\ sampling_window_active_ /\ event_sampling_interval_us_ # 0
  /\ now - sampling_window_started_us_ >= event_sampling_interval_us_

WindowElapsed ==
  /\ sampling_window_active_ /\ event_sampling_interval_us_ # 0
  /\ (now - sampling_window_started_us_) % ClockModulus >= event_sampling_interval_us_

\* update_sampling_window_: an elapsed window closes if it is empty; otherwise it
\* is flushed and the next one begins.
UpdateSamplingWindow ==
  /\ since_check' = 0
  /\ \/ /\ ~WindowElapsed
        /\ UNCHANGED <<windowVars, emitted>>
     \/ /\ WindowElapsed /\ sampled_events_ = <<>>
        /\ sampling_window_active_' = FALSE
        /\ UNCHANGED <<sampled_events_, sampling_window_started_us_, emitted>>
     \/ /\ WindowElapsed /\ sampled_events_ # <<>>
        /\ emitted' = emitted \o sampled_events_
        /\ sampled_events_' = <<>>
        /\ sampling_window_started_us_' = now
        /\ UNCHANGED sampling_window_active_

-----------------------------------------------------------------------------
(* loop(): the report half of an iteration. *)

BeginLoop ==
  /\ at = "IDLE"
  /\ at' = "REPORTS" /\ processed' = 0
  /\ UpdateSamplingWindow
  /\ UNCHANGED <<inputVars, event_sampling_interval_us_, fifoVars, last_values, values, now, moved>>

\* process_input_report_, up to the first value of process_decoded_values_.
TakeReport ==
  /\ at = "REPORTS" /\ pending_reports_ # <<>> /\ processed < MaxReportsPerLoop
  /\ LET report == Head(pending_reports_).report
         seq    == Head(pending_reports_).seq_id
     IN  /\ pending_report_bytes_' = pending_report_bytes_ - report.size
         /\ values' \in Decodings(report, seq)
         /\ Remember(report)
         /\ moved' = moved \cup Statements(report, seq, SumFields)
  /\ pending_reports_' = Tail(pending_reports_)
  /\ at' = "VALUES" /\ UNCHANGED processed
  /\ UpdateSamplingWindow
  /\ UNCHANGED <<inputVars, event_sampling_interval_us_, now>>

\* Mutant of PassThrough: a barrier closes the window over what it holds.
PassThroughAlone ==
  /\ at = "VALUES" /\ values # <<>>
  /\ event_sampling_interval_us_ = 0 \/ ~Mergeable(Head(values).field)
  /\ emitted' = Append(emitted, Head(values))
  /\ sampling_window_active_' = FALSE
  /\ values' = Tail(values)
  /\ UNCHANGED <<inputVars, event_sampling_interval_us_, fifoVars, last_values, sampled_events_,
                 sampling_window_started_us_, at, processed, clockVars, moved>>

\* A barrier: what was accumulated goes out first, and the window closes.
PassThrough ==
  /\ at = "VALUES" /\ values # <<>>
  /\ event_sampling_interval_us_ = 0 \/ ~Mergeable(Head(values).field)
  /\ emitted' = Append(emitted \o sampled_events_, Head(values))
  /\ sampled_events_' = <<>>
  /\ sampling_window_active_' = FALSE
  /\ values' = Tail(values)
  /\ UNCHANGED <<inputVars, event_sampling_interval_us_, fifoVars, last_values,
                 sampling_window_started_us_, at, processed, clockVars, moved>>

\* The values before the next barrier of the report.
RunLength ==
  CHOOSE n \in 0 .. Len(values) :
    /\ \A i \in 1 .. n : Mergeable(values[i].field)
    /\ n < Len(values) => ~Mergeable(values[n + 1].field)

\* The first run after idle is emitted at once and opens the window.
EmitRun ==
  /\ at = "VALUES" /\ event_sampling_interval_us_ # 0
  /\ ~sampling_window_active_ /\ RunLength > 0
  /\ emitted' = emitted \o SubSeq(values, 1, RunLength)
  /\ values' = SubSeq(values, RunLength + 1, Len(values))
  /\ sampling_window_active_' = TRUE /\ sampling_window_started_us_' = now
  /\ since_check' = 0
  /\ UNCHANGED <<inputVars, event_sampling_interval_us_, fifoVars, last_values, sampled_events_,
                 at, processed, now, moved>>

\* accumulate_event_: a buffer without room for the field is flushed first.
AccumulateEvent ==
  /\ at = "VALUES" /\ event_sampling_interval_us_ # 0
  /\ sampling_window_active_ /\ RunLength > 0
  /\ values' = Tail(values)
  /\ \/ /\ Accepts(sampled_events_, Head(values).field)
        /\ sampled_events_' = Accumulated(sampled_events_, Head(values))
        /\ UNCHANGED <<emitted, sampling_window_started_us_, since_check>>
     \/ /\ ~Accepts(sampled_events_, Head(values).field)
        /\ emitted' = emitted \o sampled_events_
        /\ sampled_events_' = Accumulated(<<>>, Head(values))
        /\ sampling_window_started_us_' = now /\ since_check' = 0
  /\ UNCHANGED <<inputVars, event_sampling_interval_us_, fifoVars, last_values,
                 sampling_window_active_, at, processed, now, moved>>

FinishReport ==
  /\ at = "VALUES" /\ values = <<>>
  /\ at' = "REPORTS" /\ processed' = processed + 1
  /\ UNCHANGED <<inputVars, event_sampling_interval_us_, fifoVars, last_values, windowVars,
                 values, clockVars, emitted, moved>>

\* The FIFO is empty, the iteration did its share, or its time is up.
EndLoop ==
  /\ at = "REPORTS"
  /\ at' = "IDLE" /\ UNCHANGED <<processed, values>>
  /\ UpdateSamplingWindow
  /\ UNCHANGED <<inputVars, event_sampling_interval_us_, fifoVars, last_values, now, moved>>

-----------------------------------------------------------------------------
\* reset_connection_state_ and, with it, the decoders' memory.
ResetPipeline ==
  /\ pending_reports_' = <<>> /\ pending_report_bytes_' = 0
  /\ last_values' = [f \in AbsoluteFields |-> 0]
  /\ sampled_events_' = <<>> /\ sampling_window_active_' = FALSE
  /\ emitted' = <<>> /\ said' = {} /\ moved' = {}

Connect ==
  /\ at = "IDLE" /\ ~connected /\ connected' = TRUE
  /\ ResetPipeline
  /\ UNCHANGED <<next_seq_id_, event_sampling_interval_us_, sampling_window_started_us_, loopVars,
                 clockVars>>

Disconnect ==
  /\ at = "IDLE" /\ connected /\ connected' = FALSE
  /\ ResetPipeline
  /\ UNCHANGED <<next_seq_id_, event_sampling_interval_us_, sampling_window_started_us_, loopVars,
                 clockVars>>

\* The clock matters while a window is open.
Tick ==
  /\ sampling_window_active_ /\ since_check < MaxGap
  /\ since_check' = since_check + 1
  /\ now' = (now + 1) % ClockModulus
  /\ UNCHANGED <<inputVars, event_sampling_interval_us_, fifoVars, last_values, windowVars,
                 loopVars, emitted, moved>>

Init ==
  /\ connected = FALSE
  /\ event_sampling_interval_us_ \in Intervals
  /\ next_seq_id_ = 1
  /\ pending_reports_ = <<>> /\ pending_report_bytes_ = 0
  /\ last_values = [f \in AbsoluteFields |-> 0]
  /\ sampled_events_ = <<>>
  /\ sampling_window_active_ = FALSE /\ sampling_window_started_us_ = 0
  /\ at = "IDLE" /\ processed = 0 /\ values = <<>>
  /\ now \in Clock /\ since_check = 0
  /\ emitted = <<>> /\ said = {} /\ moved = {}

ProcessValue == PassThrough \/ EmitRun \/ AccumulateEvent \/ FinishReport

Next ==
  \/ \E report \in Reports : Notify(report)
  \/ BeginLoop \/ TakeReport \/ ProcessValue \/ EndLoop
  \/ Connect \/ Disconnect \/ Tick

\* loop() keeps running; however often it runs out of time, it does not do so
\* for ever before its first report.
Fairness ==
  /\ WF_vars(BeginLoop \/ EndLoop) /\ WF_vars(ProcessValue) /\ SF_vars(TakeReport)
  /\ WF_vars(Tick)

Spec == Init /\ [][Next]_vars /\ Fairness

-----------------------------------------------------------------------------
(* Properties *)

EventType ==
  [field : Fields \cup {Raw}, value : -MaxSum - 1 .. MaxSum, from : Nat \ {0}, to : Nat \ {0}]

\* Every variable has its type; the coalescing buffer holds an event per field,
\* within its capacity, and no sum leaves int64_t (OrderedEventBuffer).
TypeOK ==
  /\ connected \in BOOLEAN /\ event_sampling_interval_us_ \in Intervals
  /\ next_seq_id_ \in 1 .. MaxNotifications + 1
  /\ pending_reports_ \in Seq([report : Reports, seq_id : Nat \ {0}])
  /\ pending_report_bytes_ \in Nat
  /\ last_values \in [AbsoluteFields -> Int]
  /\ sampled_events_ \in Seq(EventType) /\ Len(sampled_events_) <= Capacity
  /\ \A i, j \in DOMAIN sampled_events_ :
       sampled_events_[i].field = sampled_events_[j].field => i = j
  /\ sampling_window_active_ \in BOOLEAN /\ sampling_window_started_us_ \in Clock
  /\ at \in {"IDLE", "REPORTS", "VALUES"} /\ processed \in 0 .. MaxReportsPerLoop
  /\ values \in Seq(EventType) /\ (values # <<>> => at = "VALUES")
  /\ now \in Clock /\ since_check \in 0 .. MaxGap
  /\ emitted \in Seq(EventType)

\* pending_report_bytes_ is three handlers' running count of what the FIFO holds,
\* in an unsigned type: it never drifts, and neither limit is ever exceeded.
QueueWithinLimits ==
  /\ pending_report_bytes_ = TotalSize(pending_reports_)
  /\ pending_report_bytes_ <= MaxPendingBytes
  /\ Len(pending_reports_) <= MaxPendingReports

\* A value in the coalescing buffer has a window open that will flush it: without
\* one update_sampling_window_ would leave it there until the next barrier.
WindowCoversBuffer ==
  sampled_events_ # <<>> => sampling_window_active_ /\ event_sampling_interval_us_ # 0

\* No value waits in the buffer longer than the interval and one gap between two
\* looks at the window, across wraparound of micros().
BufferedValuesAreFresh ==
  sampled_events_ # <<>> =>
    (now - sampling_window_started_us_) % ClockModulus < event_sampling_interval_us_ + MaxGap

\* Events in the order they go out: already emitted, buffered, and decoded.
Outgoing == emitted \o sampled_events_ \o values

\* Spans begin in order, a barrier comes after all that was seen before it, and
\* the reports still in the FIFO are later than every event, in order themselves
\* (README.md: "press, +1, +2, release" never becomes "press, release, +3").
EmissionOrder ==
  /\ \A i, j \in DOMAIN Outgoing :
       i < j =>
         /\ Outgoing[i].from <= Outgoing[j].from
         /\ ~Mergeable(Outgoing[j].field) => Outgoing[i].to <= Outgoing[j].from
  /\ \A i, j \in DOMAIN pending_reports_ :
       i < j => pending_reports_[i].seq_id < pending_reports_[j].seq_id
  /\ \A i \in DOMAIN Outgoing, j \in DOMAIN pending_reports_ :
       Outgoing[i].to < pending_reports_[j].seq_id

\* What the report of number seq moved a relative field by.
Delta(field, seq) ==
  LET of == {m \in moved : m.field = field /\ m.seq = seq}
  IN  IF of = {} THEN 0 ELSE (CHOOSE m \in of : TRUE).value

Deltas(field) == [seq \in 1 .. next_seq_id_ - 1 |-> Delta(field, seq)]

Distances(field) ==
  [seq \in 1 .. next_seq_id_ - 1 |-> IF Delta(field, seq) < 0 THEN -Delta(field, seq)
                                    ELSE Delta(field, seq)]

\* Movement is neither lost nor counted twice: an event of a relative field has
\* the sum of what was decoded of the field in its inclusive span, unless that is
\* far enough to saturate, and every decoded movement lies in the span of exactly
\* one event (README.md, seq_id_from and seq_id_to).
SpansAccountForMovement ==
  LET relative == {i \in DOMAIN Outgoing : Outgoing[i].field \in SumFields}
  IN  /\ \A i \in relative :
           LET e == Outgoing[i]
           IN  Total(Distances(e.field), e.from, e.to) <= MaxSum =>
                 e.value = Total(Deltas(e.field), e.from, e.to)
      /\ \A m \in moved :
           m.value # 0 =>
             Cardinality({i \in relative : /\ Outgoing[i].field = m.field
                                           /\ m.seq \in Outgoing[i].from .. Outgoing[i].to}) = 1

\* The value of the field after the first n events.
ValueAfter(events, n, field) ==
  LET of == {i \in 1 .. n : events[i].field = field}
  IN  IF of = {} THEN 0 ELSE events[Max(of)].value

\* Every event of a barrier is a change of what the consumer saw last: presses and
\* releases alternate, whatever the FIFO dropped between them.
BarriersAlternate ==
  \A i \in DOMAIN emitted :
    emitted[i].field \in AbsoluteFields \ LatestFields =>
      emitted[i].value # ValueAfter(emitted, i - 1, emitted[i].field)

LatestSaid(field) ==
  LET of == {s \in said : s.field = field}
  IN  IF of = {} THEN 0 ELSE (CHOOSE s \in of : \A t \in of : t.seq <= s.seq).value

LatestShown(field) == ValueAfter(emitted, Len(emitted), field)

\* Nothing on its way means nothing unseen: once FIFO and buffer are empty the
\* last event of each absolute field is what the peripheral said of it last, in a
\* report that was not dropped, whatever was dropped, short or out of range before.
ConsumerConverges ==
  Outgoing = emitted /\ pending_reports_ = <<>> =>
    \A f \in AbsoluteFields : LatestShown(f) = LatestSaid(f)

\* Decoded movement is emitted, or the link is lost.
MovementArrives ==
  \A n \in 1 .. MaxNotifications, f \in SumFields :
    (\E m \in moved : m.field = f /\ m.seq = n /\ m.value # 0)
      ~> (~connected \/ \E i \in DOMAIN emitted :
                          emitted[i].field = f /\ n \in emitted[i].from .. emitted[i].to)

-----------------------------------------------------------------------------
(* What the absolute fields promise their consumer: InputChannel.           *)

\* The number of the report an absolute field's last event shows.
LastShown(field) ==
  LET of == {i \in DOMAIN emitted : emitted[i].field = field}
  IN  IF of = {} THEN 0 ELSE emitted[Max(of)].to

Channel == INSTANCE InputChannel WITH
  Fields   <- AbsoluteFields,
  Values   <- {r.input[f] : r \in Reports, f \in AbsoluteFields} \ {Absent},
  Released <- 0,
  shown    <- [f \in AbsoluteFields |-> LastShown(f)],
  value    <- [f \in AbsoluteFields |-> LatestShown(f)]

\* The pipeline implements the channel of its absolute fields: what it emits was
\* said, in that order, and the last value said is shown in the end.
KeepsChannel == Channel!Spec

-----------------------------------------------------------------------------
(* What the documentation says and the code does not do. *)

\* README.md: unsupported, short or otherwise undecodable traffic produces a raw
\* envelope and is not silently discarded.
UndecodableIsReported ==
  [][at = "REPORTS" /\ at' = "VALUES" /\ Head(pending_reports_).report.status # "COMPLETE"
       => values' # <<>>]_vars
=============================================================================
