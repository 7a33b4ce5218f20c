------------------------- MODULE ReportPipelineProofs -------------------------
(***************************************************************************)
(* Theorems about ReportPipeline: what is buffered is flushed in time,     *)
(* events go out in the order their reports came in, the FIFO keeps both   *)
(* limits, barriers alternate, the last state shown is the peripheral's,   *)
(* movement is neither lost nor counted twice, and every step is one of    *)
(* InputChannel.                                                           *)
(***************************************************************************)
EXTENDS ReportPipeline, SequenceTheorems, FiniteSetTheorems, TLAPS

\* A look at the window closes it only over an empty buffer.
LEMMA UpdateKeepsCover ==
  ASSUME WindowCoversBuffer, UpdateSamplingWindow,
         UNCHANGED event_sampling_interval_us_
  PROVE  WindowCoversBuffer'
<1>1. CASE UNCHANGED <<windowVars, emitted>>
  BY <1>1 DEF WindowCoversBuffer, windowVars
<1>2. CASE sampled_events_ = <<>> /\ UNCHANGED sampled_events_
  BY <1>2 DEF WindowCoversBuffer
<1>3. CASE sampled_events_' = <<>>
  BY <1>3 DEF WindowCoversBuffer
<1> QED
  BY <1>1, <1>2, <1>3 DEF UpdateSamplingWindow

\* A value in the coalescing buffer always has a window that will flush it
\* (update_sampling_window_, process_decoded_values_, accumulate_event_).
THEOREM BufferIsCovered == Spec => []WindowCoversBuffer
<1>1. Init => WindowCoversBuffer
  BY DEF Init, WindowCoversBuffer
<1>2. WindowCoversBuffer /\ [Next]_vars => WindowCoversBuffer'
  <2> SUFFICES ASSUME WindowCoversBuffer, [Next]_vars
               PROVE  WindowCoversBuffer'
    OBVIOUS
  <2>1. CASE \E report \in Reports : Notify(report)
    BY <2>1 DEF WindowCoversBuffer, Notify, windowVars
  <2>2. CASE BeginLoop
    BY <2>2, UpdateKeepsCover DEF BeginLoop
  <2>3. CASE TakeReport
    BY <2>3, UpdateKeepsCover DEF TakeReport
  <2>4. CASE PassThrough
    BY <2>4 DEF PassThrough, WindowCoversBuffer
  <2>5. CASE EmitRun
    BY <2>5 DEF EmitRun, WindowCoversBuffer
  <2>6. CASE AccumulateEvent
    BY <2>6 DEF AccumulateEvent, WindowCoversBuffer
  <2>7. CASE FinishReport
    BY <2>7 DEF FinishReport, WindowCoversBuffer, windowVars
  <2>8. CASE EndLoop
    BY <2>8, UpdateKeepsCover DEF EndLoop
  <2>9. CASE Connect \/ Disconnect
    BY <2>9 DEF Connect, Disconnect, ResetPipeline, WindowCoversBuffer
  <2>10. CASE Tick
    BY <2>10 DEF Tick, WindowCoversBuffer, windowVars
  <2>11. CASE UNCHANGED vars
    BY <2>11 DEF vars, windowVars, WindowCoversBuffer
  <2> QED
    BY <2>1, <2>2, <2>3, <2>4, <2>5, <2>6, <2>7, <2>8, <2>9, <2>10, <2>11 DEF Next, ProcessValue
<1> QED
  BY <1>1, <1>2, PTL DEF Spec

-----------------------------------------------------------------------------
(* The age of a window is a difference modulo ClockModulus.  It never gets  *)
(* so old that it could be taken for a young one, because the window is     *)
(* looked at often enough.                                                  *)

WindowAge == (now - sampling_window_started_us_) % ClockModulus

ClockOK ==
  /\ now \in Clock /\ sampling_window_started_us_ \in Clock
  /\ since_check \in 0 .. MaxGap
  /\ event_sampling_interval_us_ \in Intervals

\* The last look left a window that had not elapsed, and the clock has advanced
\* since_check ticks since.
AgeFollowsCheck ==
  sampling_window_active_ =>
    /\ event_sampling_interval_us_ # 0
    /\ WindowAge < event_sampling_interval_us_ + since_check

ClockInv == ClockOK /\ AgeFollowsCheck

LEMMA ParameterFacts ==
  /\ ClockModulus \in Nat /\ ClockModulus > 0
  /\ MaxGap \in Nat /\ MaxGap > 0
  /\ \A i \in Intervals : i \in Nat /\ i + MaxGap < ClockModulus
BY PipelineAssumption

LEMMA AgeType ==
  ASSUME NEW a \in Clock, NEW b \in Clock
  PROVE  (a - b) % ClockModulus = IF a >= b THEN a - b ELSE a - b + ClockModulus
BY ParameterFacts DEF Clock

LEMMA AgeStep ==
  ASSUME NEW a \in Clock, NEW b \in Clock, ((a - b) % ClockModulus) + 1 < ClockModulus
  PROVE  /\ (a + 1) % ClockModulus \in Clock
         /\ (((a + 1) % ClockModulus) - b) % ClockModulus = ((a - b) % ClockModulus) + 1
<1>1. ClockModulus \in Nat /\ ClockModulus > 0 /\ a \in Int /\ b \in Int
  BY ParameterFacts DEF Clock
<1>2. CASE a + 1 < ClockModulus
  <2>1. (a + 1) % ClockModulus = a + 1 /\ a + 1 \in Clock
    BY <1>1, <1>2 DEF Clock
  <2> QED
    BY <1>1, <2>1, AgeType DEF Clock
<1>3. CASE ~(a + 1 < ClockModulus)
  <2>1. a + 1 = ClockModulus
    BY <1>1, <1>3 DEF Clock
  <2>2. (a + 1) % ClockModulus = 0 /\ 0 \in Clock
    BY <1>1, <2>1 DEF Clock
  <2>3. a >= b /\ (a - b) % ClockModulus = a - b
    BY <1>1, <2>1, AgeType DEF Clock
  <2>4. b > 0
    BY <1>1, <2>1, <2>3 DEF Clock
  <2>5. (0 - b) % ClockModulus = 0 - b + ClockModulus
    BY <1>1, <2>2, <2>4, AgeType DEF Clock
  <2> QED
    BY <1>1, <2>1, <2>2, <2>3, <2>5
<1> QED
  BY <1>2, <1>3

\* What a step may do to the window and the clock.
Opened ==
  /\ event_sampling_interval_us_ # 0 /\ sampling_window_started_us_' = now
  /\ since_check' = 0 /\ now' = now

Kept ==
  UNCHANGED <<sampling_window_active_, sampling_window_started_us_, since_check, now>>

Closed ==
  /\ ~sampling_window_active_' /\ sampling_window_started_us_' = sampling_window_started_us_
  /\ since_check' \in {0, since_check} /\ now' = now

\* A look at a window that is closed or has not elapsed.
Checked ==
  /\ ~WindowElapsed /\ since_check' = 0
  /\ UNCHANGED <<sampling_window_active_, sampling_window_started_us_, now>>

LEMMA OpenedStep ==
  ASSUME ClockInv, Opened, UNCHANGED event_sampling_interval_us_
  PROVE  ClockInv'
<1>1. ASSUME NEW a \in Clock PROVE (a - a) % ClockModulus = 0
  BY ParameterFacts DEF Clock
<1>2. WindowAge' = 0
  BY <1>1 DEF ClockInv, ClockOK, Opened, WindowAge
<1>3. 0 \in 0 .. MaxGap
  BY ParameterFacts
<1>4. ASSUME NEW i \in Intervals, i # 0 PROVE 0 < i + 0
  BY <1>4, ParameterFacts
<1>5. 0 < event_sampling_interval_us_ + 0
  BY <1>4 DEF ClockInv, ClockOK, Opened
<1>6. ClockOK'
  BY <1>3 DEF ClockInv, ClockOK, Opened
<1>7. AgeFollowsCheck'
  BY <1>2, <1>5 DEF AgeFollowsCheck, Opened
<1> QED
  BY <1>6, <1>7 DEF ClockInv

LEMMA KeptStep ==
  ASSUME ClockInv, Kept, UNCHANGED event_sampling_interval_us_
  PROVE  ClockInv'
BY DEF ClockInv, ClockOK, AgeFollowsCheck, WindowAge, Kept

LEMMA ClosedStep ==
  ASSUME ClockInv, Closed, UNCHANGED event_sampling_interval_us_
  PROVE  ClockInv'
<1>1. 0 \in 0 .. MaxGap
  BY ParameterFacts
<1> QED
  BY <1>1 DEF ClockInv, ClockOK, AgeFollowsCheck, Closed

LEMMA CheckedStep ==
  ASSUME ClockInv, Checked, UNCHANGED event_sampling_interval_us_
  PROVE  ClockInv'
<1>1. 0 \in 0 .. MaxGap
  BY ParameterFacts
<1>2. ClockOK'
  BY <1>1 DEF ClockInv, ClockOK, Checked
<1>3. ASSUME NEW age \in Int, NEW i \in Intervals, ~(age >= i) PROVE age < i + 0
  BY <1>3, ParameterFacts
<1>4. WindowAge \in Int
  BY ParameterFacts DEF ClockInv, ClockOK, WindowAge, Clock
<1>5. sampling_window_active_ =>
        /\ event_sampling_interval_us_ # 0
        /\ ~(WindowAge >= event_sampling_interval_us_)
  BY DEF ClockInv, AgeFollowsCheck, Checked, WindowElapsed, WindowAge
<1>6. sampling_window_active_ =>
        event_sampling_interval_us_ # 0 /\ WindowAge < event_sampling_interval_us_ + 0
  BY <1>3, <1>4, <1>5 DEF ClockInv, ClockOK
<1>7. WindowAge' = WindowAge
  BY DEF Checked, WindowAge
<1> QED
  BY <1>2, <1>6, <1>7 DEF ClockInv, AgeFollowsCheck, Checked

LEMMA UpdateStep ==
  ASSUME ClockInv, UpdateSamplingWindow, UNCHANGED <<event_sampling_interval_us_, now>>
  PROVE  ClockInv'
<1>1. Checked \/ Closed \/ Opened
  BY DEF UpdateSamplingWindow, WindowElapsed, Checked, Closed, Opened, windowVars
<1> QED
  BY <1>1, CheckedStep, ClosedStep, OpenedStep

LEMMA TickStep ==
  ASSUME ClockInv, Tick
  PROVE  ClockInv'
<1>1. /\ now \in Clock /\ sampling_window_started_us_ \in Clock
      /\ since_check \in 0 .. MaxGap /\ event_sampling_interval_us_ \in Intervals
  BY DEF ClockInv, ClockOK
<1>2. sampling_window_active_ /\ since_check < MaxGap /\ event_sampling_interval_us_ # 0
  BY DEF Tick, ClockInv, AgeFollowsCheck
<1>3. WindowAge < event_sampling_interval_us_ + since_check
  BY <1>2 DEF ClockInv, AgeFollowsCheck
<1>4. WindowAge \in Int
  BY <1>1, ParameterFacts DEF WindowAge, Clock
<1>5. WindowAge + 1 < ClockModulus
  BY <1>1, <1>2, <1>3, <1>4, ParameterFacts
<1>6. WindowAge' = WindowAge + 1 /\ now' \in Clock
  BY <1>1, <1>5, AgeStep DEF WindowAge, Tick, windowVars
<1>7. /\ since_check' = since_check + 1
      /\ UNCHANGED <<event_sampling_interval_us_, sampling_window_started_us_,
                      sampling_window_active_>>
  BY DEF Tick, windowVars
<1>8. since_check + 1 \in 0 .. MaxGap
  BY <1>1, <1>2, ParameterFacts
<1>9. WindowAge + 1 < event_sampling_interval_us_ + (since_check + 1)
  BY <1>1, <1>3, <1>4, ParameterFacts
<1> QED
  BY <1>1, <1>2, <1>6, <1>7, <1>8, <1>9 DEF ClockInv, ClockOK, AgeFollowsCheck

LEMMA ClockStep ==
  ASSUME ClockInv, [Next]_vars
  PROVE  ClockInv'
<1>1. CASE \E report \in Reports : Notify(report)
  BY <1>1, KeptStep DEF Notify, Kept, windowVars, clockVars
<1>2. CASE BeginLoop \/ TakeReport \/ EndLoop
  BY <1>2, UpdateStep DEF BeginLoop, TakeReport, EndLoop
<1>3. CASE PassThrough
  <2>1. Closed
    BY <1>3 DEF PassThrough, Closed, clockVars
  <2> QED
    BY <1>3, <2>1, ClosedStep DEF PassThrough
<1>4. CASE EmitRun
  <2>1. Opened
    BY <1>4 DEF EmitRun, Opened
  <2> QED
    BY <1>4, <2>1, OpenedStep DEF EmitRun
<1>5. CASE AccumulateEvent
  <2>1. Kept \/ Opened
    BY <1>5 DEF AccumulateEvent, Kept, Opened
  <2> QED
    BY <1>5, <2>1, KeptStep, OpenedStep DEF AccumulateEvent
<1>6. CASE FinishReport
  BY <1>6, KeptStep DEF FinishReport, Kept, windowVars, clockVars
<1>7. CASE Connect \/ Disconnect
  <2>1. Closed
    BY <1>7 DEF Connect, Disconnect, ResetPipeline, Closed, clockVars
  <2> QED
    BY <1>7, <2>1, ClosedStep DEF Connect, Disconnect
<1>8. CASE Tick
  BY <1>8, TickStep
<1>9. CASE UNCHANGED vars
  BY <1>9, KeptStep DEF vars, Kept, windowVars, clockVars
<1> QED
  BY <1>1, <1>2, <1>3, <1>4, <1>5, <1>6, <1>7, <1>8, <1>9 DEF Next, ProcessValue

\* No value waits in the coalescing buffer longer than the interval and one gap
\* between two looks at the window, whatever micros() reads when it opens.
THEOREM BufferIsFresh == Spec => []BufferedValuesAreFresh
<1>1. Init => ClockInv /\ WindowCoversBuffer
  <2>1. 0 \in Clock /\ 0 \in 0 .. MaxGap
    BY ParameterFacts DEF Clock
  <2> QED
    BY <2>1 DEF Init, ClockInv, ClockOK, AgeFollowsCheck, WindowCoversBuffer
<1>2. ClockInv /\ [Next]_vars => ClockInv'
  BY ClockStep
<1>3. ClockInv /\ WindowCoversBuffer => BufferedValuesAreFresh
  <2> SUFFICES ASSUME ClockInv, WindowCoversBuffer, sampled_events_ # <<>>
               PROVE  WindowAge < event_sampling_interval_us_ + MaxGap
    BY DEF BufferedValuesAreFresh, WindowAge
  <2>1. WindowAge < event_sampling_interval_us_ + since_check
    BY DEF ClockInv, AgeFollowsCheck, WindowCoversBuffer
  <2>2. /\ now \in Clock /\ sampling_window_started_us_ \in Clock
        /\ since_check \in 0 .. MaxGap /\ event_sampling_interval_us_ \in Intervals
    BY DEF ClockInv, ClockOK
  <2>3. WindowAge \in Int
    BY <2>2, ParameterFacts DEF WindowAge, Clock
  <2> QED
    BY <2>1, <2>2, <2>3, ParameterFacts
<1> QED
  BY <1>1, <1>2, <1>3, BufferIsCovered, PTL DEF Spec

-----------------------------------------------------------------------------
(* The order of events.  Most steps move an event along the sequence of      *)
(* events that are emitted, buffered and decoded, and so leave the sequence  *)
(* as it is.                                                                 *)

Spans ==
  {e \in [field : Fields \cup {Raw}, value : Int, from : Nat, to : Nat] : e.from <= e.to}

Entries == [report : Reports, seq_id : Nat]

\* What EmissionOrder says of two events, one before the other.
InOrder(a, b) == a.from <= b.from /\ (~Mergeable(b.field) => a.to <= b.from)

Ordered(s) == \A i, j \in DOMAIN s : i < j => InOrder(s[i], s[j])

Before(s, t) == \A i \in DOMAIN s, j \in DOMAIN t : InOrder(s[i], t[j])

Below(s, n) == \A i \in DOMAIN s : s[i].to < n

LEMMA Places ==
  ASSUME NEW s \in Seq(Spans), NEW t \in Seq(Spans)
  PROVE  /\ s \o t \in Seq(Spans)
         /\ Len(s) \in Nat /\ DOMAIN s = 1 .. Len(s) /\ DOMAIN t = 1 .. Len(t)
         /\ \A i \in DOMAIN s : i \in DOMAIN (s \o t) /\ (s \o t)[i] = s[i]
         /\ \A j \in DOMAIN t :
              Len(s) + j \in DOMAIN (s \o t) /\ (s \o t)[Len(s) + j] = t[j]
         /\ \A k \in DOMAIN (s \o t) :
              k \in DOMAIN s \/ \E j \in DOMAIN t : k = Len(s) + j
<1>1. /\ Len(s) \in Nat /\ Len(t) \in Nat /\ DOMAIN s = 1 .. Len(s) /\ DOMAIN t = 1 .. Len(t)
      /\ s \o t \in Seq(Spans) /\ DOMAIN (s \o t) = 1 .. Len(s) + Len(t)
      /\ \A i \in 1 .. Len(s) + Len(t) :
           (s \o t)[i] = IF i <= Len(s) THEN s[i] ELSE t[i - Len(s)]
  BY ConcatProperties, LenProperties
<1>2. \A i \in DOMAIN s : i \in DOMAIN (s \o t) /\ (s \o t)[i] = s[i]
  BY <1>1
<1>3. ASSUME NEW j \in DOMAIN t
      PROVE  Len(s) + j \in DOMAIN (s \o t) /\ (s \o t)[Len(s) + j] = t[j]
  <2>1. /\ Len(s) + j \in 1 .. Len(s) + Len(t) /\ ~(Len(s) + j <= Len(s))
        /\ (Len(s) + j) - Len(s) = j
    BY <1>1
  <2> QED
    BY <1>1, <2>1
<1>4. ASSUME NEW k \in DOMAIN (s \o t)
      PROVE  k \in DOMAIN s \/ \E j \in DOMAIN t : k = Len(s) + j
  <2>1. CASE k <= Len(s)
    BY <1>1, <2>1
  <2>2. CASE ~(k <= Len(s))
    <3>1. k - Len(s) \in DOMAIN t /\ k = Len(s) + (k - Len(s))
      BY <1>1, <2>2
    <3> QED
      BY <3>1
  <2> QED
    BY <2>1, <2>2
<1> QED
  BY <1>1, <1>2, <1>3, <1>4

LEMMA OrderedConcat ==
  ASSUME NEW s \in Seq(Spans), NEW t \in Seq(Spans)
  PROVE  Ordered(s \o t) <=> Ordered(s) /\ Ordered(t) /\ Before(s, t)
<1>1. ASSUME Ordered(s \o t) PROVE Ordered(s) /\ Ordered(t) /\ Before(s, t)
  <2>1. Ordered(s)
    BY <1>1, Places DEF Ordered
  <2>2. Ordered(t)
    <3> SUFFICES ASSUME NEW i \in DOMAIN t, NEW j \in DOMAIN t, i < j PROVE InOrder(t[i], t[j])
      BY DEF Ordered
    <3>1. Len(s) + i < Len(s) + j
      BY Places
    <3> QED
      BY <1>1, <3>1, Places DEF Ordered
  <2>3. Before(s, t)
    <3> SUFFICES ASSUME NEW i \in DOMAIN s, NEW j \in DOMAIN t PROVE InOrder(s[i], t[j])
      BY DEF Before
    <3>1. i < Len(s) + j
      BY Places
    <3> QED
      BY <1>1, <3>1, Places DEF Ordered
  <2> QED
    BY <2>1, <2>2, <2>3
<1>2. ASSUME Ordered(s), Ordered(t), Before(s, t) PROVE Ordered(s \o t)
  <2> SUFFICES ASSUME NEW i \in DOMAIN (s \o t), NEW j \in DOMAIN (s \o t), i < j
               PROVE  InOrder((s \o t)[i], (s \o t)[j])
    BY DEF Ordered
  <2>1. CASE i \in DOMAIN s /\ j \in DOMAIN s
    BY <1>2, <2>1, Places DEF Ordered
  <2>2. CASE i \in DOMAIN s /\ j \notin DOMAIN s
    BY <1>2, <2>2, Places DEF Before
  <2>3. CASE i \notin DOMAIN s
    <3>1. PICK k \in DOMAIN t : i = Len(s) + k
      BY <2>3, Places
    <3>2. j \notin DOMAIN s
      BY <3>1, Places
    <3>3. PICK l \in DOMAIN t : j = Len(s) + l
      BY <3>2, Places
    <3>4. k < l
      BY <3>1, <3>3, Places
    <3> QED
      BY <1>2, <3>1, <3>3, <3>4, Places DEF Ordered
  <2> QED
    BY <2>1, <2>2, <2>3
<1> QED
  BY <1>1, <1>2

LEMMA BeforeConcat ==
  ASSUME NEW s \in Seq(Spans), NEW t \in Seq(Spans), NEW u \in Seq(Spans)
  PROVE  /\ Before(s \o t, u) <=> Before(s, u) /\ Before(t, u)
         /\ Before(u, s \o t) <=> Before(u, s) /\ Before(u, t)
<1>1. ASSUME Before(s \o t, u) PROVE Before(s, u) /\ Before(t, u)
  <2>1. ASSUME NEW i \in DOMAIN s, NEW j \in DOMAIN u PROVE InOrder(s[i], u[j])
    <3>1. i \in DOMAIN (s \o t) /\ (s \o t)[i] = s[i]
      BY Places
    <3> QED
      BY <1>1, <3>1 DEF Before
  <2>2. ASSUME NEW i \in DOMAIN t, NEW j \in DOMAIN u PROVE InOrder(t[i], u[j])
    <3>1. Len(s) + i \in DOMAIN (s \o t) /\ (s \o t)[Len(s) + i] = t[i]
      BY Places
    <3> QED
      BY <1>1, <3>1 DEF Before
  <2> QED
    BY <2>1, <2>2 DEF Before
<1>2. Before(s, u) /\ Before(t, u) => Before(s \o t, u)
  <2> SUFFICES ASSUME Before(s, u), Before(t, u), NEW k \in DOMAIN (s \o t), NEW j \in DOMAIN u
               PROVE  InOrder((s \o t)[k], u[j])
    BY DEF Before
  <2>1. CASE k \in DOMAIN s
    <3>1. (s \o t)[k] = s[k]
      BY <2>1, Places
    <3> QED
      BY <2>1, <3>1 DEF Before
  <2>2. CASE k \notin DOMAIN s
    <3>1. PICK l \in DOMAIN t : k = Len(s) + l
      BY <2>2, Places
    <3>2. (s \o t)[k] = t[l]
      BY <3>1, Places
    <3> QED
      BY <3>2 DEF Before
  <2> QED
    BY <2>1, <2>2
<1>3. ASSUME Before(u, s \o t) PROVE Before(u, s) /\ Before(u, t)
  <2>1. ASSUME NEW i \in DOMAIN s, NEW j \in DOMAIN u PROVE InOrder(u[j], s[i])
    <3>1. i \in DOMAIN (s \o t) /\ (s \o t)[i] = s[i]
      BY Places
    <3> QED
      BY <1>3, <3>1 DEF Before
  <2>2. ASSUME NEW i \in DOMAIN t, NEW j \in DOMAIN u PROVE InOrder(u[j], t[i])
    <3>1. Len(s) + i \in DOMAIN (s \o t) /\ (s \o t)[Len(s) + i] = t[i]
      BY Places
    <3> QED
      BY <1>3, <3>1 DEF Before
  <2> QED
    BY <2>1, <2>2 DEF Before
<1>4. Before(u, s) /\ Before(u, t) => Before(u, s \o t)
  <2> SUFFICES ASSUME Before(u, s), Before(u, t), NEW k \in DOMAIN (s \o t), NEW j \in DOMAIN u
               PROVE  InOrder(u[j], (s \o t)[k])
    BY DEF Before
  <2>1. CASE k \in DOMAIN s
    <3>1. (s \o t)[k] = s[k]
      BY <2>1, Places
    <3> QED
      BY <2>1, <3>1 DEF Before
  <2>2. CASE k \notin DOMAIN s
    <3>1. PICK l \in DOMAIN t : k = Len(s) + l
      BY <2>2, Places
    <3>2. (s \o t)[k] = t[l]
      BY <3>1, Places
    <3> QED
      BY <3>2 DEF Before
  <2> QED
    BY <2>1, <2>2
<1> QED
  BY <1>1, <1>2, <1>3, <1>4

LEMMA BelowConcat ==
  ASSUME NEW s \in Seq(Spans), NEW t \in Seq(Spans), NEW n
  PROVE  Below(s \o t, n) <=> Below(s, n) /\ Below(t, n)
<1>1. ASSUME Below(s \o t, n) PROVE Below(s, n) /\ Below(t, n)
  <2>1. ASSUME NEW i \in DOMAIN s PROVE s[i].to < n
    <3>1. i \in DOMAIN (s \o t) /\ (s \o t)[i] = s[i]
      BY Places
    <3> QED
      BY <1>1, <3>1 DEF Below
  <2>2. ASSUME NEW i \in DOMAIN t PROVE t[i].to < n
    <3>1. Len(s) + i \in DOMAIN (s \o t) /\ (s \o t)[Len(s) + i] = t[i]
      BY Places
    <3> QED
      BY <1>1, <3>1 DEF Below
  <2> QED
    BY <2>1, <2>2 DEF Below
<1>2. Below(s, n) /\ Below(t, n) => Below(s \o t, n)
  <2> SUFFICES ASSUME Below(s, n), Below(t, n), NEW k \in DOMAIN (s \o t)
               PROVE  (s \o t)[k].to < n
    BY DEF Below
  <2>1. CASE k \in DOMAIN s
    <3>1. (s \o t)[k] = s[k]
      BY <2>1, Places
    <3> QED
      BY <2>1, <3>1 DEF Below
  <2>2. CASE k \notin DOMAIN s
    <3>1. PICK l \in DOMAIN t : k = Len(s) + l
      BY <2>2, Places
    <3>2. (s \o t)[k] = t[l]
      BY <3>1, Places
    <3> QED
      BY <3>2 DEF Below
  <2> QED
    BY <2>1, <2>2
<1> QED
  BY <1>1, <1>2

LEMMA HeadAndTail ==
  ASSUME NEW s \in Seq(Spans), s # <<>>
  PROVE  /\ Head(s) \in Spans /\ Tail(s) \in Seq(Spans) /\ <<Head(s)>> \in Seq(Spans)
         /\ s = <<Head(s)>> \o Tail(s)
         /\ 1 \in DOMAIN s /\ Head(s) = s[1]
         /\ \A i \in DOMAIN Tail(s) : i + 1 \in DOMAIN s /\ Tail(s)[i] = s[i + 1]
<1>1. /\ Len(s) \in Nat /\ Len(s) # 0 /\ DOMAIN s = 1 .. Len(s) /\ Head(s) = s[1]
      /\ Head(s) \in Spans /\ Tail(s) \in Seq(Spans) /\ DOMAIN Tail(s) = 1 .. Len(s) - 1
      /\ \A i \in 1 .. Len(s) - 1 : Tail(s)[i] = s[i + 1]
  BY HeadTailProperties, LenProperties, EmptySeq
<1>2. SubSeq(s, 1, Len(s)) = <<s[1]>> \o SubSeq(s, 1 + 1, Len(s))
  <2>1. 1 \in 1 .. Len(s) /\ Len(s) \in 1 .. Len(s)
    BY <1>1
  <2> QED
    BY <2>1, SubSeqRecursiveFirst
<1>3. s = <<Head(s)>> \o Tail(s)
  BY <1>1, <1>2, SubSeqFull, TailIsSubSeq
<1> QED
  BY <1>1, <1>3

LEMMA LeastElement ==
  ASSUME NEW T \in SUBSET Nat, T # {}
  PROVE  \E n \in T : \A k \in 0 .. n - 1 : k \notin T
<1> DEFINE less == {ss \in Nat \X Nat : ss[1] < ss[2]}
<1>1. IsWellFoundedOn(less, Nat)
  BY NatLessThanWellFounded DEF OpToRel
<1>2. \E n \in T : \A k \in T : <<k, n>> \notin less
  <2> HIDE DEF less
  <2> QED
    BY <1>1, WFMin
<1>3. PICK n \in T : \A k \in T : <<k, n>> \notin less
  BY <1>2
<1>4. ASSUME NEW k \in 0 .. n - 1, k \in T PROVE FALSE
  <2>1. k < n /\ k \in Nat /\ n \in Nat
    BY <1>4
  <2>2. <<k, n>> \in less
    BY <2>1
  <2> QED
    BY <1>3, <1>4, <2>2
<1> QED
  BY <1>4

LEMMA RunLengthFacts ==
  ASSUME values \in Seq(Spans)
  PROVE  /\ RunLength \in 0 .. Len(values)
         /\ \A i \in 1 .. RunLength : Mergeable(values[i].field)
<1> DEFINE N == Len(values)
           barriers == {n \in 0 .. N : n < N => ~Mergeable(values[n + 1].field)}
           run(n) == /\ \A i \in 1 .. n : Mergeable(values[i].field)
                     /\ n < N => ~Mergeable(values[n + 1].field)
<1>1. N \in Nat
  BY LenProperties
<1>2. barriers \in SUBSET Nat /\ N \in barriers
  BY <1>1
<1>3. PICK n \in barriers : \A k \in 0 .. n - 1 : k \notin barriers
  <2> HIDE DEF barriers, N
  <2> QED
    BY <1>2, LeastElement
<1>4. n \in 0 .. N /\ (n < N => ~Mergeable(values[n + 1].field))
  BY <1>3
<1>5. ASSUME NEW i \in 1 .. n PROVE Mergeable(values[i].field)
  <2>1. /\ i - 1 \in 0 .. n - 1 /\ i - 1 \in 0 .. N /\ (i - 1) + 1 = i
    BY <1>1, <1>4
  <2>2. i - 1 \notin barriers
    BY <1>3, <2>1
  <2> QED
    BY <2>1, <2>2
<1>6. \E m \in 0 .. N : run(m)
  BY <1>4, <1>5
<1>7. RunLength = CHOOSE m \in 0 .. N : run(m)
  BY DEF RunLength
<1>8. RunLength \in 0 .. N /\ run(RunLength)
  <2> HIDE DEF run, N
  <2> QED
    BY <1>6, <1>7
<1> QED
  BY <1>8

LEMMA DroppedType ==
  ASSUME NEW size, Len(pending_reports_) \in Nat
  PROVE  /\ Dropped(size) \in 0 .. Len(pending_reports_)
         /\ \/ Dropped(size) = Len(pending_reports_)
            \/ Fits(Len(pending_reports_) - Dropped(size),
                    pending_report_bytes_
                      - TotalSize(SubSeq(pending_reports_, 1, Dropped(size))), size)
<1> DEFINE N == Len(pending_reports_)
           enough(k) == \/ k = N
                        \/ Fits(N - k,
                                pending_report_bytes_ - TotalSize(SubSeq(pending_reports_, 1, k)),
                                size)
           candidates == {k \in 0 .. N : enough(k)}
           least(d) == enough(d) /\ \A k \in 0 .. d - 1 : ~enough(k)
<1>1. candidates \in SUBSET Nat /\ N \in candidates
  BY DEF Fits
<1>2. PICK d \in candidates : \A k \in 0 .. d - 1 : k \notin candidates
  <2> HIDE DEF candidates, N
  <2> QED
    BY <1>1, LeastElement
<1>3. \E m \in 0 .. N : least(m)
  <2>1. d \in 0 .. N /\ enough(d)
    BY <1>2
  <2>2. ASSUME NEW k \in 0 .. d - 1 PROVE ~enough(k)
    <3>1. k \in 0 .. N
      BY <2>1
    <3> HIDE DEF enough
    <3> QED
      BY <1>2, <3>1
  <2> HIDE DEF enough
  <2> QED
    BY <2>1, <2>2
<1>4. Dropped(size) = CHOOSE m \in 0 .. N : least(m)
  BY DEF Dropped
<1> HIDE DEF least, N
<1>5. Dropped(size) \in 0 .. N /\ least(Dropped(size))
  BY <1>3, <1>4
<1> QED
  BY <1>5 DEF N, least

LEMMA ChangedPlaces ==
  ASSUME NEW report
  PROVE  LET places == {i \in DOMAIN FieldOrder : Changed(report, FieldOrder[i])}
         IN  IsFiniteSet(places) /\ Cardinality(places) \in Nat
<1> DEFINE places == {i \in DOMAIN FieldOrder : Changed(report, FieldOrder[i])}
<1>1. FieldOrder \in Seq(Fields)
  BY PipelineAssumption
<1>2. DOMAIN FieldOrder = 1 .. Len(FieldOrder) /\ Len(FieldOrder) \in Nat
  BY <1>1, LenProperties
<1>3. IsFiniteSet(DOMAIN FieldOrder)
  BY <1>2, FS_Interval
<1>4. IsFiniteSet(places)
  BY <1>3, FS_Subset
<1> HIDE DEF places
<1>5. Cardinality(places) \in Nat
  BY <1>4, FS_CardinalityType
<1> QED
  BY <1>4, <1>5 DEF places

\* A decoded value carries the number of its report, first and last.
LEMMA DecodingType ==
  ASSUME NEW report \in Reports, NEW seq \in Nat, NEW v \in Decodings(report, seq)
  PROVE  /\ v \in Seq(Spans)
         /\ \A i \in DOMAIN v : v[i].from = seq /\ v[i].to = seq
<1>1. report \in ReportType
  BY PipelineAssumption
<1>2. CASE report.status = "SHORT"
  <2>1. v = <<>>
    BY <1>2 DEF Decodings
  <2> QED
    BY <2>1
<1>3. CASE report.status = "UNDECODABLE"
  <2>1. v = <<Event(Raw, 0, seq)>>
    BY <1>3 DEF Decodings
  <2>2. Event(Raw, 0, seq) \in Spans
    BY DEF Event, Spans
  <2> QED
    BY <2>1, <2>2 DEF Event
<1>4. CASE report.status = "COMPLETE"
  <2> DEFINE places == {i \in DOMAIN FieldOrder : Changed(report, FieldOrder[i])}
             N == Cardinality(places)
             event(i) == Event(FieldOrder[i], report.input[FieldOrder[i]], seq)
  <2>1. PICK changed \in Ascending(places) : v = [k \in DOMAIN changed |-> event(changed[k])]
    BY <1>4 DEF Decodings
  <2>2. N \in Nat
    BY ChangedPlaces
  <2>3. changed \in [1 .. N -> places]
    BY <2>1 DEF Ascending
  <2>4. ASSUME NEW i \in places
        PROVE  event(i) \in Spans /\ event(i).from = seq /\ event(i).to = seq
    <3>1. FieldOrder[i] \in Fields
      BY DEF Fields
    <3>2. report.input[FieldOrder[i]] \in Int
      BY <1>1, <3>1 DEF Changed, Says, ReportType
    <3> QED
      BY <3>1, <3>2 DEF Event, Spans
  <2> HIDE DEF places, N, event
  <2>5. v = [k \in 1 .. N |-> event(changed[k])]
    BY <2>1, <2>3
  <2>6. v \in [1 .. N -> Spans]
    BY <2>3, <2>4, <2>5
  <2>7. v \in Seq(Spans)
    BY <2>2, <2>6, SeqDef
  <2>8. \A k \in DOMAIN v : v[k].from = seq /\ v[k].to = seq
    BY <2>3, <2>4, <2>5
  <2> QED
    BY <2>7, <2>8
<1> QED
  BY <1>1, <1>2, <1>3, <1>4 DEF ReportType

\* An event of the field that is buffered takes its place and keeps its beginning.
LEMMA CoalescedType ==
  ASSUME NEW a \in Spans, NEW e \in Spans, e.field = a.field, a.from <= e.to
  PROVE  /\ Coalesced(a, e) \in Spans
         /\ Coalesced(a, e).field = a.field
         /\ Coalesced(a, e).from = a.from /\ Coalesced(a, e).to = e.to
<1> DEFINE sum == IF a.field \in SumFields THEN SaturatingAdd(a.value, e.value) ELSE e.value
<1>1. sum \in Int
  BY BufferAssumption DEF Spans, SaturatingAdd
<1>2. Coalesced(a, e) = [e EXCEPT !.value = sum, !.from = a.from]
  BY DEF Coalesced
<1> HIDE DEF sum
<1>3. /\ e.field \in Fields \cup {Raw} /\ e.to \in Nat
      /\ a.from \in Nat
  BY DEF Spans
<1>4. Coalesced(a, e) = [field |-> e.field, value |-> sum, from |-> a.from, to |-> e.to]
  BY <1>2 DEF Spans
<1> QED
  BY <1>1, <1>3, <1>4 DEF Spans

-----------------------------------------------------------------------------
(* The inductive invariant. *)

SpanTypes ==
  /\ emitted \in Seq(Spans) /\ sampled_events_ \in Seq(Spans) /\ values \in Seq(Spans)
  /\ pending_reports_ \in Seq(Entries) /\ next_seq_id_ \in Nat

\* Only mergeable events are buffered, and what is decoded is of one report.
StageInv ==
  /\ values # <<>> => at = "VALUES"
  /\ \A i \in DOMAIN sampled_events_ : Mergeable(sampled_events_[i].field)
  /\ \A i \in DOMAIN values : values[i].from = values[i].to

EventOrder == Ordered(Outgoing) /\ Below(Outgoing, next_seq_id_)

FifoOrder ==
  /\ \A i, j \in DOMAIN pending_reports_ :
       i < j => pending_reports_[i].seq_id < pending_reports_[j].seq_id
  /\ \A j \in DOMAIN pending_reports_ :
       pending_reports_[j].seq_id < next_seq_id_ /\ Below(Outgoing, pending_reports_[j].seq_id)

OrderInv == SpanTypes /\ StageInv /\ EventOrder /\ FifoOrder

\* A step that moves events along leaves their order as it is.
LEMMA MovedAlong ==
  ASSUME OrderInv, Outgoing' = Outgoing, UNCHANGED <<pending_reports_, next_seq_id_>>,
         emitted' \in Seq(Spans), sampled_events_' \in Seq(Spans), values' \in Seq(Spans),
         StageInv'
  PROVE  OrderInv'
<1>1. SpanTypes'
  BY DEF OrderInv, SpanTypes
<1>2. EventOrder' /\ FifoOrder'
  BY DEF OrderInv, EventOrder, FifoOrder
<1> QED
  BY <1>1, <1>2 DEF OrderInv

LEMMA WindowMoves ==
  ASSUME OrderInv, UpdateSamplingWindow
  PROVE  /\ emitted' \in Seq(Spans) /\ sampled_events_' \in Seq(Spans)
         /\ emitted' \o sampled_events_' = emitted \o sampled_events_
         /\ \A i \in DOMAIN sampled_events_' : Mergeable(sampled_events_'[i].field)
<1> USE DEF OrderInv, SpanTypes, StageInv
<1>1. CASE UNCHANGED <<sampled_events_, emitted>>
  BY <1>1
<1>2. CASE emitted' = emitted \o sampled_events_ /\ sampled_events_' = <<>>
  <2>1. emitted \o sampled_events_ \in Seq(Spans)
    BY ConcatProperties
  <2>2. <<>> \in Seq(Spans) /\ (emitted \o sampled_events_) \o <<>> = emitted \o sampled_events_
    BY <2>1, ConcatEmptySeq, EmptySeq
  <2> QED
    BY <1>2, <2>1, <2>2
<1> QED
  BY <1>1, <1>2 DEF UpdateSamplingWindow, windowVars

LEMMA IdleLoopOrder ==
  ASSUME OrderInv, BeginLoop \/ EndLoop
  PROVE  OrderInv' /\ Outgoing' = Outgoing
<1>1. /\ values = <<>> /\ values' = values
      /\ UNCHANGED <<pending_reports_, next_seq_id_>> /\ UpdateSamplingWindow
  BY DEF BeginLoop, EndLoop, OrderInv, StageInv, fifoVars, inputVars
<1>2. Outgoing' = Outgoing
  BY <1>1, WindowMoves DEF Outgoing
<1>3. StageInv'
  BY <1>1, WindowMoves DEF StageInv
<1> QED
  BY <1>1, <1>2, <1>3, WindowMoves, MovedAlong DEF OrderInv, SpanTypes

\* The values of a report come after everything that is out or buffered, and before
\* every report still in the FIFO.
LEMMA TakeReportOrder ==
  ASSUME OrderInv, TakeReport
  PROVE  OrderInv' /\ Outgoing' = Outgoing \o values'
<1> DEFINE first == Head(pending_reports_)
           sent == emitted \o sampled_events_
<1>1. /\ pending_reports_ # <<>> /\ pending_reports_' = Tail(pending_reports_)
      /\ values' \in Decodings(first.report, first.seq_id)
      /\ values = <<>> /\ at' = "VALUES" /\ next_seq_id_' = next_seq_id_
      /\ UpdateSamplingWindow
  BY DEF TakeReport, OrderInv, StageInv, inputVars
<1>2. pending_reports_ \in Seq(Entries) /\ next_seq_id_ \in Nat
  BY DEF OrderInv, SpanTypes
<1>3. /\ first \in Entries /\ Tail(pending_reports_) \in Seq(Entries)
      /\ 1 \in DOMAIN pending_reports_ /\ first = pending_reports_[1]
      /\ \A i \in DOMAIN pending_reports_' :
           /\ i + 1 \in DOMAIN pending_reports_ /\ 1 < i + 1 /\ i \in Nat
           /\ pending_reports_'[i] = pending_reports_[i + 1]
  <2>1. /\ Len(pending_reports_) \in Nat /\ Len(pending_reports_) # 0
        /\ DOMAIN pending_reports_ = 1 .. Len(pending_reports_)
        /\ first = pending_reports_[1] /\ first \in Entries
        /\ Tail(pending_reports_) \in Seq(Entries)
        /\ DOMAIN Tail(pending_reports_) = 1 .. Len(pending_reports_) - 1
        /\ \A i \in 1 .. Len(pending_reports_) - 1 :
             Tail(pending_reports_)[i] = pending_reports_[i + 1]
    BY <1>1, <1>2, HeadTailProperties, LenProperties, EmptySeq
  <2> QED
    BY <1>1, <2>1
<1>4. first.report \in Reports /\ first.seq_id \in Nat
  BY <1>3 DEF Entries
<1>5. /\ values' \in Seq(Spans)
      /\ \A i \in DOMAIN values' : values'[i].from = first.seq_id /\ values'[i].to = first.seq_id
  BY <1>1, <1>4, DecodingType
<1>6. sent \in Seq(Spans) /\ Outgoing = sent /\ Outgoing' = sent \o values'
  <2>1. sent \in Seq(Spans)
    BY ConcatProperties DEF OrderInv, SpanTypes
  <2>2. sent \o values = sent
    BY <1>1, <2>1, ConcatEmptySeq
  <2>3. Outgoing' = sent \o values'
    BY <1>1, WindowMoves DEF Outgoing
  <2> QED
    BY <2>1, <2>2, <2>3 DEF Outgoing
<1> HIDE DEF sent, first
<1>7. Ordered(sent) /\ Below(sent, first.seq_id) /\ first.seq_id < next_seq_id_
  BY <1>3, <1>6 DEF OrderInv, EventOrder, FifoOrder
<1>8. Ordered(values')
  BY <1>4, <1>5 DEF Ordered, InOrder
<1>9. Before(sent, values')
  <2> SUFFICES ASSUME NEW i \in DOMAIN sent, NEW j \in DOMAIN values'
               PROVE  InOrder(sent[i], values'[j])
    BY DEF Before
  <2>1. sent[i] \in Spans
    BY <1>6, ElementOfSeq, LenProperties
  <2>2. sent[i].from <= sent[i].to /\ sent[i].from \in Nat /\ sent[i].to \in Nat
    BY <2>1 DEF Spans
  <2>3. sent[i].to < first.seq_id
    BY <1>7 DEF Below
  <2>4. sent[i].from <= first.seq_id /\ sent[i].to <= first.seq_id
    BY <1>4, <2>2, <2>3
  <2> QED
    BY <1>5, <2>4 DEF InOrder
<1>10. Ordered(Outgoing')
  BY <1>5, <1>6, <1>7, <1>8, <1>9, OrderedConcat
<1>11. ASSUME NEW n \in Nat, first.seq_id < n, Below(sent, n) PROVE Below(Outgoing', n)
  <2>1. Below(values', n)
    BY <1>5, <1>11 DEF Below
  <2> QED
    BY <1>5, <1>6, <1>11, <2>1, BelowConcat
<1>12. EventOrder'
  <2>1. Below(sent, next_seq_id_)
    BY <1>6 DEF OrderInv, EventOrder
  <2>2. Below(Outgoing', next_seq_id_)
    BY <1>2, <1>7, <1>11, <2>1
  <2> QED
    BY <1>1, <1>10, <2>2 DEF EventOrder
<1>13. FifoOrder'
  <2>1. ASSUME NEW i \in DOMAIN pending_reports_', NEW j \in DOMAIN pending_reports_', i < j
        PROVE  pending_reports_'[i].seq_id < pending_reports_'[j].seq_id
    <3>1. i + 1 < j + 1
      BY <1>3, <2>1
    <3> QED
      BY <1>3, <3>1 DEF OrderInv, FifoOrder
  <2>2. ASSUME NEW j \in DOMAIN pending_reports_'
        PROVE  /\ pending_reports_'[j].seq_id < next_seq_id_
               /\ Below(Outgoing', pending_reports_'[j].seq_id)
    <3>1. /\ first.seq_id < pending_reports_[j + 1].seq_id
          /\ pending_reports_[j + 1].seq_id < next_seq_id_
          /\ Below(sent, pending_reports_[j + 1].seq_id)
      BY <1>3, <1>6 DEF OrderInv, FifoOrder
    <3>2. pending_reports_[j + 1].seq_id \in Nat
      <4>1. pending_reports_[j + 1] \in Entries
        BY <1>2, <1>3, ElementOfSeq, LenProperties
      <4> QED
        BY <4>1 DEF Entries
    <3> QED
      BY <1>3, <1>11, <3>1, <3>2
  <2> QED
    BY <1>1, <2>1, <2>2 DEF FifoOrder
<1>14. StageInv'
  BY <1>1, <1>5, WindowMoves DEF StageInv
<1>15. SpanTypes'
  BY <1>1, <1>2, <1>3, <1>5, WindowMoves DEF SpanTypes
<1> QED
  BY <1>6, <1>12, <1>13, <1>14, <1>15 DEF OrderInv

LEMMA PassThroughOrder ==
  ASSUME OrderInv, PassThrough
  PROVE  OrderInv' /\ Outgoing' = Outgoing
<1> DEFINE sent == emitted \o sampled_events_
           e == Head(values)
<1>1. /\ values # <<>> /\ values' = Tail(values) /\ at' = at /\ at = "VALUES"
      /\ emitted' = Append(sent, e) /\ sampled_events_' = <<>>
      /\ UNCHANGED <<pending_reports_, next_seq_id_>>
  BY DEF PassThrough, fifoVars, inputVars
<1>2. sent \in Seq(Spans) /\ values \in Seq(Spans) /\ Outgoing = sent \o values
  BY ConcatProperties DEF OrderInv, SpanTypes, Outgoing
<1>3. /\ e \in Spans /\ Tail(values) \in Seq(Spans) /\ <<e>> \in Seq(Spans)
      /\ values = <<e>> \o Tail(values)
      /\ \A i \in DOMAIN Tail(values) : i + 1 \in DOMAIN values /\ Tail(values)[i] = values[i + 1]
  BY <1>1, <1>2, HeadAndTail
<1> HIDE DEF sent, e
<1>4. Append(sent, e) \in Seq(Spans) /\ Append(sent, e) = sent \o <<e>>
  BY <1>2, <1>3, AppendProperties, AppendIsConcat
<1>5. Outgoing' = Outgoing
  <2>1. Outgoing' = (Append(sent, e) \o <<>>) \o Tail(values)
    BY <1>1 DEF Outgoing
  <2>2. Append(sent, e) \o <<>> = sent \o <<e>>
    BY <1>4, ConcatEmptySeq
  <2>3. (sent \o <<e>>) \o Tail(values) = sent \o (<<e>> \o Tail(values))
    BY <1>2, <1>3, ConcatAssociative
  <2> QED
    BY <1>2, <1>3, <2>1, <2>2, <2>3
<1>6. StageInv'
  <2>1. \A i \in DOMAIN Tail(values) : Tail(values)[i].from = Tail(values)[i].to
    BY <1>3 DEF OrderInv, StageInv
  <2> QED
    BY <1>1, <2>1 DEF StageInv
<1> QED
  BY <1>1, <1>3, <1>4, <1>5, <1>6, EmptySeq, MovedAlong

\* A run is emitted directly only when nothing is buffered before it.
LEMMA EmitRunOrder ==
  ASSUME OrderInv, WindowCoversBuffer, EmitRun
  PROVE  OrderInv' /\ Outgoing' = Outgoing
<1> DEFINE n == RunLength
           run == SubSeq(values, 1, n)
           rest == SubSeq(values, n + 1, Len(values))
<1>1. /\ sampled_events_ = <<>> /\ sampled_events_' = <<>> /\ at' = at /\ at = "VALUES"
      /\ emitted' = emitted \o run /\ values' = rest
      /\ UNCHANGED <<pending_reports_, next_seq_id_>>
  BY DEF EmitRun, WindowCoversBuffer, fifoVars, inputVars
<1>2. emitted \in Seq(Spans) /\ values \in Seq(Spans)
  BY DEF OrderInv, SpanTypes
<1>3. /\ Len(values) \in Nat /\ n \in 0 .. Len(values) /\ DOMAIN values = 1 .. Len(values)
      /\ \A i \in 1 .. Len(values) : values[i] \in Spans
  BY <1>2, RunLengthFacts, LenProperties, ElementOfSeq
<1>4. run \in Seq(Spans)
  <2>1. 1 \in Int /\ n \in Int /\ \A i \in 1 .. n : values[i] \in Spans
    BY <1>3
  <2> HIDE DEF n
  <2> QED
    BY <2>1, SubSeqProperties
<1>5. /\ rest \in Seq(Spans)
      /\ \A i \in DOMAIN rest : n + i \in DOMAIN values /\ rest[i] = values[n + i]
  <2>1. /\ n + 1 \in Int /\ Len(values) \in Int
        /\ \A i \in n + 1 .. Len(values) : values[i] \in Spans
    BY <1>3
  <2> HIDE DEF n
  <2>2. /\ rest \in Seq(Spans)
        /\ Len(rest) = IF n + 1 <= Len(values) THEN Len(values) - (n + 1) + 1 ELSE 0
        /\ \A i \in 1 .. Len(values) - (n + 1) + 1 : rest[i] = values[(n + 1) + i - 1]
    BY <2>1, SubSeqProperties
  <2>3. DOMAIN rest = 1 .. Len(rest)
    BY <2>2, LenProperties
  <2>4. ASSUME NEW i \in DOMAIN rest
        PROVE  /\ i \in 1 .. Len(values) - (n + 1) + 1 /\ n + i \in DOMAIN values
               /\ (n + 1) + i - 1 = n + i
    <3> HIDE DEF rest
    <3>1. i \in 1 .. (IF n + 1 <= Len(values) THEN Len(values) - (n + 1) + 1 ELSE 0)
      BY <2>2, <2>3
    <3>2. n + 1 <= Len(values) /\ i \in 1 .. Len(values) - (n + 1) + 1
      BY <1>3, <3>1
    <3> QED
      BY <1>3, <3>2
  <2> QED
    BY <2>2, <2>4
<1>6. run \o rest = values
  <2>1. /\ 1 \in 1 .. Len(values) + 1 /\ n \in 1 - 1 .. Len(values)
        /\ Len(values) \in n .. Len(values)
    BY <1>3
  <2> HIDE DEF n
  <2>2. run \o rest = SubSeq(values, 1, Len(values))
    BY <1>2, <2>1, ConcatAdjacentSubSeq
  <2> QED
    BY <1>2, <2>2, SubSeqFull
<1> HIDE DEF n, run, rest
<1>7. emitted \o run \in Seq(Spans)
  BY <1>2, <1>4, ConcatProperties
<1>8. Outgoing' = Outgoing
  <2>1. Outgoing' = ((emitted \o run) \o <<>>) \o rest /\ Outgoing = (emitted \o <<>>) \o values
    BY <1>1 DEF Outgoing
  <2>2. (emitted \o run) \o <<>> = emitted \o run /\ emitted \o <<>> = emitted
    BY <1>2, <1>7, ConcatEmptySeq
  <2>3. (emitted \o run) \o rest = emitted \o (run \o rest)
    BY <1>2, <1>4, <1>5, ConcatAssociative
  <2> QED
    BY <1>6, <2>1, <2>2, <2>3
<1>9. StageInv'
  <2>1. \A i \in DOMAIN rest : rest[i].from = rest[i].to
    BY <1>5 DEF OrderInv, StageInv
  <2> QED
    BY <1>1, <2>1 DEF StageInv
<1> QED
  BY <1>1, <1>5, <1>7, <1>8, <1>9, EmptySeq, MovedAlong

\* An event that joins one of its field in the buffer leaves its own place, and the
\* span of the other grows up to it: nothing between the two is a barrier.
LEMMA JoinedOrder ==
  ASSUME OrderInv, at = "VALUES", values # <<>>, Mergeable(Head(values).field),
         sampled_events_' = [i \in DOMAIN sampled_events_ |->
                               IF sampled_events_[i].field = Head(values).field
                               THEN Coalesced(sampled_events_[i], Head(values))
                               ELSE sampled_events_[i]],
         values' = Tail(values), UNCHANGED <<emitted, pending_reports_, next_seq_id_, at>>
  PROVE  OrderInv'
<1> DEFINE A == emitted
           B == sampled_events_
           C == sampled_events_'
           e == Head(values)
           T == Tail(values)
<1>1. A \in Seq(Spans) /\ B \in Seq(Spans) /\ values \in Seq(Spans)
  BY DEF OrderInv, SpanTypes
<1>2. /\ e \in Spans /\ T \in Seq(Spans) /\ <<e>> \in Seq(Spans) /\ values = <<e>> \o T
      /\ 1 \in DOMAIN values /\ e = values[1]
      /\ \A i \in DOMAIN T : i + 1 \in DOMAIN values /\ T[i] = values[i + 1]
  BY <1>1, HeadAndTail
<1>3. e.from = e.to
  BY <1>2 DEF OrderInv, StageInv
<1>4. A \o B \in Seq(Spans) /\ <<e>>[1] = e /\ DOMAIN <<e>> = {1}
  BY <1>1, ConcatProperties
<1>5. Outgoing = (A \o B) \o (<<e>> \o T)
  BY <1>2 DEF Outgoing
<1> HIDE DEF e, T
<1>6. <<e>> \o T \in Seq(Spans)
  BY <1>2, ConcatProperties
<1>7. /\ Ordered(A) /\ Ordered(B) /\ Ordered(T) /\ Before(A, B) /\ Before(A, T) /\ Before(B, T)
      /\ Before(B, <<e>>) /\ Before(<<e>>, T)
  <2>1. Ordered((A \o B) \o (<<e>> \o T))
    BY <1>5 DEF OrderInv, EventOrder
  <2>2. Ordered(A \o B) /\ Ordered(<<e>> \o T) /\ Before(A \o B, <<e>> \o T)
    BY <1>4, <1>6, <2>1, OrderedConcat
  <2>3. Ordered(A) /\ Ordered(B) /\ Before(A, B) /\ Ordered(T) /\ Before(<<e>>, T)
    BY <1>1, <1>2, <2>2, OrderedConcat
  <2>4. Before(A, <<e>> \o T) /\ Before(B, <<e>> \o T)
    <3> HIDE DEF A, B
    <3>1. \A u \in Seq(Spans) : Before(A \o B, u) => Before(A, u) /\ Before(B, u)
      BY <1>1, BeforeConcat
    <3> QED
      BY <1>6, <2>2, <3>1
  <2>5. Before(A, T) /\ Before(B, T) /\ Before(B, <<e>>)
    BY <1>1, <1>2, <2>4, BeforeConcat
  <2> QED
    BY <2>3, <2>5
<1>8. \A j \in DOMAIN T : InOrder(e, T[j])
  BY <1>4, <1>7 DEF Before
<1>9. \A i \in DOMAIN B : B[i] \in Spans /\ Mergeable(B[i].field)
  BY <1>1, ElementOfSeq, LenProperties DEF OrderInv, StageInv
<1>10. ASSUME NEW i \in DOMAIN B
       PROVE  /\ C[i] \in Spans /\ Mergeable(C[i].field)
              /\ C[i].from = B[i].from /\ (C[i].to = B[i].to \/ C[i].to = e.to)
  <2>1. C[i] = IF B[i].field = e.field THEN Coalesced(B[i], e) ELSE B[i]
    BY DEF e
  <2>2. B[i].from <= e.to
    BY <1>3, <1>4, <1>7 DEF Before, InOrder
  <2>3. CASE B[i].field = e.field
    BY <1>2, <1>9, <2>1, <2>2, <2>3, CoalescedType
  <2>4. CASE B[i].field # e.field
    BY <1>9, <2>1, <2>4
  <2> QED
    BY <2>3, <2>4
<1>11. C \in Seq(Spans) /\ DOMAIN C = DOMAIN B
  <2>1. DOMAIN B = 1 .. Len(B) /\ Len(B) \in Nat /\ DOMAIN C = DOMAIN B
    BY <1>1, LenProperties
  <2>2. C = [i \in 1 .. Len(B) |-> C[i]]
    BY <2>1
  <2>3. C \in [1 .. Len(B) -> Spans]
    <3> HIDE DEF B, C
    <3> QED
      BY <1>10, <2>1, <2>2
  <2> QED
    BY <2>1, <2>3, SeqDef
<1> HIDE DEF A, B, C
<1>12. Ordered(C)
  <2> SUFFICES ASSUME NEW i \in DOMAIN B, NEW j \in DOMAIN B, i < j PROVE InOrder(C[i], C[j])
    BY <1>11 DEF Ordered
  <2>1. B[i].from <= B[j].from
    BY <1>7 DEF Ordered, InOrder
  <2> QED
    BY <1>10, <2>1 DEF InOrder
<1>13. Before(A, C)
  <2> SUFFICES ASSUME NEW i \in DOMAIN A, NEW j \in DOMAIN B PROVE InOrder(A[i], C[j])
    BY <1>11 DEF Before
  <2>1. A[i].from <= B[j].from
    BY <1>7 DEF Before, InOrder
  <2> QED
    BY <1>10, <2>1 DEF InOrder
<1>14. Before(C, T)
  <2> SUFFICES ASSUME NEW i \in DOMAIN B, NEW j \in DOMAIN T PROVE InOrder(C[i], T[j])
    BY <1>11 DEF Before
  <2>1. InOrder(B[i], T[j]) /\ InOrder(e, T[j])
    BY <1>7, <1>8 DEF Before
  <2> QED
    BY <1>3, <1>10, <2>1 DEF InOrder
<1>15. A \o C \in Seq(Spans) /\ Outgoing' = (A \o C) \o T
  <2>1. A \o C \in Seq(Spans)
    BY <1>1, <1>11, ConcatProperties
  <2> QED
    BY <2>1 DEF Outgoing, A, C, T
<1>16. Ordered(Outgoing')
  <2>1. Ordered(A \o C)
    BY <1>1, <1>7, <1>11, <1>12, <1>13, OrderedConcat
  <2>2. Before(A \o C, T)
    BY <1>1, <1>2, <1>7, <1>11, <1>14, BeforeConcat
  <2> QED
    BY <1>2, <1>7, <1>15, <2>1, <2>2, OrderedConcat
<1>17. ASSUME NEW n, Below(Outgoing, n) PROVE Below(Outgoing', n)
  <2>1. Below(A \o B, n) /\ Below(<<e>> \o T, n)
    BY <1>4, <1>5, <1>6, <1>17, BelowConcat DEF A, B
  <2>2. Below(A, n) /\ Below(B, n) /\ Below(<<e>>, n) /\ Below(T, n)
    BY <1>1, <1>2, <2>1, BelowConcat
  <2>3. e.to < n
    BY <1>4, <2>2 DEF Below
  <2>4. Below(C, n)
    BY <1>10, <1>11, <2>2, <2>3 DEF Below
  <2>5. Below(A \o C, n)
    BY <1>1, <1>11, <2>2, <2>4, BelowConcat
  <2> QED
    BY <1>2, <1>15, <2>2, <2>5, BelowConcat
<1>18. SpanTypes'
  BY <1>2, <1>11 DEF OrderInv, SpanTypes, C, T
<1>19. StageInv'
  <2>1. \A i \in DOMAIN T : T[i].from = T[i].to
    BY <1>2 DEF OrderInv, StageInv
  <2>2. \A i \in DOMAIN C : Mergeable(C[i].field)
    BY <1>10, <1>11
  <2> QED
    BY <2>1, <2>2 DEF StageInv, C, T
<1>20. EventOrder' /\ FifoOrder'
  BY <1>16, <1>17 DEF OrderInv, EventOrder, FifoOrder
<1> QED
  BY <1>18, <1>19, <1>20 DEF OrderInv

\* An event joins the one of its field in the buffer.
Joins ==
  /\ values # <<>> /\ Mergeable(Head(values).field)
  /\ Holds(sampled_events_, Head(values).field) /\ emitted' = emitted
  /\ sampled_events_' = Accumulated(sampled_events_, Head(values)) /\ values' = Tail(values)

LEMMA AccumulateOrder ==
  ASSUME OrderInv, AccumulateEvent
  PROVE  OrderInv' /\ (Outgoing' = Outgoing \/ Joins)
<1> DEFINE e == Head(values)
           T == Tail(values)
<1>1. emitted \in Seq(Spans) /\ sampled_events_ \in Seq(Spans) /\ values \in Seq(Spans)
  BY DEF OrderInv, SpanTypes
<1>2. /\ at = "VALUES" /\ at' = at /\ values' = T
      /\ UNCHANGED <<pending_reports_, next_seq_id_>>
  BY DEF AccumulateEvent, fifoVars, inputVars
<1>3. values # <<>> /\ Mergeable(e.field)
  <2>1. /\ RunLength > 0 /\ RunLength \in 0 .. Len(values) /\ Len(values) \in Nat
        /\ \A i \in 1 .. RunLength : Mergeable(values[i].field)
    BY <1>1, RunLengthFacts, LenProperties DEF AccumulateEvent
  <2>2. 1 \in 1 .. RunLength /\ Len(values) # 0
    BY <2>1
  <2>3. values # <<>>
    BY <2>2
  <2> QED
    BY <1>1, <2>1, <2>2, <2>3, HeadAndTail
<1>4. /\ e \in Spans /\ T \in Seq(Spans) /\ <<e>> \in Seq(Spans) /\ values = <<e>> \o T
      /\ \A i \in DOMAIN T : i + 1 \in DOMAIN values /\ T[i] = values[i + 1]
  BY <1>1, <1>3, HeadAndTail
<1>5. emitted \o sampled_events_ \in Seq(Spans)
  BY <1>1, ConcatProperties
<1>6. \A i \in DOMAIN T : T[i].from = T[i].to
  BY <1>4 DEF OrderInv, StageInv
<1>7. CASE /\ Holds(sampled_events_, e.field) /\ emitted' = emitted
           /\ sampled_events_' = Accumulated(sampled_events_, e)
  BY <1>2, <1>3, <1>7, JoinedOrder DEF Accumulated, Joins
<1>8. CASE emitted' = emitted /\ sampled_events_' = Append(sampled_events_, e)
  <2> HIDE DEF e, T
  <2>1. /\ sampled_events_' = sampled_events_ \o <<e>> /\ sampled_events_' \in Seq(Spans)
        /\ DOMAIN sampled_events_' = 1 .. Len(sampled_events_) + 1
        /\ \A i \in 1 .. Len(sampled_events_) : sampled_events_'[i] = sampled_events_[i]
        /\ sampled_events_'[Len(sampled_events_) + 1] = e
        /\ Len(sampled_events_) \in Nat /\ DOMAIN sampled_events_ = 1 .. Len(sampled_events_)
    BY <1>1, <1>4, <1>8, AppendProperties, AppendIsConcat, LenProperties
  <2>2. \A i \in DOMAIN sampled_events_' : Mergeable(sampled_events_'[i].field)
    BY <1>3, <2>1 DEF OrderInv, StageInv
  <2>3. Outgoing' = (emitted \o (sampled_events_ \o <<e>>)) \o T
    BY <1>2, <1>8, <2>1 DEF Outgoing
  <2>4. emitted \o (sampled_events_ \o <<e>>) = (emitted \o sampled_events_) \o <<e>>
    BY <1>1, <1>4, ConcatAssociative
  <2>5. ((emitted \o sampled_events_) \o <<e>>) \o T
          = (emitted \o sampled_events_) \o (<<e>> \o T)
    BY <1>4, <1>5, ConcatAssociative
  <2>6. Outgoing' = Outgoing
    BY <1>4, <2>3, <2>4, <2>5 DEF Outgoing
  <2>7. StageInv'
    BY <1>2, <1>6, <2>2 DEF StageInv
  <2> QED
    BY <1>1, <1>2, <1>4, <1>8, <2>1, <2>6, <2>7, MovedAlong
<1>9. CASE /\ emitted' = emitted \o sampled_events_
           /\ sampled_events_' = Accumulated(<<>>, e)
  <2>1. sampled_events_' = <<e>>
    BY <1>9 DEF Accumulated, Holds
  <2> HIDE DEF e, T
  <2>2. Outgoing' = ((emitted \o sampled_events_) \o <<e>>) \o T
    BY <1>2, <1>9, <2>1 DEF Outgoing
  <2>3. ((emitted \o sampled_events_) \o <<e>>) \o T
          = (emitted \o sampled_events_) \o (<<e>> \o T)
    BY <1>4, <1>5, ConcatAssociative
  <2>4. Outgoing' = Outgoing
    BY <1>4, <2>2, <2>3 DEF Outgoing
  <2>5. StageInv'
    <3>1. \A i \in DOMAIN <<e>> : <<e>>[i] = e
      OBVIOUS
    <3> QED
      BY <1>2, <1>3, <1>6, <2>1, <3>1 DEF StageInv
  <2> QED
    BY <1>2, <1>4, <1>5, <1>9, <2>1, <2>4, <2>5, MovedAlong
<1> QED
  BY <1>7, <1>8, <1>9 DEF AccumulateEvent, Accepts, Accumulated

\* A report joins the FIFO behind what is left of it, with a number of its own.
LEMMA NotifyOrder ==
  ASSUME OrderInv, NEW report \in Reports, Notify(report)
  PROVE  OrderInv'
<1> DEFINE queue == pending_reports_
           d == Dropped(report.size)
           kept == SubSeq(queue, d + 1, Len(queue))
           entry == [report |-> report, seq_id |-> next_seq_id_]
<1>1. /\ UNCHANGED <<emitted, sampled_events_, values, at>> /\ next_seq_id_' = next_seq_id_ + 1
      /\ pending_reports_' = queue \/ pending_reports_' = Append(kept, entry)
  BY DEF Notify, Enqueue, windowVars, loopVars, fifoVars
<1>2. /\ queue \in Seq(Entries) /\ next_seq_id_ \in Nat /\ entry \in Entries
      /\ entry.seq_id = next_seq_id_
  BY DEF OrderInv, SpanTypes, Entries
<1>3. /\ Len(queue) \in Nat /\ DOMAIN queue = 1 .. Len(queue)
      /\ \A i \in 1 .. Len(queue) : queue[i] \in Entries /\ queue[i].seq_id \in Nat
  <2> HIDE DEF queue, entry
  <2>1. Len(queue) \in Nat /\ DOMAIN queue = 1 .. Len(queue)
    BY <1>2, LenProperties
  <2>2. ASSUME NEW i \in 1 .. Len(queue) PROVE queue[i] \in Entries
    BY <1>2, ElementOfSeq
  <2>3. \A q \in Entries : q.seq_id \in Nat
    BY DEF Entries
  <2> QED
    BY <2>1, <2>2, <2>3
<1>4. d \in 0 .. Len(queue)
  BY <1>3, DroppedType
<1>5. Outgoing' = Outgoing /\ Outgoing \in Seq(Spans)
  BY <1>1, ConcatProperties DEF Outgoing, OrderInv, SpanTypes
<1>6. ASSUME NEW n \in Nat, NEW m \in Nat, n <= m, Below(Outgoing, n) PROVE Below(Outgoing, m)
  <2>1. \A i \in DOMAIN Outgoing : Outgoing[i].to \in Nat
    BY <1>5, ElementOfSeq, LenProperties DEF Spans
  <2> QED
    BY <1>6, <2>1 DEF Below
<1>7. Below(Outgoing, next_seq_id_) /\ Below(Outgoing, next_seq_id_ + 1)
  BY <1>2, <1>6 DEF OrderInv, EventOrder
<1>8. /\ \A i, j \in DOMAIN queue : i < j => queue[i].seq_id < queue[j].seq_id
      /\ \A j \in DOMAIN queue : queue[j].seq_id < next_seq_id_ /\ Below(Outgoing, queue[j].seq_id)
  BY DEF OrderInv, FifoOrder
<1>9. EventOrder' /\ StageInv'
  BY <1>1, <1>5, <1>7 DEF OrderInv, EventOrder, StageInv
<1>10. CASE pending_reports_' = queue
  <2>1. SpanTypes'
    BY <1>1, <1>2, <1>10 DEF OrderInv, SpanTypes
  <2>2. FifoOrder'
    <3>1. \A j \in DOMAIN queue : queue[j].seq_id < next_seq_id_ + 1
      BY <1>2, <1>3, <1>8
    <3> QED
      BY <1>1, <1>5, <1>8, <1>10, <3>1 DEF FifoOrder
  <2> QED
    BY <1>9, <2>1, <2>2 DEF OrderInv
<1>11. CASE pending_reports_' = Append(kept, entry)
  <2> HIDE DEF d
  <2>1. /\ kept \in Seq(Entries)
        /\ Len(kept) = IF d + 1 <= Len(queue) THEN Len(queue) - (d + 1) + 1 ELSE 0
        /\ \A i \in 1 .. Len(queue) - (d + 1) + 1 : kept[i] = queue[(d + 1) + i - 1]
    <3>1. /\ d + 1 \in Int /\ Len(queue) \in Int
          /\ \A i \in d + 1 .. Len(queue) : queue[i] \in Entries
      BY <1>3, <1>4
    <3> HIDE DEF queue
    <3> QED
      BY <3>1, SubSeqProperties
  <2> HIDE DEF kept, queue, entry
  <2>2. /\ Len(kept) \in Nat /\ Len(kept) = Len(queue) - d
        /\ \A i \in 1 .. Len(kept) : d + i \in DOMAIN queue /\ kept[i] = queue[d + i]
    <3>1. Len(kept) \in Nat /\ Len(kept) = Len(queue) - d
      <4>1. Len(queue) \in Nat /\ d \in 0 .. Len(queue)
        BY <1>3, <1>4
      <4>2. Len(kept) = IF d + 1 <= Len(queue) THEN Len(queue) - (d + 1) + 1 ELSE 0
        BY <2>1
      <4>3. CASE d < Len(queue)
        BY <4>1, <4>2, <4>3
      <4>4. CASE d = Len(queue)
        BY <4>1, <4>2, <4>4
      <4> QED
        BY <4>1, <4>3, <4>4
    <3>2. ASSUME NEW i \in 1 .. Len(kept)
          PROVE  /\ i \in 1 .. Len(queue) - (d + 1) + 1 /\ (d + 1) + i - 1 = d + i
                 /\ d + i \in DOMAIN queue
      BY <1>3, <1>4, <3>1
    <3> QED
      BY <2>1, <3>1, <3>2
  <2>3. /\ Append(kept, entry) \in Seq(Entries)
        /\ DOMAIN Append(kept, entry) = 1 .. Len(kept) + 1
        /\ \A i \in 1 .. Len(kept) : Append(kept, entry)[i] = kept[i]
        /\ Append(kept, entry)[Len(kept) + 1] = entry
    BY <1>2, <2>1, AppendProperties, LenProperties
  <2> DEFINE new == Append(kept, entry)
  <2> HIDE DEF new
  <2>4. \A i \in DOMAIN new :
          \/ i \in 1 .. Len(kept) /\ d + i \in DOMAIN queue /\ new[i] = queue[d + i]
          \/ i = Len(kept) + 1 /\ new[i] = entry
    BY <2>2, <2>3 DEF new
  <2>5. ASSUME NEW i \in DOMAIN new, NEW j \in DOMAIN new, i < j
        PROVE  new[i].seq_id < new[j].seq_id
    <3>1. i \in 1 .. Len(kept) /\ d + i \in DOMAIN queue /\ new[i] = queue[d + i]
      BY <2>2, <2>3, <2>4, <2>5 DEF new
    <3>2. CASE j = Len(kept) + 1 /\ new[j] = entry
      BY <1>2, <1>8, <3>1, <3>2
    <3>3. CASE d + j \in DOMAIN queue /\ new[j] = queue[d + j] /\ j \in 1 .. Len(kept)
      <4>1. d + i < d + j
        BY <1>3, <1>4, <2>2, <2>5, <3>1, <3>3
      <4> QED
        BY <1>8, <3>1, <3>3, <4>1
    <3> QED
      BY <2>4, <3>2, <3>3
  <2>6. ASSUME NEW j \in DOMAIN new
        PROVE  new[j].seq_id < next_seq_id_ + 1 /\ Below(Outgoing, new[j].seq_id)
    <3>1. CASE new[j] = entry
      BY <1>2, <1>7, <3>1
    <3>2. CASE d + j \in DOMAIN queue /\ new[j] = queue[d + j]
      <4>1. queue[d + j].seq_id < next_seq_id_ /\ queue[d + j].seq_id \in Nat
        BY <1>3, <1>8, <3>2
      <4>2. queue[d + j].seq_id < next_seq_id_ + 1
        BY <1>2, <4>1
      <4> QED
        BY <1>8, <3>2, <4>2
    <3> QED
      BY <2>4, <3>1, <3>2
  <2>7. pending_reports_' = new
    BY <1>11 DEF new
  <2>8. FifoOrder'
    BY <1>1, <1>5, <2>5, <2>6, <2>7 DEF FifoOrder
  <2>9. SpanTypes'
    BY <1>1, <1>2, <2>3, <2>7 DEF OrderInv, SpanTypes, new
  <2> QED
    BY <1>9, <2>8, <2>9 DEF OrderInv
<1> QED
  BY <1>1, <1>10, <1>11

LEMMA EmptyOrder ==
  ASSUME emitted = <<>>, sampled_events_ = <<>>, values = <<>>, pending_reports_ = <<>>,
         next_seq_id_ \in Nat
  PROVE  OrderInv
<1>1. Outgoing = <<>>
  <2>1. <<>> \in Seq(Spans)
    BY EmptySeq
  <2>2. <<>> \o <<>> = <<>>
    BY <2>1, ConcatEmptySeq
  <2> QED
    BY <2>2 DEF Outgoing
<1>2. Ordered(<<>>) /\ Below(<<>>, next_seq_id_)
  BY DEF Ordered, Below
<1> QED
  BY <1>1, <1>2, EmptySeq DEF OrderInv, SpanTypes, StageInv, EventOrder, FifoOrder

LEMMA ResetOrder ==
  ASSUME OrderInv, Connect \/ Disconnect
  PROVE  OrderInv'
<1>1. /\ emitted' = <<>> /\ sampled_events_' = <<>> /\ pending_reports_' = <<>>
      /\ values = <<>> /\ values' = values /\ next_seq_id_' = next_seq_id_
  BY DEF Connect, Disconnect, ResetPipeline, loopVars, OrderInv, StageInv
<1>2. Outgoing' = <<>>
  <2>1. <<>> \in Seq(Spans)
    BY EmptySeq
  <2>2. <<>> \o <<>> = <<>>
    BY <2>1, ConcatEmptySeq
  <2> QED
    BY <1>1, <2>2 DEF Outgoing
<1>3. Ordered(<<>>) /\ Below(<<>>, next_seq_id_)
  BY DEF Ordered, Below
<1> QED
  BY <1>1, <1>2, <1>3, EmptySeq DEF OrderInv, SpanTypes, StageInv, EventOrder, FifoOrder

LEMMA OrderStep ==
  ASSUME OrderInv, WindowCoversBuffer, [Next]_vars
  PROVE  OrderInv'
<1>1. CASE \E report \in Reports : Notify(report)
  BY <1>1, NotifyOrder
<1>2. CASE BeginLoop \/ EndLoop
  BY <1>2, IdleLoopOrder
<1>3. CASE TakeReport
  BY <1>3, TakeReportOrder
<1>4. CASE PassThrough
  BY <1>4, PassThroughOrder
<1>5. CASE EmitRun
  BY <1>5, EmitRunOrder
<1>6. CASE AccumulateEvent
  BY <1>6, AccumulateOrder
<1>7. CASE FinishReport \/ Tick \/ UNCHANGED vars
  <2>1. /\ UNCHANGED <<emitted, sampled_events_, values, pending_reports_, next_seq_id_>>
        /\ at' = at \/ values = <<>>
    BY <1>7 DEF FinishReport, Tick, vars, inputVars, fifoVars, windowVars, loopVars
  <2>2. Outgoing' = Outgoing
    BY <2>1 DEF Outgoing
  <2>3. StageInv'
    BY <2>1 DEF OrderInv, StageInv
  <2> QED
    BY <2>1, <2>2, <2>3, MovedAlong DEF OrderInv, SpanTypes
<1>8. CASE Connect \/ Disconnect
  BY <1>8, ResetOrder
<1> QED
  BY <1>1, <1>2, <1>3, <1>4, <1>5, <1>6, <1>7, <1>8 DEF Next, ProcessValue

LEMMA OrderHolds == Spec => []OrderInv
<1>1. Init => OrderInv
  BY EmptyOrder DEF Init
<1>2. OrderInv /\ WindowCoversBuffer /\ [Next]_vars => OrderInv'
  BY OrderStep
<1> QED
  BY <1>1, <1>2, BufferIsCovered, PTL DEF Spec

\* Whatever is coalesced, dropped, flushed late or interrupted: events go out in the
\* order in which their spans begin, no barrier overtakes a contribution that was seen
\* before it, and the FIFO comes after all of them.
THEOREM EventsKeepOrder == Spec => []EmissionOrder
<1>1. OrderInv => EmissionOrder
  BY DEF OrderInv, EventOrder, FifoOrder, Ordered, InOrder, Below, EmissionOrder
<1> QED
  BY <1>1, OrderHolds, PTL

-----------------------------------------------------------------------------
(* Sums.  A sum is what a loop adds up term by term: there is exactly one    *)
(* such running total, by induction over sets of numbers.                    *)

LEMMA Induction ==
  ASSUME NEW S, 0 \in S, \A n \in Nat : n \in S => n + 1 \in S
  PROVE  \A n \in Nat : n \in S
<1> DEFINE T == {n \in Nat : n \notin S}
<1>1. SUFFICES ASSUME T # {} PROVE FALSE
  OBVIOUS
<1>2. T \in SUBSET Nat
  OBVIOUS
<1>3. PICK n \in T : \A k \in 0 .. n - 1 : k \notin T
  <2> HIDE DEF T
  <2> QED
    BY <1>1, <1>2, LeastElement
<1>4. n \in Nat /\ n \notin S
  BY <1>3
<1>5. n # 0 /\ n - 1 \in Nat /\ n - 1 \in 0 .. n - 1 /\ (n - 1) + 1 = n
  BY <1>4
<1>6. n - 1 \in S
  BY <1>3, <1>5
<1> QED
  BY <1>4, <1>5, <1>6

IsTotal(t, terms, from, to) ==
  t = [k \in from - 1 .. to |-> IF k = from - 1 THEN 0 ELSE t[k - 1] + terms[k]]

LEMMA TotalExists ==
  ASSUME NEW terms, NEW from \in Int, NEW n \in Nat
  PROVE  \E t : IsTotal(t, terms, from, from - 1 + n)
<1> DEFINE S == {m \in Nat : \E t : IsTotal(t, terms, from, from - 1 + m)}
<1>1. 0 \in S
  <2> DEFINE t == [k \in from - 1 .. from - 1 + 0 |-> 0]
  <2>1. \A k \in from - 1 .. from - 1 + 0 : k = from - 1
    OBVIOUS
  <2>2. t = [k \in from - 1 .. from - 1 + 0 |-> IF k = from - 1 THEN 0 ELSE t[k - 1] + terms[k]]
    BY <2>1
  <2> QED
    BY <2>2 DEF IsTotal
<1>2. ASSUME NEW m \in Nat, m \in S PROVE m + 1 \in S
  <2> DEFINE to == from - 1 + m
  <2>1. PICK t : IsTotal(t, terms, from, to)
    BY <1>2
  <2>2. to \in Int /\ from - 1 + (m + 1) = to + 1 /\ from - 1 <= to
    OBVIOUS
  <2> DEFINE u == [k \in from - 1 .. to + 1 |-> IF k = to + 1 THEN t[to] + terms[to + 1] ELSE t[k]]
  <2> HIDE DEF to
  <2>3. \A k \in from - 1 .. to + 1 :
          u[k] = IF k = from - 1 THEN 0 ELSE u[k - 1] + terms[k]
    <3> SUFFICES ASSUME NEW k \in from - 1 .. to + 1
                 PROVE  u[k] = IF k = from - 1 THEN 0 ELSE u[k - 1] + terms[k]
      OBVIOUS
    <3>1. \A j \in from - 1 .. to : t[j] = IF j = from - 1 THEN 0 ELSE t[j - 1] + terms[j]
      BY <2>1 DEF IsTotal
    <3>2. CASE k = to + 1
      <4>1. k # from - 1 /\ k - 1 = to /\ to \in from - 1 .. to + 1 /\ to # to + 1
        BY <2>2, <3>2
      <4> QED
        BY <3>2, <4>1
    <3>3. CASE k # to + 1
      <4>1. k \in from - 1 .. to /\ k \in Int
        BY <2>2, <3>3
      <4>2. CASE k = from - 1
        BY <3>1, <3>3, <4>1, <4>2
      <4>3. CASE k # from - 1
        <5>1. k - 1 \in from - 1 .. to + 1 /\ k - 1 # to + 1
          BY <2>2, <4>1, <4>3
        <5> QED
          BY <3>1, <3>3, <4>1, <4>3, <5>1
      <4> QED
        BY <4>2, <4>3
    <3> QED
      BY <3>2, <3>3
  <2>4. IsTotal(u, terms, from, to + 1)
    BY <2>3 DEF IsTotal
  <2> QED
    BY <2>2, <2>4
<1>3. \A m \in Nat : m \in S
  <2> HIDE DEF S
  <2> QED
    BY <1>1, <1>2, Induction
<1> QED
  BY <1>3

RunningTotal(terms, from, to) == CHOOSE t : IsTotal(t, terms, from, to)

LEMMA RunningTotalFacts ==
  ASSUME NEW terms, NEW from \in Int, NEW to \in Int, from - 1 <= to
  PROVE  /\ Total(terms, from, to) = RunningTotal(terms, from, to)[to]
         /\ RunningTotal(terms, from, to)[from - 1] = 0
         /\ \A k \in from .. to :
              RunningTotal(terms, from, to)[k] = RunningTotal(terms, from, to)[k - 1] + terms[k]
<1>1. to - (from - 1) \in Nat /\ from - 1 + (to - (from - 1)) = to
  OBVIOUS
<1>2. \E t : IsTotal(t, terms, from, to)
  BY <1>1, TotalExists
<1> DEFINE r == RunningTotal(terms, from, to)
<1>3. IsTotal(r, terms, from, to)
  BY <1>2 DEF RunningTotal
<1>4. Total(terms, from, to) = r[to]
  BY DEF Total, RunningTotal, IsTotal
<1>5. \A k \in from - 1 .. to : r[k] = IF k = from - 1 THEN 0 ELSE r[k - 1] + terms[k]
  <2> HIDE DEF r
  <2> QED
    BY <1>3 DEF IsTotal
<1> HIDE DEF r
<1>6. r[from - 1] = 0
  BY <1>5
<1>7. \A k \in from .. to : k \in from - 1 .. to /\ k # from - 1
  OBVIOUS
<1>8. \A k \in from .. to : r[k] = r[k - 1] + terms[k]
  BY <1>5, <1>7
<1> QED
  BY <1>4, <1>6, <1>8 DEF r

LEMMA RunningTotalType ==
  ASSUME NEW terms, NEW from \in Int, NEW to \in Int, from - 1 <= to,
         \A k \in from .. to : terms[k] \in Int
  PROVE  \A k \in from - 1 .. to : RunningTotal(terms, from, to)[k] \in Int
<1> DEFINE r == RunningTotal(terms, from, to)
           S == {n \in Nat : from - 1 + n <= to => r[from - 1 + n] \in Int}
<1>1. /\ r[from - 1] = 0
      /\ \A k \in from .. to : r[k] = r[k - 1] + terms[k]
  BY RunningTotalFacts
<1> HIDE DEF r
<1>2. 0 \in S
  BY <1>1
<1>3. ASSUME NEW n \in Nat, n \in S PROVE n + 1 \in S
  <2>1. SUFFICES ASSUME from - 1 + (n + 1) <= to PROVE r[from - 1 + (n + 1)] \in Int
    OBVIOUS
  <2>2. /\ from - 1 + (n + 1) \in from .. to
        /\ (from - 1 + (n + 1)) - 1 = from - 1 + n /\ from - 1 + n <= to
    BY <2>1
  <2>3. r[from - 1 + n] \in Int
    BY <1>3, <2>2
  <2> QED
    BY <1>1, <2>2, <2>3
<1>4. \A n \in Nat : n \in S
  <2> HIDE DEF S
  <2> QED
    BY <1>2, <1>3, Induction
<1>5. ASSUME NEW k \in from - 1 .. to PROVE r[k] \in Int
  <2>1. k - (from - 1) \in Nat /\ from - 1 + (k - (from - 1)) = k /\ k <= to
    OBVIOUS
  <2> QED
    BY <1>4, <2>1
<1> QED
  BY <1>5 DEF r

\* Two running totals over the same terms, found at different places, grow alike.
LEMMA RunningTotalsAgree ==
  ASSUME NEW terms, NEW from \in Int, NEW to \in Int, from - 1 <= to,
         NEW more, NEW a \in Int, NEW b \in Int, NEW d \in Int, a <= d + from, d + to <= b,
         \A k \in a .. b : more[k] \in Int,
         \A k \in from .. to : terms[k] = more[d + k]
  PROVE  \A k \in from - 1 .. to :
           RunningTotal(more, a, b)[d + k]
             = RunningTotal(more, a, b)[d + from - 1] + RunningTotal(terms, from, to)[k]
<1> DEFINE r == RunningTotal(terms, from, to)
           q == RunningTotal(more, a, b)
           S == {n \in Nat : from - 1 + n <= to =>
                               q[d + (from - 1 + n)] = q[d + from - 1] + r[from - 1 + n]}
<1>1. /\ r[from - 1] = 0
      /\ \A k \in from .. to : r[k] = r[k - 1] + terms[k]
  BY RunningTotalFacts
<1>2. \A k \in from .. to : d + k \in a .. b
  OBVIOUS
<1>3. a - 1 <= b
  OBVIOUS
<1>4. \A k \in a - 1 .. b : q[k] \in Int
  BY <1>3, RunningTotalType
<1>5. \A k \in from - 1 .. to : r[k] \in Int
  <2>1. \A k \in from .. to : terms[k] \in Int
    BY <1>2
  <2> QED
    BY <2>1, RunningTotalType
<1>6. \A k \in a .. b : q[k] = q[k - 1] + more[k]
  BY <1>3, RunningTotalFacts
<1> HIDE DEF r, q
<1>7. d + from - 1 \in a - 1 .. b /\ q[d + from - 1] \in Int
  BY <1>4
<1>8. 0 \in S
  <2>1. d + (from - 1 + 0) = d + from - 1 /\ from - 1 + 0 = from - 1
    OBVIOUS
  <2> QED
    BY <1>1, <1>7, <2>1
<1>9. ASSUME NEW n \in Nat, n \in S PROVE n + 1 \in S
  <2> DEFINE k == from - 1 + (n + 1)
  <2>1. SUFFICES ASSUME k <= to PROVE q[d + k] = q[d + from - 1] + r[k]
    OBVIOUS
  <2>2. /\ k \in from .. to /\ k - 1 \in from - 1 .. to /\ d + k \in a .. b
        /\ k - 1 = from - 1 + n /\ (d + k) - 1 = d + (k - 1) /\ k - 1 <= to
    BY <2>1
  <2> HIDE DEF k
  <2>3. q[d + (k - 1)] = q[d + from - 1] + r[k - 1]
    BY <1>9, <2>2
  <2>4. q[d + k] = q[d + (k - 1)] + more[d + k] /\ r[k] = r[k - 1] + more[d + k]
    BY <1>1, <1>6, <2>2
  <2>5. more[d + k] \in Int /\ r[k - 1] \in Int
    BY <1>5, <2>2
  <2> QED
    BY <1>7, <2>3, <2>4, <2>5
<1>10. \A n \in Nat : n \in S
  <2> HIDE DEF S
  <2> QED
    BY <1>8, <1>9, Induction
<1>11. ASSUME NEW k \in from - 1 .. to PROVE q[d + k] = q[d + from - 1] + r[k]
  <2>1. k - (from - 1) \in Nat /\ from - 1 + (k - (from - 1)) = k /\ k <= to
    OBVIOUS
  <2> QED
    BY <1>10, <2>1
<1> QED
  BY <1>11 DEF r, q

LEMMA TotalType ==
  ASSUME NEW terms, NEW from \in Int, NEW to \in Int, from - 1 <= to,
         \A k \in from .. to : terms[k] \in Int
  PROVE  Total(terms, from, to) \in Int
<1>1. to \in from - 1 .. to
  OBVIOUS
<1> QED
  BY <1>1, RunningTotalFacts, RunningTotalType

LEMMA TotalEmpty ==
  ASSUME NEW terms, NEW from \in Int
  PROVE  Total(terms, from, from - 1) = 0
<1>1. from - 1 \in Int /\ from - 1 <= from - 1
  OBVIOUS
<1> QED
  BY <1>1, RunningTotalFacts

LEMMA TotalOfOne ==
  ASSUME NEW terms, NEW at_ \in Int, terms[at_] \in Int
  PROVE  Total(terms, at_, at_) = terms[at_]
<1>1. at_ - 1 <= at_ /\ at_ \in at_ .. at_
  OBVIOUS
<1>2. /\ Total(terms, at_, at_) = RunningTotal(terms, at_, at_)[at_]
      /\ RunningTotal(terms, at_, at_)[at_ - 1] = 0
      /\ RunningTotal(terms, at_, at_)[at_] = RunningTotal(terms, at_, at_)[at_ - 1] + terms[at_]
  BY <1>1, RunningTotalFacts
<1> QED
  BY <1>2

\* The sum of a part found elsewhere.
LEMMA TotalMoved ==
  ASSUME NEW terms, NEW from \in Int, NEW to \in Int, from - 1 <= to,
         NEW more, NEW d \in Int,
         \A k \in from .. to : terms[k] = more[d + k] /\ terms[k] \in Int
  PROVE  Total(more, d + from, d + to) = Total(terms, from, to)
<1> DEFINE a == d + from
           b == d + to
<1>1. a \in Int /\ b \in Int /\ a - 1 <= b /\ d + from - 1 = a - 1 /\ to \in from - 1 .. to
      /\ a <= d + from /\ d + to <= b
  OBVIOUS
<1>2. ASSUME NEW k \in a .. b PROVE more[k] \in Int
  <2>1. k - d \in from .. to /\ d + (k - d) = k
    OBVIOUS
  <2> QED
    BY <2>1
<1> HIDE DEF a, b
<1>3. \A k \in from - 1 .. to :
        RunningTotal(more, a, b)[d + k]
          = RunningTotal(more, a, b)[d + from - 1] + RunningTotal(terms, from, to)[k]
  BY <1>1, <1>2, RunningTotalsAgree
<1>4. RunningTotal(more, a, b)[a - 1] = 0 /\ Total(more, a, b) = RunningTotal(more, a, b)[b]
      /\ Total(terms, from, to) = RunningTotal(terms, from, to)[to]
  BY <1>1, RunningTotalFacts
<1>5. Total(more, a, b) = 0 + Total(terms, from, to)
  BY <1>1, <1>3, <1>4 DEF b
<1> QED
  BY <1>5, TotalType DEF a, b

LEMMA TotalSplit ==
  ASSUME NEW terms, NEW from \in Int, NEW mid \in Int, NEW to \in Int, from - 1 <= mid, mid <= to,
         \A k \in from .. to : terms[k] \in Int
  PROVE  Total(terms, from, to) = Total(terms, from, mid) + Total(terms, mid + 1, to)
<1> DEFINE r == RunningTotal(terms, from, to)
<1>1. /\ from - 1 <= to /\ mid \in from - 1 .. mid
      /\ mid + 1 \in Int /\ (mid + 1) - 1 = mid /\ to \in (mid + 1) - 1 .. to
      /\ 0 + from - 1 = from - 1 /\ 0 + mid = mid /\ 0 + to = to
      /\ 0 + (mid + 1) - 1 = mid
  OBVIOUS
<1>2. /\ \A k \in from .. mid : terms[k] = terms[0 + k]
      /\ \A k \in mid + 1 .. to : terms[k] = terms[0 + k]
  <2>1. \A k \in Int : 0 + k = k
    OBVIOUS
  <2>2. (\A k \in from .. mid : k \in Int) /\ (\A k \in mid + 1 .. to : k \in Int)
    OBVIOUS
  <2> QED
    BY <2>1, <2>2
<1>3. \A k \in from - 1 .. mid : r[k] = r[from - 1] + RunningTotal(terms, from, mid)[k]
  <2>1. ASSUME NEW d \in Int, from <= d + from, d + mid <= to,
               \A k \in from .. mid : terms[k] = terms[d + k]
        PROVE  \A k \in from - 1 .. mid :
                 r[d + k] = r[d + from - 1] + RunningTotal(terms, from, mid)[k]
    BY <1>1, <2>1, RunningTotalsAgree
  <2>2. from <= 0 + from /\ 0 + mid <= to /\ 0 \in Int
    OBVIOUS
  <2>3. \A k \in from - 1 .. mid : k \in Int /\ 0 + k = k
    OBVIOUS
  <2> HIDE DEF r
  <2>4. \A k \in from - 1 .. mid : r[0 + k] = r[0 + from - 1] + RunningTotal(terms, from, mid)[k]
    BY <1>2, <2>1, <2>2
  <2> QED
    BY <1>1, <2>3, <2>4
<1>4. \A k \in (mid + 1) - 1 .. to : r[k] = r[mid] + RunningTotal(terms, mid + 1, to)[k]
  <2>1. ASSUME NEW d \in Int, from <= d + (mid + 1), d + to <= to,
               \A k \in mid + 1 .. to : terms[k] = terms[d + k]
        PROVE  \A k \in (mid + 1) - 1 .. to :
                 r[d + k] = r[d + (mid + 1) - 1] + RunningTotal(terms, mid + 1, to)[k]
    BY <1>1, <2>1, RunningTotalsAgree
  <2>2. from <= 0 + (mid + 1) /\ 0 + to <= to /\ 0 \in Int
    OBVIOUS
  <2>3. \A k \in (mid + 1) - 1 .. to : k \in Int /\ 0 + k = k
    OBVIOUS
  <2> HIDE DEF r
  <2>4. \A k \in (mid + 1) - 1 .. to :
          r[0 + k] = r[0 + (mid + 1) - 1] + RunningTotal(terms, mid + 1, to)[k]
    BY <1>2, <2>1, <2>2
  <2> QED
    BY <1>1, <2>3, <2>4
<1>5. r[from - 1] = 0 /\ Total(terms, from, to) = r[to]
      /\ Total(terms, from, mid) = RunningTotal(terms, from, mid)[mid]
      /\ Total(terms, mid + 1, to) = RunningTotal(terms, mid + 1, to)[to]
  BY <1>1, RunningTotalFacts
<1>6. Total(terms, from, mid) \in Int
  <2>1. \A k \in from .. mid : k \in from .. to
    OBVIOUS
  <2> QED
    BY <2>1, TotalType
<1> HIDE DEF r
<1>7. r[mid] = Total(terms, from, mid)
  BY <1>1, <1>3, <1>5, <1>6
<1>8. r[to] = r[mid] + Total(terms, mid + 1, to)
  BY <1>1, <1>4, <1>5
<1> QED
  BY <1>5, <1>7, <1>8

\* A bound for every term bounds the sum on both sides.
LEMMA TotalBounded ==
  ASSUME NEW terms, NEW bounds, NEW from \in Int, NEW to \in Int, from - 1 <= to,
         \A k \in from .. to :
           terms[k] \in Int /\ bounds[k] \in Nat /\ -bounds[k] <= terms[k] /\ terms[k] <= bounds[k]
  PROVE  /\ Total(bounds, from, to) \in Nat
         /\ -Total(bounds, from, to) <= Total(terms, from, to)
         /\ Total(terms, from, to) <= Total(bounds, from, to)
<1> DEFINE r == RunningTotal(terms, from, to)
           q == RunningTotal(bounds, from, to)
           S == {n \in Nat : from - 1 + n <= to =>
                   /\ q[from - 1 + n] \in Nat /\ r[from - 1 + n] \in Int
                   /\ -q[from - 1 + n] <= r[from - 1 + n] /\ r[from - 1 + n] <= q[from - 1 + n]}
<1>1. /\ r[from - 1] = 0 /\ q[from - 1] = 0
      /\ \A k \in from .. to : r[k] = r[k - 1] + terms[k] /\ q[k] = q[k - 1] + bounds[k]
      /\ Total(terms, from, to) = r[to] /\ Total(bounds, from, to) = q[to]
  BY RunningTotalFacts
<1> HIDE DEF r, q
<1>2. 0 \in S
  BY <1>1
<1>3. ASSUME NEW n \in Nat, n \in S PROVE n + 1 \in S
  <2> DEFINE k == from - 1 + (n + 1)
  <2>1. SUFFICES ASSUME k <= to
                 PROVE  q[k] \in Nat /\ r[k] \in Int /\ -q[k] <= r[k] /\ r[k] <= q[k]
    OBVIOUS
  <2>2. k \in from .. to /\ k - 1 = from - 1 + n /\ k - 1 <= to
    BY <2>1
  <2> HIDE DEF k
  <2>3. /\ q[k - 1] \in Nat /\ r[k - 1] \in Int
        /\ -q[k - 1] <= r[k - 1] /\ r[k - 1] <= q[k - 1]
    BY <1>3, <2>2
  <2>4. q[k] = q[k - 1] + bounds[k] /\ r[k] = r[k - 1] + terms[k]
    BY <1>1, <2>2
  <2> QED
    BY <2>2, <2>3, <2>4
<1>4. \A n \in Nat : n \in S
  <2> HIDE DEF S
  <2> QED
    BY <1>2, <1>3, Induction
<1>5. to - (from - 1) \in Nat /\ from - 1 + (to - (from - 1)) = to
  OBVIOUS
<1>6. q[to] \in Nat /\ r[to] \in Int /\ -q[to] <= r[to] /\ r[to] <= q[to]
  BY <1>4, <1>5
<1> QED
  BY <1>1, <1>6

LEMMA TotalOfZeros ==
  ASSUME NEW terms, NEW from \in Int, NEW to \in Int, from - 1 <= to,
         \A k \in from .. to : terms[k] = 0
  PROVE  Total(terms, from, to) = 0
<1> DEFINE r == RunningTotal(terms, from, to)
           S == {n \in Nat : from - 1 + n <= to => r[from - 1 + n] = 0}
<1>1. /\ r[from - 1] = 0 /\ \A k \in from .. to : r[k] = r[k - 1] + terms[k]
      /\ Total(terms, from, to) = r[to]
  BY RunningTotalFacts
<1> HIDE DEF r
<1>2. 0 \in S
  BY <1>1
<1>3. ASSUME NEW n \in Nat, n \in S PROVE n + 1 \in S
  <2> DEFINE k == from - 1 + (n + 1)
  <2>1. SUFFICES ASSUME k <= to PROVE r[k] = 0
    OBVIOUS
  <2>2. k \in from .. to /\ k - 1 = from - 1 + n /\ k - 1 <= to
    BY <2>1
  <2> HIDE DEF k
  <2>3. r[k - 1] = 0
    BY <1>3, <2>2
  <2>4. r[k] = r[k - 1] + terms[k] /\ terms[k] = 0
    BY <1>1, <2>2
  <2> QED
    BY <2>3, <2>4
<1>4. \A n \in Nat : n \in S
  <2> HIDE DEF S
  <2> QED
    BY <1>2, <1>3, Induction
<1>5. to - (from - 1) \in Nat /\ from - 1 + (to - (from - 1)) = to
  OBVIOUS
<1>6. r[to] = 0
  <2> DEFINE n == to - (from - 1)
  <2>1. n \in S
    BY <1>4, <1>5
  <2>2. from - 1 + n <= to => r[from - 1 + n] = 0
    BY <2>1
  <2>3. from - 1 + n = to /\ to <= to
    BY <1>5
  <2> QED
    BY <2>2, <2>3
<1> QED
  BY <1>1, <1>6

LEMMA TotalOfSame ==
  ASSUME NEW terms, NEW more, NEW from \in Int, NEW to \in Int, from - 1 <= to,
         \A k \in from .. to : terms[k] = more[k] /\ terms[k] \in Int
  PROVE  Total(more, from, to) = Total(terms, from, to)
<1>1. ASSUME NEW d \in Int, \A k \in from .. to : terms[k] = more[d + k]
      PROVE  Total(more, d + from, d + to) = Total(terms, from, to)
  BY <1>1, TotalMoved
<1>2. 0 \in Int /\ 0 + from = from /\ 0 + to = to /\ \A k \in from .. to : 0 + k = k
  OBVIOUS
<1>3. \A k \in from .. to : terms[k] = more[0 + k]
  BY <1>2
<1>4. Total(more, 0 + from, 0 + to) = Total(terms, from, to)
  BY <1>1, <1>2, <1>3
<1> QED
  BY <1>2, <1>4

-----------------------------------------------------------------------------
(* The byte count of the FIFO. *)

Sizes(queue) == [i \in DOMAIN queue |-> queue[i].report.size]

LEMMA SizesType ==
  ASSUME NEW queue \in Seq(Entries)
  PROVE  /\ Len(queue) \in Nat /\ DOMAIN queue = 1 .. Len(queue)
         /\ \A i \in 1 .. Len(queue) : Sizes(queue)[i] = queue[i].report.size
         /\ \A i \in 1 .. Len(queue) : Sizes(queue)[i] \in Nat
         /\ TotalSize(queue) = Total(Sizes(queue), 1, Len(queue))
<1>1. Len(queue) \in Nat /\ DOMAIN queue = 1 .. Len(queue)
  BY LenProperties
<1>2. \A i \in 1 .. Len(queue) : queue[i] \in Entries
  BY <1>1, ElementOfSeq
<1>3. \A r \in Reports : r.size \in Nat
  BY PipelineAssumption DEF ReportType
<1>4. \A e \in Entries : e.report.size \in Nat
  BY <1>3 DEF Entries
<1>5. \A i \in 1 .. Len(queue) : Sizes(queue)[i] = queue[i].report.size
  BY <1>1 DEF Sizes
<1>6. TotalSize(queue) = Total(Sizes(queue), 1, Len(queue))
  BY DEF TotalSize, Sizes
<1> QED
  BY <1>1, <1>2, <1>4, <1>5, <1>6

LEMMA SizeType ==
  ASSUME NEW queue \in Seq(Entries)
  PROVE  TotalSize(queue) \in Nat
<1>1. /\ Len(queue) \in Nat /\ 1 - 1 <= Len(queue)
      /\ TotalSize(queue) = Total(Sizes(queue), 1, Len(queue))
  BY SizesType
<1>2. \A k \in 1 .. Len(queue) :
        /\ Sizes(queue)[k] \in Int /\ Sizes(queue)[k] \in Nat
        /\ -Sizes(queue)[k] <= Sizes(queue)[k] /\ Sizes(queue)[k] <= Sizes(queue)[k]
  BY SizesType
<1>3. Total(Sizes(queue), 1, Len(queue)) \in Nat
  BY <1>1, <1>2, TotalBounded
<1> QED
  BY <1>1, <1>3

\* A queue found within another holds that part of its bytes.
LEMMA SizeOfPart ==
  ASSUME NEW queue \in Seq(Entries), NEW part \in Seq(Entries), NEW d \in Nat,
         d + Len(part) <= Len(queue), \A i \in 1 .. Len(part) : part[i] = queue[d + i]
  PROVE  TotalSize(part) = Total(Sizes(queue), d + 1, d + Len(part))
<1>1. /\ Len(part) \in Nat /\ Len(queue) \in Nat
      /\ TotalSize(part) = Total(Sizes(part), 1, Len(part))
      /\ \A i \in 1 .. Len(part) : Sizes(part)[i] = part[i].report.size /\ Sizes(part)[i] \in Int
      /\ \A i \in 1 .. Len(queue) : Sizes(queue)[i] = queue[i].report.size
  <2>1. Len(queue) \in Nat /\ \A i \in 1 .. Len(queue) : Sizes(queue)[i] = queue[i].report.size
    BY SizesType
  <2>2. /\ Len(part) \in Nat /\ TotalSize(part) = Total(Sizes(part), 1, Len(part))
        /\ \A i \in 1 .. Len(part) : Sizes(part)[i] = part[i].report.size
        /\ \A i \in 1 .. Len(part) : Sizes(part)[i] \in Nat
    BY SizesType
  <2> QED
    BY <2>1, <2>2
<1>2. \A i \in 1 .. Len(part) : d + i \in 1 .. Len(queue)
  BY <1>1
<1>3. \A i \in 1 .. Len(part) : Sizes(part)[i] = Sizes(queue)[d + i] /\ Sizes(part)[i] \in Int
  BY <1>1, <1>2
<1>4. 1 - 1 <= Len(part) /\ 1 \in Int /\ Len(part) \in Int /\ d \in Int
  BY <1>1
<1>5. Total(Sizes(queue), d + 1, d + Len(part)) = Total(Sizes(part), 1, Len(part))
  BY <1>3, <1>4, TotalMoved
<1> QED
  BY <1>1, <1>5

LEMMA SizeOfEmpty == TotalSize(<<>>) = 0
<1>1. <<>> \in Seq(Entries) /\ Len(<<>>) = 0
  OBVIOUS
<1>2. TotalSize(<<>>) = Total(Sizes(<<>>), 1, 0)
  BY <1>1, SizesType
<1>3. Total(Sizes(<<>>), 1, 1 - 1) = 0
  BY TotalEmpty
<1> QED
  BY <1>2, <1>3

LEMMA SizeOfAppended ==
  ASSUME NEW queue \in Seq(Entries), NEW e \in Entries
  PROVE  TotalSize(Append(queue, e)) = TotalSize(queue) + e.report.size
<1> DEFINE more == Append(queue, e)
           n == Len(queue)
<1>1. /\ more \in Seq(Entries) /\ n \in Nat /\ Len(more) = n + 1
      /\ \A i \in 1 .. n : more[i] = queue[i]
      /\ more[n + 1] = e
  BY AppendProperties, LenProperties
<1> HIDE DEF more
<1>2. /\ TotalSize(more) = Total(Sizes(more), 1, n + 1)
      /\ \A k \in 1 .. n + 1 : Sizes(more)[k] \in Int
      /\ Sizes(more)[n + 1] = e.report.size
  <2>1. n + 1 \in 1 .. n + 1
    BY <1>1
  <2> HIDE DEF n
  <2> QED
    BY <1>1, <2>1, SizesType
<1>3. TotalSize(queue) = Total(Sizes(more), 1, n)
  <2>1. 0 \in Nat /\ 0 + n <= Len(more) /\ 0 + 1 = 1 /\ 0 + n = n
    BY <1>1
  <2>2. \A i \in 1 .. n : i \in Int /\ 0 + i = i
    BY <1>1
  <2>3. \A i \in 1 .. n : queue[i] = more[0 + i]
    BY <1>1, <2>2
  <2>4. ASSUME NEW d \in Nat, d + n <= Len(more), \A i \in 1 .. n : queue[i] = more[d + i]
        PROVE  TotalSize(queue) = Total(Sizes(more), d + 1, d + n)
    BY <1>1, <2>4, SizeOfPart
  <2> HIDE DEF n
  <2>5. TotalSize(queue) = Total(Sizes(more), 0 + 1, 0 + n)
    BY <2>1, <2>3, <2>4
  <2> QED
    BY <2>1, <2>5
<1> HIDE DEF n
<1>4. Total(Sizes(more), 1, n + 1) = Total(Sizes(more), 1, n) + Total(Sizes(more), n + 1, n + 1)
  <2>1. 1 \in Int /\ n \in Int /\ n + 1 \in Int /\ 1 - 1 <= n /\ n <= n + 1
    BY <1>1
  <2> QED
    BY <1>2, <2>1, TotalSplit
<1>5. Total(Sizes(more), n + 1, n + 1) = e.report.size
  <2>1. n + 1 \in Int /\ n + 1 \in 1 .. n + 1
    BY <1>1
  <2>2. Sizes(more)[n + 1] \in Int
    BY <1>2, <2>1
  <2> QED
    BY <1>2, <2>1, <2>2, TotalOfOne
<1> QED
  BY <1>2, <1>3, <1>4, <1>5 DEF more

LEMMA SizeOfParts ==
  ASSUME NEW queue \in Seq(Entries), NEW d \in 0 .. Len(queue)
  PROVE  /\ SubSeq(queue, 1, d) \in Seq(Entries)
         /\ SubSeq(queue, d + 1, Len(queue)) \in Seq(Entries)
         /\ Len(SubSeq(queue, d + 1, Len(queue))) = Len(queue) - d
         /\ TotalSize(SubSeq(queue, d + 1, Len(queue)))
              = TotalSize(queue) - TotalSize(SubSeq(queue, 1, d))
<1> DEFINE n == Len(queue)
           first == SubSeq(queue, 1, d)
           rest == SubSeq(queue, d + 1, n)
<1>1. /\ n \in Nat /\ d \in Nat /\ d <= n
      /\ \A i \in 1 .. n : queue[i] \in Entries
      /\ TotalSize(queue) = Total(Sizes(queue), 1, n)
      /\ \A i \in 1 .. n : Sizes(queue)[i] \in Int
  BY SizesType, ElementOfSeq
<1>2. /\ first \in Seq(Entries) /\ Len(first) = d
      /\ \A i \in 1 .. d : first[i] = queue[i]
  <2>1. 1 \in Int /\ d \in Int /\ \A i \in 1 .. d : queue[i] \in Entries
    BY <1>1
  <2>2. /\ first \in Seq(Entries) /\ Len(first) = IF 1 <= d THEN d - 1 + 1 ELSE 0
        /\ \A i \in 1 .. d - 1 + 1 : first[i] = queue[1 + i - 1]
    <3> HIDE DEF n
    <3> QED
      BY <2>1, SubSeqProperties
  <2>3. d - 1 + 1 = d /\ \A i \in 1 .. d : 1 + i - 1 = i
    BY <1>1
  <2>4. Len(first) = d
    BY <1>1, <2>2
  <2> HIDE DEF first
  <2> QED
    BY <2>2, <2>3, <2>4
<1>3. /\ rest \in Seq(Entries) /\ Len(rest) = n - d
      /\ \A i \in 1 .. n - d : rest[i] = queue[d + i]
  <2>1. d + 1 \in Int /\ n \in Int /\ \A i \in d + 1 .. n : queue[i] \in Entries
    BY <1>1
  <2>2. /\ rest \in Seq(Entries) /\ Len(rest) = IF d + 1 <= n THEN n - (d + 1) + 1 ELSE 0
        /\ \A i \in 1 .. n - (d + 1) + 1 : rest[i] = queue[d + 1 + i - 1]
    <3> HIDE DEF n
    <3> QED
      BY <2>1, SubSeqProperties
  <2>3. n - (d + 1) + 1 = n - d /\ \A i \in 1 .. n - d : d + 1 + i - 1 = d + i
    BY <1>1
  <2>4. Len(rest) = n - d
    <3>1. CASE d + 1 <= n
      BY <1>1, <2>2, <3>1
    <3>2. CASE ~(d + 1 <= n)
      BY <1>1, <2>2, <3>2
    <3> QED
      BY <3>1, <3>2
  <2> HIDE DEF rest
  <2> QED
    BY <2>2, <2>3, <2>4
<1>4. TotalSize(rest) = Total(Sizes(queue), d + 1, n)
  <2>1. d + Len(rest) = n /\ d + Len(rest) <= n
    BY <1>1, <1>3
  <2> HIDE DEF rest
  <2>2. TotalSize(rest) = Total(Sizes(queue), d + 1, d + Len(rest))
    BY <1>1, <1>3, <2>1, SizeOfPart
  <2> QED
    BY <2>1, <2>2
<1>5. TotalSize(first) = Total(Sizes(queue), 1, d)
  <2>1. 0 \in Nat /\ 0 + d <= n /\ 0 + 1 = 1 /\ 0 + d = d
    BY <1>1
  <2>2. \A i \in 1 .. d : i \in Int /\ 0 + i = i
    BY <1>1
  <2>3. \A i \in 1 .. d : first[i] = queue[0 + i]
    BY <1>2, <2>2
  <2> HIDE DEF first
  <2>4. ASSUME NEW c \in Nat, c + d <= n, \A i \in 1 .. d : first[i] = queue[c + i]
        PROVE  TotalSize(first) = Total(Sizes(queue), c + 1, c + d)
    BY <1>2, <2>4, SizeOfPart
  <2> HIDE DEF n
  <2>5. TotalSize(first) = Total(Sizes(queue), 0 + 1, 0 + d)
    BY <2>1, <2>3, <2>4
  <2> QED
    BY <2>1, <2>5
<1>6. Total(Sizes(queue), 1, n) = Total(Sizes(queue), 1, d) + Total(Sizes(queue), d + 1, n)
  <2>1. 1 \in Int /\ d \in Int /\ n \in Int /\ 1 - 1 <= d /\ d <= n
    BY <1>1
  <2> HIDE DEF n
  <2> QED
    BY <1>1, <2>1, TotalSplit
<1>7. TotalSize(first) \in Nat /\ TotalSize(rest) \in Nat
  BY <1>2, <1>3, SizeType
<1> QED
  BY <1>1, <1>2, <1>3, <1>4, <1>5, <1>6, <1>7

LEMMA EnqueueKeepsLimits ==
  ASSUME OrderInv, QueueWithinLimits, NEW report \in Reports, report.size <= MaxPayload,
         Enqueue(report)
  PROVE  QueueWithinLimits'
<1> DEFINE queue == pending_reports_
           size == report.size
           d == Dropped(size)
           kept == SubSeq(queue, d + 1, Len(queue))
           gone == SubSeq(queue, 1, d)
           entry == [report |-> report, seq_id |-> next_seq_id_]
<1>1. /\ pending_reports_' = Append(kept, entry)
      /\ pending_report_bytes_' = pending_report_bytes_ - TotalSize(gone) + size
  BY DEF Enqueue
<1>2. queue \in Seq(Entries) /\ entry \in Entries /\ entry.report = report
  BY DEF OrderInv, SpanTypes, Entries
<1>3. size \in Nat /\ size <= MaxPayload
  BY PipelineAssumption DEF ReportType
<1>4. /\ Len(queue) \in Nat
      /\ d \in 0 .. Len(queue)
      /\ d = Len(queue) \/ Fits(Len(queue) - d, pending_report_bytes_ - TotalSize(gone), size)
  BY <1>2, LenProperties, DroppedType
<1>5. pending_report_bytes_ = TotalSize(queue)
  BY DEF QueueWithinLimits
<1> HIDE DEF d, queue, size, entry
<1>6. /\ kept \in Seq(Entries) /\ gone \in Seq(Entries)
      /\ Len(kept) = Len(queue) - d /\ TotalSize(kept) = TotalSize(queue) - TotalSize(gone)
  BY <1>2, <1>4, SizeOfParts
<1>7. TotalSize(kept) \in Nat /\ Len(kept) \in Nat /\ (d = Len(queue) => TotalSize(kept) = 0)
  <2>1. TotalSize(kept) \in Nat /\ Len(kept) \in Nat
    BY <1>6, SizeType, LenProperties
  <2>2. ASSUME d = Len(queue) PROVE TotalSize(kept) = 0
    <3>1. Len(kept) = 0
      BY <1>4, <1>6, <2>2
    <3>2. kept = <<>>
      BY <1>6, <3>1, EmptySeq
    <3> QED
      BY <3>2, SizeOfEmpty
  <2> QED
    BY <2>1, <2>2
<1>8. /\ TotalSize(Append(kept, entry)) = TotalSize(kept) + size
      /\ Len(Append(kept, entry)) = Len(kept) + 1
  BY <1>2, <1>6, SizeOfAppended, AppendProperties DEF size
<1> HIDE DEF kept, gone
<1>9. pending_report_bytes_' = TotalSize(kept) + size
  BY <1>1, <1>5, <1>6, <1>7
<1>10. CASE d = Len(queue)
  <2>1. TotalSize(kept) + size <= MaxPendingBytes /\ Len(kept) + 1 <= MaxPendingReports
    BY <1>3, <1>4, <1>6, <1>7, <1>10, PipelineAssumption
  <2> QED
    BY <1>1, <1>8, <1>9, <2>1 DEF QueueWithinLimits
<1>11. CASE Fits(Len(queue) - d, pending_report_bytes_ - TotalSize(gone), size)
  <2>1. Len(kept) < MaxPendingReports /\ TotalSize(kept) + size <= MaxPendingBytes
    BY <1>5, <1>6, <1>11 DEF Fits
  <2>2. Len(kept) + 1 <= MaxPendingReports
    BY <1>7, <2>1, PipelineAssumption
  <2> QED
    BY <1>1, <1>8, <1>9, <2>1, <2>2 DEF QueueWithinLimits
<1> QED
  BY <1>4, <1>10, <1>11

LEMMA TakeKeepsLimits ==
  ASSUME OrderInv, QueueWithinLimits, TakeReport
  PROVE  QueueWithinLimits'
<1> DEFINE queue == pending_reports_
           first == Head(queue)
<1>1. /\ queue # <<>> /\ pending_reports_' = Tail(queue)
      /\ pending_report_bytes_' = pending_report_bytes_ - first.report.size
  BY DEF TakeReport
<1>2. queue \in Seq(Entries)
  BY DEF OrderInv, SpanTypes
<1>3. /\ Len(queue) \in Nat /\ Len(queue) >= 1 /\ first = queue[1]
      /\ Tail(queue) = SubSeq(queue, 2, Len(queue)) /\ Len(Tail(queue)) = Len(queue) - 1
      /\ first \in Entries /\ Tail(queue) \in Seq(Entries)
  BY <1>1, <1>2, LenProperties, EmptySeq, HeadTailProperties, TailIsSubSeq
<1> HIDE DEF first, queue
<1>4. Total(Sizes(queue), 1, 1) = first.report.size
  <2>1. 1 \in 1 .. Len(queue)
    BY <1>3
  <2>2. Sizes(queue)[1] = first.report.size /\ Sizes(queue)[1] \in Nat
    BY <1>2, <1>3, <2>1, SizesType
  <2> QED
    BY <2>2, TotalOfOne
<1>5. Total(Sizes(queue), 1, Len(queue)) = Total(Sizes(queue), 1, 1) + Total(Sizes(queue), 2, Len(queue))
  <2>1. 1 \in Int /\ Len(queue) \in Int /\ 1 - 1 <= 1 /\ 1 <= Len(queue) /\ 1 + 1 = 2
    BY <1>3
  <2>2. \A k \in 1 .. Len(queue) : Sizes(queue)[k] \in Int
    BY <1>2, SizesType
  <2>3. Total(Sizes(queue), 1, Len(queue))
          = Total(Sizes(queue), 1, 1) + Total(Sizes(queue), 1 + 1, Len(queue))
    BY <2>1, <2>2, TotalSplit
  <2> QED
    BY <2>1, <2>3
<1>6. TotalSize(Tail(queue)) = Total(Sizes(queue), 2, Len(queue))
  <2>1. /\ 1 \in Nat /\ 1 + Len(Tail(queue)) = Len(queue) /\ 1 + 1 = 2
        /\ 1 + Len(Tail(queue)) <= Len(queue)
    BY <1>3
  <2>2. \A i \in 1 .. Len(Tail(queue)) : Tail(queue)[i] = queue[1 + i]
    <3>1. \A i \in 1 .. Len(queue) - 1 : Tail(queue)[i] = queue[i + 1]
      BY <1>1, <1>2, HeadTailProperties DEF queue
    <3>2. \A i \in 1 .. Len(queue) - 1 : i + 1 = 1 + i
      BY <1>3
    <3> QED
      BY <1>3, <3>1, <3>2
  <2>3. TotalSize(Tail(queue)) = Total(Sizes(queue), 1 + 1, 1 + Len(Tail(queue)))
    BY <1>2, <1>3, <2>1, <2>2, SizeOfPart
  <2> QED
    BY <2>1, <2>3
<1>7. /\ TotalSize(queue) = Total(Sizes(queue), 1, Len(queue))
      /\ TotalSize(queue) \in Nat /\ TotalSize(Tail(queue)) \in Nat
  BY <1>2, <1>3, SizesType, SizeType
<1>8. first.report.size \in Nat
  <2>1. first.report \in Reports
    BY <1>3 DEF Entries
  <2> QED
    BY <2>1, PipelineAssumption DEF ReportType
<1>9. /\ pending_report_bytes_ = TotalSize(queue) /\ TotalSize(queue) <= MaxPendingBytes
      /\ Len(queue) <= MaxPendingReports
  BY DEF QueueWithinLimits, queue
<1>10. pending_report_bytes_' = TotalSize(Tail(queue))
  BY <1>1, <1>4, <1>5, <1>6, <1>7, <1>8, <1>9
<1>11. TotalSize(Tail(queue)) <= MaxPendingBytes /\ Len(Tail(queue)) <= MaxPendingReports
  <2>1. MaxPendingBytes \in Nat /\ MaxPendingReports \in Nat
    BY PipelineAssumption
  <2> QED
    BY <1>3, <1>4, <1>5, <1>6, <1>7, <1>8, <1>9, <2>1
<1> QED
  BY <1>1, <1>10, <1>11 DEF QueueWithinLimits

LEMMA EmptyWithinLimits ==
  ASSUME pending_reports_ = <<>>, pending_report_bytes_ = 0
  PROVE  QueueWithinLimits
<1>1. Len(<<>>) = 0 /\ MaxPendingBytes \in Nat /\ MaxPendingReports \in Nat
  BY PipelineAssumption
<1> QED
  BY <1>1, SizeOfEmpty DEF QueueWithinLimits

\* The byte count that enqueue_input_report_, process_input_report_ and
\* reset_connection_state_ keep of the FIFO is what it holds, so that its unsigned
\* subtractions never go below zero, and neither of its limits is ever exceeded.
THEOREM QueueKeepsLimits == Spec => []QueueWithinLimits
<1>1. Init => QueueWithinLimits
  BY EmptyWithinLimits DEF Init
<1>2. ASSUME OrderInv, QueueWithinLimits, [Next]_vars PROVE QueueWithinLimits'
  <2>1. ASSUME NEW report \in Reports, Notify(report) PROVE QueueWithinLimits'
    <3>1. CASE UNCHANGED fifoVars
      BY <1>2, <3>1 DEF QueueWithinLimits, fifoVars
    <3>2. CASE report.size <= MaxPayload /\ Enqueue(report)
      BY <1>2, <3>2, EnqueueKeepsLimits
    <3> QED
      BY <2>1, <3>1, <3>2 DEF Notify, fifoVars
  <2>2. CASE TakeReport
    BY <1>2, <2>2, TakeKeepsLimits
  <2>3. CASE Connect \/ Disconnect
    <3>1. pending_reports_' = <<>> /\ pending_report_bytes_' = 0
      BY <2>3 DEF Connect, Disconnect, ResetPipeline
    <3>2. Len(<<>>) = 0 /\ MaxPendingBytes \in Nat /\ MaxPendingReports \in Nat
      BY PipelineAssumption
    <3> QED
      BY <3>1, <3>2, SizeOfEmpty DEF QueueWithinLimits
  <2>4. CASE BeginLoop \/ ProcessValue \/ EndLoop \/ Tick \/ UNCHANGED vars
    <3>1. UNCHANGED fifoVars
      BY <2>4 DEF BeginLoop, ProcessValue, PassThrough, EmitRun, AccumulateEvent, FinishReport,
                  EndLoop, Tick, vars
    <3> QED
      BY <1>2, <3>1 DEF QueueWithinLimits, fifoVars
  <2> QED
    BY <1>2, <2>1, <2>2, <2>3, <2>4 DEF Next
<1> QED
  BY <1>1, <1>2, OrderHolds, PTL DEF Spec

-----------------------------------------------------------------------------
(* Types: TypeOK is inductive once it is known that the report in hand is    *)
(* one of the iteration's share.                                             *)

TypeInv == TypeOK /\ (at = "VALUES" => processed < MaxReportsPerLoop)

Buffers == {s \in Seq(EventType) :
              /\ Len(s) <= Capacity
              /\ \A i, j \in DOMAIN s : s[i].field = s[j].field => i = j}

LEMMA EmptyBuffer == <<>> \in Buffers
<1>1. <<>> \in Seq(EventType) /\ Len(<<>>) = 0 /\ DOMAIN <<>> = {} /\ 0 <= Capacity
  BY BufferAssumption
<1> QED
  BY <1>1 DEF Buffers

LEMMA DecodedTypes ==
  ASSUME NEW report \in Reports, NEW seq \in Nat \ {0}, NEW v \in Decodings(report, seq)
  PROVE  v \in Seq(EventType)
<1>1. report \in ReportType /\ MaxSum \in Nat
  BY PipelineAssumption, BufferAssumption
<1>2. CASE report.status = "SHORT"
  BY <1>2 DEF Decodings
<1>3. CASE report.status = "UNDECODABLE"
  <2>1. v = <<Event(Raw, 0, seq)>>
    BY <1>3 DEF Decodings
  <2>2. 0 \in -MaxSum - 1 .. MaxSum
    BY <1>1
  <2>3. Event(Raw, 0, seq) \in EventType
    BY <2>2 DEF Event, EventType
  <2> QED
    BY <2>1, <2>3
<1>4. CASE report.status = "COMPLETE"
  <2> DEFINE places == {i \in DOMAIN FieldOrder : Changed(report, FieldOrder[i])}
             N == Cardinality(places)
             event(i) == Event(FieldOrder[i], report.input[FieldOrder[i]], seq)
  <2>1. PICK changed \in Ascending(places) : v = [k \in DOMAIN changed |-> event(changed[k])]
    BY <1>4 DEF Decodings
  <2>2. N \in Nat
    BY ChangedPlaces
  <2>3. changed \in [1 .. N -> places]
    BY <2>1 DEF Ascending
  <2>4. ASSUME NEW i \in places PROVE event(i) \in EventType
    <3>1. FieldOrder[i] \in Fields
      BY DEF Fields
    <3>2. report.input[FieldOrder[i]] \in (-MaxSum - 1 .. MaxSum) \cup {Absent}
      BY <1>1, <3>1 DEF ReportType
    <3>3. report.input[FieldOrder[i]] \in -MaxSum - 1 .. MaxSum
      BY <3>2 DEF Changed, Says
    <3> QED
      BY <3>1, <3>3 DEF Event, EventType
  <2> HIDE DEF places, N, event
  <2>5. v = [k \in 1 .. N |-> event(changed[k])]
    BY <2>1, <2>3
  <2>6. v \in [1 .. N -> EventType]
    BY <2>3, <2>4, <2>5
  <2> QED
    BY <2>2, <2>6, SeqDef
<1> QED
  BY <1>1, <1>2, <1>3, <1>4 DEF ReportType

LEMMA UpdateTypes ==
  ASSUME TypeOK, UpdateSamplingWindow
  PROVE  /\ sampled_events_' \in Buffers /\ emitted' \in Seq(EventType)
         /\ sampling_window_active_' \in BOOLEAN /\ sampling_window_started_us_' \in Clock
         /\ since_check' \in 0 .. MaxGap
<1>1. /\ sampled_events_ \in Buffers /\ emitted \in Seq(EventType)
      /\ sampled_events_ \in Seq(EventType)
      /\ sampling_window_active_ \in BOOLEAN /\ sampling_window_started_us_ \in Clock
      /\ now \in Clock
  BY DEF TypeOK, Buffers
<1>2. since_check' \in 0 .. MaxGap
  BY PipelineAssumption DEF UpdateSamplingWindow
<1>3. CASE ~WindowElapsed
  BY <1>1, <1>2, <1>3 DEF UpdateSamplingWindow, windowVars
<1>4. CASE WindowElapsed /\ sampled_events_ = <<>>
  BY <1>1, <1>2, <1>4 DEF UpdateSamplingWindow
<1>5. CASE WindowElapsed /\ sampled_events_ # <<>>
  <2>1. emitted \o sampled_events_ \in Seq(EventType)
    BY <1>1, ConcatProperties
  <2> QED
    BY <1>1, <1>2, <1>5, <2>1, EmptyBuffer DEF UpdateSamplingWindow
<1> QED
  BY <1>3, <1>4, <1>5

LEMMA CoalescedInRange ==
  ASSUME NEW a \in EventType, NEW e \in EventType
  PROVE  /\ Coalesced(a, e) \in EventType /\ Coalesced(a, e).field = e.field
<1> DEFINE sum == IF a.field \in SumFields THEN SaturatingAdd(a.value, e.value) ELSE e.value
<1>1. MaxSum \in Nat
  BY BufferAssumption
<1>2. a.value \in -MaxSum - 1 .. MaxSum /\ e.value \in -MaxSum - 1 .. MaxSum
  BY DEF EventType
<1>3. SaturatingAdd(a.value, e.value) \in -MaxSum - 1 .. MaxSum
  BY <1>1, <1>2 DEF SaturatingAdd
<1>4. sum \in -MaxSum - 1 .. MaxSum
  BY <1>2, <1>3
<1>5. Coalesced(a, e) = [e EXCEPT !.value = sum, !.from = a.from]
  BY DEF Coalesced
<1> HIDE DEF sum
<1>6. Coalesced(a, e) = [field |-> e.field, value |-> sum, from |-> a.from, to |-> e.to]
  BY <1>5 DEF EventType
<1> QED
  BY <1>4, <1>6 DEF EventType

LEMMA AccumulatedIsBuffer ==
  ASSUME NEW B \in Buffers, NEW e \in EventType, Accepts(B, e.field)
  PROVE  Accumulated(B, e) \in Buffers
<1>1. /\ B \in Seq(EventType) /\ Len(B) \in Nat /\ DOMAIN B = 1 .. Len(B) /\ Len(B) <= Capacity
      /\ \A i \in DOMAIN B : B[i] \in EventType
      /\ \A i, j \in DOMAIN B : B[i].field = B[j].field => i = j
  BY LenProperties, ElementOfSeq DEF Buffers
<1>2. CASE Holds(B, e.field)
  <2> DEFINE C == [i \in DOMAIN B |-> IF B[i].field = e.field THEN Coalesced(B[i], e) ELSE B[i]]
  <2>1. Accumulated(B, e) = C
    BY <1>2 DEF Accumulated
  <2>2. \A i \in DOMAIN B : C[i] \in EventType /\ C[i].field = B[i].field
    BY <1>1, CoalescedInRange
  <2>3. C = [i \in 1 .. Len(B) |-> C[i]]
    BY <1>1
  <2>4. DOMAIN C = DOMAIN B
    OBVIOUS
  <2> HIDE DEF C
  <2>5. C \in [1 .. Len(B) -> EventType]
    BY <1>1, <2>2, <2>3
  <2>6. C \in Seq(EventType) /\ Len(C) = Len(B)
    BY <1>1, <2>5, SeqDef, LenProperties
  <2>7. \A i, j \in DOMAIN C : C[i].field = C[j].field => i = j
    BY <1>1, <2>2, <2>4
  <2> QED
    BY <1>1, <2>1, <2>6, <2>7 DEF Buffers
<1>3. CASE ~Holds(B, e.field)
  <2> DEFINE C == Append(B, e)
  <2>1. Accumulated(B, e) = C /\ Len(B) < Capacity
    BY <1>3 DEF Accumulated, Accepts
  <2>2. /\ C \in Seq(EventType) /\ Len(C) = Len(B) + 1 /\ DOMAIN C = 1 .. Len(B) + 1
        /\ \A i \in 1 .. Len(B) : C[i] = B[i]
        /\ C[Len(B) + 1] = e
    BY <1>1, AppendProperties, LenProperties
  <2> HIDE DEF C
  <2>3. Len(C) <= Capacity
    BY <1>1, <2>1, <2>2, BufferAssumption
  <2>4. \A i \in DOMAIN C : \/ i \in DOMAIN B /\ C[i] = B[i]
                            \/ i = Len(B) + 1 /\ C[i] = e
    BY <1>1, <2>2
  <2>5. \A i \in DOMAIN B : B[i].field # e.field
    BY <1>3 DEF Holds
  <2>6. ASSUME NEW i \in DOMAIN C, NEW j \in DOMAIN C, C[i].field = C[j].field PROVE i = j
    BY <1>1, <2>4, <2>5, <2>6
  <2> QED
    BY <2>1, <2>2, <2>3, <2>6 DEF Buffers
<1> QED
  BY <1>2, <1>3

Entered == [report : Reports, seq_id : Nat \ {0}]

\* TypeOK, in the parts that different steps touch.
TypesOf(at_, processed_) ==
  /\ at_ \in {"IDLE", "REPORTS", "VALUES"} /\ processed_ \in 0 .. MaxReportsPerLoop
  /\ at_ = "VALUES" => processed_ < MaxReportsPerLoop

FifoTypes ==
  /\ connected \in BOOLEAN /\ event_sampling_interval_us_ \in Intervals
  /\ next_seq_id_ \in 1 .. MaxNotifications + 1
  /\ pending_reports_ \in Seq(Entered) /\ pending_report_bytes_ \in Nat
  /\ last_values \in [AbsoluteFields -> Int]

EventTypes ==
  /\ sampled_events_ \in Buffers
  /\ values \in Seq(EventType) /\ (values # <<>> => at = "VALUES")
  /\ emitted \in Seq(EventType)

WindowTypes ==
  /\ sampling_window_active_ \in BOOLEAN /\ sampling_window_started_us_ \in Clock
  /\ now \in Clock /\ since_check \in 0 .. MaxGap

LEMMA TypeParts ==
  TypeInv <=> FifoTypes /\ EventTypes /\ WindowTypes /\ TypesOf(at, processed)
BY DEF TypeInv, TypeOK, FifoTypes, EventTypes, WindowTypes, TypesOf, Buffers, Entered

LEMMA NotifyTypes ==
  ASSUME FifoTypes, OrderInv', QueueWithinLimits', NEW report \in Reports, Notify(report)
  PROVE  FifoTypes'
<1> DEFINE d == Dropped(report.size)
           kept == SubSeq(pending_reports_, d + 1, Len(pending_reports_))
           entry == [report |-> report, seq_id |-> next_seq_id_]
<1>1. next_seq_id_' \in 1 .. MaxNotifications + 1
  BY PipelineAssumption DEF Notify, FifoTypes
<1>2. entry \in Entered
  BY DEF FifoTypes, Entered
<1>3. Len(pending_reports_) \in Nat /\ \A i \in 1 .. Len(pending_reports_) : pending_reports_[i] \in Entered
  BY LenProperties, ElementOfSeq DEF FifoTypes
<1>4. d \in 0 .. Len(pending_reports_)
  BY <1>3, DroppedType
<1>5. kept \in Seq(Entered)
  <2>1. d + 1 \in Int /\ Len(pending_reports_) \in Int
        /\ \A i \in d + 1 .. Len(pending_reports_) : pending_reports_[i] \in Entered
    BY <1>3, <1>4
  <2> HIDE DEF d
  <2> QED
    BY <2>1, SubSeqProperties
<1>6. pending_reports_' = Append(kept, entry) \/ UNCHANGED fifoVars
  BY DEF Notify, Enqueue
<1> HIDE DEF kept, entry
<1>7. pending_reports_' \in Seq(Entered)
  BY <1>2, <1>5, <1>6, AppendProperties DEF FifoTypes, fifoVars
<1>8. pending_report_bytes_' \in Nat
  <2>1. pending_reports_' \in Seq(Entries)
    BY DEF OrderInv, SpanTypes
  <2> QED
    BY <2>1, SizeType DEF QueueWithinLimits
<1> QED
  BY <1>1, <1>7, <1>8 DEF FifoTypes, Notify

LEMMA TakeTypes ==
  ASSUME TypeInv, OrderInv', QueueWithinLimits', TakeReport
  PROVE  TypeInv'
<1> DEFINE first == Head(pending_reports_)
<1>1. FifoTypes /\ EventTypes /\ WindowTypes /\ TypesOf(at, processed) /\ TypeOK
  BY TypeParts DEF TypeInv
<1>2. /\ first \in Entered /\ Tail(pending_reports_) \in Seq(Entered)
  <2>1. pending_reports_ \in Seq(Entered) /\ pending_reports_ # <<>>
    BY <1>1 DEF FifoTypes, TakeReport
  <2> QED
    BY <2>1, HeadTailProperties
<1>3. /\ pending_reports_' = Tail(pending_reports_) /\ UpdateSamplingWindow
      /\ values' \in Decodings(first.report, first.seq_id)
      /\ at' = "VALUES" /\ processed' = processed /\ processed < MaxReportsPerLoop
      /\ Remember(first.report) /\ now' = now
      /\ UNCHANGED <<connected, event_sampling_interval_us_, next_seq_id_>>
  BY DEF TakeReport, inputVars
<1> HIDE DEF first
<1>4. first.report \in Reports /\ first.seq_id \in Nat \ {0}
  BY <1>2 DEF Entered
<1>5. EventTypes'
  BY <1>1, <1>3, <1>4, DecodedTypes, UpdateTypes DEF EventTypes
<1>6. WindowTypes'
  BY <1>1, <1>3, UpdateTypes DEF WindowTypes
<1>7. TypesOf(at, processed)'
  BY <1>1, <1>3 DEF TypesOf
<1>8. last_values' \in [AbsoluteFields -> Int]
  <2>1. first.report \in ReportType /\ MaxSum \in Nat
    BY <1>4, PipelineAssumption, BufferAssumption
  <2>2. ASSUME NEW f \in AbsoluteFields, Says(first.report, f) PROVE first.report.input[f] \in Int
    <3>1. f \in Fields
      BY DEF AbsoluteFields
    <3> QED
      BY <2>1, <2>2, <3>1 DEF ReportType, Says
  <2>3. last_values' = [f \in AbsoluteFields |->
                          IF first.report.status = "COMPLETE" /\ Says(first.report, f)
                          THEN first.report.input[f] ELSE last_values[f]]
    BY <1>3 DEF Remember
  <2>4. last_values \in [AbsoluteFields -> Int]
    BY <1>1 DEF FifoTypes
  <2> QED
    BY <2>2, <2>3, <2>4
<1>9. pending_report_bytes_' \in Nat
  <2>1. pending_reports_' \in Seq(Entries)
    BY DEF OrderInv, SpanTypes
  <2> QED
    BY <2>1, SizeType DEF QueueWithinLimits
<1>10. FifoTypes'
  BY <1>1, <1>2, <1>3, <1>8, <1>9 DEF FifoTypes
<1> QED
  BY <1>5, <1>6, <1>7, <1>10 DEF TypeInv, TypeOK, FifoTypes, EventTypes, WindowTypes, TypesOf,
                                 Buffers, Entered

LEMMA HeadTypes ==
  ASSUME EventTypes, values # <<>>
  PROVE  Head(values) \in EventType /\ Tail(values) \in Seq(EventType)
BY HeadTailProperties DEF EventTypes

LEMMA PassThroughTypes ==
  ASSUME EventTypes, WindowTypes, PassThrough
  PROVE  EventTypes' /\ WindowTypes'
<1>1. /\ values # <<>> /\ values' = Tail(values) /\ at' = at /\ at = "VALUES"
      /\ emitted' = Append(emitted \o sampled_events_, Head(values)) /\ sampled_events_' = <<>>
      /\ sampling_window_active_' = FALSE
      /\ UNCHANGED <<sampling_window_started_us_, now, since_check>>
  BY DEF PassThrough, clockVars
<1>2. Head(values) \in EventType /\ Tail(values) \in Seq(EventType)
  BY <1>1, HeadTypes
<1>3. emitted \o sampled_events_ \in Seq(EventType)
  BY ConcatProperties DEF EventTypes, Buffers
<1>4. Append(emitted \o sampled_events_, Head(values)) \in Seq(EventType)
  BY <1>2, <1>3, AppendProperties
<1> QED
  BY <1>1, <1>2, <1>4, EmptyBuffer DEF EventTypes, WindowTypes

LEMMA EmitRunTypes ==
  ASSUME EventTypes, WindowTypes, OrderInv, EmitRun
  PROVE  EventTypes' /\ WindowTypes'
<1> DEFINE n == RunLength
           run == SubSeq(values, 1, n)
           rest == SubSeq(values, n + 1, Len(values))
<1>1. /\ at' = at /\ at = "VALUES" /\ emitted' = emitted \o run /\ values' = rest
      /\ sampling_window_active_' = TRUE /\ sampling_window_started_us_' = now
      /\ since_check' = 0 /\ UNCHANGED <<sampled_events_, now>>
  BY DEF EmitRun
<1>2. /\ Len(values) \in Nat /\ n \in 0 .. Len(values)
      /\ \A i \in 1 .. Len(values) : values[i] \in EventType
  BY RunLengthFacts, LenProperties, ElementOfSeq DEF EventTypes, OrderInv, SpanTypes
<1>3. /\ 1 \in Int /\ n \in Int /\ n + 1 \in Int /\ Len(values) \in Int
      /\ \A i \in 1 .. n : values[i] \in EventType
      /\ \A i \in n + 1 .. Len(values) : values[i] \in EventType
  BY <1>2
<1> HIDE DEF n
<1>4. run \in Seq(EventType) /\ rest \in Seq(EventType)
  BY <1>3, SubSeqProperties
<1> HIDE DEF run, rest
<1>5. emitted \o run \in Seq(EventType)
  BY <1>4, ConcatProperties DEF EventTypes
<1>6. 0 \in 0 .. MaxGap
  BY PipelineAssumption
<1> QED
  BY <1>1, <1>4, <1>5, <1>6 DEF EventTypes, WindowTypes

LEMMA AccumulateTypes ==
  ASSUME EventTypes, WindowTypes, OrderInv, AccumulateEvent
  PROVE  EventTypes' /\ WindowTypes'
<1> DEFINE e == Head(values)
<1>1. /\ at' = at /\ at = "VALUES" /\ values' = Tail(values)
      /\ UNCHANGED <<sampling_window_active_, now>>
  BY DEF AccumulateEvent
<1>2. values # <<>>
  <2>1. RunLength > 0 /\ RunLength \in 0 .. Len(values) /\ Len(values) \in Nat
    BY RunLengthFacts, LenProperties DEF AccumulateEvent, OrderInv, SpanTypes
  <2>2. Len(values) # 0
    BY <2>1
  <2> QED
    BY <2>2
<1>3. e \in EventType /\ Tail(values) \in Seq(EventType)
  BY <1>2, HeadTypes
<1>4. sampled_events_ \in Buffers /\ emitted \o sampled_events_ \in Seq(EventType)
  BY ConcatProperties DEF EventTypes, Buffers
<1> HIDE DEF e
<1>5. CASE /\ Accepts(sampled_events_, e.field)
           /\ sampled_events_' = Accumulated(sampled_events_, e)
           /\ UNCHANGED <<emitted, sampling_window_started_us_, since_check>>
  <2>1. sampled_events_' \in Buffers
    BY <1>3, <1>4, <1>5, AccumulatedIsBuffer
  <2> QED
    BY <1>1, <1>3, <1>5, <2>1 DEF EventTypes, WindowTypes
<1>6. CASE /\ emitted' = emitted \o sampled_events_
           /\ sampled_events_' = Accumulated(<<>>, e)
           /\ sampling_window_started_us_' = now /\ since_check' = 0
  <2>1. Accepts(<<>>, e.field)
    <3>1. Len(<<>>) = 0 /\ 0 < Capacity
      BY BufferAssumption
    <3> QED
      BY <3>1 DEF Accepts
  <2>2. sampled_events_' \in Buffers
    BY <1>3, <1>6, <2>1, EmptyBuffer, AccumulatedIsBuffer
  <2>3. 0 \in 0 .. MaxGap
    BY PipelineAssumption
  <2> QED
    BY <1>1, <1>3, <1>4, <1>6, <2>2, <2>3 DEF EventTypes, WindowTypes
<1> QED
  BY <1>5, <1>6 DEF AccumulateEvent, e

LEMMA QuietTypes ==
  ASSUME TypeInv, BeginLoop \/ FinishReport \/ EndLoop \/ Connect \/ Disconnect \/ Tick
  PROVE  FifoTypes' /\ EventTypes' /\ WindowTypes' /\ TypesOf(at, processed)'
<1>1. FifoTypes /\ EventTypes /\ WindowTypes /\ TypesOf(at, processed) /\ TypeOK
  BY TypeParts DEF TypeInv
<1>2. MaxReportsPerLoop \in Nat /\ MaxReportsPerLoop > 0 /\ MaxGap \in Nat /\ ClockModulus \in Nat \ {0}
  BY PipelineAssumption
<1>3. CASE BeginLoop \/ EndLoop
  <2>1. /\ UpdateSamplingWindow /\ at # "VALUES" /\ at' \in {"IDLE", "REPORTS"}
        /\ processed' \in {0, processed} /\ values' = values /\ now' = now
        /\ UNCHANGED <<inputVars, event_sampling_interval_us_, fifoVars, last_values>>
    BY <1>3 DEF BeginLoop, EndLoop
  <2>2. EventTypes'
    BY <1>1, <2>1, UpdateTypes DEF EventTypes
  <2>3. WindowTypes'
    BY <1>1, <2>1, UpdateTypes DEF WindowTypes
  <2>4. FifoTypes'
    BY <1>1, <2>1 DEF FifoTypes, inputVars, fifoVars
  <2>5. TypesOf(at, processed)'
    BY <1>1, <1>2, <2>1 DEF TypesOf
  <2> QED
    BY <2>2, <2>3, <2>4, <2>5
<1>4. CASE FinishReport
  <2>1. /\ at = "VALUES" /\ at' = "REPORTS" /\ processed' = processed + 1 /\ values = <<>>
        /\ UNCHANGED <<inputVars, event_sampling_interval_us_, fifoVars, last_values, windowVars,
                       values, clockVars, emitted>>
    BY <1>4 DEF FinishReport
  <2>2. FifoTypes' /\ EventTypes' /\ WindowTypes'
    BY <1>1, <2>1 DEF FifoTypes, EventTypes, WindowTypes, inputVars, fifoVars, windowVars, clockVars
  <2>3. TypesOf(at, processed)'
    BY <1>1, <1>2, <2>1 DEF TypesOf
  <2> QED
    BY <2>2, <2>3
<1>5. CASE Connect \/ Disconnect
  <2>1. /\ at = "IDLE" /\ connected' \in BOOLEAN /\ ResetPipeline
        /\ UNCHANGED <<next_seq_id_, event_sampling_interval_us_, sampling_window_started_us_,
                       loopVars, clockVars>>
    BY <1>5 DEF Connect, Disconnect
  <2>2. <<>> \in Seq(Entered) /\ <<>> \in Seq(EventType) /\ 0 \in Nat
        /\ [f \in AbsoluteFields |-> 0] \in [AbsoluteFields -> Int]
    OBVIOUS
  <2>3. FifoTypes'
    BY <1>1, <2>1, <2>2 DEF FifoTypes, ResetPipeline
  <2>4. EventTypes'
    BY <1>1, <2>1, <2>2, EmptyBuffer DEF EventTypes, ResetPipeline, loopVars
  <2>5. WindowTypes' /\ TypesOf(at, processed)'
    BY <1>1, <2>1 DEF WindowTypes, TypesOf, ResetPipeline, loopVars, clockVars
  <2> QED
    BY <2>3, <2>4, <2>5
<1>6. CASE Tick
  <2>1. /\ since_check < MaxGap /\ since_check' = since_check + 1
        /\ now' = (now + 1) % ClockModulus
        /\ UNCHANGED <<inputVars, event_sampling_interval_us_, fifoVars, last_values, windowVars,
                       loopVars, emitted>>
    BY <1>6 DEF Tick
  <2>2. now' \in Clock /\ since_check' \in 0 .. MaxGap
    <3>1. now \in Clock /\ since_check \in 0 .. MaxGap
      BY <1>1 DEF WindowTypes
    <3>2. (now + 1) % ClockModulus \in 0 .. ClockModulus - 1
      BY <1>2, <3>1 DEF Clock
    <3> QED
      BY <1>2, <2>1, <3>1, <3>2 DEF Clock
  <2>3. FifoTypes' /\ EventTypes' /\ TypesOf(at, processed)'
    BY <1>1, <2>1 DEF FifoTypes, EventTypes, TypesOf, inputVars, fifoVars, windowVars, loopVars
  <2>4. WindowTypes'
    BY <1>1, <2>1, <2>2 DEF WindowTypes, windowVars
  <2> QED
    BY <2>3, <2>4
<1> QED
  BY <1>3, <1>4, <1>5, <1>6

LEMMA TypeStep ==
  ASSUME TypeInv, OrderInv, OrderInv', QueueWithinLimits', [Next]_vars
  PROVE  TypeInv'
<1>1. FifoTypes /\ EventTypes /\ WindowTypes /\ TypesOf(at, processed) /\ TypeOK
  BY TypeParts DEF TypeInv
<1>2. ASSUME FifoTypes', EventTypes', WindowTypes', TypesOf(at, processed)'
      PROVE  TypeInv'
  BY <1>2 DEF TypeInv, TypeOK, FifoTypes, EventTypes, WindowTypes, TypesOf, Buffers, Entered
<1>3. ASSUME NEW report \in Reports, Notify(report) PROVE TypeInv'
  <2>1. FifoTypes'
    BY <1>1, <1>3, NotifyTypes
  <2>2. EventTypes' /\ WindowTypes' /\ TypesOf(at, processed)'
    BY <1>1, <1>3 DEF Notify, EventTypes, WindowTypes, TypesOf, windowVars, loopVars, clockVars
  <2> QED
    BY <1>2, <2>1, <2>2
<1>4. CASE TakeReport
  BY <1>4, TakeTypes
<1>5. CASE PassThrough \/ EmitRun \/ AccumulateEvent
  <2>1. EventTypes' /\ WindowTypes'
    BY <1>1, <1>5, PassThroughTypes, EmitRunTypes, AccumulateTypes
  <2>2. FifoTypes' /\ TypesOf(at, processed)'
    <3>1. UNCHANGED <<inputVars, event_sampling_interval_us_, fifoVars, last_values, at, processed>>
      BY <1>5 DEF PassThrough, EmitRun, AccumulateEvent
    <3> QED
      BY <1>1, <3>1 DEF FifoTypes, TypesOf, inputVars, fifoVars
  <2> QED
    BY <1>2, <2>1, <2>2
<1>6. CASE BeginLoop \/ FinishReport \/ EndLoop \/ Connect \/ Disconnect \/ Tick
  BY <1>2, <1>6, QuietTypes
<1>7. CASE UNCHANGED vars
  BY <1>7 DEF TypeInv, TypeOK, vars, inputVars, fifoVars, windowVars, loopVars, clockVars
<1> QED
  BY <1>3, <1>4, <1>5, <1>6, <1>7 DEF Next, ProcessValue

LEMMA TypesHold == Spec => []TypeInv
<1>1. Init => TypeInv
  <2> SUFFICES ASSUME Init PROVE TypeInv
    OBVIOUS
  <2>1. /\ MaxReportsPerLoop \in Nat /\ MaxReportsPerLoop > 0 /\ MaxGap \in Nat
        /\ ClockModulus \in Nat /\ ClockModulus > 0 /\ MaxNotifications \in Nat
    BY PipelineAssumption
  <2>2. <<>> \in Seq(Entered) /\ <<>> \in Seq(EventType)
        /\ [f \in AbsoluteFields |-> 0] \in [AbsoluteFields -> Int]
    OBVIOUS
  <2>3. FifoTypes
    <3>1. /\ connected \in BOOLEAN /\ event_sampling_interval_us_ \in Intervals
          /\ next_seq_id_ = 1 /\ pending_reports_ = <<>> /\ pending_report_bytes_ = 0
          /\ last_values = [f \in AbsoluteFields |-> 0]
      BY DEF Init
    <3>2. 1 \in 1 .. MaxNotifications + 1 /\ 0 \in Nat
      BY <2>1
    <3> QED
      BY <2>2, <3>1, <3>2 DEF FifoTypes
  <2>4. EventTypes
    BY <2>2, EmptyBuffer DEF Init, EventTypes
  <2>5. WindowTypes /\ TypesOf(at, processed)
    <3>1. /\ sampling_window_active_ \in BOOLEAN /\ sampling_window_started_us_ = 0
          /\ now \in Clock /\ since_check = 0 /\ at = "IDLE" /\ processed = 0
      BY DEF Init
    <3>2. 0 \in Clock /\ 0 \in 0 .. MaxGap /\ 0 \in 0 .. MaxReportsPerLoop
      BY <2>1 DEF Clock
    <3> QED
      BY <3>1, <3>2 DEF WindowTypes, TypesOf
  <2> QED
    BY <2>3, <2>4, <2>5, TypeParts
<1>2. TypeInv /\ OrderInv /\ OrderInv' /\ QueueWithinLimits' /\ [Next]_vars => TypeInv'
  BY TypeStep
<1> QED
  BY <1>1, <1>2, OrderHolds, QueueKeepsLimits, PTL DEF Spec

\* Every variable keeps its type: in particular the buffer never holds two events of a
\* field or more events than it has room for, no sum leaves int64_t, and a value
\* waits to be emitted only inside process_decoded_values_.
THEOREM PipelineTypes == Spec => []TypeOK
<1>1. TypeInv => TypeOK
  BY DEF TypeInv
<1> QED
  BY <1>1, TypesHold, PTL

-----------------------------------------------------------------------------
(* What the consumer has been shown: the value of a field after some of the  *)
(* events is that of the last one of the field among them.                   *)

LastPlace(events, n, field, k) ==
  /\ k \in 1 .. n /\ events[k].field = field
  /\ \A j \in k + 1 .. n : events[j].field # field

NoPlace(events, n, field) == \A k \in 1 .. n : events[k].field # field

LEMMA LastPlaceExists ==
  ASSUME NEW events, NEW n \in Nat, NEW field
  PROVE  NoPlace(events, n, field) \/ \E k \in 1 .. n : LastPlace(events, n, field, k)
<1> SUFFICES ASSUME ~NoPlace(events, n, field)
             PROVE  \E k \in 1 .. n : LastPlace(events, n, field, k)
  OBVIOUS
<1> DEFINE back == {d \in 0 .. n - 1 : events[n - d].field = field}
<1>1. back # {}
  <2>1. PICK k \in 1 .. n : events[k].field = field
    BY DEF NoPlace
  <2>2. n - k \in 0 .. n - 1 /\ n - (n - k) = k
    OBVIOUS
  <2>3. n - k \in back
    BY <2>1, <2>2
  <2> QED
    BY <2>3
<1>2. back \in SUBSET Nat
  OBVIOUS
<1>3. PICK d \in back : \A c \in 0 .. d - 1 : c \notin back
  <2> HIDE DEF back
  <2> QED
    BY <1>1, <1>2, LeastElement
<1>4. n - d \in 1 .. n /\ events[n - d].field = field /\ d \in 0 .. n - 1
  BY <1>3
<1>5. ASSUME NEW j \in (n - d) + 1 .. n PROVE events[j].field # field
  <2>1. n - j \in 0 .. d - 1 /\ n - j \in 0 .. n - 1 /\ n - (n - j) = j
    BY <1>4
  <2>2. n - j \notin back
    BY <1>3, <2>1
  <2> QED
    BY <2>1, <2>2
<1> QED
  BY <1>4, <1>5 DEF LastPlace

LEMMA ValueAtLastPlace ==
  ASSUME NEW events, NEW n \in Nat, NEW field, NEW k, LastPlace(events, n, field, k)
  PROVE  ValueAfter(events, n, field) = events[k].value
<1> DEFINE of == {i \in 1 .. n : events[i].field = field}
<1>1. k \in of /\ k \in 1 .. n
  BY DEF LastPlace
<1>2. ASSUME NEW y \in of PROVE k >= y
  <2>1. y \in 1 .. n /\ ~(y \in k + 1 .. n)
    BY DEF LastPlace
  <2> QED
    BY <1>1, <2>1
<1>3. \A x \in of : (\A y \in of : x >= y) => x = k
  <2> SUFFICES ASSUME NEW x \in of, x >= k PROVE x = k
    BY <1>1
  <2>1. k >= x /\ x \in 1 .. n
    BY <1>2
  <2> QED
    BY <1>1, <2>1
<1>4. ValueAfter(events, n, field) = IF of = {} THEN 0 ELSE events[Max(of)].value
  BY DEF ValueAfter
<1> HIDE DEF of
<1>5. Max(of) = k
  BY <1>1, <1>2, <1>3 DEF Max
<1> QED
  BY <1>1, <1>4, <1>5

LEMMA ValueOfNoPlace ==
  ASSUME NEW events, NEW n, NEW field, NoPlace(events, n, field)
  PROVE  ValueAfter(events, n, field) = 0
<1>1. {i \in 1 .. n : events[i].field = field} = {}
  BY DEF NoPlace
<1> QED
  BY <1>1 DEF ValueAfter

LEMMA ValueOfPrefix ==
  ASSUME NEW s, NEW t, NEW n \in Nat, NEW field, \A i \in 1 .. n : s[i] = t[i]
  PROVE  ValueAfter(s, n, field) = ValueAfter(t, n, field)
<1>1. CASE NoPlace(t, n, field)
  <2>1. NoPlace(s, n, field)
    BY <1>1 DEF NoPlace
  <2> QED
    BY <1>1, <2>1, ValueOfNoPlace
<1>2. CASE \E k \in 1 .. n : LastPlace(t, n, field, k)
  <2>1. PICK k \in 1 .. n : LastPlace(t, n, field, k)
    BY <1>2
  <2>2. k + 1 .. n \subseteq 1 .. n
    OBVIOUS
  <2>3. LastPlace(s, n, field, k)
    BY <2>1, <2>2 DEF LastPlace
  <2> QED
    BY <2>1, <2>3, ValueAtLastPlace
<1> QED
  BY <1>1, <1>2, LastPlaceExists

\* A report says at most one thing of a field, and says it exactly if it changed.
LEMMA DecodedOnce ==
  ASSUME NEW report \in Reports, NEW seq, NEW d \in Decodings(report, seq),
         NEW field \in Fields
  PROVE  /\ Len(d) \in Nat /\ DOMAIN d = 1 .. Len(d)
         /\ \A k \in DOMAIN d :
              d[k].field = field => /\ report.status = "COMPLETE" /\ Changed(report, field)
                                    /\ d[k].value = report.input[field]
         /\ \A j, k \in DOMAIN d : d[j].field = field /\ d[k].field = field => j = k
         /\ report.status = "COMPLETE" /\ Changed(report, field) =>
              \E k \in DOMAIN d : d[k].field = field
<1>1. CASE report.status = "SHORT"
  <2>1. d = <<>>
    BY <1>1 DEF Decodings
  <2> QED
    BY <1>1, <2>1
<1>2. CASE report.status = "UNDECODABLE"
  <2>1. d = <<Event(Raw, 0, seq)>>
    BY <1>2 DEF Decodings
  <2>2. Len(d) = 1 /\ DOMAIN d = 1 .. 1 /\ d[1].field = Raw
    BY <2>1 DEF Event
  <2>3. field # Raw
    BY PipelineAssumption
  <2>4. \A k \in 1 .. 1 : k = 1
    OBVIOUS
  <2> QED
    BY <1>2, <2>2, <2>3, <2>4
<1>3. CASE report.status = "COMPLETE"
  <2> DEFINE places == {i \in DOMAIN FieldOrder : Changed(report, FieldOrder[i])}
             N == Cardinality(places)
             event(i) == Event(FieldOrder[i], report.input[FieldOrder[i]], seq)
  <2>1. PICK changed \in Ascending(places) : d = [k \in DOMAIN changed |-> event(changed[k])]
    BY <1>3 DEF Decodings
  <2>2. N \in Nat /\ IsFiniteSet(places)
    BY ChangedPlaces
  <2>3. /\ changed \in [1 .. N -> places]
        /\ \A i, j \in 1 .. N : i < j => changed[i] < changed[j]
    BY <2>1 DEF Ascending
  <2>4. places \subseteq Int
    BY PipelineAssumption, LenProperties
  <2>5. \A i, j \in 1 .. N : changed[i] = changed[j] => i = j
    <3> SUFFICES ASSUME NEW i \in 1 .. N, NEW j \in 1 .. N, changed[i] = changed[j], i # j
                 PROVE  FALSE
      OBVIOUS
    <3>1. i < j \/ j < i
      OBVIOUS
    <3>2. changed[i] < changed[j] \/ changed[j] < changed[i]
      BY <2>3, <3>1
    <3> HIDE DEF places, N
    <3>3. changed[i] \in Int
      BY <2>3, <2>4
    <3> QED
      BY <3>2, <3>3
  <2>6. \A p \in places : \E k \in 1 .. N : changed[k] = p
    <3>1. changed \in Injection(1 .. N, places)
      <4> HIDE DEF places, N
      <4> QED
        BY <2>3, <2>5 DEF Injection, IsInjective
    <3>2. Cardinality(1 .. N) = N
      <4> HIDE DEF N
      <4>1. 1 \in Int /\ N \in Int
        BY <2>2
      <4>2. Cardinality(1 .. N) = IF 1 > N THEN 0 ELSE N - 1 + 1
        BY <4>1, FS_Interval
      <4> QED
        BY <2>2, <4>2
    <3>3. changed \in Surjection(1 .. N, places)
      <4> HIDE DEF places
      <4> QED
        BY <2>2, <3>1, <3>2, FS_Injection
    <3> QED
      BY <3>3 DEF Surjection
  <2>7. \A i \in places : /\ event(i).field = FieldOrder[i]
                          /\ event(i).value = report.input[FieldOrder[i]]
                          /\ Changed(report, FieldOrder[i])
    BY DEF Event
  <2>8. \A i, j \in places : FieldOrder[i] = FieldOrder[j] => i = j
    BY PipelineAssumption
  <2>9. Changed(report, field) => \E p \in places : FieldOrder[p] = field
    BY DEF Fields
  <2> HIDE DEF places, N, event
  <2>10. d = [k \in 1 .. N |-> event(changed[k])]
    BY <2>1, <2>3
  <2>11. Len(d) = N /\ DOMAIN d = 1 .. N
    <3>1. d \in Seq({event(i) : i \in places})
      BY <2>2, <2>3, <2>10, SeqDef
    <3> QED
      BY <2>2, <2>10, <3>1, LenProperties
  <2>12. \A k \in 1 .. N : changed[k] \in places /\ d[k] = event(changed[k])
    BY <2>3, <2>10
  <2>13. \A k \in DOMAIN d :
           d[k].field = field => Changed(report, field) /\ d[k].value = report.input[field]
    BY <2>7, <2>11, <2>12
  <2>14. \A j, k \in DOMAIN d : d[j].field = field /\ d[k].field = field => j = k
    BY <2>5, <2>7, <2>8, <2>11, <2>12
  <2>15. Changed(report, field) => \E k \in DOMAIN d : d[k].field = field
    BY <2>6, <2>7, <2>9, <2>11, <2>12
  <2> QED
    BY <1>3, <2>2, <2>11, <2>13, <2>14, <2>15
<1> QED
  BY <1>1, <1>2, <1>3, PipelineAssumption DEF ReportType

Alternating(events) ==
  \A i \in DOMAIN events :
    events[i].field \in AbsoluteFields \ LatestFields =>
      events[i].value # ValueAfter(events, i - 1, events[i].field)

\* BarriersAlternate of everything on its way; last_values is what the consumer will
\* have been shown once it is out.
ShownInv ==
  /\ Alternating(Outgoing)
  /\ \A f \in AbsoluteFields : ValueAfter(Outgoing, Len(Outgoing), f) = last_values[f]

LEMMA ValueOfConcat ==
  ASSUME NEW s \in Seq(Spans), NEW t \in Seq(Spans), NEW m \in 0 .. Len(t), NEW field,
         \A j \in 1 .. m : t[j].field # field
  PROVE  ValueAfter(s \o t, Len(s) + m, field) = ValueAfter(s, Len(s), field)
<1> DEFINE n == Len(s)
           u == s \o t
<1>1. n \in Nat /\ Len(t) \in Nat /\ DOMAIN s = 1 .. n /\ DOMAIN t = 1 .. Len(t)
  BY LenProperties
<1>2. /\ \A i \in DOMAIN s : u[i] = s[i]
      /\ \A j \in DOMAIN t : u[n + j] = t[j]
  BY Places
<1>3. \A i \in 1 .. n : u[i] = s[i]
  BY <1>1, <1>2
<1> HIDE DEF n, u
<1>4. ASSUME NEW i \in n + 1 .. n + m PROVE u[i].field # field
  <2>1. i - n \in 1 .. m /\ i - n \in DOMAIN t /\ n + (i - n) = i
    BY <1>1
  <2>2. u[n + (i - n)] = t[i - n]
    BY <1>2, <2>1
  <2> QED
    BY <2>1, <2>2
<1>5. n + m \in Nat
  BY <1>1
<1>6. CASE NoPlace(s, n, field)
  <2>1. \A i \in 1 .. n + m : i \in 1 .. n \/ i \in n + 1 .. n + m
    BY <1>1
  <2>2. NoPlace(u, n + m, field)
    BY <1>3, <1>4, <1>6, <2>1 DEF NoPlace
  <2>3. ValueAfter(u, n + m, field) = ValueAfter(s, n, field)
    BY <1>6, <2>2, ValueOfNoPlace
  <2> QED
    BY <2>3 DEF u, n
<1>7. CASE \E k \in 1 .. n : LastPlace(s, n, field, k)
  <2>1. PICK k \in 1 .. n : LastPlace(s, n, field, k)
    BY <1>7
  <2>2. /\ \A i \in k + 1 .. n + m : i \in k + 1 .. n \/ i \in n + 1 .. n + m
        /\ k + 1 .. n \subseteq 1 .. n /\ k \in 1 .. n + m
    BY <1>1
  <2>3. LastPlace(u, n + m, field, k)
    BY <1>3, <1>4, <2>1, <2>2 DEF LastPlace
  <2>4. u[k] = s[k]
    BY <1>3
  <2>5. ValueAfter(u, n + m, field) = u[k].value /\ ValueAfter(s, n, field) = s[k].value
    <3>1. ValueAfter(u, n + m, field) = u[k].value
      BY <1>5, <2>3, ValueAtLastPlace
    <3>2. ValueAfter(s, n, field) = s[k].value
      BY <1>1, <2>1, ValueAtLastPlace
    <3> QED
      BY <3>1, <3>2
  <2> QED
    BY <2>4, <2>5 DEF u, n
<1> QED
  BY <1>1, <1>6, <1>7, LastPlaceExists DEF n

LEMMA TakenShown ==
  ASSUME TypeInv, OrderInv, ShownInv, TakeReport
  PROVE  ShownInv'
<1> DEFINE first == Head(pending_reports_)
           d == values'
           s == Outgoing
           n == Len(s)
<1>1. /\ first.report \in Reports /\ first.seq_id \in Nat \ {0}
      /\ d \in Decodings(first.report, first.seq_id) /\ Remember(first.report)
  <2>1. pending_reports_ \in Seq(Entered) /\ pending_reports_ # <<>>
    BY TypeParts DEF FifoTypes, TakeReport
  <2>2. first \in Entered
    BY <2>1, HeadTailProperties
  <2> QED
    BY <2>2 DEF TakeReport, Entered
<1>2. s \in Seq(Spans) /\ d \in Seq(Spans) /\ Outgoing' = s \o d
  <2>1. s \in Seq(Spans)
    BY ConcatProperties DEF OrderInv, SpanTypes, Outgoing
  <2>2. first.seq_id \in Nat
    BY <1>1
  <2>3. d \in Seq(Spans)
    BY <1>1, <2>2, DecodingType
  <2> QED
    BY <2>1, <2>3, TakeReportOrder
<1> DEFINE report == first.report
           u == s \o d
<1>3. report \in Reports
  BY <1>1
<1>4. /\ \A k \in DOMAIN d, f \in Fields :
           d[k].field = f => /\ report.status = "COMPLETE" /\ Changed(report, f)
                             /\ d[k].value = report.input[f]
      /\ \A j, k \in DOMAIN d, f \in Fields : d[j].field = f /\ d[k].field = f => j = k
      /\ \A f \in Fields : report.status = "COMPLETE" /\ Changed(report, f) =>
                             \E k \in DOMAIN d : d[k].field = f
  BY <1>1, DecodedOnce
<1>5. \A f \in AbsoluteFields :
        /\ f \in Fields /\ f \notin SumFields
        /\ last_values'[f] = IF report.status = "COMPLETE" /\ Says(report, f)
                             THEN report.input[f] ELSE last_values[f]
        /\ Changed(report, f) <=> Says(report, f) /\ report.input[f] # last_values[f]
  BY <1>1 DEF Remember, AbsoluteFields, Changed
<1>6. /\ Alternating(s)
      /\ \A f \in AbsoluteFields : ValueAfter(s, n, f) = last_values[f]
  BY DEF ShownInv
<1>7. /\ n \in Nat /\ Len(d) \in Nat /\ DOMAIN s = 1 .. n /\ DOMAIN d = 1 .. Len(d)
      /\ Len(u) = n + Len(d)
  BY <1>2, LenProperties, ConcatProperties
<1>8. /\ \A i \in DOMAIN s : u[i] = s[i]
      /\ \A j \in DOMAIN d : u[n + j] = d[j]
      /\ \A k \in DOMAIN u : k \in DOMAIN s \/ \E j \in DOMAIN d : k = n + j
  BY <1>2, Places
<1> HIDE DEF s, d, report, first
<1>9. ASSUME NEW m \in 0 .. Len(d), NEW f \in AbsoluteFields, \A j \in 1 .. m : d[j].field # f
      PROVE  ValueAfter(u, n + m, f) = last_values[f]
  BY <1>2, <1>6, <1>9, ValueOfConcat
<1> HIDE DEF u, n
<1>10. ASSUME NEW f \in AbsoluteFields PROVE ValueAfter(u, Len(u), f) = last_values'[f]
  <2>1. CASE \E k \in DOMAIN d : d[k].field = f
    <3>1. PICK k \in DOMAIN d : d[k].field = f
      BY <2>1
    <3>2. ASSUME NEW i \in n + k + 1 .. n + Len(d) PROVE u[i].field # f
      <4>1. i - n \in DOMAIN d /\ n + (i - n) = i /\ i - n # k
        BY <1>7, <3>1
      <4>2. u[n + (i - n)] = d[i - n]
        BY <1>8, <4>1
      <4>3. d[i - n].field # f
        BY <1>4, <1>5, <3>1, <4>1
      <4> QED
        BY <4>1, <4>2, <4>3
    <3>3. u[n + k] = d[k] /\ n + k \in 1 .. n + Len(d) /\ n + Len(d) \in Nat
      BY <1>7, <1>8, <3>1
    <3>4. LastPlace(u, n + Len(d), f, n + k)
      BY <3>1, <3>2, <3>3 DEF LastPlace
    <3>5. ValueAfter(u, n + Len(d), f) = d[k].value
      BY <3>3, <3>4, ValueAtLastPlace
    <3>6. d[k].value = last_values'[f]
      BY <1>4, <1>5, <3>1 DEF Changed
    <3> QED
      BY <1>7, <3>5, <3>6
  <2>2. CASE ~\E k \in DOMAIN d : d[k].field = f
    <3>1. Len(d) \in 0 .. Len(d) /\ \A j \in 1 .. Len(d) : d[j].field # f
      BY <1>7, <2>2
    <3>2. ValueAfter(u, n + Len(d), f) = last_values[f]
      BY <1>9, <3>1
    <3>3. last_values'[f] = last_values[f]
      BY <1>4, <1>5, <2>2
    <3> QED
      BY <1>7, <3>2, <3>3
  <2> QED
    BY <2>1, <2>2
<1>11. ASSUME NEW i \in DOMAIN u, u[i].field \in AbsoluteFields \ LatestFields
       PROVE  u[i].value # ValueAfter(u, i - 1, u[i].field)
  <2>1. CASE i \in DOMAIN s
    <3>1. /\ i - 1 \in Nat /\ \A j \in 1 .. i - 1 : u[j] = s[j]
          /\ u[i] = s[i]
      BY <1>7, <1>8, <2>1
    <3>2. ValueAfter(u, i - 1, u[i].field) = ValueAfter(s, i - 1, s[i].field)
      BY <3>1, ValueOfPrefix
    <3> QED
      BY <1>6, <1>11, <2>1, <3>1, <3>2 DEF Alternating
  <2>2. CASE \E j \in DOMAIN d : i = n + j
    <3>1. PICK k \in DOMAIN d : i = n + k
      BY <2>2
    <3> DEFINE f == u[i].field
    <3>2. f \in AbsoluteFields /\ f \in Fields /\ u[i] = d[k] /\ d[k].field = f
      BY <1>5, <1>8, <1>11, <3>1
    <3> HIDE DEF f
    <3>3. k - 1 \in 0 .. Len(d) /\ n + (k - 1) = i - 1 /\ 1 .. k - 1 \subseteq DOMAIN d
          /\ k \notin 1 .. k - 1
      BY <1>7, <3>1
    <3>4. \A j \in 1 .. k - 1 : d[j].field # f
      BY <1>4, <3>2, <3>3
    <3>5. ValueAfter(u, n + (k - 1), f) = last_values[f]
      BY <1>9, <3>2, <3>3, <3>4
    <3>6. d[k].value # last_values[f]
      BY <1>4, <1>5, <3>2
    <3> QED
      BY <3>2, <3>3, <3>5, <3>6 DEF f
  <2> QED
    BY <1>8, <2>1, <2>2
<1>12. Outgoing' = u
  BY <1>2 DEF u
<1> QED
  BY <1>10, <1>11, <1>12 DEF ShownInv, Alternating

\* Place p of the N in O is left, and what was there joins place q.
JoinedAt(O, O2, N, p, q) ==
  /\ N \in Nat /\ p \in 1 .. N /\ q \in 1 .. p - 1
  /\ \A i \in 1 .. p - 1 : O2[i].field = O[i].field /\ (i # q => O2[i] = O[i])
  /\ \A i \in p .. N - 1 : O2[i] = O[i + 1]
  /\ O[q].field = O[p].field /\ \A i \in q + 1 .. p - 1 : O[i].field # O[p].field

LEMMA JoinKeepsValues ==
  ASSUME NEW O, NEW O2, NEW N, NEW p, NEW q, JoinedAt(O, O2, N, p, q), NEW f
  PROVE  /\ f # O[p].field =>
              /\ \A n \in 0 .. p - 1 : ValueAfter(O2, n, f) = ValueAfter(O, n, f)
              /\ \A n \in p - 1 .. N - 1 : ValueAfter(O2, n, f) = ValueAfter(O, n + 1, f)
         /\ f = O[p].field /\ O2[q].value = O[p].value =>
              ValueAfter(O2, N - 1, f) = ValueAfter(O, N, f)
<1>0. /\ N \in Nat /\ p \in 1 .. N /\ q \in 1 .. p - 1
      /\ \A i \in 1 .. p - 1 : O2[i].field = O[i].field /\ (O[i].field # O[p].field => O2[i] = O[i])
      /\ \A i \in p .. N - 1 : O2[i] = O[i + 1]
      /\ O[q].field = O[p].field /\ \A i \in q + 1 .. p - 1 : O[i].field # O[p].field
  BY DEF JoinedAt
<1>1. ASSUME f # O[p].field, NEW n \in 0 .. p - 1
      PROVE  ValueAfter(O2, n, f) = ValueAfter(O, n, f)
  <2>1. n \in Nat /\ 1 .. n \subseteq 1 .. p - 1
    BY <1>0
  <2>2. CASE NoPlace(O, n, f)
    <3>1. NoPlace(O2, n, f)
      BY <1>0, <2>1, <2>2 DEF NoPlace
    <3> QED
      BY <1>0, <2>2, <3>1, ValueOfNoPlace
  <2>3. CASE \E k \in 1 .. n : LastPlace(O, n, f, k)
    <3>1. PICK k \in 1 .. n : LastPlace(O, n, f, k)
      BY <1>0, <2>3
    <3>2. k + 1 .. n \subseteq 1 .. n
      BY <1>0, <2>1
    <3>3. LastPlace(O2, n, f, k) /\ O2[k] = O[k]
      BY <1>0, <1>1, <2>1, <3>1, <3>2 DEF LastPlace
    <3> QED
      BY <1>0, <2>1, <3>1, <3>3, ValueAtLastPlace
  <2> QED
    BY <1>0, <2>1, <2>2, <2>3, LastPlaceExists
<1>2. ASSUME f # O[p].field, NEW n \in p - 1 .. N - 1
      PROVE  ValueAfter(O2, n, f) = ValueAfter(O, n + 1, f)
  <2>1. n \in Nat /\ n + 1 \in Nat
    BY <1>0
  <2>2. ASSUME NEW i \in 1 .. n PROVE i \in 1 .. p - 1 \/ (i \in p .. N - 1 /\ i + 1 \in 1 .. n + 1)
    BY <1>0
  <2>3. CASE NoPlace(O, n + 1, f)
    <3>1. 1 .. p - 1 \subseteq 1 .. n + 1
      BY <1>0
    <3>2. NoPlace(O2, n, f)
      BY <1>0, <2>2, <2>3, <3>1 DEF NoPlace
    <3> QED
      BY <1>0, <2>3, <3>2, ValueOfNoPlace
  <2>4. CASE \E k \in 1 .. n + 1 : LastPlace(O, n + 1, f, k)
    <3>1. PICK k \in 1 .. n + 1 : LastPlace(O, n + 1, f, k)
      BY <1>0, <2>4
    <3>2. O[k].field = f /\ k # p /\ \A j \in k + 1 .. n + 1 : O[j].field # f
      BY <1>0, <1>2, <3>1 DEF LastPlace
    <3>3. ValueAfter(O, n + 1, f) = O[k].value
      BY <1>0, <2>1, <3>1, ValueAtLastPlace
    <3>4. CASE k < p
      <4>1. k \in 1 .. p - 1 /\ k \in 1 .. n
        BY <1>0, <3>4
      <4>2. \A i \in k + 1 .. n : \/ i \in 1 .. p - 1 /\ i \in k + 1 .. n + 1
                                  \/ i \in p .. N - 1 /\ i + 1 \in k + 1 .. n + 1
        BY <1>0, <3>4
      <4>3. LastPlace(O2, n, f, k) /\ O2[k] = O[k]
        BY <1>0, <1>2, <3>2, <4>1, <4>2 DEF LastPlace
      <4> QED
        BY <1>0, <2>1, <3>3, <4>3, ValueAtLastPlace
    <3>5. CASE k > p
      <4>1. k - 1 \in 1 .. n /\ k - 1 \in p .. N - 1 /\ (k - 1) + 1 = k
        BY <1>0, <3>5
      <4>2. \A i \in (k - 1) + 1 .. n : i \in p .. N - 1 /\ i + 1 \in k + 1 .. n + 1
        BY <1>0, <3>5
      <4>3. O2[k - 1] = O[k]
        <5>1. O2[k - 1] = O[(k - 1) + 1]
          BY <1>0, <4>1
        <5> QED
          BY <1>0, <4>1, <5>1
      <4>4. LastPlace(O2, n, f, k - 1)
        BY <1>0, <3>2, <4>1, <4>2, <4>3 DEF LastPlace
      <4> QED
        BY <1>0, <2>1, <3>3, <4>3, <4>4, ValueAtLastPlace
    <3> QED
      BY <1>0, <3>2, <3>4, <3>5
  <2> QED
    BY <1>0, <2>1, <2>3, <2>4, LastPlaceExists
<1>3. ASSUME f = O[p].field, O2[q].value = O[p].value
      PROVE  ValueAfter(O2, N - 1, f) = ValueAfter(O, N, f)
  <2>1. N - 1 \in Nat
    BY <1>0
  <2>2. ~NoPlace(O, N, f)
    BY <1>0, <1>3 DEF NoPlace
  <2>3. PICK k \in 1 .. N : LastPlace(O, N, f, k)
    BY <1>0, <2>2, LastPlaceExists
  <2>4. O[k].field = f /\ \A j \in k + 1 .. N : O[j].field # f
    BY <1>0, <2>3 DEF LastPlace
  <2>5. ValueAfter(O, N, f) = O[k].value
    BY <1>0, <2>3, ValueAtLastPlace
  <2>6. k >= p
    <3>1. CASE k < p
      <4>1. p \in k + 1 .. N
        BY <1>0, <3>1
      <4> QED
        BY <1>0, <1>3, <2>4, <4>1
    <3> QED
      BY <1>0, <3>1
  <2>7. CASE k = p
    <3>1. q \in 1 .. N - 1 /\ q \in 1 .. p - 1
      BY <1>0
    <3>2. ASSUME NEW i \in q + 1 .. N - 1
          PROVE  \/ i \in q + 1 .. p - 1 /\ i \in 1 .. p - 1
                 \/ i \in p .. N - 1 /\ i + 1 \in p + 1 .. N
      <4>1. CASE i < p
        BY <1>0, <4>1
      <4>2. CASE i >= p
        BY <1>0, <4>2
      <4> QED
        BY <1>0, <4>1, <4>2
    <3>3. ASSUME NEW i \in q + 1 .. N - 1 PROVE O2[i].field # f
      <4>1. CASE i \in q + 1 .. p - 1 /\ i \in 1 .. p - 1
        BY <1>0, <1>3, <4>1
      <4>2. CASE i \in p .. N - 1 /\ i + 1 \in p + 1 .. N
        BY <1>0, <2>4, <2>7, <4>2
      <4> QED
        BY <1>0, <3>2, <4>1, <4>2
    <3>4. O2[q].field = f
      BY <1>0, <1>3, <3>1
    <3>5. LastPlace(O2, N - 1, f, q)
      BY <1>0, <3>1, <3>3, <3>4 DEF LastPlace
    <3>6. ValueAfter(O2, N - 1, f) = O2[q].value
      BY <1>0, <2>1, <3>5, ValueAtLastPlace
    <3> QED
      BY <1>0, <1>3, <2>5, <2>7, <3>6
  <2>8. CASE k > p
    <3>1. k - 1 \in 1 .. N - 1 /\ k - 1 \in p .. N - 1 /\ (k - 1) + 1 = k
      BY <1>0, <2>8
    <3>2. \A i \in (k - 1) + 1 .. N - 1 : i \in p .. N - 1 /\ i + 1 \in k + 1 .. N
      BY <1>0, <2>8
    <3>3. O2[k - 1] = O[k]
      <4>1. O2[k - 1] = O[(k - 1) + 1]
        BY <1>0, <3>1
      <4> QED
        BY <1>0, <3>1, <4>1
    <3>4. LastPlace(O2, N - 1, f, k - 1)
      BY <1>0, <2>4, <3>1, <3>2, <3>3 DEF LastPlace
    <3>5. ValueAfter(O2, N - 1, f) = O2[k - 1].value
      BY <1>0, <2>1, <3>4, ValueAtLastPlace
    <3> QED
      BY <1>0, <2>5, <3>3, <3>5
  <2> QED
    BY <1>0, <2>6, <2>7, <2>8
<1> QED
  BY <1>1, <1>2, <1>3

\* The place an event leaves, and the place of the one it joins in the buffer.
LEMMA JoinPlaces ==
  ASSUME TypeInv, OrderInv, OrderInv', Joins
  PROVE  /\ Head(values) \in Spans /\ Head(values).from = Head(values).to
         /\ Mergeable(Head(values).field)
         /\ DOMAIN Outgoing = 1 .. Len(Outgoing) /\ DOMAIN Outgoing' = 1 .. Len(Outgoing')
         /\ Len(Outgoing') = Len(Outgoing) - 1
         /\ \E p, q : /\ JoinedAt(Outgoing, Outgoing', Len(Outgoing), p, q)
                      /\ Outgoing[p] = Head(values)
                      /\ Outgoing'[q] = Coalesced(Outgoing[q], Head(values))
<1> DEFINE A == emitted
           B == sampled_events_
           C == sampled_events_'
           e == Head(values)
           T == Tail(values)
           O == Outgoing
           U == Outgoing'
           a == Len(A)
           b == Len(B)
           N == Len(O)
           p == a + b + 1
<1>1. A \in Seq(Spans) /\ B \in Seq(Spans) /\ values \in Seq(Spans) /\ values # <<>>
  BY DEF OrderInv, SpanTypes, Joins
<1>2. /\ e \in Spans /\ e = values[1] /\ T \in Seq(Spans) /\ Len(values) \in Nat
      /\ Len(values) >= 1 /\ Len(T) = Len(values) - 1
      /\ \A i \in 1 .. Len(T) : T[i] = values[i + 1]
  BY <1>1, HeadTailProperties, LenProperties, EmptySeq
<1>3. /\ A' = A /\ U = (A \o C) \o T /\ Mergeable(e.field) /\ Holds(B, e.field)
      /\ C = [i \in DOMAIN B |-> IF B[i].field = e.field THEN Coalesced(B[i], e) ELSE B[i]]
  BY DEF Joins, Accumulated, Outgoing
<1>4. /\ \A i, j \in DOMAIN B : B[i].field = B[j].field => i = j
      /\ DOMAIN B = 1 .. b /\ b \in Nat /\ a \in Nat
  BY <1>1, LenProperties DEF TypeInv, TypeOK
<1>5. ASSUME NEW i \in DOMAIN B
      PROVE  /\ C[i].field = B[i].field
             /\ B[i].field # e.field => C[i] = B[i]
             /\ B[i].field = e.field => C[i] = Coalesced(B[i], e)
  <2>1. C[i] = IF B[i].field = e.field THEN Coalesced(B[i], e) ELSE B[i]
    BY <1>3
  <2>2. e \in [field : Fields \cup {Raw}, value : Int, from : Nat, to : Nat]
    BY <1>2 DEF Spans
  <2> HIDE DEF B, C, e
  <2>3. CASE B[i].field = e.field
    <3>1. Coalesced(B[i], e).field = e.field
      BY <2>2, <2>3 DEF Coalesced
    <3> QED
      BY <2>1, <2>3, <3>1
  <2> QED
    BY <2>1, <2>3
<1>6. C \in Seq(Spans) /\ Len(C) = b
  <2>1. C \in Seq(Spans)
    BY DEF OrderInv, SpanTypes
  <2>2. DOMAIN C = DOMAIN B /\ DOMAIN C = 1 .. Len(C) /\ Len(C) \in Nat
    BY <1>3, <2>1, LenProperties
  <2> HIDE DEF C, B
  <2> QED
    BY <1>4, <2>1, <2>2
<1> HIDE DEF B, C, e, T, A, b
<1>7. /\ A \o B \in Seq(Spans) /\ Len(A \o B) = a + b
      /\ A \o C \in Seq(Spans) /\ Len(A \o C) = a + b
      /\ \A i \in 1 .. a + b : (A \o B)[i] = IF i <= a THEN A[i] ELSE B[i - a]
      /\ \A i \in 1 .. a + b : (A \o C)[i] = IF i <= a THEN A[i] ELSE C[i - a]
  <2>1. Len(B) = b /\ A \in Seq(Spans) /\ B \in Seq(Spans) /\ C \in Seq(Spans) /\ Len(C) = b
    BY <1>1, <1>6 DEF b
  <2> HIDE DEF a
  <2>2. Len(A) = a
    BY DEF a
  <2>3. /\ A \o B \in Seq(Spans) /\ Len(A \o B) = a + b
        /\ \A i \in 1 .. a + b : (A \o B)[i] = IF i <= a THEN A[i] ELSE B[i - a]
    <3>1. /\ A \o B \in Seq(Spans) /\ Len(A \o B) = Len(A) + Len(B)
          /\ \A i \in 1 .. Len(A) + Len(B) :
               (A \o B)[i] = IF i <= Len(A) THEN A[i] ELSE B[i - Len(A)]
      BY <2>1, ConcatProperties, Zenon
    <3> QED
      BY <2>1, <2>2, <3>1, Zenon
  <2>4. /\ A \o C \in Seq(Spans) /\ Len(A \o C) = a + b
        /\ \A i \in 1 .. a + b : (A \o C)[i] = IF i <= a THEN A[i] ELSE C[i - a]
    <3>1. /\ A \o C \in Seq(Spans) /\ Len(A \o C) = Len(A) + Len(C)
          /\ \A i \in 1 .. Len(A) + Len(C) :
               (A \o C)[i] = IF i <= Len(A) THEN A[i] ELSE C[i - Len(A)]
      BY <2>1, ConcatProperties, Zenon
    <3> QED
      BY <2>1, <2>2, <3>1, Zenon
  <2> QED
    BY <2>3, <2>4
<1>8. /\ O = (A \o B) \o values /\ N = a + b + Len(values) /\ N \in Nat
      /\ Len(U) = a + b + Len(T)
      /\ \A i \in 1 .. a + b + Len(values) :
           O[i] = IF i <= a + b THEN (A \o B)[i] ELSE values[i - (a + b)]
      /\ \A i \in 1 .. a + b + Len(T) :
           U[i] = IF i <= a + b THEN (A \o C)[i] ELSE T[i - (a + b)]
      /\ DOMAIN U = 1 .. Len(U) /\ DOMAIN O = 1 .. N
  <2>1. O = (A \o B) \o values
    BY DEF Outgoing, A, B
  <2>2. a + b + Len(values) \in Nat
    BY <1>2, <1>4
  <2> HIDE DEF O, U, N, a
  <2>3. /\ O \in Seq(Spans) /\ Len(O) = a + b + Len(values) /\ DOMAIN O = 1 .. Len(O)
        /\ \A i \in 1 .. a + b + Len(values) :
             O[i] = IF i <= a + b THEN (A \o B)[i] ELSE values[i - (a + b)]
    <3>1. A \o B \in Seq(Spans) /\ values \in Seq(Spans) /\ Len(A \o B) = a + b
      BY <1>1, <1>7
    <3> QED
      BY <2>1, <3>1, ConcatProperties, LenProperties
  <2>4. /\ U \in Seq(Spans) /\ Len(U) = a + b + Len(T) /\ DOMAIN U = 1 .. Len(U)
        /\ \A i \in 1 .. a + b + Len(T) :
             U[i] = IF i <= a + b THEN (A \o C)[i] ELSE T[i - (a + b)]
    <3>1. /\ A \o C \in Seq(Spans) /\ T \in Seq(Spans) /\ Len(A \o C) = a + b
          /\ U = (A \o C) \o T
      BY <1>2, <1>3, <1>7
    <3> QED
      BY <3>1, ConcatProperties, LenProperties
  <2> QED
    BY <2>1, <2>2, <2>3, <2>4 DEF N
<1> HIDE DEF O, U, N, a
<1>9. PICK j \in DOMAIN B : B[j].field = e.field
  BY <1>3 DEF Holds
<1> DEFINE q == a + j
<1>10. /\ p \in 1 .. N /\ q \in 1 .. p - 1 /\ Len(U) = N - 1 /\ p - 1 = a + b
       /\ N - 1 = a + b + Len(T)
  <2>1. N = a + b + Len(values) /\ N \in Nat /\ Len(U) = a + b + Len(T)
    BY <1>8
  <2>2. Len(values) \in Nat /\ Len(values) >= 1 /\ Len(T) = Len(values) - 1
    BY <1>2
  <2>3. a \in Nat /\ b \in Nat /\ j \in 1 .. b
    BY <1>4, <1>9
  <2> QED
    BY <2>1, <2>2, <2>3
<1>11. O[p] = e
  <2>1. p \in 1 .. a + b + Len(values) /\ ~(p <= a + b) /\ p - (a + b) = 1
    BY <1>2, <1>4
  <2> QED
    BY <1>2, <1>8, <2>1
<1>12. ASSUME NEW i \in 1 .. p - 1
       PROVE  \/ i <= a /\ U[i] = A[i] /\ O[i] = A[i]
              \/ ~(i <= a) /\ i - a \in DOMAIN B /\ U[i] = C[i - a] /\ O[i] = B[i - a]
  <2>1. /\ i \in 1 .. a + b /\ i <= a + b /\ i \in 1 .. a + b + Len(values)
        /\ i \in 1 .. a + b + Len(T) /\ (~(i <= a) => i - a \in 1 .. b)
    BY <1>2, <1>4
  <2>2. O[i] = (A \o B)[i] /\ U[i] = (A \o C)[i]
    BY <1>8, <2>1
  <2> HIDE DEF p
  <2> QED
    BY <1>4, <1>7, <2>1, <2>2
<1>13. ASSUME NEW i \in 1 .. p - 1
       PROVE  U[i].field = O[i].field /\ (i # q => U[i] = O[i])
  <2>1. U[i].field = O[i].field /\ (O[i].field # e.field => U[i] = O[i])
    BY <1>5, <1>12
  <2>2. CASE i <= a
    BY <1>12, <2>2
  <2>3. CASE ~(i <= a) /\ i # q
    <3>1. i - a \in DOMAIN B /\ O[i] = B[i - a] /\ i - a # j
      BY <1>4, <1>8, <1>12, <2>3
    <3>2. O[i].field # e.field
      BY <1>4, <1>9, <3>1
    <3> QED
      BY <2>1, <3>2
  <2> QED
    BY <2>1, <2>2, <2>3
<1>14. ASSUME NEW i \in p .. N - 1 PROVE U[i] = O[i + 1]
  <2>1. /\ i \in 1 .. a + b + Len(T) /\ ~(i <= a + b) /\ i + 1 \in 1 .. a + b + Len(values)
        /\ ~(i + 1 <= a + b) /\ i - (a + b) \in 1 .. Len(T)
        /\ (i + 1) - (a + b) = (i - (a + b)) + 1
    BY <1>2, <1>4, <1>8
  <2>2. U[i] = T[i - (a + b)] /\ O[i + 1] = values[(i + 1) - (a + b)]
    BY <1>8, <2>1
  <2>3. T[i - (a + b)] = values[(i - (a + b)) + 1]
    BY <1>2, <2>1
  <2> QED
    BY <2>1, <2>2, <2>3
<1>15. /\ O[q] = B[j] /\ U[q] = C[j]
       /\ \A i \in q + 1 .. p - 1 : O[i].field # e.field
  <2>1. ~(q <= a) /\ q - a = j
    BY <1>4, <1>9
  <2>2. O[q] = B[j] /\ U[q] = C[j]
    BY <1>10, <1>12, <2>1
  <2>3. ASSUME NEW i \in q + 1 .. p - 1 PROVE O[i].field # e.field
    <3>1. i \in 1 .. p - 1 /\ ~(i <= a) /\ i - a # j
      BY <1>4, <1>9, <1>10
    <3>2. i - a \in DOMAIN B /\ O[i] = B[i - a]
      BY <1>12, <3>1
    <3>3. B[i - a].field # B[j].field
      BY <1>4, <1>9, <3>1, <3>2
    <3> QED
      BY <1>9, <3>2, <3>3
  <2> QED
    BY <2>2, <2>3
<1>16. JoinedAt(O, U, N, p, q)
  <2>1. /\ \A i \in 1 .. p - 1 : U[i].field = O[i].field /\ (i # q => U[i] = O[i])
        /\ \A i \in p .. N - 1 : U[i] = O[i + 1]
        /\ O[q].field = O[p].field /\ \A i \in q + 1 .. p - 1 : O[i].field # O[p].field
    BY <1>9, <1>11, <1>13, <1>14, <1>15
  <2>2. N \in Nat /\ p \in 1 .. N /\ q \in 1 .. p - 1
    BY <1>8, <1>10
  <2> HIDE DEF p, q
  <2> QED
    BY <2>1, <2>2 DEF JoinedAt
<1>17. U[q] = Coalesced(O[q], e)
  BY <1>5, <1>9, <1>15
<1>18. e.from = e.to
  BY <1>1, <1>2 DEF OrderInv, StageInv, e
<1> HIDE DEF p, q
<1> QED
  BY <1>2, <1>3, <1>8, <1>10, <1>11, <1>16, <1>17, <1>18 DEF O, U, N, e

LEMMA JoinedShown ==
  ASSUME TypeInv, OrderInv, OrderInv', ShownInv, Joins
  PROVE  /\ Alternating(Outgoing')
         /\ \A f \in AbsoluteFields : ValueAfter(Outgoing', Len(Outgoing'), f) = last_values[f]
<1> DEFINE e == Head(values)
           O == Outgoing
           U == Outgoing'
           N == Len(O)
<1>1. /\ e \in Spans /\ Mergeable(e.field)
      /\ DOMAIN O = 1 .. N /\ DOMAIN U = 1 .. Len(U) /\ Len(U) = N - 1
  BY JoinPlaces
<1>2. PICK p, q : JoinedAt(O, U, N, p, q) /\ O[p] = e /\ U[q] = Coalesced(O[q], e)
  BY JoinPlaces
<1>3. /\ N \in Nat /\ p \in 1 .. N /\ q \in 1 .. p - 1 /\ O[q].field = e.field
      /\ \A i \in 1 .. p - 1 : O[i].field # e.field => U[i] = O[i]
      /\ \A i \in 1 .. p - 1 : U[i].field = O[i].field
      /\ \A i \in p .. N - 1 : U[i] = O[i + 1]
  BY <1>2 DEF JoinedAt
<1>4. e.field \notin SumFields => U[q].value = e.value
  <2>1. e \in [field : Fields \cup {Raw}, value : Int, from : Nat, to : Nat]
    BY <1>1 DEF Spans
  <2> HIDE DEF e
  <2> QED
    BY <1>2, <1>3, <2>1 DEF Coalesced
<1> HIDE DEF O, U, N, e
<1>5. ASSUME NEW f
       PROVE  /\ f # e.field =>
                  /\ \A n \in 0 .. p - 1 : ValueAfter(U, n, f) = ValueAfter(O, n, f)
                  /\ \A n \in p - 1 .. N - 1 : ValueAfter(U, n, f) = ValueAfter(O, n + 1, f)
              /\ f = e.field /\ U[q].value = e.value =>
                  ValueAfter(U, N - 1, f) = ValueAfter(O, N, f)
  <2>1. /\ f # O[p].field =>
              /\ \A n \in 0 .. p - 1 : ValueAfter(U, n, f) = ValueAfter(O, n, f)
              /\ \A n \in p - 1 .. N - 1 : ValueAfter(U, n, f) = ValueAfter(O, n + 1, f)
        /\ f = O[p].field /\ U[q].value = O[p].value =>
              ValueAfter(U, N - 1, f) = ValueAfter(O, N, f)
    BY <1>2, JoinKeepsValues
  <2> QED
    BY <1>2, <2>1
<1>6. /\ Alternating(O)
       /\ \A f \in AbsoluteFields : ValueAfter(O, N, f) = last_values[f]
  BY DEF ShownInv, O, N
<1>7. ASSUME NEW f \in AbsoluteFields PROVE ValueAfter(U, Len(U), f) = last_values[f]
  <2>1. CASE f = e.field
    <3>1. U[q].value = e.value
      BY <1>4, <2>1 DEF AbsoluteFields
    <3> QED
      BY <1>1, <1>3, <1>5, <1>6, <2>1, <3>1
  <2>2. CASE f # e.field
    <3>1. N - 1 \in p - 1 .. N - 1 /\ (N - 1) + 1 = N
      BY <1>1, <1>3
    <3>2. ValueAfter(U, N - 1, f) = ValueAfter(O, (N - 1) + 1, f)
      BY <1>5, <2>2, <3>1
    <3> QED
      BY <1>1, <1>3, <1>6, <3>1, <3>2
  <2> QED
    BY <2>1, <2>2
<1>8. ASSUME NEW i \in DOMAIN U, U[i].field \in AbsoluteFields \ LatestFields
       PROVE  U[i].value # ValueAfter(U, i - 1, U[i].field)
  <2>1. U[i].field # e.field
    BY <1>1, <1>8 DEF Mergeable, AbsoluteFields
  <2>2. i \in 1 .. N - 1
    BY <1>1, <1>3
  <2>3. CASE i \in 1 .. p - 1
    <3>1. i - 1 \in 0 .. p - 1 /\ i \in DOMAIN O
      BY <1>1, <1>3, <2>3
    <3>2. U[i] = O[i]
      BY <1>3, <2>1, <2>3
    <3>3. ValueAfter(U, i - 1, U[i].field) = ValueAfter(O, i - 1, U[i].field)
      BY <1>5, <2>1, <3>1
    <3> QED
      BY <1>6, <1>8, <3>1, <3>2, <3>3 DEF Alternating
  <2>4. CASE i \in p .. N - 1
    <3>1. i - 1 \in p - 1 .. N - 1 /\ (i - 1) + 1 = i /\ i + 1 \in DOMAIN O /\ (i + 1) - 1 = i
      <4>1. DOMAIN O = 1 .. N /\ N \in Nat /\ p \in 1 .. N
        BY <1>1, <1>3
      <4> QED
        BY <2>4, <4>1
    <3>2. U[i] = O[i + 1]
      BY <1>3, <2>4
    <3>3. ValueAfter(U, i - 1, U[i].field) = ValueAfter(O, i, U[i].field)
      BY <1>5, <2>1, <3>1
    <3>4. O[i + 1].value # ValueAfter(O, (i + 1) - 1, O[i + 1].field)
      BY <1>6, <1>8, <3>1, <3>2 DEF Alternating
    <3> QED
      BY <3>1, <3>2, <3>3, <3>4
  <2>5. p \in 1 .. N /\ N \in Nat
    BY <1>1, <1>3
  <2> QED
    BY <2>2, <2>3, <2>4, <2>5
<1> QED
  BY <1>7, <1>8 DEF Alternating, U

LEMMA NothingShown ==
  ASSUME emitted = <<>>, sampled_events_ = <<>>, values = <<>>,
         last_values = [f \in AbsoluteFields |-> 0]
  PROVE  ShownInv
<1>1. Outgoing = <<>>
  <2>1. <<>> \in Seq(Spans)
    BY EmptySeq
  <2>2. <<>> \o <<>> = <<>>
    BY <2>1, ConcatEmptySeq
  <2> QED
    BY <2>2 DEF Outgoing
<1>2. DOMAIN <<>> = {} /\ Len(<<>>) = 0 /\ 1 .. 0 = {}
  OBVIOUS
<1>3. Alternating(<<>>)
  BY <1>2 DEF Alternating
<1>4. \A f \in AbsoluteFields : ValueAfter(<<>>, 0, f) = 0
  BY <1>2, ValueOfNoPlace DEF NoPlace
<1> QED
  BY <1>1, <1>2, <1>3, <1>4 DEF ShownInv

LEMMA ShownStep ==
  ASSUME TypeInv, OrderInv, OrderInv', WindowCoversBuffer, ShownInv, [Next]_vars
  PROVE  ShownInv'
<1>1. ASSUME Outgoing' = Outgoing, last_values' = last_values PROVE ShownInv'
  BY <1>1 DEF ShownInv
<1>2. ASSUME NEW report \in Reports, Notify(report) PROVE ShownInv'
  <2>1. UNCHANGED <<emitted, sampled_events_, values, last_values>>
    BY <1>2 DEF Notify, windowVars, loopVars
  <2>2. Outgoing' = Outgoing
    BY <2>1 DEF Outgoing
  <2> QED
    BY <1>1, <2>1, <2>2
<1>3. CASE BeginLoop \/ EndLoop \/ PassThrough \/ EmitRun
  <2>1. last_values' = last_values
    BY <1>3 DEF BeginLoop, EndLoop, PassThrough, EmitRun
  <2>2. Outgoing' = Outgoing
    BY <1>3, IdleLoopOrder, PassThroughOrder, EmitRunOrder
  <2> QED
    BY <1>1, <2>1, <2>2
<1>4. CASE AccumulateEvent
  <2>1. last_values' = last_values
    BY <1>4 DEF AccumulateEvent
  <2>2. CASE Outgoing' = Outgoing
    BY <1>1, <2>1, <2>2
  <2>3. CASE Joins
    BY <2>1, <2>3, JoinedShown DEF ShownInv
  <2> QED
    BY <1>4, <2>2, <2>3, AccumulateOrder
<1>5. CASE TakeReport
  BY <1>5, TakenShown
<1>6. CASE FinishReport \/ Tick \/ UNCHANGED vars
  <2>1. UNCHANGED <<emitted, sampled_events_, values, last_values>>
    BY <1>6 DEF FinishReport, Tick, windowVars, loopVars, vars
  <2>2. Outgoing' = Outgoing
    BY <2>1 DEF Outgoing
  <2> QED
    BY <1>1, <2>1, <2>2
<1>7. CASE Connect \/ Disconnect
  <2>1. emitted' = <<>> /\ sampled_events_' = <<>> /\ last_values' = [f \in AbsoluteFields |-> 0]
        /\ values' = <<>>
    BY <1>7 DEF Connect, Disconnect, ResetPipeline, loopVars, TypeInv, TypeOK
  <2>2. ((emitted = <<>> /\ sampled_events_ = <<>> /\ values = <<>>
          /\ last_values = [f \in AbsoluteFields |-> 0]) => ShownInv)'
    BY NothingShown, PTL
  <2> QED
    BY <2>1, <2>2
<1> QED
  BY <1>2, <1>3, <1>4, <1>5, <1>6, <1>7 DEF Next, ProcessValue

LEMMA ShownHolds == Spec => []ShownInv
<1>1. Init => ShownInv
  BY NothingShown DEF Init
<1>2. TypeInv /\ OrderInv /\ OrderInv' /\ WindowCoversBuffer /\ ShownInv /\ [Next]_vars => ShownInv'
  BY ShownStep
<1> QED
  BY <1>1, <1>2, TypesHold, OrderHolds, BufferIsCovered, PTL DEF Spec

LEMMA EmittedIsFirst ==
  ASSUME OrderInv
  PROVE  /\ emitted \in Seq(Spans) /\ Len(emitted) \in Nat /\ DOMAIN emitted = 1 .. Len(emitted)
         /\ \A i \in DOMAIN emitted : i \in DOMAIN Outgoing /\ Outgoing[i] = emitted[i]
<1> DEFINE E == emitted
           B == sampled_events_
           V == values
<1>1. E \in Seq(Spans) /\ B \in Seq(Spans) /\ V \in Seq(Spans) /\ Outgoing = (E \o B) \o V
  BY DEF OrderInv, SpanTypes, Outgoing
<1> HIDE DEF E, B, V
<1>2. /\ E \o B \in Seq(Spans) /\ Len(E) \in Nat /\ DOMAIN E = 1 .. Len(E)
      /\ \A i \in DOMAIN E : i \in DOMAIN (E \o B) /\ (E \o B)[i] = E[i]
  BY <1>1, Places
<1>3. \A i \in DOMAIN (E \o B) : i \in DOMAIN Outgoing /\ Outgoing[i] = (E \o B)[i]
  BY <1>1, <1>2, Places
<1> QED
  BY <1>1, <1>2, <1>3 DEF E

\* Whatever is dropped, coalesced or left undecoded, the consumer never sees two
\* presses or two releases of a barrier in a row: an event of one is always a change.
THEOREM BarriersHold == Spec => []BarriersAlternate
<1>1. OrderInv /\ ShownInv => BarriersAlternate
  <2> SUFFICES ASSUME OrderInv, ShownInv PROVE BarriersAlternate
    OBVIOUS
  <2>1. /\ Len(emitted) \in Nat /\ DOMAIN emitted = 1 .. Len(emitted)
        /\ \A i \in DOMAIN emitted : i \in DOMAIN Outgoing /\ Outgoing[i] = emitted[i]
    BY EmittedIsFirst
  <2> SUFFICES ASSUME NEW i \in DOMAIN emitted,
                      emitted[i].field \in AbsoluteFields \ LatestFields
               PROVE  emitted[i].value # ValueAfter(emitted, i - 1, emitted[i].field)
    BY DEF BarriersAlternate
  <2>2. i - 1 \in Nat /\ \A k \in 1 .. i - 1 : k \in DOMAIN emitted
    BY <2>1
  <2>3. ValueAfter(emitted, i - 1, emitted[i].field) = ValueAfter(Outgoing, i - 1, emitted[i].field)
    BY <2>1, <2>2, ValueOfPrefix
  <2>4. Outgoing[i].value # ValueAfter(Outgoing, i - 1, Outgoing[i].field)
    BY <2>1 DEF ShownInv, Alternating
  <2> QED
    BY <2>1, <2>3, <2>4
<1> QED
  BY <1>1, ShownHolds, OrderHolds, PTL

-----------------------------------------------------------------------------
(* What the peripheral said: statements of the reports still in the FIFO, and  *)
(* statements that have been taken, of which last_values keeps the latest.     *)

AllOf(entry) == Statements(entry.report, entry.seq_id, AbsoluteFields)

Taken(s) == \A i \in DOMAIN pending_reports_ : s.seq < pending_reports_[i].seq_id

SaidInv ==
  /\ \A s \in said : s.seq \in Nat /\ s.seq < next_seq_id_
  /\ \A s \in said : Taken(s) \/ \E i \in DOMAIN pending_reports_ : s \in AllOf(pending_reports_[i])
  /\ \A i \in DOMAIN pending_reports_ : AllOf(pending_reports_[i]) \subseteq said
  /\ \A f \in AbsoluteFields :
       (\A s \in said : ~(Taken(s) /\ s.field = f)) => last_values[f] = 0
  /\ \A f \in AbsoluteFields, s \in said :
       /\ Taken(s) /\ s.field = f
       /\ \A t \in said : Taken(t) /\ t.field = f => t.seq <= s.seq
       => last_values[f] = s.value

LEMMA StatementFacts ==
  ASSUME NEW entry
  PROVE  /\ \A s \in AllOf(entry) :
              /\ s.seq = entry.seq_id /\ s.field \in AbsoluteFields
              /\ s.value = entry.report.input[s.field]
              /\ entry.report.status = "COMPLETE" /\ Says(entry.report, s.field)
         /\ \A f \in AbsoluteFields :
              entry.report.status = "COMPLETE" /\ Says(entry.report, f) =>
                \E s \in AllOf(entry) : s.field = f
<1>1. \A s \in AllOf(entry) :
        \E f \in AbsoluteFields :
          /\ entry.report.status = "COMPLETE" /\ Says(entry.report, f)
          /\ s = [field |-> f, value |-> entry.report.input[f], seq |-> entry.seq_id]
  BY DEF AllOf, Statements
<1>2. ASSUME NEW f \in AbsoluteFields, entry.report.status = "COMPLETE", Says(entry.report, f)
      PROVE  \E s \in AllOf(entry) : s.field = f
  <2>1. [field |-> f, value |-> entry.report.input[f], seq |-> entry.seq_id] \in AllOf(entry)
    BY <1>2 DEF AllOf, Statements
  <2> QED
    BY <2>1
<1> QED
  BY <1>1, <1>2

LEMMA Enqueued ==
  ASSUME OrderInv, NEW report, Enqueue(report)
  PROVE  LET d == Dropped(report.size)
             last == Len(pending_reports_)
             entry == [report |-> report, seq_id |-> next_seq_id_]
         IN  /\ d \in 0 .. last /\ last \in Nat
             /\ \A j \in DOMAIN pending_reports_' :
                  \/ pending_reports_'[j] = entry
                  \/ \E i \in d + 1 .. last : pending_reports_'[j] = pending_reports_[i]
             /\ \A i \in d + 1 .. last :
                  \E j \in DOMAIN pending_reports_' : pending_reports_'[j] = pending_reports_[i]
             /\ \E j \in DOMAIN pending_reports_' : pending_reports_'[j] = entry
<1> DEFINE queue == pending_reports_
           d == Dropped(report.size)
           last == Len(queue)
           entry == [report |-> report, seq_id |-> next_seq_id_]
           kept == SubSeq(queue, d + 1, last)
           next == pending_reports_'
<1>1. queue \in Seq([report : Reports, seq_id : Nat])
  BY DEF OrderInv, SpanTypes, Entries
<1>2. last \in Nat /\ DOMAIN queue = 1 .. last
  BY <1>1, LenProperties
<1>3. d \in 0 .. last
  BY <1>2, DroppedType
<1>4. next = Append(kept, entry)
  BY DEF Enqueue
<1> DEFINE Queued == {queue[i] : i \in 1 .. last} \cup {entry}
<1>5. entry \in Queued /\ \A i \in d + 1 .. last : queue[i] \in Queued
  BY <1>2, <1>3
<1> HIDE DEF entry, d, last, Queued, next
<1>6. /\ kept \in Seq(Queued) /\ Len(kept) = IF d + 1 <= last THEN last - (d + 1) + 1 ELSE 0
      /\ \A i \in 1 .. last - (d + 1) + 1 : kept[i] = queue[(d + 1) + i - 1]
  <2>1. d + 1 \in Int /\ last \in Int
    BY <1>2, <1>3
  <2> HIDE DEF queue
  <2> QED
    BY <1>5, <2>1, SubSeqProperties
<1> HIDE DEF kept, queue
<1>7. Len(kept) = last - d /\ Len(kept) \in Nat
  BY <1>2, <1>3, <1>6
<1>8. ASSUME NEW i \in 1 .. last - d PROVE kept[i] = queue[d + i]
  <2>1. i \in 1 .. last - (d + 1) + 1 /\ (d + 1) + i - 1 = d + i
    BY <1>2, <1>3
  <2>2. kept[i] = queue[(d + 1) + i - 1]
    BY <1>6, <2>1
  <2> QED
    BY <2>1, <2>2
<1>9. /\ DOMAIN next = 1 .. (last - d) + 1
      /\ \A i \in 1 .. last - d : next[i] = kept[i]
      /\ next[(last - d) + 1] = entry
  <2>1. /\ Append(kept, entry) \in Seq(Queued) /\ Len(Append(kept, entry)) = Len(kept) + 1
        /\ \A i \in 1 .. Len(kept) : Append(kept, entry)[i] = kept[i]
        /\ Append(kept, entry)[Len(kept) + 1] = entry
    BY <1>5, <1>6, AppendProperties
  <2> QED
    BY <1>4, <1>7, <2>1, LenProperties
<1>10. ASSUME NEW j \in DOMAIN next
       PROVE  next[j] = entry \/ \E i \in d + 1 .. last : next[j] = queue[i]
  <2>1. CASE j = (last - d) + 1
    BY <1>9, <2>1
  <2>2. CASE j \in 1 .. last - d
    <3>1. d + j \in d + 1 .. last
      BY <1>2, <1>3, <2>2
    <3>2. next[j] = queue[d + j]
      BY <1>8, <1>9, <2>2
    <3> QED
      BY <3>1, <3>2
  <2>3. j = (last - d) + 1 \/ j \in 1 .. last - d
    BY <1>2, <1>3, <1>9
  <2> QED
    BY <2>1, <2>2, <2>3
<1>11. ASSUME NEW i \in d + 1 .. last PROVE \E j \in DOMAIN next : next[j] = queue[i]
  <2>1. i - d \in 1 .. last - d /\ i - d \in DOMAIN next /\ d + (i - d) = i
    BY <1>2, <1>3, <1>9
  <2>2. next[i - d] = queue[d + (i - d)]
    BY <1>8, <1>9, <2>1
  <2> QED
    BY <2>1, <2>2
<1>12. (last - d) + 1 \in DOMAIN next
  BY <1>2, <1>3, <1>9
<1> QED
  BY <1>2, <1>3, <1>9, <1>10, <1>11, <1>12 DEF d, last, entry, next, queue

LEMMA QueueNumbers ==
  ASSUME OrderInv
  PROVE  /\ next_seq_id_ \in Nat /\ Len(pending_reports_) \in Nat
         /\ DOMAIN pending_reports_ = 1 .. Len(pending_reports_)
         /\ \A i \in DOMAIN pending_reports_ :
              pending_reports_[i].seq_id \in Nat /\ pending_reports_[i].seq_id < next_seq_id_
         /\ \A i, j \in DOMAIN pending_reports_ :
              i < j => pending_reports_[i].seq_id < pending_reports_[j].seq_id
<1>1. /\ next_seq_id_ \in Nat /\ pending_reports_ \in Seq(Entries)
      /\ \A j \in DOMAIN pending_reports_ : pending_reports_[j].seq_id < next_seq_id_
      /\ \A i, j \in DOMAIN pending_reports_ :
           i < j => pending_reports_[i].seq_id < pending_reports_[j].seq_id
  BY DEF OrderInv, SpanTypes, FifoOrder
<1>2. \A i \in DOMAIN pending_reports_ : pending_reports_[i] \in Entries
  BY <1>1, ElementOfSeq, LenProperties
<1>3. \A q \in Entries : q.seq_id \in Nat
  BY DEF Entries
<1> QED
  BY <1>1, <1>2, <1>3, LenProperties

\* What the FIFO drops it drops with all its statements, and none of them had been taken.
LEMMA SaidEnqueued ==
  ASSUME OrderInv, SaidInv, NEW report \in Reports, Notify(report), Enqueue(report),
         LET dropped == {pending_reports_[i].seq_id : i \in 1 .. Dropped(report.size)}
         IN  said' = {s \in said : s.seq \notin dropped}
                       \cup Statements(report, next_seq_id_, AbsoluteFields)
  PROVE  SaidInv'
<1> DEFINE queue == pending_reports_
           d == Dropped(report.size)
           last == Len(queue)
           entry == [report |-> report, seq_id |-> next_seq_id_]
           dropped == {queue[i].seq_id : i \in 1 .. d}
           next == pending_reports_'
           old == {s \in said : s.seq \notin dropped}
           Now(s) == \A i \in DOMAIN queue : s.seq < queue[i].seq_id
           Later(s) == \A j \in DOMAIN next : s.seq < next[j].seq_id
<1>1. /\ d \in 0 .. last /\ last \in Nat
      /\ \A j \in DOMAIN next : \/ next[j] = entry
                               \/ \E i \in d + 1 .. last : next[j] = queue[i]
      /\ \A i \in d + 1 .. last : \E j \in DOMAIN next : next[j] = queue[i]
      /\ \E j \in DOMAIN next : next[j] = entry
  BY Enqueued
<1>2. /\ next_seq_id_ \in Nat /\ DOMAIN queue = 1 .. last
      /\ \A i \in DOMAIN queue : queue[i].seq_id \in Nat /\ queue[i].seq_id < next_seq_id_
      /\ \A i, j \in DOMAIN queue : i < j => queue[i].seq_id < queue[j].seq_id
  BY QueueNumbers
<1>3. /\ said' = old \cup AllOf(entry) /\ next_seq_id_' = next_seq_id_ + 1
      /\ last_values' = last_values /\ entry.seq_id = next_seq_id_
  BY DEF Notify, AllOf
<1>4. /\ \A s \in said : s.seq \in Nat /\ s.seq < next_seq_id_
      /\ \A s \in said : Now(s) \/ \E i \in DOMAIN queue : s \in AllOf(queue[i])
      /\ \A i \in DOMAIN queue : AllOf(queue[i]) \subseteq said
      /\ \A f \in AbsoluteFields :
           (\A s \in said : ~(Now(s) /\ s.field = f)) => last_values[f] = 0
      /\ \A f \in AbsoluteFields, s \in said :
           /\ Now(s) /\ s.field = f
           /\ \A t \in said : Now(t) /\ t.field = f => t.seq <= s.seq
           => last_values[f] = s.value
  BY DEF SaidInv, Taken
<1>5. \A q, s : s \in AllOf(q) => s.seq = q.seq_id
  BY StatementFacts
<1>7. SaidInv' <=>
        /\ \A s \in said' : s.seq \in Nat /\ s.seq < next_seq_id_'
        /\ \A s \in said' : Later(s) \/ \E j \in DOMAIN next : s \in AllOf(next[j])
        /\ \A j \in DOMAIN next : AllOf(next[j]) \subseteq said'
        /\ \A f \in AbsoluteFields :
             (\A s \in said' : ~(Later(s) /\ s.field = f)) => last_values'[f] = 0
        /\ \A f \in AbsoluteFields, s \in said' :
             /\ Later(s) /\ s.field = f
             /\ \A t \in said' : Later(t) /\ t.field = f => t.seq <= s.seq
             => last_values'[f] = s.value
  BY DEF SaidInv, AllOf, Taken
<1> HIDE DEF entry
<1>8. ASSUME NEW i \in d + 1 .. last PROVE i \in DOMAIN queue /\ queue[i].seq_id \notin dropped
  <2>1. i \in DOMAIN queue
    BY <1>1, <1>2
  <2>2. ASSUME NEW k \in 1 .. d PROVE queue[i].seq_id # queue[k].seq_id
    <3>1. k < i /\ k \in DOMAIN queue
      BY <1>1, <1>2
    <3> QED
      BY <1>2, <2>1, <3>1
  <2> QED
    BY <2>1, <2>2
<1>9. \A i \in DOMAIN queue : i \in d + 1 .. last \/ queue[i].seq_id \in dropped
  <2> SUFFICES ASSUME NEW i \in DOMAIN queue PROVE i \in d + 1 .. last \/ i \in 1 .. d
    OBVIOUS
  <2> HIDE DEF d, last, dropped
  <2> QED
    BY <1>1, <1>2
<1> HIDE DEF queue, d, last, dropped, next
<1>10. \A s \in old : Now(s) \/ \E i \in d + 1 .. last : s \in AllOf(queue[i])
  BY <1>4, <1>5, <1>9
<1>11. ASSUME NEW s \in said PROVE Now(s) => s \in old /\ Later(s)
  <2> SUFFICES ASSUME Now(s) PROVE s \in old /\ Later(s)
    OBVIOUS
  <2>1. \A i \in DOMAIN queue : s.seq < queue[i].seq_id
    OBVIOUS
  <2>2. s.seq \in Nat /\ s.seq < entry.seq_id
    BY <1>3, <1>4
  <2>3. ASSUME NEW i \in 1 .. d PROVE s.seq # queue[i].seq_id
    <3>1. i \in DOMAIN queue
      BY <1>1, <1>2
    <3> QED
      BY <1>2, <2>1, <2>2, <3>1
  <2>4. s \in old
    BY <2>3 DEF dropped
  <2>5. \A j \in DOMAIN next : s.seq < next[j].seq_id
    BY <1>1, <1>8, <2>1, <2>2
  <2> QED
    BY <2>4, <2>5
<1>12. ASSUME NEW s \in said', Later(s) PROVE s \in said /\ Now(s)
  <2>1. \A j \in DOMAIN next : s.seq < next[j].seq_id
    BY <1>12
  <2>2. s \notin AllOf(entry)
    <3>1. PICK j \in DOMAIN next : next[j] = entry
      BY <1>1
    <3>2. s.seq < next_seq_id_
      BY <1>3, <2>1, <3>1
    <3> QED
      BY <1>2, <1>3, <1>5, <3>2
  <2>3. \A i \in d + 1 .. last : s \notin AllOf(queue[i])
    <3> SUFFICES ASSUME NEW i \in d + 1 .. last, s \in AllOf(queue[i]) PROVE FALSE
      OBVIOUS
    <3>1. PICK j \in DOMAIN next : next[j] = queue[i]
      BY <1>1
    <3>2. s.seq < queue[i].seq_id /\ s.seq = queue[i].seq_id /\ queue[i].seq_id \in Nat
      BY <1>2, <1>5, <1>8, <2>1, <3>1
    <3> QED
      BY <3>2
  <2> QED
    BY <1>3, <1>10, <2>2, <2>3
<1>13. \A s : s \in said' /\ Later(s) <=> s \in said /\ Now(s)
  BY <1>3, <1>11, <1>12
<1>14. \A s \in said' : s.seq \in Nat /\ s.seq < next_seq_id_'
  <2> SUFFICES ASSUME NEW s \in said' PROVE s.seq \in Nat /\ s.seq < next_seq_id_ + 1
    BY <1>3
  <2>1. s.seq = next_seq_id_ \/ (s.seq \in Nat /\ s.seq < next_seq_id_)
    BY <1>3, <1>4, <1>5
  <2> QED
    BY <1>2, <2>1
<1>15. \A s \in said' : Later(s) \/ \E j \in DOMAIN next : s \in AllOf(next[j])
  <2> SUFFICES ASSUME NEW s \in said', ~Later(s) PROVE \E j \in DOMAIN next : s \in AllOf(next[j])
    OBVIOUS
  <2>1. CASE s \in AllOf(entry)
    BY <1>1, <2>1
  <2>2. CASE s \in old
    <3>1. ~Now(s)
      BY <1>11, <2>2
    <3>2. PICK i \in d + 1 .. last : s \in AllOf(queue[i])
      BY <1>10, <2>2, <3>1
    <3> QED
      BY <1>1, <3>2
  <2> QED
    BY <1>3, <2>1, <2>2
<1>16. \A j \in DOMAIN next : AllOf(next[j]) \subseteq said'
  <2> SUFFICES ASSUME NEW j \in DOMAIN next PROVE AllOf(next[j]) \subseteq said'
    OBVIOUS
  <2>1. CASE next[j] = entry
    BY <1>3, <2>1
  <2>2. CASE \E i \in d + 1 .. last : next[j] = queue[i]
    <3>1. PICK i \in d + 1 .. last : next[j] = queue[i]
      BY <2>2
    <3>2. AllOf(queue[i]) \subseteq old
      BY <1>4, <1>5, <1>8
    <3> QED
      BY <1>3, <3>1, <3>2
  <2> QED
    BY <1>1, <2>1, <2>2
<1> QED
  BY <1>3, <1>4, <1>7, <1>13, <1>14, <1>15, <1>16

\* The statements of the report that is taken are the latest of all taken, and what
\* it says of a field is what last_values keeps.
LEMMA SaidTaken ==
  ASSUME OrderInv, SaidInv, TakeReport
  PROVE  SaidInv'
<1> DEFINE queue == pending_reports_
           first == queue[1]
           next == pending_reports_'
           Now(s) == \A i \in DOMAIN queue : s.seq < queue[i].seq_id
           Later(s) == \A j \in DOMAIN next : s.seq < next[j].seq_id
<1>1. queue \in Seq(Entries) /\ queue # <<>>
  BY DEF OrderInv, SpanTypes, TakeReport
<1>2. /\ DOMAIN queue = 1 .. Len(queue) /\ Len(queue) \in Nat
      /\ \A i \in DOMAIN queue : queue[i].seq_id \in Nat /\ queue[i].seq_id < next_seq_id_
      /\ \A i, j \in DOMAIN queue : i < j => queue[i].seq_id < queue[j].seq_id
  BY QueueNumbers
<1>3. /\ next = Tail(queue) /\ Head(queue) = first /\ said' = said
      /\ next_seq_id_' = next_seq_id_
      /\ \A f \in AbsoluteFields :
           last_values'[f] = IF first.report.status = "COMPLETE" /\ Says(first.report, f)
                             THEN first.report.input[f] ELSE last_values[f]
  <2>1. Head(queue) = first
    BY <1>1, HeadTailProperties
  <2> QED
    BY <2>1 DEF TakeReport, Remember, inputVars
<1>4. /\ \A s \in said : s.seq \in Nat /\ s.seq < next_seq_id_
      /\ \A s \in said : Now(s) \/ \E i \in DOMAIN queue : s \in AllOf(queue[i])
      /\ \A i \in DOMAIN queue : AllOf(queue[i]) \subseteq said
      /\ \A f \in AbsoluteFields :
           (\A s \in said : ~(Now(s) /\ s.field = f)) => last_values[f] = 0
      /\ \A f \in AbsoluteFields, s \in said :
           /\ Now(s) /\ s.field = f
           /\ \A t \in said : Now(t) /\ t.field = f => t.seq <= s.seq
           => last_values[f] = s.value
  BY DEF SaidInv, Taken
<1>5. /\ \A q : \A s \in AllOf(q) : /\ s.seq = q.seq_id /\ s.field \in AbsoluteFields
                                  /\ s.value = q.report.input[s.field]
                                  /\ q.report.status = "COMPLETE" /\ Says(q.report, s.field)
      /\ \A f \in AbsoluteFields :
           first.report.status = "COMPLETE" /\ Says(first.report, f) =>
             \E s \in AllOf(first) : s.field = f
  BY StatementFacts
<1>6. SaidInv' <=>
        /\ \A s \in said' : s.seq \in Nat /\ s.seq < next_seq_id_'
        /\ \A s \in said' : Later(s) \/ \E j \in DOMAIN next : s \in AllOf(next[j])
        /\ \A j \in DOMAIN next : AllOf(next[j]) \subseteq said'
        /\ \A f \in AbsoluteFields :
             (\A s \in said' : ~(Later(s) /\ s.field = f)) => last_values'[f] = 0
        /\ \A f \in AbsoluteFields, s \in said' :
             /\ Later(s) /\ s.field = f
             /\ \A t \in said' : Later(t) /\ t.field = f => t.seq <= s.seq
             => last_values'[f] = s.value
  BY DEF SaidInv, AllOf, Taken
<1>7. 1 \in DOMAIN queue
  BY <1>1, <1>2, EmptySeq
<1>8. /\ \A j \in DOMAIN next : \E i \in DOMAIN queue : i > 1 /\ next[j] = queue[i]
      /\ \A i \in DOMAIN queue : i > 1 => \E j \in DOMAIN next : next[j] = queue[i]
  <2>1. /\ Tail(queue) \in Seq(Entries) /\ Len(Tail(queue)) = Len(queue) - 1
        /\ \A i \in 1 .. Len(queue) - 1 : Tail(queue)[i] = queue[i + 1]
    BY <1>1, HeadTailProperties
  <2>2. DOMAIN next = 1 .. Len(queue) - 1 /\ \A i \in 1 .. Len(queue) - 1 : next[i] = queue[i + 1]
    BY <1>3, <2>1, LenProperties
  <2> HIDE DEF next, queue
  <2>3. ASSUME NEW j \in DOMAIN next PROVE \E i \in DOMAIN queue : i > 1 /\ next[j] = queue[i]
    <3>1. j + 1 \in DOMAIN queue /\ j + 1 > 1
      BY <1>2, <2>2
    <3> QED
      BY <2>2, <3>1
  <2>4. ASSUME NEW i \in DOMAIN queue, i > 1 PROVE \E j \in DOMAIN next : next[j] = queue[i]
    <3>1. i - 1 \in 1 .. Len(queue) - 1 /\ (i - 1) + 1 = i
      BY <1>2, <2>4
    <3>2. next[i - 1] = queue[(i - 1) + 1]
      BY <2>2, <3>1
    <3> QED
      BY <2>2, <3>1, <3>2
  <2> QED
    BY <2>3, <2>4
<1> DEFINE mine == AllOf(first)
<1>9. /\ \A i \in DOMAIN queue : i > 1 => first.seq_id < queue[i].seq_id
      /\ first.seq_id \in Nat
  <2>1. \A i \in DOMAIN queue : i > 1 => 1 < i
    BY <1>2
  <2> QED
    BY <1>2, <1>7, <2>1
<1>10. \A s \in said : Now(s) => s.seq \in Nat /\ s.seq < first.seq_id
  BY <1>4, <1>7
<1>11. mine \subseteq said /\ \A s \in mine : s.seq = first.seq_id
  BY <1>4, <1>5, <1>7
<1> HIDE DEF queue, first, next, mine
<1>12. \A s \in said : Now(s) => Later(s)
  BY <1>8
<1>13. \A s \in mine : Later(s)
  BY <1>8, <1>9, <1>11
<1>14. ASSUME NEW s \in said, Later(s) PROVE Now(s) \/ s \in mine
  <2> SUFFICES ASSUME ~Now(s) PROVE s \in mine
    OBVIOUS
  <2>1. PICK i \in DOMAIN queue : s \in AllOf(queue[i])
    BY <1>4
  <2>2. CASE i > 1
    <3>1. PICK j \in DOMAIN next : next[j] = queue[i]
      BY <1>8, <2>2
    <3>2. s.seq < queue[i].seq_id /\ s.seq = queue[i].seq_id /\ queue[i].seq_id \in Nat
      BY <1>2, <1>5, <1>14, <2>1, <3>1
    <3> QED
      BY <3>2
  <2>3. CASE i = 1
    BY <2>1, <2>3 DEF mine, first
  <2>4. i > 1 \/ i = 1
    BY <1>2
  <2> QED
    BY <2>2, <2>3, <2>4
<1>15. \A s \in said : Later(s) \/ \E j \in DOMAIN next : s \in AllOf(next[j])
  <2> SUFFICES ASSUME NEW s \in said, ~Now(s), s \notin mine
               PROVE  \E j \in DOMAIN next : s \in AllOf(next[j])
    BY <1>12, <1>13
  <2>1. PICK i \in DOMAIN queue : s \in AllOf(queue[i])
    BY <1>4
  <2>2. i # 1
    BY <2>1 DEF mine, first
  <2>3. i > 1
    BY <1>2, <2>2
  <2> QED
    BY <1>8, <2>1, <2>3
<1>16. \A j \in DOMAIN next : AllOf(next[j]) \subseteq said
  BY <1>4, <1>8
<1>17. ASSUME NEW f \in AbsoluteFields, \A s \in said : ~(Later(s) /\ s.field = f)
       PROVE  last_values'[f] = 0
  <2>1. \A s \in mine : s.field # f
    BY <1>11, <1>13, <1>17
  <2>2. last_values'[f] = last_values[f]
    BY <1>3, <1>5, <2>1 DEF mine
  <2>3. \A s \in said : ~(Now(s) /\ s.field = f)
    BY <1>12, <1>17
  <2> QED
    BY <1>4, <2>2, <2>3
<1>18. ASSUME NEW f \in AbsoluteFields, NEW s \in said, Later(s), s.field = f,
              \A t \in said : Later(t) /\ t.field = f => t.seq <= s.seq
       PROVE  last_values'[f] = s.value
  <2>1. CASE s \in mine
    BY <1>3, <1>5, <1>18, <2>1 DEF mine
  <2>2. CASE s \notin mine
    <3>1. Now(s)
      BY <1>14, <1>18, <2>2
    <3>2. \A t \in mine : t.field # f
      <4> SUFFICES ASSUME NEW t \in mine, t.field = f PROVE FALSE
        OBVIOUS
      <4>1. t.seq = first.seq_id /\ t.seq <= s.seq
        BY <1>11, <1>13, <1>18
      <4>2. s.seq \in Nat /\ s.seq < first.seq_id
        BY <1>10, <3>1
      <4> QED
        BY <1>9, <4>1, <4>2
    <3>3. last_values'[f] = last_values[f]
      BY <1>3, <1>5, <3>2 DEF mine
    <3>4. \A t \in said : Now(t) /\ t.field = f => t.seq <= s.seq
      BY <1>12, <1>18
    <3> QED
      BY <1>4, <1>18, <3>1, <3>3, <3>4
  <2> QED
    BY <2>1, <2>2
<1> QED
  BY <1>3, <1>4, <1>6, <1>15, <1>16, <1>17, <1>18

LEMMA NothingSaid ==
  ASSUME said = {}, pending_reports_ = <<>>, last_values = [f \in AbsoluteFields |-> 0]
  PROVE  SaidInv
<1>1. DOMAIN <<>> = {}
  OBVIOUS
<1> QED
  BY <1>1 DEF SaidInv

LEMMA SaidStep ==
  ASSUME OrderInv, SaidInv, [Next]_vars
  PROVE  SaidInv'
<1>1. ASSUME UNCHANGED <<said, pending_reports_, last_values>>,
             next_seq_id_' = next_seq_id_ \/ next_seq_id_' = next_seq_id_ + 1
      PROVE  SaidInv'
  <2>1. \A s \in said : s.seq \in Nat /\ s.seq < next_seq_id_
    BY DEF SaidInv
  <2>2. \A s \in said : s.seq < next_seq_id_'
    BY <1>1, <2>1, QueueNumbers
  <2> QED
    BY <1>1, <2>1, <2>2 DEF SaidInv, AllOf, Taken
<1>2. ASSUME NEW report \in Reports, Notify(report) PROVE SaidInv'
  <2>1. CASE UNCHANGED <<fifoVars, said>>
    BY <1>1, <1>2, <2>1 DEF Notify, fifoVars
  <2>2. CASE /\ Enqueue(report)
             /\ LET dropped == {pending_reports_[i].seq_id : i \in 1 .. Dropped(report.size)}
                IN  said' = {s \in said : s.seq \notin dropped}
                              \cup Statements(report, next_seq_id_, AbsoluteFields)
    BY <1>2, <2>2, SaidEnqueued
  <2> QED
    BY <1>2, <2>1, <2>2 DEF Notify
<1>3. CASE TakeReport
  BY <1>3, SaidTaken
<1>4. CASE Connect \/ Disconnect
  <2>1. said' = {} /\ pending_reports_' = <<>> /\ last_values' = [f \in AbsoluteFields |-> 0]
    BY <1>4 DEF Connect, Disconnect, ResetPipeline
  <2>2. (said = {} /\ pending_reports_ = <<>> /\ last_values = [f \in AbsoluteFields |-> 0]
           => SaidInv)'
    BY NothingSaid, PTL
  <2> QED
    BY <2>1, <2>2
<1>5. CASE BeginLoop \/ ProcessValue \/ EndLoop \/ Tick \/ UNCHANGED vars
  <2>1. UNCHANGED <<said, pending_reports_, last_values, next_seq_id_>>
    BY <1>5 DEF BeginLoop, ProcessValue, PassThrough, EmitRun, AccumulateEvent, FinishReport,
                EndLoop, Tick, vars, inputVars, fifoVars
  <2> QED
    BY <1>1, <2>1
<1> QED
  BY <1>2, <1>3, <1>4, <1>5 DEF Next

\* Once nothing is on its way, every absolute field shows what the peripheral said of
\* it last in a report that was not dropped: no drop, short report, value out of range
\* or flush leaves the consumer with a key held down that has been released.
THEOREM ConsumerCatchesUp == Spec => []ConsumerConverges
<1>1. Init => SaidInv
  BY NothingSaid DEF Init
<1>2. OrderInv /\ SaidInv /\ [Next]_vars => SaidInv'
  BY SaidStep
<1>3. OrderInv /\ ShownInv /\ SaidInv => ConsumerConverges
  <2> SUFFICES ASSUME OrderInv, ShownInv, SaidInv, Outgoing = emitted, pending_reports_ = <<>>,
                      NEW f \in AbsoluteFields
               PROVE  LatestShown(f) = LatestSaid(f)
    BY DEF ConsumerConverges
  <2>1. LatestShown(f) = last_values[f]
    BY DEF LatestShown, ShownInv
  <2> DEFINE of == {s \in said : s.field = f}
             latest(s) == \A t \in of : t.seq <= s.seq
  <2>2. \A s : Taken(s)
    BY DEF Taken
  <2>3. CASE of = {}
    <3>1. last_values[f] = 0
      BY <2>3 DEF SaidInv
    <3> QED
      BY <2>1, <2>3, <3>1 DEF LatestSaid
  <2>4. CASE of # {}
    <3>1. next_seq_id_ \in Nat /\ \A s \in of : s.seq \in Nat /\ s.seq < next_seq_id_
      BY QueueNumbers DEF SaidInv
    <3> DEFINE ages == {next_seq_id_ - s.seq : s \in of}
    <3>2. ages # {} /\ ages \in SUBSET Nat
      <4>1. \A s \in of : next_seq_id_ - s.seq \in Nat
        BY <3>1
      <4> HIDE DEF of
      <4> QED
        BY <2>4, <4>1
    <3>3. PICK n \in ages : \A k \in 0 .. n - 1 : k \notin ages
      <4> HIDE DEF ages
      <4> QED
        BY <3>2, LeastElement
    <3>4. PICK s \in of : n = next_seq_id_ - s.seq
      BY <3>3
    <3>5. latest(s)
      <4> SUFFICES ASSUME NEW t \in of PROVE t.seq <= s.seq
        OBVIOUS
      <4>1. next_seq_id_ - t.seq \in ages
        OBVIOUS
      <4>2. ~(next_seq_id_ - t.seq \in 0 .. n - 1)
        BY <3>3, <4>1
      <4>3. t.seq \in Nat /\ t.seq < next_seq_id_ /\ s.seq \in Nat
        BY <3>1, <3>4
      <4> QED
        BY <3>1, <3>4, <4>2, <4>3
    <3> DEFINE c == CHOOSE x \in of : latest(x)
    <3>6. c \in of /\ latest(c)
      <4> HIDE DEF latest, of
      <4> QED
        BY <3>4, <3>5
    <3>7. LatestSaid(f) = c.value
      BY <2>4 DEF LatestSaid
    <3> HIDE DEF c
    <3>8. last_values[f] = c.value
      BY <2>2, <3>6 DEF SaidInv
    <3> QED
      BY <2>1, <3>7, <3>8
  <2> QED
    BY <2>3, <2>4
<1> QED
  BY <1>1, <1>2, <1>3, ShownHolds, OrderHolds, PTL DEF Spec

-----------------------------------------------------------------------------
(* What was decoded of the relative fields, and which event has it. *)

MovedBy(M, field, seq) ==
  LET of == {m \in M : m.field = field /\ m.seq = seq}
  IN  IF of = {} THEN 0 ELSE (CHOOSE m \in of : TRUE).value

Signed(M, field, n) == [seq \in 1 .. n - 1 |-> MovedBy(M, field, seq)]

Unsigned(M, field, n) ==
  [seq \in 1 .. n - 1 |-> IF MovedBy(M, field, seq) < 0 THEN -MovedBy(M, field, seq)
                          ELSE MovedBy(M, field, seq)]

\* The event has what was decoded of its field in its span.
HasMoved(M, n, e) ==
  Total(Unsigned(M, e.field, n), e.from, e.to) <= MaxSum =>
    e.value = Total(Signed(M, e.field, n), e.from, e.to)

\* Every movement is one of the reports numbered so far, which has one per field.
MovedTypes(M, n) ==
  /\ \A m \in M : m.field \in SumFields /\ m.value \in Int /\ m.seq \in 1 .. n - 1
  /\ \A m, l \in M : m.field = l.field /\ m.seq = l.seq => m.value = l.value

Disjoint(events) ==
  \A i, j \in DOMAIN events :
    i < j /\ events[i].field = events[j].field /\ events[i].field \in SumFields =>
      events[i].to < events[j].from

Covered(M, events) ==
  \A m \in M : m.value # 0 =>
    \E i \in DOMAIN events : events[i].field = m.field /\ m.seq \in events[i].from .. events[i].to

MovementInv ==
  /\ MovedTypes(moved, next_seq_id_)
  /\ \A m \in moved, i \in DOMAIN pending_reports_ : m.seq < pending_reports_[i].seq_id
  /\ Disjoint(Outgoing) /\ Covered(moved, Outgoing)
  /\ \A i \in DOMAIN Outgoing :
       Outgoing[i].field \in SumFields => HasMoved(moved, next_seq_id_, Outgoing[i])

LEMMA MovedByFacts ==
  ASSUME NEW M, NEW n, MovedTypes(M, n), NEW field, NEW seq
  PROVE  /\ MovedBy(M, field, seq) \in Int
         /\ \A m \in M : m.field = field /\ m.seq = seq => MovedBy(M, field, seq) = m.value
         /\ MovedBy(M, field, seq) # 0 =>
              \E m \in M : m.field = field /\ m.seq = seq /\ m.value # 0
<1> DEFINE of == {m \in M : m.field = field /\ m.seq = seq}
           c == CHOOSE m \in of : TRUE
<1>1. CASE of = {}
  BY <1>1 DEF MovedBy
<1>2. CASE of # {}
  <2>1. c \in of
    <3> HIDE DEF of
    <3> QED
      BY <1>2
  <2>2. MovedBy(M, field, seq) = c.value
    BY <1>2 DEF MovedBy
  <2> HIDE DEF c
  <2> QED
    BY <2>1, <2>2 DEF MovedTypes
<1> QED
  BY <1>1, <1>2

LEMMA TermFacts ==
  ASSUME NEW M, NEW n \in Nat, MovedTypes(M, n), NEW field
  PROVE  \A k \in 1 .. n - 1 :
           /\ Signed(M, field, n)[k] = MovedBy(M, field, k) /\ Signed(M, field, n)[k] \in Int
           /\ Unsigned(M, field, n)[k] \in Nat
           /\ Unsigned(M, field, n)[k] = IF MovedBy(M, field, k) < 0 THEN -MovedBy(M, field, k)
                                        ELSE MovedBy(M, field, k)
           /\ -Unsigned(M, field, n)[k] <= Signed(M, field, n)[k]
           /\ Signed(M, field, n)[k] <= Unsigned(M, field, n)[k]
<1> SUFFICES ASSUME NEW k \in 1 .. n - 1
             PROVE  /\ Signed(M, field, n)[k] = MovedBy(M, field, k)
                    /\ Signed(M, field, n)[k] \in Int
                    /\ Unsigned(M, field, n)[k] \in Nat
                    /\ Unsigned(M, field, n)[k] = IF MovedBy(M, field, k) < 0
                                                 THEN -MovedBy(M, field, k)
                                                 ELSE MovedBy(M, field, k)
                    /\ -Unsigned(M, field, n)[k] <= Signed(M, field, n)[k]
                    /\ Signed(M, field, n)[k] <= Unsigned(M, field, n)[k]
  OBVIOUS
<1> DEFINE v == MovedBy(M, field, k)
<1>1. v \in Int
  BY MovedByFacts
<1>2. /\ Signed(M, field, n)[k] = v
      /\ Unsigned(M, field, n)[k] = IF v < 0 THEN -v ELSE v
  BY DEF Signed, Unsigned
<1> HIDE DEF v
<1>3. /\ (IF v < 0 THEN -v ELSE v) \in Nat
      /\ -(IF v < 0 THEN -v ELSE v) <= v /\ v <= (IF v < 0 THEN -v ELSE v)
  BY <1>1
<1> QED
  BY <1>1, <1>2, <1>3 DEF v

\* Movement outside the span of an event says nothing of it.
LEMMA MovementKept ==
  ASSUME NEW M, NEW n \in Nat, MovedTypes(M, n), NEW M2, NEW n2 \in Nat, MovedTypes(M2, n2),
         n <= n2, NEW e, e.from \in 1 .. n - 1, e.to \in 1 .. n - 1, e.from <= e.to,
         \A k \in e.from .. e.to : MovedBy(M, e.field, k) = MovedBy(M2, e.field, k),
         HasMoved(M, n, e)
  PROVE  HasMoved(M2, n2, e)
<1> DEFINE f == e.field
           a == e.from
           b == e.to
<1>1. a \in Int /\ b \in Int /\ a - 1 <= b /\ a \in a .. b
      /\ \A k \in a .. b : k \in 1 .. n - 1 /\ k \in 1 .. n2 - 1
  OBVIOUS
<1> HIDE DEF f, a, b
<1>2. \A k \in a .. b : /\ Signed(M, f, n)[k] = Signed(M2, f, n2)[k] /\ Signed(M, f, n)[k] \in Int
                      /\ Unsigned(M, f, n)[k] = Unsigned(M2, f, n2)[k]
                      /\ Unsigned(M, f, n)[k] \in Int
  <2> SUFFICES ASSUME NEW k \in a .. b
               PROVE  /\ Signed(M, f, n)[k] = Signed(M2, f, n2)[k]
                      /\ Signed(M, f, n)[k] \in Int
                      /\ Unsigned(M, f, n)[k] = Unsigned(M2, f, n2)[k]
                      /\ Unsigned(M, f, n)[k] \in Int
    OBVIOUS
  <2>1. MovedBy(M, f, k) = MovedBy(M2, f, k)
    BY DEF f, a, b
  <2>2. /\ Signed(M, f, n)[k] = MovedBy(M, f, k) /\ Signed(M, f, n)[k] \in Int
        /\ Unsigned(M, f, n)[k] \in Nat
        /\ Unsigned(M, f, n)[k] = IF MovedBy(M, f, k) < 0 THEN -MovedBy(M, f, k)
                                 ELSE MovedBy(M, f, k)
    BY <1>1, TermFacts
  <2>3. /\ Signed(M2, f, n2)[k] = MovedBy(M2, f, k)
        /\ Unsigned(M2, f, n2)[k] = IF MovedBy(M2, f, k) < 0 THEN -MovedBy(M2, f, k)
                                   ELSE MovedBy(M2, f, k)
    BY <1>1, TermFacts
  <2> QED
    BY <2>1, <2>2, <2>3
<1>3. Total(Signed(M2, f, n2), a, b) = Total(Signed(M, f, n), a, b)
  BY <1>1, <1>2, TotalOfSame
<1>4. Total(Unsigned(M2, f, n2), a, b) = Total(Unsigned(M, f, n), a, b)
  BY <1>1, <1>2, TotalOfSame
<1> QED
  BY <1>3, <1>4 DEF HasMoved, f, a, b

LEMMA OutgoingFacts ==
  ASSUME TypeInv, OrderInv
  PROVE  /\ next_seq_id_ \in Nat /\ DOMAIN Outgoing = 1 .. Len(Outgoing) /\ Len(Outgoing) \in Nat
         /\ \A i \in DOMAIN Outgoing :
              /\ Outgoing[i] \in EventType /\ Outgoing[i].from <= Outgoing[i].to
              /\ Outgoing[i].from \in 1 .. next_seq_id_ - 1
              /\ Outgoing[i].to \in 1 .. next_seq_id_ - 1
<1> DEFINE s == Outgoing
<1>1. /\ emitted \in Seq(EventType) /\ sampled_events_ \in Seq(EventType)
      /\ values \in Seq(EventType)
  BY DEF TypeInv, TypeOK
<1>2. emitted \o sampled_events_ \in Seq(EventType)
  BY <1>1, ConcatProperties
<1>3. s \in Seq(EventType)
  BY <1>1, <1>2, ConcatProperties DEF Outgoing
<1>4. s \in Seq(Spans)
  BY ConcatProperties DEF OrderInv, SpanTypes, Outgoing
<1>5. next_seq_id_ \in Nat /\ \A i \in DOMAIN s : s[i].to < next_seq_id_
  BY DEF OrderInv, SpanTypes, EventOrder, Below
<1> HIDE DEF s
<1>6. DOMAIN s = 1 .. Len(s) /\ Len(s) \in Nat
  BY <1>3, LenProperties
<1>7. \A i \in DOMAIN s : s[i] \in EventType /\ s[i] \in Spans
  BY <1>3, <1>4, <1>6, ElementOfSeq
<1>8. ASSUME NEW i \in DOMAIN s
      PROVE  /\ s[i].from <= s[i].to /\ s[i].from \in 1 .. next_seq_id_ - 1
             /\ s[i].to \in 1 .. next_seq_id_ - 1
  <2>1. s[i].from \in Nat \ {0} /\ s[i].to \in Nat \ {0}
    BY <1>7 DEF EventType
  <2>2. s[i].from <= s[i].to
    BY <1>7 DEF Spans
  <2>3. s[i].to < next_seq_id_
    BY <1>5
  <2> QED
    BY <1>5, <2>1, <2>2, <2>3
<1> QED
  BY <1>5, <1>6, <1>7, <1>8 DEF s

\* Two adjacent contributions make one: the numbers between them moved nothing, and a
\* sum that its distances keep below MaxSum does not saturate.
LEMMA JoinedMovement ==
  ASSUME NEW M, NEW n \in Nat, MovedTypes(M, n), NEW a \in EventType, NEW e \in EventType,
         a.field = e.field, a.field \in SumFields, a.from <= a.to, a.to < e.from,
         e.from = e.to, e.to \in 1 .. n - 1,
         \A k \in a.to + 1 .. e.from - 1 : MovedBy(M, a.field, k) = 0,
         HasMoved(M, n, a), HasMoved(M, n, e)
  PROVE  HasMoved(M, n, Coalesced(a, e))
<1> DEFINE f == a.field
           A == a.from
           B == a.to
           E == e.from
           S == Signed(M, f, n)
           U == Unsigned(M, f, n)
<1>1. /\ A \in Nat \ {0} /\ B \in Nat /\ E \in Nat /\ A <= B /\ B < E /\ E \in 1 .. n - 1
      /\ a.value \in Int /\ e.value \in Int
  BY DEF EventType
<1>2. /\ Coalesced(a, e).field = f /\ Coalesced(a, e).from = A /\ Coalesced(a, e).to = E
      /\ Coalesced(a, e).value = SaturatingAdd(a.value, e.value)
  BY DEF Coalesced, EventType
<1>3. /\ Total(U, A, B) <= MaxSum => a.value = Total(S, A, B)
      /\ Total(U, E, E) <= MaxSum => e.value = Total(S, E, E)
  BY DEF HasMoved
<1>4. \A k \in B + 1 .. E - 1 : MovedBy(M, f, k) = 0
  OBVIOUS
<1> HIDE DEF f, A, B, E
<1> HIDE DEF S, U
<1>5. ASSUME NEW k \in A .. E
      PROVE  /\ S[k] = MovedBy(M, f, k) /\ S[k] \in Int /\ U[k] \in Nat
             /\ U[k] = IF MovedBy(M, f, k) < 0 THEN -MovedBy(M, f, k) ELSE MovedBy(M, f, k)
             /\ -U[k] <= S[k] /\ S[k] <= U[k]
  <2>1. k \in 1 .. n - 1
    BY <1>1
  <2>2. /\ Signed(M, f, n)[k] = MovedBy(M, f, k) /\ Signed(M, f, n)[k] \in Int
        /\ Unsigned(M, f, n)[k] \in Nat
        /\ Unsigned(M, f, n)[k] = IF MovedBy(M, f, k) < 0 THEN -MovedBy(M, f, k)
                                  ELSE MovedBy(M, f, k)
        /\ -Unsigned(M, f, n)[k] <= Signed(M, f, n)[k]
        /\ Signed(M, f, n)[k] <= Unsigned(M, f, n)[k]
    BY <2>1, TermFacts
  <2> QED
    BY <2>2 DEF S, U
<1>6. /\ A \in Int /\ B \in Int /\ E \in Int /\ E - 1 \in Int /\ B + 1 \in Int
      /\ A - 1 <= B /\ B <= E /\ (B + 1) - 1 <= E - 1 /\ E - 1 <= E /\ (E - 1) + 1 = E
      /\ A - 1 <= E /\ E - 1 <= E
      /\ \A k \in B + 1 .. E : k \in A .. E
      /\ \A k \in B + 1 .. E - 1 : k \in A .. E
      /\ \A k \in A .. B : k \in A .. E
      /\ E \in A .. E
  BY <1>1
<1>7. ASSUME NEW k \in B + 1 .. E - 1 PROVE S[k] = 0 /\ U[k] = 0
  <2>1. k \in A .. E /\ MovedBy(M, f, k) = 0
    BY <1>4, <1>6
  <2>2. /\ S[k] = MovedBy(M, f, k)
        /\ U[k] = IF MovedBy(M, f, k) < 0 THEN -MovedBy(M, f, k) ELSE MovedBy(M, f, k)
    BY <1>5, <2>1
  <2> QED
    BY <2>1, <2>2
<1>8. Total(S, B + 1, E - 1) = 0 /\ Total(U, B + 1, E - 1) = 0
  <2> DEFINE l == B + 1
             r == E - 1
  <2>1. l \in Int /\ r \in Int /\ l - 1 <= r /\ \A k \in l .. r : S[k] = 0 /\ U[k] = 0
    BY <1>6, <1>7
  <2> HIDE DEF l, r
  <2>2. Total(S, l, r) = 0 /\ Total(U, l, r) = 0
    BY <2>1, TotalOfZeros
  <2> QED
    BY <2>2 DEF l, r
<1>9. Total(S, A, E) = Total(S, A, B) + (0 + Total(S, E, E))
  <2>1. Total(S, A, E) = Total(S, A, B) + Total(S, B + 1, E)
    BY <1>5, <1>6, TotalSplit
  <2>2. \A k \in B + 1 .. E : S[k] \in Int
    BY <1>5, <1>6
  <2>3. Total(S, B + 1, E) = Total(S, B + 1, E - 1) + Total(S, (E - 1) + 1, E)
    <3> DEFINE l == B + 1
               r == E - 1
    <3>1. l \in Int /\ r \in Int /\ E \in Int /\ l - 1 <= r /\ r <= E /\ \A k \in l .. E : S[k] \in Int
      BY <1>6, <2>2
    <3> HIDE DEF l, r
    <3>2. Total(S, l, E) = Total(S, l, r) + Total(S, r + 1, E)
      BY <3>1, TotalSplit
    <3> QED
      BY <3>2 DEF l, r
  <2> QED
    BY <1>6, <1>8, <2>1, <2>3
<1>10. Total(U, A, E) = Total(U, A, B) + (0 + Total(U, E, E))
  <2>1. Total(U, A, E) = Total(U, A, B) + Total(U, B + 1, E)
    BY <1>5, <1>6, TotalSplit
  <2>2. \A k \in B + 1 .. E : U[k] \in Int
    BY <1>5, <1>6
  <2>3. Total(U, B + 1, E) = Total(U, B + 1, E - 1) + Total(U, (E - 1) + 1, E)
    <3> DEFINE l == B + 1
               r == E - 1
    <3>1. l \in Int /\ r \in Int /\ E \in Int /\ l - 1 <= r /\ r <= E /\ \A k \in l .. E : U[k] \in Int
      BY <1>6, <2>2
    <3> HIDE DEF l, r
    <3>2. Total(U, l, E) = Total(U, l, r) + Total(U, r + 1, E)
      BY <3>1, TotalSplit
    <3> QED
      BY <3>2 DEF l, r
  <2> QED
    BY <1>6, <1>8, <2>1, <2>3
<1>11. /\ Total(U, A, B) \in Nat /\ -Total(U, A, B) <= Total(S, A, B)
       /\ Total(S, A, B) <= Total(U, A, B)
  <2>1. ASSUME NEW k \in A .. B
        PROVE  S[k] \in Int /\ U[k] \in Nat /\ -U[k] <= S[k] /\ S[k] <= U[k]
    <3>1. k \in A .. E
      BY <1>6
    <3> QED
      BY <1>5, <3>1
  <2> QED
    BY <1>6, <2>1, TotalBounded
<1>12. /\ Total(U, E, E) \in Nat /\ -Total(U, E, E) <= Total(S, E, E)
       /\ Total(S, E, E) <= Total(U, E, E)
  <2>1. ASSUME NEW k \in E .. E
        PROVE  S[k] \in Int /\ U[k] \in Nat /\ -U[k] <= S[k] /\ S[k] <= U[k]
    <3>1. k \in A .. E
      BY <1>6
    <3> QED
      BY <1>5, <3>1
  <2> QED
    BY <1>6, <2>1, TotalBounded
<1>13. Total(S, A, B) \in Int /\ Total(S, E, E) \in Int
  BY <1>5, <1>6, TotalType
<1>14. ASSUME Total(U, A, E) <= MaxSum
       PROVE  SaturatingAdd(a.value, e.value) = Total(S, A, E)
  <2>1. MaxSum \in Nat
    BY BufferAssumption
  <2>2. Total(U, A, B) + Total(U, E, E) <= MaxSum
    BY <1>10, <1>11, <1>12, <1>14
  <2>3. Total(U, A, B) <= MaxSum /\ Total(U, E, E) <= MaxSum
    BY <1>11, <1>12, <2>1, <2>2
  <2>4. a.value = Total(S, A, B) /\ e.value = Total(S, E, E)
    BY <1>3, <2>3
  <2> DEFINE x == Total(S, A, B)
             y == Total(S, E, E)
             v == Total(U, A, B)
             w == Total(U, E, E)
  <2>5. /\ x \in Int /\ y \in Int /\ v \in Nat /\ w \in Nat /\ v + w <= MaxSum
        /\ -v <= x /\ x <= v /\ -w <= y /\ y <= w
    BY <1>11, <1>12, <1>13, <2>2
  <2>6. Total(S, A, E) = x + (0 + y)
    BY <1>9
  <2>7. SaturatingAdd(a.value, e.value) = SaturatingAdd(x, y)
    BY <2>4
  <2> HIDE DEF x, y, v, w
  <2>8. SaturatingAdd(x, y) = x + y
    BY <2>1, <2>5 DEF SaturatingAdd
  <2> QED
    BY <2>5, <2>6, <2>7, <2>8
<1> QED
  BY <1>2, <1>14 DEF HasMoved, S, U

\* A step that decodes nothing, moves events along at most and leaves the FIFO with
\* reports that are later than every movement.
LEMMA MovementStays ==
  ASSUME TypeInv, OrderInv, MovementInv, UNCHANGED <<moved, Outgoing>>,
         next_seq_id_' \in Nat, next_seq_id_ <= next_seq_id_',
         \A m \in moved, i \in DOMAIN pending_reports_' : m.seq < pending_reports_'[i].seq_id
  PROVE  MovementInv'
<1> DEFINE n == next_seq_id_
           n2 == next_seq_id_'
           s == Outgoing
<1>1. /\ n \in Nat /\ n2 \in Nat /\ n <= n2
      /\ \A i \in DOMAIN s : /\ s[i].from <= s[i].to /\ s[i].from \in 1 .. n - 1
                             /\ s[i].to \in 1 .. n - 1
  BY OutgoingFacts
<1>2. /\ MovedTypes(moved, n) /\ Disjoint(s) /\ Covered(moved, s)
      /\ \A i \in DOMAIN s : s[i].field \in SumFields => HasMoved(moved, n, s[i])
  BY DEF MovementInv
<1>3. moved' = moved /\ Outgoing' = s
  OBVIOUS
<1> HIDE DEF n, n2, s
<1>4. MovedTypes(moved, n2)
  <2>1. 1 .. n - 1 \subseteq 1 .. n2 - 1
    BY <1>1
  <2> QED
    BY <1>2, <2>1 DEF MovedTypes
<1>5. ASSUME NEW i \in DOMAIN s, s[i].field \in SumFields PROVE HasMoved(moved, n2, s[i])
  BY <1>1, <1>2, <1>4, <1>5, MovementKept
<1> QED
  BY <1>2, <1>3, <1>4, <1>5 DEF MovementInv, n2

\* What was decoded of other reports leaves what was decoded of this one.
LEMMA MovedByUnion ==
  ASSUME NEW M, NEW L, NEW field, NEW seq, \A l \in L : l.seq # seq
  PROVE  MovedBy(M \cup L, field, seq) = MovedBy(M, field, seq)
<1> DEFINE of(X) == {m \in X : m.field = field /\ m.seq = seq}
           pick(S) == IF S = {} THEN 0 ELSE (CHOOSE m \in S : TRUE).value
<1>1. of(M \cup L) = of(M)
  OBVIOUS
<1>2. MovedBy(M, field, seq) = pick(of(M)) /\ MovedBy(M \cup L, field, seq) = pick(of(M \cup L))
  BY DEF MovedBy
<1> HIDE DEF of, pick
<1> QED
  BY <1>1, <1>2

\* The values of a report are one event per field, after every event there was, and its
\* movement is of a number no event covers yet.
LEMMA MovementTaken ==
  ASSUME TypeInv, OrderInv, MovementInv, OrderInv', TakeReport
  PROVE  MovementInv'
<1> DEFINE first == Head(pending_reports_)
           report == first.report
           k0 == first.seq_id
           n == next_seq_id_
           s == Outgoing
           d == values'
           L == Statements(report, k0, SumFields)
           M == moved \cup L
           N == Len(s)
           u == s \o d
<1>1. /\ report \in Reports /\ k0 \in Nat \ {0} /\ d \in Decodings(report, k0)
      /\ moved' = M /\ next_seq_id_' = n /\ pending_reports_' = Tail(pending_reports_)
      /\ first = pending_reports_[1] /\ 1 \in DOMAIN pending_reports_
      /\ \A j \in DOMAIN pending_reports_' :
           \E i \in DOMAIN pending_reports_ : pending_reports_'[j] = pending_reports_[i] /\ 1 < i
  <2>1. pending_reports_ \in Seq(Entered) /\ pending_reports_ # <<>>
    BY TypeParts DEF FifoTypes, TakeReport
  <2>2. first \in Entered /\ first = pending_reports_[1] /\ Tail(pending_reports_) \in Seq(Entered)
        /\ Len(Tail(pending_reports_)) = Len(pending_reports_) - 1
        /\ \A i \in 1 .. Len(pending_reports_) - 1 : Tail(pending_reports_)[i] = pending_reports_[i + 1]
    BY <2>1, HeadTailProperties
  <2>3. /\ Len(pending_reports_) \in Nat /\ DOMAIN pending_reports_ = 1 .. Len(pending_reports_)
        /\ DOMAIN Tail(pending_reports_) = 1 .. Len(pending_reports_) - 1
        /\ Len(pending_reports_) >= 1
    BY <2>1, <2>2, LenProperties, EmptySeq
  <2>4. pending_reports_' = Tail(pending_reports_)
    BY DEF TakeReport
  <2>5. ASSUME NEW j \in DOMAIN pending_reports_'
        PROVE  \E i \in DOMAIN pending_reports_ : pending_reports_'[j] = pending_reports_[i] /\ 1 < i
    <3>1. j \in 1 .. Len(pending_reports_) - 1
      BY <2>3, <2>4, <2>5
    <3>2. j + 1 \in DOMAIN pending_reports_ /\ 1 < j + 1
      BY <2>3, <3>1
    <3>3. pending_reports_'[j] = pending_reports_[j + 1]
      BY <2>2, <2>4, <3>1
    <3> QED
      BY <3>2, <3>3
  <2>6. first.report \in Reports /\ first.seq_id \in Nat \ {0}
    BY <2>2 DEF Entered
  <2>7. /\ values' \in Decodings(first.report, first.seq_id) /\ next_seq_id_' = next_seq_id_
        /\ moved' = moved \cup Statements(first.report, first.seq_id, SumFields)
    BY DEF TakeReport, inputVars
  <2>8. 1 \in DOMAIN pending_reports_
    BY <2>3
  <2> QED
    BY <2>2, <2>4, <2>5, <2>6, <2>7, <2>8
<1>2. /\ n \in Nat /\ k0 < n
      /\ \A i \in DOMAIN pending_reports_ : 1 < i => k0 < pending_reports_[i].seq_id
      /\ \A i \in DOMAIN pending_reports_ : pending_reports_[i].seq_id \in Nat
  BY <1>1, QueueNumbers
<1>3. /\ MovedTypes(moved, n) /\ Disjoint(s) /\ Covered(moved, s)
      /\ \A i \in DOMAIN s : s[i].field \in SumFields => HasMoved(moved, n, s[i])
      /\ \A m \in moved : m.seq < k0
      /\ \A m \in moved, i \in DOMAIN pending_reports_ : m.seq < pending_reports_[i].seq_id
  BY <1>1 DEF MovementInv
<1>4. /\ DOMAIN s = 1 .. N /\ N \in Nat
      /\ \A i \in DOMAIN s : /\ s[i].from <= s[i].to /\ s[i].from \in 1 .. n - 1
                             /\ s[i].to \in 1 .. n - 1 /\ s[i].to < k0
  <2>1. \A i \in DOMAIN s : s[i].to < k0
    BY <1>1 DEF OrderInv, FifoOrder, Below
  <2> QED
    BY <2>1, OutgoingFacts
<1>5. /\ s \in Seq(Spans) /\ d \in Seq(Spans) /\ Outgoing' = u
      /\ \A j \in DOMAIN d : d[j].from = k0 /\ d[j].to = k0
  <2>1. s \in Seq(Spans)
    BY ConcatProperties DEF OrderInv, SpanTypes, Outgoing
  <2>2. k0 \in Nat
    BY <1>1
  <2>3. d \in Seq(Spans) /\ \A j \in DOMAIN d : d[j].from = k0 /\ d[j].to = k0
    BY <1>1, <2>2, DecodingType
  <2> QED
    BY <2>1, <2>3, TakeReportOrder
<1>6. /\ Len(d) \in Nat /\ DOMAIN d = 1 .. Len(d)
      /\ \A k \in DOMAIN d, f \in Fields :
           d[k].field = f => report.status = "COMPLETE" /\ Changed(report, f)
                             /\ d[k].value = report.input[f]
      /\ \A j, k \in DOMAIN d, f \in Fields : d[j].field = f /\ d[k].field = f => j = k
      /\ \A f \in Fields : report.status = "COMPLETE" /\ Changed(report, f) =>
                             \E k \in DOMAIN d : d[k].field = f
  <2>1. Len(d) \in Nat /\ DOMAIN d = 1 .. Len(d)
    BY <1>5, LenProperties
  <2> HIDE DEF d, report, k0
  <2>2. ASSUME NEW f \in Fields
        PROVE  /\ \A k \in DOMAIN d :
                    d[k].field = f => report.status = "COMPLETE" /\ Changed(report, f)
                                      /\ d[k].value = report.input[f]
               /\ \A j, k \in DOMAIN d : d[j].field = f /\ d[k].field = f => j = k
               /\ report.status = "COMPLETE" /\ Changed(report, f) =>
                    \E k \in DOMAIN d : d[k].field = f
    BY <1>1, <2>2, DecodedOnce
  <2> QED
    BY <2>1, <2>2
<1>7. /\ \A f \in SumFields : f \in Fields
      /\ \A f \in SumFields : Changed(report, f) <=> Says(report, f) /\ report.input[f] # 0
      /\ \A f \in SumFields : Says(report, f) => report.input[f] \in Int
  <2>1. SumFields \subseteq Fields /\ report \in ReportType
    BY <1>1, PipelineAssumption
  <2> QED
    BY <2>1 DEF Changed, Says, ReportType
<1>8. /\ \A l \in L : /\ l.seq = k0 /\ l.field \in SumFields /\ l.value = report.input[l.field]
                      /\ report.status = "COMPLETE" /\ Says(report, l.field)
      /\ \A f \in SumFields : report.status = "COMPLETE" /\ Says(report, f) =>
           \E l \in L : l.field = f /\ l.seq = k0 /\ l.value = report.input[f]
  <2>1. \A l \in L : \E f \in SumFields :
          /\ report.status = "COMPLETE" /\ Says(report, f)
          /\ l = [field |-> f, value |-> report.input[f], seq |-> k0]
    BY DEF Statements
  <2>2. ASSUME NEW f \in SumFields, report.status = "COMPLETE", Says(report, f)
        PROVE  [field |-> f, value |-> report.input[f], seq |-> k0] \in L
    BY <2>2 DEF Statements
  <2> HIDE DEF L
  <2>3. ASSUME NEW l \in L
        PROVE  /\ l.seq = k0 /\ l.field \in SumFields /\ l.value = report.input[l.field]
               /\ report.status = "COMPLETE" /\ Says(report, l.field)
    BY <2>1
  <2>4. ASSUME NEW f \in SumFields, report.status = "COMPLETE", Says(report, f)
        PROVE  \E l \in L : l.field = f /\ l.seq = k0 /\ l.value = report.input[f]
    BY <2>2, <2>4
  <2> QED
    BY <2>3, <2>4
<1>9. /\ \A i \in DOMAIN s : i \in DOMAIN u /\ u[i] = s[i]
      /\ \A j \in DOMAIN d : N + j \in DOMAIN u /\ u[N + j] = d[j]
      /\ \A k \in DOMAIN u : k \in DOMAIN s \/ \E j \in DOMAIN d : k = N + j
  BY <1>5, Places
<1> HIDE DEF L, M, n, s, d, u, N, report, first, k0
<1>10. k0 \in 1 .. n - 1
  BY <1>1, <1>2
<1>11. MovedTypes(M, n)
  <2>1. \A m \in moved : m.field \in SumFields /\ m.value \in Int /\ m.seq \in 1 .. n - 1 /\ m.seq < k0
    BY <1>3 DEF MovedTypes
  <2>2. \A l \in L : l.field \in SumFields /\ l.value \in Int /\ l.seq \in 1 .. n - 1
    BY <1>7, <1>8, <1>10
  <2>3. \A m \in moved, l \in L : m.seq # l.seq
    BY <1>8, <1>10, <2>1
  <2>4. \A m, l \in moved : m.field = l.field /\ m.seq = l.seq => m.value = l.value
    BY <1>3 DEF MovedTypes
  <2>5. \A m, l \in L : m.field = l.field => m.value = l.value
    BY <1>8
  <2>6. ASSUME NEW m \in M, NEW l \in M, m.field = l.field, m.seq = l.seq PROVE m.value = l.value
    BY <2>3, <2>4, <2>5, <2>6 DEF M
  <2> QED
    BY <2>1, <2>2, <2>6 DEF M, MovedTypes
<1>12. \A m \in M, j \in DOMAIN pending_reports_' : m.seq < pending_reports_'[j].seq_id
  BY <1>1, <1>2, <1>3, <1>8 DEF M
<1>13. Disjoint(u)
  <2> SUFFICES ASSUME NEW i \in DOMAIN u, NEW j \in DOMAIN u, i < j, u[i].field = u[j].field,
                      u[i].field \in SumFields
               PROVE  u[i].to < u[j].from
    BY DEF Disjoint
  <2>1. CASE i \in DOMAIN s /\ j \in DOMAIN s
    BY <1>3, <1>9, <2>1 DEF Disjoint
  <2>2. CASE i \in DOMAIN s /\ j \notin DOMAIN s
    <3>1. PICK k \in DOMAIN d : j = N + k
      BY <1>9, <2>2
    <3> QED
      BY <1>4, <1>5, <1>9, <2>2, <3>1
  <2>3. CASE i \notin DOMAIN s
    <3>1. PICK k \in DOMAIN d : i = N + k
      BY <1>9, <2>3
    <3>2. j \notin DOMAIN s
      BY <1>4, <1>6, <3>1
    <3>3. PICK l \in DOMAIN d : j = N + l
      BY <1>9, <3>2
    <3>4. d[k].field = d[l].field /\ d[k].field \in Fields
      BY <1>7, <1>9, <3>1, <3>3
    <3>5. k = l
      BY <1>6, <3>4
    <3> QED
      BY <1>4, <1>6, <3>1, <3>3, <3>5
  <2> QED
    BY <2>1, <2>2, <2>3
<1>14. Covered(M, u)
  <2> SUFFICES ASSUME NEW m \in M, m.value # 0
               PROVE  \E i \in DOMAIN u : u[i].field = m.field /\ m.seq \in u[i].from .. u[i].to
    BY DEF Covered
  <2>1. CASE m \in moved
    <3>1. PICK i \in DOMAIN s : s[i].field = m.field /\ m.seq \in s[i].from .. s[i].to
      BY <1>3, <2>1 DEF Covered
    <3> QED
      BY <1>9, <3>1
  <2>2. CASE m \in L
    <3>1. /\ m.seq = k0 /\ m.field \in SumFields /\ m.field \in Fields
          /\ report.status = "COMPLETE" /\ Changed(report, m.field)
      BY <1>7, <1>8, <2>2
    <3>2. PICK k \in DOMAIN d : d[k].field = m.field
      BY <1>6, <3>1
    <3>3. k0 \in k0 .. k0 /\ N + k \in DOMAIN u /\ u[N + k] = d[k]
      BY <1>9, <1>10, <3>2
    <3>4. d[k].from = k0 /\ d[k].to = k0
      BY <1>5, <3>2
    <3> QED
      BY <3>1, <3>2, <3>3, <3>4
  <2> QED
    BY <2>1, <2>2 DEF M
<1>15. ASSUME NEW i \in DOMAIN u, u[i].field \in SumFields PROVE HasMoved(M, n, u[i])
  <2>1. CASE i \in DOMAIN s
    <3> DEFINE e == s[i]
    <3>1. /\ e.from \in 1 .. n - 1 /\ e.to \in 1 .. n - 1 /\ e.from <= e.to /\ e.to < k0
          /\ u[i] = e /\ HasMoved(moved, n, e)
      BY <1>3, <1>4, <1>9, <1>15, <2>1
    <3> HIDE DEF e
    <3>2. ASSUME NEW k \in e.from .. e.to
          PROVE  MovedBy(moved, e.field, k) = MovedBy(M, e.field, k)
      <4>1. k # k0
        BY <1>10, <3>1
      <4>2. \A l \in L : l.seq # k
        BY <1>8, <4>1
      <4>3. MovedBy(moved \cup L, e.field, k) = MovedBy(moved, e.field, k)
        BY <4>2, MovedByUnion
      <4> QED
        BY <4>3 DEF M
    <3>3. n \in Nat /\ n <= n
      BY <1>2
    <3>4. HasMoved(M, n, e)
      BY <1>3, <1>11, <3>1, <3>2, <3>3, MovementKept
    <3> QED
      BY <3>1, <3>4
  <2>2. CASE i \notin DOMAIN s
    <3>1. PICK k \in DOMAIN d : i = N + k
      BY <1>9, <2>2
    <3> DEFINE e == d[k]
               f == e.field
               S == Signed(M, f, n)
    <3>2. /\ u[i] = e /\ e.from = k0 /\ e.to = k0 /\ f \in SumFields /\ f \in Fields
      BY <1>5, <1>7, <1>9, <1>15, <3>1
    <3>3. e.value = report.input[f] /\ report.status = "COMPLETE" /\ Says(report, f)
      BY <1>6, <1>7, <3>2
    <3>4. PICK l \in L : l.field = f /\ l.seq = k0 /\ l.value = report.input[f]
      BY <1>8, <3>2, <3>3
    <3> HIDE DEF f
    <3>5. MovedBy(M, f, k0) = e.value
      BY <1>11, <3>3, <3>4, MovedByFacts DEF M
    <3>6. S[k0] = MovedBy(M, f, k0) /\ S[k0] \in Int
      <4>1. n \in Nat
        BY <1>2
      <4>2. Signed(M, f, n)[k0] = MovedBy(M, f, k0) /\ Signed(M, f, n)[k0] \in Int
        BY <1>10, <1>11, <4>1, TermFacts
      <4> QED
        BY <4>2
    <3> HIDE DEF S
    <3>7. Total(S, k0, k0) = S[k0]
      BY <1>10, <3>6, TotalOfOne
    <3> QED
      BY <3>2, <3>5, <3>6, <3>7 DEF HasMoved, S, f
  <2> QED
    BY <2>1, <2>2
<1>16. Outgoing' = u /\ moved' = M /\ next_seq_id_' = n
  BY <1>1, <1>5
<1> QED
  BY <1>11, <1>12, <1>13, <1>14, <1>15, <1>16 DEF MovementInv

\* The event that joins another leaves no number uncovered, and the two spans have
\* nothing of their field between them.
LEMMA MovementJoined ==
  ASSUME TypeInv, OrderInv, MovementInv, OrderInv', Joins,
         UNCHANGED <<moved, pending_reports_, next_seq_id_>>
  PROVE  MovementInv'
<1> DEFINE e == Head(values)
           O == Outgoing
           U == Outgoing'
           N == Len(O)
           M == moved
           n == next_seq_id_
<1>1. /\ e.from = e.to /\ e \in Spans
      /\ DOMAIN O = 1 .. N /\ DOMAIN U = 1 .. Len(U) /\ Len(U) = N - 1
  BY JoinPlaces
<1>2. PICK p, q : JoinedAt(O, U, N, p, q) /\ O[p] = e /\ U[q] = Coalesced(O[q], e)
  BY JoinPlaces
<1>3. /\ n \in Nat
      /\ \A i \in DOMAIN O : /\ O[i] \in EventType /\ O[i].from <= O[i].to
                             /\ O[i].from \in 1 .. n - 1 /\ O[i].to \in 1 .. n - 1
  BY OutgoingFacts
<1>4. /\ MovedTypes(M, n) /\ Disjoint(O) /\ Covered(M, O)
      /\ \A i \in DOMAIN O : O[i].field \in SumFields => HasMoved(M, n, O[i])
      /\ \A m \in M, i \in DOMAIN pending_reports_ : m.seq < pending_reports_[i].seq_id
  BY DEF MovementInv
<1>5. MovementInv' <=>
        /\ MovedTypes(M, n) /\ Disjoint(U) /\ Covered(M, U)
        /\ \A i \in DOMAIN U : U[i].field \in SumFields => HasMoved(M, n, U[i])
        /\ \A m \in M, i \in DOMAIN pending_reports_ : m.seq < pending_reports_[i].seq_id
  BY DEF MovementInv
<1> HIDE DEF e, O, U, N, M, n
<1>6. /\ N \in Nat /\ p \in 1 .. N /\ q \in 1 .. p - 1 /\ O[q].field = e.field
      /\ \A i \in 1 .. p - 1 : i # q => U[i] = O[i]
      /\ \A i \in p .. N - 1 : U[i] = O[i + 1]
      /\ \A i \in q + 1 .. p - 1 : O[i].field # e.field
  BY <1>2 DEF JoinedAt
<1>7. /\ p \in DOMAIN O /\ q \in DOMAIN O /\ q \in DOMAIN U /\ q < p
      /\ e \in EventType /\ O[q] \in EventType
      /\ e.from \in 1 .. n - 1 /\ O[q].from \in 1 .. n - 1 /\ O[q].to \in 1 .. n - 1
      /\ O[q].from <= O[q].to
  <2>1. p \in DOMAIN O /\ q \in DOMAIN O /\ q \in DOMAIN U /\ q < p
    BY <1>1, <1>6
  <2> QED
    BY <1>2, <1>3, <2>1
<1>8. U[q].field = e.field /\ U[q].from = O[q].from /\ U[q].to = e.from
  BY <1>1, <1>2, <1>7 DEF Coalesced, EventType
<1>9. e.field \in SumFields => O[q].to < e.from
  BY <1>2, <1>4, <1>6, <1>7 DEF Disjoint
<1> DEFINE was(i) == IF i < p THEN i ELSE i + 1
<1>10. ASSUME NEW i \in DOMAIN U, i # q
       PROVE  was(i) \in DOMAIN O /\ U[i] = O[was(i)] /\ was(i) # q /\ was(i) # p
  <2>1. CASE i < p
    BY <1>1, <1>6, <1>10, <2>1
  <2>2. CASE ~(i < p)
    BY <1>1, <1>6, <1>10, <2>2
  <2> QED
    BY <2>1, <2>2
<1>11. \A i, j \in DOMAIN U : i < j => was(i) < was(j)
  BY <1>1, <1>6
<1>12. \A i \in DOMAIN U : (i < q => was(i) = i) /\ (i > q => was(i) > q)
  BY <1>1, <1>6
<1> HIDE DEF was
<1>13. Disjoint(U)
  <2> SUFFICES ASSUME NEW i \in DOMAIN U, NEW j \in DOMAIN U, i < j, U[i].field = U[j].field,
                      U[i].field \in SumFields
               PROVE  U[i].to < U[j].from
    BY DEF Disjoint
  <2>1. CASE i # q /\ j # q
    <3>1. /\ was(i) \in DOMAIN O /\ was(j) \in DOMAIN O /\ was(i) < was(j)
          /\ U[i] = O[was(i)] /\ U[j] = O[was(j)]
      BY <1>10, <1>11, <2>1
    <3> QED
      BY <1>4, <3>1 DEF Disjoint
  <2>2. CASE i = q
    <3>1. j # q /\ was(j) \in DOMAIN O /\ U[j] = O[was(j)] /\ was(j) > q /\ was(j) # p
      BY <1>1, <1>6, <1>10, <1>12, <2>2
    <3>2. O[was(j)].field = e.field
      BY <1>8, <2>2, <3>1
    <3>3. ~(was(j) \in q + 1 .. p - 1)
      BY <1>6, <3>2
    <3>4. p < was(j)
      BY <1>1, <1>6, <3>1, <3>3
    <3>5. O[p].to < O[was(j)].from
      BY <1>2, <1>4, <1>7, <1>8, <2>2, <3>1, <3>2, <3>4 DEF Disjoint
    <3> QED
      BY <1>1, <1>2, <1>8, <2>2, <3>1, <3>5
  <2>3. CASE j = q
    <3>1. i # q /\ i \in DOMAIN O /\ U[i] = O[i]
      <4>1. i # q /\ i < q
        BY <1>1, <1>6, <2>3
      <4> QED
        BY <1>10, <1>12, <4>1
    <3>2. O[i].to < O[q].from
      BY <1>4, <1>6, <1>7, <1>8, <2>3, <3>1 DEF Disjoint
    <3> QED
      BY <1>8, <2>3, <3>1, <3>2
  <2> QED
    BY <2>1, <2>2, <2>3
<1>14. Covered(M, U)
  <2> SUFFICES ASSUME NEW m \in M, m.value # 0
               PROVE  \E i \in DOMAIN U : U[i].field = m.field /\ m.seq \in U[i].from .. U[i].to
    BY DEF Covered
  <2>1. m.field \in SumFields /\ m.seq \in Int
    BY <1>4 DEF MovedTypes
  <2>2. PICK i \in DOMAIN O : O[i].field = m.field /\ m.seq \in O[i].from .. O[i].to
    BY <1>4 DEF Covered
  <2>3. CASE i = p \/ i = q
    <3>1. m.field = e.field /\ O[q].to < e.from
      BY <1>2, <1>6, <1>9, <2>1, <2>2, <2>3
    <3>2. m.seq \in O[q].from .. e.from
      BY <1>1, <1>2, <1>7, <2>1, <2>2, <2>3, <3>1
    <3> QED
      BY <1>7, <1>8, <3>1, <3>2
  <2>4. CASE i # p /\ i # q
    <3>1. CASE i < p
      <4>1. i \in DOMAIN U /\ U[i] = O[i]
        BY <1>1, <1>6, <2>4, <3>1
      <4> QED
        BY <2>2, <4>1
    <3>2. CASE ~(i < p)
      <4>1. i - 1 \in DOMAIN U /\ i - 1 \in p .. N - 1 /\ (i - 1) + 1 = i
        BY <1>1, <1>6, <2>4, <3>2
      <4>2. U[i - 1] = O[i]
        BY <1>6, <4>1
      <4> QED
        BY <2>2, <4>1, <4>2
    <3> QED
      BY <3>1, <3>2
  <2> QED
    BY <2>3, <2>4
<1>15. ASSUME NEW i \in DOMAIN U, U[i].field \in SumFields PROVE HasMoved(M, n, U[i])
  <2>1. CASE i # q
    BY <1>4, <1>10, <1>15, <2>1
  <2>2. CASE i = q
    <3> DEFINE a == O[q]
    <3>1. /\ a \in EventType /\ e \in EventType /\ a.field = e.field /\ a.field \in SumFields
          /\ a.from <= a.to /\ a.to < e.from /\ e.from = e.to /\ e.to \in 1 .. n - 1
          /\ HasMoved(M, n, a) /\ HasMoved(M, n, e)
      BY <1>1, <1>2, <1>4, <1>6, <1>7, <1>8, <1>9, <1>15, <2>2
    <3>2. ASSUME NEW k \in a.to + 1 .. e.from - 1 PROVE MovedBy(M, a.field, k) = 0
      <4> SUFFICES ASSUME MovedBy(M, a.field, k) # 0 PROVE FALSE
        OBVIOUS
      <4>1. PICK m \in M : m.field = a.field /\ m.seq = k /\ m.value # 0
        BY <1>4, MovedByFacts
      <4>2. PICK j \in DOMAIN O : O[j].field = a.field /\ k \in O[j].from .. O[j].to
        BY <1>4, <4>1 DEF Covered
      <4>3. /\ a.from \in Int /\ a.to \in Int /\ e.from \in Int /\ k \in Int
            /\ O[j].from \in Int /\ O[j].to \in Int /\ a.to < k /\ k < e.from
            /\ O[j].from <= k /\ k <= O[j].to
        BY <1>3, <1>7, <4>2
      <4>4. CASE j < q
        <5>1. O[j].to < a.from
          BY <1>4, <1>7, <3>1, <4>2, <4>4 DEF Disjoint
        <5> QED
          BY <3>1, <4>3, <5>1
      <4>5. CASE j = q
        BY <4>3, <4>5
      <4>6. CASE j = p
        BY <1>2, <4>3, <4>6
      <4>7. CASE p < j
        <5>1. O[p].to < O[j].from
          BY <1>2, <1>4, <1>7, <3>1, <4>2, <4>7 DEF Disjoint
        <5> QED
          BY <1>2, <3>1, <4>3, <5>1
      <4>8. ~(j \in q + 1 .. p - 1)
        BY <1>6, <3>1, <4>2
      <4> QED
        BY <1>1, <1>6, <4>4, <4>5, <4>6, <4>7, <4>8
    <3>3. n \in Nat /\ MovedTypes(M, n) /\ U[i] = Coalesced(a, e)
      BY <1>2, <1>3, <1>4, <2>2
    <3> HIDE DEF a
    <3> QED
      BY <3>1, <3>2, <3>3, JoinedMovement
  <2> QED
    BY <2>1, <2>2
<1> QED
  BY <1>4, <1>5, <1>13, <1>14, <1>15

LEMMA NothingMoved ==
  ASSUME emitted = <<>>, sampled_events_ = <<>>, values = <<>>, moved = {}
  PROVE  MovementInv
<1>1. Outgoing = <<>>
  <2>1. <<>> \in Seq(Spans) /\ <<>> \o <<>> = <<>>
    BY EmptySeq, ConcatEmptySeq
  <2> QED
    BY <2>1 DEF Outgoing
<1>2. DOMAIN <<>> = {}
  OBVIOUS
<1> QED
  BY <1>1, <1>2 DEF MovementInv, MovedTypes, Disjoint, Covered

LEMMA MovementStep ==
  ASSUME TypeInv, OrderInv, OrderInv', WindowCoversBuffer, MovementInv, [Next]_vars
  PROVE  MovementInv'
<1>1. /\ next_seq_id_ \in Nat
      /\ \A m \in moved : m.seq \in Int /\ m.seq < next_seq_id_
      /\ \A m \in moved, i \in DOMAIN pending_reports_ : m.seq < pending_reports_[i].seq_id
  BY OutgoingFacts DEF MovementInv, MovedTypes
<1>2. ASSUME Outgoing' = Outgoing, UNCHANGED <<moved, pending_reports_, next_seq_id_>>
      PROVE  MovementInv'
  BY <1>1, <1>2, MovementStays
<1>3. ASSUME NEW report \in Reports, Notify(report) PROVE MovementInv'
  <2>1. /\ Outgoing' = Outgoing /\ moved' = moved /\ next_seq_id_' = next_seq_id_ + 1
    BY <1>3 DEF Notify, windowVars, loopVars, Outgoing
  <2>2. \A m \in moved, j \in DOMAIN pending_reports_' : m.seq < pending_reports_'[j].seq_id
    <3>1. CASE pending_reports_' = pending_reports_
      BY <1>1, <3>1
    <3>2. CASE Enqueue(report)
      <4> DEFINE entry == [report |-> report, seq_id |-> next_seq_id_]
      <4>1. \A j \in DOMAIN pending_reports_' :
              \/ pending_reports_'[j] = entry
              \/ \E i \in Dropped(report.size) + 1 .. Len(pending_reports_) :
                   pending_reports_'[j] = pending_reports_[i]
        BY <3>2, Enqueued
      <4>2. \A i \in Dropped(report.size) + 1 .. Len(pending_reports_) :
              i \in DOMAIN pending_reports_
        <5>1. /\ Dropped(report.size) \in 0 .. Len(pending_reports_)
              /\ Len(pending_reports_) \in Nat
          BY <3>2, Enqueued
        <5>2. DOMAIN pending_reports_ = 1 .. Len(pending_reports_)
          BY QueueNumbers
        <5> QED
          BY <5>1, <5>2
      <4>3. entry.seq_id = next_seq_id_
        OBVIOUS
      <4> HIDE DEF entry
      <4> QED
        BY <1>1, <4>1, <4>2, <4>3
    <3> QED
      BY <1>3, <3>1, <3>2 DEF Notify, fifoVars
  <2>3. next_seq_id_' \in Nat /\ next_seq_id_ <= next_seq_id_'
    BY <1>1, <2>1
  <2> QED
    BY <2>1, <2>2, <2>3, MovementStays
<1>4. CASE BeginLoop \/ EndLoop \/ PassThrough \/ EmitRun
  <2>1. UNCHANGED <<moved, pending_reports_, next_seq_id_>>
    BY <1>4 DEF BeginLoop, EndLoop, PassThrough, EmitRun, fifoVars, inputVars
  <2>2. Outgoing' = Outgoing
    BY <1>4, IdleLoopOrder, PassThroughOrder, EmitRunOrder
  <2> QED
    BY <1>2, <2>1, <2>2
<1>5. CASE AccumulateEvent
  <2>1. UNCHANGED <<moved, pending_reports_, next_seq_id_>>
    BY <1>5 DEF AccumulateEvent, fifoVars, inputVars
  <2>2. CASE Outgoing' = Outgoing
    BY <1>2, <2>1, <2>2
  <2>3. CASE Joins
    BY <2>1, <2>3, MovementJoined
  <2> QED
    BY <1>5, <2>2, <2>3, AccumulateOrder
<1>6. CASE TakeReport
  BY <1>6, MovementTaken
<1>7. CASE FinishReport \/ Tick \/ UNCHANGED vars
  <2>1. /\ UNCHANGED <<moved, pending_reports_, next_seq_id_>>
        /\ UNCHANGED <<emitted, sampled_events_, values>>
    BY <1>7 DEF FinishReport, Tick, windowVars, loopVars, vars, fifoVars, inputVars
  <2>2. Outgoing' = Outgoing
    BY <2>1 DEF Outgoing
  <2> QED
    BY <1>2, <2>1, <2>2
<1>8. CASE Connect \/ Disconnect
  <2>1. emitted' = <<>> /\ sampled_events_' = <<>> /\ values' = <<>> /\ moved' = {}
    BY <1>8 DEF Connect, Disconnect, ResetPipeline, loopVars, TypeInv, TypeOK
  <2>2. ((emitted = <<>> /\ sampled_events_ = <<>> /\ values = <<>> /\ moved = {}) => MovementInv)'
    BY NothingMoved, PTL
  <2> QED
    BY <2>1, <2>2
<1> QED
  BY <1>3, <1>4, <1>5, <1>6, <1>7, <1>8 DEF Next, ProcessValue

\* Between the FIFO, the coalescing buffer and every way of flushing it no movement is
\* lost and none counted twice: an event of a relative field has the sum of what was
\* decoded in its span, and each movement lies in the span of exactly one event.
THEOREM MovementIsAccountedFor == Spec => []SpansAccountForMovement
<1>1. Init => MovementInv
  BY NothingMoved DEF Init
<1>2. TypeInv /\ OrderInv /\ OrderInv' /\ WindowCoversBuffer /\ MovementInv /\ [Next]_vars
        => MovementInv'
  BY MovementStep
<1>3. TypeInv /\ OrderInv /\ MovementInv => SpansAccountForMovement
  <2> SUFFICES ASSUME TypeInv, OrderInv, MovementInv PROVE SpansAccountForMovement
    OBVIOUS
  <2> DEFINE O == Outgoing
             n == next_seq_id_
             relative == {i \in DOMAIN O : O[i].field \in SumFields}
  <2>1. /\ MovedTypes(moved, n) /\ Disjoint(O) /\ Covered(moved, O)
        /\ \A i \in DOMAIN O : O[i].field \in SumFields => HasMoved(moved, n, O[i])
    BY DEF MovementInv
  <2>2. /\ DOMAIN O = 1 .. Len(O) /\ Len(O) \in Nat
        /\ \A i \in DOMAIN O : O[i].from \in Int /\ O[i].to \in Int
    BY OutgoingFacts
  <2>3. ASSUME NEW f PROVE Deltas(f) = Signed(moved, f, n) /\ Distances(f) = Unsigned(moved, f, n)
    BY DEF Deltas, Distances, Delta, Signed, Unsigned, MovedBy
  <2>4. ASSUME NEW i \in relative, Total(Distances(O[i].field), O[i].from, O[i].to) <= MaxSum
        PROVE  O[i].value = Total(Deltas(O[i].field), O[i].from, O[i].to)
    BY <2>1, <2>3, <2>4 DEF HasMoved
  <2>5. ASSUME NEW m \in moved, m.value # 0
        PROVE  Cardinality({i \in relative : /\ O[i].field = m.field
                                             /\ m.seq \in O[i].from .. O[i].to}) = 1
    <3> DEFINE of == {i \in relative : O[i].field = m.field /\ m.seq \in O[i].from .. O[i].to}
    <3>1. m.field \in SumFields
      BY <2>1 DEF MovedTypes
    <3>2. PICK i \in DOMAIN O : O[i].field = m.field /\ m.seq \in O[i].from .. O[i].to
      BY <2>1, <2>5 DEF Covered
    <3>3. ASSUME NEW j \in of PROVE j = i
      <4>1. /\ j \in DOMAIN O /\ O[j].field = O[i].field /\ O[j].field \in SumFields
            /\ m.seq \in O[j].from .. O[j].to /\ i \in Nat /\ j \in Nat
        BY <2>2, <3>1, <3>2, <3>3
      <4>2. ~(i < j)
        <5> SUFFICES ASSUME i < j PROVE FALSE
          OBVIOUS
        <5>1. O[i].to < O[j].from
          BY <2>1, <3>2, <4>1 DEF Disjoint
        <5> QED
          BY <2>2, <3>2, <4>1, <5>1
      <4>3. ~(j < i)
        <5> SUFFICES ASSUME j < i PROVE FALSE
          OBVIOUS
        <5>1. O[j].to < O[i].from
          BY <2>1, <3>2, <4>1 DEF Disjoint
        <5> QED
          BY <2>2, <3>2, <4>1, <5>1
      <4> QED
        BY <4>1, <4>2, <4>3
    <3>4. of = {i}
      BY <3>1, <3>2, <3>3
    <3> QED
      BY <3>4, FS_Singleton
  <2> QED
    BY <2>4, <2>5 DEF SpansAccountForMovement
<1> QED
  BY <1>1, <1>2, <1>3, TypesHold, OrderHolds, BufferIsCovered, PTL DEF Spec

-----------------------------------------------------------------------------
(* What the pipeline keeps of the promise of InputChannel: every event of an *)
(* absolute field, shown or on its way, is one of the statements not lost,   *)
(* and those of a field come in the order of their reports.                  *)

Stated(statements, events) ==
  \A i \in DOMAIN events : events[i].field \in AbsoluteFields =>
    \E s \in statements : /\ s.field = events[i].field
                          /\ s.value = events[i].value /\ s.seq = events[i].to

Rising(events) ==
  \A i, j \in DOMAIN events :
    i < j /\ events[i].field = events[j].field /\ events[i].field \in AbsoluteFields =>
      events[i].to < events[j].to

ChannelInv == Stated(said, Outgoing) /\ Rising(Outgoing)

\* The values of a report are statements it made, later than every event there was.
LEMMA ChannelTaken ==
  ASSUME TypeInv, OrderInv, SaidInv, ChannelInv, TakeReport
  PROVE  ChannelInv'
<1> DEFINE first == Head(pending_reports_)
           report == first.report
           k0 == first.seq_id
           s == Outgoing
           d == values'
           N == Len(s)
           u == s \o d
<1>1. /\ report \in Reports /\ k0 \in Nat /\ d \in Decodings(report, k0) /\ said' = said
      /\ first = pending_reports_[1] /\ 1 \in DOMAIN pending_reports_
  <2>1. pending_reports_ \in Seq(Entered) /\ pending_reports_ # <<>>
    BY TypeParts DEF FifoTypes, TakeReport
  <2>2. first \in Entered /\ first = pending_reports_[1]
    BY <2>1, HeadTailProperties
  <2>3. 1 \in DOMAIN pending_reports_
    BY <2>1, LenProperties, EmptySeq
  <2>4. first.report \in Reports /\ first.seq_id \in Nat
    BY <2>2 DEF Entered
  <2>5. values' \in Decodings(first.report, first.seq_id) /\ said' = said
    BY DEF TakeReport, inputVars
  <2> QED
    BY <2>2, <2>3, <2>4, <2>5
<1>2. Stated(said, s) /\ Rising(s)
  BY DEF ChannelInv
<1>3. \A i \in DOMAIN s : s[i].to < k0
  BY <1>1 DEF OrderInv, FifoOrder, Below
<1>4. /\ s \in Seq(Spans) /\ d \in Seq(Spans) /\ Outgoing' = u
      /\ \A j \in DOMAIN d : d[j].to = k0
  <2>1. s \in Seq(Spans)
    BY ConcatProperties DEF OrderInv, SpanTypes, Outgoing
  <2>2. d \in Seq(Spans) /\ \A j \in DOMAIN d : d[j].to = k0
    BY <1>1, DecodingType
  <2> QED
    BY <2>1, <2>2, TakeReportOrder
<1>5. AllOf(first) \subseteq said
  BY <1>1 DEF SaidInv
<1>6. ASSUME NEW j \in DOMAIN d, d[j].field \in AbsoluteFields
      PROVE  \E x \in said : x.field = d[j].field /\ x.value = d[j].value /\ x.seq = d[j].to
  <2>1. PICK f : f = d[j].field
    OBVIOUS
  <2>2. f \in Fields /\ f \in AbsoluteFields /\ f \notin SumFields
    BY <1>6, <2>1 DEF AbsoluteFields
  <2>3. report.status = "COMPLETE" /\ Changed(report, f) /\ d[j].value = report.input[f]
    <3> HIDE DEF d, report, k0
    <3> QED
      BY <1>1, <2>1, <2>2, DecodedOnce
  <2>4. Says(report, f)
    BY <2>3 DEF Changed
  <2>5. PICK x \in AllOf(first) : x.field = f
    BY <2>2, <2>3, <2>4, StatementFacts
  <2>6. x.seq = k0 /\ x.value = report.input[f]
    BY <2>5, StatementFacts
  <2> QED
    BY <1>4, <1>5, <2>1, <2>3, <2>5, <2>6
<1>7. ASSUME NEW j \in DOMAIN d, NEW k \in DOMAIN d, d[j].field = d[k].field,
             d[j].field \in AbsoluteFields
      PROVE  j = k
  <2>1. PICK f \in Fields : f = d[j].field
    BY <1>7 DEF AbsoluteFields
  <2> HIDE DEF d, report, k0
  <2> QED
    BY <1>1, <1>7, <2>1, DecodedOnce
<1>8. /\ \A i \in DOMAIN s : i \in DOMAIN u /\ u[i] = s[i]
      /\ \A j \in DOMAIN d : N + j \in DOMAIN u /\ u[N + j] = d[j]
      /\ \A k \in DOMAIN u : k \in DOMAIN s \/ \E j \in DOMAIN d : k = N + j
      /\ N \in Nat /\ DOMAIN s = 1 .. N /\ DOMAIN d = 1 .. Len(d)
  BY <1>4, Places
<1>9. ChannelInv' <=> Stated(said, u) /\ Rising(u)
  BY <1>1, <1>4 DEF ChannelInv
<1> HIDE DEF first, report, k0, s, d, N, u
<1>10. Stated(said, u)
  <2> SUFFICES ASSUME NEW k \in DOMAIN u, u[k].field \in AbsoluteFields
               PROVE  \E x \in said : x.field = u[k].field /\ x.value = u[k].value
                                      /\ x.seq = u[k].to
    BY DEF Stated
  <2>1. CASE k \in DOMAIN s
    <3>1. u[k] = s[k]
      BY <1>8, <2>1
    <3> QED
      BY <1>2, <2>1, <3>1 DEF Stated
  <2>2. CASE \E j \in DOMAIN d : k = N + j
    <3>1. PICK j \in DOMAIN d : u[k] = d[j]
      BY <1>8, <2>2
    <3> QED
      BY <1>6, <3>1
  <2> QED
    BY <1>8, <2>1, <2>2
<1>11. Rising(u)
  <2> SUFFICES ASSUME NEW i \in DOMAIN u, NEW k \in DOMAIN u, i < k,
                      u[i].field = u[k].field, u[i].field \in AbsoluteFields
               PROVE  u[i].to < u[k].to
    BY DEF Rising
  <2>1. CASE i \in DOMAIN s /\ k \in DOMAIN s
    <3>1. u[i] = s[i] /\ u[k] = s[k]
      BY <1>8, <2>1
    <3> QED
      BY <1>2, <2>1, <3>1 DEF Rising
  <2>2. CASE i \in DOMAIN s /\ \E j \in DOMAIN d : k = N + j
    <3>1. PICK j \in DOMAIN d : u[k] = d[j]
      BY <1>8, <2>2
    <3>2. u[i] = s[i]
      BY <1>8, <2>2
    <3> QED
      BY <1>3, <1>4, <2>2, <3>1, <3>2
  <2>3. CASE \E j \in DOMAIN d : i = N + j
    <3>1. PICK j \in DOMAIN d : i = N + j
      BY <2>3
    <3>2. PICK l \in DOMAIN d : k = N + l
      <4>1. ~(k \in DOMAIN s)
        BY <1>8, <3>1
      <4> QED
        BY <1>8, <4>1
    <3>3. u[i] = d[j] /\ u[k] = d[l]
      BY <1>8, <3>1, <3>2
    <3>4. j = l
      BY <1>7, <3>3
    <3> QED
      BY <1>8, <3>1, <3>2, <3>4
  <2> QED
    BY <1>8, <2>1, <2>2, <2>3
<1> QED
  BY <1>9, <1>10, <1>11

\* A coalesced event of an absolute field is the later of the two it was made of.
LEMMA ChannelJoined ==
  ASSUME TypeInv, OrderInv, OrderInv', ChannelInv, Joins, said' = said
  PROVE  ChannelInv'
<1> DEFINE e == Head(values)
           O == Outgoing
           U == Outgoing'
           N == Len(O)
<1>1. DOMAIN O = 1 .. N /\ DOMAIN U = 1 .. Len(U) /\ Len(U) = N - 1
  BY JoinPlaces
<1>2. PICK p, q : JoinedAt(O, U, N, p, q) /\ O[p] = e /\ U[q] = Coalesced(O[q], e)
  BY JoinPlaces
<1>3. \A i \in DOMAIN O : O[i] \in EventType /\ O[i].to \in Int
  BY OutgoingFacts DEF EventType
<1>4. Stated(said, O) /\ Rising(O)
  BY DEF ChannelInv
<1>5. ChannelInv' <=> Stated(said, U) /\ Rising(U)
  BY DEF ChannelInv
<1> HIDE DEF e, O, U, N
<1>6. /\ N \in Nat /\ p \in 1 .. N /\ q \in 1 .. p - 1 /\ O[q].field = e.field
      /\ \A i \in 1 .. p - 1 : i # q => U[i] = O[i]
      /\ \A i \in p .. N - 1 : U[i] = O[i + 1]
      /\ \A i \in q + 1 .. p - 1 : O[i].field # e.field
  BY <1>2 DEF JoinedAt
<1>7. p \in DOMAIN O /\ q \in DOMAIN O /\ q \in DOMAIN U /\ q < p
  BY <1>1, <1>6
<1>8. /\ U[q].field = e.field /\ U[q].to = e.to
      /\ e.field \in AbsoluteFields => U[q].value = e.value
  <2>1. e \in EventType /\ O[q] \in EventType
    BY <1>2, <1>3, <1>7
  <2>2. e.field \in AbsoluteFields => O[q].field \notin SumFields
    BY <1>6 DEF AbsoluteFields
  <2> QED
    BY <1>2, <2>1, <2>2 DEF Coalesced, EventType
<1> DEFINE was(i) == IF i < p THEN i ELSE i + 1
<1>10. ASSUME NEW i \in DOMAIN U, i # q
       PROVE  was(i) \in DOMAIN O /\ U[i] = O[was(i)] /\ was(i) # q /\ was(i) # p
  <2>1. CASE i < p
    BY <1>1, <1>6, <1>10, <2>1
  <2>2. CASE ~(i < p)
    BY <1>1, <1>6, <1>10, <2>2
  <2> QED
    BY <2>1, <2>2
<1>11. \A i, j \in DOMAIN U : i < j => was(i) < was(j)
  BY <1>1, <1>6
<1>12. \A i \in DOMAIN U : (i < q => was(i) = i) /\ (i > q => was(i) > q)
  BY <1>1, <1>6
<1> HIDE DEF was
<1>13. Rising(U)
  <2> SUFFICES ASSUME NEW i \in DOMAIN U, NEW j \in DOMAIN U, i < j, U[i].field = U[j].field,
                      U[i].field \in AbsoluteFields
               PROVE  U[i].to < U[j].to
    BY DEF Rising
  <2>1. CASE i # q /\ j # q
    <3>1. /\ was(i) \in DOMAIN O /\ was(j) \in DOMAIN O /\ was(i) < was(j)
          /\ U[i] = O[was(i)] /\ U[j] = O[was(j)]
      BY <1>10, <1>11, <2>1
    <3> QED
      BY <1>4, <3>1 DEF Rising
  <2>2. CASE i = q
    <3>1. j # q /\ was(j) \in DOMAIN O /\ U[j] = O[was(j)] /\ was(j) > q /\ was(j) # p
      BY <1>1, <1>6, <1>10, <1>12, <2>2
    <3>2. O[was(j)].field = e.field
      BY <1>8, <2>2, <3>1
    <3>3. ~(was(j) \in q + 1 .. p - 1)
      BY <1>6, <3>2
    <3>4. p < was(j)
      BY <1>1, <1>6, <3>1, <3>3
    <3>5. O[p].to < O[was(j)].to
      BY <1>2, <1>4, <1>7, <1>8, <2>2, <3>1, <3>2, <3>4 DEF Rising
    <3> QED
      BY <1>2, <1>8, <2>2, <3>1, <3>5
  <2>3. CASE j = q
    <3>1. i # q /\ i \in DOMAIN O /\ U[i] = O[i]
      <4>1. i # q /\ i < q
        BY <1>1, <1>6, <2>3
      <4> QED
        BY <1>10, <1>12, <4>1
    <3>2. O[i].field = O[p].field /\ O[i].field \in AbsoluteFields /\ i < p
      BY <1>1, <1>2, <1>6, <1>7, <1>8, <2>3, <3>1
    <3>3. O[i].to < O[p].to
      BY <1>4, <1>7, <3>1, <3>2 DEF Rising
    <3> QED
      BY <1>2, <1>8, <2>3, <3>1, <3>3
  <2> QED
    BY <2>1, <2>2, <2>3
<1>14. Stated(said, U)
  <2> SUFFICES ASSUME NEW i \in DOMAIN U, U[i].field \in AbsoluteFields
               PROVE  \E s \in said : s.field = U[i].field /\ s.value = U[i].value
                                      /\ s.seq = U[i].to
    BY DEF Stated
  <2>1. CASE i # q
    BY <1>4, <1>10, <2>1 DEF Stated
  <2>2. CASE i = q
    <3>1. /\ O[p].field \in AbsoluteFields
          /\ U[i].field = O[p].field /\ U[i].value = O[p].value /\ U[i].to = O[p].to
      BY <1>2, <1>8, <2>2
    <3> QED
      BY <1>4, <1>7, <3>1 DEF Stated
  <2> QED
    BY <2>1, <2>2
<1> QED
  BY <1>5, <1>13, <1>14

LEMMA NothingStated ==
  ASSUME emitted = <<>>, sampled_events_ = <<>>, values = <<>>
  PROVE  ChannelInv
<1>1. Outgoing = <<>>
  <2>1. <<>> \in Seq(Spans) /\ <<>> \o <<>> = <<>>
    BY EmptySeq, ConcatEmptySeq
  <2> QED
    BY <2>1 DEF Outgoing
<1>2. DOMAIN <<>> = {}
  OBVIOUS
<1> QED
  BY <1>1, <1>2 DEF ChannelInv, Stated, Rising

\* A statement is lost with its report, which no event is of.
LEMMA LostStatements ==
  ASSUME TypeInv, OrderInv, SaidInv, NEW report \in Reports, Notify(report), Enqueue(report),
         NEW s \in said, s \notin said',
         LET dropped == {pending_reports_[i].seq_id : i \in 1 .. Dropped(report.size)}
         IN  said' = {t \in said : t.seq \notin dropped}
                       \cup Statements(report, next_seq_id_, AbsoluteFields)
  PROVE  /\ s.field \in AbsoluteFields /\ 0 < s.seq
         /\ \A i \in DOMAIN Outgoing : Outgoing[i].to < s.seq
<1>1. PICK i \in 1 .. Dropped(report.size) : s.seq = pending_reports_[i].seq_id
  OBVIOUS
<1>2. i \in DOMAIN pending_reports_
  <2>1. /\ Dropped(report.size) \in 0 .. Len(pending_reports_)
        /\ Len(pending_reports_) \in Nat
    BY Enqueued
  <2>2. DOMAIN pending_reports_ = 1 .. Len(pending_reports_)
    BY QueueNumbers
  <2> QED
    BY <2>1, <2>2
<1>3. \A k \in DOMAIN Outgoing : Outgoing[k].to < s.seq
  BY <1>1, <1>2 DEF OrderInv, FifoOrder, Below
<1>4. s.seq \in Nat \ {0}
  <2>1. pending_reports_ \in Seq(Entered)
    BY TypeParts DEF FifoTypes
  <2>2. pending_reports_[i] \in Entered
    BY <1>2, <2>1, ElementOfSeq, LenProperties
  <2> QED
    BY <1>1, <2>2 DEF Entered
<1>5. ~Taken(s)
  BY <1>1, <1>2, <1>4 DEF Taken
<1>6. PICK j \in DOMAIN pending_reports_ : s \in AllOf(pending_reports_[j])
  BY <1>5 DEF SaidInv
<1>7. s.field \in AbsoluteFields
  BY <1>6, StatementFacts
<1> QED
  BY <1>3, <1>4, <1>7

LEMMA ChannelNotified ==
  ASSUME TypeInv, OrderInv, SaidInv, ChannelInv, NEW report \in Reports, Notify(report)
  PROVE  ChannelInv'
<1>1. Outgoing' = Outgoing
  BY DEF Notify, windowVars, loopVars, Outgoing
<1>2. CASE said' = said
  BY <1>1, <1>2 DEF ChannelInv
<1>3. CASE /\ Enqueue(report)
           /\ LET dropped == {pending_reports_[i].seq_id : i \in 1 .. Dropped(report.size)}
              IN  said' = {s \in said : s.seq \notin dropped}
                            \cup Statements(report, next_seq_id_, AbsoluteFields)
  <2>1. ASSUME NEW i \in DOMAIN Outgoing, Outgoing[i].field \in AbsoluteFields
        PROVE  \E s \in said' : /\ s.field = Outgoing[i].field
                                /\ s.value = Outgoing[i].value /\ s.seq = Outgoing[i].to
    <3>1. PICK s \in said : /\ s.field = Outgoing[i].field
                            /\ s.value = Outgoing[i].value /\ s.seq = Outgoing[i].to
      BY <2>1 DEF ChannelInv, Stated
    <3>2. Outgoing[i].to \in Int
      BY OutgoingFacts
    <3>3. s \in said'
      BY <1>3, <3>1, <3>2, LostStatements
    <3> QED
      BY <3>1, <3>3
  <2>2. Stated(said', Outgoing)
    BY <2>1 DEF Stated
  <2> QED
    BY <1>1, <2>2 DEF ChannelInv
<1>4. \/ UNCHANGED <<fifoVars, said>>
      \/ /\ Enqueue(report)
         /\ LET dropped == {pending_reports_[i].seq_id : i \in 1 .. Dropped(report.size)}
            IN  said' = {s \in said : s.seq \notin dropped}
                          \cup Statements(report, next_seq_id_, AbsoluteFields)
  BY DEF Notify
<1> QED
  BY <1>2, <1>3, <1>4

LEMMA ChannelInvStep ==
  ASSUME TypeInv, OrderInv, OrderInv', WindowCoversBuffer, SaidInv, ChannelInv, [Next]_vars
  PROVE  ChannelInv'
<1>1. ASSUME Outgoing' = Outgoing, said' = said PROVE ChannelInv'
  BY <1>1 DEF ChannelInv
<1>2. ASSUME NEW report \in Reports, Notify(report) PROVE ChannelInv'
  BY <1>2, ChannelNotified
<1>3. CASE BeginLoop \/ EndLoop \/ PassThrough \/ EmitRun
  <2>1. said' = said
    BY <1>3 DEF BeginLoop, EndLoop, PassThrough, EmitRun, inputVars
  <2>2. Outgoing' = Outgoing
    BY <1>3, IdleLoopOrder, PassThroughOrder, EmitRunOrder
  <2> QED
    BY <1>1, <2>1, <2>2
<1>4. CASE AccumulateEvent
  <2>1. said' = said
    BY <1>4 DEF AccumulateEvent, inputVars
  <2>2. CASE Outgoing' = Outgoing
    BY <1>1, <2>1, <2>2
  <2>3. CASE Joins
    BY <2>1, <2>3, ChannelJoined
  <2> QED
    BY <1>4, <2>2, <2>3, AccumulateOrder
<1>5. CASE TakeReport
  BY <1>5, ChannelTaken
<1>6. CASE FinishReport \/ Tick \/ UNCHANGED vars
  <2>1. UNCHANGED <<emitted, sampled_events_, values, said>>
    BY <1>6 DEF FinishReport, Tick, windowVars, loopVars, vars, inputVars
  <2>2. Outgoing' = Outgoing
    BY <2>1 DEF Outgoing
  <2> QED
    BY <1>1, <2>1, <2>2
<1>7. CASE Connect \/ Disconnect
  <2>1. emitted' = <<>> /\ sampled_events_' = <<>> /\ values' = <<>>
    BY <1>7 DEF Connect, Disconnect, ResetPipeline, loopVars, TypeInv, TypeOK
  <2>2. ((emitted = <<>> /\ sampled_events_ = <<>> /\ values = <<>>) => ChannelInv)'
    BY NothingStated, PTL
  <2> QED
    BY <2>1, <2>2
<1> QED
  BY <1>2, <1>3, <1>4, <1>5, <1>6, <1>7 DEF Next, ProcessValue

LEMMA ChannelHolds == Spec => [](SaidInv /\ ChannelInv)
<1>1. Init => SaidInv /\ ChannelInv
  BY NothingSaid, NothingStated DEF Init
<1>2. OrderInv /\ SaidInv /\ [Next]_vars => SaidInv'
  BY SaidStep
<1>3. TypeInv /\ OrderInv /\ OrderInv' /\ WindowCoversBuffer /\ SaidInv /\ ChannelInv /\ [Next]_vars
        => ChannelInv'
  BY ChannelInvStep
<1> QED
  BY <1>1, <1>2, <1>3, TypesHold, OrderHolds, BufferIsCovered, PTL DEF Spec

\* The number of the last event of the field among the first n.
NumberAfter(events, n, field) ==
  LET of == {i \in 1 .. n : events[i].field = field}
  IN  IF of = {} THEN 0 ELSE events[Max(of)].to

LEMMA NumberAtLastPlace ==
  ASSUME NEW events, NEW n \in Nat, NEW field, NEW k, LastPlace(events, n, field, k)
  PROVE  NumberAfter(events, n, field) = events[k].to
<1> DEFINE of == {i \in 1 .. n : events[i].field = field}
<1>1. k \in of /\ k \in 1 .. n
  BY DEF LastPlace
<1>2. ASSUME NEW y \in of PROVE k >= y
  <2>1. y \in 1 .. n /\ ~(y \in k + 1 .. n)
    BY DEF LastPlace
  <2> QED
    BY <1>1, <2>1
<1>3. \A x \in of : (\A y \in of : x >= y) => x = k
  <2> SUFFICES ASSUME NEW x \in of, x >= k PROVE x = k
    BY <1>1
  <2>1. k >= x /\ x \in 1 .. n
    BY <1>2
  <2> QED
    BY <1>1, <2>1
<1>4. NumberAfter(events, n, field) = IF of = {} THEN 0 ELSE events[Max(of)].to
  BY DEF NumberAfter
<1> HIDE DEF of
<1>5. Max(of) = k
  BY <1>1, <1>2, <1>3 DEF Max
<1> QED
  BY <1>1, <1>4, <1>5

LEMMA NumberOfNoPlace ==
  ASSUME NEW events, NEW n, NEW field, NoPlace(events, n, field)
  PROVE  NumberAfter(events, n, field) = 0
<1>1. {i \in 1 .. n : events[i].field = field} = {}
  BY DEF NoPlace
<1> QED
  BY <1>1 DEF NumberAfter

\* What a consumer of the events sees of a field.
ShownOf(events, field) ==
  [to |-> NumberAfter(events, Len(events), field), value |-> ValueAfter(events, Len(events), field)]

LEMMA ShownIs ==
  ASSUME DOMAIN emitted = 1 .. Len(emitted)
  PROVE  \A f : /\ LastShown(f) = ShownOf(emitted, f).to
                /\ LatestShown(f) = ShownOf(emitted, f).value
<1>1. \A f : LastShown(f) = NumberAfter(emitted, Len(emitted), f)
  BY DEF LastShown, NumberAfter
<1>2. \A f : LatestShown(f) = ValueAfter(emitted, Len(emitted), f)
  BY DEF LatestShown
<1> QED
  BY <1>1, <1>2 DEF ShownOf

\* Events that are statements, in the order of their reports: with more of them the
\* consumer sees of each field what it saw, or a later statement.
LEMMA LaterShown ==
  ASSUME NEW E, NEW U, Len(E) \in Nat, Len(U) \in Nat, Len(E) <= Len(U),
         DOMAIN U = 1 .. Len(U), \A i \in 1 .. Len(E) : U[i] = E[i],
         \A i \in 1 .. Len(U) : U[i].to \in Nat \ {0},
         NEW S, Stated(S, U), Rising(U), NEW f \in AbsoluteFields
  PROVE  \/ ShownOf(U, f) = ShownOf(E, f)
         \/ \E s \in S : /\ s.field = f /\ ShownOf(E, f).to < s.seq
                         /\ ShownOf(U, f).to = s.seq /\ ShownOf(U, f).value = s.value
<1> DEFINE m == Len(E)
           n == Len(U)
<1>1. /\ m \in Nat /\ n \in Nat /\ m <= n /\ DOMAIN U = 1 .. n
      /\ \A i \in 1 .. m : U[i] = E[i]
      /\ \A i \in 1 .. n : U[i].to \in Nat \ {0}
  OBVIOUS
<1>2. /\ ShownOf(E, f).to = NumberAfter(E, m, f) /\ ShownOf(E, f).value = ValueAfter(E, m, f)
      /\ ShownOf(U, f).to = NumberAfter(U, n, f) /\ ShownOf(U, f).value = ValueAfter(U, n, f)
      /\ NumberAfter(U, n, f) = NumberAfter(E, m, f) /\ ValueAfter(U, n, f) = ValueAfter(E, m, f)
           => ShownOf(U, f) = ShownOf(E, f)
  BY DEF ShownOf
<1> HIDE DEF m, n
<1>3. CASE NoPlace(U, n, f)
  <2>1. NoPlace(E, m, f)
    BY <1>1, <1>3 DEF NoPlace
  <2> QED
    BY <1>1, <1>2, <1>3, <2>1, NumberOfNoPlace, ValueOfNoPlace
<1>4. ASSUME NEW k \in 1 .. n, LastPlace(U, n, f, k), k <= m
      PROVE  ShownOf(U, f) = ShownOf(E, f)
  <2>1. k \in 1 .. m /\ U[k] = E[k] /\ \A j \in k + 1 .. m : j \in k + 1 .. n /\ U[j] = E[j]
    BY <1>1, <1>4
  <2>2. LastPlace(E, m, f, k)
    BY <1>4, <2>1 DEF LastPlace
  <2>3. NumberAfter(U, n, f) = U[k].to /\ ValueAfter(U, n, f) = U[k].value
    BY <1>1, <1>4, NumberAtLastPlace, ValueAtLastPlace
  <2>4. NumberAfter(E, m, f) = E[k].to /\ ValueAfter(E, m, f) = E[k].value
    BY <1>1, <2>2, NumberAtLastPlace, ValueAtLastPlace
  <2> QED
    BY <1>2, <2>1, <2>3, <2>4
<1>5. ASSUME NEW k \in 1 .. n, LastPlace(U, n, f, k), ~(k <= m)
      PROVE  \E s \in S : /\ s.field = f /\ ShownOf(E, f).to < s.seq
                          /\ ShownOf(U, f).to = s.seq /\ ShownOf(U, f).value = s.value
  <2>1. NumberAfter(U, n, f) = U[k].to /\ ValueAfter(U, n, f) = U[k].value
    BY <1>1, <1>5, NumberAtLastPlace, ValueAtLastPlace
  <2>2. k \in DOMAIN U /\ U[k].field = f
    BY <1>1, <1>5 DEF LastPlace
  <2>3. PICK s \in S : s.field = f /\ s.value = U[k].value /\ s.seq = U[k].to
    BY <2>2 DEF Stated
  <2>4. NumberAfter(E, m, f) < U[k].to
    <3>1. CASE NoPlace(E, m, f)
      <4>1. NumberAfter(E, m, f) = 0
        BY <3>1, NumberOfNoPlace
      <4> QED
        BY <1>1, <4>1
    <3>2. CASE \E j \in 1 .. m : LastPlace(E, m, f, j)
      <4>1. PICK j \in 1 .. m : LastPlace(E, m, f, j)
        BY <3>2
      <4>2. NumberAfter(E, m, f) = E[j].to
        BY <1>1, <4>1, NumberAtLastPlace
      <4>3. U[j] = E[j] /\ E[j].field = f /\ j < k /\ j \in 1 .. n
        BY <1>1, <1>5, <4>1 DEF LastPlace
      <4>4. U[j].to < U[k].to
        BY <1>1, <2>2, <4>3 DEF Rising
      <4> QED
        BY <4>2, <4>3, <4>4
    <3> QED
      BY <1>1, <3>1, <3>2, LastPlaceExists
  <2> QED
    BY <1>2, <2>1, <2>3, <2>4
<1> QED
  BY <1>1, <1>3, <1>4, <1>5, LastPlaceExists

\* A step that emits shows of every field what was said of it, or leaves it.
LEMMA EmittingShows ==
  ASSUME OrderInv, TypeInv', OrderInv', ChannelInv', said' = said,
         NEW more \in Seq(Spans), emitted' = emitted \o more
  PROVE  Channel!Show
<1> DEFINE E == emitted
           U == emitted'
<1>1. /\ Len(E) \in Nat /\ DOMAIN E = 1 .. Len(E) /\ E \in Seq(Spans)
      /\ Len(U) \in Nat /\ DOMAIN U = 1 .. Len(U)
      /\ \A i \in DOMAIN U : i \in DOMAIN Outgoing' /\ Outgoing'[i] = U[i]
  <2>1. /\ emitted \in Seq(Spans) /\ Len(emitted) \in Nat /\ DOMAIN emitted = 1 .. Len(emitted)
    BY EmittedIsFirst
  <2>2. (OrderInv => /\ Len(emitted) \in Nat /\ DOMAIN emitted = 1 .. Len(emitted)
                     /\ \A i \in DOMAIN emitted : i \in DOMAIN Outgoing /\ Outgoing[i] = emitted[i])'
    BY EmittedIsFirst, PTL
  <2> QED
    BY <2>1, <2>2
<1>2. Len(E) <= Len(U) /\ \A i \in 1 .. Len(E) : U[i] = E[i]
  <2>1. /\ Len(more) \in Nat /\ Len(E \o more) = Len(E) + Len(more)
        /\ \A i \in 1 .. Len(E) : (E \o more)[i] = E[i]
    BY <1>1, ConcatProperties, LenProperties
  <2> QED
    BY <1>1, <2>1
<1>3. \A i \in 1 .. Len(U) : U[i].to \in Nat \ {0}
  <2>1. emitted' \in Seq(EventType)
    BY DEF TypeInv, TypeOK
  <2>2. \A i \in DOMAIN U : U[i] \in EventType
    BY <1>1, <2>1, ElementOfSeq
  <2> QED
    BY <1>1, <2>2 DEF EventType
<1>4. Stated(said, U)
  <2>1. Stated(said, Outgoing')
    BY DEF ChannelInv
  <2> QED
    BY <1>1, <2>1 DEF Stated
<1>5. Rising(U)
  <2>1. Rising(Outgoing')
    BY DEF ChannelInv
  <2> SUFFICES ASSUME NEW i \in DOMAIN U, NEW j \in DOMAIN U, i < j, U[i].field = U[j].field,
                      U[i].field \in AbsoluteFields
               PROVE  U[i].to < U[j].to
    BY DEF Rising
  <2>2. /\ i \in DOMAIN Outgoing' /\ Outgoing'[i] = U[i]
        /\ j \in DOMAIN Outgoing' /\ Outgoing'[j] = U[j]
    BY <1>1
  <2> HIDE DEF U
  <2> QED
    BY <2>1, <2>2 DEF Rising
<1>6. /\ \A f : LastShown(f) = ShownOf(E, f).to /\ LatestShown(f) = ShownOf(E, f).value
      /\ \A f : LastShown(f)' = ShownOf(U, f).to /\ LatestShown(f)' = ShownOf(U, f).value
  <2>1. \A f : LastShown(f) = ShownOf(E, f).to /\ LatestShown(f) = ShownOf(E, f).value
    BY <1>1, ShownIs
  <2>2. (DOMAIN emitted = 1 .. Len(emitted) =>
           \A f : /\ LastShown(f) = ShownOf(emitted, f).to
                  /\ LatestShown(f) = ShownOf(emitted, f).value)'
    BY ShownIs, PTL
  <2> QED
    BY <1>1, <2>1, <2>2
<1> HIDE DEF E, U
<1>7. \A f \in AbsoluteFields :
        \/ ShownOf(U, f) = ShownOf(E, f)
        \/ \E s \in said : /\ s.field = f /\ ShownOf(E, f).to < s.seq
                           /\ ShownOf(U, f).to = s.seq /\ ShownOf(U, f).value = s.value
  BY <1>1, <1>2, <1>3, <1>4, <1>5, LaterShown
<1>8. ASSUME NEW f \in AbsoluteFields
      PROVE  \/ LastShown(f)' = LastShown(f) /\ LatestShown(f)' = LatestShown(f)
             \/ \E s \in said : /\ s.field = f /\ LastShown(f) < s.seq
                                /\ LastShown(f)' = s.seq /\ LatestShown(f)' = s.value
  BY <1>6, <1>7
<1> QED
  BY <1>8 DEF Channel!Show, Channel!ShowField

LEMMA FlushEmits ==
  ASSUME OrderInv, UpdateSamplingWindow
  PROVE  \E more \in Seq(Spans) : emitted' = emitted \o more
<1>1. emitted \in Seq(Spans) /\ sampled_events_ \in Seq(Spans) /\ <<>> \in Seq(Spans)
  BY EmptySeq DEF OrderInv, SpanTypes
<1>2. emitted \o <<>> = emitted
  BY <1>1, ConcatEmptySeq
<1>3. emitted' = emitted \/ emitted' = emitted \o sampled_events_
  BY DEF UpdateSamplingWindow
<1> QED
  BY <1>1, <1>2, <1>3

LEMMA LoopEmits ==
  ASSUME OrderInv, OrderInv', BeginLoop \/ TakeReport \/ ProcessValue \/ EndLoop
  PROVE  said' = said /\ \E more \in Seq(Spans) : emitted' = emitted \o more
<1>1. said' = said
  BY DEF BeginLoop, TakeReport, ProcessValue, PassThrough, EmitRun, AccumulateEvent, FinishReport,
         EndLoop, inputVars
<1>2. /\ emitted \in Seq(Spans) /\ sampled_events_ \in Seq(Spans) /\ values \in Seq(Spans)
      /\ <<>> \in Seq(Spans)
  BY EmptySeq DEF OrderInv, SpanTypes
<1>3. emitted \o <<>> = emitted
  BY <1>2, ConcatEmptySeq
<1>4. CASE BeginLoop \/ TakeReport \/ EndLoop
  <2>1. UpdateSamplingWindow
    BY <1>4 DEF BeginLoop, TakeReport, EndLoop
  <2> QED
    BY <1>1, <2>1, FlushEmits
<1>5. CASE FinishReport
  <2>1. emitted' = emitted
    BY <1>5 DEF FinishReport
  <2> QED
    BY <1>1, <1>2, <1>3, <2>1
<1>6. CASE PassThrough
  <2> DEFINE e == Head(values)
             more == Append(sampled_events_, e)
  <2>1. e \in Spans
    BY <1>2, <1>6, HeadTailProperties DEF PassThrough
  <2>2. more \in Seq(Spans)
    BY <1>2, <2>1, AppendProperties
  <2>3. Append(emitted \o sampled_events_, e) = emitted \o more
    <3>1. emitted \o sampled_events_ \in Seq(Spans) /\ <<e>> \in Seq(Spans)
      BY <1>2, <2>1, ConcatProperties
    <3>2. /\ Append(emitted \o sampled_events_, e) = (emitted \o sampled_events_) \o <<e>>
          /\ more = sampled_events_ \o <<e>>
      BY <1>2, <2>1, <3>1, AppendIsConcat
    <3> HIDE DEF more, e
    <3> QED
      BY <1>2, <3>1, <3>2, ConcatAssociative
  <2>4. emitted' = Append(emitted \o sampled_events_, e)
    BY <1>6 DEF PassThrough
  <2> HIDE DEF more, e
  <2> QED
    BY <1>1, <2>2, <2>3, <2>4
<1>7. CASE EmitRun
  <2>1. emitted' = emitted \o SubSeq(values, 1, RunLength)
    BY <1>7 DEF EmitRun
  <2>2. RunLength \in 0 .. Len(values) /\ Len(values) \in Nat
    BY <1>2, RunLengthFacts, LenProperties
  <2>3. SubSeq(values, 1, RunLength) \in Seq(Spans)
    BY <1>2, <2>2, SubSeqProperties
  <2> QED
    BY <1>1, <2>1, <2>3
<1>8. CASE AccumulateEvent
  <2>1. emitted' = emitted \/ emitted' = emitted \o sampled_events_
    BY <1>8 DEF AccumulateEvent
  <2> QED
    BY <1>1, <1>2, <1>3, <2>1
<1> QED
  BY <1>4, <1>5, <1>6, <1>7, <1>8 DEF ProcessValue

\* A notification arrives as one report's statements, or is too long and says nothing.
LEMMA NotifyArrives ==
  ASSUME TypeInv, OrderInv, SaidInv, NEW report \in Reports, Notify(report)
  PROVE  Channel!Arrive
<1>1. emitted' = emitted
  BY DEF Notify
<1>2. \A f : LastShown(f)' = LastShown(f) /\ LatestShown(f)' = LatestShown(f)
  BY <1>1 DEF LastShown, LatestShown
<1>3. CASE said' = said
  <2>1. said \ said' = {} /\ said' \ said = {}
    BY <1>3
  <2> QED
    BY <1>2, <2>1 DEF Channel!Arrive
<1>4. CASE /\ Enqueue(report)
           /\ LET dropped == {pending_reports_[i].seq_id : i \in 1 .. Dropped(report.size)}
              IN  said' = {s \in said : s.seq \notin dropped}
                            \cup Statements(report, next_seq_id_, AbsoluteFields)
  <2> DEFINE entry == [report |-> report, seq_id |-> next_seq_id_]
             Said == {r.input[f] : r \in Reports, f \in AbsoluteFields} \ {Absent}
  <2>1. ASSUME NEW s \in said \ said'
        PROVE  s.field \in AbsoluteFields /\ LastShown(s.field) < s.seq
    <3>1. /\ s.field \in AbsoluteFields /\ 0 < s.seq
          /\ \A i \in DOMAIN Outgoing : Outgoing[i].to < s.seq
      BY <1>4, <2>1, LostStatements
    <3>2. /\ Len(emitted) \in Nat /\ DOMAIN emitted = 1 .. Len(emitted)
          /\ \A i \in DOMAIN emitted : i \in DOMAIN Outgoing /\ Outgoing[i] = emitted[i]
      BY EmittedIsFirst
    <3>3. LastShown(s.field) = NumberAfter(emitted, Len(emitted), s.field)
      BY <3>2, ShownIs DEF ShownOf
    <3>4. CASE NoPlace(emitted, Len(emitted), s.field)
      <4>1. LastShown(s.field) = 0
        BY <3>3, <3>4, NumberOfNoPlace
      <4> QED
        BY <3>1, <4>1
    <3>5. CASE \E k \in 1 .. Len(emitted) : LastPlace(emitted, Len(emitted), s.field, k)
      <4>1. PICK k \in 1 .. Len(emitted) : LastPlace(emitted, Len(emitted), s.field, k)
        BY <3>5
      <4>2. LastShown(s.field) = emitted[k].to
        BY <3>2, <3>3, <4>1, NumberAtLastPlace
      <4> QED
        BY <3>1, <3>2, <4>1, <4>2
    <3> QED
      BY <3>2, <3>4, <3>5, LastPlaceExists
  <2>2. said' \ said \subseteq AllOf(entry) /\ entry.seq_id = next_seq_id_ /\ entry.report = report
    BY <1>4 DEF AllOf
  <2>3. next_seq_id_ \in Nat /\ \A t \in said : t.seq < next_seq_id_
    BY QueueNumbers DEF SaidInv
  <2> HIDE DEF entry
  <2>4. ASSUME NEW s \in said' \ said
        PROVE  /\ s.field \in AbsoluteFields /\ s.value = report.input[s.field]
               /\ Says(report, s.field) /\ s.seq = next_seq_id_
               /\ s \in [field : AbsoluteFields, value : Said, seq : Nat]
    <3>1. PICK f \in AbsoluteFields :
             Says(report, f) /\ s = [field |-> f, value |-> report.input[f], seq |-> next_seq_id_]
      BY <1>4, <2>4 DEF Statements
    <3>2. report.input[f] \in Said
      BY <3>1 DEF Says
    <3> HIDE DEF Said
    <3> QED
      BY <2>3, <3>1, <3>2
  <2>5. ASSUME NEW s \in said' \ said, NEW t \in said' \ said
        PROVE  t.seq = s.seq /\ (t.field = s.field => t = s)
    <3>1. PICK f \in AbsoluteFields :
             s = [field |-> f, value |-> report.input[f], seq |-> next_seq_id_]
      BY <1>4, <2>5 DEF Statements
    <3>2. PICK g \in AbsoluteFields :
             t = [field |-> g, value |-> report.input[g], seq |-> next_seq_id_]
      BY <1>4, <2>5 DEF Statements
    <3> QED
      BY <3>1, <3>2
  <2>6. \A s \in said' \ said :
          /\ s \in [field : AbsoluteFields, value : Said, seq : Nat]
          /\ \A t \in said : t.seq < s.seq
          /\ \A t \in said' \ said : t.seq = s.seq /\ (t.field = s.field => t = s)
    BY <2>3, <2>4, <2>5
  <2>7. \A s \in said \ said' : [f \in AbsoluteFields |-> LastShown(f)][s.field] < s.seq
    BY <2>1
  <2>8. UNCHANGED <<[f \in AbsoluteFields |-> LastShown(f)], [f \in AbsoluteFields |-> LatestShown(f)]>>
    BY <1>2
  <2> QED
    BY <2>6, <2>7, <2>8 DEF Channel!Arrive, Channel!Statement
<1>5. \/ UNCHANGED <<fifoVars, said>>
      \/ /\ Enqueue(report)
         /\ LET dropped == {pending_reports_[i].seq_id : i \in 1 .. Dropped(report.size)}
            IN  said' = {s \in said : s.seq \notin dropped}
                          \cup Statements(report, next_seq_id_, AbsoluteFields)
  BY DEF Notify
<1> QED
  BY <1>3, <1>4, <1>5

LEMMA NothingShownYet ==
  ASSUME emitted = <<>>, said = {}
  PROVE  Channel!Init
<1>1. Len(<<>>) = 0 /\ DOMAIN <<>> = {} /\ 1 .. 0 = {}
  OBVIOUS
<1>2. \A f : LastShown(f) = 0
  BY <1>1 DEF LastShown
<1>3. \A f : LatestShown(f) = 0
  BY <1>1 DEF LatestShown, ValueAfter
<1> QED
  BY <1>2, <1>3 DEF Channel!Init

LEMMA ChannelStep ==
  ASSUME TypeInv, TypeInv', OrderInv, OrderInv', SaidInv, ChannelInv', [Next]_vars
  PROVE  [Channel!Next]_(Channel!vars)
<1>1. ASSUME NEW report \in Reports, Notify(report) PROVE Channel!Next
  BY <1>1, NotifyArrives DEF Channel!Next
<1>2. CASE BeginLoop \/ TakeReport \/ ProcessValue \/ EndLoop
  <2>1. Channel!Show
    BY <1>2, LoopEmits, EmittingShows
  <2> QED
    BY <2>1 DEF Channel!Next
<1>3. CASE Connect \/ Disconnect
  <2>1. emitted' = <<>> /\ said' = {}
    BY <1>3 DEF Connect, Disconnect, ResetPipeline
  <2>2. (emitted = <<>> /\ said = {} => Channel!Init)'
    BY NothingShownYet, PTL
  <2>3. Channel!Disconnect
    BY <2>1, <2>2 DEF Channel!Init, Channel!Disconnect
  <2> QED
    BY <2>3 DEF Channel!Next
<1>4. CASE Tick \/ UNCHANGED vars
  <2>1. emitted' = emitted /\ said' = said
    BY <1>4 DEF Tick, vars, inputVars
  <2>2. \A f : LastShown(f)' = LastShown(f) /\ LatestShown(f)' = LatestShown(f)
    BY <2>1 DEF LastShown, LatestShown
  <2> QED
    BY <2>1, <2>2 DEF Channel!vars
<1> QED
  BY <1>1, <1>2, <1>3, <1>4 DEF Next

\* Of every absolute field the pipeline shows only what was said and not dropped, each
\* statement later than the one before, whatever is coalesced, passed through, flushed
\* or dropped; a report that is dropped takes nothing with it that was shown.
THEOREM ChannelSteps == Spec => Channel!Init /\ [][Channel!Next]_(Channel!vars)
<1>1. Init => Channel!Init
  BY NothingShownYet DEF Init
<1>2. TypeInv /\ TypeInv' /\ OrderInv /\ OrderInv' /\ SaidInv /\ ChannelInv' /\ [Next]_vars
        => [Channel!Next]_(Channel!vars)
  BY ChannelStep
<1> QED
  BY <1>1, <1>2, TypesHold, OrderHolds, ChannelHolds, PTL DEF Spec
=============================================================================
