----------------------------- MODULE EventBuffer -----------------------------
(***************************************************************************)
(* OrderedEventBuffer (ordered_event_buffer.h): the mergeable values of a  *)
(* sampling window, in the order their fields were first seen.             *)
(*                                                                         *)
(* The buffer is a sequence of events, at most one of a field; a method    *)
(* that changes it is an operator from the buffer to the new buffer.  An   *)
(* event keeps the sequence numbers of its first and its last source.      *)
(* SampledEventKey stands for the field: service instance, Report ID and   *)
(* bit position.                                                           *)
(***************************************************************************)
EXTENDS Integers, Sequences

CONSTANTS
  SumFields,     \* relative fields: their values are added up
  MaxSum,        \* int64_t lies between -MaxSum - 1 and MaxSum
  Capacity       \* capacity_

ASSUME BufferAssumption == MaxSum \in Nat /\ Capacity \in Nat \ {0}

Event(field, value, seq) == [field |-> field, value |-> value, from |-> seq, to |-> seq]

\* Mutant of SaturatingAdd: the plain sum.
PlainAdd(left, right) == left + right

\* saturating_add_.
SaturatingAdd(left, right) ==
  LET sum == left + right
  IN  IF sum > MaxSum THEN MaxSum ELSE IF sum < -MaxSum - 1 THEN -MaxSum - 1 ELSE sum

Holds(buffer, field) == \E i \in DOMAIN buffer : buffer[i].field = field

\* accumulate would return true.
Accepts(buffer, field) == Holds(buffer, field) \/ Len(buffer) < Capacity

\* Mutant of Coalesced: the span begins at the last contribution.
CoalescedWithoutSpan(pending, event) ==
  [event EXCEPT !.value = IF pending.field \in SumFields
                          THEN SaturatingAdd(pending.value, event.value) ELSE event.value]

\* A later event of the same field: its own data, the value both make, and the
\* span from the first contribution.
Coalesced(pending, event) ==
  [event EXCEPT !.value = IF pending.field \in SumFields
                          THEN SaturatingAdd(pending.value, event.value) ELSE event.value,
                !.from = pending.from]

\* Mutant of Accumulated: a contribution moves its field to the end.
AccumulatedAtEnd(buffer, event) ==
  LET others == SelectSeq(buffer, LAMBDA e : e.field # event.field)
      same   == SelectSeq(buffer, LAMBDA e : e.field = event.field)
  IN  Append(others, IF same = <<>> THEN event ELSE Coalesced(same[1], event))

\* The buffer accumulate leaves when it returns true.
Accumulated(buffer, event) ==
  IF Holds(buffer, event.field)
  THEN [i \in DOMAIN buffer |->
          IF buffer[i].field = event.field THEN Coalesced(buffer[i], event) ELSE buffer[i]]
  ELSE Append(buffer, event)
=============================================================================
