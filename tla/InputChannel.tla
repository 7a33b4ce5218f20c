---------------------------- MODULE InputChannel ----------------------------
(***************************************************************************)
(* What the absolute fields of a peripheral (keys, positions) promise to   *)
(* the consumer of Home Assistant events, without saying how: of the       *)
(* values the peripheral says of a field the consumer is shown some, each  *)
(* later than the one before, and it does not keep a value that is not the *)
(* last one said.  A value may be lost before it is shown, but not the one *)
(* just said.                                                              *)
(***************************************************************************)
EXTENDS Naturals

CONSTANTS
  Fields,
  Values,
  Released     \* the value of a field not yet heard of

VARIABLES
  said,        \* what was said on this connection and not lost, numbered by report
  shown,       \* of every field the number of the statement shown, 0 if none was
  value        \* the value shown

vars == <<said, shown, value>>

Statement == [field : Fields, value : Values, seq : Nat]

Init ==
  /\ said = {}
  /\ shown = [f \in Fields |-> 0]
  /\ value = [f \in Fields |-> Released]

\* A report arrives: it says a value of some fields, and may push out statements
\* that wait.
Arrive ==
  /\ \A s \in said \ said' : shown[s.field] < s.seq
  /\ \A s \in said' \ said :
       /\ s \in Statement
       /\ \A t \in said : t.seq < s.seq
       /\ \A t \in said' \ said : t.seq = s.seq /\ (t.field = s.field => t = s)
  /\ UNCHANGED <<shown, value>>

ShowField(f) ==
  \E s \in said :
    /\ s.field = f /\ shown[f] < s.seq
    /\ shown'[f] = s.seq /\ value'[f] = s.value

Show ==
  /\ DOMAIN shown' = Fields /\ DOMAIN value' = Fields
  /\ \A f \in Fields :
       ShowField(f) \/ (shown'[f] = shown[f] /\ value'[f] = value[f])
  /\ UNCHANGED said

Disconnect ==
  /\ said' = {}
  /\ shown' = [f \in Fields |-> 0]
  /\ value' = [f \in Fields |-> Released]

Next == Arrive \/ Show \/ Disconnect

\* What the consumer was shown of f is not the last value said.
Stale(f) ==
  \E s \in said :
    /\ s.field = f /\ value[f] # s.value
    /\ \A t \in said : t.field = f => t.seq <= s.seq

\* A stale field does not stay stale without end.
Spec == Init /\ [][Next]_vars /\ \A f \in Fields : []<>~Stale(f)
=============================================================================
