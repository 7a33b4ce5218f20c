------------------------- MODULE SubscriptionAttempt -------------------------
(***************************************************************************)
(* SubscriptionAttemptState (subscription_state.h): what the component     *)
(* remembers of the one notification subscription it is working on.        *)
(*                                                                         *)
(* The class is a value with methods, and so is this module: an attempt is *)
(* a record, a method that changes it is an operator from the attempt to   *)
(* the new attempt, and a method's SubscriptionDecision is an operator of  *)
(* its own, evaluated on the attempt before the call.                      *)
(*                                                                         *)
(* Time is uint32_t milliseconds: every sum is taken modulo TimeModulus    *)
(* (2^32 in the code).                                                     *)
(***************************************************************************)
EXTENDS Integers, GattAttributes

CONSTANTS
  TimeModulus,     \* number of values of a millisecond clock
  FallbackDelay    \* CCCD_FALLBACK_DELAY_MS

ASSUME TimeAssumption ==
  /\ TimeModulus \in Nat \ {0}
  /\ FallbackDelay \in Nat

Stages == {"IDLE", "REGISTERING", "WAITING_FOR_CCCD"}

Time == 0 .. TimeModulus - 1

\* The attempts whose handles are in Handles.
Attempts(Handles) ==
  [stage                    : Stages,
   characteristic_handle    : Handles \cup {NoHandle},
   cccd_handle              : Handles \cup {NoHandle},
   own_cccd_write_attempted : BOOLEAN,
   fallback_at_ms           : Time]

Begin(characteristic, cccd) ==
  [stage                    |-> "REGISTERING",
   characteristic_handle    |-> characteristic,
   cccd_handle              |-> cccd,
   own_cccd_write_attempted |-> FALSE,
   fallback_at_ms           |-> 0]

ResetAttempt ==
  [stage                    |-> "IDLE",
   characteristic_handle    |-> NoHandle,
   cccd_handle              |-> NoHandle,
   own_cccd_write_attempted |-> FALSE,
   fallback_at_ms           |-> 0]

\* The decision registration_result returns.
RegistrationDecision(a, handle, success) ==
  CASE a.stage # "REGISTERING" \/ handle # a.characteristic_handle -> "UNMATCHED"
    [] a.stage = "REGISTERING" /\ handle = a.characteristic_handle ->
         IF success THEN "WAIT_FOR_CCCD" ELSE "FAILED"

\* Mutant of Registered: the deadline is not reduced to the width of the clock.
RegisteredWithoutWrap(a, now) ==
  [a EXCEPT !.stage = "WAITING_FOR_CCCD", !.fallback_at_ms = now + FallbackDelay]

\* The attempt registration_result leaves after a WAIT_FOR_CCCD decision.
Registered(a, now) ==
  [a EXCEPT !.stage = "WAITING_FOR_CCCD",
            !.fallback_at_ms = (now + FallbackDelay) % TimeModulus]

\* Mutant of FallbackDue: the deadline is a plain number, and has to have passed.
FallbackDueWithoutWrap(a, now) ==
  a.stage = "WAITING_FOR_CCCD" /\ ~a.own_cccd_write_attempted /\ now > a.fallback_at_ms

\* The signed difference now - fallback_at_ms is not negative.
FallbackDue(a, now) ==
  /\ a.stage = "WAITING_FOR_CCCD"
  /\ ~a.own_cccd_write_attempted
  /\ 2 * ((now - a.fallback_at_ms) % TimeModulus) < TimeModulus

OwnCccdWriteAttempted(a) == [a EXCEPT !.own_cccd_write_attempted = TRUE]

\* The decision cccd_result returns.
CccdDecision(a, handle, success) ==
  CASE a.stage # "WAITING_FOR_CCCD" \/ handle # a.cccd_handle -> "UNMATCHED"
    [] a.stage = "WAITING_FOR_CCCD" /\ handle = a.cccd_handle ->
         IF success THEN "COMPLETE"
         ELSE IF a.own_cccd_write_attempted THEN "FAILED" ELSE "RETRY_CCCD"
=============================================================================
