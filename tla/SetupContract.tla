--------------------------- MODULE SetupContract ---------------------------
(***************************************************************************)
(* What BLEClientHID promises of a connection (README.md, "Connection and  *)
(* discovery lifecycle"), without saying how: once services are discovered *)
(* it reports one outcome, the outcome stands until the link is lost, and  *)
(* READY means that every HID input the peer offers is delivered.          *)
(***************************************************************************)
CONSTANT Handles

VARIABLES
  outcome,     \* what setup reports of the connection
  offered,     \* the HID inputs of the peer
  delivered    \* those whose notifications reach the decoder

vars == <<outcome, offered, delivered>>

Outcomes == {"READY", "DEGRADED", "NO_HID"}

Init == outcome = "NO_LINK" /\ offered = {} /\ delivered = {}

LinkUp ==
  /\ outcome = "NO_LINK" /\ outcome' = "DISCOVERING"
  /\ offered' \in SUBSET Handles
  /\ delivered' = {}

LinkDown ==
  /\ outcome # "NO_LINK" /\ outcome' = "NO_LINK"
  /\ offered' = {} /\ delivered' = {}

Discovered ==
  /\ outcome = "DISCOVERING" /\ outcome' = "PENDING"
  /\ UNCHANGED <<offered, delivered>>

\* Inputs are delivered as they are enabled, late ones after the outcome too, and
\* those that another node enabled before all at once; none is lost while the link
\* is up.
Deliver ==
  /\ outcome # "NO_LINK"
  /\ \E more \in SUBSET (offered \ delivered) : delivered' = delivered \cup more
  /\ UNCHANGED <<outcome, offered>>

Report(o) ==
  /\ outcome = "PENDING" \/ (outcome = "DISCOVERING" /\ o = "DEGRADED")
  /\ o = "READY" => delivered = offered
  /\ o = "NO_HID" => offered = {}
  /\ outcome' = o
  /\ UNCHANGED <<offered, delivered>>

Next ==
  \/ LinkUp \/ LinkDown \/ Discovered \/ Deliver
  \/ \E o \in Outcomes : Report(o)

\* Setup does not stay pending.
Spec ==
  /\ Init /\ [][Next]_vars
  /\ WF_vars(outcome = "PENDING" /\ \E o \in Outcomes : Report(o))
=============================================================================
