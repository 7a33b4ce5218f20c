---------------------------- MODULE Advertisement ----------------------------
(***************************************************************************)
(* The capture of advertisements (ble_client_hid.cpp: parse_device,        *)
(* process_pending_advertisement_ and log_advertisement_elements_).        *)
(*                                                                         *)
(* The scanner hands every scan result of the peer to parse_device, which  *)
(* keeps a changed one in the only slot there is; loop() logs what is in   *)
(* the slot.  A result is its bytes, the advertisement followed by the     *)
(* scan response, and the length of the former.  The address type and the  *)
(* RSSI go along without being looked at and are left out.                 *)
(***************************************************************************)
EXTENDS Naturals, SequencesExt

CONSTANTS
  ScanResults,         \* what the scanner may report of the peer
  MaxBytes             \* the size of PendingAdvertisement::bytes

ASSUME ScanAssumption ==
  /\ MaxBytes \in Nat
  /\ ScanResults \subseteq [bytes : Seq(Nat), advertisement_length : Nat]
  /\ \A r \in ScanResults : r.advertisement_length <= Len(r.bytes)

VARIABLES
  pending_advertisement_,    \* a scan result
  available,                 \* the slot holds one that was not logged
  last_advertisement_,       \* bytes of the last one that differed from the one before
  logged,                    \* history: the scan result logged last
  seen                       \* history: bytes of the last scan result that fits the slot

vars == <<pending_advertisement_, available, last_advertisement_, logged, seen>>

Nothing == [bytes |-> <<>>, advertisement_length |-> 0]

-----------------------------------------------------------------------------
(* log_advertisement_elements_: the AD structures of one of the two parts. *)

\* The element whose length is byte offset of data.
Element(data, offset) ==
  [type |-> data[offset + 2], data |-> SubSeq(data, offset + 3, offset + 1 + data[offset + 1])]

\* Mutant of AfterElement: the length counts itself.
AfterDeclaredLength(data, offset) == offset + data[offset + 1]

AfterElement(data, offset) == offset + 1 + data[offset + 1]

\* The elements of data: one after the other, as long as the length is neither
\* zero nor more than what is left.
Elements(data) ==
  LET from[offset \in 0 .. Len(data)] ==
        IF \/ offset = Len(data)
           \/ data[offset + 1] = 0 \/ data[offset + 1] > Len(data) - offset - 1
        THEN <<>>
        ELSE <<Element(data, offset)>> \o from[AfterElement(data, offset)]
  IN  from[0]

\* The parts of a scan result.
Parts(result) ==
  {SubSeq(result.bytes, 1, result.advertisement_length),
   SubSeq(result.bytes, result.advertisement_length + 1, Len(result.bytes))}

-----------------------------------------------------------------------------

\* Mutant of Remember: only what takes a free slot is remembered.
RememberFirst(result) ==
  /\ pending_advertisement_' = result /\ available' = TRUE
  /\ last_advertisement_' = IF available THEN last_advertisement_ ELSE result.bytes

\* A changed result takes the slot, also from one that waits in it.
Remember(result) ==
  /\ pending_advertisement_' = result /\ available' = TRUE
  /\ last_advertisement_' = result.bytes

\* parse_device, for a result of the peer's address that fits the slot: it compares
\* the bytes and their number, not where the scan response begins.
Fits(result) == Len(result.bytes) <= MaxBytes

ParseDevice ==
  /\ \E result \in ScanResults :
       IF Fits(result) /\ result.bytes # last_advertisement_
       THEN Remember(result) /\ seen' = result.bytes
       ELSE /\ seen' = IF Fits(result) THEN result.bytes ELSE seen
            /\ UNCHANGED <<pending_advertisement_, available, last_advertisement_>>
  /\ UNCHANGED logged

\* process_pending_advertisement_, with which loop() begins.
ProcessPendingAdvertisement ==
  /\ available
  /\ logged' = pending_advertisement_ /\ available' = FALSE
  /\ UNCHANGED <<pending_advertisement_, last_advertisement_, seen>>

-----------------------------------------------------------------------------

Init ==
  /\ pending_advertisement_ = Nothing /\ available = FALSE
  /\ last_advertisement_ = <<>>
  /\ logged = Nothing /\ seen = <<>>

Next == ParseDevice \/ ProcessPendingAdvertisement

Spec == Init /\ [][Next]_vars

-----------------------------------------------------------------------------
(* Properties. *)

\* The newest advertisement is never lost: what the scanner saw last waits in the
\* slot, or else is what was logged last.  (Results that change more than once
\* between two iterations of loop() are logged only in their last form.)
LatestIsCaptured ==
  seen = IF available THEN pending_advertisement_.bytes ELSE logged.bytes

Encoding(element) == <<Len(element.data) + 1, element.type>> \o element.data

\* The elements logged of a part are its bytes, in order and without a gap, up to
\* where the part is empty, terminated by a zero length or truncated.
ElementsTile ==
  \A part \in Parts(logged) :
    LET read == FlattenSeq([i \in DOMAIN Elements(part) |-> Encoding(Elements(part)[i])])
        rest == SubSeq(part, Len(read) + 1, Len(part))
    IN  /\ IsPrefix(read, part)
        /\ rest = <<>> \/ Head(rest) = 0 \/ Head(rest) > Len(rest) - 1
=============================================================================
