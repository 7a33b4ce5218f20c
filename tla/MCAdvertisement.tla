--------------------------- MODULE MCAdvertisement ---------------------------
(***************************************************************************)
(* Every advertisement and scan response of few small bytes, and one byte  *)
(* more than the slot holds.                                               *)
(***************************************************************************)
EXTENDS Advertisement

CONSTANT MaxByte

MCScanResults ==
  UNION {UNION {[bytes : {bytes}, advertisement_length : 0 .. Len(bytes)] :
                  bytes \in [1 .. n -> 0 .. MaxByte]} : n \in 0 .. MaxBytes}
  \cup [bytes : {[i \in 1 .. MaxBytes + 1 |-> 1]}, advertisement_length : {1}]
=============================================================================
