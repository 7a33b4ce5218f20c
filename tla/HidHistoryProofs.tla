---------------------------- MODULE HidHistoryProofs ----------------------------
(***************************************************************************)
(* Proofs about the histories of HidReportDecoder: over any sequence of    *)
(* reports, what was shown of every field and of the boot devices tells    *)
(* what the reports received say.                                          *)
(***************************************************************************)
EXTENDS HidDecoderProofs

-----------------------------------------------------------------------------
(* The bits that an element is read from are those of the number a payload is. *)

\* The numbers that the last bytes of a payload are.
LEMMA NumberOfBytes ==
  ASSUME NEW payload, NEW n \in Nat, n = Len(payload), NEW byte \in [1 .. n -> Nat],
         \A k \in 1 .. n : payload[n - k + 1] = byte[k]
  PROVE  \E last : Accumulates(last, n, 256, byte) /\ NumberOf(payload) = last[n]
<1> DEFINE Is(g) == g = [k \in 0 .. n |-> IF k = 0 THEN 0 ELSE payload[n - k + 1] + 256 * g[k - 1]]
<1>1. NumberOf(payload) = (CHOOSE g : Is(g))[n]
  BY DEF NumberOf
<1>2. \A g : Is(g) <=> Accumulates(g, n, 256, byte)
  <2> SUFFICES ASSUME NEW g PROVE Is(g) <=> Accumulates(g, n, 256, byte)
    OBVIOUS
  <2>1. ASSUME NEW k \in 0 .. n, k # 0
        PROVE  payload[n - k + 1] + 256 * g[k - 1] = Scaled(byte[k], 256, g[k - 1])
    <3>1. k \in 1 .. n
      BY <2>1
    <3> QED
      BY <3>1 DEF Scaled
  <2>2. [k \in 0 .. n |-> IF k = 0 THEN 0 ELSE payload[n - k + 1] + 256 * g[k - 1]]
          = [k \in 0 .. n |-> IF k = 0 THEN 0 ELSE Scaled(byte[k], 256, g[k - 1])]
    BY <2>1
  <2> QED
    BY <2>2, Zenon DEF Accumulates
<1>3. \E g : Is(g)
  <2>1. byte \in [1 .. n -> Int] /\ 256 \in Int
    OBVIOUS
  <2> HIDE DEF Is
  <2>2. \E g : Accumulates(g, n, 256, byte)
    BY <2>1, AccumulationExists
  <2> QED
    BY <1>2, <2>2
<1> HIDE DEF Is
<1>4. Is(CHOOSE g : Is(g))
  BY <1>3
<1> QED
  BY <1>1, <1>2, <1>4

LEMMA BitShifted == \A a, j : Bit(a, j) = Shifted(a, j) % 2
BY DEF Bit, Shifted, Quotient

\* A number with one more byte at its low end.
Extended(byte, m) == byte + 256 * m

LEMMA LowBit ==
  \A byte \in 0 .. 255 : \A m, j \in Nat : j < 8 => Bit(Extended(byte, m), j) = Bit(byte, j)
<1> SUFFICES ASSUME NEW byte \in 0 .. 255, NEW m \in Nat, NEW j \in Nat, j < 8
             PROVE  Bit(Extended(byte, m), j) = Bit(byte, j)
  OBVIOUS
<1> PICK number : number = Extended(byte, m)
  OBVIOUS
<1> number = byte + 256 * m
  BY DEF Extended
<1>1. j \in {0, 1, 2, 3, 4, 5, 6, 7}
  OBVIOUS
<1>2. CASE j = 0
  BY <1>2 DEF Bit
<1>3. CASE j = 1
  BY <1>3 DEF Bit
<1>4. CASE j = 2
  BY <1>4 DEF Bit
<1>5. CASE j = 3
  BY <1>5 DEF Bit
<1>6. CASE j = 4
  BY <1>6 DEF Bit
<1>7. CASE j = 5
  BY <1>7 DEF Bit
<1>8. CASE j = 6
  BY <1>8 DEF Bit
<1>9. CASE j = 7
  BY <1>9 DEF Bit
<1> QED
  BY <1>1, <1>2, <1>3, <1>4, <1>5, <1>6, <1>7, <1>8, <1>9

LEMMA HighBit ==
  \A byte \in 0 .. 255 : \A m, i \in Nat : Bit(Extended(byte, m), 8 + i) = Bit(m, i)
<1> SUFFICES ASSUME NEW byte \in 0 .. 255, NEW m \in Nat, NEW i \in Nat
             PROVE  Bit(Extended(byte, m), 8 + i) = Bit(m, i)
  OBVIOUS
<1> PICK number, j : number = Extended(byte, m) /\ j = 8 + i
  OBVIOUS
<1> number = byte + 256 * m
  BY DEF Extended
<1>1. i \in Nat /\ 8 + i = j /\ number \in Nat /\ 8 \in Nat
  OBVIOUS
<1>2. Shifted(number, 8) = m
  <2>1. 2 ^ 8 = 256
    OBVIOUS
  <2>2. number \div 256 = m
    OBVIOUS
  <2> QED
    BY <2>1, <2>2 DEF Shifted, Quotient
<1>3. Shifted(number, 8 + i) = Shifted(Shifted(number, 8), i)
  BY <1>1, HighBits
<1>4. Shifted(number, j) = Shifted(m, i)
  BY <1>1, <1>2, <1>3
<1>5. Bit(number, j) = Bit(m, i)
  BY <1>4, BitShifted
<1> QED
  BY <1>5

\* The bits of a number of k bytes.
ReadsAs(m, payload, n, k) ==
  \A j \in Nat : j < 8 * k => Bit(m, j) = Bit(payload[n - k + j \div 8 + 1], j % 8)

LEMMA ReadsOneMore ==
  ASSUME NEW payload, NEW n \in Nat, NEW k \in Nat, k + 1 <= n, NEW m \in Nat, ReadsAs(m, payload, n, k),
         NEW b \in 0 .. 255, payload[n - (k + 1) + 1] = b
  PROVE  ReadsAs(Extended(b, m), payload, n, k + 1)
<1> PICK number : number = Extended(b, m)
  OBVIOUS
<1>1. ASSUME NEW j \in Nat, j < 8 * (k + 1)
      PROVE  Bit(number, j) = Bit(payload[n - (k + 1) + j \div 8 + 1], j % 8)
  <2>5. CASE j < 8
    <3>1. j \div 8 = 0 /\ j % 8 = j /\ n - (k + 1) + 0 + 1 = n - (k + 1) + 1
      BY <2>5
    <3>2. Bit(number, j) = Bit(b, j)
      BY <2>5, LowBit
    <3> QED
      BY <3>1, <3>2
  <2>6. CASE ~(j < 8)
    <3>1. PICK i : i = j - 8
      OBVIOUS
    <3>2. /\ i \in Nat /\ j = 8 + i /\ i < 8 * k /\ i % 8 = j % 8
          /\ n - k + i \div 8 + 1 = n - (k + 1) + j \div 8 + 1
      BY <1>1, <2>6, <3>1
    <3>3. Bit(m, i) = Bit(payload[n - k + i \div 8 + 1], i % 8)
      BY <3>2 DEF ReadsAs
    <3>4. Bit(number, j) = Bit(m, i)
      BY <3>2, HighBit
    <3> QED
      BY <3>2, <3>3, <3>4
  <2> QED
    BY <2>5, <2>6
<1> QED
  BY <1>1 DEF ReadsAs

\* A bit of a payload is that of its number.
LEMMA NumberBits ==
  ASSUME NEW payload, NEW n \in Nat, n = Len(payload), NEW byte \in [1 .. n -> Nat],
         \A k \in 1 .. n : payload[n - k + 1] = byte[k] /\ byte[k] <= 255
  PROVE  /\ NumberOf(payload) \in Nat
         /\ \A j \in Nat : j < 8 * n =>
              Bit(NumberOf(payload), j) = Bit(payload[j \div 8 + 1], j % 8)
<1>2. PICK last : Accumulates(last, n, 256, byte) /\ NumberOf(payload) = last[n]
  BY NumberOfBytes
<1>3. last[0] = 0 /\ \A k \in 1 .. n : last[k] = Scaled(byte[k], 256, last[k - 1])
  BY <1>2, AccumulationFacts
<1>4. last \in [0 .. n -> Nat]
  <2>1. 256 \in Nat
    OBVIOUS
  <2> QED
    BY <1>2, <2>1, NaturalAccumulation
<1> DEFINE T == {k \in Nat : k <= n => ReadsAs(last[k], payload, n, k)}
<1>5. 0 \in T
  BY DEF ReadsAs
<1>6. ASSUME NEW k \in Nat, k \in T PROVE k + 1 \in T
  <2> SUFFICES ASSUME k + 1 <= n PROVE ReadsAs(last[k + 1], payload, n, k + 1)
    OBVIOUS
  <2>1. ReadsAs(last[k], payload, n, k) /\ k + 1 \in 1 .. n /\ (k + 1) - 1 = k /\ k \in 0 .. n
    BY <1>6
  <2>2. PICK b, m : b = byte[k + 1] /\ m = last[k]
    OBVIOUS
  <2>3. b \in 0 .. 255 /\ m \in Nat /\ last[k + 1] = Extended(b, m) /\ payload[n - (k + 1) + 1] = b
    <3>1. last[k + 1] = Extended(byte[k + 1], last[(k + 1) - 1])
      BY <1>3, <2>1 DEF Scaled, Extended
    <3>2. last[k + 1] = Extended(b, m)
      BY <2>1, <2>2, <3>1
    <3>3. m \in Nat
      BY <1>4, <2>1, <2>2
    <3>4. byte[k + 1] \in Nat /\ byte[k + 1] <= 255 /\ payload[n - (k + 1) + 1] = byte[k + 1]
      BY <2>1
    <3>5. b \in 0 .. 255
      <4>1. \A x \in Nat : x <= 255 => x \in 0 .. 255
        OBVIOUS
      <4> QED
        BY <2>2, <3>4, <4>1
    <3> QED
      BY <2>2, <3>2, <3>3, <3>4, <3>5
  <2>4. ReadsAs(Extended(b, m), payload, n, k + 1)
    BY <2>1, <2>2, <2>3, ReadsOneMore
  <2> QED
    BY <2>3, <2>4
<1> HIDE DEF T
<1>7. \A k \in Nat : k \in T
  BY <1>5, <1>6, Induction
<1>8. ReadsAs(last[n], payload, n, n)
  BY <1>7 DEF T
<1>9. \A j \in Nat : n - n + j \div 8 + 1 = j \div 8 + 1
  OBVIOUS
<1>10. NumberOf(payload) \in Nat
  BY <1>2, <1>4
<1> QED
  BY <1>2, <1>8, <1>9, <1>10 DEF ReadsAs

LEMMA RawBitsAre ==
  ASSUME NEW payload, NEW n \in Nat, n = Len(payload), NEW byte \in [1 .. n -> Nat],
         \A k \in 1 .. n : payload[n - k + 1] = byte[k] /\ byte[k] <= 255,
         NEW off \in Nat, NEW size \in Nat, off + size <= 8 * n
  PROVE  RawBits(payload, off, size) = BitsOf(payload, off, size)
<1> DEFINE Is(g) == g = [b \in 0 .. size |->
              IF b = 0 THEN 0
              ELSE LET at == off + b - 1
                   IN  g[b - 1] + IF IsSet(payload[at \div 8 + 1], at % 8) THEN 2 ^ (b - 1) ELSE 0]
           raw == CHOOSE g : Is(g)
<1>1. RawBits(payload, off, size) = raw[size]
  BY DEF RawBits
<1>2. PICK m : m = NumberOf(payload)
  OBVIOUS
<1>3. /\ m \in Nat
      /\ \A j \in Nat : j < 8 * n => Bit(m, j) = Bit(payload[j \div 8 + 1], j % 8)
  BY <1>2, NumberBits
<1>4. PICK x : x = Shifted(m, off)
  OBVIOUS
<1>5. x \in Nat
  BY <1>3, <1>4, HighBits
<1>6. ASSUME NEW b \in Nat, b < size
      PROVE  IsSet(payload[(off + b) \div 8 + 1], (off + b) % 8) <=> Shifted(x, b) % 2 = 1
  <2>1. off + b \in Nat /\ off + b < 8 * n
    BY <1>6
  <2>2. Bit(m, off + b) = Bit(payload[(off + b) \div 8 + 1], (off + b) % 8)
    BY <1>3, <2>1
  <2>3. Bit(m, off + b) = Shifted(m, off + b) % 2
    BY BitShifted
  <2>4. Shifted(m, off + b) = Shifted(x, b)
    BY <1>3, <1>4, HighBits
  <2> QED
    BY <2>2, <2>3, <2>4 DEF IsSet
<1>7. ASSUME NEW b \in 0 .. size, b # 0
      PROVE  LET at == off + b - 1
             IN  Lowest(x, b) = Lowest(x, b - 1)
                   + IF IsSet(payload[at \div 8 + 1], at % 8) THEN 2 ^ (b - 1) ELSE 0
  <2>1. PICK c : c = b - 1
    OBVIOUS
  <2>2. c \in Nat /\ c < size /\ c + 1 = b /\ off + b - 1 = off + c
    BY <1>7, <2>1
  <2>3. Lowest(x, c + 1) = Lowest(x, c) + (IF Shifted(x, c) % 2 = 1 THEN 2 ^ c ELSE 0)
    BY <1>5, <2>2, LowestBits
  <2> QED
    BY <1>6, <2>1, <2>2, <2>3
<1>8. Lowest(x, 0) = 0
  BY <1>5, LowestBits
<1> DEFINE low == [b \in 0 .. size |-> Lowest(x, b)]
<1>9. Is(low)
  <2>1. ASSUME NEW b \in 0 .. size, b # 0 PROVE low[b] = Lowest(x, b) /\ low[b - 1] = Lowest(x, b - 1)
    <3>1. b - 1 \in 0 .. size
      BY <2>1
    <3> QED
      BY <3>1
  <2>2. low = [b \in 0 .. size |-> low[b]] /\ low[0] = 0
    BY <1>8
  <2> HIDE DEF low
  <2> QED
    BY <1>7, <2>1, <2>2
<1>10. Is(raw)
  BY <1>9
<1> HIDE DEF raw, low
<1>11. \A b \in 0 .. size :
         raw[b] = IF b = 0 THEN 0
                  ELSE LET at == off + b - 1
                       IN  raw[b - 1] + IF IsSet(payload[at \div 8 + 1], at % 8) THEN 2 ^ (b - 1) ELSE 0
  BY <1>10
<1> DEFINE T == {b \in Nat : b <= size => raw[b] = Lowest(x, b)}
<1>12. 0 \in T
  BY <1>8, <1>11
<1>13. ASSUME NEW c \in Nat, c \in T PROVE c + 1 \in T
  <2> SUFFICES ASSUME c + 1 <= size PROVE raw[c + 1] = Lowest(x, c + 1)
    OBVIOUS
  <2>1. PICK b : b = c + 1
    OBVIOUS
  <2>2. b \in 0 .. size /\ b # 0 /\ b - 1 = c /\ raw[c] = Lowest(x, c)
    BY <1>13, <2>1
  <2> QED
    BY <1>7, <1>11, <2>1, <2>2
<1> HIDE DEF T
<1>14. \A b \in Nat : b \in T
  BY <1>12, <1>13, Induction
<1>15. raw[size] = Lowest(x, size)
  BY <1>14 DEF T
<1>16. BitsOf(payload, off, size) = Lowest(x, size)
  BY <1>2, <1>4 DEF BitsOf, Lowest, Shifted, Quotient, Remainder
<1> QED
  BY <1>1, <1>15, <1>16

LEMMA BytesOfPayload ==
  ASSUME NEW payload \in Seq(0 .. 255)
  PROVE  \E n \in Nat : \E byte \in [1 .. n -> Nat] :
           n = Len(payload) /\ \A k \in 1 .. n : payload[n - k + 1] = byte[k] /\ byte[k] <= 255
<1>1. PICK n : n = Len(payload)
  OBVIOUS
<1>2. n \in Nat /\ \A k \in 1 .. n : payload[k] \in 0 .. 255
  BY <1>1, LenProperties
<1>3. PICK byte : byte = [k \in 1 .. n |-> payload[n - k + 1]]
  OBVIOUS
<1>4. \A k \in 1 .. n : n - k + 1 \in 1 .. n
  BY <1>2
<1>5. \A k \in 1 .. n : payload[n - k + 1] = byte[k] /\ byte[k] \in 0 .. 255
  BY <1>2, <1>3, <1>4
<1>6. \A b \in 0 .. 255 : b \in Nat /\ b <= 255
  OBVIOUS
<1>7. byte \in [1 .. n -> Nat]
  BY <1>3, <1>5, <1>6
<1>8. n \in Nat
  BY <1>2
<1>9. \A k \in 1 .. n : payload[n - k + 1] = byte[k] /\ byte[k] <= 255
  BY <1>5, <1>6
<1> WITNESS n \in Nat
<1> WITNESS byte \in [1 .. n -> Nat]
<1> QED
  BY <1>1, <1>9

LEMMA PayloadBits ==
  \A payload : payload \in Seq(0 .. 255) =>
    \A off, size \in Nat : off + size <= 8 * Len(payload) =>
      RawBits(payload, off, size) = BitsOf(payload, off, size)
<1> TAKE payload
<1>1. ASSUME payload \in Seq(0 .. 255), NEW off \in Nat, NEW size \in Nat,
             off + size <= 8 * Len(payload)
      PROVE  RawBits(payload, off, size) = BitsOf(payload, off, size)
  <2>1. PICK m \in Nat : \E byte \in [1 .. m -> Nat] :
          m = Len(payload) /\ \A i \in 1 .. m : payload[m - i + 1] = byte[i] /\ byte[i] <= 255
    BY <1>1, BytesOfPayload
  <2>2. PICK byte \in [1 .. m -> Nat] :
          m = Len(payload) /\ \A i \in 1 .. m : payload[m - i + 1] = byte[i] /\ byte[i] <= 255
    BY <2>1
  <2>3. off + size <= 8 * m
    BY <1>1, <2>2
  <2> QED
    BY <2>2, <2>3, RawBitsAre
<1> QED
  BY <1>1

\* An element's bits are all in a payload that its report fits.
LEMMA ElementFits ==
  ASSUME MapInv, FieldsSound, NEW f \in DOMAIN fields_, NEW field, field = fields_[f],
         field.kind = "INPUT", NEW r \in DOMAIN reports_, reports_[r].kind = "INPUT",
         reports_[r].report_id = field.global["REPORT_ID"], NEW k \in Elements(field)
  PROVE  /\ ElementOffset(field, k) \in Nat /\ field.global["REPORT_SIZE"] \in Nat \ {0}
         /\ ElementOffset(field, k) + field.global["REPORT_SIZE"] <= reports_[r].bit_size
<1>1. PICK p \in 1 .. Len(reports_[r].field_ids) : reports_[r].field_ids[p] + 1 = f
  BY FieldListed
<1>2. Tiled(reports_[r], fields_) /\ reports_[r].field_ids \in Seq(Nat) /\ reports_[r].bit_size \in Nat
  BY ReportFacts
<1>3. p \in DOMAIN reports_[r].field_ids
  BY <1>2, LenProperties
<1> PICK size, count, start : /\ size = field.global["REPORT_SIZE"] /\ count = field.global["REPORT_COUNT"]
                              /\ start = field.bit_offset
  OBVIOUS
<1>4. start + size * count <= reports_[r].bit_size
  <2>1. FieldOf(reports_[r], fields_, p) = field
    BY <1>1 DEF FieldOf
  <2>2. Ends(reports_[r], fields_, p) <= reports_[r].bit_size
    BY <1>2, <1>3 DEF Tiled
  <2> QED
    BY <2>1, <2>2 DEF Ends, Begins, FieldBits
<1>5. start \in Nat /\ size \in Nat \ {0} /\ count \in Nat /\ k \in 0 .. count - 1
  <2>1. Sound(field)
    BY DEF FieldsSound
  <2> QED
    BY <2>1, SoundFacts DEF Elements
<1>6. k * size \in Nat /\ size * count \in Nat /\ k * size + size <= size * count
  <2>1. \A i, s, c \in Nat : i + 1 <= c => i * s + s <= s * c /\ i * s \in Nat /\ s * c \in Nat
    OBVIOUS
  <2>2. k \in Nat /\ k + 1 <= count
    BY <1>5
  <2> QED
    BY <1>5, <2>1, <2>2
<1>7. PICK a, b, e : a = k * size /\ b = size * count /\ e = reports_[r].bit_size
  OBVIOUS
<1>8. a \in Nat /\ b \in Nat /\ e \in Nat /\ a + size <= b /\ start + b <= e
  <2>1. a \in Nat /\ b \in Nat /\ a + size <= b
    BY <1>6, <1>7, Zenon
  <2>2. e \in Nat /\ start + b <= e
    BY <1>2, <1>4, <1>7, Zenon
  <2> QED
    BY <2>1, <2>2
<1>9. start + a \in Nat /\ start + a + size <= e
  <2>1. start \in Nat /\ size \in Nat /\ a \in Nat /\ b \in Nat /\ e \in Nat
    BY <1>5, <1>8
  <2>2. a + size <= b /\ start + b <= e
    BY <1>8
  <2>3. start + a \in Nat
    BY <2>1
  <2>4. start + (a + size) <= start + b
    BY <2>1, <2>2
  <2>5. start + (a + size) = start + a + size
    BY <2>1
  <2> QED
    BY <2>1, <2>2, <2>3, <2>4, <2>5
<1>10. ElementOffset(field, k) = start + a
  BY <1>7 DEF ElementOffset
<1> QED
  BY <1>5, <1>7, <1>9, <1>10

\* Reading an element's bits gives what they mean.
LEMMA ElementMeans ==
  ASSUME MapInv, FieldsSound, NEW f \in DOMAIN fields_, NEW field, field = fields_[f],
         field.kind = "INPUT", NEW n \in Notifications, n \in CompleteFor(field), NEW k \in Elements(field)
  PROVE  ElementValue(field, k, n.payload) = Meaning(field, k, n.payload)
<1>1. PICK r \in DOMAIN reports_ : /\ reports_[r].kind = "INPUT"
                                   /\ reports_[r].report_id = field.global["REPORT_ID"]
                                   /\ 8 * Len(n.payload) >= reports_[r].bit_size
  BY DEF CompleteFor, Range
<1>2. PICK off, size : off = ElementOffset(field, k) /\ size = field.global["REPORT_SIZE"]
  OBVIOUS
<1>3. off \in Nat /\ size \in Nat \ {0} /\ off + size <= reports_[r].bit_size
  BY <1>1, <1>2, ElementFits
<1>4. n.payload \in Seq(0 .. 255)
  BY PayloadBytes
<1>5. off + size <= 8 * Len(n.payload)
  <2>1. reports_[r].bit_size \in Nat
    BY ReportFacts
  <2>2. PICK e, b : e = reports_[r].bit_size /\ b = 8 * Len(n.payload)
    OBVIOUS
  <2>3. Len(n.payload) \in Nat
    BY <1>4, LenProperties
  <2>4. e \in Nat /\ b \in Nat /\ b >= e /\ off + size <= e
    BY <1>1, <1>3, <2>1, <2>2, <2>3
  <2>5. off + size <= b
    BY <1>3, <2>4
  <2> QED
    BY <2>2, <2>5
<1>6. RawBits(n.payload, off, size) = BitsOf(n.payload, off, size)
  <2>1. off \in Nat /\ size \in Nat
    BY <1>3
  <2> QED
    BY <1>4, <1>5, <2>1, PayloadBits
<1> QED
  BY <1>2, <1>6 DEF ElementValue, ReadBits, Meaning

-----------------------------------------------------------------------------
(* Keys in order, and what is chosen of sequences. *)

\* A sequence that has each element of a set once, and nothing else.
ListsOnce(s, S) ==
  s \in Seq(S) /\ \A x \in S : \E i \in DOMAIN s : s[i] = x /\ \A j \in DOMAIN s : s[j] = x => j = i

\* How many elements come before one.
Before(S, R, x) == Cardinality({y \in S : <<y, x>> \in R})

Orders(R, S) ==
  /\ \A x \in S : <<x, x>> \notin R
  /\ \A x, y \in S : x # y => <<x, y>> \in R \/ <<y, x>> \in R
  /\ \A x, y, z \in S : <<x, y>> \in R /\ <<y, z>> \in R => <<x, z>> \in R

LEMMA PlacesApart ==
  ASSUME NEW S, IsFiniteSet(S), NEW R, Orders(R, S)
  PROVE  \A x \in S :
           /\ Before(S, R, x) + 1 \in 1 .. Cardinality(S)
           /\ \A z \in S : Before(S, R, z) = Before(S, R, x) => z = x
<1> DEFINE N == Cardinality(S)
           Below(x) == {y \in S : <<y, x>> \in R}
<1>0. /\ \A x \in S : <<x, x>> \notin R
      /\ \A x, y \in S : x # y => <<x, y>> \in R \/ <<y, x>> \in R
      /\ \A x, y, z \in S : <<x, y>> \in R /\ <<y, z>> \in R => <<x, z>> \in R
  BY DEF Orders
<1>1. N \in Nat
  BY FS_CardinalityType
<1>2. ASSUME NEW x \in S
      PROVE  IsFiniteSet(Below(x)) /\ Cardinality(Below(x)) \in Nat /\ Cardinality(Below(x)) < N
  <2>1. Below(x) \in SUBSET S /\ x \notin Below(x)
    BY <1>0
  <2>2. Below(x) # S
    BY <2>1
  <2> HIDE DEF Below
  <2>3. /\ IsFiniteSet(Below(x)) /\ Cardinality(Below(x)) <= Cardinality(S)
        /\ Cardinality(S) = Cardinality(Below(x)) => S = Below(x)
    BY <2>1, FS_Subset
  <2>4. Cardinality(Below(x)) \in Nat
    BY <2>3, FS_CardinalityType
  <2> QED
    BY <2>2, <2>3, <2>4, <1>1
<1>3. ASSUME NEW x \in S, NEW y \in S, <<x, y>> \in R
      PROVE  Cardinality(Below(x)) < Cardinality(Below(y))
  <2>1. Below(x) \in SUBSET Below(y)
    BY <1>0, <1>3
  <2>2. x \in Below(y) /\ x \notin Below(x)
    BY <1>0, <1>3
  <2> HIDE DEF Below
  <2>3. /\ Cardinality(Below(x)) <= Cardinality(Below(y))
        /\ Cardinality(Below(y)) = Cardinality(Below(x)) => Below(y) = Below(x)
    BY <2>1, <1>2, FS_Subset
  <2>4. Cardinality(Below(x)) \in Nat /\ Cardinality(Below(y)) \in Nat
    BY <1>2
  <2> QED
    BY <2>2, <2>3, <2>4
<1>4. ASSUME NEW x \in S, NEW z \in S, Cardinality(Below(z)) = Cardinality(Below(x)) PROVE z = x
  <2>1. Cardinality(Below(x)) \in Nat
    BY <1>2
  <2>2. x # z => <<x, z>> \in R \/ <<z, x>> \in R
    BY <1>0
  <2> HIDE DEF Below
  <2> QED
    BY <2>1, <2>2, <1>3, <1>4
<1>5. ASSUME NEW x \in S PROVE Cardinality(Below(x)) + 1 \in 1 .. N
  <2> HIDE DEF Below
  <2> QED
    BY <1>1, <1>2
<1>6. \A x \in S : Before(S, R, x) = Cardinality(Below(x))
  BY DEF Before
<1> HIDE DEF Below
<1> QED
  BY <1>4, <1>5, <1>6

LEMMA OrderedOnce ==
  ASSUME NEW S, IsFiniteSet(S), NEW R, Orders(R, S), NEW N, N = Cardinality(S), NEW s,
         DOMAIN s = 1 .. N, s = [k \in 1 .. N |-> s[k]],
         \A k \in 1 .. N : s[k] \in S /\ Before(S, R, s[k]) = k - 1
  PROVE  ListsOnce(s, S)
<1>1. N \in Nat
  BY FS_CardinalityType
<1>2. \A x \in S : Before(S, R, x) + 1 \in 1 .. N /\ \A z \in S : Before(S, R, z) = Before(S, R, x) => z = x
  BY PlacesApart
<1>5. \A x \in S : Before(S, R, x) \in Nat
  <2> SUFFICES ASSUME NEW x \in S PROVE Before(S, R, x) \in Nat
    OBVIOUS
  <2>1. {y \in S : <<y, x>> \in R} \in SUBSET S
    OBVIOUS
  <2>2. IsFiniteSet({y \in S : <<y, x>> \in R})
    BY <2>1, FS_Subset
  <2> QED
    BY <2>2, FS_CardinalityType DEF Before
<1>6. \A k \in 1 .. N : s[k] \in S /\ Before(S, R, s[k]) = k - 1
  OBVIOUS
<1>7. DOMAIN s = 1 .. N /\ s \in Seq(S)
  <2>1. s \in [1 .. N -> S]
    OBVIOUS
  <2> QED
    BY <1>1, <2>1, SeqDef
<1>8. ASSUME NEW x \in S
      PROVE  \E i \in DOMAIN s : s[i] = x /\ \A j \in DOMAIN s : s[j] = x => j = i
  <2>1. PICK i \in 1 .. N : i = Before(S, R, x) + 1
    BY <1>2
  <2>2. Before(S, R, s[i]) = Before(S, R, x) /\ s[i] \in S
    BY <1>5, <1>6, <2>1
  <2>3. s[i] = x
    BY <1>2, <2>2
  <2>4. ASSUME NEW j \in 1 .. N, s[j] = x PROVE j = i
    <3>1. Before(S, R, x) = j - 1
      BY <1>6, <2>4
    <3> QED
      BY <2>1, <3>1
  <2> QED
    BY <1>7, <2>3, <2>4
<1> QED
  BY <1>7, <1>8 DEF ListsOnce

LEMMA IntegersOnce ==
  ASSUME NEW S \in SUBSET Int, IsFiniteSet(S)
  PROVE  ListsOnce(InOrder(S, Less), S)
<1>0. PICK R : R = {p \in S \X S : Less(p[1], p[2])}
  OBVIOUS
<1>1. \A x, y \in S : <<x, y>> \in R <=> Less(x, y)
  BY <1>0
<1>2. Orders(R, S)
  BY <1>1 DEF Orders, Less
<1>3. \A x \in S : {y \in S : <<y, x>> \in R} = {y \in S : Less(y, x)}
  BY <1>1
<1>4. \A x \in S : Before(S, R, x) = Cardinality({y \in S : Less(y, x)})
  BY <1>3 DEF Before
<1>5. PICK N : N = Cardinality(S)
  OBVIOUS
<1> DEFINE first(k) == CHOOSE x \in S : Cardinality({y \in S : Less(y, x)}) = k - 1
<1>6. \A k \in 1 .. N : \E x \in S : Cardinality({y \in S : Less(y, x)}) = k - 1
  <2>1. \A k \in 1 .. N : \E x \in S : Before(S, R, x) = k - 1
    BY <1>2, <1>5, PlacesInOrder DEF Before, Orders
  <2> QED
    BY <1>4, <2>1
<1>7. \A k \in 1 .. N : first(k) \in S /\ Cardinality({y \in S : Less(y, first(k))}) = k - 1
  BY <1>6
<1>8. InOrder(S, Less) = [k \in 1 .. N |-> first(k)]
  BY <1>5 DEF InOrder
<1> HIDE DEF first
<1>9. \A k \in 1 .. N : first(k) \in S /\ Before(S, R, first(k)) = k - 1
  BY <1>4, <1>7
<1>10. PICK s : s = InOrder(S, Less)
  OBVIOUS
<1>11. /\ DOMAIN s = 1 .. N /\ s = [k \in 1 .. N |-> s[k]]
       /\ \A k \in 1 .. N : s[k] \in S /\ Before(S, R, s[k]) = k - 1
  BY <1>8, <1>9, <1>10
<1>12. ListsOnce(s, S)
  BY <1>2, <1>5, <1>11, OrderedOnce
<1> QED
  BY <1>10, <1>12

LEMMA UsagesOnce ==
  ASSUME NEW S \in SUBSET Usages, IsFiniteSet(S)
  PROVE  ListsOnce(InOrder(S, UsageBefore), S)
<1>0. PICK R : R = {p \in S \X S : UsageBefore(p[1], p[2])}
  OBVIOUS
<1>1. \A x, y \in S : <<x, y>> \in R <=> UsageBefore(x, y)
  BY <1>0
<1>2. Orders(R, S)
  <2>1. \A x \in S : x.page \in Nat /\ x.usage \in Nat /\ x = [page |-> x.page, usage |-> x.usage]
    BY DEF Usages
  <2>2. \A x, y \in S : x # y => x.page # y.page \/ x.usage # y.usage
    BY <2>1
  <2> QED
    BY <1>1, <2>1, <2>2 DEF Orders, UsageBefore
<1>3. \A x \in S : {y \in S : <<y, x>> \in R} = {y \in S : UsageBefore(y, x)}
  BY <1>1
<1>4. \A x \in S : Before(S, R, x) = Cardinality({y \in S : UsageBefore(y, x)})
  BY <1>3 DEF Before
<1>5. PICK N : N = Cardinality(S)
  OBVIOUS
<1> DEFINE first(k) == CHOOSE x \in S : Cardinality({y \in S : UsageBefore(y, x)}) = k - 1
<1>6. \A k \in 1 .. N : \E x \in S : Cardinality({y \in S : UsageBefore(y, x)}) = k - 1
  <2>1. \A k \in 1 .. N : \E x \in S : Before(S, R, x) = k - 1
    BY <1>2, <1>5, PlacesInOrder DEF Before, Orders
  <2> QED
    BY <1>4, <2>1
<1>7. \A k \in 1 .. N : first(k) \in S /\ Cardinality({y \in S : UsageBefore(y, first(k))}) = k - 1
  BY <1>6
<1>8. InOrder(S, UsageBefore) = [k \in 1 .. N |-> first(k)]
  BY <1>5 DEF InOrder
<1> HIDE DEF first
<1>9. \A k \in 1 .. N : first(k) \in S /\ Before(S, R, first(k)) = k - 1
  BY <1>4, <1>7
<1>10. PICK s : s = InOrder(S, UsageBefore)
  OBVIOUS
<1>11. /\ DOMAIN s = 1 .. N /\ s = [k \in 1 .. N |-> s[k]]
       /\ \A k \in 1 .. N : s[k] \in S /\ Before(S, R, s[k]) = k - 1
  BY <1>8, <1>9, <1>10
<1>12. ListsOnce(s, S)
  BY <1>2, <1>5, <1>11, OrderedOnce
<1> QED
  BY <1>10, <1>12

\* Two sequences that are chosen from at the same places have as many elements chosen.
LEMMA ChosenAlike ==
  ASSUME NEW T, NEW s \in Seq(T), NEW U, NEW t \in Seq(U), NEW n, n = Len(s), n = Len(t),
         NEW S, NEW R, \A i \in 1 .. n : s[i] \in S <=> t[i] \in R
  PROVE  Len(Chosen(s, S)) = Len(Chosen(t, R))
<1>1. n \in Nat /\ DOMAIN s = 1 .. n /\ DOMAIN t = 1 .. n /\ \A i \in 1 .. n : s[i] \in T /\ t[i] \in U
  BY LenProperties
<1>2. PICK a, b : a = ChosenLists(s, S) /\ b = ChosenLists(t, R)
  OBVIOUS
<1>3. /\ a \in Seq(Seq(T)) /\ Len(a) = n /\ Chosen(s, S) = FlattenSeq(a)
      /\ \A i \in 1 .. n : a[i] = IF s[i] \in S THEN <<s[i]>> ELSE <<>>
  <2>1. /\ a \in Seq(Seq(T)) /\ DOMAIN a = DOMAIN s /\ Chosen(s, S) = FlattenSeq(a)
        /\ \A i \in DOMAIN s : a[i] = IF s[i] \in S THEN <<s[i]>> ELSE <<>>
    BY <1>2, ChosenListsType
  <2>2. Len(a) = n
    BY <1>1, <2>1, LenProperties
  <2> QED
    BY <1>1, <2>1, <2>2
<1>4. /\ b \in Seq(Seq(U)) /\ Len(b) = n /\ Chosen(t, R) = FlattenSeq(b)
      /\ \A i \in 1 .. n : b[i] = IF t[i] \in R THEN <<t[i]>> ELSE <<>>
  <2>1. /\ b \in Seq(Seq(U)) /\ DOMAIN b = DOMAIN t /\ Chosen(t, R) = FlattenSeq(b)
        /\ \A i \in DOMAIN t : b[i] = IF t[i] \in R THEN <<t[i]>> ELSE <<>>
    BY <1>2, ChosenListsType
  <2>2. Len(b) = n
    BY <1>1, <2>1, LenProperties
  <2> QED
    BY <1>1, <2>1, <2>2
<1>5. PICK f : /\ f \in [0 .. n -> Seq(T)] /\ f[0] = <<>>
               /\ \A k \in 1 .. n : f[k] = f[k - 1] \o a[k]
               /\ FlattenSeq(a) = f[n]
  <2>1. \E f : /\ f \in [0 .. Len(a) -> Seq(T)] /\ f[0] = <<>>
               /\ \A k \in 1 .. Len(a) : f[k] = f[k - 1] \o a[k]
               /\ FlattenSeq(a) = f[Len(a)]
    BY <1>3, FlattenPrefixes
  <2> QED
    BY <1>3, <2>1
<1>6. PICK g : /\ g \in [0 .. n -> Seq(U)] /\ g[0] = <<>>
               /\ \A k \in 1 .. n : g[k] = g[k - 1] \o b[k]
               /\ FlattenSeq(b) = g[n]
  <2>1. \E g : /\ g \in [0 .. Len(b) -> Seq(U)] /\ g[0] = <<>>
               /\ \A k \in 1 .. Len(b) : g[k] = g[k - 1] \o b[k]
               /\ FlattenSeq(b) = g[Len(b)]
    BY <1>4, FlattenPrefixes
  <2> QED
    BY <1>4, <2>1
<1> DEFINE V == {k \in Nat : k <= n => Len(f[k]) = Len(g[k])}
<1>7. 0 \in V
  BY <1>5, <1>6
<1>8. ASSUME NEW k \in Nat, k \in V PROVE k + 1 \in V
  <2> PICK l : l = k + 1
    OBVIOUS
  <2> SUFFICES ASSUME l <= n PROVE Len(f[l]) = Len(g[l])
    OBVIOUS
  <2>1. l \in 1 .. n /\ l - 1 = k /\ k <= n /\ k \in 0 .. n
    BY <1>1
  <2>2. f[l] = f[k] \o a[l] /\ g[l] = g[k] \o b[l] /\ Len(f[k]) = Len(g[k])
    BY <1>5, <1>6, <1>8, <2>1
  <2>3. f[k] \in Seq(T) /\ g[k] \in Seq(U) /\ a[l] \in Seq(T) /\ b[l] \in Seq(U)
    <3>1. f[k] \in Seq(T) /\ g[k] \in Seq(U)
      BY <1>5, <1>6, <2>1
    <3>2. a[l] \in Seq(T) /\ b[l] \in Seq(U)
      BY <1>3, <1>4, <2>1, LenProperties
    <3> QED
      BY <3>1, <3>2
  <2>4. Len(f[l]) = Len(f[k]) + Len(a[l]) /\ Len(g[l]) = Len(g[k]) + Len(b[l])
    <3>1. Len(f[k] \o a[l]) = Len(f[k]) + Len(a[l])
      BY <2>3, ConcatProperties
    <3>2. Len(g[k] \o b[l]) = Len(g[k]) + Len(b[l])
      BY <2>3, ConcatProperties
    <3> QED
      BY <2>2, <3>1, <3>2, Zenon
  <2>5. Len(a[l]) = Len(b[l])
    <3>1. CASE s[l] \in S
      <4>1. a[l] = <<s[l]>> /\ b[l] = <<t[l]>>
        BY <1>3, <1>4, <2>1, <3>1
      <4>2. Len(<<s[l]>>) = 1 /\ Len(<<t[l]>>) = 1
        OBVIOUS
      <4> QED
        BY <4>1, <4>2
    <3>2. CASE s[l] \notin S
      <4>1. a[l] = <<>> /\ b[l] = <<>>
        BY <1>3, <1>4, <2>1, <3>2
      <4> QED
        BY <4>1
    <3> QED
      BY <3>1, <3>2
  <2> QED
    BY <2>2, <2>4, <2>5
<1> HIDE DEF V
<1>9. \A k \in Nat : k \in V
  BY <1>7, <1>8, Induction
<1>10. Len(f[n]) = Len(g[n])
  BY <1>1, <1>9 DEF V
<1> QED
  BY <1>3, <1>4, <1>5, <1>6, <1>10

\* How often a bag has an element.
Copies(u, bag) == IF u \in DOMAIN bag THEN bag[u] ELSE 0

LEMMA EntriesCount ==
  ASSUME NEW bag, UsageBag(bag), NEW u
  PROVE  Len(Chosen(Entries(bag), {u})) = Copies(u, bag)
<1> DEFINE usages == InOrder(BagToSet(bag), UsageBefore)
           lists  == [i \in DOMAIN usages |-> [n \in 1 .. bag[usages[i]] |-> usages[i]]]
<1>0. PICK D : D = DOMAIN bag
  OBVIOUS
<1>1. BagToSet(bag) = D /\ D \in SUBSET Usages /\ IsFiniteSet(D)
  BY <1>0 DEF UsageBag, BagToSet, GivenUsages
<1>2. ListsOnce(usages, D)
  BY <1>1, UsagesOnce
<1>3. Entries(bag) = FlattenSeq(lists)
  BY DEF Entries
<1>5. \A v \in D : bag[v] \in Nat
  BY <1>0, <1>1 DEF UsageBag, IsABag
<1> HIDE DEF usages
<1>4. /\ Len(usages) \in Nat /\ DOMAIN usages = 1 .. Len(usages) /\ \A i \in DOMAIN usages : usages[i] \in D
      /\ usages \in Seq(D)
  BY <1>2, LenProperties DEF ListsOnce
<1>6. ASSUME NEW i \in DOMAIN usages
      PROVE  /\ lists[i] \in Seq(D) /\ Len(lists[i]) = bag[usages[i]]
             /\ \A x \in DOMAIN lists[i] : lists[i][x] = usages[i]
  <2>1. bag[usages[i]] \in Nat /\ usages[i] \in D
    BY <1>4, <1>5
  <2>2. lists[i] \in [1 .. bag[usages[i]] -> D] /\ \A x \in DOMAIN lists[i] : lists[i][x] = usages[i]
    BY <2>1
  <2> HIDE DEF lists
  <2>3. lists[i] \in Seq(D)
    BY <2>1, <2>2, SeqDef
  <2>4. Len(lists[i]) = bag[usages[i]]
    BY <2>1, <2>2, <2>3, LenProperties
  <2> QED
    BY <2>2, <2>3, <2>4
<1>7. lists \in [1 .. Len(usages) -> Seq(D)] /\ DOMAIN lists = DOMAIN usages
  BY <1>4, <1>6
<1> HIDE DEF lists
<1>8. lists \in Seq(Seq(D))
  BY <1>4, <1>7, SeqDef
<1>9. CASE u \in D
  <2>1. PICK i \in DOMAIN usages : usages[i] = u /\ \A j \in DOMAIN usages : usages[j] = u => j = i
    BY <1>2, <1>9 DEF ListsOnce
  <2>2. \A j \in DOMAIN lists : j # i => \A x \in DOMAIN lists[j] : lists[j][x] \notin {u}
    BY <1>6, <1>7, <2>1
  <2>3. Chosen(FlattenSeq(lists), {u}) = Chosen(lists[i], {u})
    <3>1. i \in DOMAIN lists
      BY <1>7, <2>1
    <3> QED
      BY <1>8, <2>2, <3>1, ChosenFlat
  <2>4. Chosen(lists[i], {u}) = lists[i]
    BY <1>6, <2>1, ChosenAll
  <2>5. Len(lists[i]) = bag[u]
    BY <1>6, <2>1
  <2> QED
    BY <1>0, <1>3, <1>9, <2>3, <2>4, <2>5 DEF Copies
<1>10. CASE u \notin D
  <2>1. Entries(bag) \in Seq(D)
    BY <1>0, EntriesOf
  <2>2. \A i \in DOMAIN Entries(bag) : Entries(bag)[i] \notin {u}
    BY <1>10, <2>1, LenProperties
  <2>3. Chosen(Entries(bag), {u}) = <<>>
    BY <2>1, <2>2, ChosenNone
  <2> QED
    BY <1>0, <1>10, <2>3 DEF Copies
<1> QED
  BY <1>9, <1>10

LEMMA CopiesDiffer ==
  ASSUME NEW a, NEW b, UsageBag(a), UsageBag(b), NEW u
  PROVE  /\ Copies(u, a) \in Nat /\ Copies(u, b) \in Nat
         /\ Copies(u, a (-) b) \in Nat /\ Copies(u, b (-) a) \in Nat
         /\ Copies(u, a (-) b) - Copies(u, b (-) a) = Copies(u, a) - Copies(u, b)
<1>1. /\ \A e \in DOMAIN a : a[e] \in Nat /\ a[e] > 0
      /\ \A e \in DOMAIN b : b[e] \in Nat /\ b[e] > 0
  BY DEF UsageBag, IsABag
<1>2. ASSUME NEW x, NEW y,
             \A e \in DOMAIN x : x[e] \in Nat /\ x[e] > 0, \A e \in DOMAIN y : y[e] \in Nat /\ y[e] > 0
      PROVE  /\ Copies(u, x) \in Nat
             /\ Copies(u, x (-) y) = IF Copies(u, x) > Copies(u, y) THEN Copies(u, x) - Copies(u, y) ELSE 0
  <2>1. Copies(u, x) \in Nat
    BY <1>2 DEF Copies
  <2>2. CASE u \in DOMAIN x
    BY <1>2, <2>2 DEF Copies, (-)
  <2>3. CASE u \notin DOMAIN x
    <3>1. u \notin DOMAIN (x (-) y)
      BY <2>3 DEF (-)
    <3>2. Copies(u, x) = 0 /\ Copies(u, x (-) y) = 0 /\ Copies(u, y) \in Nat
      BY <1>2, <2>3, <3>1 DEF Copies
    <3> QED
      BY <3>2
  <2> QED
    BY <2>1, <2>2, <2>3
<1>3. /\ Copies(u, a) \in Nat /\ Copies(u, b) \in Nat
      /\ Copies(u, a (-) b) = IF Copies(u, a) > Copies(u, b) THEN Copies(u, a) - Copies(u, b) ELSE 0
      /\ Copies(u, b (-) a) = IF Copies(u, b) > Copies(u, a) THEN Copies(u, b) - Copies(u, a) ELSE 0
  BY <1>1, <1>2
<1> QED
  BY <1>3

LEMMA ChosenOnly ==
  ASSUME NEW T, NEW t \in Seq(T), NEW i \in DOMAIN t, NEW R, t[i] \in R,
         \A j \in DOMAIN t : j # i => t[j] \notin R
  PROVE  Chosen(t, R) = <<t[i]>>
<1> PICK lists : lists = ChosenLists(t, R)
  OBVIOUS
<1>1. /\ lists \in Seq(Seq(T)) /\ DOMAIN lists = DOMAIN t /\ Chosen(t, R) = FlattenSeq(lists)
      /\ \A j \in DOMAIN t : lists[j] = IF t[j] \in R THEN <<t[j]>> ELSE <<>>
  BY ChosenListsType
<1>2. i \in DOMAIN lists /\ lists[i] = <<t[i]>> /\ \A j \in DOMAIN lists : j # i => lists[j] = <<>>
  BY <1>1
<1>3. FlattenSeq(lists) = lists[i]
  BY <1>1, <1>2, FlattenOnly
<1> QED
  BY <1>1, <1>2, <1>3

-----------------------------------------------------------------------------
(* The values at a place of a report. *)

Sits(v, report_id, field_id) == v.report_id = report_id /\ v.field_id = field_id

ValuesAt(s, report_id, field_id) == Chosen(s, {v \in Range(s) : Sits(v, report_id, field_id)})

LEMMA ShownIs == \A r, p : ShownOf(r, p) = ValuesAt(shown, r, p) /\ ShownOf(r, p)' = ValuesAt(shown', r, p)
BY DEF ShownOf, ValuesAt, Sits

LEMMA ValuesAtIn ==
  ASSUME NEW T, NEW s \in Seq(T), NEW r, NEW p
  PROVE  ValuesAt(s, r, p) = Chosen(s, {v \in T : Sits(v, r, p)})
<1>1. \A i \in DOMAIN s : s[i] \in {v \in Range(s) : Sits(v, r, p)} <=> s[i] \in {v \in T : Sits(v, r, p)}
  <2> SUFFICES ASSUME NEW i \in DOMAIN s
               PROVE  s[i] \in {v \in Range(s) : Sits(v, r, p)} <=> s[i] \in {v \in T : Sits(v, r, p)}
    OBVIOUS
  <2>1. s[i] \in T /\ s[i] \in Range(s)
    BY LenProperties DEF Range
  <2> QED
    BY <2>1
<1> QED
  BY <1>1, ChosenSame DEF ValuesAt

LEMMA ValuesAtConcat ==
  ASSUME NEW T, NEW s \in Seq(T), NEW t \in Seq(T), NEW r, NEW p
  PROVE  ValuesAt(s \o t, r, p) = ValuesAt(s, r, p) \o ValuesAt(t, r, p)
<1> PICK R : R = {v \in T : Sits(v, r, p)}
  OBVIOUS
<1>1. s \o t \in Seq(T) /\ Chosen(s \o t, R) = Chosen(s, R) \o Chosen(t, R)
  BY ChosenConcat
<1>2. ASSUME NEW q \in Seq(T) PROVE ValuesAt(q, r, p) = Chosen(q, R)
  BY <1>2, ValuesAtIn
<1>3. ValuesAt(s \o t, r, p) = Chosen(s \o t, R)
  BY <1>1, <1>2
<1>4. ValuesAt(s, r, p) = Chosen(s, R) /\ ValuesAt(t, r, p) = Chosen(t, R)
  BY <1>2
<1> QED
  BY <1>1, <1>3, <1>4

LEMMA ValuesAtParts ==
  \A T : \A s, t \in Seq(T) : \A r, p : ValuesAt(s \o t, r, p) = ValuesAt(s, r, p) \o ValuesAt(t, r, p)
BY ValuesAtConcat

LEMMA ValuesAtNone ==
  ASSUME NEW T, NEW s \in Seq(T), NEW r, NEW p, \A i \in DOMAIN s : ~Sits(s[i], r, p)
  PROVE  ValuesAt(s, r, p) = <<>>
<1>1. \A i \in DOMAIN s : s[i] \notin {v \in Range(s) : Sits(v, r, p)}
  OBVIOUS
<1> QED
  BY <1>1, ChosenNone DEF ValuesAt

LEMMA ValuesAtFlat ==
  ASSUME NEW T, NEW lists \in Seq(Seq(T)), NEW i \in DOMAIN lists, NEW r, NEW p,
         \A j \in DOMAIN lists : j # i => \A x \in DOMAIN lists[j] : ~Sits(lists[j][x], r, p)
  PROVE  ValuesAt(FlattenSeq(lists), r, p) = ValuesAt(lists[i], r, p)
<1> PICK R : R = {v \in T : Sits(v, r, p)}
  OBVIOUS
<1>1. \A j \in DOMAIN lists : j # i => \A x \in DOMAIN lists[j] : lists[j][x] \notin R
  OBVIOUS
<1>2. FlattenSeq(lists) \in Seq(T) /\ Chosen(FlattenSeq(lists), R) = Chosen(lists[i], R)
  BY <1>1, ChosenFlat
<1>3. lists[i] \in Seq(T)
  BY LenProperties
<1>4. ValuesAt(FlattenSeq(lists), r, p) = Chosen(FlattenSeq(lists), R)
  BY <1>2, ValuesAtIn
<1>5. ValuesAt(lists[i], r, p) = Chosen(lists[i], R)
  BY <1>3, ValuesAtIn
<1> QED
  BY <1>2, <1>4, <1>5

-----------------------------------------------------------------------------
(* What one report shows of an element, and that boot values are past it. *)

\* What a report shows at the place of an element comes from the element's field.
LEMMA FieldShown ==
  ASSUME MapInv, FieldsSound, RuntimeTyped, NEW n \in Notifications, ParseInput(n), Decodes(n),
         NEW i \in DOMAIN fields_, NEW field, field = fields_[i], field.kind = "INPUT",
         field.global["REPORT_ID"] = ReportId(n), NEW k \in Elements(field), NEW r
  PROVE  ValuesAt(values', r, ElementOffset(field, k))
           = ValuesAt(FieldValues(field, n.payload), r, ElementOffset(field, k))
<1>1. PICK T : \E lists \in Seq(Seq(T)) :
        values' = FlattenSeq(lists) /\ ValuesOfItsOwn(lists, field, n.payload)
  BY DecodedField
<1>2. PICK lists \in Seq(Seq(T)) :
         values' = FlattenSeq(lists) /\ ValuesOfItsOwn(lists, field, n.payload)
  BY <1>1
<1>3. PICK p : p = ElementOffset(field, k)
  OBVIOUS
<1>4. PICK j \in DOMAIN lists :
        /\ lists[j] = FieldValues(field, n.payload)
        /\ \A l \in DOMAIN lists : l # j =>
             \A x \in DOMAIN lists[l] : \A e \in Elements(field) :
               lists[l][x].field_id # ElementOffset(field, e)
  BY <1>2 DEF ValuesOfItsOwn
<1>5. \A l \in DOMAIN lists : l # j => \A x \in DOMAIN lists[l] : ~Sits(lists[l][x], r, p)
  BY <1>3, <1>4 DEF Sits
<1>6. lists \in Seq(Seq(T))
  BY <1>2
<1>7. ValuesAt(FlattenSeq(lists), r, p) = ValuesAt(lists[j], r, p)
  BY <1>5, <1>6, ValuesAtFlat
<1> QED
  BY <1>2, <1>3, <1>4, <1>7

\* A report of another ID shows nothing there.
LEMMA OtherShown ==
  ASSUME MapInv, FieldsSound, RuntimeTyped, NEW n \in Notifications, ParseInput(n), Decodes(n),
         NEW id, id # ReportId(n), NEW p
  PROVE  ValuesAt(values', id, p) = <<>>
<1>1. PICK r \in DOMAIN reports_ : \E T : \E lists \in Seq(Seq(T)) :
           /\ reports_[r].kind = "INPUT" /\ reports_[r].report_id = ReportId(n)
           /\ values' = FlattenSeq(lists)
           /\ DOMAIN lists = 1 .. Len(reports_[r].field_ids)
           /\ \A k \in DOMAIN lists :
                lists[k] = FieldValues(fields_[reports_[r].field_ids[k] + 1], n.payload)
  BY DecodedValues
<1>2. PICK T : \E lists \in Seq(Seq(T)) :
           /\ reports_[r].kind = "INPUT" /\ reports_[r].report_id = ReportId(n)
           /\ values' = FlattenSeq(lists)
           /\ DOMAIN lists = 1 .. Len(reports_[r].field_ids)
           /\ \A k \in DOMAIN lists :
                lists[k] = FieldValues(fields_[reports_[r].field_ids[k] + 1], n.payload)
  BY <1>1
<1>3. PICK lists \in Seq(Seq(T)) :
           /\ reports_[r].kind = "INPUT" /\ reports_[r].report_id = ReportId(n)
           /\ values' = FlattenSeq(lists)
           /\ DOMAIN lists = 1 .. Len(reports_[r].field_ids)
           /\ \A k \in DOMAIN lists :
                lists[k] = FieldValues(fields_[reports_[r].field_ids[k] + 1], n.payload)
  BY <1>2
<1>4. PICK ids : ids = reports_[r].field_ids
  OBVIOUS
<1>5. \A l \in 1 .. Len(ids) :
        /\ ids[l] + 1 \in DOMAIN fields_ /\ fields_[ids[l] + 1].kind = "INPUT"
        /\ fields_[ids[l] + 1].global["REPORT_ID"] = ReportId(n)
  BY <1>3, <1>4, FieldsOfReport
<1>6. ASSUME NEW l \in DOMAIN lists, NEW x \in DOMAIN lists[l] PROVE ~Sits(lists[l][x], id, p)
  <2>1. PICK g \in DOMAIN fields_ :
          /\ fields_[g].global["REPORT_ID"] = ReportId(n)
          /\ lists[l] = FieldValues(fields_[g], n.payload)
    BY <1>3, <1>4, <1>5
  <2>2. x \in DOMAIN FieldValues(fields_[g], n.payload)
    BY <2>1
  <2>3. FieldValues(fields_[g], n.payload)[x].report_id = fields_[g].global["REPORT_ID"]
    BY <2>2, ValuePlaced
  <2> QED
    BY <2>1, <2>3 DEF Sits
<1>7. lists \in Seq(Seq(T)) /\ values' = FlattenSeq(lists)
  BY <1>3
<1>8. values' \in Seq(T) /\ Range(values') = UNION {Range(lists[j]) : j \in DOMAIN lists}
  BY <1>7, FlattenSeqType, FlattenRange
<1>9. ASSUME NEW i \in DOMAIN values' PROVE ~Sits(values'[i], id, p)
  <2>1. PICK v : v = values'[i]
    OBVIOUS
  <2>2. v \in Range(values')
    BY <2>1 DEF Range
  <2>3. PICK l \in DOMAIN lists : v \in Range(lists[l])
    BY <1>8, <2>2
  <2>4. PICK x \in DOMAIN lists[l] : v = lists[l][x]
    BY <2>3 DEF Range
  <2> QED
    BY <1>6, <2>1, <2>4
<1> QED
  BY <1>8, <1>9, ValuesAtNone

LEMMA NotDecoded ==
  ASSUME NEW n, ParseInput(n), ~Decodes(n)
  PROVE  values' = <<>>
<1>1. [i \in DOMAIN <<>> |-> FieldValues(<<>>[i], n.payload)] = <<>>
  BY EmptySeq
<1>2. values' = FlattenSeq(<<>>)
  BY <1>1 DEF ParseInput, Decodes
<1>3. <<>> \in Seq(Seq({}))
  BY EmptySeq
<1>4. FlattenSeq(<<>>) \in Seq({})
  BY <1>3, FlattenSeqType
<1>5. PICK s \in Seq({}) : s = FlattenSeq(<<>>)
  BY <1>4
<1>6. Len(s) \in Nat /\ \A i \in 1 .. Len(s) : s[i] \in {}
  BY LenProperties
<1>7. ~(1 \in 1 .. Len(s))
  BY <1>6
<1>8. Len(s) = 0
  BY <1>6, <1>7
<1> QED
  BY <1>2, <1>5, <1>8, EmptySeq

-----------------------------------------------------------------------------
(* The values of boot reports. *)

\* The values that the changed bits of a byte show.
ShowsBits(all, changed, n, byte, before, count, page, usage, field_id) ==
  /\ ListsOnce(changed, {b \in 0 .. count - 1 : IsSet(byte, b) # IsSet(before, b)})
  /\ IsSequence(all) /\ DOMAIN all = DOMAIN changed
  /\ \A i \in DOMAIN changed :
       /\ changed[i] \in 0 .. count - 1
       /\ all[i] = BootValue(n, page, usage + changed[i], IF IsSet(byte, changed[i]) THEN 1 ELSE 0,
                             field_id + changed[i])

LEMMA BitChangesAre ==
  ASSUME NEW n, NEW byte, NEW before, NEW count \in Nat, NEW page, NEW usage \in Nat,
         NEW field_id \in Nat
  PROVE  \E changed : \E all :
           /\ all = BitChanges(n, byte, before, count, page, usage, field_id)
           /\ ShowsBits(all, changed, n, byte, before, count, page, usage, field_id)
<1> DEFINE S       == {b \in 0 .. count - 1 : IsSet(byte, b) # IsSet(before, b)}
           changed == InOrder(S, Less)
           all     == [i \in DOMAIN changed |->
                         BootValue(n, page, usage + changed[i], IF IsSet(byte, changed[i]) THEN 1 ELSE 0,
                                   field_id + changed[i])]
<1>1. S \in SUBSET (0 .. count - 1)
  OBVIOUS
<1>2. BitChanges(n, byte, before, count, page, usage, field_id) = all
  BY DEF BitChanges
<1> HIDE DEF S
<1>3. IsFiniteSet(S) /\ S \in SUBSET Int
  <2> DEFINE top == count - 1
  <2>1. 0 \in Int /\ top \in Int /\ S \in SUBSET (0 .. top)
    BY <1>1
  <2> HIDE DEF top, changed, all
  <2> QED
    BY <1>1, <2>1, FiniteInterval
<1>4. ListsOnce(changed, S)
  BY <1>3, IntegersOnce
<1> HIDE DEF changed
<1>5. changed \in Seq(S) /\ IsSequence(changed) /\ \A i \in DOMAIN changed : changed[i] \in S
  BY <1>4, SequenceOfItself, ElementOfSeq, LenProperties DEF ListsOnce
<1>6. \A i \in DOMAIN changed : changed[i] \in 0 .. count - 1
  BY <1>1, <1>5
<1>7. all = [i \in DOMAIN changed |-> all[i]] /\ DOMAIN all = DOMAIN changed
  OBVIOUS
<1>8. \A i \in DOMAIN changed :
        all[i] = BootValue(n, page, usage + changed[i], IF IsSet(byte, changed[i]) THEN 1 ELSE 0,
                           field_id + changed[i])
  OBVIOUS
<1> HIDE DEF all
<1>9. IsSequence(all)
  BY <1>5, <1>7, MappedSeq
<1> WITNESS changed, all
<1> QED
  BY <1>2, <1>4, <1>6, <1>7, <1>8, <1>9 DEF S, ShowsBits

LEMMA KeyChangesAre ==
  ASSUME NEW n, NEW keys \in SUBSET (1 .. 231), NEW value
  PROVE  \E sorted : \E all :
           /\ all = KeyChanges(n, keys, value)
           /\ ListsOnce(sorted, keys)
           /\ IsSequence(all) /\ DOMAIN all = DOMAIN sorted
           /\ \A i \in DOMAIN sorted :
                sorted[i] \in keys /\ all[i] = BootValue(n, 7, sorted[i], value, 61952)
<1> DEFINE sorted == InOrder(keys, Less)
           all    == [i \in DOMAIN sorted |-> BootValue(n, 7, sorted[i], value, 61952)]
<1>1. IsFiniteSet(keys) /\ keys \in SUBSET Int
  <2>1. 1 \in Int /\ 231 \in Int
    OBVIOUS
  <2> HIDE DEF sorted
  <2> QED
    BY <2>1, FiniteInterval
<1>2. KeyChanges(n, keys, value) = all
  BY DEF KeyChanges
<1>3. ListsOnce(sorted, keys)
  BY <1>1, IntegersOnce
<1> HIDE DEF sorted
<1>4. IsSequence(sorted) /\ \A i \in DOMAIN sorted : sorted[i] \in keys
  BY <1>3, SequenceOfItself, ElementOfSeq, LenProperties DEF ListsOnce
<1>5. all = [i \in DOMAIN sorted |-> all[i]] /\ DOMAIN all = DOMAIN sorted
  OBVIOUS
<1>6. \A i \in DOMAIN sorted : all[i] = BootValue(n, 7, sorted[i], value, 61952)
  OBVIOUS
<1> HIDE DEF all
<1>7. IsSequence(all)
  BY <1>4, <1>5, MappedSeq
<1> WITNESS sorted, all
<1> QED
  BY <1>2, <1>3, <1>4, <1>5, <1>6, <1>7

\* The places of boot values are past those of every element (MaxReportBits).
Past(v) == v.field_id \in Nat /\ v.field_id >= 61440

AllPast(s) == IsSequence(s) /\ \A i \in DOMAIN s : Past(s[i])

LEMMA PastInSeq ==
  ASSUME NEW s
  PROVE  AllPast(s) <=> \E S : s \in Seq(S) /\ \A v \in S : Past(v)
<1>1. ASSUME AllPast(s) PROVE \E S : s \in Seq(S) /\ \A v \in S : Past(v)
  <2>1. s \in Seq({s[i] : i \in DOMAIN s}) /\ \A v \in {s[i] : i \in DOMAIN s} : Past(v)
    BY <1>1 DEF AllPast, IsSequence
  <2> QED
    BY <2>1
<1>2. ASSUME NEW S, s \in Seq(S), \A v \in S : Past(v) PROVE AllPast(s)
  <2>1. \A i \in DOMAIN s : s[i] \in S
    BY <1>2, ElementOfSeq, LenProperties
  <2> QED
    BY <1>2, <2>1, SequenceOfItself DEF AllPast
<1> QED
  BY <1>1, <1>2

LEMMA PastEmpty == AllPast(<<>>)
<1>1. <<>> \in Seq({}) /\ DOMAIN <<>> = {}
  BY EmptySeq
<1> QED
  BY <1>1, SequenceOfItself DEF AllPast

LEMMA PastOne ==
  ASSUME NEW v, Past(v)
  PROVE  AllPast(<<v>>)
<1>1. <<v>> \in Seq({v}) /\ DOMAIN <<v>> = {1} /\ <<v>>[1] = v
  BY SingleSeq
<1> QED
  BY <1>1, SequenceOfItself DEF AllPast

LEMMA PastConcat ==
  ASSUME NEW s, AllPast(s), NEW t, AllPast(t)
  PROVE  AllPast(s \o t)
<1>1. PICK S : s \in Seq(S) /\ \A v \in S : Past(v)
  BY PastInSeq
<1>2. PICK T : t \in Seq(T) /\ \A v \in T : Past(v)
  BY PastInSeq
<1>3. s \in Seq(S \cup T) /\ t \in Seq(S \cup T)
  BY <1>1, <1>2, SeqMonotonic
<1>4. s \o t \in Seq(S \cup T)
  BY <1>3, ConcatProperties
<1>5. \A v \in S \cup T : Past(v)
  BY <1>1, <1>2
<1>6. \E U : s \o t \in Seq(U) /\ \A v \in U : Past(v)
  BY <1>4, <1>5
<1> QED
  BY <1>6, PastInSeq

LEMMA BitsPast ==
  ASSUME NEW n, NEW byte, NEW before, NEW count \in Nat, NEW page, NEW usage \in Nat,
         NEW field_id \in Nat, field_id >= 61440
  PROVE  AllPast(BitChanges(n, byte, before, count, page, usage, field_id))
<1>1. PICK changed, all :
        /\ all = BitChanges(n, byte, before, count, page, usage, field_id)
        /\ ShowsBits(all, changed, n, byte, before, count, page, usage, field_id)
  BY BitChangesAre
<1>2. \A p, u, v, f : BootValue(n, p, u, v, f).field_id = f
  BY DEF BootValue, ItemValue
<1>3. ASSUME NEW i \in DOMAIN all PROVE Past(all[i])
  <2>1. changed[i] \in Nat /\ all[i].field_id = field_id + changed[i]
    BY <1>1, <1>2 DEF ShowsBits
  <2> QED
    BY <2>1 DEF Past
<1> QED
  BY <1>1, <1>3 DEF AllPast, ShowsBits

LEMMA KeysPast ==
  ASSUME NEW n, NEW keys \in SUBSET (1 .. 231), NEW value
  PROVE  AllPast(KeyChanges(n, keys, value))
<1>1. PICK sorted, all :
           /\ all = KeyChanges(n, keys, value)
           /\ ListsOnce(sorted, keys)
           /\ IsSequence(all) /\ DOMAIN all = DOMAIN sorted
           /\ \A i \in DOMAIN sorted :
                sorted[i] \in keys /\ all[i] = BootValue(n, 7, sorted[i], value, 61952)
  BY KeyChangesAre
<1>2. \A p, u, v, f : BootValue(n, p, u, v, f).field_id = f
  BY DEF BootValue, ItemValue
<1>3. \A i \in DOMAIN all : Past(all[i])
  BY <1>1, <1>2 DEF Past
<1> QED
  BY <1>1, <1>3 DEF AllPast

LEMMA MovedPast ==
  ASSUME NEW n, NEW byte, NEW usage, NEW field_id \in Nat, field_id >= 61440
  PROVE  AllPast(Moved(n, byte, usage, field_id))
<1>1. PICK v : v = BootValue(n, 1, usage, Signed8(byte), field_id)
  OBVIOUS
<1>2. Past(v)
  BY <1>1 DEF BootValue, ItemValue, Past
<1> QED
  BY <1>1, <1>2, PastEmpty, PastOne DEF Moved

LEMMA BootPast ==
  ASSUME boot_decoder_ \in [Handles -> BootStates], NEW n \in Notifications,
         n.characteristic # "REPORT", DecodeBoot(n)
  PROVE  AllPast(values')
<1>0. n.handle \in Handles
  BY DEF Handles
<1>1. CASE values' = <<>>
  BY <1>1, PastEmpty
<1>2. CASE BootMouse(n)
  <2> DEFINE buttons == BitChanges(n, n.payload[1], boot_decoder_[n.handle].buttons, 3, 9, 1, 61440)
             x       == Moved(n, n.payload[2], 48, 61456)
             y       == Moved(n, n.payload[3], 49, 61457)
  <2>1. values' = buttons \o x \o y
    BY <1>2 DEF BootMouse
  <2>2. AllPast(buttons) /\ AllPast(x) /\ AllPast(y)
    BY BitsPast, MovedPast
  <2> HIDE DEF buttons, x, y
  <2>3. AllPast(buttons \o x)
    BY <2>2, PastConcat
  <2>4. AllPast((buttons \o x) \o y)
    BY <2>2, <2>3, PastConcat
  <2> QED
    BY <2>1, <2>4
<1>3. CASE BootKeyboard(n)
  <2> DEFINE held == {n.payload[i] : i \in 3 .. 8} \cap 1 .. 231
             was  == boot_decoder_[n.handle].keys
             modifiers == BitChanges(n, n.payload[1], boot_decoder_[n.handle].modifiers, 8, 7, 224, 61696)
             pressed   == KeyChanges(n, held \ was, 1)
             released  == KeyChanges(n, was \ held, 0)
  <2>1. values' = modifiers \o pressed \o released
    BY <1>3 DEF BootKeyboard
  <2>2. was \in SUBSET (1 .. 231) /\ held \in SUBSET (1 .. 231)
    BY <1>0 DEF BootStates
  <2> HIDE DEF held, was
  <2>3. AllPast(modifiers)
    BY BitsPast
  <2>4. AllPast(pressed) /\ AllPast(released)
    BY <2>2, KeysPast
  <2> HIDE DEF modifiers, pressed, released
  <2>5. AllPast(modifiers \o pressed)
    BY <2>3, <2>4, PastConcat
  <2>6. AllPast((modifiers \o pressed) \o released)
    BY <2>4, <2>5, PastConcat
  <2> QED
    BY <2>1, <2>6
<1> QED
  BY <1>1, <1>2, <1>3 DEF DecodeBoot

\* What a report of the peripheral adds to what was shown of an element.
Added(n, field, k) ==
  IF n \in CompleteFor(field)
  THEN ValuesAt(FieldValues(field, n.payload), field.global["REPORT_ID"], ElementOffset(field, k))
  ELSE <<>>

LEMMA ShownParts ==
  ASSUME NEW s, NamedValues(s), NEW t, NamedValues(t)
  PROVE  \A r, p :
           /\ ValuesAt(s \o t, r, p) = ValuesAt(s, r, p) \o ValuesAt(t, r, p)
           /\ \E U : ValuesAt(s, r, p) \in Seq(U) /\ ValuesAt(t, r, p) \in Seq(U)
<1>1. PICK A : s \in Seq(A)
  BY NamedInSeq
<1>2. PICK B : t \in Seq(B)
  BY NamedInSeq
<1>3. PICK T : s \in Seq(T) /\ t \in Seq(T)
  <2>1. s \in Seq(A \cup B) /\ t \in Seq(A \cup B)
    BY <1>1, <1>2, SeqMonotonic
  <2> QED
    BY <2>1
<1>4. ASSUME NEW r, NEW p PROVE ValuesAt(s, r, p) \in Seq(T) /\ ValuesAt(t, r, p) \in Seq(T)
  BY <1>3, ChosenType DEF ValuesAt
<1>5. ASSUME NEW r, NEW p PROVE ValuesAt(s \o t, r, p) = ValuesAt(s, r, p) \o ValuesAt(t, r, p)
  BY <1>3, ValuesAtConcat
<1> QED
  BY <1>4, <1>5

LEMMA ShownAfter ==
  ASSUME MapInv, ParserTypeOK, DecoderInv, phase = "VALID", NEW n \in Notifications, ProcessInputReport(n),
         NEW i \in DOMAIN fields_, NEW field, field = fields_[i], field.kind = "INPUT",
         NEW k \in Elements(field), NEW id, id = field.global["REPORT_ID"], NEW p, p = ElementOffset(field, k)
  PROVE  /\ ShownOf(id, p)' = ShownOf(id, p) \o Added(n, field, k)
         /\ \E T : ShownOf(id, p) \in Seq(T) /\ Added(n, field, k) \in Seq(T)
<1>1. /\ FieldsSound /\ RuntimeTyped /\ boot_decoder_ \in [Handles -> BootStates] /\ NamedValues(shown)
      /\ shown' = shown \o values'
  BY FieldsAreSound DEF DecoderInv, ProcessInputReport
<1>2. NamedValues(values')
  <2>1. CASE n.characteristic = "REPORT"
    BY <1>1, <2>1, InputNamed DEF ProcessInputReport
  <2>2. CASE n.characteristic # "REPORT"
    BY <1>1, <2>2, BootKeeps DEF ProcessInputReport
  <2> QED
    BY <2>1, <2>2
<1>3. PICK T : values' \in Seq(T)
  BY <1>2, NamedInSeq
<1>4. /\ ValuesAt(shown', id, p) = ValuesAt(shown, id, p) \o ValuesAt(values', id, p)
      /\ \E U : ValuesAt(shown, id, p) \in Seq(U) /\ ValuesAt(values', id, p) \in Seq(U)
  <2>1. NamedValues(shown) /\ NamedValues(values')
    BY <1>1, <1>2
  <2>2. \A r, q :
           /\ ValuesAt(shown \o values', r, q) = ValuesAt(shown, r, q) \o ValuesAt(values', r, q)
           /\ \E U : ValuesAt(shown, r, q) \in Seq(U) /\ ValuesAt(values', r, q) \in Seq(U)
    BY <2>1, ShownParts
  <2>3. /\ ValuesAt(shown \o values', id, p) = ValuesAt(shown, id, p) \o ValuesAt(values', id, p)
        /\ \E U : ValuesAt(shown, id, p) \in Seq(U) /\ ValuesAt(values', id, p) \in Seq(U)
    BY <2>2
  <2> QED
    BY <1>1, <2>3
<1>5. ValuesAt(values', id, p) = Added(n, field, k)
  <2>1. CASE n.characteristic # "REPORT"
    <3>1. AllPast(values')
      BY <1>1, <2>1, BootPast DEF ProcessInputReport
    <3>2. p \in Int /\ p < 61440
      <4>1. p \in Int /\ p < MaxReportBits
        BY <1>1, ElementBelowLimit
      <4>2. MaxReportBits \in Nat /\ MaxReportBits <= 61440
        BY ReportMapAssumption, DecoderAssumption
      <4> QED
        BY <4>1, <4>2
    <3>3. \A j \in DOMAIN values' : ~Sits(values'[j], id, p)
      BY <3>1, <3>2 DEF AllPast, Past, Sits
    <3>4. ValuesAt(values', id, p) = <<>>
      BY <1>3, <3>3, ValuesAtNone
    <3> QED
      BY <2>1, <3>4 DEF Added, CompleteFor
  <2>2. CASE n.characteristic = "REPORT"
    <3>1. ParseInput(n)
      BY <2>2 DEF ProcessInputReport
    <3>2. n \in CompleteFor(field) <=> Decodes(n) /\ id = ReportId(n)
      BY <2>2, FieldDecoded
    <3>3. CASE ~Decodes(n)
      <4>1. values' = <<>>
        BY <3>1, <3>3, NotDecoded
      <4>2. ValuesAt(values', id, p) = <<>>
        <5>1. \A j \in DOMAIN values' : ~Sits(values'[j], id, p)
          BY <4>1, EmptySeq
        <5> QED
          BY <1>3, <5>1, ValuesAtNone
      <4> QED
        BY <3>2, <3>3, <4>2 DEF Added
    <3>4. CASE Decodes(n) /\ id # ReportId(n)
      <4>1. ValuesAt(values', id, p) = <<>>
        BY <1>1, <3>1, <3>4, OtherShown
      <4> QED
        BY <3>2, <3>4, <4>1 DEF Added
    <3>5. CASE Decodes(n) /\ id = ReportId(n)
      <4>1. ValuesAt(values', id, p) = ValuesAt(FieldValues(field, n.payload), id, p)
        BY <1>1, <3>1, <3>5, FieldShown
      <4> QED
        BY <3>2, <3>5, <4>1 DEF Added
    <3> QED
      BY <3>3, <3>4, <3>5
  <2> QED
    BY <2>1, <2>2
<1> QED
  BY <1>4, <1>5, ShownIs

-----------------------------------------------------------------------------
(* Array fields: counted asserts less counted releases are what is held. *)

Says(e, u, value) == e.usage = u /\ e.value = value

\* How many values of a usage there are.
Count(s, u, value) == Len(Chosen(s, {e \in Range(s) : Says(e, u, value)}))

LEMMA CountIn ==
  ASSUME NEW T, NEW s \in Seq(T), NEW u, NEW value
  PROVE  Count(s, u, value) = Len(Chosen(s, {e \in T : Says(e, u, value)})) /\ Count(s, u, value) \in Nat
<1>1. \A i \in DOMAIN s : s[i] \in {e \in Range(s) : Says(e, u, value)} <=> s[i] \in {e \in T : Says(e, u, value)}
  <2> SUFFICES ASSUME NEW i \in DOMAIN s
               PROVE  s[i] \in {e \in Range(s) : Says(e, u, value)} <=> s[i] \in {e \in T : Says(e, u, value)}
    OBVIOUS
  <2>1. s[i] \in T /\ s[i] \in Range(s)
    BY LenProperties DEF Range
  <2> QED
    BY <2>1
<1>2. Chosen(s, {e \in Range(s) : Says(e, u, value)}) = Chosen(s, {e \in T : Says(e, u, value)})
  BY <1>1, ChosenSame
<1>3. Chosen(s, {e \in T : Says(e, u, value)}) \in Seq(T)
  BY ChosenType
<1> QED
  BY <1>2, <1>3, LenProperties DEF Count

LEMMA CountParts ==
  ASSUME NEW T, NEW s \in Seq(T), NEW t \in Seq(T), NEW u, NEW value
  PROVE  Count(s \o t, u, value) = Count(s, u, value) + Count(t, u, value)
<1>0. PICK R : R = {e \in T : Says(e, u, value)}
  OBVIOUS
<1>1. s \o t \in Seq(T) /\ Chosen(s \o t, R) = Chosen(s, R) \o Chosen(t, R)
  BY ChosenConcat
<1>2. ASSUME NEW q \in Seq(T) PROVE Count(q, u, value) = Len(Chosen(q, R))
  BY <1>0, <1>2, CountIn
<1>3. Chosen(s, R) \in Seq(T) /\ Chosen(t, R) \in Seq(T)
  BY ChosenType
<1>4. Len(Chosen(s, R) \o Chosen(t, R)) = Len(Chosen(s, R)) + Len(Chosen(t, R))
  BY <1>3, ConcatProperties
<1>5. Count(s \o t, u, value) = Len(Chosen(s \o t, R))
  BY <1>1, <1>2
<1>6. Count(s, u, value) = Len(Chosen(s, R)) /\ Count(t, u, value) = Len(Chosen(t, R))
  BY <1>2
<1> QED
  BY <1>1, <1>4, <1>5, <1>6, Zenon

LEMMA CountChanges ==
  ASSUME NEW field, NEW U, NEW usages \in Seq(U), NEW value, NEW u, NEW w
  PROVE  Count(Changes(field, usages, value), u, w) = IF w = value THEN Len(Chosen(usages, {u})) ELSE 0
<1> PICK all : all = Changes(field, usages, value)
  OBVIOUS
<1>1. IsSequence(all) /\ Len(all) = Len(usages)
  BY ChangesType
<1>2. \A i \in 1 .. Len(usages) : all[i].usage = usages[i] /\ all[i].value = value
  <2>1. \A i \in 1 .. Len(usages) :
          Changes(field, usages, value)[i].usage = usages[i] /\ Changes(field, usages, value)[i].value = value
    <3>1. DOMAIN usages = 1 .. Len(usages)
      BY LenProperties
    <3> QED
      BY <3>1 DEF Changes, ItemValue
  <2> QED
    BY <2>1
<1>3. PICK T : all \in Seq(T)
  BY <1>1 DEF IsSequence
<1>4. PICK R : R = {e \in Range(all) : Says(e, u, w)}
  OBVIOUS
<1>5. Len(all) \in Nat /\ DOMAIN all = 1 .. Len(all) /\ \A i \in DOMAIN all : all[i] \in Range(all)
  BY <1>3, LenProperties DEF Range
<1>6. \A i \in DOMAIN all : all[i] \in R <=> usages[i] = u /\ w = value
  BY <1>1, <1>2, <1>4, <1>5 DEF Says
<1>7. CASE w = value
  <2>1. PICK n : n = Len(usages)
    OBVIOUS
  <2>2. \A i \in 1 .. n : usages[i] \in {u} <=> all[i] \in R
    BY <1>1, <1>5, <1>6, <1>7, <2>1
  <2>3. Len(Chosen(usages, {u})) = Len(Chosen(all, R))
    BY <1>1, <1>3, <2>1, <2>2, ChosenAlike
  <2> QED
    BY <1>4, <1>7, <2>3 DEF Count
<1>8. CASE w # value
  <2>1. \A i \in DOMAIN all : all[i] \notin R
    BY <1>6, <1>8
  <2>2. Chosen(all, R) = <<>>
    BY <1>3, <2>1, ChosenNone
  <2> QED
    BY <1>4, <1>8, <2>2 DEF Count
<1> QED
  BY <1>7, <1>8

LEMMA ValuesAtAll ==
  ASSUME NEW T, NEW s \in Seq(T), NEW r, NEW p, \A i \in DOMAIN s : Sits(s[i], r, p)
  PROVE  ValuesAt(s, r, p) = s
<1>1. \A i \in DOMAIN s : s[i] \in {v \in Range(s) : Sits(v, r, p)}
  BY DEF Range
<1> QED
  BY <1>1, ChosenAll DEF ValuesAt

\* How often a sequence has an element.
Times(s, u) == Len(Chosen(s, {u}))

CountOf(field, usages, value, u, w) == Count(Changes(field, usages, value), u, w)

LEMMA CountsOf ==
  \A field, U : \A usages \in Seq(U) : \A value, u, w :
    CountOf(field, usages, value, u, w) = IF w = value THEN Times(usages, u) ELSE 0
BY CountChanges DEF CountOf, Times

\* An array's values are all at its own place, and leave its usages counted.
LEMMA ArrayCounts ==
  ASSUME FieldsSound, RuntimeTyped, NEW field \in Range(fields_), NEW payload, NEW u
  PROVE  LET all == ArrayValues(field, payload) IN
         /\ ValuesAt(all, field.global["REPORT_ID"], field.bit_offset) = all
         /\ \E T : all \in Seq(T)
         /\ Count(all, u, 1) - Count(all, u, 0)
              = Copies(u, Asserted(field, payload)) - Copies(u, Runtime(field).active)
         /\ Count(all, u, 1) \in Nat /\ Count(all, u, 0) \in Nat
         /\ \A i \in DOMAIN all :
              all[i].usage \in DOMAIN Asserted(field, payload) \cup DOMAIN Runtime(field).active
<1>0. PICK f \in DOMAIN fields_ : field = fields_[f]
  BY DEF Range
<1>1. PICK now, before : now = Asserted(field, payload) /\ before = Runtime(field).active
  OBVIOUS
<1>2. PICK more, less : more = Entries(now (-) before) /\ less = Entries(before (-) now)
  OBVIOUS
<1>3. PICK pressed, released : pressed = Changes(field, more, 1) /\ released = Changes(field, less, 0)
  OBVIOUS
<1>4. /\ UsageBag(now) /\ UsageBag(before)
      /\ more \in Seq(GivenUsages) /\ less \in Seq(GivenUsages)
      /\ ArrayValues(field, payload) = pressed \o released
      /\ \E T : pressed \in Seq(T) /\ released \in Seq(T) /\ ArrayValues(field, payload) \in Seq(T)
  BY <1>0, <1>1, <1>2, <1>3, ArrayParts
<1>5. PICK all : all = ArrayValues(field, payload)
  OBVIOUS
<1>6. PICK T : pressed \in Seq(T) /\ released \in Seq(T) /\ all \in Seq(T)
  BY <1>4, <1>5
<1>7. /\ UsageBag(now (-) before) /\ UsageBag(before (-) now)
      /\ more \in Seq(DOMAIN (now (-) before)) /\ less \in Seq(DOMAIN (before (-) now))
  BY <1>2, <1>4, DifferenceOfBags, EntriesOf
<1>8. DOMAIN (now (-) before) \subseteq DOMAIN now /\ DOMAIN (before (-) now) \subseteq DOMAIN before
  BY DEF (-)
<1>9. PICK m, l : m = Len(more) /\ l = Len(less)
  OBVIOUS
<1>10. /\ m \in Nat /\ l \in Nat /\ Len(pressed) = m /\ Len(released) = l
       /\ \A i \in 1 .. m : more[i] \in DOMAIN now
       /\ \A i \in 1 .. l : less[i] \in DOMAIN before
  <2>1. Len(pressed) = m /\ Len(released) = l
    BY <1>3, <1>4, <1>9, ChangesType
  <2>2. m \in Nat /\ \A i \in 1 .. m : more[i] \in DOMAIN (now (-) before)
    BY <1>7, <1>9, LenProperties
  <2>3. l \in Nat /\ \A i \in 1 .. l : less[i] \in DOMAIN (before (-) now)
    BY <1>7, <1>9, LenProperties
  <2> QED
    BY <1>8, <2>1, <2>2, <2>3
<1>11. \A i \in 1 .. m :
         /\ pressed[i].usage \in DOMAIN now
         /\ Sits(pressed[i], field.global["REPORT_ID"], field.bit_offset)
  <2>0. \A i \in 1 .. Len(more) :
          /\ Changes(field, more, 1)[i].usage = more[i]
          /\ Changes(field, more, 1)[i].field_id = field.bit_offset
          /\ Changes(field, more, 1)[i].report_id = field.global["REPORT_ID"]
    <3>1. DOMAIN more = 1 .. Len(more)
      BY <1>4, LenProperties
    <3> QED
      BY <3>1 DEF Changes, ItemValue
  <2>1. \A i \in 1 .. m :
          /\ pressed[i].usage = more[i] /\ pressed[i].field_id = field.bit_offset
          /\ pressed[i].report_id = field.global["REPORT_ID"]
    BY <1>3, <1>9, <2>0
  <2> QED
    BY <1>10, <2>1 DEF Sits
<1>12. \A i \in 1 .. l :
         /\ released[i].usage \in DOMAIN before
         /\ Sits(released[i], field.global["REPORT_ID"], field.bit_offset)
  <2>0. \A i \in 1 .. Len(less) :
          /\ Changes(field, less, 0)[i].usage = less[i]
          /\ Changes(field, less, 0)[i].field_id = field.bit_offset
          /\ Changes(field, less, 0)[i].report_id = field.global["REPORT_ID"]
    <3>1. DOMAIN less = 1 .. Len(less)
      BY <1>4, LenProperties
    <3> QED
      BY <3>1 DEF Changes, ItemValue
  <2>1. \A i \in 1 .. l :
          /\ released[i].usage = less[i] /\ released[i].field_id = field.bit_offset
          /\ released[i].report_id = field.global["REPORT_ID"]
    BY <1>3, <1>9, <2>0
  <2> QED
    BY <1>10, <2>1 DEF Sits
<1>13. \A i \in DOMAIN all :
         /\ all[i].usage \in DOMAIN now \cup DOMAIN before
         /\ Sits(all[i], field.global["REPORT_ID"], field.bit_offset)
  <2>1. /\ DOMAIN all = 1 .. m + l
        /\ \A x \in 1 .. m : all[x] = pressed[x]
        /\ \A x \in 1 .. m + l : x > m => x - m \in 1 .. l /\ all[x] = released[x - m]
    <3>1. /\ DOMAIN (pressed \o released) = 1 .. Len(pressed) + Len(released)
          /\ \A x \in 1 .. Len(pressed) : (pressed \o released)[x] = pressed[x]
          /\ \A x \in 1 .. Len(pressed) + Len(released) :
               x > Len(pressed) => /\ x - Len(pressed) \in 1 .. Len(released)
                                   /\ (pressed \o released)[x] = released[x - Len(pressed)]
      BY <1>6, ConcatIs
    <3> QED
      BY <1>4, <1>5, <1>10, <3>1
  <2> SUFFICES ASSUME NEW i \in DOMAIN all
               PROVE  /\ all[i].usage \in DOMAIN now \cup DOMAIN before
                      /\ Sits(all[i], field.global["REPORT_ID"], field.bit_offset)
    OBVIOUS
  <2>2. i \in Int /\ (i \in 1 .. m \/ i > m)
    BY <1>10, <2>1
  <2>3. CASE i \in 1 .. m
    BY <1>11, <2>1, <2>3
  <2>4. CASE i > m
    <3>1. i - m \in 1 .. l /\ all[i] = released[i - m]
      BY <2>1, <2>4
    <3> QED
      BY <1>12, <3>1
  <2> QED
    BY <2>2, <2>3, <2>4
<1>14. ValuesAt(all, field.global["REPORT_ID"], field.bit_offset) = all
  BY <1>6, <1>13, ValuesAtAll
<1>15. /\ Count(pressed, u, 1) = Copies(u, now (-) before) /\ Count(pressed, u, 0) = 0
       /\ Count(released, u, 0) = Copies(u, before (-) now) /\ Count(released, u, 1) = 0
  <2>a. PICK plus, minus : plus = now (-) before /\ minus = before (-) now
    OBVIOUS
  <2>b. UsageBag(plus) /\ UsageBag(minus) /\ more = Entries(plus) /\ less = Entries(minus)
    BY <1>2, <1>7, <2>a
  <2>1. Times(more, u) = Copies(u, plus)
    BY <2>b, EntriesCount DEF Times
  <2>2. Times(less, u) = Copies(u, minus)
    BY <2>b, EntriesCount DEF Times
  <2>c. \A v, w : /\ CountOf(field, more, v, u, w) = IF w = v THEN Times(more, u) ELSE 0
                  /\ CountOf(field, less, v, u, w) = IF w = v THEN Times(less, u) ELSE 0
    BY <1>4, CountsOf
  <2>3. Count(pressed, u, 1) = Times(more, u) /\ Count(pressed, u, 0) = 0
    BY <1>3, <2>c DEF CountOf
  <2>4. Count(released, u, 0) = Times(less, u) /\ Count(released, u, 1) = 0
    BY <1>3, <2>c DEF CountOf
  <2> QED
    BY <2>a, <2>1, <2>2, <2>3, <2>4
<1>16. /\ Count(all, u, 1) = Count(pressed, u, 1) + Count(released, u, 1)
       /\ Count(all, u, 0) = Count(pressed, u, 0) + Count(released, u, 0)
  BY <1>4, <1>5, <1>6, CountParts
<1>17. /\ Copies(u, now) \in Nat /\ Copies(u, before) \in Nat
       /\ Copies(u, now (-) before) \in Nat /\ Copies(u, before (-) now) \in Nat
       /\ Copies(u, now (-) before) - Copies(u, before (-) now) = Copies(u, now) - Copies(u, before)
  BY <1>4, CopiesDiffer
<1>18. /\ Count(all, u, 1) - Count(all, u, 0) = Copies(u, now) - Copies(u, before)
       /\ Count(all, u, 1) \in Nat /\ Count(all, u, 0) \in Nat
  BY <1>15, <1>16, <1>17
<1> QED
  BY <1>1, <1>5, <1>6, <1>13, <1>14, <1>18

\* A usage that an array's slot can assert.
Telling(u) == u.page # 0 /\ u.usage # 0

LEMMA AssertedTelling ==
  ASSUME NEW field, NEW payload, NEW u \in DOMAIN Asserted(field, payload)
  PROVE  Telling(u)
<1> DEFINE usage(k) == UsageAt(field,
                         ElementValue(field, k, payload) - field.global["LOGICAL_MINIMUM"], FALSE)
           slots    == {k \in Elements(field) : /\ InRange(field, ElementValue(field, k, payload))
                                                /\ usage(k).page # 0 /\ usage(k).usage # 0}
           used     == {usage(k) : k \in slots}
<1>1. DOMAIN Asserted(field, payload) = used
  BY DEF Asserted
<1> HIDE DEF usage
<1>2. \A v \in used : Telling(v)
  BY DEF Telling
<1> HIDE DEF used
<1> QED
  BY <1>1, <1>2

\* More presses than releases.
Tally(s, u) == Count(s, u, 1) - Count(s, u, 0)

LEMMA TallyParts ==
  ASSUME NEW T, NEW s \in Seq(T), NEW t \in Seq(T), NEW u
  PROVE  Tally(s \o t, u) = Tally(s, u) + Tally(t, u) /\ Tally(s, u) \in Int /\ Tally(t, u) \in Int
<1>1. /\ Count(s \o t, u, 1) = Count(s, u, 1) + Count(t, u, 1)
      /\ Count(s \o t, u, 0) = Count(s, u, 0) + Count(t, u, 0)
  BY CountParts
<1>2. Count(s, u, 1) \in Nat /\ Count(t, u, 1) \in Nat /\ Count(s, u, 0) \in Nat /\ Count(t, u, 0) \in Nat
  BY CountIn
<1> QED
  BY <1>1, <1>2 DEF Tally

Balances(s, active) ==
  /\ \A u : Tally(s, u) = Copies(u, active)
  /\ \A i \in DOMAIN s : Telling(s[i].usage)

LEMMA BalancesMore ==
  ASSUME NEW T, NEW s \in Seq(T), NEW t \in Seq(T), NEW before, NEW now, Balances(s, before),
         \A u : Tally(t, u) = Copies(u, now) - Copies(u, before) /\ Copies(u, now) \in Int,
         \A i \in DOMAIN t : Telling(t[i].usage)
  PROVE  Balances(s \o t, now)
<1>1. ASSUME NEW u PROVE Tally(s \o t, u) = Copies(u, now)
  <2>1. Tally(s \o t, u) = Tally(s, u) + Tally(t, u) /\ Tally(s, u) \in Int /\ Tally(t, u) \in Int
    BY TallyParts
  <2>2. Tally(s, u) = Copies(u, before) /\ Tally(t, u) = Copies(u, now) - Copies(u, before)
        /\ Copies(u, now) \in Int
    BY DEF Balances
  <2> QED
    BY <2>1, <2>2
<1>2. ASSUME NEW i \in DOMAIN (s \o t) PROVE Telling((s \o t)[i].usage)
  <2>1. /\ DOMAIN (s \o t) = 1 .. Len(s) + Len(t)
        /\ \A x \in 1 .. Len(s) : (s \o t)[x] = s[x]
        /\ \A x \in 1 .. Len(s) + Len(t) :
             x > Len(s) => x - Len(s) \in 1 .. Len(t) /\ (s \o t)[x] = t[x - Len(s)]
    BY ConcatIs
  <2>2. Len(s) \in Nat /\ Len(t) \in Nat /\ DOMAIN s = 1 .. Len(s) /\ DOMAIN t = 1 .. Len(t)
    BY LenProperties
  <2>3. i \in 1 .. Len(s) \/ i > Len(s)
    BY <2>1, <2>2
  <2>4. CASE i \in 1 .. Len(s)
    BY <2>1, <2>2, <2>4 DEF Balances
  <2>5. CASE i > Len(s)
    <3>1. i - Len(s) \in DOMAIN t /\ (s \o t)[i] = t[i - Len(s)]
      BY <2>1, <2>2, <2>5
    <3> QED
      BY <3>1
  <2> QED
    BY <2>3, <2>4, <2>5
<1> QED
  BY <1>1, <1>2 DEF Balances

LEMMA BalancesAtFirst ==
  ASSUME NEW s, s = <<>>, NEW active, active = EmptyBag
  PROVE  Balances(s, active)
<1>1. s \in Seq({}) /\ DOMAIN s = {}
  BY EmptySeq
<1>2. ASSUME NEW u, NEW w PROVE Count(s, u, w) = 0
  <2>1. \A i \in DOMAIN s : s[i] \notin {e \in Range(s) : Says(e, u, w)}
    BY <1>1
  <2>2. Chosen(s, {e \in Range(s) : Says(e, u, w)}) = <<>>
    BY <1>1, <2>1, ChosenNone
  <2> QED
    BY <2>2, EmptySeq DEF Count
<1>3. ASSUME NEW u PROVE Copies(u, EmptyBag) = 0
  <2>1. EmptyBag = [x \in {} |-> 1]
    BY DEF EmptyBag, SetToBag
  <2>2. DOMAIN EmptyBag = {}
    BY <2>1
  <2> QED
    BY <2>2 DEF Copies
<1>4. \A u : Tally(s, u) = Copies(u, active)
  BY <1>2, <1>3 DEF Tally
<1> QED
  BY <1>1, <1>4 DEF Balances

-----------------------------------------------------------------------------
(* What an array shows. *)

ShownOfArray(field) == ShownOf(field.global["REPORT_ID"], field.bit_offset)

Balanced(field) == Balances(ShownOfArray(field), Runtime(field).active)

LEMMA FirstElement ==
  ASSUME NEW field, Sound(field)
  PROVE  0 \in Elements(field) /\ ElementOffset(field, 0) = field.bit_offset
<1>1. /\ field.global["REPORT_COUNT"] \in Nat \ {0} /\ field.global["REPORT_SIZE"] \in Nat
      /\ field.bit_offset \in Nat
  BY SoundFacts
<1> QED
  BY <1>1 DEF Elements, ElementOffset

LEMMA ArrayAdds ==
  ASSUME FieldsSound, RuntimeTyped, NEW field \in Range(fields_), Holds(field), NEW payload
  PROVE  LET all == ArrayValues(field, payload) IN
         /\ ValuesAt(all, field.global["REPORT_ID"], field.bit_offset) = all
         /\ \A u : Tally(all, u) = Copies(u, Asserted(field, payload)) - Copies(u, Runtime(field).active)
         /\ \A i \in DOMAIN all : Telling(all[i].usage)
<1>1. PICK all : all = ArrayValues(field, payload)
  OBVIOUS
<1>2. PICK now, before : now = Asserted(field, payload) /\ before = Runtime(field).active
  OBVIOUS
<1>3. ASSUME NEW u
      PROVE  /\ ValuesAt(all, field.global["REPORT_ID"], field.bit_offset) = all
             /\ Count(all, u, 1) - Count(all, u, 0) = Copies(u, now) - Copies(u, before)
             /\ \A i \in DOMAIN all : all[i].usage \in DOMAIN now \cup DOMAIN before
  BY <1>1, <1>2, ArrayCounts
<1>4. \A u \in DOMAIN now : Telling(u)
  BY <1>2, AssertedTelling
<1>5. \A u \in DOMAIN before : Telling(u)
  <2>1. CASE before = EmptyBag
    <3>1. EmptyBag = [x \in {} |-> 1]
      BY DEF EmptyBag, SetToBag
    <3> QED
      BY <2>1, <3>1
  <2>2. CASE before = Asserted(field, Last(CompleteReports(field)).payload)
    BY <2>2, AssertedTelling
  <2> QED
    BY <1>2, <2>1, <2>2 DEF Holds
<1>6. ASSUME NEW i \in DOMAIN all PROVE Telling(all[i].usage)
  BY <1>3, <1>4, <1>5
<1>7. \A u : Tally(all, u) = Copies(u, now) - Copies(u, before)
  BY <1>3 DEF Tally
<1> QED
  BY <1>1, <1>2, <1>3, <1>6, <1>7

\* An array's runtime after a report that may or may not be its own.
LEMMA RuntimeNext ==
  ASSUME MapInv, ParserTypeOK, DecoderInv, phase = "VALID", NEW n \in Notifications, ProcessInputReport(n),
         NEW i \in DOMAIN fields_, NEW field, field = fields_[i], field.kind = "INPUT", ~IsConstant(field)
  PROVE  Runtime(field)' = IF n \in CompleteFor(field) THEN FieldRuntime(field, n.payload) ELSE Runtime(field)
<1>1. UNCHANGED vars
  BY DEF ProcessInputReport
<1>2. CASE n.characteristic = "REPORT"
  <2>1. ParseInput(n)
    BY <1>2 DEF ProcessInputReport
  <2>2. n \in CompleteFor(field) <=> Decodes(n) /\ field.global["REPORT_ID"] = ReportId(n)
    BY <1>2, FieldDecoded
  <2>3. Runtime(field)' = IF Decodes(n) /\ field.global["REPORT_ID"] = ReportId(n)
                           THEN FieldRuntime(field, n.payload) ELSE Runtime(field)
    BY <1>1, <2>1, RuntimeAfter
  <2> QED
    BY <2>2, <2>3
<1>3. CASE n.characteristic # "REPORT"
  <2>1. runtime_' = runtime_
    BY <1>3 DEF ProcessInputReport, DecodeBoot
  <2>2. Runtime(field)' = Runtime(field)
    BY <2>1 DEF Runtime
  <2>3. n \notin CompleteFor(field)
    BY <1>3 DEF CompleteFor
  <2> QED
    BY <2>2, <2>3
<1> QED
  BY <1>2, <1>3

LEMMA BalancedAfter ==
  ASSUME MapInv, ParserTypeOK, DecoderInv, phase = "VALID", NEW n \in Notifications, ProcessInputReport(n),
         NEW field \in Range(fields_), IsArray(field), Holds(field), Balanced(field)
  PROVE  Balanced(field)'
<1>1. FieldsSound /\ RuntimeTyped
  BY FieldsAreSound DEF DecoderInv
<1>2. PICK i \in DOMAIN fields_ : field = fields_[i]
  BY DEF Range
<1>3. field.kind = "INPUT" /\ ~IsConstant(field) /\ ~IsVariable(field)
  BY DEF IsArray
<1>4. 0 \in Elements(field) /\ ElementOffset(field, 0) = field.bit_offset
  BY <1>1, <1>2, FirstElement DEF FieldsSound
<1>5. PICK id, p : id = field.global["REPORT_ID"] /\ p = field.bit_offset
  OBVIOUS
<1>6. PICK added : added = Added(n, field, 0)
  OBVIOUS
<1>7. ShownOf(id, p)' = ShownOf(id, p) \o added /\ \E T : ShownOf(id, p) \in Seq(T) /\ added \in Seq(T)
  <2>1. 0 \in Elements(field) /\ id = field.global["REPORT_ID"] /\ p = ElementOffset(field, 0)
    BY <1>4, <1>5
  <2> QED
    BY <1>2, <1>3, <1>6, <2>1, ShownAfter
<1>8. PICK T : ShownOf(id, p) \in Seq(T) /\ added \in Seq(T)
  BY <1>7
<1>9. PICK before, now : before = Runtime(field).active /\ now = (Runtime(field)').active
  OBVIOUS
<1>10. PICK events : events = ShownOf(id, p)
  OBVIOUS
<1>11. Balances(events, before)
  BY <1>5, <1>9, <1>10 DEF Balanced, ShownOfArray
<1>12. Runtime(field)' = IF n \in CompleteFor(field) THEN FieldRuntime(field, n.payload) ELSE Runtime(field)
  BY <1>2, <1>3, RuntimeNext
<1>13. Balances(events \o added, now)
  <2>1. CASE n \in CompleteFor(field)
    <3>1. PICK all : all = ArrayValues(field, n.payload)
      OBVIOUS
    <3>2. /\ ValuesAt(all, id, p) = all
          /\ \A u : Tally(all, u) = Copies(u, Asserted(field, n.payload)) - Copies(u, before)
          /\ \A j \in DOMAIN all : Telling(all[j].usage)
      BY <1>1, <1>5, <1>9, <3>1, ArrayAdds
    <3>3. FieldValues(field, n.payload) = all
      BY <1>3, <3>1 DEF FieldValues
    <3>4. added = all
      BY <1>4, <1>5, <1>6, <2>1, <3>2, <3>3 DEF Added
    <3>5. now = Asserted(field, n.payload)
      <4>1. FieldRuntime(field, n.payload) = [Runtime(field) EXCEPT !.active = Asserted(field, n.payload)]
        BY <1>3 DEF FieldRuntime
      <4>2. "active" \in DOMAIN Runtime(field)
        BY <1>1, RuntimeType DEF ActiveKnown
      <4>3. FieldRuntime(field, n.payload).active = Asserted(field, n.payload)
        BY <4>1, <4>2
      <4> QED
        BY <1>9, <1>12, <2>1, <4>3
    <3>6. \A u : Copies(u, now) \in Int
      <4>1. UsageBag(now)
        BY <1>1, <1>2, <3>5, AssertedType DEF FieldsSound
      <4> QED
        BY <4>1, CopiesDiffer
    <3>7. \A u : Tally(added, u) = Copies(u, now) - Copies(u, before) /\ Copies(u, now) \in Int
      BY <3>2, <3>4, <3>5, <3>6
    <3>8. \A j \in DOMAIN added : Telling(added[j].usage)
      BY <3>2, <3>4
    <3> QED
      BY <1>8, <1>10, <1>11, <3>7, <3>8, BalancesMore
  <2>2. CASE n \notin CompleteFor(field)
    <3>1. added = <<>>
      BY <1>6, <2>2 DEF Added
    <3>2. events \o added = events
      BY <1>8, <1>10, <3>1, ConcatEmptySeq
    <3>3. now = before
      BY <1>9, <1>12, <2>2
    <3> QED
      BY <1>11, <3>2, <3>3
  <2> QED
    BY <2>1, <2>2
<1>14. Balanced(field)' = Balances(ShownOf(id, p)', now)
  BY <1>5, <1>9 DEF Balanced, ShownOfArray, Balances, Tally, Count, Says, Copies
<1> QED
  BY <1>7, <1>10, <1>13, <1>14

-----------------------------------------------------------------------------
(* Variable fields: what is shown follows what is stated. *)

LEMMA TotalSums ==
  ASSUME NEW s \in Seq(Int)
  PROVE  \E g \in [0 .. Len(s) -> Int] :
           /\ g[0] = 0 /\ \A k \in 1 .. Len(s) : g[k] = g[k - 1] + s[k]
           /\ Total(s) = g[Len(s)]
<1>0. PICK n : n = Len(s)
  OBVIOUS
<1>1. n \in Nat /\ \A k \in 1 .. n : s[k] \in Int
  BY <1>0, LenProperties
<1> DEFINE Is(g) == g = [i \in 0 .. n |-> IF i = 0 THEN 0 ELSE g[i - 1] + s[i]]
<1>2. Total(s) = (CHOOSE g : Is(g))[n]
  BY <1>0 DEF Total
<1>3. \E g : Is(g)
  <2>1. n \in Nat /\ s \in [1 .. n -> Int]
    BY <1>0, <1>1, LenProperties
  <2>2. PICK w, c : w = s /\ c = 1
    OBVIOUS
  <2>3. w \in [1 .. n -> Int] /\ c \in Int /\ n \in Nat
    BY <2>1, <2>2
  <2>a. PICK f : Accumulates(f, n, c, w)
    BY <2>3, AccumulationExists
  <2>b. f \in [0 .. n -> Int]
    BY <2>3, <2>a, AccumulationType
  <2>c. f[0] = 0 /\ \A k \in 1 .. n : f[k] = Scaled(w[k], c, f[k - 1])
    BY <2>3, <2>a, AccumulationFacts
  <2>d. f = [i \in 0 .. n |-> f[i]]
    BY <2>b
  <2>5. ASSUME NEW k \in 1 .. n PROVE f[k] = f[k - 1] + s[k]
    <3>1. k - 1 \in 0 .. n
      BY <1>1
    <3>2. f[k - 1] \in Int /\ w[k] \in Int /\ w[k] = s[k] /\ c = 1
      BY <2>b, <2>2, <2>3, <3>1
    <3>3. f[k] = Scaled(w[k], c, f[k - 1])
      BY <2>c
    <3>4. \A i, j \in Int : Scaled(i, 1, j) = j + i
      BY DEF Scaled
    <3> QED
      BY <3>2, <3>3, <3>4
  <2>6. \A i \in 0 .. n : i # 0 => i \in 1 .. n
    BY <1>1
  <2>7. f = [i \in 0 .. n |-> IF i = 0 THEN 0 ELSE f[i - 1] + s[i]]
    BY <2>c, <2>d, <2>5, <2>6
  <2> QED
    BY <2>7
<1>4. PICK g : g = (CHOOSE h : Is(h)) /\ Is(g)
  <2> HIDE DEF Is
  <2> QED
    BY <1>3
<1>5. /\ DOMAIN g = 0 .. n /\ g = [k \in 0 .. n |-> g[k]] /\ g[0] = 0
      /\ \A k \in 1 .. n : g[k] = g[k - 1] + s[k]
  <2>1. \A k \in 1 .. n : k \in 0 .. n /\ k # 0
    BY <1>1
  <2>2. 0 \in 0 .. n
    BY <1>1
  <2> QED
    BY <1>4, <2>1, <2>2
<1> HIDE DEF Is
<1>6. \A k \in Nat : k \in {j \in Nat : j <= n => g[j] \in Int}
  <2>1. PICK T : T = {j \in Nat : j <= n => g[j] \in Int}
    OBVIOUS
  <2>2. 0 \in T
    BY <1>5, <2>1
  <2>3. ASSUME NEW k \in Nat, k \in T PROVE k + 1 \in T
    <3>1. ASSUME k + 1 <= n PROVE g[k + 1] \in Int
      <4>1. k + 1 \in 1 .. n /\ (k + 1) - 1 = k /\ g[k] \in Int
        BY <1>1, <2>1, <2>3, <3>1
      <4>2. g[k + 1] = g[k] + s[k + 1] /\ s[k + 1] \in Int
        BY <1>1, <1>5, <4>1
      <4> QED
        BY <4>1, <4>2
    <3> QED
      BY <2>1, <3>1
  <2>4. \A k \in Nat : k \in T
    BY <2>2, <2>3, Induction
  <2> QED
    BY <2>1, <2>4
<1>7. \A k \in 0 .. n : g[k] \in Int
  BY <1>1, <1>6
<1>8. g \in [0 .. n -> Int]
  BY <1>5, <1>7
<1>9. Total(s) = g[n]
  BY <1>2, <1>4
<1> QED
  BY <1>0, <1>5, <1>8, <1>9

LEMMA TotalNone == Total(<<>>) = 0
<1>1. <<>> \in Seq(Int) /\ Len(<<>>) = 0
  BY EmptySeq
<1>2. PICK g \in [0 .. Len(<<>>) -> Int] : g[0] = 0 /\ Total(<<>>) = g[Len(<<>>)]
  BY <1>1, TotalSums
<1> QED
  BY <1>1, <1>2

LEMMA TotalMore ==
  ASSUME NEW s \in Seq(Int), NEW x \in Int
  PROVE  Total(Append(s, x)) = Total(s) + x
<1>0. PICK t, n : t = Append(s, x) /\ n = Len(s)
  OBVIOUS
<1>1. /\ t \in Seq(Int) /\ n \in Nat /\ Len(t) = n + 1 /\ t[n + 1] = x
      /\ \A k \in 1 .. n : t[k] = s[k]
  BY <1>0, AppendProperties, LenProperties
<1>2. PICK g \in [0 .. n -> Int] :
        g[0] = 0 /\ (\A k \in 1 .. n : g[k] = g[k - 1] + s[k]) /\ Total(s) = g[n]
  BY <1>0, TotalSums
<1>3. PICK h \in [0 .. n + 1 -> Int] :
        h[0] = 0 /\ (\A k \in 1 .. n + 1 : h[k] = h[k - 1] + t[k]) /\ Total(t) = h[n + 1]
  <2>1. \E h \in [0 .. Len(t) -> Int] :
          /\ h[0] = 0 /\ \A k \in 1 .. Len(t) : h[k] = h[k - 1] + t[k]
          /\ Total(t) = h[Len(t)]
    BY <1>1, TotalSums
  <2> QED
    BY <1>1, <2>1
<1>4. \A k \in Nat : k \in {j \in Nat : j <= n => h[j] = g[j]}
  <2>1. PICK T : T = {j \in Nat : j <= n => h[j] = g[j]}
    OBVIOUS
  <2>2. 0 \in T
    BY <1>2, <1>3, <2>1
  <2>3. ASSUME NEW k \in Nat, k \in T PROVE k + 1 \in T
    <3>1. ASSUME k + 1 <= n PROVE h[k + 1] = g[k + 1]
      <4>1. k + 1 \in 1 .. n /\ k + 1 \in 1 .. n + 1 /\ (k + 1) - 1 = k /\ h[k] = g[k]
        BY <1>1, <2>1, <2>3, <3>1
      <4>2. g[k + 1] = g[k] + s[k + 1] /\ h[k + 1] = h[k] + t[k + 1] /\ t[k + 1] = s[k + 1]
        BY <1>1, <1>2, <1>3, <4>1
      <4> QED
        BY <4>1, <4>2
    <3> QED
      BY <2>1, <3>1
  <2>4. \A k \in Nat : k \in T
    BY <2>2, <2>3, Induction
  <2> QED
    BY <2>1, <2>4
<1>5. h[n] = g[n]
  BY <1>1, <1>4
<1>6. h[n + 1] = h[n] + x
  <2>1. n + 1 \in 1 .. n + 1 /\ (n + 1) - 1 = n
    BY <1>1
  <2> QED
    BY <1>1, <1>3, <2>1
<1> QED
  BY <1>0, <1>2, <1>3, <1>5, <1>6

-----------------------------------------------------------------------------
(* What is shown of a variable element, and what was stated of it. *)

ValuesOf(s) == [i \in DOMAIN s |-> s[i].value]

Numbers(s) == \A i \in DOMAIN s : s[i].value \in Int

FollowsUp(s, stated, last, relative) ==
  /\ Numbers(s)
  /\ IF relative THEN Total(ValuesOf(s)) = Total(stated)
     ELSE /\ last = IF stated = <<>> THEN 0 ELSE Last(stated)
          /\ last = IF s = <<>> THEN 0 ELSE Last(s).value
          /\ \A i \in DOMAIN s : s[i].value # IF i = 1 THEN 0 ELSE s[i - 1].value

LEMMA AppendIs ==
  ASSUME NEW T, NEW s \in Seq(T), NEW x
  PROVE  /\ s \o <<x>> = Append(s, x) /\ s \o <<>> = s
         /\ Append(s, x) # <<>> /\ Last(Append(s, x)) = x
         /\ Len(s) \in Nat /\ DOMAIN s = 1 .. Len(s)
         /\ DOMAIN Append(s, x) = 1 .. Len(s) + 1 /\ Append(s, x)[Len(s) + 1] = x
         /\ \A i \in 1 .. Len(s) : Append(s, x)[i] = s[i]
         /\ Len(Append(s, x)) = Len(s) + 1
<1>1. PICK U : U = T \cup {x}
  OBVIOUS
<1>2. s \in Seq(U) /\ x \in U
  BY <1>1, SeqMonotonic
<1>3. s \o <<x>> = Append(s, x)
  BY <1>2, AppendIsConcat
<1>4. s \o <<>> = s
  BY ConcatEmptySeq
<1>5. Append(s, x) # <<>> /\ Last(Append(s, x)) = x
  BY <1>2, LastAppended
<1>6. /\ Len(s) \in Nat /\ DOMAIN s = 1 .. Len(s) /\ Append(s, x) \in Seq(U)
      /\ Len(Append(s, x)) = Len(s) + 1 /\ Append(s, x)[Len(s) + 1] = x
      /\ \A i \in 1 .. Len(s) : Append(s, x)[i] = s[i]
  BY <1>2, AppendProperties, LenProperties
<1>7. DOMAIN Append(s, x) = 1 .. Len(s) + 1
  BY <1>6, LenProperties
<1> QED
  BY <1>3, <1>4, <1>5, <1>6, <1>7

LEMMA ValuesOfMore ==
  ASSUME NEW T, NEW s \in Seq(T), Numbers(s), NEW v, v.value \in Int
  PROVE  /\ ValuesOf(s) \in Seq(Int) /\ Numbers(Append(s, v))
         /\ ValuesOf(Append(s, v)) = Append(ValuesOf(s), v.value)
<1>0. PICK t, n : t = Append(s, v) /\ n = Len(s)
  OBVIOUS
<1>1. /\ n \in Nat /\ DOMAIN s = 1 .. n /\ DOMAIN t = 1 .. n + 1 /\ t[n + 1] = v
      /\ \A i \in 1 .. n : t[i] = s[i]
  BY <1>0, AppendIs
<1>2. Numbers(t)
  <2>1. ASSUME NEW i \in 1 .. n + 1 PROVE t[i].value \in Int
    <3>1. i \in 1 .. n \/ i = n + 1
      BY <1>1
    <3> QED
      BY <1>1, <3>1 DEF Numbers
  <2> QED
    BY <1>1, <2>1 DEF Numbers
<1>3. ValuesOf(s) \in [1 .. n -> Int] /\ ValuesOf(t) \in [1 .. n + 1 -> Int]
  BY <1>1, <1>2 DEF Numbers, ValuesOf
<1>4. ValuesOf(s) \in Seq(Int) /\ ValuesOf(t) \in Seq(Int)
  <2>0. PICK a, b, m : a = ValuesOf(s) /\ b = ValuesOf(t) /\ m = n + 1
    OBVIOUS
  <2>1. n \in Nat /\ m \in Nat /\ a \in [1 .. n -> Int] /\ b \in [1 .. m -> Int]
    BY <1>1, <1>3, <2>0
  <2>2. a \in Seq(Int) /\ b \in Seq(Int)
    BY <2>1, SeqDef
  <2> QED
    BY <2>0, <2>2
<1>5. PICK a, b : a = ValuesOf(s) /\ b = ValuesOf(t)
  OBVIOUS
<1>6. /\ a \in Seq(Int) /\ b \in Seq(Int) /\ Len(a) = n /\ Len(b) = n + 1
      /\ b[n + 1] = v.value /\ \A i \in 1 .. n : b[i] = a[i]
  <2>1. Len(a) = n /\ Len(b) = n + 1
    BY <1>1, <1>3, <1>4, <1>5, LenProperties
  <2>2. \A i \in 1 .. n : i \in 1 .. n + 1 /\ b[i] = a[i]
    BY <1>1, <1>5 DEF ValuesOf
  <2>3. n + 1 \in 1 .. n + 1
    BY <1>1
  <2>4. b[n + 1] = v.value
    BY <1>1, <1>5, <2>3 DEF ValuesOf
  <2> QED
    BY <1>4, <1>5, <2>1, <2>2, <2>4
<1>7. b = Append(a, v.value)
  <2>1. PICK c : c = Append(a, v.value)
    OBVIOUS
  <2>2. /\ c \in Seq(Int) /\ Len(c) = n + 1 /\ c[n + 1] = v.value
        /\ \A i \in 1 .. n : c[i] = a[i]
    BY <1>6, <2>1, AppendProperties
  <2>3. \A i \in 1 .. Len(b) : b[i] = c[i]
    <3>1. \A i \in 1 .. n + 1 : i \in 1 .. n \/ i = n + 1
      BY <1>1
    <3> QED
      BY <1>6, <2>2, <3>1
  <2>4. b = c
    BY <1>6, <2>2, <2>3, SeqEqual
  <2> QED
    BY <2>1, <2>4
<1> QED
  BY <1>0, <1>2, <1>4, <1>5, <1>7

LEMMA FollowsAtFirst ==
  ASSUME NEW s, s = <<>>, NEW stated, stated = <<>>, NEW relative
  PROVE  FollowsUp(s, stated, 0, relative)
<1>1. DOMAIN s = {} /\ s \in Seq({})
  BY EmptySeq
<1>2. ValuesOf(s) = <<>>
  <2>1. PICK t : t = ValuesOf(s)
    OBVIOUS
  <2>2. DOMAIN t = {} /\ t = [i \in {} |-> 0]
    BY <1>1, <2>1 DEF ValuesOf
  <2>3. s = [i \in {} |-> 0]
    BY <1>1, EmptySeq
  <2> QED
    BY <2>1, <2>2, <2>3
<1>3. Total(ValuesOf(s)) = Total(stated)
  BY <1>2
<1> QED
  BY <1>1, <1>3 DEF FollowsUp, Numbers

\* A value that was stated, shown or not, one that was not.
LEMMA FollowsStated ==
  ASSUME NEW T, NEW s \in Seq(T), NEW stated \in Seq(Int), NEW last, NEW relative \in BOOLEAN,
         FollowsUp(s, stated, last, relative), NEW value \in Int, value = IF relative THEN 0 ELSE last
  PROVE  FollowsUp(s, Append(stated, value), last, relative)
<1>1. CASE relative
  <2>1. Total(Append(stated, value)) = Total(stated) + value
    BY TotalMore
  <2>2. PICK g \in [0 .. Len(stated) -> Int] : Total(stated) = g[Len(stated)]
    BY TotalSums
  <2>3. Total(stated) \in Int
    <3>1. Len(stated) \in 0 .. Len(stated)
      BY LenProperties
    <3> QED
      BY <2>2, <3>1
  <2>4. Total(Append(stated, value)) = Total(stated)
    BY <1>1, <2>1, <2>3
  <2> QED
    BY <1>1, <2>4 DEF FollowsUp
<1>2. CASE ~relative
  <2>1. Append(stated, value) # <<>> /\ Last(Append(stated, value)) = value
    BY AppendIs
  <2> QED
    BY <1>2, <2>1 DEF FollowsUp
<1> QED
  BY <1>1, <1>2

LEMMA FollowsShown ==
  ASSUME NEW T, NEW s \in Seq(T), NEW stated \in Seq(Int), NEW last, NEW relative \in BOOLEAN,
         FollowsUp(s, stated, last, relative), NEW value \in Int,
         value # IF relative THEN 0 ELSE last, NEW v, v.value = value
  PROVE  FollowsUp(Append(s, v), Append(stated, value), value, relative)
<1>0. PICK t, n : t = Append(s, v) /\ n = Len(s)
  OBVIOUS
<1>1. Numbers(s)
  BY DEF FollowsUp
<1>2. /\ n \in Nat /\ DOMAIN s = 1 .. n /\ DOMAIN t = 1 .. n + 1 /\ t[n + 1] = v
      /\ \A i \in 1 .. n : t[i] = s[i]
      /\ t # <<>> /\ Last(t) = v
  BY <1>0, AppendIs
<1>3. ValuesOf(s) \in Seq(Int) /\ Numbers(t) /\ ValuesOf(t) = Append(ValuesOf(s), value)
  BY <1>0, <1>1, ValuesOfMore
<1>4. CASE relative
  <2>1. Total(Append(stated, value)) = Total(stated) + value
    BY TotalMore
  <2>2. Total(Append(ValuesOf(s), value)) = Total(ValuesOf(s)) + value
    BY <1>3, TotalMore
  <2>3. Total(ValuesOf(s)) = Total(stated)
    BY <1>4 DEF FollowsUp
  <2>4. Total(ValuesOf(t)) = Total(Append(stated, value))
    BY <1>3, <2>1, <2>2, <2>3
  <2> QED
    BY <1>0, <1>3, <1>4, <2>4 DEF FollowsUp
<1>5. CASE ~relative
  <2>1. Append(stated, value) # <<>> /\ Last(Append(stated, value)) = value
    BY AppendIs
  <2>2. ASSUME NEW i \in DOMAIN t PROVE t[i].value # IF i = 1 THEN 0 ELSE t[i - 1].value
    <3>1. i \in 1 .. n \/ i = n + 1
      BY <1>2
    <3>2. CASE i \in 1 .. n
      <4>1. s[i].value # IF i = 1 THEN 0 ELSE s[i - 1].value
        BY <1>2, <1>5, <3>2 DEF FollowsUp
      <4>2. i # 1 => i - 1 \in 1 .. n
        BY <1>2, <3>2
      <4>3. t[i] = s[i] /\ (i # 1 => t[i - 1] = s[i - 1])
        BY <1>2, <3>2, <4>2
      <4> QED
        BY <4>1, <4>3
    <3>3. CASE i = n + 1
      <4>1. last = IF s = <<>> THEN 0 ELSE Last(s).value
        BY <1>5 DEF FollowsUp
      <4>2. t[i].value = value /\ value # last
        BY <1>2, <1>5, <3>3
      <4>3. CASE n = 0
        <5>1. s = <<>>
          BY <1>0, <4>3, EmptySeq
        <5>2. i = 1 /\ last = 0
          BY <3>3, <4>1, <4>3, <5>1
        <5> QED
          BY <4>2, <5>2
      <4>4. CASE n # 0
        <5>1. s # <<>> /\ Last(s) = s[n]
          BY <1>0, <4>4, EmptySeq DEF Last
        <5>2. i # 1 /\ i - 1 = n /\ n \in 1 .. n
          BY <1>2, <3>3, <4>4
        <5>3. t[i - 1] = s[n]
          BY <1>2, <5>2
        <5> QED
          BY <4>1, <4>2, <5>1, <5>2, <5>3
      <4> QED
        BY <4>3, <4>4
    <3> QED
      BY <3>1, <3>2, <3>3
  <2> QED
    BY <1>0, <1>2, <1>3, <1>5, <2>1, <2>2 DEF FollowsUp
<1> QED
  BY <1>4, <1>5

-----------------------------------------------------------------------------
(* What a report shows of a variable element. *)

LEMMA VariableAdds ==
  ASSUME NEW field, Sound(field), IsVariable(field), ~IsConstant(field), NEW payload,
         NEW k \in Elements(field)
  PROVE  ValuesAt(FieldValues(field, payload), field.global["REPORT_ID"], ElementOffset(field, k))
           = IF Speaks(field, k, payload) THEN <<VariableValue(field, k, payload)>> ELSE <<>>
<1> DEFINE S      == {e \in Elements(field) : Speaks(field, e, payload)}
           spoken == InOrder(S, Less)
           all    == [i \in DOMAIN spoken |-> VariableValue(field, spoken[i], payload)]
<1>1. FieldValues(field, payload) = all
  BY DEF FieldValues
<1>2. S \in SUBSET Elements(field) /\ (k \in S <=> Speaks(field, k, payload))
  OBVIOUS
<1> HIDE DEF S
<1>3. IsFiniteSet(S) /\ S \in SUBSET Int
  BY <1>2, FiniteElements
<1>4. ListsOnce(spoken, S)
  BY <1>3, IntegersOnce
<1> HIDE DEF spoken
<1>5. IsSequence(spoken) /\ \A i \in DOMAIN spoken : spoken[i] \in S
  BY <1>4, SequenceOfItself, ElementOfSeq, LenProperties DEF ListsOnce
<1>6. all = [i \in DOMAIN spoken |-> all[i]] /\ DOMAIN all = DOMAIN spoken
  OBVIOUS
<1>7. \A i \in DOMAIN spoken : all[i] = VariableValue(field, spoken[i], payload)
  OBVIOUS
<1> HIDE DEF all
<1>8. all \in Seq(Range(all))
  BY <1>5, <1>6, MappedSeq
<1>9. PICK id, p : id = field.global["REPORT_ID"] /\ p = ElementOffset(field, k)
  OBVIOUS
<1>10. ASSUME NEW i \in DOMAIN spoken PROVE Sits(all[i], id, p) <=> spoken[i] = k
  <2>1. all[i].report_id = id /\ all[i].field_id = ElementOffset(field, spoken[i])
    <3>1. \A e : /\ VariableValue(field, e, payload).report_id = field.global["REPORT_ID"]
                 /\ VariableValue(field, e, payload).field_id = ElementOffset(field, e)
      BY DEF VariableValue, ItemValue
    <3>2. all[i] = VariableValue(field, spoken[i], payload)
      BY <1>7
    <3> QED
      BY <1>9, <3>1, <3>2
  <2>2. ASSUME ElementOffset(field, spoken[i]) = ElementOffset(field, k) PROVE spoken[i] = k
    <3>1. /\ field.global["REPORT_COUNT"] \in Nat \ {0} /\ field.global["REPORT_SIZE"] \in Nat \ {0}
          /\ field.bit_offset \in Nat
      BY SoundFacts
    <3>2. spoken[i] \in Elements(field)
      BY <1>2, <1>5
    <3>3. spoken[i] \in Nat /\ k \in Nat
      BY <3>1, <3>2 DEF Elements
    <3> QED
      BY <2>2, <3>1, <3>3, SameElement DEF ElementOffset
  <2> QED
    BY <1>9, <2>1, <2>2 DEF Sits
<1>11. CASE k \in S
  <2>1. PICK i \in DOMAIN spoken : spoken[i] = k /\ \A j \in DOMAIN spoken : spoken[j] = k => j = i
    BY <1>4, <1>11 DEF ListsOnce
  <2>2. PICK R : R = {v \in Range(all) : Sits(v, id, p)}
    OBVIOUS
  <2>3. i \in DOMAIN all /\ all[i] \in R
    BY <1>6, <1>10, <2>1, <2>2 DEF Range
  <2>4. \A j \in DOMAIN all : j # i => all[j] \notin R
    BY <1>6, <1>10, <2>1, <2>2
  <2>5. Chosen(all, R) = <<all[i]>>
    BY <1>8, <2>3, <2>4, ChosenOnly
  <2>6. all[i] = VariableValue(field, k, payload)
    BY <1>7, <2>1
  <2> QED
    BY <1>1, <1>2, <1>9, <1>11, <2>2, <2>5, <2>6 DEF ValuesAt
<1>12. CASE k \notin S
  <2>1. \A i \in DOMAIN all : ~Sits(all[i], id, p)
    BY <1>5, <1>6, <1>10, <1>12
  <2>2. ValuesAt(all, id, p) = <<>>
    BY <1>8, <2>1, ValuesAtNone
  <2> QED
    BY <1>1, <1>2, <1>9, <1>12, <2>2
<1> QED
  BY <1>11, <1>12

\* What one report states of an element.
StatedBy(field, k, n) ==
  LET value == Meaning(field, k, n.payload)
  IN  IF InRange(field, value) THEN <<value>> ELSE <<>>

EachStated(field, k, reports) == [i \in DOMAIN reports |-> StatedBy(field, k, reports[i])]

LEMMA StatedIs ==
  \A field, k, reports : Stated(field, k, reports) = FlattenSeq(EachStated(field, k, reports))
BY DEF Stated, EachStated, StatedBy

LEMMA StatedByType ==
  ASSUME NEW field, Sound(field), NEW k, NEW n
  PROVE  StatedBy(field, k, n) \in Seq(Int)
<1>1. PICK value : value = Meaning(field, k, n.payload)
  OBVIOUS
<1>2. InRange(field, value) => value \in Int
  BY SoundFacts DEF InRange
<1>3. InRange(field, value) => <<value>> \in Seq(Int)
  BY <1>2, SingleSeq
<1>4. <<>> \in Seq(Int)
  BY EmptySeq
<1> QED
  BY <1>1, <1>3, <1>4 DEF StatedBy

LEMMA EachStatedType ==
  ASSUME NEW field, Sound(field), NEW k, NEW T, NEW reports \in Seq(T)
  PROVE  /\ EachStated(field, k, reports) \in Seq(Seq(Int))
         /\ Len(EachStated(field, k, reports)) = Len(reports)
         /\ \A i \in 1 .. Len(reports) : EachStated(field, k, reports)[i] = StatedBy(field, k, reports[i])
<1>1. PICK s, n : s = EachStated(field, k, reports) /\ n = Len(reports)
  OBVIOUS
<1>2. n \in Nat /\ DOMAIN reports = 1 .. n
  BY <1>1, LenProperties
<1>3. DOMAIN s = 1 .. n /\ \A i \in 1 .. n : s[i] = StatedBy(field, k, reports[i])
  BY <1>1, <1>2 DEF EachStated
<1>4. \A i \in 1 .. n : s[i] \in Seq(Int)
  BY <1>3, StatedByType
<1>5. s \in [1 .. n -> Seq(Int)]
  <2>1. s = [i \in 1 .. n |-> s[i]]
    BY <1>1, <1>2 DEF EachStated
  <2> QED
    BY <1>4, <2>1
<1>6. s \in Seq(Seq(Int))
  BY <1>2, <1>5, SeqDef
<1>7. Len(s) = n
  BY <1>2, <1>3, <1>6, LenProperties
<1> QED
  BY <1>1, <1>3, <1>6, <1>7

LEMMA FlattenOne ==
  ASSUME NEW S, NEW s \in Seq(S)
  PROVE  FlattenSeq(<<s>>) = s
<1>1. PICK one : one = <<s>>
  OBVIOUS
<1>2. one \in Seq(Seq(S)) /\ DOMAIN one = {1} /\ one[1] = s
  BY <1>1, SingleSeq
<1>3. 1 \in DOMAIN one /\ \A j \in DOMAIN one : j # 1 => one[j] = <<>>
  BY <1>2
<1>4. FlattenSeq(one) = one[1]
  BY <1>2, <1>3, FlattenOnly
<1> QED
  BY <1>1, <1>2, <1>4

LEMMA StatedMore ==
  ASSUME NEW field, Sound(field), NEW k, NEW T, NEW reports \in Seq(T), NEW n \in T
  PROVE  /\ Stated(field, k, reports) \in Seq(Int)
         /\ Stated(field, k, Append(reports, n)) = Stated(field, k, reports) \o StatedBy(field, k, n)
<1>0. PICK more, m : more = Append(reports, n) /\ m = Len(reports)
  OBVIOUS
<1>1. /\ more \in Seq(T) /\ Len(more) = m + 1 /\ m \in Nat /\ more[m + 1] = n
      /\ \A i \in 1 .. m : more[i] = reports[i]
  BY <1>0, AppendProperties, LenProperties
<1>2. PICK a, b, c : /\ a = EachStated(field, k, reports) /\ b = EachStated(field, k, more)
                     /\ c = StatedBy(field, k, n)
  OBVIOUS
<1>3. /\ a \in Seq(Seq(Int)) /\ Len(a) = m
      /\ \A i \in 1 .. m : a[i] = StatedBy(field, k, reports[i])
  BY <1>0, <1>2, EachStatedType
<1>4. /\ b \in Seq(Seq(Int)) /\ Len(b) = m + 1
      /\ \A i \in 1 .. m + 1 : b[i] = StatedBy(field, k, more[i])
  <2>1. /\ b \in Seq(Seq(Int)) /\ Len(b) = Len(more)
        /\ \A i \in 1 .. Len(more) : b[i] = StatedBy(field, k, more[i])
    <3>1. /\ EachStated(field, k, more) \in Seq(Seq(Int)) /\ Len(EachStated(field, k, more)) = Len(more)
          /\ \A i \in 1 .. Len(more) : EachStated(field, k, more)[i] = StatedBy(field, k, more[i])
      <4>1. more \in Seq(T)
        BY <1>1
      <4> QED
        BY <4>1, EachStatedType
    <3> QED
      BY <1>2, <3>1
  <2> QED
    BY <1>1, <2>1
<1>5. c \in Seq(Int)
  BY <1>2, StatedByType
<1>6. b = Append(a, c)
  <2>1. PICK d : d = Append(a, c)
    OBVIOUS
  <2>2. d \in Seq(Seq(Int)) /\ Len(d) = m + 1 /\ d[m + 1] = c /\ \A i \in 1 .. m : d[i] = a[i]
    BY <1>3, <1>5, <2>1, AppendProperties
  <2>3. ASSUME NEW i \in 1 .. Len(b) PROVE b[i] = d[i]
    <3>1. i \in 1 .. m + 1 /\ (i \in 1 .. m \/ i = m + 1)
      BY <1>1, <1>4
    <3>2. CASE i \in 1 .. m
      BY <1>1, <1>3, <1>4, <2>2, <3>1, <3>2
    <3>3. CASE i = m + 1
      BY <1>1, <1>2, <1>4, <2>2, <3>1, <3>3
    <3> QED
      BY <3>1, <3>2, <3>3
  <2>4. b = d
    BY <1>4, <2>2, <2>3, SeqEqual
  <2> QED
    BY <2>1, <2>4
<1>7. Append(a, c) = a \o <<c>>
  BY <1>3, AppendIs
<1>8. <<c>> \in Seq(Seq(Int)) /\ FlattenSeq(<<c>>) = c
  BY <1>5, SingleSeq, FlattenOne
<1>9. FlattenSeq(a \o <<c>>) = FlattenSeq(a) \o FlattenSeq(<<c>>)
  BY <1>3, <1>8, FlattenConcat
<1>10. FlattenSeq(a) \in Seq(Int)
  BY <1>3, FlattenSeqType
<1> QED
  BY <1>0, <1>2, <1>6, <1>7, <1>8, <1>9, <1>10, StatedIs

\* A field's complete reports after a report that may or may not be one of them.
LEMMA CompleteNext ==
  ASSUME MapInv, DecoderInv, phase = "VALID", NEW n \in Notifications, ProcessInputReport(n),
         NEW i \in DOMAIN fields_, NEW field, field = fields_[i], field.kind = "INPUT"
  PROVE  /\ CompleteReports(field) \in Seq(Notifications)
         /\ CompleteReports(field)' = IF n \in CompleteFor(field) THEN Append(CompleteReports(field), n)
                                      ELSE CompleteReports(field)
<1>1. UNCHANGED vars /\ received' = Append(received, n) /\ received \in Seq(Notifications)
  BY DEF ProcessInputReport, DecoderInv
<1>2. /\ CompleteReports(field) \in Seq(Notifications)
      /\ CompleteReports(field)' =
           IF n.characteristic = "REPORT" /\ Decodes(n) /\ field.global["REPORT_ID"] = ReportId(n)
           THEN Append(CompleteReports(field), n) ELSE CompleteReports(field)
  BY <1>1, CompleteAfter
<1>3. n.characteristic = "REPORT" =>
        (n \in CompleteFor(field) <=> Decodes(n) /\ field.global["REPORT_ID"] = ReportId(n))
  BY FieldDecoded
<1>4. n \in CompleteFor(field) => n.characteristic = "REPORT"
  BY DEF CompleteFor
<1> QED
  BY <1>2, <1>3, <1>4

IsVariableInput(field) == field.kind = "INPUT" /\ ~IsConstant(field) /\ IsVariable(field)

ShownOfElement(field, k) == ShownOf(field.global["REPORT_ID"], ElementOffset(field, k))

StatedOf(field, k) == Stated(field, k, CompleteReports(field))

\* What is shown and what is remembered of a variable element agree with what was
\* stated of it.
Tracked(field, k) ==
  /\ "last_values" \in DOMAIN Runtime(field) /\ k \in DOMAIN Runtime(field).last_values
  /\ FollowsUp(ShownOfElement(field, k), StatedOf(field, k), Runtime(field).last_values[k],
               IsRelative(field))

\* What a complete report leaves in an element's last value.
LEMMA LastValueAfter ==
  ASSUME NEW field, IsVariable(field), NEW payload, NEW k \in Elements(field),
         "last_values" \in DOMAIN Runtime(field), k \in DOMAIN Runtime(field).last_values
  PROVE  /\ "last_values" \in DOMAIN FieldRuntime(field, payload)
         /\ k \in DOMAIN FieldRuntime(field, payload).last_values
         /\ FieldRuntime(field, payload).last_values[k] =
              IF Speaks(field, k, payload) THEN ElementValue(field, k, payload)
              ELSE Runtime(field).last_values[k]
<1> DEFINE lasts == [e \in Elements(field) |-> IF Speaks(field, e, payload)
                                              THEN ElementValue(field, e, payload)
                                              ELSE Runtime(field).last_values[e]]
<1>1. FieldRuntime(field, payload) = [Runtime(field) EXCEPT !.last_values = lasts]
  BY DEF FieldRuntime
<1>2. /\ k \in DOMAIN lasts
      /\ lasts[k] = IF Speaks(field, k, payload) THEN ElementValue(field, k, payload)
                    ELSE Runtime(field).last_values[k]
  OBVIOUS
<1> HIDE DEF lasts
<1>3. "last_values" \in DOMAIN FieldRuntime(field, payload) /\ FieldRuntime(field, payload).last_values = lasts
  BY <1>1
<1> QED
  BY <1>2, <1>3

\* The step of one element, in terms of what the report says.
LEMMA FollowsNext ==
  ASSUME NEW T, NEW s \in Seq(T), NEW stated \in Seq(Int), NEW last, NEW relative \in BOOLEAN,
         FollowsUp(s, stated, last, relative), NEW value, NEW within \in BOOLEAN, within => value \in Int,
         NEW speaks, speaks <=> within /\ value # IF relative THEN 0 ELSE last,
         NEW v, v.value = value
  PROVE  FollowsUp(s \o (IF speaks THEN <<v>> ELSE <<>>), stated \o (IF within THEN <<value>> ELSE <<>>),
                   IF speaks THEN value ELSE last, relative)
<1>1. s \o <<v>> = Append(s, v) /\ s \o <<>> = s
  BY AppendIs
<1>2. stated \o <<value>> = Append(stated, value) /\ stated \o <<>> = stated
  BY AppendIs
<1>3. CASE ~within
  BY <1>1, <1>2, <1>3
<1>4. CASE within /\ ~speaks
  <2>1. value \in Int /\ value = IF relative THEN 0 ELSE last
    BY <1>4
  <2>2. FollowsUp(s, Append(stated, value), last, relative)
    BY <2>1, FollowsStated
  <2> QED
    BY <1>1, <1>2, <1>4, <2>2
<1>5. CASE speaks
  <2>1. within /\ value \in Int /\ value # IF relative THEN 0 ELSE last
    BY <1>5
  <2>2. FollowsUp(Append(s, v), Append(stated, value), value, relative)
    BY <2>1, FollowsShown
  <2> QED
    BY <1>1, <1>2, <1>5, <2>1, <2>2
<1> QED
  BY <1>3, <1>4, <1>5

LEMMA TrackedAfter ==
  ASSUME MapInv, ParserTypeOK, DecoderInv, phase = "VALID", NEW n \in Notifications, ProcessInputReport(n),
         NEW field \in Range(fields_), IsVariableInput(field), NEW k \in Elements(field), Tracked(field, k)
  PROVE  Tracked(field, k)'
<1>1. FieldsSound
  BY FieldsAreSound DEF DecoderInv
<1>2. PICK i \in DOMAIN fields_ : field = fields_[i]
  BY DEF Range
<1>3. field.kind = "INPUT" /\ ~IsConstant(field) /\ IsVariable(field) /\ Sound(field)
  BY <1>1, <1>2 DEF IsVariableInput, FieldsSound
<1>4. UNCHANGED vars
  BY DEF ProcessInputReport
<1>5. PICK s, added : s = ShownOfElement(field, k) /\ added = Added(n, field, k)
  OBVIOUS
<1>6. ShownOfElement(field, k)' = s \o added /\ \E T : s \in Seq(T) /\ added \in Seq(T)
  <2>1. PICK id, p : id = field.global["REPORT_ID"] /\ p = ElementOffset(field, k)
    OBVIOUS
  <2>2. ShownOf(id, p)' = ShownOf(id, p) \o added /\ \E T : ShownOf(id, p) \in Seq(T) /\ added \in Seq(T)
    BY <1>2, <1>3, <1>5, <2>1, ShownAfter
  <2>3. s = ShownOf(id, p)
    BY <1>5, <2>1 DEF ShownOfElement
  <2>4. ShownOfElement(field, k)' = ShownOf(id, p)'
    BY <2>1 DEF ShownOfElement, ElementOffset
  <2> QED
    BY <2>2, <2>3, <2>4
<1>7. PICK T : s \in Seq(T) /\ added \in Seq(T)
  BY <1>6
<1>8. PICK complete, stated, more :
        complete = CompleteReports(field) /\ stated = StatedOf(field, k) /\ more = StatedBy(field, k, n)
  OBVIOUS
<1>9. /\ complete \in Seq(Notifications)
      /\ CompleteReports(field)' = IF n \in CompleteFor(field) THEN Append(complete, n) ELSE complete
  BY <1>2, <1>3, <1>8, CompleteNext
<1>10. /\ stated \in Seq(Int)
       /\ StatedOf(field, k)' = stated \o (IF n \in CompleteFor(field) THEN more ELSE <<>>)
  <2>1. StatedOf(field, k)' = Stated(field, k, CompleteReports(field)')
    BY DEF StatedOf, Stated, Meaning, BitsOf, NumberOf, ElementOffset, InRange
  <2>2. /\ Stated(field, k, complete) \in Seq(Int)
        /\ Stated(field, k, Append(complete, n)) = Stated(field, k, complete) \o StatedBy(field, k, n)
    BY <1>3, <1>9, StatedMore
  <2>3. stated = Stated(field, k, complete)
    BY <1>8 DEF StatedOf
  <2>4. stated \in Seq(Int) /\ stated \o <<>> = stated
    BY <2>2, <2>3, ConcatEmptySeq
  <2> QED
    BY <1>8, <1>9, <2>1, <2>2, <2>3, <2>4
<1>11. PICK was : was = Runtime(field).last_values
  OBVIOUS
<1>12. /\ "last_values" \in DOMAIN Runtime(field) /\ k \in DOMAIN was
       /\ FollowsUp(s, stated, was[k], IsRelative(field))
  BY <1>5, <1>8, <1>11 DEF Tracked
<1>13. Runtime(field)' = IF n \in CompleteFor(field) THEN FieldRuntime(field, n.payload) ELSE Runtime(field)
  BY <1>2, <1>3, RuntimeNext
<1>14. Tracked(field, k)' = /\ "last_values" \in DOMAIN Runtime(field)'
                            /\ k \in DOMAIN (Runtime(field)').last_values
                            /\ FollowsUp(ShownOfElement(field, k)', StatedOf(field, k)',
                                         (Runtime(field)').last_values[k], IsRelative(field))
  BY DEF Tracked, FollowsUp, Numbers, ValuesOf
<1>15. CASE n \in CompleteFor(field)
  <2>1. PICK value : value = ElementValue(field, k, n.payload)
    OBVIOUS
  <2>2. value = Meaning(field, k, n.payload)
    BY <1>1, <1>2, <1>3, <1>15, <2>1, ElementMeans
  <2>3. PICK within, speaks : within = InRange(field, value) /\ speaks = Speaks(field, k, n.payload)
    OBVIOUS
  <2>4. within \in BOOLEAN /\ (within => value \in Int)
    <3>1. field.global["LOGICAL_MINIMUM"] \in Int /\ field.global["LOGICAL_MAXIMUM"] \in Int
      BY <1>3, SoundFacts
    <3>2. InRange(field, value) \in BOOLEAN
      BY DEF InRange
    <3>3. InRange(field, value) => value \in Int
      BY <3>1 DEF InRange
    <3> QED
      BY <2>3, <3>2, <3>3, Zenon
  <2>5. more = IF within THEN <<value>> ELSE <<>>
    BY <1>8, <2>2, <2>3 DEF StatedBy
  <2>6. speaks <=> within /\ value # IF IsRelative(field) THEN 0 ELSE was[k]
    BY <1>11, <2>1, <2>3 DEF Speaks
  <2>7. PICK v : v = VariableValue(field, k, n.payload)
    OBVIOUS
  <2>8. v.value = value
    BY <2>1, <2>7 DEF VariableValue, ItemValue
  <2>9. added = IF speaks THEN <<v>> ELSE <<>>
    BY <1>3, <1>5, <1>15, <2>3, <2>7, VariableAdds DEF Added
  <2>10. IsRelative(field) \in BOOLEAN
    BY DEF IsRelative, IsSet
  <2>11. FollowsUp(s \o (IF speaks THEN <<v>> ELSE <<>>), stated \o (IF within THEN <<value>> ELSE <<>>),
                   IF speaks THEN value ELSE was[k], IsRelative(field))
    BY <1>7, <1>10, <1>12, <2>4, <2>6, <2>8, <2>10, FollowsNext
  <2>12. /\ "last_values" \in DOMAIN FieldRuntime(field, n.payload)
         /\ k \in DOMAIN FieldRuntime(field, n.payload).last_values
         /\ FieldRuntime(field, n.payload).last_values[k] = IF speaks THEN value ELSE was[k]
    BY <1>3, <1>11, <1>12, <2>1, <2>3, LastValueAfter
  <2> QED
    BY <1>6, <1>10, <1>13, <1>14, <1>15, <2>5, <2>9, <2>11, <2>12
<1>16. CASE n \notin CompleteFor(field)
  <2>1. added = <<>>
    BY <1>5, <1>16 DEF Added
  <2>2. s \o <<>> = s /\ stated \o <<>> = stated
    BY <1>7, <1>10, ConcatEmptySeq
  <2> QED
    BY <1>6, <1>10, <1>11, <1>12, <1>13, <1>14, <1>16, <2>1, <2>2
<1> QED
  BY <1>15, <1>16

-----------------------------------------------------------------------------
(* Every field follows its complete reports. *)

FieldFollows(field) ==
  IF IsVariable(field) THEN \A k \in Elements(field) : Tracked(field, k) ELSE Balanced(field)

Decoded(field) == field.kind = "INPUT" /\ ~IsConstant(field)

\* What is shown of each field, and remembered of it, follows its complete reports.
FieldsFollow ==
  phase = "VALID" => \A i \in DOMAIN fields_ : Decoded(fields_[i]) => FieldFollows(fields_[i])

LEMMA NothingChosen ==
  ASSUME NEW s, s = <<>>, NEW S
  PROVE  Chosen(s, S) = <<>>
<1>1. s \in Seq({}) /\ DOMAIN s = {}
  BY EmptySeq
<1> QED
  BY <1>1, ChosenNone

LEMMA NothingStated ==
  ASSUME NEW field, NEW k, NEW reports, reports = <<>>
  PROVE  Stated(field, k, reports) = <<>>
<1>1. PICK s : s = EachStated(field, k, reports)
  OBVIOUS
<1>2. DOMAIN reports = {}
  BY EmptySeq
<1>3. s = [i \in {} |-> 0]
  BY <1>1, <1>2 DEF EachStated
<1>4. s = <<>> /\ s \in Seq(Seq({}))
  BY <1>3, EmptySeq
<1>5. FlattenSeq(s) = <<>>
  BY <1>4, FlattenEmpty
<1> QED
  BY <1>1, <1>5, StatedIs

LEMMA FieldFollowsAtFirst ==
  ASSUME received = <<>>, runtime_ = << >>, shown = <<>>, NEW field
  PROVE  FieldFollows(field)
<1>1. CompleteReports(field) = <<>> /\ Holds(field)
  BY HoldsAtFirst
<1>2. \A id, p : ShownOf(id, p) = <<>>
  BY NothingChosen DEF ShownOf
<1>3. Balanced(field)
  <2>1. Runtime(field).active = EmptyBag
    BY <1>1 DEF Holds
  <2>2. ShownOfArray(field) = <<>>
    BY <1>2 DEF ShownOfArray
  <2> QED
    BY <2>1, <2>2, BalancesAtFirst DEF Balanced
<1>4. ASSUME NEW k \in Elements(field) PROVE Tracked(field, k)
  <2>1. DOMAIN runtime_ = {}
    BY EmptySeq
  <2>2. /\ "last_values" \in DOMAIN Runtime(field) /\ k \in DOMAIN Runtime(field).last_values
        /\ Runtime(field).last_values[k] = 0
    BY <2>1 DEF Runtime
  <2>3. ShownOfElement(field, k) = <<>>
    BY <1>2 DEF ShownOfElement
  <2>4. StatedOf(field, k) = <<>>
    BY <1>1, NothingStated DEF StatedOf
  <2>5. FollowsUp(ShownOfElement(field, k), StatedOf(field, k), 0, IsRelative(field))
    BY <2>3, <2>4, FollowsAtFirst
  <2> QED
    BY <2>2, <2>5 DEF Tracked
<1> QED
  BY <1>3, <1>4 DEF FieldFollows

LEMMA FieldFollowsAtFirstAfter ==
  ASSUME received' = <<>>, runtime_' = << >>, shown' = <<>>, NEW field
  PROVE  FieldFollows(field)'
<1>1. Holds(field)'
  BY HoldsAtFirstAfter
<1>2. CompleteReports(field)' = <<>>
  <2>1. Chosen(received', CompleteFor(field)') = <<>>
    BY NothingChosen
  <2> QED
    BY <2>1 DEF CompleteReports
<1>3. ASSUME NEW id, NEW p PROVE ShownOf(id, p)' = <<>>
  <2>1. \A S : Chosen(shown', S) = <<>>
    BY NothingChosen
  <2> QED
    BY <2>1 DEF ShownOf
<1>4. Balanced(field)'
  <2>1. (Runtime(field)').active = EmptyBag
    BY <1>1, <1>2 DEF Holds
  <2>2. ShownOfArray(field)' = <<>>
    BY <1>3 DEF ShownOfArray
  <2>3. Balances(ShownOfArray(field)', (Runtime(field)').active)
    BY <2>1, <2>2, BalancesAtFirst
  <2>4. Balanced(field)' = Balances(ShownOfArray(field)', (Runtime(field)').active)
    BY DEF Balanced, Balances, Tally, Count, Says, Copies
  <2> QED
    BY <2>3, <2>4
<1>5. ASSUME NEW k \in Elements(field) PROVE Tracked(field, k)'
  <2>1. DOMAIN runtime_' = {}
    BY EmptySeq
  <2>2. /\ "last_values" \in DOMAIN Runtime(field)' /\ k \in DOMAIN (Runtime(field)').last_values
        /\ (Runtime(field)').last_values[k] = 0
    BY <2>1 DEF Runtime, Elements
  <2>3. ShownOfElement(field, k)' = <<>>
    <3>1. PICK id, p : id = field.global["REPORT_ID"] /\ p = ElementOffset(field, k)
      OBVIOUS
    <3>2. ShownOf(id, p)' = <<>>
      BY <1>3
    <3> QED
      BY <3>1, <3>2 DEF ShownOfElement, ElementOffset
  <2>4. StatedOf(field, k)' = <<>>
    <3>1. StatedOf(field, k)' = Stated(field, k, CompleteReports(field)')
      BY DEF StatedOf, Stated, Meaning, BitsOf, NumberOf, ElementOffset, InRange
    <3> QED
      BY <1>2, <3>1, NothingStated
  <2>5. FollowsUp(ShownOfElement(field, k)', StatedOf(field, k)', 0, IsRelative(field))
    BY <2>3, <2>4, FollowsAtFirst
  <2>6. Tracked(field, k)' = /\ "last_values" \in DOMAIN Runtime(field)'
                             /\ k \in DOMAIN (Runtime(field)').last_values
                             /\ FollowsUp(ShownOfElement(field, k)', StatedOf(field, k)',
                                          (Runtime(field)').last_values[k], IsRelative(field))
    BY DEF Tracked, FollowsUp, Numbers, ValuesOf
  <2> QED
    BY <2>2, <2>5, <2>6
<1>6. FieldFollows(field)' =
        IF IsVariable(field) THEN \A k \in Elements(field) : Tracked(field, k)' ELSE Balanced(field)'
  BY DEF FieldFollows, Elements, IsVariable, IsSet, Bit
<1> QED
  BY <1>4, <1>5, <1>6

LEMMA FieldFollowsSame ==
  ASSUME UNCHANGED <<runtime_, received, shown, reports_>>, NEW field
  PROVE  FieldFollows(field)' = FieldFollows(field)
<1>1. Runtime(field)' = Runtime(field)
  BY DEF Runtime
<1>2. CompleteReports(field)' = CompleteReports(field)
  BY DEF CompleteReports, CompleteFor
<1>3. Balanced(field)' = Balanced(field)
  BY <1>1 DEF Balanced, ShownOfArray, ShownOf, Balances, Tally, Count, Says, Copies
<1>4. \A k : Tracked(field, k)' = Tracked(field, k)
  BY <1>1, <1>2 DEF Tracked, FollowsUp, Numbers, ValuesOf, ShownOfElement, ShownOf, StatedOf, Stated,
                    Meaning, BitsOf, NumberOf, ElementOffset, InRange
<1>5. FieldFollows(field)' =
        IF IsVariable(field) THEN \A k \in Elements(field) : Tracked(field, k)' ELSE Balanced(field)'
  BY DEF FieldFollows, Elements, IsVariable, IsSet, Bit
<1> QED
  BY <1>3, <1>4, <1>5 DEF FieldFollows

LEMMA FieldsFollowParser ==
  ASSUME DecoderInv, ArraysFollow, FieldsFollow, [Next]_vars, UNCHANGED decoderVars
  PROVE  FieldsFollow'
<1>1. received' = received /\ runtime_' = runtime_ /\ shown' = shown
  BY DEF decoderVars, runtimeVars
<1>2. CASE UNCHANGED vars
  <2>1. fields_' = fields_ /\ reports_' = reports_ /\ phase' = phase
    BY <1>2 DEF vars, mapVars, inputVars
  <2>2. \A field : FieldFollows(field)' = FieldFollows(field)
    BY <1>1, <2>1, FieldFollowsSame
  <2>3. ASSUME phase' = "VALID", NEW i \in DOMAIN fields_', Decoded(fields_[i])'
        PROVE  FieldFollows(fields_[i])'
    <3> PICK field : field = fields_[i]
      OBVIOUS
    <3>1. i \in DOMAIN fields_ /\ fields_'[i] = field /\ Decoded(field)
      BY <2>1, <2>3 DEF Decoded, IsConstant, IsSet, Bit
    <3>2. FieldFollows(field)
      BY <2>1, <2>3, <3>1 DEF FieldsFollow
    <3>3. FieldFollows(field)'
      BY <2>2, <3>2
    <3>4. FieldFollows(fields_[i])' = FieldFollows(field)'
      BY <3>1
    <3> QED
      BY <3>3, <3>4
  <2> QED
    BY <2>3 DEF FieldsFollow
<1>3. CASE Next
  <2>1. received' = <<>> /\ runtime_' = << >> /\ shown' = <<>>
    BY <1>1, <1>3, ParserStops DEF ArraysFollow, DecoderInv
  <2>2. \A field : FieldFollows(field)'
    BY <2>1, FieldFollowsAtFirstAfter
  <2> QED
    BY <2>2 DEF FieldsFollow
<1> QED
  BY <1>2, <1>3

LEMMA FieldFollowsAfter ==
  ASSUME MapInv, ParserTypeOK, DecoderInv, ArraysFollow, phase = "VALID",
         NEW n \in Notifications, ProcessInputReport(n),
         NEW field \in Range(fields_), Decoded(field), FieldFollows(field)
  PROVE  FieldFollows(field)'
<1>1. FieldFollows(field)' =
        IF IsVariable(field) THEN \A k \in Elements(field) : Tracked(field, k)' ELSE Balanced(field)'
  BY DEF FieldFollows, Elements, IsVariable, IsSet, Bit
<1>2. CASE IsVariable(field)
  <2>1. IsVariableInput(field)
    BY <1>2 DEF IsVariableInput, Decoded
  <2>2. ASSUME NEW k \in Elements(field) PROVE Tracked(field, k)'
    <3>1. Tracked(field, k)
      BY <1>2, <2>2 DEF FieldFollows
    <3> QED
      BY <2>1, <3>1, TrackedAfter
  <2> QED
    BY <1>1, <1>2, <2>2
<1>3. CASE ~IsVariable(field)
  <2>1. IsArray(field) /\ Balanced(field)
    BY <1>3 DEF IsArray, Decoded, FieldFollows
  <2>2. Holds(field)
    <3>1. PICK i \in DOMAIN fields_ : field = fields_[i]
      BY DEF Range
    <3> QED
      BY <2>1, <3>1 DEF ArraysFollow
  <2>3. Balanced(field)'
    BY <2>1, <2>2, BalancedAfter
  <2> QED
    BY <1>1, <1>3, <2>3
<1> QED
  BY <1>2, <1>3

LEMMA FieldsFollowReport ==
  ASSUME MapInv, ParserTypeOK, DecoderInv, ArraysFollow, FieldsFollow,
         NEW n \in Notifications, ProcessInputReport(n)
  PROVE  FieldsFollow'
<1>1. fields_' = fields_ /\ phase' = phase
  BY DEF ProcessInputReport, vars, mapVars, inputVars
<1>2. ASSUME phase' = "VALID", NEW i \in DOMAIN fields_', Decoded(fields_[i])'
      PROVE  FieldFollows(fields_[i])'
  <2>1. PICK field : field = fields_[i]
    OBVIOUS
  <2>2. i \in DOMAIN fields_ /\ fields_'[i] = field /\ Decoded(field) /\ phase = "VALID"
    BY <1>1, <1>2, <2>1 DEF Decoded, IsConstant, IsSet, Bit
  <2>3. field \in Range(fields_)
    BY <2>1, <2>2 DEF Range
  <2>4. FieldFollows(field)
    BY <2>1, <2>2 DEF FieldsFollow
  <2>5. FieldFollows(field)'
    BY <2>2, <2>3, <2>4, FieldFollowsAfter
  <2>6. FieldFollows(fields_[i])' = FieldFollows(field)'
    BY <2>2
  <2> QED
    BY <2>5, <2>6
<1> QED
  BY <1>2 DEF FieldsFollow

LEMMA FieldsFollowInvariant ==
  DecoderSpec => [](MapInv /\ ParserTypeOK /\ DecoderInv /\ ArraysFollow /\ FieldsFollow)
<1>1. ASSUME MapInv, ParserTypeOK, DecoderInv, ArraysFollow, FieldsFollow, [DecoderNext]_allVars
      PROVE  FieldsFollow'
  <2>1. CASE Next /\ UNCHANGED decoderVars
    BY <1>1, <2>1, FieldsFollowParser
  <2>2. CASE \E n \in Notifications : ProcessInputReport(n)
    BY <1>1, <2>2, FieldsFollowReport
  <2>3. CASE UNCHANGED allVars
    BY <1>1, <2>3, FieldsFollowParser DEF allVars
  <2> QED
    BY <1>1, <2>1, <2>2, <2>3 DEF DecoderNext
<1>2. DecoderInit => FieldsFollow
  <2> SUFFICES ASSUME DecoderInit PROVE FieldsFollow
    OBVIOUS
  <2>1. received = <<>> /\ runtime_ = << >> /\ shown = <<>>
    BY DEF DecoderInit
  <2> QED
    BY <2>1, FieldFollowsAtFirst DEF FieldsFollow
<1> QED
  BY <1>1, <1>2, ArraysInvariant, PTL DEF DecoderSpec

\* What is shown of a variable element is what complete reports state of it, as far as
\* its field's range goes: movements add up, an absolute element shows each value that
\* is new once and the last one last (parse_input_, of the fields of any Report Map,
\* after any reports).
THEOREM VariablesFollow == DecoderSpec => []VariablesFollowReports
<1>1. ASSUME FieldsFollow PROVE VariablesFollowReports
  <2> SUFFICES ASSUME NEW f \in {g \in DecodedFields : IsVariable(g)}, NEW k \in Elements(f)
               PROVE  LET stated == Stated(f, k, CompleteReports(f))
                          events == ShownOf(f.global["REPORT_ID"], ElementOffset(f, k))
                          was(i) == IF i = 1 THEN 0 ELSE events[i - 1].value
                      IN  IF IsRelative(f)
                          THEN Total([i \in DOMAIN events |-> events[i].value]) = Total(stated)
                          ELSE /\ (IF events = <<>> THEN 0 ELSE Last(events).value)
                                    = (IF stated = <<>> THEN 0 ELSE Last(stated))
                               /\ \A i \in DOMAIN events : events[i].value # was(i)
    BY DEF VariablesFollowReports
  <2>1. phase = "VALID" /\ f \in Range(fields_) /\ f.kind = "INPUT" /\ ~IsConstant(f) /\ IsVariable(f)
    BY DEF DecodedFields
  <2>2. PICK i \in DOMAIN fields_ : f = fields_[i]
    BY <2>1 DEF Range
  <2>3. Tracked(f, k)
    BY <1>1, <2>1, <2>2 DEF FieldsFollow, FieldFollows, Decoded
  <2>4. PICK events, stated, last :
          /\ events = ShownOf(f.global["REPORT_ID"], ElementOffset(f, k))
          /\ stated = Stated(f, k, CompleteReports(f)) /\ last = Runtime(f).last_values[k]
    OBVIOUS
  <2>5. FollowsUp(events, stated, last, IsRelative(f))
    BY <2>3, <2>4 DEF Tracked, ShownOfElement, StatedOf
  <2> QED
    BY <2>4, <2>5 DEF FollowsUp, ValuesOf
<1> QED
  BY <1>1, FieldsFollowInvariant, PTL

\* An asserted usage has as many slots as the bag says, other usages have none.
LEMMA CopiesAreSlots ==
  ASSUME MapInv, FieldsSound, NEW f \in DOMAIN fields_, NEW field, field = fields_[f],
         field.kind = "INPUT", NEW n \in Notifications, n \in CompleteFor(field), NEW u, Telling(u)
  PROVE  Copies(u, Asserted(field, n.payload)) = SlotsOf(field, u, n.payload)
<1> DEFINE usage(k) == UsageAt(field,
                         ElementValue(field, k, n.payload) - field.global["LOGICAL_MINIMUM"], FALSE)
           slots    == {k \in Elements(field) : /\ InRange(field, ElementValue(field, k, n.payload))
                                                /\ usage(k).page # 0 /\ usage(k).usage # 0}
           used     == {usage(k) : k \in slots}
           of       == {k \in Elements(field) :
                          /\ InRange(field, Meaning(field, k, n.payload))
                          /\ UsageAt(field, Meaning(field, k, n.payload)
                                              - field.global["LOGICAL_MINIMUM"], FALSE) = u}
           chosen   == {k \in slots : usage(k) = u}
<1>1. Asserted(field, n.payload) = [x \in used |-> Cardinality({k \in slots : usage(k) = x})]
  BY DEF Asserted
<1>2. \A k \in Elements(field) : ElementValue(field, k, n.payload) = Meaning(field, k, n.payload)
  BY ElementMeans
<1>3. of = chosen
  BY <1>2 DEF Telling
<1>4. SlotsOf(field, u, n.payload) = Cardinality(of)
  BY DEF SlotsOf
<1>5. CASE u \in used
  <2>1. u \in DOMAIN Asserted(field, n.payload) /\ Asserted(field, n.payload)[u] = Cardinality(chosen)
    BY <1>1, <1>5
  <2> HIDE DEF chosen, of
  <2> QED
    BY <1>3, <1>4, <2>1 DEF Copies
<1>6. CASE u \notin used
  <2>1. u \notin DOMAIN Asserted(field, n.payload)
    BY <1>1, <1>6
  <2>2. chosen = {}
    BY <1>6
  <2> HIDE DEF chosen, of
  <2> QED
    BY <1>3, <1>4, <2>1, <2>2, FS_EmptySet DEF Copies
<1> QED
  BY <1>5, <1>6

\* Counting the presses and releases that were shown of an array's usage tells how many
\* slots of its last complete report assert it (parse_input_, which remembers the
\* asserted usages as a multiset).
THEOREM HeldUsagesAreCounted == DecoderSpec => []HeldUsagesBalance
<1>1. ASSUME MapInv, ParserTypeOK, DecoderInv, ArraysFollow, FieldsFollow PROVE HeldUsagesBalance
  <2> SUFFICES ASSUME NEW f \in {g \in DecodedFields : ~IsVariable(g)},
                      NEW u \in {e.usage : e \in Range(ShownOf(f.global["REPORT_ID"], f.bit_offset))}
                                  \cup (IF CompleteReports(f) = <<>> THEN {}
                                        ELSE BagToSet(Asserted(f, Last(CompleteReports(f)).payload)))
               PROVE  Tally(ShownOf(f.global["REPORT_ID"], f.bit_offset), u) =
                        IF CompleteReports(f) = <<>> THEN 0
                        ELSE SlotsOf(f, u, Last(CompleteReports(f)).payload)
    BY DEF HeldUsagesBalance, Tally, Count, Says
  <2>1. phase = "VALID" /\ f \in Range(fields_) /\ f.kind = "INPUT" /\ ~IsConstant(f) /\ ~IsVariable(f)
    BY DEF DecodedFields
  <2>2. PICK i \in DOMAIN fields_ : f = fields_[i]
    BY <2>1 DEF Range
  <2>3. Balanced(f) /\ Holds(f)
    BY <1>1, <2>1, <2>2 DEF FieldsFollow, FieldFollows, Decoded, ArraysFollow, IsArray
  <2>4. PICK events, reports, active :
          /\ events = ShownOf(f.global["REPORT_ID"], f.bit_offset) /\ reports = CompleteReports(f)
          /\ active = Runtime(f).active
    OBVIOUS
  <2>5. Tally(events, u) = Copies(u, active) /\ \A j \in DOMAIN events : Telling(events[j].usage)
    BY <2>3, <2>4 DEF Balanced, ShownOfArray, Balances
  <2>6. Telling(u)
    <3>1. CASE u \in {e.usage : e \in Range(events)}
      BY <2>5, <3>1 DEF Range
    <3>2. CASE u \in BagToSet(Asserted(f, Last(reports).payload))
      BY <3>2, AssertedTelling DEF BagToSet
    <3> QED
      BY <2>4, <3>1, <3>2
  <2>7. CASE reports = <<>>
    <3>1. active = EmptyBag
      BY <2>3, <2>4, <2>7 DEF Holds
    <3>2. EmptyBag = [x \in {} |-> 1]
      BY DEF EmptyBag, SetToBag
    <3>3. DOMAIN active = {}
      BY <3>1, <3>2
    <3> QED
      BY <2>4, <2>5, <2>7, <3>3 DEF Copies
  <2>8. CASE reports # <<>>
    <3>1. PICK n : n = Last(reports)
      OBVIOUS
    <3>2. active = Asserted(f, n.payload)
      BY <2>3, <2>4, <2>8, <3>1 DEF Holds
    <3>3. n \in Notifications /\ n \in CompleteFor(f)
      <4>1. received \in Seq(Notifications)
        BY <1>1 DEF DecoderInv
      <4>2. reports \in Seq(CompleteFor(f))
        BY <2>4, <4>1, ChosenType DEF CompleteReports
      <4>3. n \in CompleteFor(f)
        <5>1. Len(reports) \in 1 .. Len(reports)
          BY <2>8, <4>2, EmptySeq, LenProperties
        <5> QED
          BY <3>1, <4>2, <5>1, ElementOfSeq DEF Last
      <4> QED
        BY <4>3 DEF CompleteFor
    <3>4. FieldsSound
      BY <1>1, FieldsAreSound DEF DecoderInv
    <3>5. Copies(u, active) = SlotsOf(f, u, n.payload)
      BY <1>1, <2>1, <2>2, <2>6, <3>2, <3>3, <3>4, CopiesAreSlots
    <3> QED
      BY <2>4, <2>5, <2>8, <3>1, <3>5
  <2> QED
    BY <2>7, <2>8
<1> QED
  BY <1>1, FieldsFollowInvariant, PTL

-----------------------------------------------------------------------------
(* Boot reports: the last value shown of a key or button is its state. *)

\* The values of a usage.
Of(s, u) == Chosen(s, {v \in Range(s) : v.usage = u})

LEMMA OfNone ==
  ASSUME NEW s, IsSequence(s), NEW u, \A i \in DOMAIN s : s[i].usage # u
  PROVE  Of(s, u) = <<>>
<1>1. \A i \in DOMAIN s : s[i] \notin {v \in Range(s) : v.usage = u}
  OBVIOUS
<1>2. PICK T : s \in Seq(T)
  BY DEF IsSequence
<1> QED
  BY <1>1, <1>2, ChosenNone DEF Of

LEMMA OfOnly ==
  ASSUME NEW s, IsSequence(s), NEW u, NEW i \in DOMAIN s, s[i].usage = u,
         \A j \in DOMAIN s : j # i => s[j].usage # u
  PROVE  Of(s, u) = <<s[i]>>
<1>1. PICK R : R = {v \in Range(s) : v.usage = u}
  OBVIOUS
<1>2. s[i] \in R /\ \A j \in DOMAIN s : j # i => s[j] \notin R
  BY <1>1 DEF Range
<1>3. PICK T : s \in Seq(T)
  BY DEF IsSequence
<1>4. Chosen(s, R) = <<s[i]>>
  BY <1>2, <1>3, ChosenOnly
<1> QED
  BY <1>1, <1>4 DEF Of

LEMMA OfParts ==
  ASSUME NEW s, IsSequence(s), NEW t, IsSequence(t), NEW u
  PROVE  /\ IsSequence(s \o t) /\ Of(s \o t, u) = Of(s, u) \o Of(t, u)
         /\ \E T : Of(s, u) \in Seq(T) /\ Of(t, u) \in Seq(T)
<1>1. PICK T : s \in Seq(T) /\ t \in Seq(T)
  <2>1. PICK A, B : s \in Seq(A) /\ t \in Seq(B)
    BY DEF IsSequence
  <2>2. s \in Seq(A \cup B) /\ t \in Seq(A \cup B)
    BY <2>1, SeqMonotonic
  <2> QED
    BY <2>2
<1>2. PICK R : R = {v \in T : v.usage = u}
  OBVIOUS
<1>3. ASSUME NEW q \in Seq(T) PROVE Of(q, u) = Chosen(q, R)
  <2>1. PICK A : A = {v \in Range(q) : v.usage = u}
    OBVIOUS
  <2>2. \A i \in DOMAIN q : q[i] \in A <=> q[i] \in R
    <3>1. \A i \in DOMAIN q : q[i] \in T /\ q[i] \in Range(q)
      BY ElementOfSeq, LenProperties DEF Range
    <3> QED
      BY <1>2, <2>1, <3>1
  <2>3. Chosen(q, A) = Chosen(q, R)
    BY <2>2, ChosenSame
  <2> QED
    BY <2>1, <2>3 DEF Of
<1>4. s \o t \in Seq(T) /\ Chosen(s \o t, R) = Chosen(s, R) \o Chosen(t, R)
  BY <1>1, ChosenConcat
<1>5. Of(s \o t, u) = Chosen(s \o t, R) /\ Of(s, u) = Chosen(s, R) /\ Of(t, u) = Chosen(t, R)
  BY <1>1, <1>3, <1>4
<1>6. Chosen(s, R) \in Seq(T) /\ Chosen(t, R) \in Seq(T)
  BY <1>1, ChosenType
<1> QED
  BY <1>4, <1>5, <1>6, SequenceOfItself

-----------------------------------------------------------------------------
(* What is shown of a key or a button that is held or not. *)

Shows(of, held) == IF held THEN of # <<>> /\ Last(of).value = 1 ELSE of # <<>> => Last(of).value = 0

\* The values of a switch that was in one state and now is in another.
Switches(of, was, now) ==
  IF was = now THEN of = <<>> ELSE \E v : v.value = (IF now THEN 1 ELSE 0) /\ of = <<v>>

LEMMA ShowsNext ==
  ASSUME NEW T, NEW s \in Seq(T), NEW t, NEW was \in BOOLEAN, NEW now \in BOOLEAN,
         Shows(s, was), Switches(t, was, now)
  PROVE  Shows(s \o t, now)
<1>1. CASE was = now
  <2>1. t = <<>> /\ s \o <<>> = s
    BY <1>1, ConcatEmptySeq DEF Switches
  <2> QED
    BY <1>1, <2>1
<1>2. CASE was # now
  <2>1. PICK v : v.value = (IF now THEN 1 ELSE 0) /\ t = <<v>>
    BY <1>2 DEF Switches
  <2>2. s \o <<v>> = Append(s, v) /\ Append(s, v) # <<>> /\ Last(Append(s, v)) = v
    BY AppendIs
  <2> QED
    BY <2>1, <2>2 DEF Shows
<1> QED
  BY <1>1, <1>2

LEMMA BitsSwitch ==
  ASSUME NEW n, NEW byte, NEW before, NEW count \in Nat, NEW page, NEW usage \in Nat,
         NEW field_id \in Nat, NEW b \in 0 .. count - 1
  PROVE  Switches(Of(BitChanges(n, byte, before, count, page, usage, field_id), Usage(page, usage + b)),
                  IsSet(before, b), IsSet(byte, b))
<1>1. PICK changed, all :
        /\ all = BitChanges(n, byte, before, count, page, usage, field_id)
        /\ ShowsBits(all, changed, n, byte, before, count, page, usage, field_id)
  BY BitChangesAre
<1>2. \A p, u, v, f : BootValue(n, p, u, v, f).usage = Usage(p, u) /\ BootValue(n, p, u, v, f).value = v
  BY DEF BootValue, ItemValue
<1>3. /\ IsSequence(all) /\ DOMAIN all = DOMAIN changed
      /\ \A i \in DOMAIN changed :
           /\ changed[i] \in 0 .. count - 1
           /\ all[i].usage = Usage(page, usage + changed[i])
           /\ all[i].value = IF IsSet(byte, changed[i]) THEN 1 ELSE 0
  BY <1>1, <1>2 DEF ShowsBits
<1>4. \A i \in DOMAIN changed : all[i].usage = Usage(page, usage + b) <=> changed[i] = b
  <2>1. \A c \in 0 .. count - 1 : Usage(page, usage + c) = Usage(page, usage + b) <=> c = b
    <3>1. ASSUME NEW c \in 0 .. count - 1, Usage(page, usage + c) = Usage(page, usage + b) PROVE c = b
      <4>1. \A x : Usage(page, x).usage = x
        BY DEF Usage
      <4>2. usage + c = usage + b
        BY <3>1, <4>1
      <4> QED
        BY <4>2
    <3> QED
      BY <3>1
  <2> QED
    BY <1>3, <2>1
<1>5. PICK S : S = {c \in 0 .. count - 1 : IsSet(byte, c) # IsSet(before, c)}
  OBVIOUS
<1>6. ListsOnce(changed, S)
  BY <1>1, <1>5 DEF ShowsBits
<1>7. CASE b \in S
  <2>1. PICK i \in DOMAIN changed : changed[i] = b /\ \A j \in DOMAIN changed : changed[j] = b => j = i
    BY <1>6, <1>7 DEF ListsOnce
  <2>2. PICK w : w = Usage(page, usage + b)
    OBVIOUS
  <2>3. i \in DOMAIN all /\ all[i].usage = w /\ \A j \in DOMAIN all : j # i => all[j].usage # w
    BY <1>3, <1>4, <2>1, <2>2
  <2>4. Of(all, w) = <<all[i]>>
    BY <1>3, <2>3, OfOnly
  <2>5. all[i].value = IF IsSet(byte, b) THEN 1 ELSE 0
    BY <1>3, <2>1
  <2>6. IsSet(byte, b) # IsSet(before, b)
    BY <1>5, <1>7
  <2> QED
    BY <1>1, <2>2, <2>4, <2>5, <2>6 DEF Switches
<1>8. CASE b \notin S
  <2>1. \A i \in DOMAIN changed : changed[i] # b
    <3>1. \A i \in DOMAIN changed : changed[i] \in S
      BY <1>6, ElementOfSeq, LenProperties DEF ListsOnce
    <3> QED
      BY <1>8, <3>1
  <2>2. PICK w : w = Usage(page, usage + b)
    OBVIOUS
  <2>3. Of(all, w) = <<>>
    BY <1>3, <1>4, <2>1, <2>2, OfNone
  <2>4. IsSet(byte, b) = IsSet(before, b)
    BY <1>5, <1>8
  <2> QED
    BY <1>1, <2>2, <2>3, <2>4 DEF Switches
<1> QED
  BY <1>7, <1>8

LEMMA BitsElsewhere ==
  ASSUME NEW n, NEW byte, NEW before, NEW count \in Nat, NEW page, NEW usage \in Nat,
         NEW field_id \in Nat, NEW w,
         w.page # page \/ w.usage \notin usage .. usage + count - 1
  PROVE  /\ Of(BitChanges(n, byte, before, count, page, usage, field_id), w) = <<>>
         /\ IsSequence(BitChanges(n, byte, before, count, page, usage, field_id))
<1>1. PICK changed, all :
        /\ all = BitChanges(n, byte, before, count, page, usage, field_id)
        /\ ShowsBits(all, changed, n, byte, before, count, page, usage, field_id)
  BY BitChangesAre
<1>2. \A p, u, v, f : /\ BootValue(n, p, u, v, f).usage.page = p
                      /\ BootValue(n, p, u, v, f).usage.usage = u
  BY DEF BootValue, ItemValue, Usage
<1>3. ASSUME NEW i \in DOMAIN all PROVE all[i].usage # w
  <2>1. /\ changed[i] \in 0 .. count - 1
        /\ all[i].usage.page = page /\ all[i].usage.usage = usage + changed[i]
    BY <1>1, <1>2 DEF ShowsBits
  <2>2. usage + changed[i] \in usage .. usage + count - 1
    BY <2>1
  <2> QED
    BY <2>1, <2>2
<1>4. IsSequence(all)
  BY <1>1 DEF ShowsBits
<1> QED
  BY <1>1, <1>3, <1>4, OfNone

LEMMA KeysOf ==
  ASSUME NEW n, NEW keys \in SUBSET (1 .. 231), NEW value, NEW u
  PROVE  IF u \in keys THEN \E v : v.value = value /\ Of(KeyChanges(n, keys, value), Usage(7, u)) = <<v>>
         ELSE Of(KeyChanges(n, keys, value), Usage(7, u)) = <<>>
<1>1. PICK sorted, all :
           /\ all = KeyChanges(n, keys, value)
           /\ ListsOnce(sorted, keys)
           /\ IsSequence(all) /\ DOMAIN all = DOMAIN sorted
           /\ \A i \in DOMAIN sorted :
                sorted[i] \in keys /\ all[i] = BootValue(n, 7, sorted[i], value, 61952)
  BY KeyChangesAre
<1>2. \A p, x, v, f : BootValue(n, p, x, v, f).usage = Usage(p, x) /\ BootValue(n, p, x, v, f).value = v
  BY DEF BootValue, ItemValue
<1>3. \A x, y : Usage(7, x) = Usage(7, y) <=> x = y
  BY DEF Usage
<1>4. PICK w : w = Usage(7, u)
  OBVIOUS
<1>5. \A i \in DOMAIN all : (all[i].usage = w <=> sorted[i] = u) /\ all[i].value = value /\ sorted[i] \in keys
  BY <1>1, <1>2, <1>3, <1>4
<1>6. CASE u \in keys
  <2>1. PICK i \in DOMAIN sorted : sorted[i] = u /\ \A j \in DOMAIN sorted : sorted[j] = u => j = i
    <3>1. ListsOnce(sorted, keys)
      BY <1>1
    <3> QED
      BY <1>6, <3>1 DEF ListsOnce
  <2>2. i \in DOMAIN all /\ all[i].usage = w /\ \A j \in DOMAIN all : j # i => all[j].usage # w
    BY <1>1, <1>5, <2>1
  <2>3. Of(all, w) = <<all[i]>>
    BY <1>1, <2>2, OfOnly
  <2> QED
    BY <1>1, <1>4, <1>5, <1>6, <2>2, <2>3
<1>7. CASE u \notin keys
  <2>1. \A i \in DOMAIN all : all[i].usage # w
    BY <1>5, <1>7
  <2>2. Of(all, w) = <<>>
    BY <1>1, <2>1, OfNone
  <2> QED
    BY <1>1, <1>4, <1>7, <2>2
<1> QED
  BY <1>6, <1>7

LEMMA KeysElsewhere ==
  ASSUME NEW n, NEW keys \in SUBSET (1 .. 231), NEW value, NEW w
  PROVE  /\ IsSequence(KeyChanges(n, keys, value))
         /\ w.page # 7 => Of(KeyChanges(n, keys, value), w) = <<>>
<1>1. PICK sorted, all :
           /\ all = KeyChanges(n, keys, value)
           /\ ListsOnce(sorted, keys)
           /\ IsSequence(all) /\ DOMAIN all = DOMAIN sorted
           /\ \A i \in DOMAIN sorted :
                sorted[i] \in keys /\ all[i] = BootValue(n, 7, sorted[i], value, 61952)
  BY KeyChangesAre
<1>2. \A p, u, v, f : BootValue(n, p, u, v, f).usage.page = p
  BY DEF BootValue, ItemValue, Usage
<1>3. ASSUME w.page # 7 PROVE \A i \in DOMAIN all : all[i].usage # w
  BY <1>1, <1>2, <1>3
<1> QED
  BY <1>1, <1>3, OfNone

LEMMA MovesElsewhere ==
  ASSUME NEW n, NEW byte, NEW usage, NEW field_id, NEW w
  PROVE  IsSequence(Moved(n, byte, usage, field_id)) /\ (w.page # 1 => Of(Moved(n, byte, usage, field_id), w) = <<>>)
<1>1. PICK v : v = BootValue(n, 1, usage, Signed8(byte), field_id)
  OBVIOUS
<1>2. v.usage.page = 1
  BY <1>1 DEF BootValue, ItemValue, Usage
<1>3. PICK s : s = <<v>>
  OBVIOUS
<1>4. s \in Seq({v}) /\ DOMAIN s = {1} /\ s[1] = v
  BY <1>3, SingleSeq
<1>5. <<>> \in Seq({}) /\ DOMAIN <<>> = {}
  BY EmptySeq
<1>6. IsSequence(s) /\ IsSequence(<<>>)
  BY <1>4, <1>5, SequenceOfItself
<1>7. w.page # 1 => Of(s, w) = <<>> /\ Of(<<>>, w) = <<>>
  BY <1>2, <1>4, <1>5, <1>6, OfNone
<1>8. Moved(n, byte, usage, field_id) = IF byte = 0 THEN <<>> ELSE s
  BY <1>1, <1>3 DEF Moved
<1> QED
  BY <1>6, <1>7, <1>8

KeyHeld(state, u) == u \in state.keys \/ (u \in 224 .. 231 /\ IsSet(state.modifiers, u - 224))

ButtonHeld(state, u) == u \in 1 .. 3 /\ IsSet(state.buttons, u - 1)

LEMMA ModifiersSwitch ==
  ASSUME NEW n, NEW byte, NEW before, NEW b \in 0 .. 7
  PROVE  Switches(Of(BitChanges(n, byte, before, 8, 7, 224, 61696), Usage(7, 224 + b)),
                  IsSet(before, b), IsSet(byte, b))
<1>1. PICK count, usage, field_id : count = 8 /\ usage = 224 /\ field_id = 61696
  OBVIOUS
<1>2. count \in Nat /\ usage \in Nat /\ field_id \in Nat /\ b \in 0 .. count - 1
  BY <1>1
<1>3. Switches(Of(BitChanges(n, byte, before, count, 7, usage, field_id), Usage(7, usage + b)),
               IsSet(before, b), IsSet(byte, b))
  BY <1>2, BitsSwitch
<1> QED
  BY <1>1, <1>3

LEMMA KeysSwitch ==
  \A n, value, u : \A keys \in SUBSET (1 .. 231) :
    LET all == Of(KeyChanges(n, keys, value), Usage(7, u))
    IN  IF u \in keys THEN \E v : v.value = value /\ all = <<v>> ELSE all = <<>>
BY KeysOf

ModifierChanges(n) == BitChanges(n, n.payload[1], boot_decoder_[n.handle].modifiers, 8, 7, 224, 61696)

KeyPresses(n) == KeyChanges(n, SlotKeys(n) \ boot_decoder_[n.handle].keys, 1)

KeyReleases(n) == KeyChanges(n, boot_decoder_[n.handle].keys \ SlotKeys(n), 0)

LEMMA KeyboardValues ==
  ASSUME NEW n, BootKeyboard(n)
  PROVE  values' = ModifierChanges(n) \o KeyPresses(n) \o KeyReleases(n)
BY DEF BootKeyboard, SlotKeys, ModifierChanges, KeyPresses, KeyReleases

\* A key that is not a modifier, or none that a bit names, has its slot's state.
LEMMA KeyboardShows ==
  ASSUME boot_decoder_ \in [Handles -> BootStates], NEW n \in Notifications, BootKeyboard(n),
         NEW u \in Nat,
         NEW was, was = boot_decoder_[n.handle].keys, NEW before, before = boot_decoder_[n.handle].modifiers,
         \/ u \notin was /\ u \notin SlotKeys(n)
         \/ u \in 224 .. 231 => ~IsSet(before, u - 224) /\ ~IsSet(n.payload[1], u - 224)
  PROVE  /\ IsSequence(values')
         /\ Switches(Of(values', Usage(7, u)),
                     u \in was \/ (u \in 224 .. 231 /\ IsSet(before, u - 224)),
                     u \in SlotKeys(n) \/ (u \in 224 .. 231 /\ IsSet(n.payload[1], u - 224)))
         /\ Of(values', Usage(9, u)) = <<>>
<1>1. PICK held, byte : held = SlotKeys(n) /\ byte = n.payload[1]
  OBVIOUS
<1>2. was \in SUBSET (1 .. 231) /\ held \in SUBSET (1 .. 231)
  <2>1. boot_decoder_[n.handle] \in BootStates
    BY DEF Handles
  <2> QED
    BY <1>1, <2>1 DEF BootStates, SlotKeys
<1>3. PICK gained, lost : gained = held \ was /\ lost = was \ held
  OBVIOUS
<1>4. gained \in SUBSET (1 .. 231) /\ lost \in SUBSET (1 .. 231)
  BY <1>2, <1>3
<1>5. PICK modifiers, pressed, released :
        /\ modifiers = BitChanges(n, byte, before, 8, 7, 224, 61696)
        /\ pressed = KeyChanges(n, gained, 1) /\ released = KeyChanges(n, lost, 0)
  OBVIOUS
<1>6. values' = modifiers \o pressed \o released
  <2>1. values' = ModifierChanges(n) \o KeyPresses(n) \o KeyReleases(n)
    BY KeyboardValues
  <2>2. modifiers = ModifierChanges(n) /\ pressed = KeyPresses(n) /\ released = KeyReleases(n)
    BY <1>1, <1>3, <1>5 DEF ModifierChanges, KeyPresses, KeyReleases
  <2> QED
    BY <2>1, <2>2
<1>7. PICK key, button : key = Usage(7, u) /\ button = Usage(9, u)
  OBVIOUS
<1>8. key.page = 7 /\ key.usage = u /\ button.page = 9
  BY <1>7 DEF Usage
<1>9. /\ IsSequence(modifiers) /\ IsSequence(pressed) /\ IsSequence(released)
      /\ Of(modifiers, button) = <<>> /\ Of(pressed, button) = <<>> /\ Of(released, button) = <<>>
  <2>1. IsSequence(modifiers) /\ Of(modifiers, button) = <<>>
    BY <1>5, <1>8, BitsElsewhere
  <2>2. IsSequence(pressed) /\ IsSequence(released) /\ Of(pressed, button) = <<>> /\ Of(released, button) = <<>>
    BY <1>4, <1>5, <1>8, KeysElsewhere
  <2> QED
    BY <2>1, <2>2
<1>10. PICK first : first = modifiers \o pressed
  OBVIOUS
<1>11. /\ IsSequence(first) /\ IsSequence(values')
       /\ \A w : /\ Of(values', w) = Of(first, w) \o Of(released, w)
                 /\ Of(first, w) = Of(modifiers, w) \o Of(pressed, w)
  <2>1. IsSequence(first) /\ \A w : Of(first, w) = Of(modifiers, w) \o Of(pressed, w)
    BY <1>9, <1>10, OfParts
  <2>2. values' = first \o released
    BY <1>6, <1>10
  <2>3. IsSequence(first \o released) /\ \A w : Of(first \o released, w) = Of(first, w) \o Of(released, w)
    BY <1>9, <2>1, OfParts
  <2> QED
    BY <2>1, <2>2, <2>3
<1>12. \A v : <<>> \o <<v>> = <<v>> /\ <<v>> \o <<>> = <<v>>
  <2> SUFFICES ASSUME NEW v PROVE <<>> \o <<v>> = <<v>> /\ <<v>> \o <<>> = <<v>>
    OBVIOUS
  <2>1. <<v>> \in Seq({v})
    BY SingleSeq
  <2> QED
    BY <2>1, ConcatEmptySeq
<1>13. <<>> \o <<>> = <<>>
  <2>1. <<>> \in Seq({})
    BY EmptySeq
  <2> QED
    BY <2>1, ConcatEmptySeq
<1>14. Of(values', button) = <<>>
  BY <1>9, <1>11, <1>13
<1>15. PICK isset, wasset : isset = (u \in 224 .. 231 /\ IsSet(byte, u - 224))
                         /\ wasset = (u \in 224 .. 231 /\ IsSet(before, u - 224))
  OBVIOUS
<1>16. Switches(Of(modifiers, key), wasset, isset)
  <2>1. CASE u \in 224 .. 231
    <3>1. PICK b : b = u - 224
      OBVIOUS
    <3>2. b \in 0 .. 7 /\ 224 + b = u
      BY <2>1, <3>1
    <3>3. Switches(Of(BitChanges(n, byte, before, 8, 7, 224, 61696), Usage(7, 224 + b)),
                   IsSet(before, b), IsSet(byte, b))
      BY <3>2, ModifiersSwitch
    <3>4. isset = IsSet(byte, b) /\ wasset = IsSet(before, b)
      <4>1. IsSet(byte, b) \in BOOLEAN /\ IsSet(before, b) \in BOOLEAN
        BY DEF IsSet
      <4> QED
        BY <1>15, <2>1, <3>1, <4>1
    <3> QED
      BY <1>5, <1>7, <3>2, <3>3, <3>4
  <2>2. CASE u \notin 224 .. 231
    <3>1. key.usage \notin 224 .. 224 + 8 - 1
      BY <1>8, <2>2
    <3>2. Of(modifiers, key) = <<>>
      BY <1>5, <3>1, BitsElsewhere
    <3>3. isset = wasset
      BY <1>15, <2>2
    <3> QED
      BY <3>2, <3>3 DEF Switches
  <2> QED
    BY <2>1, <2>2
<1>17. /\ IF u \in gained THEN \E v : v.value = 1 /\ Of(pressed, key) = <<v>> ELSE Of(pressed, key) = <<>>
       /\ IF u \in lost THEN \E v : v.value = 0 /\ Of(released, key) = <<v>> ELSE Of(released, key) = <<>>
  <2>1. IF u \in gained THEN \E v : v.value = 1 /\ Of(pressed, key) = <<v>> ELSE Of(pressed, key) = <<>>
    BY <1>4, <1>5, <1>7, KeysSwitch
  <2>2. IF u \in lost THEN \E v : v.value = 0 /\ Of(released, key) = <<v>> ELSE Of(released, key) = <<>>
    BY <1>4, <1>5, <1>7, KeysSwitch
  <2> QED
    BY <2>1, <2>2
<1>18. Switches(Of(values', key), u \in was \/ wasset, u \in held \/ isset)
  <2>1. CASE u \notin was /\ u \notin held
    <3>1. Of(pressed, key) = <<>> /\ Of(released, key) = <<>>
      BY <1>3, <1>17, <2>1
    <3>2. Of(values', key) = (Of(modifiers, key) \o <<>>) \o <<>>
      BY <1>11, <3>1
    <3>3. Of(values', key) = Of(modifiers, key)
      <4>1. Of(modifiers, key) \o <<>> = Of(modifiers, key)
        <5>1. PICK T : Of(modifiers, key) \in Seq(T)
          BY <1>9, OfParts
        <5> QED
          BY <5>1, ConcatEmptySeq
      <4> QED
        BY <3>2, <4>1
    <3>4. (u \in was \/ wasset) = wasset /\ (u \in held \/ isset) = isset
      BY <1>15, <2>1
    <3> QED
      BY <1>16, <3>3, <3>4
  <2>2. CASE ~(u \notin was /\ u \notin held)
    <3>1. wasset = FALSE /\ isset = FALSE
      BY <1>1, <1>15, <2>2
    <3>2. Of(modifiers, key) = <<>>
      BY <1>16, <3>1 DEF Switches
    <3>3. (u \in was \/ wasset) = (u \in was) /\ (u \in held \/ isset) = (u \in held)
      BY <3>1
    <3>4. CASE u \in was /\ u \in held
      <4>1. Of(pressed, key) = <<>> /\ Of(released, key) = <<>>
        BY <1>3, <1>17, <3>4
      <4>2. Of(values', key) = <<>>
        BY <1>11, <1>13, <3>2, <4>1
      <4> QED
        BY <3>3, <3>4, <4>2 DEF Switches
    <3>5. CASE u \in held /\ u \notin was
      <4>1. Of(released, key) = <<>> /\ \E v : v.value = 1 /\ Of(pressed, key) = <<v>>
        BY <1>3, <1>17, <3>5
      <4>2. PICK v : v.value = 1 /\ Of(pressed, key) = <<v>>
        BY <4>1
      <4>3. Of(values', key) = <<v>>
        BY <1>11, <1>12, <3>2, <4>1, <4>2
      <4> QED
        BY <3>3, <3>5, <4>2, <4>3 DEF Switches
    <3>6. CASE u \in was /\ u \notin held
      <4>1. Of(pressed, key) = <<>> /\ \E v : v.value = 0 /\ Of(released, key) = <<v>>
        BY <1>3, <1>17, <3>6
      <4>2. PICK v : v.value = 0 /\ Of(released, key) = <<v>>
        BY <4>1
      <4>3. Of(values', key) = <<v>>
        BY <1>11, <1>12, <1>13, <3>2, <4>1, <4>2
      <4> QED
        BY <3>3, <3>6, <4>2, <4>3 DEF Switches
    <3> QED
      BY <2>2, <3>4, <3>5, <3>6
  <2> QED
    BY <2>1, <2>2
<1> QED
  BY <1>1, <1>7, <1>11, <1>14, <1>15, <1>18

\* A keyboard shows no button.
LEMMA KeyboardButtons ==
  ASSUME boot_decoder_ \in [Handles -> BootStates], NEW n \in Notifications, BootKeyboard(n), NEW u
  PROVE  IsSequence(values') /\ Of(values', Usage(9, u)) = <<>>
<1>1. PICK held, was, byte, before :
        /\ held = SlotKeys(n) /\ was = boot_decoder_[n.handle].keys
        /\ byte = n.payload[1] /\ before = boot_decoder_[n.handle].modifiers
  OBVIOUS
<1>2. was \in SUBSET (1 .. 231) /\ held \in SUBSET (1 .. 231)
  <2>1. boot_decoder_[n.handle] \in BootStates
    BY DEF Handles
  <2> QED
    BY <1>1, <2>1 DEF BootStates, SlotKeys
<1>3. PICK gained, lost : gained = held \ was /\ lost = was \ held
  OBVIOUS
<1>4. gained \in SUBSET (1 .. 231) /\ lost \in SUBSET (1 .. 231)
  BY <1>2, <1>3
<1>5. PICK modifiers, pressed, released :
        /\ modifiers = BitChanges(n, byte, before, 8, 7, 224, 61696)
        /\ pressed = KeyChanges(n, gained, 1) /\ released = KeyChanges(n, lost, 0)
  OBVIOUS
<1>6. values' = modifiers \o pressed \o released
  <2>1. values' = ModifierChanges(n) \o KeyPresses(n) \o KeyReleases(n)
    BY KeyboardValues
  <2>2. modifiers = ModifierChanges(n) /\ pressed = KeyPresses(n) /\ released = KeyReleases(n)
    BY <1>1, <1>3, <1>5 DEF ModifierChanges, KeyPresses, KeyReleases
  <2> QED
    BY <2>1, <2>2
<1>7. PICK button : button = Usage(9, u) /\ button.page = 9
  <2>1. Usage(9, u).page = 9
    BY DEF Usage
  <2> QED
    BY <2>1
<1>8. IsSequence(modifiers) /\ Of(modifiers, button) = <<>>
  BY <1>5, <1>7, BitsElsewhere
<1>9. IsSequence(pressed) /\ IsSequence(released) /\ Of(pressed, button) = <<>> /\ Of(released, button) = <<>>
  <2>1. button.page # 7
    BY <1>7
  <2>2. IsSequence(pressed) /\ Of(pressed, button) = <<>>
    BY <1>4, <1>5, <2>1, KeysElsewhere
  <2>3. IsSequence(released) /\ Of(released, button) = <<>>
    BY <1>4, <1>5, <2>1, KeysElsewhere
  <2> QED
    BY <2>2, <2>3
<1>10. <<>> \o <<>> = <<>>
  <2>1. <<>> \in Seq({})
    BY EmptySeq
  <2> QED
    BY <2>1, ConcatEmptySeq
<1>11. IsSequence(modifiers \o pressed) /\ Of(modifiers \o pressed, button) = <<>>
  BY <1>8, <1>9, <1>10, OfParts
<1>12. IsSequence((modifiers \o pressed) \o released) /\ Of((modifiers \o pressed) \o released, button) = <<>>
  BY <1>9, <1>10, <1>11, OfParts
<1> QED
  BY <1>6, <1>7, <1>12

LEMMA MouseShows ==
  ASSUME NEW n, BootMouse(n), NEW u \in Nat, NEW before, before = boot_decoder_[n.handle].buttons
  PROVE  /\ IsSequence(values')
         /\ Switches(Of(values', Usage(9, u)), u \in 1 .. 3 /\ IsSet(before, u - 1),
                     u \in 1 .. 3 /\ IsSet(n.payload[1], u - 1))
         /\ Of(values', Usage(7, u)) = <<>>
<1>1. PICK byte : byte = n.payload[1]
  OBVIOUS
<1>2. PICK buttons, x, y :
        /\ buttons = BitChanges(n, byte, before, 3, 9, 1, 61440)
        /\ x = Moved(n, n.payload[2], 48, 61456) /\ y = Moved(n, n.payload[3], 49, 61457)
  OBVIOUS
<1>3. values' = buttons \o x \o y
  BY <1>1, <1>2 DEF BootMouse
<1>4. PICK key, button : key = Usage(7, u) /\ button = Usage(9, u)
  OBVIOUS
<1>5. key.page = 7 /\ button.usage = u /\ button.page = 9
  BY <1>4 DEF Usage
<1>6. IsSequence(buttons) /\ Of(buttons, key) = <<>>
  BY <1>2, <1>5, BitsElsewhere
<1>7. /\ IsSequence(x) /\ IsSequence(y)
      /\ Of(x, key) = <<>> /\ Of(y, key) = <<>> /\ Of(x, button) = <<>> /\ Of(y, button) = <<>>
  BY <1>2, <1>5, MovesElsewhere
<1>8. PICK first : first = buttons \o x
  OBVIOUS
<1>9. /\ IsSequence(first) /\ IsSequence(values')
      /\ \A w : /\ Of(values', w) = Of(first, w) \o Of(y, w)
                /\ Of(first, w) = Of(buttons, w) \o Of(x, w)
  <2>1. IsSequence(first) /\ \A w : Of(first, w) = Of(buttons, w) \o Of(x, w)
    BY <1>6, <1>7, <1>8, OfParts
  <2>2. values' = first \o y
    BY <1>3, <1>8
  <2>3. IsSequence(first \o y) /\ \A w : Of(first \o y, w) = Of(first, w) \o Of(y, w)
    BY <1>7, <2>1, OfParts
  <2> QED
    BY <2>1, <2>2, <2>3
<1>10. <<>> \o <<>> = <<>>
  <2>1. <<>> \in Seq({})
    BY EmptySeq
  <2> QED
    BY <2>1, ConcatEmptySeq
<1>11. Of(values', key) = <<>>
  BY <1>6, <1>7, <1>9, <1>10
<1>12. Of(values', button) = Of(buttons, button)
  <2>1. Of(values', button) = (Of(buttons, button) \o <<>>) \o <<>>
    BY <1>7, <1>9
  <2>2. PICK T : Of(buttons, button) \in Seq(T)
    BY <1>6, OfParts
  <2>3. Of(buttons, button) \o <<>> = Of(buttons, button)
    BY <2>2, ConcatEmptySeq
  <2> QED
    BY <2>1, <2>3
<1>13. PICK isset, wasset : isset = (u \in 1 .. 3 /\ IsSet(byte, u - 1))
                         /\ wasset = (u \in 1 .. 3 /\ IsSet(before, u - 1))
  OBVIOUS
<1>14. Switches(Of(buttons, button), wasset, isset)
  <2>1. CASE u \in 1 .. 3
    <3>1. PICK b : b = u - 1
      OBVIOUS
    <3>2. b \in 0 .. 3 - 1 /\ 1 + b = u
      BY <2>1, <3>1
    <3>3. Switches(Of(BitChanges(n, byte, before, 3, 9, 1, 61440), Usage(9, 1 + b)),
                   IsSet(before, b), IsSet(byte, b))
      BY <3>2, BitsSwitch
    <3>4. isset = IsSet(byte, b) /\ wasset = IsSet(before, b)
      <4>1. IsSet(byte, b) \in BOOLEAN /\ IsSet(before, b) \in BOOLEAN
        BY DEF IsSet
      <4> QED
        BY <1>13, <2>1, <3>1, <4>1
    <3> QED
      BY <1>2, <1>4, <3>2, <3>3, <3>4
  <2>2. CASE u \notin 1 .. 3
    <3>1. button.usage \notin 1 .. 1 + 3 - 1
      BY <1>5, <2>2
    <3>2. Of(buttons, button) = <<>>
      BY <1>2, <3>1, BitsElsewhere
    <3>3. isset = wasset
      BY <1>13, <2>2
    <3> QED
      BY <3>2, <3>3 DEF Switches
  <2> QED
    BY <2>1, <2>2
<1> QED
  BY <1>1, <1>4, <1>9, <1>11, <1>12, <1>13, <1>14

LEMMA NoBits ==
  ASSUME NEW b \in Nat
  PROVE  ~IsSet(0, b)
<1>1. PICK p : p = 2 ^ b /\ p \in Nat \ {0}
  BY Doubling
<1>2. Composed(p, 0, 0) = 0
  BY <1>1 DEF Composed
<1>3. Quotient(0, p) = 0
  BY <1>1, <1>2, DivisionIs
<1>4. 0 \div p = 0
  BY <1>3 DEF Quotient
<1> QED
  BY <1>1, <1>4 DEF IsSet, Bit

LEMMA BitKeysAre ==
  \A n, u : u \in BitKeys(n) <=> u \in 224 .. 231 /\ IsSet(n.payload[1], u - 224)
<1> SUFFICES ASSUME NEW n, NEW u
             PROVE  u \in BitKeys(n) <=> u \in 224 .. 231 /\ IsSet(n.payload[1], u - 224)
  OBVIOUS
<1>1. PICK byte : byte = n.payload[1]
  OBVIOUS
<1>2. u \in BitKeys(n) <=> \E b \in 0 .. 7 : IsSet(byte, b) /\ u = 224 + b
  BY <1>1 DEF BitKeys
<1>3. ASSUME NEW b \in 0 .. 7, IsSet(byte, b), u = 224 + b PROVE u \in 224 .. 231 /\ IsSet(byte, u - 224)
  <2>1. u \in 224 .. 231 /\ u - 224 = b
    BY <1>3
  <2> QED
    BY <1>3, <2>1
<1>4. ASSUME u \in 224 .. 231, IsSet(byte, u - 224) PROVE \E b \in 0 .. 7 : IsSet(byte, b) /\ u = 224 + b
  <2>1. u - 224 \in 0 .. 7 /\ u = 224 + (u - 224)
    BY <1>4
  <2> QED
    BY <1>4, <2>1
<1> QED
  BY <1>1, <1>2, <1>3, <1>4

Keyboards(reports) == {n \in Range(reports) : n.characteristic = "BOOT_KEYBOARD"}

\* What a boot decoder remembers is in the last of its reports, and what it has been
\* named by one of them.
Remembers(state, reports) ==
  /\ reports # <<>> =>
       IF Last(reports).characteristic = "BOOT_MOUSE" THEN state.buttons = Last(reports).payload[1]
       ELSE state.modifiers = Last(reports).payload[1] /\ state.keys = SlotKeys(Last(reports))
  /\ \A u \in state.keys : \E n \in Keyboards(reports) : u \in SlotKeys(n)
  /\ \A u \in 224 .. 231 : IsSet(state.modifiers, u - 224) => \E n \in Keyboards(reports) : u \in BitKeys(n)

\* What is shown of a handle is what its boot decoder remembers.
Tells(s, state, reports) ==
  /\ IsSequence(s) /\ Remembers(state, reports)
  /\ \A u \in Nat : NamedBothWays(reports, u) \/ Shows(Of(s, Usage(7, u)), KeyHeld(state, u))
  /\ \A u \in Nat : Shows(Of(s, Usage(9, u)), ButtonHeld(state, u))

LEMMA HeldOrNot ==
  \A state, u : KeyHeld(state, u) \in BOOLEAN /\ ButtonHeld(state, u) \in BOOLEAN
BY DEF KeyHeld, ButtonHeld, IsSet

LEMMA ShowsSame ==
  ASSUME NEW s, IsSequence(s), NEW t, IsSequence(t), NEW w, Of(t, w) = <<>>
  PROVE  Of(s \o t, w) = Of(s, w)
<1>1. Of(s \o t, w) = Of(s, w) \o Of(t, w) /\ \E T : Of(s, w) \in Seq(T) /\ Of(t, w) \in Seq(T)
  BY OfParts
<1>2. PICK T : Of(s, w) \in Seq(T)
  BY <1>1
<1>3. Of(s, w) \o <<>> = Of(s, w)
  BY <1>2, ConcatEmptySeq
<1> QED
  BY <1>1, <1>3

LEMMA ShowsSwitch ==
  ASSUME NEW s, IsSequence(s), NEW t, IsSequence(t), NEW w, NEW was \in BOOLEAN, NEW now \in BOOLEAN,
         Shows(Of(s, w), was), Switches(Of(t, w), was, now)
  PROVE  Shows(Of(s \o t, w), now)
<1>1. Of(s \o t, w) = Of(s, w) \o Of(t, w) /\ \E T : Of(s, w) \in Seq(T) /\ Of(t, w) \in Seq(T)
  BY OfParts
<1>2. PICK T, a, b : a = Of(s, w) /\ b = Of(t, w) /\ a \in Seq(T)
  BY <1>1
<1>3. Shows(a \o b, now)
  BY <1>2, ShowsNext
<1> QED
  BY <1>1, <1>2, <1>3

LEMMA ReportsMore ==
  ASSUME NEW reports \in Seq(Notifications), NEW n \in Notifications
  PROVE  LET more == Append(reports, n) IN
         /\ more # <<>> /\ Last(more) = n
         /\ Range(more) = Range(reports) \cup {n}
         /\ \A m \in Keyboards(reports) : m \in Keyboards(more)
         /\ n.characteristic = "BOOT_KEYBOARD" => n \in Keyboards(more)
         /\ \A u : NamedBothWays(reports, u) => NamedBothWays(more, u)
         /\ \A u : \A m, l \in Keyboards(more) :
              u \in BitKeys(m) /\ u \in SlotKeys(l) => NamedBothWays(more, u)
<1>1. PICK more, k : more = Append(reports, n) /\ k = Len(reports)
  OBVIOUS
<1>2. more # <<>> /\ Last(more) = n
  BY <1>1, AppendIs
<1>3. Range(more) = Range(reports) \cup {n}
  <2>1. /\ k \in Nat /\ DOMAIN reports = 1 .. k /\ DOMAIN more = 1 .. k + 1 /\ more[k + 1] = n
        /\ \A i \in 1 .. k : more[i] = reports[i]
    BY <1>1, AppendIs
  <2>2. ASSUME NEW x \in Range(more) PROVE x \in Range(reports) \cup {n}
    <3>1. PICK i \in 1 .. k + 1 : x = more[i]
      BY <2>1 DEF Range
    <3>2. i \in 1 .. k \/ i = k + 1
      BY <2>1
    <3> QED
      BY <2>1, <3>1, <3>2 DEF Range
  <2>3. ASSUME NEW x \in Range(reports) PROVE x \in Range(more)
    <3>1. PICK i \in 1 .. k : x = reports[i]
      BY <2>1 DEF Range
    <3>2. i \in 1 .. k + 1 /\ x = more[i]
      BY <2>1, <3>1
    <3> QED
      BY <2>1, <3>2 DEF Range
  <2>4. n \in Range(more)
    <3>1. k + 1 \in DOMAIN more
      BY <2>1
    <3> QED
      BY <2>1, <3>1 DEF Range
  <2> QED
    BY <2>2, <2>3, <2>4
<1>4. \A m \in Keyboards(reports) : m \in Keyboards(more)
  BY <1>3 DEF Keyboards
<1>5. n.characteristic = "BOOT_KEYBOARD" => n \in Keyboards(more)
  BY <1>3 DEF Keyboards
<1>6. \A q, u : NamedBothWays(q, u) <=> \E m, l \in Keyboards(q) : u \in BitKeys(m) \cap SlotKeys(l)
  BY DEF NamedBothWays, Keyboards
<1>7. \A u : NamedBothWays(reports, u) => NamedBothWays(more, u)
  BY <1>4, <1>6
<1>8. \A u : \A m, l \in Keyboards(more) : u \in BitKeys(m) /\ u \in SlotKeys(l) => NamedBothWays(more, u)
  BY <1>6
<1> QED
  BY <1>1, <1>2, <1>3, <1>4, <1>5, <1>7, <1>8

LEMMA TellsKeyboard ==
  ASSUME boot_decoder_ \in [Handles -> BootStates], NEW n \in Notifications, BootKeyboard(n),
         n.characteristic = "BOOT_KEYBOARD", NEW s, NEW reports \in Seq(Notifications),
         Tells(s, boot_decoder_[n.handle], reports)
  PROVE  Tells(s \o values', boot_decoder_'[n.handle], Append(reports, n))
<1>1. PICK h, state, now, more :
        /\ h = n.handle /\ state = boot_decoder_[h] /\ now = boot_decoder_'[h] /\ more = Append(reports, n)
  OBVIOUS
<1>2. h \in Handles /\ state \in BootStates
  BY <1>1 DEF Handles
<1>3. now.modifiers = n.payload[1] /\ now.keys = SlotKeys(n) /\ now.buttons = state.buttons
  <2>1. boot_decoder_' = [boot_decoder_ EXCEPT ![h] = [@ EXCEPT !.modifiers = n.payload[1], !.keys = SlotKeys(n)]]
    BY <1>1 DEF BootKeyboard, SlotKeys
  <2>2. now = [state EXCEPT !.modifiers = n.payload[1], !.keys = SlotKeys(n)]
    BY <1>1, <1>2, <2>1
  <2> QED
    BY <1>2, <2>2 DEF BootStates
<1>4. /\ more # <<>> /\ Last(more) = n
      /\ \A m \in Keyboards(reports) : m \in Keyboards(more)
      /\ n \in Keyboards(more)
      /\ \A u : NamedBothWays(reports, u) => NamedBothWays(more, u)
      /\ \A u : \A m, l \in Keyboards(more) : u \in BitKeys(m) /\ u \in SlotKeys(l) => NamedBothWays(more, u)
  BY <1>1, ReportsMore
<1>5. /\ IsSequence(s) /\ Remembers(state, reports)
      /\ \A u \in Nat : NamedBothWays(reports, u) \/ Shows(Of(s, Usage(7, u)), KeyHeld(state, u))
      /\ \A u \in Nat : Shows(Of(s, Usage(9, u)), ButtonHeld(state, u))
  BY <1>1 DEF Tells
<1>6. Remembers(now, more)
  <2>1. \A u \in now.keys : u \in SlotKeys(n)
    BY <1>3
  <2>2. \A u \in 224 .. 231 : IsSet(now.modifiers, u - 224) => u \in BitKeys(n)
    BY <1>3, BitKeysAre
  <2> QED
    BY <1>3, <1>4, <2>1, <2>2 DEF Remembers
<1>7. ASSUME NEW u \in Nat
      PROVE  NamedBothWays(more, u) \/ \/ u \notin state.keys /\ u \notin SlotKeys(n)
                                       \/ u \in 224 .. 231 => /\ ~IsSet(state.modifiers, u - 224)
                                                              /\ ~IsSet(n.payload[1], u - 224)
  <2>1. ASSUME u \in state.keys \/ u \in SlotKeys(n) PROVE \E l \in Keyboards(more) : u \in SlotKeys(l)
    BY <1>4, <1>5, <2>1 DEF Remembers
  <2>2. ASSUME u \in 224 .. 231, IsSet(state.modifiers, u - 224) \/ IsSet(n.payload[1], u - 224)
        PROVE  \E m \in Keyboards(more) : u \in BitKeys(m)
    <3>1. IsSet(n.payload[1], u - 224) => u \in BitKeys(n)
      BY <2>2, BitKeysAre
    <3>2. IsSet(state.modifiers, u - 224) => \E m \in Keyboards(reports) : u \in BitKeys(m)
      BY <1>5, <2>2 DEF Remembers
    <3> QED
      BY <1>4, <2>2, <3>1, <3>2
  <2> QED
    BY <1>4, <2>1, <2>2
<1>8. IsSequence(values')
  BY KeyboardButtons
<1>9. ASSUME NEW u \in Nat, ~NamedBothWays(more, u)
      PROVE  Shows(Of(s \o values', Usage(7, u)), KeyHeld(now, u))
  <2>1. Switches(Of(values', Usage(7, u)),
                 u \in state.keys \/ (u \in 224 .. 231 /\ IsSet(state.modifiers, u - 224)),
                 u \in SlotKeys(n) \/ (u \in 224 .. 231 /\ IsSet(n.payload[1], u - 224)))
    <3>1. PICK was, before : was = state.keys /\ before = state.modifiers
      OBVIOUS
    <3>2. /\ was = boot_decoder_[n.handle].keys /\ before = boot_decoder_[n.handle].modifiers
      BY <1>1, <3>1
    <3>3. \/ u \notin was /\ u \notin SlotKeys(n)
          \/ u \in 224 .. 231 => ~IsSet(before, u - 224) /\ ~IsSet(n.payload[1], u - 224)
      BY <1>7, <1>9, <3>1
    <3>4. Switches(Of(values', Usage(7, u)),
                   u \in was \/ (u \in 224 .. 231 /\ IsSet(before, u - 224)),
                   u \in SlotKeys(n) \/ (u \in 224 .. 231 /\ IsSet(n.payload[1], u - 224)))
      BY <3>2, <3>3, KeyboardShows
    <3> QED
      BY <3>1, <3>4
  <2>2. Switches(Of(values', Usage(7, u)), KeyHeld(state, u), KeyHeld(now, u))
    BY <1>3, <2>1 DEF KeyHeld
  <2>3. Shows(Of(s, Usage(7, u)), KeyHeld(state, u))
    BY <1>4, <1>5, <1>9
  <2>4. KeyHeld(state, u) \in BOOLEAN /\ KeyHeld(now, u) \in BOOLEAN
    BY HeldOrNot
  <2> QED
    BY <1>5, <1>8, <2>2, <2>3, <2>4, ShowsSwitch
<1>10. ASSUME NEW u \in Nat PROVE Shows(Of(s \o values', Usage(9, u)), ButtonHeld(now, u))
  <2>1. Of(values', Usage(9, u)) = <<>>
    BY KeyboardButtons
  <2>2. Of(s \o values', Usage(9, u)) = Of(s, Usage(9, u))
    BY <1>5, <1>8, <2>1, ShowsSame
  <2>3. ButtonHeld(now, u) = ButtonHeld(state, u)
    BY <1>3 DEF ButtonHeld
  <2> QED
    BY <1>5, <2>2, <2>3
<1>11. IsSequence(s \o values')
  BY <1>5, <1>8, OfParts
<1> QED
  BY <1>1, <1>6, <1>9, <1>10, <1>11 DEF Tells

LEMMA TellsMouse ==
  ASSUME boot_decoder_ \in [Handles -> BootStates], NEW n \in Notifications, BootMouse(n),
         n.characteristic = "BOOT_MOUSE", NEW s, NEW reports \in Seq(Notifications),
         Tells(s, boot_decoder_[n.handle], reports)
  PROVE  Tells(s \o values', boot_decoder_'[n.handle], Append(reports, n))
<1>1. PICK h, state, now, more :
        /\ h = n.handle /\ state = boot_decoder_[h] /\ now = boot_decoder_'[h] /\ more = Append(reports, n)
  OBVIOUS
<1>2. h \in Handles /\ state \in BootStates
  BY <1>1 DEF Handles
<1>3. now.buttons = n.payload[1] /\ now.modifiers = state.modifiers /\ now.keys = state.keys
  <2>1. boot_decoder_' = [boot_decoder_ EXCEPT ![h].buttons = n.payload[1]]
    BY <1>1 DEF BootMouse
  <2>2. now = [state EXCEPT !.buttons = n.payload[1]]
    BY <1>1, <1>2, <2>1
  <2> QED
    BY <1>2, <2>2 DEF BootStates
<1>4. /\ more # <<>> /\ Last(more) = n
      /\ \A m \in Keyboards(reports) : m \in Keyboards(more)
      /\ \A u : NamedBothWays(reports, u) => NamedBothWays(more, u)
  BY <1>1, ReportsMore
<1>5. /\ IsSequence(s) /\ Remembers(state, reports)
      /\ \A u \in Nat : NamedBothWays(reports, u) \/ Shows(Of(s, Usage(7, u)), KeyHeld(state, u))
      /\ \A u \in Nat : Shows(Of(s, Usage(9, u)), ButtonHeld(state, u))
  BY <1>1 DEF Tells
<1>6. Remembers(now, more)
  <2>1. \A u \in now.keys : \E m \in Keyboards(more) : u \in SlotKeys(m)
    BY <1>3, <1>4, <1>5 DEF Remembers
  <2>2. \A u \in 224 .. 231 : IsSet(now.modifiers, u - 224) => \E m \in Keyboards(more) : u \in BitKeys(m)
    BY <1>3, <1>4, <1>5 DEF Remembers
  <2> QED
    BY <1>3, <1>4, <2>1, <2>2 DEF Remembers
<1>7. IsSequence(values')
  <2>1. 0 \in Nat
    OBVIOUS
  <2> QED
    BY <2>1, MouseShows
<1>8. ASSUME NEW u \in Nat PROVE Shows(Of(s \o values', Usage(9, u)), ButtonHeld(now, u))
  <2>1. Switches(Of(values', Usage(9, u)), u \in 1 .. 3 /\ IsSet(state.buttons, u - 1),
                 u \in 1 .. 3 /\ IsSet(n.payload[1], u - 1))
    BY <1>1, MouseShows
  <2>2. Switches(Of(values', Usage(9, u)), ButtonHeld(state, u), ButtonHeld(now, u))
    BY <1>3, <2>1 DEF ButtonHeld
  <2>3. Shows(Of(s, Usage(9, u)), ButtonHeld(state, u))
    BY <1>5
  <2>4. ButtonHeld(state, u) \in BOOLEAN /\ ButtonHeld(now, u) \in BOOLEAN
    BY HeldOrNot
  <2> QED
    BY <1>5, <1>7, <2>2, <2>3, <2>4, ShowsSwitch
<1>9. ASSUME NEW u \in Nat, ~NamedBothWays(more, u)
      PROVE  Shows(Of(s \o values', Usage(7, u)), KeyHeld(now, u))
  <2>1. Of(values', Usage(7, u)) = <<>>
    BY MouseShows
  <2>2. Of(s \o values', Usage(7, u)) = Of(s, Usage(7, u))
    BY <1>5, <1>7, <2>1, ShowsSame
  <2>3. KeyHeld(now, u) = KeyHeld(state, u)
    BY <1>3 DEF KeyHeld
  <2> QED
    BY <1>4, <1>5, <1>9, <2>2, <2>3
<1>10. IsSequence(s \o values')
  BY <1>5, <1>7, OfParts
<1> QED
  BY <1>1, <1>6, <1>8, <1>9, <1>10 DEF Tells

BootReports(h) == Chosen(received, CompleteBoot(h))

\* Each boot decoder remembers its last report, and what was shown tells the same.
BootsTell ==
  /\ DOMAIN boot_shown = Handles
  /\ \A h \in Handles : Tells(boot_shown[h], boot_decoder_[h], BootReports(h))

LEMMA TellsAtFirst ==
  ASSUME NEW state, state.keys = {}, state.modifiers = 0, state.buttons = 0, NEW s, s = <<>>,
         NEW reports, reports = <<>>
  PROVE  Tells(s, state, reports)
<1>1. IsSequence(s) /\ DOMAIN s = {}
  <2>1. <<>> \in Seq({}) /\ DOMAIN <<>> = {}
    BY EmptySeq
  <2> QED
    BY <2>1, SequenceOfItself
<1>2. \A w : Of(s, w) = <<>>
  BY <1>1, OfNone
<1>3. \A b \in 0 .. 7 : ~IsSet(0, b)
  BY NoBits
<1>4. \A u \in 224 .. 231 : u - 224 \in 0 .. 7
  OBVIOUS
<1>5. \A u \in 1 .. 3 : u - 1 \in 0 .. 7
  OBVIOUS
<1>6. Remembers(state, reports)
  BY <1>3, <1>4 DEF Remembers
<1>7. \A u : ~KeyHeld(state, u)
  BY <1>3, <1>4 DEF KeyHeld
<1>8. \A u : ~ButtonHeld(state, u)
  BY <1>3, <1>5 DEF ButtonHeld
<1> QED
  BY <1>1, <1>2, <1>6, <1>7, <1>8 DEF Tells, Shows

LEMMA BootsTellInit == DecoderInit => BootsTell
<1> SUFFICES ASSUME DecoderInit PROVE BootsTell
  OBVIOUS
<1>1. /\ boot_decoder_ = [h \in Handles |-> [modifiers |-> 0, keys |-> {}, buttons |-> 0]]
      /\ boot_shown = [h \in Handles |-> <<>>] /\ received = <<>>
  BY DEF DecoderInit
<1>2. ASSUME NEW h \in Handles PROVE Tells(boot_shown[h], boot_decoder_[h], BootReports(h))
  <2>1. BootReports(h) = <<>>
    BY <1>1, NothingChosen DEF BootReports
  <2>2. PICK state : state = boot_decoder_[h] /\ state = [modifiers |-> 0, keys |-> {}, buttons |-> 0]
    BY <1>1
  <2>3. state.keys = {} /\ state.modifiers = 0 /\ state.buttons = 0
    BY <2>2
  <2>4. boot_shown[h] = <<>>
    BY <1>1
  <2> QED
    BY <2>1, <2>2, <2>3, <2>4, TellsAtFirst
<1> QED
  BY <1>1, <1>2 DEF BootsTell

LEMMA BootsTellParser ==
  ASSUME BootsTell, UNCHANGED decoderVars
  PROVE  BootsTell'
<1>1. boot_shown' = boot_shown /\ boot_decoder_' = boot_decoder_ /\ received' = received
  BY DEF decoderVars, runtimeVars
<1>2. \A h : BootReports(h)' = BootReports(h)
  BY <1>1 DEF BootReports
<1>3. ASSUME NEW h \in Handles PROVE Tells(boot_shown[h], boot_decoder_[h], BootReports(h))'
  <2>1. Tells(boot_shown[h], boot_decoder_[h], BootReports(h))
    BY DEF BootsTell
  <2>2. Tells(boot_shown'[h], boot_decoder_'[h], BootReports(h)')
    BY <1>1, <1>2, <2>1
  <2>3. Tells(boot_shown[h], boot_decoder_[h], BootReports(h))'
          = Tells(boot_shown'[h], boot_decoder_'[h], BootReports(h)')
    BY DEF Tells, Remembers, Of
  <2> QED
    BY <2>2, <2>3
<1> QED
  BY <1>1, <1>3 DEF BootsTell

LEMMA BootsTellReport ==
  ASSUME DecoderInv, BootsTell, NEW n \in Notifications, ProcessInputReport(n)
  PROVE  BootsTell'
<1>1. /\ received' = Append(received, n) /\ received \in Seq(Notifications)
      /\ boot_decoder_ \in [Handles -> BootStates] /\ DOMAIN boot_shown = Handles
      /\ n.handle \in Handles
  BY DEF ProcessInputReport, DecoderInv, BootsTell, Handles
<1>2. ASSUME NEW h
      PROVE  /\ BootReports(h) \in Seq(Notifications)
             /\ BootReports(h)' = IF n \in CompleteBoot(h) THEN Append(BootReports(h), n) ELSE BootReports(h)
  <2>1. PICK S : S = CompleteBoot(h)
    OBVIOUS
  <2>2. Chosen(Append(received, n), S) = IF n \in S THEN Append(Chosen(received, S), n) ELSE Chosen(received, S)
    BY <1>1, ChosenAppended
  <2>3. Chosen(received, S) \in Seq(Notifications)
    BY <1>1, ChosenType
  <2> QED
    BY <1>1, <2>1, <2>2, <2>3 DEF BootReports
<1>3. ASSUME NEW h \in Handles, boot_shown'[h] = boot_shown[h], boot_decoder_'[h] = boot_decoder_[h],
             n \notin CompleteBoot(h)
      PROVE  Tells(boot_shown'[h], boot_decoder_'[h], BootReports(h)')
  <2>1. Tells(boot_shown[h], boot_decoder_[h], BootReports(h))
    BY DEF BootsTell
  <2> QED
    BY <1>2, <1>3, <2>1
<1>4. CASE n.characteristic = "REPORT"
  <2>1. boot_shown' = boot_shown /\ boot_decoder_' = boot_decoder_
    BY <1>4 DEF ProcessInputReport, ParseInput
  <2>2. \A h : n \notin CompleteBoot(h)
    BY <1>4 DEF CompleteBoot
  <2>3. \A h \in Handles : Tells(boot_shown'[h], boot_decoder_'[h], BootReports(h)')
    BY <1>3, <2>1, <2>2
  <2>4. DOMAIN boot_shown' = Handles
    BY <1>1, <2>1
  <2>5. BootsTell' = (DOMAIN boot_shown' = Handles
                      /\ \A h \in Handles : Tells(boot_shown'[h], boot_decoder_'[h], BootReports(h)'))
    BY DEF BootsTell, Tells, Remembers, Of
  <2> QED
    BY <2>3, <2>4, <2>5
<1>5. CASE n.characteristic # "REPORT"
  <2>1. DecodeBoot(n) /\ boot_shown' = [boot_shown EXCEPT ![n.handle] = @ \o values']
    BY <1>5 DEF ProcessInputReport
  <2>2. /\ DOMAIN boot_shown' = Handles
        /\ boot_shown'[n.handle] = boot_shown[n.handle] \o values'
        /\ \A h \in Handles : h # n.handle => boot_shown'[h] = boot_shown[h]
    BY <1>1, <2>1
  <2>3. \A h \in Handles : h # n.handle => boot_decoder_'[h] = boot_decoder_[h] /\ n \notin CompleteBoot(h)
    <3>1. \A h \in Handles : h # n.handle => boot_decoder_'[h] = boot_decoder_[h]
      <4>1. CASE UNCHANGED boot_decoder_
        BY <4>1
      <4>2. CASE BootMouse(n)
        <5>1. boot_decoder_' = [boot_decoder_ EXCEPT ![n.handle].buttons = n.payload[1]]
          BY <4>2 DEF BootMouse
        <5> QED
          BY <1>1, <5>1
      <4>3. CASE BootKeyboard(n)
        <5>1. boot_decoder_' = [boot_decoder_ EXCEPT ![n.handle] =
                                  [@ EXCEPT !.modifiers = n.payload[1], !.keys = SlotKeys(n)]]
          BY <4>3 DEF BootKeyboard, SlotKeys
        <5> QED
          BY <1>1, <5>1
      <4> QED
        BY <2>1, <4>1, <4>2, <4>3 DEF DecodeBoot
    <3>2. \A h : h # n.handle => n \notin CompleteBoot(h)
      BY DEF CompleteBoot
    <3> QED
      BY <3>1, <3>2
  <2>4. Len(n.payload) \in Nat
    <3>1. n.payload \in Seq(0 .. 255)
      BY DecoderAssumption DEF Notification
    <3> QED
      BY <3>1, LenProperties
  <2>5. PICK h, s, reports : h = n.handle /\ s = boot_shown[h] /\ reports = BootReports(h)
    OBVIOUS
  <2>6. Tells(s, boot_decoder_[n.handle], reports) /\ h \in Handles /\ reports \in Seq(Notifications)
    BY <1>1, <1>2, <2>5 DEF BootsTell
  <2>7. PICK expected : expected = (IF n.characteristic = "BOOT_MOUSE" THEN 3 ELSE 8)
    OBVIOUS
  <2>8. n \in CompleteBoot(h) <=> Len(n.payload) >= expected
    BY <1>5, <2>5, <2>7 DEF CompleteBoot
  <2>9. /\ status' = "SHORT" => ~(Len(n.payload) >= expected)
        /\ status' \in Complete => Len(n.payload) >= expected
    <3>1. status' = Length(n, expected)
      BY <2>1, <2>7 DEF DecodeBoot
    <3>2. expected \in Nat
      BY <2>7
    <3> QED
      BY <2>4, <3>1, <3>2 DEF Length, Complete
  <2>10. Tells(boot_shown'[h], boot_decoder_'[h], BootReports(h)')
    <3>1. CASE status' = "SHORT" /\ values' = <<>> /\ UNCHANGED boot_decoder_
      <4>1. IsSequence(s)
        BY <2>6 DEF Tells
      <4>2. PICK T : s \in Seq(T)
        BY <4>1 DEF IsSequence
      <4>3. s \o <<>> = s
        BY <4>2, ConcatEmptySeq
      <4>4. boot_shown'[h] = boot_shown[h] /\ boot_decoder_'[h] = boot_decoder_[h] /\ n \notin CompleteBoot(h)
        BY <2>2, <2>5, <2>8, <2>9, <3>1, <4>3
      <4> QED
        BY <1>3, <2>6, <4>4
    <3>2. CASE status' \in Complete /\ n.characteristic = "BOOT_MOUSE" /\ BootMouse(n)
      <4>1. Tells(s \o values', boot_decoder_'[n.handle], Append(reports, n))
        BY <1>1, <2>6, <3>2, TellsMouse
      <4>2. BootReports(h)' = Append(reports, n)
        BY <1>2, <2>5, <2>8, <2>9, <3>2
      <4> QED
        BY <2>2, <2>5, <4>1, <4>2
    <3>3. CASE status' \in Complete /\ n.characteristic = "BOOT_KEYBOARD" /\ BootKeyboard(n)
      <4>1. Tells(s \o values', boot_decoder_'[n.handle], Append(reports, n))
        BY <1>1, <2>6, <3>3, TellsKeyboard
      <4>2. BootReports(h)' = Append(reports, n)
        BY <1>2, <2>5, <2>8, <2>9, <3>3
      <4> QED
        BY <2>2, <2>5, <4>1, <4>2
    <3> QED
      BY <2>1, <3>1, <3>2, <3>3 DEF DecodeBoot
  <2>11. \A g \in Handles : Tells(boot_shown'[g], boot_decoder_'[g], BootReports(g)')
    <3>1. ASSUME NEW g \in Handles PROVE Tells(boot_shown'[g], boot_decoder_'[g], BootReports(g)')
      <4>1. CASE g = n.handle
        BY <2>5, <2>10, <4>1
      <4>2. CASE g # n.handle
        BY <1>3, <2>2, <2>3, <4>2
      <4> QED
        BY <4>1, <4>2
    <3> QED
      BY <3>1
  <2>12. BootsTell' = (DOMAIN boot_shown' = Handles
                       /\ \A g \in Handles : Tells(boot_shown'[g], boot_decoder_'[g], BootReports(g)'))
    BY DEF BootsTell, Tells, Remembers, Of
  <2> QED
    BY <2>2, <2>11, <2>12
<1> QED
  BY <1>4, <1>5

\* For each handle, the last value shown of every key or button is a press if the last
\* complete boot report has it held and a release, or none, if not, unless reports have
\* named it both by a bit and in a slot (HIDBootReportDecoder::decode).
THEOREM BootStateFollows == DecoderSpec => []BootStateFollowsReports
<1>1. ASSUME BootsTell, DecoderInv, [DecoderNext]_allVars PROVE BootsTell'
  <2>1. CASE Next /\ UNCHANGED decoderVars
    BY <1>1, <2>1, BootsTellParser
  <2>2. CASE \E n \in Notifications : ProcessInputReport(n)
    BY <1>1, <2>2, BootsTellReport
  <2>3. CASE UNCHANGED allVars
    BY <1>1, <2>3, BootsTellParser DEF allVars
  <2> QED
    BY <1>1, <2>1, <2>2, <2>3 DEF DecoderNext
<1>2. ASSUME BootsTell PROVE BootStateFollowsReports
  <2> SUFFICES ASSUME NEW h \in Handles, BootReports(h) # <<>>, NEW u \in 0 .. 255,
                      ~NamedBothWays(BootReports(h), u)
               PROVE  LET last  == Last(BootReports(h))
                          mouse == last.characteristic = "BOOT_MOUSE"
                          held  == IF mouse THEN {b + 1 : b \in {c \in 0 .. 2 : IsSet(last.payload[1], c)}}
                                   ELSE BitKeys(last) \cup SlotKeys(last)
                          of    == Of(boot_shown[h], Usage(IF mouse THEN 9 ELSE 7, u))
                      IN  IF u \in held THEN of # <<>> /\ Last(of).value = 1
                          ELSE of # <<>> => Last(of).value = 0
    BY DEF BootStateFollowsReports, BootReports, Of
  <2>1. PICK last, state, s :
          last = Last(BootReports(h)) /\ state = boot_decoder_[h] /\ s = boot_shown[h]
    OBVIOUS
  <2>2. Tells(s, state, BootReports(h)) /\ u \in Nat
    BY <1>2, <2>1 DEF BootsTell
  <2>3. CASE last.characteristic = "BOOT_MOUSE"
    <3>1. state.buttons = last.payload[1]
      BY <2>1, <2>2, <2>3 DEF Tells, Remembers
    <3>2. Shows(Of(s, Usage(9, u)), ButtonHeld(state, u))
      BY <2>2 DEF Tells
    <3>3. ButtonHeld(state, u) <=> u \in {b + 1 : b \in {c \in 0 .. 2 : IsSet(last.payload[1], c)}}
      <4>1. PICK byte : byte = last.payload[1]
        OBVIOUS
      <4>2. ASSUME u \in 1 .. 3, IsSet(byte, u - 1) PROVE \E b \in 0 .. 2 : IsSet(byte, b) /\ u = b + 1
        <5>1. u - 1 \in 0 .. 2 /\ u = (u - 1) + 1
          BY <4>2
        <5> QED
          BY <4>2, <5>1
      <4>3. ASSUME NEW b \in 0 .. 2, IsSet(byte, b), u = b + 1 PROVE u \in 1 .. 3 /\ IsSet(byte, u - 1)
        <5>1. u \in 1 .. 3 /\ u - 1 = b
          BY <4>3
        <5> QED
          BY <4>3, <5>1
      <4>4. ButtonHeld(state, u) <=> \E b \in 0 .. 2 : IsSet(byte, b) /\ u = b + 1
        BY <3>1, <4>1, <4>2, <4>3 DEF ButtonHeld
      <4> QED
        BY <4>1, <4>4
    <3> QED
      BY <2>1, <2>3, <3>2, <3>3 DEF Shows
  <2>4. CASE last.characteristic # "BOOT_MOUSE"
    <3>1. state.modifiers = last.payload[1] /\ state.keys = SlotKeys(last)
      BY <2>1, <2>2, <2>4 DEF Tells, Remembers
    <3>2. Shows(Of(s, Usage(7, u)), KeyHeld(state, u))
      BY <2>2 DEF Tells
    <3>3. KeyHeld(state, u) <=> u \in BitKeys(last) \cup SlotKeys(last)
      BY <3>1, BitKeysAre DEF KeyHeld
    <3> QED
      BY <2>1, <2>4, <3>2, <3>3 DEF Shows
  <2> QED
    BY <2>3, <2>4
<1> QED
  BY <1>1, <1>2, BootsTellInit, DecoderInvariant, PTL DEF DecoderSpec

=============================================================================
