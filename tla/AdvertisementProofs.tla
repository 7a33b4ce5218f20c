------------------------- MODULE AdvertisementProofs -------------------------
(***************************************************************************)
(* Proofs about Advertisement, for every scan result and size of the slot: *)
(* the newest result is in the slot or was logged, and the elements logged *)
(* of it are its bytes.                                                    *)
(***************************************************************************)
EXTENDS Advertisement, SequenceLemmas


\* parse_device compares with the last result that differed.  A result that it
\* drops for being the same must therefore be in the slot or logged already, which
\* takes that last_advertisement_ is what was seen last.
CaptureInv == last_advertisement_ = seen /\ LatestIsCaptured

\* The newest advertisement that fits the slot waits in it or was logged last: the
\* run's property, for all scan results.
THEOREM LatestCaptured == Spec => []LatestIsCaptured
<1>1. Init => CaptureInv
  BY DEF Init, CaptureInv, LatestIsCaptured, Nothing
<1>2. CaptureInv /\ [Next]_vars => CaptureInv'
  <2> SUFFICES ASSUME CaptureInv, [Next]_vars PROVE CaptureInv'
    OBVIOUS
  <2> USE DEF CaptureInv, LatestIsCaptured
  <2>1. CASE ParseDevice
    <3>1. PICK result \in ScanResults :
            IF Fits(result) /\ result.bytes # last_advertisement_
            THEN Remember(result) /\ seen' = result.bytes
            ELSE /\ seen' = IF Fits(result) THEN result.bytes ELSE seen
                 /\ UNCHANGED <<pending_advertisement_, available, last_advertisement_>>
      BY <2>1 DEF ParseDevice
    <3>2. CASE Fits(result) /\ result.bytes # last_advertisement_
      BY <3>1, <3>2 DEF Remember
    <3>3. CASE ~(Fits(result) /\ result.bytes # last_advertisement_)
      <4>1. UNCHANGED <<pending_advertisement_, available, last_advertisement_, logged, seen>>
        BY <2>1, <3>1, <3>3 DEF ParseDevice
      <4> QED
        BY <4>1
    <3> QED
      BY <3>2, <3>3
  <2>2. CASE ProcessPendingAdvertisement
    BY <2>2 DEF ProcessPendingAdvertisement
  <2>3. CASE UNCHANGED vars
    BY <2>3 DEF vars
  <2> QED
    BY <2>1, <2>2, <2>3 DEF Next
<1>3. CaptureInv => LatestIsCaptured
  BY DEF CaptureInv
<1> QED
  BY <1>1, <1>2, <1>3, PTL DEF Spec

-----------------------------------------------------------------------------
(* The elements of a part.                                                   *)

AdElements == [type : Nat, data : Seq(Nat)]

\* Where the walk over data stops.
Stops(data, offset) ==
  \/ offset = Len(data)
  \/ data[offset + 1] = 0 \/ data[offset + 1] > Len(data) - offset - 1

Step(f, data, offset) ==
  IF Stops(data, offset) THEN <<>>
  ELSE <<Element(data, offset)>> \o f[AfterElement(data, offset)]

\* f is the function by which Elements reads data, from the offset first on.
IsWalk(f, data, first) == f = [offset \in first .. Len(data) |-> Step(f, data, offset)]

LEMMA StepForward ==
  ASSUME NEW data \in Seq(Nat), NEW offset \in 0 .. Len(data), ~Stops(data, offset)
  PROVE  /\ AfterElement(data, offset) \in offset + 2 .. Len(data)
         /\ offset + 1 \in 1 .. Len(data) /\ data[offset + 1] \in Nat \ {0}
         /\ offset + 2 \in 1 .. Len(data)
<1>1. Len(data) \in Nat /\ offset \in Nat /\ offset # Len(data)
  BY LenProperties DEF Stops
<1>2. offset + 1 \in 1 .. Len(data)
  BY <1>1
<1>3. data[offset + 1] \in Nat
  BY <1>2, ElementOfSeq
<1>4. data[offset + 1] # 0 /\ ~(data[offset + 1] > Len(data) - offset - 1)
  BY DEF Stops
<1> DEFINE length == data[offset + 1]
<1> HIDE DEF length
<1>5. length \in Nat /\ length # 0 /\ ~(length > Len(data) - offset - 1)
  BY <1>3, <1>4 DEF length
<1>6. AfterElement(data, offset) = offset + 1 + length
  BY DEF AfterElement, length
<1>7. offset + 1 + length \in offset + 2 .. Len(data) /\ offset + 2 \in 1 .. Len(data)
  BY <1>1, <1>5
<1> QED
  BY <1>2, <1>5, <1>6, <1>7 DEF length

\* The walk goes forward, so that there is a function for it: from the end of the
\* data on, and then from one byte before.
LEMMA WalkExists ==
  ASSUME NEW data \in Seq(Nat)
  PROVE  \E f : IsWalk(f, data, 0)
<1> DEFINE Walked(n) == n <= Len(data) => \E f : IsWalk(f, data, Len(data) - n)
           T == {n \in Nat : Walked(n)}
<1>1. Len(data) \in Nat
  BY LenProperties
<1>2. Walked(0)
  <2> DEFINE f == [offset \in Len(data) .. Len(data) |-> <<>>]
  <2>1. \A offset \in Len(data) .. Len(data) : Step(f, data, offset) = <<>>
    BY <1>1 DEF Step, Stops
  <2>2. IsWalk(f, data, Len(data))
    BY <2>1 DEF IsWalk
  <2>3. Len(data) - 0 = Len(data)
    BY <1>1
  <2> HIDE DEF f
  <2> QED
    BY <2>2, <2>3
<1>3. ASSUME NEW n \in Nat, Walked(n) PROVE Walked(n + 1)
  <2> SUFFICES ASSUME n + 1 <= Len(data)
               PROVE  \E f : IsWalk(f, data, Len(data) - (n + 1))
    OBVIOUS
  <2> DEFINE first == Len(data) - (n + 1)
  <2>1. first \in Nat /\ Len(data) - n = first + 1 /\ first + 1 <= Len(data) /\ n <= Len(data)
    BY <1>1
  <2>2. PICK g : IsWalk(g, data, first + 1)
    BY <1>3, <2>1
  <2> HIDE DEF first
  <2> DEFINE f == [offset \in first .. Len(data) |-> Step(g, data, offset)]
  <2>3. \A offset \in first + 1 .. Len(data) : f[offset] = g[offset]
    <3>1. \A offset \in first + 1 .. Len(data) : offset \in first .. Len(data)
      BY <1>1, <2>1
    <3>2. \A offset \in first + 1 .. Len(data) : g[offset] = Step(g, data, offset)
      BY <2>2 DEF IsWalk
    <3> QED
      BY <3>1, <3>2
  <2>4. \A offset \in first .. Len(data) : Step(f, data, offset) = Step(g, data, offset)
    <3> SUFFICES ASSUME NEW offset \in first .. Len(data)
                 PROVE  Step(f, data, offset) = Step(g, data, offset)
      OBVIOUS
    <3> HIDE DEF f
    <3>1. CASE Stops(data, offset)
      BY <3>1 DEF Step
    <3>2. CASE ~Stops(data, offset)
      <4>1. offset \in 0 .. Len(data)
        BY <1>1, <2>1
      <4>2. AfterElement(data, offset) \in offset + 2 .. Len(data)
        BY <3>2, <4>1, StepForward
      <4>3. AfterElement(data, offset) \in first + 1 .. Len(data)
        BY <1>1, <2>1, <4>2
      <4>4. f[AfterElement(data, offset)] = g[AfterElement(data, offset)]
        BY <2>3, <4>3
      <4> QED
        BY <3>2, <4>4 DEF Step
    <3> QED
      BY <3>1, <3>2
  <2>5. f = [offset \in first .. Len(data) |-> Step(g, data, offset)]
    OBVIOUS
  <2> HIDE DEF f
  <2>6. IsWalk(f, data, first)
    BY <2>4, <2>5 DEF IsWalk
  <2> QED
    BY <2>6 DEF first
<1>4. Walked(Len(data))
  <2> HIDE DEF Walked
  <2>1. 0 \in T /\ \A n \in Nat : n \in T => n + 1 \in T
    BY <1>2, <1>3
  <2>2. \A n \in Nat : n \in T
    <3> HIDE DEF T
    <3> QED
      BY <2>1, Induction
  <2> QED
    BY <1>1, <2>2
<1>5. Len(data) <= Len(data) /\ Len(data) - Len(data) = 0
  BY <1>1
<1> QED
  BY <1>4, <1>5

LEMMA ElementsWalk ==
  ASSUME NEW data \in Seq(Nat)
  PROVE  \E f : IsWalk(f, data, 0) /\ Elements(data) = f[0]
<1> DEFINE f == CHOOSE g : IsWalk(g, data, 0)
<1>1. IsWalk(f, data, 0)
  BY WalkExists
<1>2. Elements(data) = f[0]
  BY DEF Elements, IsWalk, Step, Stops
<1> QED
  BY <1>1, <1>2

\* An element is encoded by the bytes it was read from.
LEMMA ElementEncoded ==
  ASSUME NEW data \in Seq(Nat), NEW offset \in 0 .. Len(data), ~Stops(data, offset)
  PROVE  /\ Element(data, offset) \in AdElements
         /\ Encoding(Element(data, offset)) = SubSeq(data, offset + 1, AfterElement(data, offset))
<1> DEFINE length == data[offset + 1]
           after  == offset + 1 + length
           inner  == SubSeq(data, offset + 3, after)
           e      == Element(data, offset)
<1>1. /\ after \in offset + 2 .. Len(data) /\ offset + 1 \in 1 .. Len(data)
      /\ length \in Nat \ {0} /\ offset + 2 \in 1 .. Len(data) /\ after = AfterElement(data, offset)
  BY StepForward DEF AfterElement
<1>2. e.type = data[offset + 2] /\ e.data = inner /\ e = [type |-> data[offset + 2], data |-> inner]
  BY DEF Element
<1>3. Len(data) \in Nat /\ offset \in Nat /\ data[offset + 2] \in Nat
  BY <1>1, LenProperties, ElementOfSeq
<1> HIDE DEF length
<1>4. inner \in Seq(Nat) /\ Len(inner) = length - 1
  <2> HIDE DEF inner
  <2>1. after \in Int /\ offset + 3 \in Int
    BY <1>1, <1>3
  <2>2. \A i \in offset + 3 .. after : data[i] \in Nat
    <3>1. \A i \in offset + 3 .. after : i \in 1 .. Len(data)
      BY <1>1, <1>3
    <3> QED
      BY <3>1, ElementOfSeq
  <2>3. inner \in Seq(Nat) /\ Len(inner) = IF offset + 3 <= after THEN after - (offset + 3) + 1 ELSE 0
    BY <2>1, <2>2, SubSeqProperties DEF inner
  <2> QED
    BY <1>1, <1>3, <2>3
<1>5. e \in AdElements
  BY <1>2, <1>3, <1>4 DEF AdElements
<1>6. Encoding(e) = <<length, data[offset + 2]>> \o inner
  <2>1. Len(inner) + 1 = length
    BY <1>1, <1>4
  <2> HIDE DEF inner, e
  <2> QED
    BY <1>2, <2>1 DEF Encoding
<1>7. SubSeq(data, offset + 1, offset + 2) = <<length, data[offset + 2]>>
  <2> DEFINE m == offset + 1
  <2>1. m \in 1 .. Len(data) /\ m + 1 \in 1 .. Len(data) /\ m + 1 \in m .. Len(data) /\ m + 1 = offset + 2
        /\ m \in Int /\ (m + 1) + 1 \in Int /\ m + 1 < (m + 1) + 1 /\ m + 1 \in m + 1 .. Len(data)
    BY <1>1, <1>3
  <2> HIDE DEF m
  <2>2. SubSeq(data, m, m + 1) = <<data[m]>> \o SubSeq(data, m + 1, m + 1)
    BY <2>1, SubSeqRecursiveFirst
  <2>3. SubSeq(data, m + 1, m + 1) = <<data[m + 1]>> \o SubSeq(data, (m + 1) + 1, m + 1)
    BY <2>1, SubSeqRecursiveFirst
  <2>4. SubSeq(data, (m + 1) + 1, m + 1) = <<>>
    BY <2>1, SubSeqEmpty
  <2>5. \A a, b : <<a>> \o (<<b>> \o <<>>) = <<a, b>>
    <3> SUFFICES ASSUME NEW a, NEW b PROVE <<a>> \o (<<b>> \o <<>>) = <<a, b>>
      OBVIOUS
    <3>1. <<a>> \in Seq({a, b}) /\ <<b>> \in Seq({a, b}) /\ b \in {a, b}
      OBVIOUS
    <3>2. <<b>> \o <<>> = <<b>>
      BY <3>1, ConcatEmptySeq
    <3>3. Append(<<a>>, b) = <<a>> \o <<b>>
      BY <3>1, AppendIsConcat
    <3>4. Append(<<a>>, b) = <<a, b>>
      <4> DEFINE s == Append(<<a>>, b)  t == <<a, b>>
      <4>1. /\ s \in Seq({a, b}) /\ Len(s) = 2 /\ s[1] = a /\ s[2] = b
        BY <3>1, AppendProperties
      <4>2. t \in Seq({a, b}) /\ Len(t) = 2 /\ t[1] = a /\ t[2] = b
        OBVIOUS
      <4> HIDE DEF s, t
      <4>3. DOMAIN s = 1 .. 2 /\ DOMAIN t = 1 .. 2 /\ \A i \in 1 .. 2 : i = 1 \/ i = 2
        BY <4>1, <4>2, LenProperties
      <4>4. s = [i \in 1 .. 2 |-> s[i]] /\ t = [i \in 1 .. 2 |-> t[i]]
        BY <4>1, <4>2, <4>3
      <4>5. s = t
        BY <4>1, <4>2, <4>3, <4>4
      <4> QED
        BY <4>5 DEF s, t
    <3> QED
      BY <3>2, <3>3, <3>4, Zenon
  <2>6. SubSeq(data, m, m + 1) = <<data[m], data[m + 1]>>
    BY <2>2, <2>3, <2>4, <2>5
  <2> QED
    BY <2>1, <2>6 DEF m, length
<1>8. SubSeq(data, offset + 1, offset + 2) \o SubSeq(data, (offset + 2) + 1, after)
        = SubSeq(data, offset + 1, after)
  <2>1. /\ offset + 1 \in 1 .. Len(data) + 1 /\ offset + 2 \in (offset + 1) - 1 .. Len(data)
        /\ after \in offset + 2 .. Len(data)
    BY <1>1, <1>3
  <2> HIDE DEF after
  <2> QED
    BY <2>1, ConcatAdjacentSubSeq
<1>9. (offset + 2) + 1 = offset + 3
  BY <1>3
<1> QED
  BY <1>1, <1>5, <1>6, <1>7, <1>8, <1>9

\* What the elements of a walk are encoded by.
Read(elements) == FlattenSeq([i \in DOMAIN elements |-> Encoding(elements[i])])

LEMMA EncodingType ==
  ASSUME NEW e \in AdElements
  PROVE  Encoding(e) \in Seq(Nat)
<1>1. e.type \in Nat /\ e.data \in Seq(Nat) /\ Len(e.data) + 1 \in Nat
  BY LenProperties DEF AdElements
<1>2. <<Len(e.data) + 1, e.type>> \in Seq(Nat)
  BY <1>1
<1> QED
  BY <1>1, <1>2, ConcatProperties DEF Encoding

LEMMA EncodingsType ==
  ASSUME NEW elements \in Seq(AdElements)
  PROVE  [i \in DOMAIN elements |-> Encoding(elements[i])] \in Seq(Seq(Nat))
<1>1. Len(elements) \in Nat /\ DOMAIN elements = 1 .. Len(elements)
      /\ \A i \in DOMAIN elements : elements[i] \in AdElements
  BY LenProperties
<1>2. \A i \in 1 .. Len(elements) : Encoding(elements[i]) \in Seq(Nat)
  BY <1>1, EncodingType
<1> QED
  BY <1>1, <1>2

LEMMA ReadPrepended ==
  ASSUME NEW e \in AdElements, NEW elements \in Seq(AdElements)
  PROVE  Read(<<e>> \o elements) = Encoding(e) \o Read(elements)
<1> DEFINE more      == <<e>> \o elements
           encodings == [i \in DOMAIN elements |-> Encoding(elements[i])]
           n         == Len(elements)
<1>1. n \in Nat /\ DOMAIN elements = 1 .. n
  BY LenProperties
<1>2. more \in Seq(AdElements) /\ Len(more) = n + 1 /\ DOMAIN more = 1 .. n + 1
      /\ \A i \in 1 .. n + 1 : more[i] = IF i = 1 THEN e ELSE elements[i - 1]
  <2>1. <<e>> \in Seq(AdElements) /\ Len(<<e>>) = 1 /\ <<e>>[1] = e
    OBVIOUS
  <2>2. /\ more \in Seq(AdElements) /\ Len(more) = 1 + n
        /\ \A i \in 1 .. 1 + n : more[i] = IF i <= 1 THEN <<e>>[i] ELSE elements[i - 1]
    BY <2>1, ConcatProperties
  <2> HIDE DEF more, n
  <2>3. 1 + n = n + 1 /\ \A i \in 1 .. n + 1 : i <= 1 <=> i = 1
    BY <1>1
  <2> QED
    BY <2>1, <2>2, <2>3, LenProperties
<1>3. encodings \in Seq(Seq(Nat)) /\ Encoding(e) \in Seq(Nat) /\ Len(encodings) = n
      /\ \A i \in 1 .. n : encodings[i] = Encoding(elements[i])
  <2>1. \A i \in 1 .. n : encodings[i] = Encoding(elements[i])
    BY <1>1
  <2>2. DOMAIN encodings = 1 .. n
    BY <1>1
  <2> HIDE DEF encodings, n
  <2>3. encodings \in Seq(Seq(Nat))
    BY EncodingsType DEF encodings
  <2> QED
    BY <1>1, <2>1, <2>2, <2>3, EncodingType, LenProperties
<1> HIDE DEF more
<1>4. [i \in DOMAIN more |-> Encoding(more[i])] = <<Encoding(e)>> \o encodings
  <2> DEFINE left == [i \in DOMAIN more |-> Encoding(more[i])]
             first == Encoding(e)
             right == <<first>> \o encodings
  <2> HIDE DEF encodings, n
  <2>1. left = [i \in 1 .. n + 1 |-> Encoding(more[i])]
    BY <1>2
  <2>2. first \in Seq(Nat)
    BY <1>3
  <2>3. right \in Seq(Seq(Nat)) /\ Len(right) = n + 1
        /\ \A i \in 1 .. n + 1 : right[i] = IF i = 1 THEN first ELSE encodings[i - 1]
    <3> HIDE DEF first
    <3>1. <<first>> \in Seq(Seq(Nat)) /\ Len(<<first>>) = 1 /\ <<first>>[1] = first
      BY <2>2
    <3>2. /\ right \in Seq(Seq(Nat)) /\ Len(right) = 1 + n
          /\ \A i \in 1 .. 1 + n : right[i] = IF i <= 1 THEN <<first>>[i] ELSE encodings[i - 1]
      BY <1>3, <3>1, ConcatProperties
    <3>3. 1 + n = n + 1 /\ \A i \in 1 .. n + 1 : i <= 1 <=> i = 1
      BY <1>1
    <3> HIDE DEF right
    <3> QED
      BY <3>1, <3>2, <3>3
  <2>4. \A i \in 1 .. n + 1 : Encoding(more[i]) = right[i]
    <3> HIDE DEF right
    <3> SUFFICES ASSUME NEW i \in 1 .. n + 1 PROVE Encoding(more[i]) = right[i]
      OBVIOUS
    <3> HIDE DEF first
    <3>1. CASE i = 1
      BY <1>2, <2>3, <3>1 DEF first
    <3>2. CASE i # 1
      <4>1. i - 1 \in 1 .. n
        BY <1>1, <3>2
      <4>2. more[i] = elements[i - 1] /\ right[i] = encodings[i - 1]
        BY <1>2, <2>3, <3>2
      <4> QED
        BY <1>3, <4>1, <4>2
    <3> QED
      BY <3>1, <3>2
  <2>5. right = [i \in 1 .. n + 1 |-> right[i]]
    <3> HIDE DEF right
    <3> QED
      BY <2>3
  <2> HIDE DEF right, left
  <2>6. left = right
    BY <2>1, <2>4, <2>5
  <2> QED
    BY <2>6 DEF left, right
<1>5. FlattenSeq(<<Encoding(e)>> \o encodings) = Encoding(e) \o FlattenSeq(encodings)
  BY <1>3, FlattenPrepended
<1> QED
  BY <1>4, <1>5 DEF Read, more

\* From any offset on the walk reads the bytes there are, up to where it stops.
Tiles(elements, data, offset) ==
  /\ elements \in Seq(AdElements) /\ Read(elements) \in Seq(Nat)
  /\ offset + Len(Read(elements)) <= Len(data)
  /\ Read(elements) = SubSeq(data, offset + 1, offset + Len(Read(elements)))
  /\ Stops(data, offset + Len(Read(elements)))

LEMMA WalkTiles ==
  ASSUME NEW data \in Seq(Nat), NEW f, IsWalk(f, data, 0)
  PROVE  Tiles(f[0], data, 0)
<1> DEFINE n == Len(data)
           Done(k) == \A offset \in 0 .. n : n - offset <= k => Tiles(f[offset], data, offset)
           T == {k \in Nat : Done(k)}
<1>1. n \in Nat
  BY LenProperties
<1>2. ASSUME NEW offset \in 0 .. n, Stops(data, offset)
      PROVE  Tiles(f[offset], data, offset)
  <2>1. f[offset] = <<>>
    BY <1>2 DEF IsWalk, Step
  <2>2. [i \in DOMAIN <<>> |-> Encoding(<<>>[i])] = <<>>
    OBVIOUS
  <2>3. Read(<<>>) = <<>>
    BY <2>2, FlattenEmpty DEF Read
  <2>4. SubSeq(data, offset + 1, offset) = <<>>
    BY <1>1, SubSeqEmpty
  <2>5. offset + Len(<<>>) = offset /\ offset <= n /\ <<>> \in Seq(AdElements) /\ <<>> \in Seq(Nat)
    BY <1>1, EmptySeq
  <2>6. Tiles(<<>>, data, offset)
    BY <1>2, <2>3, <2>4, <2>5 DEF Tiles
  <2> QED
    BY <2>1, <2>6
<1>3. ASSUME NEW offset \in 0 .. n, ~Stops(data, offset),
             Tiles(f[AfterElement(data, offset)], data, AfterElement(data, offset))
      PROVE  Tiles(f[offset], data, offset)
  <2> DEFINE after == AfterElement(data, offset)
             e     == Element(data, offset)
             later == Read(f[after])
             end   == after + Len(later)
             all   == Encoding(e) \o later
  <2>1. after \in offset + 2 .. n
    BY <1>3, StepForward
  <2>2. f[offset] = <<e>> \o f[after]
    BY <1>3 DEF IsWalk, Step
  <2>3. e \in AdElements /\ Encoding(e) = SubSeq(data, offset + 1, after)
    BY <1>3, ElementEncoded
  <2>4. /\ f[after] \in Seq(AdElements) /\ later \in Seq(Nat) /\ end <= n
        /\ later = SubSeq(data, after + 1, end) /\ Stops(data, end)
    BY <1>3 DEF Tiles
  <2>5. f[offset] \in Seq(AdElements)
    <3>1. <<e>> \in Seq(AdElements)
      BY <2>3
    <3> HIDE DEF e, after
    <3> QED
      BY <2>2, <2>4, <3>1, ConcatProperties
  <2>6. Read(f[offset]) = all
    <3> HIDE DEF e, after
    <3> QED
      BY <2>2, <2>3, <2>4, ReadPrepended DEF all
  <2> HIDE DEF e
  <2>7. all = SubSeq(data, offset + 1, end)
    <3>1. Len(later) \in Nat /\ offset \in Nat
      BY <2>4, LenProperties
    <3> HIDE DEF after, later
    <3>2. /\ offset + 1 \in 1 .. n + 1 /\ after \in (offset + 1) - 1 .. n /\ end \in after .. n
      BY <1>1, <2>1, <2>4, <3>1
    <3> HIDE DEF end
    <3>3. SubSeq(data, offset + 1, after) \o SubSeq(data, after + 1, end) = SubSeq(data, offset + 1, end)
      BY <3>2, ConcatAdjacentSubSeq
    <3> QED
      BY <2>3, <2>4, <3>3
  <2>8. all \in Seq(Nat) /\ offset + Len(all) = end
    <3>1. Len(later) \in Nat /\ offset \in Nat
      BY <2>4, LenProperties
    <3> HIDE DEF after, later, all
    <3>2. end \in Int /\ offset + 1 \in Int /\ offset + 1 <= end /\ \A i \in offset + 1 .. end : i \in 1 .. n
      BY <1>1, <2>1, <2>4, <3>1
    <3> HIDE DEF end
    <3>3. \A i \in offset + 1 .. end : data[i] \in Nat
      BY <3>2, ElementOfSeq
    <3>4. all \in Seq(Nat) /\ Len(all) = IF offset + 1 <= end THEN end - (offset + 1) + 1 ELSE 0
      BY <2>7, <3>2, <3>3, SubSeqProperties
    <3> QED
      BY <3>1, <3>2, <3>4
  <2> HIDE DEF all, end
  <2> QED
    BY <2>4, <2>5, <2>6, <2>7, <2>8 DEF Tiles
<1>4. Done(0)
  <2> SUFFICES ASSUME NEW offset \in 0 .. n, n - offset <= 0 PROVE Tiles(f[offset], data, offset)
    OBVIOUS
  <2>1. offset = n
    BY <1>1
  <2> QED
    BY <1>2, <2>1 DEF Stops
<1>5. ASSUME NEW k \in Nat, Done(k) PROVE Done(k + 1)
  <2> SUFFICES ASSUME NEW offset \in 0 .. n, n - offset <= k + 1
               PROVE  Tiles(f[offset], data, offset)
    OBVIOUS
  <2>1. CASE Stops(data, offset)
    BY <1>2, <2>1
  <2>2. CASE ~Stops(data, offset)
    <3> DEFINE after == AfterElement(data, offset)
    <3>1. after \in offset + 2 .. n
      BY <2>2, StepForward
    <3> HIDE DEF after
    <3>2. after \in 0 .. n /\ n - after <= k
      BY <1>1, <3>1
    <3>3. Tiles(f[after], data, after)
      BY <1>5, <3>2
    <3> QED
      BY <1>3, <2>2, <3>3 DEF after
  <2> QED
    BY <2>1, <2>2
<1>6. Done(n)
  <2> HIDE DEF Done
  <2>1. 0 \in T /\ \A k \in Nat : k \in T => k + 1 \in T
    BY <1>4, <1>5
  <2>2. \A k \in Nat : k \in T
    <3> HIDE DEF T
    <3> QED
      BY <2>1, Induction
  <2> QED
    BY <1>1, <2>2
<1>7. 0 \in 0 .. n /\ n - 0 <= n
  BY <1>1
<1> QED
  BY <1>6, <1>7

\* The bytes logged are those of a scan result.
LoggedTyped ==
  \A r \in {pending_advertisement_, logged} : r \in ScanResults \cup {Nothing}

LEMMA PartsType ==
  ASSUME NEW result \in ScanResults \cup {Nothing}, NEW part \in Parts(result)
  PROVE  part \in Seq(Nat)
<1>1. /\ result.bytes \in Seq(Nat) /\ result.advertisement_length \in Nat
      /\ result.advertisement_length <= Len(result.bytes)
  <2>1. CASE result \in ScanResults
    BY <2>1, ScanAssumption
  <2>2. CASE result = Nothing
    <3>1. result.bytes = <<>> /\ result.advertisement_length = 0
      BY <2>2 DEF Nothing
    <3>2. <<>> \in Seq(Nat) /\ 0 <= Len(<<>>)
      BY EmptySeq
    <3> QED
      BY <3>1, <3>2
  <2> QED
    BY <2>1, <2>2
<1> DEFINE bytes == result.bytes  length == result.advertisement_length
<1>2. bytes \in Seq(Nat) /\ length \in Nat /\ length <= Len(bytes) /\ Len(bytes) \in Nat
  BY <1>1, LenProperties
<1>3. part = SubSeq(bytes, 1, length) \/ part = SubSeq(bytes, length + 1, Len(bytes))
  BY DEF Parts
<1> HIDE DEF bytes, length
<1>4. \A i \in 1 .. Len(bytes) : bytes[i] \in Nat
  BY <1>2, ElementOfSeq
<1>5. /\ \A i \in 1 .. length : bytes[i] \in Nat
      /\ \A i \in length + 1 .. Len(bytes) : bytes[i] \in Nat
  BY <1>2, <1>4
<1>6. SubSeq(bytes, 1, length) \in Seq(Nat)
  BY <1>2, <1>5, SubSeqProperties
<1>7. SubSeq(bytes, length + 1, Len(bytes)) \in Seq(Nat)
  <2> DEFINE first == length + 1  last == Len(bytes)
  <2>1. first \in Int /\ last \in Int /\ \A i \in first .. last : bytes[i] \in Nat
    BY <1>2, <1>5
  <2> HIDE DEF first, last
  <2>2. SubSeq(bytes, first, last) \in Seq(Nat)
    BY <2>1, SubSeqProperties
  <2> QED
    BY <2>2 DEF first, last
<1> QED
  BY <1>3, <1>6, <1>7

\* The elements logged of either part of a scan result are its bytes, in order and
\* without a gap, up to where it is empty, terminated or truncated: for every result
\* (log_advertisement_elements_).
THEOREM ElementsAreBytes == Spec => []ElementsTile
<1>1. Init => LoggedTyped
  BY DEF Init, LoggedTyped
<1>2. LoggedTyped /\ [Next]_vars => LoggedTyped'
  BY DEF LoggedTyped, Next, ParseDevice, Remember, ProcessPendingAdvertisement, vars
<1>3. LoggedTyped => ElementsTile
  <2> SUFFICES ASSUME LoggedTyped, NEW part \in Parts(logged)
               PROVE  LET read == Read(Elements(part))
                          rest == SubSeq(part, Len(read) + 1, Len(part))
                      IN  /\ IsPrefix(read, part)
                          /\ rest = <<>> \/ Head(rest) = 0 \/ Head(rest) > Len(rest) - 1
    BY DEF ElementsTile, Read
  <2> DEFINE read == Read(Elements(part))
             end  == Len(read)
             rest == SubSeq(part, end + 1, Len(part))
  <2>1. part \in Seq(Nat) /\ Len(part) \in Nat
    BY PartsType, LenProperties DEF LoggedTyped
  <2>2. Tiles(Elements(part), part, 0)
    BY <2>1, ElementsWalk, WalkTiles
  <2>3. read \in Seq(Nat) /\ end \in Nat
    BY <2>2, LenProperties DEF Tiles
  <2>4. end <= Len(part) /\ read = SubSeq(part, 1, end) /\ Stops(part, end)
    <3>1. 0 + end = end /\ 0 + 1 = 1
      BY <2>3
    <3> QED
      BY <2>2, <3>1 DEF Tiles
  <2> HIDE DEF read
  <2>5. IsPrefix(read, part)
    BY <2>3, <2>4, SubSeqFull DEF IsPrefix
  <2>6. CASE end = Len(part)
    <3>1. rest = <<>>
      BY <2>1, <2>3, <2>6, SubSeqEmpty
    <3> QED
      BY <2>5, <3>1 DEF read
  <2>7. CASE end # Len(part)
    <3> HIDE DEF end
    <3>1. end + 1 \in 1 .. Len(part) /\ Len(part) \in end + 1 .. Len(part)
      BY <2>1, <2>3, <2>4, <2>7
    <3>2. Head(rest) = part[end + 1]
      BY <2>1, <3>1, HeadTailOfSubSeq
    <3>3. Len(rest) - 1 = Len(part) - end - 1
      <4>1. \A i \in end + 1 .. Len(part) : part[i] \in Nat
        <5>1. \A i \in end + 1 .. Len(part) : i \in 1 .. Len(part)
          BY <2>1, <2>3
        <5> QED
          BY <2>1, <5>1, ElementOfSeq
      <4>2. Len(rest) = IF end + 1 <= Len(part) THEN Len(part) - (end + 1) + 1 ELSE 0
        BY <2>1, <2>3, <4>1, SubSeqProperties
      <4> QED
        BY <2>1, <2>3, <3>1, <4>2
    <3> HIDE DEF rest
    <3>4. part[end + 1] = 0 \/ part[end + 1] > Len(part) - end - 1
      BY <2>4, <2>7 DEF Stops
    <3>5. Head(rest) = 0 \/ Head(rest) > Len(rest) - 1
      BY <3>2, <3>3, <3>4
    <3> QED
      BY <2>5, <3>5 DEF rest, end, read
  <2> QED
    BY <2>6, <2>7
<1> QED
  BY <1>1, <1>2, <1>3, PTL DEF Spec
=============================================================================
