--------------------------- MODULE HidDecoderProofs ---------------------------
(***************************************************************************)
(* Proofs about HidReportDecoder and UsageTable, for every Report Map,     *)
(* every sequence of input reports and every sorted table: the state of    *)
(* the decoders has its types, values the coalescing buffer would merge    *)
(* are of one element, the search of the table finds what is in it, and a  *)
(* value has the usage its field gives it.                                 *)
(***************************************************************************)
EXTENDS HidReportProofs

-----------------------------------------------------------------------------
(* Sets in an order, sequences of values and bags of usages. *)

\* Counting what is below it gives each element of an ordered set a place of its own.
LEMMA PlacesInOrder ==
  ASSUME NEW S, IsFiniteSet(S), NEW R,
         \A x \in S : <<x, x>> \notin R,
         \A x, y \in S : x # y => <<x, y>> \in R \/ <<y, x>> \in R,
         \A x, y, z \in S : <<x, y>> \in R /\ <<y, z>> \in R => <<x, z>> \in R
  PROVE  \A k \in 1 .. Cardinality(S) :
           \E x \in S : Cardinality({y \in S : <<y, x>> \in R}) = k - 1
<1> DEFINE N == Cardinality(S)
           Below(x) == {y \in S : <<y, x>> \in R}
           place == [x \in S |-> Cardinality(Below(x)) + 1]
<1>1. N \in Nat
  BY FS_CardinalityType
<1>2. ASSUME NEW x \in S
      PROVE  IsFiniteSet(Below(x)) /\ Cardinality(Below(x)) \in Nat /\ Cardinality(Below(x)) < N
  <2>1. Below(x) \in SUBSET S /\ x \notin Below(x)
    OBVIOUS
  <2>2. Below(x) # S
    BY <2>1
  <2> HIDE DEF Below
  <2>3. /\ IsFiniteSet(Below(x)) /\ Cardinality(Below(x)) <= Cardinality(S)
        /\ Cardinality(S) = Cardinality(Below(x)) => S = Below(x)
    BY <2>1, FS_Subset
  <2>4. Cardinality(Below(x)) \in Nat
    BY <2>3, FS_CardinalityType
  <2> QED
    BY <2>2, <2>3, <2>4, <1>1
<1>3. ASSUME NEW x \in S, NEW y \in S, <<x, y>> \in R
      PROVE  Cardinality(Below(x)) < Cardinality(Below(y))
  <2>1. Below(x) \in SUBSET Below(y)
    BY <1>3
  <2>2. x \in Below(y) /\ x \notin Below(x)
    BY <1>3
  <2> HIDE DEF Below
  <2>3. /\ Cardinality(Below(x)) <= Cardinality(Below(y))
        /\ Cardinality(Below(y)) = Cardinality(Below(x)) => Below(y) = Below(x)
    BY <2>1, <1>2, FS_Subset
  <2>4. Cardinality(Below(x)) \in Nat /\ Cardinality(Below(y)) \in Nat
    BY <1>2
  <2> QED
    BY <2>2, <2>3, <2>4
<1>4. \A x \in S : place[x] = Cardinality(Below(x)) + 1
  OBVIOUS
<1>5. place \in [S -> 1 .. N]
  <2>1. \A x \in S : Cardinality(Below(x)) + 1 \in 1 .. N
    BY <1>1, <1>2
  <2> HIDE DEF Below
  <2> QED
    BY <2>1
<1>6. \A x, y \in S : place[x] = place[y] => x = y
  <2> SUFFICES ASSUME NEW x \in S, NEW y \in S, x # y PROVE place[x] # place[y]
    OBVIOUS
  <2>1. Cardinality(Below(x)) \in Nat /\ Cardinality(Below(y)) \in Nat
    BY <1>2
  <2>2. Cardinality(Below(x)) < Cardinality(Below(y)) \/ Cardinality(Below(y)) < Cardinality(Below(x))
    BY <1>3
  <2> HIDE DEF place, Below
  <2> QED
    BY <2>1, <2>2, <1>4
<1>7. place \in Injection(S, 1 .. N)
  <2> HIDE DEF place
  <2> QED
    BY <1>5, <1>6 DEF Injection, IsInjective
<1>8. IsFiniteSet(1 .. N) /\ Cardinality(1 .. N) = N
  BY <1>1, FS_Interval
<1>9. place \in Surjection(S, 1 .. N)
  <2> HIDE DEF place
  <2> QED
    BY <1>7, <1>8, FS_Injection
<1>10. \A k \in 1 .. N : \E x \in S : place[x] = k
  BY <1>9 DEF Surjection
<1>11. ASSUME NEW k \in 1 .. N, NEW x \in S, place[x] = k PROVE Cardinality(Below(x)) = k - 1
  <2>1. Cardinality(Below(x)) \in Nat /\ place[x] = Cardinality(Below(x)) + 1
    BY <1>2, <1>4
  <2> HIDE DEF Below, place
  <2> QED
    BY <2>1, <1>11
<1> QED
  BY <1>10, <1>11

LEMMA InOrderIntegers ==
  ASSUME NEW S \in SUBSET Int, IsFiniteSet(S)
  PROVE  InOrder(S, Less) \in Seq(S)
<1> DEFINE R == {p \in S \X S : Less(p[1], p[2])}
           first(k) == CHOOSE x \in S : Cardinality({y \in S : Less(y, x)}) = k - 1
<1>1. \A k \in 1 .. Cardinality(S) : \E x \in S : Cardinality({y \in S : <<y, x>> \in R}) = k - 1
  <2>1. \A x, y \in S : <<x, y>> \in R <=> Less(x, y)
    OBVIOUS
  <2> HIDE DEF R
  <2>2. /\ \A x \in S : <<x, x>> \notin R
        /\ \A x, y \in S : x # y => <<x, y>> \in R \/ <<y, x>> \in R
        /\ \A x, y, z \in S : <<x, y>> \in R /\ <<y, z>> \in R => <<x, z>> \in R
    BY <2>1 DEF Less
  <2> QED
    BY <2>2, PlacesInOrder
<1>2. \A x \in S : {y \in S : <<y, x>> \in R} = {y \in S : Less(y, x)}
  OBVIOUS
<1>3. \A k \in 1 .. Cardinality(S) : \E x \in S : Cardinality({y \in S : Less(y, x)}) = k - 1
  <2> HIDE DEF R
  <2> QED
    BY <1>1, <1>2
<1>4. \A k \in 1 .. Cardinality(S) : first(k) \in S
  BY <1>3
<1>5. InOrder(S, Less) = [k \in 1 .. Cardinality(S) |-> first(k)]
  BY DEF InOrder
<1>6. Cardinality(S) \in Nat
  BY FS_CardinalityType
<1> HIDE DEF first
<1> QED
  BY <1>4, <1>5, <1>6, SeqDef

LEMMA InOrderUsages ==
  ASSUME NEW S \in SUBSET Usages, IsFiniteSet(S)
  PROVE  InOrder(S, UsageBefore) \in Seq(S)
<1> DEFINE R == {p \in S \X S : UsageBefore(p[1], p[2])}
           first(k) == CHOOSE x \in S : Cardinality({y \in S : UsageBefore(y, x)}) = k - 1
<1>1. \A k \in 1 .. Cardinality(S) : \E x \in S : Cardinality({y \in S : <<y, x>> \in R}) = k - 1
  <2>1. \A x, y \in S : <<x, y>> \in R <=> UsageBefore(x, y)
    OBVIOUS
  <2> HIDE DEF R
  <2>2. \A x \in S : x.page \in Nat /\ x.usage \in Nat /\ x = [page |-> x.page, usage |-> x.usage]
    BY DEF Usages
  <2>3. \A x, y \in S : x # y => x.page # y.page \/ x.usage # y.usage
    BY <2>2
  <2>4. /\ \A x \in S : <<x, x>> \notin R
        /\ \A x, y \in S : x # y => <<x, y>> \in R \/ <<y, x>> \in R
        /\ \A x, y, z \in S : <<x, y>> \in R /\ <<y, z>> \in R => <<x, z>> \in R
    BY <2>1, <2>2, <2>3 DEF UsageBefore
  <2> QED
    BY <2>4, PlacesInOrder
<1>2. \A x \in S : {y \in S : <<y, x>> \in R} = {y \in S : UsageBefore(y, x)}
  OBVIOUS
<1>3. \A k \in 1 .. Cardinality(S) : \E x \in S : Cardinality({y \in S : UsageBefore(y, x)}) = k - 1
  <2> HIDE DEF R
  <2> QED
    BY <1>1, <1>2
<1>4. \A k \in 1 .. Cardinality(S) : first(k) \in S
  BY <1>3
<1>5. InOrder(S, UsageBefore) = [k \in 1 .. Cardinality(S) |-> first(k)]
  BY DEF InOrder
<1>6. Cardinality(S) \in Nat
  BY FS_CardinalityType
<1> HIDE DEF first
<1> QED
  BY <1>4, <1>5, <1>6, SeqDef

\* Usages that say something.
GivenUsages == {u \in Usages : u # NoUsage}

UsageBag(bag) == IsABag(bag) /\ IsFiniteSet(DOMAIN bag) /\ DOMAIN bag \subseteq GivenUsages

LEMMA EntriesOf ==
  ASSUME NEW bag, UsageBag(bag)
  PROVE  Entries(bag) \in Seq(DOMAIN bag)
<1> DEFINE usages == InOrder(BagToSet(bag), UsageBefore)
           lists  == [i \in DOMAIN usages |-> [n \in 1 .. bag[usages[i]] |-> usages[i]]]
           D      == DOMAIN bag
<1>1. BagToSet(bag) = D /\ D \in SUBSET Usages /\ IsFiniteSet(D)
  BY DEF UsageBag, BagToSet, GivenUsages
<1>2. usages \in Seq(D)
  BY <1>1, InOrderUsages
<1>3. Entries(bag) = FlattenSeq(lists)
  BY DEF Entries
<1>5. \A u \in D : bag[u] \in Nat
  BY <1>1 DEF UsageBag, IsABag
<1> HIDE DEF usages, D
<1>4. Len(usages) \in Nat /\ DOMAIN usages = 1 .. Len(usages) /\ \A i \in DOMAIN usages : usages[i] \in D
  BY <1>2, LenProperties
<1>6. ASSUME NEW i \in DOMAIN usages PROVE [n \in 1 .. bag[usages[i]] |-> usages[i]] \in Seq(D)
  <2>1. bag[usages[i]] \in Nat /\ usages[i] \in D
    BY <1>4, <1>5
  <2>2. [n \in 1 .. bag[usages[i]] |-> usages[i]] \in [1 .. bag[usages[i]] -> D]
    BY <2>1
  <2> QED
    BY <2>1, <2>2, SeqDef
<1>7. lists \in [1 .. Len(usages) -> Seq(D)]
  BY <1>4, <1>6
<1>8. lists \in Seq(Seq(D))
  <2> HIDE DEF lists
  <2> QED
    BY <1>4, <1>7, SeqDef
<1>9. Entries(bag) \in Seq(D)
  BY <1>3, <1>8, FlattenSeqType
<1> QED
  BY <1>9 DEF D

LEMMA EntriesType ==
  ASSUME NEW bag, UsageBag(bag)
  PROVE  Entries(bag) \in Seq(GivenUsages)
BY EntriesOf, SeqMonotonic DEF UsageBag

LEMMA DifferenceOfBags ==
  ASSUME NEW a, NEW b, UsageBag(a), UsageBag(b)
  PROVE  UsageBag(a (-) b)
<1> DEFINE left == [e \in DOMAIN a |-> IF e \in DOMAIN b THEN a[e] - b[e] ELSE a[e]]
           kept == {d \in DOMAIN a : left[d] > 0}
<1>1. a (-) b = [e \in kept |-> left[e]]
  BY DEF (-)
<1>2. /\ \A e \in DOMAIN a : a[e] \in Nat
      /\ \A e \in DOMAIN b : b[e] \in Nat
      /\ IsFiniteSet(DOMAIN a) /\ DOMAIN a \subseteq GivenUsages
  BY DEF UsageBag, IsABag
<1>3. \A e \in DOMAIN a : left[e] \in Int
  BY <1>2
<1>4. kept \in SUBSET DOMAIN a
  OBVIOUS
<1>5. IsFiniteSet(kept) /\ kept \subseteq GivenUsages
  <2> HIDE DEF kept
  <2> QED
    BY <1>2, <1>4, FS_Subset
<1>6. \A e \in kept : left[e] \in {n \in Nat : n > 0}
  <2> HIDE DEF left
  <2> QED
    BY <1>3
<1> HIDE DEF left, kept
<1>7. DOMAIN (a (-) b) = kept /\ a (-) b \in [kept -> {n \in Nat : n > 0}]
  BY <1>1, <1>6
<1> QED
  BY <1>5, <1>7 DEF UsageBag, IsABag

LEMMA EntriesNone ==
  ASSUME NEW bag, UsageBag(bag)
  PROVE  Entries(bag (-) bag) = <<>>
<1> PICK none : none = bag (-) bag
  OBVIOUS
<1>1. \A u \in DOMAIN bag : bag[u] \in Nat
  BY DEF UsageBag, IsABag
<1>2. DOMAIN none = {}
  BY <1>1 DEF (-)
<1>3. UsageBag(none)
  BY DifferenceOfBags
<1> PICK e : e = Entries(none)
  OBVIOUS
<1>4. e \in Seq({})
  BY <1>2, <1>3, EntriesOf
<1>5. Len(e) \in Nat /\ \A i \in 1 .. Len(e) : e[i] \in {}
  BY <1>4, LenProperties
<1>6. ~(1 \in 1 .. Len(e))
  BY <1>5
<1>7. Len(e) = 0
  BY <1>5, <1>6
<1> QED
  BY <1>4, <1>7, EmptySeq

-----------------------------------------------------------------------------
(* Fields: what decoding finds in them. *)

Sound(field) ==
  /\ field \in Field /\ SizedGlobals(field.global)
  /\ field.global["REPORT_SIZE"] # 0 /\ field.global["REPORT_COUNT"] # 0
  /\ field.local.usage_sets # <<>>

FieldsSound == \A f \in DOMAIN fields_ : Sound(fields_[f])

LEMMA SoundFacts ==
  ASSUME NEW field, Sound(field)
  PROVE  /\ field.local.usage_sets[1] \in Seq(Usages)
         /\ \A t \in UsageBounds : field.local.usage_bound[t] \in Usages
         /\ field.global["REPORT_SIZE"] \in Nat \ {0} /\ field.global["REPORT_COUNT"] \in Nat \ {0}
         /\ field.global["LOGICAL_MINIMUM"] \in Int /\ field.global["LOGICAL_MAXIMUM"] \in Int
         /\ field.bit_offset \in Nat
<1>1. field.local \in Locals /\ field.global \in Globals /\ field.bit_offset \in Nat
  BY DEF Sound, Field
<1>2. field.local.usage_sets \in Seq(Seq(Usages)) /\ field.local.usage_bound \in [UsageBounds -> Usages]
  BY <1>1 DEF Locals
<1>3. field.local.usage_sets # <<>>
  BY DEF Sound
<1>4. field.local.usage_sets[1] \in Seq(Usages)
  <2>1. Len(field.local.usage_sets) \in Nat /\ DOMAIN field.local.usage_sets = 1 .. Len(field.local.usage_sets)
    BY <1>2, LenProperties
  <2>2. Len(field.local.usage_sets) # 0
    BY <1>2, <1>3, EmptySeq
  <2>3. 1 \in 1 .. Len(field.local.usage_sets)
    BY <2>1, <2>2
  <2> QED
    BY <1>2, <2>1, <2>3, ElementOfSeq
<1>5. "LOGICAL_MINIMUM" \in GlobalTags /\ "LOGICAL_MAXIMUM" \in GlobalTags
  BY DEF GlobalTags
<1> QED
  BY <1>1, <1>2, <1>4, <1>5 DEF Sound, SizedGlobals, Globals

LEMMA UsageAtType ==
  ASSUME NEW field, Sound(field), NEW index \in Nat, NEW repeat_last \in BOOLEAN
  PROVE  UsageAt(field, index, repeat_last) \in Usages
<1> DEFINE listed == field.local.usage_sets[1]
           low    == field.local.usage_bound["USAGE_MINIMUM"]
           high   == field.local.usage_bound["USAGE_MAXIMUM"]
<1>1. listed \in Seq(Usages) /\ Len(listed) \in Nat
  BY SoundFacts, LenProperties
<1>2. low \in Usages
  BY SoundFacts DEF UsageBounds
<1>3. index < Len(listed) => listed[index + 1] \in Usages
  <2> SUFFICES ASSUME index < Len(listed) PROVE listed[index + 1] \in Usages
    OBVIOUS
  <2>1. index + 1 \in 1 .. Len(listed)
    BY <1>1
  <2> HIDE DEF listed
  <2> QED
    BY <1>1, <2>1, ElementOfSeq
<1>4. listed # <<>> => Last(listed) \in Usages
  <2> SUFFICES ASSUME listed # <<>> PROVE Last(listed) \in Usages
    OBVIOUS
  <2> HIDE DEF listed
  <2>1. Len(listed) \in 1 .. Len(listed)
    BY <1>1, EmptySeq
  <2> QED
    BY <1>1, <2>1, ElementOfSeq DEF Last
<1>5. Usage(low.page, low.usage + index) \in Usages /\ NoUsage \in Usages
  BY <1>2 DEF Usage, NoUsage, Usages
<1>6. \/ index < Len(listed) /\ UsageAt(field, index, repeat_last) = listed[index + 1]
      \/ listed # <<>> /\ UsageAt(field, index, repeat_last) = Last(listed)
      \/ UsageAt(field, index, repeat_last) = Usage(low.page, low.usage + index)
      \/ UsageAt(field, index, repeat_last) = NoUsage
  BY DEF UsageAt
<1> QED
  BY <1>3, <1>4, <1>5, <1>6

LEMMA FiniteElements ==
  ASSUME NEW field, Sound(field), NEW S \in SUBSET Elements(field)
  PROVE  IsFiniteSet(S) /\ Cardinality(S) \in Nat /\ S \in SUBSET Int
<1>1. IsFiniteSet(Elements(field)) /\ Elements(field) \subseteq Int
  <2>1. field.global["REPORT_COUNT"] \in Nat
    BY SoundFacts
  <2> HIDE DEF Elements
  <2>2. IsFiniteSet(0 .. field.global["REPORT_COUNT"] - 1)
    BY <2>1, FS_Interval
  <2> QED
    BY <2>1, <2>2 DEF Elements
<1> QED
  BY <1>1, FS_Subset, FS_CardinalityType

LEMMA AssertedType ==
  ASSUME NEW field, Sound(field), NEW payload
  PROVE  UsageBag(Asserted(field, payload))
<1> DEFINE value(k) == ElementValue(field, k, payload)
           minimum  == field.global["LOGICAL_MINIMUM"]
           usage(k) == UsageAt(field, value(k) - minimum, FALSE)
           slots    == {k \in Elements(field) : /\ InRange(field, value(k))
                                                /\ usage(k).page # 0 /\ usage(k).usage # 0}
           used     == {usage(k) : k \in slots}
           of(u)    == {k \in slots : usage(k) = u}
<1>1. Asserted(field, payload) = [u \in used |-> Cardinality(of(u))]
  BY DEF Asserted
<1>2. ASSUME NEW k \in slots PROVE usage(k) \in GivenUsages
  <2>1. InRange(field, value(k)) /\ usage(k).page # 0
    OBVIOUS
  <2> HIDE DEF value
  <2>2. value(k) - minimum \in Nat
    BY <2>1, SoundFacts DEF InRange
  <2>3. usage(k) \in Usages /\ NoUsage.page = 0
    BY <2>2, UsageAtType DEF NoUsage, Usage
  <2> HIDE DEF usage
  <2> QED
    BY <2>1, <2>3 DEF GivenUsages
<1>3. slots \in SUBSET Elements(field)
  OBVIOUS
<1> HIDE DEF slots
<1>4. IsFiniteSet(slots) /\ Cardinality(slots) \in Nat
  BY <1>3, FiniteElements
<1>5. IsFiniteSet(used) /\ used \subseteq GivenUsages
  <2>1. used \subseteq GivenUsages
    BY <1>2
  <2> DEFINE map == [k \in slots |-> usage(k)]
  <2> HIDE DEF usage
  <2>2. map \in Surjection(slots, used)
    BY DEF Surjection
  <2> HIDE DEF map, used
  <2>3. IsFiniteSet(used)
    BY <1>4, <2>2, FS_Surjection
  <2> QED
    BY <2>1, <2>3
<1>6. ASSUME NEW u \in used PROVE Cardinality(of(u)) \in Nat \ {0}
  <2>1. of(u) \in SUBSET slots /\ of(u) # {}
    <3> HIDE DEF usage
    <3> QED
      OBVIOUS
  <2> HIDE DEF of
  <2>2. IsFiniteSet(of(u))
    BY <1>4, <2>1, FS_Subset
  <2> QED
    BY <2>1, <2>2, FS_CardinalityType, FS_EmptySet
<1>7. \A u \in used : Cardinality(of(u)) \in {n \in Nat : n > 0}
  <2> HIDE DEF of, used
  <2>1. \A n \in Nat \ {0} : n \in {m \in Nat : m > 0}
    OBVIOUS
  <2> QED
    BY <1>6, <2>1
<1> HIDE DEF used, of
<1>8. /\ DOMAIN Asserted(field, payload) = used
      /\ Asserted(field, payload) \in [used -> {n \in Nat : n > 0}]
  BY <1>1, <1>7
<1> QED
  BY <1>5, <1>8 DEF UsageBag, IsABag

-----------------------------------------------------------------------------
(* Values: sequences of them, each of which names what it is a value of. *)

ElementNamed(v, field, k) ==
  v = ItemValue(UsageAt(field, k, TRUE), ApplicationUsage(field.collection_id), v.value,
                ElementOffset(field, k), field.global["REPORT_ID"],
                Aggregation(field, UsageAt(field, k, TRUE)))

BootMotion(v, usage) ==
  v = ItemValue(Usage(1, usage), Usage(1, 2), v.value, 61408 + usage, 0, "SUM")

\* A value is an event of its own, or of an element of an input report, or a movement
\* of a boot mouse.
Named(v) ==
  \/ v.aggregation = "PASSTHROUGH" /\ v.usage \in GivenUsages
  \/ \E f \in DOMAIN fields_ :
       fields_[f].kind = "INPUT" /\ \E k \in Elements(fields_[f]) : ElementNamed(v, fields_[f], k)
  \/ BootMotion(v, 48) \/ BootMotion(v, 49)

NamedValues(s) == IsSequence(s) /\ \A i \in DOMAIN s : Named(s[i])

LEMMA NamedEmpty == NamedValues(<<>>)
<1>1. <<>> \in Seq({}) /\ DOMAIN <<>> = {}
  BY EmptySeq
<1> QED
  BY <1>1, SequenceOfItself DEF NamedValues

LEMMA NamedOne ==
  ASSUME NEW v, Named(v)
  PROVE  NamedValues(<<v>>)
<1>1. <<v>> \in Seq({v}) /\ DOMAIN <<v>> = {1} /\ <<v>>[1] = v
  OBVIOUS
<1> QED
  BY <1>1, SequenceOfItself DEF NamedValues

LEMMA NamedInSeq ==
  ASSUME NEW s
  PROVE  NamedValues(s) <=> \E S : s \in Seq(S) /\ \A v \in S : Named(v)
<1>1. ASSUME NamedValues(s) PROVE \E S : s \in Seq(S) /\ \A v \in S : Named(v)
  <2>1. s \in Seq({s[i] : i \in DOMAIN s}) /\ \A v \in {s[i] : i \in DOMAIN s} : Named(v)
    BY <1>1 DEF NamedValues, IsSequence
  <2> QED
    BY <2>1
<1>2. ASSUME NEW S, s \in Seq(S), \A v \in S : Named(v) PROVE NamedValues(s)
  <2>1. \A i \in DOMAIN s : s[i] \in S
    BY <1>2, ElementOfSeq, LenProperties
  <2> QED
    BY <1>2, <2>1, SequenceOfItself DEF NamedValues
<1> QED
  BY <1>1, <1>2

LEMMA NamedConcat ==
  ASSUME NEW s, NamedValues(s), NEW t, NamedValues(t)
  PROVE  NamedValues(s \o t)
<1>1. PICK S : s \in Seq(S) /\ \A v \in S : Named(v)
  BY NamedInSeq
<1>2. PICK T : t \in Seq(T) /\ \A v \in T : Named(v)
  BY NamedInSeq
<1>3. s \in Seq(S \cup T) /\ t \in Seq(S \cup T)
  BY <1>1, <1>2, SeqMonotonic
<1>4. s \o t \in Seq(S \cup T)
  BY <1>3, ConcatProperties
<1>5. \A v \in S \cup T : Named(v)
  BY <1>1, <1>2
<1>6. \E U : s \o t \in Seq(U) /\ \A v \in U : Named(v)
  BY <1>4, <1>5
<1> QED
  BY <1>6, NamedInSeq

LEMMA NamedFlattening ==
  ASSUME NEW lists, IsSequence(lists), \A i \in DOMAIN lists : NamedValues(lists[i])
  PROVE  NamedValues(FlattenSeq(lists))
<1> DEFINE S == UNION {{lists[i][j] : j \in DOMAIN lists[i]} : i \in DOMAIN lists}
<1>1. ASSUME NEW i \in DOMAIN lists PROVE lists[i] \in Seq(S)
  <2>1. lists[i] \in Seq({lists[i][j] : j \in DOMAIN lists[i]})
    BY DEF NamedValues, IsSequence
  <2>2. {lists[i][j] : j \in DOMAIN lists[i]} \subseteq S
    OBVIOUS
  <2> QED
    BY <2>1, <2>2, SeqMonotonic
<1>2. \A v \in S : Named(v)
  BY DEF NamedValues
<1> HIDE DEF S
<1>3. Len(lists) \in Nat /\ DOMAIN lists = 1 .. Len(lists) /\ lists \in Seq({lists[i] : i \in DOMAIN lists})
  BY SequenceFacts DEF IsSequence
<1>4. lists \in Seq(Seq(S))
  <2>1. {lists[i] : i \in DOMAIN lists} \subseteq Seq(S)
    BY <1>1
  <2> QED
    BY <1>3, <2>1, SeqMonotonic
<1>5. FlattenSeq(lists) \in Seq(S)
  BY <1>4, FlattenSeqType
<1> QED
  BY <1>2, <1>5, NamedInSeq

\* A value for each element of a sequence.
LEMMA NamedEach ==
  ASSUME NEW s, IsSequence(s), NEW values_of, values_of = [i \in DOMAIN s |-> values_of[i]],
         \A i \in DOMAIN s : Named(values_of[i])
  PROVE  NamedValues(values_of)
<1>1. Len(s) \in Nat /\ DOMAIN s = 1 .. Len(s)
  BY SequenceFacts
<1>2. values_of \in [1 .. Len(s) -> {values_of[i] : i \in DOMAIN s}]
  BY <1>1
<1>3. values_of \in Seq({values_of[i] : i \in DOMAIN s})
  BY <1>1, <1>2, SeqDef
<1> QED
  BY <1>3, NamedInSeq

LEMMA NamedPassthrough ==
  ASSUME NEW usage \in GivenUsages, NEW application, NEW value, NEW field_id, NEW report_id
  PROVE  Named(ItemValue(usage, application, value, field_id, report_id, "PASSTHROUGH"))
BY DEF Named, ItemValue

LEMMA VariableNamed ==
  ASSUME NEW f \in DOMAIN fields_, fields_[f].kind = "INPUT", NEW k \in Elements(fields_[f]), NEW payload
  PROVE  Named(VariableValue(fields_[f], k, payload))
<1>1. ElementNamed(VariableValue(fields_[f], k, payload), fields_[f], k)
  BY DEF ElementNamed, VariableValue, ItemValue
<1> QED
  BY <1>1 DEF Named

LEMMA VariableFieldNamed ==
  ASSUME FieldsSound, NEW f \in DOMAIN fields_, fields_[f].kind = "INPUT", NEW payload,
         ~IsConstant(fields_[f]), IsVariable(fields_[f])
  PROVE  NamedValues(FieldValues(fields_[f], payload))
<1> DEFINE field  == fields_[f]
           S      == {k \in Elements(field) : Speaks(field, k, payload)}
           spoken == InOrder(S, Less)
<1>1. Sound(field)
  BY DEF FieldsSound
<1>2. S \in SUBSET Elements(field)
  OBVIOUS
<1>3. FieldValues(field, payload) = [i \in DOMAIN spoken |-> VariableValue(field, spoken[i], payload)]
  BY DEF FieldValues
<1> HIDE DEF S
<1>4. IsFiniteSet(S) /\ S \in SUBSET Int
  BY <1>1, <1>2, FiniteElements
<1>5. spoken \in Seq(S)
  BY <1>4, InOrderIntegers
<1> HIDE DEF spoken
<1>6. IsSequence(spoken) /\ \A i \in DOMAIN spoken : spoken[i] \in Elements(field)
  BY <1>2, <1>5, SequenceOfItself, ElementOfSeq, LenProperties
<1>7. \A i \in DOMAIN spoken : Named(VariableValue(field, spoken[i], payload))
  BY <1>6, VariableNamed
<1> HIDE DEF field
<1> QED
  BY <1>3, <1>6, <1>7, NamedEach DEF field

ActiveKnown(record) == "active" \in DOMAIN record /\ UsageBag(record.active)

RuntimeTyped == \A id \in DOMAIN runtime_ : ActiveKnown(runtime_[id])

LEMMA RuntimeType ==
  ASSUME RuntimeTyped, NEW field
  PROVE  ActiveKnown(Runtime(field))
<1> DEFINE fresh == [last_values |-> [k \in Elements(field) |-> 0], active |-> EmptyBag]
<1>1. ActiveKnown(fresh)
  <2>1. "active" \in DOMAIN fresh /\ fresh.active = EmptyBag
    OBVIOUS
  <2>2. UsageBag(EmptyBag)
    <3>1. EmptyBag = [x \in {} |-> 1]
      BY DEF EmptyBag, SetToBag
    <3>2. DOMAIN EmptyBag = {} /\ EmptyBag \in [{} -> {n \in Nat : n > 0}]
      BY <3>1
    <3> QED
      BY <3>2, FS_EmptySet DEF UsageBag, IsABag
  <2> QED
    BY <2>1, <2>2 DEF ActiveKnown
<1> QED
  BY <1>1 DEF Runtime, RuntimeTyped

LEMMA ArrayFieldNamed ==
  ASSUME FieldsSound, RuntimeTyped, NEW f \in DOMAIN fields_, NEW payload
  PROVE  NamedValues(ArrayValues(fields_[f], payload))
<1> DEFINE field  == fields_[f]
           now    == Asserted(field, payload)
           before == Runtime(field).active
           change(usages, value) ==
             [i \in DOMAIN usages |->
                ItemValue(usages[i], ApplicationUsage(field.collection_id), value, field.bit_offset,
                          field.global["REPORT_ID"], "PASSTHROUGH")]
<1>1. UsageBag(now) /\ UsageBag(before)
  BY AssertedType, RuntimeType DEF FieldsSound, ActiveKnown
<1>2. ArrayValues(field, payload) = change(Entries(now (-) before), 1) \o change(Entries(before (-) now), 0)
  BY DEF ArrayValues
<1> HIDE DEF now, before
<1>3. ASSUME NEW usages, usages \in Seq(GivenUsages), NEW value PROVE NamedValues(change(usages, value))
  <2>1. IsSequence(usages) /\ \A i \in DOMAIN usages : usages[i] \in GivenUsages
    BY <1>3, SequenceOfItself, ElementOfSeq, LenProperties
  <2>2. \A i \in DOMAIN usages : Named(change(usages, value)[i])
    BY <2>1, NamedPassthrough
  <2>3. change(usages, value) = [i \in DOMAIN usages |-> change(usages, value)[i]]
    OBVIOUS
  <2> HIDE DEF change
  <2> QED
    BY <2>1, <2>2, <2>3, NamedEach
<1> HIDE DEF change
<1>4. UsageBag(now (-) before) /\ UsageBag(before (-) now)
  BY <1>1, DifferenceOfBags
<1>5. Entries(now (-) before) \in Seq(GivenUsages) /\ Entries(before (-) now) \in Seq(GivenUsages)
  BY <1>4, EntriesType
<1> HIDE DEF field
<1> QED
  BY <1>2, <1>3, <1>5, NamedConcat DEF field

LEMMA FieldNamed ==
  ASSUME FieldsSound, RuntimeTyped, NEW f \in DOMAIN fields_, fields_[f].kind = "INPUT", NEW payload
  PROVE  NamedValues(FieldValues(fields_[f], payload))
<1>1. CASE IsConstant(fields_[f])
  <2>1. FieldValues(fields_[f], payload) = <<>>
    BY <1>1 DEF FieldValues
  <2> QED
    BY <2>1, NamedEmpty
<1>2. CASE ~IsConstant(fields_[f]) /\ IsVariable(fields_[f])
  BY <1>2, VariableFieldNamed
<1>3. CASE ~IsConstant(fields_[f]) /\ ~IsVariable(fields_[f])
  <2>1. FieldValues(fields_[f], payload) = ArrayValues(fields_[f], payload)
    BY <1>3 DEF FieldValues
  <2> QED
    BY <2>1, ArrayFieldNamed
<1> QED
  BY <1>1, <1>2, <1>3

-----------------------------------------------------------------------------
(* Input reports of the Report Map. *)

\* The report an input report is decoded with, and its fields.
Found(n) == reports_[CHOOSE r \in InputReport(n) : TRUE]

LEMMA FoundReport ==
  ASSUME MapInv, NEW n, MapStatus(n) \in Complete
  PROVE  /\ IsSequence(FieldsOf(Found(n)))
         /\ \A i \in DOMAIN FieldsOf(Found(n)) :
              \E f \in DOMAIN fields_ : FieldsOf(Found(n))[i] = fields_[f] /\ fields_[f].kind = "INPUT"
<1>1. InputReport(n) # {}
  BY DEF MapStatus, Complete
<1> DEFINE r == CHOOSE q \in InputReport(n) : TRUE
           report == reports_[r]
<1>2. r \in InputReport(n)
  BY <1>1
<1>3. r \in DOMAIN reports_ /\ report.kind = "INPUT"
  <2>1. \E id : r \in ReportOf("INPUT", id)
    <3>1. phase = "VALID"
      BY <1>1 DEF InputReport
    <3> HIDE DEF r
    <3> QED
      BY <1>2, <3>1 DEF InputReport
  <2> HIDE DEF r
  <2> QED
    BY <2>1 DEF ReportOf
<1> HIDE DEF r
<1>4. Tiled(report, fields_) /\ report \in Report
  BY <1>3, ElementOfSeq, LenProperties DEF MapInv, AllTiled
<1>5. Found(n) = report
  BY DEF Found, r
<1> HIDE DEF report
<1>6. report.field_ids \in Seq(Nat)
  BY <1>4 DEF Report
<1>7. Len(report.field_ids) \in Nat /\ DOMAIN report.field_ids = 1 .. Len(report.field_ids)
  BY <1>6, LenProperties
<1>8. FieldsOf(report) = [k \in 1 .. Len(report.field_ids) |-> FieldOf(report, fields_, k)]
  BY <1>7 DEF FieldsOf, FieldOf
<1>9. \A k \in DOMAIN report.field_ids :
        report.field_ids[k] + 1 \in DOMAIN fields_ /\ FieldOf(report, fields_, k).kind = "INPUT"
  BY <1>3, <1>4 DEF Tiled, report
<1>10. IsSequence(FieldsOf(report))
  <2>1. FieldsOf(report) \in [1 .. Len(report.field_ids) ->
                                {FieldOf(report, fields_, k) : k \in 1 .. Len(report.field_ids)}]
    BY <1>8
  <2>2. FieldsOf(report) \in Seq({FieldOf(report, fields_, k) : k \in 1 .. Len(report.field_ids)})
    BY <2>1, <1>7, SeqDef
  <2> QED
    BY <2>2, SequenceOfItself
<1>11. ASSUME NEW i \in DOMAIN FieldsOf(report)
       PROVE  \E f \in DOMAIN fields_ : FieldsOf(report)[i] = fields_[f] /\ fields_[f].kind = "INPUT"
  <2>1. i \in DOMAIN report.field_ids /\ FieldsOf(report)[i] = fields_[report.field_ids[i] + 1]
    BY <1>7, <1>8 DEF FieldOf
  <2> QED
    BY <1>9, <2>1 DEF FieldOf
<1> QED
  BY <1>5, <1>10, <1>11

LEMMA InputNamed ==
  ASSUME MapInv, FieldsSound, RuntimeTyped, NEW n, ParseInput(n)
  PROVE  NamedValues(values')
<1> DEFINE fields == IF MapStatus(n) \in Complete THEN FieldsOf(Found(n)) ELSE <<>>
           lists  == [i \in DOMAIN fields |-> FieldValues(fields[i], n.payload)]
<1>1. values' = FlattenSeq(lists)
  BY DEF ParseInput, Found
<1>2. /\ IsSequence(fields)
      /\ \A i \in DOMAIN fields : \E f \in DOMAIN fields_ : fields[i] = fields_[f] /\ fields_[f].kind = "INPUT"
  <2>1. IsSequence(<<>>) /\ DOMAIN <<>> = {}
    BY NamedEmpty DEF NamedValues
  <2> QED
    BY <2>1, FoundReport
<1> HIDE DEF fields
<1>3. \A i \in DOMAIN fields : NamedValues(lists[i])
  BY <1>2, FieldNamed
<1>4. IsSequence(lists)
  <2>1. Len(fields) \in Nat /\ DOMAIN fields = 1 .. Len(fields)
    BY <1>2, SequenceFacts
  <2>2. lists \in [1 .. Len(fields) -> {lists[i] : i \in DOMAIN fields}]
    BY <2>1
  <2>3. lists \in Seq({lists[i] : i \in DOMAIN fields})
    BY <2>1, <2>2, SeqDef
  <2> HIDE DEF lists
  <2> QED
    BY <2>3, SequenceOfItself
<1>5. DOMAIN lists = DOMAIN fields
  OBVIOUS
<1> HIDE DEF lists
<1> QED
  BY <1>1, <1>3, <1>4, <1>5, NamedFlattening

\* Field states are those of fields, by their ids.
RuntimeOfFields == \A id \in DOMAIN runtime_ : id + 1 \in DOMAIN fields_ /\ id \in Int

LEMMA InputRuntime ==
  ASSUME MapInv, FieldsSound, RuntimeTyped, RuntimeOfFields, NEW n, ParseInput(n), UNCHANGED vars
  PROVE  RuntimeTyped' /\ RuntimeOfFields'
<1> DEFINE fields  == IF MapStatus(n) \in Complete THEN FieldsOf(Found(n)) ELSE <<>>
           decoded == {f \in Range(fields) : ~IsConstant(f)}
           ids     == DOMAIN runtime_ \cup {f.id : f \in decoded}
           state(id) == IF \E f \in decoded : f.id = id
                        THEN FieldRuntime(fields_[id + 1], n.payload) ELSE runtime_[id]
<1>1. runtime_' = [id \in ids |-> state(id)]
  BY DEF ParseInput, Found
<1>2. \A f \in decoded : \E g \in DOMAIN fields_ : f = fields_[g]
  <2>1. IsSequence(<<>>) /\ DOMAIN <<>> = {}
    BY NamedEmpty DEF NamedValues
  <2>2. \A i \in DOMAIN fields : \E g \in DOMAIN fields_ : fields[i] = fields_[g]
    BY <2>1, FoundReport
  <2> HIDE DEF fields
  <2> QED
    BY <2>2 DEF Range
<1> HIDE DEF decoded
<1>3. \A f \in decoded : f.id + 1 \in DOMAIN fields_ /\ f.id \in Int
  <2>1. \A g \in DOMAIN fields_ : g \in Nat /\ fields_[g].id = g - 1
    BY SequenceFacts DEF MapInv, Sized, FieldsListed
  <2> QED
    BY <1>2, <2>1
<1>4. ASSUME NEW field, Sound(field)
      PROVE  ActiveKnown(FieldRuntime(field, n.payload))
  <2> DEFINE before == Runtime(field)
             now    == Asserted(field, n.payload)
             last   == [k \in Elements(field) |-> IF Speaks(field, k, n.payload)
                                                  THEN ElementValue(field, k, n.payload)
                                                  ELSE before.last_values[k]]
  <2>1. ActiveKnown(before) /\ UsageBag(now)
    BY <1>4, RuntimeType, AssertedType
  <2>2. \/ FieldRuntime(field, n.payload) = [before EXCEPT !.last_values = last]
        \/ FieldRuntime(field, n.payload) = [before EXCEPT !.active = now]
    BY DEF FieldRuntime
  <2> HIDE DEF before, now, last
  <2>3. CASE FieldRuntime(field, n.payload) = [before EXCEPT !.last_values = last]
    BY <2>1, <2>3 DEF ActiveKnown
  <2>4. CASE FieldRuntime(field, n.payload) = [before EXCEPT !.active = now]
    BY <2>1, <2>4 DEF ActiveKnown
  <2> QED
    BY <2>2, <2>3, <2>4
<1>5. ASSUME NEW id \in ids PROVE ActiveKnown(state(id)) /\ id + 1 \in DOMAIN fields_ /\ id \in Int
  <2>1. CASE \E f \in decoded : f.id = id
    <3>1. id + 1 \in DOMAIN fields_ /\ id \in Int
      BY <1>3, <2>1
    <3>2. Sound(fields_[id + 1])
      BY <3>1 DEF FieldsSound
    <3> QED
      BY <1>4, <2>1, <3>1, <3>2
  <2>2. CASE ~\E f \in decoded : f.id = id
    <3>1. id \in DOMAIN runtime_
      BY <2>2
    <3> QED
      BY <2>2, <3>1 DEF RuntimeTyped, RuntimeOfFields
  <2> QED
    BY <2>1, <2>2
<1> HIDE DEF ids, state
<1>6. DOMAIN runtime_' = ids /\ \A id \in ids : runtime_'[id] = state(id)
  BY <1>1
<1>7. fields_' = fields_
  BY DEF vars, mapVars
<1> QED
  BY <1>5, <1>6, <1>7 DEF RuntimeTyped, RuntimeOfFields, ActiveKnown, UsageBag

-----------------------------------------------------------------------------
(* Boot reports. *)

Bytes == 0 .. 255

BootStates == [modifiers : Bytes, keys : SUBSET (1 .. 231), buttons : Bytes]

LEMMA ByteOfPayload ==
  ASSUME NEW n \in Notifications, NEW i \in Nat \ {0}, i <= Len(n.payload)
  PROVE  n.payload[i] \in Bytes
<1>1. n.payload \in Seq(Bytes)
  BY DecoderAssumption DEF Notification, Bytes
<1>2. i \in 1 .. Len(n.payload)
  BY <1>1, LenProperties
<1> QED
  BY <1>1, <1>2, ElementOfSeq

LEMMA FiniteInterval ==
  ASSUME NEW a \in Int, NEW b \in Int, NEW S \in SUBSET (a .. b)
  PROVE  IsFiniteSet(S) /\ S \in SUBSET Int
<1>1. IsFiniteSet(a .. b)
  BY FS_Interval
<1>2. a .. b \subseteq Int
  OBVIOUS
<1> QED
  BY <1>1, <1>2, FS_Subset

LEMMA UsageGiven ==
  ASSUME NEW page \in Nat \ {0}, NEW usage \in Nat
  PROVE  Usage(page, usage) \in GivenUsages
BY DEF Usage, NoUsage, Usages, GivenUsages

LEMMA BitChangesNamed ==
  ASSUME NEW n, NEW byte, NEW before, NEW count \in Nat, NEW page \in {7, 9}, NEW usage \in Nat,
         NEW field_id
  PROVE  NamedValues(BitChanges(n, byte, before, count, page, usage, field_id))
<1> DEFINE S       == {b \in 0 .. count - 1 : IsSet(byte, b) # IsSet(before, b)}
           changed == InOrder(S, Less)
           all     == [i \in DOMAIN changed |->
                         BootValue(n, page, usage + changed[i], IF IsSet(byte, changed[i]) THEN 1 ELSE 0,
                                   field_id + changed[i])]
<1>1. S \in SUBSET (0 .. count - 1)
  OBVIOUS
<1>2. BitChanges(n, byte, before, count, page, usage, field_id) = all
  BY DEF BitChanges
<1> HIDE DEF S
<1>3. IsFiniteSet(S) /\ S \in SUBSET Int
  <2> DEFINE top == count - 1
  <2>1. 0 \in Int /\ top \in Int /\ S \in SUBSET (0 .. top)
    BY <1>1
  <2> HIDE DEF top, changed, all
  <2> QED
    BY <1>1, <2>1, FiniteInterval
<1>4. IsSequence(changed) /\ \A i \in DOMAIN changed : changed[i] \in Nat
  <2>1. changed \in Seq(S)
    BY <1>3, InOrderIntegers
  <2> HIDE DEF changed, all
  <2>2. IsSequence(changed) /\ \A i \in DOMAIN changed : changed[i] \in S
    BY <2>1, SequenceOfItself, ElementOfSeq, LenProperties
  <2>3. \A b \in S : b \in Nat
    BY <1>1
  <2> QED
    BY <2>2, <2>3, Zenon
<1> HIDE DEF changed
<1>5. \A i \in DOMAIN changed : Named(all[i])
  <2>1. \A i \in DOMAIN changed : Usage(page, usage + changed[i]) \in GivenUsages
    BY <1>4, UsageGiven
  <2> QED
    BY <2>1, NamedPassthrough DEF BootValue
<1>6. all = [i \in DOMAIN changed |-> all[i]]
  OBVIOUS
<1> HIDE DEF all
<1> QED
  BY <1>2, <1>4, <1>5, <1>6, NamedEach

LEMMA MovedNamed ==
  ASSUME NEW n, n.characteristic = "BOOT_MOUSE", NEW byte, NEW usage \in {48, 49}
  PROVE  NamedValues(Moved(n, byte, usage, 61408 + usage))
<1> DEFINE v == BootValue(n, 1, usage, Signed8(byte), 61408 + usage)
<1>1. BootMotion(v, usage)
  BY DEF BootMotion, BootValue, BootUsage, ItemValue
<1>2. Named(v)
  BY <1>1 DEF Named
<1>3. Moved(n, byte, usage, 61408 + usage) = IF byte = 0 THEN <<>> ELSE <<v>>
  BY DEF Moved
<1> HIDE DEF v
<1> QED
  BY <1>2, <1>3, NamedEmpty, NamedOne

LEMMA BootMouseKeeps ==
  ASSUME boot_decoder_ \in [Handles -> BootStates], NEW n \in Notifications,
         n.characteristic = "BOOT_MOUSE", Len(n.payload) >= 3, BootMouse(n)
  PROVE  NamedValues(values') /\ boot_decoder_' \in [Handles -> BootStates]
<1>1. n.payload[1] \in Bytes /\ n.handle \in Handles
  <2>1. 1 <= Len(n.payload)
    <3>1. n.payload \in Seq(0 .. 255)
      BY DecoderAssumption DEF Notification
    <3> QED
      BY <3>1, LenProperties
  <2> QED
    BY <2>1, ByteOfPayload DEF Handles
<1>2. boot_decoder_' \in [Handles -> BootStates]
  <2> DEFINE new == [boot_decoder_[n.handle] EXCEPT !.buttons = n.payload[1]]
  <2>1. boot_decoder_[n.handle] \in BootStates
    BY <1>1
  <2>2. new \in BootStates
    BY <1>1, <2>1 DEF BootStates
  <2>3. boot_decoder_' = [boot_decoder_ EXCEPT ![n.handle] = new]
    BY DEF BootMouse
  <2> HIDE DEF new
  <2> QED
    BY <1>1, <2>2, <2>3
<1> DEFINE buttons == BitChanges(n, n.payload[1], boot_decoder_[n.handle].buttons, 3, 9, 1, 61440)
           x       == Moved(n, n.payload[2], 48, 61456)
           y       == Moved(n, n.payload[3], 49, 61457)
<1>3. values' = buttons \o x \o y
  BY DEF BootMouse
<1>4. NamedValues(buttons)
  BY BitChangesNamed
<1>5. NamedValues(x) /\ NamedValues(y)
  <2>1. 61408 + 48 = 61456 /\ 61408 + 49 = 61457
    OBVIOUS
  <2> QED
    BY <2>1, MovedNamed
<1> HIDE DEF buttons, x, y
<1>6. NamedValues(buttons \o x)
  BY <1>4, <1>5, NamedConcat
<1>7. NamedValues((buttons \o x) \o y)
  BY <1>5, <1>6, NamedConcat
<1> QED
  BY <1>2, <1>3, <1>7

LEMMA KeysNamed ==
  ASSUME NEW n, NEW keys \in SUBSET (1 .. 231), NEW value
  PROVE  NamedValues(KeyChanges(n, keys, value))
<1> DEFINE sorted == InOrder(keys, Less)
           all    == [i \in DOMAIN sorted |-> BootValue(n, 7, sorted[i], value, 61952)]
<1>1. IsFiniteSet(keys) /\ keys \in SUBSET Int
  <2>1. 1 \in Int /\ 231 \in Int
    OBVIOUS
  <2> HIDE DEF sorted
  <2> QED
    BY <2>1, FiniteInterval
<1>2. KeyChanges(n, keys, value) = all
  BY DEF KeyChanges
<1>3. IsSequence(sorted) /\ \A i \in DOMAIN sorted : sorted[i] \in Nat
  <2>1. sorted \in Seq(keys)
    BY <1>1, InOrderIntegers
  <2> HIDE DEF sorted, all
  <2>2. IsSequence(sorted) /\ \A i \in DOMAIN sorted : sorted[i] \in keys
    BY <2>1, SequenceOfItself, ElementOfSeq, LenProperties
  <2>3. \A key \in keys : key \in Nat
    OBVIOUS
  <2> QED
    BY <2>2, <2>3, Zenon
<1> HIDE DEF sorted
<1>4. \A i \in DOMAIN sorted : Named(all[i])
  <2>1. \A i \in DOMAIN sorted : Usage(7, sorted[i]) \in GivenUsages
    BY <1>3, UsageGiven
  <2> QED
    BY <2>1, NamedPassthrough DEF BootValue
<1>5. all = [i \in DOMAIN sorted |-> all[i]]
  OBVIOUS
<1> HIDE DEF all
<1> QED
  BY <1>2, <1>3, <1>4, <1>5, NamedEach

LEMMA ModifiersNamed ==
  ASSUME NEW n, NEW byte, NEW before
  PROVE  NamedValues(BitChanges(n, byte, before, 8, 7, 224, 61696))
BY BitChangesNamed

LEMMA BootKeyboardKeeps ==
  ASSUME boot_decoder_ \in [Handles -> BootStates], NEW n \in Notifications,
         Len(n.payload) >= 8, BootKeyboard(n)
  PROVE  NamedValues(values') /\ boot_decoder_' \in [Handles -> BootStates]
<1> DEFINE held == {n.payload[i] : i \in 3 .. 8} \cap 1 .. 231
           was  == boot_decoder_[n.handle].keys
           modifiers == BitChanges(n, n.payload[1], boot_decoder_[n.handle].modifiers, 8, 7, 224, 61696)
           pressed   == KeyChanges(n, held \ was, 1)
           released  == KeyChanges(n, was \ held, 0)
           new  == [boot_decoder_[n.handle] EXCEPT !.modifiers = n.payload[1], !.keys = held]
<1>1. n.payload[1] \in Bytes /\ boot_decoder_[n.handle] \in BootStates
  <2>1. 1 <= Len(n.payload)
    <3>1. n.payload \in Seq(0 .. 255)
      BY DecoderAssumption DEF Notification
    <3> QED
      BY <3>1, LenProperties
  <2> QED
    BY <2>1, ByteOfPayload DEF Handles
<1>2. values' = modifiers \o pressed \o released
  BY DEF BootKeyboard
<1>3. boot_decoder_' = [boot_decoder_ EXCEPT ![n.handle] = new]
  BY SMTT(30) DEF BootKeyboard
<1>4. held \in SUBSET (1 .. 231)
  OBVIOUS
<1> HIDE DEF held
<1>5. was \in SUBSET (1 .. 231)
  BY <1>1 DEF BootStates
<1>6. boot_decoder_' \in [Handles -> BootStates]
  <2>1. new \in BootStates
    BY <1>1, <1>4 DEF BootStates
  <2> HIDE DEF new
  <2> QED
    BY <1>3, <2>1
<1> HIDE DEF was, new
<1>7. NamedValues(modifiers)
  BY ModifiersNamed
<1>8. NamedValues(pressed) /\ NamedValues(released)
  BY <1>4, <1>5, KeysNamed
<1> HIDE DEF modifiers, pressed, released
<1>9. NamedValues(modifiers \o pressed)
  BY <1>7, <1>8, NamedConcat
<1>10. NamedValues((modifiers \o pressed) \o released)
  BY <1>8, <1>9, NamedConcat
<1> QED
  BY <1>2, <1>6, <1>10

LEMMA BootKeeps ==
  ASSUME boot_decoder_ \in [Handles -> BootStates], NEW n \in Notifications,
         n.characteristic # "REPORT", DecodeBoot(n)
  PROVE  NamedValues(values') /\ boot_decoder_' \in [Handles -> BootStates]
<1>1. Len(n.payload) \in Nat
  <2>1. n.payload \in Seq(0 .. 255)
    BY DecoderAssumption DEF Notification
  <2> QED
    BY <2>1, LenProperties
<1>2. \A expected \in Nat : Length(n, expected) \in Complete => Len(n.payload) >= expected
  BY <1>1 DEF Length, Complete
<1>3. CASE status' = "SHORT" /\ values' = <<>> /\ UNCHANGED boot_decoder_
  BY <1>3, NamedEmpty
<1>4. CASE status' \in Complete /\ n.characteristic = "BOOT_MOUSE" /\ BootMouse(n)
  <2>1. status' = Length(n, 3)
    BY <1>4 DEF DecodeBoot
  <2>2. Len(n.payload) >= 3
    BY <1>2, <1>4, <2>1
  <2> QED
    BY <1>4, <2>2, BootMouseKeeps
<1>5. CASE status' \in Complete /\ n.characteristic = "BOOT_KEYBOARD" /\ BootKeyboard(n)
  <2>1. status' = Length(n, 8)
    BY <1>5 DEF DecodeBoot
  <2>2. Len(n.payload) >= 8
    BY <1>2, <1>5, <2>1
  <2> QED
    BY <1>5, <2>2, BootKeyboardKeeps
<1> QED
  BY <1>3, <1>4, <1>5 DEF DecodeBoot

-----------------------------------------------------------------------------
(* The decoders: their types, and what the values shown name. *)

FieldsFilled ==
  \A f \in DOMAIN fields_ :
    /\ fields_[f].global["REPORT_SIZE"] # 0 /\ fields_[f].global["REPORT_COUNT"] # 0
    /\ fields_[f].local.usage_sets # <<>>

LEMMA FieldsAreSound ==
  ASSUME MapInv, ParserTypeOK, FieldsFilled
  PROVE  FieldsSound
<1>1. fields_ \in Seq(Field)
  BY DEF ParserTypeOK
<1>2. \A f \in DOMAIN fields_ : fields_[f] \in Field
  BY <1>1, ElementOfSeq, LenProperties
<1> QED
  BY <1>2 DEF FieldsFilled, FieldsSound, Sound, MapInv, Sized

LEMMA OnlyAddField ==
  ASSUME MapInv, [Next]_vars
  PROVE  fields_' = fields_ \/ AddField
<1>1. CASE LocalItem
  BY <1>1, LocalItemFacts
<1>2. CASE BeginCollection \/ EndCollection
  BY <1>2, CollectionItemFacts
<1>3. CASE SetGlobal \/ PushGlobal \/ PopGlobal
  BY <1>3, GlobalItemFacts
<1>4. CASE Fail \/ Finish \/ UNCHANGED vars
  BY <1>4, StopFacts
<1> QED
  BY <1>1, <1>2, <1>3, <1>4 DEF Next, LocalItem

LEMMA FieldsFilledKept ==
  ASSUME MapInv, ParserTypeOK, FieldsFilled, [Next]_vars
  PROVE  FieldsFilled'
<1>1. CASE fields_' = fields_
  BY <1>1 DEF FieldsFilled
<1>2. CASE AddField
  <2> DEFINE new == [id |-> Len(fields_), kind |-> NextItem.tag, collection_id |-> Innermost,
                     bit_offset |-> BitOffset(NextItem.tag), flags |-> NextItem.raw % 2 ^ 9,
                     global |-> global, local |-> local]
  <2>1. fields_' = Append(fields_, new) /\ NextItem.tag \in DataTags /\ ~FieldRefused(NextItem)
    BY <1>2 DEF AddField, Reads, Refused
  <2>2. new.global["REPORT_SIZE"] # 0 /\ new.global["REPORT_COUNT"] # 0
    BY <2>1 DEF FieldRefused
  <2>3. new.local.usage_sets # <<>>
    <3>1. 1 \in DOMAIN local.usage_sets
      BY UsageSetsType
    <3> QED
      BY <3>1, EmptySeq
  <2> HIDE DEF new
  <2>4. IsSequence(fields_)
    BY DEF MapInv, Sized
  <2>5. /\ DOMAIN fields_' = 1 .. Len(fields_) + 1 /\ DOMAIN fields_ = 1 .. Len(fields_)
        /\ \A f \in DOMAIN fields_ : fields_'[f] = fields_[f]
        /\ fields_'[Len(fields_) + 1] = new /\ Len(fields_) \in Nat
    BY <2>1, <2>4, SequenceAppend, SequenceFacts
  <2>6. \A f \in DOMAIN fields_' : f \in DOMAIN fields_ \/ f = Len(fields_) + 1
    BY <2>5
  <2> QED
    BY <2>2, <2>3, <2>5, <2>6 DEF FieldsFilled
<1> QED
  BY <1>1, <1>2, OnlyAddField

\* A parser that is done does nothing, and one that is at work starts no second time.
LEMMA ParserStops ==
  ASSUME Next
  PROVE  phase = "PARSING"
BY DEF Next, SetGlobal, PushGlobal, PopGlobal, AddUsage, SetUsageBound, AddIndex, SetBound, Delimit,
       BeginCollection, EndCollection, AddField, SkipItem, Fail, Finish, Reads, Reading

LEMMA FieldsGrow ==
  ASSUME MapInv, [Next]_vars
  PROVE  DOMAIN fields_ \subseteq DOMAIN fields_'
<1>1. CASE fields_' = fields_
  BY <1>1
<1>2. CASE AddField
  <2>1. IsSequence(fields_) /\ \E new : fields_' = Append(fields_, new)
    BY <1>2 DEF MapInv, Sized, AddField
  <2>2. Len(fields_) \in Nat /\ DOMAIN fields_ = 1 .. Len(fields_) /\ DOMAIN fields_' = 1 .. Len(fields_) + 1
    BY <2>1, SequenceAppend, SequenceFacts
  <2> QED
    BY <2>2
<1> QED
  BY <1>1, <1>2, OnlyAddField

Statuses == {"EXACT", "LONG", "SHORT", "SCHEMA_MISSING", "REPORT_KIND_MISMATCH"}

DecoderInv ==
  /\ FieldsFilled /\ RuntimeTyped /\ RuntimeOfFields
  /\ status \in Statuses
  /\ boot_decoder_ \in [Handles -> BootStates]
  /\ received \in Seq(Notifications)
  /\ phase = "PARSING" => values = <<>> /\ shown = <<>>
  /\ NamedValues(values) /\ NamedValues(shown)

LEMMA DecoderInvInit == DecoderInit => DecoderInv
<1> SUFFICES ASSUME DecoderInit PROVE DecoderInv
  OBVIOUS
<1>1. fields_ = <<>> /\ DOMAIN <<>> = {} /\ runtime_ = << >> /\ <<>> \in Seq(Notifications)
  BY EmptySeq DEF DecoderInit, Init
<1>2. boot_decoder_ \in [Handles -> BootStates]
  BY DEF DecoderInit, BootStates, Bytes
<1> QED
  BY <1>1, <1>2, NamedEmpty DEF DecoderInit, DecoderInv, FieldsFilled, RuntimeTyped, RuntimeOfFields,
     Statuses

LEMMA NamedSame ==
  ASSUME UNCHANGED vars, NEW s, NamedValues(s)
  PROVE  NamedValues(s)'
<1>1. fields_' = fields_ /\ collections_' = collections_
  BY DEF vars, mapVars
<1>2. \A c : ApplicationUsage(c)' = ApplicationUsage(c)
  BY <1>1 DEF ApplicationUsage
<1>3. \A v : Named(v) => Named(v)'
  BY <1>1, <1>2 DEF Named, ElementNamed
<1> QED
  BY <1>3 DEF NamedValues

\* Input reports come when the parser is done, and leave its map alone.
LEMMA ReportKeeps ==
  ASSUME MapInv, ParserTypeOK, DecoderInv, NEW n \in Notifications, ProcessInputReport(n)
  PROVE  DecoderInv'
<1>1. FieldsSound
  BY FieldsAreSound DEF DecoderInv
<1>2. /\ UNCHANGED vars /\ phase # "PARSING"
      /\ received' = Append(received, n) /\ shown' = shown \o values'
  BY DEF ProcessInputReport
<1>3. /\ NamedValues(values') /\ boot_decoder_' \in [Handles -> BootStates]
      /\ RuntimeTyped' /\ RuntimeOfFields' /\ status' \in Statuses
  <2>1. CASE n.characteristic = "REPORT"
    <3>1. ParseInput(n)
      BY <2>1 DEF ProcessInputReport
    <3>2. status' \in Statuses /\ boot_decoder_' = boot_decoder_
      BY <3>1 DEF ParseInput, MapStatus, Length, Statuses
    <3>3. NamedValues(values')
      BY <1>1, <3>1, InputNamed DEF DecoderInv
    <3>4. RuntimeTyped' /\ RuntimeOfFields'
      BY <1>1, <1>2, <3>1, InputRuntime DEF DecoderInv
    <3> QED
      BY <3>2, <3>3, <3>4 DEF DecoderInv
  <2>2. CASE n.characteristic # "REPORT"
    <3>1. DecodeBoot(n)
      BY <2>2 DEF ProcessInputReport
    <3>2. status' \in Statuses /\ runtime_' = runtime_ /\ fields_' = fields_
      BY <1>2, <3>1 DEF DecodeBoot, Length, Statuses, vars, mapVars
    <3>3. NamedValues(values') /\ boot_decoder_' \in [Handles -> BootStates]
      BY <2>2, <3>1, BootKeeps DEF DecoderInv
    <3>4. RuntimeTyped' /\ RuntimeOfFields'
      BY <3>2 DEF DecoderInv, RuntimeTyped, RuntimeOfFields, ActiveKnown, UsageBag
    <3> QED
      BY <3>2, <3>3, <3>4
  <2> QED
    BY <2>1, <2>2
<1>4. NamedValues(shown')
  BY <1>2, <1>3, NamedConcat DEF DecoderInv
<1>5. NamedValues(values)' /\ NamedValues(shown)'
  <2>1. fields_' = fields_ /\ collections_' = collections_
    BY <1>2 DEF vars, mapVars
  <2>2. \A c : ApplicationUsage(c)' = ApplicationUsage(c)
    BY <2>1 DEF ApplicationUsage
  <2> QED
    BY <1>3, <1>4, <2>1, <2>2 DEF NamedValues, Named, ElementNamed
<1>6. received' \in Seq(Notifications)
  BY <1>2, AppendProperties DEF DecoderInv
<1>7. FieldsFilled' /\ phase' = phase
  BY <1>2 DEF vars, mapVars, inputVars, FieldsFilled, DecoderInv
<1> QED
  BY <1>2, <1>3, <1>5, <1>6, <1>7 DEF DecoderInv

\* Nothing is shown of a map that is not finished.
LEMMA ItemKeeps ==
  ASSUME MapInv, ParserTypeOK, DecoderInv, [Next]_vars, UNCHANGED decoderVars
  PROVE  DecoderInv'
<1>1. FieldsFilled'
  BY FieldsFilledKept DEF DecoderInv
<1>2. UNCHANGED <<runtime_, boot_decoder_, status, values, received, shown>>
  BY DEF decoderVars, runtimeVars
<1>3. RuntimeTyped' /\ RuntimeOfFields'
  BY <1>2, FieldsGrow DEF DecoderInv, RuntimeTyped, RuntimeOfFields, ActiveKnown, UsageBag
<1>4. /\ phase' = "PARSING" => values' = <<>> /\ shown' = <<>>
      /\ NamedValues(values)' /\ NamedValues(shown)'
  <2>1. CASE UNCHANGED vars
    <3>1. phase' = phase
      BY <2>1 DEF vars, inputVars
    <3>2. NamedValues(values)' /\ NamedValues(shown)'
      BY <1>2, <2>1, NamedSame DEF DecoderInv
    <3> QED
      BY <1>2, <3>1, <3>2 DEF DecoderInv
  <2>2. CASE Next
    <3>1. values' = <<>> /\ shown' = <<>>
      BY <1>2, <2>2, ParserStops DEF DecoderInv
    <3>2. <<>> \in Seq({}) /\ DOMAIN <<>> = {}
      BY EmptySeq
    <3>3. IsSequence(<<>>)
      BY <3>2, SequenceOfItself
    <3> QED
      BY <3>1, <3>2, <3>3 DEF NamedValues
  <2> QED
    BY <2>1, <2>2
<1> QED
  BY <1>1, <1>2, <1>3, <1>4 DEF DecoderInv

LEMMA DecoderInvariant == DecoderSpec => [](MapInv /\ ParserTypeOK /\ DecoderInv)
<1>1. ASSUME MapInv, ParserTypeOK, DecoderInv, [DecoderNext]_allVars
      PROVE  DecoderInv'
  <2>1. CASE Next /\ UNCHANGED decoderVars
    BY <1>1, <2>1, ItemKeeps
  <2>2. CASE \E n \in Notifications : ProcessInputReport(n)
    BY <1>1, <2>2, ReportKeeps
  <2>3. CASE UNCHANGED allVars
    BY <1>1, <2>3, ItemKeeps DEF allVars
  <2> QED
    BY <1>1, <2>1, <2>2, <2>3 DEF DecoderNext
<1> QED
  BY <1>1, DecoderInvInit, MapInvariant, ParserKeepsTypes, PTL DEF DecoderSpec

\* The decoders' state has its types after every report, in any order, of any length
\* and kind: field states belong to fields of the map, what an array asserts is a bag
\* of usages, and boot reports leave only usages of the keyboard page as keys
\* (HIDReportMap::parse, HIDBootReportDecoder::decode).
THEOREM DecoderKeepsTypes == DecoderSpec => []DecoderTypeOK
<1>1. MapInv /\ DecoderInv => DecoderTypeOK
  <2> SUFFICES ASSUME MapInv, DecoderInv PROVE DecoderTypeOK
    OBVIOUS
  <2>1. DOMAIN runtime_ \subseteq {f.id : f \in Range(fields_)}
    <3> SUFFICES ASSUME NEW id \in DOMAIN runtime_ PROVE \E f \in Range(fields_) : id = f.id
      OBVIOUS
    <3>1. id + 1 \in DOMAIN fields_ /\ id \in Int
      BY DEF DecoderInv, RuntimeOfFields
    <3>2. fields_[id + 1].id = (id + 1) - 1
      BY <3>1 DEF MapInv, FieldsListed
    <3>3. fields_[id + 1] \in Range(fields_) /\ fields_[id + 1].id = id
      BY <3>1, <3>2 DEF Range
    <3> QED
      BY <3>3
  <2>2. \A id \in DOMAIN runtime_ : IsABag(runtime_[id].active)
    BY DEF DecoderInv, RuntimeTyped, ActiveKnown, UsageBag
  <2>3. ASSUME NEW h \in Handles
        PROVE  /\ boot_decoder_[h].keys \subseteq 1 .. 231
               /\ {boot_decoder_[h].modifiers, boot_decoder_[h].buttons} \subseteq 0 .. 255
    <3>1. boot_decoder_[h] \in BootStates
      BY DEF DecoderInv
    <3> QED
      BY <3>1 DEF BootStates, Bytes
  <2> QED
    BY <2>1, <2>2, <2>3 DEF DecoderInv, DecoderTypeOK, Statuses
<1> QED
  BY <1>1, DecoderInvariant, PTL

-----------------------------------------------------------------------------
(* Elements: no two of a report have one bit position.                       *)

LEMMA FieldsApart ==
  ASSUME NEW report \in Report, NEW fields, Sized(fields), Tiled(report, fields),
         NEW p \in DOMAIN report.field_ids, NEW q \in DOMAIN report.field_ids, p < q
  PROVE  Ends(report, fields, p) <= Begins(report, fields, q)
<1> DEFINE T == {m \in Nat : m \in DOMAIN report.field_ids /\ p < m =>
                               Ends(report, fields, p) <= Begins(report, fields, m)}
<1>1. DOMAIN report.field_ids = 1 .. Len(report.field_ids) /\ Len(report.field_ids) \in Nat
  <2>1. report.field_ids \in Seq(Nat)
    BY DEF Report
  <2> QED
    BY <2>1, LenProperties
<1>2. 0 \in T
  BY <1>1
<1>3. ASSUME NEW m \in Nat, m \in T PROVE m + 1 \in T
  <2> SUFFICES ASSUME m + 1 \in DOMAIN report.field_ids, p < m + 1
               PROVE  Ends(report, fields, p) <= Begins(report, fields, m + 1)
    OBVIOUS
  <2>1. m \in DOMAIN report.field_ids /\ m + 1 # 1 /\ (m + 1) - 1 = m /\ (p = m \/ p < m)
    BY <1>1
  <2>2. Begins(report, fields, m + 1) = Ends(report, fields, m)
    BY <2>1 DEF Tiled
  <2>3. /\ Begins(report, fields, m) \in Nat /\ Ends(report, fields, m) \in Nat
        /\ Begins(report, fields, m) <= Ends(report, fields, m) /\ Ends(report, fields, p) \in Nat
    <3>1. report.field_ids[m] + 1 \in DOMAIN fields /\ report.field_ids[p] + 1 \in DOMAIN fields
      BY <2>1 DEF Tiled
    <3>2. Begins(report, fields, m) \in Nat /\ Ends(report, fields, p) \in Nat
      BY <3>1, EndsType
    <3>3. FieldBits(FieldOf(report, fields, m)) \in Nat
      <4>1. SizedGlobals(FieldOf(report, fields, m).global)
        BY <3>1 DEF Sized, FieldOf
      <4> QED
        BY <4>1, FieldBitsType
    <3> QED
      BY <3>2, <3>3 DEF Ends
  <2>4. p < m => Ends(report, fields, p) <= Begins(report, fields, m)
    BY <1>3, <2>1
  <2> QED
    BY <2>1, <2>2, <2>3, <2>4
<1>4. q \in Nat
  BY <1>1
<1>5. q \in T
  <2> HIDE DEF T
  <2> QED
    BY <1>2, <1>3, <1>4, Induction
<1> QED
  BY <1>5

\* Where an element lies in the bits of its field.
LEMMA ElementInField ==
  ASSUME NEW start \in Nat, NEW size \in Nat \ {0}, NEW count \in Nat, NEW k \in 0 .. count - 1
  PROVE  start <= start + k * size /\ start + k * size < start + size * count
<1>1. k \in Nat /\ k + 1 <= count
  OBVIOUS
<1>2. k * size \in Nat /\ size * count \in Nat /\ k * size + size <= size * count
  <2>1. \A i, s, c \in Nat : i + 1 <= c => i * s + s <= s * c /\ i * s \in Nat /\ s * c \in Nat
    OBVIOUS
  <2> QED
    BY <1>1, <2>1
<1> DEFINE a == k * size  b == size * count
<1> HIDE DEF a, b
<1>3. a \in Nat /\ b \in Nat /\ a + size <= b
  BY <1>2 DEF a, b
<1>4. start <= start + a /\ start + a < start + b
  BY <1>3
<1> QED
  BY <1>4 DEF a, b

LEMMA SameElement ==
  ASSUME NEW start \in Nat, NEW size \in Nat \ {0}, NEW k \in Nat, NEW l \in Nat,
         start + k * size = start + l * size
  PROVE  k = l
<1>1. \A i, j, s \in Nat : i + 1 <= j => i * s + s <= j * s /\ i * s \in Nat /\ j * s \in Nat
  OBVIOUS
<1>2. k * size \in Nat /\ l * size \in Nat
  BY <1>1
<1> DEFINE a == k * size  b == l * size
<1>3. a \in Nat /\ b \in Nat /\ start + a = start + b /\ (k + 1 <= l => a + size <= b)
      /\ (l + 1 <= k => b + size <= a)
  BY <1>1, <1>2
<1> HIDE DEF a, b
<1>4. a = b
  BY <1>3
<1>5. ~(k + 1 <= l) /\ ~(l + 1 <= k)
  BY <1>3, <1>4
<1> QED
  BY <1>5

\* Two elements of input reports with one report ID and one bit position are one.
LEMMA ElementsApart ==
  ASSUME MapInv, FieldsSound,
         NEW f \in DOMAIN fields_, NEW g \in DOMAIN fields_,
         fields_[f].kind = "INPUT", fields_[g].kind = "INPUT",
         NEW k \in Elements(fields_[f]), NEW l \in Elements(fields_[g]),
         fields_[f].global["REPORT_ID"] = fields_[g].global["REPORT_ID"],
         ElementOffset(fields_[f], k) = ElementOffset(fields_[g], l)
  PROVE  f = g /\ k = l
<1>1. /\ f \in Nat /\ g \in Nat
      /\ \E r \in DOMAIN reports_ : \E i \in DOMAIN reports_[r].field_ids :
           reports_[r].field_ids[i] = f - 1
      /\ \E r \in DOMAIN reports_ : \E i \in DOMAIN reports_[r].field_ids :
           reports_[r].field_ids[i] = g - 1
  BY SequenceFacts DEF MapInv, Sized, FieldsListed
<1>2. PICK r \in DOMAIN reports_ : \E i \in DOMAIN reports_[r].field_ids :
        reports_[r].field_ids[i] = f - 1
  BY <1>1
<1>3. PICK s \in DOMAIN reports_ : \E i \in DOMAIN reports_[s].field_ids :
        reports_[s].field_ids[i] = g - 1
  BY <1>1
<1>4. PICK p \in DOMAIN reports_[r].field_ids : reports_[r].field_ids[p] = f - 1
  BY <1>2
<1>5. PICK q \in DOMAIN reports_[s].field_ids : reports_[s].field_ids[q] = g - 1
  BY <1>3
<1>6. /\ Tiled(reports_[r], fields_) /\ Tiled(reports_[s], fields_)
      /\ reports_[r] \in Report /\ Sized(fields_)
  BY ElementOfSeq, LenProperties DEF MapInv, AllTiled
<1>7. FieldOf(reports_[r], fields_, p) = fields_[f] /\ FieldOf(reports_[s], fields_, q) = fields_[g]
  BY <1>1, <1>4, <1>5 DEF FieldOf
<1>8. r = s
  <2>1. /\ reports_[r].kind = "INPUT" /\ reports_[s].kind = "INPUT"
        /\ reports_[r].report_id = fields_[f].global["REPORT_ID"]
        /\ reports_[s].report_id = fields_[g].global["REPORT_ID"]
    BY <1>6, <1>7 DEF Tiled
  <2> QED
    BY <2>1 DEF MapInv, ReportsDiffer
<1> DEFINE report == reports_[r]
           at(h, i) == ElementOffset(fields_[h], i)
<1>9. /\ at(f, k) = fields_[f].bit_offset + k * fields_[f].global["REPORT_SIZE"]
      /\ at(g, l) = fields_[g].bit_offset + l * fields_[g].global["REPORT_SIZE"]
  BY DEF ElementOffset
<1>10. Sound(fields_[f]) /\ Sound(fields_[g]) /\ k \in Nat /\ l \in Nat
  BY SoundFacts DEF FieldsSound, Elements
<1>11. /\ Begins(report, fields_, p) <= at(f, k) /\ at(f, k) < Ends(report, fields_, p)
       /\ Begins(report, fields_, q) <= at(g, l) /\ at(g, l) < Ends(report, fields_, q)
  BY <1>7, <1>8, <1>9, <1>10, SoundFacts, ElementInField DEF Elements, Begins, Ends, FieldBits
<1>12. /\ Begins(report, fields_, p) \in Nat /\ Ends(report, fields_, p) \in Nat
       /\ Begins(report, fields_, q) \in Nat /\ Ends(report, fields_, q) \in Nat
  BY <1>5, <1>6, <1>8, EndsType DEF Tiled
<1>13. at(f, k) = at(g, l) /\ at(f, k) \in Int
  BY <1>9, <1>10, <1>11, <1>12, SoundFacts
<1>14. p \in Nat /\ q \in Nat /\ p \in DOMAIN report.field_ids /\ q \in DOMAIN report.field_ids
  BY <1>5, <1>6, <1>8, LenProperties DEF Report
<1>15. ~(p < q) /\ ~(q < p)
  <2>1. p < q => Ends(report, fields_, p) <= Begins(report, fields_, q)
    BY <1>6, <1>14, FieldsApart
  <2>2. q < p => Ends(report, fields_, q) <= Begins(report, fields_, p)
    BY <1>6, <1>14, FieldsApart
  <2> HIDE DEF at, report
  <2> QED
    BY <1>11, <1>12, <1>13, <2>1, <2>2
<1>16. p = q
  BY <1>14, <1>15
<1>17. f = g
  BY <1>1, <1>4, <1>5, <1>8, <1>16
<1>18. k = l
  <2> DEFINE start == fields_[f].bit_offset
             size  == fields_[f].global["REPORT_SIZE"]
  <2>1. start \in Nat /\ size \in Nat \ {0}
    BY <1>10, SoundFacts
  <2>2. start + k * size = start + l * size
    BY <1>9, <1>13, <1>17
  <2> HIDE DEF start, size
  <2> QED
    BY <1>10, <2>1, <2>2, SameElement
<1> QED
  BY <1>17, <1>18

\* The bits of an element come before the limit of its report.
LEMMA ElementBelowLimit ==
  ASSUME MapInv, FieldsSound, NEW f \in DOMAIN fields_, NEW k \in Elements(fields_[f])
  PROVE  ElementOffset(fields_[f], k) \in Int /\ ElementOffset(fields_[f], k) < MaxReportBits
<1>1. /\ f \in Nat
      /\ \E r \in DOMAIN reports_ : \E i \in DOMAIN reports_[r].field_ids :
           reports_[r].field_ids[i] = f - 1
  BY SequenceFacts DEF MapInv, Sized, FieldsListed
<1>2. PICK r \in DOMAIN reports_ : \E i \in DOMAIN reports_[r].field_ids :
        reports_[r].field_ids[i] = f - 1
  BY <1>1
<1>3. PICK p \in DOMAIN reports_[r].field_ids : reports_[r].field_ids[p] = f - 1
  BY <1>2
<1>4. Tiled(reports_[r], fields_) /\ reports_[r] \in Report
  BY ElementOfSeq, LenProperties DEF MapInv, AllTiled
<1> DEFINE field == fields_[f]
           size  == field.global["REPORT_SIZE"]
           count == field.global["REPORT_COUNT"]
<1>5. Sound(field) /\ field.bit_offset + size * count <= reports_[r].bit_size
  <2>1. FieldOf(reports_[r], fields_, p) = field
    BY <1>1, <1>3 DEF FieldOf
  <2>2. Ends(reports_[r], fields_, p) <= reports_[r].bit_size
    BY <1>4 DEF Tiled
  <2> QED
    BY <2>1, <2>2 DEF FieldsSound, Ends, Begins, FieldBits
<1>6. reports_[r].bit_size <= MaxReportBits /\ reports_[r].bit_size \in Nat
  BY <1>4 DEF Tiled, Report
<1>7. field.bit_offset \in Nat /\ size \in Nat \ {0} /\ count \in Nat /\ k \in 0 .. count - 1
  BY <1>5, SoundFacts DEF Elements
<1>8. ElementOffset(field, k) = field.bit_offset + k * size
  BY DEF ElementOffset
<1> DEFINE start == field.bit_offset  bits == size * count  at == start + k * size
<1>9. start <= at /\ at < start + bits
  BY <1>7, ElementInField
<1>10. bits \in Int /\ at \in Int /\ start \in Nat
  BY <1>7
<1>11. ElementOffset(field, k) = at /\ start + bits <= reports_[r].bit_size
  BY <1>5, <1>8
<1> HIDE DEF at, bits, start
<1> QED
  BY <1>6, <1>9, <1>10, <1>11, LimitFacts

\* What the coalescing buffer would merge is of one element: fields tile their report,
\* so no two elements of it have the bit position that names their values, whatever
\* map the peer sent, and the boot mouse's movements have names past every report
\* (HIDReportMap::parse_input_, HIDBootReportDecoder::decode, append_value_event_).
THEOREM MergedValuesAreOfOneElement == DecoderSpec => []FieldIdsNameElements
<1>1. MapInv /\ ParserTypeOK /\ DecoderInv => FieldIdsNameElements
  <2> SUFFICES ASSUME MapInv, ParserTypeOK, DecoderInv,
                      NEW v \in Range(shown), NEW w \in Range(shown),
                      v.report_id = w.report_id, v.field_id = w.field_id,
                      "PASSTHROUGH" \notin {v.aggregation, w.aggregation}
               PROVE  [v EXCEPT !.value = w.value] = w
    BY DEF FieldIdsNameElements
  <2> DEFINE Element(x) == \E f \in DOMAIN fields_ : fields_[f].kind = "INPUT"
                             /\ \E k \in Elements(fields_[f]) : ElementNamed(x, fields_[f], k)
             Motion(x)  == BootMotion(x, 48) \/ BootMotion(x, 49)
  <2>1. FieldsSound
    BY FieldsAreSound DEF DecoderInv
  <2>2. (Element(v) \/ Motion(v)) /\ (Element(w) \/ Motion(w))
    BY DEF DecoderInv, NamedValues, Named, Range
  <2>3. ASSUME NEW x, Element(x) PROVE x.field_id \in Int /\ x.field_id < 61440
    <3>1. PICK f \in DOMAIN fields_ : fields_[f].kind = "INPUT"
                  /\ \E k \in Elements(fields_[f]) : ElementNamed(x, fields_[f], k)
      BY <2>3
    <3>2. PICK k \in Elements(fields_[f]) : ElementNamed(x, fields_[f], k)
      BY <3>1
    <3>3. x.field_id = ElementOffset(fields_[f], k)
      BY <3>2 DEF ElementNamed, ItemValue
    <3>4. ElementOffset(fields_[f], k) \in Int /\ ElementOffset(fields_[f], k) < MaxReportBits
      BY <2>1, ElementBelowLimit
    <3> QED
      BY <3>3, <3>4, DecoderAssumption, LimitFacts
  <2>4. \A x : Motion(x) => x.field_id \in {61456, 61457}
    BY DEF BootMotion, ItemValue
  <2>5. CASE Motion(v) /\ Motion(w)
    <3>1. \/ BootMotion(v, 48) /\ BootMotion(w, 48)
          \/ BootMotion(v, 49) /\ BootMotion(w, 49)
      BY <2>5 DEF BootMotion, ItemValue
    <3> QED
      BY <3>1 DEF BootMotion, ItemValue
  <2>6. CASE Element(v) /\ Element(w)
    <3>1. PICK f \in DOMAIN fields_ : fields_[f].kind = "INPUT"
                  /\ \E k \in Elements(fields_[f]) : ElementNamed(v, fields_[f], k)
      BY <2>6
    <3>2. PICK k \in Elements(fields_[f]) : ElementNamed(v, fields_[f], k)
      BY <3>1
    <3>3. PICK g \in DOMAIN fields_ : fields_[g].kind = "INPUT"
                  /\ \E l \in Elements(fields_[g]) : ElementNamed(w, fields_[g], l)
      BY <2>6
    <3>4. PICK l \in Elements(fields_[g]) : ElementNamed(w, fields_[g], l)
      BY <3>3
    <3>5. /\ fields_[f].global["REPORT_ID"] = fields_[g].global["REPORT_ID"]
          /\ ElementOffset(fields_[f], k) = ElementOffset(fields_[g], l)
      BY <3>2, <3>4 DEF ElementNamed, ItemValue
    <3>6. f = g /\ k = l
      BY <2>1, <3>1, <3>3, <3>5, ElementsApart
    <3> DEFINE usage       == UsageAt(fields_[f], k, TRUE)
               application == ApplicationUsage(fields_[f].collection_id)
               field_id    == ElementOffset(fields_[f], k)
               report_id   == fields_[f].global["REPORT_ID"]
               aggregation == Aggregation(fields_[f], UsageAt(fields_[f], k, TRUE))
    <3>7. /\ v = ItemValue(usage, application, v.value, field_id, report_id, aggregation)
          /\ w = ItemValue(usage, application, w.value, field_id, report_id, aggregation)
      BY <3>2, <3>4, <3>6 DEF ElementNamed
    <3> HIDE DEF usage, application, field_id, report_id, aggregation
    <3> QED
      BY <3>7 DEF ItemValue
  <2> HIDE DEF Element, Motion
  <2> QED
    BY <2>2, <2>3, <2>4, <2>5, <2>6
<1> QED
  BY <1>1, DecoderInvariant, PTL

-----------------------------------------------------------------------------
(* The usage table: a binary search finds what is there. *)

\* What binary_find is to find between b and e.
Matches(records, b, e, id) == {i \in b + 1 .. e : records[i].id = id}

Answer(records, b, e, id) ==
  IF Matches(records, b, e, id) = {} THEN NotFound
  ELSE CHOOSE i \in Matches(records, b, e, id) : TRUE

Slices(begin, end) == (begin .. end) \X (begin .. end)

Probe(find, records, b, e, id) ==
  IF b >= e THEN NotFound
  ELSE IF records[Middle(b, e) + 1].id < id THEN find[<<Middle(b, e) + 1, e>>]
  ELSE IF records[Middle(b, e) + 1].id > id THEN find[<<b, Middle(b, e)>>]
  ELSE Middle(b, e) + 1

IsSearch(find, records, begin, end, id) ==
  find = [slice \in Slices(begin, end) |-> Probe(find, records, slice[1], slice[2], id)]

\* Records that can be searched by their ids.
Searchable(records, begin, end) ==
  /\ begin \in Nat /\ end \in Nat /\ Sorted(records, begin, end)
  /\ \A i \in begin + 1 .. end : records[i].id \in Nat

LEMMA MiddleFacts ==
  ASSUME NEW b \in Nat, NEW e \in Nat, b < e
  PROVE  Middle(b, e) \in Nat /\ b <= Middle(b, e) /\ Middle(b, e) < e
BY DEF Middle

Answers(records, begin, end, id) ==
  [slice \in Slices(begin, end) |-> Answer(records, slice[1], slice[2], id)]

\* The answer of a range is that of one of its halves, or its middle.
LEMMA AnswerOfHalf ==
  ASSUME NEW records, NEW begin, NEW end, Searchable(records, begin, end), NEW id \in Nat,
         NEW b \in begin .. end, NEW e \in begin .. end
  PROVE  Answers(records, begin, end, id)[<<b, e>>] = Probe(Answers(records, begin, end, id), records, b, e, id)
<1> DEFINE answer == Answers(records, begin, end, id)
           m      == Middle(b, e)
           of(c, d) == Matches(records, c, d, id)
<1>1. \A c, d \in begin .. end : answer[<<c, d>>] = Answer(records, c, d, id)
  BY DEF Answers, Slices
<1> HIDE DEF answer
<1>2. b \in Nat /\ e \in Nat /\ begin \in Nat /\ end \in Nat
  BY DEF Searchable
<1>3. CASE b >= e
  <2>1. of(b, e) = {}
    BY <1>2, <1>3 DEF Matches
  <2> QED
    BY <1>1, <1>3, <2>1 DEF Probe, Answer, answer
<1>4. CASE b < e
  <2>1. m \in Nat /\ b <= m /\ m < e
    BY <1>2, <1>4, MiddleFacts
  <2> HIDE DEF m
  <2>2. m + 1 \in begin + 1 .. end /\ m \in begin .. end /\ m + 1 \in begin .. end
    BY <1>2, <2>1
  <2>3. records[m + 1].id \in Nat
    BY <2>2 DEF Searchable
  <2>4. \A i \in b + 1 .. e : /\ records[i].id \in Nat /\ i \in Nat
                              /\ i < m + 1 => records[i].id < records[m + 1].id
                              /\ i > m + 1 => records[m + 1].id < records[i].id
    BY <1>2, <2>1, <2>2 DEF Sorted, Searchable
  <2>5. CASE records[m + 1].id < id
    <3>1. of(b, e) = of(m + 1, e)
      BY <1>2, <2>1, <2>3, <2>4, <2>5 DEF Matches
    <3>2. answer[<<b, e>>] = answer[<<m + 1, e>>]
      BY <1>1, <2>2, <3>1 DEF Answer
    <3>3. Probe(answer, records, b, e, id) = answer[<<m + 1, e>>]
      BY <1>4, <2>5, <1>2 DEF Probe, m
    <3> QED
      BY <3>2, <3>3 DEF answer
  <2>6. CASE records[m + 1].id > id
    <3>1. of(b, e) = of(b, m)
      BY <1>2, <2>1, <2>3, <2>4, <2>6 DEF Matches
    <3>2. answer[<<b, e>>] = answer[<<b, m>>]
      BY <1>1, <2>2, <3>1 DEF Answer
    <3>3. Probe(answer, records, b, e, id) = answer[<<b, m>>]
      BY <1>4, <2>3, <2>6, <1>2 DEF Probe, m
    <3> QED
      BY <3>2, <3>3 DEF answer
  <2>7. CASE records[m + 1].id = id
    <3>1. of(b, e) = {m + 1}
      BY <1>2, <2>1, <2>4, <2>7 DEF Matches
    <3>2. answer[<<b, e>>] = m + 1
      BY <1>1, <3>1 DEF Answer
    <3>3. Probe(answer, records, b, e, id) = m + 1
      BY <1>4, <2>3, <2>7, <1>2 DEF Probe, m
    <3> QED
      BY <3>2, <3>3 DEF answer
  <2> QED
    BY <2>3, <2>5, <2>6, <2>7
<1>5. answer[<<b, e>>] = Probe(answer, records, b, e, id)
  BY <1>2, <1>3, <1>4 DEF answer
<1> QED
  BY <1>5 DEF answer

LEMMA SearchExists ==
  ASSUME NEW records, NEW begin, NEW end, Searchable(records, begin, end), NEW id \in Nat
  PROVE  \E find : IsSearch(find, records, begin, end, id)
<1> DEFINE answer == Answers(records, begin, end, id)
<1>1. \A slice \in Slices(begin, end) :
        /\ slice[1] \in begin .. end /\ slice[2] \in begin .. end /\ slice = <<slice[1], slice[2]>>
  BY DEF Slices
<1>2. \A slice \in Slices(begin, end) : answer[slice] = Probe(answer, records, slice[1], slice[2], id)
  <2> SUFFICES ASSUME NEW slice \in Slices(begin, end)
               PROVE  answer[slice] = Probe(answer, records, slice[1], slice[2], id)
    OBVIOUS
  <2> DEFINE b == slice[1]  e == slice[2]
  <2>1. b \in begin .. end /\ e \in begin .. end /\ slice = <<b, e>>
    BY <1>1
  <2> HIDE DEF b, e
  <2>2. answer[<<b, e>>] = Probe(answer, records, b, e, id)
    BY <2>1, AnswerOfHalf
  <2> QED
    BY <2>1, <2>2 DEF b, e
<1>3. answer = [slice \in Slices(begin, end) |-> answer[slice]]
  BY DEF Answers
<1> HIDE DEF answer
<1>4. answer = [slice \in Slices(begin, end) |-> Probe(answer, records, slice[1], slice[2], id)]
  BY <1>2, <1>3
<1> QED
  BY <1>4 DEF IsSearch

LEMMA SearchIsUnique ==
  ASSUME NEW records, NEW begin, NEW end, Searchable(records, begin, end), NEW id \in Nat,
         NEW find, IsSearch(find, records, begin, end, id),
         NEW b \in begin .. end, NEW e \in begin .. end
  PROVE  find[<<b, e>>] = Answer(records, b, e, id)
<1> DEFINE answer == Answers(records, begin, end, id)
           Agree(n) == \A c, d \in begin .. end : d - c <= n => find[<<c, d>>] = answer[<<c, d>>]
           T == {n \in Nat : Agree(n)}
<1>1. \A c, d \in begin .. end : /\ find[<<c, d>>] = Probe(find, records, c, d, id)
                                 /\ answer[<<c, d>>] = Probe(answer, records, c, d, id)
  <2>1. \A c, d \in begin .. end : answer[<<c, d>>] = Probe(answer, records, c, d, id)
    BY AnswerOfHalf
  <2>2. \A c, d \in begin .. end : find[<<c, d>>] = Probe(find, records, c, d, id)
    BY DEF IsSearch, Slices
  <2> QED
    BY <2>1, <2>2
<1>2. answer[<<b, e>>] = Answer(records, b, e, id)
  BY DEF Answers, Slices
<1> HIDE DEF answer
<1> USE DEF Searchable
<1>3. 0 \in T
  <2> SUFFICES ASSUME NEW c \in begin .. end, NEW d \in begin .. end, d - c <= 0
               PROVE  find[<<c, d>>] = answer[<<c, d>>]
    OBVIOUS
  <2>1. c >= d
    OBVIOUS
  <2> QED
    BY <1>1, <2>1 DEF Probe
<1>4. ASSUME NEW n \in Nat, Agree(n) PROVE Agree(n + 1)
  <2> SUFFICES ASSUME NEW c \in begin .. end, NEW d \in begin .. end, d - c <= n + 1
               PROVE  find[<<c, d>>] = answer[<<c, d>>]
    OBVIOUS
  <2> DEFINE m == Middle(c, d)
  <2>1. CASE c >= d
    BY <1>1, <2>1 DEF Probe
  <2>2. CASE c < d
    <3>1. m \in Nat /\ c <= m /\ m < d /\ c \in Nat /\ d \in Nat
      BY <2>2, MiddleFacts
    <3> HIDE DEF m
    <3>2. m \in begin .. end /\ m + 1 \in begin .. end /\ d - (m + 1) <= n /\ m - c <= n
      BY <2>2, <3>1
    <3>3. find[<<m + 1, d>>] = answer[<<m + 1, d>>] /\ find[<<c, m>>] = answer[<<c, m>>]
      BY <1>4, <3>2
    <3>4. Probe(find, records, c, d, id) = Probe(answer, records, c, d, id)
      BY <3>3 DEF Probe, m
    <3> QED
      BY <1>1, <3>4
  <2> QED
    BY <2>1, <2>2
<1>5. e - b <= end /\ b \in Nat /\ e \in Nat /\ end \in Nat
  BY DEF Searchable
<1>6. end \in T
  <2> HIDE DEF Agree
  <2>1. \A n \in Nat : n \in T => n + 1 \in T
    BY <1>4
  <2> HIDE DEF T
  <2> QED
    BY <1>3, <2>1, Induction
<1> QED
  BY <1>2, <1>5, <1>6

\* A search finds the record with the id, if there is one.
LEMMA BinaryFindIs ==
  ASSUME NEW records, NEW begin, NEW end, Searchable(records, begin, end), begin <= end,
         NEW id \in Nat
  PROVE  BinaryFind(records, begin, end, id) = Answer(records, begin, end, id)
<1> DEFINE find == CHOOSE f : IsSearch(f, records, begin, end, id)
<1>1. IsSearch(find, records, begin, end, id)
  BY SearchExists
<1>2. BinaryFind(records, begin, end, id) = find[<<begin, end>>]
  BY DEF BinaryFind, IsSearch, Slices, Probe
<1>3. begin \in begin .. end /\ end \in begin .. end
  BY DEF Searchable
<1> HIDE DEF find
<1>4. ASSUME NEW f, IsSearch(f, records, begin, end, id),
             NEW b \in begin .. end, NEW e \in begin .. end
      PROVE  f[<<b, e>>] = Answer(records, b, e, id)
  BY <1>4, SearchIsUnique
<1> QED
  BY <1>1, <1>2, <1>3, <1>4

\* The two searches of the lookup, over the pages and over the usages of one of them,
\* name every usage of the table and no other.
THEOREM LookupFindsName ==
  ASSUME NEW page \in Nat, NEW usage \in Nat
  PROVE  LookupUsageName(page, usage) = NameOf(page, usage)
<1> DEFINE pages   == Matches(PageRecords, 0, Len(PageRecords), page)
           slice(p) == PageRecords[p].first + 1 .. PageRecords[p].first + PageRecords[p].count
           usages(p) == Matches(UsageRecords, PageRecords[p].first,
                                PageRecords[p].first + PageRecords[p].count, usage)
           named   == {u \in DOMAIN UsageRecords :
                         /\ UsageRecords[u].id = usage
                         /\ \E p \in DOMAIN PageRecords :
                              PageRecords[p].id = page /\ u \in slice(p)}
           found   == FindPage(page)
<1>1. /\ Len(PageRecords) \in Nat /\ DOMAIN PageRecords = 1 .. Len(PageRecords)
      /\ Len(UsageRecords) \in Nat /\ DOMAIN UsageRecords = 1 .. Len(UsageRecords)
      /\ \A p \in DOMAIN PageRecords : PageRecords[p] \in [id : Nat, first : Nat, count : Nat]
      /\ \A u \in DOMAIN UsageRecords : UsageRecords[u] \in [id : Nat, name : STRING]
  BY UsageTableAssumption, LenProperties, ElementOfSeq
<1>2. \A p, q \in DOMAIN PageRecords : PageRecords[p].id = PageRecords[q].id => p = q
  <2>1. \A p \in DOMAIN PageRecords : PageRecords[p].id \in Nat /\ p \in 0 + 1 .. Len(PageRecords)
    BY <1>1
  <2>2. \A p, q \in 0 + 1 .. Len(PageRecords) : p < q => PageRecords[p].id < PageRecords[q].id
    BY UsageTableAssumption DEF Sorted
  <2> QED
    BY <1>1, <2>1, <2>2
<1>3. found = Answer(PageRecords, 0, Len(PageRecords), page)
  <2>1. Sorted(PageRecords, 0, Len(PageRecords)) /\ 0 <= Len(PageRecords)
    BY <1>1, UsageTableAssumption
  <2>2. \A i \in 0 + 1 .. Len(PageRecords) : PageRecords[i].id \in Nat
    BY <1>1
  <2>3. Searchable(PageRecords, 0, Len(PageRecords))
    BY <1>1, <2>1, <2>2 DEF Searchable
  <2> QED
    BY <2>1, <2>3, BinaryFindIs DEF FindPage
<1>4. NameOf(page, usage) = IF named = {} THEN Unnamed ELSE UsageRecords[CHOOSE u \in named : TRUE].name
  BY DEF NameOf
<1>5. CASE pages = {}
  <2>1. found = NotFound /\ named = {}
    BY <1>1, <1>3, <1>5 DEF Answer, Matches
  <2>2. LookupUsageName(page, usage) = Unnamed
    BY <2>1 DEF LookupUsageName
  <2> HIDE DEF named
  <2> QED
    BY <1>4, <2>1, <2>2
<1>6. CASE pages # {}
  <2>1. found \in pages
    BY <1>3, <1>6 DEF Answer
  <2> HIDE DEF found
  <2>2. found \in DOMAIN PageRecords /\ PageRecords[found].id = page /\ found # NotFound
    BY <1>1, <2>1 DEF Matches, NotFound
  <2> DEFINE first == PageRecords[found].first
             last  == PageRecords[found].first + PageRecords[found].count
             at    == BinaryFind(UsageRecords, first, last, usage)
  <2>3. /\ first \in Nat /\ PageRecords[found].count \in Nat /\ last \in Nat /\ first <= last
        /\ last <= Len(UsageRecords) /\ Sorted(UsageRecords, first, last)
    BY <1>1, <2>2, UsageTableAssumption
  <2>4. \A u \in first + 1 .. last : u \in DOMAIN UsageRecords /\ UsageRecords[u].id \in Nat
    BY <1>1, <2>3
  <2>5. at = Answer(UsageRecords, first, last, usage)
    <3> HIDE DEF first, last
    <3>1. Searchable(UsageRecords, first, last)
      BY <2>3, <2>4 DEF Searchable
    <3> QED
      BY <2>3, <3>1, BinaryFindIs
  <2>6. named = usages(found)
    <3>1. \A u : u \in named <=> u \in usages(found)
      BY <1>2, <2>2, <2>4 DEF Matches
    <3> HIDE DEF named, usages
    <3> QED
      BY <3>1
  <2>7. LookupUsageName(page, usage) =
          IF PageRecords[found].count = 0 \/ at = NotFound THEN Unnamed ELSE UsageRecords[at].name
    BY <2>2 DEF LookupUsageName, found
  <2>8. CASE named = {}
    <3>1. at = NotFound
      BY <2>5, <2>6, <2>8 DEF Answer
    <3> HIDE DEF named, at
    <3> QED
      BY <1>4, <2>7, <2>8, <3>1
  <2>9. CASE named # {}
    <3>1. at = CHOOSE u \in named : TRUE
      BY <2>5, <2>6, <2>9 DEF Answer
    <3>2. at \in named
      <4> HIDE DEF named, at
      <4> QED
        BY <2>9, <3>1
    <3>3. at \in first + 1 .. last
      BY <2>6, <3>2 DEF Matches
    <3>4. at # NotFound /\ PageRecords[found].count # 0
      <4> HIDE DEF at, named
      <4> QED
        BY <2>3, <3>3 DEF NotFound
    <3> HIDE DEF named, at
    <3> QED
      BY <1>4, <2>7, <2>9, <3>1, <3>4
  <2> QED
    BY <2>8, <2>9
<1> QED
  BY <1>5, <1>6
-----------------------------------------------------------------------------
(* The usages of values. *)

LEMMA ElementParts ==
  ASSUME NEW v, NEW field, NEW k, ElementNamed(v, field, k)
  PROVE  /\ v.usage = UsageAt(field, k, TRUE)
         /\ v.field_id = ElementOffset(field, k)
         /\ v.report_id = field.global["REPORT_ID"]
<1> DEFINE usage == UsageAt(field, k, TRUE)
           application == ApplicationUsage(field.collection_id)
           field_id    == ElementOffset(field, k)
           report_id   == field.global["REPORT_ID"]
           aggregation == Aggregation(field, UsageAt(field, k, TRUE))
<1>1. v = ItemValue(usage, application, v.value, field_id, report_id, aggregation)
  BY DEF ElementNamed
<1> HIDE DEF usage, application, field_id, report_id, aggregation
<1>2. v.usage = usage /\ v.field_id = field_id /\ v.report_id = report_id
  BY <1>1 DEF ItemValue
<1> QED
  BY <1>2 DEF usage, field_id, report_id

LEMMA NamedUsage ==
  ASSUME NEW v, Named(v), FieldsSound
  PROVE  v.usage \in Usages
<1>1. CASE v.usage \in GivenUsages
  BY <1>1 DEF GivenUsages
<1>2. CASE \E f \in DOMAIN fields_ :
             fields_[f].kind = "INPUT" /\ \E k \in Elements(fields_[f]) : ElementNamed(v, fields_[f], k)
  <2>1. PICK f \in DOMAIN fields_ : \E k \in Elements(fields_[f]) : ElementNamed(v, fields_[f], k)
    BY <1>2
  <2>2. PICK k \in Elements(fields_[f]) : ElementNamed(v, fields_[f], k)
    BY <2>1
  <2>3. v.usage = UsageAt(fields_[f], k, TRUE)
    <3>1. PICK field : field = fields_[f]
      OBVIOUS
    <3>2. ElementNamed(v, field, k)
      BY <2>2, <3>1
    <3>3. v.usage = UsageAt(field, k, TRUE)
      BY <3>2, ElementParts, Zenon
    <3> QED
      BY <3>1, <3>3
  <2>4. Sound(fields_[f]) /\ k \in Nat
    BY SoundFacts DEF FieldsSound, Elements
  <2> QED
    BY <2>3, <2>4, UsageAtType
<1>3. CASE BootMotion(v, 48) \/ BootMotion(v, 49)
  BY <1>3 DEF BootMotion, ItemValue, Usage, Usages
<1> QED
  BY <1>1, <1>2, <1>3 DEF Named

\* A usage the list does not give is one of its own, or the field has no list.
LEMMA UnnamedElement ==
  ASSUME NEW field, Sound(field), NEW k \in Nat, UsageAt(field, k, TRUE) = NoUsage,
         field.local.usage_sets[1] # <<>>
  PROVE  NoUsage \in Range(field.local.usage_sets[1])
<1> DEFINE listed == field.local.usage_sets[1]
<1>1. Len(listed) \in Nat /\ DOMAIN listed = 1 .. Len(listed) /\ Len(listed) \in 1 .. Len(listed)
  <2>1. listed \in Seq(Usages) /\ listed # <<>>
    BY SoundFacts
  <2> HIDE DEF listed
  <2> QED
    BY <2>1, LenProperties, EmptySeq
<1>2. UsageAt(field, k, TRUE) = IF k < Len(listed) THEN listed[k + 1] ELSE listed[Len(listed)]
  BY DEF UsageAt, Last
<1> HIDE DEF listed
<1>3. k < Len(listed) => k + 1 \in DOMAIN listed
  BY <1>1
<1> QED
  BY <1>1, <1>2, <1>3 DEF Range, listed

\* Every value an input report, a boot mouse or a boot keyboard gives has a usage whose
\* name is that of its own row of the table, at whatever place of its page it stands,
\* and none is without a usage that the list of its field names, repeated past its end
\* (HIDReportMap::usage_at_, HIDReportMap::parse_input_, lookup_usage_name).
THEOREM ValuesKeepTheirUsages == DecoderSpec => []UsagesAreNamed
<1>1. ASSUME MapInv, ParserTypeOK, DecoderInv, NEW v \in Range(values)
      PROVE  /\ LookupUsageName(v.usage.page, v.usage.usage) = NameOf(v.usage.page, v.usage.usage)
             /\ v.usage = NoUsage =>
                  \A f \in DecodedFields :
                    v.report_id = f.global["REPORT_ID"] /\ v.field_id \in
                      {ElementOffset(f, k) : k \in Elements(f)}
                    => f.local.usage_sets[1] = <<>> \/ NoUsage \in Range(f.local.usage_sets[1])
  <2>1. FieldsSound
    BY <1>1, FieldsAreSound DEF DecoderInv
  <2>2. Named(v)
    BY <1>1 DEF DecoderInv, NamedValues, Range
  <2>3. v.usage.page \in Nat /\ v.usage.usage \in Nat
    BY <2>1, <2>2, NamedUsage DEF Usages
  <2>4. LookupUsageName(v.usage.page, v.usage.usage) = NameOf(v.usage.page, v.usage.usage)
    BY <2>3, LookupFindsName
  <2>5. ASSUME v.usage = NoUsage, NEW field \in DecodedFields,
               v.report_id = field.global["REPORT_ID"],
               v.field_id \in {ElementOffset(field, k) : k \in Elements(field)},
               field.local.usage_sets[1] # <<>>
        PROVE  NoUsage \in Range(field.local.usage_sets[1])
    <3>1. ~(v.usage \in GivenUsages) /\ ~BootMotion(v, 48) /\ ~BootMotion(v, 49)
      BY <2>5 DEF GivenUsages, BootMotion, ItemValue, Usage, NoUsage
    <3>2. PICK f \in DOMAIN fields_ : fields_[f].kind = "INPUT"
                  /\ \E k \in Elements(fields_[f]) : ElementNamed(v, fields_[f], k)
      BY <2>2, <3>1 DEF Named
    <3>3. PICK k \in Elements(fields_[f]) : ElementNamed(v, fields_[f], k)
      BY <3>2
    <3>4. PICK g \in DOMAIN fields_ : fields_[g] = field /\ field.kind = "INPUT"
      BY DEF DecodedFields, Range
    <3>5. PICK l \in Elements(field) : v.field_id = ElementOffset(field, l)
      BY <2>5
    <3>6. /\ v.usage = UsageAt(fields_[f], k, TRUE)
          /\ v.report_id = fields_[f].global["REPORT_ID"]
          /\ v.field_id = ElementOffset(fields_[f], k)
      BY <3>3, ElementParts
    <3>7. f = g /\ k = l
      <4>1. /\ fields_[g].kind = "INPUT" /\ l \in Elements(fields_[g])
            /\ fields_[f].global["REPORT_ID"] = fields_[g].global["REPORT_ID"]
            /\ ElementOffset(fields_[f], k) = ElementOffset(fields_[g], l)
        BY <2>5, <3>4, <3>5, <3>6
      <4> QED
        BY <1>1, <2>1, <3>2, <4>1, ElementsApart
    <3>8. UsageAt(field, k, TRUE) = NoUsage /\ Sound(field) /\ k \in Nat
      BY <2>1, <2>5, <3>4, <3>6, <3>7, SoundFacts DEF FieldsSound, Elements
    <3> QED
      BY <2>5, <3>8, UnnamedElement
  <2> QED
    BY <2>4, <2>5
<1>2. MapInv /\ ParserTypeOK /\ DecoderInv => UsagesAreNamed
  BY <1>1, Zenon DEF UsagesAreNamed
<1> QED
  BY <1>2, DecoderInvariant, PTL

-----------------------------------------------------------------------------
(* Arrays follow the reports that are decoded. *)

ReportId(n) == IF n.report_id = Unset THEN 0 ELSE n.report_id

Decodes(n) == MapStatus(n) \in Complete

LEMMA PayloadBytes ==
  ASSUME NEW n \in Notifications
  PROVE  Len(n.payload) \in Nat /\ n.payload \in Seq(0 .. 255)
<1>1. n.payload \in Seq(0 .. 255)
  BY DecoderAssumption DEF Notification
<1> QED
  BY <1>1, LenProperties

LEMMA ReportFacts ==
  ASSUME MapInv, NEW r \in DOMAIN reports_
  PROVE  /\ reports_[r] \in Report /\ Tiled(reports_[r], fields_)
         /\ reports_[r].bit_size \in Nat /\ reports_[r].field_ids \in Seq(Nat)
<1>1. reports_[r] \in Report
  BY ElementOfSeq, LenProperties DEF MapInv
<1> QED
  BY <1>1 DEF MapInv, AllTiled, Report

\* The report that a decoded notification is one of.
LEMMA DecodedReport ==
  ASSUME MapInv, NEW n \in Notifications, Decodes(n)
  PROVE  /\ phase = "VALID" /\ n.report_type \in {NoType, "INPUT"}
         /\ \E r \in DOMAIN reports_ :
              /\ Found(n) = reports_[r]
              /\ reports_[r].kind = "INPUT" /\ reports_[r].report_id = ReportId(n)
              /\ 8 * Len(n.payload) >= reports_[r].bit_size
<1>1. InputReport(n) # {} /\ phase = "VALID"
  BY DEF Decodes, MapStatus, Complete, InputReport
<1>2. n.report_type \in {NoType, "INPUT"}
  BY <1>1 DEF Decodes, MapStatus, Complete
<1> DEFINE r == CHOOSE q \in InputReport(n) : TRUE
<1>3. r \in InputReport(n)
  BY <1>1
<1>4. MapStatus(n) = Length(n, ByteSize(reports_[r])) /\ Found(n) = reports_[r]
  BY <1>1, <1>2 DEF MapStatus, Found
<1> HIDE DEF r
<1>5. r \in DOMAIN reports_ /\ reports_[r].kind = "INPUT" /\ reports_[r].report_id = ReportId(n)
  BY <1>1, <1>3 DEF InputReport, ReportOf, ReportId
<1>6. reports_[r].bit_size \in Nat
  BY <1>5, ReportFacts
<1>7. Len(n.payload) >= ByteSize(reports_[r])
  <2>1. Len(n.payload) \in Nat /\ ByteSize(reports_[r]) \in Nat
    BY <1>6, PayloadBytes DEF ByteSize
  <2> QED
    BY <1>4, <2>1 DEF Decodes, Length, Complete
<1>8. 8 * Len(n.payload) >= reports_[r].bit_size
  <2>1. \A l, b \in Nat : l >= (b + 7) \div 8 => 8 * l >= b
    OBVIOUS
  <2> QED
    BY <1>6, <1>7, <2>1, PayloadBytes DEF ByteSize
<1> QED
  BY <1>1, <1>2, <1>4, <1>5, <1>8

\* What comes of an input report: its fields in their order, each of them once.
LEMMA FieldsOfReport ==
  ASSUME MapInv, NEW r \in DOMAIN reports_, reports_[r].kind = "INPUT"
  PROVE  LET ids == reports_[r].field_ids IN
         /\ Len(ids) \in Nat /\ DOMAIN ids = 1 .. Len(ids)
         /\ FieldsOf(reports_[r]) = [k \in 1 .. Len(ids) |-> fields_[ids[k] + 1]]
         /\ \A k \in 1 .. Len(ids) :
              /\ ids[k] \in Nat /\ ids[k] + 1 \in DOMAIN fields_
              /\ fields_[ids[k] + 1].kind = "INPUT"
              /\ fields_[ids[k] + 1].global["REPORT_ID"] = reports_[r].report_id
         /\ \A k, l \in 1 .. Len(ids) : ids[k] = ids[l] => k = l
<1> DEFINE ids == reports_[r].field_ids
<1>1. reports_[r] \in Report /\ Tiled(reports_[r], fields_) /\ Sized(fields_)
  BY ElementOfSeq, LenProperties DEF MapInv, AllTiled
<1>2. ids \in Seq(Nat)
  BY <1>1 DEF Report
<1>3. Len(ids) \in Nat /\ DOMAIN ids = 1 .. Len(ids) /\ \A k \in DOMAIN ids : ids[k] \in Nat
  BY <1>2, LenProperties
<1>4. FieldsOf(reports_[r]) = [k \in 1 .. Len(ids) |-> fields_[ids[k] + 1]]
  BY <1>3 DEF FieldsOf
<1>5. \A k \in DOMAIN ids :
        /\ ids[k] + 1 \in DOMAIN fields_
        /\ fields_[ids[k] + 1].kind = "INPUT"
        /\ fields_[ids[k] + 1].global["REPORT_ID"] = reports_[r].report_id
  BY <1>1 DEF Tiled, FieldOf
<1>6. ASSUME NEW k \in 1 .. Len(ids), NEW l \in 1 .. Len(ids), k < l PROVE ids[k] # ids[l]
  <2> DEFINE T == {m \in Nat : m \in 1 .. Len(ids) /\ k < m => ids[k] < ids[m]}
  <2>1. 0 \in T
    BY <1>3
  <2>2. ASSUME NEW m \in Nat, m \in T PROVE m + 1 \in T
    <3> PICK o : o = m + 1
      OBVIOUS
    <3> SUFFICES ASSUME o \in 1 .. Len(ids), k < o PROVE ids[k] < ids[o]
      OBVIOUS
    <3>1. o - 1 = m /\ o > 1 /\ m \in 1 .. Len(ids) /\ (k = m \/ k < m) /\ o \in DOMAIN ids
      BY <1>3
    <3>2. ids[m] < ids[o]
      BY <1>1, <3>1 DEF Tiled
    <3>3. k < m => ids[k] < ids[m]
      BY <2>2, <3>1
    <3>4. ids[k] \in Nat /\ ids[m] \in Nat /\ ids[o] \in Nat
      BY <1>3, <3>1
    <3> QED
      BY <3>1, <3>2, <3>3, <3>4
  <2>3. l \in T
    <3>1. l \in Nat
      BY <1>3
    <3> HIDE DEF T
    <3> QED
      BY <2>1, <2>2, <3>1, Induction
  <2>4. ids[k] < ids[l] /\ ids[k] \in Nat
    BY <1>3, <1>6, <2>3
  <2> QED
    BY <2>4
<1>7. ASSUME NEW k \in 1 .. Len(ids), NEW l \in 1 .. Len(ids), ids[k] = ids[l] PROVE k = l
  <2>1. ~(k < l) /\ ~(l < k)
    BY <1>6, <1>7
  <2> QED
    BY <1>3, <2>1
<1> QED
  BY <1>3, <1>4, <1>5, <1>7

\* Where a field stands among those of its report.
LEMMA FieldListed ==
  ASSUME MapInv, NEW i \in DOMAIN fields_, fields_[i].kind = "INPUT",
         NEW r \in DOMAIN reports_, reports_[r].kind = "INPUT",
         reports_[r].report_id = fields_[i].global["REPORT_ID"]
  PROVE  \E k \in 1 .. Len(reports_[r].field_ids) : reports_[r].field_ids[k] + 1 = i
<1>1. /\ i \in Nat
      /\ \E s \in DOMAIN reports_ : \E k \in DOMAIN reports_[s].field_ids :
           reports_[s].field_ids[k] = i - 1
  BY SequenceFacts DEF MapInv, Sized, FieldsListed
<1>2. PICK s \in DOMAIN reports_ : \E k \in DOMAIN reports_[s].field_ids :
        reports_[s].field_ids[k] = i - 1
  BY <1>1
<1>3. PICK k \in DOMAIN reports_[s].field_ids : reports_[s].field_ids[k] = i - 1
  BY <1>2
<1>4. Tiled(reports_[s], fields_) /\ reports_[s].field_ids \in Seq(Nat)
  BY ReportFacts
<1>5. FieldOf(reports_[s], fields_, k) = fields_[i]
  BY <1>1, <1>3 DEF FieldOf
<1>6. reports_[s].kind = "INPUT" /\ reports_[s].report_id = fields_[i].global["REPORT_ID"]
  BY <1>3, <1>4, <1>5 DEF Tiled
<1>7. s = r
  BY <1>6 DEF MapInv, ReportsDiffer
<1>8. k \in 1 .. Len(reports_[s].field_ids)
  BY <1>4, LenProperties
<1> QED
  BY <1>1, <1>3, <1>7, <1>8

LEMMA FieldDecoded ==
  ASSUME MapInv, phase = "VALID", NEW i \in DOMAIN fields_, fields_[i].kind = "INPUT",
         NEW n \in Notifications, n.characteristic = "REPORT"
  PROVE  n \in CompleteFor(fields_[i]) <=>
           Decodes(n) /\ fields_[i].global["REPORT_ID"] = ReportId(n)
<1> PICK id : id = fields_[i].global["REPORT_ID"]
  OBVIOUS
<1>1. ASSUME n \in CompleteFor(fields_[i]) PROVE Decodes(n) /\ id = ReportId(n)
  <2>1. /\ n.report_type \in {NoType, "INPUT"} /\ id = ReportId(n)
        /\ \E r \in Range(reports_) :
             r.kind = "INPUT" /\ r.report_id = id /\ 8 * Len(n.payload) >= r.bit_size
    BY <1>1 DEF CompleteFor, ReportId
  <2>2. PICK r \in DOMAIN reports_ :
          reports_[r].kind = "INPUT" /\ reports_[r].report_id = id /\ 8 * Len(n.payload) >= reports_[r].bit_size
    BY <2>1 DEF Range
  <2>3. InputReport(n) = {q \in DOMAIN reports_ : reports_[q].kind = "INPUT" /\ reports_[q].report_id = id}
    BY <2>1 DEF InputReport, ReportOf, ReportId
  <2>4. \A q \in InputReport(n) : q = r
    BY <2>2, <2>3 DEF MapInv, ReportsDiffer
  <2>5. r \in InputReport(n)
    BY <2>2, <2>3
  <2>6. (CHOOSE q \in InputReport(n) : TRUE) = r
    BY <2>4, <2>5
  <2>7. MapStatus(n) = Length(n, ByteSize(reports_[r]))
    <3>1. ~(phase = "VALID" /\ n.report_type \notin {NoType, "INPUT"}) /\ InputReport(n) # {}
      BY <2>1, <2>5
    <3> QED
      BY <3>1, <2>6, Zenon DEF MapStatus
  <2>8. reports_[r].bit_size \in Nat
    BY ReportFacts
  <2>9. Len(n.payload) >= ByteSize(reports_[r]) /\ ByteSize(reports_[r]) \in Nat
    <3>1. \A l, b \in Nat : 8 * l >= b => l >= (b + 7) \div 8
      OBVIOUS
    <3> QED
      BY <2>2, <2>8, <3>1, PayloadBytes DEF ByteSize
  <2>10. Length(n, ByteSize(reports_[r])) \in Complete
    BY <2>9, PayloadBytes DEF Length, Complete
  <2> QED
    BY <2>1, <2>7, <2>10 DEF Decodes
<1>2. ASSUME Decodes(n), id = ReportId(n) PROVE n \in CompleteFor(fields_[i])
  <2>1. n.report_type \in {NoType, "INPUT"}
    BY <1>2, DecodedReport
  <2>2. PICK r \in DOMAIN reports_ :
           /\ reports_[r].kind = "INPUT" /\ reports_[r].report_id = ReportId(n)
           /\ 8 * Len(n.payload) >= reports_[r].bit_size
    BY <1>2, DecodedReport
  <2>3. reports_[r] \in Range(reports_)
    BY DEF Range
  <2> QED
    BY <1>2, <2>1, <2>2, <2>3 DEF CompleteFor, ReportId
<1> QED
  BY <1>1, <1>2

\* What an input report does to the state of a field.
LEMMA RuntimeAfter ==
  ASSUME MapInv, NEW n \in Notifications, ParseInput(n), UNCHANGED vars,
         NEW i \in DOMAIN fields_, NEW field, field = fields_[i], field.kind = "INPUT", ~IsConstant(field)
  PROVE  Runtime(field)' = IF Decodes(n) /\ field.global["REPORT_ID"] = ReportId(n)
                           THEN FieldRuntime(field, n.payload) ELSE Runtime(field)
<1> DEFINE fields  == IF MapStatus(n) \in Complete THEN FieldsOf(Found(n)) ELSE <<>>
           decoded == {f \in Range(fields) : ~IsConstant(f)}
           ids     == DOMAIN runtime_ \cup {f.id : f \in decoded}
           state(id) == IF \E f \in decoded : f.id = id
                        THEN FieldRuntime(fields_[id + 1], n.payload) ELSE runtime_[id]
<1>1. runtime_' = [id \in ids |-> state(id)]
  BY DEF ParseInput, Found
<1>2. field.id \in Int /\ field.id + 1 = i /\ \A g \in DOMAIN fields_ : fields_[g].id + 1 = g
  BY SequenceFacts DEF MapInv, Sized, FieldsListed
<1>3. (\E f \in decoded : f.id = field.id) <=> Decodes(n) /\ field.global["REPORT_ID"] = ReportId(n)
  <2>1. CASE Decodes(n)
    <3>1. PICK r \in DOMAIN reports_ :
            Found(n) = reports_[r] /\ reports_[r].kind = "INPUT" /\ reports_[r].report_id = ReportId(n)
      BY <2>1, DecodedReport
    <3>2. PICK listed : listed = reports_[r].field_ids
      OBVIOUS
    <3>3. /\ fields = [k \in 1 .. Len(listed) |-> fields_[listed[k] + 1]]
          /\ \A k \in 1 .. Len(listed) :
               listed[k] + 1 \in DOMAIN fields_ /\ fields_[listed[k] + 1].global["REPORT_ID"] = ReportId(n)
      BY <2>1, <3>1, <3>2, FieldsOfReport DEF Decodes
    <3> HIDE DEF fields
    <3>4. ASSUME field.global["REPORT_ID"] = ReportId(n) PROVE \E f \in decoded : f.id = field.id
      <4>1. PICK k \in 1 .. Len(listed) : listed[k] + 1 = i
        BY <3>1, <3>2, <3>4, FieldListed
      <4>2. k \in DOMAIN fields /\ fields[k] = field
        BY <3>3, <4>1
      <4>3. field \in decoded
        BY <4>2 DEF Range
      <4> QED
        BY <4>3
    <3>5. ASSUME NEW f \in decoded, f.id = field.id PROVE field.global["REPORT_ID"] = ReportId(n)
      <4>1. PICK k \in DOMAIN fields : f = fields[k]
        BY DEF Range
      <4>2. k \in 1 .. Len(listed) /\ f = fields_[listed[k] + 1]
        BY <3>3, <4>1
      <4>3. listed[k] + 1 = i
        <5>1. f.id + 1 = listed[k] + 1
          BY <1>2, <3>3, <4>2
        <5> QED
          BY <1>2, <3>5, <5>1
      <4> QED
        BY <3>3, <4>2, <4>3
    <3> QED
      BY <2>1, <3>4, <3>5
  <2>2. CASE ~Decodes(n)
    <3>1. decoded = {}
      BY <2>2, EmptySeq DEF Decodes, Range
    <3> QED
      BY <2>2, <3>1
  <2> QED
    BY <2>1, <2>2
<1> HIDE DEF decoded
<1>4. Runtime(field)' = IF field.id \in ids THEN state(field.id)
                        ELSE [last_values |-> [k \in Elements(field) |-> 0], active |-> EmptyBag]
  BY <1>1 DEF Runtime
<1>5. CASE \E f \in decoded : f.id = field.id
  <2>1. field.id \in ids /\ state(field.id) = FieldRuntime(field, n.payload)
    BY <1>2, <1>5
  <2> QED
    BY <1>3, <1>4, <1>5, <2>1
<1>6. CASE ~\E f \in decoded : f.id = field.id
  <2>1. /\ field.id \in ids <=> field.id \in DOMAIN runtime_
        /\ state(field.id) = runtime_[field.id]
    BY <1>6
  <2>2. Runtime(field) = IF field.id \in DOMAIN runtime_ THEN runtime_[field.id]
                         ELSE [last_values |-> [k \in Elements(field) |-> 0], active |-> EmptyBag]
    BY DEF Runtime
  <2>3. Runtime(field)' = Runtime(field)
    BY <1>4, <2>1, <2>2
  <2> QED
    BY <1>3, <1>6, <2>3
<1> QED
  BY <1>5, <1>6

\* What comes of the complete reports of a field.
LEMMA CompleteAfter ==
  ASSUME MapInv, phase = "VALID", received \in Seq(Notifications),
         NEW n \in Notifications, received' = Append(received, n), UNCHANGED vars,
         NEW i \in DOMAIN fields_, NEW field, field = fields_[i], field.kind = "INPUT"
  PROVE  /\ CompleteReports(field) \in Seq(Notifications)
         /\ CompleteReports(field)' =
              IF n.characteristic = "REPORT" /\ Decodes(n) /\ field.global["REPORT_ID"] = ReportId(n)
              THEN Append(CompleteReports(field), n) ELSE CompleteReports(field)
<1> PICK S : S = CompleteFor(field)
  OBVIOUS
<1>1. CompleteFor(field)' = S
  BY DEF CompleteFor, vars, mapVars
<1>2. CompleteReports(field) = Chosen(received, S) /\ CompleteReports(field)' = Chosen(Append(received, n), S)
  BY <1>1 DEF CompleteReports
<1>3. n \in S <=> n.characteristic = "REPORT" /\ Decodes(n) /\ field.global["REPORT_ID"] = ReportId(n)
  <2>1. n \in S => n.characteristic = "REPORT"
    BY DEF CompleteFor
  <2> QED
    BY <2>1, FieldDecoded
<1>4. Chosen(Append(received, n), S) = IF n \in S THEN Append(Chosen(received, S), n) ELSE Chosen(received, S)
  BY ChosenAppended
<1>5. Chosen(received, S) \in Seq(Notifications)
  BY ChosenType
<1> QED
  BY <1>2, <1>3, <1>4, <1>5

IsArray(field) == field.kind = "INPUT" /\ ~IsConstant(field) /\ ~IsVariable(field)

Holds(field) ==
  Runtime(field).active = IF CompleteReports(field) = <<>> THEN EmptyBag
                          ELSE Asserted(field, Last(CompleteReports(field)).payload)

\* No report is decoded before the map is done, and an array remembers what the
\* last one that was asserted.
ArraysFollow ==
  /\ phase = "PARSING" => received = <<>> /\ runtime_ = << >>
  /\ phase = "VALID" => \A i \in DOMAIN fields_ : IsArray(fields_[i]) => Holds(fields_[i])

LEMMA HoldsAtFirst ==
  ASSUME received = <<>>, runtime_ = << >>, NEW field
  PROVE  CompleteReports(field) = <<>> /\ Holds(field)
<1>1. received \in Seq({}) /\ DOMAIN received = {} /\ DOMAIN runtime_ = {}
  BY EmptySeq
<1>2. Chosen(received, CompleteFor(field)) = <<>>
  BY <1>1, ChosenNone
<1>3. CompleteReports(field) = <<>>
  BY <1>2 DEF CompleteReports
<1>4. Runtime(field).active = EmptyBag
  BY <1>1 DEF Runtime
<1> QED
  BY <1>3, <1>4 DEF Holds

LEMMA LastAppended ==
  ASSUME NEW T, NEW s \in Seq(T), NEW x \in T
  PROVE  Append(s, x) # <<>> /\ Last(Append(s, x)) = x /\ Append(s, x) \in Seq(T)
BY AppendProperties DEF Last

LEMMA HoldsAfterInput ==
  ASSUME MapInv, FieldsSound, RuntimeTyped, phase = "VALID", received \in Seq(Notifications),
         NEW n \in Notifications, n.characteristic = "REPORT", ParseInput(n),
         received' = Append(received, n), UNCHANGED vars,
         NEW i \in DOMAIN fields_, NEW field, field = fields_[i], IsArray(field), Holds(field)
  PROVE  Holds(field)'
<1>1. field.kind = "INPUT" /\ ~IsConstant(field) /\ ~IsVariable(field)
  BY DEF IsArray
<1> PICK decodes : decodes = (Decodes(n) /\ field.global["REPORT_ID"] = ReportId(n))
  OBVIOUS
<1>2. Runtime(field)' = IF decodes THEN FieldRuntime(field, n.payload) ELSE Runtime(field)
  BY <1>1, RuntimeAfter
<1>3. /\ CompleteReports(field) \in Seq(Notifications)
      /\ CompleteReports(field)' = IF decodes THEN Append(CompleteReports(field), n) ELSE CompleteReports(field)
  BY <1>1, CompleteAfter
<1>4. \A p : Asserted(field, p)' = Asserted(field, p)
  BY DEF Asserted, ElementValue, ReadBits, InRange, Elements, UsageAt
<1>5. CASE decodes
  <2>1. FieldRuntime(field, n.payload) = [Runtime(field) EXCEPT !.active = Asserted(field, n.payload)]
    BY <1>1 DEF FieldRuntime
  <2>2. "active" \in DOMAIN Runtime(field)
    BY RuntimeType DEF ActiveKnown
  <2>3. FieldRuntime(field, n.payload).active = Asserted(field, n.payload)
    BY <2>1, <2>2
  <2>4. (Runtime(field)').active = Asserted(field, n.payload)
    BY <1>2, <1>5, <2>3
  <2>5. CompleteReports(field)' # <<>> /\ Last(CompleteReports(field)') = n
    BY <1>3, <1>5, LastAppended
  <2> QED
    BY <1>4, <2>4, <2>5 DEF Holds
<1>6. CASE ~decodes
  <2>1. Runtime(field)' = Runtime(field) /\ CompleteReports(field)' = CompleteReports(field)
    BY <1>2, <1>3, <1>6
  <2> QED
    BY <1>4, <2>1 DEF Holds
<1> QED
  BY <1>5, <1>6

LEMMA HoldsAtFirstAfter ==
  ASSUME received' = <<>>, runtime_' = << >>, NEW field
  PROVE  Holds(field)'
<1>1. received' \in Seq({}) /\ DOMAIN received' = {} /\ DOMAIN runtime_' = {}
  BY EmptySeq
<1>2. Chosen(received', CompleteFor(field)') = <<>>
  BY <1>1, ChosenNone
<1>3. CompleteReports(field)' = <<>>
  BY <1>2 DEF CompleteReports
<1>4. (Runtime(field)').active = EmptyBag
  BY <1>1 DEF Runtime
<1> QED
  BY <1>3, <1>4 DEF Holds

LEMMA HoldsSame ==
  ASSUME UNCHANGED <<runtime_, received, reports_>>, NEW field
  PROVE  /\ Holds(field)' = Holds(field) /\ CompleteReports(field)' = CompleteReports(field)
         /\ Runtime(field)' = Runtime(field)
<1>1. Runtime(field)' = Runtime(field)
  BY DEF Runtime
<1>2. CompleteReports(field)' = CompleteReports(field)
  BY DEF CompleteReports, CompleteFor
<1>3. \A p : Asserted(field, p)' = Asserted(field, p)
  BY DEF Asserted, ElementValue, ReadBits, InRange, Elements, UsageAt
<1> QED
  BY <1>1, <1>2, <1>3 DEF Holds

LEMMA ArraysFollowInit == DecoderInit => ArraysFollow
<1> SUFFICES ASSUME DecoderInit PROVE ArraysFollow
  OBVIOUS
<1>1. received = <<>> /\ runtime_ = << >>
  BY DEF DecoderInit
<1>2. \A field : Holds(field)
  BY <1>1, HoldsAtFirst
<1> QED
  BY <1>1, <1>2 DEF ArraysFollow

LEMMA ArraysFollowParser ==
  ASSUME ArraysFollow, [Next]_vars, UNCHANGED decoderVars
  PROVE  ArraysFollow'
<1>1. received' = received /\ runtime_' = runtime_
  BY DEF decoderVars, runtimeVars
<1>2. CASE UNCHANGED vars
  <2>1. fields_' = fields_ /\ reports_' = reports_ /\ phase' = phase
    BY <1>2 DEF vars, mapVars, inputVars
  <2>2. \A field : Holds(field)' = Holds(field)
    BY <1>1, <2>1, HoldsSame
  <2>3. \A field : IsArray(field)' = IsArray(field)
    BY DEF IsArray
  <2>4. (phase = "PARSING" => received = <<>> /\ runtime_ = << >>)'
    BY <1>1, <2>1 DEF ArraysFollow
  <2>5. ASSUME phase' = "VALID", NEW i \in DOMAIN fields_', IsArray(fields_[i])'
        PROVE  Holds(fields_[i])'
    <3> PICK field : field = fields_[i]
      OBVIOUS
    <3>1. i \in DOMAIN fields_ /\ fields_'[i] = field /\ IsArray(field)
      BY <2>1, <2>5 DEF IsArray
    <3>2. Holds(field)
      BY <2>1, <2>5, <3>1 DEF ArraysFollow
    <3>3. Holds(field)'
      BY <2>2, <3>2
    <3>4. Holds(fields_[i])' = Holds(field)'
      BY <3>1
    <3> QED
      BY <3>3, <3>4
  <2> QED
    BY <2>4, <2>5 DEF ArraysFollow
<1>3. CASE Next
  <2>1. received' = <<>> /\ runtime_' = << >>
    BY <1>1, <1>3, ParserStops DEF ArraysFollow
  <2>2. \A field : Holds(field)'
    BY <2>1, HoldsAtFirstAfter
  <2> QED
    BY <2>1, <2>2 DEF ArraysFollow
<1> QED
  BY <1>2, <1>3

LEMMA ArraysFollowReport ==
  ASSUME MapInv, ParserTypeOK, DecoderInv, ArraysFollow, NEW n \in Notifications, ProcessInputReport(n)
  PROVE  ArraysFollow'
<1>1. /\ UNCHANGED vars /\ phase # "PARSING" /\ received' = Append(received, n)
      /\ received \in Seq(Notifications) /\ RuntimeTyped /\ FieldsSound
  BY FieldsAreSound DEF ProcessInputReport, DecoderInv
<1>2. fields_' = fields_ /\ phase' = phase
  BY <1>1 DEF vars, mapVars, inputVars
<1>3. ASSUME phase = "VALID", NEW i \in DOMAIN fields_, NEW field, field = fields_[i], IsArray(field)
      PROVE  Holds(field)'
  <2>1. Holds(field)
    BY <1>3 DEF ArraysFollow
  <2>2. CASE n.characteristic = "REPORT"
    <3>1. ParseInput(n)
      BY <2>2 DEF ProcessInputReport
    <3> QED
      BY <1>1, <1>3, <2>1, <2>2, <3>1, HoldsAfterInput
  <2>3. CASE n.characteristic # "REPORT"
    <3>1. runtime_' = runtime_
      BY <2>3 DEF ProcessInputReport, DecodeBoot
    <3>2. Runtime(field)' = Runtime(field)
      BY <3>1 DEF Runtime
    <3>3. CompleteReports(field)' = CompleteReports(field)
      BY <1>1, <1>3, <2>3, CompleteAfter DEF IsArray
    <3>4. \A p : Asserted(field, p)' = Asserted(field, p)
      BY DEF Asserted, ElementValue, ReadBits, InRange, Elements, UsageAt
    <3> QED
      BY <2>1, <3>2, <3>3, <3>4 DEF Holds
  <2> QED
    BY <2>2, <2>3
<1>4. ASSUME phase' = "VALID", NEW i \in DOMAIN fields_', IsArray(fields_[i])'
      PROVE  Holds(fields_[i])'
  <2> PICK field : field = fields_[i]
    OBVIOUS
  <2>1. i \in DOMAIN fields_ /\ fields_'[i] = field /\ IsArray(field)
    BY <1>2, <1>4 DEF IsArray
  <2>2. Holds(field)'
    BY <1>2, <1>3, <1>4, <2>1
  <2>3. Holds(fields_[i])' = Holds(field)'
    BY <2>1
  <2> QED
    BY <2>2, <2>3
<1> QED
  BY <1>1, <1>2, <1>4 DEF ArraysFollow

LEMMA ArraysInvariant == DecoderSpec => [](MapInv /\ ParserTypeOK /\ DecoderInv /\ ArraysFollow)
<1>1. ASSUME MapInv, ParserTypeOK, DecoderInv, ArraysFollow, [DecoderNext]_allVars
      PROVE  ArraysFollow'
  <2>1. CASE Next /\ UNCHANGED decoderVars
    BY <1>1, <2>1, ArraysFollowParser
  <2>2. CASE \E n \in Notifications : ProcessInputReport(n)
    BY <1>1, <2>2, ArraysFollowReport
  <2>3. CASE UNCHANGED allVars
    BY <1>1, <2>3, ArraysFollowParser DEF allVars
  <2> QED
    BY <1>1, <2>1, <2>2, <2>3 DEF DecoderNext
<1> QED
  BY <1>1, ArraysFollowInit, DecoderInvariant, PTL DEF DecoderSpec

-----------------------------------------------------------------------------
(* The values of a report, field by field. *)

LEMMA SeqOfSeqs ==
  ASSUME NEW lists, IsSequence(lists), \A i \in DOMAIN lists : IsSequence(lists[i])
  PROVE  \E T : lists \in Seq(Seq(T))
<1> DEFINE T == UNION {{lists[i][j] : j \in DOMAIN lists[i]} : i \in DOMAIN lists}
<1>1. ASSUME NEW i \in DOMAIN lists PROVE lists[i] \in Seq(T)
  <2>1. lists[i] \in Seq({lists[i][j] : j \in DOMAIN lists[i]})
    BY DEF IsSequence
  <2>2. {lists[i][j] : j \in DOMAIN lists[i]} \subseteq T
    OBVIOUS
  <2> QED
    BY <2>1, <2>2, SeqMonotonic
<1> HIDE DEF T
<1>2. lists \in Seq({lists[i] : i \in DOMAIN lists})
  BY DEF IsSequence
<1>3. {lists[i] : i \in DOMAIN lists} \subseteq Seq(T)
  BY <1>1
<1>4. lists \in Seq(Seq(T))
  BY <1>2, <1>3, SeqMonotonic
<1> QED
  BY <1>4

\* What becomes of the usages of an array.
Changes(field, usages, value) ==
  [i \in DOMAIN usages |->
     ItemValue(usages[i], ApplicationUsage(field.collection_id), value, field.bit_offset,
               field.global["REPORT_ID"], "PASSTHROUGH")]

\* Any sequence of whatever elements, mapped.
LEMMA MappedSeq ==
  ASSUME NEW s, IsSequence(s), NEW t, DOMAIN t = DOMAIN s, t = [i \in DOMAIN s |-> t[i]]
  PROVE  t \in Seq(Range(t)) /\ Len(t) = Len(s) /\ IsSequence(t)
<1>1. Len(s) \in Nat /\ DOMAIN s = 1 .. Len(s)
  BY SequenceFacts
<1>2. t \in [1 .. Len(s) -> Range(t)]
  BY <1>1 DEF Range
<1>3. t \in Seq(Range(t))
  BY <1>1, <1>2, SeqDef
<1>4. IsSequence(t)
  BY <1>3, SequenceOfItself
<1>5. Len(t) \in Nat /\ DOMAIN t = 1 .. Len(t)
  BY <1>3, LenProperties
<1>6. Len(t) = Len(s)
  BY <1>1, <1>5
<1> QED
  BY <1>3, <1>4, <1>6

LEMMA ChangesType ==
  ASSUME NEW field, NEW U, NEW usages \in Seq(U), NEW value
  PROVE  IsSequence(Changes(field, usages, value)) /\ Len(Changes(field, usages, value)) = Len(usages)
<1> PICK t : t = Changes(field, usages, value)
  OBVIOUS
<1>1. IsSequence(usages)
  BY SequenceOfItself
<1>2. DOMAIN t = DOMAIN usages /\ t = [i \in DOMAIN usages |-> t[i]]
  BY DEF Changes
<1>3. Len(t) = Len(usages) /\ IsSequence(t)
  BY <1>1, <1>2, MappedSeq
<1> QED
  BY <1>3

LEMMA ChangesPlaced ==
  ASSUME NEW field, NEW U, NEW usages \in Seq(U), NEW value
  PROVE  \A i \in 1 .. Len(usages) :
           /\ Changes(field, usages, value)[i].usage = usages[i]
           /\ Changes(field, usages, value)[i].value = value
           /\ Changes(field, usages, value)[i].field_id = field.bit_offset
           /\ Changes(field, usages, value)[i].report_id = field.global["REPORT_ID"]
<1>1. DOMAIN usages = 1 .. Len(usages)
  BY LenProperties
<1> QED
  BY <1>1 DEF Changes, ItemValue

\* The presses and the releases of an array.
LEMMA ArrayParts ==
  ASSUME FieldsSound, RuntimeTyped, NEW f \in DOMAIN fields_, NEW field, field = fields_[f], NEW payload
  PROVE  LET now      == Asserted(field, payload)
             before   == Runtime(field).active
             pressed  == Changes(field, Entries(now (-) before), 1)
             released == Changes(field, Entries(before (-) now), 0)
         IN  /\ UsageBag(now) /\ UsageBag(before)
             /\ Entries(now (-) before) \in Seq(GivenUsages) /\ Entries(before (-) now) \in Seq(GivenUsages)
             /\ ArrayValues(field, payload) = pressed \o released
             /\ \E T : pressed \in Seq(T) /\ released \in Seq(T) /\ ArrayValues(field, payload) \in Seq(T)
<1> DEFINE now      == Asserted(field, payload)
           before   == Runtime(field).active
           pressed  == Changes(field, Entries(now (-) before), 1)
           released == Changes(field, Entries(before (-) now), 0)
<1>1. UsageBag(now) /\ UsageBag(before)
  BY AssertedType, RuntimeType DEF FieldsSound, ActiveKnown
<1>2. ArrayValues(field, payload) = pressed \o released
  BY DEF ArrayValues, Changes
<1> HIDE DEF now, before
<1>3. UsageBag(now (-) before) /\ UsageBag(before (-) now)
  BY <1>1, DifferenceOfBags
<1>4. Entries(now (-) before) \in Seq(GivenUsages) /\ Entries(before (-) now) \in Seq(GivenUsages)
  BY <1>3, EntriesType
<1>5. IsSequence(pressed) /\ IsSequence(released)
  BY <1>4, ChangesType
<1> HIDE DEF pressed, released
<1>7. pressed \in Seq(Range(pressed)) /\ released \in Seq(Range(released))
  BY <1>5 DEF IsSequence, Range
<1>6. \E T : pressed \in Seq(T) /\ released \in Seq(T) /\ ArrayValues(field, payload) \in Seq(T)
  <2> PICK T : T = Range(pressed) \cup Range(released)
    OBVIOUS
  <2>1. pressed \in Seq(T) /\ released \in Seq(T)
    BY <1>7, SeqMonotonic
  <2>2. ArrayValues(field, payload) \in Seq(T)
    BY <1>2, <2>1, ConcatProperties
  <2> QED
    BY <2>1, <2>2
<1> QED
  BY <1>1, <1>2, <1>4, <1>6 DEF now, before, pressed, released

\* A value of a field has the bit position of one of its elements.
LEMMA ValuePlaced ==
  ASSUME FieldsSound, NEW f \in DOMAIN fields_, NEW field, field = fields_[f], NEW payload,
         RuntimeTyped, NEW i \in DOMAIN FieldValues(field, payload)
  PROVE  /\ \E k \in Elements(field) :
              FieldValues(field, payload)[i].field_id = ElementOffset(field, k)
         /\ FieldValues(field, payload)[i].report_id = field.global["REPORT_ID"]
<1>1. Sound(field)
  BY DEF FieldsSound
<1>2. CASE IsConstant(field)
  <2>1. FieldValues(field, payload) = <<>>
    BY <1>2 DEF FieldValues
  <2> QED
    BY <2>1, EmptySeq
<1>3. CASE ~IsConstant(field) /\ IsVariable(field)
  <2> DEFINE S      == {k \in Elements(field) : Speaks(field, k, payload)}
             spoken == InOrder(S, Less)
  <2>1. FieldValues(field, payload) = [j \in DOMAIN spoken |-> VariableValue(field, spoken[j], payload)]
    BY <1>3 DEF FieldValues
  <2>2. S \in SUBSET Elements(field)
    OBVIOUS
  <2> HIDE DEF S
  <2>3. IsFiniteSet(S) /\ S \in SUBSET Int
    BY <1>1, <2>2, FiniteElements
  <2>4. spoken \in Seq(S)
    BY <2>3, InOrderIntegers
  <2> HIDE DEF spoken
  <2>5. i \in DOMAIN spoken /\ FieldValues(field, payload)[i] = VariableValue(field, spoken[i], payload)
    BY <2>1
  <2>6. spoken[i] \in Elements(field)
    BY <2>2, <2>4, <2>5, ElementOfSeq, LenProperties
  <2>7. /\ VariableValue(field, spoken[i], payload).field_id = ElementOffset(field, spoken[i])
        /\ VariableValue(field, spoken[i], payload).report_id = field.global["REPORT_ID"]
    BY DEF VariableValue, ItemValue
  <2> QED
    BY <2>5, <2>6, <2>7
<1>4. CASE ~IsConstant(field) /\ ~IsVariable(field)
  <2> DEFINE now      == Asserted(field, payload)
             before   == Runtime(field).active
             gained   == Entries(now (-) before)
             lost     == Entries(before (-) now)
             pressed  == Changes(field, gained, 1)
             released == Changes(field, lost, 0)
  <2>1. FieldValues(field, payload) = pressed \o released
    BY <1>4, ArrayParts DEF FieldValues
  <2>2. gained \in Seq(GivenUsages) /\ lost \in Seq(GivenUsages)
    BY ArrayParts
  <2>3. PICK T : pressed \in Seq(T) /\ released \in Seq(T)
    BY ArrayParts
  <2> HIDE DEF gained, lost
  <2>4. /\ Len(pressed) = Len(gained) /\ Len(released) = Len(lost)
        /\ \A j \in 1 .. Len(gained) : /\ pressed[j].field_id = field.bit_offset
                                       /\ pressed[j].report_id = field.global["REPORT_ID"]
        /\ \A j \in 1 .. Len(lost) : /\ released[j].field_id = field.bit_offset
                                     /\ released[j].report_id = field.global["REPORT_ID"]
    <3>1. ASSUME NEW usages \in Seq(GivenUsages), NEW value
          PROVE  Len(Changes(field, usages, value)) = Len(usages)
      BY ChangesType
    <3>2. ASSUME NEW usages \in Seq(GivenUsages), NEW value, NEW j \in 1 .. Len(usages)
          PROVE  /\ Changes(field, usages, value)[j].field_id = field.bit_offset
                 /\ Changes(field, usages, value)[j].report_id = field.global["REPORT_ID"]
      <4>1. j \in DOMAIN usages
        BY LenProperties
      <4> QED
        BY <4>1 DEF Changes, ItemValue
    <3> QED
      BY <2>2, <3>1, <3>2
  <2> HIDE DEF pressed, released
  <2> PICK all : all = FieldValues(field, payload)
    OBVIOUS
  <2>5. /\ all \in Seq(T) /\ Len(all) = Len(pressed) + Len(released)
        /\ \A x \in 1 .. Len(pressed) : all[x] = pressed[x]
        /\ \A x \in 1 .. Len(pressed) + Len(released) :
             x > Len(pressed) => x - Len(pressed) \in 1 .. Len(released) /\ all[x] = released[x - Len(pressed)]
    BY <2>1, <2>3, ConcatIs
  <2>6. Len(pressed) \in Nat /\ Len(released) \in Nat /\ i \in 1 .. Len(pressed) + Len(released)
    BY <2>3, <2>5, LenProperties
  <2>7. i \in 1 .. Len(pressed) \/ i > Len(pressed)
    BY <2>6
  <2>8. all[i].field_id = field.bit_offset /\ all[i].report_id = field.global["REPORT_ID"]
    BY <2>4, <2>5, <2>6, <2>7
  <2>9. 0 \in Elements(field) /\ ElementOffset(field, 0) = field.bit_offset
    <3>1. field.global["REPORT_COUNT"] \in Nat \ {0} /\ field.global["REPORT_SIZE"] \in Nat /\ field.bit_offset \in Nat
      BY <1>1, SoundFacts
    <3> QED
      BY <3>1 DEF Elements, ElementOffset
  <2> QED
    BY <2>8, <2>9
<1> QED
  BY <1>2, <1>3, <1>4

\* The values of a report are those of its fields, each field's at places of its own.
LEMMA DecodedValues ==
  ASSUME MapInv, FieldsSound, RuntimeTyped, NEW n \in Notifications, ParseInput(n), Decodes(n)
  PROVE  \E r \in DOMAIN reports_ : \E T : \E lists \in Seq(Seq(T)) :
           /\ reports_[r].kind = "INPUT" /\ reports_[r].report_id = ReportId(n)
           /\ values' = FlattenSeq(lists)
           /\ DOMAIN lists = 1 .. Len(reports_[r].field_ids)
           /\ \A k \in DOMAIN lists :
                lists[k] = FieldValues(fields_[reports_[r].field_ids[k] + 1], n.payload)
<1>1. PICK r \in DOMAIN reports_ :
        /\ Found(n) = reports_[r]
        /\ reports_[r].kind = "INPUT" /\ reports_[r].report_id = ReportId(n)
  BY DecodedReport
<1>2. PICK ids : ids = reports_[r].field_ids
  OBVIOUS
<1>3. PICK fields : fields = FieldsOf(Found(n))
  OBVIOUS
<1>4. /\ Len(ids) \in Nat /\ fields = [k \in 1 .. Len(ids) |-> fields_[ids[k] + 1]]
      /\ \A k \in 1 .. Len(ids) : ids[k] + 1 \in DOMAIN fields_ /\ fields_[ids[k] + 1].kind = "INPUT"
  BY <1>1, <1>2, <1>3, FieldsOfReport
<1>5. PICK lists : lists = [k \in DOMAIN fields |-> FieldValues(fields[k], n.payload)]
  OBVIOUS
<1>6. values' = FlattenSeq(lists)
  BY <1>3, <1>5 DEF ParseInput, Decodes, Found
<1>7. /\ DOMAIN lists = 1 .. Len(ids)
      /\ \A k \in 1 .. Len(ids) : lists[k] = FieldValues(fields_[ids[k] + 1], n.payload)
  BY <1>4, <1>5
<1>8. \A k \in 1 .. Len(ids) : IsSequence(lists[k])
  BY <1>4, <1>7, FieldNamed DEF NamedValues
<1>9. IsSequence(lists)
  <2>1. lists \in [1 .. Len(ids) -> {lists[k] : k \in DOMAIN lists}]
    BY <1>5, <1>7
  <2>2. lists \in Seq({lists[k] : k \in DOMAIN lists})
    BY <1>4, <2>1, SeqDef
  <2> QED
    BY <2>2, SequenceOfItself
<1>10. \E T : lists \in Seq(Seq(T))
  BY <1>7, <1>8, <1>9, SeqOfSeqs
<1> QED
  BY <1>1, <1>2, <1>6, <1>7, <1>10

\* The values of one field among lists of values, at places that no other list has.
ValuesOfItsOwn(lists, field, payload) ==
  \E k \in DOMAIN lists :
    /\ lists[k] = FieldValues(field, payload)
    /\ \A j \in DOMAIN lists : j # k =>
         \A x \in DOMAIN lists[j] : \A e \in Elements(field) :
           lists[j][x].field_id # ElementOffset(field, e)

LEMMA DecodedField ==
  ASSUME MapInv, FieldsSound, RuntimeTyped, NEW n \in Notifications, ParseInput(n), Decodes(n),
         NEW i \in DOMAIN fields_, NEW field, field = fields_[i], field.kind = "INPUT",
         field.global["REPORT_ID"] = ReportId(n)
  PROVE  \E T : \E lists \in Seq(Seq(T)) :
           values' = FlattenSeq(lists) /\ ValuesOfItsOwn(lists, field, n.payload)
<1>1. PICK r \in DOMAIN reports_ : \E T : \E lists \in Seq(Seq(T)) :
           /\ reports_[r].kind = "INPUT" /\ reports_[r].report_id = ReportId(n)
           /\ values' = FlattenSeq(lists)
           /\ DOMAIN lists = 1 .. Len(reports_[r].field_ids)
           /\ \A k \in DOMAIN lists :
                lists[k] = FieldValues(fields_[reports_[r].field_ids[k] + 1], n.payload)
  BY DecodedValues
<1>2. PICK T : \E lists \in Seq(Seq(T)) :
           /\ reports_[r].kind = "INPUT" /\ reports_[r].report_id = ReportId(n)
           /\ values' = FlattenSeq(lists)
           /\ DOMAIN lists = 1 .. Len(reports_[r].field_ids)
           /\ \A k \in DOMAIN lists :
                lists[k] = FieldValues(fields_[reports_[r].field_ids[k] + 1], n.payload)
  BY <1>1
<1>0. PICK lists \in Seq(Seq(T)) :
           /\ reports_[r].kind = "INPUT" /\ reports_[r].report_id = ReportId(n)
           /\ values' = FlattenSeq(lists)
           /\ DOMAIN lists = 1 .. Len(reports_[r].field_ids)
           /\ \A k \in DOMAIN lists :
                lists[k] = FieldValues(fields_[reports_[r].field_ids[k] + 1], n.payload)
  BY <1>2
<1>3. PICK ids : ids = reports_[r].field_ids
  OBVIOUS
<1>4. PICK k \in 1 .. Len(ids) : ids[k] + 1 = i
  BY <1>0, <1>3, FieldListed
<1>5. /\ \A l \in 1 .. Len(ids) :
           /\ ids[l] \in Nat /\ ids[l] + 1 \in DOMAIN fields_
           /\ fields_[ids[l] + 1].kind = "INPUT"
           /\ fields_[ids[l] + 1].global["REPORT_ID"] = ReportId(n)
      /\ \A l, m \in 1 .. Len(ids) : ids[l] = ids[m] => l = m
  BY <1>0, <1>3, FieldsOfReport
<1>6. k \in DOMAIN lists /\ lists[k] = FieldValues(field, n.payload)
  BY <1>0, <1>3, <1>4
<1>7. ASSUME NEW j \in DOMAIN lists, j # k, NEW x \in DOMAIN lists[j], NEW e \in Elements(field),
             lists[j][x].field_id = ElementOffset(field, e)
      PROVE  FALSE
  <2>1. j \in 1 .. Len(ids) /\ lists[j] = FieldValues(fields_[ids[j] + 1], n.payload)
    BY <1>0, <1>3
  <2>2. PICK g \in DOMAIN fields_ : g = ids[j] + 1
    BY <1>5, <2>1
  <2>3. fields_[g].kind = "INPUT" /\ fields_[g].global["REPORT_ID"] = ReportId(n)
    BY <1>5, <2>1, <2>2
  <2>4. x \in DOMAIN FieldValues(fields_[g], n.payload)
    BY <2>1, <2>2
  <2>5. \E l \in Elements(fields_[g]) :
          FieldValues(fields_[g], n.payload)[x].field_id = ElementOffset(fields_[g], l)
    BY <2>4, ValuePlaced
  <2>6. PICK l \in Elements(fields_[g]) : lists[j][x].field_id = ElementOffset(fields_[g], l)
    BY <2>1, <2>2, <2>5
  <2>7. ElementOffset(fields_[g], l) = ElementOffset(fields_[i], e)
    BY <1>7, <2>6
  <2>8. g = i
    <3>1. fields_[i].kind = "INPUT" /\ e \in Elements(fields_[i])
          /\ fields_[g].global["REPORT_ID"] = fields_[i].global["REPORT_ID"]
      BY <2>3
    <3> QED
      BY <2>3, <2>7, <3>1, ElementsApart
  <2>9. ids[j] = ids[k]
    BY <1>4, <1>5, <2>1, <2>2, <2>8
  <2> QED
    BY <1>5, <1>7, <2>1, <2>9
<1>8. \A j \in DOMAIN lists : j # k =>
        \A x \in DOMAIN lists[j] : \A e \in Elements(field) : lists[j][x].field_id # ElementOffset(field, e)
  BY <1>7
<1>9. lists \in Seq(Seq(T)) /\ values' = FlattenSeq(lists)
  BY <1>0
<1>10. ValuesOfItsOwn(lists, field, n.payload)
  BY <1>6, <1>8 DEF ValuesOfItsOwn
<1> WITNESS T
<1> lists \in Seq(Seq(T))
  BY <1>9
<1> WITNESS lists \in Seq(Seq(T))
<1> QED
  BY <1>9, <1>10

\* An array that asserts what it did has no values.
LEMMA NothingNew ==
  ASSUME FieldsSound, RuntimeTyped, NEW f \in DOMAIN fields_, NEW field, field = fields_[f], NEW payload,
         ~IsConstant(field), ~IsVariable(field), Asserted(field, payload) = Runtime(field).active
  PROVE  FieldValues(field, payload) = <<>>
<1> DEFINE bag     == Asserted(field, payload)
           changed == Entries(bag (-) bag)
<1>1. UsageBag(bag)
  BY AssertedType DEF FieldsSound
<1>2. changed = <<>>
  BY <1>1, EntriesNone
<1>3. FieldValues(field, payload) = Changes(field, changed, 1) \o Changes(field, changed, 0)
  BY ArrayParts DEF FieldValues
<1> HIDE DEF changed
<1>4. ASSUME NEW value PROVE Changes(field, changed, value) = <<>>
  <2>1. changed \in Seq({}) /\ DOMAIN changed = {}
    BY <1>2, EmptySeq
  <2>2. Changes(field, changed, value) = changed
    BY <1>2, <2>1 DEF Changes
  <2> QED
    BY <1>2, <2>2
<1>5. <<>> \o <<>> = <<>>
  BY ConcatEmptySeq, EmptySeq
<1> QED
  BY <1>3, <1>4, <1>5

LEMMA SilentReport ==
  ASSUME MapInv, ParserTypeOK, DecoderInv, ArraysFollow, phase = "VALID",
         NEW n \in Notifications, ProcessInputReport(n),
         NEW i \in DOMAIN fields_, NEW field, field = fields_[i], IsArray(field),
         n \in Range(CompleteReports(field)'), CompleteReports(field) # <<>>,
         Asserted(field, n.payload) = Asserted(field, Last(CompleteReports(field)).payload),
         NEW v \in Range(values')
  PROVE  v.field_id # field.bit_offset
<1>1. /\ UNCHANGED vars /\ received' = Append(received, n) /\ received \in Seq(Notifications)
      /\ RuntimeTyped /\ FieldsSound
  BY FieldsAreSound DEF ProcessInputReport, DecoderInv
<1>2. field.kind = "INPUT" /\ ~IsConstant(field) /\ ~IsVariable(field)
  BY DEF IsArray
<1>3. n \in CompleteFor(field)
  <2>1. CompleteFor(field)' = CompleteFor(field)
    BY <1>1 DEF CompleteFor, vars, mapVars
  <2>2. received' \in Seq(Notifications)
    BY <1>1, LastAppended
  <2>3. CompleteReports(field)' \in Seq(CompleteFor(field))
    BY <2>1, <2>2, ChosenType DEF CompleteReports
  <2> QED
    BY <2>3, LenProperties DEF Range
<1>4. n.characteristic = "REPORT"
  BY <1>3 DEF CompleteFor
<1>5. Decodes(n) /\ field.global["REPORT_ID"] = ReportId(n)
  BY <1>2, <1>3, <1>4, FieldDecoded
<1>6. ParseInput(n)
  BY <1>4 DEF ProcessInputReport
<1>7. Holds(field)
  BY DEF ArraysFollow
<1>8. FieldValues(field, n.payload) = <<>>
  <2>1. Asserted(field, n.payload) = Runtime(field).active
    BY <1>7 DEF Holds
  <2> QED
    BY <1>1, <1>2, <2>1, NothingNew
<1>9. PICK T : \E lists \in Seq(Seq(T)) :
        values' = FlattenSeq(lists) /\ ValuesOfItsOwn(lists, field, n.payload)
  BY <1>1, <1>2, <1>5, <1>6, DecodedField
<1>10. PICK lists \in Seq(Seq(T)) :
         values' = FlattenSeq(lists) /\ ValuesOfItsOwn(lists, field, n.payload)
  BY <1>9
<1>11. v \in UNION {Range(lists[j]) : j \in DOMAIN lists}
  BY <1>10, FlattenRange
<1>12. PICK j \in DOMAIN lists : v \in Range(lists[j])
  BY <1>11
<1>13. PICK x \in DOMAIN lists[j] : v = lists[j][x]
  BY <1>12 DEF Range
<1>14. 0 \in Elements(field) /\ ElementOffset(field, 0) = field.bit_offset
  <2>1. Sound(field)
    BY <1>1 DEF FieldsSound
  <2>2. /\ field.global["REPORT_COUNT"] \in Nat \ {0} /\ field.global["REPORT_SIZE"] \in Nat
        /\ field.bit_offset \in Nat
    BY <2>1, SoundFacts
  <2> QED
    BY <2>2 DEF Elements, ElementOffset
<1>15. lists[j] # <<>>
  BY <1>13, EmptySeq
<1> QED
  BY <1>8, <1>10, <1>13, <1>14, <1>15 DEF ValuesOfItsOwn

\* An array report that asserts what the last complete one of its field did, be it in
\* other slots, has no value of that field, whatever reports came in between
\* (parse_input_, which compares multisets of usages and not slots).
THEOREM ReorderedArraysAreSilent == DecoderSpec => ReorderingIsSilent
<1> DEFINE Inv == MapInv /\ ParserTypeOK /\ DecoderInv /\ ArraysFollow
           Silent == LET n == Last(received') IN
             received' # received =>
               \A f \in {g \in DecodedFields : ~IsVariable(g)} :
                 /\ status' \in Complete /\ n \in Range(CompleteReports(f)')
                 /\ CompleteReports(f) # <<>>
                 /\ Asserted(f, n.payload) = Asserted(f, Last(CompleteReports(f)).payload)
                 => \A v \in Range(values') : v.field_id # f.bit_offset
<1>1. ASSUME Inv, [DecoderNext]_allVars PROVE [Silent]_allVars
  <2>1. CASE \E n \in Notifications : ProcessInputReport(n)
    <3>1. PICK n \in Notifications : ProcessInputReport(n)
      BY <2>1
    <3>2. Last(received') = n
      <4>1. received' = Append(received, n) /\ received \in Seq(Notifications)
        BY <1>1, <3>1 DEF ProcessInputReport, DecoderInv
      <4> QED
        BY <4>1, LastAppended
    <3>3. ASSUME NEW f \in {g \in DecodedFields : ~IsVariable(g)}, n \in Range(CompleteReports(f)'),
                 CompleteReports(f) # <<>>,
                 Asserted(f, n.payload) = Asserted(f, Last(CompleteReports(f)).payload),
                 NEW v \in Range(values')
          PROVE  v.field_id # f.bit_offset
      <4>1. phase = "VALID" /\ f \in Range(fields_) /\ IsArray(f)
        BY DEF DecodedFields, IsArray
      <4>2. PICK i \in DOMAIN fields_ : f = fields_[i]
        BY <4>1 DEF Range
      <4> QED
        BY <1>1, <3>1, <3>3, <4>1, <4>2, SilentReport
    <3> QED
      BY <3>2, <3>3
  <2>2. CASE Next /\ UNCHANGED decoderVars
    BY <2>2 DEF decoderVars
  <2>3. CASE UNCHANGED allVars
    BY <2>3
  <2> QED
    BY <1>1, <2>1, <2>2, <2>3 DEF DecoderNext
<1>2. ReorderingIsSilent <=> [][Silent]_allVars
  BY DEF ReorderingIsSilent
<1> HIDE DEF Silent
<1> QED
  BY <1>1, <1>2, ArraysInvariant, PTL DEF DecoderSpec
=============================================================================
