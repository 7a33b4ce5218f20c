---------------------------- MODULE SequenceLemmas ----------------------------
(***************************************************************************)
(* Facts the proofs share: induction over the naturals, what FlattenSeq of *)
(* the community modules computes, and what is chosen of a history.         *)
(***************************************************************************)
EXTENDS Integers, SequencesExt, Histories, SequenceTheorems, FiniteSetTheorems,
        FunctionTheorems, WellFoundedInduction, TLAPS

LEMMA Induction ==
  ASSUME NEW S, 0 \in S, \A n \in Nat : n \in S => n + 1 \in S
  PROVE  \A n \in Nat : n \in S
<1> DEFINE T    == Nat \ S
           less == OpToRel(<, Nat)
<1> SUFFICES ASSUME T # {} PROVE FALSE
  OBVIOUS
<1>1. IsWellFoundedOn(less, Nat)
  BY NatLessThanWellFounded
<1>2. PICK n \in T : \A k \in T : <<k, n>> \notin less
  <2> HIDE DEF less
  <2>1. T \subseteq Nat
    OBVIOUS
  <2> HIDE DEF T
  <2> QED
    BY <1>1, <2>1, WFMin
<1>3. n # 0 /\ n \in Nat /\ n - 1 \in Nat /\ (n - 1) + 1 = n /\ n - 1 < n
  OBVIOUS
<1>4. n - 1 \in T
  BY <1>3
<1>5. <<n - 1, n>> \in less
  BY <1>3 DEF OpToRel
<1> QED
  BY <1>2, <1>4, <1>5

IsFlattening(f, lists, n) ==
  f = [i \in 1 .. n |-> IF i = 1 THEN lists[i] ELSE f[i - 1] \o lists[i]]

LEMMA FlatteningExists ==
  ASSUME NEW lists, NEW n \in Nat
  PROVE  \E f : IsFlattening(f, lists, n)
<1> DEFINE S == {m \in Nat : \E f : IsFlattening(f, lists, m)}
<1>1. 0 \in S
  <2>1. IsFlattening([i \in 1 .. 0 |-> <<>>], lists, 0)
    BY DEF IsFlattening
  <2> QED
    BY <2>1
<1>2. ASSUME NEW m \in Nat, m \in S PROVE m + 1 \in S
  <2>1. PICK f : IsFlattening(f, lists, m)
    BY <1>2
  <2> DEFINE next == IF m = 0 THEN lists[1] ELSE f[m] \o lists[m + 1]
             g == [i \in 1 .. m + 1 |-> IF i = m + 1 THEN next ELSE f[i]]
  <2>2. ASSUME NEW i \in 1 .. m + 1
        PROVE  g[i] = IF i = 1 THEN lists[i] ELSE g[i - 1] \o lists[i]
    <3>1. CASE i = m + 1
      <4>1. g[i] = next
        BY <3>1
      <4>2. CASE m = 0
        BY <3>1, <4>1, <4>2
      <4>3. CASE m # 0
        <5>1. i # 1 /\ i - 1 = m /\ m \in 1 .. m + 1 /\ m # m + 1
          BY <3>1, <4>3
        <5>2. g[i - 1] = f[m]
          BY <5>1
        <5> HIDE DEF g
        <5> QED
          BY <3>1, <4>1, <4>3, <5>1, <5>2
      <4> QED
        BY <4>2, <4>3
    <3>2. CASE i # m + 1
      <4>1. i \in 1 .. m /\ g[i] = f[i]
        BY <3>2
      <4>2. f[i] = IF i = 1 THEN lists[i] ELSE f[i - 1] \o lists[i]
        BY <2>1, <4>1 DEF IsFlattening
      <4>3. i # 1 => i - 1 \in 1 .. m + 1 /\ i - 1 # m + 1
        BY <4>1
      <4>4. i # 1 => g[i - 1] = f[i - 1]
        BY <4>3
      <4> HIDE DEF g
      <4> QED
        BY <4>1, <4>2, <4>4
    <3> QED
      BY <3>1, <3>2
  <2>3. g = [i \in 1 .. m + 1 |-> IF i = 1 THEN lists[i] ELSE g[i - 1] \o lists[i]]
    BY <2>2
  <2>4. IsFlattening(g, lists, m + 1)
    <3> HIDE DEF g
    <3> QED
      BY <2>3 DEF IsFlattening
  <2> QED
    BY <2>4
<1>3. n \in S
  <2> HIDE DEF S
  <2> QED
    BY <1>1, <1>2, Induction
<1> QED
  BY <1>3

LEMMA FlattenSeqIs ==
  ASSUME NEW lists, Len(lists) \in Nat \ {0}
  PROVE  \E f : IsFlattening(f, lists, Len(lists)) /\ FlattenSeq(lists) = f[Len(lists)]
<1> DEFINE f == CHOOSE g : g = [i \in 1 .. Len(lists) |->
                                 IF i = 1 THEN lists[i] ELSE g[i - 1] \o lists[i]]
<1>1. IsFlattening(f, lists, Len(lists))
  BY FlatteningExists DEF IsFlattening
<1>2. FlattenSeq(lists) = f[Len(lists)]
  BY DEF FlattenSeq
<1> QED
  BY <1>1, <1>2

LEMMA FlattenSeqType ==
  ASSUME NEW S, NEW lists \in Seq(Seq(S))
  PROVE  FlattenSeq(lists) \in Seq(S)
<1>1. Len(lists) \in Nat /\ DOMAIN lists = 1 .. Len(lists) /\ \A i \in DOMAIN lists : lists[i] \in Seq(S)
  BY LenProperties
<1>2. CASE Len(lists) = 0
  <2>1. lists = <<>>
    BY <1>2, EmptySeq
  <2>2. FlattenSeq(lists) = lists
    BY <1>2 DEF FlattenSeq
  <2> QED
    BY <2>1, <2>2, EmptySeq
<1>3. CASE Len(lists) # 0
  <2>1. PICK f : IsFlattening(f, lists, Len(lists)) /\ FlattenSeq(lists) = f[Len(lists)]
    BY <1>1, <1>3, FlattenSeqIs
  <2> DEFINE T == {n \in Nat : n \in 1 .. Len(lists) => f[n] \in Seq(S)}
  <2>2. 0 \in T
    OBVIOUS
  <2>3. ASSUME NEW n \in Nat, n \in T PROVE n + 1 \in T
    <3> SUFFICES ASSUME n + 1 \in 1 .. Len(lists) PROVE f[n + 1] \in Seq(S)
      OBVIOUS
    <3>1. f[n + 1] = IF n + 1 = 1 THEN lists[n + 1] ELSE f[(n + 1) - 1] \o lists[n + 1]
      BY <2>1 DEF IsFlattening
    <3>2. lists[n + 1] \in Seq(S)
      BY <1>1
    <3>3. n + 1 # 1 => f[(n + 1) - 1] \in Seq(S)
      <4>1. n + 1 # 1 => n \in 1 .. Len(lists) /\ (n + 1) - 1 = n
        BY <1>1
      <4> QED
        BY <4>1, <2>3
    <3> QED
      BY <3>1, <3>2, <3>3, ConcatProperties
  <2>4. Len(lists) \in T
    <3> HIDE DEF T
    <3> QED
      BY <1>1, <2>2, <2>3, Induction
  <2> QED
    BY <2>1, <2>4, <1>1, <1>3
<1> QED
  BY <1>2, <1>3

LEMMA FlattenEmpty == FlattenSeq(<<>>) = <<>>
BY DEF FlattenSeq

\* A list before the others comes first.
LEMMA FlattenPrepended ==
  ASSUME NEW S, NEW lists \in Seq(Seq(S)), NEW first \in Seq(S)
  PROVE  FlattenSeq(<<first>> \o lists) = first \o FlattenSeq(lists)
<1> DEFINE more == <<first>> \o lists
           n    == Len(lists)
<1>1. n \in Nat /\ DOMAIN lists = 1 .. n /\ \A i \in 1 .. n : lists[i] \in Seq(S)
  BY LenProperties
<1>2. Len(more) = n + 1 /\ more[1] = first /\ \A i \in 1 .. n : more[i + 1] = lists[i]
  <2>1. <<first>> \in Seq(Seq(S)) /\ Len(<<first>>) = 1 /\ <<first>>[1] = first
    OBVIOUS
  <2>2. /\ Len(more) = 1 + n
        /\ \A i \in 1 .. 1 + n : more[i] = IF i <= 1 THEN <<first>>[i] ELSE lists[i - 1]
    BY <2>1, ConcatProperties
  <2>3. \A i \in 1 .. n : i + 1 \in 1 .. 1 + n /\ ~(i + 1 <= 1) /\ (i + 1) - 1 = i
    BY <1>1
  <2>4. 1 \in 1 .. 1 + n /\ 1 <= 1
    BY <1>1
  <2> HIDE DEF more, n
  <2> QED
    BY <1>1, <2>1, <2>2, <2>3, <2>4
<1> HIDE DEF more
<1>3. PICK f : IsFlattening(f, more, n + 1) /\ FlattenSeq(more) = f[n + 1]
  <2>1. Len(more) \in Nat \ {0}
    BY <1>1, <1>2
  <2> QED
    BY <1>2, <2>1, FlattenSeqIs
<1>4. f[1] = first
  <2>1. 1 \in 1 .. n + 1
    BY <1>1
  <2> QED
    BY <1>2, <1>3, <2>1 DEF IsFlattening
<1>5. CASE n = 0
  <2>1. lists = <<>>
    BY <1>5, EmptySeq
  <2>2. first \o <<>> = first
    BY ConcatEmptySeq
  <2> QED
    BY <1>3, <1>4, <1>5, <2>1, <2>2, FlattenEmpty DEF more
<1>6. CASE n # 0
  <2>1. PICK g : IsFlattening(g, lists, n) /\ FlattenSeq(lists) = g[n]
    BY <1>1, <1>6, FlattenSeqIs
  <2> DEFINE Follows(k) == k \in 1 .. n => f[k + 1] = first \o g[k] /\ g[k] \in Seq(S)
             T == {k \in Nat : Follows(k)}
  <2>2. 0 \in T
    OBVIOUS
  <2>3. ASSUME NEW k \in Nat, Follows(k) PROVE Follows(k + 1)
    <3> SUFFICES ASSUME k + 1 \in 1 .. n
                 PROVE  f[(k + 1) + 1] = first \o g[k + 1] /\ g[k + 1] \in Seq(S)
      OBVIOUS
    <3>1. f[(k + 1) + 1] = f[k + 1] \o lists[k + 1]
      <4>1. (k + 1) + 1 \in 1 .. n + 1 /\ (k + 1) + 1 # 1 /\ ((k + 1) + 1) - 1 = k + 1
        BY <1>1
      <4>2. f[(k + 1) + 1] = IF (k + 1) + 1 = 1 THEN more[(k + 1) + 1]
                             ELSE f[((k + 1) + 1) - 1] \o more[(k + 1) + 1]
        BY <1>3, <4>1 DEF IsFlattening
      <4> QED
        BY <1>2, <4>1, <4>2
    <3>2. g[k + 1] = IF k + 1 = 1 THEN lists[k + 1] ELSE g[(k + 1) - 1] \o lists[k + 1]
      BY <2>1 DEF IsFlattening
    <3>3. lists[k + 1] \in Seq(S)
      BY <1>1
    <3>4. CASE k = 0
      <4>1. k + 1 = 1
        BY <3>4
      <4> QED
        BY <1>4, <3>1, <3>2, <3>3, <4>1
    <3>5. CASE k # 0
      <4>1. k \in 1 .. n /\ k + 1 # 1 /\ (k + 1) - 1 = k
        BY <3>5, <1>1
      <4>2. f[k + 1] = first \o g[k] /\ g[k] \in Seq(S)
        BY <2>3, <4>1
      <4>3. (first \o g[k]) \o lists[k + 1] = first \o (g[k] \o lists[k + 1])
        <5> DEFINE before == g[k]  next == lists[k + 1]
        <5>1. before \in Seq(S) /\ next \in Seq(S)
          BY <3>3, <4>2
        <5> HIDE DEF before, next
        <5>2. (first \o before) \o next = first \o (before \o next)
          BY <5>1, ConcatAssociative
        <5> QED
          BY <5>2 DEF before, next
      <4>4. g[k] \o lists[k + 1] \in Seq(S)
        BY <3>3, <4>2, ConcatProperties
      <4> QED
        BY <3>1, <3>2, <4>1, <4>2, <4>3, <4>4
    <3> QED
      BY <3>4, <3>5
  <2>4. Follows(n)
    <3> HIDE DEF Follows
    <3>1. \A k \in Nat : k \in T => k + 1 \in T
      BY <2>3
    <3>2. \A k \in Nat : k \in T
      <4> HIDE DEF T
      <4> QED
        BY <2>2, <3>1, Induction
    <3> QED
      BY <1>1, <3>2
  <2>5. n \in 1 .. n
    BY <1>1, <1>6
  <2> QED
    BY <1>3, <2>1, <2>4, <2>5 DEF more
<1> QED
  BY <1>5, <1>6

\* Flattening keeps all elements and adds none.
LEMMA FlattenRange ==
  ASSUME NEW S, NEW lists \in Seq(Seq(S))
  PROVE  Range(FlattenSeq(lists)) = UNION {Range(lists[i]) : i \in DOMAIN lists}
<1> DEFINE n == Len(lists)
<1>1. n \in Nat /\ DOMAIN lists = 1 .. n /\ \A i \in 1 .. n : lists[i] \in Seq(S)
  BY LenProperties
<1>2. CASE n = 0
  <2>1. lists = <<>>
    BY <1>2, EmptySeq
  <2>2. FlattenSeq(lists) = lists /\ DOMAIN lists = {}
    BY <1>1, <1>2, <2>1, FlattenEmpty
  <2> QED
    BY <2>2 DEF Range
<1>3. CASE n # 0
  <2>1. PICK f : IsFlattening(f, lists, n) /\ FlattenSeq(lists) = f[n]
    BY <1>1, <1>3, FlattenSeqIs
  <2> DEFINE All(k) == UNION {Range(lists[i]) : i \in 1 .. k}
             Has(k) == k \in 1 .. n => Range(f[k]) = All(k) /\ f[k] \in Seq(S)
             T == {k \in Nat : Has(k)}
  <2>2. 0 \in T
    OBVIOUS
  <2>3. ASSUME NEW k \in Nat, Has(k) PROVE Has(k + 1)
    <3> SUFFICES ASSUME k + 1 \in 1 .. n
                 PROVE  Range(f[k + 1]) = All(k + 1) /\ f[k + 1] \in Seq(S)
      OBVIOUS
    <3>1. f[k + 1] = IF k + 1 = 1 THEN lists[k + 1] ELSE f[(k + 1) - 1] \o lists[k + 1]
      BY <2>1 DEF IsFlattening
    <3>2. lists[k + 1] \in Seq(S)
      BY <1>1
    <3>3. All(k + 1) = All(k) \cup Range(lists[k + 1])
      <4>1. 1 .. k + 1 = (1 .. k) \cup {k + 1}
        OBVIOUS
      <4> QED
        BY <4>1
    <3>4. CASE k = 0
      <4>1. k + 1 = 1 /\ 1 .. k = {}
        BY <3>4
      <4>2. All(k) = {}
        BY <4>1
      <4> HIDE DEF All
      <4> QED
        BY <3>1, <3>2, <3>3, <4>1, <4>2
    <3>5. CASE k # 0
      <4>1. k \in 1 .. n /\ k + 1 # 1 /\ (k + 1) - 1 = k
        BY <3>5, <1>1
      <4> HIDE DEF All
      <4>2. Range(f[k]) = All(k) /\ f[k] \in Seq(S)
        BY <2>3, <4>1
      <4>3. Range(f[k] \o lists[k + 1]) = Range(f[k]) \cup Range(lists[k + 1])
        BY <3>2, <4>2, RangeConcatenation
      <4>4. f[k] \o lists[k + 1] \in Seq(S)
        BY <3>2, <4>2, ConcatProperties
      <4> QED
        BY <3>1, <3>3, <4>1, <4>2, <4>3, <4>4
    <3> QED
      BY <3>4, <3>5
  <2>4. Has(n)
    <3> HIDE DEF Has
    <3>1. \A k \in Nat : k \in T => k + 1 \in T
      BY <2>3
    <3>2. \A k \in Nat : k \in T
      <4> HIDE DEF T
      <4> QED
        BY <2>2, <3>1, Induction
    <3> QED
      BY <1>1, <3>2
  <2>5. n \in 1 .. n
    BY <1>1, <1>3
  <2> QED
    BY <1>1, <2>1, <2>4, <2>5
<1> QED
  BY <1>2, <1>3

\* A function by recursion over 0 .. n exists, if its step stays in a set.
LEMMA RecursionExists ==
  ASSUME NEW P, NEW base \in P, NEW n \in Nat, NEW step \in [1 .. n -> [P -> P]]
  PROVE  \E f \in [0 .. n -> P] : f[0] = base /\ \A k \in 1 .. n : f[k] = step[k][f[k - 1]]
<1> DEFINE Reaches(m) ==
             \E f \in [0 .. m -> P] : f[0] = base /\ \A k \in 1 .. m : f[k] = step[k][f[k - 1]]
           T == {m \in Nat : m <= n => Reaches(m)}
<1>1. 0 \in T
  <2> DEFINE f == [k \in 0 .. 0 |-> base]
  <2>1. f \in [0 .. 0 -> P] /\ f[0] = base /\ \A k \in 1 .. 0 : f[k] = step[k][f[k - 1]]
    OBVIOUS
  <2> HIDE DEF f
  <2>2. Reaches(0)
    BY <2>1
  <2> QED
    BY <2>2
<1>2. ASSUME NEW m \in Nat, m \in T PROVE m + 1 \in T
  <2> SUFFICES ASSUME m + 1 <= n PROVE Reaches(m + 1)
    OBVIOUS
  <2>1. PICK f \in [0 .. m -> P] : f[0] = base /\ \A k \in 1 .. m : f[k] = step[k][f[k - 1]]
    BY <1>2
  <2> DEFINE next == step[m + 1][f[m]]
             g    == [k \in 0 .. m + 1 |-> IF k = m + 1 THEN next ELSE f[k]]
  <2>2. next \in P
    <3>1. f[m] \in P /\ m + 1 \in 1 .. n
      BY <2>1
    <3> QED
      BY <3>1
  <2>3. g \in [0 .. m + 1 -> P]
    BY <2>1, <2>2
  <2>4. /\ g[0] = f[0] /\ g[m + 1] = next
        /\ \A k \in 1 .. m : g[k] = f[k] /\ g[k - 1] = f[k - 1]
        /\ g[(m + 1) - 1] = f[m]
    OBVIOUS
  <2>5. ASSUME NEW k \in 1 .. m + 1 PROVE g[k] = step[k][g[k - 1]]
    <3> HIDE DEF g
    <3>1. CASE k = m + 1
      BY <3>1, <2>4
    <3>2. CASE k # m + 1
      <4>1. k \in 1 .. m
        BY <3>2
      <4> QED
        BY <4>1, <2>1, <2>4
    <3> QED
      BY <3>1, <3>2
  <2> HIDE DEF g
  <2> QED
    BY <2>1, <2>3, <2>4, <2>5
<1>3. n \in T
  <2> HIDE DEF T
  <2> QED
    BY <1>1, <1>2, Induction
<1> QED
  BY <1>3

\* A concatenation, by its two halves.
LEMMA ConcatIs ==
  ASSUME NEW S, NEW s \in Seq(S), NEW t \in Seq(S)
  PROVE  /\ s \o t \in Seq(S)
         /\ DOMAIN s = 1 .. Len(s) /\ DOMAIN t = 1 .. Len(t) /\ Len(s) \in Nat /\ Len(t) \in Nat
         /\ Len(s \o t) = Len(s) + Len(t) /\ DOMAIN (s \o t) = 1 .. Len(s) + Len(t)
         /\ \A x \in 1 .. Len(s) : (s \o t)[x] = s[x]
         /\ \A x \in 1 .. Len(s) + Len(t) :
              x > Len(s) => x - Len(s) \in 1 .. Len(t) /\ (s \o t)[x] = t[x - Len(s)]
BY ConcatProperties, LenProperties

\* What the first k lists flatten to, from the empty list to the whole.
LEMMA FlattenPrefixes ==
  ASSUME NEW S, NEW lists \in Seq(Seq(S))
  PROVE  \E f : /\ f \in [0 .. Len(lists) -> Seq(S)] /\ f[0] = <<>>
                /\ \A k \in 1 .. Len(lists) : f[k] = f[k - 1] \o lists[k]
                /\ FlattenSeq(lists) = f[Len(lists)]
<1> DEFINE n == Len(lists)
<1>1. n \in Nat /\ DOMAIN lists = 1 .. n /\ \A i \in 1 .. n : lists[i] \in Seq(S)
  BY LenProperties
<1>2. \E g : IsFlattening(g, lists, n) /\ (n # 0 => FlattenSeq(lists) = g[n])
  BY <1>1, FlatteningExists, FlattenSeqIs
<1>3. n = 0 => FlattenSeq(lists) = <<>>
  BY EmptySeq, FlattenEmpty
<1> HIDE DEF n
<1>4. PICK g : IsFlattening(g, lists, n) /\ (n # 0 => FlattenSeq(lists) = g[n])
  BY <1>2
<1> DEFINE f == [k \in 0 .. n |-> IF k = 0 THEN <<>> ELSE g[k]]
           T == {k \in Nat : k <= n => f[k] \in Seq(S)}
<1>5. f[0] = <<>> /\ DOMAIN f = 0 .. n /\ \A k \in 1 .. n : f[k] = g[k]
  BY <1>1
<1>6. ASSUME NEW k \in 1 .. n PROVE f[k] = f[k - 1] \o lists[k]
  <2>1. g[k] = IF k = 1 THEN lists[k] ELSE g[k - 1] \o lists[k]
    BY <1>4 DEF IsFlattening
  <2> HIDE DEF f
  <2>2. CASE k = 1
    <3>1. <<>> \o lists[k] = lists[k]
      BY <1>1, ConcatEmptySeq
    <3>2. k - 1 = 0
      BY <2>2
    <3> QED
      BY <2>1, <2>2, <3>1, <3>2, <1>5
  <2>3. CASE k # 1
    <3>1. k - 1 \in 1 .. n
      BY <2>3, <1>1
    <3> QED
      BY <2>1, <2>3, <3>1, <1>5
  <2> QED
    BY <2>2, <2>3
<1>7. FlattenSeq(lists) = f[n]
  <2> HIDE DEF f
  <2>1. n = 0 \/ n \in 1 .. n
    BY <1>1
  <2> QED
    BY <2>1, <1>3, <1>4, <1>5
<1>8. 0 \in T
  <2> HIDE DEF f
  <2> QED
    BY <1>5, EmptySeq
<1>9. ASSUME NEW k \in Nat, k \in T PROVE k + 1 \in T
  <2> HIDE DEF f
  <2> SUFFICES ASSUME k + 1 <= n PROVE f[k + 1] \in Seq(S)
    OBVIOUS
  <2>1. k + 1 \in 1 .. n /\ (k + 1) - 1 = k /\ k <= n
    BY <1>1
  <2>2. f[k] \in Seq(S) /\ lists[k + 1] \in Seq(S)
    BY <2>1, <1>1, <1>9
  <2>3. f[k + 1] = f[k] \o lists[k + 1]
    BY <2>1, <1>6
  <2> QED
    BY <2>2, <2>3, ConcatProperties
<1>10. \A k \in Nat : k \in T
  <2> HIDE DEF T
  <2> QED
    BY <1>8, <1>9, Induction
<1> HIDE DEF f
<1>11. f \in [0 .. n -> Seq(S)]
  <2>1. f = [k \in 0 .. n |-> f[k]]
    BY <1>5 DEF f
  <2>2. \A k \in 0 .. n : k \in Nat /\ k <= n
    BY <1>1
  <2>3. \A k \in 0 .. n : f[k] \in Seq(S)
    BY <2>2, <1>10
  <2> QED
    BY <2>1, <2>3
<1> QED
  BY <1>5, <1>6, <1>7, <1>11 DEF n

\* Lists without a repetition, in themselves and among each other, flatten to one.
AllDifferent(list, key) == \A x, y \in DOMAIN list : key[list[x]] = key[list[y]] => x = y

AllDifferentIn(lists, key) ==
  \A i, j \in DOMAIN lists : \A a \in DOMAIN lists[i], b \in DOMAIN lists[j] :
    key[lists[i][a]] = key[lists[j][b]] => i = j /\ a = b

LEMMA FlattenDistinct ==
  ASSUME NEW S, NEW lists \in Seq(Seq(S)), NEW key, AllDifferentIn(lists, key)
  PROVE  AllDifferent(FlattenSeq(lists), key)
<1> DEFINE n == Len(lists)
<1>1. n \in Nat /\ DOMAIN lists = 1 .. n /\ \A i \in 1 .. n : lists[i] \in Seq(S)
  BY LenProperties
<1>2. PICK f : /\ f \in [0 .. n -> Seq(S)] /\ f[0] = <<>>
               /\ \A k \in 1 .. n : f[k] = f[k - 1] \o lists[k]
               /\ FlattenSeq(lists) = f[n]
  BY FlattenPrefixes
<1> DEFINE Comes(k)    == \A x \in DOMAIN f[k] : \E i \in 1 .. k : \E a \in DOMAIN lists[i] : f[k][x] = lists[i][a]
           Distinct(k) == AllDifferent(f[k], key)
           T == {k \in Nat : k <= n => Comes(k) /\ Distinct(k)}
<1>3. 0 \in T
  <2>1. DOMAIN f[0] = {}
    BY <1>2, LenProperties, EmptySeq
  <2> QED
    BY <2>1 DEF AllDifferent
<1>4. ASSUME NEW k \in Nat, k \in T PROVE k + 1 \in T
  <2> SUFFICES ASSUME k + 1 <= n PROVE Comes(k + 1) /\ Distinct(k + 1)
    OBVIOUS
  <2> DEFINE l == Len(f[k])
             m == Len(lists[k + 1])
  <2>1. /\ k + 1 \in 1 .. n /\ (k + 1) - 1 = k /\ k \in 0 .. n
        /\ f[k] \in Seq(S) /\ lists[k + 1] \in Seq(S) /\ f[k + 1] = f[k] \o lists[k + 1]
    <3>1. k + 1 \in 1 .. n /\ (k + 1) - 1 = k /\ k \in 0 .. n
      BY <1>1
    <3> QED
      BY <3>1, <1>1, <1>2
  <2>2. /\ l \in Nat /\ DOMAIN f[k] = 1 .. l /\ m \in Nat /\ DOMAIN lists[k + 1] = 1 .. m
        /\ DOMAIN f[k + 1] = 1 .. l + m
        /\ \A x \in 1 .. l : f[k + 1][x] = f[k][x]
        /\ \A x \in 1 .. l + m : x > l => x - l \in 1 .. m /\ f[k + 1][x] = lists[k + 1][x - l]
    <3> HIDE DEF n, Comes, Distinct
    <3>1. PICK s, t, u : s = f[k] /\ t = lists[k + 1] /\ u = f[k + 1]
      OBVIOUS
    <3>2. s \in Seq(S) /\ t \in Seq(S) /\ u = s \o t /\ l = Len(s) /\ m = Len(t)
      BY <2>1, <3>1
    <3> HIDE DEF l, m
    <3>3. /\ l \in Nat /\ DOMAIN s = 1 .. l /\ m \in Nat /\ DOMAIN t = 1 .. m
          /\ DOMAIN (s \o t) = 1 .. l + m
          /\ \A x \in 1 .. l : (s \o t)[x] = s[x]
          /\ \A x \in 1 .. l + m : x > l => x - l \in 1 .. m /\ (s \o t)[x] = t[x - l]
      BY <3>2, ConcatIs
    <3>4. /\ DOMAIN u = 1 .. l + m
          /\ \A x \in 1 .. l : u[x] = s[x]
          /\ \A x \in 1 .. l + m : x > l => x - l \in 1 .. m /\ u[x] = t[x - l]
      BY <3>2, <3>3, Zenon
    <3> QED
      BY <3>1, <3>3, <3>4, Zenon
  <2>3. Comes(k) /\ Distinct(k)
    <3>1. k <= n
      BY <2>1
    <3> HIDE DEF Comes, Distinct
    <3> QED
      BY <3>1, <1>4
  <2> HIDE DEF l, m
  <2>4. \A x \in 1 .. l : \E i \in 1 .. k : \E a \in DOMAIN lists[i] : f[k + 1][x] = lists[i][a]
    <3> SUFFICES ASSUME NEW x \in 1 .. l
                 PROVE  \E i \in 1 .. k : \E a \in DOMAIN lists[i] : f[k + 1][x] = lists[i][a]
      OBVIOUS
    <3>1. x \in DOMAIN f[k] /\ f[k + 1][x] = f[k][x]
      BY <2>2
    <3>2. \E i \in 1 .. k : \E a \in DOMAIN lists[i] : f[k][x] = lists[i][a]
      BY <3>1, <2>3
    <3> QED
      BY <3>1, <3>2
  <2>5. Comes(k + 1)
    <3> SUFFICES ASSUME NEW x \in 1 .. l + m
                 PROVE  \E i \in 1 .. k + 1 : \E a \in DOMAIN lists[i] : f[k + 1][x] = lists[i][a]
      BY <2>2
    <3>1. CASE x <= l
      <4>1. x \in 1 .. l /\ 1 .. k \subseteq 1 .. k + 1
        BY <3>1, <2>2
      <4> QED
        BY <4>1, <2>4
    <3>2. CASE x > l
      <4>1. k + 1 \in 1 .. k + 1 /\ x - l \in DOMAIN lists[k + 1] /\ f[k + 1][x] = lists[k + 1][x - l]
        BY <3>2, <2>2
      <4> QED
        BY <4>1
    <3> QED
      BY <3>1, <3>2, <2>2
  <2>6. ASSUME NEW x \in 1 .. l, NEW y \in 1 .. l + m, y > l, key[f[k + 1][x]] = key[f[k + 1][y]]
        PROVE  FALSE
    <3>1. PICK i \in 1 .. k : \E a \in DOMAIN lists[i] : f[k + 1][x] = lists[i][a]
      BY <2>4
    <3>2. PICK a \in DOMAIN lists[i] : f[k + 1][x] = lists[i][a]
      BY <3>1
    <3>3. y - l \in DOMAIN lists[k + 1] /\ f[k + 1][y] = lists[k + 1][y - l]
      BY <2>6, <2>2
    <3>4. i \in DOMAIN lists /\ k + 1 \in DOMAIN lists /\ i # k + 1
      BY <1>1, <2>1
    <3> QED
      BY <2>6, <3>2, <3>3, <3>4 DEF AllDifferentIn
  <2>7. Distinct(k + 1)
    <3> SUFFICES ASSUME NEW x \in 1 .. l + m, NEW y \in 1 .. l + m, key[f[k + 1][x]] = key[f[k + 1][y]]
                 PROVE  x = y
      BY <2>2 DEF AllDifferent
    <3>1. CASE x <= l /\ y <= l
      <4>1. x \in 1 .. l /\ y \in 1 .. l
        BY <3>1, <2>2
      <4>2. x \in DOMAIN f[k] /\ y \in DOMAIN f[k] /\ f[k + 1][x] = f[k][x] /\ f[k + 1][y] = f[k][y]
        BY <4>1, <2>2
      <4>3. key[f[k][x]] = key[f[k][y]]
        BY <4>2
      <4> HIDE DEF Comes
      <4>4. AllDifferent(f[k], key)
        BY <2>3
      <4> QED
        BY <4>2, <4>3, <4>4 DEF AllDifferent
    <3>2. CASE x <= l /\ y > l
      BY <3>2, <2>2, <2>6
    <3>3. CASE x > l /\ y <= l
      BY <3>3, <2>2, <2>6
    <3>4. CASE x > l /\ y > l
      <4>1. /\ x - l \in DOMAIN lists[k + 1] /\ f[k + 1][x] = lists[k + 1][x - l]
            /\ y - l \in DOMAIN lists[k + 1] /\ f[k + 1][y] = lists[k + 1][y - l]
        BY <3>4, <2>2
      <4>2. k + 1 \in DOMAIN lists /\ key[lists[k + 1][x - l]] = key[lists[k + 1][y - l]]
        BY <4>1, <1>1, <2>1
      <4>3. x - l = y - l
        BY <4>1, <4>2 DEF AllDifferentIn
      <4> QED
        BY <4>3, <2>2
    <3> QED
      BY <3>1, <3>2, <3>3, <3>4, <2>2
  <2> QED
    BY <2>5, <2>7
<1>5. n \in T
  <2> HIDE DEF T
  <2> QED
    BY <1>1, <1>3, <1>4, Induction
<1> QED
  BY <1>1, <1>2, <1>5

LEMMA SingleSeq ==
  ASSUME NEW S, NEW x \in S
  PROVE  /\ <<x>> \in Seq(S) /\ DOMAIN <<x>> = {1} /\ <<x>>[1] = x /\ Range(<<x>>) = {x}
         /\ <<>> \in Seq(S) /\ DOMAIN <<>> = {} /\ Range(<<>>) = {}
<1>1. <<x>> \in Seq(S) /\ Len(<<x>>) = 1 /\ <<x>>[1] = x /\ DOMAIN <<x>> = {1}
  OBVIOUS
<1>2. <<>> \in Seq(S) /\ DOMAIN <<>> = {}
  BY EmptySeq
<1> QED
  BY <1>1, <1>2 DEF Range

\* A list of lists of lists, flattened twice.
FlattenTable(table) == FlattenSeq([i \in DOMAIN table |-> FlattenSeq(table[i])])

LEMMA FlattenTableIs ==
  ASSUME NEW S, NEW table \in Seq(Seq(Seq(S)))
  PROVE  /\ [i \in DOMAIN table |-> FlattenSeq(table[i])] \in Seq(Seq(S))
         /\ FlattenTable(table) \in Seq(S)
         /\ \A x : x \in Range(FlattenTable(table)) <=>
              \E i \in DOMAIN table : \E j \in DOMAIN table[i] : x \in Range(table[i][j])
<1> DEFINE rows == [i \in DOMAIN table |-> FlattenSeq(table[i])]
<1>1. DOMAIN table = 1 .. Len(table) /\ \A i \in DOMAIN table : table[i] \in Seq(Seq(S))
  BY LenProperties
<1>2. ASSUME NEW i \in DOMAIN table
      PROVE  /\ FlattenSeq(table[i]) \in Seq(S)
             /\ Range(FlattenSeq(table[i])) = UNION {Range(table[i][j]) : j \in DOMAIN table[i]}
  BY <1>1, FlattenSeqType, FlattenRange
<1>3. rows \in Seq(Seq(S))
  <2>1. Len(table) \in Nat
    BY LenProperties
  <2> QED
    BY <1>1, <1>2, <2>1
<1>4. DOMAIN rows = DOMAIN table /\ \A i \in DOMAIN table : rows[i] = FlattenSeq(table[i])
  OBVIOUS
<1> HIDE DEF rows
<1>5. FlattenSeq(rows) \in Seq(S) /\ Range(FlattenSeq(rows)) = UNION {Range(rows[i]) : i \in DOMAIN rows}
  BY <1>3, FlattenSeqType, FlattenRange
<1>6. FlattenTable(table) = FlattenSeq(rows)
  BY DEF FlattenTable, rows
<1>7. ASSUME NEW x
      PROVE  x \in Range(FlattenSeq(rows)) <=>
               \E i \in DOMAIN table : \E j \in DOMAIN table[i] : x \in Range(table[i][j])
  <2>1. x \in Range(FlattenSeq(rows)) <=> \E i \in DOMAIN table : x \in Range(rows[i])
    BY <1>4, <1>5
  <2>2. ASSUME NEW i \in DOMAIN table
        PROVE  x \in Range(rows[i]) <=> \E j \in DOMAIN table[i] : x \in Range(table[i][j])
    BY <1>2, <1>4
  <2> QED
    BY <2>1, <2>2
<1> QED
  BY <1>3, <1>5, <1>6, <1>7 DEF rows

AllDifferentInTable(table, key) ==
  \A i, k \in DOMAIN table : \A j \in DOMAIN table[i], l \in DOMAIN table[k] :
    \A a \in DOMAIN table[i][j], b \in DOMAIN table[k][l] :
      key[table[i][j][a]] = key[table[k][l][b]] => i = k /\ j = l /\ a = b

LEMMA FlattenTableDistinct ==
  ASSUME NEW S, NEW table \in Seq(Seq(Seq(S))), NEW key, AllDifferentInTable(table, key)
  PROVE  AllDifferent(FlattenTable(table), key)
<1> DEFINE rows == [i \in DOMAIN table |-> FlattenSeq(table[i])]
<1>1. DOMAIN table = 1 .. Len(table) /\ \A i \in DOMAIN table : table[i] \in Seq(Seq(S))
  BY LenProperties
<1>2. rows \in Seq(Seq(S)) /\ DOMAIN rows = DOMAIN table /\ \A i \in DOMAIN table : rows[i] = FlattenSeq(table[i])
  BY FlattenTableIs
<1>3. ASSUME NEW i \in DOMAIN table
      PROVE  /\ AllDifferent(rows[i], key)
             /\ \A x \in DOMAIN rows[i] :
                  \E j \in DOMAIN table[i] : \E a \in DOMAIN table[i][j] : rows[i][x] = table[i][j][a]
  <2>1. AllDifferentIn(table[i], key)
    BY DEF AllDifferentInTable, AllDifferentIn
  <2>2. table[i] \in Seq(Seq(S))
    BY <1>1
  <2>3. AllDifferent(FlattenSeq(table[i]), key)
    BY <2>1, <2>2, FlattenDistinct
  <2>4. Range(FlattenSeq(table[i])) = UNION {Range(table[i][j]) : j \in DOMAIN table[i]}
    BY <2>2, FlattenRange
  <2>5. ASSUME NEW x \in DOMAIN rows[i]
        PROVE  \E j \in DOMAIN table[i] : \E a \in DOMAIN table[i][j] : rows[i][x] = table[i][j][a]
    <3>1. rows[i][x] \in Range(FlattenSeq(table[i]))
      BY <1>2 DEF Range
    <3>2. PICK j \in DOMAIN table[i] : rows[i][x] \in Range(table[i][j])
      BY <3>1, <2>4
    <3> QED
      BY <3>2 DEF Range
  <2> QED
    BY <2>3, <2>5, <1>2
<1> HIDE DEF rows
<1>4. AllDifferentIn(rows, key)
  <2> SUFFICES ASSUME NEW i \in DOMAIN table, NEW k \in DOMAIN table,
                      NEW x \in DOMAIN rows[i], NEW y \in DOMAIN rows[k],
                      key[rows[i][x]] = key[rows[k][y]]
               PROVE  i = k /\ x = y
    BY <1>2 DEF AllDifferentIn
  <2>1. PICK j \in DOMAIN table[i] : \E a \in DOMAIN table[i][j] : rows[i][x] = table[i][j][a]
    BY <1>3
  <2>2. PICK l \in DOMAIN table[k] : \E b \in DOMAIN table[k][l] : rows[k][y] = table[k][l][b]
    BY <1>3
  <2>3. i = k
    BY <2>1, <2>2 DEF AllDifferentInTable
  <2> QED
    BY <2>3, <1>3 DEF AllDifferent
<1>5. AllDifferent(FlattenSeq(rows), key)
  BY <1>2, <1>4, FlattenDistinct
<1> QED
  BY <1>5 DEF FlattenTable, rows

\* A sequence that agrees with the first elements of a list.
LEMMA FirstOf ==
  ASSUME NEW S, NEW list \in Seq(S), NEW q \in Seq(S), NEW m \in 0 .. Len(list),
         Len(q) = m, \A x \in 1 .. m : q[x] = list[x]
  PROVE  q = SubSeq(list, 1, m)
<1>1. Len(list) \in Nat /\ m \in Int /\ 1 \in Int /\ \A x \in 1 .. m : list[x] \in S
  BY LenProperties
<1>2. /\ SubSeq(list, 1, m) \in Seq(S)
      /\ Len(SubSeq(list, 1, m)) = (IF 1 <= m THEN m - 1 + 1 ELSE 0)
      /\ \A x \in 1 .. m - 1 + 1 : SubSeq(list, 1, m)[x] = list[1 + x - 1]
  BY <1>1, SubSeqProperties
<1>3. /\ (IF 1 <= m THEN m - 1 + 1 ELSE 0) = m /\ m - 1 + 1 = m
      /\ \A x \in 1 .. m : 1 + x - 1 = x
  BY <1>1
<1>4. Len(SubSeq(list, 1, m)) = m /\ \A x \in 1 .. m : SubSeq(list, 1, m)[x] = list[x]
  BY <1>2, <1>3
<1> QED
  BY <1>2, <1>4, SeqEqual

\* Lists of lists flatten in parts.
LEMMA FlattenConcat ==
  ASSUME NEW S, NEW a \in Seq(Seq(S)), NEW b \in Seq(Seq(S))
  PROVE  FlattenSeq(a \o b) = FlattenSeq(a) \o FlattenSeq(b)
<1> DEFINE n == Len(a)
           m == Len(b)
<1>1. /\ n \in Nat /\ m \in Nat /\ DOMAIN a = 1 .. n /\ DOMAIN b = 1 .. m
      /\ a \o b \in Seq(Seq(S)) /\ Len(a \o b) = n + m
      /\ \A x \in 1 .. n : (a \o b)[x] = a[x]
      /\ \A x \in 1 .. n + m : x > n => x - n \in 1 .. m /\ (a \o b)[x] = b[x - n]
  BY ConcatIs
<1>0. \A x \in 1 .. m : b[x] \in Seq(S)
  BY <1>1
<1>2. PICK f : /\ f \in [0 .. n -> Seq(S)] /\ f[0] = <<>>
               /\ \A k \in 1 .. n : f[k] = f[k - 1] \o a[k]
               /\ FlattenSeq(a) = f[n]
  BY FlattenPrefixes
<1>3. PICK g : /\ g \in [0 .. m -> Seq(S)] /\ g[0] = <<>>
               /\ \A k \in 1 .. m : g[k] = g[k - 1] \o b[k]
               /\ FlattenSeq(b) = g[m]
  BY FlattenPrefixes
<1>4. PICK h : /\ h \in [0 .. n + m -> Seq(S)] /\ h[0] = <<>>
               /\ \A k \in 1 .. n + m : h[k] = h[k - 1] \o (a \o b)[k]
               /\ FlattenSeq(a \o b) = h[n + m]
  <2>1. PICK c : c = a \o b
    OBVIOUS
  <2>2. c \in Seq(Seq(S)) /\ Len(c) = n + m
    BY <1>1, <2>1
  <2> HIDE DEF n, m
  <2>3. \E h : /\ h \in [0 .. Len(c) -> Seq(S)] /\ h[0] = <<>>
               /\ \A k \in 1 .. Len(c) : h[k] = h[k - 1] \o c[k]
               /\ FlattenSeq(c) = h[Len(c)]
    BY <2>2, FlattenPrefixes
  <2> QED
    BY <2>1, <2>2, <2>3
<1> HIDE DEF n, m
<1> DEFINE T == {k \in Nat : k <= n => h[k] = f[k]}
           U == {k \in Nat : k <= m => h[n + k] = f[n] \o g[k]}
<1>5. ASSUME NEW k \in Nat PROVE k \in T
  <2>1. 0 \in T
    BY <1>2, <1>4
  <2>2. ASSUME NEW i \in Nat, i \in T PROVE i + 1 \in T
    <3> SUFFICES ASSUME i + 1 <= n PROVE h[i + 1] = f[i + 1]
      OBVIOUS
    <3>1. i + 1 \in 1 .. n /\ i + 1 \in 1 .. n + m /\ (i + 1) - 1 = i /\ i <= n
      BY <1>1
    <3>2. h[i + 1] = h[i] \o a[i + 1] /\ f[i + 1] = f[i] \o a[i + 1]
      BY <3>1, <1>1, <1>2, <1>4
    <3> QED
      BY <3>1, <3>2, <2>2
  <2> HIDE DEF T
  <2> QED
    BY <2>1, <2>2, Induction
<1>6. ASSUME NEW k \in Nat PROVE k \in U
  <2>1. 0 \in U
    <3>1. h[n] = f[n] /\ f[n] \in Seq(S) /\ n + 0 = n
      BY <1>1, <1>2, <1>5
    <3> QED
      BY <3>1, <1>3, ConcatEmptySeq
  <2>2. ASSUME NEW i \in Nat, i \in U PROVE i + 1 \in U
    <3> PICK j \in Nat : j = i + 1
      OBVIOUS
    <3> SUFFICES ASSUME j <= m PROVE h[n + j] = f[n] \o g[j]
      OBVIOUS
    <3>1. /\ j \in 1 .. m /\ i \in 0 .. m /\ n + j \in 1 .. n + m /\ n + j > n
          /\ (n + j) - 1 = n + i /\ (n + j) - n = j /\ j - 1 = i /\ n \in 0 .. n /\ i <= m
      BY <1>1
    <3>2. h[n + j] = h[n + i] \o b[j]
      <4> PICK x : x = n + j
        OBVIOUS
      <4>1. h[x] = h[x - 1] \o (a \o b)[x] /\ (a \o b)[x] = b[x - n]
        BY <3>1, <1>1, <1>4
      <4> QED
        BY <4>1, <3>1
    <3>3. g[j] = g[i] \o b[j] /\ g[i] \in Seq(S) /\ f[n] \in Seq(S) /\ b[j] \in Seq(S)
      BY <3>1, <1>2, <1>3, <1>0
    <3>4. h[n + i] = f[n] \o g[i]
      BY <2>2, <3>1
    <3>5. PICK u, v, w : u = f[n] /\ v = g[i] /\ w = b[j]
      OBVIOUS
    <3>6. u \in Seq(S) /\ v \in Seq(S) /\ w \in Seq(S)
      <4> HIDE DEF T, U
      <4> QED
        BY <3>3, <3>5
    <3>7. (u \o v) \o w = u \o (v \o w)
      <4> HIDE DEF T, U
      <4>1. ASSUME NEW p \in Seq(S), NEW q \in Seq(S), NEW r \in Seq(S)
            PROVE  (p \o q) \o r = p \o (q \o r)
        BY ConcatAssociative
      <4> QED
        BY <3>6, <4>1
    <3> QED
      BY <3>2, <3>3, <3>4, <3>5, <3>7
  <2> HIDE DEF U
  <2> QED
    BY <2>1, <2>2, Induction
<1>7. m \in U
  <2>1. m \in Nat
    BY <1>1
  <2> HIDE DEF U
  <2> QED
    BY <2>1, <1>6
<1>8. h[n + m] = f[n] \o g[m]
  <2>1. m \in Nat
    BY <1>1
  <2>2. m <= m
    BY <2>1
  <2> HIDE DEF T
  <2> QED
    BY <1>7, <2>2, Zenon
<1> QED
  BY <1>2, <1>3, <1>4, <1>8

\* A list of lists of which at most one has elements flattens to that one.
LEMMA FlattenOnly ==
  ASSUME NEW S, NEW lists \in Seq(Seq(S)), NEW i \in DOMAIN lists,
         \A j \in DOMAIN lists : j # i => lists[j] = <<>>
  PROVE  FlattenSeq(lists) = lists[i]
<1> DEFINE n == Len(lists)
<1>1. n \in Nat /\ DOMAIN lists = 1 .. n /\ \A j \in 1 .. n : lists[j] \in Seq(S)
  BY LenProperties
<1>2. PICK f : /\ f \in [0 .. n -> Seq(S)] /\ f[0] = <<>>
               /\ \A k \in 1 .. n : f[k] = f[k - 1] \o lists[k]
               /\ FlattenSeq(lists) = f[n]
  BY FlattenPrefixes
<1> HIDE DEF n
<1> PICK none : none = <<>>
  OBVIOUS
<1>6. i \in 1 .. n /\ \A j \in 1 .. n : j # i => lists[j] = none
  BY <1>1
<1> DEFINE T == {k \in Nat : k <= n => f[k] = IF k < i THEN none ELSE lists[i]}
<1>3. 0 \in T
  BY <1>1, <1>2
<1>4. ASSUME NEW k \in Nat, k \in T PROVE k + 1 \in T
  <2> SUFFICES ASSUME k + 1 <= n PROVE f[k + 1] = IF k + 1 < i THEN none ELSE lists[i]
    OBVIOUS
  <2>1. k + 1 \in 1 .. n /\ (k + 1) - 1 = k /\ k <= n /\ i \in Nat
    BY <1>1, <1>6
  <2>2. f[k + 1] = f[k] \o lists[k + 1] /\ lists[k + 1] \in Seq(S) /\ lists[i] \in Seq(S)
    BY <2>1, <1>1, <1>2
  <2>3. f[k] = IF k < i THEN none ELSE lists[i]
    BY <1>4, <2>1
  <2>4. PICK u, v : u = lists[i] /\ v = lists[k + 1]
    OBVIOUS
  <2>5. u \o none = u /\ none \o v = v
    BY <2>2, <2>4, ConcatEmptySeq
  <2>6. CASE k + 1 < i
    <3>1. v = none /\ f[k] = none
      BY <2>1, <2>3, <2>4, <2>6, <1>6
    <3> QED
      BY <2>2, <2>4, <2>5, <2>6, <3>1
  <2>7. CASE k + 1 = i
    <3>1. v = u /\ f[k] = none
      BY <2>1, <2>3, <2>4, <2>7
    <3> QED
      BY <2>2, <2>4, <2>5, <2>7, <3>1
  <2>8. CASE k + 1 > i
    <3>1. v = none /\ f[k] = u
      BY <2>1, <2>3, <2>4, <2>8, <1>6
    <3> QED
      BY <2>2, <2>4, <2>5, <2>8, <3>1
  <2> QED
    BY <2>1, <2>6, <2>7, <2>8
<1>5. \A k \in Nat : k \in T
  <2> HIDE DEF T
  <2> QED
    BY <1>3, <1>4, Induction
<1> QED
  BY <1>1, <1>2, <1>5, <1>6

-----------------------------------------------------------------------------
(* What is chosen of a sequence. *)

ChosenLists(s, S) == [i \in DOMAIN s |-> IF s[i] \in S THEN <<s[i]>> ELSE <<>>]

LEMMA ChosenListsType ==
  ASSUME NEW T, NEW s \in Seq(T), NEW S, NEW U, \A x \in T : x \in S => x \in U
  PROVE  /\ ChosenLists(s, S) \in Seq(Seq(U)) /\ DOMAIN ChosenLists(s, S) = DOMAIN s
         /\ Chosen(s, S) = FlattenSeq(ChosenLists(s, S))
         /\ \A i \in DOMAIN s : ChosenLists(s, S)[i] = IF s[i] \in S THEN <<s[i]>> ELSE <<>>
<1>1. Len(s) \in Nat /\ DOMAIN s = 1 .. Len(s) /\ \A i \in 1 .. Len(s) : s[i] \in T
  BY LenProperties
<1>2. ASSUME NEW i \in DOMAIN s PROVE (IF s[i] \in S THEN <<s[i]>> ELSE <<>>) \in Seq(U)
  <2>1. CASE s[i] \in S
    <3>1. s[i] \in U
      BY <1>1, <2>1
    <3>2. <<s[i]>> \in Seq(U)
      BY <3>1, SingleSeq
    <3> QED
      BY <2>1, <3>2
  <2>2. CASE s[i] \notin S
    <3>1. <<>> \in Seq(U)
      BY EmptySeq
    <3> QED
      BY <2>2, <3>1
  <2> QED
    BY <2>1, <2>2
<1>3. ChosenLists(s, S) \in [1 .. Len(s) -> Seq(U)]
  BY <1>1, <1>2 DEF ChosenLists
<1>4. ChosenLists(s, S) \in Seq(Seq(U))
  BY <1>1, <1>3, SeqDef
<1> QED
  BY <1>4 DEF ChosenLists, Chosen

LEMMA ChosenIn ==
  ASSUME NEW T, NEW s \in Seq(T), NEW S, NEW U, \A x \in T : x \in S => x \in U
  PROVE  Chosen(s, S) \in Seq(U)
<1> PICK lists : lists = ChosenLists(s, S)
  OBVIOUS
<1>1. lists \in Seq(Seq(U)) /\ Chosen(s, S) = FlattenSeq(lists)
  BY ChosenListsType
<1>2. FlattenSeq(lists) \in Seq(U)
  BY <1>1, FlattenSeqType
<1> QED
  BY <1>1, <1>2

LEMMA ChosenType ==
  ASSUME NEW T, NEW s \in Seq(T), NEW S
  PROVE  Chosen(s, S) \in Seq(T) /\ Chosen(s, S) \in Seq(S)
BY ChosenIn

\* Both sequences that a concatenation has, by places.
LEMMA SeqSum ==
  ASSUME NEW T, NEW a \in Seq(T), NEW b \in Seq(T), NEW c \in Seq(T),
         Len(c) = Len(a) + Len(b),
         \A x \in 1 .. Len(a) : c[x] = a[x],
         \A x \in 1 .. Len(b) : c[Len(a) + x] = b[x]
  PROVE  c = a \o b
<1> PICK n, m : n = Len(a) /\ m = Len(b)
  OBVIOUS
<1> PICK d : d = a \o b
  OBVIOUS
<1>1. n \in Nat /\ m \in Nat
  BY LenProperties
<1>2. /\ d \in Seq(T) /\ Len(d) = n + m
      /\ \A x \in 1 .. n : d[x] = a[x]
      /\ \A x \in 1 .. n + m : x > n => x - n \in 1 .. m /\ d[x] = b[x - n]
  BY ConcatIs
<1>3. \A x \in 1 .. n : c[x] = a[x]
  OBVIOUS
<1>4. \A x \in 1 .. m : c[n + x] = b[x]
  OBVIOUS
<1>5. ASSUME NEW x \in 1 .. n + m PROVE c[x] = d[x]
  <2>1. CASE x <= n
    <3>1. x \in 1 .. n
      BY <1>1, <2>1
    <3> QED
      BY <3>1, <1>2, <1>3
  <2>2. CASE x > n
    <3>1. x - n \in 1 .. m /\ d[x] = b[x - n]
      BY <1>2, <2>2
    <3>2. c[n + (x - n)] = b[x - n]
      BY <1>4, <3>1
    <3>3. n + (x - n) = x
      BY <1>1
    <3> QED
      BY <3>1, <3>2, <3>3
  <2> QED
    BY <1>1, <2>1, <2>2
<1>6. Len(c) = Len(d) /\ \A x \in 1 .. Len(c) : c[x] = d[x]
  BY <1>2, <1>5
<1>7. c = d
  BY <1>2, <1>6, SeqEqual
<1> QED
  BY <1>7

LEMMA ChosenConcat ==
  ASSUME NEW T, NEW s \in Seq(T), NEW t \in Seq(T), NEW S
  PROVE  s \o t \in Seq(T) /\ Chosen(s \o t, S) = Chosen(s, S) \o Chosen(t, S)
<1>a. PICK n, m : n = Len(s) /\ m = Len(t)
  OBVIOUS
<1>b. PICK both : both = s \o t
  OBVIOUS
<1>1. /\ both \in Seq(T) /\ Len(both) = n + m /\ n \in Nat /\ m \in Nat
      /\ DOMAIN s = 1 .. n /\ DOMAIN t = 1 .. m /\ DOMAIN both = 1 .. n + m
      /\ \A x \in 1 .. n : both[x] = s[x]
      /\ \A x \in 1 .. n + m : x > n => both[x] = t[x - n]
  <2>1. both \in Seq(T) /\ DOMAIN both = 1 .. Len(both)
    BY <1>b, ConcatProperties, LenProperties
  <2> QED
    BY <1>a, <1>b, <2>1, ConcatIs
<1>2. ASSUME NEW q \in Seq(T)
      PROVE  /\ ChosenLists(q, S) \in Seq(Seq(T)) /\ DOMAIN ChosenLists(q, S) = DOMAIN q
             /\ Chosen(q, S) = FlattenSeq(ChosenLists(q, S))
             /\ \A i \in DOMAIN q : ChosenLists(q, S)[i] = IF q[i] \in S THEN <<q[i]>> ELSE <<>>
  BY ChosenListsType
<1>c. PICK a, b, c : a = ChosenLists(s, S) /\ b = ChosenLists(t, S) /\ c = ChosenLists(both, S)
  OBVIOUS
<1>3. /\ a \in Seq(Seq(T)) /\ DOMAIN a = 1 .. n /\ Chosen(s, S) = FlattenSeq(a)
      /\ \A i \in 1 .. n : a[i] = IF s[i] \in S THEN <<s[i]>> ELSE <<>>
  BY <1>1, <1>2, <1>c
<1>4. /\ b \in Seq(Seq(T)) /\ DOMAIN b = 1 .. m /\ Chosen(t, S) = FlattenSeq(b)
      /\ \A i \in 1 .. m : b[i] = IF t[i] \in S THEN <<t[i]>> ELSE <<>>
  BY <1>1, <1>2, <1>c
<1>5. /\ c \in Seq(Seq(T)) /\ DOMAIN c = 1 .. n + m /\ Chosen(both, S) = FlattenSeq(c)
      /\ \A i \in 1 .. n + m : c[i] = IF both[i] \in S THEN <<both[i]>> ELSE <<>>
  BY <1>1, <1>2, <1>c
<1>6. Len(a) = n /\ Len(b) = m /\ Len(c) = n + m
  BY <1>1, <1>3, <1>4, <1>5, LenProperties
<1>7. ASSUME NEW x \in 1 .. n PROVE c[x] = a[x]
  <2>1. x \in 1 .. n + m
    BY <1>1
  <2> QED
    BY <2>1, <1>1, <1>3, <1>5
<1>8. ASSUME NEW x \in 1 .. m PROVE c[n + x] = b[x]
  <2> PICK y : y = n + x
    OBVIOUS
  <2>1. y \in 1 .. n + m /\ y > n /\ y - n = x
    BY <1>1
  <2>2. both[y] = t[x] /\ c[y] = IF both[y] \in S THEN <<both[y]>> ELSE <<>>
    BY <1>1, <1>5, <2>1
  <2> QED
    BY <1>4, <2>2
<1>9. c = a \o b
  <2>0. PICK V : V = Seq(T)
    OBVIOUS
  <2>1. a \in Seq(V) /\ b \in Seq(V) /\ c \in Seq(V)
    BY <1>3, <1>4, <1>5, <2>0
  <2>2. /\ Len(c) = Len(a) + Len(b) /\ \A x \in 1 .. Len(a) : c[x] = a[x]
        /\ \A x \in 1 .. Len(b) : c[Len(a) + x] = b[x]
    BY <1>6, <1>7, <1>8
  <2>3. ASSUME NEW p \in Seq(V), NEW q \in Seq(V), NEW r \in Seq(V), Len(r) = Len(p) + Len(q),
               \A x \in 1 .. Len(p) : r[x] = p[x], \A x \in 1 .. Len(q) : r[Len(p) + x] = q[x]
        PROVE  r = p \o q
    BY <2>3, SeqSum
  <2> QED
    BY <2>1, <2>2, <2>3
<1>10. FlattenSeq(a \o b) = FlattenSeq(a) \o FlattenSeq(b)
  BY <1>3, <1>4, FlattenConcat
<1> QED
  BY <1>b, <1>1, <1>3, <1>4, <1>5, <1>9, <1>10

LEMMA ChosenParts ==
  ASSUME NEW T, NEW S
  PROVE  \A p, q \in Seq(T) : Chosen(p \o q, S) = Chosen(p, S) \o Chosen(q, S)
BY ChosenConcat

LEMMA ChosenNone ==
  ASSUME NEW T, NEW s \in Seq(T), NEW S, \A i \in DOMAIN s : s[i] \notin S
  PROVE  Chosen(s, S) = <<>>
<1> PICK c : c = Chosen(s, S)
  OBVIOUS
<1>1. c \in Seq({})
  <2>1. s \in Seq(Range(s))
    BY LenProperties, SeqDef DEF Range
  <2>2. \A x \in Range(s) : x \in S => x \in {}
    BY DEF Range
  <2> QED
    BY <2>1, <2>2, ChosenIn
<1>2. Len(c) \in Nat /\ \A i \in 1 .. Len(c) : c[i] \in {}
  BY <1>1, LenProperties
<1>3. ~(1 \in 1 .. Len(c))
  BY <1>2
<1>4. Len(c) = 0
  BY <1>2, <1>3
<1> QED
  BY <1>1, <1>4, EmptySeq

LEMMA ChosenOne ==
  ASSUME NEW x, NEW S
  PROVE  Chosen(<<x>>, S) = IF x \in S THEN <<x>> ELSE <<>>
<1> PICK one : one = <<x>>
  OBVIOUS
<1>1. one \in Seq({x}) /\ DOMAIN one = {1} /\ one[1] = x
  BY SingleSeq
<1> PICK lists : lists = ChosenLists(one, S)
  OBVIOUS
<1>2. /\ lists \in Seq(Seq({x})) /\ DOMAIN lists = {1} /\ Chosen(one, S) = FlattenSeq(lists)
      /\ lists[1] = IF x \in S THEN one ELSE <<>>
  <2>1. \A y \in {x} : y \in S => y \in {x}
    OBVIOUS
  <2>2. /\ lists \in Seq(Seq({x})) /\ DOMAIN lists = DOMAIN one /\ Chosen(one, S) = FlattenSeq(lists)
        /\ \A i \in DOMAIN one : lists[i] = IF one[i] \in S THEN <<one[i]>> ELSE <<>>
    <3>1. PICK U : U = {x}
      OBVIOUS
    <3>2. one \in Seq(U) /\ \A y \in U : y \in S => y \in U
      BY <1>1, <3>1
    <3>3. /\ lists \in Seq(Seq(U)) /\ DOMAIN lists = DOMAIN one /\ Chosen(one, S) = FlattenSeq(lists)
          /\ \A i \in DOMAIN one : lists[i] = IF one[i] \in S THEN <<one[i]>> ELSE <<>>
      <4>1. ASSUME NEW q \in Seq(U)
            PROVE  /\ ChosenLists(q, S) \in Seq(Seq(U)) /\ DOMAIN ChosenLists(q, S) = DOMAIN q
                   /\ Chosen(q, S) = FlattenSeq(ChosenLists(q, S))
                   /\ \A i \in DOMAIN q : ChosenLists(q, S)[i] = IF q[i] \in S THEN <<q[i]>> ELSE <<>>
        BY <3>2, ChosenListsType
      <4> QED
        BY <3>2, <4>1
    <3> QED
      BY <3>1, <3>3
  <2> QED
    BY <1>1, <2>2
<1>3. FlattenSeq(lists) = lists[1]
  BY <1>2, FlattenOnly
<1> QED
  BY <1>2, <1>3

LEMMA ChosenAppended ==
  ASSUME NEW T, NEW s \in Seq(T), NEW x \in T, NEW S
  PROVE  Chosen(Append(s, x), S) = IF x \in S THEN Append(Chosen(s, S), x) ELSE Chosen(s, S)
<1> PICK one : one = <<x>>
  OBVIOUS
<1>1. one \in Seq(T) /\ Append(s, x) = s \o one
  <2>1. Append(s, x) = s \o <<x>>
    BY AppendIsConcat
  <2> QED
    BY <2>1, SingleSeq
<1>2. Chosen(s \o one, S) = Chosen(s, S) \o Chosen(one, S)
  <2>1. \A t \in Seq(T) : Chosen(s \o t, S) = Chosen(s, S) \o Chosen(t, S)
    BY ChosenConcat
  <2> QED
    BY <1>1, <2>1
<1> PICK c : c = Chosen(s, S)
  OBVIOUS
<1>3. c \in Seq(T)
  BY ChosenType
<1>4. c \o one = Append(c, x) /\ c \o <<>> = c
  <2>1. Append(c, x) = c \o <<x>>
    BY <1>3, AppendIsConcat
  <2> QED
    BY <1>3, <2>1, ConcatEmptySeq
<1> QED
  BY <1>1, <1>2, <1>4, ChosenOne

LEMMA ChosenSame ==
  ASSUME NEW s, NEW S, NEW R, \A i \in DOMAIN s : s[i] \in S <=> s[i] \in R
  PROVE  Chosen(s, S) = Chosen(s, R)
<1>1. [i \in DOMAIN s |-> IF s[i] \in S THEN <<s[i]>> ELSE <<>>]
        = [i \in DOMAIN s |-> IF s[i] \in R THEN <<s[i]>> ELSE <<>>]
  OBVIOUS
<1> QED
  BY <1>1, Zenon DEF Chosen

\* A sequence that is all of it chosen.
LEMMA ChosenAll ==
  ASSUME NEW T, NEW s \in Seq(T), NEW S, \A i \in DOMAIN s : s[i] \in S
  PROVE  Chosen(s, S) = s
<1> PICK lists : lists = ChosenLists(s, S)
  OBVIOUS
<1> PICK n : n = Len(s)
  OBVIOUS
<1>1. /\ n \in Nat /\ DOMAIN s = 1 .. n /\ \A i \in 1 .. n : s[i] \in T
      /\ lists \in Seq(Seq(T)) /\ Len(lists) = n /\ Chosen(s, S) = FlattenSeq(lists)
      /\ \A i \in 1 .. n : lists[i] = <<s[i]>>
  <2>1. n \in Nat /\ DOMAIN s = 1 .. n /\ \A i \in 1 .. n : s[i] \in T
    BY LenProperties
  <2>2. /\ lists \in Seq(Seq(T)) /\ DOMAIN lists = DOMAIN s /\ Chosen(s, S) = FlattenSeq(lists)
        /\ \A i \in DOMAIN s : lists[i] = IF s[i] \in S THEN <<s[i]>> ELSE <<>>
    BY ChosenListsType
  <2>3. Len(lists) = n
    BY <2>1, <2>2, LenProperties
  <2> QED
    BY <2>1, <2>2, <2>3
<1>2. PICK f : /\ f \in [0 .. Len(lists) -> Seq(T)] /\ f[0] = <<>>
               /\ \A k \in 1 .. Len(lists) : f[k] = f[k - 1] \o lists[k]
               /\ FlattenSeq(lists) = f[Len(lists)]
  BY <1>1, FlattenPrefixes
<1> DEFINE Begins(k) == f[k] \in Seq(T) /\ Len(f[k]) = k /\ \A x \in 1 .. k : f[k][x] = s[x]
           U == {k \in Nat : k <= n => Begins(k)}
<1>3. 0 \in U
  <2>1. Begins(0)
    BY <1>2, EmptySeq
  <2> QED
    BY <2>1
<1>4. ASSUME NEW k \in Nat, k \in U PROVE k + 1 \in U
  <2> PICK l : l = k + 1
    OBVIOUS
  <2> SUFFICES ASSUME l <= n PROVE Begins(l)
    OBVIOUS
  <2>1. l \in 1 .. n /\ l \in Nat /\ l - 1 = k /\ k <= n
    BY <1>1
  <2>2. PICK u, v : u = f[k] /\ v = <<s[l]>>
    OBVIOUS
  <2>3. f[l] = u \o v /\ u \in Seq(T) /\ Len(u) = k /\ \A x \in 1 .. k : u[x] = s[x]
    <3>1. f[l] = f[l - 1] \o lists[l] /\ lists[l] = <<s[l]>>
      BY <1>1, <1>2, <2>1
    <3>2. Begins(k)
      BY <1>4, <2>1
    <3> HIDE DEF U
    <3> QED
      BY <2>1, <2>2, <3>1, <3>2
  <2>4. v \in Seq(T) /\ Len(v) = 1 /\ v[1] = s[l]
    <3>1. s[l] \in T
      BY <1>1, <2>1
    <3> QED
      BY <2>2, <3>1
  <2> PICK w : w = u \o v
    OBVIOUS
  <2>5. /\ w \in Seq(T) /\ Len(w) = k + 1 /\ \A x \in 1 .. k : w[x] = u[x]
        /\ \A x \in 1 .. k + 1 : x > k => w[x] = v[x - k]
    <3> HIDE DEF U, Begins
    <3>1. /\ w \in Seq(T) /\ Len(w) = Len(u) + Len(v) /\ \A x \in 1 .. Len(u) : w[x] = u[x]
          /\ \A x \in 1 .. Len(u) + Len(v) : x > Len(u) => w[x] = v[x - Len(u)]
      BY <2>3, <2>4, ConcatIs
    <3> QED
      BY <2>3, <2>4, <3>1
  <2>6. \A x \in 1 .. l : w[x] = s[x]
    <3> SUFFICES ASSUME NEW x \in 1 .. l PROVE w[x] = s[x]
      OBVIOUS
    <3>1. CASE x \in 1 .. k
      BY <3>1, <2>3, <2>5
    <3>2. CASE x = l
      <4>1. x \in 1 .. k + 1 /\ x > k /\ x - k = 1
        BY <3>2
      <4>2. w[x] = v[x - k]
        BY <2>5, <4>1
      <4> QED
        BY <2>4, <3>2, <4>1, <4>2
    <3>3. x \in 1 .. k \/ x = l
      OBVIOUS
    <3> HIDE DEF U, Begins
    <3> QED
      BY <3>1, <3>2, <3>3
  <2> QED
    BY <2>3, <2>5, <2>6
<1>5. Begins(n)
  <2>1. n \in U
    <3> HIDE DEF U
    <3> QED
      BY <1>1, <1>3, <1>4, Induction
  <2>2. n <= n
    BY <1>1
  <2> HIDE DEF Begins
  <2> QED
    BY <2>1, <2>2, Zenon
<1>6. f[n] = s
  <2> PICK t : t = f[n]
    OBVIOUS
  <2>1. t \in Seq(T) /\ Len(t) = Len(s) /\ \A x \in 1 .. Len(t) : t[x] = s[x]
    BY <1>5
  <2> QED
    BY <2>1, SeqEqual
<1> QED
  BY <1>1, <1>2, <1>6

\* Of a list of sequences of which one alone has something to choose.
LEMMA ChosenFlat ==
  ASSUME NEW T, NEW lists \in Seq(Seq(T)), NEW i \in DOMAIN lists, NEW S,
         \A j \in DOMAIN lists : j # i => \A x \in DOMAIN lists[j] : lists[j][x] \notin S
  PROVE  FlattenSeq(lists) \in Seq(T) /\ Chosen(FlattenSeq(lists), S) = Chosen(lists[i], S)
<1>a. ASSUME NEW p \in Seq(T), NEW q \in Seq(T)
      PROVE  Chosen(p \o q, S) = Chosen(p, S) \o Chosen(q, S)
  BY <1>a, ChosenParts
<1> PICK n : n = Len(lists)
  OBVIOUS
<1> PICK none : none = <<>>
  OBVIOUS
<1> PICK c : c = Chosen(lists[i], S)
  OBVIOUS
<1>1. n \in Nat /\ DOMAIN lists = 1 .. n /\ \A j \in 1 .. n : lists[j] \in Seq(T)
  BY LenProperties
<1>2. PICK f : /\ f \in [0 .. Len(lists) -> Seq(T)] /\ f[0] = <<>>
               /\ \A k \in 1 .. Len(lists) : f[k] = f[k - 1] \o lists[k]
               /\ FlattenSeq(lists) = f[Len(lists)]
  BY FlattenPrefixes
<1> DEFINE Says(k) == Chosen(f[k], S) = IF k < i THEN none ELSE c
           U == {k \in Nat : k <= n => Says(k)}
<1>0. i \in 1 .. n /\ c \in Seq(T) /\ none \o c = c /\ c \o none = c /\ none \o none = none
  <2>1. i \in 1 .. n /\ lists[i] \in Seq(T)
    BY <1>1
  <2>2. c \in Seq(T)
    BY <2>1, ChosenType
  <2>3. none \in Seq(T)
    BY EmptySeq
  <2> QED
    BY <2>1, <2>2, <2>3, ConcatEmptySeq
<1>3. 0 \in U
  <2>1. <<>> \in Seq(T) /\ DOMAIN <<>> = {}
    BY EmptySeq
  <2>2. Chosen(<<>>, S) = none
    BY <2>1, ChosenNone
  <2>3. 0 < i
    BY <1>0, <1>1
  <2>4. Says(0)
    BY <1>2, <2>2, <2>3
  <2> QED
    BY <2>4
<1>4. ASSUME NEW k \in Nat, k \in U PROVE k + 1 \in U
  <2> PICK l : l = k + 1
    OBVIOUS
  <2> SUFFICES ASSUME l <= n PROVE Says(l)
    OBVIOUS
  <2>1. l \in 1 .. n /\ l \in Nat /\ l - 1 = k /\ k \in 0 .. n /\ k <= n /\ i \in Nat
    BY <1>0, <1>1
  <2>2. PICK u, v : u = f[k] /\ v = lists[l]
    OBVIOUS
  <2>3. Says(k)
    BY <1>4, <2>1
  <2> HIDE DEF U
  <2> HIDE DEF Says
  <2>4. f[l] = u \o v /\ u \in Seq(T) /\ v \in Seq(T)
    <3>1. f[l] = f[l - 1] \o lists[l] /\ f[k] \in Seq(T) /\ lists[l] \in Seq(T)
      BY <1>1, <1>2, <2>1
    <3>2. f[l] = f[k] \o lists[l]
      BY <2>1, <3>1
    <3> QED
      BY <2>2, <3>1, <3>2, Zenon
  <2>5. Chosen(f[l], S) = Chosen(u, S) \o Chosen(v, S)
    BY <2>4, <1>a, Zenon
  <2> USE DEF Says
  <2>6. l # i => Chosen(v, S) = none
    <3> SUFFICES ASSUME l # i PROVE Chosen(v, S) = none
      OBVIOUS
    <3>1. \A x \in DOMAIN v : v[x] \notin S
      BY <1>1, <2>1, <2>2
    <3> QED
      BY <2>4, <3>1, ChosenNone
  <2>7. l = i => Chosen(v, S) = c
    BY <2>2
  <2>8. Chosen(u, S) = IF k < i THEN none ELSE c
    BY <2>2, <2>3
  <2>9. CASE l < i
    <3>1. k < i /\ l # i
      BY <2>1, <2>9
    <3> QED
      BY <1>0, <2>5, <2>6, <2>8, <2>9, <3>1
  <2>10. CASE l = i
    <3>1. k < i /\ ~(l < i)
      BY <2>1, <2>10
    <3> QED
      BY <1>0, <2>5, <2>7, <2>8, <2>10, <3>1
  <2>11. CASE l > i
    <3>1. ~(k < i) /\ l # i /\ ~(l < i)
      BY <2>1, <2>11
    <3> QED
      BY <1>0, <2>5, <2>6, <2>8, <3>1
  <2> QED
    BY <2>1, <2>9, <2>10, <2>11
<1>5. Says(n)
  <2>1. n \in U
    <3> HIDE DEF U
    <3> QED
      BY <1>1, <1>3, <1>4, Induction
  <2>2. n <= n
    BY <1>1
  <2> HIDE DEF Says
  <2> QED
    BY <2>1, <2>2, Zenon
<1>6. ~(n < i)
  BY <1>0, <1>1
<1>7. FlattenSeq(lists) \in Seq(T)
  BY FlattenSeqType
<1> QED
  BY <1>2, <1>5, <1>6, <1>7

-----------------------------------------------------------------------------
(* Division, powers of two and the bits of a number. *)

Quotient(a, b) == a \div b

Remainder(a, b) == a % b

Composed(b, q, r) == b * q + r

Product(b, c) == b * c

LEMMA Division ==
  ASSUME NEW a \in Nat, NEW b \in Nat \ {0}
  PROVE  /\ Quotient(a, b) \in Nat /\ Remainder(a, b) \in Nat /\ Remainder(a, b) < b
         /\ a = Composed(b, Quotient(a, b), Remainder(a, b))
<1> PICK q, r : q = a \div b /\ r = a % b
  OBVIOUS
<1>1. q \in Int /\ r \in 0 .. b - 1
  OBVIOUS
<1>2. a = b * q + r
  BY SMTT(40)
<1>3. \A p \in Int : p < 0 => b * p <= -b
  OBVIOUS
<1>4. q \in Nat /\ r \in Nat /\ r < b
  BY <1>1, <1>2, <1>3
<1>5. q = Quotient(a, b) /\ r = Remainder(a, b)
  BY DEF Quotient, Remainder
<1>6. a = Composed(b, q, r)
  BY <1>2 DEF Composed
<1> QED
  BY <1>4, <1>5, <1>6

LEMMA DivisionIs ==
  ASSUME NEW b \in Nat \ {0}, NEW q \in Nat, NEW r \in Nat, r < b, NEW a, a = Composed(b, q, r)
  PROVE  Quotient(a, b) = q /\ Remainder(a, b) = r
BY DEF Quotient, Remainder, Composed

LEMMA ComposedTwice ==
  ASSUME NEW b \in Nat \ {0}, NEW c \in Nat \ {0}, NEW d, d = Product(b, c),
         NEW s \in Nat, NEW t \in Nat, t < c, NEW r \in Nat, r < b
  PROVE  /\ d \in Nat \ {0} /\ Composed(b, t, r) \in Nat /\ Composed(b, t, r) < d
         /\ Composed(b, Composed(c, s, t), r) = Composed(d, s, Composed(b, t, r))
<1> d = b * c
  BY DEF Product
<1>1. d \in Nat \ {0}
  OBVIOUS
<1>2. b * t \in Nat /\ b * t + b <= d
  <2>1. \A i, j, k \in Nat : i + 1 <= j => k * i + k <= k * j /\ k * i \in Nat
    OBVIOUS
  <2> QED
    BY <2>1
<1>3. \A i, j, k, l, m \in Nat : i * (j * k + l) + m = (i * j) * k + (i * l + m)
  OBVIOUS
<1>4. Composed(b, t, r) \in Nat /\ Composed(b, t, r) < d
  <2>1. \A i, j, k, l \in Nat : i + j <= k /\ l < j => i + l \in Nat /\ i + l < k
    OBVIOUS
  <2> QED
    BY <1>1, <1>2, <2>1 DEF Composed
<1>5. b * (c * s + t) + r = (b * c) * s + (b * t + r)
  BY <1>3
<1> QED
  BY <1>1, <1>4, <1>5 DEF Composed

LEMMA NestedParts ==
  ASSUME NEW b \in Nat \ {0}, NEW c \in Nat \ {0}, NEW d, d = Product(b, c),
         NEW s \in Nat, NEW t \in Nat, t < c, NEW r \in Nat, r < b,
         NEW a, a = Composed(b, Composed(c, s, t), r)
  PROVE  d \in Nat \ {0} /\ Quotient(a, d) = s /\ Remainder(a, d) = Composed(b, t, r)
<1>1. /\ d \in Nat \ {0} /\ Composed(b, t, r) \in Nat /\ Composed(b, t, r) < d
      /\ a = Composed(d, s, Composed(b, t, r))
  BY ComposedTwice
<1>2. PICK rest \in Nat : rest = Composed(b, t, r)
  BY <1>1
<1>3. rest < d /\ a = Composed(d, s, rest)
  BY <1>1, <1>2
<1>4. Quotient(a, d) = s /\ Remainder(a, d) = rest
  BY <1>1, <1>3, DivisionIs
<1> QED
  BY <1>1, <1>2, <1>4

\* Dividing twice is dividing by the product.
LEMMA NestedDivision ==
  ASSUME NEW a \in Nat, NEW b \in Nat \ {0}, NEW c \in Nat \ {0}, NEW d, d = Product(b, c)
  PROVE  /\ d \in Nat \ {0}
         /\ Quotient(a, d) = Quotient(Quotient(a, b), c)
         /\ Remainder(a, d) = Composed(b, Remainder(Quotient(a, b), c), Remainder(a, b))
<1>1. /\ Quotient(a, b) \in Nat /\ Remainder(a, b) \in Nat
      /\ Remainder(a, b) < b /\ a = Composed(b, Quotient(a, b), Remainder(a, b))
  BY Division
<1>2. PICK q \in Nat, r \in Nat : q = Quotient(a, b) /\ r = Remainder(a, b)
  BY <1>1
<1>3. r < b /\ a = Composed(b, q, r)
  BY <1>1, <1>2
<1>4. /\ Quotient(q, c) \in Nat /\ Remainder(q, c) \in Nat
      /\ Remainder(q, c) < c /\ q = Composed(c, Quotient(q, c), Remainder(q, c))
  BY Division
<1>5. PICK s \in Nat, t \in Nat : s = Quotient(q, c) /\ t = Remainder(q, c)
  BY <1>4
<1>6. t < c /\ q = Composed(c, s, t)
  BY <1>4, <1>5
<1>7. a = Composed(b, Composed(c, s, t), r)
  BY <1>3, <1>6
<1>8. d \in Nat \ {0} /\ Quotient(a, d) = s /\ Remainder(a, d) = Composed(b, t, r)
  BY <1>3, <1>6, <1>7, NestedParts
<1> QED
  BY <1>2, <1>5, <1>8

\* Each element more doubles the subsets.
LEMMA Doubling == \A n \in Nat : 2 ^ (n + 1) = 2 * 2 ^ n /\ 2 ^ n \in Nat \ {0}
<1>1. ASSUME NEW n \in Nat PROVE 2 ^ n \in Nat \ {0} /\ 2 ^ (n + 1) = 2 * 2 ^ n
  <2> DEFINE S == 1 .. n
             W == SUBSET S
             M == {A \cup {n + 1} : A \in W}
  <2>1. /\ IsFiniteSet(S) /\ Cardinality(S) = n
        /\ IsFiniteSet(1 .. n + 1) /\ Cardinality(1 .. n + 1) = n + 1
    BY FS_Interval
  <2>2. IsFiniteSet(W) /\ Cardinality(W) = 2 ^ n /\ Cardinality(SUBSET (1 .. n + 1)) = 2 ^ (n + 1)
    BY <2>1, FS_SUBSET
  <2>3. Cardinality(W) \in Nat
    BY <2>2, FS_CardinalityType
  <2>4. Cardinality(W) # 0
    <3>1. {} \in W
      OBVIOUS
    <3> QED
      BY <2>2, <3>1, FS_EmptySet
  <2>5. SUBSET (1 .. n + 1) = W \cup M
    <3>1. ASSUME NEW A \in SUBSET (1 .. n + 1) PROVE A \in W \cup M
      <4>1. CASE n + 1 \in A
        <5>1. A \ {n + 1} \in W /\ A = (A \ {n + 1}) \cup {n + 1}
          BY <4>1
        <5> QED
          BY <5>1
      <4>2. CASE n + 1 \notin A
        BY <4>2
      <4> QED
        BY <4>1, <4>2
    <3>2. ASSUME NEW A \in W PROVE A \subseteq 1 .. n + 1 /\ A \cup {n + 1} \subseteq 1 .. n + 1
      OBVIOUS
    <3>3. W \subseteq SUBSET (1 .. n + 1) /\ M \subseteq SUBSET (1 .. n + 1)
      BY <3>2
    <3> HIDE DEF W, M
    <3> QED
      BY <3>1, <3>3
  <2>6. W \cap M = {}
    OBVIOUS
  <2>7. IsFiniteSet(M) /\ Cardinality(M) = Cardinality(W)
    <3> DEFINE f == [A \in W |-> A \cup {n + 1}]
    <3>1. f \in Bijection(W, M)
      <4>1. f \in [W -> M]
        OBVIOUS
      <4>2. \A A, B \in W : f[A] = f[B] => A = B
        <5> SUFFICES ASSUME NEW A \in W, NEW B \in W, A \cup {n + 1} = B \cup {n + 1} PROVE A = B
          OBVIOUS
        <5>1. A = (A \cup {n + 1}) \ {n + 1} /\ B = (B \cup {n + 1}) \ {n + 1}
          OBVIOUS
        <5> QED
          BY <5>1
      <4>3. \A m \in M : \E A \in W : f[A] = m
        OBVIOUS
      <4> HIDE DEF f, W, M
      <4> QED
        BY <4>1, <4>2, <4>3, Fun_IsBij
    <3> HIDE DEF f, W, M
    <3> QED
      BY <2>2, <3>1, FS_Bijection DEF ExistsBijection
  <2> HIDE DEF W, M
  <2>8. Cardinality(W \cup M) = Cardinality(W) + Cardinality(M) - Cardinality(W \cap M)
    BY <2>2, <2>7, FS_Union
  <2>9. 2 ^ (n + 1) = 2 ^ n + 2 ^ n - Cardinality({})
    BY <2>2, <2>5, <2>6, <2>7, <2>8
  <2>10. 2 ^ n \in Nat \ {0} /\ Cardinality({}) = 0
    BY <2>2, <2>3, <2>4, FS_EmptySet
  <2> QED
    BY <2>9, <2>10
<1> QED
  BY <1>1

LEMMA PowerSum == \A m, n \in Nat : 2 ^ (m + n) = 2 ^ m * 2 ^ n
<1> SUFFICES ASSUME NEW m \in Nat PROVE \A n \in Nat : 2 ^ (m + n) = 2 ^ m * 2 ^ n
  OBVIOUS
<1> DEFINE T == {n \in Nat : 2 ^ (m + n) = 2 ^ m * 2 ^ n}
<1>1. 0 \in T
  <2>1. 2 ^ 0 = 1 /\ m + 0 = m /\ 2 ^ m \in Nat
    BY Doubling
  <2> QED
    BY <2>1
<1>2. ASSUME NEW n \in Nat, n \in T PROVE n + 1 \in T
  <2> PICK a, b, c : a = 2 ^ m /\ b = 2 ^ n /\ c = 2 ^ (m + n)
    OBVIOUS
  <2>1. m + n \in Nat /\ (m + n) + 1 = m + (n + 1)
    OBVIOUS
  <2>2. a \in Nat /\ b \in Nat /\ c = a * b /\ 2 ^ (n + 1) = 2 * b /\ 2 ^ (m + (n + 1)) = 2 * c
    BY <1>2, <2>1, Doubling
  <2>3. 2 * (a * b) = a * (2 * b)
    BY <2>2
  <2> QED
    BY <2>2, <2>3
<1> HIDE DEF T
<1>3. \A n \in Nat : n \in T
  BY <1>1, <1>2, Induction
<1> QED
  BY <1>3 DEF T

Scaled(part, c, rest) == part + c * rest

\* Numbers that each come from the one before.
Accumulates(f, n, c, w) ==
  f = [k \in 0 .. n |-> IF k = 0 THEN 0 ELSE Scaled(w[k], c, f[k - 1])]

LEMMA AccumulationExists ==
  ASSUME NEW n \in Nat, NEW c \in Int, NEW w \in [1 .. n -> Int]
  PROVE  \E f : Accumulates(f, n, c, w)
<1> DEFINE next(k) == [m \in Int |-> Scaled(w[k], c, m)]
           step    == [k \in 1 .. n |-> next(k)]
<1>1. ASSUME NEW k \in 1 .. n PROVE next(k) \in [Int -> Int] /\ \A m \in Int : next(k)[m] = Scaled(w[k], c, m)
  <2>1. w[k] \in Int
    OBVIOUS
  <2>2. \A m \in Int : Scaled(w[k], c, m) \in Int
    BY <2>1 DEF Scaled
  <2> QED
    BY <2>2
<1>2. \A k \in 1 .. n : step[k] = next(k)
  OBVIOUS
<1>3. step \in [1 .. n -> [Int -> Int]]
  <2> HIDE DEF next
  <2>1. \A k \in 1 .. n : next(k) \in [Int -> Int]
    BY <1>1
  <2> QED
    BY <2>1
<1> HIDE DEF next, step
<1>4. PICK f \in [0 .. n -> Int] : f[0] = 0 /\ \A k \in 1 .. n : f[k] = step[k][f[k - 1]]
  <2>0. PICK P : P = Int
    OBVIOUS
  <2>1. 0 \in P /\ step \in [1 .. n -> [P -> P]]
    BY <1>3, <2>0
  <2>2. \E f \in [0 .. n -> P] : f[0] = 0 /\ \A k \in 1 .. n : f[k] = step[k][f[k - 1]]
    BY <2>1, RecursionExists
  <2> QED
    BY <2>0, <2>2
<1>5. ASSUME NEW k \in 1 .. n PROVE f[k] = Scaled(w[k], c, f[k - 1])
  <2>1. k - 1 \in 0 .. n
    OBVIOUS
  <2>2. f[k - 1] \in Int
    BY <1>4, <2>1
  <2>3. f[k] = next(k)[f[k - 1]]
    BY <1>2, <1>4
  <2> QED
    BY <1>1, <2>2, <2>3
<1>6. f[0] = 0 /\ \A k \in 0 .. n : k # 0 => k \in 1 .. n
  BY <1>4
<1>7. f = [k \in 0 .. n |-> IF k = 0 THEN 0 ELSE Scaled(w[k], c, f[k - 1])]
  <2>1. f = [k \in 0 .. n |-> f[k]]
    BY <1>4
  <2> QED
    BY <1>5, <1>6, <2>1
<1> QED
  BY <1>7 DEF Accumulates

LEMMA AccumulationFacts ==
  ASSUME NEW n \in Nat, NEW c, NEW w, NEW g, Accumulates(g, n, c, w)
  PROVE  /\ DOMAIN g = 0 .. n /\ g = [k \in 0 .. n |-> g[k]] /\ g[0] = 0
         /\ \A k \in 1 .. n : g[k] = Scaled(w[k], c, g[k - 1])
<1>1. \A k \in 1 .. n : k \in 0 .. n /\ k # 0
  OBVIOUS
<1>2. 0 \in 0 .. n
  OBVIOUS
<1> QED
  BY <1>1, <1>2 DEF Accumulates

LEMMA AccumulationType ==
  ASSUME NEW n \in Nat, NEW c \in Int, NEW w \in [1 .. n -> Int], NEW g, Accumulates(g, n, c, w)
  PROVE  g \in [0 .. n -> Int]
<1> DEFINE T == {k \in Nat : k <= n => g[k] \in Int}
<1>0. /\ DOMAIN g = 0 .. n /\ g = [k \in 0 .. n |-> g[k]] /\ g[0] = 0
      /\ \A k \in 1 .. n : g[k] = Scaled(w[k], c, g[k - 1])
  BY AccumulationFacts
<1>1. 0 \in T
  BY <1>0
<1>2. ASSUME NEW k \in Nat, k \in T PROVE k + 1 \in T
  <2> SUFFICES ASSUME k + 1 <= n PROVE g[k + 1] \in Int
    OBVIOUS
  <2>1. k + 1 \in 1 .. n /\ (k + 1) - 1 = k /\ g[k] \in Int
    BY <1>2
  <2>2. g[k + 1] = Scaled(w[k + 1], c, g[k]) /\ w[k + 1] \in Int
    BY <1>0, <2>1
  <2> QED
    BY <2>1, <2>2 DEF Scaled
<1> HIDE DEF T
<1>3. \A k \in Nat : k \in T
  BY <1>1, <1>2, Induction
<1>4. \A k \in 0 .. n : g[k] \in Int
  BY <1>3 DEF T
<1> QED
  BY <1>0, <1>4

LEMMA NaturalAccumulation ==
  ASSUME NEW n \in Nat, NEW c \in Nat, NEW w \in [1 .. n -> Nat], NEW g, Accumulates(g, n, c, w)
  PROVE  g \in [0 .. n -> Nat]
<1> DEFINE T == {k \in Nat : k <= n => g[k] \in Nat}
<1>0. /\ DOMAIN g = 0 .. n /\ g = [k \in 0 .. n |-> g[k]] /\ g[0] = 0
      /\ \A k \in 1 .. n : g[k] = Scaled(w[k], c, g[k - 1])
  BY AccumulationFacts
<1>1. 0 \in T
  BY <1>0
<1>2. ASSUME NEW k \in Nat, k \in T PROVE k + 1 \in T
  <2> SUFFICES ASSUME k + 1 <= n PROVE g[k + 1] \in Nat
    OBVIOUS
  <2>1. k + 1 \in 1 .. n /\ (k + 1) - 1 = k /\ g[k] \in Nat
    BY <1>2
  <2>2. g[k + 1] = Scaled(w[k + 1], c, g[k]) /\ w[k + 1] \in Nat
    BY <1>0, <2>1
  <2>3. \A a, b, d \in Nat : Scaled(a, b, d) \in Nat
    BY DEF Scaled
  <2> QED
    BY <2>1, <2>2, <2>3
<1> HIDE DEF T
<1>3. \A k \in Nat : k \in T
  BY <1>1, <1>2, Induction
<1>4. \A k \in 0 .. n : g[k] \in Nat
  BY <1>3 DEF T
<1> QED
  BY <1>0, <1>4

\* What remains of a number without its lowest bits.
Shifted(a, n) == Quotient(a, 2 ^ n)

LEMMA HighBits ==
  \A a, m, n \in Nat : Shifted(a, n) \in Nat /\ Shifted(a, m + n) = Shifted(Shifted(a, m), n)
<1> SUFFICES ASSUME NEW a \in Nat, NEW m \in Nat, NEW n \in Nat
             PROVE  Shifted(a, n) \in Nat /\ Shifted(a, m + n) = Shifted(Shifted(a, m), n)
  OBVIOUS
<1>1. PICK p, q, r : p = 2 ^ m /\ q = 2 ^ n /\ r = 2 ^ (m + n)
  OBVIOUS
<1>2. p \in Nat \ {0} /\ q \in Nat \ {0} /\ r = Product(p, q)
  BY <1>1, Doubling, PowerSum DEF Product
<1>3. Quotient(a, r) = Quotient(Quotient(a, p), q)
  BY <1>2, NestedDivision
<1>4. Quotient(a, q) \in Nat
  BY <1>2, Division
<1> QED
  BY <1>1, <1>3, <1>4 DEF Shifted

\* The lowest bits of a number, one more at a time.
Lowest(a, n) == Remainder(a, 2 ^ n)

LEMMA LowestBits ==
  \A a, n \in Nat :
    /\ Lowest(a, 0) = 0
    /\ Lowest(a, n + 1) = Lowest(a, n) + (IF Shifted(a, n) % 2 = 1 THEN 2 ^ n ELSE 0)
<1> SUFFICES ASSUME NEW a \in Nat, NEW n \in Nat
             PROVE  /\ Lowest(a, 0) = 0
                    /\ Lowest(a, n + 1) = Lowest(a, n) + (IF Shifted(a, n) % 2 = 1 THEN 2 ^ n ELSE 0)
  OBVIOUS
<1>1. Lowest(a, 0) = 0
  <2>1. 2 ^ 0 = 1 /\ a % 1 = 0
    OBVIOUS
  <2> QED
    BY <2>1 DEF Lowest, Remainder
<1>2. PICK p, q, two : p = 2 ^ n /\ q = 2 ^ (n + 1) /\ two = 2
  OBVIOUS
<1>3. p \in Nat \ {0} /\ q = Product(p, two) /\ two \in Nat \ {0}
  BY <1>2, Doubling DEF Product
<1>4. Remainder(a, q) = p * Remainder(Quotient(a, p), two) + Remainder(a, p)
  BY <1>3, NestedDivision DEF Composed
<1>5. PICK s, b : s = Quotient(a, p) /\ b = Remainder(s, two)
  OBVIOUS
<1>6. s \in Nat /\ b = s % 2 /\ b \in {0, 1}
  <2>1. s \in Nat
    BY <1>3, <1>5, Division
  <2>2. b = s % 2
    BY <1>2, <1>5 DEF Remainder
  <2> QED
    BY <2>1, <2>2
<1>7. p * b = IF b = 1 THEN p ELSE 0
  BY <1>3, <1>6
<1>8. Remainder(a, q) = Remainder(a, p) + (IF b = 1 THEN p ELSE 0)
  <2>1. Remainder(a, p) \in Nat
    BY <1>3, Division
  <2> QED
    BY <1>3, <1>4, <1>5, <1>7, <2>1
<1>9. Shifted(a, n) = s
  BY <1>2, <1>5 DEF Shifted
<1>10. Lowest(a, n) = Remainder(a, p) /\ Lowest(a, n + 1) = Remainder(a, q) /\ p = 2 ^ n
  BY <1>2 DEF Lowest
<1>11. b = 1 <=> Shifted(a, n) % 2 = 1
  BY <1>6, <1>9
<1> QED
  BY <1>1, <1>8, <1>10, <1>11
=============================================================================
