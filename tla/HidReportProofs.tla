--------------------------- MODULE HidReportProofs ---------------------------
(***************************************************************************)
(* Proofs about what HidReportMap builds, for every Report Map and all     *)
(* limits of the parser: fields tile their reports, decoding never reads   *)
(* outside a complete payload, and every field and collection has the      *)
(* globals and the collection in force where its item stands.              *)
(***************************************************************************)
EXTENDS HidReportDecoder, SequenceLemmas, FiniteSetTheorems

-----------------------------------------------------------------------------
(* The inductive invariant. *)

\* A sequence of whatever elements: those of a field or of a state of the globals
\* that do not matter here need no type.
IsSequence(s) == s \in Seq({s[i] : i \in DOMAIN s})

\* Report size, count and ID and the usage page are raw values of items, and so
\* not negative.
SizedGlobals(g) ==
  /\ g = [t \in GlobalTags |-> g[t]]
  /\ g["REPORT_SIZE"] \in Nat /\ g["REPORT_COUNT"] \in Nat /\ g["REPORT_ID"] \in Nat
  /\ g["USAGE_PAGE"] \in Nat

ItemsTyped == descriptor \in Seq(Item) /\ offset \in 0 .. Len(descriptor)

GlobalsSized ==
  /\ SizedGlobals(global)
  /\ IsSequence(global_stack) /\ \A i \in DOMAIN global_stack : SizedGlobals(global_stack[i])

Sized(fields) ==
  /\ IsSequence(fields)
  /\ \A f \in DOMAIN fields : fields[f].bit_offset \in Nat /\ SizedGlobals(fields[f].global)

\* The k-th field of a report, where it begins and where it ends.
FieldOf(report, fields, k) == fields[report.field_ids[k] + 1]
Begins(report, fields, k) == FieldOf(report, fields, k).bit_offset
Ends(report, fields, k) == Begins(report, fields, k) + FieldBits(FieldOf(report, fields, k))

\* What ReportsAreTiled says of a report, and that no field sticks out: the sum
\* of what comes after a field is not available to an inductive proof.
Tiled(report, fields) ==
  /\ report.field_ids # <<>>
  /\ \A k \in DOMAIN report.field_ids :
       /\ report.field_ids[k] + 1 \in DOMAIN fields
       /\ FieldOf(report, fields, k).kind = report.kind
       /\ FieldOf(report, fields, k).global["REPORT_ID"] = report.report_id
       /\ Begins(report, fields, k) = IF k = 1 THEN 0 ELSE Ends(report, fields, k - 1)
       /\ k > 1 => report.field_ids[k - 1] < report.field_ids[k]
       /\ Ends(report, fields, k) <= report.bit_size
  /\ report.bit_size = Ends(report, fields, Len(report.field_ids))
  /\ report.bit_size <= MaxReportBits

AllTiled == \A r \in DOMAIN reports_ : Tiled(reports_[r], fields_)

ReportsDiffer ==
  \A q, r \in DOMAIN reports_ :
    reports_[q].kind = reports_[r].kind /\ reports_[q].report_id = reports_[r].report_id => q = r

FieldsListed ==
  \A f \in DOMAIN fields_ :
    /\ fields_[f].id = f - 1
    /\ \E r \in DOMAIN reports_ : \E k \in DOMAIN reports_[r].field_ids :
         reports_[r].field_ids[k] = f - 1

MapInv ==
  /\ ItemsTyped /\ GlobalsSized
  /\ reports_ \in Seq(Report) /\ Sized(fields_)
  /\ AllTiled /\ ReportsDiffer /\ FieldsListed

-----------------------------------------------------------------------------
(* Sequences. *)

LEMMA SequenceOfItself ==
  ASSUME NEW S, NEW s \in Seq(S)
  PROVE  IsSequence(s)
<1>1. Len(s) \in Nat /\ s \in [1 .. Len(s) -> S] /\ DOMAIN s = 1 .. Len(s)
  BY LenProperties
<1>2. s \in [1 .. Len(s) -> {s[i] : i \in DOMAIN s}]
  BY <1>1
<1> QED
  BY <1>1, <1>2, SeqDef DEF IsSequence

LEMMA SequenceFacts ==
  ASSUME NEW s, IsSequence(s)
  PROVE  Len(s) \in Nat /\ DOMAIN s = 1 .. Len(s)
BY LenProperties DEF IsSequence

LEMMA SequenceAppend ==
  ASSUME NEW s, IsSequence(s), NEW e
  PROVE  /\ IsSequence(Append(s, e)) /\ Len(Append(s, e)) = Len(s) + 1
         /\ DOMAIN Append(s, e) = 1 .. Len(s) + 1
         /\ \A i \in DOMAIN s : Append(s, e)[i] = s[i]
         /\ Append(s, e)[Len(s) + 1] = e
<1> DEFINE S == {s[i] : i \in DOMAIN s} \cup {e}
<1>1. s \in Seq(S) /\ e \in S
  BY SeqMonotonic DEF IsSequence
<1> HIDE DEF S
<1>2. Append(s, e) \in Seq(S)
  BY <1>1, AppendProperties
<1>3. IsSequence(Append(s, e))
  BY <1>2, SequenceOfItself
<1> QED
  BY <1>1, <1>3, AppendProperties, LenProperties

LEMMA AppendToFunction ==
  ASSUME NEW n \in Nat, NEW s, s = [k \in 1 .. n |-> s[k]], NEW e
  PROVE  Append(s, e) = [k \in 1 .. n + 1 |-> IF k = n + 1 THEN e ELSE s[k]]
<1> DEFINE S == {s[k] : k \in 1 .. n} \cup {e}
<1>1. s \in [1 .. n -> S]
  OBVIOUS
<1>2. s \in Seq(S) /\ e \in S
  BY <1>1, SeqDef
<1> HIDE DEF S
<1>3. Len(s) = n
  BY <1>1, <1>2, LenProperties
<1>4. /\ Append(s, e) \in Seq(S) /\ Len(Append(s, e)) = n + 1 /\ Append(s, e)[n + 1] = e
      /\ \A k \in 1 .. n : Append(s, e)[k] = s[k]
  BY <1>2, <1>3, AppendProperties
<1>5. Append(s, e) \in [1 .. n + 1 -> S]
  BY <1>4, LenProperties
<1>6. \A k \in 1 .. n + 1 : Append(s, e)[k] = IF k = n + 1 THEN e ELSE s[k]
  <2>1. \A k \in 1 .. n + 1 : k = n + 1 \/ k \in 1 .. n
    OBVIOUS
  <2> QED
    BY <2>1, <1>4
<1> QED
  BY <1>5, <1>6

LEMMA SequencePop ==
  ASSUME NEW s, IsSequence(s), s # <<>>
  PROVE  /\ Len(s) \in DOMAIN s /\ Last(s) = s[Len(s)]
         /\ IsSequence(Front(s)) /\ Len(Front(s)) = Len(s) - 1
         /\ DOMAIN Front(s) \subseteq DOMAIN s
         /\ \A i \in DOMAIN Front(s) : Front(s)[i] = s[i]
<1> DEFINE S == {s[i] : i \in DOMAIN s}
<1>1. s \in Seq(S) /\ Len(s) \in Nat /\ DOMAIN s = 1 .. Len(s)
  BY LenProperties DEF IsSequence
<1> HIDE DEF S
<1>2. Len(s) >= 1
  BY <1>1, EmptySeq
<1>3. /\ Front(s) \in Seq(S) /\ Len(Front(s)) = Len(s) - 1
      /\ \A i \in 1 .. Len(s) - 1 : Front(s)[i] = s[i]
  <2>1. Len(s) - 1 \in Int /\ \A i \in 1 .. Len(s) - 1 : s[i] \in S
    BY <1>1
  <2> QED
    BY <1>1, <1>2, <2>1, SubSeqProperties DEF Front
<1>4. DOMAIN Front(s) = 1 .. Len(s) - 1
  BY <1>1, <1>3, LenProperties
<1>5. IsSequence(Front(s))
  BY <1>3, SequenceOfItself
<1>6. Last(s) = s[Len(s)]
  BY DEF Last
<1> QED
  BY <1>1, <1>2, <1>3, <1>4, <1>5, <1>6

-----------------------------------------------------------------------------
(* A report, when a field is added to the map. *)

LEMMA FieldBitsType ==
  ASSUME NEW f, SizedGlobals(f.global)
  PROVE  FieldBits(f) \in Nat
<1>1. \A m, n \in Nat : m * n \in Nat
  OBVIOUS
<1> QED
  BY <1>1 DEF FieldBits, SizedGlobals

LEMMA EndsType ==
  ASSUME NEW report, NEW fields, Sized(fields), NEW k, report.field_ids[k] + 1 \in DOMAIN fields
  PROVE  Begins(report, fields, k) \in Nat /\ Ends(report, fields, k) \in Nat
<1> DEFINE field == FieldOf(report, fields, k)
<1>1. field.bit_offset \in Nat /\ SizedGlobals(field.global)
  BY DEF Sized, FieldOf
<1>2. FieldBits(field) \in Nat
  BY <1>1, FieldBitsType
<1> QED
  BY <1>1, <1>2 DEF Begins, Ends

\* Other reports do not notice.
LEMMA TiledKept ==
  ASSUME NEW report \in Report, NEW fields, NEW longer, Tiled(report, fields),
         DOMAIN fields \subseteq DOMAIN longer,
         \A f \in DOMAIN fields : longer[f] = fields[f]
  PROVE  Tiled(report, longer)
<1>1. report.field_ids \in Seq(Nat) /\ report.field_ids # <<>>
  BY DEF Report, Tiled
<1>2. /\ Len(report.field_ids) \in Nat /\ Len(report.field_ids) >= 1
      /\ DOMAIN report.field_ids = 1 .. Len(report.field_ids)
  BY <1>1, EmptySeq, LenProperties
<1>3. \A k \in DOMAIN report.field_ids :
        /\ FieldOf(report, longer, k) = FieldOf(report, fields, k)
        /\ Begins(report, longer, k) = Begins(report, fields, k)
        /\ Ends(report, longer, k) = Ends(report, fields, k)
  BY DEF Tiled, FieldOf, Begins, Ends
<1>4. ASSUME NEW k \in DOMAIN report.field_ids
      PROVE  /\ report.field_ids[k] + 1 \in DOMAIN longer
             /\ FieldOf(report, longer, k).kind = report.kind
             /\ FieldOf(report, longer, k).global["REPORT_ID"] = report.report_id
             /\ Begins(report, longer, k) = IF k = 1 THEN 0 ELSE Ends(report, longer, k - 1)
             /\ k > 1 => report.field_ids[k - 1] < report.field_ids[k]
             /\ Ends(report, longer, k) <= report.bit_size
  <2>1. /\ report.field_ids[k] + 1 \in DOMAIN fields
        /\ FieldOf(report, fields, k).kind = report.kind
        /\ FieldOf(report, fields, k).global["REPORT_ID"] = report.report_id
        /\ Begins(report, fields, k) = IF k = 1 THEN 0 ELSE Ends(report, fields, k - 1)
        /\ k > 1 => report.field_ids[k - 1] < report.field_ids[k]
        /\ Ends(report, fields, k) <= report.bit_size
    BY DEF Tiled
  <2>2. k # 1 => k - 1 \in DOMAIN report.field_ids
    BY <1>2
  <2> QED
    BY <2>1, <2>2, <1>3
<1>5. report.bit_size = Ends(report, longer, Len(report.field_ids)) /\ report.bit_size <= MaxReportBits
  BY <1>2, <1>3 DEF Tiled
<1> QED
  BY <1>1, <1>4, <1>5 DEF Tiled

\* The report of the new field has it at its end.
LEMMA TiledGrown ==
  ASSUME NEW report \in Report, NEW fields, Sized(fields), Tiled(report, fields), NEW new,
         new.kind = report.kind, new.global["REPORT_ID"] = report.report_id,
         new.bit_offset = report.bit_size, FieldBits(new) \in Nat,
         report.bit_size + FieldBits(new) <= MaxReportBits
  PROVE  Tiled([report EXCEPT !.bit_size = @ + FieldBits(new),
                              !.field_ids = Append(@, Len(fields))],
               Append(fields, new))
<1> DEFINE n      == Len(fields)
           m      == Len(report.field_ids)
           longer == Append(fields, new)
           grown  == [report EXCEPT !.bit_size = @ + FieldBits(new),
                                    !.field_ids = Append(@, Len(fields))]
<1>1. /\ n \in Nat /\ DOMAIN fields = 1 .. n /\ DOMAIN longer = 1 .. n + 1
      /\ \A f \in 1 .. n : longer[f] = fields[f]
      /\ longer[n + 1] = new
  BY SequenceFacts, SequenceAppend DEF Sized
<1>2. /\ report.field_ids \in Seq(Nat) /\ report.field_ids # <<>>
      /\ report.bit_size \in Nat
  BY DEF Report, Tiled
<1>3. m \in Nat /\ m >= 1 /\ DOMAIN report.field_ids = 1 .. m
  BY <1>2, EmptySeq, LenProperties
<1>4. /\ grown.kind = report.kind /\ grown.report_id = report.report_id
      /\ grown.bit_size = report.bit_size + FieldBits(new)
      /\ grown.field_ids = Append(report.field_ids, n)
  BY DEF Report
<1>5. /\ DOMAIN grown.field_ids = 1 .. m + 1 /\ Len(grown.field_ids) = m + 1
      /\ \A k \in 1 .. m : grown.field_ids[k] = report.field_ids[k]
      /\ grown.field_ids[m + 1] = n
      /\ grown.field_ids # <<>>
  <2>1. grown.field_ids \in Seq(Nat) /\ Len(grown.field_ids) = m + 1
    BY <1>1, <1>2, <1>4, AppendProperties
  <2>2. DOMAIN grown.field_ids = 1 .. m + 1
    BY <2>1, LenProperties
  <2>3. grown.field_ids # <<>>
    BY <2>1, <1>3, EmptySeq
  <2> QED
    BY <2>1, <2>2, <2>3, <1>1, <1>2, <1>3, <1>4, AppendProperties
<1> HIDE DEF longer, grown
<1>6. \A k \in 1 .. m :
        /\ report.field_ids[k] + 1 \in 1 .. n
        /\ FieldOf(report, fields, k).kind = report.kind
        /\ FieldOf(report, fields, k).global["REPORT_ID"] = report.report_id
        /\ Begins(report, fields, k) = IF k = 1 THEN 0 ELSE Ends(report, fields, k - 1)
        /\ k > 1 => report.field_ids[k - 1] < report.field_ids[k]
        /\ Ends(report, fields, k) <= report.bit_size
        /\ Ends(report, fields, k) \in Nat
  BY <1>1, <1>3, EndsType DEF Tiled
<1>7. \A k \in 1 .. m :
        /\ FieldOf(grown, longer, k) = FieldOf(report, fields, k)
        /\ Begins(grown, longer, k) = Begins(report, fields, k)
        /\ Ends(grown, longer, k) = Ends(report, fields, k)
  BY <1>1, <1>5, <1>6 DEF FieldOf, Begins, Ends
<1>8. /\ FieldOf(grown, longer, m + 1) = new
      /\ Begins(grown, longer, m + 1) = report.bit_size
      /\ Ends(grown, longer, m + 1) = report.bit_size + FieldBits(new)
  BY <1>1, <1>5 DEF FieldOf, Begins, Ends
<1>9. report.bit_size = Ends(report, fields, m)
  BY DEF Tiled
<1>10. ASSUME NEW k \in 1 .. m
       PROVE  /\ grown.field_ids[k] + 1 \in DOMAIN longer
              /\ FieldOf(grown, longer, k).kind = grown.kind
              /\ FieldOf(grown, longer, k).global["REPORT_ID"] = grown.report_id
              /\ Begins(grown, longer, k) = IF k = 1 THEN 0 ELSE Ends(grown, longer, k - 1)
              /\ k > 1 => grown.field_ids[k - 1] < grown.field_ids[k]
              /\ Ends(grown, longer, k) <= grown.bit_size
  <2>1. k # 1 => k - 1 \in 1 .. m
    BY <1>3
  <2>2. grown.field_ids[k] + 1 \in DOMAIN longer
    <3>1. report.field_ids[k] + 1 \in 1 .. n /\ grown.field_ids[k] = report.field_ids[k]
      BY <1>5, <1>6
    <3>2. 1 .. n \subseteq 1 .. n + 1
      BY <1>1
    <3> QED
      BY <3>1, <3>2, <1>1
  <2>3. Ends(grown, longer, k) <= grown.bit_size
    BY <1>2, <1>4, <1>6, <1>7
  <2>4. Begins(grown, longer, k) = IF k = 1 THEN 0 ELSE Ends(grown, longer, k - 1)
    BY <2>1, <1>6, <1>7
  <2>5. k > 1 => grown.field_ids[k - 1] < grown.field_ids[k]
    <3>1. k > 1 => k # 1
      OBVIOUS
    <3>2. k # 1 => /\ grown.field_ids[k - 1] = report.field_ids[k - 1]
                   /\ grown.field_ids[k] = report.field_ids[k]
      BY <2>1, <1>5
    <3> QED
      BY <3>1, <3>2, <1>6
  <2> QED
    BY <2>2, <2>3, <2>4, <2>5, <1>4, <1>6, <1>7
<1>11. /\ grown.field_ids[m + 1] + 1 \in DOMAIN longer
       /\ FieldOf(grown, longer, m + 1).kind = grown.kind
       /\ FieldOf(grown, longer, m + 1).global["REPORT_ID"] = grown.report_id
       /\ Begins(grown, longer, m + 1) = Ends(grown, longer, m)
       /\ grown.field_ids[m] < grown.field_ids[m + 1]
       /\ Ends(grown, longer, m + 1) <= grown.bit_size
  <2>1. m \in 1 .. m
    BY <1>3
  <2>2. grown.field_ids[m] < grown.field_ids[m + 1]
    <3>1. report.field_ids[m] \in Nat
      BY <1>2, <1>3, <2>1, ElementOfSeq
    <3>2. report.field_ids[m] + 1 \in 1 .. n
      BY <2>1, <1>6
    <3>3. report.field_ids[m] < n
      BY <3>1, <3>2, <1>1
    <3> QED
      BY <2>1, <3>3, <1>5
  <2>3. Begins(grown, longer, m + 1) = Ends(grown, longer, m)
    BY <2>1, <1>7, <1>8, <1>9
  <2>4. Ends(grown, longer, m + 1) <= grown.bit_size
    BY <1>2, <1>4, <1>8
  <2>5. grown.field_ids[m + 1] + 1 \in DOMAIN longer
    BY <1>1, <1>5
  <2> QED
    BY <2>2, <2>3, <2>4, <2>5, <1>4, <1>8
<1>12. \A k \in 1 .. m + 1 : k \in 1 .. m \/ k = m + 1
  BY <1>3
<1>13. ASSUME NEW k \in DOMAIN grown.field_ids
       PROVE  /\ grown.field_ids[k] + 1 \in DOMAIN longer
              /\ FieldOf(grown, longer, k).kind = grown.kind
              /\ FieldOf(grown, longer, k).global["REPORT_ID"] = grown.report_id
              /\ Begins(grown, longer, k) = IF k = 1 THEN 0 ELSE Ends(grown, longer, k - 1)
              /\ k > 1 => grown.field_ids[k - 1] < grown.field_ids[k]
              /\ Ends(grown, longer, k) <= grown.bit_size
  <2>1. CASE k \in 1 .. m
    BY <2>1, <1>10
  <2>2. CASE k = m + 1
    <3>1. k # 1 /\ k - 1 = m
      BY <2>2, <1>3
    <3> QED
      BY <2>2, <3>1, <1>11
  <2> QED
    BY <2>1, <2>2, <1>5, <1>12
<1>14. grown.bit_size = Ends(grown, longer, Len(grown.field_ids)) /\ grown.bit_size <= MaxReportBits
  BY <1>4, <1>5, <1>8
<1> QED
  BY <1>5, <1>13, <1>14 DEF Tiled, grown, longer

-----------------------------------------------------------------------------
(* The parser. *)

LEMMA LimitFacts == MaxReportBits \in Nat
BY ReportMapAssumption

LEMMA ReadItem ==
  ASSUME ItemsTyped, Reading
  PROVE  NextItem \in Item
<1>1. offset + 1 \in 1 .. Len(descriptor)
  BY LenProperties DEF ItemsTyped, Reading
<1> QED
  BY <1>1, ElementOfSeq DEF ItemsTyped, NextItem

LEMMA ReadsKeepsItems ==
  ASSUME ItemsTyped, NEW tags, Reads(tags)
  PROVE  ItemsTyped'
BY LenProperties DEF ItemsTyped, Reads, Reading

LEMMA SetGlobalSized ==
  ASSUME SizedGlobals(global), NextItem \in Item, NextItem.tag \in GlobalTags
  PROVE  SizedGlobals([global EXCEPT ![NextItem.tag] = GlobalValue(NextItem, global)])
<1> DEFINE after == [global EXCEPT ![NextItem.tag] = GlobalValue(NextItem, global)]
<1>1. NextItem.raw \in Nat
  BY DEF Item
<1>2. NextItem.tag \in {"REPORT_SIZE", "REPORT_COUNT", "REPORT_ID", "USAGE_PAGE"} =>
        GlobalValue(NextItem, global) = NextItem.raw
  BY DEF GlobalValue
<1>3. after = [t \in GlobalTags |-> after[t]]
  BY DEF SizedGlobals
<1>4. ASSUME NEW t \in {"REPORT_SIZE", "REPORT_COUNT", "REPORT_ID", "USAGE_PAGE"}
      PROVE  after[t] \in Nat
  <2>1. t \in GlobalTags /\ global[t] \in Nat
    BY DEF GlobalTags, SizedGlobals
  <2>2. CASE t = NextItem.tag
    BY <1>1, <1>2, <2>1, <2>2 DEF SizedGlobals
  <2>3. CASE t # NextItem.tag
    BY <2>1, <2>3 DEF SizedGlobals
  <2> QED
    BY <2>2, <2>3
<1> HIDE DEF after
<1>5. /\ after["REPORT_SIZE"] \in Nat /\ after["REPORT_COUNT"] \in Nat
      /\ after["REPORT_ID"] \in Nat /\ after["USAGE_PAGE"] \in Nat
  BY <1>4
<1> QED
  BY <1>3, <1>5 DEF SizedGlobals, after

\* Items that add no field.
LEMMA MapKept ==
  ASSUME MapInv, ItemsTyped', GlobalsSized', UNCHANGED <<reports_, fields_>>
  PROVE  MapInv'
BY DEF MapInv, AllTiled, ReportsDiffer, FieldsListed

LEMMA SetGlobalKeeps ==
  ASSUME MapInv, SetGlobal
  PROVE  MapInv'
<1>1. /\ Reads(GlobalTags) /\ Reading /\ NextItem.tag \in GlobalTags
      /\ global' = [global EXCEPT ![NextItem.tag] = GlobalValue(NextItem, global)]
      /\ UNCHANGED <<global_stack, reports_, fields_>>
  BY DEF SetGlobal, Reads, stackVars
<1>2. ItemsTyped'
  BY <1>1, ReadsKeepsItems DEF MapInv
<1>3. SizedGlobals(global')
  BY <1>1, ReadItem, SetGlobalSized DEF MapInv, GlobalsSized
<1>4. GlobalsSized'
  BY <1>1, <1>3 DEF MapInv, GlobalsSized
<1> QED
  BY <1>1, <1>2, <1>4, MapKept

LEMMA PushGlobalKeeps ==
  ASSUME MapInv, PushGlobal
  PROVE  MapInv'
<1>1. /\ Reads({"PUSH"}) /\ global_stack' = Append(global_stack, global)
      /\ UNCHANGED <<global, reports_, fields_>>
  BY DEF PushGlobal, mapVars
<1>2. ItemsTyped'
  BY <1>1, ReadsKeepsItems DEF MapInv
<1>3. /\ SizedGlobals(global) /\ IsSequence(global_stack)
      /\ \A i \in DOMAIN global_stack : SizedGlobals(global_stack[i])
  BY DEF MapInv, GlobalsSized
<1>4. /\ Len(global_stack) \in Nat /\ DOMAIN global_stack = 1 .. Len(global_stack)
      /\ IsSequence(global_stack') /\ DOMAIN global_stack' = 1 .. Len(global_stack) + 1
      /\ \A i \in DOMAIN global_stack : global_stack'[i] = global_stack[i]
      /\ global_stack'[Len(global_stack) + 1] = global
  BY <1>1, <1>3, SequenceFacts, SequenceAppend
<1>5. \A i \in DOMAIN global_stack' : i \in DOMAIN global_stack \/ i = Len(global_stack) + 1
  BY <1>4
<1>6. \A i \in DOMAIN global_stack' : SizedGlobals(global_stack'[i])
  BY <1>3, <1>4, <1>5
<1>7. GlobalsSized'
  BY <1>1, <1>3, <1>4, <1>6 DEF GlobalsSized
<1> QED
  BY <1>1, <1>2, <1>7, MapKept

LEMMA PopGlobalKeeps ==
  ASSUME MapInv, PopGlobal
  PROVE  MapInv'
<1>1. /\ Reads({"POP"}) /\ global_stack # <<>>
      /\ global' = Last(global_stack) /\ global_stack' = Front(global_stack)
      /\ UNCHANGED <<reports_, fields_>>
  BY DEF PopGlobal, Reads, Refused, mapVars
<1>2. ItemsTyped'
  BY <1>1, ReadsKeepsItems DEF MapInv
<1>3. /\ IsSequence(global_stack)
      /\ \A i \in DOMAIN global_stack : SizedGlobals(global_stack[i])
  BY DEF MapInv, GlobalsSized
<1>4. /\ Len(global_stack) \in DOMAIN global_stack
      /\ global' = global_stack[Len(global_stack)]
      /\ IsSequence(global_stack') /\ DOMAIN global_stack' \subseteq DOMAIN global_stack
      /\ \A i \in DOMAIN global_stack' : global_stack'[i] = global_stack[i]
  BY <1>1, <1>3, SequencePop
<1>5. GlobalsSized'
  BY <1>3, <1>4 DEF GlobalsSized
<1> QED
  BY <1>1, <1>2, <1>5, MapKept

\* Usages, bounds, indices, delimiters, collections and skipped items.
OtherItem ==
  \/ AddUsage \/ SetUsageBound \/ AddIndex \/ SetBound \/ Delimit
  \/ BeginCollection \/ EndCollection \/ SkipItem

LEMMA OtherItemKeeps ==
  ASSUME MapInv, OtherItem
  PROVE  MapInv'
<1>1. /\ \E tags : Reads(tags)
      /\ UNCHANGED <<global, global_stack, reports_, fields_>>
  BY DEF OtherItem, AddUsage, SetUsageBound, AddIndex, SetBound, Delimit, BeginCollection,
         EndCollection, SkipItem, stackVars, mapVars
<1>2. ItemsTyped'
  BY <1>1, ReadsKeepsItems DEF MapInv
<1>3. GlobalsSized'
  BY <1>1 DEF MapInv, GlobalsSized
<1> QED
  BY <1>1, <1>2, <1>3, MapKept

\* A refused item and the end of the descriptor.
LEMMA StopKeeps ==
  ASSUME MapInv, Fail \/ Finish
  PROVE  MapInv'
<1>1. UNCHANGED <<descriptor, offset, global, global_stack, reports_, fields_>>
  BY DEF Fail, Finish, stackVars, mapVars
<1>2. ItemsTyped' /\ GlobalsSized'
  BY <1>1 DEF MapInv, ItemsTyped, GlobalsSized
<1> QED
  BY <1>1, <1>2, MapKept

LEMMA AddFieldKeeps ==
  ASSUME MapInv, AddField
  PROVE  MapInv'
<1> DEFINE kind == NextItem.tag
           id   == global["REPORT_ID"]
           size == global["REPORT_SIZE"]
           count == global["REPORT_COUNT"]
           bits == size * count
           of   == ReportOf(kind, id)
           n    == Len(fields_)
           new  == [id |-> n, kind |-> kind, collection_id |-> Innermost,
                    bit_offset |-> BitOffset(kind), flags |-> NextItem.raw % 2 ^ 9,
                    global |-> global, local |-> local]
<1>1. /\ Reads(DataTags) /\ kind \in DataTags /\ Reading
      /\ ~FieldRefused(NextItem)
      /\ fields_' = Append(fields_, new) /\ reports_' = AddToReport(kind, bits)
      /\ UNCHANGED <<global, global_stack>>
  BY DEF AddField, Reads, Refused, stackVars
<1>2. ItemsTyped' /\ GlobalsSized' /\ SizedGlobals(global)
  BY <1>1, ReadsKeepsItems DEF MapInv, GlobalsSized
<1>3. /\ reports_ \in Seq(Report) /\ Sized(fields_)
      /\ AllTiled /\ ReportsDiffer /\ FieldsListed
  BY DEF MapInv
<1>4. size \in Nat /\ count \in Nat /\ id \in Nat /\ bits \in Nat
  <2>1. \A a, b \in Nat : a * b \in Nat
    OBVIOUS
  <2>2. size \in Nat /\ count \in Nat /\ id \in Nat
    BY <1>2 DEF SizedGlobals
  <2> QED
    BY <2>1, <2>2
<1>5. /\ new.id = n /\ new.kind = kind /\ new.bit_offset = BitOffset(kind)
      /\ new.global = global /\ FieldBits(new) = bits
  BY DEF FieldBits
<1>6. ~(bits > MaxReportBits) /\ \A r \in of : ~(reports_[r].bit_size + bits > MaxReportBits)
  BY <1>1 DEF FieldRefused
<1>7. \A r \in DOMAIN reports_ :
        /\ r \in of <=> reports_[r].kind = kind /\ reports_[r].report_id = id
        /\ reports_[r] \in Report
        /\ reports_[r].bit_size \in Nat /\ reports_[r].field_ids \in Seq(Nat)
  <2>1. \A r \in DOMAIN reports_ : reports_[r] \in Report
    BY <1>3, ElementOfSeq, LenProperties
  <2>2. \A r \in DOMAIN reports_ : reports_[r].bit_size \in Nat /\ reports_[r].field_ids \in Seq(Nat)
    BY <2>1 DEF Report
  <2> QED
    BY <2>1, <2>2 DEF ReportOf
<1>8. of \subseteq DOMAIN reports_ /\ \A q, r \in of : q = r
  BY <1>3, <1>7 DEF ReportOf, ReportsDiffer
<1>9. reports_' = IF of = {}
                  THEN Append(reports_, [kind |-> kind, report_id |-> id,
                                         bit_size |-> bits, field_ids |-> <<n>>])
                  ELSE [i \in DOMAIN reports_ |->
                          IF i \notin of THEN reports_[i]
                          ELSE [reports_[i] EXCEPT !.bit_size = @ + bits,
                                                   !.field_ids = Append(@, n)]]
  BY <1>1 DEF AddToReport
<1>10. BitOffset(kind) = IF of = {} THEN 0 ELSE reports_[CHOOSE i \in of : TRUE].bit_size
  BY DEF BitOffset
<1>11. BitOffset(kind) \in Nat
  BY <1>7, <1>8, <1>10
<1> HIDE DEF new, of, bits, size, count, id, kind
<1>12. /\ n \in Nat /\ DOMAIN fields_ = 1 .. n /\ DOMAIN fields_' = 1 .. n + 1
       /\ IsSequence(fields_')
       /\ \A f \in 1 .. n : fields_'[f] = fields_[f]
       /\ fields_'[n + 1] = new
  BY <1>1, <1>3, SequenceFacts, SequenceAppend DEF Sized
<1>13. \A f \in 1 .. n + 1 : f \in 1 .. n \/ f = n + 1
  BY <1>12
<1>14. 1 .. n \subseteq 1 .. n + 1
  BY <1>12
<1>15. Sized(fields_')
  <2>1. \A f \in 1 .. n : fields_'[f].bit_offset \in Nat /\ SizedGlobals(fields_'[f].global)
    BY <1>3, <1>12 DEF Sized
  <2>2. fields_'[n + 1].bit_offset \in Nat /\ SizedGlobals(fields_'[n + 1].global)
    BY <1>2, <1>5, <1>11, <1>12
  <2> QED
    BY <2>1, <2>2, <1>12, <1>13 DEF Sized
<1>16. \A r \in DOMAIN reports_ : Tiled(reports_[r], fields_')
  BY <1>3, <1>7, <1>12, <1>14, TiledKept DEF AllTiled
<1>17. \A f \in 1 .. n : fields_'[f].id = f - 1
  BY <1>3, <1>12 DEF FieldsListed
<1>18. fields_'[n + 1].id = (n + 1) - 1
  BY <1>5, <1>12
<1>19. CASE of = {}
  <2> DEFINE first == [kind |-> kind, report_id |-> id, bit_size |-> bits, field_ids |-> <<n>>]
             m     == Len(reports_)
  <2>1. first \in Report
    BY <1>1, <1>4, <1>12 DEF Report
  <2>2. /\ first.field_ids = <<n>> /\ DOMAIN first.field_ids = {1} /\ Len(first.field_ids) = 1
        /\ first.field_ids[1] = n /\ first.field_ids # <<>>
        /\ first.kind = kind /\ first.report_id = id /\ first.bit_size = bits
    OBVIOUS
  <2>3. reports_' = Append(reports_, first)
    BY <1>9, <1>19
  <2> HIDE DEF first
  <2>4. /\ reports_' \in Seq(Report) /\ m \in Nat
        /\ DOMAIN reports_ = 1 .. m /\ DOMAIN reports_' = 1 .. m + 1
        /\ \A r \in 1 .. m : reports_'[r] = reports_[r]
        /\ reports_'[m + 1] = first
    <3>1. reports_' \in Seq(Report) /\ Len(reports_') = m + 1
      BY <2>1, <2>3, <1>3, AppendProperties
    <3> QED
      BY <3>1, <2>1, <2>3, <1>3, AppendProperties, LenProperties
  <2>5. \A r \in 1 .. m + 1 : r \in 1 .. m \/ r = m + 1
    BY <2>4
  <2>6. new.bit_offset = 0
    BY <1>5, <1>10, <1>19
  <2>7. /\ FieldOf(first, fields_', 1) = new
        /\ Begins(first, fields_', 1) = 0 /\ Ends(first, fields_', 1) = bits
    BY <2>2, <2>6, <1>4, <1>5, <1>12 DEF FieldOf, Begins, Ends
  <2>8. Tiled(first, fields_')
    <3>1. first.field_ids[1] + 1 \in DOMAIN fields_'
      BY <2>2, <1>12
    <3>2. bits <= bits /\ bits <= MaxReportBits
      BY <1>4, <1>6, LimitFacts
    <3>3. /\ FieldOf(first, fields_', 1).kind = first.kind
          /\ FieldOf(first, fields_', 1).global["REPORT_ID"] = first.report_id
          /\ Ends(first, fields_', 1) <= first.bit_size
          /\ first.bit_size = Ends(first, fields_', Len(first.field_ids))
          /\ first.bit_size <= MaxReportBits
      BY <3>2, <2>2, <2>7, <1>5 DEF id
    <3>4. ASSUME NEW k \in DOMAIN first.field_ids
          PROVE  /\ first.field_ids[k] + 1 \in DOMAIN fields_'
                 /\ FieldOf(first, fields_', k).kind = first.kind
                 /\ FieldOf(first, fields_', k).global["REPORT_ID"] = first.report_id
                 /\ Begins(first, fields_', k) = IF k = 1 THEN 0 ELSE Ends(first, fields_', k - 1)
                 /\ k > 1 => first.field_ids[k - 1] < first.field_ids[k]
                 /\ Ends(first, fields_', k) <= first.bit_size
      <4>1. k = 1
        BY <2>2
      <4>2. Begins(first, fields_', 1) = IF 1 = 1 THEN 0 ELSE Ends(first, fields_', 1 - 1)
        BY <2>7
      <4> QED
        BY <4>1, <4>2, <3>1, <3>3
    <3> QED
      BY <3>3, <3>4, <2>2 DEF Tiled
  <2>9. AllTiled'
    BY <2>4, <2>5, <2>8, <1>16 DEF AllTiled
  <2>10. \A r \in 1 .. m : ~(reports_[r].kind = kind /\ reports_[r].report_id = id)
    BY <2>4, <1>7, <1>19
  <2>11. ReportsDiffer'
    BY <2>2, <2>4, <2>5, <2>10, <1>3 DEF ReportsDiffer
  <2>12. FieldsListed'
    <3>1. \A f \in 1 .. n : \E r \in DOMAIN reports_' : \E k \in DOMAIN reports_'[r].field_ids :
            reports_'[r].field_ids[k] = f - 1
      <4>1. DOMAIN reports_ \subseteq DOMAIN reports_'
        BY <2>4
      <4>2. \A r \in DOMAIN reports_ : reports_'[r] = reports_[r]
        BY <2>4
      <4> QED
        BY <4>1, <4>2, <1>3, <1>12 DEF FieldsListed
    <3>2. \E r \in DOMAIN reports_' : \E k \in DOMAIN reports_'[r].field_ids :
            reports_'[r].field_ids[k] = (n + 1) - 1
      <4>1. m + 1 \in DOMAIN reports_' /\ 1 \in DOMAIN reports_'[m + 1].field_ids
        BY <2>2, <2>4
      <4>2. reports_'[m + 1].field_ids[1] = (n + 1) - 1
        BY <2>2, <2>4, <1>12
      <4> QED
        BY <4>1, <4>2
    <3> QED
      BY <3>1, <3>2, <1>12, <1>13, <1>17, <1>18 DEF FieldsListed
  <2> QED
    BY <2>4, <2>9, <2>11, <2>12, <1>2, <1>15 DEF MapInv
<1>20. CASE of # {}
  <2>1. PICK q \in of : TRUE
    BY <1>20
  <2>2. of = {q} /\ q \in DOMAIN reports_ /\ reports_[q].kind = kind /\ reports_[q].report_id = id
    BY <2>1, <1>7, <1>8
  <2> DEFINE grown == [reports_[q] EXCEPT !.bit_size = @ + bits, !.field_ids = Append(@, n)]
  <2>3. /\ DOMAIN reports_' = DOMAIN reports_
        /\ \A r \in DOMAIN reports_ : r # q => reports_'[r] = reports_[r]
        /\ reports_'[q] = grown
    BY <2>2, <1>9
  <2>4. /\ reports_[q] \in Report /\ reports_[q].bit_size \in Nat
        /\ reports_[q].field_ids \in Seq(Nat)
    BY <2>2, <1>7
  <2>5. Append(reports_[q].field_ids, n) \in Seq(Nat) /\ reports_[q].bit_size + bits \in Nat
    BY <2>4, <1>4, <1>12, AppendProperties
  <2>6. /\ grown \in Report /\ grown.kind = kind /\ grown.report_id = id
        /\ grown.field_ids = Append(reports_[q].field_ids, n)
    BY <2>2, <2>4, <2>5 DEF Report
  <2>7. new.bit_offset = reports_[q].bit_size
    BY <2>2, <1>5, <1>10
  <2>8. Tiled(grown, fields_')
    <3>1. reports_[q].bit_size + bits <= MaxReportBits
      BY <2>2, <2>4, <1>4, <1>6, LimitFacts
    <3>2. Tiled(reports_[q], fields_)
      BY <2>2, <1>3 DEF AllTiled
    <3>3. new.kind = reports_[q].kind /\ new.global["REPORT_ID"] = reports_[q].report_id
      BY <2>2, <1>5 DEF id
    <3>4. FieldBits(new) = bits
      BY <1>5
    <3> QED
      BY <3>1, <3>2, <3>3, <3>4, <2>4, <2>7, <1>1, <1>3, <1>4, TiledGrown
  <2> HIDE DEF grown
  <2>9. reports_' \in Seq(Report)
    <3>1. Len(reports_) \in Nat /\ reports_ \in [1 .. Len(reports_) -> Report]
          /\ DOMAIN reports_ = 1 .. Len(reports_)
      BY <1>3, LenProperties
    <3>2. reports_' = [r \in 1 .. Len(reports_) |-> reports_'[r]]
      BY <3>1, <2>2, <1>9
    <3>3. \A r \in 1 .. Len(reports_) : reports_'[r] \in Report
      BY <3>1, <2>3, <2>6
    <3>4. reports_' \in [1 .. Len(reports_) -> Report]
      BY <3>2, <3>3
    <3> QED
      BY <3>1, <3>4, SeqDef
  <2>10. AllTiled'
    BY <2>3, <2>8, <1>16 DEF AllTiled
  <2>11. ReportsDiffer'
    BY <2>2, <2>3, <2>6, <1>3 DEF ReportsDiffer
  <2>12. FieldsListed'
    <3>1. /\ \A k \in DOMAIN reports_[q].field_ids :
               k \in DOMAIN grown.field_ids /\ grown.field_ids[k] = reports_[q].field_ids[k]
          /\ Len(reports_[q].field_ids) + 1 \in DOMAIN grown.field_ids
          /\ grown.field_ids[Len(reports_[q].field_ids) + 1] = n
      <4>1. /\ Len(reports_[q].field_ids) \in Nat
            /\ DOMAIN reports_[q].field_ids = 1 .. Len(reports_[q].field_ids)
        BY <2>4, LenProperties
      <4>2. DOMAIN grown.field_ids = 1 .. Len(reports_[q].field_ids) + 1
        BY <2>4, <2>5, <2>6, <1>12, AppendProperties, LenProperties
      <4> QED
        BY <4>1, <4>2, <2>4, <2>6, <1>12, AppendProperties
    <3>2. \A f \in 1 .. n : \E r \in DOMAIN reports_' : \E k \in DOMAIN reports_'[r].field_ids :
            reports_'[r].field_ids[k] = f - 1
      <4> SUFFICES ASSUME NEW f \in 1 .. n
                   PROVE  \E r \in DOMAIN reports_' : \E k \in DOMAIN reports_'[r].field_ids :
                            reports_'[r].field_ids[k] = f - 1
        OBVIOUS
      <4>1. PICK r \in DOMAIN reports_ : \E k \in DOMAIN reports_[r].field_ids :
              reports_[r].field_ids[k] = f - 1
        BY <1>3, <1>12 DEF FieldsListed
      <4>2. PICK k \in DOMAIN reports_[r].field_ids : reports_[r].field_ids[k] = f - 1
        BY <4>1
      <4>3. r \in DOMAIN reports_' /\ k \in DOMAIN reports_'[r].field_ids
        BY <4>1, <4>2, <3>1, <2>3
      <4>4. reports_'[r].field_ids[k] = f - 1
        BY <4>2, <3>1, <2>3
      <4> QED
        BY <4>3, <4>4
    <3>3. \E r \in DOMAIN reports_' : \E k \in DOMAIN reports_'[r].field_ids :
            reports_'[r].field_ids[k] = (n + 1) - 1
      <4>1. n = (n + 1) - 1
        BY <1>12
      <4> QED
        BY <4>1, <3>1, <2>2, <2>3
    <3> QED
      BY <3>2, <3>3, <1>12, <1>13, <1>17, <1>18 DEF FieldsListed
  <2> QED
    BY <2>9, <2>10, <2>11, <2>12, <1>2, <1>15 DEF MapInv
<1> QED
  BY <1>19, <1>20

LEMMA MapInit == DecoderInit => MapInv
<1> SUFFICES ASSUME DecoderInit PROVE MapInv
  OBVIOUS
<1>1. /\ descriptor \in Descriptors /\ offset = 0 /\ global = NoGlobals /\ global_stack = <<>>
      /\ reports_ = <<>> /\ fields_ = <<>>
  BY DEF DecoderInit, Init
<1>2. ItemsTyped
  <2>1. descriptor \in Seq(Item)
    BY <1>1, ReportMapAssumption
  <2> QED
    BY <2>1, <1>1, LenProperties DEF ItemsTyped
<1>3. IsSequence(<<>>) /\ DOMAIN <<>> = {}
  <2>1. <<>> \in Seq({}) /\ DOMAIN <<>> = {}
    BY EmptySeq
  <2> QED
    BY <2>1, SequenceOfItself
<1>4. SizedGlobals(global)
  BY <1>1 DEF NoGlobals, SizedGlobals, GlobalTags
<1>5. GlobalsSized /\ Sized(fields_)
  BY <1>1, <1>3, <1>4 DEF GlobalsSized, Sized
<1>6. reports_ \in Seq(Report)
  BY <1>1, EmptySeq
<1>7. AllTiled /\ ReportsDiffer /\ FieldsListed
  BY <1>1, <1>3 DEF AllTiled, ReportsDiffer, FieldsListed
<1> QED
  BY <1>2, <1>5, <1>6, <1>7 DEF MapInv

LEMMA MapStep ==
  ASSUME MapInv, [DecoderNext]_allVars
  PROVE  MapInv'
<1>1. CASE Next
  BY <1>1, SetGlobalKeeps, PushGlobalKeeps, PopGlobalKeeps, OtherItemKeeps, AddFieldKeeps,
     StopKeeps DEF Next, OtherItem
<1>2. CASE UNCHANGED vars
  <2>1. UNCHANGED <<descriptor, offset, global, global_stack, reports_, fields_>>
    BY <1>2 DEF vars, inputVars, stackVars, mapVars
  <2>2. ItemsTyped' /\ GlobalsSized'
    BY <2>1 DEF MapInv, ItemsTyped, GlobalsSized
  <2> QED
    BY <2>1, <2>2, MapKept
<1>3. Next \/ UNCHANGED vars
  BY DEF DecoderNext, ProcessInputReport, allVars
<1> QED
  BY <1>1, <1>2, <1>3

LEMMA MapInvariant == DecoderSpec => []MapInv
<1>1. MapInv /\ [DecoderNext]_allVars => MapInv'
  BY MapStep
<1> QED
  BY MapInit, <1>1, PTL DEF DecoderSpec

\* The fields of every report lie side by side from its first bit to its last, each
\* in the one report of its kind and ID, within the size limit: the run's property,
\* for every Report Map and whatever the limits of the parser.
THEOREM ReportsTiled == DecoderSpec => []ReportsAreTiled
<1>1. MapInv => ReportsAreTiled
  <2> SUFFICES ASSUME MapInv PROVE ReportsAreTiled
    OBVIOUS
  <2>1. \A r \in DOMAIN reports_ : Tiled(reports_[r], fields_)
    BY DEF MapInv, AllTiled
  <2> QED
    BY <2>1 DEF MapInv, ReportsDiffer, FieldsListed, ReportsAreTiled, Tiled, FieldOf, Begins, Ends
<1> QED
  BY <1>1, MapInvariant, PTL

\* Where parse_input_ reads: the bits of every element of the report's fields.
ElementsInPayload ==
  \A r \in DOMAIN reports_, n \in Notifications :
    Len(n.payload) >= ByteSize(reports_[r]) =>
      \A k \in DOMAIN reports_[r].field_ids :
        LET field == FieldsOf(reports_[r])[k]
        IN  \A e \in Elements(field) :
              ElementOffset(field, e) + field.global["REPORT_SIZE"] <= 8 * Len(n.payload)

\* Decoding a report whose payload has the length its Report Map asks for, as
\* MapStatus requires of it, never reads a bit past the payload's end.
THEOREM ReadsStayInside == DecoderSpec => []ElementsInPayload
<1>1. MapInv => ElementsInPayload
  <2> SUFFICES ASSUME MapInv,
                      NEW r \in DOMAIN reports_, NEW n \in Notifications,
                      Len(n.payload) >= ByteSize(reports_[r]),
                      NEW k \in DOMAIN reports_[r].field_ids,
                      NEW e \in Elements(FieldsOf(reports_[r])[k])
               PROVE  ElementOffset(FieldsOf(reports_[r])[k], e)
                        + FieldsOf(reports_[r])[k].global["REPORT_SIZE"] <= 8 * Len(n.payload)
    BY DEF ElementsInPayload
  <2> DEFINE report == reports_[r]
             field  == FieldOf(report, fields_, k)
             size   == field.global["REPORT_SIZE"]
             count  == field.global["REPORT_COUNT"]
  <2>1. FieldsOf(report)[k] = field
    BY DEF FieldsOf, FieldOf
  <2>2. report \in Report /\ Tiled(report, fields_) /\ Sized(fields_)
    BY ElementOfSeq, LenProperties DEF MapInv, AllTiled
  <2>3. /\ field.bit_offset \in Nat /\ SizedGlobals(field.global)
        /\ field.bit_offset + size * count <= report.bit_size
    <3>1. report.field_ids[k] + 1 \in DOMAIN fields_ /\ Ends(report, fields_, k) <= report.bit_size
      BY <2>2 DEF Tiled
    <3> QED
      BY <3>1, <2>2 DEF Sized, FieldOf, Ends, Begins, FieldBits
  <2>4. size \in Nat /\ count \in Nat /\ report.bit_size \in Nat
    BY <2>2, <2>3 DEF SizedGlobals, Report
  <2>5. e \in 0 .. count - 1
    BY <2>1 DEF Elements
  <2>6. Len(n.payload) \in Nat
    <3>1. n.payload \in Seq(0 .. 255)
      BY DecoderAssumption DEF Notification
    <3> QED
      BY <3>1, LenProperties
  <2>7. report.bit_size <= 8 * Len(n.payload)
    <3>1. Len(n.payload) >= (report.bit_size + 7) \div 8
      BY DEF ByteSize
    <3>2. \A b, l \in Nat : l >= (b + 7) \div 8 => b <= 8 * l
      OBVIOUS
    <3> QED
      BY <3>1, <3>2, <2>4, <2>6
  <2>8. e * size + size <= size * count
    <3>1. \A i, s, c \in Nat : i <= c - 1 => i * s + s <= s * c
      OBVIOUS
    <3>2. e \in Nat /\ e <= count - 1
      BY <2>4, <2>5
    <3> HIDE DEF size, count
    <3> QED
      BY <3>1, <3>2, <2>4
  <2> HIDE DEF size, count, field, report
  <2>9. e * size \in Nat /\ size * count \in Nat
    <3>1. \A a, b \in Nat : a * b \in Nat
      OBVIOUS
    <3>2. e \in Nat
      BY <2>4, <2>5
    <3> QED
      BY <3>1, <3>2, <2>4
  <2>10. (field.bit_offset + e * size) + size <= 8 * Len(n.payload)
    BY <2>3, <2>4, <2>6, <2>7, <2>8, <2>9
  <2> QED
    BY <2>1, <2>10 DEF ElementOffset, size, report
<1> QED
  BY <1>1, MapInvariant, PTL

-----------------------------------------------------------------------------
(* Types of the values that items give. *)

LEMMA DecodeSignedType ==
  ASSUME NEW raw \in Nat, NEW size \in {0, 1, 2, 4}
  PROVE  DecodeSigned(raw, size) \in Int
<1>1. 8 * 1 - 1 = 7 /\ 8 * 1 = 8 /\ 8 * 2 - 1 = 15 /\ 8 * 2 = 16 /\ 8 * 4 - 1 = 31 /\ 8 * 4 = 32
  OBVIOUS
<1>2. 2 ^ 7 \in Int /\ 2 ^ 8 \in Int
  OBVIOUS
<1>3. 2 ^ 15 \in Int /\ 2 ^ 16 \in Int
  OBVIOUS
<1>4. 2 ^ 31 \in Int /\ 2 ^ 32 \in Int
  OBVIOUS
<1>5. CASE size = 0
  BY <1>5 DEF DecodeSigned
<1>6. CASE size = 1
  BY <1>1, <1>2, <1>6 DEF DecodeSigned
<1>7. CASE size = 2
  BY <1>1, <1>3, <1>7 DEF DecodeSigned
<1>8. CASE size = 4
  BY <1>1, <1>4, <1>8 DEF DecodeSigned
<1> QED
  BY <1>5, <1>6, <1>7, <1>8

LEMMA DecodeUsageType ==
  ASSUME NEW item, item.raw \in Nat, NEW page \in Nat
  PROVE  DecodeUsage(item, page) \in Usages
<1>1. 2 ^ 16 \in Nat /\ 2 ^ 16 > 0
  OBVIOUS
<1>2. \A a, b \in Nat : b > 0 => a % b \in Nat /\ a \div b \in Nat
  OBVIOUS
<1> QED
  BY <1>1, <1>2 DEF DecodeUsage, Usages, Usage

LEMMA GlobalValueType ==
  ASSUME NEW item \in Item, item.tag = "LONG" \/ item.size \in {0, 1, 2, 4},
         item.tag \in GlobalTags, NEW g
  PROVE  GlobalValue(item, g) \in Int
<1>1. item.raw \in Nat /\ item.size \in {0, 1, 2, 4}
  BY DEF Item, GlobalTags
<1>2. DecodeSigned(item.raw, item.size) \in Int
  BY <1>1, DecodeSignedType
<1>3. UnitExponent(item.raw) \in Int
  BY <1>1 DEF UnitExponent
<1>4. \A m : SignedOrUnsignedMax(item.raw, item.size, m) \in Int
  BY <1>1, <1>2 DEF SignedOrUnsignedMax
<1> QED
  BY <1>1, <1>2, <1>3, <1>4 DEF GlobalValue

\* An item of the descriptor, when it is read.
LEMMA ReadItemType ==
  ASSUME ParserTypeOK, Reading
  PROVE  /\ NextItem \in Item /\ NextItem.raw \in Nat /\ NextItem.tag \in Tags
         /\ NextItem.tag = "LONG" \/ NextItem.size \in {0, 1, 2, 4}
         /\ offset \in Nat /\ offset + 1 \in 0 .. Len(descriptor)
<1>1. descriptor \in Descriptors /\ descriptor \in Seq(Item) /\ offset \in 0 .. Len(descriptor)
  BY ReportMapAssumption DEF ParserTypeOK
<1>2. Len(descriptor) \in Nat /\ DOMAIN descriptor = 1 .. Len(descriptor)
  BY <1>1, LenProperties
<1>3. offset + 1 \in 1 .. Len(descriptor) /\ offset + 1 \in 0 .. Len(descriptor) /\ offset \in Nat
  BY <1>1, <1>2 DEF Reading
<1>4. NextItem \in Item
  BY <1>1, <1>3, ElementOfSeq DEF NextItem
<1>5. NextItem.tag # "LONG" => NextItem.size \in {0, 1, 2, 4}
  BY <1>1, <1>2, <1>3, ReportMapAssumption DEF NextItem
<1> QED
  BY <1>3, <1>4, <1>5 DEF Item

\* What reading an item does to descriptor, offset and phase.
InputsTyped ==
  /\ descriptor \in Descriptors /\ offset \in 0 .. Len(descriptor)
  /\ phase \in {"PARSING", "VALID", "FAILED"}

LEMMA ReadsKeepsInputs ==
  ASSUME ParserTypeOK, NEW tags, Reads(tags)
  PROVE  InputsTyped' /\ Reading /\ NextItem.tag \in tags /\ ~Refused(NextItem)
<1>1. offset + 1 \in 0 .. Len(descriptor)
  BY ReadItemType DEF Reads
<1> QED
  BY <1>1 DEF Reads, ParserTypeOK, InputsTyped

StacksTyped ==
  /\ global \in Globals /\ global_stack \in Seq(Globals) /\ collection_stack \in Seq(Nat)
  /\ Len(global_stack) <= MaxGlobalStackDepth /\ Len(collection_stack) <= MaxCollectionDepth

LocalTyped == local \in Locals /\ local.active_usage_set \in DOMAIN local.usage_sets

MapTyped ==
  /\ collections_ \in Seq(Collection) /\ reports_ \in Seq(Report) /\ fields_ \in Seq(Field)
  /\ uses_report_ids_ \in BOOLEAN
  /\ Len(collections_) <= MaxCollections
  /\ Len(reports_) <= MaxReports /\ Len(fields_) <= MaxFields

LEMMA ParserTypeParts ==
  /\ ParserTypeOK <=> InputsTyped /\ StacksTyped /\ LocalTyped /\ MapTyped
  /\ ParserTypeOK' <=> InputsTyped' /\ StacksTyped' /\ LocalTyped' /\ MapTyped'
BY DEF ParserTypeOK, InputsTyped, StacksTyped, LocalTyped, MapTyped

LEMMA NoLocalsType == NoLocals \in Locals /\ NoLocals.active_usage_set \in DOMAIN NoLocals.usage_sets
<1>1. <<>> \in Seq(Usages) /\ <<>> \in Seq(Nat)
  BY EmptySeq
<1>2. << <<>> >> \in Seq(Seq(Usages)) /\ DOMAIN << <<>> >> = {1}
  BY <1>1
<1>3. NoUsage \in Usages
  BY DEF NoUsage, Usage, Usages
<1> QED
  BY <1>1, <1>2, <1>3 DEF NoLocals, Locals, Unset

LEMMA NoLocalsTyped == ASSUME local' = NoLocals PROVE LocalTyped'
BY NoLocalsType DEF LocalTyped

LEMMA InputsOnly ==
  ASSUME ParserTypeOK, InputsTyped',
         UNCHANGED <<global, local, global_stack, collection_stack, collections_, reports_, fields_,
                     uses_report_ids_>>
  PROVE  ParserTypeOK'
BY DEF ParserTypeOK, InputsTyped

\* Items that change the locals alone.
LEMMA LocalsOnly ==
  ASSUME ParserTypeOK, InputsTyped', LocalTyped',
         UNCHANGED <<global, global_stack, collection_stack, collections_, reports_, fields_,
                     uses_report_ids_>>
  PROVE  ParserTypeOK'
BY DEF ParserTypeOK, InputsTyped, LocalTyped

LEMMA UsageSetsType ==
  ASSUME ParserTypeOK
  PROVE  /\ local.usage_sets \in Seq(Seq(Usages)) /\ Len(local.usage_sets) \in Nat
         /\ DOMAIN local.usage_sets = 1 .. Len(local.usage_sets)
         /\ local.active_usage_set \in 1 .. Len(local.usage_sets) /\ 1 \in 1 .. Len(local.usage_sets)
         /\ \A i \in 1 .. Len(local.usage_sets) : local.usage_sets[i] \in Seq(Usages)
<1>1. local.usage_sets \in Seq(Seq(Usages)) /\ local.active_usage_set \in DOMAIN local.usage_sets
  BY DEF ParserTypeOK, Locals
<1> QED
  BY <1>1, LenProperties

\* Items that are not global ones and leave the globals as they are.
LocalItem == AddUsage \/ SetUsageBound \/ AddIndex \/ SetBound \/ Delimit \/ SkipItem

LEMMA UsageReadType ==
  ASSUME MapInv, ParserTypeOK, Reading
  PROVE  DecodeUsage(NextItem, global["USAGE_PAGE"]) \in Usages
<1>1. NextItem.raw \in Nat
  BY ReadItemType
<1>2. global["USAGE_PAGE"] \in Nat
  BY DEF MapInv, GlobalsSized, SizedGlobals
<1> QED
  BY <1>1, <1>2, DecodeUsageType

LEMMA AddUsageTypes ==
  ASSUME MapInv, ParserTypeOK, AddUsage
  PROVE  LocalTyped'
<1> DEFINE sets == local.usage_sets
           a    == local.active_usage_set
           u    == DecodeUsage(NextItem, global["USAGE_PAGE"])
           more == Append(sets[a], u)
<1>1. Reading /\ local' = [local EXCEPT !.usage_sets = [sets EXCEPT ![a] = more]]
  BY DEF AddUsage, Reads
<1>2. u \in Usages
  BY <1>1, UsageReadType
<1>3. sets \in Seq(Seq(Usages)) /\ a \in 1 .. Len(sets) /\ sets[a] \in Seq(Usages)
  BY UsageSetsType
<1>4. local \in Locals
  BY DEF ParserTypeOK
<1> HIDE DEF sets, a, u
<1>5. more \in Seq(Usages)
  BY <1>2, <1>3, AppendProperties
<1> HIDE DEF more
<1>6. /\ [sets EXCEPT ![a] = more] \in Seq(Seq(Usages))
      /\ Len([sets EXCEPT ![a] = more]) = Len(sets)
  BY <1>3, <1>5, ExceptSeq
<1>7. a \in DOMAIN [sets EXCEPT ![a] = more]
  BY <1>3, <1>6, LenProperties
<1> DEFINE all == [sets EXCEPT ![a] = more]
<1> HIDE DEF all
<1>8. local' \in Locals /\ local'.usage_sets = all /\ local'.active_usage_set = a
  BY <1>1, <1>4, <1>6 DEF Locals, all, a
<1> QED
  BY <1>7, <1>8 DEF LocalTyped, all

LEMMA SetUsageBoundTypes ==
  ASSUME MapInv, ParserTypeOK, SetUsageBound
  PROVE  LocalTyped'
<1> DEFINE u     == DecodeUsage(NextItem, global["USAGE_PAGE"])
           tag   == NextItem.tag
           bound == [local.usage_bound EXCEPT ![tag] = u]
           given == local.given \cup {tag}
<1>1. Reading /\ tag \in UsageBounds /\ local' = [local EXCEPT !.usage_bound = bound, !.given = given]
  BY DEF SetUsageBound, Reads
<1>2. u \in Usages
  BY <1>1, UsageReadType
<1>3. local \in Locals /\ local.active_usage_set \in DOMAIN local.usage_sets
  BY DEF ParserTypeOK
<1> HIDE DEF u, tag
<1>4. bound \in [UsageBounds -> Usages] /\ given \in SUBSET UsageBounds
  BY <1>1, <1>2, <1>3 DEF Locals
<1> HIDE DEF bound, given
<1> QED
  BY <1>1, <1>3, <1>4 DEF LocalTyped, Locals

LEMMA AddIndexTypes ==
  ASSUME ParserTypeOK, AddIndex
  PROVE  LocalTyped'
<1> DEFINE tag   == NextItem.tag
           more  == Append(local.index[tag], NextItem.raw)
           index == [local.index EXCEPT ![tag] = more]
<1>1. Reading /\ tag \in IndexTags /\ local' = [local EXCEPT !.index = index]
  BY DEF AddIndex, Reads
<1>2. NextItem.raw \in Nat
  BY <1>1, ReadItemType
<1>3. local \in Locals /\ local.active_usage_set \in DOMAIN local.usage_sets
  BY DEF ParserTypeOK
<1> HIDE DEF tag
<1>4. local.index[tag] \in Seq(Nat)
  BY <1>1, <1>3 DEF Locals
<1>5. more \in Seq(Nat)
  BY <1>2, <1>4, AppendProperties
<1> HIDE DEF more
<1>6. index \in [IndexTags -> Seq(Nat)]
  BY <1>1, <1>3, <1>5 DEF Locals
<1> HIDE DEF index
<1> QED
  BY <1>1, <1>3, <1>6 DEF LocalTyped, Locals

LEMMA SetBoundTypes ==
  ASSUME ParserTypeOK, SetBound
  PROVE  LocalTyped'
<1> DEFINE bound == [local.bound EXCEPT ![NextItem.tag] = NextItem.raw]
<1>1. Reading /\ NextItem.tag \in BoundTags /\ local' = [local EXCEPT !.bound = bound]
  BY DEF SetBound, Reads
<1>2. NextItem.raw \in Nat
  BY <1>1, ReadItemType
<1>3. local \in Locals /\ local.active_usage_set \in DOMAIN local.usage_sets
  BY DEF ParserTypeOK
<1>4. bound \in [BoundTags -> Nat \cup {Unset}]
  BY <1>1, <1>2, <1>3 DEF Locals
<1> HIDE DEF bound
<1> QED
  BY <1>1, <1>3, <1>4 DEF LocalTyped, Locals

LEMMA DelimitTypes ==
  ASSUME ParserTypeOK, Delimit
  PROVE  LocalTyped'
<1> DEFINE sets == local.usage_sets
           more == Append(sets, <<>>)
<1>1. local' = IF local.delimiter_open
               THEN [local EXCEPT !.delimiter_open = FALSE, !.active_usage_set = 1]
               ELSE [local EXCEPT !.delimiter_open = TRUE, !.usage_sets = more,
                                  !.active_usage_set = Len(sets) + 1]
  BY DEF Delimit
<1>2. local \in Locals
  BY DEF ParserTypeOK
<1>3. sets \in Seq(Seq(Usages)) /\ Len(sets) \in Nat /\ 1 \in DOMAIN sets
  BY UsageSetsType
<1>4. <<>> \in Seq(Usages)
  BY EmptySeq
<1>5. more \in Seq(Seq(Usages)) /\ Len(more) = Len(sets) + 1
  BY <1>3, <1>4, AppendProperties
<1>6. Len(sets) + 1 \in DOMAIN more /\ Len(sets) + 1 \in Nat \ {0}
  BY <1>3, <1>5, LenProperties
<1> HIDE DEF more
<1>7. CASE local.delimiter_open
  <2>1. local'.active_usage_set = 1 /\ local'.usage_sets = sets
    BY <1>1, <1>2, <1>7 DEF Locals
  <2>2. local' \in Locals
    <3>1. local' = [local EXCEPT !.delimiter_open = FALSE, !.active_usage_set = 1]
      BY <1>1, <1>7
    <3>2. 1 \in Nat \ {0} /\ FALSE \in BOOLEAN
      OBVIOUS
    <3> QED
      BY <3>1, <3>2, <1>2 DEF Locals
  <2>3. 1 \in DOMAIN sets
    BY <1>3
  <2> HIDE DEF sets
  <2> QED
    BY <2>1, <2>2, <2>3 DEF LocalTyped
<1>8. CASE ~local.delimiter_open
  <2>1. local'.active_usage_set = Len(sets) + 1 /\ local'.usage_sets = more
    BY <1>1, <1>2, <1>8 DEF Locals
  <2>2. local' \in Locals
    BY <1>1, <1>2, <1>5, <1>6, <1>8 DEF Locals
  <2> QED
    BY <2>1, <2>2, <1>6 DEF LocalTyped
<1> QED
  BY <1>7, <1>8

LEMMA LocalItemTypes ==
  ASSUME MapInv, ParserTypeOK, LocalItem
  PROVE  ParserTypeOK'
<1>1. LocalTyped'
  <2>1. CASE SkipItem
    <3>1. local' = NoLocals \/ local' = local
      BY <2>1 DEF SkipItem
    <3>2. LocalTyped
      BY ParserTypeParts
    <3>3. CASE local' = local
      BY <3>2, <3>3 DEF LocalTyped
    <3> QED
      BY <3>1, <3>3, NoLocalsTyped
  <2> QED
    BY <2>1, AddUsageTypes, SetUsageBoundTypes, AddIndexTypes, SetBoundTypes, DelimitTypes
       DEF LocalItem
<1>2. (\E tags : Reads(tags)) /\ UNCHANGED <<global, stackVars, mapVars>>
  BY DEF LocalItem, AddUsage, SetUsageBound, AddIndex, SetBound, Delimit, SkipItem
<1>3. InputsTyped'
  BY <1>2, ReadsKeepsInputs
<1> QED
  BY <1>1, <1>2, <1>3, LocalsOnly DEF stackVars, mapVars

-----------------------------------------------------------------------------
(* Items of the other kinds. *)

LEMMA SetGlobalTypes ==
  ASSUME ParserTypeOK, SetGlobal
  PROVE  ParserTypeOK'
<1>1. /\ Reads(GlobalTags)
      /\ global' = [global EXCEPT ![NextItem.tag] = GlobalValue(NextItem, global)]
      /\ uses_report_ids_' = (uses_report_ids_ \/ NextItem.tag = "REPORT_ID")
      /\ UNCHANGED <<local, global_stack, collection_stack, collections_, reports_, fields_>>
  BY DEF SetGlobal, stackVars
<1>2. InputsTyped' /\ Reading /\ NextItem.tag \in GlobalTags
  BY <1>1, ReadsKeepsInputs
<1>3. GlobalValue(NextItem, global) \in Int
  BY <1>2, ReadItemType, GlobalValueType
<1>4. StacksTyped /\ LocalTyped /\ MapTyped
  BY ParserTypeParts
<1>5. global' \in Globals
  BY <1>1, <1>2, <1>3, <1>4 DEF StacksTyped, Globals
<1>6. StacksTyped' /\ LocalTyped' /\ MapTyped'
  BY <1>1, <1>4, <1>5 DEF StacksTyped, LocalTyped, MapTyped
<1> QED
  BY <1>2, <1>6, ParserTypeParts

LEMMA PushGlobalTypes ==
  ASSUME ParserTypeOK, PushGlobal
  PROVE  ParserTypeOK'
<1>1. /\ Reads({"PUSH"}) /\ global_stack' = Append(global_stack, global)
      /\ UNCHANGED <<global, local, collection_stack, collections_, reports_, fields_, uses_report_ids_>>
  BY DEF PushGlobal, mapVars
<1>2. InputsTyped' /\ ~(Len(global_stack) >= MaxGlobalStackDepth)
  BY <1>1, ReadsKeepsInputs DEF Refused
<1>3. StacksTyped /\ LocalTyped /\ MapTyped
  BY ParserTypeParts
<1>4. MaxGlobalStackDepth \in Nat
  BY ReportMapAssumption
<1>5. Len(global_stack) \in Nat /\ global_stack' \in Seq(Globals) /\ Len(global_stack') = Len(global_stack) + 1
  BY <1>1, <1>3, AppendProperties, LenProperties DEF StacksTyped
<1>6. Len(global_stack') <= MaxGlobalStackDepth
  BY <1>2, <1>4, <1>5
<1>7. StacksTyped' /\ LocalTyped' /\ MapTyped'
  BY <1>1, <1>3, <1>5, <1>6 DEF StacksTyped, LocalTyped, MapTyped
<1> QED
  BY <1>2, <1>7, ParserTypeParts

LEMMA TypedPop ==
  ASSUME NEW S, NEW s \in Seq(S), s # <<>>
  PROVE  /\ Last(s) \in S /\ Front(s) \in Seq(S) /\ Len(Front(s)) = Len(s) - 1 /\ Len(s) \in Nat
<1>1. Len(s) \in Nat /\ Len(s) >= 1
  BY EmptySeq, LenProperties
<1>2. Last(s) \in S
  BY <1>1, ElementOfSeq DEF Last
<1>3. \A i \in 1 .. Len(s) - 1 : s[i] \in S
  BY <1>1, ElementOfSeq
<1>4. Len(Front(s)) = Len(s) - 1
  BY SequenceOfItself, SequencePop
<1>5. Front(s) \in Seq(S)
  <2>1. Len(s) - 1 \in Int
    BY <1>1
  <2>2. SubSeq(s, 1, Len(s) - 1) \in Seq(S)
    BY <1>3, <2>1, SubSeqProperties
  <2> QED
    BY <2>2 DEF Front
<1> QED
  BY <1>1, <1>2, <1>4, <1>5

LEMMA PopGlobalTypes ==
  ASSUME ParserTypeOK, PopGlobal
  PROVE  ParserTypeOK'
<1>1. /\ Reads({"POP"}) /\ global' = Last(global_stack) /\ global_stack' = Front(global_stack)
      /\ UNCHANGED <<local, collection_stack, collections_, reports_, fields_, uses_report_ids_>>
  BY DEF PopGlobal, mapVars
<1>2. InputsTyped' /\ global_stack # <<>>
  BY <1>1, ReadsKeepsInputs DEF Refused
<1>3. StacksTyped /\ LocalTyped /\ MapTyped
  BY ParserTypeParts
<1>4. global' \in Globals /\ global_stack' \in Seq(Globals)
      /\ Len(global_stack') = Len(global_stack) - 1 /\ Len(global_stack) \in Nat
  BY <1>1, <1>2, <1>3, TypedPop DEF StacksTyped
<1>5. MaxGlobalStackDepth \in Nat
  BY ReportMapAssumption
<1>6. Len(global_stack') <= MaxGlobalStackDepth
  BY <1>3, <1>4, <1>5 DEF StacksTyped
<1>7. StacksTyped' /\ LocalTyped' /\ MapTyped'
  BY <1>1, <1>3, <1>4, <1>6 DEF StacksTyped, LocalTyped, MapTyped
<1> QED
  BY <1>2, <1>7, ParserTypeParts

LEMMA InnermostType == ASSUME ParserTypeOK PROVE Innermost \in Nat
<1>1. collection_stack \in Seq(Nat)
  BY DEF ParserTypeOK
<1>2. collection_stack # <<>> => Last(collection_stack) \in Nat
  BY <1>1, TypedPop
<1> QED
  BY <1>2 DEF Innermost, NoParent

LEMMA BeginCollectionTypes ==
  ASSUME ParserTypeOK, BeginCollection
  PROVE  ParserTypeOK'
<1> DEFINE sets == local.usage_sets
           usage == IF sets[1] # <<>> THEN Head(sets[1]) ELSE local.usage_bound["USAGE_MINIMUM"]
           new == [id |-> Len(collections_), parent |-> Innermost, type |-> NextItem.raw % 256,
                   usage |-> usage, aliases |-> FlattenSeq(Tail(sets))]
<1>1. /\ Reads({"COLLECTION"}) /\ collections_' = Append(collections_, new)
      /\ collection_stack' = Append(collection_stack, Len(collections_)) /\ local' = NoLocals
      /\ UNCHANGED <<global, global_stack, reports_, fields_, uses_report_ids_>>
  BY DEF BeginCollection
<1>2. /\ InputsTyped' /\ Reading
      /\ ~(Len(collections_) >= MaxCollections) /\ ~(Len(collection_stack) >= MaxCollectionDepth)
  BY <1>1, ReadsKeepsInputs DEF Refused
<1>3. StacksTyped /\ MapTyped /\ local \in Locals
  BY ParserTypeParts DEF LocalTyped
<1>4. MaxCollections \in Nat /\ MaxCollectionDepth \in Nat
  BY ReportMapAssumption
<1>5. NextItem.raw % 256 \in Nat
  <2>1. NextItem.raw \in Nat
    BY <1>2, ReadItemType
  <2> QED
    BY <2>1
<1>6. sets \in Seq(Seq(Usages)) /\ sets # <<>> /\ sets[1] \in Seq(Usages)
  BY UsageSetsType, EmptySeq
<1>7. FlattenSeq(Tail(sets)) \in Seq(Usages)
  BY <1>6, HeadTailProperties, FlattenSeqType
<1>8. usage \in Usages
  <2>1. sets[1] # <<>> => Head(sets[1]) \in Usages
    BY <1>6, HeadTailProperties
  <2>2. local.usage_bound["USAGE_MINIMUM"] \in Usages
    BY <1>3 DEF Locals, UsageBounds
  <2> QED
    BY <2>1, <2>2
<1>9. Innermost \in Nat
  BY InnermostType
<1>10. Len(collections_) \in Nat /\ Len(collection_stack) \in Nat
  BY <1>3, LenProperties DEF StacksTyped, MapTyped
<1> HIDE DEF sets, usage
<1>11. new \in Collection
  BY <1>5, <1>7, <1>8, <1>9, <1>10 DEF Collection
<1> HIDE DEF new
<1>12. collections_' \in Seq(Collection) /\ Len(collections_') = Len(collections_) + 1
  BY <1>1, <1>3, <1>11, AppendProperties DEF MapTyped
<1>13. collection_stack' \in Seq(Nat) /\ Len(collection_stack') = Len(collection_stack) + 1
  BY <1>1, <1>3, <1>10, AppendProperties DEF StacksTyped
<1>14. Len(collections_') <= MaxCollections /\ Len(collection_stack') <= MaxCollectionDepth
  BY <1>2, <1>4, <1>10, <1>12, <1>13
<1>15. StacksTyped' /\ MapTyped'
  BY <1>1, <1>3, <1>12, <1>13, <1>14 DEF StacksTyped, MapTyped
<1> QED
  BY <1>1, <1>2, <1>15, NoLocalsTyped, ParserTypeParts

LEMMA EndCollectionTypes ==
  ASSUME ParserTypeOK, EndCollection
  PROVE  ParserTypeOK'
<1>1. /\ Reads({"END_COLLECTION"}) /\ collection_stack' = Front(collection_stack)
      /\ local' = NoLocals
      /\ UNCHANGED <<global, global_stack, collections_, reports_, fields_, uses_report_ids_>>
  BY DEF EndCollection, mapVars
<1>2. InputsTyped' /\ collection_stack # <<>>
  BY <1>1, ReadsKeepsInputs DEF Refused
<1>3. StacksTyped /\ MapTyped
  BY ParserTypeParts
<1>4. collection_stack' \in Seq(Nat) /\ Len(collection_stack') = Len(collection_stack) - 1
      /\ Len(collection_stack) \in Nat
  BY <1>1, <1>2, <1>3, TypedPop DEF StacksTyped
<1>5. MaxCollectionDepth \in Nat
  BY ReportMapAssumption
<1>6. Len(collection_stack') <= MaxCollectionDepth
  BY <1>3, <1>4, <1>5 DEF StacksTyped
<1>7. StacksTyped' /\ MapTyped'
  BY <1>1, <1>3, <1>4, <1>6 DEF StacksTyped, MapTyped
<1> QED
  BY <1>1, <1>2, <1>7, NoLocalsTyped, ParserTypeParts

LEMMA AddFieldTypes ==
  ASSUME MapInv, MapInv', ParserTypeOK, AddField
  PROVE  ParserTypeOK'
<1> DEFINE kind == NextItem.tag
           new  == [id |-> Len(fields_), kind |-> kind, collection_id |-> Innermost,
                    bit_offset |-> BitOffset(kind), flags |-> NextItem.raw % 2 ^ 9,
                    global |-> global, local |-> local]
           of   == ReportOf(kind, global["REPORT_ID"])
           bits == global["REPORT_SIZE"] * global["REPORT_COUNT"]
<1>1. /\ Reads(DataTags) /\ fields_' = Append(fields_, new)
      /\ reports_' = AddToReport(kind, bits)
      /\ local' = NoLocals
      /\ UNCHANGED <<global, global_stack, collection_stack, collections_, uses_report_ids_>>
  BY DEF AddField, stackVars
<1>2. InputsTyped' /\ Reading /\ kind \in DataTags /\ ~FieldRefused(NextItem)
  BY <1>1, ReadsKeepsInputs DEF Refused
<1>3. StacksTyped /\ MapTyped /\ LocalTyped
  BY ParserTypeParts
<1>4. MaxReports \in Nat /\ MaxFields \in Nat
  BY ReportMapAssumption
<1>5. ~(Len(fields_) >= MaxFields) /\ ~(of = {} /\ Len(reports_) >= MaxReports)
  BY <1>2 DEF FieldRefused
<1>6. NextItem.raw % 2 ^ 9 \in Nat
  <2>1. NextItem.raw \in Nat /\ 2 ^ 9 \in Nat /\ 2 ^ 9 > 0
    BY <1>2, ReadItemType
  <2>2. \A a, b \in Nat : b > 0 => a % b \in Nat
    OBVIOUS
  <2> QED
    BY <2>1, <2>2
<1>7. Len(fields_) \in Nat /\ Len(reports_) \in Nat /\ DOMAIN reports_ = 1 .. Len(reports_)
  BY <1>3, LenProperties DEF MapTyped
<1>8. BitOffset(kind) \in Nat
  <2>1. of # {} => (CHOOSE i \in of : TRUE) \in DOMAIN reports_
    BY DEF ReportOf
  <2>2. \A r \in DOMAIN reports_ : reports_[r] \in Report
    BY <1>3, <1>7, ElementOfSeq DEF MapTyped
  <2>3. \A r \in DOMAIN reports_ : reports_[r].bit_size \in Nat
    BY <2>2 DEF Report
  <2> QED
    BY <2>1, <2>3 DEF BitOffset
<1>9. new \in Field
  <2>1. Innermost \in Nat
    BY InnermostType
  <2> QED
    BY <2>1, <1>2, <1>3, <1>6, <1>7, <1>8 DEF Field, StacksTyped, LocalTyped
<1>10. fields_' \in Seq(Field) /\ Len(fields_') = Len(fields_) + 1
  <2> HIDE DEF new
  <2> QED
    BY <1>1, <1>3, <1>9, AppendProperties DEF MapTyped
<1>11. Len(fields_') <= MaxFields
  BY <1>4, <1>5, <1>7, <1>10
<1>12. reports_' \in Seq(Report)
  BY DEF MapInv
<1>13. Len(reports_') <= MaxReports
  <2>1. CASE of = {}
    <3>1. Len(reports_') = Len(reports_) + 1
      <4>1. \E e : reports_' = Append(reports_, e)
        BY <1>1, <2>1 DEF AddToReport
      <4>2. IsSequence(reports_)
        BY <1>3, SequenceOfItself DEF MapTyped
      <4> QED
        BY <4>1, <4>2, SequenceAppend
    <3> QED
      BY <3>1, <2>1, <1>4, <1>5, <1>7
  <2>2. CASE of # {}
    <3>1. DOMAIN reports_' = DOMAIN reports_
      BY <1>1, <2>2 DEF AddToReport
    <3>2. DOMAIN reports_' = 1 .. Len(reports_') /\ Len(reports_') \in Nat
      BY <1>12, LenProperties
    <3>3. \A a, b \in Nat : 1 .. a = 1 .. b => a = b
      <4> SUFFICES ASSUME NEW a \in Nat, NEW b \in Nat, 1 .. a = 1 .. b PROVE a = b
        OBVIOUS
      <4>1. a # 0 => a \in 1 .. a
        OBVIOUS
      <4>2. b # 0 => b \in 1 .. b
        OBVIOUS
      <4>3. a # 0 => a \in 1 .. b
        BY <4>1
      <4>4. b # 0 => b \in 1 .. a
        BY <4>2
      <4> QED
        BY <4>3, <4>4
    <3>4. Len(reports_') = Len(reports_)
      BY <3>1, <3>2, <3>3, <1>7
    <3> QED
      BY <3>4, <1>3 DEF MapTyped
  <2> QED
    BY <2>1, <2>2
<1>14. MapTyped' /\ StacksTyped'
  BY <1>1, <1>3, <1>10, <1>11, <1>12, <1>13 DEF MapTyped, StacksTyped
<1> QED
  BY <1>1, <1>2, <1>14, NoLocalsTyped, ParserTypeParts

LEMMA StopTypes ==
  ASSUME ParserTypeOK, Fail \/ Finish
  PROVE  ParserTypeOK'
<1>1. /\ UNCHANGED <<descriptor, offset>> /\ phase' \in {"VALID", "FAILED"}
      /\ UNCHANGED <<global, local, global_stack, collection_stack, collections_, reports_, fields_,
                     uses_report_ids_>>
  BY DEF Fail, Finish, stackVars, mapVars
<1>2. InputsTyped'
  BY <1>1 DEF ParserTypeOK, InputsTyped
<1> QED
  BY <1>1, <1>2, InputsOnly

LEMMA ParserTypeInit == Init => ParserTypeOK
<1> SUFFICES ASSUME Init PROVE ParserTypeOK
  OBVIOUS
<1>1. InputsTyped
  <2>1. descriptor \in Seq(Item)
    BY ReportMapAssumption DEF Init
  <2>2. 0 \in 0 .. Len(descriptor)
    BY <2>1, LenProperties
  <2> QED
    BY <2>2 DEF Init, InputsTyped
<1>2. LocalTyped
  BY NoLocalsType DEF Init, LocalTyped
<1>3. /\ global = NoGlobals /\ global_stack = <<>> /\ collection_stack = <<>>
      /\ collections_ = <<>> /\ reports_ = <<>> /\ fields_ = <<>> /\ uses_report_ids_ = FALSE
  BY DEF Init
<1>4. \A S : <<>> \in Seq(S) /\ Len(<<>>) = 0
  BY EmptySeq
<1>5. \A n \in Nat : 0 <= n
  OBVIOUS
<1>6. NoGlobals \in Globals
  BY DEF NoGlobals, Globals
<1>7. /\ 0 <= MaxGlobalStackDepth /\ 0 <= MaxCollectionDepth /\ 0 <= MaxCollections
      /\ 0 <= MaxReports /\ 0 <= MaxFields
  BY <1>5, ReportMapAssumption
<1>8. StacksTyped /\ MapTyped
  BY <1>3, <1>4, <1>6, <1>7 DEF StacksTyped, MapTyped
<1> QED
  BY <1>1, <1>2, <1>8, ParserTypeParts

\* The state of the parser and the map it built have their types at every item, and
\* neither its stacks nor the map ever outgrow the limits of the class: the checks
\* before each push and each append are enough (HIDReportMap::parse_report_map_data).
THEOREM ParserKeepsTypes == DecoderSpec => []ParserTypeOK
<1>1. DecoderInit => ParserTypeOK
  BY ParserTypeInit DEF DecoderInit
<1>2. ASSUME MapInv, MapInv', ParserTypeOK, [DecoderNext]_allVars
      PROVE  ParserTypeOK'
  <2>1. [Next]_vars
    BY <1>2 DEF DecoderNext, ProcessInputReport, allVars
  <2>2. CASE UNCHANGED vars
    <3>1. InputsTyped'
      BY <1>2, <2>2, ParserTypeParts DEF vars, inputVars, InputsTyped
    <3> QED
      BY <1>2, <2>2, <3>1, InputsOnly DEF vars, stackVars, mapVars
  <2> QED
    BY <1>2, <2>1, <2>2, LocalItemTypes, SetGlobalTypes, PushGlobalTypes, PopGlobalTypes,
       BeginCollectionTypes, EndCollectionTypes, AddFieldTypes, StopTypes DEF Next, LocalItem
<1> QED
  BY <1>1, <1>2, MapInvariant, PTL DEF DecoderSpec

-----------------------------------------------------------------------------
(* Scopes.  Counting the items up to a place says how deep it is, and which  *)
(* field or collection an item made; neither moves when more items are read. *)

RankOf(tags, n) == Cardinality({i \in 1 .. n : descriptor[i].tag \in tags})

Depth(open, close, n) == CountRead(open, n) - CountRead(close, n)

\* The scope that item i stands in is not closed up to item n.
Alive(open, close, i, n) ==
  \A k \in i .. n : Depth(open, close, k) >= Depth(open, close, i)

\* At item n, the scope that item p opened is the one of level d, and not closed.
Opens(open, close, p, d, n) ==
  descriptor[p].tag = open /\ Depth(open, close, p) = d /\ Alive(open, close, p, n)

\* Every state of the globals on the stack is the one before the Push it is from.
GlobalsScoped ==
  /\ \A tag \in GlobalTags : global[tag] = GlobalBefore(tag, offset + 1)
  /\ Len(global_stack) = Depth("PUSH", "POP", offset)
  /\ \A d \in DOMAIN global_stack : \E p \in 1 .. offset :
       /\ Opens("PUSH", "POP", p, d, offset)
       /\ \A tag \in GlobalTags : global_stack[d][tag] = GlobalBefore(tag, p)

\* The collections open before item n, by the items that opened them.
OpenItems(n) ==
  {i \in 1 .. n - 1 : /\ descriptor[i].tag = "COLLECTION"
                      /\ Alive("COLLECTION", "END_COLLECTION", i, n - 1)}

\* The innermost collection open before item n is id.
EnclosedBy(n, id) ==
  \/ OpenItems(n) = {} /\ id = NoParent
  \/ \E i \in OpenItems(n) :
       (\A j \in OpenItems(n) : j <= i) /\ id = RankOf({"COLLECTION"}, i) - 1

StackNests ==
  /\ IsSequence(collection_stack)
  /\ Len(collection_stack) = Depth("COLLECTION", "END_COLLECTION", offset)
  /\ \A k \in 0 .. offset : Depth("COLLECTION", "END_COLLECTION", k) >= 0
  /\ \A d \in DOMAIN collection_stack : \E p \in 1 .. offset :
       /\ Opens("COLLECTION", "END_COLLECTION", p, d, offset)
       /\ collection_stack[d] = RankOf({"COLLECTION"}, p) - 1

\* What the locals hold of a range of usages is what was said before item n.
BoundsScoped(locals, n) ==
  \A tag \in UsageBounds : /\ locals.usage_bound[tag] = BoundBefore(tag, n)
                           /\ tag \in locals.given <=> LastInScope(tag, n) # 0

\* The locals are those that the items since the last main item gave.
LocalsScoped ==
  /\ local.usage_sets[1] = UsagesBefore(offset + 1)
  /\ local.delimiter_open <=> InDelimiter(offset + 1)
  /\ local.delimiter_open <=> local.active_usage_set # 1
  /\ BoundsScoped(local, offset + 1)

\* Each collection and each field comes from its item, and has from there what
\* was in force.
CollectionPlaced(collection, c, i) ==
  /\ descriptor[i].tag = "COLLECTION" /\ RankOf({"COLLECTION"}, i) = c
  /\ collection.id = c - 1
  /\ EnclosedBy(i, collection.parent)
  /\ collection.usage = IF UsagesBefore(i) # <<>> THEN Head(UsagesBefore(i))
                        ELSE BoundBefore("USAGE_MINIMUM", i)

CollectionsPlaced ==
  /\ IsSequence(collections_) /\ Len(collections_) = RankOf({"COLLECTION"}, offset)
  /\ \A c \in DOMAIN collections_ : \E i \in 1 .. offset : CollectionPlaced(collections_[c], c, i)

\* What a field has of its item.
Placed(field, f, i) ==
  /\ descriptor[i].tag \in DataTags /\ RankOf(DataTags, i) = f
  /\ \A tag \in GlobalTags : field.global[tag] = GlobalBefore(tag, i)
  /\ EnclosedBy(i, field.collection_id)
  /\ field.local.usage_sets[1] = UsagesBefore(i)
  /\ BoundsScoped(field.local, i)

FieldsPlaced ==
  /\ Len(fields_) = RankOf(DataTags, offset)
  /\ \A f \in DOMAIN fields_ : \E i \in 1 .. offset : Placed(fields_[f], f, i)

ValidIsClosed == phase = "VALID" => collection_stack = <<>>

ScopeInv ==
  /\ GlobalsScoped /\ LocalsScoped /\ StackNests
  /\ CollectionsPlaced /\ FieldsPlaced /\ ValidIsClosed

-----------------------------------------------------------------------------
(* Counting items. *)

LEMMA FiniteUpto ==
  ASSUME NEW tags, NEW n \in Nat
  PROVE  IsFiniteSet({i \in 1 .. n : descriptor[i].tag \in tags})
<1>1. IsFiniteSet(1 .. n)
  BY FS_Interval
<1>2. {i \in 1 .. n : descriptor[i].tag \in tags} \in SUBSET (1 .. n)
  OBVIOUS
<1> QED
  BY <1>1, <1>2, FS_Subset

LEMMA RankFacts ==
  ASSUME NEW tags, NEW n \in Nat
  PROVE  /\ RankOf(tags, n) \in Nat /\ RankOf(tags, 0) = 0
         /\ RankOf(tags, n + 1)
              = RankOf(tags, n) + IF descriptor[n + 1].tag \in tags THEN 1 ELSE 0
<1> DEFINE Upto(m) == {i \in 1 .. m : descriptor[i].tag \in tags}
<1>1. IsFiniteSet(Upto(n))
  BY FiniteUpto
<1>2. Upto(0) = {}
  OBVIOUS
<1>3. 1 .. n + 1 = (1 .. n) \cup {n + 1} /\ n + 1 \notin 1 .. n
  OBVIOUS
<1>4. Upto(n + 1) = IF descriptor[n + 1].tag \in tags THEN Upto(n) \cup {n + 1} ELSE Upto(n)
  BY <1>3
<1>5. n + 1 \notin Upto(n)
  BY <1>3
<1>6. RankOf(tags, n) = Cardinality(Upto(n)) /\ RankOf(tags, n + 1) = Cardinality(Upto(n + 1))
      /\ RankOf(tags, 0) = Cardinality(Upto(0))
  BY DEF RankOf
<1> HIDE DEF Upto
<1>7. Cardinality(Upto(n)) \in Nat
  BY <1>1, FS_CardinalityType
<1>8. Cardinality(Upto(n) \cup {n + 1}) = Cardinality(Upto(n)) + 1
  BY <1>1, <1>5, FS_AddElement
<1>9. Cardinality(Upto(0)) = 0
  BY <1>2, FS_EmptySet
<1> QED
  BY <1>4, <1>6, <1>7, <1>8, <1>9

LEMMA RankGrows ==
  ASSUME NEW tags, NEW m \in Nat, NEW n \in Nat, m <= n
  PROVE  /\ RankOf(tags, m) <= RankOf(tags, n)
         /\ m < n /\ descriptor[n].tag \in tags => RankOf(tags, m) < RankOf(tags, n)
<1> DEFINE Upto(k) == {i \in 1 .. k : descriptor[i].tag \in tags}
<1>0. IsFiniteSet(Upto(n))
  BY FiniteUpto
<1>1. IsFiniteSet(Upto(n)) /\ Upto(m) \subseteq Upto(n)
  BY <1>0
<1>2. m < n /\ descriptor[n].tag \in tags => n \in Upto(n) /\ n \notin Upto(m)
  OBVIOUS
<1>3. RankOf(tags, m) = Cardinality(Upto(m)) /\ RankOf(tags, n) = Cardinality(Upto(n))
  BY DEF RankOf
<1>4. RankOf(tags, m) \in Nat /\ RankOf(tags, n) \in Nat
  BY RankFacts
<1> HIDE DEF Upto
<1>5. /\ Cardinality(Upto(m)) <= Cardinality(Upto(n))
      /\ Cardinality(Upto(n)) = Cardinality(Upto(m)) => Upto(n) = Upto(m)
  BY <1>1, FS_Subset
<1> QED
  BY <1>2, <1>3, <1>4, <1>5

\* An item is found again by its rank.
LEMMA RankIdentifies ==
  ASSUME NEW tags, NEW i \in Nat, NEW j \in Nat,
         descriptor[i].tag \in tags, descriptor[j].tag \in tags,
         RankOf(tags, i) = RankOf(tags, j)
  PROVE  i = j
<1>1. RankOf(tags, i) \in Nat /\ RankOf(tags, j) \in Nat
  BY RankFacts
<1>2. CASE i < j
  BY <1>1, <1>2, RankGrows
<1>3. CASE j < i
  BY <1>1, <1>3, RankGrows
<1> QED
  BY <1>2, <1>3

LEMMA ItemOfRank ==
  ASSUME NEW tags, offset \in Nat, NEW i \in 1 .. offset, descriptor[i].tag \in tags
  PROVE  ItemOf(tags, RankOf(tags, i)) = i
<1> DEFINE Rank(k) == Cardinality({j \in Read(tags) : j <= k})
<1>1. Read(tags) = {j \in 1 .. offset : descriptor[j].tag \in tags}
  BY DEF Read
<1>2. ASSUME NEW k \in Read(tags) PROVE Rank(k) = RankOf(tags, k)
  <2>1. {j \in Read(tags) : j <= k} = {j \in 1 .. k : descriptor[j].tag \in tags}
    BY <1>1, <1>2
  <2> QED
    BY <2>1 DEF RankOf
<1>3. i \in Read(tags)
  BY <1>1
<1>4. Ranked(Read(tags), RankOf(tags, i)) = {k \in Read(tags) : Rank(k) = RankOf(tags, i)}
  BY DEF Ranked
<1> HIDE DEF Rank
<1>5. \A k \in Read(tags) : Rank(k) = RankOf(tags, i) => k = i
  <2> SUFFICES ASSUME NEW k \in Read(tags), Rank(k) = RankOf(tags, i) PROVE k = i
    OBVIOUS
  <2>1. k \in Nat /\ i \in Nat /\ descriptor[k].tag \in tags
    BY <1>1
  <2>2. RankOf(tags, k) = RankOf(tags, i)
    BY <1>2
  <2> QED
    BY <2>1, <2>2, RankIdentifies
<1>6. Rank(i) = RankOf(tags, i)
  BY <1>2, <1>3
<1>7. Ranked(Read(tags), RankOf(tags, i)) = {i}
  BY <1>3, <1>4, <1>5, <1>6
<1> QED
  BY <1>7 DEF ItemOf, Kth

LEMMA DepthFacts ==
  ASSUME NEW open, NEW close, open # close, NEW n \in Nat
  PROVE  /\ Depth(open, close, n) \in Int /\ Depth(open, close, 0) = 0
         /\ descriptor[n + 1].tag = open => Depth(open, close, n + 1) = Depth(open, close, n) + 1
         /\ descriptor[n + 1].tag = close => Depth(open, close, n + 1) = Depth(open, close, n) - 1
         /\ descriptor[n + 1].tag \notin {open, close} =>
              Depth(open, close, n + 1) = Depth(open, close, n)
<1>1. \A tag, m : CountRead(tag, m) = RankOf({tag}, m)
  BY DEF CountRead, RankOf
<1>2. \A tag : /\ RankOf({tag}, n) \in Nat /\ RankOf({tag}, 0) = 0
               /\ RankOf({tag}, n + 1)
                    = RankOf({tag}, n) + IF descriptor[n + 1].tag \in {tag} THEN 1 ELSE 0
  BY RankFacts
<1>3. \A tag : (descriptor[n + 1].tag \in {tag}) = (descriptor[n + 1].tag = tag)
  OBVIOUS
<1>4. \A tag : /\ CountRead(tag, n) \in Nat /\ CountRead(tag, 0) = 0
               /\ CountRead(tag, n + 1)
                    = CountRead(tag, n) + IF descriptor[n + 1].tag = tag THEN 1 ELSE 0
  BY <1>1, <1>2, <1>3
<1>5. /\ CountRead(open, n) \in Nat /\ CountRead(open, 0) = 0
      /\ CountRead(open, n + 1)
           = CountRead(open, n) + IF descriptor[n + 1].tag = open THEN 1 ELSE 0
  BY <1>4
<1>6. /\ CountRead(close, n) \in Nat /\ CountRead(close, 0) = 0
      /\ CountRead(close, n + 1)
           = CountRead(close, n) + IF descriptor[n + 1].tag = close THEN 1 ELSE 0
  BY <1>4
<1> QED
  BY <1>5, <1>6 DEF Depth

-----------------------------------------------------------------------------
(* What is greatest. *)

LEMMA GreatestElement ==
  ASSUME NEW n \in Nat, NEW T \in SUBSET (0 .. n), T # {}
  PROVE  \E x \in T : \A y \in T : y <= x
<1> DEFINE less   == OpToRel(<, Nat)
           bounds == {b \in Nat : \A y \in T : y <= b}
<1>1. n \in bounds /\ bounds \subseteq Nat
  OBVIOUS
<1>2. \E b \in bounds : \A c \in bounds : <<c, b>> \notin less
  <2> HIDE DEF less, bounds
  <2>1. bounds # {}
    BY <1>1
  <2>2. IsWellFoundedOn(less, Nat)
    BY NatLessThanWellFounded DEF less
  <2> QED
    BY <1>1, <2>1, <2>2, WFMin
<1>3. PICK b \in bounds : \A c \in bounds : <<c, b>> \notin less
  BY <1>2
<1>4. b \in Nat /\ \A y \in T : y \in Nat /\ y <= b
  OBVIOUS
<1>5. b \in T
  <2> SUFFICES ASSUME b \notin T PROVE FALSE
    OBVIOUS
  <2>1. \A y \in T : y \in Nat /\ y < b
    BY <1>4
  <2>2. \A y \in T : y <= b - 1
    BY <2>1, <1>4
  <2>5. PICK y \in T : TRUE
    OBVIOUS
  <2>6. y \in Nat /\ y < b
    BY <2>1
  <2>7. b - 1 \in Nat
    BY <2>6, <1>4
  <2>3. b - 1 \in bounds /\ b - 1 < b
    BY <2>2, <2>7, <1>4
  <2>4. <<b - 1, b>> \in less
    BY <2>3, <2>7, <1>4 DEF OpToRel
  <2> QED
    BY <1>3, <2>3, <2>4
<1> QED
  BY <1>4, <1>5

LEMMA MaxIs ==
  ASSUME NEW S \in SUBSET Int, NEW x \in S, \A y \in S : y <= x
  PROVE  Max(S) = x
<1>1. \A y \in S : (\A z \in S : y >= z) => y = x
  <2> SUFFICES ASSUME NEW y \in S, \A z \in S : y >= z PROVE y = x
    OBVIOUS
  <2>1. y >= x /\ y <= x /\ x \in Int /\ y \in Int
    OBVIOUS
  <2> QED
    BY <2>1
<1>2. \A z \in S : x >= z
  OBVIOUS
<1> QED
  BY <1>1, <1>2 DEF Max

-----------------------------------------------------------------------------
(* Scopes, when an item is read. *)

LEMMA DepthType ==
  ASSUME NEW open, NEW close, open # close, NEW n \in Nat
  PROVE  Depth(open, close, n) \in Int
BY DepthFacts

\* An item that closes no scope.
LEMMA AliveKept ==
  ASSUME NEW open, NEW close, open # close, NEW n \in Nat, NEW i \in 1 .. n,
         descriptor[n + 1].tag # close
  PROVE  Alive(open, close, i, n + 1) <=> Alive(open, close, i, n)
<1>1. i .. n + 1 = (i .. n) \cup {n + 1} /\ n \in i .. n
  OBVIOUS
<1>2. /\ Depth(open, close, n + 1) >= Depth(open, close, n)
      /\ Depth(open, close, n) \in Int /\ Depth(open, close, n + 1) \in Int
      /\ Depth(open, close, i) \in Int
  <2>1. i \in Nat /\ n + 1 \in Nat
    OBVIOUS
  <2>2. Depth(open, close, i) \in Int /\ Depth(open, close, n + 1) \in Int
    BY <2>1, DepthType
  <2>3. /\ Depth(open, close, n) \in Int
        /\ \/ Depth(open, close, n + 1) = Depth(open, close, n)
           \/ Depth(open, close, n + 1) = Depth(open, close, n) + 1
    BY DepthFacts
  <2> QED
    BY <2>2, <2>3
<1> QED
  BY <1>1, <1>2 DEF Alive

LEMMA AliveAtOnce ==
  ASSUME NEW open, NEW close, open # close, NEW n \in Nat
  PROVE  Alive(open, close, n, n)
<1>1. n .. n = {n} /\ Depth(open, close, n) \in Int
  BY DepthType
<1> QED
  BY <1>1 DEF Alive

LEMMA OpensKept ==
  ASSUME NEW open, NEW close, open # close, NEW n \in Nat, NEW p \in 1 .. n, NEW d,
         Opens(open, close, p, d, n), Depth(open, close, n + 1) >= d
  PROVE  Opens(open, close, p, d, n + 1)
<1>1. p .. n + 1 = (p .. n) \cup {n + 1}
  OBVIOUS
<1> QED
  BY <1>1 DEF Opens, Alive

LEMMA OpensNew ==
  ASSUME NEW open, NEW close, open # close, NEW n \in Nat, descriptor[n + 1].tag = open
  PROVE  Opens(open, close, n + 1, Depth(open, close, n) + 1, n + 1)
<1>1. Depth(open, close, n + 1) = Depth(open, close, n) + 1
  BY DepthFacts
<1>2. n + 1 \in Nat
  OBVIOUS
<1>3. Alive(open, close, n + 1, n + 1)
  BY <1>2, AliveAtOnce
<1> QED
  BY <1>1, <1>3 DEF Opens

\* Before its first item, a scope is one level up.
LEMMA BeforeOpener ==
  ASSUME NEW open, NEW close, open # close, NEW p \in Nat \ {0}, descriptor[p].tag = open
  PROVE  Depth(open, close, p - 1) = Depth(open, close, p) - 1
<1>1. p - 1 \in Nat /\ (p - 1) + 1 = p
  OBVIOUS
<1> DEFINE m == p - 1
<1>2. Depth(open, close, m) \in Int /\ Depth(open, close, m + 1) = Depth(open, close, m) + 1
  <2>1. descriptor[m + 1].tag = open /\ m \in Nat
    BY <1>1
  <2> HIDE DEF m
  <2> QED
    BY <2>1, DepthFacts
<1> QED
  BY <1>1, <1>2

\* An item that closes the scope item p opened brings back what stood before p.
LEMMA AliveClosed ==
  ASSUME NEW open, NEW close, open # close, NEW n \in Nat, NEW p \in 1 .. n,
         Opens(open, close, p, Depth(open, close, n), n), descriptor[n + 1].tag = close,
         NEW i \in 1 .. n
  PROVE  Alive(open, close, i, n + 1) <=> i < p /\ Alive(open, close, i, p - 1)
<1> DEFINE D(k) == Depth(open, close, k)
<1>1. D(n) \in Int /\ D(i) \in Int /\ D(n + 1) = D(n) - 1
  <2>1. i \in Nat
    OBVIOUS
  <2>2. D(i) \in Int
    BY <2>1, DepthType
  <2>3. D(n) \in Int /\ D(n + 1) = D(n) - 1
    BY DepthFacts
  <2> QED
    BY <2>2, <2>3
<1>2. /\ D(p) = D(n) /\ \A k \in p .. n : D(k) >= D(n)
      /\ D(p - 1) = D(n) - 1
  <2>1. D(p) = D(n) /\ \A k \in p .. n : D(k) >= D(n)
    BY DEF Opens, Alive
  <2>2. p \in Nat \ {0} /\ descriptor[p].tag = open
    BY DEF Opens
  <2>3. D(p - 1) = D(p) - 1
    BY <2>2, BeforeOpener
  <2> QED
    BY <2>1, <2>3
<1> HIDE DEF D
<1>3. CASE i < p
  <2>1. i .. n + 1 = (i .. p - 1) \cup (p .. n) \cup {n + 1} /\ p - 1 \in i .. p - 1 /\ n + 1 \in i .. n + 1
    BY <1>3
  <2>2. ASSUME \A k \in i .. n + 1 : D(k) >= D(i) PROVE \A k \in i .. p - 1 : D(k) >= D(i)
    BY <2>1, <2>2
  <2>3. ASSUME \A k \in i .. p - 1 : D(k) >= D(i) PROVE \A k \in i .. n + 1 : D(k) >= D(i)
    <3>1. D(i) <= D(n) - 1
      BY <2>1, <2>3, <1>1, <1>2
    <3>2. \A k \in p .. n : k \in Nat
      OBVIOUS
    <3>3. \A k \in p .. n : D(k) \in Int
      BY <3>2, DepthType DEF D
    <3>4. \A k \in p .. n : D(k) >= D(i)
      BY <3>1, <3>3, <1>1, <1>2
    <3>5. D(n + 1) >= D(i)
      BY <3>1, <1>1
    <3> QED
      BY <2>1, <2>3, <3>4, <3>5
  <2> QED
    BY <2>2, <2>3, <1>3 DEF Alive, D
<1>4. CASE i >= p
  <2>1. i \in p .. n /\ n + 1 \in i .. n + 1 /\ ~(i < p)
    BY <1>4
  <2>2. D(i) >= D(n)
    BY <2>1, <1>2
  <2>3. ~(D(n + 1) >= D(i))
    BY <2>2, <1>1
  <2> QED
    BY <2>1, <2>3 DEF Alive, D
<1> QED
  BY <1>3, <1>4

-----------------------------------------------------------------------------
(* The globals in force, when an item is read. *)

Standing(tag, n) == {i \in 1 .. n : descriptor[i].tag = tag /\ Alive("PUSH", "POP", i, n)}

LEMMA InForceFacts ==
  ASSUME NEW tag, NEW n \in Nat
  PROVE  /\ InForce(tag, n) = Max({0} \cup Standing(tag, n))
         /\ InForce(tag, n) \in {0} \cup Standing(tag, n)
<1>1. {0} \cup Standing(tag, n) \in SUBSET (0 .. n)
  BY DEF Standing
<1>2. PICK x \in {0} \cup Standing(tag, n) : \A y \in {0} \cup Standing(tag, n) : y <= x
  <2>1. {0} \cup Standing(tag, n) # {}
    OBVIOUS
  <2> HIDE DEF Standing
  <2> QED
    BY <1>1, <2>1, GreatestElement
<1>3. Max({0} \cup Standing(tag, n)) = x
  <2>1. {0} \cup Standing(tag, n) \in SUBSET Int
    BY <1>1
  <2> QED
    BY <1>2, <2>1, MaxIs
<1>4. InForce(tag, n) = Max({0} \cup Standing(tag, n))
  BY DEF InForce, Standing, Alive, PushDepth, Depth
<1> QED
  BY <1>2, <1>3, <1>4

LEMMA InForceKept ==
  ASSUME NEW tag, NEW n \in Nat, descriptor[n + 1].tag \notin {tag, "POP"}
  PROVE  InForce(tag, n + 1) = InForce(tag, n)
<1>1. \A i \in 1 .. n : Alive("PUSH", "POP", i, n + 1) <=> Alive("PUSH", "POP", i, n)
  BY AliveKept
<1>2. 1 .. n + 1 = (1 .. n) \cup {n + 1}
  OBVIOUS
<1>3. Standing(tag, n + 1) = Standing(tag, n)
  BY <1>1, <1>2 DEF Standing
<1>4. n + 1 \in Nat
  OBVIOUS
<1> QED
  BY <1>3, <1>4, InForceFacts

LEMMA InForceSet ==
  ASSUME NEW tag, NEW n \in Nat, descriptor[n + 1].tag = tag
  PROVE  InForce(tag, n + 1) = n + 1
<1>1. n + 1 \in Nat
  OBVIOUS
<1>2. Alive("PUSH", "POP", n + 1, n + 1)
  BY <1>1, AliveAtOnce
<1>3. /\ {0} \cup Standing(tag, n + 1) \in SUBSET Int
      /\ n + 1 \in {0} \cup Standing(tag, n + 1)
      /\ \A y \in {0} \cup Standing(tag, n + 1) : y <= n + 1
  BY <1>2 DEF Standing
<1>4. Max({0} \cup Standing(tag, n + 1)) = n + 1
  BY <1>3, MaxIs
<1> QED
  BY <1>1, <1>4, InForceFacts

LEMMA InForcePopped ==
  ASSUME NEW tag \in GlobalTags, NEW n \in Nat, NEW p \in 1 .. n,
         Opens("PUSH", "POP", p, Depth("PUSH", "POP", n), n), descriptor[n + 1].tag = "POP"
  PROVE  InForce(tag, n + 1) = InForce(tag, p - 1)
<1>1. \A i \in 1 .. n :
        Alive("PUSH", "POP", i, n + 1) <=> i < p /\ Alive("PUSH", "POP", i, p - 1)
  BY AliveClosed
<1>2. 1 .. n + 1 = (1 .. n) \cup {n + 1} /\ \A i \in 1 .. n : i < p <=> i \in 1 .. p - 1
  OBVIOUS
<1>3. 1 .. p - 1 \subseteq 1 .. n
  OBVIOUS
<1>4. tag # "POP"
  BY DEF GlobalTags
<1>5. Standing(tag, n + 1) = Standing(tag, p - 1)
  BY <1>1, <1>2, <1>3, <1>4 DEF Standing
<1>6. n + 1 \in Nat /\ p - 1 \in Nat
  OBVIOUS
<1> QED
  BY <1>5, <1>6, InForceFacts

LEMMA GlobalBeforeSame ==
  ASSUME NEW tag, NEW m, NEW n, InForce(tag, m - 1) = InForce(tag, n - 1)
  PROVE  GlobalBefore(tag, m) = GlobalBefore(tag, n)
BY DEF GlobalBefore

Minima == {"LOGICAL_MINIMUM", "PHYSICAL_MINIMUM"}

\* What a global item says does not depend on the globals but for a maximum, and
\* then on one minimum.
LEMMA ValueDependsOnMinima ==
  ASSUME NEW item, NEW g, NEW h, item.tag \in GlobalTags,
         item.tag \in Minima \/ \A t \in Minima : g[t] = h[t]
  PROVE  GlobalValue(item, g) = GlobalValue(item, h)
<1>1. CASE item.tag \in Minima
  BY <1>1 DEF GlobalValue, Minima
<1>2. CASE item.tag \notin Minima
  <2>1. g["LOGICAL_MINIMUM"] = h["LOGICAL_MINIMUM"] /\ g["PHYSICAL_MINIMUM"] = h["PHYSICAL_MINIMUM"]
    BY <1>2 DEF Minima
  <2> QED
    BY <2>1 DEF GlobalValue
<1> QED
  BY <1>1, <1>2

LEMMA MinimumBefore ==
  ASSUME NEW t \in Minima, NEW n \in Nat
  PROVE  GlobalBefore(t, n + 1)
           = IF InForce(t, n) = 0 THEN 0 ELSE GlobalValue(descriptor[InForce(t, n)], NoGlobals)
<1> DEFINE i == InForce(t, n)
           h == [u \in GlobalTags |->
                   IF u \in {"LOGICAL_MINIMUM", "PHYSICAL_MINIMUM"}
                   THEN IF InForce(u, i - 1) = 0 THEN 0
                        ELSE GlobalValue(descriptor[InForce(u, i - 1)], NoGlobals)
                   ELSE 0]
<1>1. (n + 1) - 1 = n
  OBVIOUS
<1>2. GlobalBefore(t, n + 1) = IF i = 0 THEN 0 ELSE GlobalValue(descriptor[i], h)
  BY <1>1 DEF GlobalBefore
<1> HIDE DEF h
<1>3. ASSUME i # 0 PROVE GlobalValue(descriptor[i], h) = GlobalValue(descriptor[i], NoGlobals)
  <2>1. i \in Standing(t, n)
    BY <1>3, InForceFacts
  <2>2. descriptor[i].tag = t /\ t \in GlobalTags
    BY <2>1 DEF Standing, GlobalTags, Minima
  <2> HIDE DEF i
  <2> QED
    BY <2>2, ValueDependsOnMinima
<1> QED
  BY <1>2, <1>3

\* Setting a global is what GlobalBefore says of the item.
LEMMA GlobalBeforeSet ==
  ASSUME NEW n \in Nat, NEW g, \A t \in GlobalTags : g[t] = GlobalBefore(t, n + 1),
         descriptor[n + 1].tag \in GlobalTags
  PROVE  GlobalBefore(descriptor[n + 1].tag, n + 2) = GlobalValue(descriptor[n + 1], g)
<1> DEFINE tag == descriptor[n + 1].tag
           h == [u \in GlobalTags |->
                   IF u \in {"LOGICAL_MINIMUM", "PHYSICAL_MINIMUM"}
                   THEN IF InForce(u, n) = 0 THEN 0
                        ELSE GlobalValue(descriptor[InForce(u, n)], NoGlobals)
                   ELSE 0]
<1>1. (n + 2) - 1 = n + 1 /\ (n + 1) - 1 = n /\ n + 1 # 0
  OBVIOUS
<1>2. InForce(tag, n + 1) = n + 1
  BY InForceSet
<1>3. GlobalBefore(tag, n + 2) = GlobalValue(descriptor[n + 1], h)
  BY <1>1, <1>2 DEF GlobalBefore
<1>4. \A t \in Minima : g[t] = h[t]
  <2> SUFFICES ASSUME NEW t \in Minima PROVE g[t] = h[t]
    OBVIOUS
  <2>1. t \in GlobalTags /\ t \in {"LOGICAL_MINIMUM", "PHYSICAL_MINIMUM"}
    BY DEF Minima, GlobalTags
  <2>2. g[t] = GlobalBefore(t, n + 1)
    BY <2>1
  <2> QED
    BY <2>1, <2>2, MinimumBefore
<1> HIDE DEF h
<1> QED
  BY <1>3, <1>4, ValueDependsOnMinima

-----------------------------------------------------------------------------
(* Steps. *)

LEMMA SameItems ==
  ASSUME descriptor' = descriptor
  PROVE  /\ \A tags, n : RankOf(tags, n)' = RankOf(tags, n)
         /\ \A open, close, n : Depth(open, close, n)' = Depth(open, close, n)
         /\ \A open, close, p, d, n : Opens(open, close, p, d, n)' <=> Opens(open, close, p, d, n)
         /\ \A tag, n : GlobalBefore(tag, n)' = GlobalBefore(tag, n)
         /\ \A n : UsagesBefore(n)' = UsagesBefore(n)
         /\ \A n : InDelimiter(n)' <=> InDelimiter(n)
         /\ \A locals, n : BoundsScoped(locals, n)' <=> BoundsScoped(locals, n)
         /\ \A n, id : EnclosedBy(n, id)' <=> EnclosedBy(n, id)
         /\ \A collection, c, i :
              CollectionPlaced(collection, c, i)' <=> CollectionPlaced(collection, c, i)
         /\ \A field, f, i : Placed(field, f, i)' <=> Placed(field, f, i)
<1>1. \A tags, n : RankOf(tags, n)' = RankOf(tags, n)
  BY DEF RankOf
<1>2. \A open, close, n : Depth(open, close, n)' = Depth(open, close, n)
  BY DEF Depth, CountRead
<1>3. \A open, close, i, n : Alive(open, close, i, n)' <=> Alive(open, close, i, n)
  BY <1>2 DEF Alive
<1>4. \A open, close, p, d, n : Opens(open, close, p, d, n)' <=> Opens(open, close, p, d, n)
  BY <1>2, <1>3 DEF Opens
<1>5. \A tag, n : GlobalBefore(tag, n)' = GlobalBefore(tag, n)
  BY DEF GlobalBefore, InForce, PushDepth, CountRead
<1>6. \A n : OpenItems(n)' = OpenItems(n)
  BY <1>3 DEF OpenItems
<1>7. \A n, id : EnclosedBy(n, id)' <=> EnclosedBy(n, id)
  BY <1>1, <1>6 DEF EnclosedBy
<1>8. \A n : ScopeBegins(n)' = ScopeBegins(n)
  BY DEF ScopeBegins
<1>9. \A tag, n : LastInScope(tag, n)' = LastInScope(tag, n)
  BY <1>8 DEF LastInScope
<1>14. \A n : InDelimiter(n)' <=> InDelimiter(n)
  BY <1>9 DEF InDelimiter
<1>15. \A i : UsageOfItem(i)' = UsageOfItem(i)
  BY <1>5 DEF UsageOfItem
<1>16. \A locals, n : BoundsScoped(locals, n)' <=> BoundsScoped(locals, n)
  <2>1. \A tag, n : BoundBefore(tag, n)' = BoundBefore(tag, n)
    BY <1>9, <1>15 DEF BoundBefore
  <2> QED
    BY <1>9, <2>1 DEF BoundsScoped
<1>10. \A n : PlainUsages(n)' = PlainUsages(n)
  BY <1>8, <1>14 DEF PlainUsages
<1>11. \A n : UsagesBefore(n)' = UsagesBefore(n)
  BY <1>10, <1>15 DEF UsagesBefore
<1>12. \A collection, c, i :
         CollectionPlaced(collection, c, i)' <=> CollectionPlaced(collection, c, i)
  <2>1. \A tag, n : BoundBefore(tag, n)' = BoundBefore(tag, n)
    BY <1>9, <1>15 DEF BoundBefore
  <2> QED
    BY <1>1, <1>7, <1>11, <2>1 DEF CollectionPlaced
<1>13. \A field, f, i : Placed(field, f, i)' <=> Placed(field, f, i)
  BY <1>1, <1>5, <1>7, <1>11, <1>16 DEF Placed
<1> QED
  BY <1>1, <1>2, <1>4, <1>5, <1>7, <1>11, <1>12, <1>13, <1>14, <1>16

\* The parser reads one more item.
ReadsOne == /\ offset \in Nat /\ offset' = offset + 1 /\ descriptor' = descriptor
            /\ descriptor[offset + 1] = NextItem /\ 1 .. offset + 1 = (1 .. offset) \cup {offset + 1}

LEMMA ReadsIsOne ==
  ASSUME MapInv, NEW tags, Reads(tags)
  PROVE  ReadsOne /\ NextItem.tag \in tags /\ phase' = phase
<1>1. offset \in Nat
  BY DEF MapInv, ItemsTyped
<1>2. 1 .. offset + 1 = (1 .. offset) \cup {offset + 1}
  BY <1>1
<1> QED
  BY <1>1, <1>2 DEF Reads, ReadsOne, NextItem

LEMMA GlobalsScopedNext ==
  ASSUME ReadsOne,
         \A tag \in GlobalTags : global'[tag] = GlobalBefore(tag, offset + 2),
         Len(global_stack') = Depth("PUSH", "POP", offset + 1),
         \A d \in DOMAIN global_stack' : \E p \in 1 .. offset + 1 :
           /\ Opens("PUSH", "POP", p, d, offset + 1)
           /\ \A tag \in GlobalTags : global_stack'[d][tag] = GlobalBefore(tag, p)
  PROVE  GlobalsScoped'
<1>1. offset' = offset + 1 /\ offset' + 1 = offset + 2 /\ descriptor' = descriptor
  BY DEF ReadsOne
<1>2. \A tag \in GlobalTags : global'[tag] = GlobalBefore(tag, offset + 1)'
  BY <1>1, SameItems
<1>3. Len(global_stack') = Depth("PUSH", "POP", offset)'
  BY <1>1, SameItems
<1>4. \A d \in DOMAIN global_stack' : \E p \in 1 .. offset' :
        /\ Opens("PUSH", "POP", p, d, offset)'
        /\ \A tag \in GlobalTags : global_stack'[d][tag] = GlobalBefore(tag, p)'
  BY <1>1, SameItems
<1> QED
  BY <1>2, <1>3, <1>4 DEF GlobalsScoped

\* The scopes open before an item that closes none are open after it.
LEMMA GlobalStackKept ==
  ASSUME MapInv, GlobalsScoped, ReadsOne,
         NEW d \in DOMAIN global_stack, Depth("PUSH", "POP", offset + 1) >= d
  PROVE  \E p \in 1 .. offset + 1 :
           /\ Opens("PUSH", "POP", p, d, offset + 1)
           /\ \A tag \in GlobalTags : global_stack[d][tag] = GlobalBefore(tag, p)
<1>1. PICK p \in 1 .. offset :
        /\ Opens("PUSH", "POP", p, d, offset)
        /\ \A tag \in GlobalTags : global_stack[d][tag] = GlobalBefore(tag, p)
  BY DEF GlobalsScoped
<1>2. Opens("PUSH", "POP", p, d, offset + 1)
  <2>1. "PUSH" # "POP" /\ offset \in Nat
    BY DEF ReadsOne
  <2> QED
    BY <1>1, <2>1, OpensKept
<1>3. p \in 1 .. offset + 1
  BY DEF ReadsOne
<1> QED
  BY <1>1, <1>2, <1>3

LEMMA GlobalsScopedSet ==
  ASSUME MapInv, GlobalsScoped, SetGlobal
  PROVE  GlobalsScoped'
<1> DEFINE n == offset
           t == NextItem.tag
<1>1. /\ ReadsOne /\ t \in GlobalTags /\ global_stack' = global_stack
      /\ global' = [global EXCEPT ![t] = GlobalValue(NextItem, global)]
  BY ReadsIsOne DEF SetGlobal, stackVars
<1>2. n \in Nat /\ descriptor[n + 1] = NextItem
  BY <1>1 DEF ReadsOne
<1>3. t \notin {"PUSH", "POP"}
  BY <1>1 DEF GlobalTags
<1>4. \A tag \in GlobalTags : global[tag] = GlobalBefore(tag, n + 1)
  BY DEF GlobalsScoped
<1>5. ASSUME NEW tag \in GlobalTags PROVE global'[tag] = GlobalBefore(tag, n + 2)
  <2>1. DOMAIN global = GlobalTags
    BY DEF MapInv, GlobalsSized, SizedGlobals
  <2>2. CASE tag = t
    <3>1. global'[tag] = GlobalValue(NextItem, global)
      BY <1>1, <2>1, <2>2
    <3> QED
      BY <1>1, <1>2, <1>4, <2>2, <3>1, GlobalBeforeSet
  <2>3. CASE tag # t
    <3>1. global'[tag] = GlobalBefore(tag, n + 1)
      BY <1>1, <1>4, <2>1, <2>3
    <3>2. InForce(tag, n + 1) = InForce(tag, n)
      BY <1>2, <1>3, <2>3, InForceKept
    <3>3. (n + 2) - 1 = n + 1 /\ (n + 1) - 1 = n
      BY <1>2
    <3> QED
      BY <3>1, <3>2, <3>3, GlobalBeforeSame
  <2> QED
    BY <2>2, <2>3
<1>6. Depth("PUSH", "POP", n + 1) = Depth("PUSH", "POP", n)
  BY <1>2, <1>3, DepthFacts
<1>7. Len(global_stack') = Depth("PUSH", "POP", n + 1)
  BY <1>1, <1>6 DEF GlobalsScoped
<1>8. \A d \in DOMAIN global_stack : Depth("PUSH", "POP", n + 1) >= d
  BY <1>1, <1>7, SequenceFacts DEF MapInv, GlobalsSized
<1> QED
  BY <1>1, <1>5, <1>7, <1>8, GlobalStackKept, GlobalsScopedNext

\* An item that is no Push, no Pop and sets no global leaves those in force.
LEMMA GlobalsInForce ==
  ASSUME ReadsOne, GlobalsScoped, NextItem.tag \notin GlobalTags \cup {"POP"}
  PROVE  \A tag \in GlobalTags : global[tag] = GlobalBefore(tag, offset + 2)
<1> SUFFICES ASSUME NEW tag \in GlobalTags PROVE global[tag] = GlobalBefore(tag, offset + 2)
  OBVIOUS
<1>1. offset \in Nat /\ descriptor[offset + 1] = NextItem
  BY DEF ReadsOne
<1>2. InForce(tag, offset + 1) = InForce(tag, offset)
  BY <1>1, InForceKept
<1>3. (offset + 2) - 1 = offset + 1 /\ (offset + 1) - 1 = offset
  BY <1>1
<1>4. GlobalBefore(tag, offset + 2) = GlobalBefore(tag, offset + 1)
  BY <1>2, <1>3, GlobalBeforeSame
<1> QED
  BY <1>4 DEF GlobalsScoped

LEMMA GlobalsScopedOther ==
  ASSUME MapInv, GlobalsScoped, ReadsOne, NextItem.tag \notin GlobalTags \cup {"PUSH", "POP"},
         UNCHANGED <<global, global_stack>>
  PROVE  GlobalsScoped'
<1>1. offset \in Nat /\ descriptor[offset + 1] = NextItem
  BY DEF ReadsOne
<1>2. \A tag \in GlobalTags : global'[tag] = GlobalBefore(tag, offset + 2)
  BY GlobalsInForce
<1>3. Depth("PUSH", "POP", offset + 1) = Depth("PUSH", "POP", offset)
  BY <1>1, DepthFacts
<1>4. Len(global_stack') = Depth("PUSH", "POP", offset + 1)
  BY <1>3 DEF GlobalsScoped
<1>5. \A d \in DOMAIN global_stack : Depth("PUSH", "POP", offset + 1) >= d
  BY <1>4, SequenceFacts DEF MapInv, GlobalsSized
<1> QED
  BY <1>2, <1>4, <1>5, GlobalStackKept, GlobalsScopedNext

LEMMA GlobalsScopedPush ==
  ASSUME MapInv, GlobalsScoped, PushGlobal
  PROVE  GlobalsScoped'
<1> DEFINE n == offset
           l == Len(global_stack)
<1>1. /\ ReadsOne /\ NextItem.tag = "PUSH" /\ global' = global
      /\ global_stack' = Append(global_stack, global)
  BY ReadsIsOne DEF PushGlobal
<1>2. n \in Nat /\ descriptor[n + 1] = NextItem /\ n + 1 \in 1 .. n + 1
  BY <1>1 DEF ReadsOne
<1>3. NextItem.tag \notin GlobalTags \cup {"POP"}
  BY <1>1 DEF GlobalTags
<1>4. \A tag \in GlobalTags : global'[tag] = GlobalBefore(tag, n + 2)
  BY <1>1, <1>3, GlobalsInForce
<1>5. /\ l \in Nat /\ DOMAIN global_stack = 1 .. l
      /\ Len(global_stack') = l + 1 /\ DOMAIN global_stack' = 1 .. l + 1
      /\ \A d \in 1 .. l : global_stack'[d] = global_stack[d]
      /\ global_stack'[l + 1] = global
  BY <1>1, SequenceFacts, SequenceAppend DEF MapInv, GlobalsSized
<1>6. /\ l = Depth("PUSH", "POP", n)
      /\ Depth("PUSH", "POP", n + 1) = Depth("PUSH", "POP", n) + 1
  BY <1>1, <1>2, DepthFacts DEF GlobalsScoped
<1>7. ASSUME NEW d \in 1 .. l
      PROVE  \E p \in 1 .. n + 1 :
               /\ Opens("PUSH", "POP", p, d, n + 1)
               /\ \A tag \in GlobalTags : global_stack'[d][tag] = GlobalBefore(tag, p)
  <2>1. d \in DOMAIN global_stack /\ Depth("PUSH", "POP", n + 1) >= d
    BY <1>5, <1>6
  <2> QED
    BY <2>1, <1>1, <1>5, GlobalStackKept
<1>8. /\ Opens("PUSH", "POP", n + 1, l + 1, n + 1)
      /\ \A tag \in GlobalTags : global_stack'[l + 1][tag] = GlobalBefore(tag, n + 1)
  <2>1. \A tag \in GlobalTags : global[tag] = GlobalBefore(tag, n + 1)
    BY DEF GlobalsScoped
  <2>2. Opens("PUSH", "POP", n + 1, Depth("PUSH", "POP", n) + 1, n + 1)
    BY <1>1, <1>2, OpensNew
  <2> QED
    BY <2>1, <2>2, <1>5, <1>6
<1>9. \A d \in 1 .. l + 1 : d \in 1 .. l \/ d = l + 1
  BY <1>5
<1>10. \A d \in DOMAIN global_stack' : \E p \in 1 .. n + 1 :
         /\ Opens("PUSH", "POP", p, d, n + 1)
         /\ \A tag \in GlobalTags : global_stack'[d][tag] = GlobalBefore(tag, p)
  <2> HIDE DEF n, l
  <2> QED
    BY <1>2, <1>5, <1>7, <1>8, <1>9
<1> QED
  BY <1>1, <1>4, <1>5, <1>6, <1>10, GlobalsScopedNext

LEMMA GlobalsScopedPop ==
  ASSUME MapInv, GlobalsScoped, PopGlobal
  PROVE  GlobalsScoped'
<1> DEFINE n == offset
           l == Len(global_stack)
<1>1. /\ ReadsOne /\ NextItem.tag = "POP" /\ global_stack # <<>>
      /\ global' = Last(global_stack) /\ global_stack' = Front(global_stack)
  <2>1. Reads({"POP"}) /\ ~Refused(NextItem)
    BY DEF PopGlobal, Reads
  <2> QED
    BY <2>1, ReadsIsOne DEF PopGlobal, Refused
<1>2. n \in Nat /\ descriptor[n + 1] = NextItem
  BY <1>1 DEF ReadsOne
<1>3. IsSequence(global_stack) /\ l \in Nat /\ DOMAIN global_stack = 1 .. l
  BY SequenceFacts DEF MapInv, GlobalsSized
<1>4. /\ l \in DOMAIN global_stack /\ global' = global_stack[l]
      /\ DOMAIN global_stack' \subseteq DOMAIN global_stack
      /\ \A d \in DOMAIN global_stack' : global_stack'[d] = global_stack[d]
      /\ IsSequence(global_stack') /\ Len(global_stack') = l - 1
  BY <1>1, <1>3, SequencePop
<1>5. /\ l = Depth("PUSH", "POP", n)
      /\ Depth("PUSH", "POP", n + 1) = Depth("PUSH", "POP", n) - 1
  BY <1>1, <1>2, DepthFacts DEF GlobalsScoped
<1>6. PICK p \in 1 .. n :
        /\ Opens("PUSH", "POP", p, l, n)
        /\ \A tag \in GlobalTags : global_stack[l][tag] = GlobalBefore(tag, p)
  BY <1>4 DEF GlobalsScoped
<1>7. ASSUME NEW tag \in GlobalTags PROVE global'[tag] = GlobalBefore(tag, n + 2)
  <2>1. InForce(tag, n + 1) = InForce(tag, p - 1)
    BY <1>1, <1>2, <1>5, <1>6, InForcePopped
  <2>2. (n + 2) - 1 = n + 1
    BY <1>2
  <2>3. GlobalBefore(tag, n + 2) = GlobalBefore(tag, p)
    BY <2>1, <2>2, GlobalBeforeSame
  <2> QED
    BY <2>3, <1>4, <1>6
<1>8. ASSUME NEW d \in DOMAIN global_stack'
      PROVE  d \in DOMAIN global_stack /\ Depth("PUSH", "POP", n + 1) >= d
  <2>1. d \in 1 .. l - 1
    BY <1>4, SequenceFacts
  <2> QED
    BY <2>1, <1>3, <1>4, <1>5
<1>9. \A d \in DOMAIN global_stack' : \E q \in 1 .. n + 1 :
        /\ Opens("PUSH", "POP", q, d, n + 1)
        /\ \A tag \in GlobalTags : global_stack'[d][tag] = GlobalBefore(tag, q)
  BY <1>1, <1>4, <1>8, GlobalStackKept
<1> QED
  BY <1>1, <1>4, <1>5, <1>7, <1>9, GlobalsScopedNext

LEMMA LocalItemFacts ==
  ASSUME MapInv, LocalItem
  PROVE  /\ ReadsOne /\ phase' = phase
         /\ NextItem.tag \notin GlobalTags \cup {"PUSH", "POP", "COLLECTION", "END_COLLECTION"}
         /\ NextItem.tag \notin DataTags
         /\ UNCHANGED <<global, global_stack, collection_stack, collections_, fields_>>
<1> DEFINE tags == {"USAGE", "DELIMITER", "LONG", "RESERVED", "RESERVED_MAIN"}
                     \cup UsageBounds \cup IndexTags \cup BoundTags
<1>1. \E ts \in SUBSET tags : Reads(ts)
  BY DEF LocalItem, AddUsage, SetUsageBound, AddIndex, SetBound, Delimit, SkipItem
<1>2. UNCHANGED <<global, global_stack, collection_stack, collections_, fields_>>
  BY DEF LocalItem, AddUsage, SetUsageBound, AddIndex, SetBound, Delimit, SkipItem, stackVars,
         mapVars
<1>3. ReadsOne /\ NextItem.tag \in tags /\ phase' = phase
  BY <1>1, ReadsIsOne
<1>4. \A t \in tags : t \notin DataTags
                      /\ t \notin GlobalTags \cup {"PUSH", "POP", "COLLECTION", "END_COLLECTION"}
  BY DEF DataTags, GlobalTags, UsageBounds, IndexTags, BoundTags
<1> QED
  BY <1>2, <1>3, <1>4

LEMMA CollectionItemFacts ==
  ASSUME MapInv, BeginCollection \/ EndCollection
  PROVE  /\ ReadsOne /\ phase' = phase
         /\ NextItem.tag \notin GlobalTags \cup {"PUSH", "POP"} /\ NextItem.tag \notin DataTags
         /\ UNCHANGED <<global, global_stack, fields_>>
<1>1. \E ts \in SUBSET {"COLLECTION", "END_COLLECTION"} : Reads(ts)
  BY DEF BeginCollection, EndCollection
<1>2. ReadsOne /\ NextItem.tag \in {"COLLECTION", "END_COLLECTION"} /\ phase' = phase
  BY <1>1, ReadsIsOne
<1> QED
  BY <1>2 DEF BeginCollection, EndCollection, mapVars, GlobalTags, DataTags

LEMMA GlobalItemFacts ==
  ASSUME MapInv, SetGlobal \/ PushGlobal \/ PopGlobal
  PROVE  /\ ReadsOne /\ phase' = phase /\ NextItem.tag \notin {"COLLECTION", "END_COLLECTION"}
         /\ NextItem.tag \notin DataTags
         /\ UNCHANGED <<collection_stack, collections_, fields_>>
<1>1. \E ts \in SUBSET (GlobalTags \cup {"PUSH", "POP"}) : Reads(ts)
  BY DEF SetGlobal, PushGlobal, PopGlobal
<1>2. ReadsOne /\ NextItem.tag \in GlobalTags \cup {"PUSH", "POP"} /\ phase' = phase
  BY <1>1, ReadsIsOne
<1> QED
  BY <1>2 DEF SetGlobal, PushGlobal, PopGlobal, stackVars, mapVars, GlobalTags, DataTags

LEMMA FieldItemFacts ==
  ASSUME MapInv, AddField
  PROVE  /\ ReadsOne /\ phase' = phase /\ NextItem.tag \in DataTags
         /\ NextItem.tag \notin GlobalTags \cup {"PUSH", "POP", "COLLECTION", "END_COLLECTION"}
         /\ UNCHANGED <<global, global_stack, collection_stack, collections_>>
<1>1. ReadsOne /\ NextItem.tag \in DataTags /\ phase' = phase
  BY ReadsIsOne DEF AddField
<1> QED
  BY <1>1 DEF AddField, stackVars, GlobalTags, DataTags

LEMMA StopFacts ==
  ASSUME Fail \/ Finish \/ UNCHANGED vars
  PROVE  UNCHANGED <<descriptor, offset, global, global_stack, collection_stack, collections_,
                     fields_>>
BY DEF Fail, Finish, vars, inputVars, stackVars, mapVars

LEMMA GlobalsScopedKept ==
  ASSUME MapInv, GlobalsScoped, [Next]_vars
  PROVE  GlobalsScoped'
<1>1. CASE SetGlobal
  BY <1>1, GlobalsScopedSet
<1>2. CASE PushGlobal
  BY <1>2, GlobalsScopedPush
<1>3. CASE PopGlobal
  BY <1>3, GlobalsScopedPop
<1>4. CASE LocalItem
  BY <1>4, LocalItemFacts, GlobalsScopedOther
<1>5. CASE BeginCollection \/ EndCollection
  BY <1>5, CollectionItemFacts, GlobalsScopedOther
<1>6. CASE AddField
  BY <1>6, FieldItemFacts, GlobalsScopedOther
<1>7. CASE Fail \/ Finish \/ UNCHANGED vars
  <2>1. UNCHANGED <<descriptor, offset, global, global_stack>>
    BY <1>7, StopFacts
  <2> QED
    BY <2>1, SameItems DEF GlobalsScoped
<1> QED
  BY <1>1, <1>2, <1>3, <1>4, <1>5, <1>6, <1>7 DEF Next, LocalItem

-----------------------------------------------------------------------------
(* The locals: sets of items, and what the usages among them say. *)

LEMMA LatestOf ==
  ASSUME NEW n \in Nat, NEW S \in SUBSET (1 .. n)
  PROVE  /\ Max({0} \cup S) \in {0} \cup S /\ Max({0} \cup S) \in 0 .. n
         /\ Max({0} \cup (S \cup {n + 1})) = n + 1
<1>1. PICK x \in {0} \cup S : \A y \in {0} \cup S : y <= x
  <2>1. {0} \cup S # {} /\ {0} \cup S \in SUBSET (0 .. n)
    OBVIOUS
  <2> QED
    BY <2>1, GreatestElement
<1>2. Max({0} \cup S) = x
  <2>1. {0} \cup S \in SUBSET Int
    OBVIOUS
  <2> QED
    BY <1>1, <2>1, MaxIs
<1>3. Max({0} \cup (S \cup {n + 1})) = n + 1
  <2>1. /\ {0} \cup (S \cup {n + 1}) \in SUBSET Int /\ n + 1 \in {0} \cup (S \cup {n + 1})
        /\ \A y \in {0} \cup (S \cup {n + 1}) : y <= n + 1
    OBVIOUS
  <2> QED
    BY <2>1, MaxIs
<1> QED
  BY <1>1, <1>2, <1>3

LEMMA ScopeBeginsFacts ==
  ASSUME NEW n \in Nat
  PROVE  /\ ScopeBegins(n + 1) \in 0 .. n
         /\ ScopeBegins(n + 2) = IF descriptor[n + 1].tag \in MainTags
                                 THEN n + 1 ELSE ScopeBegins(n + 1)
<1> DEFINE Mains(m) == {i \in 1 .. m : descriptor[i].tag \in MainTags}
<1>1. (n + 1) - 1 = n /\ (n + 2) - 1 = n + 1 /\ 1 .. n + 1 = (1 .. n) \cup {n + 1}
  OBVIOUS
<1>2. ScopeBegins(n + 1) = Max({0} \cup Mains(n)) /\ ScopeBegins(n + 2) = Max({0} \cup Mains(n + 1))
  BY <1>1 DEF ScopeBegins
<1>3. Mains(n) \in SUBSET (1 .. n)
  OBVIOUS
<1>4. Mains(n + 1) = IF descriptor[n + 1].tag \in MainTags THEN Mains(n) \cup {n + 1} ELSE Mains(n)
  BY <1>1
<1> HIDE DEF Mains
<1> QED
  BY <1>2, <1>3, <1>4, LatestOf

\* A main item begins an empty scope.
LEMMA NewScope ==
  ASSUME NEW n \in Nat, ScopeBegins(n + 1) = n
  PROVE  /\ UsagesBefore(n + 1) = <<>> /\ ~InDelimiter(n + 1)
         /\ BoundsScoped(NoLocals, n + 1)
<1>1. ScopeBegins(n + 1) + 1 .. (n + 1) - 1 = {}
  OBVIOUS
<1>2. PlainUsages(n + 1) = {} /\ \A tag : LastInScope(tag, n + 1) = Max({0})
  <2>1. \A tag : LastInScope(tag, n + 1) = Max({0} \cup {})
    BY <1>1 DEF LastInScope
  <2>2. {0} \cup {} = {0}
    OBVIOUS
  <2> QED
    BY <1>1, <2>1, <2>2 DEF PlainUsages
<1>3. Max({0}) = 0
  <2>1. {0} \in SUBSET Int /\ 0 \in {0} /\ \A y \in {0} : y <= 0
    OBVIOUS
  <2> QED
    BY <2>1, MaxIs
<1>4. Cardinality({}) = 0 /\ 1 .. 0 = {}
  BY FS_EmptySet
<1>5. UsagesBefore(n + 1) = <<>>
  <2> DEFINE s == [k \in 1 .. 0 |-> UsageOfItem(Kth({}, k))]
  <2>1. UsagesBefore(n + 1) = s
    BY <1>2, <1>4 DEF UsagesBefore
  <2>2. s \in Seq({}) /\ Len(s) = 0
    <3>1. s \in [1 .. 0 -> {}]
      BY <1>4
    <3>2. s \in Seq({})
      BY <3>1, SeqDef
    <3> QED
      BY <3>1, <3>2, LenProperties
  <2> HIDE DEF s
  <2>3. s = <<>>
    BY <2>2, EmptySeq
  <2> QED
    BY <2>1, <2>3
<1>6. BoundsScoped(NoLocals, n + 1)
  BY <1>2, <1>3 DEF BoundsScoped, BoundBefore, NoLocals
<1> QED
  BY <1>2, <1>3, <1>5, <1>6 DEF InDelimiter

\* Within a scope, the last item of a tag is the newest one.
LEMMA SameScopeLast ==
  ASSUME NEW n \in Nat, descriptor[n + 1].tag \notin MainTags, NEW tag
  PROVE  LastInScope(tag, n + 2) = IF descriptor[n + 1].tag = tag THEN n + 1
                                   ELSE LastInScope(tag, n + 1)
<1> DEFINE b == ScopeBegins(n + 1)
           Ones(m) == {i \in b + 1 .. m : descriptor[i].tag = tag}
<1>1. b \in 0 .. n /\ ScopeBegins(n + 2) = b
  BY ScopeBeginsFacts
<1> HIDE DEF b
<1>2. (n + 1) - 1 = n /\ (n + 2) - 1 = n + 1 /\ b + 1 .. n + 1 = (b + 1 .. n) \cup {n + 1}
      /\ b + 1 .. n \subseteq 1 .. n
  BY <1>1
<1>3. /\ LastInScope(tag, n + 1) = Max({0} \cup Ones(n))
      /\ LastInScope(tag, n + 2) = Max({0} \cup Ones(n + 1))
  BY <1>1, <1>2 DEF LastInScope, b
<1>4. Ones(n) \in SUBSET (1 .. n)
  BY <1>2
<1>5. Ones(n + 1) = IF descriptor[n + 1].tag = tag THEN Ones(n) \cup {n + 1} ELSE Ones(n)
  BY <1>2
<1> HIDE DEF Ones
<1> QED
  BY <1>3, <1>4, <1>5, LatestOf

\* Within a scope, an item that is a Delimiter opens or closes the alternatives.
LEMMA SameScopeDelimiter ==
  ASSUME NEW n \in Nat, descriptor[n + 1].tag \notin MainTags
  PROVE  InDelimiter(n + 2) <=> IF descriptor[n + 1].tag = "DELIMITER"
                                THEN descriptor[n + 1].raw # 0 ELSE InDelimiter(n + 1)
<1>1. n + 1 # 0
  OBVIOUS
<1> QED
  BY <1>1, SameScopeLast DEF InDelimiter

\* Within a scope, an item that is no end of a range leaves the range alone.
LEMMA SameScopeBounds ==
  ASSUME NEW n \in Nat, descriptor[n + 1].tag \notin MainTags \cup UsageBounds,
         NEW locals, BoundsScoped(locals, n + 1)
  PROVE  BoundsScoped(locals, n + 2)
<1>1. \A tag \in UsageBounds : LastInScope(tag, n + 2) = LastInScope(tag, n + 1)
  BY SameScopeLast
<1> QED
  BY <1>1 DEF BoundsScoped, BoundBefore

LEMMA SameScopeUsages ==
  ASSUME NEW n \in Nat, descriptor[n + 1].tag \notin MainTags
  PROVE  /\ PlainUsages(n + 1) \in SUBSET (1 .. n)
         /\ PlainUsages(n + 2) = IF descriptor[n + 1].tag = "USAGE" /\ ~InDelimiter(n + 1)
                                 THEN PlainUsages(n + 1) \cup {n + 1} ELSE PlainUsages(n + 1)
<1> DEFINE b == ScopeBegins(n + 1)
<1>1. b \in 0 .. n /\ ScopeBegins(n + 2) = b
  BY ScopeBeginsFacts
<1>2. PlainUsages(n + 1) = {i \in b + 1 .. n : descriptor[i].tag = "USAGE" /\ ~InDelimiter(i)}
  <2>1. (n + 1) - 1 = n
    OBVIOUS
  <2> QED
    BY <2>1 DEF PlainUsages
<1>3. PlainUsages(n + 2) = {i \in b + 1 .. n + 1 : descriptor[i].tag = "USAGE" /\ ~InDelimiter(i)}
  <2>1. (n + 2) - 1 = n + 1
    OBVIOUS
  <2> QED
    BY <1>1, <2>1 DEF PlainUsages
<1> HIDE DEF b
<1>4. b + 1 .. n + 1 = (b + 1 .. n) \cup {n + 1} /\ b + 1 .. n \subseteq 1 .. n
  BY <1>1
<1> QED
  BY <1>2, <1>3, <1>4

LEMMA FiniteUsages == ASSUME NEW n \in Nat, NEW S \in SUBSET (1 .. n) PROVE IsFiniteSet(S)
<1>1. IsFiniteSet(1 .. n)
  BY FS_Interval
<1> QED
  BY <1>1, FS_Subset

\* The k-th item of a set stays the k-th when a later one is added.
LEMMA KthOfMore ==
  ASSUME NEW n \in Nat, NEW S \in SUBSET (1 .. n)
  PROVE  /\ Cardinality(S) \in Nat /\ Cardinality(S \cup {n + 1}) = Cardinality(S) + 1
         /\ \A k \in 1 .. Cardinality(S) : Kth(S \cup {n + 1}, k) = Kth(S, k)
         /\ Kth(S \cup {n + 1}, Cardinality(S) + 1) = n + 1
<1> DEFINE more == S \cup {n + 1}
           Upto(i) == {j \in S : j <= i}
           UptoMore(i) == {j \in more : j <= i}
<1>1. IsFiniteSet(S) /\ n + 1 \notin S
  BY FiniteUsages
<1>2. Cardinality(S) \in Nat /\ Cardinality(more) = Cardinality(S) + 1
  BY <1>1, FS_CardinalityType, FS_AddElement
<1>3. ASSUME NEW i \in S
      PROVE  UptoMore(i) = Upto(i) /\ Cardinality(Upto(i)) <= Cardinality(S)
  <2>1. UptoMore(i) = Upto(i)
    OBVIOUS
  <2>2. Upto(i) \in SUBSET S
    OBVIOUS
  <2> QED
    BY <2>1, <2>2, <1>1, FS_Subset
<1>4. UptoMore(n + 1) = more
  <2>1. \A j \in more : j <= n + 1
    OBVIOUS
  <2> HIDE DEF more
  <2> QED
    BY <2>1
<1>5. /\ \A k : Ranked(S, k) = {i \in S : Cardinality(Upto(i)) = k}
      /\ \A k : Ranked(more, k) = {i \in more : Cardinality(UptoMore(i)) = k}
  BY DEF Ranked
<1>6. \A i \in more : i \in S \/ i = n + 1
  OBVIOUS
<1>7. S \subseteq more /\ n + 1 \in more
  OBVIOUS
<1> HIDE DEF more, Upto, UptoMore
<1>8. ASSUME NEW k \in 1 .. Cardinality(S) PROVE Ranked(more, k) = Ranked(S, k)
  <2>1. Cardinality(UptoMore(n + 1)) # k
    BY <1>2, <1>4
  <2>2. \A i \in S : Cardinality(UptoMore(i)) = Cardinality(Upto(i))
    BY <1>3
  <2>3. \A i \in more : Cardinality(UptoMore(i)) = k <=> i \in S /\ Cardinality(Upto(i)) = k
    BY <2>1, <2>2, <1>6, <1>1
  <2>4. {i \in more : Cardinality(UptoMore(i)) = k} = {i \in S : Cardinality(Upto(i)) = k}
    BY <2>3, <1>7
  <2> QED
    BY <2>4, <1>5
<1>9. Ranked(more, Cardinality(S) + 1) = {n + 1}
  <2>1. \A i \in S : Cardinality(UptoMore(i)) # Cardinality(S) + 1
    <3> SUFFICES ASSUME NEW i \in S PROVE Cardinality(UptoMore(i)) # Cardinality(S) + 1
      OBVIOUS
    <3>1. Cardinality(UptoMore(i)) = Cardinality(Upto(i)) /\ Cardinality(Upto(i)) <= Cardinality(S)
      BY <1>3
    <3>2. Cardinality(Upto(i)) \in Nat
      <4>1. Upto(i) \in SUBSET S
        BY DEF Upto
      <4> QED
        BY <4>1, <1>1, FS_Subset, FS_CardinalityType
    <3> QED
      BY <3>1, <3>2, <1>2
  <2> QED
    BY <2>1, <1>2, <1>4, <1>5, <1>6, <1>7
<1>10. \A k \in 1 .. Cardinality(S) : Kth(more, k) = Kth(S, k)
  BY <1>8 DEF Kth
<1>11. Kth(more, Cardinality(S) + 1) = n + 1
  BY <1>9 DEF Kth
<1> QED
  BY <1>2, <1>10, <1>11 DEF more

LEMMA UsagesBeforeKept ==
  ASSUME NEW n \in Nat, descriptor[n + 1].tag \notin MainTags,
         descriptor[n + 1].tag # "USAGE" \/ InDelimiter(n + 1)
  PROVE  UsagesBefore(n + 2) = UsagesBefore(n + 1)
<1>1. PlainUsages(n + 2) = PlainUsages(n + 1)
  BY SameScopeUsages
<1> QED
  BY <1>1 DEF UsagesBefore

LEMMA UsagesBeforeAdded ==
  ASSUME NEW n \in Nat, descriptor[n + 1].tag = "USAGE", ~InDelimiter(n + 1)
  PROVE  UsagesBefore(n + 2) = Append(UsagesBefore(n + 1), UsageOfItem(n + 1))
<1> DEFINE S == PlainUsages(n + 1)
           c == Cardinality(S)
           s == [k \in 1 .. c |-> UsageOfItem(Kth(S, k))]
<1>1. descriptor[n + 1].tag \notin MainTags
  BY DEF MainTags, DataTags
<1>2. S \in SUBSET (1 .. n) /\ PlainUsages(n + 2) = S \cup {n + 1}
  BY <1>1, SameScopeUsages
<1>3. UsagesBefore(n + 1) = s
  BY DEF UsagesBefore
<1>4. UsagesBefore(n + 2) = [k \in 1 .. Cardinality(S \cup {n + 1}) |-> UsageOfItem(Kth(S \cup {n + 1}, k))]
  BY <1>2 DEF UsagesBefore
<1> HIDE DEF S
<1>5. /\ c \in Nat /\ Cardinality(S \cup {n + 1}) = c + 1
      /\ \A k \in 1 .. c : Kth(S \cup {n + 1}, k) = Kth(S, k)
      /\ Kth(S \cup {n + 1}, c + 1) = n + 1
  BY <1>2, KthOfMore
<1> HIDE DEF c
<1>6. Append(s, UsageOfItem(n + 1)) = [k \in 1 .. c + 1 |-> IF k = c + 1 THEN UsageOfItem(n + 1) ELSE s[k]]
  BY <1>5, AppendToFunction
<1>7. UsagesBefore(n + 2) = [k \in 1 .. c + 1 |-> IF k = c + 1 THEN UsageOfItem(n + 1) ELSE s[k]]
  <2>1. \A k \in 1 .. c + 1 : k # c + 1 => k \in 1 .. c
    BY <1>5
  <2>2. \A k \in 1 .. c + 1 :
          UsageOfItem(Kth(S \cup {n + 1}, k)) = IF k = c + 1 THEN UsageOfItem(n + 1) ELSE s[k]
    BY <2>1, <1>5
  <2> HIDE DEF s
  <2> QED
    BY <2>2, <1>4, <1>5
<1> QED
  BY <1>3, <1>6, <1>7

\* What an item does to the locals and to what the items say of them.
LEMMA LocalsScopedMain ==
  ASSUME ReadsOne, NextItem.tag \in MainTags, local' = NoLocals
  PROVE  LocalsScoped'
<1>1. /\ offset \in Nat /\ offset' = offset + 1 /\ descriptor' = descriptor
      /\ descriptor[offset + 1] = NextItem
  BY DEF ReadsOne
<1>2. ScopeBegins((offset + 1) + 1) = offset + 1
  <2>1. ScopeBegins(offset + 2) = offset + 1
    BY <1>1, ScopeBeginsFacts
  <2>2. offset + 2 = (offset + 1) + 1
    BY <1>1
  <2> QED
    BY <2>1, <2>2
<1>3. offset + 1 \in Nat
  BY <1>1
<1>4. /\ UsagesBefore(offset' + 1) = <<>> /\ ~InDelimiter(offset' + 1)
      /\ BoundsScoped(NoLocals, offset' + 1)
  BY <1>1, <1>2, <1>3, NewScope
<1>5. /\ UsagesBefore(offset + 1)' = <<>> /\ ~InDelimiter(offset + 1)'
      /\ BoundsScoped(local, offset + 1)'
  BY <1>1, <1>4, SameItems
<1>6. NoLocals.usage_sets[1] = <<>> /\ ~NoLocals.delimiter_open /\ NoLocals.active_usage_set = 1
  BY DEF NoLocals
<1> QED
  BY <1>5, <1>6 DEF LocalsScoped

LEMMA LocalsScopedNext ==
  ASSUME ReadsOne, local'.usage_sets[1] = UsagesBefore(offset + 2),
         local'.delimiter_open <=> InDelimiter(offset + 2),
         local'.delimiter_open <=> local'.active_usage_set # 1,
         BoundsScoped(local', offset + 2)
  PROVE  LocalsScoped'
<1>1. offset \in Nat /\ offset' = offset + 1 /\ descriptor' = descriptor
  BY DEF ReadsOne
<1>2. offset' + 1 = offset + 2
  BY <1>1
<1>3. UsagesBefore(offset + 1)' = UsagesBefore(offset + 2)
      /\ (InDelimiter(offset + 1)' <=> InDelimiter(offset + 2))
      /\ BoundsScoped(local, offset + 1)'
  BY <1>1, <1>2, SameItems
<1> QED
  BY <1>3 DEF LocalsScoped

\* Items that neither end the scope nor give a usage or a Delimiter.
LEMMA LocalsScopedOther ==
  ASSUME LocalsScoped, ReadsOne, NextItem.tag \notin MainTags \cup UsageBounds \cup {"USAGE", "DELIMITER"},
         local'.usage_bound = local.usage_bound, local'.given = local.given,
         local'.usage_sets = local.usage_sets, local'.delimiter_open = local.delimiter_open,
         local'.active_usage_set = local.active_usage_set
  PROVE  LocalsScoped'
<1>1. offset \in Nat /\ descriptor[offset + 1] = NextItem
  BY DEF ReadsOne
<1>2. UsagesBefore(offset + 2) = UsagesBefore(offset + 1)
  BY <1>1, UsagesBeforeKept
<1>3. InDelimiter(offset + 2) <=> InDelimiter(offset + 1)
  BY <1>1, SameScopeDelimiter
<1>4. BoundsScoped(local', offset + 2)
  BY <1>1, SameScopeBounds DEF LocalsScoped, BoundsScoped
<1> QED
  BY <1>2, <1>3, <1>4, LocalsScopedNext DEF LocalsScoped

\* An end of a range is what was said last.
LEMMA LocalsScopedBound ==
  ASSUME MapInv, ParserTypeOK, GlobalsScoped, LocalsScoped, SetUsageBound
  PROVE  LocalsScoped'
<1> DEFINE u == DecodeUsage(NextItem, global["USAGE_PAGE"])
           t == NextItem.tag
<1>1. ReadsOne /\ t \in UsageBounds
  BY ReadsIsOne DEF SetUsageBound
<1>2. offset \in Nat /\ descriptor[offset + 1] = NextItem /\ offset + 1 # 0
  BY <1>1 DEF ReadsOne
<1>3. t \notin MainTags \cup {"USAGE", "DELIMITER"}
  BY <1>1 DEF UsageBounds, MainTags, DataTags
<1>4. local \in Locals /\ local.usage_bound \in [UsageBounds -> Usages]
  BY DEF ParserTypeOK, Locals
<1>5. local' = [local EXCEPT !.usage_bound[t] = u, !.given = local.given \cup {t}]
  BY DEF SetUsageBound
<1>6. u = UsageOfItem(offset + 1)
  BY <1>2 DEF GlobalsScoped, GlobalTags, UsageOfItem
<1> HIDE DEF u, t
<1>7. /\ local'.usage_bound = [local.usage_bound EXCEPT ![t] = u]
      /\ local'.given = local.given \cup {t}
      /\ local'.usage_sets = local.usage_sets /\ local'.delimiter_open = local.delimiter_open
      /\ local'.active_usage_set = local.active_usage_set
  <2> DEFINE b == [local.usage_bound EXCEPT ![t] = u]
             g == local.given \cup {t}
  <2>1. local' = [local EXCEPT !.usage_bound = b, !.given = g]
    BY <1>5
  <2> HIDE DEF b, g
  <2>2. /\ local'.usage_bound = b /\ local'.given = g
        /\ local'.usage_sets = local.usage_sets /\ local'.delimiter_open = local.delimiter_open
        /\ local'.active_usage_set = local.active_usage_set
    BY <2>1, <1>4 DEF Locals
  <2> QED
    BY <2>2 DEF b, g
<1>8. \A tag \in UsageBounds :
        LastInScope(tag, offset + 2) = IF t = tag THEN offset + 1 ELSE LastInScope(tag, offset + 1)
  BY <1>2, <1>3, SameScopeLast DEF t
<1>9. BoundsScoped(local', offset + 2)
  <2> SUFFICES ASSUME NEW tag \in UsageBounds
               PROVE  /\ local'.usage_bound[tag] = BoundBefore(tag, offset + 2)
                      /\ tag \in local'.given <=> LastInScope(tag, offset + 2) # 0
    BY DEF BoundsScoped
  <2>1. /\ local.usage_bound[tag] = BoundBefore(tag, offset + 1)
        /\ tag \in local.given <=> LastInScope(tag, offset + 1) # 0
    BY DEF LocalsScoped, BoundsScoped
  <2>2. CASE tag = t
    <3>1. LastInScope(tag, offset + 2) = offset + 1
      BY <1>8, <2>2
    <3>2. BoundBefore(tag, offset + 2) = u
      BY <3>1, <1>2, <1>6 DEF BoundBefore
    <3>3. local'.usage_bound[tag] = u /\ tag \in local'.given
      BY <1>4, <1>7, <2>2
    <3> QED
      BY <3>1, <3>2, <3>3, <1>2
  <2>3. CASE tag # t
    <3>1. LastInScope(tag, offset + 2) = LastInScope(tag, offset + 1)
      BY <1>8, <2>3
    <3>2. BoundBefore(tag, offset + 2) = BoundBefore(tag, offset + 1)
      BY <3>1 DEF BoundBefore
    <3>3. local'.usage_bound[tag] = local.usage_bound[tag] /\ (tag \in local'.given <=> tag \in local.given)
      BY <1>4, <1>7, <2>3
    <3> QED
      BY <2>1, <3>1, <3>2, <3>3
  <2> QED
    BY <2>2, <2>3
<1>10. UsagesBefore(offset + 2) = UsagesBefore(offset + 1)
  BY <1>2, <1>3, UsagesBeforeKept DEF t
<1>11. InDelimiter(offset + 2) <=> InDelimiter(offset + 1)
  BY <1>2, <1>3, SameScopeDelimiter DEF t
<1> QED
  BY <1>1, <1>7, <1>9, <1>10, <1>11, LocalsScopedNext DEF LocalsScoped

LEMMA LocalsScopedUsage ==
  ASSUME MapInv, ParserTypeOK, GlobalsScoped, LocalsScoped, AddUsage
  PROVE  LocalsScoped'
<1> DEFINE sets == local.usage_sets
           a    == local.active_usage_set
           u    == DecodeUsage(NextItem, global["USAGE_PAGE"])
<1>1. ReadsOne /\ NextItem.tag = "USAGE"
  BY ReadsIsOne DEF AddUsage
<1>2. offset \in Nat /\ descriptor[offset + 1] = NextItem
  BY <1>1 DEF ReadsOne
<1>3. NextItem.tag \notin MainTags \cup UsageBounds /\ NextItem.tag # "DELIMITER"
  BY <1>1 DEF MainTags, DataTags, UsageBounds
<1>4. /\ local'.usage_sets = [sets EXCEPT ![a] = Append(sets[a], u)]
      /\ local'.delimiter_open = local.delimiter_open /\ local'.active_usage_set = a
      /\ local'.usage_bound = local.usage_bound /\ local'.given = local.given
  <2>1. local \in Locals
    BY DEF ParserTypeOK
  <2>2. local' = [local EXCEPT !.usage_sets = [sets EXCEPT ![a] = Append(sets[a], u)]]
    BY DEF AddUsage
  <2> DEFINE more == [sets EXCEPT ![a] = Append(sets[a], u)]
  <2> HIDE DEF more
  <2>3. local' = [local EXCEPT !.usage_sets = more]
    BY <2>2 DEF more
  <2>4. /\ local'.usage_sets = more
        /\ local'.delimiter_open = local.delimiter_open
        /\ local'.active_usage_set = local.active_usage_set
        /\ local'.usage_bound = local.usage_bound /\ local'.given = local.given
    BY <2>1, <2>3 DEF Locals
  <2> QED
    BY <2>4 DEF more
<1>5. a \in DOMAIN sets /\ 1 \in DOMAIN sets
  BY UsageSetsType
<1>6. InDelimiter(offset + 2) <=> InDelimiter(offset + 1)
  BY <1>2, <1>3, SameScopeDelimiter
<1>7. u = UsageOfItem(offset + 1)
  BY <1>2 DEF GlobalsScoped, GlobalTags, UsageOfItem
<1> HIDE DEF sets, a, u
<1>8. local'.usage_sets[1] = UsagesBefore(offset + 2)
  <2>1. CASE InDelimiter(offset + 1)
    <3>1. a # 1 /\ local'.usage_sets[1] = sets[1]
      BY <2>1, <1>4, <1>5 DEF LocalsScoped, a
    <3>2. UsagesBefore(offset + 2) = UsagesBefore(offset + 1)
      BY <2>1, <1>2, <1>3, UsagesBeforeKept
    <3> QED
      BY <3>1, <3>2 DEF LocalsScoped, sets
  <2>2. CASE ~InDelimiter(offset + 1)
    <3>1. a = 1 /\ local'.usage_sets[1] = Append(sets[1], u)
      BY <2>2, <1>4, <1>5 DEF LocalsScoped, a
    <3>2. UsagesBefore(offset + 2) = Append(UsagesBefore(offset + 1), u)
      BY <2>2, <1>1, <1>2, <1>7, UsagesBeforeAdded
    <3> QED
      BY <3>1, <3>2 DEF LocalsScoped, sets
  <2> QED
    BY <2>1, <2>2
<1>9. BoundsScoped(local', offset + 2)
  BY <1>2, <1>3, <1>4, SameScopeBounds DEF LocalsScoped, BoundsScoped
<1> QED
  BY <1>1, <1>4, <1>6, <1>8, <1>9, LocalsScopedNext DEF LocalsScoped, a

LEMMA LocalsScopedDelimiter ==
  ASSUME MapInv, ParserTypeOK, LocalsScoped, Delimit
  PROVE  LocalsScoped'
<1> DEFINE sets == local.usage_sets
<1>1. ReadsOne /\ NextItem.tag = "DELIMITER" /\ ~Refused(NextItem)
  BY ReadsIsOne DEF Delimit, Reads
<1>2. offset \in Nat /\ descriptor[offset + 1] = NextItem
  BY <1>1 DEF ReadsOne
<1>3. NextItem.tag \notin MainTags \cup UsageBounds /\ NextItem.tag # "USAGE"
  BY <1>1 DEF MainTags, DataTags, UsageBounds
<1>4. UsagesBefore(offset + 2) = UsagesBefore(offset + 1)
  BY <1>2, <1>3, UsagesBeforeKept
<1>5. InDelimiter(offset + 2) <=> NextItem.raw # 0
  BY <1>1, <1>2, <1>3, SameScopeDelimiter
<1>6. NextItem.raw = IF local.delimiter_open THEN 0 ELSE 1
  BY <1>1 DEF Refused
<1>7. /\ local \in Locals /\ sets \in Seq(Seq(Usages)) /\ Len(sets) \in Nat /\ 1 <= Len(sets)
      /\ 1 \in 1 .. Len(sets)
  BY UsageSetsType DEF ParserTypeOK
<1>8. local' = IF local.delimiter_open
               THEN [local EXCEPT !.delimiter_open = FALSE, !.active_usage_set = 1]
               ELSE [local EXCEPT !.delimiter_open = TRUE, !.usage_sets = Append(sets, <<>>),
                                  !.active_usage_set = Len(sets) + 1]
  BY DEF Delimit
<1>9. local'.usage_sets[1] = sets[1]
      /\ (local'.delimiter_open <=> ~local.delimiter_open)
      /\ (local'.delimiter_open <=> local'.active_usage_set # 1)
  <2>1. CASE local.delimiter_open
    <3>1. local'.usage_sets = sets /\ local'.delimiter_open = FALSE /\ local'.active_usage_set = 1
      BY <2>1, <1>7, <1>8 DEF Locals
    <3> HIDE DEF sets
    <3> QED
      BY <2>1, <3>1
  <2>2. CASE ~local.delimiter_open
    <3> DEFINE more == Append(sets, <<>>)
    <3>1. more[1] = sets[1]
      <4>1. IsSequence(sets) /\ 1 \in DOMAIN sets
        BY <1>7, SequenceOfItself, LenProperties
      <4> HIDE DEF sets
      <4> QED
        BY <4>1, SequenceAppend
    <3> HIDE DEF more
    <3>2. local' = [local EXCEPT !.delimiter_open = TRUE, !.usage_sets = more,
                                 !.active_usage_set = Len(sets) + 1]
      BY <2>2, <1>8 DEF more
    <3>3. /\ local'.usage_sets = more /\ local'.delimiter_open = TRUE
          /\ local'.active_usage_set = Len(sets) + 1
      BY <3>2, <1>7 DEF Locals
    <3>4. Len(sets) + 1 # 1
      BY <1>7
    <3> HIDE DEF sets
    <3> QED
      BY <2>2, <3>1, <3>3, <3>4
  <2> QED
    BY <2>1, <2>2
<1>10. local'.delimiter_open <=> InDelimiter(offset + 2)
  BY <1>5, <1>6, <1>9
<1>11. local'.usage_bound = local.usage_bound /\ local'.given = local.given
  <2> HIDE DEF sets
  <2> QED
    BY <1>7, <1>8 DEF Locals
<1>12. BoundsScoped(local', offset + 2)
  BY <1>2, <1>3, <1>11, SameScopeBounds DEF LocalsScoped, BoundsScoped
<1> QED
  BY <1>1, <1>4, <1>9, <1>10, <1>12, LocalsScopedNext DEF LocalsScoped

LEMMA LocalsScopedLocal ==
  ASSUME MapInv, ParserTypeOK, GlobalsScoped, LocalsScoped, LocalItem
  PROVE  LocalsScoped'
<1>1. local \in Locals
  BY DEF ParserTypeOK
<1>2. CASE AddIndex \/ SetBound
  <2>1. \E tags \in SUBSET (IndexTags \cup BoundTags) : Reads(tags)
    BY <1>2 DEF AddIndex, SetBound
  <2>2. ReadsOne /\ NextItem.tag \in IndexTags \cup BoundTags
    BY <2>1, ReadsIsOne
  <2>3. NextItem.tag \notin MainTags \cup UsageBounds \cup {"USAGE", "DELIMITER"}
    BY <2>2 DEF UsageBounds, IndexTags, BoundTags, MainTags, DataTags
  <2>4. /\ local'.usage_sets = local.usage_sets /\ local'.delimiter_open = local.delimiter_open
        /\ local'.active_usage_set = local.active_usage_set
        /\ local'.usage_bound = local.usage_bound /\ local'.given = local.given
    <3>1. \/ \E i : local' = [local EXCEPT !.index = i]
          \/ \E b : local' = [local EXCEPT !.bound = b]
      BY <1>2 DEF AddIndex, SetBound
    <3> QED
      BY <1>1, <3>1 DEF Locals
  <2> QED
    BY <2>2, <2>3, <2>4, LocalsScopedOther
<1>3. CASE SkipItem
  <2>1. ReadsOne /\ NextItem.tag \in {"LONG", "RESERVED", "RESERVED_MAIN"}
    BY <1>3, ReadsIsOne DEF SkipItem
  <2>2. CASE NextItem.tag = "RESERVED_MAIN"
    <3>1. local' = NoLocals /\ NextItem.tag \in MainTags
      BY <1>3, <2>2 DEF SkipItem, MainTags
    <3> QED
      BY <2>1, <3>1, LocalsScopedMain
  <2>3. CASE NextItem.tag # "RESERVED_MAIN"
    <3>1. local' = local /\ NextItem.tag \notin MainTags \cup UsageBounds \cup {"USAGE", "DELIMITER"}
      BY <1>3, <2>1, <2>3 DEF SkipItem, MainTags, DataTags, UsageBounds
    <3> QED
      BY <2>1, <3>1, LocalsScopedOther
  <2> QED
    BY <2>2, <2>3
<1> QED
  BY <1>2, <1>3, LocalsScopedBound, LocalsScopedUsage, LocalsScopedDelimiter DEF LocalItem

LEMMA LocalsScopedKept ==
  ASSUME MapInv, ParserTypeOK, GlobalsScoped, LocalsScoped, [Next]_vars
  PROVE  LocalsScoped'
<1>1. CASE LocalItem
  BY <1>1, LocalsScopedLocal
<1>2. CASE SetGlobal \/ PushGlobal \/ PopGlobal
  <2>1. \E tags \in SUBSET (GlobalTags \cup {"PUSH", "POP"}) : Reads(tags)
    BY <1>2 DEF SetGlobal, PushGlobal, PopGlobal
  <2>2. ReadsOne /\ NextItem.tag \in GlobalTags \cup {"PUSH", "POP"}
    BY <2>1, ReadsIsOne
  <2>3. NextItem.tag \notin MainTags \cup UsageBounds \cup {"USAGE", "DELIMITER"}
    BY <2>2 DEF GlobalTags, MainTags, DataTags, UsageBounds
  <2>4. local' = local
    BY <1>2 DEF SetGlobal, PushGlobal, PopGlobal
  <2> QED
    BY <2>2, <2>3, <2>4, LocalsScopedOther
<1>3. CASE BeginCollection \/ EndCollection \/ AddField
  <2>1. \E tags \in SUBSET (DataTags \cup {"COLLECTION", "END_COLLECTION"}) : Reads(tags)
    BY <1>3 DEF BeginCollection, EndCollection, AddField
  <2>2. ReadsOne /\ NextItem.tag \in DataTags \cup {"COLLECTION", "END_COLLECTION"}
    BY <2>1, ReadsIsOne
  <2>3. NextItem.tag \in MainTags
    BY <2>2 DEF MainTags
  <2>4. local' = NoLocals
    BY <1>3 DEF BeginCollection, EndCollection, AddField
  <2> QED
    BY <2>2, <2>3, <2>4, LocalsScopedMain
<1>4. CASE Fail \/ Finish \/ UNCHANGED vars
  <2>1. UNCHANGED <<descriptor, offset, local>>
    BY <1>4 DEF Fail, Finish, vars, inputVars, stackVars, mapVars
  <2> QED
    BY <2>1, SameItems DEF LocalsScoped
<1> QED
  BY <1>1, <1>2, <1>3, <1>4 DEF Next, LocalItem

-----------------------------------------------------------------------------
(* The stack of collections. *)

LEMMA StackNestsNext ==
  ASSUME ReadsOne, StackNests, IsSequence(collection_stack'),
         Len(collection_stack') = Depth("COLLECTION", "END_COLLECTION", offset + 1),
         \A d \in DOMAIN collection_stack' : \E p \in 1 .. offset + 1 :
           /\ Opens("COLLECTION", "END_COLLECTION", p, d, offset + 1)
           /\ collection_stack'[d] = RankOf({"COLLECTION"}, p) - 1
  PROVE  StackNests'
<1>1. offset' = offset + 1 /\ descriptor' = descriptor /\ offset \in Nat
  BY DEF ReadsOne
<1>2. Len(collection_stack') = Depth("COLLECTION", "END_COLLECTION", offset)'
  BY <1>1, SameItems
<1>3. \A d \in DOMAIN collection_stack' : \E p \in 1 .. offset' :
        /\ Opens("COLLECTION", "END_COLLECTION", p, d, offset)'
        /\ collection_stack'[d] = RankOf({"COLLECTION"}, p)' - 1
  BY <1>1, SameItems
<1>4. \A k \in 0 .. offset + 1 : Depth("COLLECTION", "END_COLLECTION", k) >= 0
  <2>1. 0 .. offset + 1 = (0 .. offset) \cup {offset + 1}
    BY <1>1
  <2>2. Len(collection_stack') >= 0
    BY SequenceFacts
  <2> QED
    BY <2>1, <2>2 DEF StackNests
<1>5. \A k \in 0 .. offset' : Depth("COLLECTION", "END_COLLECTION", k)' >= 0
  BY <1>1, <1>4, SameItems
<1> QED
  BY <1>2, <1>3, <1>5 DEF StackNests

LEMMA CollectionStackKept ==
  ASSUME StackNests, ReadsOne, NEW d \in DOMAIN collection_stack,
         Depth("COLLECTION", "END_COLLECTION", offset + 1) >= d
  PROVE  \E p \in 1 .. offset + 1 :
           /\ Opens("COLLECTION", "END_COLLECTION", p, d, offset + 1)
           /\ collection_stack[d] = RankOf({"COLLECTION"}, p) - 1
<1>1. PICK p \in 1 .. offset :
        /\ Opens("COLLECTION", "END_COLLECTION", p, d, offset)
        /\ collection_stack[d] = RankOf({"COLLECTION"}, p) - 1
  BY DEF StackNests
<1>2. Opens("COLLECTION", "END_COLLECTION", p, d, offset + 1)
  <2>1. "COLLECTION" # "END_COLLECTION" /\ offset \in Nat
    BY DEF ReadsOne
  <2> QED
    BY <1>1, <2>1, OpensKept
<1>3. p \in 1 .. offset + 1
  BY DEF ReadsOne
<1> QED
  BY <1>1, <1>2, <1>3

LEMMA StackNestsOther ==
  ASSUME StackNests, ReadsOne, NextItem.tag \notin {"COLLECTION", "END_COLLECTION"},
         collection_stack' = collection_stack
  PROVE  StackNests'
<1>1. offset \in Nat /\ descriptor[offset + 1] = NextItem
  BY DEF ReadsOne
<1>2. Depth("COLLECTION", "END_COLLECTION", offset + 1) = Depth("COLLECTION", "END_COLLECTION", offset)
  BY <1>1, DepthFacts
<1>3. IsSequence(collection_stack)
      /\ Len(collection_stack) = Depth("COLLECTION", "END_COLLECTION", offset + 1)
  BY <1>2 DEF StackNests
<1>4. \A d \in DOMAIN collection_stack : Depth("COLLECTION", "END_COLLECTION", offset + 1) >= d
  BY <1>3, SequenceFacts
<1> QED
  BY <1>3, <1>4, CollectionStackKept, StackNestsNext

LEMMA StackNestsBegin ==
  ASSUME MapInv, StackNests, CollectionsPlaced, BeginCollection
  PROVE  StackNests'
<1> DEFINE n == offset
           l == Len(collection_stack)
           D(k) == Depth("COLLECTION", "END_COLLECTION", k)
<1>1. /\ ReadsOne /\ NextItem.tag = "COLLECTION"
      /\ collection_stack' = Append(collection_stack, Len(collections_))
  BY ReadsIsOne DEF BeginCollection
<1>2. n \in Nat /\ descriptor[n + 1] = NextItem /\ n + 1 \in 1 .. n + 1
  BY <1>1 DEF ReadsOne
<1>3. /\ IsSequence(collection_stack) /\ l \in Nat /\ DOMAIN collection_stack = 1 .. l
      /\ IsSequence(collection_stack')
      /\ Len(collection_stack') = l + 1 /\ DOMAIN collection_stack' = 1 .. l + 1
      /\ \A d \in 1 .. l : collection_stack'[d] = collection_stack[d]
      /\ collection_stack'[l + 1] = Len(collections_)
  BY <1>1, SequenceFacts, SequenceAppend DEF StackNests
<1>4. l = D(n) /\ D(n + 1) = D(n) + 1
  BY <1>1, <1>2, DepthFacts DEF StackNests
<1>5. ASSUME NEW d \in 1 .. l
      PROVE  \E p \in 1 .. n + 1 : /\ Opens("COLLECTION", "END_COLLECTION", p, d, n + 1)
                                   /\ collection_stack'[d] = RankOf({"COLLECTION"}, p) - 1
  <2>1. d \in DOMAIN collection_stack /\ D(n + 1) >= d
    BY <1>3, <1>4
  <2> QED
    BY <2>1, <1>1, <1>3, CollectionStackKept
<1>6. /\ Opens("COLLECTION", "END_COLLECTION", n + 1, l + 1, n + 1)
      /\ collection_stack'[l + 1] = RankOf({"COLLECTION"}, n + 1) - 1
  <2>1. Opens("COLLECTION", "END_COLLECTION", n + 1, D(n) + 1, n + 1)
    BY <1>1, <1>2, OpensNew
  <2>2. /\ Len(collections_) = RankOf({"COLLECTION"}, n) /\ RankOf({"COLLECTION"}, n) \in Nat
        /\ RankOf({"COLLECTION"}, n + 1) = RankOf({"COLLECTION"}, n) + 1
    BY <1>1, <1>2, RankFacts DEF CollectionsPlaced
  <2> QED
    BY <2>1, <2>2, <1>3, <1>4
<1>7. \A d \in 1 .. l + 1 : d \in 1 .. l \/ d = l + 1
  BY <1>3
<1>8. \A d \in DOMAIN collection_stack' : \E p \in 1 .. n + 1 :
         /\ Opens("COLLECTION", "END_COLLECTION", p, d, n + 1)
         /\ collection_stack'[d] = RankOf({"COLLECTION"}, p) - 1
  <2> HIDE DEF n, l
  <2> QED
    BY <1>2, <1>3, <1>5, <1>6, <1>7
<1> QED
  BY <1>1, <1>3, <1>4, <1>8, StackNestsNext

LEMMA StackNestsEnd ==
  ASSUME MapInv, StackNests, EndCollection
  PROVE  StackNests'
<1> DEFINE n == offset
           l == Len(collection_stack)
           D(k) == Depth("COLLECTION", "END_COLLECTION", k)
<1>1. /\ ReadsOne /\ NextItem.tag = "END_COLLECTION" /\ collection_stack # <<>>
      /\ collection_stack' = Front(collection_stack)
  <2>1. Reads({"END_COLLECTION"}) /\ ~Refused(NextItem)
    BY DEF EndCollection, Reads
  <2> QED
    BY <2>1, ReadsIsOne DEF EndCollection, Refused
<1>2. n \in Nat /\ descriptor[n + 1] = NextItem
  BY <1>1 DEF ReadsOne
<1>3. IsSequence(collection_stack) /\ l \in Nat /\ DOMAIN collection_stack = 1 .. l
  BY SequenceFacts DEF StackNests
<1>4. /\ DOMAIN collection_stack' \subseteq DOMAIN collection_stack
      /\ \A d \in DOMAIN collection_stack' : collection_stack'[d] = collection_stack[d]
      /\ IsSequence(collection_stack') /\ Len(collection_stack') = l - 1
  BY <1>1, <1>3, SequencePop
<1>5. l = D(n) /\ D(n + 1) = D(n) - 1
  BY <1>1, <1>2, DepthFacts DEF StackNests
<1>6. ASSUME NEW d \in DOMAIN collection_stack'
      PROVE  d \in DOMAIN collection_stack /\ D(n + 1) >= d
  <2>1. d \in 1 .. l - 1
    BY <1>4, SequenceFacts
  <2> QED
    BY <2>1, <1>3, <1>4, <1>5
<1>7. \A d \in DOMAIN collection_stack' : \E p \in 1 .. n + 1 :
        /\ Opens("COLLECTION", "END_COLLECTION", p, d, n + 1)
        /\ collection_stack'[d] = RankOf({"COLLECTION"}, p) - 1
  BY <1>1, <1>4, <1>6, CollectionStackKept
<1> QED
  BY <1>1, <1>4, <1>5, <1>7, StackNestsNext

LEMMA StackNestsKept ==
  ASSUME MapInv, StackNests, CollectionsPlaced, [Next]_vars
  PROVE  StackNests'
<1>1. CASE SetGlobal \/ PushGlobal \/ PopGlobal
  BY <1>1, GlobalItemFacts, StackNestsOther
<1>2. CASE LocalItem
  BY <1>2, LocalItemFacts, StackNestsOther
<1>3. CASE BeginCollection
  BY <1>3, StackNestsBegin
<1>4. CASE EndCollection
  BY <1>4, StackNestsEnd
<1>5. CASE AddField
  BY <1>5, FieldItemFacts, StackNestsOther
<1>6. CASE Fail \/ Finish \/ UNCHANGED vars
  <2>1. UNCHANGED <<descriptor, offset, collection_stack>>
    BY <1>6, StopFacts
  <2> QED
    BY <2>1, SameItems DEF StackNests
<1> QED
  BY <1>1, <1>2, <1>3, <1>4, <1>5, <1>6 DEF Next, LocalItem

-----------------------------------------------------------------------------
(* What a collection and a field get from the stack. *)

\* The top of the stack is the innermost collection open before the next item.
LEMMA InnermostEncloses ==
  ASSUME StackNests, offset \in Nat
  PROVE  EnclosedBy(offset + 1, Innermost)
<1> DEFINE n == offset
           l == Len(collection_stack)
           D(k) == Depth("COLLECTION", "END_COLLECTION", k)
<1>1. OpenItems(n + 1) = {i \in 1 .. n : /\ descriptor[i].tag = "COLLECTION"
                                         /\ Alive("COLLECTION", "END_COLLECTION", i, n)}
  <2>1. (n + 1) - 1 = n
    OBVIOUS
  <2> QED
    BY <2>1 DEF OpenItems
<1>2. IsSequence(collection_stack) /\ l \in Nat /\ DOMAIN collection_stack = 1 .. l /\ l = D(n)
  BY SequenceFacts DEF StackNests
<1>3. ASSUME NEW i \in OpenItems(n + 1)
      PROVE  /\ i \in 1 .. n /\ D(i) <= l /\ i - 1 \in 0 .. n
             /\ D(i - 1) \in Int /\ D(i) \in Int /\ D(i - 1) < D(i)
  <2>1. /\ i \in 1 .. n /\ descriptor[i].tag = "COLLECTION"
        /\ Alive("COLLECTION", "END_COLLECTION", i, n)
    BY <1>1
  <2>2. i \in Nat \ {0} /\ i \in Nat /\ i - 1 \in Nat /\ i - 1 \in 0 .. n /\ n \in i .. n
    BY <2>1
  <2>3. D(i - 1) = D(i) - 1
    BY <2>1, <2>2, BeforeOpener
  <2>4. D(n) >= D(i)
    BY <2>1, <2>2 DEF Alive
  <2>5. D(i) \in Int
    BY <2>2, DepthType
  <2> QED
    BY <2>1, <2>2, <2>3, <2>4, <2>5, <1>2
<1> HIDE DEF D
<1>4. CASE collection_stack = <<>>
  <2>1. l = 0 /\ Innermost = NoParent
    BY <1>4, EmptySeq DEF Innermost
  <2>2. ASSUME NEW i \in OpenItems(n + 1) PROVE FALSE
    <3>1. D(i - 1) >= 0
      BY <1>3 DEF StackNests, D
    <3> QED
      BY <3>1, <2>1, <1>3
  <2> QED
    BY <2>1, <2>2 DEF EnclosedBy
<1>5. CASE collection_stack # <<>>
  <2>1. l \in DOMAIN collection_stack /\ Innermost = collection_stack[l]
    BY <1>2, <1>5, SequencePop DEF Innermost
  <2>2. PICK p \in 1 .. n : /\ Opens("COLLECTION", "END_COLLECTION", p, l, n)
                            /\ collection_stack[l] = RankOf({"COLLECTION"}, p) - 1
    BY <2>1 DEF StackNests
  <2>3. p \in OpenItems(n + 1) /\ \A k \in p .. n : D(k) >= l
    BY <2>2, <1>1 DEF Opens, Alive, D
  <2>4. ASSUME NEW j \in OpenItems(n + 1), ~(j <= p) PROVE FALSE
    <3>1. j - 1 \in p .. n
      BY <2>2, <2>4, <1>3
    <3>2. D(j - 1) >= l
      BY <3>1, <2>3
    <3> QED
      BY <3>2, <1>2, <1>3, <2>4
  <2> QED
    BY <2>1, <2>2, <2>3, <2>4 DEF EnclosedBy
<1> QED
  BY <1>4, <1>5

LEMMA CollectionsPlacedNext ==
  ASSUME ReadsOne, IsSequence(collections_'),
         Len(collections_') = RankOf({"COLLECTION"}, offset + 1),
         \A c \in DOMAIN collections_' :
           \E i \in 1 .. offset + 1 : CollectionPlaced(collections_'[c], c, i)
  PROVE  CollectionsPlaced'
<1>1. offset' = offset + 1 /\ descriptor' = descriptor
  BY DEF ReadsOne
<1>2. Len(collections_') = RankOf({"COLLECTION"}, offset)'
  BY <1>1, SameItems
<1>3. \A c \in DOMAIN collections_' : \E i \in 1 .. offset' : CollectionPlaced(collections_[c], c, i)'
  BY <1>1, SameItems
<1> QED
  BY <1>2, <1>3 DEF CollectionsPlaced

LEMMA CollectionsPlacedOther ==
  ASSUME CollectionsPlaced, ReadsOne, NextItem.tag # "COLLECTION", collections_' = collections_
  PROVE  CollectionsPlaced'
<1>1. offset \in Nat /\ descriptor[offset + 1] = NextItem /\ 1 .. offset \subseteq 1 .. offset + 1
  BY DEF ReadsOne
<1>2. RankOf({"COLLECTION"}, offset + 1) = RankOf({"COLLECTION"}, offset)
  <2>1. RankOf({"COLLECTION"}, offset) \in Nat /\ descriptor[offset + 1].tag \notin {"COLLECTION"}
    BY <1>1, RankFacts
  <2> QED
    BY <1>1, <2>1, RankFacts
<1>3. /\ IsSequence(collections_) /\ Len(collections_) = RankOf({"COLLECTION"}, offset)
      /\ \A c \in DOMAIN collections_ : \E i \in 1 .. offset : CollectionPlaced(collections_[c], c, i)
  BY DEF CollectionsPlaced
<1>4. \A c \in DOMAIN collections_ :
        \E i \in 1 .. offset + 1 : CollectionPlaced(collections_[c], c, i)
  BY <1>1, <1>3
<1> QED
  BY <1>2, <1>3, <1>4, CollectionsPlacedNext

LEMMA CollectionsPlacedBegin ==
  ASSUME MapInv, LocalsScoped, StackNests, CollectionsPlaced, BeginCollection
  PROVE  CollectionsPlaced'
<1> DEFINE n == offset
           l == Len(collections_)
<1>1. ReadsOne /\ NextItem.tag = "COLLECTION"
  BY ReadsIsOne DEF BeginCollection
<1>2. PICK new : /\ collections_' = Append(collections_, new)
                 /\ new.id = l /\ new.parent = Innermost
                 /\ new.usage = IF local.usage_sets[1] # <<>> THEN Head(local.usage_sets[1])
                                ELSE local.usage_bound["USAGE_MINIMUM"]
  BY DEF BeginCollection
<1>3. n \in Nat /\ descriptor[n + 1] = NextItem /\ n + 1 \in 1 .. n + 1 /\ 1 .. n \subseteq 1 .. n + 1
  BY <1>1 DEF ReadsOne
<1>4. /\ l \in Nat /\ DOMAIN collections_ = 1 .. l
      /\ IsSequence(collections_')
      /\ Len(collections_') = l + 1 /\ DOMAIN collections_' = 1 .. l + 1
      /\ \A c \in 1 .. l : collections_'[c] = collections_[c]
      /\ collections_'[l + 1] = new
  BY <1>2, SequenceFacts, SequenceAppend DEF CollectionsPlaced
<1>5. l = RankOf({"COLLECTION"}, n) /\ RankOf({"COLLECTION"}, n + 1) = l + 1
  <2>1. /\ Len(collections_) = RankOf({"COLLECTION"}, n) /\ RankOf({"COLLECTION"}, n) \in Nat
        /\ RankOf({"COLLECTION"}, n + 1) = RankOf({"COLLECTION"}, n) + 1
    BY <1>1, <1>3, RankFacts DEF CollectionsPlaced
  <2> QED
    BY <2>1
<1>6. CollectionPlaced(new, l + 1, n + 1)
  <2>1. /\ EnclosedBy(n + 1, Innermost) /\ local.usage_sets[1] = UsagesBefore(n + 1)
        /\ local.usage_bound["USAGE_MINIMUM"] = BoundBefore("USAGE_MINIMUM", n + 1)
    BY <1>3, InnermostEncloses DEF LocalsScoped, BoundsScoped, UsageBounds
  <2>2. (l + 1) - 1 = l
    BY <1>4
  <2> HIDE DEF l, n
  <2> QED
    BY <2>1, <2>2, <1>1, <1>2, <1>3, <1>5 DEF CollectionPlaced
<1>7. \A c \in 1 .. l : \E i \in 1 .. n : CollectionPlaced(collections_[c], c, i)
  BY <1>4 DEF CollectionsPlaced
<1>8. \A c \in 1 .. l + 1 : c \in 1 .. l \/ c = l + 1
  BY <1>4
<1>9. \A c \in DOMAIN collections_' : \E i \in 1 .. n + 1 : CollectionPlaced(collections_'[c], c, i)
  <2> HIDE DEF n, l
  <2> QED
    BY <1>3, <1>4, <1>6, <1>7, <1>8
<1> QED
  BY <1>1, <1>4, <1>5, <1>9, CollectionsPlacedNext

LEMMA CollectionsPlacedKept ==
  ASSUME MapInv, LocalsScoped, StackNests, CollectionsPlaced, [Next]_vars
  PROVE  CollectionsPlaced'
<1>1. CASE SetGlobal \/ PushGlobal \/ PopGlobal
  BY <1>1, GlobalItemFacts, CollectionsPlacedOther
<1>2. CASE LocalItem
  BY <1>2, LocalItemFacts, CollectionsPlacedOther
<1>3. CASE BeginCollection
  BY <1>3, CollectionsPlacedBegin
<1>4. CASE EndCollection
  <2>1. ReadsOne /\ NextItem.tag = "END_COLLECTION" /\ collections_' = collections_
    BY <1>4, ReadsIsOne DEF EndCollection, mapVars
  <2> QED
    BY <2>1, CollectionsPlacedOther
<1>5. CASE AddField
  BY <1>5, FieldItemFacts, CollectionsPlacedOther
<1>6. CASE Fail \/ Finish \/ UNCHANGED vars
  <2>1. UNCHANGED <<descriptor, offset, collections_>>
    BY <1>6, StopFacts
  <2> QED
    BY <2>1, SameItems DEF CollectionsPlaced
<1> QED
  BY <1>1, <1>2, <1>3, <1>4, <1>5, <1>6 DEF Next, LocalItem

-----------------------------------------------------------------------------
(* Fields. *)

LEMMA FieldsPlacedNext ==
  ASSUME ReadsOne, Len(fields_') = RankOf(DataTags, offset + 1),
         \A f \in DOMAIN fields_' : \E i \in 1 .. offset + 1 : Placed(fields_'[f], f, i)
  PROVE  FieldsPlaced'
<1>1. offset' = offset + 1 /\ descriptor' = descriptor
  BY DEF ReadsOne
<1>2. Len(fields_') = RankOf(DataTags, offset)'
  BY <1>1, SameItems
<1>3. \A f \in DOMAIN fields_' : \E i \in 1 .. offset' : Placed(fields_[f], f, i)'
  BY <1>1, SameItems
<1> QED
  BY <1>2, <1>3 DEF FieldsPlaced

LEMMA FieldsPlacedOther ==
  ASSUME FieldsPlaced, ReadsOne, NextItem.tag \notin DataTags, fields_' = fields_
  PROVE  FieldsPlaced'
<1>1. offset \in Nat /\ descriptor[offset + 1] = NextItem /\ 1 .. offset \subseteq 1 .. offset + 1
  BY DEF ReadsOne
<1>2. RankOf(DataTags, offset + 1) = RankOf(DataTags, offset)
  <2>1. RankOf(DataTags, offset) \in Nat
    BY <1>1, RankFacts
  <2> QED
    BY <1>1, <2>1, RankFacts
<1>3. Len(fields_) = RankOf(DataTags, offset)
      /\ \A f \in DOMAIN fields_ : \E i \in 1 .. offset : Placed(fields_[f], f, i)
  BY DEF FieldsPlaced
<1>4. \A f \in DOMAIN fields_ : \E i \in 1 .. offset + 1 : Placed(fields_[f], f, i)
  BY <1>1, <1>3
<1> QED
  BY <1>2, <1>3, <1>4, FieldsPlacedNext

LEMMA FieldsPlacedAdd ==
  ASSUME MapInv, GlobalsScoped, LocalsScoped, StackNests, FieldsPlaced, AddField
  PROVE  FieldsPlaced'
<1> DEFINE n == offset
           l == Len(fields_)
<1>1. ReadsOne /\ NextItem.tag \in DataTags
  BY ReadsIsOne DEF AddField
<1>2. PICK new : /\ fields_' = Append(fields_, new)
                 /\ new.global = global /\ new.local = local /\ new.collection_id = Innermost
  BY DEF AddField
<1>3. n \in Nat /\ descriptor[n + 1] = NextItem /\ n + 1 \in 1 .. n + 1 /\ 1 .. n \subseteq 1 .. n + 1
  BY <1>1 DEF ReadsOne
<1>4. /\ l \in Nat /\ DOMAIN fields_ = 1 .. l
      /\ Len(fields_') = l + 1 /\ DOMAIN fields_' = 1 .. l + 1
      /\ \A f \in 1 .. l : fields_'[f] = fields_[f]
      /\ fields_'[l + 1] = new
  BY <1>2, SequenceFacts, SequenceAppend, LenProperties DEF MapInv, Sized, IsSequence
<1>5. l = RankOf(DataTags, n) /\ RankOf(DataTags, n + 1) = l + 1
  BY <1>1, <1>3, RankFacts DEF FieldsPlaced
<1>6. /\ EnclosedBy(n + 1, Innermost) /\ local.usage_sets[1] = UsagesBefore(n + 1)
      /\ BoundsScoped(local, n + 1)
      /\ \A tag \in GlobalTags : global[tag] = GlobalBefore(tag, n + 1)
  BY <1>3, InnermostEncloses DEF GlobalsScoped, LocalsScoped
<1>7. Placed(new, l + 1, n + 1)
  BY <1>1, <1>2, <1>3, <1>5, <1>6 DEF Placed
<1>8. \A f \in 1 .. l : \E i \in 1 .. n : Placed(fields_[f], f, i)
  BY <1>4 DEF FieldsPlaced
<1>9. \A f \in 1 .. l + 1 : f \in 1 .. l \/ f = l + 1
  BY <1>4
<1>10. \A f \in DOMAIN fields_' : \E i \in 1 .. n + 1 : Placed(fields_'[f], f, i)
  <2> HIDE DEF n, l
  <2> QED
    BY <1>3, <1>4, <1>7, <1>8, <1>9
<1> QED
  BY <1>1, <1>4, <1>5, <1>10, FieldsPlacedNext

LEMMA FieldsPlacedKept ==
  ASSUME MapInv, GlobalsScoped, LocalsScoped, StackNests, FieldsPlaced, [Next]_vars
  PROVE  FieldsPlaced'
<1>1. CASE SetGlobal \/ PushGlobal \/ PopGlobal
  BY <1>1, GlobalItemFacts, FieldsPlacedOther
<1>2. CASE LocalItem
  BY <1>2, LocalItemFacts, FieldsPlacedOther
<1>3. CASE BeginCollection \/ EndCollection
  BY <1>3, CollectionItemFacts, FieldsPlacedOther
<1>4. CASE AddField
  BY <1>4, FieldsPlacedAdd
<1>5. CASE Fail \/ Finish \/ UNCHANGED vars
  <2>1. UNCHANGED <<descriptor, offset, fields_>>
    BY <1>5, StopFacts
  <2> QED
    BY <2>1, SameItems DEF FieldsPlaced
<1> QED
  BY <1>1, <1>2, <1>3, <1>4, <1>5 DEF Next, LocalItem

\* Nothing is read once the map is valid, and it becomes so with an empty stack.
LEMMA ValidIsClosedKept ==
  ASSUME MapInv, ValidIsClosed, [Next]_vars
  PROVE  ValidIsClosed'
<1>1. CASE \E tags : Reads(tags)
  BY <1>1 DEF Reads, Reading, ValidIsClosed
<1>2. CASE Fail
  BY <1>2 DEF Fail, ValidIsClosed
<1>3. CASE Finish
  BY <1>3 DEF Finish, ValidIsClosed, stackVars
<1>4. CASE UNCHANGED vars
  BY <1>4 DEF vars, inputVars, stackVars, ValidIsClosed
<1> QED
  BY <1>1, <1>2, <1>3, <1>4 DEF Next, SetGlobal, PushGlobal, PopGlobal, AddUsage, SetUsageBound,
     AddIndex, SetBound, Delimit, BeginCollection, EndCollection, AddField, SkipItem

-----------------------------------------------------------------------------
(* The invariant. *)

LEMMA NoLocalsAtStart ==
  /\ NoLocals.usage_sets[1] = UsagesBefore(0 + 1) /\ ~InDelimiter(0 + 1)
  /\ ~NoLocals.delimiter_open /\ NoLocals.active_usage_set = 1
  /\ BoundsScoped(NoLocals, 0 + 1)
<1>1. 0 \in Nat /\ ScopeBegins(0 + 1) \in 0 .. 0
  BY ScopeBeginsFacts
<1>2. ScopeBegins(0 + 1) = 0
  BY <1>1
<1>3. UsagesBefore(0 + 1) = <<>> /\ ~InDelimiter(0 + 1) /\ BoundsScoped(NoLocals, 0 + 1)
  BY <1>1, <1>2, NewScope
<1> QED
  BY <1>3 DEF NoLocals

LEMMA ScopeInit == DecoderInit => ScopeInv
<1> SUFFICES ASSUME DecoderInit PROVE ScopeInv
  OBVIOUS
<1>1. /\ offset = 0 /\ global = NoGlobals /\ global_stack = <<>> /\ collection_stack = <<>>
      /\ collections_ = <<>> /\ fields_ = <<>>
  BY DEF DecoderInit, Init
<1>2. IsSequence(<<>>) /\ DOMAIN <<>> = {} /\ Len(<<>>) = 0
  <2>1. <<>> \in Seq({}) /\ DOMAIN <<>> = {} /\ Len(<<>>) = 0
    BY EmptySeq
  <2> QED
    BY <2>1, SequenceOfItself
<1>3. Depth("PUSH", "POP", 0) = 0 /\ Depth("COLLECTION", "END_COLLECTION", 0) = 0
  BY DepthFacts
<1>4. RankOf({"COLLECTION"}, 0) = 0 /\ RankOf(DataTags, 0) = 0
  BY RankFacts
<1>5. ASSUME NEW tag \in GlobalTags PROVE global[tag] = GlobalBefore(tag, offset + 1)
  <2>1. InForce(tag, 0) = 0
    <3>1. Standing(tag, 0) = {}
      BY DEF Standing
    <3> QED
      BY <3>1, InForceFacts
  <2>2. GlobalBefore(tag, 1) = 0
    BY <2>1 DEF GlobalBefore
  <2> QED
    BY <2>2, <1>1 DEF NoGlobals
<1>6. GlobalsScoped
  BY <1>1, <1>2, <1>3, <1>5 DEF GlobalsScoped
<1>7. StackNests
  <2>1. \A k \in 0 .. 0 : k = 0
    OBVIOUS
  <2> QED
    BY <2>1, <1>1, <1>2, <1>3 DEF StackNests
<1>8. CollectionsPlaced /\ FieldsPlaced /\ ValidIsClosed
  BY <1>1, <1>2, <1>4 DEF CollectionsPlaced, FieldsPlaced, ValidIsClosed
<1>9. LocalsScoped
  <2>1. local = NoLocals
    BY DEF DecoderInit, Init
  <2> QED
    BY <1>1, <2>1, NoLocalsAtStart DEF LocalsScoped
<1> QED
  BY <1>6, <1>7, <1>8, <1>9 DEF ScopeInv

LEMMA ScopeStep ==
  ASSUME MapInv, ParserTypeOK, ScopeInv, [DecoderNext]_allVars
  PROVE  ScopeInv'
<1>1. [Next]_vars
  BY DEF DecoderNext, ProcessInputReport, allVars
<1> QED
  BY <1>1, GlobalsScopedKept, LocalsScopedKept, StackNestsKept, CollectionsPlacedKept, FieldsPlacedKept,
     ValidIsClosedKept DEF ScopeInv

LEMMA ScopeInvariant == DecoderSpec => [](MapInv /\ ScopeInv)
<1>1. MapInv /\ ParserTypeOK /\ ScopeInv /\ [DecoderNext]_allVars => ScopeInv'
  BY ScopeStep
<1> QED
  BY MapInvariant, ParserKeepsTypes, ScopeInit, <1>1, PTL DEF DecoderSpec

\* Every field has the globals in force where its item stands: a Pop brings back all
\* of them, and nothing set between Push and Pop reaches a field after the Pop.  The
\* run's property, for every Report Map.
THEOREM FieldsGetGlobalsInForce == DecoderSpec => []GlobalsAreScoped
<1>1. MapInv /\ ScopeInv => GlobalsAreScoped
  <2> SUFFICES ASSUME MapInv, ScopeInv, NEW f \in DOMAIN fields_, NEW tag \in GlobalTags
               PROVE  fields_[f].global[tag] = GlobalBefore(tag, ItemOf(DataTags, f))
    BY DEF GlobalsAreScoped
  <2>1. PICK i \in 1 .. offset : Placed(fields_[f], f, i)
    BY DEF ScopeInv, FieldsPlaced
  <2>2. ItemOf(DataTags, f) = i
    BY <2>1, ItemOfRank DEF Placed, MapInv, ItemsTyped
  <2> QED
    BY <2>1, <2>2 DEF Placed
<1> QED
  BY <1>1, ScopeInvariant, PTL

\* Every field and every collection has the usages and the range of usages that its
\* own scope gave outside Delimiters: none of an earlier item's, and no alternative.
\* The run's property, for every Report Map (LocalState, cleared at each main item).
THEOREM UsagesGoToTheirItem == DecoderSpec => []UsagesBelongToOneItem
<1>1. MapInv /\ ScopeInv => UsagesBelongToOneItem
  <2> SUFFICES ASSUME MapInv, ScopeInv PROVE UsagesBelongToOneItem
    OBVIOUS
  <2>1. offset \in Nat
    BY DEF MapInv, ItemsTyped
  <2>2. ASSUME NEW f \in DOMAIN fields_
        PROVE  /\ fields_[f].local.usage_sets[1] = UsagesBefore(ItemOf(DataTags, f))
               /\ BoundsScoped(fields_[f].local, ItemOf(DataTags, f))
    <3>1. PICK i \in 1 .. offset : Placed(fields_[f], f, i)
      BY DEF ScopeInv, FieldsPlaced
    <3>2. ItemOf(DataTags, f) = i
      BY <2>1, <3>1, ItemOfRank DEF Placed
    <3> QED
      BY <3>1, <3>2 DEF Placed
  <2>3. ASSUME NEW c \in DOMAIN collections_, NEW n, n = ItemOf({"COLLECTION"}, c)
        PROVE  collections_[c].usage = IF UsagesBefore(n) # <<>> THEN Head(UsagesBefore(n))
                                       ELSE BoundBefore("USAGE_MINIMUM", n)
    <3>1. PICK i \in 1 .. offset : CollectionPlaced(collections_[c], c, i)
      BY DEF ScopeInv, CollectionsPlaced
    <3>2. n = i
      BY <2>1, <2>3, <3>1, ItemOfRank DEF CollectionPlaced
    <3> QED
      BY <3>1, <3>2 DEF CollectionPlaced
  <2> QED
    BY <2>2, <2>3 DEF UsagesBelongToOneItem, BoundsScoped
<1> QED
  BY <1>1, ScopeInvariant, PTL

\* What encloses an item is what OpenAt finds among the collections.
LEMMA EnclosedIsOpenAt ==
  ASSUME offset \in Nat, CollectionsPlaced, NEW n \in 1 .. offset, NEW id, EnclosedBy(n, id)
  PROVE  OpenAt(n) = id
<1> DEFINE Rank(i) == RankOf({"COLLECTION"}, i)
           open == {c \in DOMAIN collections_ :
                      LET i == ItemOf({"COLLECTION"}, c)
                      IN  i < n /\ \A k \in i .. n - 1 : CollectionDepth(k) >= CollectionDepth(i)}
<1>1. OpenAt(n) = IF open = {} THEN NoParent ELSE Max(open) - 1
  BY DEF OpenAt
<1>2. \A k : CollectionDepth(k) = Depth("COLLECTION", "END_COLLECTION", k)
  BY DEF CollectionDepth, Depth
<1>3. DOMAIN collections_ = 1 .. Rank(offset) /\ Rank(offset) \in Nat
  BY SequenceFacts, RankFacts DEF CollectionsPlaced
<1>4. ASSUME NEW i \in OpenItems(n)
      PROVE  /\ i \in 1 .. offset /\ i < n /\ Rank(i) \in Nat /\ Rank(i) \in open
             /\ descriptor[i].tag = "COLLECTION"
  <2>1. /\ i \in 1 .. n - 1 /\ descriptor[i].tag = "COLLECTION"
        /\ Alive("COLLECTION", "END_COLLECTION", i, n - 1)
    BY DEF OpenItems
  <2>2. i \in 1 .. offset /\ i \in Nat /\ i < n /\ 0 < i /\ i <= offset
    BY <2>1
  <2>3. ItemOf({"COLLECTION"}, Rank(i)) = i
    BY <2>1, <2>2, ItemOfRank
  <2>4. Rank(i) \in Nat /\ Rank(0) = 0 /\ Rank(0) < Rank(i) /\ Rank(i) <= Rank(offset)
    BY <2>1, <2>2, RankFacts, RankGrows
  <2>5. Rank(i) \in DOMAIN collections_
    BY <2>4, <1>3
  <2>6. \A k \in i .. n - 1 : CollectionDepth(k) >= CollectionDepth(i)
    BY <2>1, <1>2 DEF Alive
  <2> HIDE DEF Rank
  <2> QED
    BY <2>1, <2>2, <2>3, <2>4, <2>5, <2>6
<1>5. ASSUME NEW c \in open
      PROVE  \E i \in OpenItems(n) : c = Rank(i)
  <2>1. PICK i \in 1 .. offset : descriptor[i].tag = "COLLECTION" /\ Rank(i) = c
    BY DEF CollectionsPlaced, CollectionPlaced
  <2>2. ItemOf({"COLLECTION"}, c) = i
    BY <2>1, ItemOfRank
  <2>3. i < n /\ \A k \in i .. n - 1 : CollectionDepth(k) >= CollectionDepth(i)
    BY <2>2
  <2>4. i \in 1 .. n - 1
    BY <2>1, <2>3
  <2>5. i \in OpenItems(n)
    BY <2>1, <2>3, <2>4, <1>2 DEF OpenItems, Alive
  <2> QED
    BY <2>1, <2>5
<1> HIDE DEF open
<1>6. CASE OpenItems(n) = {}
  <2>1. id = NoParent
    BY <1>6 DEF EnclosedBy
  <2> QED
    BY <2>1, <1>1, <1>5, <1>6
<1>7. CASE OpenItems(n) # {}
  <2>1. PICK i \in OpenItems(n) : (\A j \in OpenItems(n) : j <= i) /\ id = Rank(i) - 1
    BY <1>7 DEF EnclosedBy
  <2>2. ASSUME NEW c \in open PROVE c \in Int /\ c <= Rank(i)
    <3>1. PICK j \in OpenItems(n) : c = Rank(j)
      BY <1>5
    <3>2. j \in Nat /\ i \in Nat /\ j <= i /\ Rank(j) \in Nat
      BY <2>1, <1>4
    <3> QED
      BY <3>1, <3>2, RankGrows
  <2>3. Rank(i) \in open
    BY <1>4
  <2>4. Max(open) = Rank(i)
    <3>1. open \in SUBSET Int /\ \A c \in open : c <= Rank(i)
      BY <2>2
    <3> HIDE DEF Rank
    <3> QED
      BY <3>1, <2>3, MaxIs
  <2> QED
    BY <2>1, <2>3, <2>4, <1>1
<1> QED
  BY <1>6, <1>7

\* A collection's parent and a field's collection are the innermost one open where
\* the item stands, and a valid map has every collection closed: the run's property,
\* for every Report Map.
THEOREM CollectionsAreNested == DecoderSpec => []CollectionsNest
<1>1. MapInv /\ ScopeInv => CollectionsNest
  <2> SUFFICES ASSUME MapInv, ScopeInv PROVE CollectionsNest
    OBVIOUS
  <2>1. offset \in Nat /\ CollectionsPlaced /\ FieldsPlaced
    BY DEF MapInv, ItemsTyped, ScopeInv
  <2>2. ASSUME NEW c \in DOMAIN collections_
        PROVE  /\ collections_[c].id = c - 1
               /\ collections_[c].parent = OpenAt(ItemOf({"COLLECTION"}, c))
    <3>1. PICK i \in 1 .. offset :
            /\ descriptor[i].tag = "COLLECTION" /\ RankOf({"COLLECTION"}, i) = c
            /\ collections_[c].id = c - 1 /\ EnclosedBy(i, collections_[c].parent)
      BY <2>1 DEF CollectionsPlaced, CollectionPlaced
    <3>2. ItemOf({"COLLECTION"}, c) = i
      BY <3>1, <2>1, ItemOfRank
    <3>3. OpenAt(i) = collections_[c].parent
      BY <3>1, <2>1, EnclosedIsOpenAt
    <3> QED
      BY <3>1, <3>2, <3>3
  <2>3. ASSUME NEW f \in DOMAIN fields_
        PROVE  fields_[f].collection_id = OpenAt(ItemOf(DataTags, f))
    <3>1. PICK i \in 1 .. offset : Placed(fields_[f], f, i)
      BY <2>1 DEF FieldsPlaced
    <3>2. ItemOf(DataTags, f) = i
      BY <3>1, <2>1, ItemOfRank DEF Placed
    <3>3. OpenAt(i) = fields_[f].collection_id
      BY <3>1, <2>1, EnclosedIsOpenAt DEF Placed
    <3> QED
      BY <3>2, <3>3
  <2>4. ASSUME phase = "VALID" PROVE CollectionDepth(offset) = 0
    <3>1. collection_stack = <<>> /\ Len(collection_stack) = Depth("COLLECTION", "END_COLLECTION", offset)
      BY <2>4 DEF ScopeInv, ValidIsClosed, StackNests
    <3> QED
      BY <3>1, EmptySeq DEF CollectionDepth, Depth
  <2> QED
    BY <2>2, <2>3, <2>4 DEF CollectionsNest
<1> QED
  BY <1>1, ScopeInvariant, PTL
=============================================================================
