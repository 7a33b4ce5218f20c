----------------------------- MODULE HidReportMap -----------------------------
(***************************************************************************)
(* HIDReportMap::parse_report_map_data (hid_parser.cpp): from the items of *)
(* a HID Report Map to collections, fields and reports.  One step reads    *)
(* one item, as one turn of the parser's loop does.                        *)
(*                                                                         *)
(* An item is what the parser tells apart: its tag, how many data bytes it *)
(* has and their unsigned value.  Global items that set one value are kept *)
(* in a function of their tags, and so are local ones; a field keeps the   *)
(* globals and the locals in force, which is what it copies from them.     *)
(* Collections and fields have the parser's identities, from 0; the        *)
(* sequences that hold them are numbered from 1.  Diagnostics are only     *)
(* logged and are left out.                                                *)
(***************************************************************************)
EXTENDS Integers, Sequences, SequencesExt, FiniteSets, FiniteSetsExt

CONSTANTS
  Descriptors,          \* the Report Maps a service may have
  MaxDescriptorBytes,   \* MAX_DESCRIPTOR_BYTES
  MaxReports,           \* MAX_REPORTS
  MaxFields,            \* MAX_FIELDS
  MaxCollections,       \* MAX_COLLECTIONS
  MaxCollectionDepth,   \* MAX_COLLECTION_DEPTH
  MaxGlobalStackDepth,  \* MAX_GLOBAL_STACK_DEPTH
  MaxReportBits,        \* MAX_REPORT_BITS
  MaxReportCount        \* MAX_REPORT_COUNT

GlobalTags ==
  {"USAGE_PAGE", "LOGICAL_MINIMUM", "LOGICAL_MAXIMUM", "PHYSICAL_MINIMUM", "PHYSICAL_MAXIMUM",
   "UNIT_EXPONENT", "UNIT", "REPORT_SIZE", "REPORT_COUNT", "REPORT_ID"}

UsageBounds == {"USAGE_MINIMUM", "USAGE_MAXIMUM"}

\* What a field says of designators and strings, which the parser stores as read.
IndexTags == {"DESIGNATOR_INDEX", "STRING_INDEX"}
BoundTags == {"DESIGNATOR_MINIMUM", "DESIGNATOR_MAXIMUM", "STRING_MINIMUM", "STRING_MAXIMUM"}

DataTags == {"INPUT", "OUTPUT", "FEATURE"}

\* RESERVED_MAIN and RESERVED stand for the tags the parser does not know.
MainTags == DataTags \cup {"COLLECTION", "END_COLLECTION", "RESERVED_MAIN"}

Tags == GlobalTags \cup UsageBounds \cup IndexTags \cup BoundTags \cup MainTags
          \cup {"PUSH", "POP", "USAGE", "DELIMITER", "RESERVED", "LONG"}

\* truncated: the descriptor ends before the item's data does.  Only a long item
\* has another size than 0, 1, 2 or 4.
Item == [tag : Tags, size : 0 .. 255, raw : Nat, truncated : BOOLEAN]

\* A prefix byte, and for a long item its size and its tag.
ItemBytes(item) == item.size + IF item.tag = "LONG" THEN 3 ELSE 1

ByteLength(descriptor) == FoldLeft(LAMBDA total, item : total + ItemBytes(item), 0, descriptor)

ASSUME ReportMapAssumption ==
  /\ Descriptors \subseteq Seq(Item)
  /\ {MaxDescriptorBytes, MaxReports, MaxFields, MaxCollections, MaxCollectionDepth,
      MaxGlobalStackDepth, MaxReportBits, MaxReportCount} \subseteq Nat
  /\ \A d \in Descriptors : \A i \in DOMAIN d :
       /\ d[i].truncated => i = Len(d)
       /\ d[i].tag # "LONG" => d[i].size \in {0, 1, 2, 4}

VARIABLES
  descriptor, offset,           \* data, and the number of items read
  phase,                        \* "PARSING", "VALID" or "FAILED" (a null pointer)
  global, global_stack,
  local,
  collection_stack,
  collections_, reports_, fields_,
  uses_report_ids_

inputVars == <<descriptor, offset, phase>>
stackVars == <<global_stack, collection_stack>>
mapVars   == <<collections_, reports_, fields_, uses_report_ids_>>

vars == <<inputVars, global, local, stackVars, mapVars>>

-----------------------------------------------------------------------------
(* Values of items. *)

\* decode_signed_hid_item: two's complement of the item's own width.
DecodeSigned(raw, size) ==
  IF size = 0 THEN 0
  ELSE IF raw >= 2 ^ (8 * size - 1) THEN raw - 2 ^ (8 * size) ELSE raw

\* signed_or_unsigned_max: signed if the minimum is negative by then.
SignedOrUnsignedMax(raw, size, minimum) ==
  IF minimum < 0 THEN DecodeSigned(raw, size) ELSE raw

\* decode_unit_exponent: the low nibble, signed.
UnitExponent(raw) == IF raw % 16 >= 8 THEN (raw % 16) - 16 ELSE raw % 16

\* The value a global item gives to its tag under the given globals.
GlobalValue(item, globals) ==
  CASE item.tag \in {"LOGICAL_MINIMUM", "PHYSICAL_MINIMUM"} -> DecodeSigned(item.raw, item.size)
    [] item.tag = "LOGICAL_MAXIMUM" ->
         SignedOrUnsignedMax(item.raw, item.size, globals["LOGICAL_MINIMUM"])
    [] item.tag = "PHYSICAL_MAXIMUM" ->
         SignedOrUnsignedMax(item.raw, item.size, globals["PHYSICAL_MINIMUM"])
    [] item.tag = "UNIT_EXPONENT" -> UnitExponent(item.raw)
    [] OTHER -> item.raw

Usage(page, usage) == [page |-> page, usage |-> usage]

NoUsage == Usage(0, 0)

\* decode_usage: an item of four bytes brings its page with it.
DecodeUsage(item, page) ==
  Usage(IF item.size = 4 THEN (item.raw \div 2 ^ 16) % 2 ^ 16 ELSE page, item.raw % 2 ^ 16)

NoParent == 65535

Unset == -1

NoGlobals == [t \in GlobalTags |-> 0]

\* LocalState.  usage_sets[1] is the set that items outside a Delimiter fill; a
\* usage bound that was not given is NoUsage with its flag unset.
NoLocals ==
  [usage_sets |-> << <<>> >>, active_usage_set |-> 1, delimiter_open |-> FALSE,
   usage_bound |-> [t \in UsageBounds |-> NoUsage], given |-> {},
   index |-> [t \in IndexTags |-> <<>>], bound |-> [t \in BoundTags |-> Unset]]

-----------------------------------------------------------------------------
(* The loop of parse_report_map_data. *)

ReportOf(kind, report_id) ==
  {i \in DOMAIN reports_ : reports_[i].kind = kind /\ reports_[i].report_id = report_id}

\* Mutant of FieldRefused: a report may outgrow its limit by several fields.
FieldRefusedAlone(item) ==
  LET size == global["REPORT_SIZE"]  count == global["REPORT_COUNT"]
      of   == ReportOf(item.tag, global["REPORT_ID"])
  IN  \/ size = 0 \/ size > 32 \/ count = 0 \/ count > MaxReportCount
      \/ local.delimiter_open
      \/ of = {} /\ Len(reports_) >= MaxReports
      \/ Len(fields_) >= MaxFields
      \/ size * count > MaxReportBits

\* The error paths of a data item, in the order of the code.
FieldRefused(item) ==
  LET size == global["REPORT_SIZE"]  count == global["REPORT_COUNT"]
      of   == ReportOf(item.tag, global["REPORT_ID"])
  IN  \/ size = 0 \/ size > 32 \/ count = 0 \/ count > MaxReportCount
      \/ local.delimiter_open
      \/ of = {} /\ Len(reports_) >= MaxReports
      \/ Len(fields_) >= MaxFields
      \/ size * count > MaxReportBits
      \/ \E r \in of : reports_[r].bit_size + size * count > MaxReportBits

\* Mutant of Refused: the limit of the global stack is checked one Push too late.
RefusedPastLimit(item) ==
  \/ item.truncated
  \/ item.tag = "USAGE_PAGE" /\ item.raw >= 2 ^ 16
  \/ item.tag = "REPORT_ID" /\ item.raw \notin 1 .. 255
  \/ item.tag = "PUSH" /\ Len(global_stack) > MaxGlobalStackDepth
  \/ item.tag = "POP" /\ global_stack = <<>>
  \/ item.tag = "DELIMITER" /\ item.raw # (IF local.delimiter_open THEN 0 ELSE 1)
  \/ item.tag = "COLLECTION" /\ Len(collections_) >= MaxCollections
  \/ item.tag = "END_COLLECTION" /\ collection_stack = <<>>
  \/ item.tag \in DataTags /\ FieldRefused(item)

\* The error paths of the other items.
Refused(item) ==
  \/ item.truncated
  \/ item.tag = "USAGE_PAGE" /\ item.raw >= 2 ^ 16
  \/ item.tag = "REPORT_ID" /\ item.raw \notin 1 .. 255
  \/ item.tag = "PUSH" /\ Len(global_stack) >= MaxGlobalStackDepth
  \/ item.tag = "POP" /\ global_stack = <<>>
  \/ item.tag = "DELIMITER" /\ item.raw # (IF local.delimiter_open THEN 0 ELSE 1)
  \/ item.tag = "COLLECTION" /\ \/ Len(collections_) >= MaxCollections
                                \/ Len(collection_stack) >= MaxCollectionDepth
  \/ item.tag = "END_COLLECTION" /\ collection_stack = <<>>
  \/ item.tag \in DataTags /\ FieldRefused(item)

NextItem == descriptor[offset + 1]

Reading == phase = "PARSING" /\ offset < Len(descriptor)

Reads(tags) ==
  /\ Reading /\ NextItem.tag \in tags /\ ~Refused(NextItem)
  /\ offset' = offset + 1 /\ UNCHANGED <<descriptor, phase>>

\* fail(), which deletes the map: nobody sees what was parsed so far.
Fail ==
  /\ Reading /\ Refused(NextItem)
  /\ phase' = "FAILED"
  /\ UNCHANGED <<descriptor, offset, global, local, stackVars, mapVars>>

SetGlobal ==
  /\ Reads(GlobalTags)
  /\ global' = [global EXCEPT ![NextItem.tag] = GlobalValue(NextItem, global)]
  /\ uses_report_ids_' = (uses_report_ids_ \/ NextItem.tag = "REPORT_ID")
  /\ UNCHANGED <<local, stackVars, collections_, reports_, fields_>>

PushGlobal ==
  /\ Reads({"PUSH"})
  /\ global_stack' = Append(global_stack, global)
  /\ UNCHANGED <<global, local, collection_stack, mapVars>>

\* Mutant of PopGlobal: the Report ID outlives the Pop.
PopGlobalButReportId ==
  /\ Reads({"POP"})
  /\ global' = [Last(global_stack) EXCEPT !["REPORT_ID"] = global["REPORT_ID"]]
  /\ global_stack' = Front(global_stack)
  /\ UNCHANGED <<local, collection_stack, mapVars>>

PopGlobal ==
  /\ Reads({"POP"})
  /\ global' = Last(global_stack)
  /\ global_stack' = Front(global_stack)
  /\ UNCHANGED <<local, collection_stack, mapVars>>

AddUsage ==
  /\ Reads({"USAGE"})
  /\ local' = [local EXCEPT !.usage_sets[local.active_usage_set] =
                 Append(@, DecodeUsage(NextItem, global["USAGE_PAGE"]))]
  /\ UNCHANGED <<global, stackVars, mapVars>>

SetUsageBound ==
  /\ Reads(UsageBounds)
  /\ local' = [local EXCEPT
                 !.usage_bound[NextItem.tag] = DecodeUsage(NextItem, global["USAGE_PAGE"]),
                 !.given = @ \cup {NextItem.tag}]
  /\ UNCHANGED <<global, stackVars, mapVars>>

AddIndex ==
  /\ Reads(IndexTags)
  /\ local' = [local EXCEPT !.index[NextItem.tag] = Append(@, NextItem.raw)]
  /\ UNCHANGED <<global, stackVars, mapVars>>

SetBound ==
  /\ Reads(BoundTags)
  /\ local' = [local EXCEPT !.bound[NextItem.tag] = NextItem.raw]
  /\ UNCHANGED <<global, stackVars, mapVars>>

\* Mutant of Delimit: usages after the closing Delimiter are alternatives still.
DelimitForGood ==
  /\ Reads({"DELIMITER"})
  /\ local' = IF local.delimiter_open
              THEN [local EXCEPT !.delimiter_open = FALSE]
              ELSE [local EXCEPT !.delimiter_open = TRUE, !.usage_sets = Append(@, <<>>),
                                 !.active_usage_set = Len(local.usage_sets) + 1]
  /\ UNCHANGED <<global, stackVars, mapVars>>

Delimit ==
  /\ Reads({"DELIMITER"})
  /\ local' = IF local.delimiter_open
              THEN [local EXCEPT !.delimiter_open = FALSE, !.active_usage_set = 1]
              ELSE [local EXCEPT !.delimiter_open = TRUE, !.usage_sets = Append(@, <<>>),
                                 !.active_usage_set = Len(local.usage_sets) + 1]
  /\ UNCHANGED <<global, stackVars, mapVars>>

Innermost == IF collection_stack = <<>> THEN NoParent ELSE Last(collection_stack)

BeginCollection ==
  /\ Reads({"COLLECTION"})
  /\ LET listed == local.usage_sets[1]
     IN  collections_' = Append(collections_,
           [id |-> Len(collections_), parent |-> Innermost, type |-> NextItem.raw % 256,
            usage |-> IF listed # <<>> THEN Head(listed) ELSE local.usage_bound["USAGE_MINIMUM"],
            aliases |-> FlattenSeq(Tail(local.usage_sets))])
  /\ collection_stack' = Append(collection_stack, Len(collections_))
  /\ local' = NoLocals
  /\ UNCHANGED <<global, global_stack, reports_, fields_, uses_report_ids_>>

EndCollection ==
  /\ Reads({"END_COLLECTION"})
  /\ collection_stack' = Front(collection_stack)
  /\ local' = NoLocals
  /\ UNCHANGED <<global, global_stack, mapVars>>

\* find_or_add_report, and what the report is told of its new field.
AddToReport(kind, bits) ==
  LET of == ReportOf(kind, global["REPORT_ID"])
  IN  IF of = {}
      THEN Append(reports_, [kind |-> kind, report_id |-> global["REPORT_ID"],
                             bit_size |-> bits, field_ids |-> <<Len(fields_)>>])
      ELSE [i \in DOMAIN reports_ |->
              IF i \notin of THEN reports_[i]
              ELSE [reports_[i] EXCEPT !.bit_size = @ + bits,
                                       !.field_ids = Append(@, Len(fields_))]]

\* The size of the report so far.
BitOffset(kind) ==
  LET of == ReportOf(kind, global["REPORT_ID"])
  IN  IF of = {} THEN 0 ELSE reports_[CHOOSE i \in of : TRUE].bit_size

AddField ==
  /\ Reads(DataTags)
  /\ fields_' = Append(fields_,
       [id |-> Len(fields_), kind |-> NextItem.tag, collection_id |-> Innermost,
        bit_offset |-> BitOffset(NextItem.tag), flags |-> NextItem.raw % 2 ^ 9,
        global |-> global, local |-> local])
  /\ reports_' = AddToReport(NextItem.tag, global["REPORT_SIZE"] * global["REPORT_COUNT"])
  /\ local' = NoLocals
  /\ UNCHANGED <<global, stackVars, collections_, uses_report_ids_>>

\* Long items are skipped; an unknown main item ends the scope of the locals.
SkipItem ==
  /\ Reads({"LONG", "RESERVED", "RESERVED_MAIN"})
  /\ local' = IF NextItem.tag = "RESERVED_MAIN" THEN NoLocals ELSE local
  /\ UNCHANGED <<global, stackVars, mapVars>>

\* Mutant of Finish: collections may still be open.
FinishAnywhere ==
  /\ phase = "PARSING" /\ offset = Len(descriptor)
  /\ phase' = IF reports_ # <<>> THEN "VALID" ELSE "FAILED"
  /\ UNCHANGED <<descriptor, offset, global, local, stackVars, mapVars>>

\* The end of the descriptor: no collection is open and there is a report.
Finish ==
  /\ phase = "PARSING" /\ offset = Len(descriptor)
  /\ phase' = IF collection_stack = <<>> /\ reports_ # <<>> THEN "VALID" ELSE "FAILED"
  /\ UNCHANGED <<descriptor, offset, global, local, stackVars, mapVars>>

\* An empty descriptor and one that is too long are refused before the first item.
Init ==
  /\ descriptor \in Descriptors /\ offset = 0
  /\ phase = IF ByteLength(descriptor) \in 1 .. MaxDescriptorBytes THEN "PARSING" ELSE "FAILED"
  /\ global = NoGlobals /\ global_stack = <<>>
  /\ local = NoLocals
  /\ collection_stack = <<>>
  /\ collections_ = <<>> /\ reports_ = <<>> /\ fields_ = <<>>
  /\ uses_report_ids_ = FALSE

Next ==
  \/ SetGlobal \/ PushGlobal \/ PopGlobal
  \/ AddUsage \/ SetUsageBound \/ AddIndex \/ SetBound \/ Delimit
  \/ BeginCollection \/ EndCollection \/ AddField \/ SkipItem
  \/ Fail \/ Finish

Spec == Init /\ [][Next]_vars

-----------------------------------------------------------------------------
(* Properties *)

Usages == [page : Nat, usage : Nat]

Globals == [GlobalTags -> Int]

Locals ==
  [usage_sets : Seq(Seq(Usages)), active_usage_set : Nat \ {0}, delimiter_open : BOOLEAN,
   usage_bound : [UsageBounds -> Usages], given : SUBSET UsageBounds,
   index : [IndexTags -> Seq(Nat)], bound : [BoundTags -> Nat \cup {Unset}]]

Collection ==
  [id : Nat, parent : Nat, type : Nat, usage : Usages, aliases : Seq(Usages)]

Field ==
  [id : Nat, kind : DataTags, collection_id : Nat, bit_offset : Nat, flags : Nat,
   global : Globals, local : Locals]

Report == [kind : DataTags, report_id : Int, bit_size : Nat, field_ids : Seq(Nat)]

\* Every variable has its type, and what was built so far is within the limits of
\* the class, at every item and not only at the end.
ParserTypeOK ==
  /\ descriptor \in Descriptors /\ offset \in 0 .. Len(descriptor)
  /\ phase \in {"PARSING", "VALID", "FAILED"}
  /\ global \in Globals /\ global_stack \in Seq(Globals)
  /\ local \in Locals /\ local.active_usage_set \in DOMAIN local.usage_sets
  /\ collection_stack \in Seq(Nat)
  /\ collections_ \in Seq(Collection) /\ reports_ \in Seq(Report) /\ fields_ \in Seq(Field)
  /\ uses_report_ids_ \in BOOLEAN
  /\ Len(global_stack) <= MaxGlobalStackDepth /\ Len(collection_stack) <= MaxCollectionDepth
  /\ Len(collections_) <= MaxCollections
  /\ Len(reports_) <= MaxReports /\ Len(fields_) <= MaxFields

FieldBits(field) == field.global["REPORT_SIZE"] * field.global["REPORT_COUNT"]

\* The fields of a report lie side by side from its first bit to its last, each
\* field in the one report of its kind and ID, and no report is larger than the
\* limit: read_bits_ never reads outside a complete payload, and no two elements of
\* a report have the bit position that names them.
ReportsAreTiled ==
  /\ \A r \in DOMAIN reports_ :
       LET report  == reports_[r]
           id(k)   == report.field_ids[k]
           end(k)  == fields_[id(k) + 1].bit_offset + FieldBits(fields_[id(k) + 1])
       IN  /\ report.field_ids # <<>>
           /\ \A k \in DOMAIN report.field_ids :
                /\ id(k) + 1 \in DOMAIN fields_
                /\ fields_[id(k) + 1].kind = report.kind
                /\ fields_[id(k) + 1].global["REPORT_ID"] = report.report_id
                /\ fields_[id(k) + 1].bit_offset = IF k = 1 THEN 0 ELSE end(k - 1)
                /\ k > 1 => id(k - 1) < id(k)
           /\ report.bit_size = end(Len(report.field_ids))
           /\ report.bit_size <= MaxReportBits
  /\ \A q, r \in DOMAIN reports_ :
       reports_[q].kind = reports_[r].kind /\ reports_[q].report_id = reports_[r].report_id => q = r
  /\ \A f \in DOMAIN fields_ :
       /\ fields_[f].id = f - 1
       /\ \E r \in DOMAIN reports_ : \E k \in DOMAIN reports_[r].field_ids :
            reports_[r].field_ids[k] = f - 1

-----------------------------------------------------------------------------
(* What the items say, without a parser: the references of the properties,  *)
(* which compare them while items are read; a finished map does not change. *)

Read(tags) == {i \in 1 .. offset : descriptor[i].tag \in tags}

CountRead(tag, n) == Cardinality({i \in 1 .. n : descriptor[i].tag = tag})

PushDepth(n) == CountRead("PUSH", n) - CountRead("POP", n)

\* The last item of the tag that no Pop before item n has undone; 0 if none.
InForce(tag, n) ==
  Max({0} \cup {i \in 1 .. n : /\ descriptor[i].tag = tag
                               /\ \A k \in i .. n : PushDepth(k) >= PushDepth(i)})

\* What the global items before item n say, those of a closed Push left out: a
\* maximum is read under the minimum in force where the maximum stands.
GlobalBefore(tag, n) ==
  LET i == InForce(tag, n - 1)
      plain(t, k) == IF k = 0 THEN 0 ELSE GlobalValue(descriptor[k], NoGlobals)
  IN  IF i = 0 THEN 0
      ELSE GlobalValue(descriptor[i],
             [t \in GlobalTags |->
                IF t \in {"LOGICAL_MINIMUM", "PHYSICAL_MINIMUM"} THEN plain(t, InForce(t, i - 1))
                ELSE 0])

\* The k-th item of a set.
Ranked(S, k) == {i \in S : Cardinality({j \in S : j <= i}) = k}

Kth(S, k) == CHOOSE i \in Ranked(S, k) : TRUE

\* The item a field or a collection comes from.
ItemOf(tags, k) == Kth(Read(tags), k)

\* A field has the globals that were in force where its item stands: a Pop brings
\* back all of them, the Report ID too, and what was set between Push and Pop
\* reaches no field after the Pop.
GlobalsAreScoped ==
  phase = "PARSING" =>
    \A f \in DOMAIN fields_, tag \in GlobalTags :
      fields_[f].global[tag] = GlobalBefore(tag, ItemOf(DataTags, f))

\* The last item before item n that ended the scope of the locals; 0 if none.
ScopeBegins(n) == Max({0} \cup {i \in 1 .. n - 1 : descriptor[i].tag \in MainTags})

\* The last item of the tag in the scope of item n; 0 if none.
LastInScope(tag, n) ==
  Max({0} \cup {i \in ScopeBegins(n) + 1 .. n - 1 : descriptor[i].tag = tag})

InDelimiter(n) ==
  LET i == LastInScope("DELIMITER", n)
  IN  i # 0 /\ descriptor[i].raw # 0

\* The usage an item gives, under the usage page in force there.
UsageOfItem(i) == DecodeUsage(descriptor[i], GlobalBefore("USAGE_PAGE", i))

PlainUsages(n) ==
  {i \in ScopeBegins(n) + 1 .. n - 1 : descriptor[i].tag = "USAGE" /\ ~InDelimiter(i)}

\* The usages between the previous main item and item n, outside Delimiters.
UsagesBefore(n) ==
  [k \in 1 .. Cardinality(PlainUsages(n)) |-> UsageOfItem(Kth(PlainUsages(n), k))]

\* The end of a range of usages that was given last in the scope of item n.
BoundBefore(tag, n) ==
  LET i == LastInScope(tag, n)
  IN  IF i = 0 THEN NoUsage ELSE UsageOfItem(i)

\* Usages, and the ends of a range of usages, belong to the main item after them
\* and to no other: none is left over from an earlier field, collection or unknown
\* main item, and alternatives inside a Delimiter do not displace the usages of
\* the elements.  A collection without usages has its range's first.
UsagesBelongToOneItem ==
  phase = "PARSING" =>
    /\ \A f \in DOMAIN fields_ :
         LET n == ItemOf(DataTags, f)
         IN  /\ fields_[f].local.usage_sets[1] = UsagesBefore(n)
             /\ \A tag \in UsageBounds :
                  /\ fields_[f].local.usage_bound[tag] = BoundBefore(tag, n)
                  /\ tag \in fields_[f].local.given <=> LastInScope(tag, n) # 0
    /\ \A c \in DOMAIN collections_ :
         LET n == ItemOf({"COLLECTION"}, c)
         IN  collections_[c].usage = IF UsagesBefore(n) # <<>> THEN Head(UsagesBefore(n))
                                     ELSE BoundBefore("USAGE_MINIMUM", n)

CollectionDepth(n) == CountRead("COLLECTION", n) - CountRead("END_COLLECTION", n)

\* The innermost collection open at item n.
OpenAt(n) ==
  LET open == {c \in DOMAIN collections_ :
                 LET i == ItemOf({"COLLECTION"}, c)
                 IN  i < n /\ \A k \in i .. n - 1 : CollectionDepth(k) >= CollectionDepth(i)}
  IN  IF open = {} THEN NoParent ELSE Max(open) - 1

\* A collection's parent, and a field's collection, are the innermost one open
\* where its item stands, and a map that is used has every collection closed: the
\* application usage an event names is the one of the device the field is part of.
CollectionsNest ==
  /\ phase = "PARSING" =>
       /\ \A c \in DOMAIN collections_ :
            /\ collections_[c].id = c - 1
            /\ collections_[c].parent = OpenAt(ItemOf({"COLLECTION"}, c))
       /\ \A f \in DOMAIN fields_ : fields_[f].collection_id = OpenAt(ItemOf(DataTags, f))
  /\ phase = "VALID" => CollectionDepth(offset) = 0
=============================================================================
