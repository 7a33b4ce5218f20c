------------------------------ MODULE UsageTable ------------------------------
(***************************************************************************)
(* usage_data.cpp: the names of HID usages.  Pages is sorted by page; each *)
(* page has a slice of Usages, sorted by usage.  A page whose usages are   *)
(* numbered only (Button, Ordinal) has an empty slice, which begins where  *)
(* the next page's does.                                                   *)
(***************************************************************************)
EXTENDS Integers, Sequences

CONSTANTS
  PageRecords,          \* PAGES: [id, first, count]
  UsageRecords          \* USAGES: [id, name]

Unnamed == "unnamed"    \* a null pointer

Sorted(records, begin, end) ==
  \A i, j \in begin + 1 .. end : i < j => records[i].id < records[j].id

ASSUME UsageTableAssumption ==
  /\ PageRecords \in Seq([id : Nat, first : Nat, count : Nat])
  /\ UsageRecords \in Seq([id : Nat, name : STRING])
  /\ Sorted(PageRecords, 0, Len(PageRecords))
  /\ \A p \in DOMAIN PageRecords :
       LET page == PageRecords[p]
       IN  /\ page.first + page.count <= Len(UsageRecords)
           /\ Sorted(UsageRecords, page.first, page.first + page.count)

NotFound == 0

Middle(b, e) == b + ((e - b) \div 2)

\* Mutant of BinaryFind: the half above the middle begins one record too late.
BinaryFindSkipping(records, begin, end, id) ==
  LET find[slice \in (begin .. end + 1) \X (begin .. end)] ==
        LET b == slice[1]  e == slice[2]  middle == Middle(b, e)
        IN  IF b >= e THEN NotFound
            ELSE IF records[middle + 1].id < id THEN find[<<middle + 2, e>>]
            ELSE IF records[middle + 1].id > id THEN find[<<b, middle>>]
            ELSE middle + 1
  IN  find[<<begin, end>>]

\* binary_find over the records from begin up to, not including, end.
BinaryFind(records, begin, end, id) ==
  LET find[slice \in (begin .. end) \X (begin .. end)] ==
        LET b == slice[1]  e == slice[2]  middle == Middle(b, e)
        IN  IF b >= e THEN NotFound
            ELSE IF records[middle + 1].id < id THEN find[<<middle + 1, e>>]
            ELSE IF records[middle + 1].id > id THEN find[<<b, middle>>]
            ELSE middle + 1
  IN  find[<<begin, end>>]

FindPage(page) == BinaryFind(PageRecords, 0, Len(PageRecords), page)

LookupUsageName(page, usage) ==
  LET p     == FindPage(page)
      first == PageRecords[p].first
      found == BinaryFind(UsageRecords, first, first + PageRecords[p].count, usage)
  IN  IF p = NotFound \/ PageRecords[p].count = 0 \/ found = NotFound THEN Unnamed
      ELSE UsageRecords[found].name

\* The name without a search.
NameOf(page, usage) ==
  LET named == {u \in DOMAIN UsageRecords :
                  /\ UsageRecords[u].id = usage
                  /\ \E p \in DOMAIN PageRecords :
                       /\ PageRecords[p].id = page
                       /\ u \in PageRecords[p].first + 1 ..
                                  PageRecords[p].first + PageRecords[p].count}
  IN  IF named = {} THEN Unnamed ELSE UsageRecords[CHOOSE u \in named : TRUE].name
=============================================================================
