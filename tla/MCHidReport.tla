------------------------------ MODULE MCHidReport ------------------------------
(***************************************************************************)
(* Report Maps and reports for HidReportDecoder.  Explored descriptors put *)
(* every pair of items of a small set into the places where the parser's   *)
(* state is most involved; the devices are a composite of a mouse and a    *)
(* keyboard, and a dial with keys, whose reports are followed.             *)
(***************************************************************************)
EXTENDS HidReportDecoder

It(tag, size, raw) == [tag |-> tag, size |-> size, raw |-> raw, truncated |-> FALSE]

Data(tag, size, count, flags) ==
  << It("REPORT_SIZE", 1, size), It("REPORT_COUNT", 1, count), It(tag, 1, flags) >>

UsagePage(page) == It("USAGE_PAGE", 1, page)
UsageItem(usage) == It("USAGE", 1, usage)
ReportId(id) == It("REPORT_ID", 1, id)
Range8(low, high) == << It("LOGICAL_MINIMUM", 1, low), It("LOGICAL_MAXIMUM", 1, high) >>
UsageRange(low, high) == << It("USAGE_MINIMUM", 1, low), It("USAGE_MAXIMUM", 1, high) >>
Begin(usage) == << UsagePage(1), UsageItem(usage), It("COLLECTION", 1, 1) >>
End == << It("END_COLLECTION", 0, 0) >>

\* Two buttons, padding and two relative axes.
Mouse ==
  Begin(2) \o << ReportId(1), UsagePage(9) >> \o UsageRange(1, 2) \o Range8(0, 1)
    \o Data("INPUT", 1, 2, 2) \o Data("INPUT", 6, 1, 1)
    \o << UsagePage(1), UsageItem(48), UsageItem(49) >> \o Range8(129, 127)
    \o Data("INPUT", 8, 2, 6) \o End

\* Two modifiers, padding and an array of two keys.
Keyboard ==
  Begin(6) \o << ReportId(2), UsagePage(7) >> \o UsageRange(224, 225) \o Range8(0, 1)
    \o Data("INPUT", 1, 2, 2) \o Data("INPUT", 6, 1, 1)
    \o UsageRange(0, 5) \o Range8(0, 5) \o Data("INPUT", 8, 2, 0) \o End

\* A dial, and three keys of which two have a usage; unknown, long and index items.
Dial ==
  << UsagePage(1), UsageItem(6) >> \o << It("COLLECTION", 1, 0) >>
    \o << It("LONG", 2, 0), It("RESERVED", 1, 3), UsageItem(55), It("STRING_INDEX", 1, 3),
          It("DESIGNATOR_MINIMUM", 1, 2), It("UNIT_EXPONENT", 1, 14) >> \o Range8(0, 200)
    \o Data("INPUT", 8, 1, 2)
    \o << UsagePage(12), UsageItem(233), UsageItem(234) >> \o Range8(0, 1)
    \o Data("INPUT", 1, 3, 2) \o Data("INPUT", 5, 1, 1) \o End

Composite == Mouse \o Keyboard

MCDevices == {Composite, Dial, Front(Dial)}

\* What comes before the explored items: nothing is open; a Push is, and an item
\* with 255 for a maximum; a collection is, with a usage left; a Delimiter is.
Base == << UsagePage(9), UsageItem(1) >> \o Data("INPUT", 4, 2, 2)

Prologues ==
  { Base,
    Base \o << It("PUSH", 0, 0), It("LOGICAL_MINIMUM", 1, 255), It("LOGICAL_MAXIMUM", 1, 255) >>,
    Base \o << It("COLLECTION", 1, 1), UsageItem(2) >>,
    Base \o << It("DELIMITER", 1, 1), UsageItem(3) >> }

ExploredItems ==
  { It("PUSH", 0, 0), It("POP", 0, 0), ReportId(1), It("REPORT_SIZE", 1, 8),
    It("LOGICAL_MAXIMUM", 1, 255), UsagePage(12), It("USAGE", 4, 65536 * 7 + 5), UsageItem(4),
    It("USAGE_MINIMUM", 1, 6), It("DELIMITER", 1, 1), It("DELIMITER", 1, 0), It("COLLECTION", 1, 1),
    It("END_COLLECTION", 0, 0), It("INPUT", 1, 2), It("OUTPUT", 1, 2), It("RESERVED_MAIN", 1, 0) }

Explored ==
  {p \o <<a, b, It("INPUT", 1, 2)>> : p \in Prologues, a \in ExploredItems, b \in ExploredItems}

\* One descriptor for each remaining error path.
Malformed ==
  { <<>>, << It("LONG", 90, 0) >> \o Base,
    Base \o << [It("INPUT", 1, 2) EXCEPT !.truncated = TRUE] >>,
    << It("USAGE_PAGE", 4, 65536) >> \o Base, << ReportId(0) >> \o Base,
    Base \o << It("DELIMITER", 1, 2) >>, Data("INPUT", 33, 1, 2), Data("INPUT", 0, 1, 2),
    Data("INPUT", 1, 9, 2), Data("INPUT", 32, 8, 2), << UsagePage(1) >> }

MCDescriptors == MCDevices \cup Explored \cup Malformed

Typed(id, payload) ==
  [handle |-> 20 + id, characteristic |-> "REPORT", report_id |-> id, report_type |-> "INPUT",
   payload |-> payload]

Untyped(payload) ==
  [Typed(1, payload) EXCEPT !.report_id = Unset, !.report_type = NoType, !.handle = 20]

Boot(handle, characteristic, payload) ==
  [handle |-> handle, characteristic |-> characteristic, report_id |-> Unset,
   report_type |-> NoType, payload |-> payload]

MCNotifications ==
  { \* pressed and moving; the other button, moving back; out of range; too short
    Typed(1, <<1, 1, 255>>), Typed(1, <<2, 255, 0>>), Typed(1, <<1, 128, 0>>), Typed(1, <<0>>),
    \* keys in both orders, one twice, one out of range, a report that is too long
    Typed(2, <<1, 4, 5>>), Typed(2, <<1, 5, 4>>), Typed(2, <<0, 4, 4>>), Typed(2, <<2, 4, 0>>),
    Typed(2, <<0, 9, 5, 7>>),
    [Typed(2, <<1, 4, 5>>) EXCEPT !.report_type = "OUTPUT"], Typed(3, <<1, 2, 3>>),
    Untyped(<<200, 1>>), Untyped(<<201, 6>>), Untyped(<<3, 4>>),
    Boot(30, "BOOT_KEYBOARD", <<2, 0, 4, 5, 0, 0, 0, 0>>),
    Boot(30, "BOOT_KEYBOARD", <<0, 0, 5, 5, 232, 0, 0, 0, 1>>),
    Boot(30, "BOOT_KEYBOARD", <<0, 0, 225, 0, 0, 0, 0, 0>>),
    Boot(30, "BOOT_KEYBOARD", <<0, 0, 0>>),
    Boot(31, "BOOT_MOUSE", <<1, 254, 3>>), Boot(31, "BOOT_MOUSE", <<10, 0, 0>>) }

\* An extract of the tables: pages with usages, without, and the ones between.
MCPageRecords ==
  << [id |-> 1, first |-> 0, count |-> 5], [id |-> 7, first |-> 5, count |-> 4],
     [id |-> 9, first |-> 9, count |-> 0], [id |-> 10, first |-> 9, count |-> 0],
     [id |-> 12, first |-> 9, count |-> 2] >>

Named(id, name) == [id |-> id, name |-> name]

MCUsageRecords ==
  << Named(2, "Mouse"), Named(6, "Keyboard"), Named(48, "X"), Named(49, "Y"), Named(55, "Dial"),
     Named(4, "Keyboard A"), Named(5, "Keyboard B"), Named(224, "Keyboard LeftControl"),
     Named(225, "Keyboard LeftShift"),
     Named(233, "Volume Increment"), Named(234, "Volume Decrement") >>
=============================================================================
