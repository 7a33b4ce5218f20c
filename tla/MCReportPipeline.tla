-------------------------- MODULE MCReportPipeline --------------------------
(***************************************************************************)
(* Small inputs for ReportPipeline: a device with a key, an absolute level *)
(* and two relative axes, in that order.                                   *)
(***************************************************************************)
EXTENDS ReportPipeline

Order == <<"key", "level", "dx", "wheel">>

Report(status, size, key, level, dx, wheel) ==
  [status |-> status, size |-> size,
   input |-> [f \in {"key", "level", "dx", "wheel"} |->
                CASE f = "key" -> key [] f = "level" -> level
                  [] f = "dx" -> dx [] f = "wheel" -> wheel]]

\* A press that moves; a move with the key up; the level and both axes, more than
\* the buffer takes; a report that has the key only.
Press   == Report("COMPLETE", 2, 1, 0, 1, 0)
Move    == Report("COMPLETE", 1, 0, 0, -2, 0)
Level   == Report("COMPLETE", 1, 0, 1, 1, 1)
KeyOnly == Report("COMPLETE", 1, 1, Absent, Absent, Absent)
Short   == Report("SHORT", 0, 1, 1, 1, 1)
Unknown == Report("UNDECODABLE", 2, 0, 0, 0, 0)
TooLong == Report("COMPLETE", 4, 1, 1, 1, 1)

AllReports  == {Press, Move, Level, KeyOnly, Short, Unknown, TooLong}
LiveReports == {Press, Move, Level}
=============================================================================
