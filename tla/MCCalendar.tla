----------------------------- MODULE MCCalendar -----------------------------
(* A small calendar around February 29, 2024 for TLC. *)
EXTENDS Calendar, TLC

CONSTANT e1

LeapDay == DaysBefore(2024) + 60
Fallback == DaysBefore(2025) + 59    \* February 28, 2025

MCOriginals == {LeapDay + 7, Fallback}

MCRanges ==
  {<<LeapDay - 2, LeapDay + 6>>, <<LeapDay + 1, LeapDay + 8>>,
   <<Fallback, Fallback + 1>>}

Everyone == [kind |-> "all_academy", groups |-> {}]
Juniors  == [kind |-> "age_group", groups |-> {"J"}]
NoScope  == [kind |-> "age_group", groups |-> {}]

Timed(date, hours, scope) ==
  [type |-> "practice", date |-> date, allDay |-> FALSE, hours |-> hours, scope |-> scope]
AllDay(type, date) ==
  [type |-> type, date |-> date, allDay |-> TRUE, hours |-> None, scope |-> Everyone]

MCPayloads ==
  {Timed(LeapDay, <<9, 11>>, Juniors), AllDay("miscellaneous", LeapDay + 7),
   \* refused
   Timed(LeapDay, <<11, 9>>, Everyone), Timed(LeapDay, <<9, 11>>, NoScope),
   AllDay("game", LeapDay)}

Rule(f, t, end, count) ==
  [frequency |-> f, termination |-> t, end |-> end, count |-> count]

MCRules ==
  {None, Rule("weekly", "never", None, None),
   Rule("weekly", "end_date", LeapDay + 6, None),
   Rule("yearly", "occurrence_count", None, 2),
   Rule("weekly", "occurrence_count", None, 0)}

MCTimes == {[day |-> LeapDay - 1, hour |-> 12], [day |-> LeapDay, hour |-> 10]}
=============================================================================
