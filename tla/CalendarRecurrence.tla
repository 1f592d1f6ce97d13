------------------------- MODULE CalendarRecurrence -------------------------
(***************************************************************************)
(* The date arithmetic of the academy calendar.  A date is its proleptic   *)
(* Gregorian ordinal (1 is January 1 of year 1), as in Python's date.      *)
(* A rule says which dates a series that begins on `first' occurs on;      *)
(* expansion jumps straight to the requested range and never walks the     *)
(* life of a series.                                                       *)
(***************************************************************************)
EXTENDS Integers

CONSTANTS
  MaxDates,   \* dates one range may span
  None        \* a limit a rule does not have, a date that is not there

Larger(m, n)  == IF m >= n THEN m ELSE n
Smaller(m, n) == IF m <= n THEN m ELSE n

Leap(y) == y % 4 = 0 /\ (y % 100 # 0 \/ y % 400 = 0)

\* Days before January 1 of year y.
DaysBefore(y) ==
  LET p == y - 1 IN p * 365 + p \div 4 - p \div 100 + p \div 400

YearOf(d) ==
  CHOOSE y \in ((d - 1) * 400) \div 146097 .. ((d - 1) * 400) \div 146097 + 2 :
    DaysBefore(y) < d /\ d <= DaysBefore(y + 1)

\* Month and day as one number: the day of a leap year, 60 being February 29.
MonthDay(d) ==
  LET y == YearOf(d)
      n == d - DaysBefore(y)
  IN  IF ~Leap(y) /\ n >= 60 THEN n + 1 ELSE n

\* The weekday of a date, 0 for Monday.
Weekday(d) == (d + 6) % 7

-----------------------------------------------------------------------------
Frequencies  == {"weekly", "yearly"}
Terminations == {"never", "end_date", "occurrence_count"}

RangeOK(lo, hi) == lo <= hi /\ hi - lo + 1 <= MaxDates

TerminationOK(rule, first) ==
  \/ /\ rule.termination = "never"
     /\ rule.end = None /\ rule.count = None
  \/ /\ rule.termination = "end_date"
     /\ rule.end # None /\ rule.count = None
     /\ rule.end >= first
  \/ /\ rule.termination = "occurrence_count"
     /\ rule.end = None /\ rule.count # None
     /\ rule.count >= 1

\* Index of the last occurrence on or before `hi' that the rule allows.
LastIndex(rule, first, hi) ==
  LET index == (hi - first) \div 7
  IN  CASE rule.termination = "never" -> index
        [] rule.termination = "end_date" -> Smaller(index, (rule.end - first) \div 7)
        [] rule.termination = "occurrence_count" -> Smaller(index, rule.count - 1)

WeeklyDates(rule, first, lo, hi) ==
  IF hi < first THEN {}
  ELSE {first + 7 * k : k \in Larger(0, (lo - first + 6) \div 7)
                              .. LastIndex(rule, first, hi)}

YearlyDateInMarch(first, y) ==
  LET n == MonthDay(first)
  IN  DaysBefore(y) + (IF ~Leap(y) /\ n > 60 THEN n - 1 ELSE n)

\* The occurrence of year y; February 29 falls back to February 28.
YearlyDate(first, y) ==
  LET n == MonthDay(first)
  IN  DaysBefore(y) + (IF ~Leap(y) /\ n >= 60 THEN n - 1 ELSE n)

YearlyDates(rule, first, lo, hi) ==
  LET born  == YearOf(first)
      years == {y \in Larger(born, YearOf(lo)) .. YearOf(hi) :
                  rule.termination = "occurrence_count" => y - born < rule.count}
  IN  IF hi < first THEN {}
      ELSE {d \in {YearlyDate(first, y) : y \in years} :
              /\ rule.termination = "end_date" => d <= rule.end
              /\ lo <= d /\ d <= hi}

ExpandRecurrence(rule, first, lo, hi) ==
  IF rule.frequency = "weekly" THEN WeeklyDates(rule, first, lo, hi)
                               ELSE YearlyDates(rule, first, lo, hi)

OccursOn(rule, first, d) ==
  TerminationOK(rule, first) /\ ExpandRecurrence(rule, first, d, d) # {}

-----------------------------------------------------------------------------
(* What the rule means, date by date. *)

\* Whether d is the first date or repeats it, and as which occurrence.
Repeats(rule, first, d) ==
  /\ d >= first
  /\ IF rule.frequency = "weekly"
     THEN (d - first) % 7 = 0
     ELSE \/ MonthDay(d) = MonthDay(first)
          \/ MonthDay(first) = 60 /\ MonthDay(d) = 59 /\ ~Leap(YearOf(d))

Nth(rule, first, d) ==
  IF rule.frequency = "weekly" THEN (d - first) \div 7 ELSE YearOf(d) - YearOf(first)

RuleMeans(rule, first, d) ==
  /\ Repeats(rule, first, d)
  /\ rule.termination = "end_date" => d <= rule.end
  /\ rule.termination = "occurrence_count" => Nth(rule, first, d) < rule.count
=============================================================================
