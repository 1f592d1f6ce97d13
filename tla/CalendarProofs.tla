--------------------------- MODULE CalendarProofs ---------------------------
(* The date arithmetic of recurring series, the type correctness of the     *)
(* calendar, and what its versions, ranges and search index may be trusted   *)
(* for.                                                                      *)
EXTENDS Calendar, FiniteSetTheorems, TLAPS

-----------------------------------------------------------------------------
(* Years.                                                                    *)

LEMMA YearLength ==
  ASSUME NEW y \in Int
  PROVE  /\ DaysBefore(y) \in Int
         /\ DaysBefore(y + 1) = DaysBefore(y) + (IF Leap(y) THEN 366 ELSE 365)
BY DEF DaysBefore, Leap

LEMMA YearsInOrder ==
  ASSUME NEW x \in Int, NEW y \in Int, x < y
  PROVE  DaysBefore(x + 1) <= DaysBefore(y)
BY DEF DaysBefore

\* The search for the year of a date finds the one that holds it.
LEMMA YearBounds ==
  ASSUME NEW d \in Dates
  PROVE  /\ YearOf(d) \in Nat \ {0}
         /\ DaysBefore(YearOf(d)) < d /\ d <= DaysBefore(YearOf(d) + 1)
<1> DEFINE z == ((d - 1) * 400) \div 146097
<1>1. z \in Nat /\ DaysBefore(z) < d /\ d <= DaysBefore(z + 3)
  BY DEF DaysBefore, Dates
<1>2. /\ DaysBefore(z) \in Int /\ DaysBefore(z + 1) \in Int
      /\ DaysBefore(z + 2) \in Int /\ DaysBefore(z + 3) \in Int
  BY <1>1, YearLength
<1>3. \E y \in z .. z + 2 : DaysBefore(y) < d /\ d <= DaysBefore(y + 1)
  <2>1. CASE d <= DaysBefore(z + 1)
    BY <1>1, <2>1
  <2>2. CASE ~(d <= DaysBefore(z + 1)) /\ d <= DaysBefore(z + 2)
    <3>1. z + 1 \in z .. z + 2 /\ (z + 1) + 1 = z + 2
      BY <1>1
    <3> QED BY <1>2, <2>2, <3>1 DEF Dates
  <2>3. CASE ~(d <= DaysBefore(z + 2))
    <3>1. z + 2 \in z .. z + 2 /\ (z + 2) + 1 = z + 3
      BY <1>1
    <3> QED BY <1>1, <1>2, <2>3, <3>1 DEF Dates
  <2> QED BY <2>1, <2>2, <2>3
<1>4. /\ YearOf(d) \in z .. z + 2
      /\ DaysBefore(YearOf(d)) < d /\ d <= DaysBefore(YearOf(d) + 1)
  BY <1>3 DEF YearOf
<1>5. YearOf(d) # 0
  <2>1. DaysBefore(0 + 1) = 0
    BY DEF DaysBefore
  <2> QED BY <1>4, <2>1 DEF Dates
<1> QED BY <1>1, <1>4, <1>5

LEMMA YearUnique ==
  ASSUME NEW d \in Dates, NEW y \in Int, DaysBefore(y) < d, d <= DaysBefore(y + 1)
  PROVE  YearOf(d) = y
<1>1. YearOf(d) \in Int /\ DaysBefore(YearOf(d)) < d /\ d <= DaysBefore(YearOf(d) + 1)
  BY YearBounds
<1>2. ~(YearOf(d) < y)
  <2> SUFFICES ASSUME YearOf(d) < y PROVE FALSE
    OBVIOUS
  <2>1. DaysBefore(YearOf(d) + 1) <= DaysBefore(y)
    BY <1>1, YearsInOrder
  <2> QED BY <1>1, <2>1, YearLength DEF Dates
<1>3. ~(y < YearOf(d))
  <2> SUFFICES ASSUME y < YearOf(d) PROVE FALSE
    OBVIOUS
  <2>1. DaysBefore(y + 1) <= DaysBefore(YearOf(d))
    BY <1>1, YearsInOrder
  <2> QED BY <1>1, <2>1, YearLength DEF Dates
<1> QED BY <1>1, <1>2, <1>3

LEMMA YearMonotone ==
  ASSUME NEW d \in Dates, NEW e \in Dates, d <= e
  PROVE  YearOf(d) <= YearOf(e)
<1>1. /\ YearOf(d) \in Int /\ DaysBefore(YearOf(d)) < d
      /\ YearOf(e) \in Int /\ e <= DaysBefore(YearOf(e) + 1)
  BY YearBounds
<1> SUFFICES ASSUME YearOf(e) < YearOf(d) PROVE FALSE
  BY <1>1
<1>2. DaysBefore(YearOf(e) + 1) <= DaysBefore(YearOf(d))
  BY <1>1, YearsInOrder
<1> QED BY <1>1, <1>2, YearLength DEF Dates

\* Month and day number the days of a leap year; the day of the year is there.
LEMMA MonthDayRange ==
  ASSUME NEW d \in Dates
  PROVE  /\ MonthDay(d) \in 1 .. 366
         /\ ~Leap(YearOf(d)) => MonthDay(d) # 60
         /\ d = DaysBefore(YearOf(d)) +
                (IF ~Leap(YearOf(d)) /\ MonthDay(d) > 60 THEN MonthDay(d) - 1
                                                         ELSE MonthDay(d))
<1> DEFINE y == YearOf(d)
           n == d - DaysBefore(y)
<1>1. y \in Int /\ DaysBefore(y) < d /\ d <= DaysBefore(y + 1)
  BY YearBounds
<1>2. /\ DaysBefore(y) \in Int
      /\ DaysBefore(y + 1) = DaysBefore(y) + (IF Leap(y) THEN 366 ELSE 365)
  BY <1>1, YearLength
<1>3. n \in 1 .. 366 /\ (~Leap(y) => n <= 365) /\ d = DaysBefore(y) + n
  BY <1>1, <1>2 DEF Dates
<1>4. MonthDay(d) = IF ~Leap(y) /\ n >= 60 THEN n + 1 ELSE n
  BY DEF MonthDay
<1> HIDE DEF y, n
<1>5. MonthDay(d) \in 1 .. 366 /\ (~Leap(y) => MonthDay(d) # 60)
  BY <1>3, <1>4
<1>6. n = IF ~Leap(y) /\ MonthDay(d) > 60 THEN MonthDay(d) - 1 ELSE MonthDay(d)
  BY <1>3, <1>4
<1> QED BY <1>3, <1>5, <1>6 DEF y

-----------------------------------------------------------------------------
(* Recurrence rules.                                                         *)

LEMMA YearlyInYear ==
  ASSUME NEW first \in Dates, NEW y \in Nat \ {0}
  PROVE  YearlyDate(first, y) \in Dates /\ YearOf(YearlyDate(first, y)) = y
<1> DEFINE n == MonthDay(first)
           offset == IF ~Leap(y) /\ n >= 60 THEN n - 1 ELSE n
<1>1. n \in 1 .. 366
  BY MonthDayRange
<1>2. /\ DaysBefore(y) \in Int
      /\ DaysBefore(y + 1) = DaysBefore(y) + (IF Leap(y) THEN 366 ELSE 365)
  BY YearLength
<1>3. DaysBefore(y) >= 0
  BY DEF DaysBefore
<1>4. YearlyDate(first, y) = DaysBefore(y) + offset
  BY DEF YearlyDate
<1> HIDE DEF n
<1>5. offset \in 1 .. (IF Leap(y) THEN 366 ELSE 365)
  BY <1>1
<1> HIDE DEF offset
<1>6. /\ YearlyDate(first, y) \in Dates
      /\ DaysBefore(y) < YearlyDate(first, y) /\ YearlyDate(first, y) <= DaysBefore(y + 1)
  BY <1>2, <1>3, <1>4, <1>5 DEF Dates
<1> QED BY <1>6, YearUnique

\* A date is its year's occurrence exactly if its month and day repeat the first
\* date's, or stand in for its February 29.
LEMMA YearlyRepeats ==
  ASSUME NEW first \in Dates, NEW d \in Dates
  PROVE  d = YearlyDate(first, YearOf(d)) <=>
           \/ MonthDay(d) = MonthDay(first)
           \/ MonthDay(first) = 60 /\ MonthDay(d) = 59 /\ ~Leap(YearOf(d))
<1>1. YearOf(d) \in Int /\ DaysBefore(YearOf(d)) \in Int
  BY YearBounds, YearLength
<1>2. MonthDay(first) \in Int /\ MonthDay(d) \in Int
  BY MonthDayRange
<1> QED BY <1>1, <1>2, MonthDayRange DEF YearlyDate

LEMMA YearlyFirst ==
  ASSUME NEW first \in Dates
  PROVE  YearlyDate(first, YearOf(first)) = first
BY YearlyRepeats

RuleTyped(rule) ==
  /\ rule.frequency \in Frequencies /\ rule.termination \in Terminations
  /\ rule.end \in Limits /\ rule.count \in Int \cup {None}

LEMMA WeeklyMeans ==
  ASSUME NEW rule, RuleTyped(rule), rule.frequency = "weekly",
         NEW first \in Dates, NEW lo \in Dates, NEW hi \in Dates,
         TerminationOK(rule, first), NEW d
  PROVE  d \in ExpandRecurrence(rule, first, lo, hi) <=>
           d \in lo .. hi /\ RuleMeans(rule, first, d)
<1> DEFINE last == LastIndex(rule, first, hi)
<1>1. first \in Int /\ lo \in Int /\ hi \in Int
  BY DEF Dates
<1>2. /\ rule.termination = "end_date" => rule.end \in Int
      /\ rule.termination = "occurrence_count" => rule.count \in Int
  BY DEF TerminationOK, RuleTyped, Limits, Dates
<1>3. /\ last \in Int
      /\ \A k \in Int :
           k <= last <=>
             /\ first + 7 * k <= hi
             /\ rule.termination = "end_date" => first + 7 * k <= rule.end
             /\ rule.termination = "occurrence_count" => k < rule.count
  <2>1. CASE rule.termination = "never"
    BY <1>1, <2>1 DEF LastIndex
  <2>2. CASE rule.termination = "end_date"
    BY <1>1, <1>2, <2>2 DEF LastIndex, Smaller
  <2>3. CASE rule.termination = "occurrence_count"
    BY <1>1, <1>2, <2>3 DEF LastIndex, Smaller
  <2> QED BY <2>1, <2>2, <2>3 DEF RuleTyped, Terminations
<1>4. \A k \in Int : k >= Larger(0, (lo - first + 6) \div 7) <=>
                       k >= 0 /\ first + 7 * k >= lo
  BY <1>1 DEF Larger
<1>5. Larger(0, (lo - first + 6) \div 7) \in Int
  BY <1>1 DEF Larger
<1>6. d \in WeeklyDates(rule, first, lo, hi) <=>
        /\ hi >= first
        /\ \E k \in Int : /\ d = first + 7 * k /\ k >= 0 /\ d >= lo /\ d <= hi
                          /\ rule.termination = "end_date" => d <= rule.end
                          /\ rule.termination = "occurrence_count" => k < rule.count
  <2> HIDE DEF last
  <2>1. d \in WeeklyDates(rule, first, lo, hi) <=>
          /\ hi >= first
          /\ \E k \in Larger(0, (lo - first + 6) \div 7) .. last : d = first + 7 * k
    BY <1>1 DEF WeeklyDates, last
  <2> QED BY <1>1, <1>3, <1>4, <1>5, <2>1
<1>7. d \in lo .. hi /\ RuleMeans(rule, first, d) <=>
        /\ d \in lo .. hi /\ d >= first /\ (d - first) % 7 = 0
        /\ rule.termination = "end_date" => d <= rule.end
        /\ rule.termination = "occurrence_count" => (d - first) \div 7 < rule.count
  BY DEF RuleMeans, Repeats, Nth
<1>8. \A k \in Int : d = first + 7 * k => (d - first) % 7 = 0 /\ (d - first) \div 7 = k
  BY <1>1
<1>9. d \in Int /\ (d - first) % 7 = 0 => d = first + 7 * ((d - first) \div 7)
  BY <1>1
<1>10. d \in WeeklyDates(rule, first, lo, hi) => d \in lo .. hi /\ RuleMeans(rule, first, d)
  BY <1>1, <1>6, <1>7, <1>8
<1>11. d \in lo .. hi /\ RuleMeans(rule, first, d) => d \in WeeklyDates(rule, first, lo, hi)
  <2> SUFFICES ASSUME d \in lo .. hi, RuleMeans(rule, first, d)
               PROVE  d \in WeeklyDates(rule, first, lo, hi)
    OBVIOUS
  <2> DEFINE k == (d - first) \div 7
  <2>1. k \in Int /\ d = first + 7 * k /\ d \in Int /\ d >= first
    BY <1>1, <1>7, <1>9
  <2>2. /\ rule.termination = "end_date" => d <= rule.end
        /\ rule.termination = "occurrence_count" => k < rule.count
    BY <1>7
  <2> HIDE DEF k
  <2>3. k >= 0 /\ hi >= first /\ d >= lo /\ d <= hi
    BY <1>1, <2>1
  <2> QED BY <1>6, <2>1, <2>2, <2>3
<1> QED BY <1>10, <1>11 DEF ExpandRecurrence

LEMMA YearlyMeans ==
  ASSUME NEW rule, RuleTyped(rule), rule.frequency = "yearly",
         NEW first \in Dates, NEW lo \in Dates, NEW hi \in Dates,
         TerminationOK(rule, first), NEW d
  PROVE  d \in ExpandRecurrence(rule, first, lo, hi) <=>
           d \in lo .. hi /\ RuleMeans(rule, first, d)
<1> DEFINE born  == YearOf(first)
           years == {y \in Larger(born, YearOf(lo)) .. YearOf(hi) :
                       rule.termination = "occurrence_count" => y - born < rule.count}
<1>1. /\ first \in Int /\ lo \in Int /\ hi \in Int
      /\ born \in Nat \ {0} /\ YearOf(lo) \in Nat \ {0} /\ YearOf(hi) \in Nat \ {0}
  BY YearBounds DEF Dates
<1>2. d \in ExpandRecurrence(rule, first, lo, hi) <=>
        /\ hi >= first
        /\ \E y \in years : d = YearlyDate(first, y)
        /\ rule.termination = "end_date" => d <= rule.end
        /\ lo <= d /\ d <= hi
  BY <1>1 DEF ExpandRecurrence, YearlyDates
<1>3. ASSUME d \in ExpandRecurrence(rule, first, lo, hi)
      PROVE  d \in lo .. hi /\ RuleMeans(rule, first, d)
  <2>1. PICK y \in years : d = YearlyDate(first, y)
    BY <1>2, <1>3
  <2>2. y \in Nat \ {0} /\ y >= born
    BY <1>1, <2>1 DEF Larger
  <2>3. d \in Dates /\ YearOf(d) = y
    BY <2>1, <2>2, YearlyInYear
  <2>4. \/ MonthDay(d) = MonthDay(first)
        \/ MonthDay(first) = 60 /\ MonthDay(d) = 59 /\ ~Leap(YearOf(d))
    BY <2>1, <2>3, YearlyRepeats
  <2>5. d >= first
    <3>1. CASE y = born
      BY <1>1, <2>1, <3>1, YearlyFirst
    <3>2. CASE y > born
      BY <1>1, <2>2, <2>3, <3>2, YearMonotone DEF Dates
    <3> QED BY <1>1, <2>2, <3>1, <3>2
  <2> QED BY <1>1, <1>2, <1>3, <2>1, <2>3, <2>4, <2>5 DEF RuleMeans, Repeats, Nth, Dates
<1>4. ASSUME d \in lo .. hi, RuleMeans(rule, first, d)
      PROVE  d \in ExpandRecurrence(rule, first, lo, hi)
  <2>1. d \in Dates /\ d >= first /\ lo <= d /\ d <= hi
    BY <1>1, <1>4 DEF RuleMeans, Repeats, Dates
  <2>2. d = YearlyDate(first, YearOf(d))
    BY <1>4, <2>1, YearlyRepeats DEF RuleMeans, Repeats
  <2>3. YearOf(d) \in Nat /\ born <= YearOf(d) /\ YearOf(lo) <= YearOf(d) /\ YearOf(d) <= YearOf(hi)
    BY <2>1, YearMonotone, YearBounds
  <2>4. YearOf(d) \in years
    BY <1>1, <1>4, <2>3 DEF RuleMeans, Nth, Larger
  <2>5. hi >= first
    BY <1>1, <2>1 DEF Dates
  <2>6. rule.termination = "end_date" => d <= rule.end
    BY <1>4 DEF RuleMeans
  <2> QED BY <1>2, <2>1, <2>2, <2>4, <2>5, <2>6
<1> QED BY <1>3, <1>4

LEMMA ExpandedMeans ==
  ASSUME NEW rule, RuleTyped(rule), NEW first \in Dates, NEW lo \in Dates, NEW hi \in Dates,
         TerminationOK(rule, first), NEW d
  PROVE  d \in ExpandRecurrence(rule, first, lo, hi) <=>
           d \in lo .. hi /\ RuleMeans(rule, first, d)
BY WeeklyMeans, YearlyMeans DEF RuleTyped, Frequencies

\* Expansion jumps straight to the range and finds just the dates the rule means.
THEOREM ExpansionMeansRule ==
  ASSUME NEW rule, RuleTyped(rule), NEW first \in Dates, NEW lo \in Dates, NEW hi \in Dates,
         TerminationOK(rule, first)
  PROVE  ExpandRecurrence(rule, first, lo, hi) =
           {d \in lo .. hi : RuleMeans(rule, first, d)}
BY ExpandedMeans

LEMMA OccursMeans ==
  ASSUME NEW rule, RuleTyped(rule), NEW first \in Dates, NEW d \in Dates
  PROVE  OccursOn(rule, first, d) <=>
           TerminationOK(rule, first) /\ RuleMeans(rule, first, d)
<1>1. d \in d .. d /\ \A x \in d .. d : x = d
  BY DEF Dates
<1> SUFFICES ASSUME TerminationOK(rule, first)
             PROVE  ExpandRecurrence(rule, first, d, d) # {} <=> RuleMeans(rule, first, d)
  BY DEF OccursOn
<1>2. \A x : x \in ExpandRecurrence(rule, first, d, d) <=>
               x \in d .. d /\ RuleMeans(rule, first, x)
  BY ExpandedMeans
<1> QED BY <1>1, <1>2

-----------------------------------------------------------------------------
(* Rows.                                                                     *)

\* A series, and an event, whose rows are typed, meet the constraints of their
\* tables and agree with each other.
SeriesSound(series, first) ==
  /\ SeriesRowFits(series)
  /\ TerminationOK(series, first)
  /\ series.weekday  \in {None, Weekday(first)}
  /\ series.monthDay \in {None, MonthDay(first)}
  /\ \A d \in DOMAIN series.exceptions :
       /\ ExceptionRowFits(series.exceptions[d]) /\ ExceptionScopesFit(series.exceptions[d])
       /\ RuleMeans(series, first, d)

RowSound(ev) ==
  /\ IsEvent(ev)
  /\ EventRowFits(ev) /\ ScopeRowsFit(ev.scopes) /\ ev.scopes # {}
  /\ Recurs(ev) => SeriesSound(ev.series, ev.first)

LEMMA EventFields ==
  ASSUME NEW ev, IsEvent(ev)
  PROVE  /\ ev.type \in EventTypes /\ ev.first \in Dates /\ ev.allDay \in BOOLEAN
         /\ ev.hours \in Hours /\ ev.scopes \in ScopeSets /\ ev.version \in 1 .. MaxVersion
BY DEF IsEvent, EventRecords

LEMMA SeriesFields ==
  ASSUME NEW ev, IsEvent(ev), Recurs(ev)
  PROVE  /\ RuleTyped(ev.series)
         /\ ev.series.weekday \in 0 .. 6 \cup {None}
         /\ ev.series.monthDay \in 1 .. 366 \cup {None}
<1>1. PICK dates \in SUBSET Originals : ev \in EventRecords(dates)
  BY DEF IsEvent
<1>2. ev.series \in SeriesRecords(dates)
  BY <1>1 DEF EventRecords, Recurs
<1> QED BY <1>2 DEF SeriesRecords, RuleTyped

LEMMA ExceptionFields ==
  ASSUME NEW ev, IsEvent(ev)
  PROVE  /\ DOMAIN Exceptions(ev) \in SUBSET Originals
         /\ Exceptions(ev) \in [DOMAIN Exceptions(ev) -> ExceptionRecords]
         /\ Recurs(ev) => Exceptions(ev) = ev.series.exceptions
         /\ ~Recurs(ev) => DOMAIN Exceptions(ev) = {}
<1>1. PICK dates \in SUBSET Originals : ev \in EventRecords(dates)
  BY DEF IsEvent
<1>2. CASE Recurs(ev)
  <2>1. ev.series \in SeriesRecords(dates)
    BY <1>1, <1>2 DEF EventRecords, Recurs
  <2>2. ev.series.exceptions \in [dates -> ExceptionRecords]
    BY <2>1 DEF SeriesRecords
  <2> QED BY <1>2, <2>2 DEF Exceptions
<1>3. CASE ~Recurs(ev)
  BY <1>3 DEF Exceptions, NoExceptions
<1> QED BY <1>2, <1>3

\* The rows a command writes.
LEMMA SeriesWritten ==
  ASSUME NEW rule \in RecurrenceRules, NEW first \in Dates, RecurrenceOK(rule, first),
         NEW dates \in SUBSET Originals, NEW exceptions \in [dates -> ExceptionRecords],
         \A d \in dates : /\ ExceptionRowFits(exceptions[d])
                          /\ ExceptionScopesFit(exceptions[d])
                          /\ OccursOn(rule, first, d)
  PROVE  /\ SeriesRow(rule, first, exceptions) \in SeriesRecords(dates)
         /\ SeriesSound(SeriesRow(rule, first, exceptions), first)
<1> DEFINE row == SeriesRow(rule, first, exceptions)
<1>1. Weekday(first) \in 0 .. 6 /\ MonthDay(first) \in 1 .. 366
  BY MonthDayRange DEF Weekday, Dates
<1>2. /\ rule.frequency \in Frequencies /\ rule.termination \in Terminations
      /\ rule.end \in Limits /\ rule.count \in Int \cup {None}
  BY DEF RecurrenceRules
<1>3. /\ row.frequency = rule.frequency /\ row.termination = rule.termination
      /\ row.end = rule.end /\ row.count = rule.count /\ row.exceptions = exceptions
      /\ row.weekday = IF rule.frequency = "weekly" THEN Weekday(first) ELSE None
      /\ row.monthDay = IF rule.frequency = "weekly" THEN None ELSE MonthDay(first)
  BY DEF SeriesRow
<1>4. row \in SeriesRecords(dates)
  BY <1>1, <1>2 DEF SeriesRow, SeriesRecords
<1>5. None \notin RecurrenceRules /\ None \notin Int
  BY CalendarAssumption
<1>6. TerminationOK(rule, first)
  BY <1>5 DEF RecurrenceOK
<1> HIDE DEF row
<1>7. TerminationOK(row, first)
  BY <1>3, <1>6 DEF TerminationOK
<1>8. SeriesRowFits(row)
  BY <1>1, <1>2, <1>3, <1>5, <1>7 DEF SeriesRowFits, TerminationOK, Frequencies
<1>9. \A d \in dates : RuleMeans(row, first, d)
  <2> SUFFICES ASSUME NEW d \in dates PROVE RuleMeans(row, first, d)
    OBVIOUS
  <2>1. d \in Dates /\ RuleTyped(rule)
    BY <1>2, CalendarAssumption DEF RuleTyped
  <2>2. RuleMeans(rule, first, d)
    BY <2>1, OccursMeans
  <2> QED BY <1>3, <2>2 DEF RuleMeans, Repeats, Nth
<1>10. row.weekday \in {None, Weekday(first)} /\ row.monthDay \in {None, MonthDay(first)}
  BY <1>3
<1> QED BY <1>3, <1>4, <1>7, <1>8, <1>9, <1>10 DEF SeriesSound, row

LEMMA EventWritten ==
  ASSUME NEW p \in EventValues, ValuesOK(p), NEW dates \in SUBSET Originals,
         NEW series \in {None} \cup SeriesRecords(dates),
         series # None => SeriesSound(series, p.date),
         NEW version \in 1 .. MaxVersion
  PROVE  /\ RowSound(EventRow(p, series, version))
         /\ EventRow(p, series, version).series = series
         /\ EventRow(p, series, version).first = p.date
         /\ EventRow(p, series, version).version = version
<1> DEFINE row == EventRow(p, series, version)
<1>1. /\ p.type \in EventTypes /\ p.date \in Dates /\ p.allDay \in BOOLEAN
      /\ p.hours \in Hours /\ p.scope.kind \in ScopeKinds
      /\ p.scope.groups \in SUBSET AgeGroups
  BY DEF EventValues
<1>2. /\ ScopeRows(p.scope) \in ScopeSets /\ ScopeRows(p.scope) # {}
      /\ ScopeRowsFit(ScopeRows(p.scope))
  BY <1>1 DEF ScopeRows, ScopeSets, ScopeRowsFit, ValuesOK, ScopeOK, AgeGroups
<1>3. row \in EventRecords(dates)
  BY <1>1, <1>2 DEF EventRow, EventRecords
<1>4. /\ row.type = p.type /\ row.allDay = p.allDay /\ row.hours = p.hours
      /\ row.scopes = ScopeRows(p.scope) /\ row.series = series /\ row.first = p.date
      /\ row.version = version
  BY DEF EventRow
<1> HIDE DEF row
<1>5. TimesFit(row)
  BY <1>1, <1>4 DEF TimesFit, ValuesOK, HoursOK
<1>6. EventRowFits(row)
  BY <1>1, <1>4, <1>5 DEF EventRowFits
<1> QED BY <1>2, <1>3, <1>4, <1>6 DEF RowSound, IsEvent, Recurs, row

LEMMA ExceptionWritten ==
  ASSUME NEW p \in EventValues, ValuesOK(p), NEW d \in Dates, NEW version \in 1 .. MaxSaves
  PROVE  /\ Replacement(p, d, version) \in ExceptionRecords
         /\ ExceptionRowFits(Replacement(p, d, version))
         /\ ExceptionScopesFit(Replacement(p, d, version))
         /\ Replacement(p, d, version).version = version
<1> DEFINE x == Replacement(p, d, version)
<1>1. /\ p.type \in EventTypes /\ p.date \in Dates /\ p.allDay \in BOOLEAN
      /\ p.hours \in Hours /\ p.scope.kind \in ScopeKinds
      /\ p.scope.groups \in SUBSET AgeGroups
  BY DEF EventValues
<1>2. /\ ScopeRows(p.scope) \in ScopeSets /\ ScopeRows(p.scope) # {}
      /\ ScopeRowsFit(ScopeRows(p.scope))
  BY <1>1 DEF ScopeRows, ScopeSets, ScopeRowsFit, ValuesOK, ScopeOK, AgeGroups
<1>3. x \in ExceptionRecords
  BY <1>1, <1>2 DEF Replacement, ExceptionRecords, Limits
<1>4. /\ x.type = p.type /\ x.allDay = p.allDay /\ x.hours = p.hours
      /\ x.scopes = ScopeRows(p.scope) /\ x.deleted = FALSE /\ x.version = version
  BY DEF Replacement
<1> HIDE DEF x
<1>5. TimesFit(x)
  BY <1>1, <1>4 DEF TimesFit, ValuesOK, HoursOK
<1>6. ExceptionRowFits(x)
  BY <1>1, <1>4, <1>5 DEF ExceptionRowFits
<1>7. ExceptionScopesFit(x)
  <2>1. (x.scopes = {}) = FALSE
    BY <1>2, <1>4
  <2> QED BY <1>2, <1>4, <2>1 DEF ExceptionScopesFit
<1> QED BY <1>3, <1>4, <1>6, <1>7 DEF x

LEMMA DeletionWritten ==
  ASSUME NEW version \in 1 .. MaxSaves
  PROVE  /\ Deletion(version) \in ExceptionRecords
         /\ ExceptionRowFits(Deletion(version)) /\ ExceptionScopesFit(Deletion(version))
         /\ Deletion(version).version = version
<1> DEFINE x == Deletion(version)
<1>1. x \in ExceptionRecords
  BY DEF Deletion, ExceptionRecords, Limits, Hours, ScopeSets
<1>2. /\ x.type = None /\ x.allDay = None /\ x.hours = None /\ x.scopes = {}
      /\ x.deleted = TRUE /\ x.version = version
  BY DEF Deletion
<1> HIDE DEF x
<1>3. ExceptionRowFits(x)
  BY <1>2 DEF ExceptionRowFits
<1>4. ExceptionScopesFit(x)
  <2>1. (x.scopes = {}) = TRUE
    BY <1>2
  <2> QED BY <1>2, <2>1 DEF ExceptionScopesFit, ScopeRowsFit
<1> QED BY <1>1, <1>2, <1>3, <1>4 DEF x

\* An occurrence's snapshot is saved among the others.
WithException(ev, d, x) ==
  [ev EXCEPT !.series.exceptions =
     [o \in DOMAIN Exceptions(ev) \cup {d} |-> IF o = d THEN x ELSE Exceptions(ev)[o]]]

LEMMA ExceptionSaved ==
  ASSUME NEW ev, RowSound(ev), Recurs(ev), NEW d \in Originals, SeriesOccursOn(ev, d),
         NEW x \in ExceptionRecords, ExceptionRowFits(x), ExceptionScopesFit(x)
  PROVE  LET row == WithException(ev, d, x)
         IN  /\ RowSound(row)
             /\ row.type = ev.type /\ row.first = ev.first /\ row.allDay = ev.allDay
             /\ row.hours = ev.hours /\ row.scopes = ev.scopes /\ row.version = ev.version
             /\ Recurs(row)
             /\ \A field \in {"frequency", "weekday", "monthDay", "termination", "end",
                              "count"} : row.series[field] = ev.series[field]
             /\ Exceptions(row) = [o \in DOMAIN Exceptions(ev) \cup {d} |->
                                     IF o = d THEN x ELSE Exceptions(ev)[o]]
<1>1. PICK dates \in SUBSET Originals : ev \in EventRecords(dates)
  BY DEF RowSound, IsEvent
<1>2. ev.series \in SeriesRecords(dates)
  BY <1>1 DEF EventRecords, Recurs
<1>3. ev.series.exceptions \in [dates -> ExceptionRecords] /\ Exceptions(ev) = ev.series.exceptions
  BY <1>2 DEF SeriesRecords, Exceptions
<1> DEFINE exceptions == [o \in DOMAIN Exceptions(ev) \cup {d} |->
                            IF o = d THEN x ELSE Exceptions(ev)[o]]
           all == dates \cup {d}
           series == [ev.series EXCEPT !.exceptions = exceptions]
           row == WithException(ev, d, x)
<1>4. /\ exceptions \in [all -> ExceptionRecords] /\ all \in SUBSET Originals
      /\ DOMAIN exceptions = all
      /\ \A o \in all : exceptions[o] = IF o = d THEN x ELSE ev.series.exceptions[o]
  BY <1>3
<1> HIDE DEF exceptions
<1>5. /\ series \in SeriesRecords(all) /\ series.exceptions = exceptions
      /\ series.frequency = ev.series.frequency /\ series.weekday = ev.series.weekday
      /\ series.monthDay = ev.series.monthDay /\ series.termination = ev.series.termination
      /\ series.end = ev.series.end /\ series.count = ev.series.count
  BY <1>2, <1>4 DEF SeriesRecords
<1>6. row = [ev EXCEPT !.series = series]
  BY <1>1 DEF WithException, exceptions, EventRecords
<1> HIDE DEF series
<1>7. /\ row \in EventRecords(all) /\ row.series = series
      /\ row.type = ev.type /\ row.first = ev.first /\ row.allDay = ev.allDay
      /\ row.hours = ev.hours /\ row.scopes = ev.scopes /\ row.version = ev.version
  BY <1>1, <1>5, <1>6 DEF EventRecords
<1> HIDE DEF row
<1>8. Recurs(row) /\ Exceptions(row) = exceptions
  BY <1>4, <1>5, <1>7, CalendarAssumption DEF Recurs, Exceptions
<1>9. SeriesSound(ev.series, ev.first)
  BY DEF RowSound
<1>10. RuleMeans(ev.series, ev.first, d) /\ d \in Dates
  BY SeriesFields, EventFields, OccursMeans, CalendarAssumption DEF RowSound, SeriesOccursOn
<1>11. \A o \in all : RuleMeans(series, ev.first, o)
  <2> SUFFICES ASSUME NEW o \in all PROVE RuleMeans(series, ev.first, o)
    OBVIOUS
  <2>1. RuleMeans(ev.series, ev.first, o)
    BY <1>3, <1>9, <1>10 DEF SeriesSound
  <2> QED BY <1>5, <2>1 DEF RuleMeans, Repeats, Nth
<1>12. \A o \in all : ExceptionRowFits(exceptions[o]) /\ ExceptionScopesFit(exceptions[o])
  BY <1>3, <1>4, <1>9 DEF SeriesSound
<1>13. SeriesSound(series, ev.first)
  BY <1>4, <1>5, <1>9, <1>11, <1>12 DEF SeriesSound, SeriesRowFits, TerminationOK
<1>14. RowSound(row)
  BY <1>4, <1>7, <1>13 DEF RowSound, IsEvent, EventRowFits, TimesFit
<1> QED BY <1>5, <1>7, <1>8, <1>14 DEF row, exceptions

-----------------------------------------------------------------------------
(* Occurrences.                                                              *)

LEMMA SoundIsRow ==
  ASSUME NEW ev, RowSound(ev)
  PROVE  ev \notin {Unborn, Gone} /\ IsEvent(ev)
BY CalendarAssumption DEF RowSound

LEMMA SeriesOccurs ==
  ASSUME NEW ev, RowSound(ev), Recurs(ev), NEW d \in Dates
  PROVE  SeriesOccursOn(ev, d) <=> RuleMeans(ev.series, ev.first, d)
<1>1. RuleTyped(ev.series) /\ ev.first \in Dates /\ TerminationOK(ev.series, ev.first)
  BY SeriesFields, EventFields DEF RowSound, SeriesSound
<1> QED BY <1>1, OccursMeans DEF SeriesOccursOn

LEMMA EffectiveDates ==
  ASSUME NEW ev, IsEvent(ev), NEW d \in Dates
  PROVE  /\ EffectiveDate(ev, d) \in Dates
         /\ ~Excepted(ev, d) => EffectiveDate(ev, d) = d
<1>1. CASE Excepted(ev, d)
  <2>1. Exceptions(ev)[d] \in ExceptionRecords
    BY <1>1, ExceptionFields DEF Excepted
  <2> QED BY <2>1 DEF EffectiveDate, ExceptionRecords, Limits
<1>2. CASE ~Excepted(ev, d)
  BY <1>2 DEF EffectiveDate
<1> QED BY <1>1, <1>2

\* The projection of a range is what the rule and the exceptions say, date by date.
LEMMA ProjectedMeans ==
  ASSUME NEW ev, RowSound(ev), Recurs(ev), NEW lo \in Dates, NEW hi \in Dates, NEW d
  PROVE  d \in ProjectedDates(ev, lo, hi) <=>
           /\ d \in Dates /\ RuleMeans(ev.series, ev.first, d)
           /\ ~Cancelled(ev, d) /\ EffectiveDate(ev, d) \in lo .. hi
<1>1. /\ IsEvent(ev) /\ RuleTyped(ev.series) /\ ev.first \in Dates
      /\ TerminationOK(ev.series, ev.first)
  BY SeriesFields, EventFields DEF RowSound, SeriesSound
<1>2. \A x : x \in ExpandRecurrence(ev.series, ev.first, lo, hi) <=>
               x \in lo .. hi /\ RuleMeans(ev.series, ev.first, x)
  BY <1>1, ExpandedMeans
<1>3. \A x \in lo .. hi : x \in Dates
  BY DEF Dates
<1>4. \A x \in DOMAIN Exceptions(ev) : x \in Dates
  BY <1>1, ExceptionFields, CalendarAssumption
<1>5. d \in ProjectedDates(ev, lo, hi) <=>
        /\ \/ d \in lo .. hi /\ RuleMeans(ev.series, ev.first, d)
           \/ /\ Excepted(ev, d) /\ Exceptions(ev)[d].moved # None
              /\ Exceptions(ev)[d].moved \in lo .. hi
              /\ SeriesOccursOn(ev, d)
        /\ ~Cancelled(ev, d) /\ EffectiveDate(ev, d) \in lo .. hi
  BY <1>2 DEF ProjectedDates, Excepted
<1>6. d \in ProjectedDates(ev, lo, hi) =>
        /\ d \in Dates /\ RuleMeans(ev.series, ev.first, d)
        /\ ~Cancelled(ev, d) /\ EffectiveDate(ev, d) \in lo .. hi
  BY <1>3, <1>4, <1>5, SeriesOccurs DEF Excepted
<1>7. ASSUME d \in Dates, RuleMeans(ev.series, ev.first, d),
             ~Cancelled(ev, d), EffectiveDate(ev, d) \in lo .. hi
      PROVE  d \in ProjectedDates(ev, lo, hi)
  <2>1. CASE Excepted(ev, d) /\ Exceptions(ev)[d].moved # None
    <3>1. Exceptions(ev)[d].moved \in lo .. hi /\ SeriesOccursOn(ev, d)
      BY <1>7, <2>1, SeriesOccurs DEF EffectiveDate
    <3> QED BY <1>5, <1>7, <2>1, <3>1
  <2>2. CASE ~(Excepted(ev, d) /\ Exceptions(ev)[d].moved # None)
    <3>1. EffectiveDate(ev, d) = d
      BY <2>2 DEF EffectiveDate
    <3> QED BY <1>5, <1>7, <3>1
  <2> QED BY <2>1, <2>2
<1> QED BY <1>6, <1>7

\* get_instance finds the occurrences of the rule that are not cancelled.
LEMMA InstanceMeans ==
  ASSUME NEW cal, NEW e \in Events, RowSound(cal[e]), Recurs(cal[e]), NEW d \in Dates
  PROVE  GetInstance(cal, <<e, d>>) =
           IF RuleMeans(cal[e].series, cal[e].first, d) /\ ~Cancelled(cal[e], d)
           THEN {RecurringInstance(e, cal[e], d)} ELSE {}
<1>1. cal[e] \notin {Unborn, Gone} /\ d # None
  BY SoundIsRow, CalendarAssumption DEF Dates
<1>2. RuleMeans(cal[e].series, cal[e].first, d) => cal[e].first <= d
  <2>1. cal[e].first \in Dates
    BY EventFields DEF RowSound
  <2> QED BY <2>1 DEF RuleMeans, Repeats, Dates
<1> QED BY <1>1, <1>2, SeriesOccurs DEF GetInstance

LEMMA ScopesShown ==
  ASSUME NEW rows \in ScopeSets, ScopeRowsFit(rows), rows # {}
  PROVE  /\ ScopeOfRows(rows) \in [kind : ScopeKinds, groups : SUBSET AgeGroups]
         /\ ScopeOK(ScopeOfRows(rows))
<1>1. CASE "all_academy" \in rows
  BY <1>1 DEF ScopeOfRows, ScopeOK, ScopeKinds
<1>2. CASE "all_academy" \notin rows
  BY <1>2 DEF ScopeOfRows, ScopeOK, ScopeKinds, ScopeRowsFit
<1> QED BY <1>1, <1>2

\* Whatever is shown has its type and fits the response contract.
LEMMA RecurringShown ==
  ASSUME NEW ev, RowSound(ev), Recurs(ev), NEW e \in Events, NEW d \in Dates, ~Cancelled(ev, d)
  PROVE  /\ RecurringInstance(e, ev, d) \in Instances
         /\ InstanceFits(RecurringInstance(e, ev, d))
         /\ RecurringInstance(e, ev, d).id = <<e, d>>
         /\ RecurringInstance(e, ev, d).date = EffectiveDate(ev, d)
<1> DEFINE x == IF Excepted(ev, d) THEN Exceptions(ev)[d] ELSE ev
           i == RecurringInstance(e, ev, d)
           scope == ScopeOfRows(x.scopes)
           summary == <<ev.series.frequency, ev.series.weekday, ev.series.monthDay>>
           version == IF Excepted(ev, d) THEN x.version ELSE None
           date == EffectiveDate(ev, d)
<1>0. IsEvent(ev) /\ date \in Dates /\ d # None
  BY EffectiveDates, CalendarAssumption DEF RowSound, Dates
<1>1. /\ x.type \in EventTypes /\ x.allDay \in BOOLEAN /\ x.hours \in Hours
      /\ x.scopes \in ScopeSets /\ TimesFit(x)
      /\ ScopeRowsFit(x.scopes) /\ x.scopes # {}
      /\ version \in {None} \cup 1 .. MaxSaves
  <2>1. CASE Excepted(ev, d)
    <3>1. /\ Exceptions(ev)[d] \in ExceptionRecords
          /\ Exceptions(ev) = ev.series.exceptions /\ d \in DOMAIN ev.series.exceptions
      BY <1>0, <2>1, ExceptionFields DEF Excepted
    <3>2. ExceptionRowFits(Exceptions(ev)[d]) /\ ExceptionScopesFit(Exceptions(ev)[d])
      BY <3>1 DEF RowSound, SeriesSound
    <3>3. x = Exceptions(ev)[d] /\ ~x.deleted
      BY <2>1 DEF Cancelled
    <3> HIDE DEF x
    <3>4. /\ x \in ExceptionRecords /\ ExceptionRowFits(x) /\ ExceptionScopesFit(x)
          /\ version = x.version
      BY <2>1, <3>1, <3>2, <3>3
    <3>5. x.scopes # {}
      BY <3>3, <3>4 DEF ExceptionScopesFit
    <3> QED BY <3>3, <3>4, <3>5 DEF ExceptionRecords, ExceptionRowFits, ExceptionScopesFit
  <2>2. CASE ~Excepted(ev, d)
    <3>1. x = ev /\ version = None
      BY <2>2
    <3> QED BY <1>0, <3>1, EventFields DEF RowSound, EventRowFits
  <2> QED BY <2>1, <2>2
<1>2. summary \in Summaries
  BY <1>0, SeriesFields DEF Summaries, RuleTyped
<1>3. ev.version \in 1 .. MaxVersion /\ <<e, d>> \in Ids
  BY <1>0, EventFields DEF Ids, Limits
<1>4. i = [id |-> <<e, d>>, date |-> date, type |-> x.type, allDay |-> x.allDay,
           hours |-> x.hours, scope |-> scope, summary |-> summary,
           eventVersion |-> ev.version, exceptionVersion |-> version]
  BY DEF RecurringInstance
<1>5. scope \in [kind : ScopeKinds, groups : SUBSET AgeGroups] /\ ScopeOK(scope)
  BY <1>1, ScopesShown
<1>6. HoursOK(x.type, x.allDay, x.hours)
  BY <1>1 DEF HoursOK, TimesFit
<1> HIDE DEF scope, summary, version, x, date
<1>7. /\ i.id = <<e, d>> /\ i.date = date /\ i.scope = scope /\ i.type = x.type
      /\ i.allDay = x.allDay /\ i.hours = x.hours /\ i.summary = summary
  BY <1>4
<1>8. i \in Instances
  BY <1>0, <1>1, <1>2, <1>3, <1>4, <1>5 DEF Instances
<1>9. i.id[2] # None /\ i.summary # None
  BY <1>0, <1>2, <1>7, CalendarAssumption
<1>10. InstanceFits(i)
  <2>1. ScopeOK(i.scope) /\ HoursOK(i.type, i.allDay, i.hours)
    BY <1>5, <1>6, <1>7
  <2>2. (i.id[2] # None) = (i.summary # None) /\ (i.id[2] = None => i.exceptionVersion = None)
    BY <1>9
  <2> HIDE DEF i
  <2> QED BY <2>1, <2>2 DEF InstanceFits
<1> QED BY <1>7, <1>8, <1>10 DEF date

LEMMA StandaloneShown ==
  ASSUME NEW ev, RowSound(ev), NEW e \in Events
  PROVE  /\ StandaloneInstance(e, ev) \in Instances
         /\ InstanceFits(StandaloneInstance(e, ev))
         /\ StandaloneInstance(e, ev).id = <<e, None>>
         /\ StandaloneInstance(e, ev).date = ev.first
<1> DEFINE i == StandaloneInstance(e, ev)
           scope == ScopeOfRows(ev.scopes)
<1>1. /\ ev.type \in EventTypes /\ ev.first \in Dates /\ ev.allDay \in BOOLEAN
      /\ ev.hours \in Hours /\ ev.scopes \in ScopeSets /\ ev.version \in 1 .. MaxVersion
      /\ TimesFit(ev) /\ ScopeRowsFit(ev.scopes) /\ ev.scopes # {}
  BY EventFields DEF RowSound, EventRowFits
<1>2. scope \in [kind : ScopeKinds, groups : SUBSET AgeGroups] /\ ScopeOK(scope)
  BY <1>1, ScopesShown
<1>3. HoursOK(ev.type, ev.allDay, ev.hours)
  BY <1>1 DEF HoursOK, TimesFit
<1>4. i = [id |-> <<e, None>>, date |-> ev.first, type |-> ev.type, allDay |-> ev.allDay,
           hours |-> ev.hours, scope |-> scope, summary |-> None,
           eventVersion |-> ev.version, exceptionVersion |-> None]
  BY DEF StandaloneInstance
<1>5. <<e, None>> \in Ids
  BY DEF Ids, Limits
<1> HIDE DEF scope
<1>6. i \in Instances
  BY <1>1, <1>2, <1>4, <1>5 DEF Instances
<1>7. /\ i.id = <<e, None>> /\ i.date = ev.first /\ i.scope = scope /\ i.type = ev.type
      /\ i.allDay = ev.allDay /\ i.hours = ev.hours /\ i.summary = None
      /\ i.exceptionVersion = None
  BY <1>4
<1>8. InstanceFits(i)
  <2> HIDE DEF i
  <2>1. i.id[2] = None
    BY <1>7
  <2> QED BY <1>2, <1>3, <1>7, <2>1 DEF InstanceFits
<1> QED BY <1>6, <1>7, <1>8

-----------------------------------------------------------------------------
(* What a step does to one event.                                            *)

Kept(e) == events'[e] = events[e]
Created(e) ==
  /\ events[e] = Unborn /\ RowSound(events'[e])
  /\ RagOccurrenceIds(e, events'[e]) \subseteq pending'
Removed(e) ==
  /\ RowSound(events[e]) /\ events'[e] = Gone
  /\ RagOccurrenceIds(e, events[e]) \subseteq pending'
Rewritten(e) ==
  /\ RowSound(events[e]) /\ RowSound(events'[e])
  /\ events'[e].version = events[e].version + 1
  /\ Recurs(events'[e]) = Recurs(events[e])
  /\ RagOccurrenceIds(e, events[e]) \subseteq pending'
SavedAt(e, d, x) ==
  /\ x.version = SavedVersion(events[e], d)
  /\ events'[e] = WithException(events[e], d, x)
  /\ <<e, d>> \in pending'
Saved(e) ==
  /\ RowSound(events[e]) /\ RowSound(events'[e]) /\ Recurs(events[e])
  /\ \E d \in Originals, x \in ExceptionRecords :
       /\ SeriesOccursOn(events[e], d) /\ ExceptionRowFits(x) /\ ExceptionScopesFit(x)
       /\ SavedAt(e, d, x)

Moves(e) == Kept(e) \/ Created(e) \/ Removed(e) \/ Rewritten(e) \/ Saved(e)

RowsSound ==
  /\ events = [e \in Events |-> events[e]]
  /\ \A e \in Events : events[e] \in {Unborn, Gone} \/ RowSound(events[e])
Plain == clock \in Times /\ pending \subseteq Ids /\ RowsSound

\* A command commits one event and announces what it changed.
Committed(e) ==
  /\ Moves(e)
  /\ \A o \in Events : o # e => events'[o] = events[o]
  /\ events' = [o \in Events |-> events'[o]]
  /\ events'[e] \in {Unborn, Gone} \/ RowSound(events'[e])
  /\ pending \subseteq pending' /\ pending' \subseteq Ids
  /\ UNCHANGED <<clock, view, corpus>>

LEMMA ClockDates ==
  ASSUME Plain
  PROVE  clock.day \in Dates /\ Horizon \in Dates
<1>1. clock \in [day : Dates, hour : Nat] /\ MaxDates \in Nat \ {0}
  BY CalendarAssumption DEF Plain
<1> QED BY <1>1 DEF Horizon, Dates

LEMMA AnnouncedIds ==
  ASSUME Plain, NEW e \in Events, NEW ev, RowSound(ev)
  PROVE  RagOccurrenceIds(e, ev) \subseteq Ids
<1>1. \A d \in ProjectedDates(ev, clock.day, Horizon) : Recurs(ev) => d \in Dates
  BY ProjectedMeans, ClockDates
<1> QED BY <1>1 DEF RagOccurrenceIds, Ids, Limits

LEMMA CommitFields ==
  ASSUME Plain, NEW e \in Events, NEW row, NEW announced, Commit(e, row, announced)
  PROVE  /\ events'[e] = row
         /\ \A o \in Events : o # e => events'[o] = events[o]
         /\ events' = [o \in Events |-> events'[o]]
         /\ pending' = pending \cup announced
         /\ UNCHANGED <<clock, view, corpus>>
BY DEF Commit, Plain, RowsSound

LEMMA CreateMoves ==
  ASSUME Plain, NEW e \in Events, NEW p \in Payloads, NEW rule \in Rules,
         CreateEvent(e, p, rule)
  PROVE  Committed(e)
<1> DEFINE series == IF rule = None THEN None ELSE SeriesRow(rule, p.date, NoExceptions)
           row == EventRow(p, series, 1)
<1>1. p \in EventValues /\ p.date \in Dates /\ 1 \in 1 .. MaxVersion
  BY CalendarAssumption DEF EventValues
<1>2. /\ series \in {None} \cup SeriesRecords({})
      /\ series # None => SeriesSound(series, p.date)
  <2>1. CASE rule = None
    BY <2>1
  <2>2. CASE rule # None
    <3>1. NoExceptions \in [{} -> ExceptionRecords]
      BY DEF NoExceptions
    <3>2. rule \in RecurrenceRules /\ RecurrenceOK(rule, p.date)
      BY <2>2, CalendarAssumption DEF CreateEvent
    <3>3. /\ SeriesRow(rule, p.date, NoExceptions) \in SeriesRecords({})
          /\ SeriesSound(SeriesRow(rule, p.date, NoExceptions), p.date)
      BY <1>1, <3>1, <3>2, SeriesWritten
    <3> QED BY <2>2, <3>3
  <2> QED BY <2>1, <2>2
<1>3. Commit(e, row, RagOccurrenceIds(e, row))
  BY DEF CreateEvent
<1> HIDE DEF series
<1>4. RowSound(row)
  BY <1>1, <1>2, EventWritten DEF CreateEvent
<1> HIDE DEF row
<1>5. /\ Commit(e, row, RagOccurrenceIds(e, row)) => events'[e] = row
      /\ RagOccurrenceIds(e, row) \subseteq Ids
  BY <1>4, CommitFields, AnnouncedIds
<1> QED BY <1>3, <1>4, <1>5, CommitFields DEF Committed, Moves, Created, CreateEvent, Plain

LEMMA RowOfEvent ==
  ASSUME Plain, NEW e \in Events, Exists(e)
  PROVE  RowSound(events[e])
BY DEF Plain, RowsSound, Exists

LEMMA RewriteMoves ==
  ASSUME Plain, NEW e \in Events, NEW row, NEW announced, RowSound(events[e]), RowSound(row),
         row.version = events[e].version + 1, Recurs(row) = Recurs(events[e]),
         RagOccurrenceIds(e, events[e]) \subseteq announced, announced \subseteq Ids,
         Commit(e, row, announced)
  PROVE  Committed(e)
BY CommitFields DEF Committed, Moves, Rewritten, Plain

LEMMA UpdateStandaloneMoves ==
  ASSUME Plain, NEW cal, NEW e \in Events, NEW p \in Payloads, UpdateStandalone(cal, e, p)
  PROVE  Committed(e)
<1> DEFINE row == EventRow(p, None, events[e].version + 1)
<1>1. RowSound(events[e]) /\ ~Recurs(events[e])
  BY RowOfEvent DEF UpdateStandalone, Current
<1>2. p \in EventValues /\ events[e].version + 1 \in 1 .. MaxVersion
  BY <1>1, EventFields, CalendarAssumption DEF RowSound, UpdateStandalone
<1>3. RowSound(row) /\ row.version = events[e].version + 1 /\ row.series = None
  BY <1>2, EventWritten DEF UpdateStandalone
<1>4. Commit(e, row, {<<e, None>>})
  BY DEF UpdateStandalone
<1>5. RagOccurrenceIds(e, events[e]) = {<<e, None>>} /\ {<<e, None>>} \subseteq Ids
  BY <1>1 DEF RagOccurrenceIds, Ids, Limits
<1>6. Recurs(row) = Recurs(events[e])
  BY <1>1, <1>3 DEF Recurs
<1> HIDE DEF row
<1> QED BY <1>1, <1>3, <1>4, <1>5, <1>6, RewriteMoves

LEMMA RemoveMoves ==
  ASSUME Plain, NEW e \in Events, RowSound(events[e]), NEW announced,
         RagOccurrenceIds(e, events[e]) \subseteq announced, announced \subseteq Ids,
         Commit(e, Gone, announced)
  PROVE  Committed(e)
BY CommitFields DEF Committed, Moves, Removed, Plain

LEMMA DeleteMoves ==
  ASSUME Plain, NEW cal, NEW e \in Events, DeleteStandalone(cal, e) \/ DeleteSeries(cal, e)
  PROVE  Committed(e)
<1>1. RowSound(events[e])
  BY RowOfEvent DEF DeleteStandalone, DeleteSeries, Current
<1>2. CASE DeleteStandalone(cal, e)
  <2>1. RagOccurrenceIds(e, events[e]) = {<<e, None>>} /\ {<<e, None>>} \subseteq Ids
    BY <1>2 DEF DeleteStandalone, RagOccurrenceIds, Ids, Limits
  <2> QED BY <1>1, <1>2, <2>1, RemoveMoves DEF DeleteStandalone
<1>3. CASE DeleteSeries(cal, e)
  BY <1>1, <1>3, AnnouncedIds, RemoveMoves DEF DeleteSeries
<1> QED BY <1>2, <1>3

LEMMA UpdateSeriesMoves ==
  ASSUME Plain, NEW cal, NEW e \in Events, NEW p \in Payloads, NEW rule \in Rules,
         NEW confirmed \in BOOLEAN, UpdateSeries(cal, e, p, rule, confirmed)
  PROVE  Committed(e)
<1> DEFINE ev      == events[e]
           invalid == InvalidExceptions(ev, rule, p.date)
           dates   == DOMAIN Exceptions(ev) \ invalid
           kept    == [d \in DOMAIN Exceptions(ev) \ invalid |-> Exceptions(ev)[d]]
           series  == SeriesRow(rule, p.date, kept)
           row     == EventRow(p, series, ev.version + 1)
           announced == RagOccurrenceIds(e, ev) \cup RagOccurrenceIds(e, row)
<1>1. RowSound(ev) /\ Recurs(ev) /\ IsEvent(ev)
  BY RowOfEvent, SoundIsRow DEF UpdateSeries, Current
<1>2. /\ p \in EventValues /\ p.date \in Dates /\ ev.version + 1 \in 1 .. MaxVersion
      /\ rule \in RecurrenceRules /\ RecurrenceOK(rule, p.date)
  BY <1>1, EventFields, CalendarAssumption DEF EventValues, UpdateSeries
<1>3. /\ DOMAIN Exceptions(ev) \in SUBSET Originals
      /\ Exceptions(ev) \in [DOMAIN Exceptions(ev) -> ExceptionRecords]
      /\ Exceptions(ev) = ev.series.exceptions
  BY <1>1, ExceptionFields
<1>4. \A d \in DOMAIN Exceptions(ev) : /\ ExceptionRowFits(Exceptions(ev)[d])
                                       /\ ExceptionScopesFit(Exceptions(ev)[d])
  BY <1>1, <1>3 DEF RowSound, SeriesSound
<1>5. /\ dates \in SUBSET Originals /\ kept \in [dates -> ExceptionRecords]
      /\ \A d \in dates : /\ kept[d] = Exceptions(ev)[d]
                          /\ OccursOn(rule, p.date, d)
  BY <1>3 DEF InvalidExceptions
<1>6. /\ \A d \in dates : /\ ExceptionRowFits(kept[d])
                          /\ ExceptionScopesFit(kept[d])
                          /\ OccursOn(rule, p.date, d)
  BY <1>4, <1>5
<1>7. Commit(e, row, announced)
  BY DEF UpdateSeries
<1> HIDE DEF dates, kept, ev, announced
<1>8. series \in SeriesRecords(dates) /\ SeriesSound(series, p.date)
  BY <1>2, <1>5, <1>6, SeriesWritten
<1> HIDE DEF series
<1>9. RowSound(row) /\ row.version = ev.version + 1 /\ row.series = series
  BY <1>2, <1>5, <1>8, EventWritten DEF UpdateSeries
<1>10. series # None
  BY <1>5, <1>8, CalendarAssumption
<1> HIDE DEF row
<1>11. Recurs(row) = Recurs(events[e])
  BY <1>1, <1>9, <1>10 DEF Recurs, ev
<1>12. RagOccurrenceIds(e, ev) \subseteq announced /\ announced \subseteq Ids
  BY <1>1, <1>9, AnnouncedIds DEF announced
<1> QED BY <1>1, <1>7, <1>9, <1>11, <1>12, RewriteMoves DEF ev

LEMMA SavedVersions ==
  ASSUME NEW ev, IsEvent(ev), NEW d
  PROVE  /\ SavedVersion(ev, d) \in Nat \ {0}
         /\ Cardinality(DOMAIN Exceptions(ev) \ {d}) \in Nat
<1>1. Cardinality(DOMAIN Exceptions(ev) \ {d}) \in Nat
  BY ExceptionFields, CalendarAssumption, FS_Subset, FS_CardinalityType
<1>2. CASE Excepted(ev, d)
  <2>1. Exceptions(ev)[d] \in ExceptionRecords
    BY <1>2, ExceptionFields DEF Excepted
  <2> QED BY <1>1, <1>2, <2>1 DEF SavedVersion, ExceptionRecords
<1>3. CASE ~Excepted(ev, d)
  BY <1>1, <1>3 DEF SavedVersion
<1> QED BY <1>2, <1>3

LEMMA SaveMoves ==
  ASSUME Plain, NEW e \in Events, NEW d \in Originals, NEW x \in ExceptionRecords,
         ExceptionRowFits(x), ExceptionScopesFit(x), RowSound(events[e]), Recurs(events[e]),
         SeriesOccursOn(events[e], d), x.version = SavedVersion(events[e], d),
         SaveException(e, d, x)
  PROVE  Committed(e)
<1> DEFINE row == WithException(events[e], d, x)
<1>1. RowSound(row)
  BY ExceptionSaved
<1>2. Commit(e, row, {<<e, d>>})
  BY DEF SaveException, WithException
<1>3. {<<e, d>>} \subseteq Ids
  BY CalendarAssumption DEF Ids, Limits
<1> HIDE DEF row
<1>4. events'[e] = row /\ <<e, d>> \in pending'
  BY <1>2, CommitFields
<1>5. Saved(e)
  BY <1>1, <1>4 DEF Saved, SavedAt, row
<1> QED BY <1>1, <1>2, <1>3, <1>4, <1>5, CommitFields DEF Committed, Moves, Plain

LEMMA OccurrenceMoves ==
  ASSUME Plain, NEW cal, NEW e \in Events, NEW d \in Originals,
         DeleteOccurrence(cal, e, d) \/ \E p \in Payloads : UpdateOccurrence(cal, e, d, p)
  PROVE  Committed(e)
<1>1. /\ RowSound(events[e]) /\ Recurs(events[e]) /\ SeriesOccursOn(events[e], d)
      /\ IsEvent(events[e]) /\ d \in Dates
  BY RowOfEvent, SoundIsRow, CalendarAssumption
     DEF DeleteOccurrence, UpdateOccurrence, NamesOccurrence, Current
<1> DEFINE version == SavedVersion(events[e], d)
<1>2. /\ version \in Nat \ {0} /\ MaxSaves \in Nat
      /\ Cardinality(DOMAIN Exceptions(events[e]) \ {d}) \in Nat
  BY <1>1, SavedVersions, CalendarAssumption
<1>3. \A x : x.version = version /\ SaveException(e, d, x) => version \in 1 .. MaxSaves
  BY <1>2 DEF SaveException
<1>4. CASE DeleteOccurrence(cal, e, d)
  <2>1. SaveException(e, d, Deletion(version)) /\ Deletion(version).version = version
    BY <1>4 DEF DeleteOccurrence, Deletion
  <2>2. version \in 1 .. MaxSaves
    BY <1>3, <2>1
  <2> QED BY <1>1, <2>1, <2>2, DeletionWritten, SaveMoves
<1>5. ASSUME NEW p \in Payloads, UpdateOccurrence(cal, e, d, p)
      PROVE  Committed(e)
  <2>1. /\ SaveException(e, d, Replacement(p, d, version))
        /\ Replacement(p, d, version).version = version
        /\ ValuesOK(p) /\ p \in EventValues
    BY <1>5, CalendarAssumption DEF UpdateOccurrence, Replacement
  <2>2. version \in 1 .. MaxSaves
    BY <1>3, <2>1
  <2>3. /\ Replacement(p, d, version) \in ExceptionRecords
        /\ ExceptionRowFits(Replacement(p, d, version))
        /\ ExceptionScopesFit(Replacement(p, d, version))
    BY <1>1, <2>1, <2>2, ExceptionWritten
  <2> QED BY <1>1, <2>1, <2>3, SaveMoves
<1> QED BY <1>4, <1>5

\* Beside the commands a step leaves the events alone.
Command ==
  \/ \E e \in Events, p \in Payloads, rule \in Rules : CreateEvent(e, p, rule)
  \/ \E cal \in Bases, e \in Events :
       \/ DeleteStandalone(cal, e)
       \/ DeleteSeries(cal, e)
       \/ \E p \in Payloads : UpdateStandalone(cal, e, p)
       \/ \E d \in Originals : \/ DeleteOccurrence(cal, e, d)
                               \/ \E p \in Payloads : UpdateOccurrence(cal, e, d, p)
       \/ \E p \in Payloads, rule \in Rules, confirmed \in BOOLEAN :
            UpdateSeries(cal, e, p, rule, confirmed)

LEMMA CommandMoves ==
  ASSUME Plain, Command
  PROVE  \E e \in Events : Committed(e)
<1>1. CASE \E e \in Events, p \in Payloads, rule \in Rules : CreateEvent(e, p, rule)
  BY <1>1, CreateMoves
<1>2. ASSUME NEW cal \in Bases, NEW e \in Events,
             \/ DeleteStandalone(cal, e)
             \/ DeleteSeries(cal, e)
             \/ \E p \in Payloads : UpdateStandalone(cal, e, p)
             \/ \E d \in Originals : \/ DeleteOccurrence(cal, e, d)
                                     \/ \E p \in Payloads : UpdateOccurrence(cal, e, d, p)
             \/ \E p \in Payloads, rule \in Rules, confirmed \in BOOLEAN :
                  UpdateSeries(cal, e, p, rule, confirmed)
      PROVE  Committed(e)
  BY <1>2, DeleteMoves, UpdateStandaloneMoves, OccurrenceMoves, UpdateSeriesMoves
<1> QED BY <1>1, <1>2 DEF Command

-----------------------------------------------------------------------------
(* Ranges.                                                                   *)

\* i is what the calendar shows of event e in a range.
ShownOf(e, i, lo, hi) ==
  LET ev == events[e]
  IN  /\ RowSound(ev)
      /\ ev.first <= hi
      /\ \/ ~Recurs(ev) /\ i = StandaloneInstance(e, ev) /\ ev.first \in lo .. hi
         \/ /\ Recurs(ev)
            /\ \E d \in Dates : /\ RuleMeans(ev.series, ev.first, d) /\ ~Cancelled(ev, d)
                                /\ EffectiveDate(ev, d) \in lo .. hi
                                /\ i = RecurringInstance(e, ev, d)

LEMMA ListedMeans ==
  ASSUME RowsSound, NEW lo \in Dates, NEW hi \in Dates, NEW i
  PROVE  i \in GetRange(events, lo, hi) <=> \E e \in Events : ShownOf(e, i, lo, hi)
<1> DEFINE Of(e) == IF Recurs(events[e]) THEN ProjectSeries(e, events[e], lo, hi)
                    ELSE {x \in {StandaloneInstance(e, events[e])} : x.date \in lo .. hi}
<1>1. \A e \in Events : e \in LoadedFor(events, hi) <=>
                          RowSound(events[e]) /\ events[e].first <= hi
  BY SoundIsRow DEF LoadedFor, RowsSound
<1>2. \A e \in LoadedFor(events, hi) : e \in Events
  BY DEF LoadedFor
<1>3. i \in GetRange(events, lo, hi) <=> \E e \in LoadedFor(events, hi) : i \in Of(e)
  BY DEF GetRange
<1>4. ASSUME NEW e \in Events, RowSound(events[e]), events[e].first <= hi
      PROVE  i \in Of(e) <=> ShownOf(e, i, lo, hi)
  <2>1. CASE Recurs(events[e])
    <3>1. i \in Of(e) <=> \E d \in ProjectedDates(events[e], lo, hi) :
                            i = RecurringInstance(e, events[e], d)
      BY <2>1 DEF ProjectSeries
    <3>2. \A d : d \in ProjectedDates(events[e], lo, hi) <=>
                   /\ d \in Dates /\ RuleMeans(events[e].series, events[e].first, d)
                   /\ ~Cancelled(events[e], d) /\ EffectiveDate(events[e], d) \in lo .. hi
      BY <1>4, <2>1, ProjectedMeans
    <3> HIDE DEF Of
    <3> QED BY <1>4, <2>1, <3>1, <3>2 DEF ShownOf
  <2>2. CASE ~Recurs(events[e])
    <3>1. StandaloneInstance(e, events[e]).date = events[e].first
      BY <1>4, StandaloneShown
    <3> QED BY <1>4, <2>2, <3>1 DEF ShownOf
  <2> QED BY <2>1, <2>2
<1> HIDE DEF Of
<1>5. ASSUME NEW e \in Events, ShownOf(e, i, lo, hi)
      PROVE  e \in LoadedFor(events, hi) /\ i \in Of(e)
  BY <1>1, <1>4, <1>5 DEF ShownOf
<1> QED BY <1>1, <1>2, <1>3, <1>4, <1>5

\* An instance of a range is typed, fits its contract and lies in the range.
LEMMA ListedShown ==
  ASSUME NEW lo \in Dates, NEW hi \in Dates, NEW e \in Events, NEW i, ShownOf(e, i, lo, hi)
  PROVE  /\ i \in Instances /\ InstanceFits(i) /\ i.id[1] = e /\ i.date \in lo .. hi
         /\ ~Recurs(events[e]) => i.id = <<e, None>> /\ i = StandaloneInstance(e, events[e])
         /\ Recurs(events[e]) =>
              /\ i.id[2] \in Dates /\ i.id = <<e, i.id[2]>>
              /\ RuleMeans(events[e].series, events[e].first, i.id[2])
              /\ ~Cancelled(events[e], i.id[2])
              /\ EffectiveDate(events[e], i.id[2]) \in lo .. hi
              /\ i = RecurringInstance(e, events[e], i.id[2])
<1>1. CASE ~Recurs(events[e])
  <2>1. i = StandaloneInstance(e, events[e]) /\ RowSound(events[e]) /\ events[e].first \in lo .. hi
    BY <1>1 DEF ShownOf
  <2>2. i \in Instances /\ InstanceFits(i) /\ i.id = <<e, None>> /\ i.date = events[e].first
    BY <2>1, StandaloneShown
  <2> QED BY <1>1, <2>1, <2>2
<1>2. CASE Recurs(events[e])
  <2>1. RowSound(events[e])
    BY DEF ShownOf
  <2>2. PICK d \in Dates : /\ RuleMeans(events[e].series, events[e].first, d)
                           /\ ~Cancelled(events[e], d)
                           /\ EffectiveDate(events[e], d) \in lo .. hi
                           /\ i = RecurringInstance(e, events[e], d)
    BY <1>2 DEF ShownOf
  <2>3. /\ i \in Instances /\ InstanceFits(i)
        /\ i.id = <<e, d>> /\ i.date = EffectiveDate(events[e], d)
    BY <1>2, <2>1, <2>2, RecurringShown
  <2>4. i.id[1] = e /\ i.id[2] = d
    BY <2>3
  <2> QED BY <1>2, <2>2, <2>3, <2>4
<1> QED BY <1>1, <1>2

\* One identity is listed at most once.
LEMMA ListedOnce ==
  ASSUME RowsSound, NEW lo \in Dates, NEW hi \in Dates,
         NEW i \in GetRange(events, lo, hi), NEW j \in GetRange(events, lo, hi), i.id = j.id
  PROVE  i = j
<1>1. PICK e \in Events : ShownOf(e, i, lo, hi)
  BY ListedMeans
<1>2. PICK o \in Events : ShownOf(o, j, lo, hi)
  BY ListedMeans
<1>3. i.id[1] = e /\ j.id[1] = o
  BY <1>1, <1>2, ListedShown
<1>4. e = o
  BY <1>3
<1> QED BY <1>1, <1>2, <1>4, ListedShown

LEMMA RangesMatch == RowsSound => RangesShowCalendar
<1> SUFFICES ASSUME RowsSound, NEW r \in Ranges
             PROVE  LET lo == r[1]
                        hi == r[2]
                        listed == GetRange(events, lo, hi)
                    IN  /\ listed = UNION {Shown(e, lo, hi) : e \in LoadedFor(events, hi)}
                        /\ \A i, j \in listed : i.id = j.id => i = j
  BY DEF RangesShowCalendar
<1> DEFINE lo == r[1]
           hi == r[2]
<1>1. lo \in Dates /\ hi \in Dates
  BY CalendarAssumption
<1> HIDE DEF lo, hi
<1>2. \A e \in Events : e \in LoadedFor(events, hi) <=>
                          RowSound(events[e]) /\ events[e].first <= hi
  BY SoundIsRow DEF LoadedFor, RowsSound
<1>3. ASSUME NEW e \in Events, RowSound(events[e]), events[e].first <= hi, NEW i
      PROVE  i \in Shown(e, lo, hi) <=> ShownOf(e, i, lo, hi)
  <2>0. Exists(e) /\ IsEvent(events[e])
    BY <1>3, SoundIsRow DEF Exists
  <2>1. CASE ~Recurs(events[e])
    <3>1. GetInstance(events, <<e, None>>) = {StandaloneInstance(e, events[e])}
      BY <2>0, <2>1 DEF GetInstance, Exists
    <3>2. StandaloneInstance(e, events[e]).date = events[e].first
      BY <1>3, StandaloneShown
    <3>3. Shown(e, lo, hi) = {x \in {StandaloneInstance(e, events[e])} : x.date \in lo .. hi}
      BY <2>0, <2>1, <3>1 DEF Shown
    <3> QED BY <1>3, <2>1, <3>2, <3>3 DEF ShownOf
  <2>2. CASE Recurs(events[e])
    <3> DEFINE ev == events[e]
               near == {x \in lo .. hi : RuleMeans(ev.series, ev.first, x)}
                       \cup DOMAIN Exceptions(ev)
               At(d) == GetInstance(events, <<e, d>>)
    <3>1. i \in Shown(e, lo, hi) <=> (\E d \in near : i \in At(d)) /\ i.date \in lo .. hi
      BY <2>0, <2>2 DEF Shown
    <3>2. \A d \in near : d \in Dates
      <4>1. \A d \in DOMAIN Exceptions(ev) : d \in Dates
        BY <2>0, ExceptionFields, CalendarAssumption
      <4> QED BY <1>1, <4>1 DEF Dates
    <3>3. ASSUME NEW d \in Dates
          PROVE  i \in At(d) <=> /\ RuleMeans(ev.series, ev.first, d) /\ ~Cancelled(ev, d)
                                 /\ i = RecurringInstance(e, ev, d)
      <4>1. GetInstance(events, <<e, d>>) =
              IF RuleMeans(events[e].series, events[e].first, d) /\ ~Cancelled(events[e], d)
              THEN {RecurringInstance(e, events[e], d)} ELSE {}
        BY <1>3, <2>2, InstanceMeans
      <4> QED BY <4>1
    <3>4. \A d \in Dates : ~Cancelled(ev, d) =>
            RecurringInstance(e, ev, d).date = EffectiveDate(ev, d)
      BY <1>3, <2>2, RecurringShown
    <3>5. ASSUME NEW d \in Dates, RuleMeans(ev.series, ev.first, d),
                 EffectiveDate(ev, d) \in lo .. hi
          PROVE  d \in near
      <4>1. CASE Excepted(ev, d)
        BY <4>1 DEF Excepted
      <4>2. CASE ~Excepted(ev, d)
        <5>1. EffectiveDate(ev, d) = d
          BY <4>2 DEF EffectiveDate
        <5> QED BY <3>5, <5>1
      <4> QED BY <4>1, <4>2
    <3> HIDE DEF ev, near, At
    <3>6. i \in Shown(e, lo, hi) <=>
            \E d \in Dates : /\ RuleMeans(ev.series, ev.first, d) /\ ~Cancelled(ev, d)
                             /\ EffectiveDate(ev, d) \in lo .. hi
                             /\ i = RecurringInstance(e, ev, d)
      BY <3>1, <3>2, <3>3, <3>4, <3>5
    <3> QED BY <1>3, <2>2, <3>6 DEF ShownOf, ev
  <2> QED BY <2>1, <2>2
<1>4. \A i : i \in GetRange(events, lo, hi) <=>
               \E e \in LoadedFor(events, hi) : i \in Shown(e, lo, hi)
  <2> SUFFICES ASSUME NEW i
               PROVE  i \in GetRange(events, lo, hi) <=>
                        \E e \in LoadedFor(events, hi) : i \in Shown(e, lo, hi)
    OBVIOUS
  <2>1. ASSUME NEW e \in Events, ShownOf(e, i, lo, hi)
        PROVE  e \in LoadedFor(events, hi) /\ i \in Shown(e, lo, hi)
    BY <1>2, <1>3, <2>1 DEF ShownOf
  <2>2. ASSUME NEW e \in LoadedFor(events, hi), i \in Shown(e, lo, hi)
        PROVE  e \in Events /\ ShownOf(e, i, lo, hi)
    <3>1. e \in Events
      BY DEF LoadedFor
    <3> QED BY <1>2, <1>3, <2>2, <3>1
  <2> QED BY <1>1, <2>1, <2>2, ListedMeans
<1>5. GetRange(events, lo, hi) = UNION {Shown(e, lo, hi) : e \in LoadedFor(events, hi)}
  BY <1>4
<1>6. \A i, j \in GetRange(events, lo, hi) : i.id = j.id => i = j
  BY <1>1, ListedOnce
<1> QED BY <1>5, <1>6 DEF lo, hi

-----------------------------------------------------------------------------
(* Types.                                                                    *)

ViewSound ==
  /\ view = [e \in Events |-> view[e]]
  /\ \A e \in Events : view[e] \in {Unborn, Gone} \/ RowSound(view[e])
CorpusTyped == \A id \in DOMAIN corpus : corpus[id] \in Instances /\ corpus[id].id = id
Typed == Plain /\ ViewSound /\ CorpusTyped

\* What the projection lists is typed and names its event.
LEMMA ProjectedShown ==
  ASSUME Plain, NEW i \in Projected(events)
  PROVE  \E e \in Events : /\ ShownOf(e, i, clock.day, Horizon)
                           /\ i \in Instances /\ i.id[1] = e
<1>1. clock.day \in Dates /\ Horizon \in Dates /\ RowsSound
  BY ClockDates DEF Plain
<1>2. PICK e \in Events : ShownOf(e, i, clock.day, Horizon)
  BY <1>1, ListedMeans DEF Projected
<1> QED BY <1>1, <1>2, ListedShown

\* A reconciliation keeps a document it was not asked about, and replaces one it
\* was asked about by what is projected, unless the fingerprint is the same.
LEMMA ReconciledDocs ==
  ASSUME NEW ids, NEW id \in DOMAIN Reconciled(ids)
  PROVE  \/ id \notin ids /\ id \in DOMAIN corpus /\ Reconciled(ids)[id] = corpus[id]
         \/ /\ id \in ids
            /\ \E i \in Projected(events) :
                 /\ i.id = id
                 /\ \/ Reconciled(ids)[id] = i
                    \/ /\ id \in DOMAIN corpus /\ Reconciled(ids)[id] = corpus[id]
                       /\ Fingerprint(corpus[id]) = Fingerprint(i)
<1> DEFINE shown == {i \in Projected(events) : i.id \in ids}
           Doc(i) == IF /\ i.id \in DOMAIN corpus
                        /\ Fingerprint(corpus[i.id]) = Fingerprint(i) THEN corpus[i.id] ELSE i
           all == (DOMAIN corpus \ ids) \cup {i.id : i \in shown}
<1>1. Reconciled(ids) =
        [o \in all |-> IF o \in ids THEN Doc(CHOOSE i \in shown : i.id = o) ELSE corpus[o]]
  BY DEF Reconciled
<1>2. /\ id \in all
      /\ Reconciled(ids)[id] =
           IF id \in ids THEN Doc(CHOOSE i \in shown : i.id = id) ELSE corpus[id]
  BY <1>1
<1>3. CASE id \notin ids
  BY <1>2, <1>3
<1>4. CASE id \in ids
  <2> DEFINE i == CHOOSE j \in shown : j.id = id
  <2>1. \E j \in shown : j.id = id
    BY <1>2, <1>4
  <2>2. i \in shown /\ i.id = id
    BY <2>1
  <2>3. Reconciled(ids)[id] = Doc(i)
    BY <1>2, <1>4
  <2> HIDE DEF i
  <2>4. i \in Projected(events)
    BY <2>2
  <2>5. \/ Reconciled(ids)[id] = i
        \/ /\ id \in DOMAIN corpus /\ Reconciled(ids)[id] = corpus[id]
           /\ Fingerprint(corpus[id]) = Fingerprint(i)
    BY <2>2, <2>3
  <2> QED BY <1>4, <2>2, <2>4, <2>5
<1> QED BY <1>3, <1>4

LEMMA Steps ==
  ASSUME [Next]_vars
  PROVE  \/ UNCHANGED vars
         \/ Tick
         \/ Look
         \/ ReconcileTargets
         \/ ReconcileAll
         \/ Command
BY DEF Next, Command

LEMMA StartTyped == Init => Typed
<1> SUFFICES ASSUME Init PROVE Typed
  OBVIOUS
<1>1. clock \in Times /\ pending = {} /\ DOMAIN corpus = {}
  BY DEF Init
<1>2. events = [e \in Events |-> Unborn] /\ view = events
  BY DEF Init
<1> QED BY <1>1, <1>2 DEF Typed, Plain, RowsSound, ViewSound, CorpusTyped

LEMMA CorpusStaysTyped ==
  ASSUME Typed, NEW ids, corpus' = Reconciled(ids)
  PROVE  CorpusTyped'
<1> SUFFICES ASSUME NEW id \in DOMAIN Reconciled(ids)
             PROVE  Reconciled(ids)[id] \in Instances /\ Reconciled(ids)[id].id = id
  BY DEF CorpusTyped
<1>1. \A i \in Projected(events) : i \in Instances
  BY ProjectedShown DEF Typed
<1> QED BY <1>1, ReconciledDocs DEF Typed, CorpusTyped

LEMMA StepTyped == Typed /\ [Next]_vars => Typed'
<1> SUFFICES ASSUME Typed, [Next]_vars PROVE Typed'
  OBVIOUS
<1>1. CASE UNCHANGED vars
  BY <1>1 DEF vars, Typed, Plain, RowsSound, ViewSound, CorpusTyped
<1>2. CASE Tick
  BY <1>2 DEF Tick, Typed, Plain, RowsSound, ViewSound, CorpusTyped
<1>3. CASE Look
  BY <1>3 DEF Look, Typed, Plain, RowsSound, ViewSound, CorpusTyped
<1>4. CASE ReconcileTargets
  <2>1. CorpusTyped'
    BY <1>4, CorpusStaysTyped DEF ReconcileTargets
  <2> QED BY <1>4, <2>1 DEF ReconcileTargets, Typed, Plain, RowsSound, ViewSound
<1>5. CASE ReconcileAll
  <2>1. CorpusTyped'
    BY <1>5, CorpusStaysTyped DEF ReconcileAll
  <2> QED BY <1>5, <2>1 DEF ReconcileAll, Typed, Plain, RowsSound, ViewSound
<1>6. CASE Command
  <2>1. PICK e \in Events : Committed(e)
    BY <1>6, CommandMoves DEF Typed
  <2>2. RowsSound'
    <3>1. events' = [o \in Events |-> events'[o]]
      BY <2>1 DEF Committed
    <3>2. \A o \in Events : events'[o] \in {Unborn, Gone} \/ RowSound(events'[o])
      BY <2>1 DEF Committed, Typed, Plain, RowsSound
    <3> QED BY <3>1, <3>2 DEF RowsSound
  <2> QED BY <2>1, <2>2 DEF Committed, Typed, Plain, ViewSound, CorpusTyped
<1> QED BY <1>1, <1>2, <1>3, <1>4, <1>5, <1>6, Steps

\* The inductive invariant behind the types, the ranges and the coherence of series.
THEOREM AlwaysTyped == Spec => []Typed
BY StartTyped, StepTyped, PTL DEF Spec

LEMMA RowFits ==
  ASSUME Plain, NEW e \in Events, Exists(e)
  PROVE  LET ev == events[e]
         IN  /\ EventRowFits(ev) /\ ScopeRowsFit(ev.scopes) /\ ev.scopes # {}
             /\ Recurs(ev) => SeriesRowFits(ev.series)
             /\ \A d \in DOMAIN Exceptions(ev) :
                  ExceptionRowFits(Exceptions(ev)[d]) /\ ExceptionScopesFit(Exceptions(ev)[d])
             /\ \A d \in Originals : \A i \in GetInstance(events, <<e, d>>) : InstanceFits(i)
<1> DEFINE ev == events[e]
<1>1. RowSound(ev) /\ IsEvent(ev)
  BY RowOfEvent, SoundIsRow
<1>2. EventRowFits(ev) /\ ScopeRowsFit(ev.scopes) /\ ev.scopes # {}
  BY <1>1 DEF RowSound
<1>3. Recurs(ev) => SeriesRowFits(ev.series)
  BY <1>1 DEF RowSound, SeriesSound
<1>4. ASSUME NEW d \in DOMAIN Exceptions(ev)
      PROVE  ExceptionRowFits(Exceptions(ev)[d]) /\ ExceptionScopesFit(Exceptions(ev)[d])
  <2>1. Recurs(ev) /\ Exceptions(ev) = ev.series.exceptions
    BY <1>1, <1>4, ExceptionFields
  <2> QED BY <1>1, <1>4, <2>1 DEF RowSound, SeriesSound
<1>5. ASSUME NEW d \in Originals, NEW i \in GetInstance(events, <<e, d>>)
      PROVE  InstanceFits(i)
  <2>1. d \in Dates /\ d # None
    BY CalendarAssumption DEF Dates
  <2>2. Recurs(ev) /\ ~Cancelled(ev, d) /\ i = RecurringInstance(e, ev, d)
    BY <2>1, <1>5 DEF GetInstance
  <2> QED BY <1>1, <2>1, <2>2, RecurringShown
<1> QED BY <1>2, <1>3, <1>4, <1>5

LEMMA TypedMeans == Typed => TypeOK
<1> SUFFICES ASSUME Typed PROVE TypeOK
  OBVIOUS
<1>1. RowsFitTables
  BY RowFits DEF Typed, RowsFitTables
<1>2. \A e \in Events, cal \in {events, view} : cal[e] \in {Unborn, Gone} \/ IsEvent(cal[e])
  BY SoundIsRow DEF Typed, Plain, RowsSound, ViewSound
<1>3. DOMAIN events = Events /\ DOMAIN view = Events
  BY DEF Typed, Plain, RowsSound, ViewSound
<1> QED BY <1>1, <1>2, <1>3 DEF Typed, Plain, CorpusTyped, TypeOK

\* Whatever the commands do to the calendar, every stored row has its type and
\* satisfies its table's constraints, and every occurrence can be returned.
THEOREM CalendarTypes == Spec => []TypeOK
BY AlwaysTyped, TypedMeans, PTL

LEMMA SoundCoherent == Typed => SeriesCoherent
<1> SUFFICES ASSUME Typed, NEW e \in Events, Exists(e), Recurs(events[e])
             PROVE  LET ev == events[e]
                    IN  /\ TerminationOK(ev.series, ev.first)
                        /\ ev.series.weekday  \in {None, Weekday(ev.first)}
                        /\ ev.series.monthDay \in {None, MonthDay(ev.first)}
                        /\ \A d \in DOMAIN Exceptions(ev) : RuleMeans(ev.series, ev.first, d)
                        /\ ~EndsBeforeStart(ev) /\ StaleExceptions(ev) = {}
  BY DEF SeriesCoherent
<1> DEFINE ev == events[e]
<1>1. RowSound(ev) /\ IsEvent(ev) /\ ev.first \in Dates
  BY RowOfEvent, SoundIsRow, EventFields DEF Typed
<1>2. /\ Exceptions(ev) = ev.series.exceptions /\ DOMAIN Exceptions(ev) \in SUBSET Originals
      /\ RuleTyped(ev.series)
  BY <1>1, ExceptionFields, SeriesFields
<1>3. SeriesSound(ev.series, ev.first)
  BY <1>1 DEF RowSound
<1>4. \A d \in DOMAIN Exceptions(ev) : RuleMeans(ev.series, ev.first, d) /\ SeriesOccursOn(ev, d)
  BY <1>1, <1>2, <1>3, SeriesOccurs, CalendarAssumption DEF SeriesSound
<1>5. ~EndsBeforeStart(ev)
  <2>1. ev.series.end # None => ev.series.end >= ev.first /\ ev.series.end \in Int
    BY <1>2, <1>3 DEF SeriesSound, TerminationOK, RuleTyped, Limits, Dates
  <2> QED BY <1>1, <2>1 DEF EndsBeforeStart, Dates
<1> QED BY <1>3, <1>4, <1>5 DEF SeriesSound, StaleExceptions

\* No series edit, confirmed removal or occurrence edit leaves a derived column
\* that does not describe the first date, or an exception without an occurrence.
THEOREM SeriesStayCoherent == Spec => []SeriesCoherent
BY AlwaysTyped, SoundCoherent, PTL

\* Every range shows just the occurrences of the calendar, each of them once.
THEOREM RangesAlwaysRight == Spec => []RangesShowCalendar
<1>1. Typed => RangesShowCalendar
  BY RangesMatch DEF Typed, Plain
<1> QED BY <1>1, AlwaysTyped, PTL

-----------------------------------------------------------------------------
(* What the versions identify.                                               *)

\* The row old was loaded from an event whose row is new by now: under an equal
\* version they are the same definition, exceptions only came to it, and an
\* exception of an equal version is the same snapshot.
Precedes(old, new) ==
  /\ old.version <= new.version
  /\ old.version = new.version =>
       /\ Recurs(old) = Recurs(new)
       /\ EventSchedule(old) = EventSchedule(new)
       /\ old.type = new.type /\ old.scopes = new.scopes
       /\ DOMAIN Exceptions(old) \subseteq DOMAIN Exceptions(new)
       /\ \A d \in DOMAIN Exceptions(old) :
            /\ Exceptions(old)[d].version <= Exceptions(new)[d].version
            /\ Exceptions(old)[d].version = Exceptions(new)[d].version
                 => Exceptions(old)[d] = Exceptions(new)[d]

\* An identity is seen only once it was created, and is never used again.
ViewBehind ==
  \A e \in Events :
    /\ events[e] = Unborn => view[e] = Unborn
    /\ RowSound(view[e]) /\ RowSound(events[e]) => Precedes(view[e], events[e])

LEMMA ExceptionVersions ==
  ASSUME NEW ev, IsEvent(ev), NEW d \in DOMAIN Exceptions(ev)
  PROVE  Exceptions(ev)[d].version \in Nat \ {0}
<1>1. Exceptions(ev)[d] \in ExceptionRecords
  BY ExceptionFields
<1> QED BY <1>1, CalendarAssumption DEF ExceptionRecords

LEMMA PrecedesItself ==
  ASSUME NEW ev, RowSound(ev)
  PROVE  Precedes(ev, ev)
<1>1. IsEvent(ev) /\ ev.version \in Nat
  BY SoundIsRow, EventFields, CalendarAssumption
<1> QED BY <1>1, ExceptionVersions DEF Precedes

\* A saved snapshot is newer than the one it replaces.
LEMMA SavedPrecedes ==
  ASSUME NEW old, RowSound(old), NEW ev, RowSound(ev), Recurs(ev), Precedes(old, ev),
         NEW d \in Originals, SeriesOccursOn(ev, d), NEW x \in ExceptionRecords,
         ExceptionRowFits(x), ExceptionScopesFit(x), x.version = SavedVersion(ev, d)
  PROVE  Precedes(old, WithException(ev, d, x))
<1> DEFINE row == WithException(ev, d, x)
<1>1. /\ RowSound(row) /\ Recurs(row)
      /\ row.type = ev.type /\ row.first = ev.first /\ row.allDay = ev.allDay
      /\ row.hours = ev.hours /\ row.scopes = ev.scopes /\ row.version = ev.version
      /\ Exceptions(row) = [o \in DOMAIN Exceptions(ev) \cup {d} |->
                              IF o = d THEN x ELSE Exceptions(ev)[o]]
  BY ExceptionSaved
<1>2. IsEvent(old) /\ IsEvent(ev)
  BY SoundIsRow
<1> HIDE DEF row
<1> SUFFICES ASSUME old.version = row.version
             PROVE  Precedes(old, row)
  <2>1. Precedes(old, row) => Precedes(old, WithException(ev, d, x))
    BY DEF row
  <2>2. old.version # row.version => Precedes(old, row)
    BY <1>1 DEF Precedes
  <2> QED BY <2>1, <2>2
<1>3. /\ Recurs(old) = Recurs(ev) /\ EventSchedule(old) = EventSchedule(ev)
      /\ old.type = ev.type /\ old.scopes = ev.scopes
      /\ DOMAIN Exceptions(old) \subseteq DOMAIN Exceptions(ev)
      /\ \A o \in DOMAIN Exceptions(old) :
           /\ Exceptions(old)[o].version <= Exceptions(ev)[o].version
           /\ Exceptions(old)[o].version = Exceptions(ev)[o].version
                => Exceptions(old)[o] = Exceptions(ev)[o]
  BY <1>1 DEF Precedes
<1>4. /\ DOMAIN Exceptions(row) = DOMAIN Exceptions(ev) \cup {d}
      /\ \A o \in DOMAIN Exceptions(row) :
           Exceptions(row)[o] = IF o = d THEN x ELSE Exceptions(ev)[o]
  BY <1>1
<1>5. ASSUME NEW o \in DOMAIN Exceptions(old)
      PROVE  /\ Exceptions(old)[o].version <= Exceptions(row)[o].version
             /\ Exceptions(old)[o].version = Exceptions(row)[o].version
                  => Exceptions(old)[o] = Exceptions(row)[o]
  <2>1. CASE o = d
    <3>1. Excepted(ev, d) /\ Exceptions(row)[o] = x
      BY <1>3, <1>4, <2>1 DEF Excepted
    <3>2. /\ x.version = Exceptions(ev)[d].version + 1
          /\ Exceptions(ev)[d].version \in Nat /\ Exceptions(old)[d].version \in Nat
      BY <1>2, <2>1, <3>1, ExceptionVersions DEF SavedVersion, Excepted
    <3>3. Exceptions(old)[d].version <= Exceptions(ev)[d].version
      BY <1>3, <2>1
    <3> QED BY <2>1, <3>1, <3>2, <3>3
  <2>2. CASE o # d
    <3>1. Exceptions(row)[o] = Exceptions(ev)[o]
      BY <1>3, <1>4, <2>2
    <3> QED BY <1>3, <3>1
  <2> QED BY <2>1, <2>2
<1>6. EventSchedule(old) = EventSchedule(row) /\ Recurs(old) = Recurs(row)
  BY <1>1, <1>3 DEF EventSchedule
<1> QED BY <1>1, <1>3, <1>4, <1>5, <1>6 DEF Precedes

LEMMA CommandKeepsViewBehind ==
  ASSUME Typed, ViewBehind, NEW e \in Events, Committed(e)
  PROVE  ViewBehind'
<1> SUFFICES ASSUME NEW o \in Events
             PROVE  /\ events'[o] = Unborn => view[o] = Unborn
                    /\ RowSound(view[o]) /\ RowSound(events'[o]) =>
                         Precedes(view[o], events'[o])
  BY DEF Committed, ViewBehind
<1>1. /\ events[o] = Unborn => view[o] = Unborn
      /\ RowSound(view[o]) /\ RowSound(events[o]) => Precedes(view[o], events[o])
  BY DEF ViewBehind
<1>2. CASE o # e
  <2>1. events'[o] = events[o]
    BY <1>2 DEF Committed
  <2> QED BY <1>1, <2>1
<1>3. CASE Kept(o)
  BY <1>1, <1>3 DEF Kept
<1>4. CASE Created(o)
  BY <1>1, <1>4, SoundIsRow DEF Created
<1>5. CASE Removed(o)
  BY <1>5, SoundIsRow, CalendarAssumption DEF Removed
<1>6. CASE Rewritten(o)
  <2>1. RowSound(events[o]) /\ RowSound(events'[o])
    BY <1>6 DEF Rewritten
  <2>2. events'[o] # Unborn
    BY <2>1, SoundIsRow
  <2>3. ASSUME RowSound(view[o])
        PROVE  Precedes(view[o], events'[o])
    <3>1. Precedes(view[o], events[o])
      BY <1>1, <2>1, <2>3
    <3>2. view[o].version \in Nat /\ events[o].version \in Nat
      BY <2>1, <2>3, SoundIsRow, EventFields, CalendarAssumption
    <3>3. /\ view[o].version <= events[o].version
          /\ events'[o].version = events[o].version + 1
      BY <1>6, <3>1 DEF Precedes, Rewritten
    <3> QED BY <3>2, <3>3 DEF Precedes
  <2> QED BY <2>2, <2>3
<1>7. CASE Saved(o)
  <2>1. RowSound(events[o]) /\ RowSound(events'[o]) /\ Recurs(events[o])
    BY <1>7 DEF Saved
  <2>2. PICK d \in Originals, x \in ExceptionRecords :
          /\ SeriesOccursOn(events[o], d) /\ ExceptionRowFits(x) /\ ExceptionScopesFit(x)
          /\ SavedAt(o, d, x)
    BY <1>7 DEF Saved
  <2>3. /\ x.version = SavedVersion(events[o], d)
        /\ events'[o] = WithException(events[o], d, x)
    BY <2>2 DEF SavedAt
  <2>4. events'[o] # Unborn
    BY <2>1, SoundIsRow
  <2>5. RowSound(view[o]) => Precedes(view[o], events'[o])
    BY <1>1, <2>1, <2>2, <2>3, SavedPrecedes
  <2> QED BY <2>4, <2>5
<1> QED BY <1>2, <1>3, <1>4, <1>5, <1>6, <1>7 DEF Committed, Moves

LEMMA StepViewBehind == Typed /\ ViewBehind /\ [Next]_vars => ViewBehind'
<1> SUFFICES ASSUME Typed, ViewBehind, [Next]_vars PROVE ViewBehind'
  OBVIOUS
<1>1. CASE UNCHANGED vars
  BY <1>1 DEF vars, ViewBehind
<1>2. CASE Tick
  BY <1>2 DEF Tick, ViewBehind
<1>3. CASE Look
  BY <1>3, PrecedesItself DEF Look, ViewBehind
<1>4. CASE ReconcileTargets
  BY <1>4 DEF ReconcileTargets, ViewBehind
<1>5. CASE ReconcileAll
  BY <1>5 DEF ReconcileAll, ViewBehind
<1>6. CASE Command
  BY <1>6, CommandMoves, CommandKeepsViewBehind DEF Typed
<1> QED BY <1>1, <1>2, <1>3, <1>4, <1>5, <1>6, Steps

\* What a client has loaded is what is stored or is behind it for good.
THEOREM ViewAlwaysBehind == Spec => []ViewBehind
<1>1. Init => ViewBehind
  <2> SUFFICES ASSUME Init, NEW e \in Events
               PROVE  events[e] = Unborn /\ view[e] = Unborn /\ ~RowSound(events[e])
    BY DEF ViewBehind
  <2>1. events[e] = Unborn /\ view[e] = Unborn
    BY DEF Init
  <2> QED BY <2>1, SoundIsRow
<1> QED BY <1>1, AlwaysTyped, StepViewBehind, PTL DEF Spec

LEMMA BehindIdentifies == Typed /\ ViewBehind => VersionsIdentifyContent
<1> SUFFICES ASSUME Typed, ViewBehind, NEW e \in Events, Current(view, e)
             PROVE  Precedes(view[e], events[e]) /\ view[e].version = events[e].version
  BY DEF VersionsIdentifyContent, Precedes
<1>1. RowSound(view[e]) /\ RowSound(events[e])
  BY DEF Typed, Plain, RowsSound, ViewSound, Current, Exists
<1> QED BY <1>1 DEF ViewBehind, Current

\* The versions a client sends back are enough to tell that nothing it saw has
\* changed, whatever was removed and saved again since it looked.
THEOREM VersionsAlwaysIdentify == Spec => []VersionsIdentifyContent
BY AlwaysTyped, ViewAlwaysBehind, BehindIdentifies, PTL

-----------------------------------------------------------------------------
(* The search index.                                                         *)

\* The version of the snapshot an instance was built from, 0 without one.
SnapshotVersion(i) == IF i.exceptionVersion = None THEN 0 ELSE i.exceptionVersion

\* The instance i was built from an earlier row of an event whose row is ev by
\* now: it is the event's present occurrence if the versions are the same.
Reflects(i, e, ev) ==
  /\ Recurs(ev) <=> i.id[2] # None
  /\ i.eventVersion <= ev.version
  /\ i.eventVersion = ev.version =>
       IF Recurs(ev)
       THEN LET d == i.id[2]
            IN  /\ SnapshotVersion(i) < SavedVersion(ev, d)
                /\ SnapshotVersion(i) + 1 = SavedVersion(ev, d) => i = RecurringInstance(e, ev, d)
       ELSE i = StandaloneInstance(e, ev)

\* No document outruns the calendar it was built from.
CorpusBehind ==
  \A id \in DOMAIN corpus :
    /\ events[id[1]] # Unborn
    /\ RowSound(events[id[1]]) => Reflects(corpus[id], id[1], events[id[1]])

LEMMA InstanceFields ==
  ASSUME NEW i \in Instances
  PROVE  /\ i.eventVersion \in Nat \ {0} /\ SnapshotVersion(i) \in Nat
         /\ i.id = <<i.id[1], i.id[2]>> /\ i.id[1] \in Events /\ i.id[2] \in Limits
         /\ i.date \in Dates
<1>1. /\ i.eventVersion \in 1 .. MaxVersion /\ i.exceptionVersion \in {None} \cup 1 .. MaxSaves
      /\ i.id \in Ids /\ i.date \in Dates
  BY DEF Instances
<1>2. SnapshotVersion(i) \in Nat
  BY <1>1, CalendarAssumption DEF SnapshotVersion
<1>3. i.eventVersion \in Nat \ {0}
  BY <1>1, CalendarAssumption
<1> QED BY <1>1, <1>2, <1>3 DEF Ids

\* An occurrence carries the versions of the rows it was built from.
LEMMA OccurrenceVersions ==
  ASSUME NEW ev, RowSound(ev), NEW e \in Events
  PROVE  /\ StandaloneInstance(e, ev).eventVersion = ev.version
         /\ \A d \in Dates :
              /\ RecurringInstance(e, ev, d).eventVersion = ev.version
              /\ SnapshotVersion(RecurringInstance(e, ev, d)) + 1 = SavedVersion(ev, d)
<1>1. StandaloneInstance(e, ev).eventVersion = ev.version
  BY DEF StandaloneInstance
<1>2. ASSUME NEW d \in Dates
      PROVE  /\ RecurringInstance(e, ev, d).eventVersion = ev.version
             /\ SnapshotVersion(RecurringInstance(e, ev, d)) + 1 = SavedVersion(ev, d)
  <2> DEFINE i == RecurringInstance(e, ev, d)
  <2>1. /\ i.eventVersion = ev.version
        /\ Excepted(ev, d) => i.exceptionVersion = Exceptions(ev)[d].version
        /\ ~Excepted(ev, d) => i.exceptionVersion = None
    BY DEF RecurringInstance
  <2> HIDE DEF i
  <2>2. CASE Excepted(ev, d)
    <3>1. Exceptions(ev)[d].version \in Nat \ {0} /\ None \notin Int
      BY <2>2, SoundIsRow, ExceptionVersions, CalendarAssumption DEF Excepted
    <3>2. i.exceptionVersion # None
      BY <2>1, <2>2, <3>1
    <3> QED BY <2>1, <2>2, <3>2 DEF SnapshotVersion, SavedVersion, i
  <2>3. CASE ~Excepted(ev, d)
    <3>1. SnapshotVersion(i) = 0 /\ SavedVersion(ev, d) = 1
      BY <2>1, <2>3 DEF SnapshotVersion, SavedVersion
    <3> QED BY <2>1, <3>1 DEF i
  <2> QED BY <2>2, <2>3
<1> QED BY <1>1, <1>2

\* What the calendar shows reflects it, and is what its versions say.
LEMMA ShownReflects ==
  ASSUME NEW lo \in Dates, NEW hi \in Dates, NEW e \in Events, NEW i, ShownOf(e, i, lo, hi)
  PROVE  Reflects(i, e, events[e])
<1> DEFINE ev == events[e]
<1>1. RowSound(ev) /\ ev.version \in Nat
  BY SoundIsRow, EventFields, CalendarAssumption DEF ShownOf
<1>2. CASE ~Recurs(ev)
  <2>1. i.id = <<e, None>> /\ i = StandaloneInstance(e, ev)
    BY <1>2, ListedShown
  <2>2. i.id[2] = None
    BY <2>1
  <2>3. i.eventVersion = ev.version
    BY <1>1, <2>1, OccurrenceVersions
  <2>4. Recurs(ev) <=> i.id[2] # None
    BY <1>2, <2>2
  <2> QED BY <1>1, <1>2, <2>1, <2>3, <2>4 DEF Reflects
<1>3. CASE Recurs(ev)
  <2>1. i.id[2] \in Dates /\ i = RecurringInstance(e, ev, i.id[2])
    BY <1>3, ListedShown
  <2>2. i.id[2] # None
    BY <2>1, CalendarAssumption DEF Dates
  <2>3. /\ i.eventVersion = ev.version
        /\ SnapshotVersion(i) + 1 = SavedVersion(ev, i.id[2])
    BY <1>1, <2>1, OccurrenceVersions
  <2>4. SavedVersion(ev, i.id[2]) \in Nat /\ SnapshotVersion(i) \in Nat
    BY <1>1, SavedVersions, SoundIsRow, ListedShown, InstanceFields
  <2>5. Recurs(ev) <=> i.id[2] # None
    BY <1>3, <2>2
  <2> HIDE DEF ev
  <2>6. Reflects(i, e, ev)
    BY <1>1, <1>3, <2>1, <2>3, <2>4, <2>5 DEF Reflects
  <2> QED BY <2>6 DEF ev
<1> QED BY <1>2, <1>3

\* Equal fingerprints mean equal occurrences.
LEMMA FingerprintTells ==
  ASSUME NEW lo \in Dates, NEW hi \in Dates, NEW e \in Events, NEW i, ShownOf(e, i, lo, hi),
         NEW doc \in Instances, Reflects(doc, e, events[e]), Fingerprint(doc) = Fingerprint(i)
  PROVE  doc = i
<1> DEFINE ev == events[e]
<1>1. /\ doc.id = i.id /\ doc.eventVersion = i.eventVersion
      /\ doc.exceptionVersion = i.exceptionVersion
  BY DEF Fingerprint
<1>2. RowSound(ev)
  BY DEF ShownOf
<1>3. CASE ~Recurs(ev)
  <2>1. i = StandaloneInstance(e, ev)
    BY <1>3, ListedShown
  <2>2. doc.eventVersion = ev.version
    BY <1>1, <1>2, <2>1, OccurrenceVersions
  <2> QED BY <1>3, <2>1, <2>2 DEF Reflects
<1>4. CASE Recurs(ev)
  <2>1. i.id[2] \in Dates /\ i = RecurringInstance(e, ev, i.id[2])
    BY <1>4, ListedShown
  <2>2. /\ i.eventVersion = ev.version
        /\ SnapshotVersion(i) + 1 = SavedVersion(ev, i.id[2])
    BY <1>2, <2>1, OccurrenceVersions
  <2>3. SnapshotVersion(doc) = SnapshotVersion(i) /\ doc.id[2] = i.id[2]
    BY <1>1 DEF SnapshotVersion
  <2> QED BY <1>1, <1>4, <2>1, <2>2, <2>3 DEF Reflects
<1> QED BY <1>3, <1>4

\* A newer row leaves what was built from the older one behind.
LEMMA RewrittenReflects ==
  ASSUME NEW e \in Events, NEW ev, RowSound(ev), NEW row, RowSound(row),
         row.version = ev.version + 1, Recurs(row) = Recurs(ev),
         NEW i \in Instances, Reflects(i, e, ev)
  PROVE  Reflects(i, e, row)
<1>1. i.eventVersion \in Nat /\ ev.version \in Nat
  BY InstanceFields, SoundIsRow, EventFields, CalendarAssumption
<1> QED BY <1>1 DEF Reflects

LEMMA SavedOthers ==
  ASSUME NEW ev, RowSound(ev), Recurs(ev), NEW d \in Originals, SeriesOccursOn(ev, d),
         NEW x \in ExceptionRecords, ExceptionRowFits(x), ExceptionScopesFit(x),
         NEW o, o # d
  PROVE  LET row == WithException(ev, d, x)
         IN  /\ Excepted(row, o) = Excepted(ev, o)
             /\ SavedVersion(row, o) = SavedVersion(ev, o)
             /\ Cancelled(row, o) = Cancelled(ev, o)
             /\ EffectiveDate(row, o) = EffectiveDate(ev, o)
             /\ \A e : RecurringInstance(e, row, o) = RecurringInstance(e, ev, o)
<1> DEFINE row == WithException(ev, d, x)
<1>1. /\ row.type = ev.type /\ row.allDay = ev.allDay
      /\ row.hours = ev.hours /\ row.scopes = ev.scopes /\ row.version = ev.version
      /\ row.series.frequency = ev.series.frequency /\ row.series.weekday = ev.series.weekday
      /\ row.series.monthDay = ev.series.monthDay
      /\ Exceptions(row) = [y \in DOMAIN Exceptions(ev) \cup {d} |->
                              IF y = d THEN x ELSE Exceptions(ev)[y]]
  BY ExceptionSaved
<1> HIDE DEF row
<1>2. /\ o \in DOMAIN Exceptions(row) <=> o \in DOMAIN Exceptions(ev)
      /\ o \in DOMAIN Exceptions(ev) => Exceptions(row)[o] = Exceptions(ev)[o]
  BY <1>1
<1>3. Excepted(row, o) <=> Excepted(ev, o)
  BY <1>2 DEF Excepted
<1>4. Excepted(row, o) = Excepted(ev, o)
  BY <1>3 DEF Excepted
<1>5. SavedVersion(row, o) = SavedVersion(ev, o) /\ EffectiveDate(row, o) = EffectiveDate(ev, o)
  BY <1>2, <1>3 DEF SavedVersion, EffectiveDate, Excepted
<1>6. Cancelled(row, o) = Cancelled(ev, o)
  BY <1>2, <1>3 DEF Cancelled, Excepted
<1>7. ASSUME NEW e
      PROVE  RecurringInstance(e, row, o) = RecurringInstance(e, ev, o)
  <2>1. CASE Excepted(ev, o)
    BY <1>1, <1>2, <1>3, <1>5, <2>1 DEF RecurringInstance, Excepted
  <2>2. CASE ~Excepted(ev, o)
    BY <1>1, <1>3, <1>5, <2>2 DEF RecurringInstance
  <2> QED BY <2>1, <2>2
<1> QED BY <1>4, <1>5, <1>6, <1>7 DEF row

LEMMA SavedReflects ==
  ASSUME NEW e \in Events, NEW ev, RowSound(ev), Recurs(ev), NEW d \in Originals,
         SeriesOccursOn(ev, d), NEW x \in ExceptionRecords, ExceptionRowFits(x),
         ExceptionScopesFit(x), x.version = SavedVersion(ev, d),
         NEW i \in Instances, Reflects(i, e, ev)
  PROVE  Reflects(i, e, WithException(ev, d, x))
<1> DEFINE row == WithException(ev, d, x)
           o == i.id[2]
<1>1. /\ RowSound(row) /\ Recurs(row) /\ row.version = ev.version
      /\ Exceptions(row) = [y \in DOMAIN Exceptions(ev) \cup {d} |->
                              IF y = d THEN x ELSE Exceptions(ev)[y]]
  <2>1. RowSound(row) /\ Recurs(row)
    BY ExceptionSaved
  <2>2. row.version = ev.version
    BY ExceptionSaved
  <2>3. Exceptions(row) = [y \in DOMAIN Exceptions(ev) \cup {d} |->
                             IF y = d THEN x ELSE Exceptions(ev)[y]]
    BY ExceptionSaved
  <2> QED BY <2>1, <2>2, <2>3
<1>2. /\ o # None /\ i.eventVersion <= ev.version
      /\ i.eventVersion = ev.version =>
           /\ SnapshotVersion(i) < SavedVersion(ev, o)
           /\ SnapshotVersion(i) + 1 = SavedVersion(ev, o) => i = RecurringInstance(e, ev, o)
  BY DEF Reflects
<1>3. SnapshotVersion(i) \in Nat /\ SavedVersion(ev, d) \in Nat
  BY InstanceFields, SavedVersions, SoundIsRow
<1>4. CASE o = d
  <2>1. SavedVersion(row, d) = SavedVersion(ev, d) + 1
    <3> HIDE DEF row
    <3>1. Excepted(row, d) /\ Exceptions(row)[d] = x
      BY <1>1 DEF Excepted
    <3> QED BY <3>1 DEF SavedVersion
  <2> HIDE DEF row, o
  <2>2. i.eventVersion = ev.version =>
          /\ SnapshotVersion(i) < SavedVersion(row, o)
          /\ SnapshotVersion(i) + 1 # SavedVersion(row, o)
    BY <1>2, <1>3, <1>4, <2>1
  <2>3. Recurs(row) <=> o # None
    BY <1>1, <1>2
  <2> QED BY <1>1, <1>2, <2>2, <2>3 DEF Reflects, row, o
<1>5. CASE o # d
  <2>1. /\ SavedVersion(row, o) = SavedVersion(ev, o)
        /\ RecurringInstance(e, row, o) = RecurringInstance(e, ev, o)
    BY <1>5, SavedOthers
  <2> HIDE DEF row, o
  <2>2. Recurs(row) <=> o # None
    BY <1>1, <1>2
  <2> QED BY <1>1, <1>2, <2>1, <2>2 DEF Reflects, row, o
<1> QED BY <1>4, <1>5

LEMMA CommandKeepsCorpusBehind ==
  ASSUME Typed, CorpusBehind, NEW e \in Events, Committed(e)
  PROVE  CorpusBehind'
<1>1. SUFFICES ASSUME NEW id \in DOMAIN corpus
               PROVE  /\ events'[id[1]] # Unborn
                      /\ RowSound(events'[id[1]]) => Reflects(corpus[id], id[1], events'[id[1]])
  BY DEF Committed, CorpusBehind
<1> DEFINE o == id[1]
           doc == corpus[id]
<1>2. doc \in Instances /\ doc.id = id /\ o \in Events
  <2>1. doc \in Instances /\ doc.id = id
    BY DEF Typed, CorpusTyped
  <2> QED BY <2>1, InstanceFields
<1>3. events[o] # Unborn /\ (RowSound(events[o]) => Reflects(doc, o, events[o]))
  BY DEF CorpusBehind
<1> HIDE DEF o, doc
<1>4. events'[o] # Unborn /\ (RowSound(events'[o]) => Reflects(doc, o, events'[o]))
  <2>1. CASE o # e
    <3>1. events'[o] = events[o]
      BY <1>2, <2>1 DEF Committed
    <3> QED BY <1>3, <3>1
  <2>2. CASE Kept(o)
    BY <1>3, <2>2 DEF Kept
  <2>3. CASE Created(o)
    BY <1>3, <2>3 DEF Created
  <2>4. CASE Removed(o)
    BY <2>4, SoundIsRow, CalendarAssumption DEF Removed
  <2>5. CASE Rewritten(o)
    <3>1. /\ RowSound(events[o]) /\ RowSound(events'[o])
          /\ events'[o].version = events[o].version + 1
          /\ Recurs(events'[o]) = Recurs(events[o])
      BY <2>5 DEF Rewritten
    <3>2. Reflects(doc, o, events'[o])
      BY <1>2, <1>3, <3>1, RewrittenReflects
    <3> QED BY <3>1, <3>2, SoundIsRow
  <2>6. CASE Saved(o)
    <3>1. RowSound(events[o]) /\ RowSound(events'[o]) /\ Recurs(events[o])
      BY <2>6 DEF Saved
    <3>2. PICK d \in Originals, x \in ExceptionRecords :
            /\ SeriesOccursOn(events[o], d) /\ ExceptionRowFits(x) /\ ExceptionScopesFit(x)
            /\ SavedAt(o, d, x)
      BY <2>6 DEF Saved
    <3>3. /\ x.version = SavedVersion(events[o], d)
          /\ events'[o] = WithException(events[o], d, x)
      BY <3>2 DEF SavedAt
    <3>4. Reflects(doc, o, events'[o])
      BY <1>2, <1>3, <3>1, <3>2, <3>3, SavedReflects
    <3> QED BY <3>1, <3>4, SoundIsRow
  <2> QED BY <2>1, <2>2, <2>3, <2>4, <2>5, <2>6 DEF Committed, Moves
<1> QED BY <1>4 DEF o, doc

\* What is projected is there and reflects its event.
LEMMA ProjectedReflects ==
  ASSUME Typed, NEW i \in Projected(events)
  PROVE  /\ i \in Instances
         /\ \E e \in Events : /\ i.id[1] = e /\ ShownOf(e, i, clock.day, Horizon)
                              /\ RowSound(events[e]) /\ events[e] # Unborn
                              /\ Reflects(i, e, events[e])
<1>1. Plain /\ clock.day \in Dates /\ Horizon \in Dates
  BY ClockDates DEF Typed
<1>2. PICK e \in Events : ShownOf(e, i, clock.day, Horizon) /\ i \in Instances /\ i.id[1] = e
  BY <1>1, ProjectedShown
<1>3. RowSound(events[e]) /\ Reflects(i, e, events[e])
  BY <1>1, <1>2, ShownReflects DEF ShownOf
<1>4. events[e] # Unborn
  BY <1>3, SoundIsRow
<1> QED BY <1>2, <1>3, <1>4

LEMMA ReconciledBehind ==
  ASSUME Typed, CorpusBehind, NEW ids, corpus' = Reconciled(ids), UNCHANGED events
  PROVE  CorpusBehind'
<1> SUFFICES ASSUME NEW id \in DOMAIN Reconciled(ids)
             PROVE  /\ events[id[1]] # Unborn
                    /\ RowSound(events[id[1]]) =>
                         Reflects(Reconciled(ids)[id], id[1], events[id[1]])
  BY DEF CorpusBehind
<1>1. CASE id \in DOMAIN corpus /\ Reconciled(ids)[id] = corpus[id]
  BY <1>1 DEF CorpusBehind
<1>2. CASE \E i \in Projected(events) : i.id = id /\ Reconciled(ids)[id] = i
  BY <1>2, ProjectedReflects
<1> QED BY <1>1, <1>2, ReconciledDocs

LEMMA StepCorpusBehind == Typed /\ CorpusBehind /\ [Next]_vars => CorpusBehind'
<1> SUFFICES ASSUME Typed, CorpusBehind, [Next]_vars PROVE CorpusBehind'
  OBVIOUS
<1>1. CASE UNCHANGED vars
  BY <1>1 DEF vars, CorpusBehind
<1>2. CASE Tick
  BY <1>2 DEF Tick, CorpusBehind
<1>3. CASE Look
  BY <1>3 DEF Look, CorpusBehind
<1>4. CASE ReconcileTargets
  BY <1>4, ReconciledBehind DEF ReconcileTargets
<1>5. CASE ReconcileAll
  BY <1>5, ReconciledBehind DEF ReconcileAll
<1>6. CASE Command
  BY <1>6, CommandMoves, CommandKeepsCorpusBehind DEF Typed
<1> QED BY <1>1, <1>2, <1>3, <1>4, <1>5, <1>6, Steps

\* What the index holds is an occurrence of an event there was, at a version it has had.
THEOREM CorpusAlwaysBehind == Spec => []CorpusBehind
<1>1. Init => CorpusBehind
  BY DEF Init, CorpusBehind
<1> QED BY <1>1, AlwaysTyped, StepCorpusBehind, PTL DEF Spec

LEMMA ProjectionMeans ==
  Plain => \A i : i \in Projected(events) <=>
                    \E e \in Events : ShownOf(e, i, clock.day, Horizon)
BY ClockDates, ListedMeans DEF Plain, Projected

LEMMA ProjectionMeansNext ==
  Plain' => \A i : i \in Projected(events)' <=>
                     \E e \in Events : ShownOf(e, i, clock.day, Horizon)'
<1>1. (Plain => \A i : i \in Projected(events) <=>
                         \E e \in Events : ShownOf(e, i, clock.day, Horizon))'
  BY ProjectionMeans, PTL
<1> QED BY <1>1

\* The occurrences of an event in the window are the ones a mutation announces.
LEMMA ShownIsAnnounced ==
  ASSUME Typed, NEW e \in Events, NEW i, ShownOf(e, i, clock.day, Horizon)
  PROVE  i.id \in RagOccurrenceIds(e, events[e])
<1>1. clock.day \in Dates /\ Horizon \in Dates /\ RowSound(events[e])
  BY ClockDates DEF Typed, ShownOf
<1>2. CASE ~Recurs(events[e])
  <2>1. i.id = <<e, None>>
    BY <1>1, <1>2, ListedShown
  <2> QED BY <1>2, <2>1 DEF RagOccurrenceIds
<1>3. CASE Recurs(events[e])
  <2>1. /\ i.id[2] \in Dates /\ i.id = <<e, i.id[2]>>
        /\ RuleMeans(events[e].series, events[e].first, i.id[2])
        /\ ~Cancelled(events[e], i.id[2])
        /\ EffectiveDate(events[e], i.id[2]) \in clock.day .. Horizon
    BY <1>1, <1>3, ListedShown
  <2>2. i.id[2] \in ProjectedDates(events[e], clock.day, Horizon)
    BY <1>1, <1>3, <2>1, ProjectedMeans
  <2> QED BY <1>3, <2>1, <2>2 DEF RagOccurrenceIds
<1> QED BY <1>2, <1>3

\* Saving one occurrence's snapshot leaves the others where they are.
LEMMA SavedShown ==
  ASSUME Typed, NEW e \in Events, NEW i, ShownOf(e, i, clock.day, Horizon), Saved(e),
         i.id \notin pending', UNCHANGED clock
  PROVE  ShownOf(e, i, clock.day, Horizon)'
<1> DEFINE ev == events[e]
           lo == clock.day
           hi == Horizon
<1>1. lo \in Dates /\ hi \in Dates /\ RowSound(ev) /\ RowSound(events'[e]) /\ Recurs(ev)
  BY ClockDates DEF Typed, Saved
<1>2. PICK d \in Originals, x \in ExceptionRecords :
        /\ SeriesOccursOn(ev, d) /\ ExceptionRowFits(x) /\ ExceptionScopesFit(x)
        /\ SavedAt(e, d, x)
  BY DEF Saved
<1> DEFINE row == WithException(ev, d, x)
           o == i.id[2]
<1>3. events'[e] = row /\ <<e, d>> \in pending'
  BY <1>2 DEF SavedAt
<1>4. /\ o \in Dates /\ i.id = <<e, o>> /\ RuleMeans(ev.series, ev.first, o)
      /\ ~Cancelled(ev, o) /\ EffectiveDate(ev, o) \in lo .. hi
      /\ i = RecurringInstance(e, ev, o)
  BY <1>1, ListedShown
<1>5. o # d
  BY <1>3, <1>4
<1>6. Recurs(row) /\ row.first = ev.first
  BY <1>1, <1>2, ExceptionSaved
<1>7. \A field \in {"frequency", "weekday", "monthDay", "termination", "end", "count"} :
        row.series[field] = ev.series[field]
  BY <1>1, <1>2, ExceptionSaved
<1>8. /\ Cancelled(row, o) = Cancelled(ev, o)
      /\ EffectiveDate(row, o) = EffectiveDate(ev, o)
      /\ RecurringInstance(e, row, o) = RecurringInstance(e, ev, o)
  BY <1>1, <1>2, <1>5, SavedOthers
<1>9. RuleMeans(row.series, row.first, o)
  BY <1>4, <1>6, <1>7 DEF RuleMeans, Repeats, Nth
<1>10. lo' = lo /\ hi' = hi /\ ev.first <= hi
  BY DEF Horizon, ShownOf
<1> HIDE DEF row, o, lo, hi
<1>11. /\ RowSound(row) /\ row.first <= hi /\ Recurs(row)
       /\ \E y \in Dates : /\ RuleMeans(row.series, row.first, y) /\ ~Cancelled(row, y)
                           /\ EffectiveDate(row, y) \in lo .. hi
                           /\ i = RecurringInstance(e, row, y)
  BY <1>1, <1>3, <1>4, <1>6, <1>8, <1>9, <1>10
<1>12. /\ events'[e] = row /\ clock.day' = lo /\ Horizon' = hi
  BY <1>3, <1>10 DEF lo, hi
<1> QED BY <1>11, <1>12 DEF ShownOf

\* What a command does not announce it leaves on the calendar.
LEMMA UnannouncedStays ==
  ASSUME Typed, Typed', NEW e \in Events, Committed(e), NEW i \in Projected(events),
         i.id \notin pending'
  PROVE  i \in Projected(events)'
<1>1. PICK o \in Events : ShownOf(o, i, clock.day, Horizon)
  BY ProjectionMeans DEF Typed
<1>2. i.id \in RagOccurrenceIds(o, events[o]) /\ RowSound(events[o])
  BY <1>1, ShownIsAnnounced DEF ShownOf
<1>3. clock' = clock
  BY DEF Committed
<1>4. events'[o] = events[o] => ShownOf(o, i, clock.day, Horizon)'
  BY <1>1, <1>3 DEF ShownOf, Horizon
<1>5. ShownOf(o, i, clock.day, Horizon)'
  <2>1. CASE o # e
    BY <1>4, <2>1 DEF Committed
  <2>2. CASE Kept(o)
    BY <1>4, <2>2 DEF Kept
  <2>3. CASE Created(o)
    BY <1>2, <2>3, SoundIsRow DEF Created
  <2>4. CASE Removed(o) \/ Rewritten(o)
    BY <1>2, <2>4 DEF Removed, Rewritten
  <2>5. CASE Saved(o)
    BY <1>1, <1>3, <2>5, SavedShown
  <2> QED BY <2>1, <2>2, <2>3, <2>4, <2>5 DEF Committed, Moves
<1>6. Plain'
  BY DEF Typed
<1> QED BY <1>5, <1>6, ProjectionMeansNext

\* As days pass, what is still ahead stays in the window.
LEMMA AheadStays ==
  ASSUME Typed, Typed', Tick, NEW i \in Projected(events), i.date >= clock'.day
  PROVE  i \in Projected(events)'
<1>1. PICK e \in Events : ShownOf(e, i, clock.day, Horizon)
  BY ProjectionMeans DEF Typed
<1>2. clock.day <= clock'.day /\ events' = events
  <2>1. PICK t \in Times : Later(t) /\ clock' = t
    BY DEF Tick
  <2>2. t.day \in Nat /\ clock.day \in Nat
    BY ClockDates, CalendarAssumption DEF Typed, Dates
  <2> QED BY <2>1, <2>2 DEF Later, Tick
<1>3. /\ clock.day \in Dates /\ Horizon \in Dates /\ clock'.day \in Dates /\ Horizon' \in Dates
      /\ Plain /\ Plain'
  <2>1. (Plain => clock.day \in Dates /\ Horizon \in Dates)'
    BY ClockDates, PTL
  <2> QED BY <2>1, ClockDates DEF Typed
<1>4. Horizon <= Horizon'
  BY <1>2, <1>3, CalendarAssumption DEF Horizon, Dates
<1> DEFINE lo == clock'.day
           hi == Horizon'
<1>5. RowSound(events[e]) /\ events[e].first \in Dates /\ events[e].first <= Horizon
  BY <1>1, EventFields, SoundIsRow DEF ShownOf
<1>6. i.date <= Horizon /\ i.date \in Dates
  BY <1>1, <1>3, ListedShown, InstanceFields DEF Dates
<1>7. i.date \in lo .. hi /\ events[e].first <= hi
  BY <1>3, <1>4, <1>5, <1>6 DEF Dates
<1> HIDE DEF lo, hi
<1>8. ShownOf(e, i, lo, hi)
  <2>1. CASE ~Recurs(events[e])
    <3>1. i = StandaloneInstance(e, events[e]) /\ i.date = events[e].first
      BY <1>1, <1>3, <1>5, <2>1, ListedShown, StandaloneShown
    <3> QED BY <1>5, <1>7, <2>1, <3>1 DEF ShownOf
  <2>2. CASE Recurs(events[e])
    <3>1. PICK d \in Dates : /\ RuleMeans(events[e].series, events[e].first, d)
                             /\ ~Cancelled(events[e], d)
                             /\ i = RecurringInstance(e, events[e], d)
      BY <1>1, <2>2 DEF ShownOf
    <3>2. i.date = EffectiveDate(events[e], d)
      BY <1>5, <2>2, <3>1, RecurringShown
    <3> QED BY <1>5, <1>7, <2>2, <3>1, <3>2 DEF ShownOf
  <2> QED BY <2>1, <2>2
<1>9. ShownOf(e, i, clock.day, Horizon)'
  BY <1>2, <1>8 DEF ShownOf, lo, hi
<1> QED BY <1>3, <1>9, ProjectionMeansNext

LEMMA CommandKeepsCorpusFresh ==
  ASSUME Typed, Typed', CorpusNeverStale, NEW e \in Events, Committed(e)
  PROVE  CorpusNeverStale'
<1> SUFFICES ASSUME NEW id \in DOMAIN corpus, id \notin pending', ~(corpus[id].date < clock.day)
             PROVE  \E i \in Projected(events)' : i.id = id /\ Content(i) = Content(corpus[id])
  BY DEF Committed, CorpusNeverStale, Content
<1>1. PICK i \in Projected(events) : i.id = id /\ Content(i) = Content(corpus[id])
  BY DEF CorpusNeverStale, Committed
<1>2. i \in Projected(events)'
  BY <1>1, UnannouncedStays
<1> QED BY <1>1, <1>2

\* A document that was reconciled shows what is projected.
LEMMA ReconciledFresh ==
  ASSUME Typed, CorpusBehind, NEW ids, NEW id \in DOMAIN Reconciled(ids), id \in ids
  PROVE  \E i \in Projected(events) : i.id = id /\ Reconciled(ids)[id] = i
<1>1. PICK i \in Projected(events) :
        /\ i.id = id
        /\ \/ Reconciled(ids)[id] = i
           \/ /\ id \in DOMAIN corpus /\ Reconciled(ids)[id] = corpus[id]
              /\ Fingerprint(corpus[id]) = Fingerprint(i)
  BY ReconciledDocs
<1>2. CASE /\ id \in DOMAIN corpus /\ Reconciled(ids)[id] = corpus[id]
           /\ Fingerprint(corpus[id]) = Fingerprint(i)
  <2>1. PICK e \in Events : /\ i.id[1] = e /\ ShownOf(e, i, clock.day, Horizon)
                            /\ RowSound(events[e])
    BY ProjectedReflects
  <2>2. corpus[id] \in Instances /\ id[1] = e
    BY <1>1, <1>2, <2>1 DEF Typed, CorpusTyped
  <2>3. Reflects(corpus[id], e, events[e])
    BY <1>2, <2>1, <2>2 DEF CorpusBehind
  <2>4. clock.day \in Dates /\ Horizon \in Dates
    BY ClockDates DEF Typed
  <2>5. corpus[id] = i
    BY <1>2, <2>1, <2>2, <2>3, <2>4, FingerprintTells
  <2> QED BY <1>1, <1>2, <2>5
<1> QED BY <1>1, <1>2

LEMMA ReconcileKeepsCorpusFresh ==
  ASSUME Typed, CorpusBehind, CorpusNeverStale, NEW ids, corpus' = Reconciled(ids),
         UNCHANGED <<clock, events>>, pending \ ids \subseteq pending'
  PROVE  CorpusNeverStale'
<1>1. Projected(events)' = Projected(events)
  BY DEF Projected, Horizon, GetRange, LoadedFor, ProjectSeries, ProjectedDates
<1> SUFFICES ASSUME NEW id \in DOMAIN Reconciled(ids), id \notin pending'
             PROVE  \/ Reconciled(ids)[id].date < clock.day
                    \/ \E i \in Projected(events) :
                         i.id = id /\ Content(i) = Content(Reconciled(ids)[id])
  BY <1>1 DEF CorpusNeverStale, Content
<1>2. CASE id \in ids
  BY <1>2, ReconciledFresh
<1>3. CASE id \notin ids
  <2>1. id \in DOMAIN corpus /\ Reconciled(ids)[id] = corpus[id]
    BY <1>3, ReconciledDocs
  <2>2. id \notin pending
    BY <1>3
  <2> QED BY <2>1, <2>2 DEF CorpusNeverStale
<1> QED BY <1>2, <1>3

LEMMA StepCorpusFresh ==
  Typed /\ Typed' /\ CorpusBehind /\ CorpusNeverStale /\ [Next]_vars => CorpusNeverStale'
<1> SUFFICES ASSUME Typed, Typed', CorpusBehind, CorpusNeverStale, [Next]_vars
             PROVE  CorpusNeverStale'
  OBVIOUS
<1>0. UNCHANGED <<clock, events>> => Projected(events)' = Projected(events)
  BY DEF Projected, Horizon, GetRange, LoadedFor, ProjectSeries, ProjectedDates
<1>1. CASE UNCHANGED vars
  BY <1>0, <1>1 DEF vars, CorpusNeverStale, Content
<1>2. CASE Tick
  <2> SUFFICES ASSUME NEW id \in DOMAIN corpus \ pending, ~(corpus[id].date < clock'.day)
               PROVE  \E i \in Projected(events)' : i.id = id /\ Content(i) = Content(corpus[id])
    BY <1>2 DEF Tick, CorpusNeverStale, Content
  <2>1. PICK t \in Times : Later(t) /\ clock' = t
    BY <1>2 DEF Tick
  <2>2. t.day \in Nat /\ clock.day \in Nat /\ corpus[id].date \in Nat
    BY ClockDates, CalendarAssumption, InstanceFields DEF Typed, CorpusTyped, Dates
  <2>3. ~(corpus[id].date < clock.day) /\ corpus[id].date >= clock'.day
    BY <2>1, <2>2 DEF Later
  <2>4. PICK i \in Projected(events) : i.id = id /\ Content(i) = Content(corpus[id])
    BY <2>3 DEF CorpusNeverStale
  <2>5. i.date = corpus[id].date
    BY <2>4 DEF Content
  <2>6. i \in Projected(events)'
    BY <1>2, <2>3, <2>5, AheadStays
  <2> QED BY <2>4, <2>6
<1>3. CASE Look
  BY <1>0, <1>3 DEF Look, CorpusNeverStale, Content
<1>4. CASE ReconcileTargets
  <2>1. pending \ pending \subseteq pending'
    OBVIOUS
  <2> QED BY <1>4, <2>1, ReconcileKeepsCorpusFresh DEF ReconcileTargets
<1>5. CASE ReconcileAll
  BY <1>5, ReconcileKeepsCorpusFresh DEF ReconcileAll
<1>6. CASE Command
  BY <1>6, CommandMoves, CommandKeepsCorpusFresh DEF Typed
<1> QED BY <1>1, <1>2, <1>3, <1>4, <1>5, <1>6, Steps

\* Whatever is edited, cancelled or removed, and however often the index is
\* reconciled in between, an indexed occurrence that is still ahead shows what the
\* calendar shows unless its reconciliation is under way.
THEOREM CorpusStaysFresh == Spec => []CorpusNeverStale
<1>1. Init => CorpusNeverStale
  BY DEF Init, CorpusNeverStale
<1> QED BY <1>1, AlwaysTyped, CorpusAlwaysBehind, StepCorpusFresh, PTL DEF Spec
=============================================================================
