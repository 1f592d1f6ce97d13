------------------------------ MODULE Calendar ------------------------------
(***************************************************************************)
(* Calendar events, recurring series and their occurrence exceptions, the  *)
(* commands coaches send against versions they have read, and the search   *)
(* index that follows the effective occurrences of the next weeks.  Every  *)
(* command locks the event row, so it is one action; a client may have     *)
(* composed it from what it loaded earlier (view).                         *)
(***************************************************************************)
EXTENDS CalendarRecurrence, FiniteSets

CONSTANTS
  Events,      \* event identities
  Unborn, Gone,   \* the states of an identity without a row
  Payloads,    \* complete event values a client may submit
  Rules,       \* recurrence rules a client may submit, None for a standalone
  Originals,   \* original dates occurrence commands may name
  Times,       \* moments of the academy clock
  MaxVersion,  \* bound on the version of an event
  MaxSaves,    \* bound on an exception's version and the exceptions beside it
  Ranges       \* requested ranges, <<first date, last date>>

EventTypes == {"practice", "game", "miscellaneous"}
AgeGroups  == {"J", "U11", "U13", "U15"}
ScopeKinds == {"all_academy", "age_group"}

Dates     == Nat \ {0}
Limits    == Dates \cup {None}
Hours     == {None} \cup (Nat \X Nat)
ScopeSets == SUBSET ({"all_academy"} \cup AgeGroups)
\* An occurrence: the event and the original date, None for a standalone.
Ids       == Events \X Limits

\* What a client may submit.
EventValues ==
  [type : EventTypes, date : Dates, allDay : BOOLEAN, hours : Hours,
   scope : [kind : ScopeKinds, groups : SUBSET AgeGroups]]
RecurrenceRules ==
  [frequency : Frequencies, termination : Terminations, end : Limits,
   count : Int \cup {None}]

ExceptionRecords ==
  [moved : Limits, type : EventTypes \cup {None}, allDay : BOOLEAN \cup {None},
   hours : Hours, scopes : ScopeSets, deleted : BOOLEAN, version : 1 .. MaxSaves]

\* A series and its event, with exceptions on the given original dates.
SeriesRecords(dates) ==
  [frequency : Frequencies, weekday : 0 .. 6 \cup {None}, monthDay : 1 .. 366 \cup {None},
   termination : Terminations, end : Limits, count : Int \cup {None},
   exceptions : [dates -> ExceptionRecords]]
EventRecords(dates) ==
  [type : EventTypes, first : Dates, allDay : BOOLEAN, hours : Hours, scopes : ScopeSets,
   series : {None} \cup SeriesRecords(dates), version : 1 .. MaxVersion]
IsEvent(ev) == \E dates \in SUBSET Originals : ev \in EventRecords(dates)

\* What a recurring instance says of its rule.
Summaries == Frequencies \X (0 .. 6 \cup {None}) \X (1 .. 366 \cup {None})

Instances ==
  [id : Ids, date : Dates, type : EventTypes, allDay : BOOLEAN, hours : Hours,
   scope : [kind : ScopeKinds, groups : SUBSET AgeGroups], summary : {None} \cup Summaries,
   eventVersion : 1 .. MaxVersion, exceptionVersion : {None} \cup 1 .. MaxSaves]

ASSUME CalendarAssumption ==
  /\ {MaxDates, MaxVersion, MaxSaves} \subseteq Nat \ {0}
  /\ Ranges \subseteq Dates \X Dates /\ \A r \in Ranges : RangeOK(r[1], r[2])
  /\ Times # {} /\ Times \subseteq [day : Dates, hour : Nat]
  /\ Payloads \subseteq EventValues
  /\ Rules \subseteq {None} \cup RecurrenceRules
  /\ Originals \subseteq Dates /\ IsFiniteSet(Originals)
  /\ None \notin Int \cup EventTypes \cup BOOLEAN
  /\ None \notin (Nat \X Nat) \cup RecurrenceRules \cup Summaries
  /\ \A dates \in SUBSET Originals : None \notin SeriesRecords(dates)
  /\ Unborn # Gone /\ ~IsEvent(Unborn) /\ ~IsEvent(Gone)

VARIABLES
  clock,    \* the academy-local now
  events,   \* calendar_events with the rows they own
  view,     \* the calendar as some client loaded it
  pending,  \* occurrences announced to the search index and not reconciled
  corpus    \* indexed occurrences

vars == <<clock, events, view, pending, corpus>>

Exists(e) == events[e] \notin {Unborn, Gone}

-----------------------------------------------------------------------------
(* What the request contracts accept. *)

ScopeOK(scope) ==
  IF scope.kind = "all_academy" THEN scope.groups = {} ELSE scope.groups # {}

HoursOKAnyType(type, allDay, hours) ==
  IF allDay THEN hours = None ELSE hours # None /\ hours[1] < hours[2]

HoursOK(type, allDay, hours) ==
  IF allDay THEN type = "miscellaneous" /\ hours = None
            ELSE hours # None /\ hours[1] < hours[2]

ValuesOK(p) == ScopeOK(p.scope) /\ HoursOK(p.type, p.allDay, p.hours)

\* The recurrence of a creation or a series update.
RecurrenceOK(rule, first) == rule # None => TerminationOK(rule, first)

-----------------------------------------------------------------------------
(* Rows. *)

ScopeRows(scope) ==
  IF scope.kind = "all_academy" THEN {"all_academy"} ELSE scope.groups

ScopeOfRows(rows) ==
  IF rows = {} \/ "all_academy" \in rows
  THEN [kind |-> "all_academy", groups |-> {}]
  ELSE [kind |-> "age_group", groups |-> rows]

\* The rule columns, with the weekday or month and day of the first date.
SeriesRow(rule, first, exceptions) ==
  [frequency   |-> rule.frequency,
   weekday     |-> IF rule.frequency = "weekly" THEN Weekday(first) ELSE None,
   monthDay    |-> IF rule.frequency = "weekly" THEN None ELSE MonthDay(first),
   termination |-> rule.termination,
   end         |-> rule.end,
   count       |-> rule.count,
   exceptions  |-> exceptions]

NoExceptions == [d \in {} |-> None]

EventRow(p, series, version) ==
  [type |-> p.type, first |-> p.date, allDay |-> p.allDay, hours |-> p.hours,
   scopes |-> ScopeRows(p.scope), series |-> series, version |-> version]

ReplacementRestarted(p, original, version) ==
  [moved |-> IF p.date # original THEN p.date ELSE None,
   type |-> p.type, allDay |-> p.allDay, hours |-> p.hours,
   scopes |-> ScopeRows(p.scope), deleted |-> FALSE, version |-> 1]

\* A complete snapshot; the date is kept only when it moved.
Replacement(p, original, version) ==
  [moved |-> IF p.date # original THEN p.date ELSE None,
   type |-> p.type, allDay |-> p.allDay, hours |-> p.hours,
   scopes |-> ScopeRows(p.scope), deleted |-> FALSE, version |-> version]

Deletion(version) ==
  [moved |-> None, type |-> None, allDay |-> None, hours |-> None,
   scopes |-> {}, deleted |-> TRUE, version |-> version]

Recurs(ev) == ev.series # None
SeriesOccursOn(ev, d) == OccursOn(ev.series, ev.first, d)
Exceptions(ev) == IF Recurs(ev) THEN ev.series.exceptions ELSE NoExceptions
Excepted(ev, d) == d \in DOMAIN Exceptions(ev)

-----------------------------------------------------------------------------
(* Effective occurrences. *)

StandaloneInstance(e, ev) ==
  [id |-> <<e, None>>, date |-> ev.first, type |-> ev.type, allDay |-> ev.allDay,
   hours |-> ev.hours, scope |-> ScopeOfRows(ev.scopes), summary |-> None,
   eventVersion |-> ev.version, exceptionVersion |-> None]

\* The date an occurrence takes place, and what it is.
EffectiveDate(ev, d) ==
  IF Excepted(ev, d) /\ Exceptions(ev)[d].moved # None THEN Exceptions(ev)[d].moved
                                                       ELSE d

RecurringInstance(e, ev, d) ==
  LET x      == IF Excepted(ev, d) THEN Exceptions(ev)[d] ELSE ev
      series == ev.series
  IN  [id |-> <<e, d>>, date |-> EffectiveDate(ev, d), type |-> x.type,
       allDay |-> x.allDay, hours |-> x.hours, scope |-> ScopeOfRows(x.scopes),
       summary |-> <<series.frequency, series.weekday, series.monthDay>>,
       eventVersion |-> ev.version,
       exceptionVersion |-> IF Excepted(ev, d) THEN x.version ELSE None]

Cancelled(ev, d) == Excepted(ev, d) /\ Exceptions(ev)[d].deleted

\* Original dates of a series that fall into a range or were moved into it.
ProjectedDates(ev, lo, hi) ==
  {d \in ExpandRecurrence(ev.series, ev.first, lo, hi)
         \cup {x \in DOMAIN Exceptions(ev) :
                 /\ Exceptions(ev)[x].moved # None
                 /\ Exceptions(ev)[x].moved \in lo .. hi
                 /\ SeriesOccursOn(ev, x)} :
     ~Cancelled(ev, d) /\ EffectiveDate(ev, d) \in lo .. hi}

ProjectSeries(e, ev, lo, hi) ==
  {RecurringInstance(e, ev, d) : d \in ProjectedDates(ev, lo, hi)}

\* Events are loaded by their first date.
LoadedFor(cal, hi) ==
  {e \in Events : cal[e] \notin {Unborn, Gone} /\ cal[e].first <= hi}

GetRange(cal, lo, hi) ==
  UNION {IF Recurs(cal[e]) THEN ProjectSeries(e, cal[e], lo, hi)
         ELSE {i \in {StandaloneInstance(e, cal[e])} : i.date \in lo .. hi} :
           e \in LoadedFor(cal, hi)}

\* The instance of one identity, as a set of at most one.
GetInstance(cal, id) ==
  LET e == id[1]
      d == id[2]
  IN  IF cal[e] \in {Unborn, Gone} THEN {}
      ELSE IF d = None
           THEN IF Recurs(cal[e]) THEN {} ELSE {StandaloneInstance(e, cal[e])}
           ELSE IF /\ Recurs(cal[e]) /\ cal[e].first <= d
                   /\ SeriesOccursOn(cal[e], d) /\ ~Cancelled(cal[e], d)
                THEN {RecurringInstance(e, cal[e], d)} ELSE {}

\* The horizon of the search index.
Horizon == clock.day + MaxDates - 1
Projected(cal) == GetRange(cal, clock.day, Horizon)

\* The identities a mutation of a definition announces.
RagOccurrenceIds(e, ev) ==
  IF Recurs(ev) THEN {<<e, d>> : d \in ProjectedDates(ev, clock.day, Horizon)}
                ELSE {<<e, None>>}

-----------------------------------------------------------------------------
\* Whether the moment t is still to come.
Later(t) == \/ clock.day < t.day
            \/ clock.day = t.day /\ clock.hour < t.hour

Init ==
  /\ clock \in Times
  /\ \A t \in Times : t = clock \/ Later(t)
  /\ events = [e \in Events |-> Unborn]
  /\ view = events
  /\ pending = {}
  /\ corpus = [id \in {} |-> None]

Tick ==
  /\ \E t \in Times : Later(t) /\ clock' = t
  /\ UNCHANGED <<events, view, pending, corpus>>

\* A client loads the calendar and keeps it on the screen.
Look == /\ view' = events
        /\ view # events
        /\ UNCHANGED <<clock, events, pending, corpus>>

\* A schedule already stored may be stored again; a new one may not have begun.
InPast(p) ==
  \/ p.date < clock.day
  \/ p.date = clock.day /\ ~p.allDay /\ p.hours # None /\ p.hours[1] < clock.hour

Schedule(x)  == <<x.date, x.allDay, x.hours>>
EventSchedule(ev) == <<ev.first, ev.allDay, ev.hours>>
OccurrenceSchedule(ev, d) ==
  IF Excepted(ev, d) /\ ~Cancelled(ev, d)
  THEN <<EffectiveDate(ev, d), Exceptions(ev)[d].allDay, Exceptions(ev)[d].hours>>
  ELSE <<d, ev.allDay, ev.hours>>

MayStand(p, previous) == Schedule(p) = previous \/ ~InPast(p)

-----------------------------------------------------------------------------
(* Commands.  cal is the calendar the client composed the request from:    *)
(* what is stored now, or what it has on the screen.                       *)

Bases == {events, view}

\* The versions of the request are the stored ones.
Current(cal, e) ==
  /\ Exists(e)
  /\ cal[e] \notin {Unborn, Gone}
  /\ cal[e].version = events[e].version

CurrentException(cal, e, d) ==
  IF Excepted(events[e], d)
  THEN /\ Excepted(cal[e], d)
       /\ Exceptions(cal[e])[d].version = Exceptions(events[e])[d].version
  ELSE ~Excepted(cal[e], d)

Commit(e, row, announced) ==
  /\ events' = [events EXCEPT ![e] = row]
  /\ pending' = pending \cup announced
  /\ UNCHANGED <<clock, view, corpus>>

CreateEvent(e, p, rule) ==
  /\ events[e] = Unborn
  /\ ValuesOK(p) /\ RecurrenceOK(rule, p.date)
  /\ ~InPast(p)
  /\ LET series == IF rule = None THEN None ELSE SeriesRow(rule, p.date, NoExceptions)
         row    == EventRow(p, series, 1)
     IN  Commit(e, row, RagOccurrenceIds(e, row))

UpdateStandalone(cal, e, p) ==
  /\ Current(cal, e)
  /\ ~Recurs(events[e])
  /\ ValuesOK(p)
  /\ MayStand(p, EventSchedule(events[e]))
  /\ events[e].version < MaxVersion
  /\ Commit(e, EventRow(p, None, events[e].version + 1), {<<e, None>>})

DeleteStandalone(cal, e) ==
  /\ Current(cal, e)
  /\ ~Recurs(events[e])
  /\ Commit(e, Gone, {<<e, None>>})

\* The version the next snapshot of an occurrence gets.
SavedVersion(ev, d) == IF Excepted(ev, d) THEN Exceptions(ev)[d].version + 1 ELSE 1

\* Saves the snapshot x of one occurrence.
SaveException(e, d, x) ==
  LET ev == events[e]
  IN  /\ x.version + Cardinality(DOMAIN Exceptions(ev) \ {d}) <= MaxSaves
      /\ Commit(e, [ev EXCEPT !.series.exceptions =
                      [o \in DOMAIN Exceptions(ev) \cup {d} |->
                         IF o = d THEN x ELSE Exceptions(ev)[o]]],
                {<<e, d>>})

\* The occurrence a command names, under both versions.
NamesOccurrence(cal, e, d) ==
  /\ Current(cal, e)
  /\ Recurs(events[e])
  /\ SeriesOccursOn(events[e], d)
  /\ CurrentException(cal, e, d)

UpdateOccurrence(cal, e, d, p) ==
  /\ NamesOccurrence(cal, e, d)
  /\ ValuesOK(p)
  /\ MayStand(p, OccurrenceSchedule(events[e], d))
  /\ SaveException(e, d, Replacement(p, d, SavedVersion(events[e], d)))

DeleteOccurrence(cal, e, d) ==
  /\ NamesOccurrence(cal, e, d)
  /\ SaveException(e, d, Deletion(SavedVersion(events[e], d)))

InvalidAfterEnd(ev, rule, first) ==
  {d \in DOMAIN Exceptions(ev) : d < first \/ (rule.end # None /\ d > rule.end)}

\* Exceptions whose original date the new rule does not produce.
InvalidExceptions(ev, rule, first) ==
  {d \in DOMAIN Exceptions(ev) : ~OccursOn(rule, first, d)}

UpdateSeries(cal, e, p, rule, confirmed) ==
  /\ Current(cal, e)
  /\ Recurs(events[e])
  /\ rule # None
  /\ ValuesOK(p) /\ RecurrenceOK(rule, p.date)
  /\ MayStand(p, EventSchedule(events[e]))
  /\ events[e].version < MaxVersion
  /\ LET ev      == events[e]
         invalid == InvalidExceptions(ev, rule, p.date)
         kept    == [d \in DOMAIN Exceptions(ev) \ invalid |-> Exceptions(ev)[d]]
         row     == EventRow(p, SeriesRow(rule, p.date, kept), ev.version + 1)
     IN  /\ invalid # {} => confirmed
         /\ Commit(e, row, RagOccurrenceIds(e, ev) \cup RagOccurrenceIds(e, row))

DeleteSeries(cal, e) ==
  /\ Current(cal, e)
  /\ Recurs(events[e])
  /\ Commit(e, Gone, RagOccurrenceIds(e, events[e]))

-----------------------------------------------------------------------------
(* The search index. *)

FingerprintOfEvent(i) == <<i.id, i.date, i.eventVersion>>

Fingerprint(i) == <<i.id, i.date, i.eventVersion, i.exceptionVersion>>

\* Sources are loaded from the projection; an unchanged fingerprint is left alone.
Reconciled(ids) ==
  LET shown == {i \in Projected(events) : i.id \in ids}
      Doc(i) == IF /\ i.id \in DOMAIN corpus
                   /\ Fingerprint(corpus[i.id]) = Fingerprint(i) THEN corpus[i.id] ELSE i
  IN  [id \in (DOMAIN corpus \ ids) \cup {i.id : i \in shown} |->
         IF id \in ids THEN Doc(CHOOSE i \in shown : i.id = id) ELSE corpus[id]]

\* The job of the announced identities.
ReconcileTargets ==
  /\ pending # {}
  /\ corpus' = Reconciled(pending)
  /\ pending' = {}
  /\ UNCHANGED <<clock, events, view>>

\* A full traversal of the projection.
ReconcileAll ==
  /\ corpus' = Reconciled({i.id : i \in Projected(events)} \cup DOMAIN corpus)
  /\ UNCHANGED <<clock, events, view, pending>>

Next ==
  \/ Tick \/ Look
  \/ ReconcileTargets \/ ReconcileAll
  \/ \E e \in Events, p \in Payloads, rule \in Rules : CreateEvent(e, p, rule)
  \/ \E cal \in Bases, e \in Events :
       \/ DeleteStandalone(cal, e)
       \/ DeleteSeries(cal, e)
       \/ \E p \in Payloads : UpdateStandalone(cal, e, p)
       \/ \E d \in Originals : \/ DeleteOccurrence(cal, e, d)
                               \/ \E p \in Payloads : UpdateOccurrence(cal, e, d, p)
       \/ \E p \in Payloads, rule \in Rules, confirmed \in BOOLEAN :
            UpdateSeries(cal, e, p, rule, confirmed)

Spec == Init /\ [][Next]_vars

-----------------------------------------------------------------------------
(* What the tables and the response contracts demand of every row. *)

ScopeRowsFit(rows) ==
  /\ rows \subseteq {"all_academy"} \cup AgeGroups
  /\ "all_academy" \in rows => rows = {"all_academy"}

TimesFit(x) ==
  IF x.allDay THEN x.type = "miscellaneous" /\ x.hours = None
              ELSE x.hours # None /\ x.hours[1] < x.hours[2]

EventRowFits(ev) ==
  /\ ev.type \in EventTypes
  /\ TimesFit(ev)
  /\ ev.version >= 1

SeriesRowFits(series) ==
  /\ series.frequency \in Frequencies
  /\ series.termination \in Terminations
  /\ IF series.frequency = "weekly"
     THEN series.weekday \in 0 .. 6 /\ series.monthDay = None
     ELSE series.weekday = None /\ series.monthDay \in 1 .. 366
  /\ (series.termination = "end_date") = (series.end # None)
  /\ (series.termination = "occurrence_count") = (series.count # None)
  /\ series.count # None => series.count > 0

ExceptionRowFits(x) ==
  /\ x.version >= 1
  /\ IF x.deleted
     THEN x.type = None /\ x.allDay = None /\ x.hours = None
     ELSE x.type \in EventTypes /\ x.allDay \in BOOLEAN /\ TimesFit(x)

ExceptionScopesFit(x) == ScopeRowsFit(x.scopes) /\ (x.deleted = (x.scopes = {}))

InstanceFits(i) ==
  /\ ScopeOK(i.scope)
  /\ HoursOK(i.type, i.allDay, i.hours)
  /\ (i.id[2] # None) = (i.summary # None)
  /\ i.id[2] = None => i.exceptionVersion = None

\* Whatever the contracts accept fits the tables' constraints, and whatever is
\* stored can be returned: no accepted command can leave a calendar whose rows
\* the database refuses or whose range response cannot be built.
RowsFitTables ==
  \A e \in Events : Exists(e) =>
    LET ev == events[e]
    IN  /\ EventRowFits(ev) /\ ScopeRowsFit(ev.scopes) /\ ev.scopes # {}
        /\ Recurs(ev) => SeriesRowFits(ev.series)
        /\ \A d \in DOMAIN Exceptions(ev) :
             ExceptionRowFits(Exceptions(ev)[d]) /\ ExceptionScopesFit(Exceptions(ev)[d])
        /\ \A d \in Originals : \A i \in GetInstance(events, <<e, d>>) : InstanceFits(i)

\* Every variable has its type and every row meets its table's constraints.
TypeOK ==
  /\ clock \in Times
  /\ DOMAIN events = Events /\ DOMAIN view = Events
  /\ \A e \in Events, cal \in {events, view} : cal[e] \in {Unborn, Gone} \/ IsEvent(cal[e])
  /\ pending \subseteq Ids
  /\ \A id \in DOMAIN corpus : corpus[id] \in Instances /\ corpus[id].id = id
  /\ RowsFitTables

\* The two calendar rules of the data-quality scan.
EndsBeforeStart(ev) == ev.series.end # None /\ ev.series.end < ev.first

StaleExceptions(ev) ==
  IF EndsBeforeStart(ev) THEN {}
  ELSE {d \in DOMAIN Exceptions(ev) : ~SeriesOccursOn(ev, d)}

\* The derived columns of a series describe its first date, and every saved
\* exception still belongs to an occurrence of the rule, whatever series edits,
\* confirmed removals and occurrence edits came in between: the data-quality scan
\* finds nothing to report.
SeriesCoherent ==
  \A e \in Events : Exists(e) /\ Recurs(events[e]) =>
    LET ev == events[e]
    IN  /\ TerminationOK(ev.series, ev.first)
        /\ ev.series.weekday  \in {None, Weekday(ev.first)}
        /\ ev.series.monthDay \in {None, MonthDay(ev.first)}
        /\ \A d \in DOMAIN Exceptions(ev) : RuleMeans(ev.series, ev.first, d)
        /\ ~EndsBeforeStart(ev) /\ StaleExceptions(ev) = {}

\* What the calendar is, said occurrence by occurrence.
Shown(e, lo, hi) ==
  LET ev == events[e]
  IN  IF ~Exists(e) THEN {}
      ELSE IF ~Recurs(ev) THEN {i \in GetInstance(events, <<e, None>>) : i.date \in lo .. hi}
      ELSE {i \in UNION {GetInstance(events, <<e, d>>) :
                           d \in {x \in lo .. hi : RuleMeans(ev.series, ev.first, x)}
                                 \cup DOMAIN Exceptions(ev)} :
              i.date \in lo .. hi}

\* A range shows every occurrence the rule and its exceptions place in it, once
\* and as get_instance resolves it - but for those moved before the first date
\* of a series that begins after the range, which the load by first date drops.
RangesShowCalendar ==
  \A r \in Ranges :
    LET lo == r[1]
        hi == r[2]
        listed == GetRange(events, lo, hi)
    IN  /\ listed = UNION {Shown(e, lo, hi) : e \in LoadedFor(events, hi)}
        /\ \A i, j \in listed : i.id = j.id => i = j

\* The versions a client sends identify what it saw: while they are the stored
\* ones, the definition and the occurrence are as they were loaded, even when
\* exceptions were removed and saved again in between.
VersionsIdentifyContent ==
  \A e \in Events : Current(view, e) =>
    LET old == view[e]
        new == events[e]
    IN  /\ Recurs(old) = Recurs(new)
        /\ EventSchedule(old) = EventSchedule(new)
        /\ old.type = new.type /\ old.scopes = new.scopes
        /\ DOMAIN Exceptions(old) \subseteq DOMAIN Exceptions(new)
        /\ \A d \in DOMAIN Exceptions(old) :
             Exceptions(old)[d].version = Exceptions(new)[d].version
               => Exceptions(old)[d] = Exceptions(new)[d]

Content(i) == <<i.date, i.type, i.allDay, i.hours, i.scope, i.summary>>

\* An indexed occurrence that is still ahead shows what the calendar shows, or
\* its reconciliation is under way: no mutation forgets to announce an
\* occurrence it changed, and no fingerprint hides a change.
CorpusNeverStale ==
  LET projected == Projected(events) IN
  \A id \in DOMAIN corpus \ pending :
    \/ corpus[id].date < clock.day
    \/ \E i \in projected : i.id = id /\ Content(i) = Content(corpus[id])
=============================================================================
