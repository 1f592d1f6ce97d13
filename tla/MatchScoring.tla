---------------------------- MODULE MatchScoring ----------------------------
(***************************************************************************)
(* The scoring commands of one Match, from                                 *)
(* backend/src/services/scoring/service.py.  A command runs in one         *)
(* transaction that holds the Match row lock, so each is one action; a     *)
(* command the code refuses rolls back and changes nothing, so it is not a *)
(* step.  The match is the row [version, life, cap, rosters, result]; an   *)
(* innings is its row with its history and its persisted projection.       *)
(*                                                                         *)
(* A scorer sends the versions it last read.  views[v] holds the innings   *)
(* versions at match version v, so a request composed at any earlier time  *)
(* is one whose versions are those of an earlier view.                     *)
(***************************************************************************)
EXTENDS ScoringReplay

CONSTANTS
  Configurations,  \* the configuration payloads, [request, rosters]
  Openings,        \* the opening selections tried, as positions in the orders
  Observations,    \* what is seen of a delivery, whoever plays it
  Bounds(_)        \* [balls, corrections, retirements], the bounds of a capability

\* A number the schemas let a request leave out, but not be zero.
Optional == (Nat \ {0}) \cup {None}

\* What the request schemas admit of a configuration; a participant is somebody.
ASSUME ConfigurationsAssumption ==
  \A c \in Configurations :
    /\ c.request \in
         [profile : Profiles, sequence : Seq(Sides), limit : Optional, quota : Optional,
          over : Nat \ {0}, wickets : Nat \ {0}, perSide : Nat, noConsecutive : BOOLEAN,
          dismissals : SUBSET DismissalTypes, transitions : SUBSET Retirements,
          boundary : {"none", "after_completed_innings", "any_nonterminal_state"}]
    /\ \A side \in Sides :
         /\ c.rosters[side] \in Seq(ToSet(c.rosters[side]))
         /\ None \notin ToSet(c.rosters[side])

\* What they admit of a delivery: who is out and who fielded are positions.
ASSUME ObservationsAssumption ==
  Observations \subseteq
    [bat : Nat, wide : Nat, noBall : Nat, bye : Nat, legBye : Nat, penalty : Nat,
     kind : DismissalTypes \cup {None}, end : {"striker_end", "non_striker_end", None},
     out : {"striker", "nonStriker"},
     by : Seq([who : Nat, role : RunOutRoles \cup {"bowler", "catcher"}])]

VARIABLES
  match,      \* the Match row with its locked policy and participants
  innings,    \* the innings in order
  refreshes,  \* the match versions a scoring refresh was staged for
  views,      \* the innings versions at every match version so far
  lastSaw     \* the match version the last accepted request was composed at

vars == <<match, innings, refreshes, views, lastSaw>>

cap == match.cap

-----------------------------------------------------------------------------
(* Reading the rows. *)

BattingOrder(inn)  == match.rosters[inn.side]
FieldingOrder(inn) == match.rosters[Opposite(inn.side)]
Batters(inn)       == ToSet(BattingOrder(inn))
Fielders(inn)      == ToSet(FieldingOrder(inn))

\* The active revision of every attempt is its last one.
ActiveFacts(inn) == [n \in DOMAIN inn.deliveries |-> Last(inn.deliveries[n])]

\* _replay_input.
Source(inn) ==
  [side |-> inn.side, batters |-> Batters(inn), fielders |-> Fielders(inn),
   openers |-> inn.openers, deliveries |-> ActiveFacts(inn),
   transitions |-> inn.transitions]

States     == [k \in DOMAIN innings |-> innings[k].state]
MatchRuns  == FoldLeft(+, 0, [k \in DOMAIN innings |-> innings[k].state.runs])
BallsSoFar == FoldLeft(+, 0, [k \in DOMAIN innings |-> Len(innings[k].deliveries)])
Corrections ==
  FoldLeft(+, 0, [k \in DOMAIN innings |->
     FoldLeft(+, 0, [n \in DOMAIN innings[k].deliveries |->
        Len(innings[k].deliveries[n]) - 1])])
RetirementsSoFar ==
  FoldLeft(+, 0, [k \in DOMAIN innings |->
     Len(SelectSeq(innings[k].transitions, LAMBDA t : t.kind \in Retirements))])

\* _require_progression.
Progresses ==
  /\ match.life \in {"scheduled", "in_progress"}
  /\ \A k \in DOMAIN innings : innings[k].state.life # "reconciliation_required"

InProgress(k) ==
  match.life = "in_progress" /\ innings[k].state.life = "in_progress"

-----------------------------------------------------------------------------
(* Writing the rows. *)

\* persist_innings_projection: the read model is replaced as a whole.
Persisted(inn, s, life) ==
  [inn EXCEPT !.state = s, !.block = InningsBlocking(cap, Source(inn), s, life),
              !.revision = @ + 1]

\* _replay_orm: the history of a live innings must replay to its end.
Live(inn) == ReplayInnings(cap, Source(inn), inn.state.target, None)

\* Every accepted request leaves the versions it produced, and is remembered
\* with the match version its author had seen.
Seen(saw) ==
  /\ views' = Append(views, [k \in DOMAIN innings' |-> innings'[k].version])
  /\ lastSaw' = saw

\* Mutant: a claim that trusts the lock and forgets the version of the request.
ClaimsUnversioned(k, saw) == Progresses /\ k \in DOMAIN views[saw]

\* _claim_innings_version: the match version just read under the lock, and the
\* innings version of the request.
Claims(k, saw) ==
  /\ Progresses
  /\ k \in DOMAIN views[saw]
  /\ views[saw][k] = innings[k].version

ClaimsMatch(saw) == saw = match.version

\* Mutant: a write that leaves the version alone.
KeepVersion(row) == row

NextVersion(row) == [row EXCEPT !.version = @ + 1]

\* _ordered_innings: only the last innings may be incomplete.
Ordered == \A k \in DOMAIN innings : k < Len(innings) => innings[k].state.life = "completed"

\* _finish_derived_match after innings k became s.
Finished(k, s) ==
  LET result == DeriveResult(cap, [States EXCEPT ![k] = s], "in_progress", Pending)
  IN [NextVersion(match) EXCEPT !.result = result, !.life = MatchLife(result)]

\* An accepted change of a live innings, once its version is claimed: replayed
\* and persisted.  An innings that completes is followed by the derived result
\* of the match.  The code derives it where an innings can complete, after a
\* delivery and a completion; the choice of a batter or bowler and a retirement
\* complete none.
Advances(k, changed, saw) ==
  \E s \in {Live(changed)} :
    /\ ~Fails(s)
    /\ innings' = [innings EXCEPT ![k] = Persisted(NextVersion(changed), s, match.life)]
    /\ \/ /\ s.life = "completed" /\ Ordered
          /\ \E finished \in {Finished(k, s)} :
               /\ ResultAllowed(cap, finished.result)
               /\ match' = finished
               /\ refreshes' = IF finished.life = "completed"
                               THEN refreshes \cup {match.version + 1} ELSE refreshes
       \/ s.life # "completed" /\ match' = NextVersion(match) /\ UNCHANGED refreshes
    /\ Seen(saw)

Recorded(inn, kind, who, mode) ==
  [inn EXCEPT !.transitions = Append(@, [kind |-> kind, who |-> who, mode |-> mode,
                                         anchor |-> Len(inn.deliveries)])]

-----------------------------------------------------------------------------
(* Configuration and the start of an innings. *)

\* MatchConfigurationRequest.validate_configuration.
ConfigurationAccepted(payload) ==
  /\ RequestAccepted(payload.request)
  /\ \A side \in Sides : payload.rosters[side] # <<>> /\ IsInjective(payload.rosters[side])
  /\ ToSet(payload.rosters["home"]) \cap ToSet(payload.rosters["away"]) = {}

ConfigureMatch(payload, saw) ==
  /\ cap = None /\ match.life = "scheduled"
  /\ ConfigurationAccepted(payload)
  /\ Resolvable(payload.request)
  /\ ToSet(payload.request.sequence) = Sides
  /\ ClaimsMatch(saw)
  /\ match' = [NextVersion(match) EXCEPT !.cap = ResolveCapability(payload.request),
                                         !.rosters = payload.rosters]
  /\ UNCHANGED <<innings, refreshes>>
  /\ Seen(saw)

\* validate_innings_selections for the openers.
OpenersFit(o, batters, fielders) ==
  o.striker \in batters /\ o.nonStriker \in batters /\ o.striker # o.nonStriker
    /\ o.bowler \in fielders

StartInnings(opening, saw) ==
  LET k      == Len(innings) + 1
      side   == cap.sequence[k]
      order  == match.rosters[side]
      field  == match.rosters[Opposite(side)]
      openers == [striker |-> order[opening.striker],
                  nonStriker |-> order[opening.nonStriker],
                  bowler |-> field[opening.bowler]]
      target == Target(cap, k, States)
      fresh  == Opening(cap, ToSet(order), ToSet(field), openers, target)
      started == [side |-> side, version |-> 1, openers |-> openers,
                  deliveries |-> <<>>, transitions |-> <<>>, state |-> fresh,
                  block |-> "none", revision |-> 0,
                  links |-> [p \in ToSet(order) |-> 0]]
  IN
  /\ ClaimsMatch(saw)
  /\ cap # None
  /\ Progresses
  /\ k <= Len(cap.sequence)
  /\ k > 1 => innings[k - 1].state.life = "completed"
  /\ {opening.striker, opening.nonStriker} \subseteq DOMAIN order
  /\ opening.bowler \in DOMAIN field
  /\ OpenersFit(openers, ToSet(order), ToSet(field))
  /\ target # None => target <= RunMax
  /\ match' = [NextVersion(match) EXCEPT !.life = "in_progress"]
  /\ innings' = Append(innings, Persisted(started, Live(started), "in_progress"))
  /\ UNCHANGED refreshes
  /\ Seen(saw)

-----------------------------------------------------------------------------
(* Deliveries. *)

\* What was observed, with the people who were there.
FactsOf(o, s, field) ==
  [striker |-> s.striker, nonStriker |-> s.nonStriker, bowler |-> s.bowler,
   bat |-> o.bat, wide |-> o.wide, noBall |-> o.noBall, bye |-> o.bye,
   legBye |-> o.legBye, penalty |-> o.penalty,
   wicket |-> IF o.kind = None THEN None
              ELSE [kind |-> o.kind, end |-> o.end,
                    out |-> IF o.out = "striker" THEN s.striker ELSE s.nonStriker,
                    fielders |-> [n \in DOMAIN o.by |->
                      [who  |-> IF o.by[n].who = 0 THEN s.bowler ELSE field[o.by[n].who],
                       role |-> o.by[n].role]]]]

\* validate_innings_selections: the authoritative selections, all present.
SelectionsComplete(s) == None \notin {s.striker, s.nonStriker, s.bowler}

AppendDelivery(k, o, saw) ==
  LET inn     == innings[k]
      f       == FactsOf(o, inn.state, FieldingOrder(inn))
      c       == Classify(f, inn.state.legal, cap.over)
      n       == Len(inn.deliveries) + 1
      changed == [inn EXCEPT !.deliveries = Append(@, <<f>>),
                             !.links = IF f.wicket = None THEN @
                                       ELSE [@ EXCEPT ![f.wicket.out] = n]]
  IN
  /\ InProgress(k) /\ Claims(k, saw)
  /\ BallsSoFar < Bounds(cap).balls
  /\ SelectionsComplete(inn.state)
  /\ FactsShape(f)
  /\ WicketFits(f, Fielders(inn), cap)
  /\ RunsFit(c.total, inn.state.runs) /\ RunsFit(c.total, MatchRuns)
  /\ MayBowl(inn.state, f, c, cap, Fielders(inn))
  /\ Advances(k, changed, saw)

-----------------------------------------------------------------------------
(* Transitions. *)

ActiveBatters(s) == {s.striker, s.nonStriker} \ {None}
\* Mutant: only a retirement leaves a vacancy.
VacatedByRetirement == {"retired_hurt", "retired_out"}
Vacated == {"dismissed", "retired_hurt", "retired_out"}

\* What select_next_batter requires of the vacancy and of the candidate.
BatterMayFollow(s, who, replaced) ==
  /\ Cardinality(ActiveBatters(s)) = 1
  /\ replaced \notin ActiveBatters(s)
  /\ s.people[replaced].state \in Vacated
  /\ s.people[who].state = "not_batted"

SelectNextBatter(k, who, replaced, saw) ==
  /\ innings[k].state.life = "in_progress" /\ Claims(k, saw)
  /\ {who, replaced} \subseteq Batters(innings[k])
  /\ BatterMayFollow(innings[k].state, who, replaced)
  /\ Advances(k, Recorded(innings[k], "next_batter", who, None), saw)

CompletedBowlers(s) ==
  LET done == SelectSeq(s.overs, LAMBDA v : v.complete)
  IN [n \in DOMAIN done |-> done[n].bowler]

\* The last of them, or nobody: the one whom next_bowler_options lets rest.
LastBowler(s) ==
  LET done == {n \in DOMAIN s.overs : s.overs[n].complete}
  IN IF done = {} THEN None ELSE s.overs[Max(done)].bowler

\* The candidate check of select_next_bowler, from the persisted projection.
BowlerMayFollow(s, who, fielders) ==
  Ineligibility(cap, who, fielders, Balls(s), LastBowler(s)) = None

Suggestion(inn) ==
  SuggestedBowler(cap, FieldingOrder(inn), Balls(inn.state), CompletedBowlers(inn.state))

SelectNextBowler(k, who, overrides, saw) ==
  LET inn == innings[k] IN
  /\ InProgress(k) /\ Claims(k, saw)
  /\ inn.state.bowler = None /\ inn.state.legal # 0 /\ inn.state.legal % cap.over = 0
  /\ who \in Fielders(inn) /\ BowlerMayFollow(inn.state, who, Fielders(inn))
  /\ overrides \/ who = Suggestion(inn)
  /\ Advances(k, Recorded(inn, "next_bowler", who, None), saw)

\* _retirement_transition.
RetirementFits(s, kind, who) ==
  \/ kind = "retired_hurt" /\ who \in ActiveBatters(s)
  \/ /\ kind = "retired_hurt_return"
     /\ s.people[who].state = "retired_hurt" /\ None \in {s.striker, s.nonStriker}

RetirementTransition(k, kind, who, saw) ==
  /\ innings[k].state.life = "in_progress" /\ Claims(k, saw)
  /\ RetirementsSoFar < Bounds(cap).retirements
  /\ kind \in cap.transitions
  /\ who \in Batters(innings[k]) /\ RetirementFits(innings[k].state, kind, who)
  /\ Advances(k, Recorded(innings[k], kind, who, None), saw)
-----------------------------------------------------------------------------
(* Completion. *)

\* The mode a recorded completion replays with.  In a test match
\* _completion_kind_from_history first counts the wickets there were: never the
\* limit, as only an innings without an automatic reason to end is recorded.
RecordedMode == IF cap.profile = "test" THEN "declaration" ELSE "manual"

CompleteInnings(k, mode, saw) ==
  LET inn == innings[k] IN
  /\ Claims(k, saw) /\ Ordered
  /\ k = Len(innings) /\ inn.state.life = "in_progress"
  /\ mode \in cap.modes
  /\ \E automatic \in {Live(inn).reason} :
       /\ mode \in ExplicitModes <=> automatic = None
       /\ Advances(k, IF automatic = None
                      THEN Recorded(inn, "innings_completed", None, RecordedMode) ELSE inn,
                   saw)

\* The locked boundary an explicit outcome waits for.
AtBoundary ==
  \/ cap.boundary = "any_nonterminal_state"
  \/ /\ cap.boundary = "after_completed_innings"
     /\ innings # <<>> /\ Last(innings).state.life = "completed"

\* The outcome complete_match records, or pending if it must refuse.
Outcome(kind) ==
  LET derived == DeriveResult(cap, States, "in_progress", Pending) IN
  CASE kind = "abandonment"    -> DeriveResult(cap, States, "abandoned", Pending)
    [] kind = "derived_result" -> derived
    [] kind \in ExplicitResults ->
         IF derived = Pending /\ AtBoundary
         THEN DeriveResult(cap, States, "completed", Result(kind, None, 0))
         ELSE Pending

CompleteMatch(kind, saw) ==
  /\ ClaimsMatch(saw)
  /\ cap # None
  /\ Progresses /\ Ordered
  /\ kind \in cap.matchModes
  /\ Outcome(kind) # Pending
  /\ ResultAllowed(cap, Outcome(kind))
  /\ match' = [NextVersion(match) EXCEPT
                 !.result = Outcome(kind),
                 !.life   = IF kind = "abandonment" THEN "abandoned" ELSE "completed"]
  /\ refreshes' = refreshes \cup {match.version + 1}
  /\ UNCHANGED innings
  /\ Seen(saw)

-----------------------------------------------------------------------------
(* Correction. *)

\* The actors of attempt n, after the attempts before it and their transitions: a
\* replacement with others is refused by the replay.
ActorsAt(k, n) ==
  LET before == [Source(innings[k]) EXCEPT !.deliveries = SubSeq(@, 1, n - 1)]
  IN ReplayInnings(cap, before, innings[k].state.target, None)

\* The match sources with the active facts of attempt n of innings k replaced.
Replaced(k, n, f) ==
  [i \in DOMAIN innings |->
     IF i = k THEN [Source(innings[i]) EXCEPT !.deliveries[n] = f]
     ELSE Source(innings[i])]

\* Every observed total is bounded, history beyond a conflict included.
ObservedRunsFit(sources) ==
  FoldLeft(+, 0, [i \in DOMAIN sources |->
     FoldLeft(+, 0, [n \in DOMAIN sources[i].deliveries |->
        TotalOf(sources[i].deliveries[n])])]) <= RunMax

\* The bounds replay_match checks of what it rebuilt.
RebuiltRunsFit(states) ==
  /\ \A i \in DOMAIN states : states[i].target # None => states[i].target <= RunMax
  /\ FoldLeft(+, 0, [i \in DOMAIN states |-> states[i].runs]) <= RunMax

\* The dismissal links are those of the compatible active stream.
Links(inn, s) ==
  [p \in DOMAIN inn.links |->
     LET out == {n \in DOMAIN s.applied : s.applied[n].out = p}
     IN IF out = {} THEN 0 ELSE Max(out)]

\* A revision supersedes the last one; none is rewritten.
Revised(inn, n, f) == [inn EXCEPT !.deliveries[n] = Append(@, f)]

\* A correction that changes nothing but notes stages no refresh.
\* Mutant: only a change of the runs is announced.
MaterialRuns(before, after) == TotalOf(before) # TotalOf(after)
Material(before, after)     == before # after

\* Every innings is replaced by its replay, and only innings k by a revision.
Rebuilt(inn, s, result) ==
  [Persisted(NextVersion(inn), s, MatchLife(result)) EXCEPT !.links = Links(inn, s)]

\* The match is replayed with f for attempt n of innings k.
Rebuilds(k, n, f, states, saw) ==
  \E result \in {DeriveResult(cap, states, match.life, match.result)} :
    /\ \A i \in DOMAIN states : ~Fails(states[i])
    /\ Len(states[k].applied) >= n
    /\ RebuiltRunsFit(states)
    /\ ResultAllowed(cap, result)
    /\ match' = [NextVersion(match) EXCEPT !.life = MatchLife(result), !.result = result]
    /\ innings' = [i \in DOMAIN innings |->
         Rebuilt(IF i = k THEN Revised(innings[k], n, f) ELSE innings[i], states[i], result)]
    /\ refreshes' = IF Material(Last(innings[k].deliveries[n]), f)
                    THEN refreshes \cup {match.version + 1} ELSE refreshes
    /\ Seen(saw)

SourcesFit(sources) ==
  /\ \A i \in DOMAIN sources : \A m \in DOMAIN sources[i].deliveries :
       WicketFits(sources[i].deliveries[m], sources[i].fielders, cap)
  /\ ObservedRunsFit(sources)

CorrectDelivery(k, n, o, saw) ==
  /\ match.life \in {"in_progress", "completed"}
  /\ ClaimsMatch(saw) /\ views[saw][k] = innings[k].version
  /\ Corrections < Bounds(cap).corrections
  /\ n \in DOMAIN innings[k].deliveries
  /\ \E at \in {ActorsAt(k, n)} :
       /\ SelectionsComplete(at)
       /\ \E f \in {FactsOf(o, at, FieldingOrder(innings[k]))} :
            /\ FactsShape(f)
            /\ \E sources \in {Replaced(k, n, f)} :
                 /\ SourcesFit(sources)
                 /\ \E states \in {ReplayMatch(cap, sources, k, n)} :
                      Rebuilds(k, n, f, states, saw)

-----------------------------------------------------------------------------
(* What a reader is told: _match_blocking_response of the scorecard. *)

MatchBlock ==
  LET stuck  == {k \in DOMAIN innings : innings[k].state.life = "reconciliation_required"}
      active == {k \in DOMAIN innings : innings[k].state.life = "in_progress"}
  IN CASE match.life = "abandoned" -> "match_abandoned"
       [] match.life = "completed" -> "match_completed"
       [] match.life \notin {"abandoned", "completed"} ->
            IF stuck # {} THEN innings[Min(stuck)].block
            ELSE IF active # {} THEN innings[Max(active)].block
            ELSE IF cap # None /\ Len(innings) < Len(cap.sequence)
            THEN "innings_not_started" ELSE "none"

-----------------------------------------------------------------------------
(* The specification. *)

Init ==
  /\ match = [version |-> 1, life |-> "scheduled", cap |-> None, rosters |-> <<>>,
              result |-> Pending]
  /\ innings = <<>> /\ refreshes = {}
  /\ views = << <<>> >> /\ lastSaw = 1

Versions == 1..match.version

Next ==
  \/ \E c \in Configurations, saw \in Versions : ConfigureMatch(c, saw)
  \/ \E o \in Openings, saw \in Versions : StartInnings(o, saw)
  \/ \E k \in DOMAIN innings, o \in Observations, saw \in Versions :
       AppendDelivery(k, o, saw)
  \/ \E k \in DOMAIN innings, saw \in Versions :
       \E who, replaced \in Batters(innings[k]) :
         SelectNextBatter(k, who, replaced, saw)
  \/ \E k \in DOMAIN innings, overrides \in BOOLEAN, saw \in Versions :
       \E who \in Fielders(innings[k]) : SelectNextBowler(k, who, overrides, saw)
  \/ \E k \in DOMAIN innings, kind \in Retirements, saw \in Versions :
       \E who \in Batters(innings[k]) : RetirementTransition(k, kind, who, saw)
  \/ \E k \in DOMAIN innings, saw \in Versions :
       \E mode \in AutomaticModes \cup ExplicitModes : CompleteInnings(k, mode, saw)
  \/ \E saw \in Versions :
       \E kind \in ExplicitResults \cup {"derived_result", "abandonment"} :
         CompleteMatch(kind, saw)
  \/ \E k \in DOMAIN innings, o \in Observations, saw \in Versions :
       \E n \in DOMAIN innings[k].deliveries : CorrectDelivery(k, n, o, saw)

Spec == Init /\ [][Next]_vars
-----------------------------------------------------------------------------
(* What an auditor sees: the inspection of DataQualityService.             *)

\* The Match lifecycle and its result code.
LifecycleDisagrees ==
  \/ match.life = "completed" /\ match.result.code = "pending"
  \/ match.life = "abandoned" /\ match.result.code # "no_result"
  \/ match.life \in {"scheduled", "in_progress"} /\ match.result.code # "pending"

OutsideItsSide(inn) ==
  \E n \in DOMAIN inn.deliveries :
    LET f == Last(inn.deliveries[n]) IN
    \/ ~{f.striker, f.nonStriker} \subseteq Batters(inn) \/ f.bowler \notin Fielders(inn)
    \/ /\ f.wicket # None
       /\ \/ f.wicket.out \notin {f.striker, f.nonStriker}
          \/ \E m \in DOMAIN f.wicket.fielders : f.wicket.fielders[m].who \notin Fielders(inn)

FieldersMiscount(inn) ==
  \E n \in DOMAIN inn.deliveries :
    LET w == Last(inn.deliveries[n]).wicket IN w # None /\ ~WicketShape(w)

OversBreakPolicy(inn) ==
  \/ FoldLeft(+, 0, [n \in DOMAIN inn.state.overs |-> inn.state.overs[n].legal])
       # inn.state.legal
  \/ \E n \in DOMAIN inn.state.overs :
       \/ inn.state.overs[n].legal > cap.over
       \/ inn.state.overs[n].complete /\ inn.state.overs[n].legal # cap.over
  \/ cap.quota # None /\ \E p \in DOMAIN inn.state.people : Balls(inn.state)[p] > cap.quota

\* innings_projection_matches compares these and nothing else.
Compared(s) ==
  <<s.runs, s.legal, s.wickets, s.striker, s.nonStriker, s.bowler, s.target, s.extras,
    s.falls, s.overs, s.people>>

Differs(replayed, stored) == ~Fails(replayed) /\ Compared(replayed) # Compared(stored)

Audited(inn) == inn.state.life # "reconciliation_required"

InningsIssues(inn) ==
  {issue \in {"identity", "cardinality", "reconciliation", "lifecycle", "quota",
              "mismatch", "malformed"} :
     CASE issue = "identity"       -> OutsideItsSide(inn)
       [] issue = "cardinality"    -> FieldersMiscount(inn)
       [] issue = "reconciliation" -> ~Audited(inn)
       [] issue = "lifecycle"      -> (inn.state.life = "completed") # (inn.state.reason # None)
       [] issue = "quota"          -> OversBreakPolicy(inn)
       [] issue = "mismatch"       -> Audited(inn) /\ Differs(Live(inn), inn.state)
       [] issue = "malformed"      -> Audited(inn) /\ Fails(Live(inn))}

-----------------------------------------------------------------------------
(* What the schema refuses: the CHECK and UNIQUE constraints of the tables  *)
(* a command writes.  An accepted command that broke one would fail at its  *)
(* flush, after every guard of the service had let it through.              *)

PolicyRowFits ==
  /\ cap.limit # None => cap.limit >= 1
  /\ cap.quota # None => cap.quota >= 1
  /\ Len(cap.sequence) >= 2
  /\ {} \notin {cap.dismissals, cap.modes, cap.matchModes, cap.results}
  /\ cap.profile = "one_day" =>
       /\ cap.limit % Std.dayUnit = 0 /\ cap.over = Std.over
       /\ cap.quota = cap.limit \div Std.divisor /\ cap.wickets = Std.wickets
  /\ cap.profile = "T20" =>
       /\ Len(cap.sequence) = 2 /\ cap.limit = Std.t20Limit /\ cap.over = Std.over
       /\ cap.quota = Std.t20Quota /\ cap.wickets = Std.wickets
       /\ cap.noConsecutive /\ cap.chase /\ cap.boundary = "none"
  /\ cap.profile = "test" =>
       /\ Len(cap.sequence) = 4 /\ cap.limit = None /\ cap.over = Std.over
       /\ cap.quota = None /\ cap.wickets = Std.wickets
       /\ cap.noConsecutive /\ ~cap.chase /\ cap.boundary = "after_completed_innings"

\* One position and one match entry per participant.
ParticipantRowsFit ==
  /\ \A side \in Sides : match.rosters[side] # <<>> /\ IsInjective(match.rosters[side])
  /\ Cardinality(ToSet(match.rosters["home"]) \cup ToSet(match.rosters["away"]))
       = Len(match.rosters["home"]) + Len(match.rosters["away"])

InningsRowFits(inn) ==
  LET s == inn.state IN
  /\ s.striker # s.nonStriker \/ s.striker = None
  /\ s.runs \in 0..RunMax /\ s.legal >= 0 /\ s.wickets >= 0
  /\ s.target # None => s.target \in 1..RunMax
  /\ s.reason \in AutomaticModes \cup ExplicitModes \cup {None}
  /\ s.life = "reconciliation_required" => s.halted # None

\* A batting entry: one per side member, its dismissal one of the attempts.
EntryRowsFit(inn) ==
  \A p \in Batters(inn) :
    /\ inn.state.people[p].state \in {"not_batted", "active", "dismissed", "retired_hurt",
                                     "retired_out", "completed"}
    /\ inn.links[p] \in DOMAIN inn.deliveries \cup {0}

RevisionRowFits(inn, f) ==
  LET c == Classify(f, 0, cap.over) IN
  /\ {f.striker, f.nonStriker} \subseteq Batters(inn) /\ f.bowler \in Fielders(inn)
  /\ f.striker # f.nonStriker
  /\ {f.bat, f.wide, f.bye, f.legBye, f.penalty} \subseteq 0..RunMax /\ f.noBall \in 0..1
  /\ ~(f.bye > 0 /\ f.legBye > 0) /\ ~(f.wide > 0 /\ f.noBall > 0)
  /\ {c.total, c.completed, c.conceded} \subseteq 0..RunMax
  /\ c.total = f.bat + ExtrasOf(f) /\ c.legal = (f.wide = 0 /\ f.noBall = 0)

WicketRowFits(w) ==
  /\ w.kind \in DismissalTypes
  /\ w.kind = "run_out" <=> w.end # None
  /\ w.end \in {None, "striker_end", "non_striker_end"}

FielderRowsFit(w) ==
  /\ IsInjective(w.fielders)
  /\ \A n \in DOMAIN w.fielders :
       w.fielders[n].role \in RunOutRoles \cup {"bowler", "catcher"}

OverRowFits(v) ==
  v.legal >= 0 /\ v.runs \in 0..RunMax /\ v.conceded \in 0..RunMax /\ v.wickets >= 0

SummaryRowFits(p) ==
  /\ p.how \in DismissalTypes \cup {None}
  /\ {p.runs, p.conceded} \subseteq 0..RunMax
  /\ {p.faced, p.fours, p.sixes, p.bowled, p.taken, p.wides, p.noBalls,
      p.dismissals} \subseteq Nat

\* The per-match performance repeats the summary and counts the fielding.
PerformanceRowFits(p) ==
  {p.catches, p.stumpings, p.runOuts} \subseteq 0..p.dismissals

TransitionRowFits(t) ==
  t.kind \in Retirements \cup {"next_batter", "next_bowler", "innings_completed"}

-----------------------------------------------------------------------------
(* The properties. *)

TypeOK ==
  /\ match.version \in Nat \ {0}
  /\ match.life \in {"scheduled", "in_progress", "completed", "abandoned"}
  /\ match.result.winner \in Sides \cup {None} /\ match.result.margin \in Nat
  /\ Len(views) = match.version /\ refreshes \subseteq Versions /\ lastSaw \in Versions
  /\ innings # <<>> => cap # None
  /\ \A k \in DOMAIN innings :
       /\ innings[k].side = cap.sequence[k] /\ innings[k].version \in Nat \ {0}
       /\ innings[k].state.life \in {"in_progress", "completed", "reconciliation_required"}
       /\ ~Fails(innings[k].state)

\* Every stored innings is what its active history replays to: the audit of
\* the scoring graph can only ever report an innings left for reconciliation,
\* with or without a completion reason.  A batter's link names the active
\* delivery that dismissed that batter, and nobody out is without one.
StoredScoreIsReplay ==
  /\ ~LifecycleDisagrees
  /\ \A k \in DOMAIN innings :
       InningsIssues(innings[k]) \subseteq
         IF Audited(innings[k]) THEN {} ELSE {"reconciliation", "lifecycle"}
  /\ \A k \in DOMAIN innings : \A p \in DOMAIN innings[k].links :
       LET inn == innings[k]
           n   == inn.links[p] IN
       /\ n = 0 <=> inn.state.people[p].how = None
       /\ n # 0 => Last(inn.deliveries[n]).wicket.out = p

\* An accepted command was composed at the current match version, although
\* most commands carry only the version of their innings: a scorer never
\* changes a match that moved after the scorer last read it.
StaleNeverCommits == [][lastSaw' = match.version]_<<match, innings>>

\* The score adds up three ways: by batters and extras, by overs, and by
\* bowlers and the runs no bowler concedes.  And no correction leaves an over
\* with two bowlers, a bowler past the quota, or one bowler in two overs running.
ScorecardBalances ==
  \A k \in DOMAIN innings :
    LET s       == innings[k].state
        sum(fd) == MapThenSumSet(LAMBDA p : s.people[p][fd], DOMAIN s.people)
        over(fd) == FoldLeft(+, 0, [n \in DOMAIN s.overs |-> s.overs[n][fd]])
        x       == s.extras
    IN
    /\ s.runs = sum("runs") + x.wide + x.noBall + x.bye + x.legBye + x.penalty
    /\ s.runs = over("runs")
    /\ s.runs = sum("conceded") + x.bye + x.legBye + x.penalty
    /\ s.legal = sum("bowled") /\ s.legal = sum("faced") /\ over("conceded") = sum("conceded")
    /\ s.wickets = over("wickets") /\ s.wickets = Len(s.falls)
    /\ s.wickets = Cardinality({p \in DOMAIN s.people : s.people[p].how # None})
    /\ cap.noConsecutive =>
         \A n \in 2..Len(s.overs) : s.overs[n].bowler # s.overs[n - 1].bowler
    /\ cap.quota # None => \A p \in DOMAIN s.people : Balls(s)[p] <= cap.quota
    /\ \A n \in DOMAIN s.applied :
         Last(innings[k].deliveries[n]).bowler = s.overs[s.applied[n].over + 1].bowler

\* A result is never stale: a decided match has every innings it needs, its
\* winner leads by the margin recorded, and a chase that was won reached its
\* target, on the last innings and with the wickets recorded in hand: none, if
\* the winning run cost the last one.
ResultFollowsInnings ==
  match.result.code \in {"win_by_runs", "win_by_wickets", "tie"} =>
    LET lead(side) == SideTotal(cap, States, side) - SideTotal(cap, States, Opposite(side))
        last == innings[Len(innings)].state
    IN
    /\ AllComplete(States) /\ Len(innings) = Len(cap.sequence)
    /\ match.result.code = "tie" => lead("home") = 0
    /\ match.result.winner # None => lead(match.result.winner) > 0
    /\ match.result.code = "win_by_runs" => lead(match.result.winner) = match.result.margin
    /\ match.result.code = "win_by_wickets" =>
         /\ last.runs >= last.target /\ match.result.winner = innings[Len(innings)].side
         /\ match.result.margin = cap.wickets - last.wickets

\* A side that has a batter for every wicket it may lose; one in which, whoever
\* must rest, the others have the overs left; a quota that ends in mid-over.
FullSide(inn)   == Cardinality(Batters(inn)) > cap.wickets
CanBowlOut(inn) ==
  LET others == Cardinality(Fielders(inn)) - 1
  IN  others > 0 /\ (cap.quota # None => cap.limit <= cap.quota * others)
QuotaSplitsOver == cap.quota # None /\ cap.quota % cap.over # 0

\* Nothing but a correction is accepted exactly when the match shows it, and an
\* innings may be started exactly when it waits for one.
MatchBlockTrue ==
  /\ MatchBlock = "reconciliation_required" <=> ~Progresses
  /\ MatchBlock = "innings_not_started" <=>
       /\ Len(innings) < Len(cap.sequence)
       /\ AllComplete(States) \/ innings = <<>>

\* What is accepted next of a live innings, by the block it shows.
InningsBlockAnswered(inn) ==
  LET s == inn.state
      batterMayCome ==
        \E who, replaced \in Batters(inn) : BatterMayFollow(s, who, replaced)
      batterMayReturn ==
        /\ "retired_hurt_return" \in cap.transitions
        /\ \E who \in Batters(inn) : RetirementFits(s, "retired_hurt_return", who)
      bowlerMayCome ==
        /\ s.legal # 0 /\ s.legal % cap.over = 0
        /\ \E who \in Fielders(inn) : BowlerMayFollow(s, who, Fielders(inn))
      bowlerMayGoOn ==
        Ineligibility(cap, s.bowler, Fielders(inn), Balls(s),
                      PreviousBowler(s, s.legal \div cap.over)) = None
      mayEnd == cap.modes \cap ExplicitModes # {}
  IN
  /\ inn.block = "none" <=> SelectionsComplete(s)
  /\ inn.block = "none" => bowlerMayGoOn \/ QuotaSplitsOver
  /\ inn.block = "awaiting_next_batter" =>
       batterMayCome \/ batterMayReturn \/ mayEnd \/ ~FullSide(inn)
  /\ inn.block = "awaiting_next_bowler" => bowlerMayCome
  /\ inn.block = "no_eligible_bowler" => ~bowlerMayCome /\ (mayEnd \/ ~CanBowlOut(inn))

\* The blocks shown are the truth.  The match waits for an innings exactly when
\* one may start, and for a correction exactly when nothing else is accepted;
\* for a live innings "none" means that the bowler may bowl the next ball, and
\* every other block has the command that lifts it, which in a format without
\* automatic completion may be the end of the innings.  Excepted are sides too
\* small for their format, and quotas that are not of whole overs.
BlockHasAnswer ==
  /\ match.life \in {"scheduled", "in_progress"} /\ cap # None => MatchBlockTrue
  /\ \A k \in DOMAIN innings :
       match.life = "in_progress" /\ innings[k].state.life = "in_progress" =>
         InningsBlockAnswered(innings[k])

\* Every row of the scoring tables meets the constraints of its migration.
RowsFitTables ==
  /\ cap # None => PolicyRowFits /\ ParticipantRowsFit
  /\ \A k \in DOMAIN innings :
       LET inn == innings[k] IN
       /\ InningsRowFits(inn) /\ EntryRowsFit(inn)
       /\ \A n \in DOMAIN inn.deliveries : \A r \in DOMAIN inn.deliveries[n] :
            LET f == inn.deliveries[n][r] IN
            /\ RevisionRowFits(inn, f)
            /\ f.wicket # None => WicketRowFits(f.wicket) /\ FielderRowsFit(f.wicket)
       /\ \A n \in DOMAIN inn.state.overs : OverRowFits(inn.state.overs[n])
       /\ \A p \in DOMAIN inn.state.people : 
            SummaryRowFits(inn.state.people[p]) /\ PerformanceRowFits(inn.state.people[p])
       /\ \A n \in DOMAIN inn.transitions : TransitionRowFits(inn.transitions[n])

\* A match that is decided and whose score changes was announced again: no
\* correction of a finished match goes without its refresh.
Card == [result |-> match.result, scores |-> [k \in DOMAIN innings |-> Compared(innings[k].state)]]
ChangedCardAnnounced ==
  [][match'.life = "completed" /\ Card' # Card => match'.version \in refreshes']_vars
=============================================================================
