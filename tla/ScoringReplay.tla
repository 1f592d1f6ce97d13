---------------------------- MODULE ScoringReplay ----------------------------
(***************************************************************************)
(* The pure part of match scoring: which observed facts are accepted, how  *)
(* one delivery is classified, and how an innings and a match are rebuilt  *)
(* from their active history, from backend/src/services/scoring/rules.py,  *)
(* replay.py and the delivery schemas.                                     *)
(*                                                                         *)
(* Facts are [striker, nonStriker, bowler, bat, wide, noBall, bye, legBye, *)
(* penalty, wicket], the wicket None or [kind, out, end, fielders].  An    *)
(* error of the code is a value here: "conflict" for the reconciliation    *)
(* error a correction may turn into a halted replay, "invalid" for the     *)
(* validation error that refuses the whole command.                        *)
(***************************************************************************)
EXTENDS ScoringPolicy

Bool01(b) == IF b THEN 1 ELSE 0
NotLess(x, y) == IF x > y THEN x ELSE y

-----------------------------------------------------------------------------
(* The facts of one delivery. *)

StrikerOnly == {"bowled", "caught", "caught_and_bowled", "lbw", "stumped",
                "hit_wicket"}
\* The dismissals that take exactly one fielder, and that fielder's role.
SoleRole(kind) ==
  CASE kind = "caught"            -> "catcher"
    [] kind = "caught_and_bowled" -> "bowler"
    [] kind = "stumped"           -> "keeper"
    [] OTHER                      -> None
RunOutRoles == {"thrower", "keeper", "assister", "other"}

\* WicketRequest.validate_fielder_cardinality.
WicketShape(w) ==
  LET roles == [n \in DOMAIN w.fielders |-> w.fielders[n].role] IN
  /\ IsInjective(w.fielders)
  /\ w.kind \in {"bowled", "lbw", "hit_wicket", "retired_out"} => w.fielders = <<>>
  /\ SoleRole(w.kind) # None => roles = <<SoleRole(w.kind)>>
  /\ w.kind = "run_out" => roles # <<>> /\ ToSet(roles) \subseteq RunOutRoles
  /\ (w.kind = "run_out") = (w.end # None)

ExtrasOf(f) == f.wide + f.noBall + f.bye + f.legBye + f.penalty
TotalOf(f)  == f.bat + ExtrasOf(f)

\* DeliveryExtrasRequest and DeliveryFactsRequest.
FactsShape(f) ==
  /\ f.striker # f.nonStriker
  /\ ~(f.wide > 0 /\ f.noBall > 0) /\ f.noBall \in {0, 1}
  /\ ~(f.bye > 0 /\ f.legBye > 0)
  /\ ~(f.wide > 0 /\ f.bat > 0)
  /\ TotalOf(f) <= RunMax
  /\ f.wicket # None =>
       /\ WicketShape(f.wicket)
       /\ f.wicket.kind = "caught_and_bowled" => f.wicket.fielders[1].who = f.bowler

\* classify_wicket: the identities a wicket may name.
WicketFits(f, fielders, cap) ==
  f.wicket # None =>
    /\ f.wicket.kind \in cap.dismissals
    /\ f.wicket.out \in {f.striker, f.nonStriker}
    /\ f.wicket.kind \in StrikerOnly => f.wicket.out = f.striker
    /\ \A n \in DOMAIN f.wicket.fielders : f.wicket.fielders[n].who \in fielders

\* Mutant: a bye counts against the bowler.
ClassifyByesConceded(f, legalBefore, over) ==
  [total     |-> TotalOf(f), legal |-> f.wide = 0 /\ f.noBall = 0,
   completed |-> f.bat + f.bye + f.legBye + NotLess(0, f.wide - 1),
   conceded  |-> TotalOf(f), over |-> legalBefore \div over,
   ball      |-> (legalBefore % over) + 1, four |-> f.bat = 4, six |-> f.bat = 6,
   out       |-> IF f.wicket = None THEN None ELSE f.wicket.out]

\* classify_delivery: what is derived once and stored with the revision.
Classify(f, legalBefore, over) ==
  LET legal == f.wide = 0 /\ f.noBall = 0
      clean == f.wide = 0 /\ f.bye = 0 /\ f.legBye = 0
  IN [total     |-> TotalOf(f),
      legal     |-> legal,
      completed |-> f.bat + f.bye + f.legBye + NotLess(0, f.wide - 1),
      conceded  |-> f.bat + f.wide + f.noBall,
      over      |-> legalBefore \div over,
      ball      |-> (legalBefore % over) + 1,
      four      |-> clean /\ f.bat = 4,
      six       |-> clean /\ f.bat = 6,
      out       |-> IF f.wicket = None THEN None ELSE f.wicket.out]

\* Mutant: each addend is bounded, their sum is not.
RunsFitAlone(total, current) == total <= RunMax

\* checked_scoring_add: the persisted totals are bounded.
RunsFit(total, current) == total <= RunMax - current

-----------------------------------------------------------------------------
(* The state of one replayed innings. *)

Unused == [state |-> "not_batted", how |-> None, runs |-> 0, faced |-> 0,
           fours |-> 0, sixes |-> 0, bowled |-> 0, conceded |-> 0, taken |-> 0,
           wides |-> 0, noBalls |-> 0, dismissals |-> 0, catches |-> 0,
           stumpings |-> 0, runOuts |-> 0]

\* The openers' replay state, before any delivery.
Opening(cap, batters, fielders, openers, target) ==
  [life |-> "in_progress", striker |-> openers.striker,
   nonStriker |-> openers.nonStriker, bowler |-> openers.bowler,
   reason |-> None, halted |-> None, unreplayed |-> 0,
   legal |-> 0, runs |-> 0, wickets |-> 0, target |-> target,
   extras |-> [wide |-> 0, noBall |-> 0, bye |-> 0, legBye |-> 0, penalty |-> 0],
   people |-> [p \in batters \cup fielders |->
                 IF p \in {openers.striker, openers.nonStriker}
                 THEN [Unused EXCEPT !.state = "active"] ELSE Unused],
   overs |-> <<>>, falls |-> <<>>, applied |-> <<>>, error |-> None]

Balls(s) == [p \in DOMAIN s.people |-> s.people[p].bowled]

\* derive_innings_blocking_state: the one progression state, in its precedence.
Blocking(matchLife, life, striker, nonStriker, bowler, canBowl) ==
  IF matchLife = "abandoned" THEN "match_abandoned"
  ELSE IF matchLife = "completed" THEN "match_completed"
  ELSE IF life = "reconciliation_required" THEN "reconciliation_required"
  ELSE IF life = "completed" THEN "innings_completed"
  ELSE IF None \in {striker, nonStriker} THEN "awaiting_next_batter"
  ELSE IF bowler = None
       THEN IF canBowl THEN "awaiting_next_bowler" ELSE "no_eligible_bowler"
  ELSE "none"

\* automatic_innings_completion: target, then wickets, then legal balls.
AutomaticCompletion(cap, s) ==
  IF "target_reached" \in cap.modes /\ s.target # None /\ s.runs >= s.target
  THEN "target_reached"
  ELSE IF "all_out" \in cap.modes /\ s.wickets >= cap.wickets THEN "all_out"
  ELSE IF "legal_ball_limit" \in cap.modes /\ cap.limit # None /\ s.legal >= cap.limit
  THEN "legal_ball_limit"
  ELSE None

Complete(s, reason) ==
  [s EXCEPT !.life = IF reason = None THEN @ ELSE "completed", !.reason = reason]
Conflict(s)         == [s EXCEPT !.error = "conflict"]
Fails(s)            == s.error # None

-----------------------------------------------------------------------------
(* One explicit transition. *)

PreviousBowler(s, over) == IF over \in DOMAIN s.overs THEN s.overs[over].bowler ELSE None

NextBowler(s, who, cap, fielders) ==
  IF /\ s.bowler = None /\ s.legal # 0 /\ s.legal % cap.over = 0
     /\ Ineligibility(cap, who, fielders, Balls(s),
                      PreviousBowler(s, s.legal \div cap.over)) = None
  THEN [s EXCEPT !.bowler = who]
  ELSE Conflict(s)

\* A batter comes to the striker's end if it is vacant, else to the other one.
Arrives(s, who) ==
  IF s.striker = None
  THEN [s EXCEPT !.striker = who, !.people[who].state = "active"]
  ELSE IF s.nonStriker = None
  THEN [s EXCEPT !.nonStriker = who, !.people[who].state = "active"]
  ELSE Conflict(s)

NextBatter(s, who, batters) ==
  IF who \in batters /\ s.people[who].state = "not_batted"
  THEN Arrives(s, who) ELSE Conflict(s)

RetireHurt(s, who) ==
  IF who \in {s.striker, s.nonStriker}
  THEN [s EXCEPT !.people[who].state = "retired_hurt",
                 !.striker    = IF @ = who THEN None ELSE @,
                 !.nonStriker = IF @ = who THEN None ELSE @]
  ELSE Conflict(s)

RetiredHurtReturn(s, who) ==
  IF s.people[who].state = "retired_hurt" THEN Arrives(s, who) ELSE Conflict(s)

InningsCompleted(s, mode, cap) ==
  IF mode \in AutomaticModes \/ (mode = None /\ cap.modes \subseteq AutomaticModes)
  THEN Complete(s, AutomaticCompletion(cap, s))
  ELSE IF mode \in ExplicitModes \cap cap.modes THEN Complete(s, mode)
  ELSE Conflict(s)

\* _apply_transition: t is [kind, who, anchor, mode].
ApplyTransition(s, t, cap, batters, fielders) ==
  IF Fails(s) THEN s
  ELSE IF s.life = "completed"
  THEN IF t.kind = "innings_completed" THEN s ELSE Conflict(s)
  ELSE CASE t.kind \in Retirements \ cap.transitions -> Conflict(s)
         [] t.kind = "next_bowler" -> NextBowler(s, t.who, cap, fielders)
         [] t.kind = "next_batter" -> NextBatter(s, t.who, batters)
         [] t.kind \in cap.transitions /\ t.kind = "retired_hurt" -> RetireHurt(s, t.who)
         [] t.kind \in cap.transitions /\ t.kind = "retired_hurt_return" ->
              RetiredHurtReturn(s, t.who)
         [] t.kind = "innings_completed" -> InningsCompleted(s, t.mode, cap)

-----------------------------------------------------------------------------
(* One delivery. *)

Credit(person, f, c) ==
  [person EXCEPT !.runs = @ + f.bat, !.faced = @ + Bool01(c.legal),
                 !.fours = @ + Bool01(c.four), !.sixes = @ + Bool01(c.six)]

Debit(person, f, c) ==
  [person EXCEPT !.bowled = @ + Bool01(c.legal), !.conceded = @ + c.conceded,
                 !.wides = @ + f.wide, !.noBalls = @ + f.noBall]

Dismissed(person, w) ==
  [person EXCEPT !.how = w.kind,
                 !.state = IF w.kind = "retired_out" THEN "retired_out" ELSE "dismissed"]

Credited(person, w) ==
  [person EXCEPT !.taken = @ + Bool01(w.kind \notin {"run_out", "retired_out"})]

FieldedBy(person, p, w) ==
  LET times == Cardinality({n \in DOMAIN w.fielders : w.fielders[n].who = p})
      If(kinds) == IF w.kind \in kinds THEN times ELSE 0
  IN [person EXCEPT !.dismissals = @ + times,
                    !.catches    = @ + If({"caught", "caught_and_bowled"}),
                    !.stumpings  = @ + If({"stumped"}),
                    !.runOuts    = @ + If({"run_out"})]

\* The score of the delivery: totals, the batter, the bowler and the over.
Scored(s, f, c) ==
  LET n    == c.over + 1
      over == IF n \in DOMAIN s.overs THEN s.overs[n]
              ELSE [bowler |-> f.bowler, legal |-> 0, runs |-> 0, conceded |-> 0,
                    wickets |-> 0, complete |-> FALSE]
      more == [over EXCEPT !.legal = @ + Bool01(c.legal), !.runs = @ + c.total,
                           !.conceded = @ + c.conceded]
  IN [s EXCEPT !.applied = Append(@, c),
               !.runs    = @ + c.total,
               !.legal   = @ + Bool01(c.legal),
               !.extras  = [e \in DOMAIN @ |-> @[e] + f[e]],
               !.people[f.striker] = Credit(@, f, c),
               !.people[f.bowler]  = Debit(@, f, c),
               !.overs   = IF n \in DOMAIN @ THEN [@ EXCEPT ![n] = more]
                           ELSE Append(@, more)]

Swap(s) == [s EXCEPT !.striker = s.nonStriker, !.nonStriker = s.striker]

\* The wicket of the delivery: the dismissed batter's end falls vacant, and a
\* run-out puts the survivor at the end the dismissed one was not at.
Fallen(s, f, c, sequence) ==
  LET w        == f.wicket
      survivor == IF w.out = f.striker THEN f.nonStriker ELSE f.striker
  IN [s EXCEPT
        !.wickets = @ + 1,
        !.overs[c.over + 1].wickets = @ + 1,
        !.people  = [p \in DOMAIN @ |->
           FieldedBy(IF p = w.out THEN Dismissed(@[p], w)
                     ELSE IF p = f.bowler THEN Credited(@[p], w)
                     ELSE @[p], p, w)],
        !.striker = IF w.kind = "run_out"
                    THEN IF w.end = "striker_end" THEN None ELSE survivor
                    ELSE IF @ = w.out THEN None ELSE @,
        !.nonStriker = IF w.kind = "run_out"
                       THEN IF w.end = "striker_end" THEN survivor ELSE None
                       ELSE IF @ = w.out THEN None ELSE @,
        !.falls = Append(@, [sequence |-> sequence, score |-> s.runs,
                             number |-> s.wickets + 1, who |-> w.out, how |-> w.kind])]

OverEnds(s, over) ==
  Swap([s EXCEPT !.overs[over + 1].complete = TRUE, !.bowler = None])

\* What _apply_delivery requires before it counts: the replayed selections
\* first, and the bowler's eligibility after the facts are classified.
Follows(s, f) ==
  /\ s.life # "completed"
  /\ f.striker = s.striker /\ f.nonStriker = s.nonStriker /\ f.bowler = s.bowler

MayBowl(s, f, c, cap, fielders) ==
  /\ Ineligibility(cap, f.bowler, fielders, Balls(s), PreviousBowler(s, c.over)) = None
  /\ c.over + 1 \in DOMAIN s.overs => s.overs[c.over + 1].bowler = f.bowler

\* Strike changes on an odd number of completed runs, then the wicket falls,
\* then the over ends.
AfterRuns(s, c) == IF c.completed % 2 = 1 THEN Swap(s) ELSE s
AfterWicket(s, f, c, sequence) ==
  IF f.wicket = None THEN s ELSE Fallen(s, f, c, sequence)
AfterBall(s, c, cap) ==
  IF c.legal /\ s.legal % cap.over = 0 THEN OverEnds(s, c.over) ELSE s

Counted(s, f, c, sequence, cap, fielders) ==
  IF ~WicketFits(f, fielders, cap) \/ ~RunsFit(c.total, s.runs)
  THEN [s EXCEPT !.error = "invalid"]
  ELSE IF ~MayBowl(s, f, c, cap, fielders) THEN Conflict(s)
  ELSE AfterBall(AfterWicket(AfterRuns(Scored(s, f, c), c), f, c, sequence), c, cap)

\* _apply_delivery.
ApplyDelivery(s, f, sequence, cap, fielders) ==
  IF Follows(s, f)
  THEN Counted(s, f, Classify(f, s.legal, cap.over), sequence, cap, fielders)
  ELSE Conflict(s)

-----------------------------------------------------------------------------
(* Replay of one innings: source is [side, batters, fielders, openers,      *)
(* deliveries, transitions], the deliveries its active facts in order.      *)

\* Mutant: the replay stops at the conflict without saying so.
HaltSilently(s, n, source) == [s EXCEPT !.halted = n, !.error = None]
Halt(s, n, source) ==
  [s EXCEPT !.life = "reconciliation_required", !.halted = n, !.error = None,
            !.unreplayed = Len(source.deliveries) - Len(s.applied)]

\* The transitions recorded after attempt n, until one of them conflicts.
AfterAttempt(s, n, cap, source) ==
  FoldLeft(LAMBDA r, t : IF t.anchor = n
                         THEN ApplyTransition(r, t, cap, source.batters, source.fielders)
                         ELSE r,
           s, source.transitions)

\* A conflict is raised, unless a correction allows it: from its own sequence
\* on for transitions, and after it for deliveries.  The replay then stops and
\* keeps what was compatible.
Tolerated(corrected, n) == corrected # None /\ n >= corrected

AfterTransitions(s, n, source, corrected) ==
  IF Fails(s) /\ Tolerated(corrected, n) THEN Halt(s, n, source) ELSE s

\* before and s are the states before and after delivery n.
AfterDelivery(before, s, n, cap, source, corrected) ==
  IF s.error = "conflict"
  THEN IF Tolerated(corrected, n - 1) THEN Halt(before, n, source) ELSE s
  ELSE IF Fails(s) THEN s
  ELSE AfterTransitions(
         AfterAttempt(Complete(s, AutomaticCompletion(cap, s)), n, cap, source),
         n, source, corrected)

Attempt(s, n, cap, source, corrected) ==
  IF Fails(s) \/ s.halted # None THEN s
  ELSE AfterDelivery(s, ApplyDelivery(s, source.deliveries[n], n, cap, source.fielders),
                     n, cap, source, corrected)

\* replay_innings.
ReplayInnings(cap, source, target, corrected) ==
  FoldLeftDomain(LAMBDA s, n : Attempt(s, n, cap, source, corrected),
    AfterAttempt(Opening(cap, source.batters, source.fielders, source.openers, target),
                 0, cap, source),
    source.deliveries)

\* The blocking state replay_innings leaves for its read model.
InningsBlocking(cap, source, s, matchLife) ==
  LET previous == PreviousBowler(s, s.legal \div cap.over)
      canBowl  == \E p \in source.fielders :
                    Ineligibility(cap, p, source.fielders, Balls(s), previous) = None
  IN Blocking(matchLife, s.life, s.striker, s.nonStriker, s.bowler, canBowl)

-----------------------------------------------------------------------------
(* The result of a match. *)

Result(code, winner, margin) == [code |-> code, winner |-> winner, margin |-> margin]
Pending == Result("pending", None, 0)

AllComplete(states) ==
  states # <<>> /\ \A n \in DOMAIN states : states[n].life = "completed"

SideTotal(cap, states, side) ==
  FoldLeft(+, 0, [n \in DOMAIN states |->
                    IF cap.sequence[n] = side THEN states[n].runs ELSE 0])

\* Mutant: the side that batted first is taken for the leader.
PlayedOutForFirst(cap, states) ==
  LET first  == SideTotal(cap, states, cap.sequence[1])
      second == SideTotal(cap, states, cap.sequence[2])
  IN IF first = second THEN Result("tie", None, 0)
     ELSE Result("win_by_runs", cap.sequence[1], NotLess(first - second, second - first))

\* _derive_match_result when every innings of a decided format is complete.
PlayedOut(cap, states) ==
  LET first  == SideTotal(cap, states, cap.sequence[1])
      second == SideTotal(cap, states, cap.sequence[2])
      winner == IF first > second THEN cap.sequence[1] ELSE cap.sequence[2]
      last   == states[Len(states)]
  IN IF first = second THEN Result("tie", None, 0)
     ELSE IF last.reason = "target_reached"
     THEN Result("win_by_wickets", winner, NotLess(0, cap.wickets - last.wickets))
     ELSE Result("win_by_runs", winner, NotLess(first - second, second - first))

ExplicitResults == {"draw", "declared", "manual"}

\* An explicit result survives while its locked boundary still holds.
StillDecided(cap, states, priorLife, prior) ==
  /\ priorLife = "completed" /\ prior.code \in ExplicitResults \cap cap.results
  /\ \/ cap.boundary = "any_nonterminal_state"
     \/ cap.boundary = "after_completed_innings" /\ AllComplete(states)

\* derive_match_result.
DeriveResult(cap, states, priorLife, prior) ==
  IF \E n \in DOMAIN states : states[n].life = "reconciliation_required" THEN Pending
  ELSE IF priorLife = "abandoned" THEN Result("no_result", None, 0)
  ELSE IF /\ AllComplete(states) /\ Len(states) = Len(cap.sequence)
          /\ cap.profile # "other"
  THEN PlayedOut(cap, states)
  ELSE IF StillDecided(cap, states, priorLife, prior) THEN prior
  ELSE Pending

\* The second check of derive_match_result: a result outside the locked
\* capability refuses the command.
ResultAllowed(cap, result) ==
  /\ result.code \in cap.results
  /\ result.code \in ExplicitResults => result.code \in cap.matchModes

MatchLife(result) == IF result.code = "pending" THEN "in_progress" ELSE "completed"

-----------------------------------------------------------------------------
(* Replay of a match from a correction of attempt n of innings k. *)

\* An innings that follows an incomplete one keeps nothing of its history.
NotReplayed(s, source) ==
  [s EXCEPT !.life = "reconciliation_required", !.halted = 0,
            !.unreplayed = Len(source.deliveries)]

Target(cap, i, states) ==
  IF i = 2 /\ cap.chase THEN states[1].runs + 1 ELSE None

Unplayed(source) == [source EXCEPT !.deliveries = <<>>, !.transitions = <<>>]

\* The innings after those in states, corrected from attempt "from" on.
ReplayNext(states, cap, source, from) ==
  Append(states,
    IF \A j \in DOMAIN states : states[j].life = "completed"
    THEN ReplayInnings(cap, source, Target(cap, Len(states) + 1, states), from)
    ELSE NotReplayed(ReplayInnings(cap, Unplayed(source), None, from), source))

\* replay_match: the first corrected attempt of innings i.
CorrectedFrom(i, k, n) == IF i = k THEN n ELSE IF i > k THEN 0 ELSE None

ReplayMatch(cap, sources, k, n) ==
  FoldLeftDomain(
    LAMBDA states, i : ReplayNext(states, cap, sources[i], CorrectedFrom(i, k, n)),
    <<>>, sources)
=============================================================================
