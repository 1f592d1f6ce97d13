---------------------------- MODULE ScoringPolicy ----------------------------
(***************************************************************************)
(* The locked capability of a Match: what a configuration request may ask  *)
(* for, the capability the server resolves from it, and the eligibility of *)
(* bowlers, from backend/src/services/scoring/policy.py, the request       *)
(* schemas and the ranking in authorization.py.  The cricket constants are *)
(* the parameter Std, so that an over or an innings can be short.          *)
(***************************************************************************)
EXTENDS Integers, Sequences, FiniteSets, SequencesExt

CONSTANTS
  None,     \* an absent optional value
  Std,      \* [over, wickets, t20Limit, t20Quota, dayUnit, divisor]
  RunMax    \* SCORING_RUN_TOTAL_MAX, the bound of every persisted run total

ASSUME StdAssumption ==
  /\ Std \in [{"over", "wickets", "t20Limit", "t20Quota", "dayUnit", "divisor"}
                -> Nat \ {0}]
  /\ Std.dayUnit % Std.divisor = 0
ASSUME RunMaxAssumption == RunMax \in Nat

Sides    == {"home", "away"}
Opposite(side) == CHOOSE s \in Sides : s # side
Profiles == {"T20", "one_day", "test", "other"}

DismissalTypes  == {"bowled", "caught", "caught_and_bowled", "lbw", "run_out",
                    "stumped", "hit_wicket", "retired_out"}
Retirements     == {"retired_hurt", "retired_hurt_return"}
AutomaticModes  == {"all_out", "legal_ball_limit", "target_reached"}
ExplicitModes   == {"declaration", "manual"}

\* An absent value is none of those that may be present.
ASSUME NoneAssumption ==
  None \notin Nat \cup Sides \cup DismissalTypes \cup AutomaticModes \cup ExplicitModes
                \cup {"conflict", "invalid", "striker_end", "non_striker_end",
                      "not_fielding_participant", "consecutive_over_prohibited",
                      "quota_exhausted"}

-----------------------------------------------------------------------------
(* What a request may ask for. *)

TwoInnings(request) == Len(request.sequence) = 2
Supplied(value, expected) == value \in {None, expected}

\* ScoringPolicyConfigurationRequest: a profile's own values are derived by
\* the server, so a supplied one must agree with them.
RequestAccepted(request) ==
  LET first  == request.sequence[1]
      second == request.sequence[2]
  IN
  /\ Len(request.sequence) >= 2
  /\ first # second
  /\ \/ /\ request.profile = "T20"
        /\ TwoInnings(request)
        /\ Supplied(request.limit, Std.t20Limit)
        /\ Supplied(request.quota, Std.t20Quota)
     \/ /\ request.profile = "one_day"
        /\ TwoInnings(request)
        /\ request.limit # None
        /\ request.limit % Std.dayUnit = 0
        /\ request.quota = None
     \/ /\ request.profile = "test"
        /\ request.sequence = <<first, second, first, second>>
        /\ request.limit = None /\ request.quota = None
     \/ /\ request.profile = "other"
        /\ request.boundary \in {"after_completed_innings", "any_nonterminal_state"}
        /\ request.dismissals # {}

\* Two limited-overs profiles share everything but their lengths.
FixedOvers(request, limit, quota) ==
  [profile |-> request.profile, sequence |-> request.sequence,
   limit |-> limit, over |-> Std.over, quota |-> quota, wickets |-> Std.wickets,
   noConsecutive |-> TRUE, chase |-> TRUE,
   dismissals |-> DismissalTypes, transitions |-> Retirements,
   modes |-> AutomaticModes, matchModes |-> {"derived_result", "abandonment"},
   results |-> {"pending", "win_by_runs", "win_by_wickets", "tie", "no_result"},
   boundary |-> "none"]

TestMatch(request) ==
  [profile |-> "test", sequence |-> request.sequence,
   limit |-> None, over |-> Std.over, quota |-> None, wickets |-> Std.wickets,
   noConsecutive |-> TRUE, chase |-> FALSE,
   dismissals |-> DismissalTypes, transitions |-> Retirements,
   modes |-> {"all_out", "declaration"},
   matchModes |-> {"derived_result", "draw", "declared", "manual", "abandonment"},
   results |-> {"pending", "win_by_runs", "tie", "draw", "declared", "manual",
                "no_result"},
   boundary |-> "after_completed_innings"]

\* An "other" request must give each side the same number of innings.
Balanced(request) ==
  \A side \in Sides :
    Len(SelectSeq(request.sequence, LAMBDA s : s = side)) = request.perSide

OtherMatch(request) ==
  [profile |-> "other", sequence |-> request.sequence,
   limit |-> request.limit, over |-> request.over, quota |-> request.quota,
   wickets |-> request.wickets, noConsecutive |-> request.noConsecutive,
   chase |-> FALSE,
   dismissals |-> request.dismissals, transitions |-> request.transitions,
   modes |-> {"manual"}, matchModes |-> {"manual", "abandonment"},
   results |-> {"pending", "manual", "no_result"},
   boundary |-> request.boundary]

Resolvable(request) == request.profile = "other" => Balanced(request)

ResolveCapability(request) ==
  CASE request.profile = "T20"     -> FixedOvers(request, Std.t20Limit, Std.t20Quota)
    [] request.profile = "one_day" -> FixedOvers(request, request.limit,
                                                 request.limit \div Std.divisor)
    [] request.profile = "test"    -> TestMatch(request)
    [] request.profile = "other"   -> OtherMatch(request)

-----------------------------------------------------------------------------
(* Who may bowl. *)

\* bowler_eligibility: the reason a participant may not bowl, in the order the
\* code finds it, or None.
Ineligibility(cap, who, fielders, balls, previous) ==
  IF who \notin fielders THEN "not_fielding_participant"
  ELSE IF cap.noConsecutive /\ who = previous THEN "consecutive_over_prohibited"
  ELSE IF cap.quota # None /\ balls[who] >= cap.quota THEN "quota_exhausted"
  ELSE None

\* The suggestion of next_bowler_options: the bowler of the over before last
\* if eligible, else the first eligible fielder in the order of their names.
SuggestedBowler(cap, fielders, balls, completed) ==
  LET count     == Len(completed)
      previous  == IF count > 0 THEN completed[count] ELSE None
      alternate == IF count > 1 THEN completed[count - 1] ELSE None
      eligible  == SelectSeq(fielders, LAMBDA p :
                     Ineligibility(cap, p, ToSet(fielders), balls, previous) = None)
  IN IF alternate \in ToSet(eligible) THEN alternate
     ELSE IF eligible = <<>> THEN None ELSE eligible[1]
=============================================================================
