---------------------------- MODULE MCMatchScoring ----------------------------
(* Instances of MatchScoring: one-ball overs, two-ball innings, two wickets. *)
EXTENDS MatchScoring

MCStd == [over |-> 1, wickets |-> 2, t20Limit |-> 2, t20Quota |-> 2, dayUnit |-> 1,
          divisor |-> 1]

Rosters == [home |-> <<"h1", "h2", "h3">>, away |-> <<"a1", "a2", "a3">>]
Request(profile, sequence) ==
  [profile |-> profile, sequence |-> sequence, limit |-> None, quota |-> None,
   over |-> 1, wickets |-> 2, perSide |-> 1, noConsecutive |-> FALSE,
   dismissals |-> {"bowled", "run_out"}, transitions |-> Retirements,
   boundary |-> "after_completed_innings"]
Ordinary == <<"home", "away">>

T20Match   == [request |-> Request("T20", Ordinary), rosters |-> Rosters]
OneDay     == [request |-> [Request("one_day", Ordinary) EXCEPT !.limit = 1],
               rosters |-> Rosters]
TestMatch4 == [request |-> Request("test", Ordinary \o Ordinary), rosters |-> Rosters]
Friendly   == [request |-> [Request("other", Ordinary) EXCEPT !.over = 2, !.wickets = 1],
               rosters |-> Rosters]
\* One-ball overs, and one over for each bowler.
Nets       == [request |-> [Request("other", Ordinary) EXCEPT !.quota = 1,
                              !.dismissals = {"run_out"}, !.transitions = {}],
               rosters |-> Rosters]
\* Two-ball overs, and half an over for each bowler.
Spells     == [request |-> [Request("other", Ordinary) EXCEPT !.over = 2, !.quota = 1],
               rosters |-> Rosters]
\* Long enough for the winning run to cost the last wicket.
Chase      == [request |-> [Request("one_day", Ordinary) EXCEPT !.limit = 2],
               rosters |-> Rosters]
\* Two players a side, who cannot lose two wickets.
Pairs      == [request |-> [Request("one_day", Ordinary) EXCEPT !.limit = 2],
               rosters |-> [home |-> <<"h1", "h2">>, away |-> <<"a1", "a2">>]]
\* Refused: one side bats twice, and one player is in both sides.
Lopsided   == [request |-> [Request("other", Ordinary \o <<"home">>) EXCEPT !.perSide = 2],
               rosters |-> Rosters]
Shared     == [request |-> Request("T20", Ordinary),
               rosters |-> [Rosters EXCEPT !["away"] = <<"a1", "h1", "a3">>]]

MCConfigurations == {T20Match, OneDay, TestMatch4, Friendly, Nets, Spells, Chase,
                     Pairs, Lopsided, Shared}
MCOpenings == {[striker |-> 1, nonStriker |-> 2, bowler |-> 1],
               [striker |-> 1, nonStriker |-> 1, bowler |-> 1]}

Dot == [bat |-> 0, wide |-> 0, noBall |-> 0, bye |-> 0, legBye |-> 0, penalty |-> 0,
        kind |-> None, end |-> None, out |-> "striker", by |-> <<>>]
Single  == [Dot EXCEPT !.bat = 1]
Wide    == [Dot EXCEPT !.wide = 2]
Bowled  == [Dot EXCEPT !.kind = "bowled"]
RunOut  == [Dot EXCEPT !.bye = 1, !.kind = "run_out", !.end = "striker_end",
                       !.out = "nonStriker", !.by = <<[who |-> 2, role |-> "thrower"]>>]
\* Refused: a wide cannot also be a no-ball.
WideNoBall == [Dot EXCEPT !.wide = 1, !.noBall = 1]

MCBounds(c) ==
  CASE c.profile = "T20"     -> [balls |-> 3, corrections |-> 1, retirements |-> 0]
    [] c.profile = "one_day" /\ c.limit = 2 ->
                                [balls |-> 4, corrections |-> 0, retirements |-> 0]
    [] c.profile = "one_day" -> [balls |-> 2, corrections |-> 1, retirements |-> 2]
    [] c.profile = "test"    -> [balls |-> 1, corrections |-> 1, retirements |-> 0]
    [] c.quota = 1           -> [balls |-> 3, corrections |-> 0, retirements |-> 0]
    [] OTHER                   -> [balls |-> 2, corrections |-> 1, retirements |-> 0]

MCObservations == {Single, Wide, Bowled, RunOut, WideNoBall}
=============================================================================
