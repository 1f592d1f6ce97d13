---------------------------- MODULE Performances ----------------------------
(***************************************************************************)
(* Matches between the teams of Squads and the performances of its players *)
(* in them (services/match_service.py, services/performance_service.py).   *)
(*                                                                         *)
(* A batch inserts its rows and then recomputes, one by one and under an   *)
(* advisory lock per player, format and table, the aggregates they belong  *)
(* to; nothing of it is visible before it commits, and it holds its locks  *)
(* until then.  Matches are replaced, configured for scoring and projected *)
(* into performance rows meanwhile.                                        *)
(***************************************************************************)
EXTENDS Squads

CONSTANTS
  Matches, Formats,
  Batches,             \* performances submitted together
  Derived,             \* the innings performances of one player that took part
  Over,                \* legal balls of an over
  Workloads            \* bounds: the commands of each kind

VARIABLES
  matches,    \* matches rows, None before they are created
  rows,       \* performance rows, by kind, player and match
  stats       \* aggregate rows, by table, player and format

performanceVars == <<matches, rows, stats>>
vars == <<squadVars, performanceVars>>

Kinds == {"batting", "bowling", "fielding"}

Dismissals == {"not out", "caught", "bowled", "lbw", "run out", "stumped", "other"}

BattingRows  == [runs : Nat, balls : Nat, dismissal : Dismissals, fours : Nat, sixes : Nat,
                 derived : BOOLEAN]
BowlingRows  == [tenths : Nat, maidens : Nat, runs : Nat, wickets : Nat, wides : Nat,
                 derived : BOOLEAN]
FieldingRows == [catches : Nat, stumpings : Nat, runOuts : Nat, derived : BOOLEAN]

BattingStats ==
  [innings : Nat, notOuts : Nat, runs : Nat, balls : Nat, highScore : Nat,
   hundreds : Nat, fifties : Nat, ducks : Nat, fours : Nat, sixes : Nat]
BowlingStats ==
  [innings : Nat, overs : Nat, runs : Nat, wickets : Nat, best : {None} \cup (Nat \X Nat),
   maidens : Nat, four : Nat, five : Nat, wides : Nat, catches : Nat]

\* One side is the academy's when the opponent is external.
Pairings  == [home : Teams \cup {None}, away : Teams \cup {None}, external : BOOLEAN]
MatchRows ==
  [format : Formats, between : Pairings,
   authority : {"legacy_aggregate", "delivery_history"}, version : Nat \ {0}]

\* What a batch submits of a player, and an innings as scoring counts it.
Items ==
  [player : Players, batting : BattingRows \cup {None}, bowling : BowlingRows \cup {None},
   fielding : FieldingRows \cup {None}]
DismissalKinds ==
  {"caught", "caught_and_bowled", "run_out", "bowled", "lbw", "stumped", "hit_wicket",
   "retired_out"}
PlayedInnings ==
  [runs : Nat, balls : Nat, how : DismissalKinds \cup {None}, fours : Nat, sixes : Nat,
   legal : Nat, maidens : Nat, conceded : Nat, wickets : Nat, wides : Nat, catches : Nat,
   stumpings : Nat, runOuts : Nat]

ASSUME PerformanceAssumption ==
  /\ Batches \subseteq Seq(Items)
  /\ Derived \subseteq [player : Players, innings : Seq(PlayedInnings)]
  /\ Over \in Nat \ {0}
  /\ None \notin Teams \cup MatchRows

\* The first table's entries, and those of the second for other keys.
Overlay(top, base) ==
  [k \in DOMAIN top \cup DOMAIN base |-> IF k \in DOMAIN top THEN top[k] ELSE base[k]]

PerformanceInit ==
  /\ matches = [m \in Matches |-> None]
  /\ rows = <<>> /\ stats = <<>>

MatchesIn == {m \in Matches : matches[m] # None}

-----------------------------------------------------------------------------
(* Matches.                                                                *)

\* Between two teams of the academy, or one of them and an external opponent.
Participants ==
  [home : TeamsIn(Context), away : {None}, external : {TRUE}]
  \cup [home : {None}, away : TeamsIn(Context), external : {TRUE}]
  \cup {x \in [home : TeamsIn(Context), away : TeamsIn(Context), external : {FALSE}] :
          x.home # x.away}

CreateMatch(r) ==
  /\ Starts(r, "match")
  /\ \E m \in Matches \ MatchesIn, format \in Formats, between \in Participants :
       matches' = [matches EXCEPT ![m] =
                     [format |-> format, between |-> between,
                      authority |-> "legacy_aggregate", version |-> 1]]
  /\ UNCHANGED <<squads, requests, rows, stats>>

\* update_match, at the version that is current: a configured match refuses it.
UpdateMatch(r) ==
  /\ Starts(r, "replace")
  /\ \E m \in MatchesIn, format \in Formats, between \in Participants :
       /\ matches[m].authority = "legacy_aggregate"
       /\ matches' = [matches EXCEPT ![m].format = format, ![m].between = between,
                                     ![m].version = @ + 1]
  /\ UNCHANGED <<squads, requests, rows, stats>>

\* configure_match of the scoring service, which this module needs the
\* authority of only.
ConfigureScoring(r) ==
  /\ Starts(r, "score")
  /\ \E m \in MatchesIn :
       /\ matches[m].authority = "legacy_aggregate"
       /\ matches' = [matches EXCEPT ![m].authority = "delivery_history", ![m].version = @ + 1]
  /\ UNCHANGED <<squads, requests, rows, stats>>

-----------------------------------------------------------------------------
(* Aggregates.                                                             *)

Count(lines, Test(_)) == Cardinality({k \in DOMAIN lines : Test(lines[k])})
Total(lines, field)   == MapThenSumSet(LAMBDA k : lines[k][field], DOMAIN lines)

BattingTotals(lines) ==
  [innings   |-> Cardinality(DOMAIN lines),
   notOuts   |-> Count(lines, LAMBDA l : l.dismissal = "not out"),
   runs      |-> Total(lines, "runs"),
   balls     |-> Total(lines, "balls"),
   highScore |-> Max({0} \cup {lines[k].runs : k \in DOMAIN lines}),
   hundreds  |-> Count(lines, LAMBDA l : l.runs >= 100),
   fifties   |-> Count(lines, LAMBDA l : l.runs \in 50 .. 99),
   ducks     |-> Count(lines, LAMBDA l : l.runs = 0),
   fours     |-> Total(lines, "fours"),
   sixes     |-> Total(lines, "sixes")]

\* The most wickets, then the fewest runs.
BestBowled(lines) ==
  IF DOMAIN lines = {} THEN None
  ELSE LET most == Max({lines[k].wickets : k \in DOMAIN lines})
           runs == {lines[k].runs : k \in {k \in DOMAIN lines : lines[k].wickets = most}}
       IN <<most, Min(runs)>>

\* Overs are added as the decimal numbers they are written as.
BowlingTotals(lines, caught) ==
  [innings |-> Cardinality(DOMAIN lines),
   overs   |-> Total(lines, "tenths"),
   runs    |-> Total(lines, "runs"),
   wickets |-> Total(lines, "wickets"),
   best    |-> BestBowled(lines),
   maidens |-> Total(lines, "maidens"),
   four    |-> Count(lines, LAMBDA l : l.wickets = 4),
   five    |-> Count(lines, LAMBDA l : l.wickets >= 5),
   wides   |-> Total(lines, "wides"),
   catches |-> Total(caught, "catches")]

\* A player's rows of one kind in the matches that have the format now.
LinesOf(table, kind, player, format) ==
  LET keys == {k \in DOMAIN table : /\ k[1] = kind /\ k[2] = player
                                    /\ matches[k[3]].format = format}
  IN [k \in keys |-> table[k]]

\* The aggregate a key <<table, player, format>> stands for.
Recalculated(table, key) ==
  LET lines(kind) == LinesOf(table, kind, key[2], key[3])
  IN IF key[1] = "batting" THEN BattingTotals(lines("batting"))
                           ELSE BowlingTotals(lines("bowling"), lines("fielding"))

-----------------------------------------------------------------------------
(* Batches.                                                                *)

RowsOf(m, items) ==
  LET given == {g \in Kinds \X DOMAIN items : items[g[2]][g[1]] # None}
      keys  == {<<g[1], items[g[2]].player, m>> : g \in given}
  IN [key \in keys |->
        LET i == CHOOSE i \in DOMAIN items : items[i].player = key[2]
        IN items[i][key[1]]]

\* The aggregates an item is recalculated into, batting before bowling.
KeysOf(item, format) ==
  (IF item.batting # None THEN << <<"batting", item.player, format>> >> ELSE <<>>)
  \o (IF item.bowling # None \/ item.fielding # None
      THEN << <<"bowling", item.player, format>> >> ELSE <<>>)

Agenda(items, format) == FlattenSeq([i \in DOMAIN items |-> KeysOf(items[i], format)])

BatchesAt(pc) == {r \in Requests : At(r, "batch", pc)}

\* Rows inserted but not committed, and the keys locked, by another batch.
Inserted(r) == IF r \in BatchesAt("recalculate") THEN DOMAIN requests[r].own ELSE {}
Held(r)     == IF r \in BatchesAt("recalculate") THEN DOMAIN requests[r].wrote ELSE {}

\* PlayerPerformance and BatchPerformanceRequest.
BatchAccepted(items) ==
  /\ items # <<>>
  /\ \A i \in DOMAIN items : \E kind \in Kinds : items[i][kind] # None
  /\ \A i, j \in DOMAIN items : items[i].player = items[j].player => i = j

\* submit_batch_performance reads the match; its format is used until the end.
SubmitBatch(r) ==
  /\ Starts(r, "batch")
  /\ \E m \in MatchesIn, items \in Batches :
       /\ BatchAccepted(items)
       /\ matches[m].authority = "legacy_aggregate"
       /\ \A i \in DOMAIN items : items[i].player \in PlayersIn(Context)
       /\ Proceed(r, [op |-> "batch", pc |-> "insert", match |-> m, items |-> items,
                      format |-> matches[m].format])
  /\ UNCHANGED <<squads, performanceVars>>

\* The flush waits for the uncommitted row of another batch and fails on a
\* committed one.
InsertWaitsFor(r, q) ==
  q # r /\ DOMAIN RowsOf(requests[r].match, requests[r].items) \cap Inserted(q) # {}

BatchInsert(r) ==
  /\ At(r, "batch", "insert")
  /\ \A q \in Requests : ~InsertWaitsFor(r, q)
  /\ LET b == requests[r]
         own == RowsOf(b.match, b.items)
     IN IF DOMAIN own \cap DOMAIN rows # {} THEN End(r)
        ELSE Proceed(r, [op |-> "batch", pc |-> "recalculate", own |-> own,
                         todo |-> Agenda(b.items, b.format), wrote |-> <<>>])
  /\ UNCHANGED <<squads, left, performanceVars>>

\* Mutant: every batch locks keys of its own.
LockFreeAlways(r, key) == TRUE

LockFree(r, key) == \A q \in Requests \ {r} : key \notin Held(q)

BatchRecalculate(r) ==
  /\ At(r, "batch", "recalculate") /\ requests[r].todo # <<>>
  /\ LET b == requests[r]
         key == Head(b.todo)
     IN /\ LockFree(r, key)
        /\ Proceed(r, [op |-> "batch", pc |-> "recalculate", own |-> b.own, todo |-> Tail(b.todo),
                       wrote |-> Overlay([k \in {key} |-> Recalculated(Overlay(rows, b.own), k)],
                                         b.wrote)])
  /\ UNCHANGED <<squads, left, performanceVars>>

BatchCommit(r) ==
  /\ At(r, "batch", "recalculate") /\ requests[r].todo = <<>>
  /\ rows' = Overlay(rows, requests[r].own)
  /\ stats' = Overlay(requests[r].wrote, stats)
  /\ End(r)
  /\ UNCHANGED <<squads, left, matches>>

\* Two batches that each wait for what the other holds: the database ends one.
WaitsFor(r, q) ==
  \/ At(r, "batch", "insert") /\ InsertWaitsFor(r, q)
  \/ /\ At(r, "batch", "recalculate") /\ requests[r].todo # <<>>
     /\ q # r /\ Head(requests[r].todo) \in Held(q)

DeadlockAbort(r) ==
  /\ \E q \in Requests : WaitsFor(r, q) /\ WaitsFor(q, r)
  /\ End(r)
  /\ UNCHANGED <<squads, left, performanceVars>>

-----------------------------------------------------------------------------
(* The rows that scoring derives.                                          *)

LegacyDismissal(how) ==
  CASE how = None -> "not out"
    [] how \in {"caught", "caught_and_bowled"} -> "caught"
    [] how = "run_out" -> "run out"
    [] how \in {"bowled", "lbw", "stumped"} -> how
    [] how \in {"hit_wicket", "retired_out"} -> "other"

LastDismissal(innings) ==
  LET outs == {i \in DOMAIN innings : innings[i].how # None}
  IN IF outs = {} THEN None ELSE innings[Max(outs)].how

\* The rows of a player, summed over the innings played: overs are written as
\* a decimal number whose fraction is the balls of the unfinished over here
\* in tenths, which is the same number for overs of at most ten balls).
DerivedItem(player, innings) ==
  LET sum(field) == Total(innings, field)
  IN [player |-> player,
      batting  |-> [runs |-> sum("runs"), balls |-> sum("balls"),
                    dismissal |-> LegacyDismissal(LastDismissal(innings)),
                    fours |-> sum("fours"), sixes |-> sum("sixes"), derived |-> TRUE],
      bowling  |-> [tenths |-> 10 * (sum("legal") \div Over) + (sum("legal") % Over),
                    maidens |-> sum("maidens"), runs |-> sum("conceded"),
                    wickets |-> sum("wickets"), wides |-> sum("wides"), derived |-> TRUE],
      fielding |-> [catches |-> sum("catches"), stumpings |-> sum("stumpings"),
                    runOuts |-> sum("runOuts"), derived |-> TRUE]]

\* A row a coach wrote is left alone.
Writable(key) == key \notin DOMAIN rows \/ rows[key].derived

\* sync_delivery_derived_legacy_performances, in the transaction of a scoring
\* command.  The aggregates are not recalculated.
SyncDerived(r) ==
  /\ Starts(r, "sync")
  /\ \E m \in MatchesIn, d \in Derived :
       LET derived == RowsOf(m, <<DerivedItem(d.player, d.innings)>>)
           keys    == {k \in DOMAIN derived : Writable(k)}
       IN /\ matches[m].authority = "delivery_history"
          /\ d.player \in PlayersIn(Context)
          /\ \A q \in Requests : keys \cap Inserted(q) = {}
          /\ rows' = Overlay([k \in keys |-> derived[k]], rows)
  /\ UNCHANGED <<squads, requests, matches, stats>>

PerformanceStep(r) ==
  \/ CreateMatch(r) \/ UpdateMatch(r) \/ ConfigureScoring(r)
  \/ SubmitBatch(r) \/ BatchInsert(r) \/ BatchRecalculate(r) \/ BatchCommit(r)
  \/ DeadlockAbort(r) \/ SyncDerived(r)

Init ==
  /\ SquadInit /\ PerformanceInit
  /\ left \in Workloads

Next ==
  \E r \in Requests :
    \/ SquadStep(r) /\ UNCHANGED performanceVars
    \/ PerformanceStep(r)

Spec == Init /\ [][Next]_vars

-----------------------------------------------------------------------------
(* The properties.                                                         *)

MatchRowFits(m) ==
  /\ m.format \in Formats /\ m.version \in Nat \ {0}
  /\ m.authority \in {"legacy_aggregate", "delivery_history"}
  /\ IF m.between.external THEN (m.between.home = None) # (m.between.away = None)
     ELSE None \notin {m.between.home, m.between.away} /\ m.between.home # m.between.away

TypeOK ==
  /\ SquadTypes
  /\ \A m \in MatchesIn : MatchRowFits(matches[m])
  /\ DOMAIN rows \subseteq Kinds \X PlayersIn(Context) \X MatchesIn
  /\ \A k \in DOMAIN rows :
       rows[k] \in CASE k[1] = "batting"  -> BattingRows
                     [] k[1] = "bowling"  -> BowlingRows
                     [] k[1] = "fielding" -> FieldingRows
  /\ DOMAIN stats \subseteq {"batting", "bowling"} \X PlayersIn(Context) \X Formats
  /\ \A key \in DOMAIN stats :
       stats[key] \in IF key[1] = "batting" THEN BattingStats ELSE BowlingStats

\* Rows of matches that were not replaced and that no scoring projected.
Plain(player) ==
  \A k \in DOMAIN rows : k[2] = player =>
    /\ ~rows[k].derived
    /\ matches[k[3]].version = IF matches[k[3]].authority = "legacy_aggregate" THEN 1 ELSE 2

\* Whatever batches ran together, waited for each other or were refused, every
\* aggregate of a player is that of the player's committed performances, and
\* every performance has its aggregate - until a match is replaced or scored
\* by deliveries, which recalculate nothing.
StatsMatchPerformances ==
  \A p \in PlayersIn(Context) : Plain(p) =>
    /\ \A key \in DOMAIN stats : key[2] = p => stats[key] = Recalculated(rows, key)
    /\ \A k \in DOMAIN rows : k[2] = p =>
         <<IF k[1] = "batting" THEN "batting" ELSE "bowling", p, matches[k[3]].format>>
           \in DOMAIN stats
=============================================================================
