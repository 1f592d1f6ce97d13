----------------------------- MODULE MCAcademy -----------------------------
(* One academy with two requests in flight: rosters of one to three, a     *)
(* team that was numbered badly before positions were kept, a player and   *)
(* an assistant coach who left.                                            *)
EXTENDS Performances

CONSTANTS t1, t2, k1, k2, k3, m1, m2, r1, r2, J, alpha, Alpha, beta

MCNormal  == [n \in Names |-> IF n = Alpha THEN alpha ELSE n]
MCLists   == {<<1>>, <<2, 1>>, <<1, 2, 3>>}

MCTeams   == [t \in Teams |-> IF t = t1 THEN [name |-> alpha, group |-> J, version |-> 1] ELSE None]
MCRosters == [t \in Teams |-> IF t = t1 THEN [p \in {2, 3} |-> p - 3] ELSE <<>>]
MCPlayers ==
  [p \in Players |-> IF p = 4 THEN None
                     ELSE [name |-> IF p = 1 THEN alpha ELSE beta, active |-> p # 3]]
MCCoaches ==
  [k \in Coaches |-> IF k = k3 THEN None
                     ELSE [role |-> IF k = k1 THEN "head coach" ELSE "assistant coach",
                           active |-> k = k1, version |-> 1]]
MCAssigned == [k \in Coaches |-> IF k = k3 THEN {} ELSE {t1}]

Batting(runs, how) ==
  [runs |-> runs, balls |-> runs, dismissal |-> how, fours |-> 0, sixes |-> 1,
   derived |-> FALSE]
Bowling(n, w)   == [tenths |-> n, runs |-> 20, wickets |-> w, maidens |-> 0, wides |-> 1,
                    derived |-> FALSE]
Fielding(n)     == [catches |-> n, stumpings |-> 0, runOuts |-> 0, derived |-> FALSE]
Item(p, x, y, z) == [player |-> p, batting |-> x, bowling |-> y, fielding |-> z]

MCBatches ==
  {<<Item(1, Batting(0, "bowled"), None, None),
     Item(2, Batting(100, "not out"), None, Fielding(1))>>,
   <<Item(2, Batting(50, "caught"), Bowling(43, 4), None),
     Item(1, Batting(7, "lbw"), None, None)>>,
   \* refused: a player twice, and a player without a group
   <<Item(1, Batting(0, "bowled"), None, None), Item(1, None, Bowling(10, 0), None)>>,
   <<Item(2, None, None, None)>>}

Played(runs, how, legal) ==
  [runs |-> runs, balls |-> runs, how |-> how, fours |-> 0, sixes |-> 0, legal |-> legal,
   maidens |-> 0, conceded |-> 4, wickets |-> 1, wides |-> 0, catches |-> 0,
   stumpings |-> 0, runOuts |-> 0]
MCDerived ==
  {[player |-> 1, innings |-> <<Played(3, "hit_wicket", 4)>>],
   [player |-> 1, innings |-> <<Played(3, "hit_wicket", 4), Played(1, None, 4)>>]}

Budget(given) == [op \in {"repair", "create", "update", "add", "player", "edit", "coach",
                          "status", "assign", "match", "replace", "score", "batch", "sync"} |->
                    IF op \in DOMAIN given THEN given[op] ELSE 0]
MCWorkloads ==
  {Budget([repair |-> 2, update |-> 1, add |-> 2, edit |-> 1]),
   Budget([create |-> 2, player |-> 2, add |-> 1]),
   Budget([repair |-> 1, coach |-> 1, status |-> 2, assign |-> 1]),
   Budget([match |-> 2, batch |-> 3]),
   Budget([match |-> 2, batch |-> 2, replace |-> 1]),
   Budget([match |-> 2, batch |-> 1, score |-> 1, sync |-> 2])}

Interchangeable == Permutations(Requests)
=============================================================================
