------------------------- MODULE MatchScoringProofs -------------------------
(***************************************************************************)
(* Theorems about match scoring: the inductive invariant of a match and of *)
(* its innings, which are what their histories replay to, and what follows *)
(* of the scorecard, the results, the tables, the versions and the blocks. *)
(***************************************************************************)
EXTENDS MatchScoring, ScoringReplayProofs

-----------------------------------------------------------------------------
(* The capability of a configured match.                                   *)

Codes == {"pending", "win_by_runs", "win_by_wickets", "tie", "draw", "declared", "manual",
          "no_result"}

\* What a resolved capability is made of.
Capability(pol) ==
  /\ pol.profile \in Profiles
  /\ pol.sequence \in Seq(Sides) /\ Len(pol.sequence) >= 2
  /\ pol.sequence[1] # pol.sequence[2]
  /\ pol.over \in Nat \ {0} /\ pol.wickets \in Nat \ {0}
  /\ pol.limit \in Nat \cup {None} /\ pol.quota \in Nat \cup {None}
  /\ pol.noConsecutive \in BOOLEAN /\ pol.chase \in BOOLEAN
  /\ pol.dismissals \in SUBSET DismissalTypes /\ pol.transitions \in SUBSET Retirements
  /\ pol.modes \in SUBSET (AutomaticModes \cup ExplicitModes)
  /\ pol.results \in SUBSET Codes
  /\ pol.chase => Len(pol.sequence) = 2 /\ "all_out" \in pol.modes

\* The sides of a configuration are two finite sets of different people.
Lineups(rosters) ==
  /\ \A side \in Sides : /\ rosters[side] \in Seq(ToSet(rosters[side]))
                         /\ None \notin ToSet(rosters[side]) /\ IsFiniteSet(ToSet(rosters[side]))
  /\ ToSet(rosters["home"]) \cap ToSet(rosters["away"]) = {}

Accepted(c) ==
  c \in Configurations /\ ConfigurationAccepted(c) /\ Resolvable(c.request)
    /\ ToSet(c.request.sequence) = Sides

LEMMA QuotaNatural ==
  ASSUME NEW a \in Nat
  PROVE  a \div Std.divisor \in Nat
<1>1. Std.divisor \in Nat /\ Std.divisor > 0
  BY StdAssumption
<1> DEFINE d == Std.divisor
<1> HIDE DEF d
<1>2. d \in Nat /\ d > 0
  BY <1>1 DEF d
<1>3. a \div d \in Int /\ a = d * (a \div d) + (a % d) /\ a % d \in 0 .. (d - 1)
  BY <1>2
<1>4. a \div d >= 0
  BY <1>2
<1> QED BY <1>3, <1>4 DEF d

LEMMA AcceptedIs ==
  ASSUME NEW c, Accepted(c)
  PROVE  Capability(ResolveCapability(c.request)) /\ Lineups(c.rosters)
<1> DEFINE r == c.request
<1>1. r \in [profile : Profiles, sequence : Seq(Sides), limit : Optional, quota : Optional,
             over : Nat \ {0}, wickets : Nat \ {0}, perSide : Nat, noConsecutive : BOOLEAN,
             dismissals : SUBSET DismissalTypes, transitions : SUBSET Retirements,
             boundary : {"none", "after_completed_innings", "any_nonterminal_state"}]
  BY ConfigurationsAssumption DEF Accepted
<1>2. /\ RequestAccepted(r) /\ Std.over \in Nat \ {0} /\ Std.wickets \in Nat \ {0}
      /\ Std.t20Limit \in Nat \ {0} /\ Std.t20Quota \in Nat \ {0}
  BY StdAssumption DEF Accepted, ConfigurationAccepted
<1>3. /\ r.profile \in Profiles /\ r.sequence \in Seq(Sides)
      /\ r.limit \in Nat \cup {None} /\ r.quota \in Nat \cup {None}
      /\ r.over \in Nat \ {0} /\ r.wickets \in Nat \ {0} /\ r.noConsecutive \in BOOLEAN
      /\ r.dismissals \in SUBSET DismissalTypes /\ r.transitions \in SUBSET Retirements
  BY <1>1 DEF Optional
<1>4. Len(r.sequence) >= 2 /\ r.sequence[1] # r.sequence[2]
  BY <1>2 DEF RequestAccepted
<1> HIDE DEF r
<1>5. Capability(ResolveCapability(r))
  <2>1. CASE r.profile = "T20"
    <3>1. TwoInnings(r)
      BY <1>2, <2>1 DEF RequestAccepted
    <3>2. ResolveCapability(r) = FixedOvers(r, Std.t20Limit, Std.t20Quota)
      BY <2>1 DEF ResolveCapability
    <3> QED
      BY <1>2, <1>3, <1>4, <2>1, <3>1, <3>2
         DEF Capability, FixedOvers, TwoInnings, AutomaticModes, Codes
  <2>2. CASE r.profile = "one_day"
    <3>1. TwoInnings(r) /\ r.limit # None
      BY <1>2, <2>2 DEF RequestAccepted
    <3>2. ResolveCapability(r) = FixedOvers(r, r.limit, r.limit \div Std.divisor)
      BY <2>2 DEF ResolveCapability
    <3>3. r.limit \div Std.divisor \in Nat
      BY <1>3, <3>1, QuotaNatural
    <3> QED
      BY <1>2, <1>3, <1>4, <2>2, <3>1, <3>2, <3>3
         DEF Capability, FixedOvers, TwoInnings, AutomaticModes, Codes
  <2>3. CASE r.profile = "test"
    <3>1. ResolveCapability(r) = TestMatch(r)
      BY <2>3 DEF ResolveCapability
    <3> QED
      BY <1>2, <1>3, <1>4, <2>3, <3>1
         DEF Capability, TestMatch, Profiles, AutomaticModes, ExplicitModes, Codes
  <2>4. CASE r.profile = "other"
    <3>1. ResolveCapability(r) = OtherMatch(r)
      BY <2>4 DEF ResolveCapability
    <3> QED
      BY <1>2, <1>3, <1>4, <2>4, <3>1
         DEF Capability, OtherMatch, Profiles, ExplicitModes, Codes
  <2> QED BY <1>3, <2>1, <2>2, <2>3, <2>4 DEF Profiles
<1>6. Lineups(c.rosters)
  <2>1. ASSUME NEW side \in Sides
        PROVE  /\ c.rosters[side] \in Seq(ToSet(c.rosters[side]))
               /\ None \notin ToSet(c.rosters[side]) /\ IsFiniteSet(ToSet(c.rosters[side]))
    <3>1. /\ c.rosters[side] \in Seq(ToSet(c.rosters[side]))
          /\ None \notin ToSet(c.rosters[side])
      BY ConfigurationsAssumption DEF Accepted
    <3> DEFINE q == c.rosters[side]
               S == ToSet(q)
    <3>2. q \in [1 .. Len(q) -> S] /\ Len(q) \in Nat /\ \A x \in S : \E i \in 1 .. Len(q) : q[i] = x
      <4>1. \A x \in S : \E i \in DOMAIN q : q[i] = x
        BY DEF ToSet
      <4>2. q \in Seq(S)
        BY <3>1
      <4> HIDE DEF q, S
      <4> QED BY <4>1, <4>2
    <3> HIDE DEF q, S
    <3>3. q \in Surjection(1 .. Len(q), S)
      BY <3>2 DEF Surjection
    <3>4. IsFiniteSet(1 .. Len(q))
      BY <3>2, FS_Interval
    <3>5. IsFiniteSet(S)
      BY <3>3, <3>4, FS_Surjection
    <3> QED BY <3>1, <3>5 DEF q, S
  <2>2. ToSet(c.rosters["home"]) \cap ToSet(c.rosters["away"]) = {}
    BY DEF Accepted, ConfigurationAccepted
  <2> QED BY <2>1, <2>2 DEF Lineups
<1> QED BY <1>5, <1>6 DEF r

-----------------------------------------------------------------------------
(* The rows of the innings.                                                *)

LEMMA OppositeIs == Opposite("home") = "away" /\ Opposite("away") = "home"
<1>1. \A s \in Sides : s # "home" <=> s = "away"
  BY DEF Sides
<1>2. \A s \in Sides : s # "away" <=> s = "home"
  BY DEF Sides
<1>3. Opposite("home") # "home" /\ Opposite("home") \in Sides
  <2>1. \E s \in Sides : s # "home"
    BY DEF Sides
  <2> QED BY <2>1 DEF Opposite
<1>4. Opposite("away") # "away" /\ Opposite("away") \in Sides
  <2>1. \E s \in Sides : s # "away"
    BY DEF Sides
  <2> QED BY <2>1 DEF Opposite
<1> QED BY <1>1, <1>2, <1>3, <1>4

Blocks == {"match_abandoned", "match_completed", "reconciliation_required",
           "innings_completed", "awaiting_next_batter", "awaiting_next_bowler",
           "no_eligible_bowler", "none"}

\* An innings row, its people those of the sides it is played by.
Rows(bat, field) ==
  [side : Sides, version : Nat \ {0},
   openers : {o \in [striker : bat, nonStriker : bat, bowler : field] :
                o.striker # o.nonStriker},
   deliveries : Seq(Seq(Facts(bat, field)) \ {<<>>}),
   transitions : Seq(Transitions(bat, field)), state : ReplayStates(bat, field),
   block : Blocks, revision : Nat, links : [bat -> Nat]]

BatOf(rosters, inn)   == ToSet(rosters[inn.side])
FieldOf(rosters, inn) == ToSet(rosters[Opposite(inn.side)])
Home(rosters) == ToSet(rosters["home"])
Away(rosters) == ToSet(rosters["away"])

\* _replay_input of a row.
SourceOf(rosters, inn) ==
  [side |-> inn.side, batters |-> BatOf(rosters, inn), fielders |-> FieldOf(rosters, inn),
   openers |-> inn.openers, deliveries |-> ActiveFacts(inn),
   transitions |-> inn.transitions]

\* What every revision was checked for.
Checked(pol, field, f) == FactsShape(f) /\ WicketFits(f, field, pol)

RowKept(pol, rosters, inn) ==
  /\ inn \in Rows(BatOf(rosters, inn), FieldOf(rosters, inn))
  /\ \A n \in DOMAIN inn.deliveries : \A r \in DOMAIN inn.deliveries[n] :
       Checked(pol, FieldOf(rosters, inn), inn.deliveries[n][r])

LEMMA RowSides ==
  ASSUME NEW rosters, Lineups(rosters), NEW inn, inn.side \in Sides
  PROVE  LET bat == BatOf(rosters, inn)
             field == FieldOf(rosters, inn) IN
         /\ bat \cap field = {} /\ IsFiniteSet(bat) /\ IsFiniteSet(field)
         /\ None \notin bat /\ None \notin field
         /\ \/ bat = Home(rosters) /\ field = Away(rosters)
            \/ bat = Away(rosters) /\ field = Home(rosters)
<1>1. CASE inn.side = "home"
  BY <1>1, OppositeIs DEF BatOf, FieldOf, Home, Away, Lineups, Sides
<1>2. CASE inn.side = "away"
  BY <1>2, OppositeIs DEF BatOf, FieldOf, Home, Away, Lineups, Sides
<1> QED BY <1>1, <1>2 DEF Sides

LEMMA ActiveFactsTyped ==
  ASSUME NEW F, NEW inn, inn.deliveries \in Seq(Seq(F) \ {<<>>})
  PROVE  /\ ActiveFacts(inn) \in Seq(F) /\ Len(ActiveFacts(inn)) = Len(inn.deliveries)
         /\ DOMAIN ActiveFacts(inn) = 1 .. Len(inn.deliveries)
         /\ \A n \in 1 .. Len(inn.deliveries) :
              /\ ActiveFacts(inn)[n] = Last(inn.deliveries[n])
              /\ Last(inn.deliveries[n]) \in F
              /\ Len(inn.deliveries[n]) \in DOMAIN inn.deliveries[n]
              /\ Last(inn.deliveries[n]) = inn.deliveries[n][Len(inn.deliveries[n])]
<1> DEFINE d == inn.deliveries
           a == ActiveFacts(inn)
<1>1. Len(d) \in Nat /\ DOMAIN d = 1 .. Len(d) /\ \A n \in 1 .. Len(d) : d[n] \in Seq(F) \ {<<>>}
  OBVIOUS
<1>2. \A n \in 1 .. Len(d) : Len(d[n]) \in DOMAIN d[n] /\ d[n][Len(d[n])] \in F
  <2> TAKE n \in 1 .. Len(d)
  <2> DEFINE q == d[n]
  <2>1. q \in Seq(F) /\ q # <<>>
    BY <1>1
  <2> HIDE DEF q
  <2>2. Len(q) \in DOMAIN q /\ q[Len(q)] \in F
    BY <2>1
  <2> QED BY <2>2 DEF q
<1>3. a = [n \in 1 .. Len(d) |-> d[n][Len(d[n])]]
  BY <1>1 DEF ActiveFacts, Last
<1> HIDE DEF d, a
<1>4. a \in Seq(F) /\ Len(a) = Len(d) /\ DOMAIN a = 1 .. Len(d)
  BY <1>1, <1>2, <1>3
<1>5. \A n \in 1 .. Len(d) : a[n] = d[n][Len(d[n])]
  BY <1>3
<1> QED BY <1>2, <1>4, <1>5 DEF a, d, Last

LEMMA RowSource ==
  ASSUME NEW pol, Capability(pol), NEW rosters, Lineups(rosters),
         NEW inn, RowKept(pol, rosters, inn)
  PROVE  /\ Sided(SourceOf(rosters, inn), pol, Home(rosters), Away(rosters))
         /\ SourceOf(rosters, inn) \in SourceRows(BatOf(rosters, inn), FieldOf(rosters, inn))
         /\ SourceOf(rosters, inn).batters = BatOf(rosters, inn)
         /\ SourceOf(rosters, inn).fielders = FieldOf(rosters, inn)
         /\ SourceOf(rosters, inn).deliveries = ActiveFacts(inn)
<1> DEFINE bat == BatOf(rosters, inn)
           field == FieldOf(rosters, inn)
           O == {o \in [striker : bat, nonStriker : bat, bowler : field] :
                o.striker # o.nonStriker}
           F == Facts(bat, field)
           T == Transitions(bat, field)
           S == ReplayStates(bat, field)
           a == ActiveFacts(inn)
           s == SourceOf(rosters, inn)
<1>1. inn \in [side : Sides, version : Nat \ {0}, openers : O,
               deliveries : Seq(Seq(F) \ {<<>>}), transitions : Seq(T), state : S,
               block : Blocks, revision : Nat, links : [bat -> Nat]]
  BY DEF RowKept, Rows
<1>2. s = [side |-> inn.side, batters |-> bat, fielders |-> field, openers |-> inn.openers,
           deliveries |-> a, transitions |-> inn.transitions]
  BY DEF SourceOf
<1> HIDE DEF O, F, T, S, s, a
<1>3. /\ inn.side \in Sides /\ inn.openers \in O /\ inn.transitions \in Seq(T)
      /\ inn.deliveries \in Seq(Seq(F) \ {<<>>})
  BY <1>1
<1>4. a \in Seq(F)
  BY <1>3, ActiveFactsTyped DEF a
<1>5. /\ bat \cap field = {} /\ IsFiniteSet(bat) /\ IsFiniteSet(field)
      /\ None \notin bat /\ None \notin field
      /\ \/ bat = Home(rosters) /\ field = Away(rosters)
         \/ bat = Away(rosters) /\ field = Home(rosters)
  BY <1>3, RowSides
<1> HIDE DEF bat, field
<1>6. /\ s \in [side : Sides, batters : {bat}, fielders : {field}, openers : O,
                deliveries : Seq(F), transitions : Seq(T)]
      /\ s.batters = bat /\ s.fielders = field /\ s.deliveries = a
  BY <1>2, <1>3, <1>4
<1>7. s \in SourceRows(bat, field)
  BY <1>6 DEF SourceRows, O, F, T
<1>8. Playable(pol, bat, field, a, None)
  BY <1>4, <1>5 DEF Playable, Capability, F
<1>9. Sided(s, pol, Home(rosters), Away(rosters))
  BY <1>5, <1>6, <1>7, <1>8 DEF Sided
<1> QED BY <1>6, <1>7, <1>9 DEF s, a, bat, field

-----------------------------------------------------------------------------
(* The innings of a match, replayed.                                       *)

StatesIn(I) == [k \in DOMAIN I |-> I[k].state]

IsStep(pol, rosters, I, i, c) ==
  I[i].state = StepOf(pol, SourceOf(rosters, I[i]), StatesIn(I), i, c)

\* A link names the active delivery that dismissed its batter, if one did.
Linked(inn) ==
  \A p \in DOMAIN inn.links :
    /\ inn.links[p] \in DOMAIN inn.deliveries \cup {0}
    /\ inn.links[p] = 0 <=> inn.state.people[p].how = None
    /\ inn.links[p] # 0 => OutOf(ActiveFacts(inn)[inn.links[p]]) = p

TargetFits(s) == s.target # None => s.target <= RunMax

\* The innings of a match are what their active histories replay to.
Played(pol, rosters, I) ==
  /\ I \in Seq(Rows(Home(rosters), Away(rosters)) \cup Rows(Away(rosters), Home(rosters)))
  /\ Len(I) <= Len(pol.sequence)
  /\ \A i \in 1 .. Len(I) :
       /\ RowKept(pol, rosters, I[i]) /\ I[i].side = pol.sequence[i]
       /\ Linked(I[i]) /\ TargetFits(I[i].state)
       /\ I[i].state.error = None
       /\ \E c : IsStep(pol, rosters, I, i, c)

LEMMA RowTyped ==
  ASSUME NEW bat, NEW field, NEW inn \in Rows(bat, field)
  PROVE  /\ inn.side \in Sides /\ inn.version \in Nat \ {0}
         /\ inn.openers \in [striker : bat, nonStriker : bat, bowler : field]
         /\ inn.openers.striker # inn.openers.nonStriker
         /\ inn.deliveries \in Seq(Seq(Facts(bat, field)) \ {<<>>})
         /\ inn.transitions \in Seq(Transitions(bat, field))
         /\ inn.state \in ReplayStates(bat, field) /\ inn.block \in Blocks
         /\ inn.revision \in Nat /\ inn.links \in [bat -> Nat]
<1> DEFINE O == {o \in [striker : bat, nonStriker : bat, bowler : field] :
                o.striker # o.nonStriker}
           D == Seq(Seq(Facts(bat, field)) \ {<<>>})
           T == Seq(Transitions(bat, field))
           S == ReplayStates(bat, field)
<1>1. inn \in [side : Sides, version : Nat \ {0}, openers : O,
               deliveries : D, transitions : T, state : S,
               block : Blocks, revision : Nat, links : [bat -> Nat]]
  BY DEF Rows
<1>2. \A o \in O : o \in [striker : bat, nonStriker : bat, bowler : field]
                     /\ o.striker # o.nonStriker
  OBVIOUS
<1> HIDE DEF O, D, T, S
<1>3. /\ inn.side \in Sides /\ inn.version \in Nat \ {0} /\ inn.openers \in O
      /\ inn.deliveries \in D /\ inn.transitions \in T /\ inn.state \in S
      /\ inn.block \in Blocks /\ inn.revision \in Nat /\ inn.links \in [bat -> Nat]
  BY <1>1
<1> QED BY <1>2, <1>3 DEF D, T, S

LEMMA PlayedStates ==
  ASSUME NEW pol, Capability(pol), NEW rosters, Lineups(rosters),
         NEW I, Played(pol, rosters, I), NEW i \in 1 .. Len(I)
  PROVE  /\ StatesIn(I)[i] = I[i].state
         /\ \A j \in 1 .. Len(I) :
              StatesIn(I)[j] \in StatesOf(Home(rosters), Away(rosters))
         /\ Sided(SourceOf(rosters, I[i]), pol, Home(rosters), Away(rosters))
         /\ Stepped(I[i].state, pol, SourceOf(rosters, I[i]), TargetOf(pol, StatesIn(I), i))
         /\ TargetOf(pol, StatesIn(I), i) \in Nat \cup {None}
<1> DEFINE A == Home(rosters)
           B == Away(rosters)
           s == SourceOf(rosters, I[i])
           Q == StatesIn(I)
<1>1. /\ Len(I) \in Nat /\ DOMAIN I = 1 .. Len(I) /\ i \in Nat \ {0}
      /\ \A j \in 1 .. Len(I) : RowKept(pol, rosters, I[j])
  BY DEF Played
<1>2. \A j \in 1 .. Len(I) : Q[j] = I[j].state
  BY <1>1 DEF StatesIn
<1>3. ASSUME NEW j \in 1 .. Len(I) PROVE Q[j] \in StatesOf(A, B)
  <2>1. /\ Sided(SourceOf(rosters, I[j]), pol, A, B)
        /\ SourceOf(rosters, I[j]).batters = BatOf(rosters, I[j])
        /\ SourceOf(rosters, I[j]).fielders = FieldOf(rosters, I[j])
    BY <1>1, RowSource
  <2>2. I[j].state \in ReplayStates(BatOf(rosters, I[j]), FieldOf(rosters, I[j]))
    BY <1>1, RowTyped DEF RowKept
  <2> QED BY <1>2, <2>1, <2>2 DEF Sided, StatesOf
<1>4. Sided(s, pol, A, B)
  BY <1>1, RowSource
<1>5. PICK c : I[i].state = StepOf(pol, s, Q, i, c)
  BY DEF Played, IsStep
<1> HIDE DEF s, Q, A, B
<1>6. \A j \in 1 .. (i - 1) : Q[j] \in StatesOf(A, B)
  BY <1>1, <1>3
<1>7. Stepped(I[i].state, pol, s, TargetOf(pol, Q, i)) /\ TargetOf(pol, Q, i) \in Nat \cup {None}
  BY <1>1, <1>4, <1>5, <1>6, StepGood
<1> QED BY <1>2, <1>3, <1>4, <1>7 DEF s, Q, A, B

\* After an innings that has not ended, the others wait for a correction.
LEMMA OrderKept ==
  ASSUME NEW pol, Capability(pol), NEW rosters, Lineups(rosters),
         NEW I, Played(pol, rosters, I), NEW i \in 1 .. Len(I), NEW j \in 1 .. (i - 1),
         I[j].state.life # "completed"
  PROVE  I[i].state.life = "reconciliation_required"
<1> DEFINE s == SourceOf(rosters, I[i])
           Q == StatesIn(I)
<1>1. PICK c : I[i].state = StepOf(pol, s, Q, i, c)
  BY DEF Played, IsStep
<1>2. Q[j] = I[j].state
  BY DEF Played, StatesIn
<1>3. Sided(s, pol, Home(rosters), Away(rosters))
  BY PlayedStates
<1>4. ~PlayedBefore(Q, i)
  BY <1>2 DEF PlayedBefore
<1> HIDE DEF s, Q
<1>5. I[i].state = NotReplayed(ReplayInnings(pol, Unplayed(s), None, c), s)
  BY <1>1, <1>4 DEF StepOf
<1> QED BY <1>3, <1>5, NotReplayedGood

\* A live innings of a match that may go on is the last one, after finished ones.
LEMMA LastLive ==
  ASSUME NEW pol, Capability(pol), NEW rosters, Lineups(rosters),
         NEW I, Played(pol, rosters, I), NEW k \in 1 .. Len(I),
         \A j \in 1 .. Len(I) : I[j].state.life # "reconciliation_required",
         I[k].state.life = "in_progress"
  PROVE  /\ k = Len(I)
         /\ \A j \in 1 .. (k - 1) : I[j].state.life = "completed"
<1>0. Len(I) \in Nat
  BY DEF Played
<1>1. k = Len(I)
  <2> SUFFICES ASSUME k # Len(I) PROVE FALSE
    OBVIOUS
  <2> DEFINE n == Len(I)
  <2>1. n \in 1 .. Len(I) /\ k \in 1 .. (n - 1)
    BY <1>0
  <2> HIDE DEF n
  <2> QED BY <2>1, OrderKept
<1>2. ASSUME NEW j \in 1 .. (k - 1) PROVE I[j].state.life = "completed"
  BY OrderKept
<1> QED BY <1>1, <1>2

\* What an innings that is not left for a correction replays to.
Faithful(pol, rosters, I, i) ==
  /\ ReplayInnings(pol, SourceOf(rosters, I[i]), I[i].state.target, None) = I[i].state
  /\ I[i].state.halted = None /\ Len(I[i].state.applied) = Len(I[i].deliveries)
  /\ PlayedBefore(StatesIn(I), i)
  /\ I[i].state.target = Target(pol, i, StatesIn(I))

LEMMA AuditedFaithful ==
  ASSUME NEW pol, Capability(pol), NEW rosters, Lineups(rosters),
         NEW I, Played(pol, rosters, I), NEW i \in 1 .. Len(I),
         I[i].state.life # "reconciliation_required"
  PROVE  Faithful(pol, rosters, I, i)
<1> DEFINE s == SourceOf(rosters, I[i])
           Q == StatesIn(I)
           x == I[i].state
           t == Target(pol, i, Q)
           bat == s.batters
           field == s.fielders
<1>1. PICK c : x = StepOf(pol, s, Q, i, c)
  BY DEF Played, IsStep
<1>2. /\ Sided(s, pol, Home(rosters), Away(rosters))
      /\ Stepped(x, pol, s, TargetOf(pol, Q, i))
      /\ TargetOf(pol, Q, i) \in Nat \cup {None}
  BY PlayedStates
<1>3. x.error = None /\ x.life # "reconciliation_required"
  BY DEF Played
<1>4. Len(s.deliveries) = Len(I[i].deliveries)
  <2>1. s.deliveries = ActiveFacts(I[i])
    BY RowSource DEF Played
  <2> DEFINE F == Facts(BatOf(rosters, I[i]), FieldOf(rosters, I[i]))
  <2>2. I[i].deliveries \in Seq(Seq(F) \ {<<>>})
    BY RowTyped DEF Played, RowKept
  <2> HIDE DEF F, s
  <2> QED BY <2>1, <2>2, ActiveFactsTyped
<1> HIDE DEF s, Q, x
<1>5. PlayedBefore(Q, i)
  <2> SUFFICES ASSUME ~PlayedBefore(Q, i) PROVE FALSE
    OBVIOUS
  <2>1. x = NotReplayed(ReplayInnings(pol, Unplayed(s), None, c), s)
    BY <1>1 DEF StepOf
  <2> QED BY <1>2, <1>3, <2>1, NotReplayedGood
<1>6. x = ReplayInnings(pol, s, t, c) /\ TargetOf(pol, Q, i) = t
  BY <1>1, <1>5 DEF StepOf, TargetOf
<1> HIDE DEF t
<1>7. x.halted = None /\ x.target = t
  BY <1>2, <1>3, <1>6 DEF Stepped, Good, Settled
<1>8. Sourced(s, bat, field) /\ Playable(pol, bat, field, s.deliveries, t)
  BY <1>2, <1>6, SidedPlayable
<1> HIDE DEF bat, field
<1>9. ReplayInnings(pol, s, t, None) = x
  BY <1>3, <1>6, <1>7, <1>8, UnhaltedAgree DEF Fails
<1>10. Len(x.applied) = Len(s.deliveries)
  BY <1>2, <1>3, <1>7 DEF Stepped, Counts
<1> QED BY <1>4, <1>5, <1>7, <1>9, <1>10 DEF Faithful, s, Q, x, t

-----------------------------------------------------------------------------
(* A live innings goes on.                                                 *)

\* A link names the active delivery that dismissed its batter, as the active
\* deliveries alone tell.
LinksActive(inn) ==
  \A p \in DOMAIN inn.links :
    /\ inn.links[p] \in DOMAIN inn.deliveries \cup {0}
    /\ inn.links[p] = 0 =>
         \A n \in DOMAIN inn.deliveries : OutOf(ActiveFacts(inn)[n]) # p
    /\ inn.links[p] # 0 => OutOf(ActiveFacts(inn)[inn.links[p]]) = p

LEMMA LinksAgree ==
  ASSUME NEW pol, NEW bat, NEW field, NEW inn \in Rows(bat, field), NEW source, NEW t,
         source.batters = bat, source.fielders = field,
         source.deliveries = ActiveFacts(inn), bat \cap field = {}, None \notin bat,
         Stepped(inn.state, pol, source, t),
         Len(inn.state.applied) = Len(inn.deliveries)
  PROVE  LinksActive(inn) <=> Linked(inn)
<1> DEFINE x == inn.state
           d == inn.deliveries
           a == ActiveFacts(inn)
           N == Len(d)
<1>1. /\ d \in Seq(Seq(Facts(bat, field)) \ {<<>>}) /\ inn.links \in [bat -> Nat]
      /\ x \in ReplayStates(bat, field)
  <2>1. inn \in Rows(bat, field)
    OBVIOUS
  <2>2. /\ inn.deliveries \in Seq(Seq(Facts(bat, field)) \ {<<>>})
        /\ inn.state \in ReplayStates(bat, field) /\ inn.links \in [bat -> Nat]
    BY <2>1, RowTyped, ZenonT(90)
  <2> QED BY <2>2
<1>2. N \in Nat /\ DOMAIN d = 1 .. N
  <2> DEFINE F == Seq(Facts(bat, field)) \ {<<>>}
  <2> HIDE DEF F
  <2>1. d \in Seq(F)
    BY <1>1 DEF F
  <2> QED BY <2>1
<1>3. Settled(x, pol, t, a)
  BY DEF Stepped, Good
<1>4. bat \subseteq DOMAIN x.people
  BY <1>1 DEF ReplayStates
<1>5. \A p \in bat : x.people[p].how # None <=> \E n \in 1 .. N : OutOf(a[n]) = p
  BY <1>3, <1>4 DEF Settled
<1>6. DOMAIN inn.links = bat
  BY <1>1
<1> HIDE DEF x, d, a, N
<1>7. \A p \in bat : inn.links[p] \in DOMAIN d \cup {0} /\ inn.links[p] # 0
                       => inn.links[p] \in 1 .. N
  BY <1>2
<1>8. ASSUME NEW p \in bat, inn.links[p] \in DOMAIN d \cup {0},
             inn.links[p] # 0 => OutOf(a[inn.links[p]]) = p
      PROVE  (inn.links[p] = 0 <=> x.people[p].how = None)
               <=> (inn.links[p] = 0 => \A n \in DOMAIN d : OutOf(a[n]) # p)
  BY <1>2, <1>5, <1>7, <1>8
<1> QED BY <1>6, <1>8 DEF LinksActive, Linked, x, d, a

\* A row that is written anew: its history and its people stay.
Restored(r, inn, s, bat, field) ==
  /\ r \in Rows(bat, field) /\ r.state = s /\ r.version = inn.version + 1
  /\ r.side = inn.side /\ r.openers = inn.openers
  /\ r.deliveries = inn.deliveries /\ r.transitions = inn.transitions

\* The row of a live innings is persisted with its replay.
LEMMA PersistedIs ==
  ASSUME NEW bat, NEW field, NEW inn \in Rows(bat, field),
         NEW s \in ReplayStates(bat, field), NEW life
  PROVE  /\ Restored(Persisted(NextVersion(inn), s, life), inn, s, bat, field)
         /\ Persisted(NextVersion(inn), s, life).links = inn.links
<1> DEFINE O == {o \in [striker : bat, nonStriker : bat, bowler : field] :
                o.striker # o.nonStriker}
           D == Seq(Seq(Facts(bat, field)) \ {<<>>})
           T == Seq(Transitions(bat, field))
           S == ReplayStates(bat, field)
           V == Nat \ {0}
           L == [bat -> Nat]
           b == InningsBlocking(cap, Source(NextVersion(inn)), s, life)
           v == inn.version + 1
           w == inn.revision + 1
           r == Persisted(NextVersion(inn), s, life)
           q == [inn EXCEPT !.version = v]
<1>1. b \in Blocks
  BY DEF InningsBlocking, Blocking, Blocks
<1>2. v \in V /\ w \in Nat
  <2>1. inn.version \in Nat \ {0} /\ inn.revision \in Nat
    BY RowTyped
  <2> QED BY <2>1
<1>3. inn \in [side : Sides, version : V, openers : O, deliveries : D, transitions : T,
               state : S, block : Blocks, revision : Nat, links : L] /\ s \in S
  BY DEF Rows
<1>4. q = NextVersion(inn)
  BY DEF NextVersion
<1>5. r = [NextVersion(inn) EXCEPT !.state = s, !.block = b,
                                   !.revision = NextVersion(inn).revision + 1]
  BY DEF Persisted
<1> HIDE DEF O, D, T, S, V, L, b, v
<1>6. /\ q \in [side : Sides, version : V, openers : O, deliveries : D, transitions : T,
               state : S, block : Blocks, revision : Nat, links : L]
      /\ q.version = v /\ q.side = inn.side /\ q.openers = inn.openers
      /\ q.deliveries = inn.deliveries /\ q.transitions = inn.transitions
      /\ q.links = inn.links /\ q.revision = inn.revision
  BY <1>2, <1>3
<1>7. r = [q EXCEPT !.state = s, !.block = b, !.revision = w]
  BY <1>4, <1>5, <1>6
<1> HIDE DEF q, r, w
<1>8. /\ r \in [side : Sides, version : V, openers : O, deliveries : D, transitions : T,
               state : S, block : Blocks, revision : Nat, links : L]
      /\ r.version = v /\ r.side = inn.side /\ r.openers = inn.openers
      /\ r.deliveries = inn.deliveries /\ r.transitions = inn.transitions
      /\ r.links = inn.links /\ r.state = s
  BY <1>1, <1>2, <1>3, <1>6, <1>7
<1> QED BY <1>8 DEF Rows, O, D, T, S, V, L, v, r, Restored

\* What an accepted command on a live innings makes of its row.
Extends(pol, rosters, inn, changed) ==
  /\ RowKept(pol, rosters, changed) /\ changed.side = inn.side
  /\ changed.state = inn.state /\ changed.version = inn.version
  /\ (LinksActive(inn) => LinksActive(changed))

LEMMA LiveLinks ==
  ASSUME NEW pol, Capability(pol), NEW rosters, Lineups(rosters),
         NEW I, Played(pol, rosters, I), NEW k \in 1 .. Len(I),
         I[k].state.life # "reconciliation_required"
  PROVE  LinksActive(I[k])
<1> DEFINE inn == I[k]
           bat == BatOf(rosters, inn)
           field == FieldOf(rosters, inn)
           source == SourceOf(rosters, inn)
           t == TargetOf(pol, StatesIn(I), k)
<1>1. /\ inn \in Rows(bat, field) /\ RowKept(pol, rosters, inn) /\ Linked(inn)
  BY DEF Played, RowKept
<1>2. Stepped(inn.state, pol, source, t)
  BY PlayedStates
<1>3. Len(inn.state.applied) = Len(inn.deliveries)
  BY AuditedFaithful DEF Faithful
<1>4. /\ source.batters = bat /\ source.fielders = field
      /\ source.deliveries = ActiveFacts(inn)
  BY <1>1, RowSource
<1>5. bat \cap field = {} /\ None \notin bat
  <2>1. inn.side \in Sides
    BY <1>1, RowTyped
  <2> QED BY <2>1, RowSides
<1> HIDE DEF inn, bat, field, source, t
<1>6. LinksActive(inn) <=> Linked(inn)
  BY <1>1, <1>2, <1>3, <1>4, <1>5, LinksAgree
<1> QED BY <1>1, <1>6 DEF inn

\* The replay of a row that a command has extended.
LEMMA ExtendedLive ==
  ASSUME NEW pol, Capability(pol), NEW rosters, Lineups(rosters),
         NEW I, Played(pol, rosters, I), NEW k \in 1 .. Len(I),
         I[k].state.life = "in_progress", NEW changed,
         Extends(pol, rosters, I[k], changed), NEW s,
         s = ReplayInnings(pol, SourceOf(rosters, changed), changed.state.target, None)
  PROVE  LET bat == BatOf(rosters, changed)
             field == FieldOf(rosters, changed) IN
         /\ s \in ReplayStates(bat, field) /\ s.halted = None
         /\ bat = BatOf(rosters, I[k]) /\ field = FieldOf(rosters, I[k])
         /\ Stepped(s, pol, SourceOf(rosters, changed), changed.state.target)
         /\ changed.state.target = Target(pol, k, StatesIn(I))
         /\ changed \in Rows(bat, field)
<1> DEFINE bat == BatOf(rosters, changed)
           field == FieldOf(rosters, changed)
           source == SourceOf(rosters, changed)
           t == changed.state.target
<1>1. /\ bat = BatOf(rosters, I[k]) /\ field = FieldOf(rosters, I[k])
      /\ changed \in Rows(bat, field) /\ RowKept(pol, rosters, changed)
  BY DEF Extends, BatOf, FieldOf, RowKept
<1>2. t = Target(pol, k, StatesIn(I))
  BY AuditedFaithful DEF Faithful, Extends
<1>3. t \in Nat \cup {None}
  <2>1. I[k].state \in ReplayStates(bat, field)
    BY <1>1, RowTyped DEF Played, RowKept
  <2>2. I[k].state.target \in Nat \cup {None}
    BY <2>1 DEF ReplayStates
  <2> QED BY <2>2 DEF Extends
<1>4. /\ Sided(source, pol, Home(rosters), Away(rosters))
      /\ source.batters = bat /\ source.fielders = field
  BY <1>1, RowSource
<1> HIDE DEF source, t
<1>5. Sourced(source, bat, field) /\ Playable(pol, bat, field, source.deliveries, t)
  BY <1>3, <1>4, SidedPlayable
<1>6. s = ReplayInnings(pol, source, t, None)
  BY DEF source, t
<1> HIDE DEF bat, field
<1>7. /\ s \in ReplayStates(bat, field) /\ Good(s, pol, t, bat, field, source.deliveries)
      /\ Counts(s, Len(source.deliveries)) /\ s.halted = None
  BY <1>5, <1>6, ReplayGood
<1>8. Stepped(s, pol, source, t)
  BY <1>4, <1>7 DEF Stepped
<1> QED BY <1>1, <1>2, <1>7, <1>8 DEF bat, field, source, t

\* A live innings that goes on leaves every innings what its history replays to.
LEMMA AdvanceKeeps ==
  ASSUME NEW pol, Capability(pol), NEW rosters, Lineups(rosters),
         NEW I, Played(pol, rosters, I), NEW k \in 1 .. Len(I),
         \A j \in 1 .. Len(I) : I[j].state.life # "reconciliation_required",
         I[k].state.life = "in_progress", NEW changed,
         Extends(pol, rosters, I[k], changed), NEW s,
         s = ReplayInnings(pol, SourceOf(rosters, changed), changed.state.target, None),
         s.error = None, NEW row,
         row \in Rows(BatOf(rosters, changed), FieldOf(rosters, changed)), row.state = s,
         row.side = changed.side, row.openers = changed.openers, row.links = changed.links,
         row.deliveries = changed.deliveries, row.transitions = changed.transitions
  PROVE  Played(pol, rosters, [I EXCEPT ![k] = row])
<1> DEFINE J == [I EXCEPT ![k] = row]
           A == Home(rosters)
           B == Away(rosters)
           R == Rows(A, B) \cup Rows(B, A)
           bat == BatOf(rosters, changed)
           field == FieldOf(rosters, changed)
           t == changed.state.target
           source == SourceOf(rosters, row)
           Q == StatesIn(I)
           K == StatesIn(J)
<1>1. /\ k = Len(I) /\ Len(I) \in Nat
      /\ \A j \in 1 .. (k - 1) : I[j].state.life = "completed"
  <2>1. k = Len(I) /\ \A j \in 1 .. (k - 1) : I[j].state.life = "completed"
    BY LastLive
  <2>2. Len(I) \in Nat
    BY DEF Played
  <2> QED BY <2>1, <2>2
<1>2. /\ s \in ReplayStates(bat, field) /\ s.halted = None
      /\ bat = BatOf(rosters, I[k]) /\ field = FieldOf(rosters, I[k])
      /\ Stepped(s, pol, SourceOf(rosters, changed), t)
      /\ t = Target(pol, k, Q) /\ changed \in Rows(bat, field)
  BY ExtendedLive
<1>3. source = SourceOf(rosters, changed)
  BY DEF SourceOf, ActiveFacts, BatOf, FieldOf
<1>4. BatOf(rosters, row) = bat /\ FieldOf(rosters, row) = field
  BY DEF BatOf, FieldOf
<1>5. RowKept(pol, rosters, row)
  BY <1>4 DEF RowKept, Extends
<1>6. /\ source.batters = bat /\ source.fielders = field
      /\ source.deliveries = ActiveFacts(row) /\ Len(source.deliveries) = Len(row.deliveries)
  <2>1. /\ source.batters = bat /\ source.fielders = field
        /\ source.deliveries = ActiveFacts(row)
    BY <1>4, <1>5, RowSource
  <2> DEFINE F == Facts(bat, field)
  <2>2. row.deliveries \in Seq(Seq(F) \ {<<>>})
    BY RowTyped
  <2> HIDE DEF F, source
  <2> QED BY <2>1, <2>2, ActiveFactsTyped
<1>7. bat \cap field = {} /\ None \notin bat
       /\ (\/ bat = A /\ field = B
           \/ bat = B /\ field = A)
  <2>1. changed.side \in Sides
    BY <1>2, RowTyped
  <2> QED BY <2>1, RowSides
<1>8. row \in R
  BY <1>7
<1>9. Linked(row)
  <2>1. LinksActive(row)
    <3>1. LinksActive(changed)
      BY LiveLinks DEF Extends
    <3>2. ActiveFacts(row) = ActiveFacts(changed)
      BY DEF ActiveFacts
    <3> QED BY <3>1, <3>2 DEF LinksActive
  <2>2. Len(s.applied) = Len(source.deliveries)
    BY <1>2, <1>3 DEF Stepped, Counts
  <2> HIDE DEF bat, field, source, t
  <2>3. Stepped(row.state, pol, source, t) /\ Len(row.state.applied) = Len(row.deliveries)
    BY <1>2, <1>3, <1>6, <2>2
  <2>4. row \in Rows(bat, field)
    BY DEF bat, field
  <2>5. LinksActive(row) <=> Linked(row)
    BY <1>6, <1>7, <2>3, <2>4, LinksAgree
  <2> QED BY <2>1, <2>5
<1>10. TargetFits(row.state)
  <2>1. s.target = t
    BY <1>2 DEF Stepped, Good, Settled
  <2> QED BY <2>1 DEF Played, TargetFits, Extends
<1> HIDE DEF A, B, R, bat, field, t, source
<1>11. I \in Seq(R) /\ Len(I) <= Len(pol.sequence)
  BY DEF Played, R, A, B
<1>12. /\ J \in Seq(R) /\ Len(J) = Len(I) /\ J[k] = row
       /\ \A j \in 1 .. Len(I) : j # k => J[j] = I[j]
  BY <1>8, <1>11
<1>13. \A j \in 1 .. Len(I) : Q[j] = I[j].state /\ K[j] = J[j].state
  BY <1>11, <1>12 DEF StatesIn
<1> HIDE DEF J, Q, K
<1>14. \A j \in 1 .. (k - 1) : K[j] = Q[j]
  BY <1>1, <1>12, <1>13
<1>15. ASSUME NEW i \in 1 .. Len(J)
       PROVE  /\ RowKept(pol, rosters, J[i]) /\ J[i].side = pol.sequence[i]
              /\ Linked(J[i]) /\ TargetFits(J[i].state)
              /\ J[i].state.error = None
              /\ \E c : IsStep(pol, rosters, J, i, c)
  <2>0. i \in 1 .. Len(I) /\ i \in Nat \ {0}
    BY <1>1, <1>12
  <2>1. CASE i = k
    <3>1. PlayedBefore(Q, k)
      BY <1>1, <1>13 DEF PlayedBefore
    <3>2. s = StepOf(pol, source, Q, k, None)
      BY <1>2, <1>3, <3>1 DEF StepOf, t
    <3>3. s = StepOf(pol, source, K, k, None)
      BY <1>1, <1>14, <2>0, <2>1, <3>2, StepOfPrefix
    <3>4. IsStep(pol, rosters, J, i, None)
      BY <1>12, <2>1, <3>3 DEF IsStep, source, K
    <3>5. row.side = pol.sequence[k]
      BY DEF Played, Extends
    <3> QED BY <1>5, <1>9, <1>10, <1>12, <2>1, <3>4, <3>5
  <2>2. CASE i # k
    <3>1. J[i] = I[i]
      BY <1>12, <2>0, <2>2
    <3>2. PICK c : IsStep(pol, rosters, I, i, c)
      BY <2>0 DEF Played
    <3>3. \A j \in 1 .. (i - 1) : K[j] = Q[j]
      BY <1>1, <1>14, <2>0, <2>2
    <3> DEFINE q == SourceOf(rosters, I[i])
    <3>4. I[i].state = StepOf(pol, q, Q, i, c)
      BY <3>2 DEF IsStep, Q
    <3> HIDE DEF q
    <3>5. StepOf(pol, q, K, i, c) = StepOf(pol, q, Q, i, c)
      BY <2>0, <3>3, StepOfPrefix
    <3>6. IsStep(pol, rosters, J, i, c)
      BY <3>1, <3>4, <3>5 DEF IsStep, q, K
    <3>7. /\ RowKept(pol, rosters, I[i]) /\ I[i].side = pol.sequence[i]
          /\ Linked(I[i]) /\ TargetFits(I[i].state) /\ I[i].state.error = None
      BY <2>0 DEF Played
    <3> QED BY <3>1, <3>6, <3>7
  <2> QED BY <2>1, <2>2
<1> QED BY <1>11, <1>12, <1>15 DEF Played, R, A, B, J

-----------------------------------------------------------------------------
(* An innings starts.                                                      *)

LEMMA StartKeeps ==
  ASSUME NEW pol, Capability(pol), NEW rosters, Lineups(rosters),
         NEW I, Played(pol, rosters, I), NEW k \in Nat \ {0}, k = Len(I) + 1,
         k <= Len(pol.sequence), \A j \in 1 .. Len(I) : I[j].state.life = "completed",
         NEW row, RowKept(pol, rosters, row), row.side = pol.sequence[k],
         Linked(row), TargetFits(row.state), row.state.error = None,
         row.state = ReplayInnings(pol, SourceOf(rosters, row), Target(pol, k, StatesIn(I)),
                                   None)
  PROVE  Played(pol, rosters, Append(I, row))
<1> DEFINE J == Append(I, row)
           R == Rows(Home(rosters), Away(rosters)) \cup Rows(Away(rosters), Home(rosters))
           Q == StatesIn(I)
           K == StatesIn(J)
           source == SourceOf(rosters, row)
<1>1. I \in Seq(R) /\ Len(I) <= Len(pol.sequence)
  BY DEF Played
<1>2. row \in R
  <2>1. row.side \in Sides
    BY RowTyped DEF RowKept
  <2> DEFINE bat == BatOf(rosters, row)
             field == FieldOf(rosters, row)
  <2>2. row \in Rows(bat, field)
    BY DEF RowKept
  <2>3. \/ bat = Home(rosters) /\ field = Away(rosters)
        \/ bat = Away(rosters) /\ field = Home(rosters)
    BY <2>1, RowSides
  <2> HIDE DEF bat, field
  <2> QED BY <2>2, <2>3
<1> HIDE DEF R
<1>3. /\ J \in Seq(R) /\ Len(J) = k /\ J[k] = row
      /\ \A j \in 1 .. Len(I) : J[j] = I[j]
  BY <1>1, <1>2
<1>4. \A j \in 1 .. Len(I) : Q[j] = I[j].state /\ K[j] = I[j].state
  BY <1>1, <1>3 DEF StatesIn
<1> HIDE DEF J, Q, K
<1>5. ASSUME NEW i \in 1 .. Len(J)
      PROVE  /\ RowKept(pol, rosters, J[i]) /\ J[i].side = pol.sequence[i]
             /\ Linked(J[i]) /\ TargetFits(J[i].state)
             /\ J[i].state.error = None
             /\ \E c : IsStep(pol, rosters, J, i, c)
  <2>0. i \in 1 .. k /\ i \in Nat \ {0} /\ Len(I) \in Nat
    BY <1>1, <1>3
  <2>1. CASE i = k
    <3>1. PlayedBefore(Q, k)
      BY <1>4, <2>0 DEF PlayedBefore
    <3>2. row.state = StepOf(pol, source, Q, k, None)
      BY <3>1 DEF StepOf, Q
    <3> HIDE DEF source
    <3>3. \A j \in 1 .. (k - 1) : K[j] = Q[j]
      BY <1>4, <2>0
    <3>4. row.state = StepOf(pol, source, K, k, None)
      BY <3>2, <3>3, StepOfPrefix
    <3>5. IsStep(pol, rosters, J, i, None)
      BY <1>3, <2>1, <3>4 DEF IsStep, source, K
    <3> QED BY <1>3, <2>1, <3>5
  <2>2. CASE i # k
    <3>1. i \in 1 .. Len(I) /\ J[i] = I[i]
      BY <1>3, <2>0, <2>2
    <3>2. PICK c : IsStep(pol, rosters, I, i, c)
      BY <3>1 DEF Played
    <3>3. \A j \in 1 .. (i - 1) : K[j] = Q[j]
      BY <1>4, <2>0, <3>1
    <3> DEFINE q == SourceOf(rosters, I[i])
    <3>4. I[i].state = StepOf(pol, q, Q, i, c)
      BY <3>2 DEF IsStep, Q
    <3> HIDE DEF q
    <3>5. StepOf(pol, q, K, i, c) = StepOf(pol, q, Q, i, c)
      BY <2>0, <3>3, StepOfPrefix
    <3>6. IsStep(pol, rosters, J, i, c)
      BY <3>1, <3>4, <3>5 DEF IsStep, q, K
    <3>7. /\ RowKept(pol, rosters, I[i]) /\ I[i].side = pol.sequence[i]
          /\ Linked(I[i]) /\ TargetFits(I[i].state) /\ I[i].state.error = None
      BY <3>1 DEF Played
    <3> QED BY <3>1, <3>6, <3>7
  <2> QED BY <2>1, <2>2
<1> QED BY <1>3, <1>5 DEF Played, R, J

-----------------------------------------------------------------------------
(* A correction.                                                           *)

LEMMA LinksIs ==
  ASSUME NEW bat, NEW field, NEW inn \in Rows(bat, field),
         NEW s \in ReplayStates(bat, field)
  PROVE  /\ Links(inn, s) \in [bat -> Nat]
         /\ \A p \in bat :
              /\ Links(inn, s)[p] \in 1 .. Len(s.applied) \cup {0}
              /\ Links(inn, s)[p] = 0 => \A n \in 1 .. Len(s.applied) : s.applied[n].out # p
              /\ Links(inn, s)[p] # 0 => s.applied[Links(inn, s)[p]].out = p
<1> DEFINE N == Len(s.applied)
           out(p) == {n \in 1 .. N : s.applied[n].out = p}
<1>1. inn.links \in [bat -> Nat] /\ s.applied \in Seq(Classes(bat))
  <2>1. inn.links \in [bat -> Nat]
    BY RowTyped
  <2>2. s.applied \in Seq(Classes(bat))
    BY DEF ReplayStates
  <2> QED BY <2>1, <2>2
<1>2. N \in Nat /\ DOMAIN s.applied = 1 .. N
  <2> DEFINE C == Classes(bat)
  <2> HIDE DEF C
  <2>1. s.applied \in Seq(C)
    BY <1>1 DEF C
  <2> QED BY <2>1
<1>3. Links(inn, s) = [p \in bat |-> IF out(p) = {} THEN 0 ELSE Max(out(p))]
  BY <1>1, <1>2 DEF Links
<1> HIDE DEF N
<1>4. ASSUME NEW p \in bat
      PROVE  /\ (IF out(p) = {} THEN 0 ELSE Max(out(p))) \in out(p) \cup {0}
             /\ (IF out(p) = {} THEN 0 ELSE Max(out(p))) = 0 => out(p) = {}
  <2> DEFINE u == out(p)
  <2>1. u \in SUBSET (1 .. N)
    OBVIOUS
  <2> HIDE DEF u
  <2>2. u # {} => Max(u) \in u
    BY <1>2, <2>1, MaxOf
  <2>3. 0 \notin u
    BY <1>2, <2>1
  <2> QED BY <2>2, <2>3 DEF u
<1> DEFINE l == Links(inn, s)
<1> HIDE DEF l
<1>5. ASSUME NEW p \in bat
      PROVE  l[p] \in out(p) \cup {0} /\ (l[p] = 0 => out(p) = {}) /\ l[p] \in Nat
  <2>1. l[p] \in out(p) \cup {0} /\ (l[p] = 0 => out(p) = {})
    BY <1>3, <1>4 DEF l
  <2> QED BY <1>2, <2>1
<1>6. l \in [bat -> Nat]
  <2>1. l = [p \in bat |-> l[p]]
    BY <1>3 DEF l
  <2> QED BY <1>5, <2>1
<1> QED BY <1>5, <1>6 DEF l, N

LEMMA RebuiltIs ==
  ASSUME NEW bat, NEW field, NEW inn \in Rows(bat, field),
         NEW s \in ReplayStates(bat, field), NEW result
  PROVE  /\ Restored(Rebuilt(inn, s, result), inn, s, bat, field)
         /\ Rebuilt(inn, s, result).links = Links(inn, s)
<1> DEFINE O == {o \in [striker : bat, nonStriker : bat, bowler : field] :
                o.striker # o.nonStriker}
           D == Seq(Seq(Facts(bat, field)) \ {<<>>})
           T == Seq(Transitions(bat, field))
           S == ReplayStates(bat, field)
           V == Nat \ {0}
           L == [bat -> Nat]
           l == Links(inn, s)
           q == Persisted(NextVersion(inn), s, MatchLife(result))
           r == Rebuilt(inn, s, result)
           life == MatchLife(result)
<1>1. l \in L
  BY LinksIs
<1> HIDE DEF life
<1>2. Restored(Persisted(NextVersion(inn), s, life), inn, s, bat, field)
  BY PersistedIs
<1>3. r = [q EXCEPT !.links = l]
  BY DEF Rebuilt
<1>4. q = Persisted(NextVersion(inn), s, life)
  BY DEF life
<1> HIDE DEF q, r, l
<1>5. /\ q \in Rows(bat, field) /\ q.state = s /\ q.version = inn.version + 1
      /\ q.side = inn.side /\ q.openers = inn.openers
      /\ q.deliveries = inn.deliveries /\ q.transitions = inn.transitions
  BY <1>2, <1>4 DEF Restored
<1>6. q \in [side : Sides, version : V, openers : O, deliveries : D, transitions : T,
               state : S, block : Blocks, revision : Nat, links : L]
  BY <1>5 DEF Rows
<1> HIDE DEF O, D, T, S, V, L
<1>7. /\ r \in [side : Sides, version : V, openers : O, deliveries : D, transitions : T,
               state : S, block : Blocks, revision : Nat, links : L]
      /\ r.version = q.version /\ r.side = q.side /\ r.openers = q.openers
      /\ r.deliveries = q.deliveries /\ r.transitions = q.transitions
      /\ r.links = l /\ r.state = q.state
  BY <1>1, <1>3, <1>6
<1>8. r \in Rows(bat, field)
  BY <1>7 DEF Rows, O, D, T, S, V, L
<1> QED BY <1>5, <1>7, <1>8 DEF r, l, Restored

\* What the replay of a match after a correction is.
Corrected(pol, rosters, V, states, N) ==
  /\ states \in Seq(StatesOf(Home(rosters), Away(rosters))) /\ Len(states) = N
  /\ \A i \in 1 .. N :
       /\ \E c : states[i] = StepOf(pol, SourceOf(rosters, V[i]), states, i, c)
       /\ Stepped(states[i], pol, SourceOf(rosters, V[i]), TargetOf(pol, states, i))

LEMMA CorrectionReplayed ==
  ASSUME NEW pol, Capability(pol), NEW rosters, Lineups(rosters), NEW N \in Nat, NEW V,
         \A i \in 1 .. N : RowKept(pol, rosters, V[i]),
         NEW sources, DOMAIN sources = 1 .. N,
         \A i \in 1 .. N : sources[i] = SourceOf(rosters, V[i]),
         NEW k, NEW n, NEW states, states = ReplayMatch(pol, sources, k, n)
  PROVE  Corrected(pol, rosters, V, states, N)
<1> DEFINE A == Home(rosters)
           B == Away(rosters)
<1>1. \A i \in 1 .. N : Sided(sources[i], pol, A, B)
  BY RowSource
<1> HIDE DEF A, B
<1>2. states \in Seq(StatesOf(A, B)) /\ IsReplay(states, pol, sources, k, n, N)
  BY <1>1, MatchReplayed
<1>3. ASSUME NEW i \in 1 .. N
      PROVE  /\ \E c : states[i] = StepOf(pol, SourceOf(rosters, V[i]), states, i, c)
             /\ Stepped(states[i], pol, SourceOf(rosters, V[i]), TargetOf(pol, states, i))
  <2> DEFINE q == sources[i]
             c == CorrectedFrom(i, k, n)
             S == StatesOf(A, B)
  <2>1. states[i] = StepOf(pol, q, states, i, c)
    BY <1>2 DEF IsReplay
  <2>2. Sided(q, pol, A, B) /\ i \in Nat \ {0}
    BY <1>1
  <2> HIDE DEF q, c, S
  <2>3. states \in Seq(S) /\ Len(states) = N
    BY <1>2 DEF S, IsReplay
  <2>4. \A j \in 1 .. (i - 1) : states[j] \in S
    BY <2>3
  <2>5. Stepped(StepOf(pol, q, states, i, c), pol, q, TargetOf(pol, states, i))
    BY <2>2, <2>4, StepGood DEF S
  <2> QED BY <2>1, <2>5 DEF q
<1>4. Len(states) = N
  BY <1>2 DEF IsReplay
<1> QED BY <1>2, <1>3, <1>4 DEF Corrected, A, B

\* What a correction replayed, and the rows it leaves.
Replayable(pol, rosters, V, states, N) ==
  /\ Capability(pol) /\ Lineups(rosters) /\ N \in Nat /\ N <= Len(pol.sequence)
  /\ \A i \in 1 .. N : RowKept(pol, rosters, V[i]) /\ V[i].side = pol.sequence[i]
  /\ Corrected(pol, rosters, V, states, N)
  /\ \A i \in 1 .. N : states[i].error = None /\ TargetFits(states[i])

Redone(J, pol, rosters, V, states, N) ==
  /\ Played(pol, rosters, J) /\ Len(J) = N /\ StatesIn(J) = states
  /\ \A i \in 1 .. N : J[i].version = V[i].version + 1

LEMMA CorrectKeeps ==
  ASSUME NEW pol, NEW rosters, NEW V, NEW states, NEW N, Replayable(pol, rosters, V, states, N),
         NEW result, NEW J, J = [i \in 1 .. N |-> Rebuilt(V[i], states[i], result)]
  PROVE  Redone(J, pol, rosters, V, states, N)
<1>a. /\ Capability(pol) /\ Lineups(rosters) /\ N \in Nat /\ N <= Len(pol.sequence)
      /\ \A i \in 1 .. N : RowKept(pol, rosters, V[i]) /\ V[i].side = pol.sequence[i]
      /\ Corrected(pol, rosters, V, states, N)
      /\ \A i \in 1 .. N : states[i].error = None /\ TargetFits(states[i])
  BY DEF Replayable
<1> USE <1>a
<1> DEFINE R == Rows(Home(rosters), Away(rosters)) \cup Rows(Away(rosters), Home(rosters))
<1>1. ASSUME NEW i \in 1 .. N
      PROVE  /\ RowKept(pol, rosters, J[i]) /\ J[i].side = pol.sequence[i]
             /\ Linked(J[i]) /\ J[i].state = states[i] /\ J[i] \in R
             /\ SourceOf(rosters, J[i]) = SourceOf(rosters, V[i])
             /\ J[i].version = V[i].version + 1
  <2> DEFINE inn == V[i]
             s == states[i]
             bat == BatOf(rosters, inn)
             field == FieldOf(rosters, inn)
             source == SourceOf(rosters, inn)
             r == J[i]
             t == TargetOf(pol, states, i)
  <2>1. /\ inn \in Rows(bat, field) /\ RowKept(pol, rosters, inn)
        /\ inn.side = pol.sequence[i]
    BY DEF RowKept
  <2>2. Stepped(s, pol, source, t)
    BY DEF Corrected
  <2>3. /\ source.batters = bat /\ source.fielders = field
        /\ source.deliveries = ActiveFacts(inn)
    BY <2>1, RowSource
  <2>4. r = Rebuilt(inn, s, result)
    OBVIOUS
  <2>5. s \in ReplayStates(bat, field)
    BY <2>2, <2>3 DEF Stepped
  <2>6. inn.side \in Sides /\ inn.deliveries \in Seq(Seq(Facts(bat, field)) \ {<<>>})
    BY <2>1, RowTyped
  <2>7. /\ bat \cap field = {} /\ None \notin bat
        /\ (\/ bat = Home(rosters) /\ field = Away(rosters)
            \/ bat = Away(rosters) /\ field = Home(rosters))
    BY <2>6, RowSides
  <2>8. /\ ActiveFacts(inn) \in Seq(Facts(bat, field))
        /\ Len(ActiveFacts(inn)) = Len(inn.deliveries)
    BY <2>6, ActiveFactsTyped
  <2> HIDE DEF inn, s, bat, field, source, r, t
  <2>9. Restored(r, inn, s, bat, field) /\ r.links = Links(inn, s)
    BY <2>1, <2>4, <2>5, RebuiltIs
  <2>10. /\ ActiveFacts(r) = ActiveFacts(inn) /\ r.deliveries = inn.deliveries
         /\ r.state = s /\ r \in Rows(bat, field) /\ r.side = inn.side
    BY <2>9 DEF Restored, ActiveFacts
  <2>11. /\ BatOf(rosters, r) = bat /\ FieldOf(rosters, r) = field
         /\ SourceOf(rosters, r) = source
    BY <2>9, <2>10 DEF BatOf, FieldOf, SourceOf, bat, field, source, Restored
  <2>12. RowKept(pol, rosters, r)
    BY <2>1, <2>10, <2>11 DEF RowKept, bat, field
  <2>13. Linked(r)
    <3> DEFINE a == ActiveFacts(inn)
               l == r.links
               M == Len(s.applied)
    <3>1. /\ l \in [bat -> Nat]
          /\ \A p \in bat :
              /\ l[p] \in 1 .. M \cup {0}
              /\ l[p] = 0 => \A n \in 1 .. M : s.applied[n].out # p
              /\ l[p] # 0 => s.applied[l[p]].out = p
      BY <2>1, <2>5, <2>9, LinksIs
    <3>2. /\ \A n \in 1 .. M : s.applied[n].out = OutOf(a[n])
          /\ \A p \in DOMAIN s.people :
               s.people[p].how # None <=> \E n \in 1 .. M : s.applied[n].out = p
      BY <2>2, <2>3 DEF Stepped, Good, Settled
    <3>3. M <= Len(inn.deliveries) /\ M \in Nat /\ Len(inn.deliveries) \in Nat
      <4>1. M <= Len(a)
        BY <2>2, <2>3 DEF Stepped, Counts
      <4> DEFINE F == Facts(bat, field)
                 C == Classes(bat)
      <4>2. a \in Seq(F) /\ s.applied \in Seq(C)
        BY <2>5, <2>8 DEF ReplayStates
      <4> HIDE DEF F, C, a
      <4>3. M \in Nat /\ Len(a) \in Nat
        BY <4>2
      <4> QED BY <2>8, <4>1, <4>3 DEF a
    <3>4. DOMAIN inn.deliveries = 1 .. Len(inn.deliveries)
      <4> DEFINE F == Seq(Facts(bat, field)) \ {<<>>}
      <4> HIDE DEF F
      <4>1. inn.deliveries \in Seq(F)
        BY <2>6 DEF F
      <4> QED BY <4>1
    <3>5. bat \subseteq DOMAIN s.people /\ DOMAIN l = bat
      BY <2>5, <3>1 DEF ReplayStates
    <3> HIDE DEF a, l, M
    <3>6. ASSUME NEW p \in bat
          PROVE  /\ l[p] \in DOMAIN inn.deliveries \cup {0}
                 /\ l[p] = 0 <=> s.people[p].how = None
                 /\ l[p] # 0 => OutOf(a[l[p]]) = p
      <4>1. l[p] # 0 => l[p] \in 1 .. M
        BY <3>1
      <4>2. l[p] = 0 <=> s.people[p].how = None
        BY <3>1, <3>2, <3>5, <4>1
      <4> QED BY <3>1, <3>2, <3>3, <3>4, <4>1, <4>2
    <3> QED BY <2>10, <3>5, <3>6 DEF Linked, l, a
  <2>14. r \in R
    BY <2>7, <2>10
  <2>15. r.version = inn.version + 1
    BY <2>9 DEF Restored
  <2> QED BY <2>1, <2>10, <2>11, <2>12, <2>13, <2>14, <2>15 DEF r, inn, s, source
<1> HIDE DEF R
<1>2. J \in Seq(R) /\ Len(J) = N /\ DOMAIN J = 1 .. N
  <2>1. DOMAIN J = 1 .. N /\ J = [i \in 1 .. N |-> J[i]]
    OBVIOUS
  <2> QED BY <1>1, <2>1
<1>3. StatesIn(J) = states
  <2> DEFINE S == StatesOf(Home(rosters), Away(rosters))
  <2>1. states \in Seq(S) /\ Len(states) = N
    BY DEF Corrected
  <2> HIDE DEF S
  <2>2. states = [i \in 1 .. N |-> states[i]]
    BY <2>1
  <2>3. StatesIn(J) = [i \in 1 .. N |-> J[i].state]
    BY <1>2 DEF StatesIn
  <2>4. \A i \in 1 .. N : J[i].state = states[i]
    BY <1>1
  <2> HIDE DEF R
  <2> QED BY <2>2, <2>3, <2>4
<1>4. ASSUME NEW i \in 1 .. Len(J)
      PROVE  /\ RowKept(pol, rosters, J[i]) /\ J[i].side = pol.sequence[i]
             /\ Linked(J[i]) /\ TargetFits(J[i].state)
             /\ J[i].state.error = None
             /\ \E c : IsStep(pol, rosters, J, i, c)
  <2>1. i \in 1 .. N
    BY <1>2
  <2>2. PICK c : states[i] = StepOf(pol, SourceOf(rosters, V[i]), states, i, c)
    BY <2>1 DEF Corrected
  <2>3. IsStep(pol, rosters, J, i, c)
    BY <1>1, <1>3, <2>1, <2>2 DEF IsStep
  <2> QED BY <1>1, <2>1, <2>3
<1>5. Played(pol, rosters, J)
  BY <1>1, <1>2, <1>4 DEF Played, R
<1>6. Redone(J, pol, rosters, V, states, N)
  BY <1>1, <1>2, <1>3, <1>5 DEF Redone
<1> QED BY <1>6

-----------------------------------------------------------------------------
(* The invariant.                                                          *)

Lives == {"scheduled", "in_progress", "completed", "abandoned"}
Outcomes == [code : Codes, winner : Sides \cup {None}, margin : Nat]

MatchRows ==
  [version : Nat \ {0}, life : Lives,
   cap : {ResolveCapability(c.request) : c \in Configurations} \cup {None},
   rosters : {c.rosters : c \in Configurations} \cup {<<>>}, result : Outcomes]

\* The policy and the participants are those of one accepted configuration.
Configured(m) ==
  \E c : Accepted(c) /\ m.cap = ResolveCapability(c.request) /\ m.rosters = c.rosters

\* The result is what the innings make it, given that it was decided or not.
Concluded(m, states) ==
  /\ m.life = "scheduled" => states = <<>>
  /\ m.life \in {"scheduled", "in_progress"} => m.result = Pending
  /\ m.life = "in_progress" => DeriveResult(m.cap, states, "in_progress", Pending) = Pending
  /\ m.life = "abandoned" => m.result.code = "no_result"
  /\ m.life = "completed" =>
       /\ m.result.code # "pending"
       /\ m.result = DeriveResult(m.cap, states, "completed", m.result)

\* No view shows a version that an innings has not had, and none but the last
\* shows the version a live innings has.
Viewed(m, I, v) ==
  /\ v \in Seq(Seq(Nat)) /\ Len(v) = m.version
  /\ \A x \in 1 .. m.version :
       /\ Len(v[x]) <= Len(I)
       /\ \A k \in 1 .. Len(v[x]) : v[x][k] <= I[k].version
  /\ m.life = "in_progress" =>
       \A x \in 1 .. (m.version - 1) : \A k \in 1 .. Len(v[x]) :
         I[k].state.life = "in_progress" => v[x][k] < I[k].version

Inv ==
  /\ match \in MatchRows
  /\ cap # None => Configured(match) /\ Played(cap, match.rosters, innings)
  /\ cap = None => innings = <<>>
  /\ Concluded(match, States)
  /\ Viewed(match, innings, views)
  /\ refreshes \subseteq 1 .. match.version /\ lastSaw \in 1 .. match.version

LEMMA ConfiguredIs ==
  ASSUME NEW m, Configured(m)
  PROVE  Capability(m.cap) /\ Lineups(m.rosters)
BY AcceptedIs DEF Configured

LEMMA MatchRowTyped ==
  ASSUME NEW m \in MatchRows
  PROVE  /\ m.version \in Nat \ {0} /\ m.life \in Lives /\ m.result \in Outcomes
         /\ m.result.code \in Codes /\ m.result.winner \in Sides \cup {None}
         /\ m.result.margin \in Nat
BY DEF MatchRows, Outcomes

\* The next version of the row, with a new life and result.
Moved(r, m, life, result) ==
  /\ r \in MatchRows /\ r.version = m.version + 1 /\ r.life = life
  /\ r.result = result /\ r.cap = m.cap /\ r.rosters = m.rosters

LEMMA NextMatchRow ==
  ASSUME NEW m \in MatchRows, NEW life \in Lives, NEW result \in Outcomes
  PROVE  Moved([NextVersion(m) EXCEPT !.life = life, !.result = result], m, life, result)
<1> DEFINE C == {ResolveCapability(c.request) : c \in Configurations} \cup {None}
           R == {c.rosters : c \in Configurations} \cup {<<>>}
           O == Outcomes
           L == Lives
           V == Nat \ {0}
           v == m.version + 1
           q == NextVersion(m)
<1>1. m \in [version : V, life : L, cap : C, rosters : R, result : O]
  BY DEF MatchRows
<1>2. v \in V
  BY MatchRowTyped
<1>3. q = [m EXCEPT !.version = v]
  BY DEF NextVersion
<1> HIDE DEF C, R, O, L, V, v, q
<1>4. /\ q \in [version : V, life : L, cap : C, rosters : R, result : O]
      /\ q.version = v /\ q.cap = m.cap /\ q.rosters = m.rosters
  BY <1>1, <1>2, <1>3
<1>5. life \in L /\ result \in O
  BY DEF L, O
<1> DEFINE r == [q EXCEPT !.life = life, !.result = result]
<1>6. /\ r \in [version : V, life : L, cap : C, rosters : R, result : O]
      /\ r.version = v /\ r.cap = m.cap /\ r.rosters = m.rosters
      /\ r.life = life /\ r.result = result
  BY <1>4, <1>5
<1> QED BY <1>6 DEF Moved, MatchRows, C, R, O, L, V, v, q

\* The replay of a match is a sequence of states, one for each innings.
LEMMA StatesAre ==
  ASSUME NEW pol, Capability(pol), NEW rosters, Lineups(rosters),
         NEW I, Played(pol, rosters, I)
  PROVE  /\ Len(I) \in Nat /\ DOMAIN I = 1 .. Len(I)
         /\ StatesIn(I) \in Seq(StatesOf(Home(rosters), Away(rosters)))
         /\ Len(StatesIn(I)) = Len(I) /\ DOMAIN StatesIn(I) = 1 .. Len(I)
         /\ \A i \in 1 .. Len(I) : StatesIn(I)[i] = I[i].state
<1> DEFINE S == StatesOf(Home(rosters), Away(rosters))
<1>1. Len(I) \in Nat /\ DOMAIN I = 1 .. Len(I)
  BY DEF Played
<1>2. StatesIn(I) = [i \in 1 .. Len(I) |-> I[i].state]
  BY <1>1 DEF StatesIn
<1>3. \A i \in 1 .. Len(I) : I[i].state \in S
  BY PlayedStates
<1> HIDE DEF S
<1>4. StatesIn(I) \in Seq(S) /\ Len(StatesIn(I)) = Len(I) /\ DOMAIN StatesIn(I) = 1 .. Len(I)
  BY <1>1, <1>2, <1>3
<1> QED BY <1>1, <1>2, <1>4 DEF S

LEMMA ResultTyped ==
  ASSUME NEW code \in Codes, NEW winner \in Sides \cup {None}, NEW margin \in Nat
  PROVE  Result(code, winner, margin) \in Outcomes
BY DEF Result, Outcomes

LEMMA SideTotalIs ==
  ASSUME NEW pol, NEW A, NEW B, NEW states \in Seq(StatesOf(A, B)), NEW side
  PROVE  SideTotal(pol, states, side) \in Nat
<1> DEFINE N == Len(states)
           S == StatesOf(A, B)
           g == [n \in 1 .. N |-> IF pol.sequence[n] = side THEN states[n].runs ELSE 0]
<1>1. N \in Nat /\ DOMAIN states = 1 .. N /\ \A n \in 1 .. N : states[n] \in S
  <2> HIDE DEF S
  <2>1. states \in Seq(S)
    BY DEF S
  <2> QED BY <2>1
<1>2. \A n \in 1 .. N : g[n] \in Nat
  <2>1. \A n \in 1 .. N : states[n].runs \in Nat
    BY <1>1 DEF StatesOf, ReplayStates
  <2> HIDE DEF N
  <2> QED BY <2>1
<1>3. SideTotal(pol, states, side) = SeqSum(g)
  BY <1>1 DEF SideTotal, SeqSum
<1> HIDE DEF g, N
<1>4. DOMAIN g = 1 .. N
  BY DEF g
<1>5. N \in Nat
  BY <1>1
<1>6. PICK h : SumPath(h, g, N) /\ \A i \in 0 .. N : h[i] \in Nat
  BY <1>2, <1>4, <1>5, SeqSumIs
<1>7. SeqSum(g) = h[N]
  BY <1>6 DEF SumPath
<1> QED BY <1>3, <1>5, <1>6, <1>7

LEMMA DeriveResultTyped ==
  ASSUME NEW pol, Capability(pol), NEW A, NEW B, NEW states \in Seq(StatesOf(A, B)),
         NEW life, NEW prior \in Outcomes
  PROVE  DeriveResult(pol, states, life, prior) \in Outcomes
<1> DEFINE first  == SideTotal(pol, states, pol.sequence[1])
           second == SideTotal(pol, states, pol.sequence[2])
           last == states[Len(states)]
<1>1. first \in Nat /\ second \in Nat
  BY SideTotalIs
<1>2. /\ pol.sequence[1] \in Sides /\ pol.sequence[2] \in Sides /\ pol.wickets \in Nat
      /\ Len(pol.sequence) >= 2
  BY DEF Capability
<1>3. Pending \in Outcomes
  BY ResultTyped DEF Pending, Codes
<1>4. Result("no_result", None, 0) \in Outcomes
  BY ResultTyped DEF Codes
<1>5. ASSUME AllComplete(states), Len(states) = Len(pol.sequence)
      PROVE  PlayedOut(pol, states) \in Outcomes
  <2>1. last.wickets \in Nat
    <3> DEFINE S == StatesOf(A, B)
    <3>1. states \in Seq(S) /\ Len(states) \in 1 .. Len(states)
      BY <1>2, <1>5
    <3> HIDE DEF S
    <3>2. last \in S
      BY <3>1
    <3> QED BY <3>2 DEF S, StatesOf, ReplayStates
  <2> DEFINE winner == IF first > second THEN pol.sequence[1] ELSE pol.sequence[2]
             a == NotLess(0, pol.wickets - last.wickets)
             b == NotLess(first - second, second - first)
  <2> HIDE DEF first, second, last
  <2>2. winner \in Sides \cup {None} /\ a \in Nat /\ b \in Nat
    BY <1>1, <1>2, <2>1 DEF NotLess
  <2> HIDE DEF winner, a, b
  <2>3. /\ Result("tie", None, 0) \in Outcomes /\ Result("win_by_wickets", winner, a) \in Outcomes
        /\ Result("win_by_runs", winner, b) \in Outcomes
    BY <2>2, ResultTyped DEF Codes
  <2>4. PlayedOut(pol, states) \in
          {Result("tie", None, 0), Result("win_by_wickets", winner, a),
           Result("win_by_runs", winner, b)}
    BY DEF PlayedOut, winner, a, b, first, second, last
  <2> QED BY <2>3, <2>4
<1> QED BY <1>3, <1>4, <1>5 DEF DeriveResult

-----------------------------------------------------------------------------
(* What every command does to the rows it does not decide.                 *)

\* Every accepted command appends a view of versions that have not gone back,
\* and an innings that stays live has a version nobody had seen.
LEMMA ViewedNext ==
  ASSUME NEW m, NEW I, NEW v, Viewed(m, I, v), NEW r, r.version = m.version + 1,
         m.version \in Nat \ {0}, NEW J, DOMAIN J = 1 .. Len(J), Len(J) \in Nat,
         Len(I) \in Nat, Len(I) <= Len(J), \A k \in 1 .. Len(J) : J[k].version \in Nat,
         \A k \in 1 .. Len(I) :
           /\ I[k].version \in Nat /\ I[k].version <= J[k].version
           /\ r.life = "in_progress" /\ J[k].state.life = "in_progress"
                => I[k].version < J[k].version,
         NEW w, w = Append(v, [k \in DOMAIN J |-> J[k].version])
  PROVE  Viewed(r, J, w)
<1> DEFINE N == m.version
           S == Seq(Nat)
           g == [k \in 1 .. Len(J) |-> J[k].version]
<1>1. v \in Seq(S) /\ Len(v) = N /\ N \in Nat
  BY DEF Viewed
<1>2. g \in S /\ Len(g) = Len(J) /\ \A k \in 1 .. Len(J) : g[k] = J[k].version
  OBVIOUS
<1>3. w = Append(v, g)
  OBVIOUS
<1> HIDE DEF S, g
<1>4. /\ w \in Seq(S) /\ Len(w) = N + 1 /\ w[N + 1] = g
      /\ \A x \in 1 .. N : w[x] = v[x] /\ v[x] \in S
  BY <1>1, <1>2, <1>3
<1>5. ASSUME NEW x \in 1 .. N
      PROVE  /\ Len(w[x]) \in Nat /\ Len(w[x]) <= Len(I)
             /\ \A k \in 1 .. Len(w[x]) : w[x][k] \in Nat /\ w[x][k] <= I[k].version
  <2>1. v[x] \in Seq(Nat) /\ Len(v[x]) <= Len(I)
        /\ \A k \in 1 .. Len(v[x]) : v[x][k] <= I[k].version
    BY <1>4 DEF Viewed, S
  <2>2. Len(v[x]) \in Nat /\ \A k \in 1 .. Len(v[x]) : v[x][k] \in Nat
    BY <2>1
  <2> QED BY <1>4, <2>1, <2>2
<1>6. ASSUME NEW x \in 1 .. (N + 1)
      PROVE  Len(w[x]) <= Len(J) /\ \A k \in 1 .. Len(w[x]) : w[x][k] <= J[k].version
  <2>1. CASE x = N + 1
    BY <1>2, <1>4, <2>1
  <2>2. CASE x # N + 1
    <3>1. x \in 1 .. N
      BY <1>1, <2>2
    <3>2. /\ Len(w[x]) \in Nat /\ Len(w[x]) <= Len(I)
          /\ \A k \in 1 .. Len(w[x]) : w[x][k] \in Nat /\ w[x][k] <= I[k].version
      BY <1>5, <3>1
    <3> DEFINE n == Len(w[x])
               l == Len(I)
               g2 == w[x]
    <3>3. n \in Nat /\ l \in Nat /\ Len(J) \in Nat /\ n <= l /\ l <= Len(J)
      BY <3>2
    <3>4. \A k \in 1 .. n : g2[k] \in Nat /\ g2[k] <= I[k].version
      BY <3>2
    <3>5. \A k \in 1 .. l :
            I[k].version \in Nat /\ J[k].version \in Nat /\ I[k].version <= J[k].version
      BY <3>3
    <3> HIDE DEF n, l, g2
    <3>6. n <= Len(J) /\ \A k \in 1 .. n : g2[k] <= J[k].version
      <4>1. n <= Len(J) /\ \A k \in 1 .. n : k \in 1 .. l
        BY <3>3
      <4>2. \A a, b, c \in Nat : a <= b /\ b <= c => a <= c
        OBVIOUS
      <4> QED BY <3>4, <3>5, <4>1, <4>2
    <3> QED BY <3>6 DEF n, g2
  <2> QED BY <2>1, <2>2
<1>7. ASSUME r.life = "in_progress", NEW x \in 1 .. N, NEW k \in 1 .. Len(w[x]),
             J[k].state.life = "in_progress"
      PROVE  w[x][k] < J[k].version
  <2>1. /\ Len(w[x]) \in Nat /\ Len(w[x]) <= Len(I)
        /\ w[x][k] \in Nat /\ w[x][k] <= I[k].version
    BY <1>5
  <2> DEFINE n == Len(w[x])
             l == Len(I)
             z == w[x][k]
             a == I[k].version
             b == J[k].version
  <2>2. k \in 1 .. l
    <3>1. n \in Nat /\ l \in Nat /\ n <= l /\ k \in 1 .. n
      BY <2>1
    <3> HIDE DEF n, l
    <3> QED BY <3>1
  <2>3. /\ I[k].version \in Nat /\ I[k].version < J[k].version
    BY <1>7, <2>2
  <2>4. z \in Nat /\ a \in Nat /\ z <= a /\ a < b
    BY <2>1, <2>3
  <2>5. b \in Nat
    <3>1. l \in Nat /\ l <= Len(J) /\ Len(J) \in Nat
      OBVIOUS
    <3> HIDE DEF l
    <3>2. k \in 1 .. Len(J)
      BY <2>2, <3>1
    <3> QED BY <3>2
  <2> HIDE DEF z, a, b
  <2>6. z < b
    BY <2>4, <2>5
  <2> QED BY <2>6 DEF z, b
<1>8. r.version = N + 1 /\ r.version - 1 = N
  BY <1>1
<1> QED BY <1>4, <1>6, <1>7, <1>8 DEF Viewed, S

\* What the invariant says of the rows of a configured match.
LEMMA InvRows ==
  ASSUME Inv
  PROVE  /\ match \in MatchRows /\ match.version \in Nat \ {0}
         /\ cap = None => innings = <<>>
         /\ cap # None =>
              /\ Configured(match) /\ Capability(cap) /\ Lineups(match.rosters)
              /\ Played(cap, match.rosters, innings)
         /\ Len(innings) \in Nat /\ DOMAIN innings = 1 .. Len(innings)
         /\ States = StatesIn(innings)
         /\ \A k \in 1 .. Len(innings) :
              innings[k].version \in Nat \ {0} /\ States[k] = innings[k].state
<1>1. match \in MatchRows /\ match.version \in Nat \ {0}
  BY MatchRowTyped DEF Inv
<1>2. States = StatesIn(innings)
  BY DEF States, StatesIn
<1>3. cap = None => innings = <<>>
  BY DEF Inv
<1>4. cap # None =>
        /\ Configured(match) /\ Capability(cap) /\ Lineups(match.rosters)
        /\ Played(cap, match.rosters, innings)
  BY ConfiguredIs DEF Inv, cap
<1>5. CASE cap = None
  BY <1>1, <1>2, <1>3, <1>4, <1>5
<1>6. CASE cap # None
  <2>1. Len(innings) \in Nat /\ DOMAIN innings = 1 .. Len(innings)
    BY <1>4, <1>6, StatesAre
  <2>2. ASSUME NEW k \in 1 .. Len(innings)
        PROVE  innings[k].version \in Nat \ {0} /\ States[k] = innings[k].state
    <3>1. innings[k] \in Rows(BatOf(match.rosters, innings[k]), FieldOf(match.rosters, innings[k]))
      BY <1>4, <1>6 DEF Played, RowKept
    <3>2. innings[k].version \in Nat \ {0}
      BY <3>1, RowTyped
    <3> QED BY <2>1, <3>2 DEF States
  <2> QED BY <1>1, <1>2, <1>3, <1>4, <2>1, <2>2
<1> QED BY <1>5, <1>6

LEMMA SourceIs ==
  ASSUME NEW inn
  PROVE  Source(inn) = SourceOf(match.rosters, inn)
BY DEF Source, SourceOf, Batters, Fielders, BatOf, FieldOf, BattingOrder, FieldingOrder

LEMMA PlayerSets ==
  ASSUME NEW inn
  PROVE  /\ Batters(inn) = BatOf(match.rosters, inn)
         /\ Fielders(inn) = FieldOf(match.rosters, inn)
BY DEF Batters, Fielders, BatOf, FieldOf, BattingOrder, FieldingOrder

-----------------------------------------------------------------------------
(* The histories that the commands on a live innings extend.               *)

\* The facts of an observed delivery are those of the people who were there.
LEMMA FactsOfTyped ==
  ASSUME NEW pol, NEW bat, NEW field, NEW s \in ReplayStates(bat, field),
         SelectionsComplete(s), NEW o \in Observations, NEW order,
         WicketFits(FactsOf(o, s, order), field, pol)
  PROVE  FactsOf(o, s, order) \in Facts(bat, field)
<1> DEFINE f == FactsOf(o, s, order)
           w == f.wicket
           G == [who : field, role : Roles]
<1>1. s.striker \in bat /\ s.nonStriker \in bat /\ s.bowler \in field
  BY DEF ReplayStates, SelectionsComplete
<1>2. o \in [bat : Nat, wide : Nat, noBall : Nat, bye : Nat, legBye : Nat, penalty : Nat,
     kind : DismissalTypes \cup {None}, end : {"striker_end", "non_striker_end", None},
     out : {"striker", "nonStriker"},
     by : Seq([who : Nat, role : RunOutRoles \cup {"bowler", "catcher"}])]
  BY ObservationsAssumption
<1>3. /\ o.bat \in Nat /\ o.wide \in Nat /\ o.noBall \in Nat /\ o.bye \in Nat
      /\ o.legBye \in Nat /\ o.penalty \in Nat /\ o.kind \in DismissalTypes \cup {None}
      /\ o.end \in Ends \cup {None}
      /\ o.by \in Seq([who : Nat, role : Roles])
  BY <1>2 DEF Ends, Roles
<1>4. w \in Wickets(bat, field) \cup {None}
  <2> SUFFICES ASSUME w # None PROVE w \in Wickets(bat, field)
    OBVIOUS
  <2> DEFINE by == [n \in DOMAIN o.by |->
                      [who  |-> IF o.by[n].who = 0 THEN s.bowler ELSE order[o.by[n].who],
                       role |-> o.by[n].role]]
             out == IF o.out = "striker" THEN s.striker ELSE s.nonStriker
  <2>1. o.kind # None /\ w = [kind |-> o.kind, end |-> o.end, out |-> out, fielders |-> by]
    BY DEF FactsOf
  <2>2. \A n \in DOMAIN by : by[n].who \in field
    <3>1. w.fielders = by
      <4> HIDE DEF by, out
      <4> QED BY <2>1
    <3> HIDE DEF by
    <3> QED BY <3>1 DEF WicketFits
  <2>3. Len(o.by) \in Nat /\ DOMAIN o.by = 1 .. Len(o.by)
        /\ \A n \in DOMAIN o.by : o.by[n].role \in Roles
    <3> DEFINE q == o.by
               W == [who : Nat, role : Roles]
    <3>1. q \in Seq(W)
      BY <1>3
    <3> HIDE DEF q, W
    <3>2. Len(q) \in Nat /\ DOMAIN q = 1 .. Len(q) /\ \A n \in DOMAIN q : q[n] \in W
      BY <3>1
    <3> QED BY <3>2 DEF q, W
  <2>4. ASSUME NEW n \in 1 .. Len(o.by) PROVE by[n] \in G
    <3>1. by[n].who \in field
      BY <2>2, <2>3
    <3>2. by[n] = [who |-> by[n].who, role |-> o.by[n].role] /\ o.by[n].role \in Roles
      BY <2>3
    <3> HIDE DEF by
    <3> QED BY <3>1, <3>2
  <2>5. DOMAIN by = 1 .. Len(o.by)
    BY <2>3
  <2>6. by = [n \in 1 .. Len(o.by) |-> by[n]]
    BY <2>3
  <2>7. out \in bat
    BY <1>1
  <2> HIDE DEF by, G, out, w, f
  <2>8. by \in Seq(G)
    BY <2>3, <2>4, <2>6
  <2> QED BY <1>3, <2>1, <2>7, <2>8 DEF Wickets, G
<1>5. f = [striker |-> s.striker, nonStriker |-> s.nonStriker, bowler |-> s.bowler,
           bat |-> o.bat, wide |-> o.wide, noBall |-> o.noBall, bye |-> o.bye,
           legBye |-> o.legBye, penalty |-> o.penalty, wicket |-> w]
  BY DEF FactsOf
<1> HIDE DEF f, w
<1> QED BY <1>1, <1>3, <1>4, <1>5 DEF Facts, f

\* The row of an innings with one more transition.
LEMMA RecordedExtends ==
  ASSUME NEW pol, NEW rosters, NEW inn, RowKept(pol, rosters, inn),
         NEW kind, NEW who, NEW mode,
         [kind |-> kind, who |-> who, mode |-> mode, anchor |-> Len(inn.deliveries)]
           \in Transitions(BatOf(rosters, inn), FieldOf(rosters, inn))
  PROVE  Extends(pol, rosters, inn, Recorded(inn, kind, who, mode))
<1> DEFINE bat == BatOf(rosters, inn)
           field == FieldOf(rosters, inn)
           O == {o \in [striker : bat, nonStriker : bat, bowler : field] :
                o.striker # o.nonStriker}
           D == Seq(Seq(Facts(bat, field)) \ {<<>>})
           X == Transitions(bat, field)
           T == Seq(X)
           S == ReplayStates(bat, field)
           V == Nat \ {0}
           L == [bat -> Nat]
           t == [kind |-> kind, who |-> who, mode |-> mode, anchor |-> Len(inn.deliveries)]
           h == Append(inn.transitions, t)
           r == Recorded(inn, kind, who, mode)
<1>1. inn \in [side : Sides, version : V, openers : O, deliveries : D, transitions : T,
               state : S, block : Blocks, revision : Nat, links : L]
  BY DEF Rows, RowKept
<1>2. inn.transitions \in Seq(X) /\ t \in X
  BY <1>1
<1>3. r = [inn EXCEPT !.transitions = h]
  BY DEF Recorded
<1>4. h \in T
  <2> HIDE DEF X, t
  <2> QED BY <1>2
<1> HIDE DEF O, D, X, T, S, V, L, t, h, r
<1>5. /\ r \in [side : Sides, version : V, openers : O, deliveries : D, transitions : T,
                state : S, block : Blocks, revision : Nat, links : L]
      /\ r.side = inn.side /\ r.version = inn.version /\ r.deliveries = inn.deliveries
      /\ r.state = inn.state /\ r.links = inn.links
  BY <1>1, <1>3, <1>4
<1>6. BatOf(rosters, r) = bat /\ FieldOf(rosters, r) = field
  BY <1>5 DEF BatOf, FieldOf
<1>7. r \in Rows(bat, field)
  BY <1>5 DEF Rows, O, D, X, T, S, V, L
<1>8. RowKept(pol, rosters, r)
  BY <1>5, <1>6, <1>7 DEF RowKept
<1>9. ActiveFacts(r) = ActiveFacts(inn)
  BY <1>5 DEF ActiveFacts
<1>10. LinksActive(inn) => LinksActive(r)
  BY <1>5, <1>9 DEF LinksActive
<1> QED BY <1>5, <1>8, <1>10 DEF Extends, r

\* The row of an innings with one more delivery.
WithDelivery(inn, f) ==
  [inn EXCEPT !.deliveries = Append(@, <<f>>),
              !.links = IF f.wicket = None THEN @
                        ELSE [@ EXCEPT ![f.wicket.out] = Len(inn.deliveries) + 1]]

LEMMA OutOfTyped ==
  ASSUME NEW bat, NEW field, NEW f \in Facts(bat, field)
  PROVE  /\ OutOf(f) \in bat \cup {None}
         /\ f.wicket # None => OutOf(f) = f.wicket.out /\ f.wicket.out \in bat
         /\ f.wicket = None => OutOf(f) = None
<1>1. f.wicket \in Wickets(bat, field) \cup {None}
  BY DEF Facts
<1>2. f.wicket # None => f.wicket.out \in bat
  BY <1>1 DEF Wickets
<1> QED BY <1>2 DEF OutOf

LEMMA DeliveryExtends ==
  ASSUME NEW pol, NEW rosters, NEW inn, RowKept(pol, rosters, inn),
         None \notin BatOf(rosters, inn),
         NEW f \in Facts(BatOf(rosters, inn), FieldOf(rosters, inn)),
         Checked(pol, FieldOf(rosters, inn), f)
  PROVE  Extends(pol, rosters, inn, WithDelivery(inn, f))
<1> DEFINE bat == BatOf(rosters, inn)
           field == FieldOf(rosters, inn)
           O == {o \in [striker : bat, nonStriker : bat, bowler : field] :
                o.striker # o.nonStriker}
           F == Facts(bat, field)
           Z == Seq(F) \ {<<>>}
           D == Seq(Z)
           T == Seq(Transitions(bat, field))
           S == ReplayStates(bat, field)
           V == Nat \ {0}
           L == [bat -> Nat]
           d == inn.deliveries
           N == Len(d)
           n == N + 1
           h == Append(d, <<f>>)
           l == inn.links
           g == IF f.wicket = None THEN l ELSE [l EXCEPT ![f.wicket.out] = n]
           r == WithDelivery(inn, f)
<1>1. inn \in [side : Sides, version : V, openers : O, deliveries : D, transitions : T,
               state : S, block : Blocks, revision : Nat, links : L]
  BY DEF Rows, RowKept
<1>2. r = [inn EXCEPT !.deliveries = h, !.links = g]
  BY DEF WithDelivery
<1>3. d \in D /\ l \in L /\ <<f>> \in Z
  <2>1. <<f>> \in Seq(F) /\ <<f>> # <<>>
    <3> HIDE DEF F
    <3>1. f \in F
      BY DEF F
    <3> QED BY <3>1
  <2> HIDE DEF O, D, T, S, V, L, Z, F
  <2>2. d \in D /\ l \in L
    BY <1>1
  <2> QED BY <2>1, <2>2 DEF Z
<1> HIDE DEF F
<1>4. /\ N \in Nat /\ DOMAIN d = 1 .. N /\ h \in D /\ DOMAIN h = 1 .. n /\ Len(h) = n
      /\ h[n] = <<f>> /\ \A i \in 1 .. N : h[i] = d[i] /\ d[i] \in Z
  <2> HIDE DEF Z
  <2> QED BY <1>3
<1>5. f.wicket # None => f.wicket.out \in bat /\ OutOf(f) = f.wicket.out
  BY OutOfTyped
<1>6. g \in L /\ DOMAIN g = bat /\ DOMAIN l = bat
  BY <1>3, <1>4, <1>5
<1> HIDE DEF O, Z, D, T, S, V, L, h, g, r, n
<1>7. /\ r \in [side : Sides, version : V, openers : O, deliveries : D, transitions : T,
                state : S, block : Blocks, revision : Nat, links : L]
      /\ r.side = inn.side /\ r.version = inn.version /\ r.deliveries = h
      /\ r.state = inn.state /\ r.links = g
  BY <1>1, <1>2, <1>4, <1>6
<1>8. BatOf(rosters, r) = bat /\ FieldOf(rosters, r) = field
  BY <1>7 DEF BatOf, FieldOf
<1>9. r \in Rows(bat, field)
  BY <1>7 DEF Rows, O, Z, D, T, S, V, L, F
<1>10. RowKept(pol, rosters, r)
  <2>1. ASSUME NEW i \in DOMAIN h, NEW q \in DOMAIN h[i] PROVE Checked(pol, field, h[i][q])
    <3>1. CASE i = n
      <4>1. q = 1 /\ h[i] = <<f>>
        BY <1>4, <2>1, <3>1
      <4> QED BY <4>1
    <3>2. CASE i # n
      <4>1. i \in DOMAIN d /\ h[i] = d[i]
        BY <1>4, <2>1, <3>2 DEF n
      <4> QED BY <2>1, <4>1 DEF RowKept
    <3> QED BY <3>1, <3>2
  <2> QED BY <1>7, <1>8, <1>9, <2>1 DEF RowKept
<1>11. /\ \A i \in 1 .. N : ActiveFacts(r)[i] = ActiveFacts(inn)[i]
       /\ ActiveFacts(r)[n] = f /\ DOMAIN r.deliveries = 1 .. n /\ DOMAIN inn.deliveries = 1 .. N
  <2>1. Last(<<f>>) = f
    BY DEF Last
  <2>2. \A i \in 1 .. N : i \in 1 .. n
    BY <1>4 DEF n
  <2>3. n \in 1 .. n
    BY <1>4 DEF n
  <2> QED BY <1>4, <1>7, <2>1, <2>2, <2>3 DEF ActiveFacts
<1>12. LinksActive(inn) => LinksActive(r)
  <2> SUFFICES ASSUME LinksActive(inn), NEW p \in bat
               PROVE  /\ g[p] \in 1 .. n \cup {0}
                      /\ g[p] = 0 => \A i \in 1 .. n : OutOf(ActiveFacts(r)[i]) # p
                      /\ g[p] # 0 => OutOf(ActiveFacts(r)[g[p]]) = p
    BY <1>6, <1>7, <1>11 DEF LinksActive
  <2>1. /\ l[p] \in 1 .. N \cup {0}
        /\ l[p] = 0 => \A i \in 1 .. N : OutOf(ActiveFacts(inn)[i]) # p
        /\ l[p] # 0 => OutOf(ActiveFacts(inn)[l[p]]) = p
    BY <1>6, <1>11 DEF LinksActive
  <2>2. n \in 1 .. n /\ n # 0 /\ \A i \in 1 .. n : i = n \/ i \in 1 .. N
    BY <1>4 DEF n
  <2>3. \A i \in 1 .. N : i \in 1 .. n
    BY <1>4 DEF n
  <2>4. CASE OutOf(f) = p
    <3>1. f.wicket # None /\ f.wicket.out = p
      BY <1>5, <2>4 DEF OutOf
    <3>2. g[p] = n
      BY <1>6, <3>1 DEF g
    <3> QED BY <1>11, <2>2, <2>4, <3>2
  <2>5. CASE OutOf(f) # p
    <3>1. g[p] = l[p]
      BY <1>5, <1>6, <2>5 DEF g
    <3> HIDE DEF l, N
    <3>2. g[p] \in 1 .. n \cup {0}
      BY <2>1, <2>3, <3>1
    <3>3. g[p] = 0 => \A i \in 1 .. n : OutOf(ActiveFacts(r)[i]) # p
      BY <1>11, <2>1, <2>2, <2>5, <3>1
    <3>4. g[p] # 0 => OutOf(ActiveFacts(r)[g[p]]) = p
      BY <1>11, <2>1, <3>1
    <3> QED BY <3>2, <3>3, <3>4
  <2> QED BY <2>4, <2>5
<1> QED BY <1>7, <1>10, <1>12 DEF Extends, r

-----------------------------------------------------------------------------
(* The result that follows the innings.                                    *)

LEMMA PlayedOutCode ==
  ASSUME NEW pol, NEW states
  PROVE  PlayedOut(pol, states).code \in {"tie", "win_by_wickets", "win_by_runs"}
BY DEF PlayedOut, Result

\* A derived result is pending, or derived again from the match it completes.
Derivable(pol, states, result) ==
  /\ result.code = "pending" =>
       result = Pending /\ DeriveResult(pol, states, "in_progress", Pending) = Pending
  /\ result.code # "pending" => result = DeriveResult(pol, states, "completed", result)

LEMMA DerivedSettles ==
  ASSUME NEW pol, NEW states, NEW life \in {"in_progress", "completed"}, NEW prior
  PROVE  Derivable(pol, states, DeriveResult(pol, states, life, prior))
<1> DEFINE result == DeriveResult(pol, states, life, prior)
           stuck == \E n \in DOMAIN states : states[n].life = "reconciliation_required"
           played == /\ AllComplete(states) /\ Len(states) = Len(pol.sequence)
                     /\ pol.profile # "other"
<1>1. ASSUME NEW x, NEW y, x # "abandoned"
      PROVE  DeriveResult(pol, states, x, y) =
               IF stuck THEN Pending ELSE IF played THEN PlayedOut(pol, states)
               ELSE IF StillDecided(pol, states, x, y) THEN y ELSE Pending
  BY <1>1 DEF DeriveResult
<1> HIDE DEF stuck, played, result
<1>2. Pending.code = "pending" /\ PlayedOut(pol, states).code # "pending"
  BY PlayedOutCode DEF Pending, Result
<1>3. /\ \A y : ~StillDecided(pol, states, "in_progress", y)
      /\ \A x, y : StillDecided(pol, states, x, y) => y.code # "pending" /\ x = "completed"
  BY DEF StillDecided, ExplicitResults
<1>4. \/ result = Pending /\ stuck
      \/ result = PlayedOut(pol, states) /\ ~stuck /\ played
      \/ result = prior /\ ~stuck /\ ~played /\ StillDecided(pol, states, life, prior)
      \/ result = Pending /\ ~stuck /\ ~played
  BY <1>1 DEF result
<1>5. DeriveResult(pol, states, "in_progress", Pending) =
        IF stuck THEN Pending ELSE IF played THEN PlayedOut(pol, states) ELSE Pending
  BY <1>1, <1>3
<1>6. DeriveResult(pol, states, "completed", result) =
               IF stuck THEN Pending ELSE IF played THEN PlayedOut(pol, states)
               ELSE IF StillDecided(pol, states, "completed", result) THEN result ELSE Pending
  BY <1>1
<1>7. Derivable(pol, states, result)
  BY <1>2, <1>3, <1>4, <1>5, <1>6 DEF Derivable
<1> QED BY <1>7 DEF result

\* A match one of whose innings is live has no result.
LEMMA LivePending ==
  ASSUME NEW pol, NEW states, NEW k \in DOMAIN states, states[k].life # "completed"
  PROVE  DeriveResult(pol, states, "in_progress", Pending) = Pending
<1>1. ~AllComplete(states)
  BY DEF AllComplete
<1>2. ~StillDecided(pol, states, "in_progress", Pending)
  BY DEF StillDecided
<1> QED BY <1>1, <1>2 DEF DeriveResult

\* A derived result and the life it gives the match conclude it.
LEMMA DerivedConcludes ==
  ASSUME NEW pol, NEW states, NEW life \in {"in_progress", "completed"}, NEW prior,
         NEW result, result = DeriveResult(pol, states, life, prior), NEW r,
         r.cap = pol, r.result = result, r.life = MatchLife(result)
  PROVE  Concluded(r, states)
<1>1. Derivable(pol, states, result)
  BY DerivedSettles
<1>2. CASE result.code = "pending"
  <2>1. r.life = "in_progress"
    BY <1>2 DEF MatchLife
  <2> QED BY <1>1, <1>2, <2>1 DEF Concluded, Derivable
<1>3. CASE result.code # "pending"
  <2>1. r.life = "completed"
    BY <1>3 DEF MatchLife
  <2> QED BY <1>1, <1>3, <2>1 DEF Concluded, Derivable
<1> QED BY <1>2, <1>3

LEMMA MatchLifeTyped ==
  ASSUME NEW result
  PROVE  MatchLife(result) \in {"in_progress", "completed"}
BY DEF MatchLife

\* The order in which the row is written does not matter.
LEMMA MatchRowWritten ==
  ASSUME NEW m \in MatchRows, NEW life \in Lives, NEW result \in Outcomes
  PROVE  [NextVersion(m) EXCEPT !.result = result, !.life = life]
           = [NextVersion(m) EXCEPT !.life = life, !.result = result]
<1> DEFINE C == {ResolveCapability(c.request) : c \in Configurations} \cup {None}
           R == {c.rosters : c \in Configurations} \cup {<<>>}
           O == Outcomes
           V == Nat \ {0}
           v == m.version + 1
           q == NextVersion(m)
<1>1. m \in [version : V, life : Lives, cap : C, rosters : R, result : O]
  BY DEF MatchRows
<1>2. v \in V
  BY MatchRowTyped
<1>3. q = [m EXCEPT !.version = v]
  BY DEF NextVersion
<1> HIDE DEF C, R, O, V, v, q
<1>4. q \in [version : V, life : Lives, cap : C, rosters : R, result : O]
  BY <1>1, <1>2, <1>3
<1>5. result \in O
  BY DEF O
<1> HIDE DEF Lives
<1>6. [q EXCEPT !.result = result, !.life = life] = [q EXCEPT !.life = life, !.result = result]
  BY <1>4, <1>5
<1> QED BY <1>6 DEF q

\* A row whose life or result is kept.
LEMMA MatchRowNext ==
  ASSUME NEW m \in MatchRows
  PROVE  /\ NextVersion(m) \in MatchRows /\ NextVersion(m).version = m.version + 1
         /\ NextVersion(m).life = m.life /\ NextVersion(m).result = m.result
         /\ NextVersion(m).cap = m.cap /\ NextVersion(m).rosters = m.rosters
<1> DEFINE C == {ResolveCapability(c.request) : c \in Configurations} \cup {None}
           R == {c.rosters : c \in Configurations} \cup {<<>>}
           V == Nat \ {0}
           v == m.version + 1
           q == NextVersion(m)
<1>1. m \in [version : V, life : Lives, cap : C, rosters : R, result : Outcomes]
  BY DEF MatchRows
<1>2. v \in V
  BY MatchRowTyped
<1>3. q = [m EXCEPT !.version = v]
  BY DEF NextVersion
<1> HIDE DEF C, R, V, v, q, Lives, Outcomes
<1>4. /\ q \in [version : V, life : Lives, cap : C, rosters : R, result : Outcomes]
      /\ q.version = v /\ q.life = m.life /\ q.result = m.result
      /\ q.cap = m.cap /\ q.rosters = m.rosters
  BY <1>1, <1>2, <1>3
<1> QED BY <1>4 DEF MatchRows, C, R, V, v, q

\* What a command that keeps the policy and the participants must show.
LEMMA InvHolds ==
  ASSUME Inv, cap # None, match' \in MatchRows, match'.cap = cap,
         match'.rosters = match.rosters, Played(cap, match.rosters, innings'),
         Concluded(match', StatesIn(innings')), Viewed(match', innings', views'),
         refreshes' \subseteq 1 .. match'.version, lastSaw' \in 1 .. match'.version
  PROVE  Inv'
<1>1. Configured(match')
  BY DEF Inv, Configured, cap
<1>2. cap' = cap
  BY DEF cap
<1>3. States' = StatesIn(innings')
  BY DEF States, StatesIn
<1> QED BY <1>1, <1>2, <1>3 DEF Inv

-----------------------------------------------------------------------------
(* The commands on a live innings keep the invariant.                      *)

\* The states of a played match, as a sequence.
StateRow(I, rosters) ==
  /\ Len(I) \in Nat /\ DOMAIN I = 1 .. Len(I)
  /\ StatesIn(I) \in Seq(StatesOf(Home(rosters), Away(rosters)))
  /\ Len(StatesIn(I)) = Len(I) /\ DOMAIN StatesIn(I) = 1 .. Len(I)
  /\ \A i \in 1 .. Len(I) : StatesIn(I)[i] = I[i].state

LEMMA StateRowIs ==
  ASSUME NEW pol, Capability(pol), NEW rosters, Lineups(rosters),
         NEW I, Played(pol, rosters, I)
  PROVE  StateRow(I, rosters)
BY StatesAre DEF StateRow

\* A match with an innings, none of them left for a correction, is under way.
LEMMA Underway ==
  ASSUME Inv, Progresses, NEW k \in DOMAIN innings
  PROVE  /\ match.life = "in_progress" /\ match.result = Pending /\ cap # None
         /\ k \in 1 .. Len(innings)
         /\ \A j \in 1 .. Len(innings) : innings[j].state.life # "reconciliation_required"
<1>1. DOMAIN States = DOMAIN innings /\ DOMAIN innings = 1 .. Len(innings)
  BY InvRows DEF States
<1>2. match.life # "scheduled"
  <2>1. States # <<>>
    BY <1>1
  <2> QED BY <2>1 DEF Inv, Concluded
<1>3. match.life = "in_progress"
  BY <1>2 DEF Progresses
<1>4. cap # None
  BY InvRows
<1>5. match.result = Pending
  BY <1>3 DEF Inv, Concluded
<1> QED BY <1>1, <1>3, <1>4, <1>5 DEF Progresses

\* The replayed row of a live innings, and what it makes of the innings.
Advanced(J, k, s) ==
  /\ Played(cap, match.rosters, J) /\ Len(J) = Len(innings) /\ k = Len(innings)
  /\ \A j \in 1 .. (k - 1) : J[j] = innings[j] /\ innings[j].state.life = "completed"
  /\ J[k].state = s /\ J[k].version = innings[k].version + 1
  /\ StatesIn(J) = [States EXCEPT ![k] = s]

LEMMA AdvancedRows ==
  ASSUME Inv, Progresses, NEW k \in DOMAIN innings,
         innings[k].state.life = "in_progress", NEW changed,
         Extends(cap, match.rosters, innings[k], changed), NEW s, s = Live(changed),
         s.error = None, NEW J,
         J = [innings EXCEPT ![k] = Persisted(NextVersion(changed), s, match.life)]
  PROVE  Advanced(J, k, s)
<1> DEFINE rosters == match.rosters
           bat == BatOf(rosters, changed)
           field == FieldOf(rosters, changed)
           row == Persisted(NextVersion(changed), s, match.life)
           n == Len(innings)
<1>1. /\ cap # None /\ k \in 1 .. n /\ n \in Nat /\ DOMAIN innings = 1 .. n
      /\ \A j \in 1 .. n : innings[j].state.life # "reconciliation_required"
  BY Underway, InvRows
<1>2. Capability(cap) /\ Lineups(rosters) /\ Played(cap, rosters, innings)
  BY <1>1, InvRows
<1>3. s = ReplayInnings(cap, SourceOf(rosters, changed), changed.state.target, None)
  BY SourceIs DEF Live
<1> HIDE DEF rosters
<1>4. s \in ReplayStates(bat, field) /\ changed \in Rows(bat, field)
  BY <1>1, <1>2, <1>3, ExtendedLive DEF rosters
<1> HIDE DEF bat, field
<1>5. Restored(row, changed, s, bat, field) /\ row.links = changed.links
  BY <1>4, PersistedIs
<1> HIDE DEF row
<1>6. /\ row \in Rows(BatOf(rosters, changed), FieldOf(rosters, changed)) /\ row.state = s
      /\ row.side = changed.side /\ row.openers = changed.openers /\ row.links = changed.links
      /\ row.deliveries = changed.deliveries /\ row.transitions = changed.transitions
      /\ row.version = changed.version + 1
  BY <1>5 DEF Restored, bat, field
<1>7. J = [innings EXCEPT ![k] = row]
  BY DEF row
<1>8. Played(cap, rosters, [innings EXCEPT ![k] = row])
  BY <1>1, <1>2, <1>3, <1>6, AdvanceKeeps DEF rosters
<1>9. k = n /\ \A j \in 1 .. (k - 1) : innings[j].state.life = "completed"
  BY <1>1, <1>2, LastLive
<1> DEFINE K == [innings EXCEPT ![k] = row]
<1>10. /\ DOMAIN K = 1 .. n /\ K[k] = row /\ \A j \in 1 .. n : j # k => K[j] = innings[j]
       /\ \A j \in 1 .. (k - 1) : K[j] = innings[j]
  BY <1>1, <1>9
<1>11. Len(K) = n
  BY <1>1, <1>10
<1> HIDE DEF K
<1>12. StatesIn(K) = [States EXCEPT ![k] = s]
  <2>1. States = [j \in 1 .. n |-> innings[j].state]
    BY <1>1 DEF States
  <2>2. StatesIn(K) = [j \in 1 .. n |-> K[j].state]
    BY <1>10 DEF StatesIn
  <2>3. \A j \in 1 .. n : K[j].state = IF j = k THEN s ELSE innings[j].state
    BY <1>6, <1>10
  <2> QED BY <1>1, <2>1, <2>2, <2>3
<1>13. J = K /\ changed.version = innings[k].version
  BY <1>7 DEF K, Extends
<1> QED BY <1>6, <1>8, <1>9, <1>10, <1>11, <1>12, <1>13 DEF Advanced, K, rosters, n

LEMMA AdvancesKeeps ==
  ASSUME Inv, Progresses, NEW k \in DOMAIN innings,
         innings[k].state.life = "in_progress", NEW changed,
         Extends(cap, match.rosters, innings[k], changed), NEW saw \in Versions,
         Advances(k, changed, saw)
  PROVE  Inv'
<1> DEFINE n == Len(innings)
           J == innings'
<1>1. PICK s : /\ s = Live(changed) /\ ~Fails(s)
               /\ innings' = [innings EXCEPT ![k] = Persisted(NextVersion(changed), s, match.life)]
               /\ \/ /\ s.life = "completed" /\ Ordered
                     /\ \E finished \in {Finished(k, s)} :
                          /\ ResultAllowed(cap, finished.result)
                          /\ match' = finished
                          /\ refreshes' = IF finished.life = "completed"
                               THEN refreshes \cup {match.version + 1} ELSE refreshes
                  \/ s.life # "completed" /\ match' = NextVersion(match) /\ UNCHANGED refreshes
               /\ Seen(saw)
  BY DEF Advances
<1>2. /\ match.life = "in_progress" /\ match.result = Pending /\ cap # None
      /\ k \in 1 .. n
  BY Underway
<1>3. /\ match \in MatchRows /\ match.version \in Nat \ {0} /\ n \in Nat
      /\ DOMAIN innings = 1 .. n /\ Capability(cap) /\ Lineups(match.rosters)
      /\ Played(cap, match.rosters, innings)
      /\ \A j \in 1 .. n : innings[j].version \in Nat \ {0} /\ States[j] = innings[j].state
  BY <1>2, InvRows
<1>4. s.error = None
  BY <1>1 DEF Fails
<1>5. /\ Played(cap, match.rosters, J) /\ Len(J) = n /\ k = n
      /\ \A j \in 1 .. (k - 1) : J[j] = innings[j] /\ innings[j].state.life = "completed"
      /\ J[k].state = s /\ J[k].version = innings[k].version + 1
      /\ StatesIn(J) = [States EXCEPT ![k] = s]
  <2>1. Advanced(J, k, s)
    BY <1>1, <1>4, AdvancedRows
  <2> QED BY <2>1 DEF Advanced
<1>6. /\ StatesIn(J) \in Seq(StatesOf(Home(match.rosters), Away(match.rosters)))
      /\ DOMAIN J = 1 .. n /\ k \in DOMAIN StatesIn(J) /\ StatesIn(J)[k] = s
  <2>1. StateRow(J, match.rosters)
    <3> HIDE DEF J
    <3>1. Capability(cap) /\ Lineups(match.rosters) /\ Played(cap, match.rosters, J)
      BY <1>3, <1>5
    <3> QED BY <3>1, StateRowIs, ZenonT(30)
  <2> QED BY <1>2, <1>5, <2>1 DEF StateRow
<1>7. /\ match' \in MatchRows /\ match'.version = match.version + 1 /\ match'.cap = cap
      /\ match'.rosters = match.rosters /\ match'.life \in {"in_progress", "completed"}
      /\ Concluded(match', StatesIn(J))
      /\ refreshes' \subseteq refreshes \cup {match.version + 1}
  <2>1. CASE s.life = "completed"
    <3> DEFINE result == DeriveResult(cap, StatesIn(J), "in_progress", Pending)
               life == MatchLife(result)
    <3>1. /\ match' = [NextVersion(match) EXCEPT !.result = result, !.life = life]
          /\ refreshes' \subseteq refreshes \cup {match.version + 1}
      BY <1>1, <1>5, <2>1 DEF Finished
    <3>2. result \in Outcomes
      <4>1. Pending \in Outcomes
        BY ResultTyped DEF Pending, Codes
      <4> QED BY <1>3, <1>6, <4>1, DeriveResultTyped
    <3>3. life \in {"in_progress", "completed"}
      BY MatchLifeTyped
    <3>4. life \in Lives
      BY <3>3 DEF Lives
    <3>5. "in_progress" \in {"in_progress", "completed"}
      OBVIOUS
    <3> HIDE DEF life
    <3>6. match' = [NextVersion(match) EXCEPT !.life = life, !.result = result]
      BY <1>3, <3>1, <3>2, <3>4, MatchRowWritten
    <3>7. /\ match' \in MatchRows /\ match'.version = match.version + 1
          /\ match'.life = life /\ match'.result = result /\ match'.cap = match.cap
          /\ match'.rosters = match.rosters
      <4>1. Moved([NextVersion(match) EXCEPT !.life = life, !.result = result],
                  match, life, result)
        BY <1>3, <3>2, <3>4, NextMatchRow
      <4> QED BY <3>6, <4>1 DEF Moved
    <3>8. match'.life = MatchLife(result) /\ match'.cap = cap
      BY <3>7 DEF life, cap
    <3>9. Concluded(match', StatesIn(J))
      BY <3>5, <3>7, <3>8, DerivedConcludes
    <3> QED BY <3>1, <3>3, <3>7, <3>8, <3>9
  <2>2. CASE s.life # "completed"
    <3>1. match' = NextVersion(match) /\ refreshes' = refreshes
      BY <1>1, <2>2
    <3>2. /\ match' \in MatchRows /\ match'.version = match.version + 1
          /\ match'.life = match.life /\ match'.result = match.result
          /\ match'.cap = match.cap /\ match'.rosters = match.rosters
      BY <1>3, <3>1, MatchRowNext
    <3>3. DeriveResult(cap, StatesIn(J), "in_progress", Pending) = Pending
      BY <1>6, <2>2, LivePending
    <3>4. Concluded(match', StatesIn(J))
      BY <1>2, <3>2, <3>3 DEF Concluded, cap
    <3> QED BY <1>2, <3>1, <3>2, <3>4 DEF cap
  <2> QED BY <2>1, <2>2
<1>8. Viewed(match', J, views')
  <2>1. Viewed(match, innings, views)
    BY DEF Inv
  <2>2. views' = Append(views, [j \in DOMAIN J |-> J[j].version])
    BY <1>1 DEF Seen
  <2>3. \A j \in 1 .. n : j = k \/ j \in 1 .. (k - 1)
    BY <1>3, <1>5
  <2>4. ASSUME NEW j \in 1 .. n
        PROVE  /\ innings[j].version \in Nat /\ J[j].version \in Nat
               /\ innings[j].version <= J[j].version
               /\ J[j].state.life = "in_progress" => innings[j].version < J[j].version
    <3>1. innings[j].version \in Nat
      BY <1>3
    <3>2. CASE j = k
      <4> DEFINE a == innings[j].version
                 b == J[j].version
      <4>1. a \in Nat /\ b = a + 1
        BY <1>5, <3>1, <3>2
      <4> HIDE DEF a, b
      <4>2. b \in Nat /\ a <= b /\ a < b
        BY <4>1
      <4> QED BY <4>1, <4>2 DEF a, b
    <3>3. CASE j # k
      <4>1. J[j] = innings[j] /\ innings[j].state.life = "completed"
        BY <1>5, <2>3, <3>3
      <4> QED BY <3>1, <4>1
    <3> QED BY <3>2, <3>3
  <2> HIDE DEF J
  <2>5. DOMAIN J = 1 .. Len(J) /\ Len(J) \in Nat /\ Len(innings) \in Nat
        /\ Len(innings) <= Len(J) /\ Len(J) = n
    BY <1>3, <1>5, <1>6
  <2> QED BY <1>3, <1>7, <2>1, <2>2, <2>4, <2>5, ViewedNext
<1>9. refreshes' \subseteq 1 .. match'.version /\ lastSaw' \in 1 .. match'.version
  <2>1. lastSaw' = saw /\ saw \in 1 .. match.version /\ refreshes \subseteq 1 .. match.version
    BY <1>1 DEF Seen, Versions, Inv
  <2> DEFINE v == match.version
             w == match'.version
  <2>2. v \in Nat /\ w = v + 1
    BY <1>3, <1>7
  <2>3. 1 .. v \subseteq 1 .. w /\ v + 1 \in 1 .. w
    <3> HIDE DEF v, w
    <3> QED BY <2>2
  <2> QED BY <1>7, <2>1, <2>3
<1> QED BY <1>2, <1>5, <1>7, <1>8, <1>9, InvHolds

\* What an innings of a match under way is.
LEMMA LiveRow ==
  ASSUME Inv, NEW k \in DOMAIN innings
  PROVE  /\ RowKept(cap, match.rosters, innings[k])
         /\ innings[k].state \in ReplayStates(Batters(innings[k]), Fielders(innings[k]))
         /\ Batters(innings[k]) = BatOf(match.rosters, innings[k])
         /\ Fielders(innings[k]) = FieldOf(match.rosters, innings[k])
         /\ None \notin Batters(innings[k]) /\ Len(innings[k].deliveries) \in Nat
         /\ Batters(innings[k]) \cap Fielders(innings[k]) = {}
         /\ k \in 1 .. Len(innings) /\ cap # None /\ innings[k].side \in Sides
<1> DEFINE inn == innings[k]
           bat == BatOf(match.rosters, inn)
           field == FieldOf(match.rosters, inn)
<1>1. k \in 1 .. Len(innings) /\ cap # None
  BY InvRows
<1>2. Played(cap, match.rosters, innings) /\ Lineups(match.rosters)
  BY <1>1, InvRows
<1>3. RowKept(cap, match.rosters, inn)
  BY <1>1, <1>2 DEF Played
<1>4. inn \in Rows(bat, field)
  BY <1>3 DEF RowKept
<1> HIDE DEF inn, bat, field
<1>5. /\ inn.state \in ReplayStates(bat, field) /\ inn.side \in Sides
      /\ inn.deliveries \in Seq(Seq(Facts(bat, field)) \ {<<>>})
  BY <1>4, RowTyped
<1>6. Len(inn.deliveries) \in Nat
  <2> DEFINE Z == Seq(Facts(bat, field)) \ {<<>>}
  <2> HIDE DEF Z
  <2>1. inn.deliveries \in Seq(Z)
    BY <1>5 DEF Z
  <2> QED BY <2>1
<1>7. None \notin bat /\ bat \cap field = {}
  BY <1>2, <1>5, RowSides DEF bat, field
<1>8. Batters(inn) = bat /\ Fielders(inn) = field
  BY PlayerSets DEF bat, field
<1> QED BY <1>1, <1>3, <1>5, <1>6, <1>7, <1>8 DEF inn, bat, field

LEMMA AppendDeliveryKeeps ==
  ASSUME Inv, NEW k \in DOMAIN innings, NEW o \in Observations, NEW saw \in Versions,
         AppendDelivery(k, o, saw)
  PROVE  Inv'
<1> DEFINE inn == innings[k]
           f == FactsOf(o, inn.state, FieldingOrder(inn))
           bat == BatOf(match.rosters, inn)
           field == FieldOf(match.rosters, inn)
<1>1. /\ inn.state.life = "in_progress" /\ Progresses
      /\ SelectionsComplete(inn.state) /\ FactsShape(f) /\ WicketFits(f, field, cap)
      /\ Advances(k, WithDelivery(inn, f), saw)
  BY PlayerSets DEF AppendDelivery, InProgress, Claims, WithDelivery
<1>2. /\ RowKept(cap, match.rosters, inn) /\ inn.state \in ReplayStates(bat, field)
      /\ None \notin bat
  BY LiveRow
<1>3. f \in Facts(bat, field)
  <2> HIDE DEF inn, bat, field
  <2> QED BY <1>1, <1>2, FactsOfTyped
<1>4. Checked(cap, field, f)
  BY <1>1 DEF Checked
<1> HIDE DEF f
<1>5. Extends(cap, match.rosters, inn, WithDelivery(inn, f))
  BY <1>2, <1>3, <1>4, DeliveryExtends
<1> QED BY <1>1, <1>5, AdvancesKeeps

\* A recorded transition of somebody of the right side keeps the invariant.
LEMMA RecordedKeeps ==
  ASSUME Inv, Progresses, NEW k \in DOMAIN innings, innings[k].state.life = "in_progress",
         NEW kind, NEW who, NEW mode, NEW saw \in Versions,
         \A a \in Nat : [kind |-> kind, who |-> who, mode |-> mode, anchor |-> a]
                          \in Transitions(Batters(innings[k]), Fielders(innings[k])),
         Advances(k, Recorded(innings[k], kind, who, mode), saw)
  PROVE  Inv'
<1> DEFINE inn == innings[k]
<1>1. /\ RowKept(cap, match.rosters, inn) /\ Len(inn.deliveries) \in Nat
      /\ Batters(inn) = BatOf(match.rosters, inn) /\ Fielders(inn) = FieldOf(match.rosters, inn)
  BY LiveRow
<1>2. [kind |-> kind, who |-> who, mode |-> mode, anchor |-> Len(inn.deliveries)]
        \in Transitions(BatOf(match.rosters, inn), FieldOf(match.rosters, inn))
  BY <1>1
<1>3. Extends(cap, match.rosters, inn, Recorded(inn, kind, who, mode))
  BY <1>1, <1>2, RecordedExtends
<1> QED BY <1>3, AdvancesKeeps

LEMMA SelectNextBatterKeeps ==
  ASSUME Inv, NEW k \in DOMAIN innings, NEW saw \in Versions,
         NEW who \in Batters(innings[k]), NEW replaced, SelectNextBatter(k, who, replaced, saw)
  PROVE  Inv'
<1>1. /\ innings[k].state.life = "in_progress" /\ Progresses
      /\ Advances(k, Recorded(innings[k], "next_batter", who, None), saw)
  BY DEF SelectNextBatter, Claims
<1>2. \A a \in Nat : [kind |-> "next_batter", who |-> who, mode |-> None, anchor |-> a]
                       \in Transitions(Batters(innings[k]), Fielders(innings[k]))
  BY DEF Transitions
<1> QED BY <1>1, <1>2, RecordedKeeps

LEMMA SelectNextBowlerKeeps ==
  ASSUME Inv, NEW k \in DOMAIN innings, NEW saw \in Versions,
         NEW who \in Fielders(innings[k]), NEW overrides,
         SelectNextBowler(k, who, overrides, saw)
  PROVE  Inv'
<1>1. /\ innings[k].state.life = "in_progress" /\ Progresses
      /\ Advances(k, Recorded(innings[k], "next_bowler", who, None), saw)
  BY DEF SelectNextBowler, Claims, InProgress
<1>2. \A a \in Nat : [kind |-> "next_bowler", who |-> who, mode |-> None, anchor |-> a]
                       \in Transitions(Batters(innings[k]), Fielders(innings[k]))
  BY DEF Transitions
<1> QED BY <1>1, <1>2, RecordedKeeps

LEMMA RetirementTransitionKeeps ==
  ASSUME Inv, NEW k \in DOMAIN innings, NEW kind \in Retirements, NEW saw \in Versions,
         NEW who \in Batters(innings[k]), RetirementTransition(k, kind, who, saw)
  PROVE  Inv'
<1>1. /\ innings[k].state.life = "in_progress" /\ Progresses
      /\ Advances(k, Recorded(innings[k], kind, who, None), saw)
  BY DEF RetirementTransition, Claims
<1>2. \A a \in Nat : [kind |-> kind, who |-> who, mode |-> None, anchor |-> a]
                       \in Transitions(Batters(innings[k]), Fielders(innings[k]))
  BY DEF Transitions
<1> QED BY <1>1, <1>2, RecordedKeeps

LEMMA CompleteInningsKeeps ==
  ASSUME Inv, NEW k \in DOMAIN innings, NEW mode, NEW saw \in Versions,
         CompleteInnings(k, mode, saw)
  PROVE  Inv'
<1> DEFINE inn == innings[k]
<1>1. PICK automatic :
        /\ inn.state.life = "in_progress" /\ Progresses
        /\ Advances(k, IF automatic = None
                      THEN Recorded(inn, "innings_completed", None, RecordedMode) ELSE inn, saw)
  BY DEF CompleteInnings, Claims
<1>2. CASE automatic = None
  <2>1. RecordedMode \in ExplicitModes
    BY DEF RecordedMode, ExplicitModes
  <2>2. \A a \in Nat : [kind |-> "innings_completed", who |-> None, mode |-> RecordedMode,
                        anchor |-> a] \in Transitions(Batters(inn), Fielders(inn))
    BY <2>1 DEF Transitions
  <2>3. Advances(k, Recorded(inn, "innings_completed", None, RecordedMode), saw)
    BY <1>1, <1>2
  <2> QED BY <1>1, <2>2, <2>3, RecordedKeeps
<1>3. CASE automatic # None
  <2>1. Extends(cap, match.rosters, inn, inn)
    BY LiveRow DEF Extends
  <2>2. Advances(k, inn, saw)
    BY <1>1, <1>3
  <2> QED BY <1>1, <2>1, <2>2, AdvancesKeeps
<1> QED BY <1>2, <1>3

-----------------------------------------------------------------------------
(* The commands on the match itself keep the invariant.                    *)

\* The match row with a new life.
LEMMA MatchRowLife ==
  ASSUME NEW m \in MatchRows, NEW life \in Lives
  PROVE  Moved([NextVersion(m) EXCEPT !.life = life], m, life, m.result)
<1> DEFINE C == {ResolveCapability(c.request) : c \in Configurations} \cup {None}
           R == {c.rosters : c \in Configurations} \cup {<<>>}
           V == Nat \ {0}
           q == NextVersion(m)
           r == [q EXCEPT !.life = life]
<1>1. /\ q \in [version : V, life : Lives, cap : C, rosters : R, result : Outcomes]
      /\ q.version = m.version + 1 /\ q.result = m.result
      /\ q.cap = m.cap /\ q.rosters = m.rosters
  BY MatchRowNext DEF MatchRows
<1> HIDE DEF C, R, V, q, Lives, Outcomes
<1>2. /\ r \in [version : V, life : Lives, cap : C, rosters : R, result : Outcomes]
      /\ r.version = q.version /\ r.life = life /\ r.result = q.result
      /\ r.cap = q.cap /\ r.rosters = q.rosters
  BY <1>1
<1> HIDE DEF r
<1>3. Moved(r, m, life, m.result)
  BY <1>1, <1>2 DEF Moved, MatchRows, C, R, V
<1> QED BY <1>3 DEF r, q

\* The match row with its policy and its participants.
Locked(r, m, c) ==
  /\ r \in MatchRows /\ r.version = m.version + 1 /\ r.life = m.life
  /\ r.result = m.result /\ r.cap = ResolveCapability(c.request)
  /\ r.rosters = c.rosters

LEMMA MatchRowConfigured ==
  ASSUME NEW m \in MatchRows, NEW c \in Configurations
  PROVE  Locked([NextVersion(m) EXCEPT !.cap = ResolveCapability(c.request),
                                       !.rosters = c.rosters], m, c)
<1> DEFINE C == {ResolveCapability(d.request) : d \in Configurations} \cup {None}
           R == {d.rosters : d \in Configurations} \cup {<<>>}
           V == Nat \ {0}
           q == NextVersion(m)
           x == ResolveCapability(c.request)
           y == c.rosters
           r == [q EXCEPT !.cap = x, !.rosters = y]
<1>1. /\ q \in [version : V, life : Lives, cap : C, rosters : R, result : Outcomes]
      /\ q.version = m.version + 1 /\ q.result = m.result /\ q.life = m.life
  BY MatchRowNext DEF MatchRows
<1>2. x \in C /\ y \in R
  OBVIOUS
<1> HIDE DEF C, R, V, q, x, y, Lives, Outcomes
<1>3. /\ r \in [version : V, life : Lives, cap : C, rosters : R, result : Outcomes]
      /\ r.version = q.version /\ r.life = q.life /\ r.result = q.result
      /\ r.cap = x /\ r.rosters = y
  BY <1>1, <1>2
<1> HIDE DEF r
<1>4. Locked(r, m, c)
  BY <1>1, <1>3 DEF Locked, MatchRows, C, R, V, x, y
<1> QED BY <1>4 DEF r, q, x, y

LEMMA PendingTyped == Pending \in Outcomes
BY ResultTyped DEF Pending, Codes

LEMMA InitHolds == Init => Inv
<1> SUFFICES ASSUME Init PROVE Inv
  OBVIOUS
<1>1. /\ match = [version |-> 1, life |-> "scheduled", cap |-> None, rosters |-> <<>>,
                  result |-> Pending]
      /\ innings = <<>> /\ refreshes = {} /\ views = << <<>> >> /\ lastSaw = 1
  BY DEF Init
<1>2. /\ match.version = 1 /\ match.life = "scheduled" /\ match.cap = None
      /\ match.result = Pending
  BY <1>1
<1>3. match \in MatchRows
  BY <1>1, PendingTyped DEF MatchRows, Lives
<1>4. States = <<>>
  BY <1>1 DEF States
<1>5. Viewed(match, innings, views)
  <2>1. <<>> \in Seq(Nat)
    OBVIOUS
  <2>2. views \in Seq(Seq(Nat)) /\ Len(views) = 1 /\ views[1] = <<>>
    BY <1>1, <2>1
  <2>3. Len(views[1]) = 0 /\ Len(innings) = 0
    BY <1>1, <2>2
  <2> QED BY <1>2, <2>2, <2>3 DEF Viewed
<1>6. Concluded(match, States)
  BY <1>2, <1>4 DEF Concluded
<1> QED BY <1>1, <1>2, <1>3, <1>5, <1>6 DEF Inv, cap

LEMMA ViewsKept ==
  ASSUME Inv, NEW saw, Seen(saw), innings' = innings, match'.version = match.version + 1,
         innings = <<>> \/ match'.life # "in_progress"
  PROVE  Viewed(match', innings', views')
<1>1. /\ Len(innings) \in Nat /\ DOMAIN innings = 1 .. Len(innings)
      /\ match.version \in Nat \ {0}
      /\ \A j \in 1 .. Len(innings) : innings[j].version \in Nat \ {0}
  BY InvRows
<1>2. Viewed(match, innings, views)
  BY DEF Inv
<1>3. views' = Append(views, [j \in DOMAIN innings' |-> innings'[j].version])
  BY DEF Seen
<1>4. \A j \in 1 .. Len(innings) : /\ innings[j].version \in Nat
                                   /\ innings[j].version <= innings[j].version
  BY <1>1
<1>5. ASSUME NEW j \in 1 .. Len(innings) PROVE match'.life # "in_progress"
  <2>1. innings # <<>>
    BY <1>1
  <2> QED BY <2>1
<1>6. /\ DOMAIN innings' = 1 .. Len(innings') /\ Len(innings') \in Nat
      /\ Len(innings) <= Len(innings')
      /\ \A j \in 1 .. Len(innings') : innings'[j].version \in Nat
  BY <1>1
<1>7. \A j \in 1 .. Len(innings) :
        /\ innings[j].version \in Nat /\ innings[j].version <= innings'[j].version
        /\ match'.life = "in_progress" /\ innings'[j].state.life = "in_progress"
             => innings[j].version < innings'[j].version
  BY <1>4, <1>5
<1> QED BY <1>1, <1>2, <1>3, <1>6, <1>7, ViewedNext

LEMMA VersionsGrow ==
  ASSUME Inv, NEW saw \in Versions, Seen(saw), match'.version = match.version + 1,
         refreshes' \subseteq refreshes \cup {match.version + 1}
  PROVE  refreshes' \subseteq 1 .. match'.version /\ lastSaw' \in 1 .. match'.version
<1>1. lastSaw' = saw /\ saw \in 1 .. match.version /\ refreshes \subseteq 1 .. match.version
  BY DEF Seen, Versions, Inv
<1> DEFINE v == match.version
           w == match'.version
<1>2. v \in Nat /\ w = v + 1
  BY InvRows
<1>3. 1 .. v \subseteq 1 .. w /\ v + 1 \in 1 .. w
  <2> HIDE DEF v, w
  <2> QED BY <1>2
<1> QED BY <1>1, <1>3

LEMMA ConfigureMatchKeeps ==
  ASSUME Inv, NEW c \in Configurations, NEW saw \in Versions, ConfigureMatch(c, saw)
  PROVE  Inv'
<1>1. /\ cap = None /\ match.life = "scheduled" /\ Accepted(c)
      /\ match' = [NextVersion(match) EXCEPT !.cap = ResolveCapability(c.request),
                                             !.rosters = c.rosters]
      /\ innings' = innings /\ refreshes' = refreshes /\ Seen(saw)
  BY DEF ConfigureMatch, Accepted
<1>2. match \in MatchRows /\ match.version \in Nat \ {0} /\ innings = <<>>
  BY <1>1, InvRows
<1>3. /\ match' \in MatchRows /\ match'.version = match.version + 1
      /\ match'.life = match.life /\ match'.result = match.result
      /\ match'.cap = ResolveCapability(c.request) /\ match'.rosters = c.rosters
  <2>1. Locked([NextVersion(match) EXCEPT !.cap = ResolveCapability(c.request),
                                          !.rosters = c.rosters], match, c)
    BY <1>2, MatchRowConfigured
  <2> QED BY <1>1, <2>1 DEF Locked
<1>4. Configured(match')
  BY <1>1, <1>3 DEF Configured
<1>5. Played(match'.cap, match'.rosters, <<>>)
  <2>1. Len(match'.cap.sequence) >= 0
    <3>1. Capability(match'.cap)
      BY <1>4, ConfiguredIs
    <3> QED BY <3>1 DEF Capability
  <2> DEFINE R == Rows(Home(match'.rosters), Away(match'.rosters))
                    \cup Rows(Away(match'.rosters), Home(match'.rosters))
  <2>2. <<>> \in Seq(R) /\ Len(<<>>) = 0 /\ 1 .. Len(<<>>) = {}
    OBVIOUS
  <2> HIDE DEF R
  <2>3. <<>> \in Seq(R) /\ Len(<<>>) <= Len(match'.cap.sequence) /\ 1 .. Len(<<>>) = {}
    BY <2>1, <2>2
  <2> QED BY <2>3 DEF Played, R
<1>6. States' = <<>>
  BY <1>1, <1>2 DEF States
<1>7. Concluded(match', States')
  <2>1. match.result = Pending
    BY <1>1 DEF Inv, Concluded
  <2> QED BY <1>1, <1>3, <1>6, <2>1 DEF Concluded
<1>8. Viewed(match', innings', views')
  BY <1>1, <1>2, <1>3, ViewsKept
<1>9. refreshes' \subseteq 1 .. match'.version /\ lastSaw' \in 1 .. match'.version
  BY <1>1, <1>3, VersionsGrow
<1> QED BY <1>1, <1>2, <1>3, <1>4, <1>5, <1>7, <1>8, <1>9 DEF Inv, cap

\* The row of an innings that starts, with its replay.
Started(r, side, target) ==
  /\ r.side = side /\ r.version = 1
  /\ RowKept(cap, match.rosters, r) /\ Linked(r) /\ TargetFits(r.state)
  /\ r.state.error = None /\ r.state.life = "in_progress"
  /\ r.state = ReplayInnings(cap, SourceOf(match.rosters, r), target, None)

LEMMA UnplayedReplay ==
  ASSUME NEW pol, NEW bat, NEW field, NEW source \in SourceRows(bat, field), NEW target, NEW c
  PROVE  ReplayInnings(pol, Unplayed(source), target, c)
           = Opening(pol, bat, field, source.openers, target)
BY UnplayedIs

LEMMA StartedRow ==
  ASSUME Inv, cap # None, NEW side \in Sides, NEW bat, bat = ToSet(match.rosters[side]),
         NEW field, field = ToSet(match.rosters[Opposite(side)]),
         NEW o \in [striker : bat, nonStriker : bat, bowler : field],
         o.striker # o.nonStriker, NEW target \in Nat \cup {None},
         target # None => target <= RunMax, NEW started,
         started = [side |-> side, version |-> 1, openers |-> o,
                    deliveries |-> <<>>, transitions |-> <<>>,
                    state |-> Opening(cap, bat, field, o, target),
                    block |-> "none", revision |-> 0, links |-> [p \in bat |-> 0]],
         NEW life
  PROVE  Started(Persisted(started, Live(started), life), side, target)
<1> DEFINE rosters == match.rosters
           fresh == Opening(cap, bat, field, o, target)
           O == {x \in [striker : bat, nonStriker : bat, bowler : field] :
                x.striker # x.nonStriker}
           Z == Seq(Facts(bat, field)) \ {<<>>}
           X == Transitions(bat, field)
           D == Seq(Z)
           T == Seq(X)
           S == ReplayStates(bat, field)
           V == Nat \ {0}
           L == [bat -> Nat]
           l == [p \in bat |-> 0]
<1>1. Capability(cap) /\ Lineups(rosters)
  BY InvRows
<1>2. fresh \in S
  BY OpeningTyped
<1>3. l \in L /\ o \in O /\ <<>> \in D /\ <<>> \in T /\ 1 \in V /\ 0 \in Nat
  OBVIOUS
<1>4. "none" \in Blocks
  BY DEF Blocks
<1>5. started = [side |-> side, version |-> 1, openers |-> o, deliveries |-> <<>>,
                 transitions |-> <<>>, state |-> fresh, block |-> "none", revision |-> 0,
                 links |-> l]
  OBVIOUS
<1> HIDE DEF O, Z, X, D, T, S, V, L, l, fresh
<1>6. /\ started \in [side : Sides, version : V, openers : O, deliveries : D, transitions : T,
                      state : S, block : Blocks, revision : Nat, links : L]
      /\ started.side = side /\ started.openers = o /\ started.deliveries = <<>>
      /\ started.transitions = <<>> /\ started.state = fresh /\ started.links = l
      /\ started.version = 1 /\ started.revision = 0
  BY <1>2, <1>3, <1>4, <1>5
<1>7. BatOf(rosters, started) = bat /\ FieldOf(rosters, started) = field
  BY <1>6 DEF BatOf, FieldOf
<1>8. started \in Rows(bat, field)
  BY <1>6 DEF Rows, O, Z, X, D, T, S, V, L
<1>9. RowKept(cap, rosters, started)
  BY <1>6, <1>7, <1>8 DEF RowKept
<1> DEFINE source == SourceOf(rosters, started)
<1>10. /\ source \in SourceRows(bat, field)
       /\ Sided(source, cap, Home(rosters), Away(rosters))
       /\ source.batters = bat /\ source.fielders = field
  BY <1>1, <1>7, <1>9, RowSource
<1>11. /\ source.deliveries = <<>> /\ source.transitions = <<>> /\ source.openers = o
  BY <1>6 DEF SourceOf, ActiveFacts
<1>12. Live(started) = ReplayInnings(cap, source, target, None)
  <2>1. started.state.target = target
    BY <1>6 DEF fresh, Opening
  <2> QED BY <2>1, SourceIs DEF Live
<1> HIDE DEF source
<1>13. Live(started) = fresh
  <2>1. Unplayed(source) = source
    <3> DEFINE FF == Seq(Facts(bat, field))
    <3>1. source \in [side : Sides, batters : {bat}, fielders : {field}, openers : O,
                      deliveries : FF, transitions : T]
      BY <1>10 DEF SourceRows, O, T, X
    <3> HIDE DEF FF
    <3>2. [source EXCEPT !.deliveries = <<>>, !.transitions = <<>>] = source
      BY <1>11, <3>1
    <3> QED BY <3>2 DEF Unplayed
  <2>2. ReplayInnings(cap, Unplayed(source), target, None) = Opening(cap, bat, field, source.openers, target)
    BY <1>10, UnplayedReplay
  <2> QED BY <1>11, <1>12, <2>1, <2>2 DEF fresh
<1>14. Opened(fresh, cap, target, bat, field, source.deliveries)
  <2>1. /\ Sourced(source, bat, field)
        /\ Playable(cap, bat, field, source.deliveries, target)
    BY <1>10, SidedPlayable
  <2>2. Opened(Opening(cap, bat, field, source.openers, target), cap, target, bat, field,
               source.deliveries)
    BY <2>1, OpeningGood
  <2> QED BY <1>11, <2>2 DEF fresh
<1> DEFINE x == Live(started)
           b == InningsBlocking(cap, Source(started), x, life)
           w == started.revision + 1
           row == [started EXCEPT !.state = x, !.block = b, !.revision = w]
<1>15. Persisted(started, Live(started), life) = row
  BY DEF Persisted
<1>16. b \in Blocks /\ w \in Nat /\ x \in S
  BY <1>2, <1>6, <1>13 DEF InningsBlocking, Blocking, Blocks
<1> HIDE DEF b, w, x
<1>17. /\ row \in [side : Sides, version : V, openers : O, deliveries : D, transitions : T,
                   state : S, block : Blocks, revision : Nat, links : L]
       /\ row.side = side /\ row.openers = o /\ row.deliveries = <<>>
       /\ row.transitions = <<>> /\ row.state = x /\ row.links = l /\ row.version = 1
  BY <1>6, <1>16
<1> HIDE DEF row
<1>18. BatOf(rosters, row) = bat /\ FieldOf(rosters, row) = field
  BY <1>17 DEF BatOf, FieldOf
<1>19. row \in Rows(bat, field)
  BY <1>17 DEF Rows, O, Z, X, D, T, S, V, L
<1>20. RowKept(cap, rosters, row)
  BY <1>17, <1>18, <1>19 DEF RowKept
<1>21. x = fresh
  BY <1>13 DEF x
<1>22. Linked(row)
  <2>1. ASSUME NEW p \in bat PROVE fresh.people[p].how = None
    <3>1. Settled(fresh, cap, target, source.deliveries) /\ fresh.applied = <<>>
      BY <1>14 DEF Opened, Good
    <3>2. bat \subseteq DOMAIN fresh.people
      BY <1>2 DEF S, ReplayStates
    <3>3. \A n \in 1 .. Len(fresh.applied) : FALSE
      BY <3>1
    <3> QED BY <3>1, <3>2, <3>3 DEF Settled
  <2>2. DOMAIN row.links = bat /\ \A p \in bat : row.links[p] = 0
    BY <1>17 DEF l
  <2> QED BY <1>17, <1>21, <2>1, <2>2 DEF Linked
<1>23. fresh.target = target /\ fresh.error = None /\ fresh.life = "in_progress"
  BY DEF fresh, Opening
<1>24. SourceOf(rosters, row) = source
  BY <1>6, <1>17, <1>7, <1>18 DEF SourceOf, source, ActiveFacts
<1>25. TargetFits(fresh)
  BY <1>23 DEF TargetFits
<1>26. Started(row, side, target)
  BY <1>12, <1>13, <1>17, <1>20, <1>21, <1>22, <1>23, <1>24, <1>25 DEF Started, rosters
<1> HIDE DEF rosters
<1> QED BY <1>15, <1>26

\* The innings that starts, whatever it chases, follows completed ones.
LEMMA TargetTyped ==
  ASSUME Inv, cap # None, NEW k, k = Len(innings) + 1
  PROVE  Target(cap, k, States) \in Nat \cup {None}
<1>1. CASE k = 2 /\ cap.chase
  <2>1. Len(innings) \in Nat /\ States[1] = innings[1].state /\ DOMAIN innings = 1 .. Len(innings)
    BY <1>1, InvRows
  <2>2. 1 \in DOMAIN innings
    BY <1>1, <2>1
  <2>3. innings[1].state \in ReplayStates(Batters(innings[1]), Fielders(innings[1]))
    BY <2>2, LiveRow
  <2>4. innings[1].state.runs \in Nat
    BY <2>3 DEF ReplayStates
  <2>5. Target(cap, k, States) = innings[1].state.runs + 1
    BY <1>1, <2>1 DEF Target
  <2> QED BY <2>4, <2>5
<1>2. CASE ~(k = 2 /\ cap.chase)
  BY <1>2 DEF Target
<1> QED BY <1>1, <1>2

LEMMA StartInningsKeeps ==
  ASSUME Inv, NEW opening, NEW saw \in Versions, StartInnings(opening, saw)
  PROVE  Inv'
<1> DEFINE n == Len(innings)
           k == n + 1
           side == cap.sequence[k]
           order == match.rosters[side]
           against == match.rosters[Opposite(side)]
           bat == ToSet(order)
           field == ToSet(against)
           o == [striker |-> order[opening.striker],
                 nonStriker |-> order[opening.nonStriker],
                 bowler |-> against[opening.bowler]]
           target == Target(cap, k, States)
           started == [side |-> side, version |-> 1, openers |-> o,
                       deliveries |-> <<>>, transitions |-> <<>>,
                       state |-> Opening(cap, bat, field, o, target),
                       block |-> "none", revision |-> 0, links |-> [p \in bat |-> 0]]
           row == Persisted(started, Live(started), "in_progress")
           J == Append(innings, row)
<1>1. /\ cap # None /\ Progresses /\ k <= Len(cap.sequence)
      /\ k > 1 => innings[k - 1].state.life = "completed"
      /\ OpenersFit(o, bat, field)
      /\ target # None => target <= RunMax
      /\ match' = [NextVersion(match) EXCEPT !.life = "in_progress"]
      /\ innings' = J /\ refreshes' = refreshes /\ Seen(saw)
  BY DEF StartInnings
<1>2. /\ match \in MatchRows /\ match.version \in Nat \ {0} /\ n \in Nat
      /\ DOMAIN innings = 1 .. n /\ Capability(cap) /\ Lineups(match.rosters)
      /\ Played(cap, match.rosters, innings)
      /\ \A j \in 1 .. n : innings[j].version \in Nat \ {0} /\ States[j] = innings[j].state
  BY <1>1, InvRows
<1>3. k \in 1 .. Len(cap.sequence) /\ side \in Sides
  <2> DEFINE q == cap.sequence
  <2>1. q \in Seq(Sides) /\ k \in Nat /\ k >= 1 /\ k <= Len(q)
    <3>1. q \in Seq(Sides) /\ k <= Len(q) /\ n \in Nat
      BY <1>1, <1>2 DEF Capability
    <3> HIDE DEF q, n
    <3> QED BY <3>1
  <2> HIDE DEF q, k
  <2>2. k \in 1 .. Len(q) /\ q[k] \in Sides
    BY <2>1
  <2> QED BY <2>2 DEF q
<1>4. o \in [striker : bat, nonStriker : bat, bowler : field] /\ o.striker # o.nonStriker
  <2> DEFINE a == order[opening.striker]
             b == order[opening.nonStriker]
             c == against[opening.bowler]
  <2>1. o = [striker |-> a, nonStriker |-> b, bowler |-> c]
    OBVIOUS
  <2>2. o.striker \in bat /\ o.nonStriker \in bat /\ o.striker # o.nonStriker /\ o.bowler \in field
    <3>1. OpenersFit(o, bat, field)
      BY <1>1
    <3> HIDE DEF o, bat, field
    <3> QED BY <3>1 DEF OpenersFit
  <2> HIDE DEF a, b, c, o, bat, field
  <2> QED BY <2>1, <2>2
<1>5. target \in Nat \cup {None}
  BY <1>1, TargetTyped
<1>6. Started(row, side, target)
  <2>1. bat = ToSet(match.rosters[side]) /\ field = ToSet(match.rosters[Opposite(side)])
    OBVIOUS
  <2>2. started = [side |-> side, version |-> 1, openers |-> o,
                   deliveries |-> <<>>, transitions |-> <<>>,
                   state |-> Opening(cap, bat, field, o, target),
                   block |-> "none", revision |-> 0, links |-> [p \in bat |-> 0]]
    OBVIOUS
  <2> HIDE DEF o, target, side, bat, field, started
  <2> QED BY <1>1, <1>3, <1>4, <1>5, <2>1, <2>2, StartedRow
<1>7. \A j \in 1 .. n : innings[j].state.life = "completed"
  <2> SUFFICES ASSUME NEW j \in 1 .. n, innings[j].state.life # "completed" PROVE FALSE
    OBVIOUS
  <2>1. n \in 1 .. n /\ n > 0 /\ k - 1 = n /\ k > 1
    BY <1>2
  <2>2. innings[n].state.life = "completed"
    BY <1>1, <2>1
  <2>3. j \in 1 .. (n - 1)
    <3>1. j # n
      BY <2>2
    <3> HIDE DEF n
    <3> QED BY <1>2, <3>1
  <2> HIDE DEF n
  <2>4. n \in 1 .. Len(innings)
    BY <2>1 DEF n
  <2>5. innings[n].state.life = "reconciliation_required"
    BY <1>2, <2>3, <2>4, OrderKept
  <2> QED BY <2>2, <2>5
<1>8. /\ k \in Nat \ {0} /\ States = StatesIn(innings) /\ target = Target(cap, k, StatesIn(innings))
  BY <1>2, InvRows
<1> HIDE DEF row
<1>9. /\ RowKept(cap, match.rosters, row) /\ row.side = side /\ Linked(row)
      /\ TargetFits(row.state) /\ row.state.error = None /\ row.state.life = "in_progress"
      /\ row.state = ReplayInnings(cap, SourceOf(match.rosters, row),
                                   Target(cap, k, StatesIn(innings)), None)
      /\ row.version = 1
  BY <1>6, <1>8 DEF Started
<1> HIDE DEF target
<1>10. Played(cap, match.rosters, J)
  BY <1>1, <1>2, <1>7, <1>8, <1>9, StartKeeps
<1>11. Len(J) = k /\ DOMAIN J = 1 .. k /\ J[k] = row /\ \A j \in 1 .. n : J[j] = innings[j]
  <2>1. StateRow(innings, match.rosters)
    BY <1>2, StateRowIs
  <2>2. innings \in Seq(Rows(Home(match.rosters), Away(match.rosters))
                          \cup Rows(Away(match.rosters), Home(match.rosters)))
    BY <1>2 DEF Played
  <2> DEFINE R == Rows(Home(match.rosters), Away(match.rosters))
                          \cup Rows(Away(match.rosters), Home(match.rosters))
  <2> HIDE DEF R
  <2>3. innings \in Seq(R)
    BY <2>2 DEF R
  <2> QED BY <2>3
<1>12. StateRow(J, match.rosters)
  <2> HIDE DEF J
  <2> QED BY <1>2, <1>10, StateRowIs
<1>13. k \in DOMAIN StatesIn(J) /\ StatesIn(J)[k].life = "in_progress"
  <2>1. k \in 1 .. Len(J)
    BY <1>2, <1>11
  <2> QED BY <1>9, <1>11, <1>12, <2>1 DEF StateRow
<1>14. Moved(match', match, "in_progress", match.result)
  <2>1. "in_progress" \in Lives
    BY DEF Lives
  <2> QED BY <1>1, <1>2, <2>1, MatchRowLife
<1>15. match.result = Pending
  BY <1>1 DEF Inv, Concluded, Progresses
<1>16. Concluded(match', StatesIn(innings'))
  <2>1. DeriveResult(cap, StatesIn(J), "in_progress", Pending) = Pending
    BY <1>13, LivePending
  <2> QED BY <1>1, <1>14, <1>15, <2>1 DEF Concluded, Moved, cap
<1>17. Viewed(match', innings', views')
  <2>1. Viewed(match, innings, views)
    BY DEF Inv
  <2>2. views' = Append(views, [j \in DOMAIN J |-> J[j].version])
    BY <1>1 DEF Seen
  <2>3. DOMAIN J = 1 .. Len(J) /\ Len(J) \in Nat /\ n <= Len(J)
    BY <1>2, <1>11
  <2>4. \A j \in 1 .. Len(J) : J[j].version \in Nat
    BY <1>2, <1>9, <1>11
  <2>5. \A j \in 1 .. n :
          /\ innings[j].version \in Nat /\ innings[j].version <= J[j].version
          /\ match'.life = "in_progress" /\ J[j].state.life = "in_progress"
               => innings[j].version < J[j].version
    BY <1>2, <1>7, <1>11
  <2>6. match'.version = match.version + 1
    BY <1>14 DEF Moved
  <2> HIDE DEF J
  <2> QED BY <1>1, <1>2, <2>1, <2>2, <2>3, <2>4, <2>5, <2>6, ViewedNext
<1>18. refreshes' \subseteq 1 .. match'.version /\ lastSaw' \in 1 .. match'.version
  BY <1>1, <1>14, VersionsGrow DEF Moved
<1> HIDE DEF J
<1> QED BY <1>1, <1>10, <1>14, <1>16, <1>17, <1>18, InvHolds DEF Moved, cap

LEMMA OutcomeConcludes ==
  ASSUME Inv, cap # None, Progresses, NEW kind, Outcome(kind) # Pending,
         kind \in ExplicitResults \cup {"derived_result", "abandonment"}
  PROVE  /\ Outcome(kind) \in Outcomes
         /\ kind = "abandonment" => Outcome(kind).code = "no_result"
         /\ kind # "abandonment" =>
              /\ Outcome(kind).code # "pending"
              /\ Outcome(kind) = DeriveResult(cap, States, "completed", Outcome(kind))
<1>1. /\ Capability(cap) /\ Lineups(match.rosters) /\ Played(cap, match.rosters, innings)
      /\ States = StatesIn(innings)
  BY InvRows
<1>2. StateRow(innings, match.rosters)
  BY <1>1, StateRowIs
<1>3. States \in Seq(StatesOf(Home(match.rosters), Away(match.rosters)))
  BY <1>1, <1>2 DEF StateRow
<1>4. /\ "derived_result" \notin ExplicitResults /\ "abandonment" \notin ExplicitResults
      /\ ExplicitResults \subseteq Codes
  BY DEF ExplicitResults, Codes
<1>5. CASE kind = "abandonment"
  <2>1. Outcome(kind) = DeriveResult(cap, States, "abandoned", Pending)
    BY <1>4, <1>5 DEF Outcome
  <2>2. Outcome(kind) \in Outcomes
    BY <1>1, <1>3, <2>1, PendingTyped, DeriveResultTyped
  <2>3. ~\E n \in DOMAIN States : States[n].life = "reconciliation_required"
    BY DEF Progresses, States
  <2>4. Outcome(kind) = Result("no_result", None, 0)
    BY <2>1, <2>3 DEF DeriveResult
  <2> QED BY <1>5, <2>2, <2>4 DEF Result
<1>6. CASE kind # "abandonment"
  <2>1. \E life \in {"in_progress", "completed"}, prior \in Outcomes :
          Outcome(kind) = DeriveResult(cap, States, life, prior)
    <3>1. CASE kind = "derived_result"
      <4>1. Outcome(kind) = DeriveResult(cap, States, "in_progress", Pending)
        BY <1>4, <3>1 DEF Outcome
      <4> QED BY <4>1, PendingTyped
    <3>2. CASE kind \in ExplicitResults
      <4>1. Outcome(kind) = DeriveResult(cap, States, "completed", Result(kind, None, 0))
        BY <1>4, <1>6, <3>2 DEF Outcome
      <4>2. Result(kind, None, 0) \in Outcomes
        BY <1>4, <3>2, ResultTyped
      <4> QED BY <4>1, <4>2
    <3> QED BY <1>6, <3>1, <3>2
  <2>2. PICK life \in {"in_progress", "completed"}, prior \in Outcomes :
          Outcome(kind) = DeriveResult(cap, States, life, prior)
    BY <2>1
  <2>3. Derivable(cap, States, Outcome(kind))
    BY <2>2, DerivedSettles
  <2>4. Outcome(kind) \in Outcomes
    BY <1>1, <1>3, <2>2, DeriveResultTyped
  <2> QED BY <1>6, <2>3, <2>4 DEF Derivable
<1> QED BY <1>5, <1>6

LEMMA CompleteMatchKeeps ==
  ASSUME Inv, NEW kind \in ExplicitResults \cup {"derived_result", "abandonment"},
         NEW saw \in Versions, CompleteMatch(kind, saw)
  PROVE  Inv'
<1> DEFINE life == IF kind = "abandonment" THEN "abandoned" ELSE "completed"
           result == Outcome(kind)
<1>1. /\ cap # None /\ Progresses /\ result # Pending
      /\ match' = [NextVersion(match) EXCEPT !.result = result, !.life = life]
      /\ refreshes' = refreshes \cup {match.version + 1}
      /\ innings' = innings /\ Seen(saw)
  BY DEF CompleteMatch
<1>2. /\ result \in Outcomes
      /\ kind = "abandonment" => result.code = "no_result"
      /\ kind # "abandonment" =>
           result.code # "pending" /\ result = DeriveResult(cap, States, "completed", result)
  BY <1>1, OutcomeConcludes
<1>3. match \in MatchRows /\ Played(cap, match.rosters, innings) /\ States = StatesIn(innings)
  BY <1>1, InvRows
<1>4. life \in Lives /\ life # "in_progress"
  BY DEF Lives
<1> HIDE DEF life, result
<1>5. Moved(match', match, life, result)
  <2>1. match' = [NextVersion(match) EXCEPT !.life = life, !.result = result]
    BY <1>1, <1>2, <1>3, <1>4, MatchRowWritten
  <2>2. Moved([NextVersion(match) EXCEPT !.life = life, !.result = result], match, life, result)
    BY <1>2, <1>3, <1>4, NextMatchRow
  <2> QED BY <2>1, <2>2
<1>6. Concluded(match', StatesIn(innings'))
  BY <1>1, <1>2, <1>3, <1>5 DEF Concluded, Moved, cap, life
<1>7. Viewed(match', innings', views')
  BY <1>1, <1>4, <1>5, ViewsKept DEF Moved
<1>8. refreshes' \subseteq 1 .. match'.version /\ lastSaw' \in 1 .. match'.version
  BY <1>1, <1>5, VersionsGrow DEF Moved
<1> QED BY <1>1, <1>3, <1>5, <1>6, <1>7, <1>8, InvHolds DEF Moved, cap

-----------------------------------------------------------------------------
(* A correction keeps the invariant.                                       *)

RevisedRow(r, inn, n, f, pol, rosters) ==
  /\ RowKept(pol, rosters, r) /\ r.side = inn.side /\ r.version = inn.version
  /\ SourceOf(rosters, r) = [SourceOf(rosters, inn) EXCEPT !.deliveries[n] = f]

LEMMA RevisedIs ==
  ASSUME NEW pol, NEW rosters, NEW inn, RowKept(pol, rosters, inn),
         NEW n \in DOMAIN inn.deliveries,
         NEW f \in Facts(BatOf(rosters, inn), FieldOf(rosters, inn)),
         Checked(pol, FieldOf(rosters, inn), f)
  PROVE  RevisedRow(Revised(inn, n, f), inn, n, f, pol, rosters)
<1> DEFINE bat == BatOf(rosters, inn)
           field == FieldOf(rosters, inn)
           O == {o \in [striker : bat, nonStriker : bat, bowler : field] :
                o.striker # o.nonStriker}
           F == Facts(bat, field)
           Z == Seq(F) \ {<<>>}
           D == Seq(Z)
           T == Seq(Transitions(bat, field))
           S == ReplayStates(bat, field)
           V == Nat \ {0}
           L == [bat -> Nat]
           d == inn.deliveries
           N == Len(d)
           e == Append(d[n], f)
           h == [d EXCEPT ![n] = e]
           r == Revised(inn, n, f)
<1>1. inn \in [side : Sides, version : V, openers : O, deliveries : D, transitions : T,
               state : S, block : Blocks, revision : Nat, links : L]
  BY DEF Rows, RowKept
<1>2. r = [inn EXCEPT !.deliveries = h]
  BY DEF Revised
<1>3. d \in D
  <2> HIDE DEF O, D, T, S, V, L
  <2> QED BY <1>1
<1>4. f \in F
  OBVIOUS
<1> HIDE DEF F
<1>5. N \in Nat /\ DOMAIN d = 1 .. N /\ n \in 1 .. N /\ \A i \in 1 .. N : d[i] \in Z
  <2> HIDE DEF Z
  <2> QED BY <1>3
<1>6. /\ e \in Z /\ Last(e) = f /\ DOMAIN e = 1 .. (Len(d[n]) + 1)
      /\ \A q \in DOMAIN e : e[q] = f \/ (q \in DOMAIN d[n] /\ e[q] = d[n][q])
  <2> DEFINE x == d[n]
  <2>1. x \in Seq(F)
    BY <1>5
  <2> HIDE DEF x
  <2>2. /\ Append(x, f) \in Seq(F) /\ Append(x, f) # <<>> /\ Last(Append(x, f)) = f
        /\ DOMAIN Append(x, f) = 1 .. (Len(x) + 1)
        /\ \A q \in 1 .. (Len(x) + 1) :
             Append(x, f)[q] = f \/ (q \in DOMAIN x /\ Append(x, f)[q] = x[q])
    BY <1>4, <2>1 DEF Last
  <2> QED BY <2>2 DEF x
<1> HIDE DEF e
<1>7. /\ h \in D /\ DOMAIN h = 1 .. N /\ h[n] = e
      /\ \A i \in 1 .. N : i # n => h[i] = d[i]
  <2> HIDE DEF Z
  <2> QED BY <1>3, <1>5, <1>6
<1> HIDE DEF O, Z, D, T, S, V, L, h, r
<1>8. /\ r \in [side : Sides, version : V, openers : O, deliveries : D, transitions : T,
                state : S, block : Blocks, revision : Nat, links : L]
      /\ r.side = inn.side /\ r.version = inn.version /\ r.deliveries = h
      /\ r.openers = inn.openers /\ r.transitions = inn.transitions
  BY <1>1, <1>2, <1>7
<1>9. BatOf(rosters, r) = bat /\ FieldOf(rosters, r) = field
  BY <1>8 DEF BatOf, FieldOf
<1>10. r \in Rows(bat, field)
  BY <1>8 DEF Rows, O, Z, D, T, S, V, L, F
<1>11. RowKept(pol, rosters, r)
  <2>1. ASSUME NEW i \in DOMAIN h, NEW q \in DOMAIN h[i] PROVE Checked(pol, field, h[i][q])
    <3>1. CASE i = n
      <4>1. h[i] = e /\ q \in DOMAIN e
        BY <1>7, <2>1, <3>1
      <4>2. e[q] = f \/ (q \in DOMAIN d[n] /\ e[q] = d[n][q])
        BY <1>6, <4>1
      <4>3. \A x \in DOMAIN d[n] : Checked(pol, field, d[n][x])
        BY <1>5 DEF RowKept
      <4> QED BY <4>1, <4>2, <4>3
    <3>2. CASE i # n
      <4>1. i \in DOMAIN d /\ h[i] = d[i]
        BY <1>5, <1>7, <2>1, <3>2
      <4> QED BY <2>1, <4>1 DEF RowKept
    <3> QED BY <3>1, <3>2
  <2> QED BY <1>8, <1>9, <1>10, <2>1 DEF RowKept
<1> DEFINE a == ActiveFacts(inn)
           b == ActiveFacts(r)
<1>12. b = [a EXCEPT ![n] = f]
  <2>1. a = [i \in 1 .. N |-> Last(d[i])]
    BY <1>5 DEF ActiveFacts
  <2>2. b = [i \in 1 .. N |-> Last(h[i])]
    BY <1>7, <1>8 DEF ActiveFacts
  <2>3. \A i \in 1 .. N : Last(h[i]) = IF i = n THEN f ELSE Last(d[i])
    BY <1>6, <1>7
  <2> HIDE DEF a, b
  <2> QED BY <1>5, <2>1, <2>2, <2>3
<1> HIDE DEF a, b
<1>13. SourceOf(rosters, r) = [SourceOf(rosters, inn) EXCEPT !.deliveries[n] = f]
  <2>1. SourceOf(rosters, r) =
          [side |-> inn.side, batters |-> bat, fielders |-> field, openers |-> inn.openers,
           deliveries |-> b, transitions |-> inn.transitions]
    BY <1>8, <1>9 DEF SourceOf, b
  <2>2. SourceOf(rosters, inn) =
          [side |-> inn.side, batters |-> bat, fielders |-> field, openers |-> inn.openers,
           deliveries |-> a, transitions |-> inn.transitions]
    BY DEF SourceOf, a
  <2> HIDE DEF bat, field
  <2> QED BY <1>12, <2>1, <2>2
<1> QED BY <1>8, <1>11, <1>13 DEF RevisedRow, r

\* Those who were there for an attempt are people of the sides.
LEMMA ActorsTyped ==
  ASSUME Inv, NEW k \in DOMAIN innings, NEW n \in DOMAIN innings[k].deliveries
  PROVE  ActorsAt(k, n) \in ReplayStates(BatOf(match.rosters, innings[k]),
                                         FieldOf(match.rosters, innings[k]))
<1> DEFINE inn == innings[k]
           bat == BatOf(match.rosters, inn)
           field == FieldOf(match.rosters, inn)
           F == Facts(bat, field)
           source == Source(inn)
           t == inn.state.target
           before == [source EXCEPT !.deliveries = SubSeq(source.deliveries, 1, n - 1)]
<1>1. /\ cap # None /\ RowKept(cap, match.rosters, inn)
      /\ inn.state \in ReplayStates(bat, field) /\ Len(inn.deliveries) \in Nat
      /\ k \in 1 .. Len(innings)
  BY LiveRow
<1>2. Capability(cap) /\ Lineups(match.rosters)
  BY <1>1, InvRows
<1>3. t \in Nat \cup {None}
  BY <1>1 DEF ReplayStates
<1>4. /\ source \in SourceRows(bat, field)
      /\ Sided(source, cap, Home(match.rosters), Away(match.rosters))
      /\ source.batters = bat /\ source.fielders = field
      /\ source.deliveries = ActiveFacts(inn)
  BY <1>1, <1>2, RowSource, SourceIs
<1>5. n \in 1 .. Len(source.deliveries) /\ source.deliveries \in Seq(F)
  <2>1. source.deliveries \in Seq(F)
    <3> DEFINE O == {o \in [striker : bat, nonStriker : bat, bowler : field] :
                        o.striker # o.nonStriker}
               T == Seq(Transitions(bat, field))
               Q == Seq(F)
    <3>1. source \in [side : Sides, batters : {bat}, fielders : {field}, openers : O,
                      deliveries : Q, transitions : T]
      BY <1>4 DEF SourceRows
    <3> HIDE DEF O, T, Q, source
    <3>2. source.deliveries \in Q
      BY <3>1
    <3> QED BY <3>2 DEF Q
  <2>2. DOMAIN source.deliveries = DOMAIN inn.deliveries
    BY <1>4 DEF ActiveFacts
  <2> HIDE DEF F, source
  <2>3. DOMAIN source.deliveries = 1 .. Len(source.deliveries)
    BY <2>1
  <2> QED BY <2>1, <2>2, <2>3
<1> HIDE DEF F
<1>6. SubSeq(source.deliveries, 1, n - 1) \in Seq(F)
  <2> DEFINE q == source.deliveries
  <2>1. q \in Seq(F) /\ n \in 1 .. Len(q)
    BY <1>5
  <2> HIDE DEF q
  <2>2. SubSeq(q, 1, n - 1) \in Seq(F)
    BY <2>1
  <2> QED BY <2>2 DEF q
<1>7. /\ before \in SourceRows(bat, field) /\ before.batters = bat /\ before.fielders = field
      /\ before.deliveries \in Seq(F)
  <2> DEFINE O == {o \in [striker : bat, nonStriker : bat, bowler : field] :
                        o.striker # o.nonStriker}
             T == Seq(Transitions(bat, field))
             Q == Seq(F)
             x == SubSeq(source.deliveries, 1, n - 1)
  <2>1. source \in [side : Sides, batters : {bat}, fielders : {field}, openers : O,
                    deliveries : Q, transitions : T]
    BY <1>4 DEF SourceRows, F
  <2>2. x \in Q /\ before = [source EXCEPT !.deliveries = x]
    BY <1>6
  <2> HIDE DEF O, T, Q, x, source, before
  <2>3. /\ before \in [side : Sides, batters : {bat}, fielders : {field}, openers : O,
                    deliveries : Q, transitions : T]
        /\ before.deliveries = x /\ before.batters = bat /\ before.fielders = field
    BY <2>1, <2>2
  <2> QED BY <2>2, <2>3 DEF SourceRows, O, T, Q, F
<1>8. Sourced(before, bat, field)
  BY <1>7, SourceRowSourced
<1>9. Playable(cap, bat, field, before.deliveries, t)
  <2>1. Playable(cap, bat, field, source.deliveries, t)
    BY <1>3, <1>4, SidedPlayable
  <2> HIDE DEF before, source, t
  <2> QED BY <1>7, <2>1 DEF Playable, F
<1>10. ActorsAt(k, n) = ReplayInnings(cap, before, t, None)
  BY DEF ActorsAt
<1> HIDE DEF before, t, bat, field
<1>11. ReplayInnings(cap, before, t, None) \in ReplayStates(bat, field)
  BY <1>8, <1>9, ReplayGood
<1> QED BY <1>10, <1>11 DEF bat, field

\* What a correction replays: the rows V, innings k of them revised.
Revision(V, k, n, f) ==
  \A i \in 1 .. Len(innings) :
    /\ RowKept(cap, match.rosters, V[i]) /\ V[i].side = cap.sequence[i]
    /\ V[i].version = innings[i].version
    /\ Replaced(k, n, f)[i] = SourceOf(match.rosters, V[i])

LEMMA RevisionRows ==
  ASSUME Inv, NEW k \in DOMAIN innings, NEW n \in DOMAIN innings[k].deliveries,
         NEW f \in Facts(BatOf(match.rosters, innings[k]), FieldOf(match.rosters, innings[k])),
         Checked(cap, FieldOf(match.rosters, innings[k]), f), NEW V,
         V = [i \in DOMAIN innings |->
                IF i = k THEN Revised(innings[k], n, f) ELSE innings[i]]
  PROVE  Revision(V, k, n, f)
<1>1. /\ cap # None /\ Played(cap, match.rosters, innings)
      /\ DOMAIN innings = 1 .. Len(innings)
  BY InvRows, LiveRow
<1>2. \A i \in 1 .. Len(innings) :
        RowKept(cap, match.rosters, innings[i]) /\ innings[i].side = cap.sequence[i]
  BY <1>1 DEF Played
<1>3. RevisedRow(Revised(innings[k], n, f), innings[k], n, f, cap, match.rosters)
  BY <1>1, <1>2, RevisedIs
<1> SUFFICES ASSUME NEW i \in 1 .. Len(innings)
             PROVE  /\ RowKept(cap, match.rosters, V[i]) /\ V[i].side = cap.sequence[i]
                    /\ V[i].version = innings[i].version
                    /\ Replaced(k, n, f)[i] = SourceOf(match.rosters, V[i])
  BY DEF Revision
<1>4. CASE i = k
  <2>1. V[i] = Revised(innings[k], n, f)
    BY <1>1, <1>4
  <2>2. Replaced(k, n, f)[i] = [Source(innings[k]) EXCEPT !.deliveries[n] = f]
    BY <1>1, <1>4 DEF Replaced
  <2>3. Source(innings[k]) = SourceOf(match.rosters, innings[k])
    BY SourceIs
  <2> QED BY <1>2, <1>3, <1>4, <2>1, <2>2, <2>3 DEF RevisedRow
<1>5. CASE i # k
  <2>1. V[i] = innings[i]
    BY <1>1, <1>5
  <2>2. Replaced(k, n, f)[i] = Source(innings[i])
    BY <1>1, <1>5 DEF Replaced
  <2> QED BY <1>2, <2>1, <2>2, SourceIs
<1> QED BY <1>4, <1>5

\* A correction that is accepted replaces every innings by its replay.
LEMMA RebuildsRows ==
  ASSUME Inv, NEW k \in DOMAIN innings, NEW n \in DOMAIN innings[k].deliveries,
         match.life \in {"in_progress", "completed"},
         NEW f \in Facts(BatOf(match.rosters, innings[k]), FieldOf(match.rosters, innings[k])),
         Checked(cap, FieldOf(match.rosters, innings[k]), f), NEW saw, NEW states,
         states = ReplayMatch(cap, Replaced(k, n, f), k, n), Rebuilds(k, n, f, states, saw),
         NEW V, V = [i \in DOMAIN innings |->
                       IF i = k THEN Revised(innings[k], n, f) ELSE innings[i]]
  PROVE  /\ Replayable(cap, match.rosters, V, states, Len(innings))
         /\ Redone(innings', cap, match.rosters, V, states, Len(innings))
<1> DEFINE N == Len(innings)
           result == DeriveResult(cap, states, match.life, match.result)
           J == [i \in 1 .. N |-> Rebuilt(V[i], states[i], result)]
           rosters == match.rosters
<1>1. /\ cap # None /\ Played(cap, rosters, innings) /\ match \in MatchRows
      /\ Capability(cap) /\ Lineups(rosters) /\ N \in Nat /\ DOMAIN innings = 1 .. N
      /\ \A i \in 1 .. N : innings[i].version \in Nat \ {0}
  BY InvRows, LiveRow
<1>2. N <= Len(cap.sequence)
  BY <1>1 DEF Played
<1>3. Revision(V, k, n, f)
  BY RevisionRows
<1>4. /\ \A i \in DOMAIN states : ~Fails(states[i])
      /\ RebuiltRunsFit(states)
      /\ match' = [NextVersion(match) EXCEPT !.life = MatchLife(result), !.result = result]
      /\ innings' = [i \in DOMAIN innings |->
           Rebuilt(IF i = k THEN Revised(innings[k], n, f) ELSE innings[i], states[i], result)]
      /\ refreshes' \subseteq refreshes \cup {match.version + 1}
      /\ Seen(saw)
  BY DEF Rebuilds
<1>5. innings' = J
  BY <1>1, <1>4
<1> HIDE DEF result
<1>6. Corrected(cap, rosters, V, states, N)
  <2>1. DOMAIN Replaced(k, n, f) = 1 .. N
    BY <1>1 DEF Replaced
  <2>2. \A i \in 1 .. N : RowKept(cap, rosters, V[i])
    BY <1>3 DEF Revision
  <2>3. \A i \in 1 .. N : Replaced(k, n, f)[i] = SourceOf(rosters, V[i])
    BY <1>3 DEF Revision
  <2> HIDE DEF N, rosters
  <2> QED BY <1>1, <2>1, <2>2, <2>3, CorrectionReplayed
<1>7. /\ states \in Seq(StatesOf(Home(rosters), Away(rosters))) /\ Len(states) = N
      /\ DOMAIN states = 1 .. N
  <2>1. states \in Seq(StatesOf(Home(rosters), Away(rosters))) /\ Len(states) = N
    BY <1>6 DEF Corrected
  <2> DEFINE S == StatesOf(Home(rosters), Away(rosters))
  <2>2. states \in Seq(S)
    BY <2>1
  <2> HIDE DEF S, N
  <2>3. DOMAIN states = 1 .. Len(states)
    BY <2>2
  <2> QED BY <2>1, <2>3
<1>8. \A i \in 1 .. N : states[i].error = None /\ TargetFits(states[i])
  BY <1>4, <1>7 DEF Fails, RebuiltRunsFit, TargetFits
<1>9. \A i \in 1 .. N : RowKept(cap, rosters, V[i]) /\ V[i].side = cap.sequence[i]
  BY <1>3 DEF Revision
<1>10. Replayable(cap, rosters, V, states, N)
  BY <1>1, <1>2, <1>6, <1>8, <1>9 DEF Replayable
<1>11. Redone(J, cap, rosters, V, states, N)
  <2>1. J = [i \in 1 .. N |-> Rebuilt(V[i], states[i], result)]
    OBVIOUS
  <2> HIDE DEF J, N, rosters, result
  <2> QED BY <1>10, <2>1, CorrectKeeps
<1> QED BY <1>5, <1>10, <1>11

\* An accepted correction keeps the invariant.
LEMMA RebuildsKeeps ==
  ASSUME Inv, NEW k \in DOMAIN innings, NEW n \in DOMAIN innings[k].deliveries,
         match.life \in {"in_progress", "completed"},
         NEW f \in Facts(BatOf(match.rosters, innings[k]), FieldOf(match.rosters, innings[k])),
         Checked(cap, FieldOf(match.rosters, innings[k]), f), NEW saw \in Versions, NEW states,
         states = ReplayMatch(cap, Replaced(k, n, f), k, n), Rebuilds(k, n, f, states, saw)
  PROVE  Inv'
<1> DEFINE N == Len(innings)
           V == [i \in DOMAIN innings |->
                   IF i = k THEN Revised(innings[k], n, f) ELSE innings[i]]
           result == DeriveResult(cap, states, match.life, match.result)
           rosters == match.rosters
<1>1. /\ cap # None /\ Capability(cap) /\ Lineups(rosters) /\ match \in MatchRows
      /\ N \in Nat /\ DOMAIN innings = 1 .. N
      /\ \A i \in 1 .. N : innings[i].version \in Nat \ {0}
  BY InvRows, LiveRow
<1>2. Revision(V, k, n, f)
  BY RevisionRows
<1>3. /\ Replayable(cap, rosters, V, states, N)
      /\ Redone(innings', cap, rosters, V, states, N)
  BY RebuildsRows
<1>4. /\ match' = [NextVersion(match) EXCEPT !.life = MatchLife(result), !.result = result]
      /\ refreshes' \subseteq refreshes \cup {match.version + 1}
      /\ Seen(saw)
  BY DEF Rebuilds
<1> HIDE DEF V, result
<1>5. states \in Seq(StatesOf(Home(rosters), Away(rosters))) /\ Len(states) = N
  BY <1>3 DEF Replayable, Corrected
<1>6. /\ Played(cap, rosters, innings') /\ Len(innings') = N /\ StatesIn(innings') = states
      /\ \A i \in 1 .. N : innings'[i].version = V[i].version + 1
  BY <1>3 DEF Redone
<1>7. \A i \in 1 .. N : innings'[i].version = innings[i].version + 1
  BY <1>2, <1>6 DEF Revision
<1>8. DOMAIN innings' = 1 .. N
  <2> DEFINE R == Rows(Home(rosters), Away(rosters)) \cup Rows(Away(rosters), Home(rosters))
  <2>1. innings' \in Seq(R)
    BY <1>6 DEF Played
  <2> HIDE DEF R
  <2> QED BY <1>6, <2>1
<1>9. result \in Outcomes
  <2>1. match.result \in Outcomes
    BY <1>1, MatchRowTyped
  <2> HIDE DEF rosters, N
  <2> QED BY <1>1, <1>5, <2>1, DeriveResultTyped DEF result
<1>10. MatchLife(result) \in {"in_progress", "completed"}
  BY MatchLifeTyped
<1>11. Moved(match', match, MatchLife(result), result)
  <2>1. MatchLife(result) \in Lives
    BY <1>10 DEF Lives
  <2> QED BY <1>1, <1>4, <1>9, <2>1, NextMatchRow
<1>12. Concluded(match', StatesIn(innings'))
  <2>1. match'.cap = cap /\ match'.result = result /\ match'.life = MatchLife(result)
    BY <1>11 DEF Moved, cap
  <2>2. Concluded(match', states)
    BY <2>1, DerivedConcludes DEF result
  <2> QED BY <1>6, <2>2
<1>13. Viewed(match', innings', views')
  <2>1. Viewed(match, innings, views) /\ match.version \in Nat \ {0}
    BY InvRows DEF Inv
  <2>2. match'.version = match.version + 1
    BY <1>11 DEF Moved
  <2>3. /\ DOMAIN innings' = 1 .. Len(innings') /\ Len(innings') = N
    BY <1>6, <1>8
  <2>4. \A i \in 1 .. N :
          /\ innings'[i].version = innings[i].version + 1
          /\ innings[i].version \in Nat \ {0}
    BY <1>1, <1>7
  <2>5. views' = Append(views, [i \in DOMAIN innings' |-> innings'[i].version])
    BY <1>4 DEF Seen
  <2>6. /\ \A i \in 1 .. Len(innings') : innings'[i].version \in Nat
        /\ \A i \in 1 .. Len(innings) :
             /\ innings[i].version \in Nat /\ innings[i].version <= innings'[i].version
             /\ match'.life = "in_progress" /\ innings'[i].state.life = "in_progress"
                  => innings[i].version < innings'[i].version
    BY <2>3, <2>4
  <2>7. Len(innings) \in Nat /\ Len(innings') \in Nat /\ Len(innings) <= Len(innings')
    BY <1>1, <2>3
  <2> QED BY <2>1, <2>2, <2>3, <2>5, <2>6, <2>7, ViewedNext
<1>14. refreshes' \subseteq 1 .. match'.version /\ lastSaw' \in 1 .. match'.version
  BY <1>4, <1>11, VersionsGrow DEF Moved
<1> QED BY <1>1, <1>6, <1>11, <1>12, <1>13, <1>14, InvHolds DEF Moved, cap

\* A replacement that fits the sources it makes is checked and typed.
CorrectionChecked(k, n, f) ==
  /\ match.life \in {"in_progress", "completed"}
  /\ f \in Facts(BatOf(match.rosters, innings[k]), FieldOf(match.rosters, innings[k]))
  /\ Checked(cap, FieldOf(match.rosters, innings[k]), f)

LEMMA CorrectionIsChecked ==
  ASSUME Inv, NEW k \in DOMAIN innings, NEW n \in DOMAIN innings[k].deliveries,
         NEW o \in Observations, NEW saw \in Versions, CorrectDelivery(k, n, o, saw)
  PROVE  LET f == FactsOf(o, ActorsAt(k, n), FieldingOrder(innings[k])) IN
         /\ CorrectionChecked(k, n, f)
         /\ Rebuilds(k, n, f, ReplayMatch(cap, Replaced(k, n, f), k, n), saw)
<1> DEFINE at == ActorsAt(k, n)
           f == FactsOf(o, at, FieldingOrder(innings[k]))
           bat == BatOf(match.rosters, innings[k])
           field == FieldOf(match.rosters, innings[k])
           sources == Replaced(k, n, f)
           states == ReplayMatch(cap, sources, k, n)
<1>1. /\ match.life \in {"in_progress", "completed"}
      /\ SelectionsComplete(at) /\ FactsShape(f) /\ SourcesFit(sources)
      /\ Rebuilds(k, n, f, states, saw)
  BY DEF CorrectDelivery
<1>2. at \in ReplayStates(bat, field)
  BY ActorsTyped
<1>3. WicketFits(f, field, cap)
  <2> HIDE DEF f, at
  <2>1. k \in DOMAIN sources /\ sources[k] = [Source(innings[k]) EXCEPT !.deliveries[n] = f]
    BY DEF Replaced
  <2>2. Fielders(innings[k]) = field
    BY PlayerSets
  <2>3. /\ sources[k].fielders = field /\ n \in DOMAIN sources[k].deliveries
        /\ sources[k].deliveries[n] = f
    <3> HIDE DEF sources, field
    <3> QED BY <2>1, <2>2 DEF Source, ActiveFacts
  <2> HIDE DEF sources, field
  <2> QED BY <1>1, <2>1, <2>3 DEF SourcesFit
<1>4. f \in Facts(bat, field)
  <2> HIDE DEF at, bat, field
  <2> QED BY <1>1, <1>2, <1>3, FactsOfTyped
<1>5. Checked(cap, field, f)
  BY <1>1, <1>3 DEF Checked
<1> QED BY <1>1, <1>4, <1>5 DEF CorrectionChecked

LEMMA CorrectDeliveryKeeps ==
  ASSUME Inv, NEW k \in DOMAIN innings, NEW n \in DOMAIN innings[k].deliveries,
         NEW o \in Observations, NEW saw \in Versions, CorrectDelivery(k, n, o, saw)
  PROVE  Inv'
<1> DEFINE f == FactsOf(o, ActorsAt(k, n), FieldingOrder(innings[k]))
           states == ReplayMatch(cap, Replaced(k, n, f), k, n)
<1>1. CorrectionChecked(k, n, f) /\ Rebuilds(k, n, f, states, saw)
  BY CorrectionIsChecked
<1> HIDE DEF f
<1> QED BY <1>1, RebuildsKeeps DEF CorrectionChecked

-----------------------------------------------------------------------------
(* The invariant holds of every behaviour.                                 *)

LEMMA InvNext ==
  ASSUME Inv, [Next]_vars
  PROVE  Inv'
<1>1. ASSUME NEW c \in Configurations, NEW saw \in Versions, ConfigureMatch(c, saw)
      PROVE  Inv'
  BY <1>1, ConfigureMatchKeeps
<1>2. ASSUME NEW o \in Openings, NEW saw \in Versions, StartInnings(o, saw)
      PROVE  Inv'
  BY <1>2, StartInningsKeeps
<1>3. ASSUME NEW k \in DOMAIN innings, NEW o \in Observations, NEW saw \in Versions,
             AppendDelivery(k, o, saw)
      PROVE  Inv'
  BY <1>3, AppendDeliveryKeeps
<1>4. ASSUME NEW k \in DOMAIN innings, NEW saw \in Versions,
             NEW who \in Batters(innings[k]), NEW replaced \in Batters(innings[k]),
             SelectNextBatter(k, who, replaced, saw)
      PROVE  Inv'
  BY <1>4, SelectNextBatterKeeps
<1>5. ASSUME NEW k \in DOMAIN innings, NEW overrides \in BOOLEAN, NEW saw \in Versions,
             NEW who \in Fielders(innings[k]), SelectNextBowler(k, who, overrides, saw)
      PROVE  Inv'
  BY <1>5, SelectNextBowlerKeeps
<1>6. ASSUME NEW k \in DOMAIN innings, NEW kind \in Retirements, NEW saw \in Versions,
             NEW who \in Batters(innings[k]), RetirementTransition(k, kind, who, saw)
      PROVE  Inv'
  BY <1>6, RetirementTransitionKeeps
<1>7. ASSUME NEW k \in DOMAIN innings, NEW saw \in Versions,
             NEW mode \in AutomaticModes \cup ExplicitModes, CompleteInnings(k, mode, saw)
      PROVE  Inv'
  BY <1>7, CompleteInningsKeeps
<1>8. ASSUME NEW saw \in Versions,
             NEW kind \in ExplicitResults \cup {"derived_result", "abandonment"},
             CompleteMatch(kind, saw)
      PROVE  Inv'
  BY <1>8, CompleteMatchKeeps
<1>9. ASSUME NEW k \in DOMAIN innings, NEW o \in Observations, NEW saw \in Versions,
             NEW n \in DOMAIN innings[k].deliveries, CorrectDelivery(k, n, o, saw)
      PROVE  Inv'
  BY <1>9, CorrectDeliveryKeeps
<1>10. CASE UNCHANGED vars
  BY <1>10 DEF vars, Inv, cap, States, Concluded, Viewed, Configured, Played, StatesIn
<1> QED BY <1>1, <1>2, <1>3, <1>4, <1>5, <1>6, <1>7, <1>8, <1>9, <1>10 DEF Next

LEMMA InvAlways == Spec => []Inv
<1>1. Inv /\ [Next]_vars => Inv'
  BY InvNext
<1> QED BY InitHolds, <1>1, PTL DEF Spec

LEMMA InvTyped ==
  ASSUME Inv
  PROVE  TypeOK
<1>1. /\ match \in MatchRows /\ Viewed(match, innings, views)
      /\ refreshes \subseteq 1 .. match.version /\ lastSaw \in 1 .. match.version
      /\ cap = None => innings = <<>>
  BY DEF Inv
<1>2. /\ match.version \in Nat \ {0} /\ match.life \in Lives
      /\ match.result.winner \in Sides \cup {None} /\ match.result.margin \in Nat
  BY <1>1, MatchRowTyped
<1>3. Len(views) = match.version
  BY <1>1 DEF Viewed
<1>4. ASSUME NEW k \in DOMAIN innings
      PROVE  /\ innings[k].side = cap.sequence[k] /\ innings[k].version \in Nat \ {0}
             /\ innings[k].state.life \in {"in_progress", "completed", "reconciliation_required"}
             /\ ~Fails(innings[k].state)
  <2>1. /\ k \in 1 .. Len(innings) /\ cap # None
        /\ innings[k].state \in ReplayStates(Batters(innings[k]), Fielders(innings[k]))
    BY LiveRow
  <2>2. Played(cap, match.rosters, innings) /\ innings[k].version \in Nat \ {0}
    BY <2>1, InvRows
  <2>3. innings[k].side = cap.sequence[k] /\ innings[k].state.error = None
    BY <2>1, <2>2 DEF Played
  <2>4. innings[k].state.life \in {"in_progress", "completed", "reconciliation_required"}
    BY <2>1 DEF ReplayStates
  <2> QED BY <2>2, <2>3, <2>4 DEF Fails
<1> QED BY <1>1, <1>2, <1>3, <1>4 DEF TypeOK, Lives, Versions

\* Every row of a match has its type: the versions number the match's changes, an innings
\* exists only under a locked policy and is that policy's, and none is left in error.
THEOREM TypeInvariant == Spec => []TypeOK
<1>1. Inv => TypeOK
  BY InvTyped
<1> QED BY InvAlways, <1>1, PTL

-----------------------------------------------------------------------------
(* No stale request is accepted.                                           *)

\* Whoever read the current version of a live innings read the current match.
LEMMA ClaimIsCurrent ==
  ASSUME Inv, NEW k \in DOMAIN innings, NEW saw \in Versions, Claims(k, saw),
         innings[k].state.life = "in_progress"
  PROVE  saw = match.version
<1>1. match.life = "in_progress"
  BY Underway DEF Claims
<1>2. /\ Viewed(match, innings, views) /\ match.version \in Nat \ {0}
      /\ saw \in 1 .. match.version
  BY InvRows DEF Inv, Versions
<1>3. k \in 1 .. Len(views[saw])
  <2> DEFINE N == Seq(Nat)
  <2>1. views \in Seq(N) /\ Len(views) = match.version
    BY <1>2 DEF Viewed
  <2> HIDE DEF N
  <2>2. views[saw] \in N
    BY <1>2, <2>1
  <2>3. k \in DOMAIN views[saw]
    BY DEF Claims
  <2>4. views[saw] \in Seq(Nat)
    BY <2>2 DEF N
  <2> QED BY <2>3, <2>4
<1>4. views[saw][k] = innings[k].version /\ innings[k].version \in Nat
  BY InvRows, LiveRow DEF Claims
<1>5. saw \in 1 .. (match.version - 1) => views[saw][k] < innings[k].version
  BY <1>1, <1>2, <1>3 DEF Viewed
<1> QED BY <1>2, <1>4, <1>5

LEMMA NextIsCurrent ==
  ASSUME Inv, [Next]_vars
  PROVE  [lastSaw' = match.version]_<<match, innings>>
<1>1. ASSUME NEW c \in Configurations, NEW saw \in Versions, ConfigureMatch(c, saw)
      PROVE  lastSaw' = match.version
  BY <1>1 DEF ConfigureMatch, ClaimsMatch, Seen
<1>2. ASSUME NEW o \in Openings, NEW saw \in Versions, StartInnings(o, saw)
      PROVE  lastSaw' = match.version
  BY <1>2 DEF StartInnings, ClaimsMatch, Seen
<1>3. ASSUME NEW k \in DOMAIN innings, NEW o \in Observations, NEW saw \in Versions,
             AppendDelivery(k, o, saw)
      PROVE  lastSaw' = match.version
  <2>1. Claims(k, saw) /\ innings[k].state.life = "in_progress" /\ lastSaw' = saw
    BY <1>3 DEF AppendDelivery, InProgress, Advances, Seen
  <2> QED BY <2>1, ClaimIsCurrent
<1>4. ASSUME NEW k \in DOMAIN innings, NEW saw \in Versions,
             NEW who \in Batters(innings[k]), NEW replaced \in Batters(innings[k]),
             SelectNextBatter(k, who, replaced, saw)
      PROVE  lastSaw' = match.version
  <2>1. Claims(k, saw) /\ innings[k].state.life = "in_progress" /\ lastSaw' = saw
    BY <1>4 DEF SelectNextBatter, Advances, Seen
  <2> QED BY <2>1, ClaimIsCurrent
<1>5. ASSUME NEW k \in DOMAIN innings, NEW overrides \in BOOLEAN, NEW saw \in Versions,
             NEW who \in Fielders(innings[k]), SelectNextBowler(k, who, overrides, saw)
      PROVE  lastSaw' = match.version
  <2>1. Claims(k, saw) /\ innings[k].state.life = "in_progress" /\ lastSaw' = saw
    BY <1>5 DEF SelectNextBowler, InProgress, Advances, Seen
  <2> QED BY <2>1, ClaimIsCurrent
<1>6. ASSUME NEW k \in DOMAIN innings, NEW kind \in Retirements, NEW saw \in Versions,
             NEW who \in Batters(innings[k]), RetirementTransition(k, kind, who, saw)
      PROVE  lastSaw' = match.version
  <2>1. Claims(k, saw) /\ innings[k].state.life = "in_progress" /\ lastSaw' = saw
    BY <1>6 DEF RetirementTransition, Advances, Seen
  <2> QED BY <2>1, ClaimIsCurrent
<1>7. ASSUME NEW k \in DOMAIN innings, NEW saw \in Versions,
             NEW mode \in AutomaticModes \cup ExplicitModes, CompleteInnings(k, mode, saw)
      PROVE  lastSaw' = match.version
  <2>1. Claims(k, saw) /\ innings[k].state.life = "in_progress" /\ lastSaw' = saw
    BY <1>7 DEF CompleteInnings, Advances, Seen
  <2> QED BY <2>1, ClaimIsCurrent
<1>8. ASSUME NEW saw \in Versions,
             NEW kind \in ExplicitResults \cup {"derived_result", "abandonment"},
             CompleteMatch(kind, saw)
      PROVE  lastSaw' = match.version
  BY <1>8 DEF CompleteMatch, ClaimsMatch, Seen
<1>9. ASSUME NEW k \in DOMAIN innings, NEW o \in Observations, NEW saw \in Versions,
             NEW n \in DOMAIN innings[k].deliveries, CorrectDelivery(k, n, o, saw)
      PROVE  lastSaw' = match.version
  BY <1>9 DEF CorrectDelivery, ClaimsMatch, Rebuilds, Seen
<1>10. CASE UNCHANGED vars
  BY <1>10 DEF vars
<1> QED BY <1>1, <1>2, <1>3, <1>4, <1>5, <1>6, <1>7, <1>8, <1>9, <1>10 DEF Next

\* A command that changes the match was composed at its current version: the commands that
\* carry only the version of their innings are caught by it, since every change of a match
\* in progress moves the version of the innings being played.
THEOREM StaleRequestsRefused == Spec => StaleNeverCommits
<1>1. Inv /\ [Next]_vars => [lastSaw' = match.version]_<<match, innings>>
  BY NextIsCurrent
<1> QED BY InvAlways, <1>1, PTL DEF Spec, StaleNeverCommits

-----------------------------------------------------------------------------
(* The scorecard adds up.                                                  *)

\* Every innings is the outcome of a replay of its own source.
LEMMA SteppedRow ==
  ASSUME Inv, NEW k \in DOMAIN innings
  PROVE  LET inn   == innings[k]
             bat   == BatOf(match.rosters, inn)
             field == FieldOf(match.rosters, inn) IN
         /\ Sound(inn.state, cap, bat, field, ActiveFacts(inn))
         /\ Settled(inn.state, cap, inn.state.target, ActiveFacts(inn))
         /\ inn.state \in ReplayStates(bat, field)
         /\ Len(inn.state.applied) <= Len(ActiveFacts(inn))
<1> DEFINE inn == innings[k]
           bat == BatOf(match.rosters, inn)
           field == FieldOf(match.rosters, inn)
           source == SourceOf(match.rosters, inn)
           t == TargetOf(cap, StatesIn(innings), k)
<1>1. /\ cap # None /\ Capability(cap) /\ Lineups(match.rosters)
      /\ Played(cap, match.rosters, innings) /\ k \in 1 .. Len(innings)
      /\ RowKept(cap, match.rosters, inn)
  BY InvRows, LiveRow
<1>2. Stepped(inn.state, cap, source, t)
  BY <1>1, PlayedStates
<1>3. /\ source.batters = bat /\ source.fielders = field
      /\ source.deliveries = ActiveFacts(inn)
  BY <1>1, RowSource
<1> HIDE DEF inn, bat, field, source, t
<1>4. /\ Good(inn.state, cap, t, bat, field, ActiveFacts(inn))
      /\ Counts(inn.state, Len(ActiveFacts(inn))) /\ inn.state \in ReplayStates(bat, field)
  BY <1>2, <1>3 DEF Stepped
<1>5. Settled(inn.state, cap, t, ActiveFacts(inn)) /\ t = inn.state.target
  BY <1>4 DEF Good, Settled
<1> QED BY <1>4, <1>5 DEF Good, Counts, inn, bat, field

\* The totals of a card, as the property writes them.
LEMMA TotalsAre ==
  ASSUME NEW s, NEW fd
  PROVE  /\ MapThenSumSet(LAMBDA p : s.people[p][fd], DOMAIN s.people) = PeopleSum(s.people, fd)
         /\ DOMAIN s.overs = 1 .. Len(s.overs) =>
              FoldLeft(+, 0, [n \in DOMAIN s.overs |-> s.overs[n][fd]]) = OverSum(s, fd)
<1>1. MapThenSumSet(LAMBDA p : s.people[p][fd], DOMAIN s.people) = PeopleSum(s.people, fd)
  BY DEF PeopleSum
<1>2. ASSUME DOMAIN s.overs = 1 .. Len(s.overs)
      PROVE  FoldLeft(+, 0, [n \in DOMAIN s.overs |-> s.overs[n][fd]]) = OverSum(s, fd)
  <2>1. [n \in DOMAIN s.overs |-> s.overs[n][fd]] = [n \in 1 .. Len(s.overs) |-> s.overs[n][fd]]
    BY <1>2
  <2>2. FoldLeft(+, 0, [n \in DOMAIN s.overs |-> s.overs[n][fd]])
          = SeqSum([n \in DOMAIN s.overs |-> s.overs[n][fd]])
    BY DEF SeqSum
  <2> QED BY <2>1, <2>2 DEF OverSum
<1> QED BY <1>1, <1>2

LEMMA InvBalances ==
  ASSUME Inv
  PROVE  ScorecardBalances
<1> SUFFICES ASSUME NEW k \in DOMAIN innings
             PROVE
    LET s       == innings[k].state
        sum(fd) == MapThenSumSet(LAMBDA p : s.people[p][fd], DOMAIN s.people)
        over(fd) == FoldLeft(+, 0, [n \in DOMAIN s.overs |-> s.overs[n][fd]])
        x       == s.extras
    IN
    /\ s.runs = sum("runs") + x.wide + x.noBall + x.bye + x.legBye + x.penalty
    /\ s.runs = over("runs")
    /\ s.runs = sum("conceded") + x.bye + x.legBye + x.penalty
    /\ s.legal = sum("bowled") /\ s.legal = sum("faced") /\ over("conceded") = sum("conceded")
    /\ s.wickets = over("wickets") /\ s.wickets = Len(s.falls)
    /\ s.wickets = Cardinality({p \in DOMAIN s.people : s.people[p].how # None})
    /\ cap.noConsecutive =>
         \A n \in 2..Len(s.overs) : s.overs[n].bowler # s.overs[n - 1].bowler
    /\ cap.quota # None => \A p \in DOMAIN s.people : Balls(s)[p] <= cap.quota
    /\ \A n \in DOMAIN s.applied :
         Last(innings[k].deliveries[n]).bowler = s.overs[s.applied[n].over + 1].bowler
  BY DEF ScorecardBalances
<1> DEFINE inn == innings[k]
           s == inn.state
           bat == BatOf(match.rosters, inn)
           field == FieldOf(match.rosters, inn)
           facts == ActiveFacts(inn)
           sum(fd) == MapThenSumSet(LAMBDA p : s.people[p][fd], DOMAIN s.people)
           over(fd) == FoldLeft(+, 0, [n \in DOMAIN s.overs |-> s.overs[n][fd]])
           x == s.extras
<1>1. /\ Sound(s, cap, bat, field, facts) /\ s \in ReplayStates(bat, field)
      /\ Len(s.applied) <= Len(facts)
  BY SteppedRow
<1>2. RowKept(cap, match.rosters, inn)
  BY LiveRow
<1>3. /\ DOMAIN s.people = bat \cup field
      /\ DOMAIN s.overs = 1 .. Len(s.overs) /\ DOMAIN s.applied = 1 .. Len(s.applied)
  <2> DEFINE O == OverRows(field)
             C == Classes(bat)
  <2>1. s.overs \in Seq(O) /\ s.applied \in Seq(C) /\ s.people \in [bat \cup field -> Persons]
    BY <1>1 DEF ReplayStates
  <2> HIDE DEF O, C, s, bat, field
  <2> QED BY <2>1
<1>4. \A fd : sum(fd) = PeopleSum(s.people, fd)
  <2> TAKE fd
  <2> HIDE DEF s
  <2> QED BY TotalsAre
<1>5. \A fd : over(fd) = OverSum(s, fd)
  <2> TAKE fd
  <2> HIDE DEF s
  <2> QED BY <1>3, TotalsAre
<1>6. /\ s.runs = PeopleSum(s.people, "runs")
                    + x["wide"] + x["noBall"] + x["bye"] + x["legBye"] + x["penalty"]
      /\ s.runs = OverSum(s, "runs")
      /\ s.runs = PeopleSum(s.people, "conceded") + x["bye"] + x["legBye"] + x["penalty"]
      /\ s.legal = PeopleSum(s.people, "bowled") /\ s.legal = PeopleSum(s.people, "faced")
      /\ OverSum(s, "conceded") = PeopleSum(s.people, "conceded")
      /\ s.wickets = OverSum(s, "wickets") /\ s.wickets = Len(s.falls)
  BY <1>1 DEF Sound, Balances
<1>7. s.wickets = Cardinality({p \in DOMAIN s.people : s.people[p].how # None})
  BY <1>1, <1>3 DEF Sound, Manned, Lost
<1>8. /\ cap.noConsecutive =>
           \A n \in 2..Len(s.overs) : s.overs[n].bowler # s.overs[n - 1].bowler
      /\ cap.quota # None => \A p \in DOMAIN s.people : Balls(s)[p] <= cap.quota
  BY <1>1 DEF Sound, Ruled, Balls
<1>9. \A n \in DOMAIN s.applied :
        Last(inn.deliveries[n]).bowler = s.overs[s.applied[n].over + 1].bowler
  <2>1. \A n \in 1 .. Len(s.applied) :
          n \in 1 .. Len(facts) /\ facts[n].bowler = s.overs[s.applied[n].over + 1].bowler
    BY <1>1 DEF Sound, Ruled
  <2>2. inn.deliveries \in Seq(Seq(Facts(bat, field)) \ {<<>>})
    BY <1>2, RowTyped DEF RowKept
  <2>3. \A n \in 1 .. Len(facts) : facts[n] = Last(inn.deliveries[n])
    <3> DEFINE F == Facts(bat, field)
    <3>1. inn.deliveries \in Seq(Seq(F) \ {<<>>})
      BY <2>2
    <3> HIDE DEF inn, F
    <3>2. /\ ActiveFacts(inn) \in Seq(F) /\ Len(ActiveFacts(inn)) = Len(inn.deliveries)
          /\ DOMAIN ActiveFacts(inn) = 1 .. Len(inn.deliveries)
          /\ \A n \in 1 .. Len(inn.deliveries) :
               /\ ActiveFacts(inn)[n] = Last(inn.deliveries[n])
               /\ Last(inn.deliveries[n]) \in F
               /\ Len(inn.deliveries[n]) \in DOMAIN inn.deliveries[n]
               /\ Last(inn.deliveries[n]) = inn.deliveries[n][Len(inn.deliveries[n])]
      BY <3>1, ActiveFactsTyped
    <3> QED BY <3>2
  <2> QED BY <1>3, <2>1, <2>3
<1> HIDE DEF sum, over
<1>10. /\ s.runs = sum("runs") + x.wide + x.noBall + x.bye + x.legBye + x.penalty
       /\ s.runs = over("runs")
       /\ s.runs = sum("conceded") + x.bye + x.legBye + x.penalty
       /\ s.legal = sum("bowled") /\ s.legal = sum("faced") /\ over("conceded") = sum("conceded")
       /\ s.wickets = over("wickets")
  BY <1>4, <1>5, <1>6
<1> QED BY <1>6, <1>7, <1>8, <1>9, <1>10 DEF sum, over

\* Every scorecard balances: runs and balls by batters and extras, by overs and by bowlers,
\* wickets by overs, falls and the people out; and in no history, corrected or not, has an
\* over two bowlers, a bowler more than the quota or two overs running.
THEOREM ScorecardsBalance == Spec => []ScorecardBalances
<1>1. Inv => ScorecardBalances
  BY InvBalances
<1> QED BY InvAlways, <1>1, PTL

-----------------------------------------------------------------------------
(* What is stored is what the history replays to.                          *)

\* The active facts of an innings, which a replay counts.
LEMMA ActiveChecked ==
  ASSUME Inv, NEW k \in DOMAIN innings, NEW n \in DOMAIN innings[k].deliveries
  PROVE  LET inn == innings[k]
             f   == Last(inn.deliveries[n]) IN
         /\ f \in Facts(BatOf(match.rosters, inn), FieldOf(match.rosters, inn))
         /\ Checked(cap, FieldOf(match.rosters, inn), f)
         /\ f = ActiveFacts(inn)[n] /\ n \in 1 .. Len(ActiveFacts(inn))
<1> DEFINE inn == innings[k]
           F == Facts(BatOf(match.rosters, inn), FieldOf(match.rosters, inn))
           D == inn.deliveries
<1>1. RowKept(cap, match.rosters, inn)
  BY LiveRow
<1>2. D \in Seq(Seq(F) \ {<<>>})
  BY <1>1, RowTyped DEF RowKept
<1>3. n \in 1 .. Len(D)
  <2> DEFINE Q == Seq(F) \ {<<>>}
  <2>1. D \in Seq(Q) /\ n \in DOMAIN D
    BY <1>2
  <2> HIDE DEF Q, D
  <2> QED BY <2>1
<1> HIDE DEF F, inn
<1>4. /\ ActiveFacts(inn) \in Seq(F) /\ Len(ActiveFacts(inn)) = Len(inn.deliveries)
      /\ DOMAIN ActiveFacts(inn) = 1 .. Len(inn.deliveries)
      /\ \A m \in 1 .. Len(inn.deliveries) :
           /\ ActiveFacts(inn)[m] = Last(inn.deliveries[m])
           /\ Last(inn.deliveries[m]) \in F
           /\ Len(inn.deliveries[m]) \in DOMAIN inn.deliveries[m]
           /\ Last(inn.deliveries[m]) = inn.deliveries[m][Len(inn.deliveries[m])]
  BY <1>2, ActiveFactsTyped
<1>5. Checked(cap, FieldOf(match.rosters, inn), Last(inn.deliveries[n]))
  <2>1. \A r \in DOMAIN inn.deliveries[n] :
          Checked(cap, FieldOf(match.rosters, inn), inn.deliveries[n][r])
    BY <1>1 DEF RowKept, inn
  <2>2. /\ Len(inn.deliveries[n]) \in DOMAIN inn.deliveries[n]
        /\ Last(inn.deliveries[n]) = inn.deliveries[n][Len(inn.deliveries[n])]
    BY <1>3, <1>4
  <2> QED BY <2>1, <2>2
<1> QED BY <1>3, <1>4, <1>5 DEF F, inn

\* The people of a delivery are of its two sides, and its fielders are as many as its wicket
\* takes.
LEMMA NobodyOutside ==
  ASSUME Inv, NEW k \in DOMAIN innings
  PROVE  ~OutsideItsSide(innings[k]) /\ ~FieldersMiscount(innings[k])
<1> DEFINE inn == innings[k]
           bat == Batters(inn)
           field == Fielders(inn)
<1>1. ASSUME NEW n \in DOMAIN inn.deliveries
      PROVE  LET f == Last(inn.deliveries[n]) IN
             /\ {f.striker, f.nonStriker} \subseteq bat /\ f.bowler \in field
             /\ f.wicket # None =>
                  /\ f.wicket.out \in {f.striker, f.nonStriker} /\ WicketShape(f.wicket)
                  /\ \A m \in DOMAIN f.wicket.fielders : f.wicket.fielders[m].who \in field
  <2> DEFINE f == Last(inn.deliveries[n])
  <2>1. f \in Facts(bat, field) /\ Checked(cap, field, f)
    BY ActiveChecked, PlayerSets
  <2> HIDE DEF f, bat, field
  <2>2. f.striker \in bat /\ f.nonStriker \in bat /\ f.bowler \in field
    BY <2>1 DEF Facts
  <2>3. FactsShape(f) /\ WicketFits(f, field, cap)
    BY <2>1 DEF Checked
  <2>4. f.wicket # None => WicketShape(f.wicket)
    BY <2>3 DEF FactsShape
  <2>5. f.wicket # None =>
          /\ f.wicket.out \in {f.striker, f.nonStriker}
          /\ \A m \in DOMAIN f.wicket.fielders : f.wicket.fielders[m].who \in field
    BY <2>3 DEF WicketFits
  <2> QED BY <2>2, <2>4, <2>5 DEF f
<1>2. ~OutsideItsSide(inn)
  BY <1>1 DEF OutsideItsSide
<1>3. ~FieldersMiscount(inn)
  BY <1>1 DEF FieldersMiscount
<1> QED BY <1>2, <1>3

\* The overs of an innings are those of its policy.
LEMMA OversKeepPolicy ==
  ASSUME Inv, NEW k \in DOMAIN innings
  PROVE  ~OversBreakPolicy(innings[k])
<1> DEFINE inn == innings[k]
           s == inn.state
           bat == BatOf(match.rosters, inn)
           field == FieldOf(match.rosters, inn)
           facts == ActiveFacts(inn)
           q == s.legal \div cap.over
           r == s.legal % cap.over
           L == Len(s.overs)
<1>1. Sound(s, cap, bat, field, facts) /\ s \in ReplayStates(bat, field)
  BY SteppedRow
<1>2. cap.over \in Nat \ {0}
  BY InvRows, LiveRow DEF Capability
<1>3. s.legal \in Nat /\ L \in Nat /\ DOMAIN s.overs = 1 .. L
  <2> DEFINE O == OverRows(field)
  <2>1. s.overs \in Seq(O) /\ s.legal \in Nat
    BY <1>1 DEF ReplayStates
  <2> HIDE DEF O, s
  <2> QED BY <2>1
<1>4. q \in Nat /\ r \in 0 .. (cap.over - 1)
  BY <1>2, <1>3, Divided
<1>5. /\ L \in {q, q + 1}
      /\ \A m \in 1 .. q : s.overs[m].complete /\ s.overs[m].legal = cap.over
      /\ L = q + 1 => ~s.overs[q + 1].complete /\ s.overs[q + 1].legal = r
  BY <1>1 DEF Sound, Placed
<1>6. \A n \in 1 .. L :
        /\ ~(s.overs[n].legal > cap.over)
        /\ s.overs[n].complete => s.overs[n].legal = cap.over
  <2> HIDE DEF s, q, r, L
  <2> TAKE n \in 1 .. L
  <2>1. n \in 1 .. q \/ (n = q + 1 /\ L = q + 1)
    BY <1>3, <1>4, <1>5
  <2>2. CASE n \in 1 .. q
    BY <1>2, <1>5, <2>2
  <2>3. CASE n = q + 1 /\ L = q + 1
    BY <1>2, <1>4, <1>5, <2>3
  <2> QED BY <2>1, <2>2, <2>3
<1>7. FoldLeft(+, 0, [n \in DOMAIN s.overs |-> s.overs[n]["legal"]]) = s.legal
  <2>1. s.legal = OverSum(s, "legal")
    BY <1>1 DEF Sound, Balances
  <2>2. FoldLeft(+, 0, [n \in DOMAIN s.overs |-> s.overs[n]["legal"]]) = OverSum(s, "legal")
    <3> HIDE DEF s
    <3> QED BY <1>3, TotalsAre DEF L
  <2> QED BY <2>1, <2>2
<1>8. cap.quota # None => \A p \in DOMAIN s.people : ~(Balls(s)[p] > cap.quota)
  <2> SUFFICES ASSUME cap.quota # None, NEW p \in DOMAIN s.people
               PROVE  ~(Balls(s)[p] > cap.quota)
    OBVIOUS
  <2>1. s.people[p].bowled <= cap.quota /\ Balls(s)[p] = s.people[p].bowled
    BY <1>1 DEF Sound, Ruled, Balls
  <2>2. cap.quota \in Nat
    BY InvRows, LiveRow DEF Capability
  <2>3. s.people[p].bowled \in Nat
    <3>1. s.people \in [bat \cup field -> Persons]
      BY <1>1 DEF ReplayStates
    <3> HIDE DEF s, bat, field
    <3>2. s.people[p] \in Persons
      BY <3>1
    <3> DEFINE x == s.people[p]
    <3>3. x \in Persons
      BY <3>2
    <3> HIDE DEF x
    <3>4. x.bowled \in Nat
      BY <3>3 DEF Persons
    <3> QED BY <3>4 DEF x
  <2> HIDE DEF s
  <2> QED BY <2>1, <2>2, <2>3
<1> QED BY <1>3, <1>6, <1>7, <1>8 DEF OversBreakPolicy

\* An innings that needs no reconciliation replays to what is stored of it.
LEMMA AuditedReplays ==
  ASSUME Inv, NEW k \in DOMAIN innings, Audited(innings[k])
  PROVE  Live(innings[k]) = innings[k].state /\ ~Fails(innings[k].state)
<1>1. /\ cap # None /\ Capability(cap) /\ Lineups(match.rosters)
      /\ Played(cap, match.rosters, innings) /\ k \in 1 .. Len(innings)
  BY InvRows, LiveRow
<1>2. innings[k].state.life # "reconciliation_required"
  BY DEF Audited
<1>3. Faithful(cap, match.rosters, innings, k)
  BY <1>1, <1>2, AuditedFaithful
<1>4. Live(innings[k])
        = ReplayInnings(cap, SourceOf(match.rosters, innings[k]), innings[k].state.target, None)
  BY SourceIs DEF Live
<1>5. innings[k].state.error = None
  BY <1>1 DEF Played
<1> QED BY <1>3, <1>4, <1>5 DEF Faithful, Fails

LEMMA NoIssues ==
  ASSUME Inv, NEW k \in DOMAIN innings
  PROVE  InningsIssues(innings[k]) \subseteq
           IF Audited(innings[k]) THEN {} ELSE {"reconciliation", "lifecycle"}
<1> DEFINE inn == innings[k]
<1>1. ~OutsideItsSide(inn) /\ ~FieldersMiscount(inn) /\ ~OversBreakPolicy(inn)
  BY NobodyOutside, OversKeepPolicy
<1>2. Audited(inn) => (inn.state.life = "completed" <=> inn.state.reason # None)
  <2>1. Settled(inn.state, cap, inn.state.target, ActiveFacts(inn))
    BY SteppedRow
  <2>2. inn.state.life \in {"in_progress", "completed", "reconciliation_required"}
    BY InvTyped DEF TypeOK
  <2> HIDE DEF inn
  <2> QED BY <2>1, <2>2 DEF Settled, Audited
<1>3. Audited(inn) => ~Differs(Live(inn), inn.state) /\ ~Fails(Live(inn))
  <2> SUFFICES ASSUME Audited(inn)
               PROVE  ~Differs(Live(inn), inn.state) /\ ~Fails(Live(inn))
    OBVIOUS
  <2>1. Live(inn) = inn.state /\ ~Fails(inn.state)
    BY AuditedReplays
  <2> HIDE DEF inn
  <2>2. Compared(Live(inn)) = Compared(inn.state)
    BY <2>1
  <2> QED BY <2>1, <2>2 DEF Differs
<1> HIDE DEF inn
<1>4. ASSUME NEW issue \in InningsIssues(inn)
      PROVE  ~Audited(inn) /\ issue \in {"reconciliation", "lifecycle"}
  <2>1. issue \in {"identity", "cardinality", "reconciliation", "lifecycle", "quota",
                   "mismatch", "malformed"}
    BY DEF InningsIssues
  <2>2. issue # "identity"
    BY <1>1 DEF InningsIssues
  <2>3. issue # "cardinality"
    BY <1>1 DEF InningsIssues
  <2>4. issue # "quota"
    BY <1>1 DEF InningsIssues
  <2>5. issue # "mismatch"
    BY <1>3 DEF InningsIssues
  <2>6. issue # "malformed"
    BY <1>3 DEF InningsIssues
  <2>7. issue = "reconciliation" => ~Audited(inn)
    BY DEF InningsIssues
  <2>8. issue = "lifecycle" => ~Audited(inn)
    BY <1>2 DEF InningsIssues
  <2> QED BY <2>1, <2>2, <2>3, <2>4, <2>5, <2>6, <2>7, <2>8
<1> QED BY <1>4 DEF inn

\* A link names the delivery that dismissed its batter.
LEMMA LinksNameDismissals ==
  ASSUME Inv, NEW k \in DOMAIN innings, NEW p \in DOMAIN innings[k].links
  PROVE  LET inn == innings[k]
             n   == inn.links[p] IN
         /\ n = 0 <=> inn.state.people[p].how = None
         /\ n # 0 => Last(inn.deliveries[n]).wicket.out = p
<1> DEFINE inn == innings[k]
           n == inn.links[p]
           bat == BatOf(match.rosters, inn)
           field == FieldOf(match.rosters, inn)
<1>1. /\ cap # None /\ Played(cap, match.rosters, innings) /\ k \in 1 .. Len(innings)
      /\ RowKept(cap, match.rosters, inn) /\ None \notin bat
  BY InvRows, LiveRow
<1>2. Linked(inn)
  BY <1>1 DEF Played
<1>3. /\ n \in DOMAIN inn.deliveries \cup {0}
      /\ n = 0 <=> inn.state.people[p].how = None
      /\ n # 0 => OutOf(ActiveFacts(inn)[n]) = p
  BY <1>2 DEF Linked
<1>4. p \in bat
  <2>1. inn.links \in [bat -> Nat]
    BY <1>1, RowTyped DEF RowKept
  <2> QED BY <2>1
<1>5. ASSUME n # 0
      PROVE  Last(inn.deliveries[n]).wicket.out = p
  <2> DEFINE f == Last(inn.deliveries[n])
  <2>1. n \in DOMAIN inn.deliveries
    BY <1>3, <1>5
  <2>2. f = ActiveFacts(inn)[n]
    BY <2>1, ActiveChecked
  <2>3. OutOf(f) = p
    BY <1>3, <1>5, <2>2
  <2>4. p # None
    BY <1>1, <1>4
  <2> HIDE DEF f
  <2>5. f.wicket.out = p
    BY <2>3, <2>4 DEF OutOf
  <2> QED BY <2>5 DEF f
<1> QED BY <1>3, <1>5

LEMMA InvReplays ==
  ASSUME Inv
  PROVE  StoredScoreIsReplay
<1>1. ~LifecycleDisagrees
  <2>1. Concluded(match, States)
    BY DEF Inv
  <2>2. Pending.code = "pending"
    BY DEF Pending, Result
  <2> QED BY <2>1, <2>2 DEF Concluded, LifecycleDisagrees
<1>2. \A k \in DOMAIN innings :
        InningsIssues(innings[k]) \subseteq
          IF Audited(innings[k]) THEN {} ELSE {"reconciliation", "lifecycle"}
  BY NoIssues
<1>3. \A k \in DOMAIN innings : \A p \in DOMAIN innings[k].links :
        LET inn == innings[k]
            n   == inn.links[p] IN
        /\ n = 0 <=> inn.state.people[p].how = None
        /\ n # 0 => Last(inn.deliveries[n]).wicket.out = p
  BY LinksNameDismissals
<1> QED BY <1>1, <1>2, <1>3 DEF StoredScoreIsReplay

\* The stored score of an innings is what its active history replays to, whatever was
\* appended to it or corrected in it: the audit of the scoring graph finds nothing but the
\* innings a correction left for reconciliation, and the links name the dismissals.
THEOREM StoredScoresReplay == Spec => []StoredScoreIsReplay
<1>1. Inv => StoredScoreIsReplay
  BY InvReplays
<1> QED BY InvAlways, <1>1, PTL

-----------------------------------------------------------------------------
(* Every row meets the constraints of its table.                           *)

\* A limit of whole days leaves each bowler at least one ball.
LEMMA QuotaPositive ==
  ASSUME NEW a \in Nat \ {0}, a % Std.dayUnit = 0
  PROVE  a \div Std.divisor >= 1
<1> DEFINE u == Std.dayUnit
           d == Std.divisor
<1>1. u \in Nat \ {0} /\ d \in Nat \ {0} /\ u % d = 0
  BY StdAssumption
<1> HIDE DEF u, d
<1>2. /\ a \div u \in Nat /\ a = (u * (a \div u)) + (a % u)
      /\ u \div d \in Nat /\ u = (d * (u \div d)) + (u % d)
      /\ a \div d \in Nat /\ a % d \in 0 .. (d - 1) /\ a = (d * (a \div d)) + (a % d)
  BY <1>1, Divided
<1>3. a % u = 0
  BY DEF u
<1>4. a >= u
  <2> DEFINE x == a \div u
  <2>1. x \in Nat /\ a = u * x
    BY <1>1, <1>2, <1>3
  <2> HIDE DEF x
  <2>2. x # 0
    BY <1>1, <2>1
  <2>3. PICK y \in Nat : x = y + 1
    <3>1. x - 1 \in Nat /\ x = (x - 1) + 1
      BY <2>1, <2>2
    <3> QED BY <3>1
  <2>4. u * (y + 1) = (u * y) + u /\ u * y \in Nat
    BY <1>1
  <2> QED BY <1>1, <2>1, <2>3, <2>4
<1>5. u >= d
  <2> DEFINE x == u \div d
  <2>1. x \in Nat /\ u = d * x
    BY <1>1, <1>2
  <2> HIDE DEF x
  <2>2. x # 0
    BY <1>1, <2>1
  <2>3. PICK y \in Nat : x = y + 1
    <3>1. x - 1 \in Nat /\ x = (x - 1) + 1
      BY <2>1, <2>2
    <3> QED BY <3>1
  <2>4. d * (y + 1) = (d * y) + d /\ d * y \in Nat
    BY <1>1
  <2> QED BY <1>1, <2>1, <2>3, <2>4
<1>6. a \div d # 0
  <2> DEFINE x == a \div d
             r == a % d
  <2>1. x \in Nat /\ r \in 0 .. (d - 1) /\ a = (d * x) + r
    BY <1>2
  <2> HIDE DEF x, r
  <2>2. x # 0
    <3> SUFFICES ASSUME x = 0
                 PROVE  FALSE
      OBVIOUS
    <3>1. d * x = 0
      BY <1>1
    <3> QED BY <1>1, <1>4, <1>5, <2>1, <3>1
  <2> QED BY <2>2 DEF x
<1> QED BY <1>2, <1>6 DEF d

LEMMA AcceptedPolicyFits ==
  ASSUME NEW c, Accepted(c), cap = ResolveCapability(c.request)
  PROVE  PolicyRowFits
<1> DEFINE r == c.request
<1>1. r \in [profile : Profiles, sequence : Seq(Sides), limit : Optional, quota : Optional,
             over : Nat \ {0}, wickets : Nat \ {0}, perSide : Nat, noConsecutive : BOOLEAN,
             dismissals : SUBSET DismissalTypes, transitions : SUBSET Retirements,
             boundary : {"none", "after_completed_innings", "any_nonterminal_state"}]
  BY ConfigurationsAssumption DEF Accepted
<1>2. /\ RequestAccepted(r)
      /\ Std.t20Limit \in Nat \ {0} /\ Std.t20Quota \in Nat \ {0}
  BY StdAssumption DEF Accepted, ConfigurationAccepted
<1>3. /\ r.profile \in Profiles
      /\ r.limit \in (Nat \ {0}) \cup {None} /\ r.quota \in (Nat \ {0}) \cup {None}
  BY <1>1 DEF Optional
<1>4. Len(r.sequence) >= 2
  BY <1>2 DEF RequestAccepted
<1>5. None \notin Nat
  BY NoneAssumption
<1>6. cap = ResolveCapability(r)
  OBVIOUS
<1> HIDE DEF r
<1>7. CASE r.profile = "T20"
  <2>1. TwoInnings(r)
    BY <1>2, <1>7 DEF RequestAccepted
  <2>2. cap = FixedOvers(r, Std.t20Limit, Std.t20Quota)
    BY <1>6, <1>7 DEF ResolveCapability
  <2>3. {} \notin {cap.dismissals, cap.modes, cap.matchModes, cap.results}
    BY <2>2 DEF FixedOvers, DismissalTypes, AutomaticModes
  <2>4. /\ cap.limit = Std.t20Limit /\ cap.quota = Std.t20Quota /\ cap.sequence = r.sequence
        /\ cap.profile = "T20" /\ cap.over = Std.over /\ cap.wickets = Std.wickets
        /\ cap.noConsecutive /\ cap.chase /\ cap.boundary = "none"
    BY <1>7, <2>2 DEF FixedOvers
  <2>5. cap.limit >= 1 /\ cap.quota >= 1 /\ Len(cap.sequence) = 2
    BY <1>2, <2>1, <2>4 DEF TwoInnings
  <2> QED BY <2>3, <2>4, <2>5 DEF PolicyRowFits
<1>8. CASE r.profile = "one_day"
  <2>1. TwoInnings(r) /\ r.limit # None /\ r.limit % Std.dayUnit = 0
    BY <1>2, <1>8 DEF RequestAccepted
  <2>2. cap = FixedOvers(r, r.limit, r.limit \div Std.divisor)
    BY <1>6, <1>8 DEF ResolveCapability
  <2>3. {} \notin {cap.dismissals, cap.modes, cap.matchModes, cap.results}
    BY <2>2 DEF FixedOvers, DismissalTypes, AutomaticModes
  <2>4. r.limit \in Nat \ {0}
    BY <1>3, <2>1
  <2> DEFINE a == r.limit
             b == a \div Std.divisor
             L == Len(r.sequence)
  <2>5. b >= 1
    BY <2>1, <2>4, QuotaPositive
  <2>6. /\ cap.limit = a /\ cap.quota = b /\ cap.sequence = r.sequence
        /\ cap.profile = "one_day" /\ cap.over = Std.over /\ cap.wickets = Std.wickets
    BY <1>8, <2>2 DEF FixedOvers
  <2>7. a >= 1 /\ a % Std.dayUnit = 0 /\ b = a \div Std.divisor
    BY <2>1, <2>4
  <2> HIDE DEF a, b
  <2>8. cap.quota = cap.limit \div Std.divisor /\ cap.limit % Std.dayUnit = 0
    BY <2>6, <2>7
  <2> QED BY <1>4, <2>3, <2>5, <2>6, <2>7, <2>8 DEF PolicyRowFits
<1>9. CASE r.profile = "test"
  <2>1. Len(r.sequence) = 4
    <3> DEFINE q == r.sequence
               a == q[1]
               b == q[2]
    <3>1. q = <<a, b, a, b>>
      BY <1>2, <1>9 DEF RequestAccepted
    <3> HIDE DEF a, b
    <3>2. Len(<<a, b, a, b>>) = 4
      OBVIOUS
    <3> HIDE DEF q
    <3>3. Len(q) = 4
      BY <3>1, <3>2
    <3> QED BY <3>3 DEF q
  <2>2. cap = TestMatch(r)
    BY <1>6, <1>9 DEF ResolveCapability
  <2>3. {} \notin {cap.dismissals, cap.modes, cap.matchModes, cap.results}
    BY <2>2 DEF TestMatch, DismissalTypes
  <2>4. /\ cap.limit = None /\ cap.quota = None /\ cap.sequence = r.sequence
        /\ cap.profile = "test" /\ cap.over = Std.over /\ cap.wickets = Std.wickets
        /\ cap.noConsecutive /\ ~cap.chase /\ cap.boundary = "after_completed_innings"
    BY <1>9, <2>2 DEF TestMatch
  <2>5. Len(cap.sequence) = 4
    BY <2>1, <2>4
  <2> QED BY <2>3, <2>4, <2>5 DEF PolicyRowFits
<1>10. CASE r.profile = "other"
  <2>1. r.dismissals # {}
    BY <1>2, <1>10 DEF RequestAccepted
  <2>2. cap = OtherMatch(r)
    BY <1>6, <1>10 DEF ResolveCapability
  <2>3. {} \notin {cap.dismissals, cap.modes, cap.matchModes, cap.results}
    BY <2>1, <2>2 DEF OtherMatch
  <2> QED BY <1>3, <1>4, <1>10, <2>2, <2>3 DEF PolicyRowFits, OtherMatch
<1> QED BY <1>3, <1>7, <1>8, <1>9, <1>10 DEF Profiles

\* An order without repetition is as long as its people are many.
LEMMA OrderCounts ==
  ASSUME NEW q, q \in Seq(ToSet(q)), IsInjective(q)
  PROVE  Cardinality(ToSet(q)) = Len(q) /\ IsFiniteSet(ToSet(q))
<1> DEFINE S == ToSet(q)
<1>1. \A x \in S : \E i \in DOMAIN q : q[i] = x
  BY DEF ToSet
<1>2. q \in Seq(S)
  OBVIOUS
<1>3. \A a, b \in DOMAIN q : q[a] = q[b] => a = b
  BY DEF IsInjective
<1> HIDE DEF S
<1>4. /\ q \in [1 .. Len(q) -> S] /\ Len(q) \in Nat
      /\ \A x \in S : \E i \in 1 .. Len(q) : q[i] = x
  BY <1>1, <1>2
<1>5. q \in Bijection(1 .. Len(q), S)
  BY <1>3, <1>4 DEF Bijection, Surjection, Injection, IsInjective
<1>6. ExistsBijection(1 .. Len(q), S)
  BY <1>5 DEF ExistsBijection
<1>7. IsFiniteSet(1 .. Len(q)) /\ Cardinality(1 .. Len(q)) = Len(q)
  <2> DEFINE n == Len(q)
  <2>1. n \in Nat
    BY <1>4
  <2> HIDE DEF n
  <2>2. /\ IsFiniteSet(1 .. n)
        /\ Cardinality(1 .. n) = IF 1 > n THEN 0 ELSE n - 1 + 1
    BY <2>1, FS_Interval
  <2>3. Cardinality(1 .. n) = n
    BY <2>1, <2>2
  <2> QED BY <2>2, <2>3 DEF n
<1>8. IsFiniteSet(S) /\ Cardinality(S) = Cardinality(1 .. Len(q))
  BY <1>6, <1>7, FS_Bijection
<1> QED BY <1>7, <1>8 DEF S

LEMMA AcceptedParticipantsFit ==
  ASSUME NEW c, Accepted(c), match.rosters = c.rosters
  PROVE  ParticipantRowsFit
<1> DEFINE H == ToSet(match.rosters["home"])
           A == ToSet(match.rosters["away"])
<1>1. \A side \in Sides :
        /\ match.rosters[side] # <<>> /\ IsInjective(match.rosters[side])
        /\ match.rosters[side] \in Seq(ToSet(match.rosters[side]))
  BY ConfigurationsAssumption DEF Accepted, ConfigurationAccepted
<1>2. H \cap A = {}
  BY DEF Accepted, ConfigurationAccepted
<1>3. /\ Cardinality(H) = Len(match.rosters["home"]) /\ IsFiniteSet(H)
      /\ Cardinality(A) = Len(match.rosters["away"]) /\ IsFiniteSet(A)
  BY <1>1, OrderCounts DEF Sides
<1> HIDE DEF H, A
<1>4. Cardinality(H \cup A) = Cardinality(H) + Cardinality(A) - Cardinality(H \cap A)
  BY <1>3, FS_Union
<1>5. Cardinality(H \cap A) = 0 /\ Cardinality(H) \in Nat /\ Cardinality(A) \in Nat
  BY <1>2, <1>3, FS_EmptySet, FS_CardinalityType
<1>6. Cardinality(H \cup A) = Cardinality(H) + Cardinality(A)
  BY <1>4, <1>5
<1> QED BY <1>1, <1>3, <1>6 DEF ParticipantRowsFit, H, A

\* A target is one more than a total.
LEMMA TargetPositive ==
  ASSUME Inv, NEW k \in DOMAIN innings
  PROVE  innings[k].state.target # None => innings[k].state.target \in 1 .. RunMax
<1> DEFINE t == TargetOf(cap, StatesIn(innings), k)
           s == innings[k].state
<1>1. /\ cap # None /\ Capability(cap) /\ Lineups(match.rosters)
      /\ Played(cap, match.rosters, innings) /\ k \in 1 .. Len(innings)
  BY InvRows, LiveRow
<1>2. /\ Stepped(s, cap, SourceOf(match.rosters, innings[k]), t)
      /\ t \in Nat \cup {None}
  BY <1>1, PlayedStates
<1>3. s.target = t
  BY <1>2 DEF Stepped, Good, Settled
<1>4. t # None => t <= RunMax
  BY <1>1, <1>3 DEF Played, TargetFits
<1>5. ASSUME t # None
      PROVE  t >= 1
  <2>1. t = StatesIn(innings)[1].runs + 1 /\ k = 2
    BY <1>5 DEF TargetOf, Target
  <2>2. 1 \in DOMAIN innings /\ StatesIn(innings)[1].runs = innings[1].state.runs
    <3>1. DOMAIN innings = 1 .. Len(innings) /\ Len(innings) \in Nat
      BY InvRows
    <3>2. 1 \in DOMAIN innings
      BY <1>1, <2>1, <3>1
    <3> QED BY <3>2 DEF StatesIn
  <2>3. innings[1].state.runs \in Nat
    BY <2>2, LiveRow DEF ReplayStates
  <2> QED BY <2>1, <2>2, <2>3
<1> HIDE DEF t, s
<1>6. s.target # None => s.target \in 1 .. RunMax
  BY <1>2, <1>3, <1>4, <1>5, RunMaxAssumption
<1> QED BY <1>6 DEF s

LEMMA InningsRow ==
  ASSUME Inv, NEW k \in DOMAIN innings
  PROVE  InningsRowFits(innings[k]) /\ EntryRowsFit(innings[k])
<1> DEFINE inn == innings[k]
           s == inn.state
           bat == BatOf(match.rosters, inn)
           field == FieldOf(match.rosters, inn)
<1>1. /\ Sound(s, cap, bat, field, ActiveFacts(inn))
      /\ Settled(s, cap, s.target, ActiveFacts(inn)) /\ s \in ReplayStates(bat, field)
  BY SteppedRow
<1>2. s.target # None => s.target \in 1 .. RunMax
  BY TargetPositive
<1>3. /\ cap # None /\ Played(cap, match.rosters, innings) /\ k \in 1 .. Len(innings)
      /\ RowKept(cap, match.rosters, inn) /\ Batters(inn) = bat
  BY InvRows, LiveRow
<1>4. InningsRowFits(inn)
  <2>1. /\ s.legal \in Nat /\ s.runs \in Nat /\ s.wickets \in Nat
        /\ s.reason \in AutomaticModes \cup ExplicitModes \cup {None}
    BY <1>1 DEF ReplayStates
  <2>2. s.runs <= RunMax
    BY <1>1 DEF Sound, Bounded
  <2>3. s.striker # s.nonStriker \/ s.striker = None
    BY <1>1 DEF Sound, Manned, Apart
  <2>4. s.life = "reconciliation_required" => s.halted # None
    BY <1>1 DEF Settled
  <2>5. s.runs \in 0 .. RunMax /\ s.legal >= 0 /\ s.wickets >= 0
    <3> DEFINE a == s.runs
               b == s.legal
               c == s.wickets
    <3>1. a \in Nat /\ b \in Nat /\ c \in Nat /\ a <= RunMax
      BY <2>1, <2>2
    <3> HIDE DEF a, b, c
    <3>2. a \in 0 .. RunMax /\ b >= 0 /\ c >= 0
      BY <3>1, RunMaxAssumption
    <3> QED BY <3>2 DEF a, b, c
  <2> QED BY <1>2, <2>1, <2>3, <2>4, <2>5 DEF InningsRowFits
<1>5. EntryRowsFit(inn)
  <2> SUFFICES ASSUME NEW p \in bat
               PROVE  /\ s.people[p].state \in {"not_batted", "active", "dismissed",
                                                "retired_hurt", "retired_out", "completed"}
                      /\ inn.links[p] \in DOMAIN inn.deliveries \cup {0}
    BY <1>3 DEF EntryRowsFit
  <2>1. s.people \in [bat \cup field -> Persons] /\ inn.links \in [bat -> Nat]
    BY <1>1, <1>3, RowTyped DEF ReplayStates, RowKept
  <2>2. s.people[p] \in Persons /\ p \in DOMAIN inn.links
    BY <2>1
  <2>3. s.people[p].state \in BatterStates
    BY <2>2 DEF Persons
  <2>4. Linked(inn)
    BY <1>3 DEF Played
  <2> QED BY <2>2, <2>3, <2>4 DEF Linked, BatterStates
<1> QED BY <1>4, <1>5

\* A revision of facts that were checked.
LEMMA RevisionRow ==
  ASSUME Inv, NEW k \in DOMAIN innings, NEW n \in DOMAIN innings[k].deliveries,
         NEW r \in DOMAIN innings[k].deliveries[n]
  PROVE  LET f == innings[k].deliveries[n][r] IN
         /\ f \in Facts(Batters(innings[k]), Fielders(innings[k]))
         /\ Checked(cap, Fielders(innings[k]), f)
<1> DEFINE inn == innings[k]
           F == Facts(Batters(inn), Fielders(inn))
           f == inn.deliveries[n][r]
<1>1. /\ RowKept(cap, match.rosters, inn) /\ Batters(inn) = BatOf(match.rosters, inn)
      /\ Fielders(inn) = FieldOf(match.rosters, inn)
  BY LiveRow
<1>2. inn.deliveries \in Seq(Seq(F) \ {<<>>})
  BY <1>1, RowTyped DEF RowKept
<1>3. Checked(cap, Fielders(inn), f)
  BY <1>1 DEF RowKept
<1>4. f \in F
  <2> DEFINE Q == Seq(F) \ {<<>>}
             D == inn.deliveries
             d == D[n]
  <2>1. D \in Seq(Q) /\ n \in DOMAIN D
    BY <1>2
  <2> HIDE DEF Q, D
  <2>2. d \in Q
    BY <2>1
  <2>3. d \in Seq(F) /\ r \in DOMAIN d
    BY <2>2 DEF Q, D
  <2> HIDE DEF F, d
  <2>4. d[r] \in F
    BY <2>3
  <2> QED BY <2>4 DEF d, D
<1> QED BY <1>3, <1>4

LEMMA FactsFitTable ==
  ASSUME NEW bat, NEW field, NEW f \in Facts(bat, field), Checked(cap, field, f),
         cap.over \in Nat \ {0}
  PROVE  LET c == Classify(f, 0, cap.over) IN
         /\ f.striker # f.nonStriker
         /\ {f.bat, f.wide, f.bye, f.legBye, f.penalty} \subseteq 0..RunMax /\ f.noBall \in 0..1
         /\ ~(f.bye > 0 /\ f.legBye > 0) /\ ~(f.wide > 0 /\ f.noBall > 0)
         /\ {c.total, c.completed, c.conceded} \subseteq 0..RunMax
         /\ c.total = f.bat + ExtrasOf(f) /\ c.legal = (f.wide = 0 /\ f.noBall = 0)
<1> DEFINE c == Classify(f, 0, cap.over)
           a == f.bat
           w == f.wide
           nb == f.noBall
           b == f.bye
           l == f.legBye
           p == f.penalty
<1>1. a \in Nat /\ w \in Nat /\ nb \in Nat /\ b \in Nat /\ l \in Nat /\ p \in Nat
  BY DEF Facts
<1>2. /\ f.striker # f.nonStriker
      /\ ~(w > 0 /\ nb > 0) /\ nb \in {0, 1} /\ ~(b > 0 /\ l > 0)
      /\ a + (w + nb + b + l + p) <= RunMax
  BY DEF Checked, FactsShape, TotalOf, ExtrasOf
<1>3. /\ c.total = a + (w + nb + b + l + p)
      /\ c.completed = a + b + l + NotLess(0, w - 1)
      /\ c.conceded = a + w + nb
      /\ c.legal = (w = 0 /\ nb = 0)
  BY DEF Classify, TotalOf, ExtrasOf
<1>4. ExtrasOf(f) = w + nb + b + l + p
  BY DEF ExtrasOf
<1> HIDE DEF a, w, nb, b, l, p
<1>5. NotLess(0, w - 1) \in Nat /\ NotLess(0, w - 1) <= w
  BY <1>1 DEF NotLess
<1> DEFINE z == NotLess(0, w - 1)
<1> HIDE DEF c, z
<1>6. /\ {a, w, b, l, p} \subseteq 0 .. RunMax /\ nb \in 0 .. 1
  BY <1>1, <1>2, RunMaxAssumption
<1>7. z \in Nat /\ z <= w /\ c.completed = a + b + l + z
  BY <1>3, <1>5 DEF z
<1>8. /\ c.total \in 0 .. RunMax /\ c.completed \in 0 .. RunMax /\ c.conceded \in 0 .. RunMax
  BY <1>1, <1>2, <1>3, <1>7, RunMaxAssumption
<1> QED BY <1>1, <1>2, <1>3, <1>4, <1>6, <1>8 DEF a, w, nb, b, l, p, c

LEMMA RevisionRowsFit ==
  ASSUME Inv, NEW k \in DOMAIN innings, NEW n \in DOMAIN innings[k].deliveries,
         NEW r \in DOMAIN innings[k].deliveries[n]
  PROVE  LET f == innings[k].deliveries[n][r] IN
         /\ RevisionRowFits(innings[k], f)
         /\ f.wicket # None => WicketRowFits(f.wicket) /\ FielderRowsFit(f.wicket)
<1> DEFINE inn == innings[k]
           f == inn.deliveries[n][r]
           bat == Batters(inn)
           field == Fielders(inn)
<1>1. f \in Facts(bat, field) /\ Checked(cap, field, f)
  BY RevisionRow
<1>2. cap.over \in Nat \ {0}
  BY InvRows, LiveRow DEF Capability
<1> HIDE DEF f, inn, bat, field
<1>3. LET c == Classify(f, 0, cap.over) IN
         /\ f.striker # f.nonStriker
         /\ {f.bat, f.wide, f.bye, f.legBye, f.penalty} \subseteq 0..RunMax /\ f.noBall \in 0..1
         /\ ~(f.bye > 0 /\ f.legBye > 0) /\ ~(f.wide > 0 /\ f.noBall > 0)
         /\ {c.total, c.completed, c.conceded} \subseteq 0..RunMax
         /\ c.total = f.bat + ExtrasOf(f) /\ c.legal = (f.wide = 0 /\ f.noBall = 0)
  BY <1>1, <1>2, FactsFitTable
<1>4. f.striker \in bat /\ f.nonStriker \in bat /\ f.bowler \in field
  BY <1>1 DEF Facts
<1>5. RevisionRowFits(inn, f)
  BY <1>3, <1>4 DEF RevisionRowFits, bat, field
<1>6. ASSUME f.wicket # None
      PROVE  WicketRowFits(f.wicket) /\ FielderRowsFit(f.wicket)
  <2> DEFINE w == f.wicket
  <2>1. w \in Wickets(bat, field)
    BY <1>1, <1>6 DEF Facts
  <2>2. WicketShape(w)
    BY <1>1, <1>6 DEF Checked, FactsShape
  <2> HIDE DEF w
  <2>3. /\ w.kind \in DismissalTypes /\ w.end \in Ends \cup {None}
        /\ w.fielders \in Seq([who : field, role : Roles])
    BY <2>1 DEF Wickets
  <2>4. IsInjective(w.fielders) /\ (w.kind = "run_out" <=> w.end # None)
    BY <2>2 DEF WicketShape
  <2>5. \A m \in DOMAIN w.fielders : w.fielders[m].role \in RunOutRoles \cup {"bowler", "catcher"}
    <3> DEFINE W == [who : field, role : Roles]
    <3> HIDE DEF W
    <3> TAKE m \in DOMAIN w.fielders
    <3>1. w.fielders \in Seq(W)
      BY <2>3 DEF W
    <3>2. w.fielders[m] \in W
      BY <3>1
    <3>3. w.fielders[m].role \in Roles
      BY <3>2 DEF W
    <3> QED BY <3>3 DEF Roles
  <2>6. WicketRowFits(w)
    BY <2>3, <2>4 DEF WicketRowFits, Ends
  <2>7. FielderRowsFit(w)
    BY <2>4, <2>5 DEF FielderRowsFit
  <2> QED BY <2>6, <2>7 DEF w
<1> QED BY <1>5, <1>6 DEF f, inn

LEMMA FiguresFit ==
  ASSUME Inv, NEW k \in DOMAIN innings
  PROVE  /\ \A n \in DOMAIN innings[k].state.overs : OverRowFits(innings[k].state.overs[n])
         /\ \A p \in DOMAIN innings[k].state.people :
              /\ SummaryRowFits(innings[k].state.people[p])
              /\ PerformanceRowFits(innings[k].state.people[p])
         /\ \A n \in DOMAIN innings[k].transitions : TransitionRowFits(innings[k].transitions[n])
<1> DEFINE inn == innings[k]
           s == inn.state
           bat == BatOf(match.rosters, inn)
           field == FieldOf(match.rosters, inn)
           O == OverRows(field)
           all == bat \cup field
           T == Transitions(bat, field)
<1>1. /\ Bounded(s, bat, field) /\ s \in ReplayStates(bat, field)
  BY SteppedRow DEF Sound
<1>2. RowKept(cap, match.rosters, inn)
  BY LiveRow
<1>3. s.runs \in Nat /\ s.overs \in Seq(O) /\ s.people \in [all -> Persons]
  BY <1>1 DEF ReplayStates
<1>4. inn.transitions \in Seq(T)
  BY <1>2, RowTyped DEF RowKept
<1>5. s.runs <= RunMax
  BY <1>1 DEF Bounded
<1>6. ASSUME NEW n \in DOMAIN s.overs
      PROVE  OverRowFits(s.overs[n])
  <2> DEFINE v == s.overs[n]
  <2>1. v \in O /\ n \in 1 .. Len(s.overs)
    <3> HIDE DEF O, s
    <3> QED BY <1>3
  <2>2. v.runs <= s.runs /\ v.conceded <= s.runs
    BY <1>1, <2>1 DEF Bounded
  <2>3. v.legal \in Nat /\ v.runs \in Nat /\ v.conceded \in Nat /\ v.wickets \in Nat
    <3> HIDE DEF v
    <3> QED BY <2>1 DEF OverRows
  <2> HIDE DEF v, s
  <2>4. v.legal >= 0 /\ v.runs \in 0 .. RunMax /\ v.conceded \in 0 .. RunMax /\ v.wickets >= 0
    BY <1>3, <1>5, <2>2, <2>3, RunMaxAssumption
  <2>5. OverRowFits(v)
    BY <2>4 DEF OverRowFits
  <2> QED BY <2>5 DEF v
<1>7. ASSUME NEW p \in DOMAIN s.people
      PROVE  SummaryRowFits(s.people[p]) /\ PerformanceRowFits(s.people[p])
  <2> DEFINE q == s.people[p]
  <2>1. p \in all /\ q \in Persons
    <3> HIDE DEF all, s
    <3> QED BY <1>3
  <2>2. /\ q.runs <= s.runs /\ q.conceded <= s.runs
        /\ q.catches <= q.dismissals /\ q.stumpings <= q.dismissals
        /\ q.runOuts <= q.dismissals
    BY <1>1, <2>1 DEF Bounded
  <2> HIDE DEF q, s, all
  <2>3. /\ q.how \in DismissalTypes \cup {None} /\ q.runs \in Nat /\ q.conceded \in Nat
        /\ {q.faced, q.fours, q.sixes, q.bowled, q.taken, q.wides, q.noBalls,
            q.dismissals} \subseteq Nat
        /\ q.dismissals \in Nat /\ q.catches \in Nat /\ q.stumpings \in Nat /\ q.runOuts \in Nat
    BY <2>1 DEF Persons
  <2>4. q.runs \in 0 .. RunMax /\ q.conceded \in 0 .. RunMax
    BY <1>3, <1>5, <2>2, <2>3, RunMaxAssumption
  <2>5. /\ q.catches \in 0 .. q.dismissals /\ q.stumpings \in 0 .. q.dismissals
        /\ q.runOuts \in 0 .. q.dismissals
    BY <2>2, <2>3
  <2>6. SummaryRowFits(q)
    BY <2>3, <2>4 DEF SummaryRowFits
  <2>7. PerformanceRowFits(q)
    BY <2>5 DEF PerformanceRowFits
  <2> QED BY <2>6, <2>7 DEF q
<1>8. ASSUME NEW n \in DOMAIN inn.transitions
      PROVE  TransitionRowFits(inn.transitions[n])
  <2> DEFINE t == inn.transitions[n]
  <2>1. t \in T
    <3> HIDE DEF T, inn
    <3> QED BY <1>4
  <2> HIDE DEF t
  <2>2. t.kind \in {"next_batter"} \cup Retirements \cup {"next_bowler"} \cup {"innings_completed"}
    BY <2>1 DEF Transitions
  <2>3. TransitionRowFits(t)
    BY <2>2 DEF TransitionRowFits
  <2> QED BY <2>3 DEF t
<1> QED BY <1>6, <1>7, <1>8

LEMMA InvFitsTables ==
  ASSUME Inv
  PROVE  RowsFitTables
<1>1. ASSUME cap # None
      PROVE  PolicyRowFits /\ ParticipantRowsFit
  <2>1. PICK c : /\ Accepted(c) /\ match.cap = ResolveCapability(c.request)
                 /\ match.rosters = c.rosters
    BY <1>1, InvRows DEF Configured
  <2>2. cap = ResolveCapability(c.request)
    BY <2>1 DEF cap
  <2> QED BY <2>1, <2>2, AcceptedPolicyFits, AcceptedParticipantsFit
<1>2. ASSUME NEW k \in DOMAIN innings
      PROVE  /\ InningsRowFits(innings[k]) /\ EntryRowsFit(innings[k])
             /\ \A n \in DOMAIN innings[k].deliveries :
                  \A r \in DOMAIN innings[k].deliveries[n] :
                    LET f == innings[k].deliveries[n][r] IN
                    /\ RevisionRowFits(innings[k], f)
                    /\ f.wicket # None => WicketRowFits(f.wicket) /\ FielderRowsFit(f.wicket)
             /\ \A n \in DOMAIN innings[k].state.overs : OverRowFits(innings[k].state.overs[n])
             /\ \A p \in DOMAIN innings[k].state.people :
                  /\ SummaryRowFits(innings[k].state.people[p])
                  /\ PerformanceRowFits(innings[k].state.people[p])
             /\ \A n \in DOMAIN innings[k].transitions :
                  TransitionRowFits(innings[k].transitions[n])
  BY InningsRow, RevisionRowsFit, FiguresFit
<1> QED BY <1>1, <1>2 DEF RowsFitTables

\* No accepted command is refused by the schema at its flush: whatever the configuration, the
\* deliveries and the corrections, every row meets the constraints of its migration.
THEOREM RowsAlwaysFit == Spec => []RowsFitTables
<1>1. Inv => RowsFitTables
  BY InvFitsTables
<1> QED BY InvAlways, <1>1, PTL

-----------------------------------------------------------------------------
(* The result follows the innings.                                         *)

\* The total of a side in a match of two innings.
LEMMA TwoInningsTotals ==
  ASSUME NEW pol, NEW A, NEW B, NEW states \in Seq(StatesOf(A, B)), Len(states) = 2,
         pol.sequence[1] # pol.sequence[2]
  PROVE  /\ SideTotal(pol, states, pol.sequence[1]) = states[1].runs
         /\ SideTotal(pol, states, pol.sequence[2]) = states[2].runs
         /\ states[1].runs \in Nat /\ states[2].runs \in Nat
<1> DEFINE S == StatesOf(A, B)
           a == states[1].runs
           b == states[2].runs
           g(side) == [n \in 1 .. 2 |-> IF pol.sequence[n] = side THEN states[n].runs ELSE 0]
<1>1. DOMAIN states = 1 .. 2 /\ states[1] \in S /\ states[2] \in S
  <2> HIDE DEF S
  <2>1. states \in Seq(S)
    BY DEF S
  <2> QED BY <2>1
<1>2. a \in Nat /\ b \in Nat
  BY <1>1 DEF StatesOf, ReplayStates
<1>3. \A side : SideTotal(pol, states, side) = SeqSum(g(side))
  <2> TAKE side
  <2>1. [n \in DOMAIN states |-> IF pol.sequence[n] = side THEN states[n].runs ELSE 0] = g(side)
    BY <1>1
  <2> HIDE DEF g
  <2> QED BY <2>1 DEF SideTotal, SeqSum
<1>4. ASSUME NEW side, NEW x \in Nat, NEW y \in Nat, g(side)[1] = x, g(side)[2] = y
      PROVE  SideTotal(pol, states, side) = x + y
  <2> DEFINE q == g(side)
  <2>1. DOMAIN q = 1 .. 2
    OBVIOUS
  <2>2. q[1] = x /\ q[2] = y
    BY <1>4
  <2> HIDE DEF q
  <2>3. PICK h : SumPath(h, q, 2)
    BY <2>1, SumTrace
  <2>4. h[0] = 0 /\ h[1] = h[0] + q[1] /\ h[2] = h[1] + q[2] /\ SeqSum(q) = h[2]
    BY <2>3 DEF SumPath
  <2>5. SeqSum(q) = x + y
    BY <2>2, <2>4
  <2> QED BY <1>3, <2>5 DEF q
<1>5. /\ g(pol.sequence[1])[1] = a /\ g(pol.sequence[1])[2] = 0
      /\ g(pol.sequence[2])[1] = 0 /\ g(pol.sequence[2])[2] = b
  OBVIOUS
<1> HIDE DEF g
<1>6. SideTotal(pol, states, pol.sequence[1]) = a + 0
  BY <1>2, <1>4, <1>5
<1>7. SideTotal(pol, states, pol.sequence[2]) = 0 + b
  BY <1>2, <1>4, <1>5
<1> HIDE DEF a, b
<1>8. SideTotal(pol, states, pol.sequence[1]) = a /\ SideTotal(pol, states, pol.sequence[2]) = b
  BY <1>2, <1>6, <1>7
<1> QED BY <1>2, <1>8 DEF a, b

\* A match with a winner or a tie was played out.
LEMMA DecidedPlayedOut ==
  ASSUME Inv, match.result.code \in {"win_by_runs", "win_by_wickets", "tie"}
  PROVE  /\ AllComplete(States) /\ Len(States) = Len(cap.sequence) /\ cap # None
         /\ match.result = PlayedOut(cap, States)
<1>1. Concluded(match, States) /\ match.life \in Lives
  BY MatchRowTyped DEF Inv
<1>2. Pending.code = "pending"
  BY DEF Pending, Result
<1>3. match.life = "completed"
  BY <1>1, <1>2 DEF Concluded, Lives
<1>4. match.result = DeriveResult(cap, States, "completed", match.result)
  BY <1>1, <1>3 DEF Concluded, cap
<1>5. match.result # Pending
  BY <1>2
<1>6. ~StillDecided(cap, States, "completed", match.result)
  BY DEF StillDecided, ExplicitResults
<1>7. /\ AllComplete(States) /\ Len(States) = Len(cap.sequence)
      /\ match.result = PlayedOut(cap, States)
  BY <1>4, <1>5, <1>6 DEF DeriveResult
<1>8. cap # None
  <2> SUFFICES ASSUME cap = None
               PROVE  FALSE
    OBVIOUS
  <2>1. innings = <<>>
    BY InvRows
  <2>2. States = <<>>
    BY <2>1 DEF States
  <2> QED BY <1>7, <2>2 DEF AllComplete
<1> QED BY <1>7, <1>8

\* A chase that reached its target is the second innings of two, won with the wickets left.
LEMMA ChaseWon ==
  ASSUME Inv, cap # None, AllComplete(States), Len(States) = Len(cap.sequence),
         States[Len(States)].reason = "target_reached"
  PROVE  LET last == States[Len(States)] IN
         /\ Len(States) = 2 /\ last.target \in Nat /\ last.runs \in Nat
         /\ last.runs >= last.target
         /\ last.target = States[1].runs + 1
         /\ last.wickets \in Nat /\ last.wickets <= cap.wickets
<1> DEFINE N == Len(innings)
           s == innings[N].state
           t == TargetOf(cap, StatesIn(innings), N)
<1>1. /\ Capability(cap) /\ Lineups(match.rosters) /\ Played(cap, match.rosters, innings)
      /\ N \in Nat /\ DOMAIN innings = 1 .. N /\ States = StatesIn(innings)
  BY InvRows
<1>2. Len(States) = N /\ N \in 1 .. N
  <2>1. StateRow(innings, match.rosters)
    BY <1>1, StateRowIs
  <2>2. Len(States) = N
    BY <1>1, <2>1 DEF StateRow
  <2>3. Len(cap.sequence) >= 2
    BY <1>1 DEF Capability
  <2> QED BY <1>1, <2>2, <2>3
<1>3. States[N] = s
  BY <1>1, <1>2 DEF StatesIn
<1>4. /\ Stepped(s, cap, SourceOf(match.rosters, innings[N]), t) /\ t \in Nat \cup {None}
  BY <1>1, <1>2, PlayedStates
<1>5. /\ Settled(s, cap, t, SourceOf(match.rosters, innings[N]).deliveries)
  BY <1>4 DEF Stepped, Good
<1>6. s.reason = "target_reached"
  BY <1>2, <1>3
<1> HIDE DEF s, t, N
<1>7. /\ s.target = t /\ t # None /\ s.runs >= s.target
      /\ "all_out" \in cap.modes => s.wickets <= cap.wickets
  BY <1>5, <1>6 DEF Settled
<1>8. N = 2 /\ cap.chase /\ t = StatesIn(innings)[1].runs + 1
  BY <1>7 DEF t, TargetOf, Target
<1>9. "all_out" \in cap.modes
  BY <1>1, <1>8 DEF Capability
<1>10. s.runs \in Nat /\ s.wickets \in Nat
  BY <1>4 DEF Stepped, ReplayStates
<1>11. t \in Nat
  BY <1>4, <1>7
<1> QED BY <1>1, <1>2, <1>3, <1>7, <1>8, <1>9, <1>10, <1>11

LEMMA InvResult ==
  ASSUME Inv
  PROVE  ResultFollowsInnings
<1> SUFFICES ASSUME match.result.code \in {"win_by_runs", "win_by_wickets", "tie"}
             PROVE
    LET lead(side) == SideTotal(cap, States, side) - SideTotal(cap, States, Opposite(side))
        last == innings[Len(innings)].state
    IN
    /\ AllComplete(States) /\ Len(innings) = Len(cap.sequence)
    /\ match.result.code = "tie" => lead("home") = 0
    /\ match.result.winner # None => lead(match.result.winner) > 0
    /\ match.result.code = "win_by_runs" => lead(match.result.winner) = match.result.margin
    /\ match.result.code = "win_by_wickets" =>
         /\ last.runs >= last.target /\ match.result.winner = innings[Len(innings)].side
         /\ match.result.margin = cap.wickets - last.wickets
  BY DEF ResultFollowsInnings
<1> DEFINE A == Home(match.rosters)
           B == Away(match.rosters)
           x == cap.sequence[1]
           y == cap.sequence[2]
           first == SideTotal(cap, States, x)
           second == SideTotal(cap, States, y)
           last == States[Len(States)]
           result == match.result
           winner == IF first > second THEN x ELSE y
           lead(side) == SideTotal(cap, States, side) - SideTotal(cap, States, Opposite(side))
<1>1. /\ AllComplete(States) /\ Len(States) = Len(cap.sequence) /\ cap # None
      /\ result = PlayedOut(cap, States)
  BY DecidedPlayedOut
<1>2. /\ Capability(cap) /\ Lineups(match.rosters) /\ Played(cap, match.rosters, innings)
      /\ Len(innings) \in Nat /\ DOMAIN innings = 1 .. Len(innings)
      /\ States = StatesIn(innings)
  BY <1>1, InvRows
<1>3. /\ States \in Seq(StatesOf(A, B)) /\ Len(States) = Len(innings)
      /\ \A i \in 1 .. Len(innings) : States[i] = innings[i].state
  <2>1. StateRow(innings, match.rosters)
    BY <1>2, StateRowIs
  <2> QED BY <1>2, <2>1 DEF StateRow
<1>4. /\ x \in Sides /\ y \in Sides /\ x # y /\ Len(cap.sequence) >= 2
  <2> DEFINE q == cap.sequence
  <2>1. q \in Seq(Sides) /\ Len(q) >= 2 /\ q[1] # q[2]
    BY <1>2 DEF Capability
  <2> HIDE DEF q
  <2>2. q[1] \in Sides /\ q[2] \in Sides
    BY <2>1
  <2> QED BY <2>1, <2>2 DEF q
<1>5. Opposite(x) = y /\ Opposite(y) = x
  BY <1>4, OppositeIs DEF Sides
<1>6. first \in Nat /\ second \in Nat
  <2> HIDE DEF A, B, x, y
  <2>1. SideTotal(cap, States, x) \in Nat
    BY <1>3, SideTotalIs
  <2>2. SideTotal(cap, States, y) \in Nat
    BY <1>3, SideTotalIs
  <2> QED BY <2>1, <2>2
<1>7. last = innings[Len(innings)].state
  BY <1>1, <1>2, <1>3, <1>4
<1>8. lead(x) = first - second /\ lead(y) = second - first
  BY <1>5
<1>9. "home" \in {x, y}
  BY <1>4 DEF Sides
<1> DEFINE margin == NotLess(first - second, second - first)
           hand == NotLess(0, cap.wickets - last.wickets)
<1>10. /\ first = second => result = Result("tie", None, 0)
       /\ first # second /\ last.reason = "target_reached"
            => result = Result("win_by_wickets", winner, hand)
       /\ first # second /\ last.reason # "target_reached"
            => result = Result("win_by_runs", winner, margin)
  BY <1>1 DEF PlayedOut
<1>11. AllComplete(States) /\ Len(innings) = Len(cap.sequence)
  BY <1>1, <1>3
<1> HIDE DEF lead, first, second, x, y, last
<1>12. result.code = "tie" => lead("home") = 0
  <2> SUFFICES ASSUME result.code = "tie"
               PROVE  lead("home") = 0
    OBVIOUS
  <2>1. first = second
    <3> HIDE DEF winner, margin, hand, result
    <3> QED BY <1>10 DEF Result
  <2>2. lead(x) = 0 /\ lead(y) = 0
    BY <1>6, <1>8, <2>1
  <2> QED BY <1>9, <2>2
<1>13. result.winner # None =>
         first # second /\ result.winner = winner
  <2> HIDE DEF winner, margin, hand, result
  <2> QED BY <1>10 DEF Result
<1>14. first # second => lead(winner) > 0 /\ lead(winner) = margin
  <2> SUFFICES ASSUME first # second
               PROVE  lead(winner) > 0 /\ lead(winner) = margin
    OBVIOUS
  <2>1. CASE first > second
    <3>1. winner = x
      BY <2>1
    <3>2. lead(x) > 0 /\ lead(x) = margin
      BY <1>6, <1>8, <2>1 DEF NotLess
    <3> QED BY <3>1, <3>2
  <2>2. CASE ~(first > second)
    <3>1. winner = y
      BY <2>2
    <3>2. lead(y) > 0 /\ lead(y) = margin
      BY <1>6, <1>8, <2>2 DEF NotLess
    <3> QED BY <3>1, <3>2
  <2> QED BY <2>1, <2>2
<1>15. result.code = "win_by_runs" => lead(result.winner) = result.margin
  <2> SUFFICES ASSUME result.code = "win_by_runs"
               PROVE  lead(result.winner) = result.margin
    OBVIOUS
  <2>1. first # second /\ result.winner = winner /\ result.margin = margin
    <3> HIDE DEF winner, margin, hand, result
    <3> QED BY <1>10 DEF Result
  <2> QED BY <1>14, <2>1
<1>16. ASSUME result.code = "win_by_wickets"
       PROVE  /\ last.runs >= last.target /\ result.winner = innings[Len(innings)].side
              /\ result.margin = cap.wickets - last.wickets
  <2>1. /\ first # second /\ result.winner = winner /\ result.margin = hand
        /\ last.reason = "target_reached"
    <3> HIDE DEF winner, margin, hand, result
    <3> QED BY <1>10, <1>16 DEF Result
  <2>2. /\ Len(States) = 2 /\ last.target \in Nat /\ last.runs \in Nat
        /\ last.runs >= last.target /\ last.target = States[1].runs + 1
        /\ last.wickets \in Nat /\ last.wickets <= cap.wickets
    BY <1>1, <2>1, ChaseWon DEF last
  <2>3. first = States[1].runs /\ second = States[2].runs
    <3> HIDE DEF A, B
    <3> QED BY <1>3, <1>4, <2>2, TwoInningsTotals DEF first, second, x, y
  <2>4. last = States[2]
    BY <2>2 DEF last
  <2>5. second > first
    BY <1>6, <2>2, <2>3, <2>4
  <2>6. winner = y
    BY <1>6, <2>5
  <2>7. innings[Len(innings)].side = y
    <3>1. Len(innings) = 2
      BY <1>3, <2>2
    <3> QED BY <1>2, <3>1 DEF Played, y
  <2>8. cap.wickets \in Nat
    BY <1>2 DEF Capability
  <2>9. hand = cap.wickets - last.wickets
    BY <2>2, <2>8 DEF NotLess
  <2> QED BY <2>1, <2>2, <2>6, <2>7, <2>9
<1> HIDE DEF winner, margin, hand
<1>17. result.winner # None => lead(result.winner) > 0
  BY <1>13, <1>14
<1> QED BY <1>7, <1>11, <1>12, <1>15, <1>16, <1>17 DEF lead

\* A result is never stale: whatever is corrected, a decided match has every innings it
\* needs, its winner leads by the margin recorded, and a chase was won on the last innings
\* with the wickets recorded in hand.
THEOREM ResultsFollow == Spec => []ResultFollowsInnings
<1>1. Inv => ResultFollowsInnings
  BY InvResult
<1> QED BY InvAlways, <1>1, PTL

-----------------------------------------------------------------------------
(* Every change of a decided card is announced.                            *)

\* A replay of the same histories gives the innings that are there.
LEMMA SameReplay ==
  ASSUME NEW pol, Capability(pol), NEW rosters, Lineups(rosters),
         NEW I, Played(pol, rosters, I), NEW states,
         Corrected(pol, rosters, I, states, Len(I)),
         \A i \in 1 .. Len(I) : states[i].error = None
  PROVE  states = StatesIn(I)
<1> DEFINE N == Len(I)
           Q == StatesIn(I)
           P == {i \in 0 .. N : \A j \in 1 .. i : states[j] = Q[j]}
<1>1. /\ N \in Nat /\ DOMAIN I = 1 .. N
      /\ \A i \in 1 .. N : RowKept(pol, rosters, I[i]) /\ I[i].state.error = None
  BY DEF Played
<1>2. Q = [i \in 1 .. N |-> I[i].state]
  BY <1>1 DEF StatesIn
<1>3. ASSUME NEW i \in 1 .. N, \A j \in 1 .. (i - 1) : states[j] = Q[j]
      PROVE  states[i] = Q[i]
  <2> DEFINE source == SourceOf(rosters, I[i])
             bat == BatOf(rosters, I[i])
             field == FieldOf(rosters, I[i])
             t == Target(pol, i, Q)
  <2>1. PICK c : I[i].state = StepOf(pol, source, Q, i, c)
    BY DEF Played, IsStep
  <2>2. PICK d : states[i] = StepOf(pol, source, states, i, d)
    BY DEF Corrected
  <2>3. source \in SourceRows(bat, field) /\ source.deliveries = ActiveFacts(I[i])
    BY <1>1, RowSource
  <2>4. Q[i] = I[i].state /\ ~Fails(Q[i]) /\ ~Fails(states[i])
    BY <1>1, <1>2 DEF Fails
  <2>5. DOMAIN source.deliveries = 1 .. Len(I[i].deliveries) /\ Len(I[i].deliveries) \in Nat
    <3> DEFINE D == DOMAIN I[i].deliveries
    <3>1. I[i] \in Rows(bat, field)
      BY <1>1 DEF RowKept
    <3>2. D = 1 .. Len(I[i].deliveries) /\ Len(I[i].deliveries) \in Nat
      <4> DEFINE S == Seq(Facts(bat, field)) \ {<<>>}
      <4>1. I[i].deliveries \in Seq(S)
        BY <3>1 DEF Rows
      <4> HIDE DEF S
      <4> QED BY <4>1
    <3> QED BY <2>3, <3>2 DEF ActiveFacts
  <2> HIDE DEF source, bat, field, Q
  <2>6. states[i] = StepOf(pol, source, Q, i, d)
    BY <1>3, <2>2, StepOfPrefix
  <2>7. CASE PlayedBefore(Q, i)
    <3>1. /\ Q[i] = ReplayInnings(pol, source, t, c)
          /\ states[i] = ReplayInnings(pol, source, t, d)
      BY <2>1, <2>4, <2>6, <2>7 DEF StepOf
    <3> HIDE DEF t
    <3> QED BY <2>4, <2>5, <3>1, ReplaysAgree
  <2>8. CASE ~PlayedBefore(Q, i)
    <3>1. /\ Q[i] = NotReplayed(ReplayInnings(pol, Unplayed(source), None, c), source)
          /\ states[i] = NotReplayed(ReplayInnings(pol, Unplayed(source), None, d), source)
      BY <2>1, <2>4, <2>6, <2>8 DEF StepOf
    <3>2. ReplayInnings(pol, Unplayed(source), None, c)
            = ReplayInnings(pol, Unplayed(source), None, d)
      BY <2>3, UnplayedReplay
    <3> QED BY <3>1, <3>2
  <2> QED BY <2>7, <2>8
<1> HIDE DEF Q
<1>4. 0 \in P
  BY <1>1
<1>5. \A i \in 1 .. N : i - 1 \in P => i \in P
  <2> SUFFICES ASSUME NEW i \in 1 .. N, i - 1 \in P PROVE i \in P
    OBVIOUS
  <2>1. states[i] = Q[i]
    BY <1>3
  <2> QED BY <1>1, <2>1
<1>6. N \in P
  <2> HIDE DEF P
  <2> QED BY <1>1, <1>4, <1>5, ChainHolds
<1>7. states = [i \in 1 .. N |-> states[i]]
  <2> DEFINE S == StatesOf(Home(rosters), Away(rosters))
  <2>1. states \in Seq(S) /\ Len(states) = N
    BY DEF Corrected
  <2> HIDE DEF S
  <2> QED BY <2>1
<1>8. \A i \in 1 .. N : states[i] = I[i].state
  BY <1>2, <1>6
<1> QED BY <1>2, <1>7, <1>8 DEF Q

\* A revision with the facts that are there gives the match that is there.
LEMMA SameRevision ==
  ASSUME Inv, NEW k \in DOMAIN innings, NEW n \in DOMAIN innings[k].deliveries,
         NEW f, f = Last(innings[k].deliveries[n])
  PROVE  \A i \in 1 .. Len(innings) :
           Replaced(k, n, f)[i] = SourceOf(match.rosters, innings[i])
<1>1. DOMAIN innings = 1 .. Len(innings)
  BY InvRows
<1> SUFFICES ASSUME NEW i \in 1 .. Len(innings)
             PROVE  Replaced(k, n, f)[i] = SourceOf(match.rosters, innings[i])
  OBVIOUS
<1>2. Source(innings[i]) = SourceOf(match.rosters, innings[i])
  BY SourceIs
<1>3. CASE i # k
  BY <1>1, <1>2, <1>3 DEF Replaced
<1>4. CASE i = k
  <2> DEFINE inn == innings[k]
             d == ActiveFacts(inn)
  <2>1. Replaced(k, n, f)[i] = [Source(inn) EXCEPT !.deliveries[n] = f]
    BY <1>1, <1>4 DEF Replaced
  <2>2. [d EXCEPT ![n] = f] = d
    BY DEF ActiveFacts
  <2> HIDE DEF d
  <2>3. Source(inn) = [side |-> inn.side, batters |-> Batters(inn),
                       fielders |-> Fielders(inn), openers |-> inn.openers,
                       deliveries |-> d, transitions |-> inn.transitions]
    BY DEF Source, d
  <2>4. [Source(inn) EXCEPT !.deliveries[n] = f] = Source(inn)
    BY <2>2, <2>3
  <2> QED BY <1>2, <1>4, <2>1, <2>4
<1> QED BY <1>3, <1>4

\* So a correction that changes no fact changes neither an innings nor the result.
LEMMA ImmaterialKeepsCard ==
  ASSUME Inv, NEW k \in DOMAIN innings, NEW n \in DOMAIN innings[k].deliveries,
         match.life \in {"in_progress", "completed"},
         NEW f \in Facts(BatOf(match.rosters, innings[k]), FieldOf(match.rosters, innings[k])),
         Checked(cap, FieldOf(match.rosters, innings[k]), f), NEW saw \in Versions, NEW states,
         states = ReplayMatch(cap, Replaced(k, n, f), k, n), Rebuilds(k, n, f, states, saw),
         ~Material(Last(innings[k].deliveries[n]), f), match'.life = "completed"
  PROVE  Card' = Card
<1> DEFINE N == Len(innings)
           V == [i \in DOMAIN innings |->
                   IF i = k THEN Revised(innings[k], n, f) ELSE innings[i]]
           result == DeriveResult(cap, states, match.life, match.result)
           rosters == match.rosters
           sources == Replaced(k, n, f)
<1>1. /\ cap # None /\ Capability(cap) /\ Lineups(rosters) /\ match \in MatchRows
      /\ N \in Nat /\ DOMAIN innings = 1 .. N /\ Played(cap, rosters, innings)
      /\ States = StatesIn(innings)
  BY InvRows, LiveRow
<1>2. /\ Replayable(cap, rosters, V, states, N)
      /\ Redone(innings', cap, rosters, V, states, N)
  BY RebuildsRows
<1>3. match' = [NextVersion(match) EXCEPT !.life = MatchLife(result), !.result = result]
  BY DEF Rebuilds
<1> HIDE DEF V, result
<1>4. /\ \A i \in 1 .. N : states[i].error = None
      /\ states \in Seq(StatesOf(Home(rosters), Away(rosters))) /\ Len(states) = N
  BY <1>2 DEF Replayable, Corrected
<1>5. Played(cap, rosters, innings') /\ Len(innings') = N /\ StatesIn(innings') = states
  BY <1>2 DEF Redone
<1>6. Corrected(cap, rosters, innings, states, N)
  <2>1. f = Last(innings[k].deliveries[n])
    BY DEF Material
  <2>2. \A i \in 1 .. N : sources[i] = SourceOf(rosters, innings[i])
    BY <2>1, SameRevision
  <2>3. DOMAIN sources = 1 .. N
    BY <1>1 DEF Replaced
  <2>4. \A i \in 1 .. N : RowKept(cap, rosters, innings[i])
    BY <1>1 DEF Played
  <2> HIDE DEF N, rosters
  <2> QED BY <1>1, <2>2, <2>3, <2>4, CorrectionReplayed
<1>7. states = States
  <2> HIDE DEF rosters
  <2> QED BY <1>1, <1>4, <1>6, SameReplay
<1>8. result \in Outcomes
  <2>1. match.result \in Outcomes
    BY <1>1, MatchRowTyped
  <2> HIDE DEF rosters, N
  <2> QED BY <1>1, <1>4, <2>1, DeriveResultTyped DEF result
<1>9. Moved(match', match, MatchLife(result), result)
  <2>1. MatchLife(result) \in Lives
    BY MatchLifeTyped DEF Lives
  <2> QED BY <1>1, <1>3, <1>8, <2>1, NextMatchRow
<1>10. MatchLife(result) = "completed" /\ match'.result = result
  BY <1>9 DEF Moved
<1>11. result = match.result
  <2>1. CASE match.life = "completed"
    <3>1. match.result = DeriveResult(cap, States, "completed", match.result)
      BY <2>1 DEF Inv, Concluded, cap
    <3> QED BY <1>7, <2>1, <3>1 DEF result
  <2>2. CASE match.life = "in_progress"
    <3>1. DeriveResult(cap, States, "in_progress", Pending) = Pending /\ match.result = Pending
      BY <2>2 DEF Inv, Concluded, cap
    <3> QED BY <1>7, <2>2, <3>1 DEF result
  <2> QED BY <2>1, <2>2
<1>12. DOMAIN innings' = 1 .. N
  <2> DEFINE R == Rows(Home(rosters), Away(rosters)) \cup Rows(Away(rosters), Home(rosters))
  <2>1. innings' \in Seq(R)
    BY <1>5 DEF Played
  <2> HIDE DEF R
  <2> QED BY <1>5, <2>1
<1>13. \A i \in 1 .. N : innings'[i].state = innings[i].state
  <2>1. StatesIn(innings') = StatesIn(innings)
    BY <1>1, <1>5, <1>7
  <2>2. \A i \in 1 .. N : StatesIn(innings')[i] = innings'[i].state
    BY <1>12 DEF StatesIn
  <2>3. \A i \in 1 .. N : StatesIn(innings)[i] = innings[i].state
    BY <1>1 DEF StatesIn
  <2> QED BY <2>1, <2>2, <2>3
<1>14. [i \in DOMAIN innings' |-> Compared(innings'[i].state)]
         = [i \in DOMAIN innings |-> Compared(innings[i].state)]
  BY <1>1, <1>12, <1>13
<1> QED BY <1>10, <1>11, <1>14 DEF Card

\* What a step owes to the readers of a decided card.
Owed == match'.life = "completed" /\ Card' # Card => match'.version \in refreshes'

LEMMA AdvancesAnnounces ==
  ASSUME Inv, Progresses, NEW k \in DOMAIN innings, NEW changed, NEW saw,
         Advances(k, changed, saw)
  PROVE  Owed
<1>1. match.life = "in_progress" /\ match \in MatchRows
  BY Underway, InvRows
<1>2. PICK s : \/ \E finished \in {Finished(k, s)} :
                    /\ match' = finished
                    /\ refreshes' = IF finished.life = "completed"
                                    THEN refreshes \cup {match.version + 1} ELSE refreshes
               \/ match' = NextVersion(match)
  BY DEF Advances
<1>3. CASE match' = NextVersion(match)
  <2>1. match'.life = match.life
    BY <1>1, <1>3 DEF NextVersion, MatchRows
  <2> QED BY <1>1, <2>1 DEF Owed
<1>4. CASE \E finished \in {Finished(k, s)} :
             /\ match' = finished
             /\ refreshes' = IF finished.life = "completed"
                             THEN refreshes \cup {match.version + 1} ELSE refreshes
  <2> DEFINE result == DeriveResult(cap, [States EXCEPT ![k] = s], "in_progress", Pending)
  <2>1. match' = [NextVersion(match) EXCEPT !.result = result, !.life = MatchLife(result)]
    BY <1>4 DEF Finished
  <2>2. match'.life = "completed" => refreshes' = refreshes \cup {match.version + 1}
    BY <1>4
  <2> HIDE DEF result
  <2>3. match'.version = match.version + 1
    BY <1>1, <2>1 DEF NextVersion, MatchRows
  <2> QED BY <2>2, <2>3 DEF Owed
<1> QED BY <1>2, <1>3, <1>4

LEMMA CorrectDeliveryAnnounces ==
  ASSUME Inv, NEW k \in DOMAIN innings, NEW n \in DOMAIN innings[k].deliveries,
         NEW o \in Observations, NEW saw \in Versions, CorrectDelivery(k, n, o, saw)
  PROVE  Owed
<1> DEFINE f == FactsOf(o, ActorsAt(k, n), FieldingOrder(innings[k]))
           states == ReplayMatch(cap, Replaced(k, n, f), k, n)
           was == Last(innings[k].deliveries[n])
<1>1. CorrectionChecked(k, n, f) /\ Rebuilds(k, n, f, states, saw)
  BY CorrectionIsChecked
<1> HIDE DEF f
<1>2. CASE Material(was, f)
  <2>1. /\ refreshes' = refreshes \cup {match.version + 1}
        /\ \E result : match' = [NextVersion(match) EXCEPT !.life = MatchLife(result),
                                                           !.result = result]
    BY <1>1, <1>2 DEF Rebuilds
  <2>2. match'.version = match.version + 1
    BY <2>1, InvRows DEF NextVersion, MatchRows
  <2> QED BY <2>1, <2>2 DEF Owed
<1>3. CASE ~Material(was, f)
  <2>1. match'.life = "completed" => Card' = Card
    BY <1>1, <1>3, ImmaterialKeepsCard DEF CorrectionChecked
  <2> QED BY <2>1 DEF Owed
<1> QED BY <1>2, <1>3

LEMMA NextAnnounces ==
  ASSUME Inv, [Next]_vars
  PROVE  Owed
<1>0. match \in MatchRows /\ Progresses => match.life \in {"scheduled", "in_progress"}
  BY DEF Progresses
<1>1. ASSUME NEW c \in Configurations, NEW saw \in Versions, ConfigureMatch(c, saw)
      PROVE  Owed
  <2> DEFINE p == ResolveCapability(c.request)
             q == c.rosters
  <2>1. /\ match' = [NextVersion(match) EXCEPT !.cap = p, !.rosters = q]
        /\ match.life = "scheduled"
    BY <1>1 DEF ConfigureMatch
  <2> HIDE DEF p, q
  <2>2. match'.life = match.life
    BY <2>1, InvRows DEF NextVersion, MatchRows
  <2> QED BY <2>1, <2>2 DEF Owed
<1>2. ASSUME NEW o \in Openings, NEW saw \in Versions, StartInnings(o, saw)
      PROVE  Owed
  <2>1. match' = [NextVersion(match) EXCEPT !.life = "in_progress"]
    BY <1>2 DEF StartInnings
  <2>2. match'.life = "in_progress"
    BY <2>1, InvRows DEF NextVersion, MatchRows
  <2> QED BY <2>2 DEF Owed
<1>3. ASSUME NEW k \in DOMAIN innings, NEW o \in Observations, NEW saw \in Versions,
             AppendDelivery(k, o, saw)
      PROVE  Owed
  <2>1. Progresses /\ \E changed : Advances(k, changed, saw)
    BY <1>3 DEF AppendDelivery, Claims
  <2> QED BY <2>1, AdvancesAnnounces
<1>4. ASSUME NEW k \in DOMAIN innings, NEW saw \in Versions,
             NEW who \in Batters(innings[k]), NEW replaced \in Batters(innings[k]),
             SelectNextBatter(k, who, replaced, saw)
      PROVE  Owed
  <2>1. Progresses /\ \E changed : Advances(k, changed, saw)
    BY <1>4 DEF SelectNextBatter, Claims
  <2> QED BY <2>1, AdvancesAnnounces
<1>5. ASSUME NEW k \in DOMAIN innings, NEW overrides \in BOOLEAN, NEW saw \in Versions,
             NEW who \in Fielders(innings[k]), SelectNextBowler(k, who, overrides, saw)
      PROVE  Owed
  <2>1. Progresses /\ \E changed : Advances(k, changed, saw)
    BY <1>5 DEF SelectNextBowler, Claims
  <2> QED BY <2>1, AdvancesAnnounces
<1>6. ASSUME NEW k \in DOMAIN innings, NEW kind \in Retirements, NEW saw \in Versions,
             NEW who \in Batters(innings[k]), RetirementTransition(k, kind, who, saw)
      PROVE  Owed
  <2>1. Progresses /\ \E changed : Advances(k, changed, saw)
    BY <1>6 DEF RetirementTransition, Claims
  <2> QED BY <2>1, AdvancesAnnounces
<1>7. ASSUME NEW k \in DOMAIN innings, NEW saw \in Versions,
             NEW mode \in AutomaticModes \cup ExplicitModes, CompleteInnings(k, mode, saw)
      PROVE  Owed
  <2>1. Progresses /\ \E changed : Advances(k, changed, saw)
    BY <1>7 DEF CompleteInnings, Claims
  <2> QED BY <2>1, AdvancesAnnounces
<1>8. ASSUME NEW saw \in Versions,
             NEW kind \in ExplicitResults \cup {"derived_result", "abandonment"},
             CompleteMatch(kind, saw)
      PROVE  Owed
  <2> DEFINE outcome == Outcome(kind)
             life == IF kind = "abandonment" THEN "abandoned" ELSE "completed"
  <2>1. /\ match' = [NextVersion(match) EXCEPT !.result = outcome, !.life = life]
        /\ refreshes' = refreshes \cup {match.version + 1}
    BY <1>8 DEF CompleteMatch
  <2> HIDE DEF outcome, life
  <2>2. match'.version = match.version + 1
    BY <2>1, InvRows DEF NextVersion, MatchRows
  <2> QED BY <2>1, <2>2 DEF Owed
<1>9. ASSUME NEW k \in DOMAIN innings, NEW o \in Observations, NEW saw \in Versions,
             NEW n \in DOMAIN innings[k].deliveries, CorrectDelivery(k, n, o, saw)
      PROVE  Owed
  BY <1>9, CorrectDeliveryAnnounces
<1>10. CASE UNCHANGED vars
  <2>1. Card' = Card
    BY <1>10 DEF vars, Card
  <2> QED BY <2>1 DEF Owed
<1> QED BY <1>1, <1>2, <1>3, <1>4, <1>5, <1>6, <1>7, <1>8, <1>9, <1>10 DEF Next

\* A step that leaves a decided match with another result or another score stages the refresh
\* of its version: a correction that changes no fact replays to the card that is there, and
\* every other step that decides a match or changes a decided one announces it.
THEOREM ChangedCardsAnnounced == Spec => ChangedCardAnnounced
<1>1. Inv /\ [Next]_vars =>
        [match'.life = "completed" /\ Card' # Card => match'.version \in refreshes']_vars
  BY NextAnnounces DEF Owed
<1> QED BY InvAlways, <1>1, PTL DEF Spec, ChangedCardAnnounced

-----------------------------------------------------------------------------
(* The blocks shown are those of the states beside them.                   *)

\* The block of an innings of a match that is played.
Tells(pol, field, s) ==
  LET previous == PreviousBowler(s, s.legal \div pol.over)
      canBowl  == \E p \in field : Ineligibility(pol, p, field, Balls(s), previous) = None
  IN Blocking("in_progress", s.life, s.striker, s.nonStriker, s.bowler, canBowl)

RowTold(pol, rosters, inn) == inn.block = Tells(pol, FieldOf(rosters, inn), inn.state)

Told ==
  match.life = "in_progress" => \A k \in DOMAIN innings : RowTold(cap, match.rosters, innings[k])

LEMMA TellsIs ==
  ASSUME NEW inn, NEW s
  PROVE  InningsBlocking(cap, Source(inn), s, "in_progress")
           = Tells(cap, FieldOf(match.rosters, inn), s)
<1>1. Source(inn).fielders = FieldOf(match.rosters, inn)
  BY SourceIs DEF SourceOf
<1> DEFINE source == Source(inn)
           field == FieldOf(match.rosters, inn)
<1> HIDE DEF source, field
<1>2. source.fielders = field
  BY <1>1 DEF source, field
<1>3. InningsBlocking(cap, source, s, "in_progress") = Tells(cap, field, s)
  BY <1>2 DEF InningsBlocking, Tells
<1> QED BY <1>3 DEF source, field

\* Persisting a row writes its state and its block.
LEMMA PersistedTells ==
  ASSUME NEW bat, NEW field, NEW inn \in Rows(bat, field), NEW s, NEW life
  PROVE  LET r == Persisted(inn, s, life) IN
         /\ r.state = s /\ r.side = inn.side
         /\ r.block = InningsBlocking(cap, Source(inn), s, life)
<1> DEFINE O == {o \in [striker : bat, nonStriker : bat, bowler : field] :
                o.striker # o.nonStriker}
           D == Seq(Seq(Facts(bat, field)) \ {<<>>})
           T == Seq(Transitions(bat, field))
           S == ReplayStates(bat, field)
           V == Nat \ {0}
           L == [bat -> Nat]
           b == InningsBlocking(cap, Source(inn), s, life)
           w == inn.revision + 1
           r == Persisted(inn, s, life)
<1>1. r = [inn EXCEPT !.state = s, !.block = b, !.revision = w]
  BY DEF Persisted
<1>2. inn \in [side : Sides, version : V, openers : O, deliveries : D, transitions : T,
               state : S, block : Blocks, revision : Nat, links : L]
  BY DEF Rows
<1> HIDE DEF O, D, T, S, V, L, b, w, r
<1>3. r.state = s /\ r.side = inn.side /\ r.block = b
  BY <1>1, <1>2
<1> QED BY <1>3 DEF b, r

LEMMA NextVersionRow ==
  ASSUME NEW bat, NEW field, NEW inn \in Rows(bat, field)
  PROVE  NextVersion(inn) \in Rows(bat, field) /\ NextVersion(inn).side = inn.side
<1> DEFINE O == {o \in [striker : bat, nonStriker : bat, bowler : field] :
                o.striker # o.nonStriker}
           D == Seq(Seq(Facts(bat, field)) \ {<<>>})
           T == Seq(Transitions(bat, field))
           S == ReplayStates(bat, field)
           V == Nat \ {0}
           L == [bat -> Nat]
           v == inn.version + 1
           q == NextVersion(inn)
<1>1. v \in V
  <2>1. inn.version \in Nat \ {0}
    BY RowTyped
  <2> QED BY <2>1
<1>2. inn \in [side : Sides, version : V, openers : O, deliveries : D, transitions : T,
               state : S, block : Blocks, revision : Nat, links : L]
  BY DEF Rows
<1>3. q = [inn EXCEPT !.version = v]
  BY DEF NextVersion
<1> HIDE DEF O, D, T, S, V, L, v, q
<1>4. /\ q \in [side : Sides, version : V, openers : O, deliveries : D, transitions : T,
                state : S, block : Blocks, revision : Nat, links : L]
      /\ q.side = inn.side
  BY <1>1, <1>2, <1>3
<1> QED BY <1>4 DEF Rows, O, D, T, S, V, L, q

LEMMA PersistedTold ==
  ASSUME NEW bat, NEW field, NEW inn \in Rows(bat, field), NEW s
  PROVE  RowTold(cap, match.rosters, Persisted(NextVersion(inn), s, "in_progress"))
<1> DEFINE q == NextVersion(inn)
           r == Persisted(q, s, "in_progress")
<1>1. q \in Rows(bat, field)
  BY NextVersionRow
<1> HIDE DEF q
<1>2. r.state = s /\ r.side = q.side /\ r.block = InningsBlocking(cap, Source(q), s, "in_progress")
  BY <1>1, PersistedTells
<1>3. InningsBlocking(cap, Source(q), s, "in_progress") = Tells(cap, FieldOf(match.rosters, q), s)
  BY TellsIs
<1> HIDE DEF r
<1>4. FieldOf(match.rosters, r) = FieldOf(match.rosters, q)
  BY <1>2 DEF FieldOf
<1>5. RowTold(cap, match.rosters, r)
  BY <1>2, <1>3, <1>4 DEF RowTold
<1> QED BY <1>5 DEF r, q

LEMMA RebuiltTold ==
  ASSUME NEW bat, NEW field, NEW inn \in Rows(bat, field),
         NEW s \in ReplayStates(bat, field), NEW result, MatchLife(result) = "in_progress"
  PROVE  RowTold(cap, match.rosters, Rebuilt(inn, s, result))
<1> DEFINE l == Links(inn, s)
           life == "in_progress"
           q == Persisted(NextVersion(inn), s, life)
           r == Rebuilt(inn, s, result)
           O == {o \in [striker : bat, nonStriker : bat, bowler : field] :
                o.striker # o.nonStriker}
           D == Seq(Seq(Facts(bat, field)) \ {<<>>})
           T == Seq(Transitions(bat, field))
           S == ReplayStates(bat, field)
           V == Nat \ {0}
           L == [bat -> Nat]
<1>1. q \in Rows(bat, field)
  <2> HIDE DEF life
  <2>1. Restored(q, inn, s, bat, field)
    BY PersistedIs
  <2> QED BY <2>1 DEF Restored
<1>2. r = [q EXCEPT !.links = l]
  BY DEF Rebuilt
<1>3. RowTold(cap, match.rosters, q)
  BY PersistedTold
<1> HIDE DEF l, q, r, life
<1>4. q \in [side : Sides, version : V, openers : O, deliveries : D, transitions : T,
             state : S, block : Blocks, revision : Nat, links : L]
  BY <1>1 DEF Rows
<1> HIDE DEF O, D, T, S, V, L
<1>5. r.side = q.side /\ r.state = q.state /\ r.block = q.block
  BY <1>2, <1>4
<1>6. RowTold(cap, match.rosters, r)
  BY <1>3, <1>5 DEF RowTold, FieldOf
<1> QED BY <1>6 DEF r

LEMMA AdvancesTold ==
  ASSUME Inv, Told, Progresses, NEW k \in DOMAIN innings,
         innings[k].state.life = "in_progress", NEW changed,
         Extends(cap, match.rosters, innings[k], changed), NEW saw, Advances(k, changed, saw)
  PROVE  match'.cap = match.cap /\ match'.rosters = match.rosters /\ Told'
<1> DEFINE life == match.life
           row(s) == Persisted(NextVersion(changed), s, life)
           rosters == match.rosters
<1>1. PICK s : /\ innings' = [innings EXCEPT ![k] = row(s)]
               /\ \/ match' = Finished(k, s)
                  \/ match' = NextVersion(match)
  BY DEF Advances
<1>2. life = "in_progress" /\ match \in MatchRows /\ DOMAIN innings = 1 .. Len(innings)
  BY Underway, InvRows
<1>3. match'.cap = match.cap /\ match'.rosters = match.rosters
  <2> DEFINE result == DeriveResult(cap, [States EXCEPT ![k] = s], "in_progress", Pending)
             over == MatchLife(result)
  <2>1. \/ match' = [NextVersion(match) EXCEPT !.result = result, !.life = over]
        \/ match' = NextVersion(match)
    BY <1>1 DEF Finished
  <2> HIDE DEF result, over
  <2> QED BY <1>2, <2>1 DEF NextVersion, MatchRows
<1>4. RowTold(cap, rosters, row(s))
  <2>1. changed \in Rows(BatOf(rosters, changed), FieldOf(rosters, changed))
    BY DEF Extends, RowKept
  <2> QED BY <1>2, <2>1, PersistedTold
<1>5. ASSUME NEW j \in DOMAIN innings' PROVE RowTold(cap, rosters, innings'[j])
  <2>1. \A i \in DOMAIN innings : RowTold(cap, rosters, innings[i])
    BY <1>2 DEF Told
  <2> DEFINE z == row(s)
  <2> HIDE DEF z, row, rosters
  <2>2. innings' = [innings EXCEPT ![k] = z] /\ RowTold(cap, rosters, z)
    BY <1>1, <1>4 DEF z
  <2>3. j \in DOMAIN innings /\ innings'[j] = IF j = k THEN z ELSE innings[j]
    BY <2>2
  <2> QED BY <2>1, <2>2, <2>3
<1>6. cap' = cap
  BY <1>3 DEF cap
<1> QED BY <1>3, <1>5, <1>6 DEF Told

LEMMA RecordedTold ==
  ASSUME Inv, Told, Progresses, NEW k \in DOMAIN innings, innings[k].state.life = "in_progress",
         NEW kind, NEW who, NEW mode, NEW saw,
         \A a \in Nat : [kind |-> kind, who |-> who, mode |-> mode, anchor |-> a]
                          \in Transitions(Batters(innings[k]), Fielders(innings[k])),
         Advances(k, Recorded(innings[k], kind, who, mode), saw)
  PROVE  Told'
<1> DEFINE inn == innings[k]
<1>1. /\ RowKept(cap, match.rosters, inn) /\ Len(inn.deliveries) \in Nat
      /\ Batters(inn) = BatOf(match.rosters, inn) /\ Fielders(inn) = FieldOf(match.rosters, inn)
  BY LiveRow
<1>2. [kind |-> kind, who |-> who, mode |-> mode, anchor |-> Len(inn.deliveries)]
        \in Transitions(BatOf(match.rosters, inn), FieldOf(match.rosters, inn))
  BY <1>1
<1>3. Extends(cap, match.rosters, inn, Recorded(inn, kind, who, mode))
  BY <1>1, <1>2, RecordedExtends
<1> QED BY <1>3, AdvancesTold

LEMMA AppendDeliveryTold ==
  ASSUME Inv, Told, NEW k \in DOMAIN innings, NEW o \in Observations, NEW saw,
         AppendDelivery(k, o, saw)
  PROVE  Told'
<1> DEFINE inn == innings[k]
           f == FactsOf(o, inn.state, FieldingOrder(inn))
           bat == BatOf(match.rosters, inn)
           field == FieldOf(match.rosters, inn)
<1>1. /\ inn.state.life = "in_progress" /\ Progresses
      /\ SelectionsComplete(inn.state) /\ FactsShape(f) /\ WicketFits(f, field, cap)
      /\ Advances(k, WithDelivery(inn, f), saw)
  BY PlayerSets DEF AppendDelivery, InProgress, Claims, WithDelivery
<1>2. /\ RowKept(cap, match.rosters, inn) /\ inn.state \in ReplayStates(bat, field)
      /\ None \notin bat
  BY LiveRow
<1>3. f \in Facts(bat, field)
  <2> HIDE DEF inn, bat, field
  <2> QED BY <1>1, <1>2, FactsOfTyped
<1>4. Checked(cap, field, f)
  BY <1>1 DEF Checked
<1> HIDE DEF f
<1>5. Extends(cap, match.rosters, inn, WithDelivery(inn, f))
  BY <1>2, <1>3, <1>4, DeliveryExtends
<1> QED BY <1>1, <1>5, AdvancesTold

LEMMA CompleteInningsTold ==
  ASSUME Inv, Told, NEW k \in DOMAIN innings, NEW mode, NEW saw, CompleteInnings(k, mode, saw)
  PROVE  Told'
<1> DEFINE inn == innings[k]
<1>1. PICK automatic :
        /\ inn.state.life = "in_progress" /\ Progresses
        /\ Advances(k, IF automatic = None
                      THEN Recorded(inn, "innings_completed", None, RecordedMode) ELSE inn, saw)
  BY DEF CompleteInnings, Claims
<1>2. CASE automatic = None
  <2>1. RecordedMode \in ExplicitModes
    BY DEF RecordedMode, ExplicitModes
  <2>2. \A a \in Nat : [kind |-> "innings_completed", who |-> None, mode |-> RecordedMode,
                        anchor |-> a] \in Transitions(Batters(inn), Fielders(inn))
    BY <2>1 DEF Transitions
  <2>3. Advances(k, Recorded(inn, "innings_completed", None, RecordedMode), saw)
    BY <1>1, <1>2
  <2> QED BY <1>1, <2>2, <2>3, RecordedTold
<1>3. CASE automatic # None
  <2>1. Extends(cap, match.rosters, inn, inn)
    BY LiveRow DEF Extends
  <2>2. Advances(k, inn, saw)
    BY <1>1, <1>3
  <2> QED BY <1>1, <2>1, <2>2, AdvancesTold
<1> QED BY <1>2, <1>3

LEMMA CorrectDeliveryTold ==
  ASSUME Inv, NEW k \in DOMAIN innings, NEW n \in DOMAIN innings[k].deliveries,
         NEW o \in Observations, NEW saw \in Versions, CorrectDelivery(k, n, o, saw)
  PROVE  Told'
<1> DEFINE f == FactsOf(o, ActorsAt(k, n), FieldingOrder(innings[k]))
           states == ReplayMatch(cap, Replaced(k, n, f), k, n)
           result == DeriveResult(cap, states, match.life, match.result)
           V == [i \in DOMAIN innings |->
                   IF i = k THEN Revised(innings[k], n, f) ELSE innings[i]]
           N == Len(innings)
           rosters == match.rosters
           life == MatchLife(result)
<1>1. CorrectionChecked(k, n, f) /\ Rebuilds(k, n, f, states, saw)
  BY CorrectionIsChecked
<1> HIDE DEF f
<1>2. /\ match' = [NextVersion(match) EXCEPT !.life = life, !.result = result]
      /\ innings' = [i \in DOMAIN innings |-> Rebuilt(V[i], states[i], result)]
  BY <1>1 DEF Rebuilds
<1>3. match \in MatchRows /\ DOMAIN innings = 1 .. N
  BY InvRows
<1>4. match'.life = life /\ match'.cap = match.cap /\ match'.rosters = rosters
  <2> HIDE DEF result, life
  <2> QED BY <1>2, <1>3 DEF NextVersion, MatchRows
<1>5. Replayable(cap, rosters, V, states, N)
  BY <1>1, RebuildsRows DEF CorrectionChecked
<1> HIDE DEF V, states, result
<1>6. ASSUME life = "in_progress", NEW i \in DOMAIN innings
      PROVE  RowTold(cap, rosters, innings'[i])
  <2> DEFINE inn == V[i]
             bat == BatOf(rosters, inn)
             field == FieldOf(rosters, inn)
             s == states[i]
             source == SourceOf(rosters, inn)
  <2>1. /\ RowKept(cap, rosters, inn)
        /\ Stepped(s, cap, source, TargetOf(cap, states, i))
    BY <1>3, <1>5 DEF Replayable, Corrected
  <2>2. inn \in Rows(bat, field)
    BY <2>1 DEF RowKept
  <2>3. source.batters = bat /\ source.fielders = field
    BY DEF SourceOf
  <2>4. s \in ReplayStates(bat, field)
    BY <2>1, <2>3 DEF Stepped
  <2>5. innings'[i] = Rebuilt(inn, s, result)
    BY <1>2
  <2>6. RowTold(cap, rosters, Rebuilt(inn, s, result))
    <3> HIDE DEF inn, bat, field, s
    <3> QED BY <1>6, <2>2, <2>4, RebuiltTold
  <2> QED BY <2>5, <2>6
<1>7. DOMAIN innings' = DOMAIN innings /\ cap' = cap
  BY <1>2, <1>4 DEF cap
<1> QED BY <1>4, <1>6, <1>7 DEF Told

LEMMA StartInningsTold ==
  ASSUME Inv, Told, NEW opening, NEW saw, StartInnings(opening, saw)
  PROVE  Told'
<1> DEFINE n == Len(innings)
           k == n + 1
           side == cap.sequence[k]
           order == match.rosters[side]
           against == match.rosters[Opposite(side)]
           bat == ToSet(order)
           field == ToSet(against)
           o == [striker |-> order[opening.striker],
                 nonStriker |-> order[opening.nonStriker],
                 bowler |-> against[opening.bowler]]
           target == Target(cap, k, States)
           fresh == Opening(cap, bat, field, o, target)
           links == [p \in bat |-> 0]
           started == [side |-> side, version |-> 1, openers |-> o,
                       deliveries |-> <<>>, transitions |-> <<>>,
                       state |-> fresh, block |-> "none", revision |-> 0, links |-> links]
           row == Persisted(started, Live(started), "in_progress")
           rosters == match.rosters
<1>1. /\ cap # None /\ Progresses /\ k <= Len(cap.sequence)
      /\ OpenersFit(o, bat, field)
      /\ target # None => target <= RunMax
      /\ match' = [NextVersion(match) EXCEPT !.life = "in_progress"]
      /\ innings' = Append(innings, row)
  BY DEF StartInnings
<1>2. /\ match \in MatchRows /\ n \in Nat
      /\ DOMAIN innings = 1 .. n /\ Capability(cap)
      /\ Played(cap, match.rosters, innings)
  BY <1>1, InvRows
<1>3. k \in 1 .. Len(cap.sequence) /\ side \in Sides
  <2> DEFINE q == cap.sequence
  <2>1. q \in Seq(Sides) /\ k \in Nat /\ k >= 1 /\ k <= Len(q)
    <3>1. q \in Seq(Sides) /\ k <= Len(q) /\ n \in Nat
      BY <1>1, <1>2 DEF Capability
    <3> HIDE DEF q, n
    <3> QED BY <3>1
  <2> HIDE DEF q, k
  <2>2. k \in 1 .. Len(q) /\ q[k] \in Sides
    BY <2>1
  <2> QED BY <2>2 DEF q
<1>4. o \in [striker : bat, nonStriker : bat, bowler : field] /\ o.striker # o.nonStriker
  <2> DEFINE a == order[opening.striker]
             b == order[opening.nonStriker]
             c == against[opening.bowler]
  <2>1. o = [striker |-> a, nonStriker |-> b, bowler |-> c]
    OBVIOUS
  <2>2. o.striker \in bat /\ o.nonStriker \in bat /\ o.striker # o.nonStriker /\ o.bowler \in field
    <3>1. OpenersFit(o, bat, field)
      BY <1>1
    <3> HIDE DEF o, bat, field
    <3> QED BY <3>1 DEF OpenersFit
  <2> HIDE DEF a, b, c, o, bat, field
  <2> QED BY <2>1, <2>2
<1>5. target \in Nat \cup {None}
  BY <1>1, TargetTyped
<1> HIDE DEF o, target, side, bat, field, k
<1>6. fresh \in ReplayStates(bat, field)
  BY <1>4, <1>5, OpeningTyped
<1>7. started \in Rows(bat, field)
  <2> DEFINE O == {x \in [striker : bat, nonStriker : bat, bowler : field] :
                     x.striker # x.nonStriker}
             Z == Seq(Facts(bat, field)) \ {<<>>}
             X == Transitions(bat, field)
             D == Seq(Z)
             T == Seq(X)
             S == ReplayStates(bat, field)
             V == Nat \ {0}
             L == [bat -> Nat]
  <2>1. links \in L /\ o \in O /\ <<>> \in D /\ <<>> \in T /\ 1 \in V /\ 0 \in Nat
    BY <1>4
  <2>2. "none" \in Blocks
    BY DEF Blocks
  <2> HIDE DEF O, Z, X, D, T, S, V, L, links, fresh
  <2>3. started \in [side : Sides, version : V, openers : O, deliveries : D, transitions : T,
                     state : S, block : Blocks, revision : Nat, links : L]
    BY <1>3, <1>6, <2>1, <2>2 DEF S
  <2> HIDE DEF started
  <2> QED BY <2>3 DEF Rows, O, Z, X, D, T, S, V, L
<1>8. RowTold(cap, rosters, row)
  <2> DEFINE x == Live(started)
             life == "in_progress"
  <2> HIDE DEF started, x
  <2>1. /\ row.state = x /\ row.side = started.side
        /\ row.block = InningsBlocking(cap, Source(started), x, "in_progress")
    <3> HIDE DEF life
    <3>1. LET r == Persisted(started, x, life) IN
          /\ r.state = x /\ r.side = started.side
          /\ r.block = InningsBlocking(cap, Source(started), x, life)
      BY <1>7, PersistedTells
    <3> QED BY <3>1 DEF life, x
  <2>2. InningsBlocking(cap, Source(started), x, "in_progress")
          = Tells(cap, FieldOf(rosters, started), x)
    BY TellsIs
  <2> HIDE DEF row
  <2> QED BY <2>1, <2>2 DEF RowTold, FieldOf
<1> HIDE DEF row
<1>9. match'.life = "in_progress" /\ match'.cap = match.cap /\ match'.rosters = rosters
  BY <1>1, <1>2 DEF NextVersion, MatchRows
<1>10. \A j \in DOMAIN innings : RowTold(cap, rosters, innings[j])
  <2>1. CASE match.life = "in_progress"
    BY <2>1 DEF Told
  <2>2. CASE match.life = "scheduled"
    <3>1. States = <<>>
      BY <2>2 DEF Inv, Concluded
    <3>2. DOMAIN innings = DOMAIN States
      BY DEF States
    <3> QED BY <3>1, <3>2
  <2> QED BY <1>1, <2>1, <2>2 DEF Progresses
<1>11. ASSUME NEW j \in DOMAIN innings' PROVE RowTold(cap, rosters, innings'[j])
  <2> DEFINE R == Rows(Home(rosters), Away(rosters)) \cup Rows(Away(rosters), Home(rosters))
  <2>1. innings \in Seq(R)
    BY <1>2 DEF Played
  <2> HIDE DEF R, n
  <2>2. /\ DOMAIN innings' = 1 .. (Len(innings) + 1)
        /\ \A i \in 1 .. Len(innings) : innings'[i] = innings[i]
        /\ innings'[Len(innings) + 1] = row
    <3> DEFINE J == Append(innings, row)
    <3>1. DOMAIN J = 1 .. (Len(innings) + 1)
      BY <2>1
    <3>2. \A i \in 1 .. Len(innings) : J[i] = innings[i]
      BY <2>1
    <3>3. J[Len(innings) + 1] = row
      BY <2>1
    <3> QED BY <1>1, <3>1, <3>2, <3>3
  <2>3. n \in Nat /\ n = Len(innings) /\ DOMAIN innings = 1 .. n
    BY <1>2 DEF n
  <2>4. j \in 1 .. n \/ j = n + 1
    BY <2>2, <2>3
  <2> QED BY <1>8, <1>10, <2>2, <2>3, <2>4
<1>12. cap' = cap
  BY <1>9 DEF cap
<1> QED BY <1>9, <1>11, <1>12 DEF Told

LEMMA NextTold ==
  ASSUME Inv, Told, [Next]_vars
  PROVE  Told'
<1>1. ASSUME NEW c \in Configurations, NEW saw \in Versions, ConfigureMatch(c, saw)
      PROVE  Told'
  <2>1. innings' = <<>>
    BY <1>1, InvRows DEF ConfigureMatch
  <2> QED BY <2>1 DEF Told
<1>2. ASSUME NEW o \in Openings, NEW saw \in Versions, StartInnings(o, saw)
      PROVE  Told'
  BY <1>2, StartInningsTold
<1>3. ASSUME NEW k \in DOMAIN innings, NEW o \in Observations, NEW saw \in Versions,
             AppendDelivery(k, o, saw)
      PROVE  Told'
  BY <1>3, AppendDeliveryTold
<1>4. ASSUME NEW k \in DOMAIN innings, NEW saw \in Versions,
             NEW who \in Batters(innings[k]), NEW replaced \in Batters(innings[k]),
             SelectNextBatter(k, who, replaced, saw)
      PROVE  Told'
  <2>1. /\ innings[k].state.life = "in_progress" /\ Progresses
        /\ Advances(k, Recorded(innings[k], "next_batter", who, None), saw)
    BY <1>4 DEF SelectNextBatter, Claims
  <2>2. \A a \in Nat : [kind |-> "next_batter", who |-> who, mode |-> None, anchor |-> a]
                         \in Transitions(Batters(innings[k]), Fielders(innings[k]))
    BY DEF Transitions
  <2> QED BY <2>1, <2>2, RecordedTold
<1>5. ASSUME NEW k \in DOMAIN innings, NEW overrides \in BOOLEAN, NEW saw \in Versions,
             NEW who \in Fielders(innings[k]), SelectNextBowler(k, who, overrides, saw)
      PROVE  Told'
  <2>1. /\ innings[k].state.life = "in_progress" /\ Progresses
        /\ Advances(k, Recorded(innings[k], "next_bowler", who, None), saw)
    BY <1>5 DEF SelectNextBowler, Claims, InProgress
  <2>2. \A a \in Nat : [kind |-> "next_bowler", who |-> who, mode |-> None, anchor |-> a]
                         \in Transitions(Batters(innings[k]), Fielders(innings[k]))
    BY DEF Transitions
  <2> QED BY <2>1, <2>2, RecordedTold
<1>6. ASSUME NEW k \in DOMAIN innings, NEW kind \in Retirements, NEW saw \in Versions,
             NEW who \in Batters(innings[k]), RetirementTransition(k, kind, who, saw)
      PROVE  Told'
  <2>1. /\ innings[k].state.life = "in_progress" /\ Progresses
        /\ Advances(k, Recorded(innings[k], kind, who, None), saw)
    BY <1>6 DEF RetirementTransition, Claims
  <2>2. \A a \in Nat : [kind |-> kind, who |-> who, mode |-> None, anchor |-> a]
                         \in Transitions(Batters(innings[k]), Fielders(innings[k]))
    BY DEF Transitions
  <2> QED BY <2>1, <2>2, RecordedTold
<1>7. ASSUME NEW k \in DOMAIN innings, NEW saw \in Versions,
             NEW mode \in AutomaticModes \cup ExplicitModes, CompleteInnings(k, mode, saw)
      PROVE  Told'
  BY <1>7, CompleteInningsTold
<1>8. ASSUME NEW saw \in Versions,
             NEW kind \in ExplicitResults \cup {"derived_result", "abandonment"},
             CompleteMatch(kind, saw)
      PROVE  Told'
  <2> DEFINE outcome == Outcome(kind)
             life == IF kind = "abandonment" THEN "abandoned" ELSE "completed"
  <2>1. match' = [NextVersion(match) EXCEPT !.result = outcome, !.life = life]
    BY <1>8 DEF CompleteMatch
  <2>2. life # "in_progress"
    OBVIOUS
  <2> HIDE DEF outcome, life
  <2>3. match'.life = life
    BY <2>1, InvRows DEF NextVersion, MatchRows
  <2> QED BY <2>2, <2>3 DEF Told
<1>9. ASSUME NEW k \in DOMAIN innings, NEW o \in Observations, NEW saw \in Versions,
             NEW n \in DOMAIN innings[k].deliveries, CorrectDelivery(k, n, o, saw)
      PROVE  Told'
  BY <1>9, CorrectDeliveryTold
<1>10. CASE UNCHANGED vars
  BY <1>10 DEF vars, Told, cap
<1> QED BY <1>1, <1>2, <1>3, <1>4, <1>5, <1>6, <1>7, <1>8, <1>9, <1>10 DEF Next

LEMMA ToldAlways == Spec => []Told
<1>1. Init => Told
  BY DEF Init, Told
<1>2. Inv /\ Told /\ [Next]_vars => Told'
  BY NextTold
<1> QED BY InvAlways, <1>1, <1>2, PTL DEF Spec

-----------------------------------------------------------------------------
(* Every block has its answer.                                             *)

\* A format without explicit completion has a length, quotas and retirements.
Automatic(pol) ==
  pol.modes \cap ExplicitModes = {} =>
    /\ pol.modes = AutomaticModes /\ pol.transitions = Retirements
    /\ pol.limit # None /\ pol.quota # None

LEMMA AcceptedIsGenerous ==
  ASSUME NEW c, Accepted(c)
  PROVE  Generous(ResolveCapability(c.request)) /\ Automatic(ResolveCapability(c.request))
<1> DEFINE r == c.request
           pol == ResolveCapability(c.request)
<1>1. r \in [profile : Profiles, sequence : Seq(Sides), limit : Optional, quota : Optional,
             over : Nat \ {0}, wickets : Nat \ {0}, perSide : Nat, noConsecutive : BOOLEAN,
             dismissals : SUBSET DismissalTypes, transitions : SUBSET Retirements,
             boundary : {"none", "after_completed_innings", "any_nonterminal_state"}]
  BY ConfigurationsAssumption DEF Accepted
<1>2. /\ RequestAccepted(r)
      /\ Std.t20Limit \in Nat \ {0} /\ Std.t20Quota \in Nat \ {0}
  BY StdAssumption DEF Accepted, ConfigurationAccepted
<1>3. /\ r.profile \in Profiles
      /\ r.limit \in (Nat \ {0}) \cup {None} /\ r.quota \in (Nat \ {0}) \cup {None}
  BY <1>1 DEF Optional
<1>4. None \notin Nat
  BY NoneAssumption
<1>5. pol = ResolveCapability(r)
  OBVIOUS
<1> HIDE DEF r, pol
<1>6. ASSUME r.profile = "T20"
      PROVE  Generous(pol) /\ Automatic(pol)
  <2>1. pol = FixedOvers(r, Std.t20Limit, Std.t20Quota)
    BY <1>5, <1>6 DEF ResolveCapability
  <2>2. pol.limit = Std.t20Limit /\ pol.quota = Std.t20Quota /\ pol.modes = AutomaticModes
        /\ pol.transitions = Retirements
    BY <2>1 DEF FixedOvers
  <2> QED BY <1>2, <1>4, <2>2 DEF Generous, Automatic
<1>7. ASSUME r.profile = "one_day"
      PROVE  Generous(pol) /\ Automatic(pol)
  <2>1. r.limit # None /\ r.limit % Std.dayUnit = 0
    BY <1>2, <1>7 DEF RequestAccepted
  <2>2. pol = FixedOvers(r, r.limit, r.limit \div Std.divisor)
    BY <1>5, <1>7 DEF ResolveCapability
  <2> DEFINE q == r.limit \div Std.divisor
  <2>3. r.limit \in Nat \ {0}
    BY <1>3, <2>1
  <2>4. q \in Nat /\ q >= 1
    BY <2>1, <2>3, QuotaNatural, QuotaPositive
  <2> HIDE DEF q
  <2>5. pol.limit = r.limit /\ pol.quota = q /\ pol.modes = AutomaticModes
        /\ pol.transitions = Retirements
    BY <2>2 DEF FixedOvers, q
  <2>6. q \in Nat \ {0}
    BY <2>4
  <2> QED BY <1>4, <2>3, <2>5, <2>6 DEF Generous, Automatic
<1>8. ASSUME r.profile = "test"
      PROVE  Generous(pol) /\ Automatic(pol)
  <2>1. pol = TestMatch(r)
    BY <1>5, <1>8 DEF ResolveCapability
  <2>2. pol.limit = None /\ pol.quota = None /\ pol.modes = {"all_out", "declaration"}
    BY <2>1 DEF TestMatch
  <2>3. "declaration" \in pol.modes \cap ExplicitModes
    BY <2>2 DEF ExplicitModes
  <2> QED BY <2>2, <2>3 DEF Generous, Automatic
<1>9. ASSUME r.profile = "other"
      PROVE  Generous(pol) /\ Automatic(pol)
  <2>1. pol = OtherMatch(r)
    BY <1>5, <1>9 DEF ResolveCapability
  <2>2. pol.limit = r.limit /\ pol.quota = r.quota /\ pol.modes = {"manual"}
    BY <2>1 DEF OtherMatch
  <2>3. "manual" \in pol.modes \cap ExplicitModes
    BY <2>2 DEF ExplicitModes
  <2> QED BY <1>3, <2>2, <2>3 DEF Generous, Automatic
<1>10. Generous(pol) /\ Automatic(pol)
  BY <1>3, <1>6, <1>7, <1>8, <1>9 DEF Profiles
<1> QED BY <1>10 DEF pol, r

\* What is known of a live innings.
Lively(pol, bat, field, s) ==
  /\ s \in ReplayStates(bat, field) /\ bat \cap field = {}
  /\ IsFiniteSet(bat) /\ IsFiniteSet(field) /\ None \notin bat /\ None \notin field
  /\ pol.over \in Nat \ {0} /\ pol.wickets \in Nat
  /\ Placed(s, pol) /\ Manned(s, bat, field) /\ Balances(s) /\ WicketLeft(s, pol)
  /\ Onward(s, pol, bat, field) /\ Generous(pol) /\ Automatic(pol)

LEMMA LiveInnings ==
  ASSUME Inv, NEW k \in DOMAIN innings, innings[k].state.life = "in_progress"
  PROVE  Lively(cap, Batters(innings[k]), Fielders(innings[k]), innings[k].state)
<1> DEFINE rosters == match.rosters
           inn == innings[k]
           s == inn.state
           source == SourceOf(rosters, inn)
           bat == source.batters
           field == source.fielders
           t == s.target
           none == None
<1>1. /\ k \in 1 .. Len(innings) /\ cap # None /\ Configured(match)
      /\ Capability(cap) /\ Lineups(rosters) /\ Played(cap, rosters, innings)
  BY InvRows, LiveRow
<1>2. Generous(cap) /\ Automatic(cap)
  BY <1>1, AcceptedIsGenerous DEF Configured, cap
<1>3. ReplayInnings(cap, source, t, none) = s
  BY <1>1, AuditedFaithful DEF Faithful
<1>4. /\ Sided(source, cap, Home(rosters), Away(rosters))
      /\ Stepped(s, cap, source, TargetOf(cap, StatesIn(innings), k))
      /\ s.error = None
  BY <1>1, PlayedStates DEF Played
<1>5. Batters(inn) = bat /\ Fielders(inn) = field
  BY PlayerSets DEF SourceOf
<1> HIDE DEF source, inn
<1>6. /\ s \in ReplayStates(bat, field) /\ Placed(s, cap) /\ Manned(s, bat, field)
      /\ Balances(s) /\ WicketLeft(s, cap)
  BY <1>4 DEF Stepped, Good, Sound
<1>7. t \in Nat \cup {None}
  BY <1>6 DEF ReplayStates
<1> HIDE DEF s, t, rosters
<1>8. Sourced(source, bat, field) /\ Playable(cap, bat, field, source.deliveries, t)
  BY <1>4, <1>7, SidedPlayable
<1> HIDE DEF bat, field
<1>9. none = None /\ ~Fails(ReplayInnings(cap, source, t, none))
  BY <1>3, <1>4 DEF Fails
<1> HIDE DEF none
<1>10. Onward(ReplayInnings(cap, source, t, none), cap, bat, field)
  BY <1>2, <1>8, <1>9, ReplayOnward
<1>11. /\ bat \cap field = {} /\ IsFiniteSet(bat) /\ IsFiniteSet(field)
       /\ None \notin bat /\ None \notin field /\ cap.over \in Nat \ {0} /\ cap.wickets \in Nat
  BY <1>8 DEF Playable
<1>12. Lively(cap, bat, field, s)
  BY <1>2, <1>3, <1>6, <1>10, <1>11 DEF Lively
<1> QED BY <1>5, <1>12 DEF inn, s

\* Between two overs the last of the completed ones is the one just bowled.
LEMMA LastBowlerIs ==
  ASSUME NEW pol, NEW bat, NEW field, NEW s, Lively(pol, bat, field, s), s.bowler = None
  PROVE  /\ LastBowler(s) = PreviousBowler(s, s.legal \div pol.over)
         /\ s.legal # 0 /\ s.legal % pol.over = 0
<1> DEFINE q == s.legal \div pol.over
<1>1. /\ s.legal # 0 /\ s.legal % pol.over = 0 /\ q \in Nat \ {0}
      /\ DOMAIN s.overs = 1 .. q /\ \A n \in 1 .. q : s.overs[n].complete
  BY OversAllDone DEF Lively
<1> HIDE DEF q
<1>2. {n \in DOMAIN s.overs : s.overs[n].complete} = 1 .. q /\ 1 .. q # {}
  BY <1>1
<1>3. Max(1 .. q) = q
  BY <1>1, MaxOfPrefix
<1>4. LastBowler(s) = s.overs[q].bowler
  BY <1>2, <1>3 DEF LastBowler
<1>5. PreviousBowler(s, q) = s.overs[q].bowler
  BY <1>1 DEF PreviousBowler
<1> QED BY <1>1, <1>4, <1>5 DEF q

\* A vacant end of a full side, in a format without explicit completion.
LEMMA VacantEndFilled ==
  ASSUME NEW bat, NEW field, NEW s, Lively(cap, bat, field, s), s.life = "in_progress",
         None \in Ended(s), cap.modes \cap ExplicitModes = {}, Cardinality(bat) > cap.wickets
  PROVE  \/ \E who, replaced \in bat : BatterMayFollow(s, who, replaced)
         \/ /\ "retired_hurt_return" \in cap.transitions
            /\ \E who \in bat : RetirementFits(s, "retired_hurt_return", who)
<1>1. /\ cap.modes = AutomaticModes /\ cap.transitions = Retirements
      /\ s \in ReplayStates(bat, field) /\ Manned(s, bat, field) /\ WicketLeft(s, cap)
      /\ Vacancies(s, bat) /\ IsFiniteSet(bat) /\ IsFiniteSet(field) /\ None \notin bat
      /\ cap.wickets \in Nat
  BY DEF Lively, Automatic, Onward
<1>2. CASE \E p \in bat : s.people[p].state = "retired_hurt"
  <2>1. "retired_hurt_return" \in cap.transitions
    BY <1>1 DEF Retirements
  <2>2. None \in {s.striker, s.nonStriker}
    BY DEF Ended
  <2> QED BY <1>2, <2>1, <2>2 DEF RetirementFits
<1>3. CASE \A p \in bat : s.people[p].state # "retired_hurt"
  <2>1. "all_out" \in cap.modes
    BY <1>1 DEF AutomaticModes
  <2>2. PICK a, who, gone \in bat :
           /\ Ended(s) = {None, a} /\ gone # a /\ s.people[who].state = "not_batted"
           /\ s.people[gone].state \in Out
    BY <1>1, <1>3, <2>1, NextBatterLeft
  <2>3. ActiveBatters(s) = {a}
    BY <1>1, <2>2 DEF ActiveBatters, Ended
  <2>4. Cardinality(ActiveBatters(s)) = 1
    BY <2>3, FS_Singleton
  <2>5. s.people[gone].state \in Vacated
    BY <2>2 DEF Out, Vacated
  <2>6. BatterMayFollow(s, who, gone)
    BY <2>2, <2>3, <2>4, <2>5 DEF BatterMayFollow
  <2> QED BY <2>6
<1> QED BY <1>2, <1>3

\* Where nobody may bowl, the others could not bowl the innings out.
LEMMA NobodyLeftToBowl ==
  ASSUME NEW bat, NEW field, NEW s, Lively(cap, bat, field, s), s.life = "in_progress",
         NEW previous, cap.modes \cap ExplicitModes = {},
         \A p \in field : Ineligibility(cap, p, field, Balls(s), previous) # None,
         Cardinality(field) - 1 > 0, cap.limit <= cap.quota * (Cardinality(field) - 1)
  PROVE  FALSE
<1>1. /\ cap.modes = AutomaticModes /\ cap.limit # None /\ cap.quota # None
      /\ s \in ReplayStates(bat, field) /\ Balances(s) /\ BallsLeft(s, cap) /\ Generous(cap)
      /\ IsFiniteSet(bat) /\ IsFiniteSet(field) /\ bat \cap field = {}
  BY DEF Lively, Automatic, Onward
<1>2. "legal_ball_limit" \in cap.modes
  BY <1>1 DEF AutomaticModes
<1> DEFINE pol == cap
<1>3. \E p \in field \ {previous} : s.people[p].bowled < cap.quota
  <2> HIDE DEF pol
  <2>1. pol = cap
    BY DEF pol
  <2>2. \E p \in field \ {previous} : s.people[p].bowled < pol.quota
    BY <1>1, <1>2, <2>1, OtherBowlerLeft
  <2> QED BY <2>1, <2>2
<1>4. PICK p \in field \ {previous} : s.people[p].bowled < cap.quota
  BY <1>3
<1>5. /\ Balls(s)[p] = s.people[p].bowled /\ s.people[p].bowled \in Nat /\ cap.quota \in Nat
  <2>1. p \in DOMAIN s.people /\ s.people[p] \in Persons
    BY <1>1 DEF ReplayStates
  <2> QED BY <1>1, <2>1 DEF Balls, Persons, Generous
<1>6. ~(Balls(s)[p] >= cap.quota)
  BY <1>4, <1>5
<1>7. Ineligibility(cap, p, field, Balls(s), previous) = None
  BY <1>4, <1>6 DEF Ineligibility
<1> QED BY <1>7

\* A block tells the life of its innings, and what a live one waits for.
LEMMA TellsLife ==
  ASSUME NEW pol, NEW field, NEW s
  PROVE  LET b == Tells(pol, field, s)
             previous == PreviousBowler(s, s.legal \div pol.over)
             canBowl == \E p \in field :
                          Ineligibility(pol, p, field, Balls(s), previous) = None
         IN
         /\ s.life = "reconciliation_required" => b = "reconciliation_required"
         /\ s.life = "in_progress" =>
              b \in {"awaiting_next_batter", "awaiting_next_bowler", "no_eligible_bowler", "none"}
         /\ s.life = "in_progress" /\ b = "awaiting_next_batter" => None \in Ended(s)
         /\ s.life = "in_progress" /\ b = "awaiting_next_bowler" => s.bowler = None /\ canBowl
         /\ s.life = "in_progress" /\ b = "no_eligible_bowler" => s.bowler = None /\ ~canBowl
         /\ s.life = "in_progress" => (b = "none" <=> SelectionsComplete(s))
<1> DEFINE previous == PreviousBowler(s, s.legal \div pol.over)
           canBowl == \E p \in field :
                        Ineligibility(pol, p, field, Balls(s), previous) = None
<1>1. Tells(pol, field, s)
        = Blocking("in_progress", s.life, s.striker, s.nonStriker, s.bowler, canBowl)
  BY DEF Tells
<1> HIDE DEF canBowl
<1>2. LET b == Tells(pol, field, s) IN
         /\ s.life = "reconciliation_required" => b = "reconciliation_required"
         /\ s.life = "in_progress" =>
              b \in {"awaiting_next_batter", "awaiting_next_bowler", "no_eligible_bowler", "none"}
         /\ s.life = "in_progress" /\ b = "awaiting_next_batter" => None \in Ended(s)
         /\ s.life = "in_progress" /\ b = "awaiting_next_bowler" => s.bowler = None /\ canBowl
         /\ s.life = "in_progress" /\ b = "no_eligible_bowler" => s.bowler = None /\ ~canBowl
         /\ s.life = "in_progress" => (b = "none" <=> SelectionsComplete(s))
  BY <1>1 DEF Blocking, Ended, SelectionsComplete
<1> QED BY <1>2 DEF canBowl

\* The block of a match that goes on is that of its first stuck innings, or else
\* of its last live one, or else that of the match.
LEMMA MatchBlockIs ==
  ASSUME Inv, Told, match.life \in {"scheduled", "in_progress"}, cap # None
  PROVE  MatchBlockTrue
<1> DEFINE stuck  == {k \in DOMAIN innings : innings[k].state.life = "reconciliation_required"}
           active == {k \in DOMAIN innings : innings[k].state.life = "in_progress"}
           N == Len(innings)
           M == Len(cap.sequence)
<1>1. /\ N \in Nat /\ DOMAIN innings = 1 .. N /\ States = StatesIn(innings)
      /\ Capability(cap) /\ Played(cap, match.rosters, innings)
  BY InvRows
<1>2. M \in Nat /\ N <= M /\ DOMAIN States = 1 .. N
      /\ \A k \in 1 .. N : States[k].life = innings[k].state.life
  BY <1>1 DEF StatesIn, Capability, Played
<1>3. N = 0 <=> innings = <<>>
  BY <1>1 DEF Played
<1>4. \A k \in 1 .. N :
        innings[k].state.life \in {"in_progress", "completed", "reconciliation_required"}
  <2>1. ASSUME NEW k \in DOMAIN innings
        PROVE  innings[k].state.life \in {"in_progress", "completed", "reconciliation_required"}
    BY LiveRow DEF ReplayStates
  <2> QED BY <1>1, <2>1
<1>5. N # 0 => match.life = "in_progress"
  BY <1>2 DEF Inv, Concluded
<1>6. AllComplete(States) <=> N # 0 /\ \A k \in 1 .. N : innings[k].state.life = "completed"
  <2>1. States = <<>> <=> N = 0
    <3>1. ASSUME N = 0 PROVE States = <<>>
      <4>1. innings = <<>>
        BY <1>3, <3>1
      <4> QED BY <4>1 DEF States
    <3>2. ASSUME States = <<>> PROVE N = 0
      <4>1. DOMAIN States = {}
        BY <3>2
      <4> QED BY <1>1, <1>2, <4>1
    <3> QED BY <3>1, <3>2
  <2> QED BY <1>2, <2>1 DEF AllComplete
<1>7. MatchBlock = IF stuck # {} THEN innings[Min(stuck)].block
                   ELSE IF active # {} THEN innings[Max(active)].block
                   ELSE IF N < M THEN "innings_not_started" ELSE "none"
  BY DEF MatchBlock
<1>8. stuck \in SUBSET (1 .. N) /\ active \in SUBSET (1 .. N)
  BY <1>1
<1>9. CASE stuck # {}
  <2>1. Min(stuck) \in stuck
    <3> HIDE DEF stuck
    <3>1. stuck \in SUBSET Nat
      BY <1>8
    <3>2. \E x \in stuck : \A y \in stuck : x <= y
      BY <1>9, <3>1, LeastNumber
    <3> QED BY <3>2 DEF Min
  <2> DEFINE k == Min(stuck)
  <2>2. k \in DOMAIN innings /\ innings[k].state.life = "reconciliation_required"
    BY <2>1
  <2> HIDE DEF k
  <2>3. match.life = "in_progress"
    BY <1>1, <1>5, <2>2
  <2>4. innings[k].block = "reconciliation_required"
    BY <2>2, <2>3, TellsLife DEF Told, RowTold
  <2>5. MatchBlock = "reconciliation_required"
    BY <1>7, <1>9, <2>4 DEF k
  <2>6. ~Progresses /\ ~AllComplete(States) /\ innings # <<>>
    BY <1>1, <1>3, <1>6, <2>2 DEF Progresses
  <2> QED BY <2>5, <2>6 DEF MatchBlockTrue
<1>10. CASE stuck = {} /\ active # {}
  <2>1. Max(active) \in active
    <3> HIDE DEF active
    <3> QED BY <1>1, <1>8, <1>10, MaxOf
  <2> DEFINE k == Max(active)
  <2>2. k \in DOMAIN innings /\ innings[k].state.life = "in_progress"
    BY <2>1
  <2> HIDE DEF k
  <2>3. match.life = "in_progress"
    BY <1>1, <1>5, <2>2
  <2>4. innings[k].block \in
          {"awaiting_next_batter", "awaiting_next_bowler", "no_eligible_bowler", "none"}
    BY <2>2, <2>3, TellsLife DEF Told, RowTold
  <2>5. MatchBlock \in
          {"awaiting_next_batter", "awaiting_next_bowler", "no_eligible_bowler", "none"}
    BY <1>7, <1>10, <2>4 DEF k
  <2>6. Progresses /\ ~AllComplete(States) /\ innings # <<>>
    BY <1>1, <1>3, <1>6, <1>10, <2>2 DEF Progresses
  <2> QED BY <2>5, <2>6 DEF MatchBlockTrue
<1>11. CASE stuck = {} /\ active = {}
  <2>1. Progresses /\ (AllComplete(States) \/ innings = <<>>)
    BY <1>1, <1>3, <1>4, <1>6, <1>11 DEF Progresses
  <2>2. MatchBlock = IF N < M THEN "innings_not_started" ELSE "none"
    BY <1>7, <1>11
  <2> QED BY <2>1, <2>2 DEF MatchBlockTrue
<1> QED BY <1>9, <1>10, <1>11

\* Every block that a live innings shows has its answer.
LEMMA LiveBlockAnswered ==
  ASSUME Inv, Told, match.life = "in_progress",
         NEW k \in DOMAIN innings, innings[k].state.life = "in_progress"
  PROVE  InningsBlockAnswered(innings[k])
<1> DEFINE inn == innings[k]
           s == inn.state
           b == inn.block
           bat == Batters(inn)
           field == Fielders(inn)
           previous == PreviousBowler(s, s.legal \div cap.over)
           canBowl == \E p \in field :
                        Ineligibility(cap, p, field, Balls(s), previous) = None
           batterMayCome ==
             \E who, replaced \in bat : BatterMayFollow(s, who, replaced)
           batterMayReturn ==
             /\ "retired_hurt_return" \in cap.transitions
             /\ \E who \in bat : RetirementFits(s, "retired_hurt_return", who)
           bowlerMayCome ==
             /\ s.legal # 0 /\ s.legal % cap.over = 0
             /\ \E who \in field : BowlerMayFollow(s, who, field)
           bowlerMayGoOn == Ineligibility(cap, s.bowler, field, Balls(s), previous) = None
           mayEnd == cap.modes \cap ExplicitModes # {}
<1>1. Lively(cap, bat, field, s) /\ s.life = "in_progress"
  BY LiveInnings
<1>2. b = Tells(cap, field, s)
  BY PlayerSets DEF Told, RowTold
<1> SUFFICES /\ b = "none" <=> SelectionsComplete(s)
             /\ b = "none" => bowlerMayGoOn \/ QuotaSplitsOver
             /\ b = "awaiting_next_batter" =>
                  batterMayCome \/ batterMayReturn \/ mayEnd \/ ~FullSide(inn)
             /\ b = "awaiting_next_bowler" => bowlerMayCome
             /\ b = "no_eligible_bowler" => ~bowlerMayCome /\ (mayEnd \/ ~CanBowlOut(inn))
  BY DEF InningsBlockAnswered
<1>3. FullSide(inn) <=> Cardinality(bat) > cap.wickets
  BY DEF FullSide
<1>4. CanBowlOut(inn) =>
        /\ Cardinality(field) - 1 > 0
        /\ cap.quota # None => cap.limit <= cap.quota * (Cardinality(field) - 1)
  BY DEF CanBowlOut
<1> HIDE DEF inn, s, b, bat, field
<1>5. /\ b = "none" <=> SelectionsComplete(s)
      /\ b = "awaiting_next_batter" => None \in Ended(s)
      /\ b = "awaiting_next_bowler" => s.bowler = None /\ canBowl
      /\ b = "no_eligible_bowler" => s.bowler = None /\ ~canBowl
  BY <1>1, <1>2, TellsLife
<1>6. ASSUME b = "none", ~QuotaSplitsOver PROVE bowlerMayGoOn
  <2> DEFINE pol == cap
  <2>1. s.bowler # None
    BY <1>5, <1>6 DEF SelectionsComplete
  <2>2. pol.quota # None => pol.quota % pol.over = 0
    BY <1>6 DEF QuotaSplitsOver
  <2>3. s \in ReplayStates(bat, field) /\ pol.over \in Nat \ {0} /\ Generous(pol)
        /\ Onward(s, pol, bat, field)
    BY <1>1 DEF Lively
  <2> HIDE DEF pol
  <2>4. Ineligibility(pol, s.bowler, field, Balls(s),
                      PreviousBowler(s, s.legal \div pol.over)) = None
    BY <2>1, <2>2, <2>3, BowlerGoesOn
  <2> QED BY <2>4 DEF pol
<1>7. ASSUME b = "awaiting_next_batter", ~mayEnd, FullSide(inn)
      PROVE  batterMayCome \/ batterMayReturn
  <2>1. None \in Ended(s) /\ Cardinality(bat) > cap.wickets
        /\ cap.modes \cap ExplicitModes = {}
    BY <1>3, <1>5, <1>7
  <2> QED BY <1>1, <2>1, VacantEndFilled
<1>8. ASSUME s.bowler = None PROVE bowlerMayCome <=> canBowl
  <2>1. LastBowler(s) = previous /\ s.legal # 0 /\ s.legal % cap.over = 0
    BY <1>1, <1>8, LastBowlerIs
  <2> QED BY <2>1 DEF BowlerMayFollow
<1>9. ASSUME b = "no_eligible_bowler", ~mayEnd, CanBowlOut(inn) PROVE FALSE
  <2> HIDE DEF previous
  <2>1. \A p \in field : Ineligibility(cap, p, field, Balls(s), previous) # None
    BY <1>5, <1>9
  <2>2. cap.modes \cap ExplicitModes = {}
    BY <1>9
  <2>3. cap.quota # None
    BY <1>1, <2>2 DEF Lively, Automatic
  <2>4. Cardinality(field) - 1 > 0 /\ cap.limit <= cap.quota * (Cardinality(field) - 1)
    BY <1>4, <1>9, <2>3
  <2> QED BY <1>1, <2>1, <2>2, <2>4, NobodyLeftToBowl
<1> HIDE DEF canBowl, bowlerMayCome, bowlerMayGoOn, batterMayCome, batterMayReturn, mayEnd
<1> QED BY <1>5, <1>6, <1>7, <1>8, <1>9

\* The blocks shown are the truth: the match waits for an innings exactly when
\* one may start, and for a correction exactly when nothing else is accepted;
\* of a live innings the bowler shown may bowl the next ball, and every other
\* block has a command that lifts it, for every configuration, side and length
\* of play, but for sides too small for their format and quotas that are not of
\* whole overs.
THEOREM BlocksHaveAnswers == Spec => []BlockHasAnswer
<1>1. Inv /\ Told => BlockHasAnswer
  <2>1. ASSUME Inv, Told, match.life \in {"scheduled", "in_progress"}, cap # None
        PROVE  MatchBlockTrue
    BY <2>1, MatchBlockIs
  <2>2. ASSUME Inv, Told, NEW k \in DOMAIN innings, match.life = "in_progress",
               innings[k].state.life = "in_progress"
        PROVE  InningsBlockAnswered(innings[k])
    BY <2>2, LiveBlockAnswered
  <2> QED BY <2>1, <2>2 DEF BlockHasAnswer
<1> QED BY InvAlways, ToldAlways, <1>1, PTL
=============================================================================
