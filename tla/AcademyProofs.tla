---------------------------- MODULE AcademyProofs ---------------------------
(***************************************************************************)
(* Rosters, aggregates and row types of the academy, for any teams,        *)
(* players, lists, batches and requests in flight.  That no team falls     *)
(* below the minimum roster is an argument about versions: a removal       *)
(* counted the members that would remain at the version it claims, and     *)
(* whatever takes members away moves that version.  The argument about     *)
(* aggregates is one about locks, and comes after it.                      *)
(***************************************************************************)
EXTENDS Performances, FiniteSetTheorems, SequenceTheorems, WellFoundedInduction, TLAPS

Enough(members) == IsFiniteSet(members) /\ Cardinality(members) >= MinRoster

Rostered ==
  /\ teams \in [Teams -> TeamRows \cup {None}]
  /\ DOMAIN roster = Teams
  /\ \A t \in Teams : /\ IsFiniteSet(DOMAIN roster[t])
                      /\ teams[t] # None => Enough(DOMAIN roster[t])

\* The version of a repair is one its team has or had; if it still has it, the
\* members that a removal leaves are enough.
Fenced(x, pc) ==
  /\ x.team \in Teams /\ teams[x.team] # None
  /\ x.version \in Nat /\ x.version <= teams[x.team].version
  /\ pc = "commit" /\ x.do = "remove" /\ x.version = teams[x.team].version =>
       Enough(DOMAIN roster[x.team] \ {x.player})

Submitted(q) ==
  q.team \in Teams /\ q.name \in Names /\ q.group \in AgeGroups /\ Enough(ToSet(q.list))

Sound(q) ==
  /\ q.op = "repair" =>
       /\ q.do.do \in {"normalize", "remove", "unassign"}
       /\ q.do.do # "unassign" => Fenced(q.do, q.pc)
  /\ q.op \in {"create", "update"} => Submitted(q)
  /\ q.op = "create" => q.pc = "commit" /\ teams[q.team] = None
  /\ q.op = "update" => teams[q.team] # None
  /\ q.op = "add" => q.team \in Teams

\* A team's row is inserted by one request.
Creates(r, t) == requests[r] # Idle /\ requests[r].op = "create" /\ requests[r].team = t

CreatedOnce ==
  \A t \in Teams : \A x, y \in Requests : Creates(x, t) /\ Creates(y, t) => x = y

Inv ==
  /\ Rostered
  /\ DOMAIN requests = Requests
  /\ \A r \in Requests : requests[r] # Idle => Sound(requests[r])
  /\ CreatedOnce

LEMMA InvInit == Init => Inv
<1> SUFFICES ASSUME Init PROVE Inv
  OBVIOUS
<1>1. teams = FirstTeams /\ roster = FirstRosters /\ requests = [r \in Requests |-> Idle]
  BY DEF Init, SquadInit
<1>2. Rostered
  BY <1>1, RosterAssumption DEF Rostered, Enough
<1> QED BY <1>1, <1>2 DEF Inv, CreatedOnce, Creates

-----------------------------------------------------------------------------
(* Repairs as the findings offer them.                                     *)

OffersNone(F) == \A f \in F : f.repair = None

LEMMA MostOfferNone ==
  /\ OffersNone(ActiveUnassignedPlayers(Context))
  /\ OffersNone(NormalizedPlayerDuplicates(Context))
  /\ OffersNone(TeamRosterBounds(Context))
  /\ OffersNone(NormalizedTeamNameConflicts(Context))
  /\ OffersNone(TeamsWithoutCoaches(Context))
  /\ OffersNone(SoleHeadCoach(Context))
  /\ OffersNone(ActiveUnassignedAssistants(Context))
  /\ OffersNone(InvalidRoleAssignments(Context))
<1>1. \A rule, about : Finding(rule, about, None).repair = None
  BY DEF Finding
<1> QED BY <1>1 DEF OffersNone, ActiveUnassignedPlayers, NormalizedPlayerDuplicates,
        TeamRosterBounds, NormalizedTeamNameConflicts, TeamsWithoutCoaches, SoleHeadCoach,
        ActiveUnassignedAssistants, InvalidRoleAssignments

Current(x) ==
  /\ x.do \in {"normalize", "remove"}
  /\ x.team \in Teams /\ teams[x.team] # None /\ x.version = teams[x.team].version

LEMMA Offered ==
  ASSUME NEW f \in Findings(Context), f.repair # None
  PROVE  Current(f.repair) \/ f.repair.do = "unassign"
<1>1. CASE f \in InactiveRosteredPlayers(Context)
  <2>1. PICK t, p :
          /\ t \in TeamsIn(Context)
          /\ f = Finding("player_inactive_rostered", <<p, t>>, InactivePlayerAction(Context, t, p))
    BY <1>1 DEF InactiveRosteredPlayers
  <2>2. f.repair = InactivePlayerAction(Context, t, p)
    BY <2>1 DEF Finding
  <2>3. f.repair = [do |-> "remove", team |-> t, player |-> p, version |-> teams[t].version]
    BY <2>2 DEF InactivePlayerAction, Context
  <2>4. t \in Teams /\ teams[t] # None
    BY <2>1 DEF TeamsIn, Context
  <2> QED BY <2>3, <2>4 DEF Current
<1>2. CASE f \in RosterOrderFindings(Context)
  <2>1. PICK t, fault :
          /\ t \in TeamsIn(Context)
          /\ f = Finding(fault, <<t>>, RosterNormalizationAction(Context, t))
    BY <1>2 DEF RosterOrderFindings
  <2>2. f.repair = RosterNormalizationAction(Context, t)
    BY <2>1 DEF Finding
  <2>3. f.repair = [do |-> "normalize", team |-> t, version |-> teams[t].version]
    BY <2>2 DEF RosterNormalizationAction, Context
  <2>4. t \in Teams /\ teams[t] # None
    BY <2>1 DEF TeamsIn, Context
  <2> QED BY <2>3, <2>4 DEF Current
<1>3. CASE f \in InactiveAssistantAssignments(Context)
  BY <1>3 DEF InactiveAssistantAssignments, Finding
<1> QED BY <1>1, <1>2, <1>3, MostOfferNone DEF Findings, OffersNone

-----------------------------------------------------------------------------
(* Lists and rosters.                                                      *)

LEMMA ListIsFinite ==
  ASSUME NEW list \in Lists
  PROVE  IsFiniteSet(ToSet(list))
<1>1. list \in Seq(Players)
  BY RosterAssumption
<1>2. Len(list) \in Nat /\ DOMAIN list = 1 .. Len(list)
  BY <1>1
<1>3. IsFiniteSet(DOMAIN list)
  BY <1>2, FS_Interval
<1>4. list \in [DOMAIN list -> ToSet(list)] /\ \A x \in ToSet(list) : \E n \in DOMAIN list : list[n] = x
  BY <1>1 DEF ToSet
<1>5. list \in Surjection(DOMAIN list, ToSet(list))
  BY <1>4 DEF Surjection
<1> QED BY <1>3, <1>5, FS_Surjection

LEMMA ValidListIsEnough ==
  ASSUME NEW list \in Lists, NEW c, ListValid(c, list)
  PROVE  Enough(ToSet(list))
<1>1. IsFiniteSet(ToSet(list))
  BY ListIsFinite
<1>2. Cardinality(ToSet(list)) \in MinRoster .. MaxRoster
  BY DEF ListValid, RosterValid
<1> QED BY <1>1, <1>2, RosterAssumption DEF Enough

LEMMA MoreIsEnough ==
  ASSUME NEW S, NEW T, Enough(S), S \subseteq T, IsFiniteSet(T)
  PROVE  Enough(T)
<1>1. Cardinality(S) \in Nat /\ Cardinality(T) \in Nat /\ Cardinality(S) <= Cardinality(T)
  BY FS_Subset, FS_CardinalityType DEF Enough
<1> QED BY <1>1, RosterAssumption DEF Enough

-----------------------------------------------------------------------------
(* What a step of request r does.                                          *)

\* Rosters stay and the request ends, or goes on as it was.
Idles(r) ==
  /\ UNCHANGED <<teams, roster>>
  /\ requests' = requests \/ requests' = [requests EXCEPT ![r] = Idle]

OthersStay(r) ==
  DOMAIN requests' = Requests /\ \A x \in Requests \ {r} : requests'[x] = requests[x]

\* Rosters stay and the request holds what it has read.
Reads(r) ==
  /\ UNCHANGED <<teams, roster>>
  /\ OthersStay(r)
  /\ Sound(requests'[r])
  /\ requests'[r].op = "create" => \A x \in Requests : ~Creates(x, requests'[r].team)

\* A membership is added, a team is created, or its version moves.
Adds(t) ==
  /\ teams' = teams
  /\ \E p, n : roster' = [roster EXCEPT ![t] = Joined(roster[t], p, n)]

Founds(r, t) ==
  /\ Creates(r, t) /\ teams[t] = None
  /\ \E row \in TeamRows : teams' = [teams EXCEPT ![t] = row]
  /\ \E members : /\ Enough(DOMAIN members)
                  /\ roster' = [roster EXCEPT ![t] = members]

Moves(t) ==
  /\ teams[t] # None
  /\ \E row \in TeamRows : /\ row.version > teams[t].version
                          /\ teams' = [teams EXCEPT ![t] = row]
  /\ \E members : /\ Enough(DOMAIN members)
                  /\ roster' = [roster EXCEPT ![t] = members]

Writes(r) ==
  /\ requests' = [requests EXCEPT ![r] = Idle]
  /\ UNCHANGED <<teams, roster>> \/ \E t \in Teams : Adds(t) \/ Founds(r, t) \/ Moves(t)

LEMMA Proceeds ==
  ASSUME Inv, NEW r \in Requests, NEW q, Proceed(r, q)
  PROVE  OthersStay(r) /\ requests'[r] = q
  BY DEF Inv, Proceed, OthersStay

LEMMA ReadsOf ==
  ASSUME Inv, NEW r \in Requests
  PROVE  /\ Remediate(r) => Reads(r)
         /\ CreateTeam(r) \/ UpdateTeam(r) \/ AddPlayer(r) => Reads(r)
         /\ CreatePlayer(r) \/ UpdateAssignments(r) => Reads(r)
<1>1. ASSUME Remediate(r) PROVE Reads(r)
  <2>1. PICK f \in Findings(Context) :
          f.repair # None /\ Proceed(r, [op |-> "repair", pc |-> "read", do |-> f.repair])
    BY <1>1 DEF Remediate
  <2>2. Current(f.repair) \/ f.repair.do = "unassign"
    BY <2>1, Offered
  <2>3. \A t \in Teams : teams[t] # None => teams[t].version \in Nat
    BY DEF Inv, Rostered, TeamRows
  <2>4. Sound([op |-> "repair", pc |-> "read", do |-> f.repair])
    BY <2>2, <2>3 DEF Sound, Fenced, Current
  <2>5. OthersStay(r) /\ requests'[r] = [op |-> "repair", pc |-> "read", do |-> f.repair]
    BY <2>1, Proceeds
  <2> QED BY <1>1, <2>4, <2>5 DEF Remediate, squads, Reads
<1>2. ASSUME CreateTeam(r) PROVE Reads(r)
  <2>1. PICK t \in Teams, name \in Names, group \in AgeGroups, list \in Lists :
          /\ teams[t] = None
          /\ \A q \in Requests : ~(At(q, "create", "commit") /\ requests[q].team = t)
          /\ ListValid(Context, list)
          /\ Proceed(r, [op |-> "create", pc |-> "commit", team |-> t,
                         name |-> name, group |-> group, list |-> list])
    BY <1>2 DEF CreateTeam
  <2>2. Enough(ToSet(list))
    BY <2>1, ValidListIsEnough
  <2>3. \A x \in Requests : ~Creates(x, t)
    BY <2>1 DEF Creates, Inv, Sound, At
  <2>4. OthersStay(r) /\ requests'[r] = [op |-> "create", pc |-> "commit", team |-> t,
                                          name |-> name, group |-> group, list |-> list]
    BY <2>1, Proceeds
  <2> QED BY <1>2, <2>1, <2>2, <2>3, <2>4 DEF CreateTeam, squads, Reads, Sound, Submitted
<1>3. ASSUME UpdateTeam(r) PROVE Reads(r)
  <2>1. PICK t \in TeamsIn(Context), name \in Names, group \in AgeGroups, list \in Lists :
          /\ ListValid(Context, list)
          /\ Proceed(r, [op |-> "update", pc |-> "commit", team |-> t,
                         name |-> name, group |-> group, list |-> list])
    BY <1>3 DEF UpdateTeam
  <2>2. Enough(ToSet(list))
    BY <2>1, ValidListIsEnough
  <2>3. t \in Teams /\ teams[t] # None
    BY DEF TeamsIn, Context
  <2>4. OthersStay(r) /\ requests'[r] = [op |-> "update", pc |-> "commit", team |-> t,
                                          name |-> name, group |-> group, list |-> list]
    BY <2>1, Proceeds
  <2> QED BY <1>3, <2>1, <2>2, <2>3, <2>4 DEF UpdateTeam, squads, Reads, Sound, Submitted
<1>4. ASSUME AddPlayer(r) PROVE Reads(r)
  <2>1. PICK t, p, n :
          /\ t \in TeamsIn(Context)
          /\ Proceed(r, [op |-> "add", pc |-> "commit", team |-> t, player |-> p, last |-> n])
    BY <1>4 DEF AddPlayer
  <2>2. t \in Teams
    BY <2>1 DEF TeamsIn
  <2>3. OthersStay(r) /\ requests'[r] = [op |-> "add", pc |-> "commit", team |-> t,
                                          player |-> p, last |-> n]
    BY <2>1, Proceeds
  <2> QED BY <1>4, <2>1, <2>2, <2>3 DEF AddPlayer, squads, Reads, Sound
<1>5. ASSUME CreatePlayer(r) \/ UpdateAssignments(r) PROVE Reads(r)
  <2>1. CASE CreatePlayer(r)
    <3>1. PICK p, name :
            Proceed(r, [op |-> "player", pc |-> "commit", player |-> p, name |-> name])
      BY <2>1 DEF CreatePlayer
    <3>2. OthersStay(r) /\ requests'[r] = [op |-> "player", pc |-> "commit", player |-> p,
                                            name |-> name]
      BY <3>1, Proceeds
    <3> QED BY <2>1, <3>2 DEF CreatePlayer, squads, Reads, Sound
  <2>2. CASE UpdateAssignments(r)
    <3>1. PICK k, ts, n :
            Proceed(r, [op |-> "assign", pc |-> "commit", coach |-> k, teams |-> ts, version |-> n])
      BY <2>2 DEF UpdateAssignments
    <3>2. OthersStay(r) /\ requests'[r] = [op |-> "assign", pc |-> "commit", coach |-> k,
                                            teams |-> ts, version |-> n]
      BY <3>1, Proceeds
    <3> QED BY <2>2, <3>2 DEF UpdateAssignments, squads, Reads, Sound
  <2> QED BY <1>5, <2>1, <2>2
<1> QED BY <1>1, <1>2, <1>3, <1>4, <1>5

LEMMA RepairReads ==
  ASSUME Inv, NEW r \in Requests, RepairRead(r)
  PROVE  Reads(r) \/ Idles(r)
<1> DEFINE x == requests[r].do
<1>1. UNCHANGED <<teams, roster>>
  BY DEF RepairRead, squads
<1>2. /\ x.do \in {"normalize", "remove", "unassign"}
      /\ x.do # "unassign" => Fenced(x, "read")
  BY DEF RepairRead, At, Inv, Sound
<1>3. CASE Accepted(Context, x)
  <2>1. OthersStay(r) /\ requests'[r] = [op |-> "repair", pc |-> "commit", do |-> x,
                                          read |-> roster[x.team]]
    BY <1>3, Proceeds DEF RepairRead
  <2>2. ASSUME x.do = "remove" PROVE Enough(DOMAIN roster[x.team] \ {x.player})
    <3>1. RosterValid(Context, DOMAIN roster[x.team] \ {x.player})
      BY <1>3, <2>2 DEF Accepted, Context
    <3>2. IsFiniteSet(DOMAIN roster[x.team])
      BY <1>2, <2>2 DEF Fenced, Inv, Rostered
    <3>3. IsFiniteSet(DOMAIN roster[x.team] \ {x.player})
      BY <3>2, FS_Difference
    <3> QED BY <3>1, <3>3, RosterAssumption DEF RosterValid, Enough
  <2> HIDE DEF x
  <2>3. Sound([op |-> "repair", pc |-> "commit", do |-> x, read |-> roster[x.team]])
    BY <1>2, <2>2 DEF Sound, Fenced
  <2> QED BY <1>1, <2>1, <2>3 DEF Reads
<1>4. CASE ~Accepted(Context, x)
  BY <1>1, <1>4 DEF RepairRead, End, Idles
<1> QED BY <1>3, <1>4

LEMMA IdlesOf ==
  ASSUME NEW r \in Requests,
         \/ RepairRefused(r) \/ CreatePlayerCommit(r) \/ UpdatePlayer(r) \/ CreateCoach(r)
         \/ ToggleCoachStatus(r) \/ ChangeRole(r) \/ UpdateAssignmentsCommit(r)
  PROVE  Idles(r)
  BY DEF RepairRefused, CreatePlayerCommit, UpdatePlayer, CreateCoach, ToggleCoachStatus,
         ChangeRole, UpdateAssignmentsCommit, End, Idles, squads

LEMMA PerformancesApart ==
  ASSUME Inv, NEW r \in Requests, PerformanceStep(r)
  PROVE  Reads(r) \/ Idles(r)
<1>1. UNCHANGED <<teams, roster>>
  BY DEF PerformanceStep, CreateMatch, UpdateMatch, ConfigureScoring, SubmitBatch, BatchInsert,
         BatchRecalculate, BatchCommit, DeadlockAbort, SyncDerived, squads
<1>2. ASSUME NEW q, Proceed(r, q), q.op = "batch" PROVE Reads(r)
  BY <1>1, <1>2, Proceeds DEF Reads, Sound
<1>3. CASE SubmitBatch(r)
  <2>1. PICK m, items, f : Proceed(r, [op |-> "batch", pc |-> "insert", match |-> m,
                                       items |-> items, format |-> f])
    BY <1>3 DEF SubmitBatch
  <2> QED BY <1>2, <2>1
<1>4. CASE BatchInsert(r)
  <2>1. \/ End(r)
        \/ \E own, todo : Proceed(r, [op |-> "batch", pc |-> "recalculate", own |-> own,
                                      todo |-> todo, wrote |-> <<>>])
    BY <1>4 DEF BatchInsert
  <2>2. ASSUME NEW own, NEW todo, Proceed(r, [op |-> "batch", pc |-> "recalculate", own |-> own,
                                              todo |-> todo, wrote |-> <<>>])
        PROVE  Reads(r)
    BY <1>2, <2>2
  <2> QED BY <1>1, <2>1, <2>2 DEF End, Idles
<1>5. CASE BatchRecalculate(r)
  <2>1. PICK own, todo, wrote :
          Proceed(r, [op |-> "batch", pc |-> "recalculate", own |-> own, todo |-> todo,
                      wrote |-> wrote])
    BY <1>5 DEF BatchRecalculate
  <2> QED BY <1>2, <2>1
<1>6. CASE CreateMatch(r) \/ UpdateMatch(r) \/ ConfigureScoring(r) \/ SyncDerived(r)
  BY <1>1, <1>6 DEF CreateMatch, UpdateMatch, ConfigureScoring, SyncDerived, Idles
<1>7. CASE BatchCommit(r) \/ DeadlockAbort(r)
  BY <1>1, <1>7 DEF BatchCommit, DeadlockAbort, End, Idles
<1> QED BY <1>3, <1>4, <1>5, <1>6, <1>7 DEF PerformanceStep

-----------------------------------------------------------------------------
(* The steps that write to rosters.                                        *)

LEMMA CreateWrites ==
  ASSUME Inv, NEW r \in Requests, CreateTeamCommit(r)
  PROVE  Writes(r)
<1> DEFINE q == requests[r]
           t == q.team
           row == NewTeam(q, 1)
           members == Listed(q.list)
<1>1. q # Idle /\ q.op = "create" /\ Submitted(q) /\ teams[t] = None
  BY DEF CreateTeamCommit, At, Inv, Sound
<1>2. t \in Teams /\ Creates(r, t)
  BY <1>1 DEF Submitted, Creates
<1>3. row \in TeamRows
  BY <1>1 DEF NewTeam, TeamRows, Submitted
<1>4. teams' = [teams EXCEPT ![t] = row] /\ roster' = [roster EXCEPT ![t] = members]
  BY DEF CreateTeamCommit
<1>5. DOMAIN members = ToSet(q.list) /\ Enough(ToSet(q.list))
  BY <1>1 DEF Submitted, Listed
<1>6. requests' = [requests EXCEPT ![r] = Idle]
  BY DEF CreateTeamCommit, End
<1> HIDE DEF q, t, row, members
<1>7. Enough(DOMAIN members)
  BY <1>5
<1>8. Founds(r, t)
  BY <1>1, <1>2, <1>3, <1>4, <1>7 DEF Founds
<1> QED BY <1>2, <1>6, <1>8 DEF Writes

LEMMA UpdateWrites ==
  ASSUME Inv, NEW r \in Requests, UpdateTeamCommit(r)
  PROVE  Writes(r)
<1> DEFINE q == requests[r]
           t == q.team
           row == NewTeam(q, teams[t].version + 1)
           members == Listed(q.list)
<1>1. q # Idle /\ q.op = "update" /\ Submitted(q) /\ teams[t] # None
  BY DEF UpdateTeamCommit, At, Inv, Sound
<1>2. t \in Teams /\ teams[t].version \in Nat
  BY <1>1 DEF Submitted, Inv, Rostered, TeamRows
<1>3. row \in TeamRows /\ row.version > teams[t].version
  BY <1>1, <1>2 DEF NewTeam, TeamRows, Submitted
<1>4. teams' = [teams EXCEPT ![t] = row] /\ roster' = [roster EXCEPT ![t] = members]
  BY DEF UpdateTeamCommit
<1>5. DOMAIN members = ToSet(q.list) /\ Enough(ToSet(q.list))
  BY <1>1 DEF Submitted, Listed
<1>6. requests' = [requests EXCEPT ![r] = Idle]
  BY DEF UpdateTeamCommit, End
<1> HIDE DEF q, t, row, members
<1>7. Enough(DOMAIN members)
  BY <1>5
<1>8. Moves(t)
  BY <1>1, <1>3, <1>4, <1>7 DEF Moves
<1> QED BY <1>2, <1>6, <1>8 DEF Writes

LEMMA AddWrites ==
  ASSUME Inv, NEW r \in Requests, AddPlayerCommit(r)
  PROVE  Writes(r)
<1> DEFINE q == requests[r]
<1>1. q.team \in Teams
  BY DEF AddPlayerCommit, At, Inv, Sound
<1>2. requests' = [requests EXCEPT ![r] = Idle] /\ teams' = teams
  BY DEF AddPlayerCommit, End
<1>3. CASE roster' = roster
  BY <1>2, <1>3 DEF Writes
<1>4. CASE roster' = [roster EXCEPT ![q.team] = Joined(roster[q.team], q.player, q.last + 1)]
  <2>1. Adds(q.team)
    BY <1>2, <1>4 DEF Adds
  <2> QED BY <1>1, <1>2, <2>1 DEF Writes
<1> QED BY <1>3, <1>4 DEF AddPlayerCommit

LEMMA RepairWrites ==
  ASSUME Inv, NEW r \in Requests, RepairCommit(r)
  PROVE  Writes(r)
<1> DEFINE x == requests[r].do
           t == x.team
           old == roster[t]
           read == requests[r].read
           row == [teams[t] EXCEPT !.version = teams[t].version + 1]
<1>1. /\ x.do \in {"normalize", "remove", "unassign"}
      /\ x.do # "unassign" => Fenced(x, "commit")
  BY DEF RepairCommit, At, Inv, Sound
<1>2. requests' = [requests EXCEPT ![r] = Idle]
  BY DEF RepairCommit, End
<1>3. /\ Claimed(x)
      /\ teams' = Repaired(Context, x, read).teams /\ roster' = Repaired(Context, x, read).roster
  BY DEF RepairCommit
<1>4. CASE x.do = "unassign"
  <2>1. Repaired(Context, x, read).teams = teams /\ Repaired(Context, x, read).roster = roster
    BY <1>4 DEF Repaired, Context
  <2> QED BY <1>2, <1>3, <2>1 DEF Writes
<1>5. CASE x.do # "unassign"
  <2>1. t \in Teams /\ teams[t] \in TeamRows /\ teams[t] # None
    BY <1>1, <1>5 DEF Fenced, Inv, Rostered
  <2>2. row \in TeamRows /\ row.version > teams[t].version
    <3>1. ASSUME NEW y \in TeamRows
          PROVE  LET z == [y EXCEPT !.version = y.version + 1]
                 IN  z \in TeamRows /\ z.version > y.version
      BY DEF TeamRows
    <3> QED BY <2>1, <3>1
  <2>3. ASSUME NEW members, Enough(DOMAIN members),
               teams' = [teams EXCEPT ![t] = row], roster' = [roster EXCEPT ![t] = members]
        PROVE  Writes(r)
    <3> HIDE DEF row, t
    <3>1. Moves(t)
      BY <2>1, <2>2, <2>3 DEF Moves
    <3> QED BY <1>2, <2>1, <3>1 DEF Writes
  <2>4. CASE x.do = "normalize"
    <3>1. /\ teams' = [teams EXCEPT ![t] = row]
          /\ roster' = [roster EXCEPT ![t] = Renumbered(old, read)]
      BY <1>3, <2>4 DEF Repaired, Context
    <3>2. DOMAIN Renumbered(old, read) = DOMAIN old
      BY DEF Renumbered
    <3>3. Enough(DOMAIN old)
      BY <2>1 DEF Inv, Rostered
    <3> QED BY <2>3, <3>1, <3>2, <3>3
  <2>5. CASE x.do = "remove"
    <3> DEFINE members == [p \in DOMAIN old \ {x.player} |-> old[p]]
    <3>1. teams' = [teams EXCEPT ![t] = row] /\ roster' = [roster EXCEPT ![t] = members]
      BY <1>3, <2>5 DEF Repaired, Context
    <3>2. x.version = teams[t].version
      BY <1>3, <2>5 DEF Claimed
    <3>3. Enough(DOMAIN old \ {x.player})
      BY <1>1, <1>5, <2>5, <3>2 DEF Fenced
    <3>4. DOMAIN members = DOMAIN old \ {x.player}
      OBVIOUS
    <3> HIDE DEF members, row
    <3> QED BY <2>3, <3>1, <3>3, <3>4
  <2> QED BY <1>1, <1>5, <2>4, <2>5
<1> QED BY <1>4, <1>5

LEMMA Steps ==
  ASSUME Inv, Next
  PROVE  \E r \in Requests : Idles(r) \/ Reads(r) \/ Writes(r)
<1>1. ASSUME NEW r \in Requests, SquadStep(r)
      PROVE  Idles(r) \/ Reads(r) \/ Writes(r)
  BY <1>1, ReadsOf, RepairReads, IdlesOf, CreateWrites, UpdateWrites, AddWrites, RepairWrites
     DEF SquadStep
<1> QED BY <1>1, PerformancesApart DEF Next

-----------------------------------------------------------------------------
(* Every step preserves the invariant.                                     *)

LEMMA RosteredAfter ==
  ASSUME Inv, NEW t \in Teams, NEW r \in Requests, Adds(t) \/ Founds(r, t) \/ Moves(t)
  PROVE  Rostered'
<1>1. CASE Adds(t)
  <2>1. PICK p, n : roster' = [roster EXCEPT ![t] = Joined(roster[t], p, n)]
    BY <1>1 DEF Adds
  <2>2. DOMAIN roster'[t] = DOMAIN roster[t] \cup {p}
    BY <2>1 DEF Inv, Rostered, Joined
  <2>3. IsFiniteSet(DOMAIN roster[t] \cup {p})
    BY FS_AddElement DEF Inv, Rostered
  <2>4. teams[t] # None => Enough(DOMAIN roster'[t])
    BY <2>2, <2>3, MoreIsEnough DEF Inv, Rostered
  <2> QED BY <1>1, <2>1, <2>2, <2>3, <2>4 DEF Inv, Rostered, Adds, Enough
<1>2. CASE Founds(r, t) \/ Moves(t)
  <2>1. PICK row \in TeamRows : teams' = [teams EXCEPT ![t] = row]
    BY <1>2 DEF Founds, Moves
  <2>2. PICK members : Enough(DOMAIN members) /\ roster' = [roster EXCEPT ![t] = members]
    BY <1>2 DEF Founds, Moves
  <2> QED BY <2>1, <2>2 DEF Inv, Rostered, Enough
<1> QED BY <1>1, <1>2

LEMMA FencedAfter ==
  ASSUME Inv, NEW t \in Teams, NEW r \in Requests, Adds(t) \/ Founds(r, t) \/ Moves(t),
         NEW x, NEW pc, Fenced(x, pc)
  PROVE  Fenced(x, pc)'
<1>1. CASE x.team # t
  BY <1>1 DEF Fenced, Inv, Rostered, Adds, Founds, Moves
<1>2. CASE x.team = t /\ Adds(t)
  <2>1. PICK p, n : roster' = [roster EXCEPT ![t] = Joined(roster[t], p, n)]
    BY <1>2 DEF Adds
  <2>2. DOMAIN roster'[t] = DOMAIN roster[t] \cup {p} /\ IsFiniteSet(DOMAIN roster[t] \cup {p})
    BY <2>1, FS_AddElement DEF Inv, Rostered, Joined
  <2>3. IsFiniteSet(DOMAIN roster'[t] \ {x.player})
    BY <2>2, FS_Difference
  <2>4. ASSUME Enough(DOMAIN roster[t] \ {x.player})
        PROVE  Enough(DOMAIN roster'[t] \ {x.player})
    BY <2>2, <2>3, <2>4, MoreIsEnough
  <2> QED BY <1>2, <2>4 DEF Fenced, Adds, Enough
<1>3. CASE x.team = t /\ Founds(r, t)
  BY <1>3 DEF Fenced, Founds
<1>4. CASE x.team = t /\ Moves(t)
  <2>1. PICK row \in TeamRows : row.version > teams[t].version /\ teams' = [teams EXCEPT ![t] = row]
    BY <1>4 DEF Moves
  <2>2. teams'[t] = row /\ row.version \in Nat /\ teams[t].version \in Nat /\ row # None
    BY <1>4, <2>1, RosterAssumption DEF Inv, Rostered, TeamRows, Moves
  <2> QED BY <1>4, <2>1, <2>2 DEF Fenced
<1> QED BY <1>1, <1>2, <1>3, <1>4

LEMMA SoundAfter ==
  ASSUME Inv, NEW t \in Teams, NEW r \in Requests, Adds(t) \/ Founds(r, t) \/ Moves(t),
         NEW q, Sound(q), q.op = "create" => q.team # t \/ ~Founds(r, t)
  PROVE  Sound(q)'
<1>1. q.op = "repair" /\ q.do.do # "unassign" => Fenced(q.do, q.pc)'
  BY FencedAfter DEF Sound
<1>2. Submitted(q) => Submitted(q)'
  BY DEF Submitted, Enough
<1>3. q.op = "create" => teams'[q.team] = None
  BY DEF Sound, Submitted, Inv, Rostered, Adds, Founds, Moves
<1>4. ASSUME teams[q.team] # None, q.team \in Teams PROVE teams'[q.team] # None
  BY <1>4, RosterAssumption DEF Inv, Rostered, Adds, Founds, Moves
<1> QED BY <1>1, <1>2, <1>3, <1>4 DEF Sound, Submitted

LEMMA Preserved ==
  ASSUME Inv, NEW r \in Requests, Idles(r) \/ Reads(r) \/ Writes(r)
  PROVE  Inv'
<1>1. DOMAIN requests' = Requests /\ \A x \in Requests \ {r} : requests'[x] = requests[x]
  BY DEF Idles, Reads, Writes, OthersStay, Inv
<1>2. ASSUME UNCHANGED <<teams, roster>>, requests'[r] = Idle \/ requests' = requests \/ Reads(r)
      PROVE  Inv'
  <2>1. Rostered'
    BY <1>2 DEF Inv, Rostered, Enough
  <2>2. ASSUME NEW x \in Requests, requests'[x] # Idle PROVE Sound(requests[x])'
    BY <1>1, <1>2, <2>2, ZenonT(60) DEF Inv, Sound, Fenced, Submitted, Enough, Reads
  <2>3. CreatedOnce'
    <3> SUFFICES ASSUME NEW t \in Teams, NEW x \in Requests, NEW y \in Requests,
                        Creates(x, t)', Creates(y, t)'
                 PROVE  x = y
      BY DEF CreatedOnce
    <3>1. ASSUME NEW z \in Requests \ {r}, Creates(z, t)' PROVE Creates(z, t)
      BY <1>1, <3>1 DEF Creates
    <3>2. ASSUME Reads(r), Creates(r, t)' PROVE \A z \in Requests : ~Creates(z, t)
      BY <3>2 DEF Reads, Creates
    <3>3. Reads(r) \/ (Creates(r, t)' => Creates(r, t))
      BY <1>2 DEF Creates
    <3> QED BY <3>1, <3>2, <3>3 DEF Inv, CreatedOnce
  <2> QED BY <1>1, <2>1, <2>2, <2>3 DEF Inv
<1>3. CASE Idles(r) \/ Reads(r)
  BY <1>2, <1>3 DEF Idles, Reads, Inv
<1>4. CASE Writes(r)
  <2>1. requests' = [requests EXCEPT ![r] = Idle]
    BY <1>4 DEF Writes
  <2>2. CASE UNCHANGED <<teams, roster>>
    BY <1>2, <2>1, <2>2 DEF Inv
  <2>3. ASSUME NEW t \in Teams, Adds(t) \/ Founds(r, t) \/ Moves(t)
        PROVE  Inv'
    <3>1. Rostered'
      BY <2>3, RosteredAfter
    <3>2. ASSUME NEW x \in Requests, requests'[x] # Idle PROVE Sound(requests[x])'
      <4>1. x # r /\ requests'[x] = requests[x] /\ Sound(requests[x])
        BY <1>1, <2>1, <3>2 DEF Inv
      <4>2. ~Creates(x, t) \/ ~Founds(r, t)
        BY <4>1 DEF Inv, CreatedOnce, Founds
      <4>3. PICK q : q = requests[x]
        OBVIOUS
      <4>4. Sound(q) /\ (q.op = "create" => q.team # t \/ ~Founds(r, t))
        BY <3>2, <4>1, <4>2, <4>3 DEF Creates
      <4>5. Sound(q)'
        BY <2>3, <4>4, SoundAfter
      <4> QED BY <4>1, <4>3, <4>5 DEF Sound, Fenced, Submitted
    <3>3. CreatedOnce'
      BY <1>1, <2>1 DEF Inv, CreatedOnce, Creates
    <3> QED BY <1>1, <3>1, <3>2, <3>3 DEF Inv
  <2> QED BY <1>4, <2>2, <2>3 DEF Writes
<1> QED BY <1>3, <1>4

LEMMA InvNext == Inv /\ [Next]_vars => Inv'
<1> SUFFICES ASSUME Inv, [Next]_vars PROVE Inv'
  OBVIOUS
<1>1. CASE Next
  BY <1>1, Steps, Preserved
<1>2. CASE UNCHANGED vars
  BY <1>2 DEF vars, squadVars, squads, Inv, Rostered, Enough, Sound, Fenced, Submitted,
              CreatedOnce, Creates
<1> QED BY <1>1, <1>2

-----------------------------------------------------------------------------
(* No interleaving of repairs, replacements and additions (team_service.py) *)
(* leaves a team with fewer members than the minimum of a roster.           *)
THEOREM NoTeamFallsShort == Spec => []RosterNeverShort
<1>1. Inv => RosterNeverShort
  BY DEF Inv, Rostered, Enough, RosterNeverShort, TeamsIn, Context
<1> QED BY InvInit, InvNext, <1>1, PTL DEF Spec

-----------------------------------------------------------------------------
(* Aggregates.  A plain player stays one only as long as nothing replaces   *)
(* or derives the rows of the player, and those steps are what would leave *)
(* an aggregate behind; a batch holds the lock of every aggregate its rows *)
(* belong to from before it reads until its rows are committed.            *)

\* The lines of LinesOf and the aggregate of Recalculated, over given matches.
LinesIn(ms, table, kind, player, format) ==
  LET keys == {k \in DOMAIN table : k[1] = kind /\ k[2] = player /\ ms[k[3]].format = format}
  IN [k \in keys |-> table[k]]

RecalculatedIn(ms, table, key) ==
  IF key[1] = "batting" THEN BattingTotals(LinesIn(ms, table, "batting", key[2], key[3]))
  ELSE BowlingTotals(LinesIn(ms, table, "bowling", key[2], key[3]),
                     LinesIn(ms, table, "fielding", key[2], key[3]))

KeysFor(squad) == {"batting", "bowling"} \X squad \X Formats
AggregateKeys  == KeysFor(Players)

TableOf(kind) == IF kind = "batting" THEN "batting" ELSE "bowling"

\* The aggregate a performance belongs to.
KeyOf(ms, k) == <<TableOf(k[1]), k[2], ms[k[3]].format>>

Feeds(ms, k, key) ==
  (k[1] = "batting" <=> key[1] = "batting") /\ k[1] \in Kinds /\ k[2] = key[2]
    /\ ms[k[3]].format = key[3]

Untouched(ms, m) == ms[m].version = IF ms[m].authority = "legacy_aggregate" THEN 1 ELSE 2

Undisturbed(ms, table, p) == \A k \in DOMAIN table : k[2] = p => Untouched(ms, k[3])

PlainIn(ms, table, p) ==
  Undisturbed(ms, table, p) /\ \A k \in DOMAIN table : k[2] = p => ~table[k].derived

\* Performances are of matches there are.
Existing(ms, table) ==
  \A k \in DOMAIN table : k[1] \in Kinds /\ k[3] \in Matches /\ ms[k[3]] # None

Tallied(ms, table, totals) ==
  /\ DOMAIN totals \subseteq AggregateKeys
  /\ \A p : PlainIn(ms, table, p) =>
       /\ \A key \in DOMAIN totals : key[2] = p => totals[key] = RecalculatedIn(ms, table, key)
       /\ \A k \in DOMAIN table : k[2] = p => KeyOf(ms, k) \in DOMAIN totals

Inserting(ms, q) ==
  /\ q.match \in Matches /\ ms[q.match] # None
  /\ q.items \in Batches /\ BatchAccepted(q.items) /\ q.format \in Formats
  /\ Untouched(ms, q.match) => ms[q.match].format = q.format

\* A batch has written, or has yet to write, every aggregate its rows belong to,
\* and what it has written is right for what will be there when it commits.
Calculating(ms, table, q) ==
  /\ Existing(ms, q.own)
  /\ q.todo \in Seq(AggregateKeys) /\ DOMAIN q.wrote \subseteq AggregateKeys
  /\ \A k \in DOMAIN q.own :
       Untouched(ms, k[3]) => KeyOf(ms, k) \in DOMAIN q.wrote \cup ToSet(q.todo)
  /\ \A key \in DOMAIN q.wrote :
       PlainIn(ms, table, key[2]) /\ Undisturbed(ms, q.own, key[2]) =>
         q.wrote[key] = RecalculatedIn(ms, Overlay(table, q.own), key)

BatchSound(ms, table, q) ==
  q.op = "batch" =>
    /\ q.pc \in {"insert", "recalculate"}
    /\ q.pc = "insert" => Inserting(ms, q)
    /\ q.pc = "recalculate" => Calculating(ms, table, q)

HeldApart == \A x, y \in Requests : x # y => Held(x) \cap Held(y) = {}

Tallies ==
  /\ matches \in [Matches -> MatchRows \cup {None}]
  /\ Existing(matches, rows)
  /\ Tallied(matches, rows, stats)
  /\ DOMAIN requests = Requests
  /\ \A r \in Requests : requests[r] # Idle => BatchSound(matches, rows, requests[r])
  /\ HeldApart

\* What a step may do to matches: those that are as they were created, or were
\* since configured for scoring, have kept their format.
MatchStep(ms, ns) ==
  \A m \in Matches : ms[m] # None =>
    /\ ns[m] # None
    /\ Untouched(ns, m) => Untouched(ms, m) /\ ns[m].format = ms[m].format

\* And to performances: a row stays, or is derived anew.
Grows(table, next) ==
  DOMAIN table \subseteq DOMAIN next
    /\ \A k \in DOMAIN table : next[k] = table[k] \/ next[k].derived

\* Aggregates are of the lines that feed them and of nothing else.
LEMMA SameLines ==
  ASSUME NEW ms, NEW ns, NEW T, NEW U, NEW key,
         \A k : k \in DOMAIN T /\ Feeds(ms, k, key) <=> k \in DOMAIN U /\ Feeds(ns, k, key),
         \A k : k \in DOMAIN T /\ Feeds(ms, k, key) => T[k] = U[k]
  PROVE  RecalculatedIn(ns, U, key) = RecalculatedIn(ms, T, key)
<1>1. ASSUME NEW kind \in Kinds, kind = "batting" <=> key[1] = "batting"
      PROVE  LinesIn(ns, U, kind, key[2], key[3]) = LinesIn(ms, T, kind, key[2], key[3])
  <2> DEFINE K == {k \in DOMAIN T : k[1] = kind /\ k[2] = key[2] /\ ms[k[3]].format = key[3]}
             L == {k \in DOMAIN U : k[1] = kind /\ k[2] = key[2] /\ ns[k[3]].format = key[3]}
  <2>1. K = L /\ \A k \in K : T[k] = U[k]
    BY <1>1 DEF Feeds
  <2>2. [k \in K |-> T[k]] = [k \in L |-> U[k]]
    <3> HIDE DEF K, L
    <3> QED BY <2>1
  <2> QED BY <2>2 DEF LinesIn
<1>2. CASE key[1] = "batting"
  BY <1>1, <1>2 DEF RecalculatedIn, Kinds
<1>3. CASE key[1] # "batting"
  BY <1>1, <1>3 DEF RecalculatedIn, Kinds
<1> QED BY <1>2, <1>3

LEMMA PlainRowStays ==
  ASSUME NEW ms, NEW ns, NEW t, NEW u, NEW p, MatchStep(ms, ns), Grows(t, u), Existing(ms, t),
         PlainIn(ns, u, p), NEW k \in DOMAIN t, k[2] = p
  PROVE  /\ k \in DOMAIN u /\ u[k] = t[k] /\ ~t[k].derived
         /\ Untouched(ms, k[3]) /\ ns[k[3]].format = ms[k[3]].format
<1>1. k \in DOMAIN u /\ ~u[k].derived /\ Untouched(ns, k[3])
  BY DEF Grows, PlainIn, Undisturbed
<1>2. u[k] = t[k]
  BY <1>1 DEF Grows
<1>3. k[3] \in Matches /\ ms[k[3]] # None
  BY DEF Existing
<1> QED BY <1>1, <1>2, <1>3 DEF MatchStep

LEMMA PlainBefore ==
  ASSUME NEW ms, NEW ns, NEW t, NEW u, NEW p, MatchStep(ms, ns), Grows(t, u), Existing(ms, t),
         PlainIn(ns, u, p)
  PROVE  PlainIn(ms, t, p)
<1>1. ASSUME NEW k \in DOMAIN t, k[2] = p
      PROVE  ~t[k].derived /\ Untouched(ms, k[3])
  BY <1>1, PlainRowStays
<1> QED BY <1>1 DEF PlainIn, Undisturbed

LEMMA UndisturbedBefore ==
  ASSUME NEW ms, NEW ns, NEW own, NEW p, MatchStep(ms, ns), Existing(ms, own),
         Undisturbed(ns, own, p)
  PROVE  /\ Undisturbed(ms, own, p)
         /\ \A k \in DOMAIN own : k[2] = p => ns[k[3]].format = ms[k[3]].format
<1>1. ASSUME NEW k \in DOMAIN own, k[2] = p
      PROVE  Untouched(ms, k[3]) /\ ns[k[3]].format = ms[k[3]].format
  BY <1>1 DEF Undisturbed, Existing, MatchStep
<1> QED BY <1>1 DEF Undisturbed

\* An aggregate that was right for the rows of a batch on top of the others is
\* right for them still, unless new rows feed it.
LEMMA StillRight ==
  ASSUME NEW ms, NEW ns, NEW t, NEW u, NEW own, NEW key,
         MatchStep(ms, ns), Grows(t, u), Existing(ms, t), Existing(ms, own),
         PlainIn(ns, u, key[2]), Undisturbed(ns, own, key[2]),
         \A k \in DOMAIN u \ DOMAIN t : ~Feeds(ns, k, key)
  PROVE  RecalculatedIn(ns, Overlay(u, own), key) = RecalculatedIn(ms, Overlay(t, own), key)
<1>1. ASSUME NEW k \in DOMAIN t, k[2] = key[2]
      PROVE  k \in DOMAIN u /\ u[k] = t[k] /\ ns[k[3]].format = ms[k[3]].format
  BY <1>1, PlainRowStays
<1>2. \A k \in DOMAIN own : k[2] = key[2] => ns[k[3]].format = ms[k[3]].format
  BY UndisturbedBefore
<1> DEFINE T == Overlay(t, own)
           U == Overlay(u, own)
<1>3. /\ DOMAIN T = DOMAIN t \cup DOMAIN own
      /\ \A k \in DOMAIN T : T[k] = IF k \in DOMAIN t THEN t[k] ELSE own[k]
  BY DEF Overlay
<1>4. /\ DOMAIN U = DOMAIN u \cup DOMAIN own
      /\ \A k \in DOMAIN U : U[k] = IF k \in DOMAIN u THEN u[k] ELSE own[k]
  BY DEF Overlay
<1> HIDE DEF T, U
<1>5. ASSUME NEW k
      PROVE  k \in DOMAIN T /\ Feeds(ms, k, key) <=> k \in DOMAIN U /\ Feeds(ns, k, key)
  <2>1. ASSUME k \in DOMAIN T, Feeds(ms, k, key) PROVE k \in DOMAIN U /\ Feeds(ns, k, key)
    BY <1>1, <1>2, <1>3, <1>4, <2>1 DEF Feeds
  <2>2. ASSUME k \in DOMAIN U, Feeds(ns, k, key) PROVE k \in DOMAIN T /\ Feeds(ms, k, key)
    <3>1. k \in DOMAIN t \cup DOMAIN own
      BY <1>4, <2>2
    <3> QED BY <1>1, <1>2, <1>3, <2>2, <3>1 DEF Feeds
  <2> QED BY <2>1, <2>2
<1>6. ASSUME NEW k, k \in DOMAIN T, Feeds(ms, k, key) PROVE T[k] = U[k]
  <2>1. k \in DOMAIN U /\ Feeds(ns, k, key)
    BY <1>5, <1>6
  <2>2. k[2] = key[2]
    BY <1>6 DEF Feeds
  <2> QED BY <1>1, <1>3, <1>4, <1>6, <2>1, <2>2
<1>7. RecalculatedIn(ns, U, key) = RecalculatedIn(ms, T, key)
  BY <1>5, <1>6, SameLines
<1> QED BY <1>7 DEF T, U

-----------------------------------------------------------------------------
(* The keys a batch sets out to recalculate.                               *)

\* Every set of numbers has a least one: the induction behind the next lemmas.
LEMMA LeastNumber ==
  ASSUME NEW T \in SUBSET Nat, T # {}
  PROVE  \E x \in T : \A y \in T : x <= y
<1> DEFINE R == OpToRel(<, Nat)
<1>1. IsWellFoundedOn(R, Nat)
  BY NatLessThanWellFounded
<1>2. ASSUME NEW x \in Nat, NEW y \in Nat, y < x PROVE <<y, x>> \in R
  BY <1>2 DEF OpToRel
<1> HIDE DEF R
<1>3. PICK x \in T : \A y \in T : ~ (<<y, x>> \in R)
  BY <1>1, WFMin
<1>4. ASSUME NEW y \in T PROVE x <= y
  <2>1. ~(y < x)
    BY <1>2, <1>3
  <2> QED BY <2>1
<1> QED BY <1>4

\* f[i] is the concatenation of the first i sequences.
Flattens(seqs, f) ==
  \A i \in DOMAIN f : f[i] = IF i = 1 THEN seqs[i] ELSE f[i - 1] \o seqs[i]

LEMMA FlattenExists ==
  ASSUME NEW S, NEW seqs \in Seq(Seq(S))
  PROVE  \A n \in 1 .. Len(seqs) : \E f \in [1 .. n -> Seq(S)] : Flattens(seqs, f)
<1> DEFINE Has(n) == \E f \in [1 .. n -> Seq(S)] : Flattens(seqs, f)
           T == {n \in 1 .. Len(seqs) : ~Has(n)}
<1>1. Len(seqs) \in Nat /\ \A i \in 1 .. Len(seqs) : seqs[i] \in Seq(S)
  BY LenProperties, ElementOfSeq
<1> SUFFICES ASSUME T # {} PROVE FALSE
  OBVIOUS
<1>2. T \in SUBSET Nat
  BY <1>1
<1>3. PICK n \in T : \A m \in T : n <= m
  <2> HIDE DEF T
  <2> QED BY <1>2, LeastNumber
<1>4. CASE n = 1
  <2> DEFINE f == [i \in 1 .. 1 |-> seqs[1]]
  <2>1. f \in [1 .. 1 -> Seq(S)] /\ Flattens(seqs, f)
    BY <1>1, <1>3 DEF Flattens
  <2> QED BY <1>3, <1>4, <2>1
<1>5. CASE n # 1
  <2>1. n \in 2 .. Len(seqs) /\ n - 1 \in 1 .. Len(seqs) /\ Has(n - 1)
    <3> HIDE DEF Has
    <3>1. n \in 2 .. Len(seqs) /\ n - 1 \in 1 .. Len(seqs)
      BY <1>1, <1>3, <1>5
    <3>2. n - 1 \notin T
      BY <1>3, <3>1
    <3> QED BY <3>1, <3>2
  <2>2. PICK f \in [1 .. n - 1 -> Seq(S)] : Flattens(seqs, f)
    BY <2>1
  <2> DEFINE new == f[n - 1] \o seqs[n]
             g == [i \in 1 .. n |-> IF i = n THEN new ELSE f[i]]
  <2>3. f[n - 1] \in Seq(S) /\ seqs[n] \in Seq(S)
    BY <1>1, <2>1, <2>2
  <2>4. new \in Seq(S)
    BY <2>3, ConcatProperties
  <2> HIDE DEF new
  <2>5. g \in [1 .. n -> Seq(S)]
    BY <1>1, <2>1, <2>2, <2>4
  <2>6. /\ DOMAIN g = 1 .. n /\ DOMAIN f = 1 .. n - 1
        /\ g[n] = new /\ \A i \in 1 .. n - 1 : g[i] = f[i]
    BY <2>1, <2>2
  <2> HIDE DEF g
  <2>7. ASSUME NEW i \in DOMAIN g
        PROVE  g[i] = IF i = 1 THEN seqs[i] ELSE g[i - 1] \o seqs[i]
    <3>1. CASE i = n
      <4>1. n - 1 \in 1 .. n - 1 /\ n - 1 # n
        BY <2>1
      <4>2. g[n - 1] = f[n - 1]
        BY <2>6, <4>1
      <4> QED BY <1>5, <2>6, <3>1, <4>2 DEF new
    <3>2. CASE i # n
      <4>1. i \in 1 .. n
        BY <2>6, <2>7
      <4>4. n \in Nat
        BY <1>1, <2>1
      <4> HIDE DEF T, Has
      <4>2. i \in 1 .. n - 1 /\ (i # 1 => i - 1 \in 1 .. n - 1)
        BY <3>2, <4>1, <4>4
      <4>3. g[i] = f[i] /\ (i # 1 => g[i - 1] = f[i - 1])
        BY <2>6, <4>2
      <4> QED BY <2>2, <2>6, <4>2, <4>3 DEF Flattens
    <3> QED BY <3>1, <3>2
  <2>8. Flattens(seqs, g)
    BY <2>7 DEF Flattens
  <2> QED BY <1>3, <2>5, <2>8
<1> QED BY <1>4, <1>5

LEMMA FlattenHolds ==
  ASSUME NEW S, NEW seqs \in Seq(Seq(S)), Len(seqs) # 0
  PROVE  \E f \in [1 .. Len(seqs) -> Seq(S)] :
           Flattens(seqs, f) /\ FlattenSeq(seqs) = f[Len(seqs)]
<1> DEFINE n == Len(seqs)
           flatten[i \in 1 .. Len(seqs)] ==
             IF i = 1 THEN seqs[i] ELSE flatten[i - 1] \o seqs[i]
<1>1. n \in Nat \ {0}
  BY LenProperties
<1>2. PICK f \in [1 .. n -> Seq(S)] : Flattens(seqs, f)
  <2>1. n \in 1 .. Len(seqs)
    BY <1>1
  <2> HIDE DEF n, flatten
  <2> QED BY <2>1, FlattenExists
<1>3. f = [i \in 1 .. Len(seqs) |-> IF i = 1 THEN seqs[i] ELSE f[i - 1] \o seqs[i]]
  <2> DEFINE e(i) == IF i = 1 THEN seqs[i] ELSE f[i - 1] \o seqs[i]
  <2>1. \A i \in 1 .. n : f[i] = e(i)
    BY <1>2 DEF Flattens
  <2> HIDE DEF e
  <2>2. f = [i \in 1 .. n |-> e(i)]
    BY <1>2, <2>1
  <2> QED BY <2>2 DEF e
<1>4. flatten = [i \in 1 .. Len(seqs) |->
                   IF i = 1 THEN seqs[i] ELSE flatten[i - 1] \o seqs[i]]
  BY <1>3 DEF flatten
<1>5. FlattenSeq(seqs) = flatten[Len(seqs)]
  BY DEF FlattenSeq
<1> HIDE DEF flatten
<1> DEFINE e(i) == IF i = 1 THEN seqs[i] ELSE flatten[i - 1] \o seqs[i]
<1>6. Flattens(seqs, flatten) /\ DOMAIN flatten = 1 .. n
  <2>1. flatten = [i \in 1 .. n |-> e(i)]
    BY <1>4
  <2> HIDE DEF e
  <2>2. DOMAIN flatten = 1 .. n /\ \A i \in 1 .. n : flatten[i] = e(i)
    BY <2>1
  <2> QED BY <2>2 DEF Flattens, e
<1> DEFINE T == {i \in 1 .. n : flatten[i] # f[i]}
<1>7. ASSUME NEW i \in T, \A j \in T : i <= j PROVE FALSE
  <2>1. CASE i = 1
    BY <1>2, <1>6, <2>1 DEF Flattens
  <2>2. CASE i # 1
    <3>1. i \in 2 .. n /\ i - 1 \in 1 .. n /\ i - 1 \notin T
      BY <1>1, <1>7, <2>2
    <3>2. flatten[i - 1] = f[i - 1] /\ i \in DOMAIN f /\ i \in DOMAIN flatten
      BY <1>2, <1>6, <3>1
    <3> QED BY <1>2, <1>6, <2>2, <3>2 DEF Flattens
  <2> QED BY <2>1, <2>2
<1>8. T = {}
  <2>1. T \in SUBSET Nat
    BY <1>1
  <2> HIDE DEF T
  <2> QED BY <1>7, <2>1, LeastNumber
<1>9. flatten[n] = f[n]
  <2>1. n \in 1 .. n
    <3> HIDE DEF n
    <3> QED BY <1>1
  <2>2. n \notin T
    BY <1>8
  <2> QED BY <2>1, <2>2
<1> QED BY <1>2, <1>5, <1>9

LEMMA ConcatHolds ==
  ASSUME NEW S, NEW a \in Seq(S), NEW b \in Seq(S)
  PROVE  a \o b \in Seq(S) /\ ToSet(a) \subseteq ToSet(a \o b) /\ ToSet(b) \subseteq ToSet(a \o b)
<1>1. /\ a \o b \in Seq(S) /\ Len(a \o b) = Len(a) + Len(b)
      /\ \A i \in 1 .. Len(a) + Len(b) : (a \o b)[i] = IF i <= Len(a) THEN a[i] ELSE b[i - Len(a)]
  BY ConcatProperties
<1>2. /\ DOMAIN a = 1 .. Len(a) /\ DOMAIN b = 1 .. Len(b) /\ Len(a) \in Nat /\ Len(b) \in Nat
      /\ DOMAIN (a \o b) = 1 .. Len(a) + Len(b)
  BY <1>1, LenProperties
<1>3. ASSUME NEW i \in DOMAIN a PROVE i \in DOMAIN (a \o b) /\ (a \o b)[i] = a[i]
  BY <1>1, <1>2
<1>4. ASSUME NEW i \in DOMAIN b
      PROVE  i + Len(a) \in DOMAIN (a \o b) /\ (a \o b)[i + Len(a)] = b[i]
  BY <1>1, <1>2
<1> QED BY <1>1, <1>3, <1>4, ZenonT(60) DEF ToSet

LEMMA FlattenMeans ==
  ASSUME NEW S, NEW seqs \in Seq(Seq(S)), Len(seqs) # 0
  PROVE  /\ FlattenSeq(seqs) \in Seq(S)
         /\ \A i \in 1 .. Len(seqs) : ToSet(seqs[i]) \subseteq ToSet(FlattenSeq(seqs))
<1>1. PICK f \in [1 .. Len(seqs) -> Seq(S)] :
        Flattens(seqs, f) /\ FlattenSeq(seqs) = f[Len(seqs)]
  BY FlattenHolds
<1> DEFINE n == Len(seqs)
           Holds(m) == \A i \in 1 .. m : ToSet(seqs[i]) \subseteq ToSet(f[m])
           T == {m \in 1 .. n : ~Holds(m)}
<1>2. n \in Nat \ {0} /\ \A i \in 1 .. n : seqs[i] \in Seq(S) /\ f[i] \in Seq(S)
  BY LenProperties, ElementOfSeq
<1>3. ASSUME NEW m \in T, \A j \in T : m <= j PROVE FALSE
  <2>1. CASE m = 1
    <3>1. f[1] = seqs[1]
      <4>1. 1 \in DOMAIN f
        BY <1>2, <1>1
      <4> HIDE DEF T, Holds
      <4> QED BY <1>1, <4>1 DEF Flattens
    <3>2. \A i \in 1 .. m : i = 1
      BY <2>1
    <3>3. Holds(m)
      BY <2>1, <3>1, <3>2
    <3> QED BY <1>3, <3>3
  <2>2. CASE m # 1
    <3>1. m \in 2 .. n /\ m - 1 \in 1 .. n
      BY <1>2, <2>2
    <3>2. m - 1 \notin T
      <4>1. ~(m <= m - 1)
        BY <3>1
      <4> HIDE DEF T
      <4> QED BY <1>3, <4>1
    <3>3. Holds(m - 1)
      BY <3>1, <3>2
    <3>4. f[m] = f[m - 1] \o seqs[m]
      BY <1>1, <2>2, <3>1 DEF Flattens
    <3>5. f[m - 1] \in Seq(S) /\ seqs[m] \in Seq(S)
      BY <1>2, <3>1
    <3>6. ToSet(f[m - 1]) \subseteq ToSet(f[m]) /\ ToSet(seqs[m]) \subseteq ToSet(f[m])
      BY <3>4, <3>5, ConcatHolds
    <3>7. ASSUME NEW i \in 1 .. m PROVE ToSet(seqs[i]) \subseteq ToSet(f[m])
      <4>1. CASE i = m
        BY <3>6, <4>1
      <4>2. CASE i # m
        <5>1. i \in 1 .. m - 1
          BY <3>1, <3>7, <4>2
        <5> QED BY <3>3, <3>6, <5>1
      <4> QED BY <4>1, <4>2
    <3> QED BY <1>3, <3>7
  <2> QED BY <2>1, <2>2
<1>4. T = {}
  <2>1. T \in SUBSET Nat
    BY <1>2
  <2> HIDE DEF T
  <2> QED BY <1>3, <2>1, LeastNumber
<1>5. Holds(n)
  <2>1. n \in 1 .. n
    <3> HIDE DEF n
    <3> QED BY <1>2
  <2>2. n \notin T
    BY <1>4
  <2> HIDE DEF Holds
  <2> QED BY <2>1, <2>2
<1> QED BY <1>1, <1>2, <1>5

LEMMA KeysOfItem ==
  ASSUME NEW item \in Items, NEW format \in Formats, NEW squad, item.player \in squad
  PROVE  /\ KeysOf(item, format) \in Seq(KeysFor(squad))
         /\ \A kind \in Kinds : item[kind] # None =>
              <<TableOf(kind), item.player, format>> \in ToSet(KeysOf(item, format))
<1> DEFINE bat == <<"batting", item.player, format>>
           bowl == <<"bowling", item.player, format>>
           first == IF item.batting # None THEN <<bat>> ELSE <<>>
           second == IF item.bowling # None \/ item.fielding # None THEN <<bowl>> ELSE <<>>
<1>1. bat \in KeysFor(squad) /\ bowl \in KeysFor(squad)
  BY DEF KeysFor
<1> HIDE DEF bat, bowl
<1>2. /\ first \in Seq(KeysFor(squad)) /\ second \in Seq(KeysFor(squad))
      /\ item.batting # None => bat \in ToSet(first)
      /\ item.bowling # None \/ item.fielding # None => bowl \in ToSet(second)
  <2>1. ASSUME NEW k \in KeysFor(squad) PROVE <<k>> \in Seq(KeysFor(squad)) /\ k \in ToSet(<<k>>)
    <3>1. DOMAIN <<k>> = {1} /\ <<k>>[1] = k
      OBVIOUS
    <3> QED BY <3>1 DEF ToSet
  <2>2. <<>> \in Seq(KeysFor(squad))
    OBVIOUS
  <2> QED BY <1>1, <2>1, <2>2
<1>3. KeysOf(item, format) = first \o second
  BY DEF KeysOf, bat, bowl
<1> HIDE DEF first, second
<1>4. /\ first \o second \in Seq(KeysFor(squad))
      /\ ToSet(first) \subseteq ToSet(first \o second) /\ ToSet(second) \subseteq ToSet(first \o second)
  BY <1>2, ConcatHolds
<1>5. /\ item["batting"] # None => bat \in ToSet(KeysOf(item, format))
      /\ item["bowling"] # None => bowl \in ToSet(KeysOf(item, format))
      /\ item["fielding"] # None => bowl \in ToSet(KeysOf(item, format))
  BY <1>2, <1>3, <1>4
<1> QED BY <1>3, <1>4, <1>5 DEF Kinds, TableOf, bat, bowl

LEMMA AgendaCovers ==
  ASSUME NEW items \in Batches, BatchAccepted(items), NEW format \in Formats, NEW squad,
         \A i \in DOMAIN items : items[i].player \in squad
  PROVE  /\ Agenda(items, format) \in Seq(KeysFor(squad))
         /\ \A i \in DOMAIN items : \A kind \in Kinds : items[i][kind] # None =>
              <<TableOf(kind), items[i].player, format>> \in ToSet(Agenda(items, format))
<1> DEFINE seqs == [i \in DOMAIN items |-> KeysOf(items[i], format)]
<1>1. items \in Seq(Items) /\ items # <<>>
  BY PerformanceAssumption DEF BatchAccepted
<1>2. /\ Len(items) \in Nat \ {0} /\ DOMAIN items = 1 .. Len(items)
      /\ \A i \in DOMAIN items : items[i] \in Items
  BY <1>1, LenProperties, ElementOfSeq, EmptySeq
<1>3. \A i \in DOMAIN items : KeysOf(items[i], format) \in Seq(KeysFor(squad))
  BY <1>2, KeysOfItem
<1>4. seqs \in Seq(Seq(KeysFor(squad))) /\ Len(seqs) = Len(items)
  BY <1>2, <1>3
<1>5. \A i \in DOMAIN items : seqs[i] = KeysOf(items[i], format)
  OBVIOUS
<1>6. Agenda(items, format) = FlattenSeq(seqs)
  BY DEF Agenda
<1> HIDE DEF seqs
<1>7. /\ FlattenSeq(seqs) \in Seq(KeysFor(squad))
      /\ \A i \in 1 .. Len(seqs) : ToSet(seqs[i]) \subseteq ToSet(FlattenSeq(seqs))
  BY <1>2, <1>4, FlattenMeans
<1> QED BY <1>2, <1>4, <1>5, <1>6, <1>7, KeysOfItem

LEMMA RowsStillRight ==
  ASSUME NEW ms, NEW ns, NEW t, NEW u, NEW key,
         MatchStep(ms, ns), Grows(t, u), Existing(ms, t), PlainIn(ns, u, key[2]),
         \A k \in DOMAIN u \ DOMAIN t : ~Feeds(ns, k, key)
  PROVE  RecalculatedIn(ns, u, key) = RecalculatedIn(ms, t, key)
<1>1. ASSUME NEW k \in DOMAIN t, k[2] = key[2]
      PROVE  k \in DOMAIN u /\ u[k] = t[k] /\ ns[k[3]].format = ms[k[3]].format
  BY <1>1, PlainRowStays
<1>2. ASSUME NEW k
      PROVE  k \in DOMAIN t /\ Feeds(ms, k, key) <=> k \in DOMAIN u /\ Feeds(ns, k, key)
  BY <1>1 DEF Feeds
<1>3. ASSUME NEW k, k \in DOMAIN t, Feeds(ms, k, key) PROVE t[k] = u[k]
  BY <1>1, <1>3 DEF Feeds
<1> QED BY <1>2, <1>3, SameLines

\* While others write rows that do not feed what a batch has computed, its
\* results stay right.
LEMMA CalculatingStays ==
  ASSUME NEW ms, NEW ns, NEW t, NEW u, NEW q,
         MatchStep(ms, ns), Grows(t, u), Existing(ms, t), Calculating(ms, t, q),
         \A key \in DOMAIN q.wrote : PlainIn(ns, u, key[2]) =>
           \A k \in DOMAIN u \ DOMAIN t : ~Feeds(ns, k, key)
  PROVE  Calculating(ns, u, q)
<1>1. Existing(ns, q.own)
  BY DEF Calculating, Existing, MatchStep
<1>2. ASSUME NEW k \in DOMAIN q.own, Untouched(ns, k[3])
      PROVE  KeyOf(ns, k) \in DOMAIN q.wrote \cup ToSet(q.todo)
  <2>1. Untouched(ms, k[3]) /\ ns[k[3]].format = ms[k[3]].format
    BY <1>2 DEF Calculating, Existing, MatchStep
  <2> QED BY <2>1 DEF Calculating, KeyOf
<1>3. ASSUME NEW key \in DOMAIN q.wrote, PlainIn(ns, u, key[2]), Undisturbed(ns, q.own, key[2])
      PROVE  q.wrote[key] = RecalculatedIn(ns, Overlay(u, q.own), key)
  <2>1. PlainIn(ms, t, key[2]) /\ Undisturbed(ms, q.own, key[2])
    BY <1>3, PlainBefore, UndisturbedBefore DEF Calculating
  <2>2. q.wrote[key] = RecalculatedIn(ms, Overlay(t, q.own), key)
    BY <2>1 DEF Calculating
  <2> DEFINE own == q.own
  <2>3. \A k \in DOMAIN u \ DOMAIN t : ~Feeds(ns, k, key)
    BY <1>3
  <2>4. Existing(ms, own) /\ Undisturbed(ns, own, key[2])
    BY <1>3 DEF Calculating
  <2> HIDE DEF own
  <2>5. RecalculatedIn(ns, Overlay(u, own), key) = RecalculatedIn(ms, Overlay(t, own), key)
    BY <1>3, <2>3, <2>4, StillRight
  <2> QED BY <2>2, <2>5 DEF own
<1> QED BY <1>1, <1>2, <1>3 DEF Calculating

\* Nor do they touch the aggregates of a player they write no rows of.
LEMMA TalliedStays ==
  ASSUME NEW ms, NEW ns, NEW t, NEW u, NEW totals,
         MatchStep(ms, ns), Grows(t, u), Existing(ms, t), Tallied(ms, t, totals),
         \A k \in DOMAIN u \ DOMAIN t : u[k].derived
  PROVE  Tallied(ns, u, totals)
<1> SUFFICES ASSUME NEW p, PlainIn(ns, u, p)
             PROVE  /\ \A key \in DOMAIN totals : key[2] = p =>
                         totals[key] = RecalculatedIn(ns, u, key)
                    /\ \A k \in DOMAIN u : k[2] = p => KeyOf(ns, k) \in DOMAIN totals
  BY DEF Tallied
<1>1. PlainIn(ms, t, p)
  BY PlainBefore
<1>5. ASSUME NEW k \in DOMAIN t, k[2] = p PROVE ns[k[3]].format = ms[k[3]].format
  BY <1>5, PlainRowStays
<1>2. \A k \in DOMAIN u \ DOMAIN t : k[2] # p
  BY DEF PlainIn
<1>3. ASSUME NEW key \in DOMAIN totals, key[2] = p
      PROVE  totals[key] = RecalculatedIn(ns, u, key)
  <2>1. \A k \in DOMAIN u \ DOMAIN t : ~Feeds(ns, k, key)
    BY <1>2, <1>3 DEF Feeds
  <2>2. RecalculatedIn(ns, u, key) = RecalculatedIn(ms, t, key)
    BY <1>3, <2>1, RowsStillRight
  <2> QED BY <1>1, <1>3, <2>2 DEF Tallied
<1>4. ASSUME NEW k \in DOMAIN u, k[2] = p
      PROVE  KeyOf(ns, k) \in DOMAIN totals
  <2>1. k \in DOMAIN t
    BY <1>2, <1>4
  <2>2. KeyOf(ms, k) = KeyOf(ns, k)
    BY <1>4, <1>5, <2>1 DEF KeyOf
  <2> QED BY <1>1, <1>4, <2>1, <2>2 DEF Tallied
<1> QED BY <1>3, <1>4

\* A key is fed by the rows whose aggregate it is.
LEMMA FeedsItsKey ==
  ASSUME NEW ms, NEW k, NEW key \in AggregateKeys, Feeds(ms, k, key)
  PROVE  KeyOf(ms, k) = key
BY DEF AggregateKeys, KeysFor, Feeds, KeyOf, TableOf

\* At its commit a batch has written every aggregate of its rows.
LEMMA TalliedByCommit ==
  ASSUME NEW ms, NEW t, NEW totals, NEW q, Existing(ms, t), Tallied(ms, t, totals),
         Calculating(ms, t, q), q.todo = <<>>
  PROVE  Tallied(ms, Overlay(t, q.own), Overlay(q.wrote, totals))
<1> DEFINE own == q.own
           wrote == q.wrote
           u == Overlay(t, own)
           new == Overlay(wrote, totals)
<1>1. /\ DOMAIN u = DOMAIN t \cup DOMAIN own
      /\ \A k \in DOMAIN u : u[k] = IF k \in DOMAIN t THEN t[k] ELSE own[k]
  BY DEF Overlay
<1>2. /\ DOMAIN new = DOMAIN wrote \cup DOMAIN totals
      /\ \A k \in DOMAIN new : new[k] = IF k \in DOMAIN wrote THEN wrote[k] ELSE totals[k]
  BY DEF Overlay
<1>3. /\ Existing(ms, own) /\ DOMAIN wrote \subseteq AggregateKeys
      /\ \A k \in DOMAIN own : Untouched(ms, k[3]) => KeyOf(ms, k) \in DOMAIN wrote
      /\ \A key \in DOMAIN wrote :
           PlainIn(ms, t, key[2]) /\ Undisturbed(ms, own, key[2]) =>
             wrote[key] = RecalculatedIn(ms, u, key)
  BY DEF Calculating, ToSet
<1> HIDE DEF own, wrote, u, new
<1>4. MatchStep(ms, ms) /\ Grows(t, u)
  BY <1>1 DEF MatchStep, Grows
<1>5. DOMAIN new \subseteq AggregateKeys
  BY <1>2, <1>3 DEF Tallied
<1>6. ASSUME NEW p, PlainIn(ms, u, p)
      PROVE  /\ \A key \in DOMAIN new : key[2] = p => new[key] = RecalculatedIn(ms, u, key)
             /\ \A k \in DOMAIN u : k[2] = p => KeyOf(ms, k) \in DOMAIN new
  <2>1. PlainIn(ms, t, p)
    BY <1>4, <1>6, PlainBefore
  <2>2. Undisturbed(ms, own, p)
    BY <1>1, <1>6 DEF PlainIn, Undisturbed
  <2>3. ASSUME NEW key \in DOMAIN new, key[2] = p
        PROVE  new[key] = RecalculatedIn(ms, u, key)
    <3>1. CASE key \in DOMAIN wrote
      BY <1>2, <1>3, <2>1, <2>2, <2>3, <3>1
    <3>2. CASE key \notin DOMAIN wrote
      <4>1. key \in DOMAIN totals /\ new[key] = totals[key]
        BY <1>2, <2>3, <3>2
      <4>2. ASSUME NEW k \in DOMAIN u \ DOMAIN t PROVE ~Feeds(ms, k, key)
        <5>1. ASSUME Feeds(ms, k, key) PROVE FALSE
          <6>1. k \in DOMAIN own /\ k[2] = p
            BY <1>1, <2>3, <4>2, <5>1 DEF Feeds
          <6>2. KeyOf(ms, k) \in DOMAIN wrote
            BY <1>3, <2>2, <6>1 DEF Undisturbed
          <6>3. KeyOf(ms, k) = key
            BY <1>5, <2>3, <5>1, FeedsItsKey
          <6> QED BY <3>2, <6>2, <6>3
        <5> QED BY <5>1
      <4>3. RecalculatedIn(ms, u, key) = RecalculatedIn(ms, t, key)
        BY <1>4, <1>6, <2>3, <4>2, RowsStillRight
      <4> QED BY <2>1, <2>3, <4>1, <4>3 DEF Tallied
    <3> QED BY <3>1, <3>2
  <2>4. ASSUME NEW k \in DOMAIN u, k[2] = p
        PROVE  KeyOf(ms, k) \in DOMAIN new
    <3>1. CASE k \in DOMAIN t
      BY <1>2, <2>1, <2>4, <3>1 DEF Tallied
    <3>2. CASE k \in DOMAIN own
      BY <1>2, <1>3, <2>2, <2>4, <3>2 DEF Undisturbed
    <3> QED BY <1>1, <2>4, <3>1, <3>2
  <2> QED BY <2>3, <2>4
<1>7. Tallied(ms, u, new)
  BY <1>5, <1>6 DEF Tallied
<1> QED BY <1>7 DEF u, new, own, wrote

\* And it spoils nothing another batch has computed: the aggregates its rows
\* feed are locked.
LEMMA CalculatingBesideCommit ==
  ASSUME NEW ms, NEW t, NEW q, NEW o, Existing(ms, t), Calculating(ms, t, q), q.todo = <<>>,
         Calculating(ms, t, o), DOMAIN q.wrote \cap DOMAIN o.wrote = {}
  PROVE  Calculating(ms, Overlay(t, q.own), o)
<1> DEFINE own == q.own
           u == Overlay(t, own)
<1>1. /\ DOMAIN u = DOMAIN t \cup DOMAIN own
      /\ \A k \in DOMAIN u : u[k] = IF k \in DOMAIN t THEN t[k] ELSE own[k]
  BY DEF Overlay
<1>2. \A k \in DOMAIN own : Untouched(ms, k[3]) => KeyOf(ms, k) \in DOMAIN q.wrote
  BY DEF Calculating, ToSet
<1> HIDE DEF u, own
<1>3. MatchStep(ms, ms) /\ Grows(t, u)
  BY <1>1 DEF MatchStep, Grows
<1>4. ASSUME NEW key \in DOMAIN o.wrote, PlainIn(ms, u, key[2]), NEW k \in DOMAIN u \ DOMAIN t,
             Feeds(ms, k, key)
      PROVE  FALSE
  <2>1. k \in DOMAIN own /\ Untouched(ms, k[3])
    BY <1>1, <1>4 DEF PlainIn, Undisturbed, Feeds
  <2>2. key \in AggregateKeys
    BY <1>4 DEF Calculating
  <2>3. KeyOf(ms, k) = key
    BY <1>4, <2>2, FeedsItsKey
  <2> QED BY <1>2, <1>4, <2>1, <2>3
<1>5. Calculating(ms, u, o)
  BY <1>3, <1>4, CalculatingStays
<1> QED BY <1>5 DEF u, own

-----------------------------------------------------------------------------
(* Every step keeps the tallies.                                           *)

Leaves(r) ==
  /\ OthersStay(r)
  /\ requests'[r] = requests[r] \/ requests'[r] = Idle \/ requests'[r].op # "batch"

LEMMA SquadLeaves ==
  ASSUME NEW r \in Requests, DOMAIN requests = Requests, SquadStep(r)
  PROVE  Leaves(r)
<1>1. ASSUME NEW q, Proceed(r, q), q.op # "batch" PROVE Leaves(r)
  BY <1>1 DEF Proceed, Leaves, OthersStay
<1>2. ASSUME End(r) \/ UNCHANGED requests PROVE Leaves(r)
  BY <1>2 DEF End, Leaves, OthersStay
<1>3. CASE Remediate(r)
  <2>1. PICK f : Proceed(r, [op |-> "repair", pc |-> "read", do |-> f])
    BY <1>3 DEF Remediate
  <2> QED BY <1>1, <2>1
<1>4. CASE RepairRead(r)
  <2>1. \/ End(r)
        \/ \E x, read : Proceed(r, [op |-> "repair", pc |-> "commit", do |-> x, read |-> read])
    BY <1>4 DEF RepairRead
  <2>2. ASSUME NEW x, NEW read,
               Proceed(r, [op |-> "repair", pc |-> "commit", do |-> x, read |-> read])
        PROVE  Leaves(r)
    BY <1>1, <2>2
  <2> QED BY <1>2, <2>1, <2>2
<1>5. CASE CreateTeam(r)
  <2>1. PICK t, name, group, list :
          Proceed(r, [op |-> "create", pc |-> "commit", team |-> t, name |-> name,
                      group |-> group, list |-> list])
    BY <1>5 DEF CreateTeam
  <2> QED BY <1>1, <2>1
<1>6. CASE UpdateTeam(r)
  <2>1. PICK t, name, group, list :
          Proceed(r, [op |-> "update", pc |-> "commit", team |-> t, name |-> name,
                      group |-> group, list |-> list])
    BY <1>6 DEF UpdateTeam
  <2> QED BY <1>1, <2>1
<1>7. CASE AddPlayer(r)
  <2>1. PICK t, p, n :
          Proceed(r, [op |-> "add", pc |-> "commit", team |-> t, player |-> p, last |-> n])
    BY <1>7 DEF AddPlayer
  <2> QED BY <1>1, <2>1
<1>8. CASE CreatePlayer(r)
  <2>1. PICK p, name :
          Proceed(r, [op |-> "player", pc |-> "commit", player |-> p, name |-> name])
    BY <1>8 DEF CreatePlayer
  <2> QED BY <1>1, <2>1
<1>9. CASE UpdateAssignments(r)
  <2>1. PICK k, ts, n :
          Proceed(r, [op |-> "assign", pc |-> "commit", coach |-> k, teams |-> ts, version |-> n])
    BY <1>9 DEF UpdateAssignments
  <2> QED BY <1>1, <2>1
<1>10. CASE \/ RepairCommit(r) \/ RepairRefused(r) \/ CreateTeamCommit(r)
            \/ UpdateTeamCommit(r) \/ AddPlayerCommit(r) \/ CreatePlayerCommit(r)
            \/ UpdatePlayer(r) \/ CreateCoach(r) \/ ToggleCoachStatus(r) \/ ChangeRole(r)
            \/ UpdateAssignmentsCommit(r)
  BY <1>2, <1>10 DEF RepairCommit, RepairRefused, CreateTeamCommit, UpdateTeamCommit,
     AddPlayerCommit, CreatePlayerCommit, UpdatePlayer, CreateCoach, ToggleCoachStatus,
     ChangeRole, UpdateAssignmentsCommit
<1> QED BY <1>3, <1>4, <1>5, <1>6, <1>7, <1>8, <1>9, <1>10 DEF SquadStep

\* What request r may have become when it has committed no batch.
BatchKept(r) ==
  \/ requests'[r] = requests[r] \/ requests'[r] = Idle
  \/ /\ BatchSound(matches', rows', requests'[r])
     /\ \A x \in Requests \ {r} : Held(r)' \cap Held(x) = {}

LEMMA HeldSame ==
  ASSUME NEW x \in Requests
  PROVE  /\ requests'[x] = requests[x] => Held(x)' = Held(x)
         /\ requests'[x] = Idle \/ requests'[x].op # "batch" => Held(x)' = {}
BY DEF Held, BatchesAt, At

LEMMA TalliesKept ==
  ASSUME Tallies, NEW r \in Requests, OthersStay(r), BatchKept(r),
         matches' \in [Matches -> MatchRows \cup {None}], MatchStep(matches, matches'),
         Existing(matches', rows'), Grows(rows, rows'),
         \A k \in DOMAIN rows' \ DOMAIN rows : rows'[k].derived,
         stats' = stats
  PROVE  Tallies'
<1> DEFINE ms == matches
           ns == matches'
           t == rows
           u == rows'
<1>1. /\ MatchStep(ms, ns) /\ Grows(t, u) /\ Existing(ms, t)
      /\ \A k \in DOMAIN u \ DOMAIN t : u[k].derived
  BY DEF Tallies
<1>2. Tallied(ns, u, stats')
  <2>1. PICK totals : totals = stats
    OBVIOUS
  <2>2. Tallied(ms, t, totals)
    BY <2>1 DEF Tallies
  <2> HIDE DEF ms, ns, t, u
  <2>3. Tallied(ns, u, totals)
    BY <1>1, <2>2, TalliedStays
  <2> QED BY <2>1, <2>3
<1>3. ASSUME NEW q, BatchSound(ms, t, q) PROVE BatchSound(ns, u, q)
  <2> HIDE DEF ms, ns, t, u
  <2>1. ASSUME Inserting(ms, q) PROVE Inserting(ns, q)
    BY <1>1, <2>1 DEF Inserting, MatchStep
  <2>2. ASSUME Calculating(ms, t, q) PROVE Calculating(ns, u, q)
    <3>1. ASSUME NEW key \in DOMAIN q.wrote, PlainIn(ns, u, key[2]),
                 NEW k \in DOMAIN u \ DOMAIN t
          PROVE  ~Feeds(ns, k, key)
      BY <1>1, <3>1 DEF PlainIn, Feeds
    <3> QED BY <1>1, <2>2, <3>1, CalculatingStays
  <2> QED BY <1>3, <2>1, <2>2 DEF BatchSound
<1>4. \A x \in Requests \ {r} : requests'[x] = requests[x]
  BY DEF OthersStay
<1>5. ASSUME NEW x \in Requests, requests'[x] # Idle
      PROVE  BatchSound(ns, u, requests'[x])
  <2>1. CASE requests'[x] = requests[x]
    BY <1>3, <1>5, <2>1 DEF Tallies
  <2>2. CASE requests'[x] # requests[x]
    BY <1>4, <1>5, <2>2 DEF BatchKept
  <2> QED BY <2>1, <2>2
<1>6. HeldApart'
  <2>1. \A x \in Requests \ {r} : Held(x)' = Held(x)
    BY <1>4, HeldSame
  <2>2. \A x, y \in Requests : x # y => Held(x) \cap Held(y) = {}
    BY DEF Tallies, HeldApart
  <2>3. \A x \in Requests \ {r} : Held(r)' \cap Held(x) = {}
    BY <2>2, HeldSame DEF BatchKept
  <2>4. ASSUME NEW x \in Requests, NEW y \in Requests, x # y
        PROVE  Held(x)' \cap Held(y)' = {}
    BY <2>1, <2>2, <2>3, <2>4
  <2> QED BY <2>4 DEF HeldApart
<1> QED BY <1>2, <1>5, <1>6 DEF Tallies, OthersStay

\* A step that leaves matches, rows and aggregates alone.
LEMMA TalliesAside ==
  ASSUME Tallies, NEW r \in Requests, OthersStay(r), BatchKept(r), UNCHANGED performanceVars
  PROVE  Tallies'
<1>1. /\ matches' = matches /\ rows' = rows /\ stats' = stats
      /\ MatchStep(matches, matches') /\ Grows(rows, rows')
  BY DEF performanceVars, MatchStep, Grows
<1> QED BY <1>1, TalliesKept DEF Tallies

LEMMA SquadKeeps ==
  ASSUME Tallies, NEW r \in Requests, SquadStep(r), UNCHANGED performanceVars
  PROVE  Tallies'
<1>1. Leaves(r)
  BY SquadLeaves DEF Tallies
<1>2. ASSUME requests'[r].op # "batch" PROVE BatchKept(r)
  BY <1>2, HeldSame DEF BatchKept, BatchSound
<1> QED BY <1>1, <1>2, TalliesAside DEF Leaves, BatchKept

LEMMA MatchesKeep ==
  ASSUME Tallies, NEW r \in Requests, CreateMatch(r) \/ UpdateMatch(r) \/ ConfigureScoring(r)
  PROVE  Tallies'
<1>1. UNCHANGED <<requests, rows, stats>>
  BY DEF CreateMatch, UpdateMatch, ConfigureScoring
<1>2. ASSUME NEW m \in Matches, NEW z \in MatchRows, matches' = [matches EXCEPT ![m] = z],
             matches[m] # None =>
               /\ matches[m].authority = "legacy_aggregate" /\ z.version = matches[m].version + 1
               /\ z.authority = "legacy_aggregate" \/ z.format = matches[m].format
      PROVE  Tallies'
  <2>1. matches' \in [Matches -> MatchRows \cup {None}]
    BY <1>2 DEF Tallies
  <2>2. z # None /\ z.authority \in {"legacy_aggregate", "delivery_history"}
    BY PerformanceAssumption DEF MatchRows
  <2>3. ASSUME matches[m] # None, Untouched(matches', m)
        PROVE  Untouched(matches, m) /\ matches'[m].format = matches[m].format
    <3>1. matches[m].version \in Nat \ {0} /\ matches'[m] = z
      BY <1>2, <2>3 DEF Tallies, MatchRows
    <3> QED BY <1>2, <2>2, <2>3, <3>1 DEF Untouched
  <2>4. ASSUME NEW n \in Matches, matches[n] # None
        PROVE  /\ matches'[n] # None
               /\ Untouched(matches', n) =>
                    Untouched(matches, n) /\ matches'[n].format = matches[n].format
    BY <1>2, <2>2, <2>3, <2>4 DEF Tallies, Untouched
  <2>5. MatchStep(matches, matches')
    BY <2>4 DEF MatchStep
  <2>6. Existing(matches', rows') /\ Grows(rows, rows')
    BY <1>1, <2>4 DEF Tallies, Existing, Grows
  <2>7. OthersStay(r) /\ BatchKept(r)
    BY <1>1 DEF OthersStay, BatchKept, Tallies
  <2> QED BY <1>1, <2>1, <2>5, <2>6, <2>7, TalliesKept
<1>3. Participants \subseteq Pairings
  BY DEF Participants, Pairings, TeamsIn
<1>4. CASE CreateMatch(r)
  <2>1. PICK m \in Matches \ MatchesIn, format \in Formats, between \in Participants :
          matches' = [matches EXCEPT ![m] =
                        [format |-> format, between |-> between,
                         authority |-> "legacy_aggregate", version |-> 1]]
    BY <1>4 DEF CreateMatch
  <2>2. /\ [format |-> format, between |-> between, authority |-> "legacy_aggregate",
            version |-> 1] \in MatchRows
        /\ matches[m] = None
    BY <1>3, <2>1 DEF MatchRows, MatchesIn
  <2> QED BY <1>2, <2>1, <2>2
<1>5. CASE UpdateMatch(r)
  <2>1. PICK m \in MatchesIn, format \in Formats, between \in Participants :
          /\ matches[m].authority = "legacy_aggregate"
          /\ matches' = [matches EXCEPT ![m] =
               [matches[m] EXCEPT !.format = format, !.between = between,
                                  !.version = matches[m].version + 1]]
    <3>1. PICK m \in MatchesIn, format \in Formats, between \in Participants :
            /\ matches[m].authority = "legacy_aggregate"
            /\ matches' = [matches EXCEPT ![m].format = format, ![m].between = between,
                                          ![m].version = @ + 1]
      BY <1>5 DEF UpdateMatch
    <3>2. m \in Matches /\ matches[m] \in MatchRows
      BY <3>1 DEF MatchesIn, Tallies
    <3>3. [matches EXCEPT ![m].format = format, ![m].between = between, ![m].version = @ + 1]
            = [matches EXCEPT ![m] = [matches[m] EXCEPT !.format = format, !.between = between,
                                                        !.version = matches[m].version + 1]]
      BY <3>2 DEF Tallies, MatchRows
    <3> QED BY <3>1, <3>3
  <2>2. m \in Matches /\ matches[m] \in MatchRows
    BY <2>1 DEF MatchesIn, Tallies
  <2>3. ASSUME NEW y \in MatchRows
        PROVE  LET z == [y EXCEPT !.format = format, !.between = between, !.version = y.version + 1]
               IN  z \in MatchRows /\ z.version = y.version + 1 /\ z.authority = y.authority
    <3>1. between \in Pairings /\ format \in Formats
      BY <1>3, <2>1
    <3>2. y.version + 1 \in Nat \ {0}
      BY DEF MatchRows
    <3> QED BY <3>1, <3>2 DEF MatchRows
  <2> DEFINE z == [matches[m] EXCEPT !.format = format, !.between = between,
                                     !.version = matches[m].version + 1]
  <2>4. z \in MatchRows /\ z.version = matches[m].version + 1 /\ z.authority = "legacy_aggregate"
    BY <2>1, <2>2, <2>3
  <2>5. matches' = [matches EXCEPT ![m] = z]
    BY <2>1
  <2> HIDE DEF z
  <2> QED BY <1>2, <2>1, <2>2, <2>4, <2>5
<1>6. CASE ConfigureScoring(r)
  <2>1. PICK m \in MatchesIn :
          /\ matches[m].authority = "legacy_aggregate"
          /\ matches' = [matches EXCEPT ![m] =
               [matches[m] EXCEPT !.authority = "delivery_history",
                                  !.version = matches[m].version + 1]]
    <3>1. PICK m \in MatchesIn :
            /\ matches[m].authority = "legacy_aggregate"
            /\ matches' = [matches EXCEPT ![m].authority = "delivery_history", ![m].version = @ + 1]
      BY <1>6 DEF ConfigureScoring
    <3>2. m \in Matches /\ matches[m] \in MatchRows
      BY <3>1 DEF MatchesIn, Tallies
    <3>3. [matches EXCEPT ![m].authority = "delivery_history", ![m].version = @ + 1]
            = [matches EXCEPT ![m] = [matches[m] EXCEPT !.authority = "delivery_history",
                                                        !.version = matches[m].version + 1]]
      BY <3>2 DEF Tallies, MatchRows
    <3> QED BY <3>1, <3>3
  <2>2. m \in Matches /\ matches[m] \in MatchRows
    BY <2>1 DEF MatchesIn, Tallies
  <2>3. ASSUME NEW y \in MatchRows
        PROVE  LET z == [y EXCEPT !.authority = "delivery_history", !.version = y.version + 1]
               IN  z \in MatchRows /\ z.version = y.version + 1 /\ z.format = y.format
    <3>1. y.version + 1 \in Nat \ {0}
      BY DEF MatchRows
    <3> QED BY <3>1 DEF MatchRows
  <2> DEFINE z == [matches[m] EXCEPT !.authority = "delivery_history",
                                     !.version = matches[m].version + 1]
  <2>4. z \in MatchRows /\ z.version = matches[m].version + 1 /\ z.format = matches[m].format
    BY <2>2, <2>3
  <2>5. matches' = [matches EXCEPT ![m] = z]
    BY <2>1
  <2> HIDE DEF z
  <2> QED BY <1>2, <2>1, <2>2, <2>4, <2>5
<1> QED BY <1>4, <1>5, <1>6

LEMMA SubmitKeeps ==
  ASSUME Tallies, NEW r \in Requests, SubmitBatch(r)
  PROVE  Tallies'
<1>1. PICK m \in MatchesIn, items \in Batches :
        /\ BatchAccepted(items)
        /\ Proceed(r, [op |-> "batch", pc |-> "insert", match |-> m, items |-> items,
                       format |-> matches[m].format])
  BY DEF SubmitBatch
<1>2. UNCHANGED performanceVars /\ matches' = matches
  BY DEF SubmitBatch, performanceVars
<1> DEFINE q == [op |-> "batch", pc |-> "insert", match |-> m, items |-> items,
                 format |-> matches[m].format]
<1>3. m \in Matches /\ matches[m] # None /\ matches[m].format \in Formats
  BY <1>1 DEF MatchesIn, Tallies, MatchRows
<1>4. BatchSound(matches', rows', q)
  BY <1>1, <1>2, <1>3 DEF BatchSound, Inserting
<1>5. OthersStay(r) /\ requests'[r] = q
  BY <1>1 DEF Proceed, OthersStay, Tallies
<1>6. Held(r)' = {}
  BY <1>5 DEF Held, BatchesAt, At
<1> HIDE DEF q
<1>7. BatchKept(r)
  BY <1>4, <1>5, <1>6 DEF BatchKept
<1> QED BY <1>2, <1>5, <1>7, TalliesAside

LEMMA OwnRows ==
  ASSUME NEW m, NEW items, NEW k \in DOMAIN RowsOf(m, items)
  PROVE  \E i \in DOMAIN items, kind \in Kinds :
           k = <<kind, items[i].player, m>> /\ items[i][kind] # None
BY DEF RowsOf

LEMMA InsertKeeps ==
  ASSUME Tallies, NEW r \in Requests, BatchInsert(r)
  PROVE  Tallies'
<1> DEFINE b == requests[r]
           own == RowsOf(b.match, b.items)
           q == [op |-> "batch", pc |-> "recalculate", own |-> own,
                 todo |-> Agenda(b.items, b.format), wrote |-> <<>>]
<1>1. UNCHANGED performanceVars /\ matches' = matches /\ rows' = rows
  BY DEF BatchInsert, performanceVars
<1>2. Inserting(matches, b)
  BY DEF BatchInsert, At, Tallies, BatchSound
<1>3. End(r) \/ Proceed(r, q)
  BY DEF BatchInsert
<1>6. \A i \in DOMAIN b.items : b.items[i].player \in Players
  <2>1. b.items \in Seq(Items)
    BY <1>2, PerformanceAssumption DEF Inserting
  <2>2. \A i \in DOMAIN b.items : b.items[i] \in Items
    BY <2>1, ElementOfSeq, LenProperties
  <2> QED BY <2>2 DEF Items
<1>4. CASE End(r)
  BY <1>1, <1>4, TalliesAside DEF End, OthersStay, BatchKept, Tallies
<1>5. CASE Proceed(r, q)
  <2>1. OthersStay(r) /\ requests'[r] = q
    BY <1>5 DEF Proceed, OthersStay, Tallies
  <2>2. /\ q.op = "batch" /\ q.pc = "recalculate" /\ q.own = own
        /\ q.todo = Agenda(b.items, b.format) /\ q.wrote = <<>> /\ DOMAIN q.wrote = {}
    OBVIOUS
  <2> HIDE DEF q, own
  <2>3. Existing(matches, own)
    <3>1. ASSUME NEW k \in DOMAIN own
          PROVE  k[1] \in Kinds /\ k[3] \in Matches /\ matches[k[3]] # None
      <4>1. PICK i \in DOMAIN b.items, kind \in Kinds : k = <<kind, b.items[i].player, b.match>>
        BY <3>1, OwnRows DEF own
      <4> QED BY <1>2, <4>1 DEF Inserting
    <3> QED BY <3>1 DEF Existing
  <2>4. ASSUME NEW k \in DOMAIN own, Untouched(matches, k[3])
        PROVE  KeyOf(matches, k) \in ToSet(q.todo)
    <3>1. PICK i \in DOMAIN b.items, kind \in Kinds :
            k = <<kind, b.items[i].player, b.match>> /\ b.items[i][kind] # None
      BY <2>4, OwnRows DEF own
    <3>2. matches[k[3]].format = b.format
      BY <1>2, <2>4, <3>1 DEF Inserting
    <3>3. <<TableOf(kind), b.items[i].player, b.format>> \in ToSet(Agenda(b.items, b.format))
      BY <1>2, <1>6, <3>1, AgendaCovers DEF Inserting
    <3> QED BY <2>2, <3>1, <3>2, <3>3 DEF KeyOf
  <2>5. q.todo \in Seq(AggregateKeys)
    BY <1>2, <1>6, <2>2, AgendaCovers DEF Inserting, AggregateKeys
  <2>6. Calculating(matches, rows, q)
    BY <2>2, <2>3, <2>4, <2>5 DEF Calculating
  <2>7. BatchSound(matches', rows', q)
    BY <1>1, <2>2, <2>6 DEF BatchSound
  <2>8. Held(r)' = {}
    BY <2>1, <2>2 DEF Held, BatchesAt, At
  <2>9. BatchKept(r)
    BY <2>1, <2>7, <2>8 DEF BatchKept
  <2> QED BY <1>1, <2>1, <2>9, TalliesAside
<1> QED BY <1>3, <1>4, <1>5

LEMMA RecalculateKeeps ==
  ASSUME Tallies, NEW r \in Requests, BatchRecalculate(r)
  PROVE  Tallies'
<1> DEFINE b == requests[r]
           key == Head(b.todo)
           top == [k \in {key} |-> Recalculated(Overlay(rows, b.own), k)]
           wrote == Overlay(top, b.wrote)
           q == [op |-> "batch", pc |-> "recalculate", own |-> b.own, todo |-> Tail(b.todo),
                 wrote |-> wrote]
<1>1. UNCHANGED performanceVars /\ matches' = matches /\ rows' = rows
  BY DEF BatchRecalculate, performanceVars
<1>2. Calculating(matches, rows, b) /\ b.todo # <<>>
  BY DEF BatchRecalculate, At, Tallies, BatchSound
<1>3. LockFree(r, key) /\ Proceed(r, q)
  BY DEF BatchRecalculate
<1>4. OthersStay(r) /\ requests'[r] = q
  BY <1>3 DEF Proceed, OthersStay, Tallies
<1>5. /\ q.op = "batch" /\ q.pc = "recalculate" /\ q.own = b.own
      /\ q.todo = Tail(b.todo) /\ q.wrote = wrote
  OBVIOUS
<1>6. /\ DOMAIN wrote = {key} \cup DOMAIN b.wrote
      /\ \A x \in DOMAIN wrote : wrote[x] = IF x = key THEN top[key] ELSE b.wrote[x]
  BY DEF Overlay
<1>7. top[key] = RecalculatedIn(matches, Overlay(rows, b.own), key)
  BY DEF Recalculated, RecalculatedIn, LinesOf, LinesIn
<1>8. /\ key \in AggregateKeys /\ Tail(b.todo) \in Seq(AggregateKeys)
      /\ ToSet(b.todo) \subseteq {key} \cup ToSet(Tail(b.todo))
  <2>1. b.todo \in Seq(AggregateKeys)
    BY <1>2 DEF Calculating
  <2>2. /\ Len(b.todo) \in Nat \ {0} /\ DOMAIN b.todo = 1 .. Len(b.todo)
        /\ key = b.todo[1] /\ key \in AggregateKeys
    BY <1>2, <2>1, LenProperties, HeadTailProperties, EmptySeq, ElementOfSeq
  <2>3. /\ Tail(b.todo) \in Seq(AggregateKeys) /\ Len(Tail(b.todo)) = Len(b.todo) - 1
        /\ DOMAIN Tail(b.todo) = 1 .. Len(b.todo) - 1
        /\ \A i \in 1 .. Len(Tail(b.todo)) : Tail(b.todo)[i] = b.todo[i + 1]
    BY <1>2, <2>1, HeadTailProperties, LenProperties
  <2> HIDE DEF key
  <2>4. ASSUME NEW i \in DOMAIN b.todo PROVE b.todo[i] \in {key} \cup ToSet(Tail(b.todo))
    <3>1. CASE i = 1
      BY <2>2, <3>1
    <3>2. CASE i # 1
      <4>0. i \in 1 .. Len(b.todo) /\ Len(b.todo) \in Nat /\ i \in Int
        BY <2>2
      <4>2. i - 1 \in 1 .. Len(b.todo) - 1 /\ (i - 1) + 1 = i
        BY <3>2, <4>0
      <4>1. i - 1 \in DOMAIN Tail(b.todo) /\ Tail(b.todo)[i - 1] = b.todo[i]
        BY <2>3, <4>2
      <4> QED BY <4>1 DEF ToSet
    <3> QED BY <3>1, <3>2
  <2> QED BY <2>2, <2>3, <2>4 DEF ToSet
<1> HIDE DEF key, top, wrote, q
<1>9. Calculating(matches, rows, q)
  BY <1>2, <1>5, <1>6, <1>7, <1>8 DEF Calculating
<1>10. ASSUME NEW x \in Requests \ {r} PROVE Held(r)' \cap Held(x) = {}
  <2>1. Held(r)' \subseteq {key} \cup DOMAIN b.wrote
    BY <1>4, <1>5, <1>6 DEF Held, BatchesAt, At
  <2>2. Held(r) = DOMAIN b.wrote
    BY DEF Held, BatchesAt, BatchRecalculate
  <2>3. key \notin Held(x)
    BY <1>3, <1>10 DEF LockFree
  <2>4. Held(r) \cap Held(x) = {}
    BY <1>10 DEF Tallies, HeldApart
  <2> QED BY <2>1, <2>2, <2>3, <2>4
<1>11. BatchKept(r)
  BY <1>1, <1>4, <1>5, <1>9, <1>10 DEF BatchKept, BatchSound
<1> QED BY <1>1, <1>4, <1>11, TalliesAside

LEMMA CommitKeeps ==
  ASSUME Tallies, NEW r \in Requests, BatchCommit(r)
  PROVE  Tallies'
<1> DEFINE b == requests[r]
<1>1. /\ matches' = matches /\ rows' = Overlay(rows, b.own) /\ stats' = Overlay(b.wrote, stats)
      /\ requests' = [requests EXCEPT ![r] = Idle]
  BY DEF BatchCommit, End
<1>2. Calculating(matches, rows, b) /\ b.todo = <<>>
  BY DEF BatchCommit, At, Tallies, BatchSound
<1>3. Existing(matches, Overlay(rows, b.own))
  <2>1. DOMAIN Overlay(rows, b.own) = DOMAIN rows \cup DOMAIN b.own
    BY DEF Overlay
  <2> QED BY <1>2, <2>1 DEF Existing, Tallies, Calculating
<1>4. Tallied(matches, Overlay(rows, b.own), Overlay(b.wrote, stats))
  <2>1. PICK q : q = b
    OBVIOUS
  <2>2. Calculating(matches, rows, q) /\ q.todo = <<>>
    BY <1>2, <2>1
  <2>3. Tallied(matches, Overlay(rows, q.own), Overlay(q.wrote, stats))
    BY <2>2, TalliedByCommit DEF Tallies
  <2> QED BY <2>1, <2>3
<1>5. \A x \in Requests \ {r} : requests'[x] = requests[x]
  BY <1>1 DEF Tallies
<1>6. ASSUME NEW x \in Requests, requests'[x] # Idle
      PROVE  BatchSound(matches, Overlay(rows, b.own), requests[x])
  <2>1. x # r /\ requests[x] # Idle
    BY <1>1, <1>5, <1>6 DEF Tallies
  <2>2. BatchSound(matches, rows, requests[x])
    BY <2>1 DEF Tallies
  <2>3. ASSUME requests[x].op = "batch", requests[x].pc = "recalculate"
        PROVE  Calculating(matches, Overlay(rows, b.own), requests[x])
    <3>1. Held(r) = DOMAIN b.wrote /\ Held(x) = DOMAIN requests[x].wrote
      BY <2>1, <2>3 DEF Held, BatchesAt, At, BatchCommit
    <3>2. DOMAIN b.wrote \cap DOMAIN requests[x].wrote = {}
      BY <2>1, <3>1 DEF Tallies, HeldApart
    <3>3. PICK q, o : q = b /\ o = requests[x]
      OBVIOUS
    <3>4. /\ Calculating(matches, rows, q) /\ q.todo = <<>> /\ Calculating(matches, rows, o)
          /\ DOMAIN q.wrote \cap DOMAIN o.wrote = {}
      BY <1>2, <2>2, <2>3, <3>2, <3>3 DEF BatchSound
    <3>5. Calculating(matches, Overlay(rows, q.own), o)
      BY <3>4, CalculatingBesideCommit DEF Tallies
    <3> QED BY <3>3, <3>5
  <2> QED BY <2>2, <2>3 DEF BatchSound
<1>7. HeldApart'
  <2>1. Held(r)' = {} /\ \A x \in Requests \ {r} : Held(x)' = Held(x)
    BY <1>1, <1>5, HeldSame DEF Tallies
  <2>2. \A x, y \in Requests : x # y => Held(x) \cap Held(y) = {}
    BY DEF Tallies, HeldApart
  <2>3. ASSUME NEW x \in Requests, NEW y \in Requests, x # y
        PROVE  Held(x)' \cap Held(y)' = {}
    BY <2>1, <2>2, <2>3
  <2> QED BY <2>3 DEF HeldApart
<1> HIDE DEF b
<1>8. \A x \in Requests : requests'[x] # Idle => BatchSound(matches', rows', requests'[x])
  BY <1>1, <1>5, <1>6 DEF Tallies
<1>9. matches' \in [Matches -> MatchRows \cup {None}] /\ DOMAIN requests' = Requests
  BY <1>1 DEF Tallies
<1> QED BY <1>1, <1>3, <1>4, <1>7, <1>8, <1>9 DEF Tallies

\* Scoring writes rows that are derived, and only over rows that are.
LEMMA SyncKeeps ==
  ASSUME Tallies, NEW r \in Requests, SyncDerived(r)
  PROVE  Tallies'
<1>1. /\ matches' = matches /\ stats' = stats /\ requests' = requests
  BY DEF SyncDerived
<1>2. PICK m \in MatchesIn, d \in Derived :
        LET derived == RowsOf(m, <<DerivedItem(d.player, d.innings)>>)
            keys    == {k \in DOMAIN derived : Writable(k)}
        IN  rows' = Overlay([k \in keys |-> derived[k]], rows)
  BY DEF SyncDerived
<1> DEFINE item == DerivedItem(d.player, d.innings)
           items == <<item>>
           derived == RowsOf(m, items)
           keys == {k \in DOMAIN derived : Writable(k)}
           new == [k \in keys |-> derived[k]]
<1>3. rows' = Overlay(new, rows)
  BY <1>2
<1>4. \A kind \in Kinds : item[kind].derived = TRUE
  BY DEF DerivedItem, Kinds
<1> HIDE DEF item
<1>5. ASSUME NEW k \in DOMAIN derived
      PROVE  k[1] \in Kinds /\ k[3] = m /\ derived[k].derived
  <2>1. DOMAIN items = {1} /\ items[1] = item
    OBVIOUS
  <2>2. PICK i \in DOMAIN items, kind \in Kinds : k = <<kind, items[i].player, m>>
    BY <1>5, OwnRows
  <2>3. k[1] = kind /\ k[2] = item.player /\ k[3] = m
    BY <2>1, <2>2
  <2>4. derived[k] = LET j == CHOOSE j \in DOMAIN items : items[j].player = k[2]
                     IN items[j][k[1]]
    BY <1>5 DEF RowsOf
  <2>5. (CHOOSE j \in DOMAIN items : items[j].player = k[2]) = 1
    <3> HIDE DEF items
    <3>1. \E j \in DOMAIN items : items[j].player = k[2]
      BY <2>1, <2>3
    <3>2. (CHOOSE j \in DOMAIN items : items[j].player = k[2]) \in DOMAIN items
      BY <3>1
    <3> QED BY <2>1, <3>2
  <2>6. derived[k] = item[kind]
    BY <2>1, <2>3, <2>4, <2>5
  <2> QED BY <1>4, <2>3, <2>6
<1> HIDE DEF derived, items
<1>6. /\ DOMAIN new = keys /\ \A k \in keys : new[k] = derived[k] /\ k \in DOMAIN derived
      /\ \A k \in keys : k \in DOMAIN rows => rows[k].derived
  BY DEF Writable
<1> HIDE DEF new, keys
<1>7. /\ DOMAIN rows' = keys \cup DOMAIN rows
      /\ \A k \in DOMAIN rows' : rows'[k] = IF k \in keys THEN new[k] ELSE rows[k]
  BY <1>3, <1>6 DEF Overlay
<1>8. m \in Matches /\ matches[m] # None
  BY <1>2 DEF MatchesIn
<1>9. Existing(matches, rows')
  BY <1>5, <1>6, <1>7, <1>8 DEF Existing, Tallies
<1>10. Grows(rows, rows') /\ \A k \in DOMAIN rows' \ DOMAIN rows : rows'[k].derived
  BY <1>5, <1>6, <1>7 DEF Grows
<1>11. MatchStep(matches, matches') /\ OthersStay(r) /\ BatchKept(r)
  BY <1>1 DEF MatchStep, OthersStay, BatchKept, Tallies
<1>12. Existing(matches', rows') /\ matches' \in [Matches -> MatchRows \cup {None}]
  BY <1>1, <1>9 DEF Tallies
<1> QED BY <1>1, <1>10, <1>11, <1>12, TalliesKept

LEMMA TalliesInit == Init => Tallies
<1> SUFFICES ASSUME Init PROVE Tallies
  OBVIOUS
<1>1. /\ matches = [m \in Matches |-> None] /\ rows = <<>> /\ stats = <<>>
      /\ requests = [r \in Requests |-> Idle]
  BY DEF Init, SquadInit, PerformanceInit
<1>2. DOMAIN rows = {} /\ DOMAIN stats = {}
  BY <1>1
<1> QED BY <1>1, <1>2 DEF Tallies, Existing, Tallied, HeldApart, Held, BatchesAt, At

LEMMA TalliesNext == Tallies /\ [Next]_vars => Tallies'
<1>1. ASSUME Tallies, NEW r \in Requests, PerformanceStep(r) PROVE Tallies'
  <2>1. ASSUME DeadlockAbort(r) PROVE Tallies'
    <3>1. OthersStay(r) /\ BatchKept(r) /\ UNCHANGED performanceVars
      BY <1>1, <2>1 DEF DeadlockAbort, End, OthersStay, BatchKept, Tallies
    <3> QED BY <1>1, <3>1, TalliesAside
  <2> QED BY <1>1, <2>1, MatchesKeep, SubmitKeeps, InsertKeeps, RecalculateKeeps, CommitKeeps,
             SyncKeeps DEF PerformanceStep
<1>2. ASSUME Tallies, UNCHANGED vars PROVE Tallies'
  BY <1>2 DEF vars, squadVars, performanceVars, Tallies, HeldApart, Held, BatchesAt, At
<1> QED BY <1>1, <1>2, SquadKeeps DEF Next

\* Whatever batches run together, wait, deadlock or are refused, the aggregates
\* of a player whose matches were not replaced and whose rows scoring did not
\* derive are those of the rows that are committed, and none is missing.
THEOREM AggregatesMatch == Spec => []StatsMatchPerformances
<1>1. Tallies => StatsMatchPerformances
  <2> SUFFICES ASSUME Tallies, NEW p, Plain(p)
               PROVE  /\ \A key \in DOMAIN stats : key[2] = p =>
                           stats[key] = Recalculated(rows, key)
                      /\ \A k \in DOMAIN rows : k[2] = p =>
                           <<IF k[1] = "batting" THEN "batting" ELSE "bowling", p,
                             matches[k[3]].format>> \in DOMAIN stats
    BY DEF StatsMatchPerformances
  <2>1. PlainIn(matches, rows, p)
    BY DEF Plain, PlainIn, Undisturbed, Untouched
  <2>2. \A key : Recalculated(rows, key) = RecalculatedIn(matches, rows, key)
    BY DEF Recalculated, RecalculatedIn, LinesOf, LinesIn
  <2>3. \A k \in DOMAIN rows : k[2] = p =>
          <<IF k[1] = "batting" THEN "batting" ELSE "bowling", p, matches[k[3]].format>>
            = KeyOf(matches, k)
    BY DEF KeyOf, TableOf
  <2> QED BY <2>1, <2>2, <2>3 DEF Tallies, Tallied
<1> QED BY <1>1, TalliesInit, TalliesNext, PTL DEF Spec

-----------------------------------------------------------------------------
(* Sums, counts and extremes of finitely many lines.                       *)

LEMMA OneLess ==
  ASSUME NEW S, IsFiniteSet(S), NEW x \in S
  PROVE  /\ IsFiniteSet(S \ {x}) /\ Cardinality(S) \in Nat /\ Cardinality(S) - 1 \in Nat
         /\ Cardinality(S \ {x}) = Cardinality(S) - 1
<1>1. IsFiniteSet(S \ {x}) /\ Cardinality(S \ {x}) = Cardinality(S) - 1
  BY FS_RemoveElement
<1>2. Cardinality(S) \in Nat /\ Cardinality(S \ {x}) \in Nat
  BY <1>1, FS_CardinalityType
<1> QED BY <1>1, <1>2

LEMMA FiniteMax ==
  ASSUME NEW S \in SUBSET Int, IsFiniteSet(S), S # {}
  PROVE  Max(S) \in S /\ \A y \in S : Max(S) >= y
<1> DEFINE Topped(A) == \E x \in A : \A y \in A : x >= y
           Bare(n) == \E A \in SUBSET Int :
                        IsFiniteSet(A) /\ A # {} /\ Cardinality(A) = n /\ ~Topped(A)
           T == {n \in Nat : Bare(n)}
<1>1. T = {}
  <2> SUFFICES ASSUME T # {} PROVE FALSE
    OBVIOUS
  <2>1. PICK n \in T : \A m \in T : n <= m
    <3>1. T \in SUBSET Nat
      OBVIOUS
    <3> HIDE DEF T
    <3> QED BY <3>1, LeastNumber
  <2>2. PICK A \in SUBSET Int : IsFiniteSet(A) /\ A # {} /\ Cardinality(A) = n /\ ~Topped(A)
    BY <2>1
  <2>3. PICK a \in A : TRUE
    BY <2>2
  <2>4. IsFiniteSet(A \ {a}) /\ Cardinality(A \ {a}) = n - 1 /\ n - 1 \in Nat
    BY <2>2, <2>3, OneLess
  <2>5. A \ {a} = {} \/ Topped(A \ {a})
    <3>1. n - 1 \notin T
      <4>1. ~(n <= n - 1)
        BY <2>1
      <4> HIDE DEF T
      <4> QED BY <2>1, <4>1
    <3> QED BY <2>2, <2>4, <3>1
  <2>6. CASE A \ {a} = {}
    <3>1. A = {a} /\ a \in Int
      BY <2>2, <2>3, <2>6
    <3> QED BY <2>2, <3>1
  <2>7. CASE Topped(A \ {a})
    <3>1. PICK x \in A \ {a} : \A y \in A \ {a} : x >= y
      BY <2>7
    <3>2. CASE x >= a
      BY <2>2, <3>1, <3>2
    <3>3. CASE ~(x >= a)
      <4>1. a >= x /\ a \in Int /\ x \in Int
        BY <2>2, <2>3, <3>1, <3>3
      <4>2. \A y \in A : a >= y
        BY <2>2, <3>1, <4>1
      <4> QED BY <2>2, <2>3, <4>2
    <3> QED BY <3>2, <3>3
  <2> QED BY <2>5, <2>6, <2>7
<1>2. Topped(S)
  <2>1. Cardinality(S) \in Nat
    BY FS_CardinalityType
  <2> HIDE DEF Topped
  <2> QED BY <1>1, <2>1
<1>3. PICK x \in S : \A y \in S : x >= y
  BY <1>2
<1> QED BY <1>3 DEF Max

LEMMA LeastOf ==
  ASSUME NEW S \in SUBSET Nat, S # {}
  PROVE  Min(S) \in S /\ \A y \in S : Min(S) <= y
<1>1. PICK x \in S : \A y \in S : x <= y
  BY LeastNumber
<1> QED BY <1>1 DEF Min

\* f[s] is the sum of g over s, for every set s in its domain.
SumsTo(g, f) ==
  \A s \in DOMAIN f :
    f[s] = IF s = {} THEN 0
           ELSE LET x == CHOOSE x \in s : TRUE IN g[x] + f[s \ {x}]

Small(S, n) == {s \in SUBSET S : Cardinality(s) <= n}

LEMMA SumExists ==
  ASSUME NEW S, IsFiniteSet(S), NEW g \in [S -> Nat]
  PROVE  \A n \in Nat : \E f \in [Small(S, n) -> Nat] : SumsTo(g, f)
<1> DEFINE Has(n) == \E f \in [Small(S, n) -> Nat] : SumsTo(g, f)
           T == {n \in Nat : ~Has(n)}
<1> SUFFICES ASSUME T # {} PROVE FALSE
  OBVIOUS
<1>1. PICK n \in T : \A m \in T : n <= m
  <2>1. T \in SUBSET Nat
    OBVIOUS
  <2> HIDE DEF T
  <2> QED BY <2>1, LeastNumber
<1>2. \A s \in SUBSET S : IsFiniteSet(s) /\ Cardinality(s) \in Nat
  BY FS_Subset, FS_CardinalityType
<1>3. CASE n = 0
  <2> DEFINE f == [s \in Small(S, 0) |-> 0]
  <2>1. \A s \in Small(S, 0) : s = {}
    <3>1. ASSUME NEW s \in SUBSET S, Cardinality(s) <= 0 PROVE s = {}
      BY <1>2, <3>1, FS_EmptySet
    <3> QED BY <3>1 DEF Small
  <2>2. f \in [Small(S, 0) -> Nat] /\ SumsTo(g, f)
    BY <2>1 DEF SumsTo
  <2> HIDE DEF f
  <2> QED BY <1>1, <1>3, <2>2
<1>4. CASE n # 0
  <2>1. n \in Nat /\ n - 1 \in Nat /\ Has(n - 1)
    <3>1. n \in Nat /\ n - 1 \in Nat /\ ~(n <= n - 1)
      BY <1>1, <1>4
    <3>2. n - 1 \notin T
      <4> HIDE DEF T
      <4> QED BY <1>1, <3>1
    <3> HIDE DEF Has
    <3> QED BY <3>1, <3>2
  <2>2. PICK f \in [Small(S, n - 1) -> Nat] : SumsTo(g, f)
    BY <2>1
  <2> DEFINE first(s) == CHOOSE x \in s : TRUE
             h == [s \in Small(S, n) |->
                     IF s = {} THEN 0 ELSE g[first(s)] + f[s \ {first(s)}]]
  <2>3. ASSUME NEW s \in Small(S, n), s # {}
        PROVE  first(s) \in s /\ first(s) \in S /\ s \ {first(s)} \in Small(S, n - 1)
    <3>1. first(s) \in s /\ s \in SUBSET S /\ Cardinality(s) <= n
      BY <2>3 DEF Small
    <3> HIDE DEF first
    <3>2. Cardinality(s \ {first(s)}) = Cardinality(s) - 1
      BY <1>2, <3>1, FS_RemoveElement
    <3>3. Cardinality(s) - 1 <= n - 1
      BY <1>2, <2>1, <3>1
    <3> QED BY <3>1, <3>2, <3>3 DEF Small
  <2>4. Small(S, n - 1) \subseteq Small(S, n)
    BY <1>2, <2>1 DEF Small
  <2>5. h \in [Small(S, n) -> Nat]
    <3>1. ASSUME NEW s \in Small(S, n), s # {}
          PROVE  g[first(s)] + f[s \ {first(s)}] \in Nat
      <4>1. g[first(s)] \in Nat /\ f[s \ {first(s)}] \in Nat
        <5> HIDE DEF first
        <5> QED BY <2>2, <2>3, <3>1
      <4> QED BY <4>1
    <3> HIDE DEF first
    <3> QED BY <3>1
  <2>6. \A s \in Small(S, n - 1) : h[s] = f[s]
    BY <2>2, <2>4 DEF SumsTo
  <2>7. SumsTo(g, h)
    <3>1. ASSUME NEW s \in Small(S, n), s # {}
          PROVE  h[s] = g[first(s)] + h[s \ {first(s)}]
      <4>1. h[s] = g[first(s)] + f[s \ {first(s)}]
        BY <3>1
      <4>2. f[s \ {first(s)}] = h[s \ {first(s)}]
        <5> HIDE DEF first, h
        <5> QED BY <2>3, <2>6, <3>1
      <4> QED BY <4>1, <4>2
    <3>2. DOMAIN h = Small(S, n) /\ \A s \in Small(S, n) : s = {} => h[s] = 0
      OBVIOUS
    <3> HIDE DEF h
    <3> QED BY <3>1, <3>2 DEF SumsTo
  <2> HIDE DEF h
  <2> QED BY <1>1, <2>5, <2>7
<1> QED BY <1>3, <1>4

\* A total over finitely many lines is a number.
LEMMA TotalIsNat ==
  ASSUME NEW lines, NEW field, IsFiniteSet(DOMAIN lines),
         \A k \in DOMAIN lines : lines[k][field] \in Nat
  PROVE  Total(lines, field) \in Nat
<1> DEFINE S == DOMAIN lines
           g == [k \in S |-> lines[k][field]]
           iter[s \in SUBSET S] ==
             IF s = {} THEN 0
             ELSE LET x == CHOOSE x \in s : TRUE IN lines[x][field] + iter[s \ {x}]
           e(f, s) == IF s = {} THEN 0
                      ELSE LET x == CHOOSE x \in s : TRUE IN lines[x][field] + f[s \ {x}]
<1>1. Total(lines, field) = iter[S]
  BY DEF Total, MapThenSumSet, MapThenFoldSet
<1>2. \A s \in SUBSET S : IsFiniteSet(s) /\ Cardinality(s) \in Nat /\ Cardinality(s) <= Cardinality(S)
  BY FS_Subset, FS_CardinalityType
<1>3. Small(S, Cardinality(S)) = SUBSET S
  BY <1>2 DEF Small
<1>4. g \in [S -> Nat]
  OBVIOUS
<1>5. PICK f \in [SUBSET S -> Nat] : SumsTo(g, f)
  <2>1. Cardinality(S) \in Nat
    BY FS_CardinalityType
  <2>2. \E f \in [Small(S, Cardinality(S)) -> Nat] : SumsTo(g, f)
    <3> HIDE DEF S, g
    <3> QED BY <1>4, <2>1, SumExists DEF S
  <2> QED BY <1>3, <2>2
<1>6. \A s \in SUBSET S : f[s] = e(f, s)
  <2>1. ASSUME NEW s \in SUBSET S PROVE f[s] = e(f, s)
    <3>1. CASE s = {}
      BY <1>5, <3>1 DEF SumsTo
    <3>2. CASE s # {}
      <4> DEFINE x == CHOOSE x \in s : TRUE
      <4>1. x \in s /\ x \in S
        BY <3>2
      <4>2. f[s] = g[x] + f[s \ {x}]
        BY <1>5, <3>2 DEF SumsTo
      <4>3. g[x] = lines[x][field]
        <5> HIDE DEF x
        <5> QED BY <4>1
      <4> HIDE DEF g
      <4> QED BY <3>2, <4>2, <4>3
    <3> QED BY <3>1, <3>2
  <2> QED BY <2>1
<1>7. f = [s \in SUBSET S |-> e(f, s)]
  <2> HIDE DEF e
  <2> QED BY <1>5, <1>6
<1>8. iter = [s \in SUBSET S |-> e(iter, s)]
  <2>1. f = [s \in SUBSET S |-> IF s = {} THEN 0
                                ELSE LET x == CHOOSE x \in s : TRUE
                                     IN lines[x][field] + f[s \ {x}]]
    BY <1>7
  <2> QED BY <2>1 DEF iter
<1> HIDE DEF iter
<1>9. \A s \in SUBSET S : iter[s] = e(iter, s)
  <2> HIDE DEF e
  <2> QED BY <1>8
<1> DEFINE T == {n \in Nat : \E s \in SUBSET S : Cardinality(s) = n /\ iter[s] \notin Nat}
<1>10. ASSUME NEW n \in T, \A m \in T : n <= m PROVE FALSE
  <2>1. PICK s \in SUBSET S : Cardinality(s) = n /\ iter[s] \notin Nat
    OBVIOUS
  <2>2. CASE s = {}
    <3>1. iter[s] = 0
      BY <1>9, <2>2
    <3> QED BY <2>1, <3>1
  <2>3. CASE s # {}
    <3> DEFINE x == CHOOSE x \in s : TRUE
    <3>1. x \in s
      BY <2>3
    <3>2. iter[s] = lines[x][field] + iter[s \ {x}]
      BY <1>9, <2>3
    <3> HIDE DEF x
    <3>7. IsFiniteSet(s)
      BY <1>2
    <3>3. Cardinality(s \ {x}) = n - 1 /\ n - 1 \in Nat /\ ~(n <= n - 1)
      <4>1. Cardinality(s \ {x}) = n - 1 /\ n \in Nat /\ n - 1 \in Nat
        BY <2>1, <3>1, <3>7, OneLess
      <4> QED BY <4>1
    <3>4. n - 1 \notin T
      <4> HIDE DEF T
      <4> QED BY <1>10, <3>3
    <3>5. iter[s \ {x}] \in Nat
      BY <3>3, <3>4
    <3>6. lines[x][field] \in Nat
      BY <3>1
    <3> QED BY <2>1, <3>2, <3>5, <3>6
  <2> QED BY <2>2, <2>3
<1>11. T = {}
  <2>1. T \in SUBSET Nat
    OBVIOUS
  <2> HIDE DEF T
  <2> QED BY <1>10, <2>1, LeastNumber
<1>12. iter[S] \in Nat
  BY <1>2, <1>11
<1> QED BY <1>1, <1>12

-----------------------------------------------------------------------------
(* What is computed from rows is typed.                                    *)

KindRows(kind) ==
  CASE kind = "batting"  -> BattingRows
    [] kind = "bowling"  -> BowlingRows
    [] kind = "fielding" -> FieldingRows

TableRows(name) == IF name = "batting" THEN BattingStats ELSE BowlingStats

FewLines(lines, S) == IsFiniteSet(DOMAIN lines) /\ \A k \in DOMAIN lines : lines[k] \in S

LEMMA CountIsNat ==
  ASSUME NEW S, IsFiniteSet(S), NEW A \in SUBSET S
  PROVE  Cardinality(A) \in Nat
<1>1. IsFiniteSet(A)
  BY FS_Subset
<1> QED BY <1>1, FS_CardinalityType

LEMMA BattingTyped ==
  ASSUME NEW lines, FewLines(lines, BattingRows)
  PROVE  BattingTotals(lines) \in BattingStats
<1> DEFINE D == DOMAIN lines
           tops == {0} \cup {lines[k].runs : k \in D}
<1>1. /\ IsFiniteSet(D)
      /\ \A k \in D : /\ lines[k].runs \in Nat /\ lines[k].balls \in Nat
                      /\ lines[k].fours \in Nat /\ lines[k].sixes \in Nat
  BY DEF FewLines, BattingRows
<1>2. /\ Total(lines, "runs") \in Nat /\ Total(lines, "balls") \in Nat
      /\ Total(lines, "fours") \in Nat /\ Total(lines, "sixes") \in Nat
  BY <1>1, TotalIsNat
<1>3. Max(tops) \in Nat
  <2>1. tops \in SUBSET Nat /\ tops # {}
    BY <1>1
  <2>2. IsFiniteSet({lines[k].runs : k \in D})
    <3> DEFINE f == [k \in D |-> lines[k].runs]
               R == {lines[k].runs : k \in D}
    <3>1. f \in Surjection(D, R)
      BY DEF Surjection
    <3> HIDE DEF f, R
    <3> QED BY <1>1, <3>1, FS_Surjection DEF R
  <2>3. IsFiniteSet(tops)
    BY <2>2, FS_Singleton, FS_Union
  <2> HIDE DEF tops
  <2>4. tops \in SUBSET Int
    BY <2>1
  <2> QED BY <2>1, <2>3, <2>4, FiniteMax
<1>4. /\ Cardinality(D) \in Nat
      /\ Cardinality({k \in D : lines[k].dismissal = "not out"}) \in Nat
      /\ Cardinality({k \in D : lines[k].runs >= 100}) \in Nat
      /\ Cardinality({k \in D : lines[k].runs \in 50 .. 99}) \in Nat
      /\ Cardinality({k \in D : lines[k].runs = 0}) \in Nat
  <2> HIDE DEF D
  <2>1. \A A \in SUBSET D : Cardinality(A) \in Nat
    BY <1>1, CountIsNat
  <2> QED BY <2>1
<1> QED BY <1>2, <1>3, <1>4 DEF BattingTotals, BattingStats, Count

LEMMA BestTyped ==
  ASSUME NEW lines, FewLines(lines, BowlingRows)
  PROVE  BestBowled(lines) \in {None} \cup (Nat \X Nat)
<1>1. CASE DOMAIN lines = {}
  BY <1>1 DEF BestBowled
<1>2. CASE DOMAIN lines # {}
  <2> DEFINE D == DOMAIN lines
             taken == {lines[k].wickets : k \in D}
             most == Max(taken)
             runs == {lines[k].runs : k \in {k \in D : lines[k].wickets = most}}
  <2>1. IsFiniteSet(D) /\ \A k \in D : lines[k].wickets \in Nat /\ lines[k].runs \in Nat
    BY DEF FewLines, BowlingRows
  <2>2. IsFiniteSet(taken)
    <3> DEFINE f == [k \in D |-> lines[k].wickets]
    <3>1. f \in Surjection(D, taken)
      BY DEF Surjection
    <3> HIDE DEF f, taken
    <3> QED BY <2>1, <3>1, FS_Surjection
  <2>3. taken \in SUBSET Nat /\ taken # {}
    BY <1>2, <2>1
  <2>4. most \in taken /\ most \in Nat
    <3> HIDE DEF taken
    <3>1. taken \in SUBSET Int
      BY <2>3
    <3> QED BY <2>2, <2>3, <3>1, FiniteMax
  <2>5. BestBowled(lines) = <<most, Min(runs)>>
    BY <1>2 DEF BestBowled
  <2> HIDE DEF most
  <2>6. runs \in SUBSET Nat /\ runs # {}
    BY <2>1, <2>4
  <2> HIDE DEF runs
  <2>7. Min(runs) \in Nat
    BY <2>6, LeastOf
  <2> QED BY <2>4, <2>5, <2>7
<1> QED BY <1>1, <1>2

LEMMA BowlingTyped ==
  ASSUME NEW lines, FewLines(lines, BowlingRows), NEW caught, FewLines(caught, FieldingRows)
  PROVE  BowlingTotals(lines, caught) \in BowlingStats
<1> DEFINE D == DOMAIN lines
<1>1. /\ IsFiniteSet(D)
      /\ \A k \in D : /\ lines[k].tenths \in Nat /\ lines[k].runs \in Nat
                      /\ lines[k].wickets \in Nat /\ lines[k].maidens \in Nat
                      /\ lines[k].wides \in Nat
  BY DEF FewLines, BowlingRows
<1>2. IsFiniteSet(DOMAIN caught) /\ \A k \in DOMAIN caught : caught[k].catches \in Nat
  BY DEF FewLines, FieldingRows
<1>3. /\ Total(lines, "tenths") \in Nat /\ Total(lines, "runs") \in Nat
      /\ Total(lines, "wickets") \in Nat /\ Total(lines, "maidens") \in Nat
      /\ Total(lines, "wides") \in Nat
  BY <1>1, TotalIsNat
<1>4. Total(caught, "catches") \in Nat
  BY <1>2, TotalIsNat
<1>5. /\ Cardinality(D) \in Nat
      /\ Cardinality({k \in D : lines[k].wickets = 4}) \in Nat
      /\ Cardinality({k \in D : lines[k].wickets >= 5}) \in Nat
  <2> HIDE DEF D
  <2>1. \A A \in SUBSET D : Cardinality(A) \in Nat
    BY <1>1, CountIsNat
  <2> QED BY <2>1
<1> QED BY <1>3, <1>4, <1>5, BestTyped DEF BowlingTotals, BowlingStats, Count

\* Rows of players and matches there are, of their kind.
RowsFit(table, squad, played) ==
  /\ IsFiniteSet(DOMAIN table)
  /\ \A k \in DOMAIN table : k \in Kinds \X squad \X played /\ table[k] \in KindRows(k[1])

LEMMA RecalculatedTyped ==
  ASSUME NEW table, NEW squad, NEW played, RowsFit(table, squad, played), NEW key
  PROVE  Recalculated(table, key) \in TableRows(key[1])
<1>1. ASSUME NEW kind \in Kinds
      PROVE  FewLines(LinesOf(table, kind, key[2], key[3]), KindRows(kind))
  <2> DEFINE K == {k \in DOMAIN table : /\ k[1] = kind /\ k[2] = key[2]
                                        /\ matches[k[3]].format = key[3]}
             lines == [k \in K |-> table[k]]
  <2>1. LinesOf(table, kind, key[2], key[3]) = lines
    BY DEF LinesOf
  <2>2. IsFiniteSet(K)
    BY FS_Subset DEF RowsFit
  <2>3. \A k \in K : table[k] \in KindRows(kind)
    BY DEF RowsFit
  <2>4. DOMAIN lines = K /\ \A k \in K : lines[k] = table[k]
    OBVIOUS
  <2> HIDE DEF K, lines
  <2> QED BY <2>1, <2>2, <2>3, <2>4 DEF FewLines
<1>2. /\ KindRows("batting") = BattingRows /\ KindRows("bowling") = BowlingRows
      /\ KindRows("fielding") = FieldingRows
  BY DEF KindRows
<1>3. /\ FewLines(LinesOf(table, "batting", key[2], key[3]), BattingRows)
      /\ FewLines(LinesOf(table, "bowling", key[2], key[3]), BowlingRows)
      /\ FewLines(LinesOf(table, "fielding", key[2], key[3]), FieldingRows)
  BY <1>1, <1>2 DEF Kinds
<1>4. CASE key[1] = "batting"
  BY <1>3, <1>4, BattingTyped DEF Recalculated, TableRows
<1>5. CASE key[1] # "batting"
  BY <1>3, <1>5, BowlingTyped DEF Recalculated, TableRows
<1> QED BY <1>4, <1>5

LEMMA LastDismissalTyped ==
  ASSUME NEW innings \in Seq(PlayedInnings)
  PROVE  LegacyDismissal(LastDismissal(innings)) \in Dismissals
<1> DEFINE outs == {i \in DOMAIN innings : innings[i].how # None}
<1>1. Len(innings) \in Nat /\ DOMAIN innings = 1 .. Len(innings)
  BY LenProperties
<1>2. \A i \in DOMAIN innings : innings[i] \in PlayedInnings
  BY ElementOfSeq
<1>3. LastDismissal(innings) \in DismissalKinds \cup {None}
  <2>1. CASE outs = {}
    BY <2>1 DEF LastDismissal
  <2>2. CASE outs # {}
    <3>1. IsFiniteSet(outs) /\ outs \in SUBSET Nat
      <4>1. IsFiniteSet(DOMAIN innings)
        BY <1>1, FS_Interval
      <4> QED BY <1>1, <4>1, FS_Subset
    <3>2. Max(outs) \in outs
      <4> HIDE DEF outs
      <4> QED BY <2>2, <3>1, FiniteMax
    <3>3. LastDismissal(innings) = innings[Max(outs)].how
      BY <2>2 DEF LastDismissal
    <3>4. \A i \in outs : innings[i].how \in DismissalKinds \cup {None}
      BY <1>2 DEF PlayedInnings
    <3> HIDE DEF outs
    <3> QED BY <3>2, <3>3, <3>4
  <2> QED BY <2>1, <2>2
<1> QED BY <1>3 DEF LegacyDismissal, Dismissals, DismissalKinds

LEMMA DerivedTyped ==
  ASSUME NEW player \in Players, NEW innings \in Seq(PlayedInnings), NEW kind \in Kinds
  PROVE  /\ DerivedItem(player, innings)[kind] \in KindRows(kind)
         /\ DerivedItem(player, innings).player = player
<1>1. IsFiniteSet(DOMAIN innings)
  <2>1. Len(innings) \in Nat /\ DOMAIN innings = 1 .. Len(innings)
    BY LenProperties
  <2> QED BY <2>1, FS_Interval
<1>2. \A i \in DOMAIN innings : innings[i] \in PlayedInnings
  BY ElementOfSeq
<1>3. \A i \in DOMAIN innings :
        /\ innings[i].runs \in Nat /\ innings[i].balls \in Nat /\ innings[i].fours \in Nat
        /\ innings[i].sixes \in Nat /\ innings[i].legal \in Nat /\ innings[i].maidens \in Nat
        /\ innings[i].conceded \in Nat /\ innings[i].wickets \in Nat /\ innings[i].wides \in Nat
        /\ innings[i].catches \in Nat /\ innings[i].stumpings \in Nat
        /\ innings[i].runOuts \in Nat
  BY <1>2 DEF PlayedInnings
<1>4. /\ Total(innings, "runs") \in Nat /\ Total(innings, "balls") \in Nat
      /\ Total(innings, "fours") \in Nat /\ Total(innings, "sixes") \in Nat
      /\ Total(innings, "legal") \in Nat /\ Total(innings, "maidens") \in Nat
  BY <1>1, <1>3, TotalIsNat
<1>5. /\ Total(innings, "conceded") \in Nat /\ Total(innings, "wickets") \in Nat
      /\ Total(innings, "wides") \in Nat /\ Total(innings, "catches") \in Nat
      /\ Total(innings, "stumpings") \in Nat /\ Total(innings, "runOuts") \in Nat
  BY <1>1, <1>3, TotalIsNat
<1>6. 10 * (Total(innings, "legal") \div Over) + (Total(innings, "legal") % Over) \in Nat
  <2>1. ASSUME NEW n \in Nat, NEW d \in Nat \ {0} PROVE 10 * (n \div d) + (n % d) \in Nat
    <3>1. n \div d \in Nat /\ n % d \in Nat
      OBVIOUS
    <3> QED BY <3>1
  <2> QED BY <1>4, <2>1, PerformanceAssumption
<1>7. CASE kind = "batting"
  BY <1>4, <1>7, LastDismissalTyped DEF DerivedItem, KindRows, BattingRows
<1>8. CASE kind = "bowling"
  BY <1>4, <1>5, <1>6, <1>8 DEF DerivedItem, KindRows, BowlingRows
<1>9. CASE kind = "fielding"
  BY <1>5, <1>9 DEF DerivedItem, KindRows, FieldingRows
<1>10. DerivedItem(player, innings).player = player
  BY DEF DerivedItem
<1> QED BY <1>7, <1>8, <1>9, <1>10 DEF Kinds

-----------------------------------------------------------------------------
(* Every row, and all that a request has read, is typed.                   *)

Squad == {p \in Players : players[p] # None}
Staff == {k \in Coaches : coaches[k] # None}

\* A match has two sides of the academy, or one.
PairingFits(between) ==
  IF between.external THEN (between.home = None) # (between.away = None)
  ELSE None \notin {between.home, between.away} /\ between.home # between.away

RosterFits(members, squad) ==
  members \in [DOMAIN members -> Int] /\ DOMAIN members \subseteq squad

TotalsFit(totals, squad) ==
  DOMAIN totals \subseteq KeysFor(squad) /\ \A key \in DOMAIN totals : totals[key] \in TableRows(key[1])

RequestFits(q, squad, staff, played) ==
  /\ q.op = "repair" =>
       /\ q.do.do = "unassign" => q.do.coach \in staff
       /\ q.do.do = "normalize" /\ q.pc = "commit" => IsFiniteSet(DOMAIN q.read)
  /\ q.op \in {"create", "update"} => q.list \in Seq(Players) /\ ToSet(q.list) \subseteq squad
  /\ q.op = "add" => q.player \in squad /\ q.last \in Int
  /\ q.op = "player" => q.player \in Players /\ q.name \in Names
  /\ q.op = "assign" => q.coach \in staff /\ q.teams \in SUBSET Teams
  /\ q.op = "batch" /\ q.pc = "insert" =>
       q.match \in played /\ \A i \in DOMAIN q.items : q.items[i].player \in squad
  /\ q.op = "batch" /\ q.pc = "recalculate" =>
       /\ RowsFit(q.own, squad, played) /\ TotalsFit(q.wrote, squad)
       /\ q.todo \in Seq(KeysFor(squad))

PeopleFit ==
  /\ players \in [Players -> PlayerRows \cup {None}]
  /\ coaches \in [Coaches -> CoachRows \cup {None}]
  /\ assigned \in [Coaches -> SUBSET Teams]
  /\ \A t \in Teams : RosterFits(roster[t], Squad)

RecordsFit ==
  /\ \A m \in MatchesIn : PairingFits(matches[m].between)
  /\ RowsFit(rows, Squad, MatchesIn)
  /\ TotalsFit(stats, Squad)

Typed ==
  /\ PeopleFit /\ RecordsFit
  /\ \A r \in Requests : requests[r] # Idle => RequestFits(requests[r], Squad, Staff, MatchesIn)

LEMMA InContext ==
  /\ PlayersIn(Context) = Squad /\ CoachesIn(Context) = Staff
  /\ TeamsIn(Context) = {t \in Teams : teams[t] # None}
BY DEF PlayersIn, CoachesIn, TeamsIn, Context, Squad, Staff

LEMMA TypedInit == Init => Typed
<1> SUFFICES ASSUME Init PROVE Typed
  OBVIOUS
<1>1. /\ players = FirstPlayers /\ coaches = FirstCoaches /\ assigned = FirstAssigned
      /\ roster = FirstRosters /\ requests = [r \in Requests |-> Idle]
      /\ matches = [m \in Matches |-> None] /\ rows = <<>> /\ stats = <<>>
  BY DEF Init, SquadInit, PerformanceInit
<1>2. PeopleFit
  <2>1. ASSUME NEW t \in Teams PROVE RosterFits(roster[t], Squad)
    BY <1>1, RosterAssumption DEF RosterFits, Squad
  <2> QED BY <1>1, <2>1, RosterAssumption DEF PeopleFit
<1>3. RecordsFit
  <2>1. DOMAIN rows = {} /\ DOMAIN stats = {} /\ MatchesIn = {}
    BY <1>1 DEF MatchesIn
  <2>2. IsFiniteSet(DOMAIN rows)
    BY <2>1, FS_EmptySet
  <2> QED BY <2>1, <2>2 DEF RecordsFit, RowsFit, TotalsFit
<1> QED BY <1>1, <1>2, <1>3 DEF Typed

\* What was read stays typed as players, coaches and matches are added.
LEMMA RowsFitStill ==
  ASSUME NEW table, NEW A, NEW B, NEW C, NEW D, RowsFit(table, A, B), A \subseteq C, B \subseteq D
  PROVE  RowsFit(table, C, D)
BY DEF RowsFit

LEMMA TotalsFitStill ==
  ASSUME NEW totals, NEW A, NEW C, TotalsFit(totals, A), A \subseteq C
  PROVE  TotalsFit(totals, C)
BY DEF TotalsFit, KeysFor

LEMMA KeysStill ==
  ASSUME NEW A, NEW C, A \subseteq C, NEW todo \in Seq(KeysFor(A))
  PROVE  todo \in Seq(KeysFor(C))
<1>1. KeysFor(A) \subseteq KeysFor(C)
  BY DEF KeysFor
<1>2. Len(todo) \in Nat /\ todo \in [1 .. Len(todo) -> KeysFor(A)]
  BY LenProperties
<1>3. todo \in [1 .. Len(todo) -> KeysFor(C)]
  BY <1>1, <1>2
<1> QED BY <1>2, <1>3, IsASeq

LEMMA RequestFitsStill ==
  ASSUME NEW q, NEW A, NEW K, NEW B, NEW C, NEW L, NEW D, RequestFits(q, A, K, B),
         A \subseteq C, K \subseteq L, B \subseteq D
  PROVE  RequestFits(q, C, L, D)
<1>1. ASSUME q.op = "batch", q.pc = "recalculate"
      PROVE  /\ RowsFit(q.own, C, D) /\ TotalsFit(q.wrote, C)
             /\ q.todo \in Seq(KeysFor(C))
  <2>1. RowsFit(q.own, A, B) /\ TotalsFit(q.wrote, A) /\ q.todo \in Seq(KeysFor(A))
    BY <1>1 DEF RequestFits
  <2>2. RowsFit(q.own, C, D)
    BY <2>1, RowsFitStill
  <2>3. TotalsFit(q.wrote, C)
    BY <2>1, TotalsFitStill
  <2>4. q.todo \in Seq(KeysFor(C))
    BY <2>1, KeysStill
  <2> QED BY <2>2, <2>3, <2>4
<1> QED BY <1>1 DEF RequestFits

\* What request r has become is typed, for what there is after the step.
RequestKept(r) ==
  \/ requests'[r] = requests[r] \/ requests'[r] = Idle
  \/ RequestFits(requests'[r], Squad', Staff', MatchesIn')

Remains == Squad \subseteq Squad' /\ Staff \subseteq Staff' /\ MatchesIn \subseteq MatchesIn'

LEMMA TypedKept ==
  ASSUME Typed, NEW r \in Requests, OthersStay(r), RequestKept(r), Remains, PeopleFit', RecordsFit'
  PROVE  Typed'
<1>1. ASSUME NEW x \in Requests, requests'[x] # Idle
      PROVE  RequestFits(requests'[x], Squad', Staff', MatchesIn')
  <2>1. CASE requests'[x] = requests[x]
    <3>1. RequestFits(requests[x], Squad, Staff, MatchesIn)
      BY <1>1, <2>1 DEF Typed
    <3> QED BY <2>1, <3>1, RequestFitsStill DEF Remains
  <2>2. CASE requests'[x] # requests[x]
    <3>1. x = r
      BY <2>2 DEF OthersStay
    <3> QED BY <1>1, <2>2, <3>1 DEF RequestKept
  <2> QED BY <2>1, <2>2
<1> QED BY <1>1 DEF Typed, OthersStay

\* Steps of the squads leave the records, those of matches the people.
LEMMA RecordsAside ==
  ASSUME RecordsFit, UNCHANGED performanceVars, Squad \subseteq Squad'
  PROVE  RecordsFit' /\ MatchesIn' = MatchesIn
<1>1. matches' = matches /\ rows' = rows /\ stats' = stats
  BY DEF performanceVars
<1>2. MatchesIn' = MatchesIn
  BY <1>1 DEF MatchesIn
<1>3. RowsFit(rows, Squad', MatchesIn)
  BY RowsFitStill DEF RecordsFit
<1>4. TotalsFit(stats, Squad')
  BY TotalsFitStill DEF RecordsFit
<1> QED BY <1>1, <1>2, <1>3, <1>4 DEF RecordsFit

LEMMA PeopleAside ==
  ASSUME PeopleFit, UNCHANGED squads
  PROVE  PeopleFit' /\ Squad' = Squad /\ Staff' = Staff
<1>1. /\ players' = players /\ coaches' = coaches /\ assigned' = assigned /\ roster' = roster
      /\ teams' = teams
  BY DEF squads
<1>2. Squad' = Squad /\ Staff' = Staff
  BY <1>1 DEF Squad, Staff
<1> QED BY <1>1, <1>2 DEF PeopleFit

-----------------------------------------------------------------------------
(* Steps that read.                                                        *)

LEMMA OfferedCoach ==
  ASSUME NEW f \in Findings(Context), f.repair # None, f.repair.do = "unassign"
  PROVE  f.repair.coach \in Staff
<1>1. CASE f \in InactiveRosteredPlayers(Context)
  <2>1. PICK t, p :
          f = Finding("player_inactive_rostered", <<p, t>>, InactivePlayerAction(Context, t, p))
    BY <1>1 DEF InactiveRosteredPlayers
  <2>2. f.repair = [do |-> "remove", team |-> t, player |-> p, version |-> teams[t].version]
    BY <2>1 DEF Finding, InactivePlayerAction, Context
  <2> QED BY <2>2
<1>2. CASE f \in RosterOrderFindings(Context)
  <2>1. PICK t, fault : f = Finding(fault, <<t>>, RosterNormalizationAction(Context, t))
    BY <1>2 DEF RosterOrderFindings
  <2>2. f.repair = [do |-> "normalize", team |-> t, version |-> teams[t].version]
    BY <2>1 DEF Finding, RosterNormalizationAction, Context
  <2> QED BY <2>2
<1>3. CASE f \in InactiveAssistantAssignments(Context)
  <2>1. PICK k, t :
          /\ k \in InactiveAssistants(Context)
          /\ f = Finding("coach_inactive_assigned", <<k, t>>,
                         [do |-> "unassign", team |-> t, coach |-> k,
                          version |-> Context.coaches[k].version])
    BY <1>3 DEF InactiveAssistantAssignments
  <2>2. f.repair.coach = k
    BY <2>1 DEF Finding
  <2>3. k \in Staff
    BY <2>1, InContext DEF InactiveAssistants
  <2> QED BY <2>2, <2>3
<1> QED BY <1>1, <1>2, <1>3, MostOfferNone DEF Findings, OffersNone

LEMMA PlayersListed ==
  ASSUME NEW list \in Lists, ListValid(Context, list)
  PROVE  list \in Seq(Players) /\ ToSet(list) \subseteq Squad
<1>1. \A p \in ToSet(list) : ActivePlayer(Context, p)
  BY DEF ListValid, RosterValid
<1> QED BY <1>1, InContext, RosterAssumption DEF ActivePlayer

LEMMA SquadReadsTyped ==
  ASSUME Inv, Typed, NEW r \in Requests,
         \/ Remediate(r) \/ RepairRead(r) \/ RepairRefused(r) \/ CreateTeam(r) \/ UpdateTeam(r)
         \/ AddPlayer(r) \/ CreatePlayer(r) \/ UpdateAssignments(r)
  PROVE  /\ OthersStay(r) /\ UNCHANGED squads
         /\ \/ requests'[r] = Idle
            \/ \A played : RequestFits(requests'[r], Squad, Staff, played)
<1>1. UNCHANGED squads
  BY DEF Remediate, RepairRead, RepairRefused, CreateTeam, UpdateTeam, AddPlayer, CreatePlayer,
         UpdateAssignments, squads
<1>2. ASSUME NEW q, Proceed(r, q), \A played : RequestFits(q, Squad, Staff, played)
      PROVE  /\ OthersStay(r)
             /\ \/ requests'[r] = Idle
                \/ \A played : RequestFits(requests'[r], Squad, Staff, played)
  BY <1>2, Proceeds
<1>3. ASSUME End(r) PROVE OthersStay(r) /\ requests'[r] = Idle
  BY <1>3, Proceeds DEF End, Proceed
<1>4. CASE Remediate(r)
  <2>1. PICK f \in Findings(Context) :
          f.repair # None /\ Proceed(r, [op |-> "repair", pc |-> "read", do |-> f.repair])
    BY <1>4 DEF Remediate
  <2>2. f.repair.do = "unassign" => f.repair.coach \in Staff
    BY <2>1, OfferedCoach
  <2> DEFINE q == [op |-> "repair", pc |-> "read", do |-> f.repair]
  <2>3. \A played : RequestFits(q, Squad, Staff, played)
    BY <2>2 DEF RequestFits
  <2> HIDE DEF q
  <2> QED BY <1>1, <1>2, <2>1, <2>3 DEF q
<1>5. CASE RepairRead(r)
  <2> DEFINE x == requests[r].do
             q == [op |-> "repair", pc |-> "commit", do |-> x, read |-> roster[x.team]]
  <2>1. x.do = "unassign" => x.coach \in Staff
    BY <1>5 DEF RepairRead, At, Typed, RequestFits
  <2>2. x.do = "normalize" => IsFiniteSet(DOMAIN roster[x.team])
    BY <1>5 DEF RepairRead, At, Inv, Sound, Fenced, Rostered
  <2>3. \A played : RequestFits(q, Squad, Staff, played)
    BY <2>1, <2>2 DEF RequestFits
  <2>4. End(r) \/ Proceed(r, q)
    BY <1>5 DEF RepairRead
  <2> HIDE DEF q
  <2> QED BY <1>1, <1>2, <1>3, <2>3, <2>4
<1>6. CASE RepairRefused(r)
  BY <1>1, <1>3, <1>6 DEF RepairRefused
<1>7. CASE CreateTeam(r)
  <2>1. PICK t \in Teams, name \in Names, group \in AgeGroups, list \in Lists :
          /\ ListValid(Context, list)
          /\ Proceed(r, [op |-> "create", pc |-> "commit", team |-> t, name |-> name,
                         group |-> group, list |-> list])
    BY <1>7 DEF CreateTeam
  <2> DEFINE q == [op |-> "create", pc |-> "commit", team |-> t, name |-> name,
                   group |-> group, list |-> list]
  <2>2. \A played : RequestFits(q, Squad, Staff, played)
    BY <2>1, PlayersListed DEF RequestFits
  <2> HIDE DEF q
  <2> QED BY <1>1, <1>2, <2>1, <2>2 DEF q
<1>8. CASE UpdateTeam(r)
  <2>1. PICK t \in TeamsIn(Context), name \in Names, group \in AgeGroups, list \in Lists :
          /\ ListValid(Context, list)
          /\ Proceed(r, [op |-> "update", pc |-> "commit", team |-> t, name |-> name,
                         group |-> group, list |-> list])
    BY <1>8 DEF UpdateTeam
  <2> DEFINE q == [op |-> "update", pc |-> "commit", team |-> t, name |-> name,
                   group |-> group, list |-> list]
  <2>2. \A played : RequestFits(q, Squad, Staff, played)
    BY <2>1, PlayersListed DEF RequestFits
  <2> HIDE DEF q
  <2> QED BY <1>1, <1>2, <2>1, <2>2 DEF q
<1>9. CASE AddPlayer(r)
  <2> DEFINE last(t) == IF DOMAIN roster[t] = {} THEN 0
                        ELSE Max({roster[t][q] : q \in DOMAIN roster[t]})
             new(t, p) == [op |-> "add", pc |-> "commit", team |-> t, player |-> p,
                           last |-> last(t)]
  <2>1. PICK t \in TeamsIn(Context), p \in PlayersIn(Context) : Proceed(r, new(t, p))
    BY <1>9 DEF AddPlayer
  <2>2. t \in Teams /\ p \in Squad
    BY <2>1, InContext
  <2>3. last(t) \in Int
    <3> DEFINE R == {roster[t][q] : q \in DOMAIN roster[t]}
    <3>1. IsFiniteSet(DOMAIN roster[t]) /\ roster[t] \in [DOMAIN roster[t] -> Int]
      BY <2>2 DEF Inv, Rostered, Typed, PeopleFit, RosterFits
    <3>2. roster[t] \in Surjection(DOMAIN roster[t], R)
      BY <3>1 DEF Surjection
    <3>3. R \in SUBSET Int /\ (DOMAIN roster[t] # {} => R # {})
      BY <3>1
    <3> HIDE DEF R
    <3>4. IsFiniteSet(R)
      BY <3>1, <3>2, FS_Surjection
    <3>5. DOMAIN roster[t] # {} => Max(R) \in Int
      BY <3>3, <3>4, FiniteMax
    <3> QED BY <3>5 DEF R
  <2> HIDE DEF last
  <2>4. \A played : RequestFits(new(t, p), Squad, Staff, played)
    BY <2>2, <2>3 DEF RequestFits
  <2> HIDE DEF new
  <2> QED BY <1>1, <1>2, <2>1, <2>4
<1>10. CASE CreatePlayer(r)
  <2>1. PICK p \in Players, name \in Names :
          Proceed(r, [op |-> "player", pc |-> "commit", player |-> p, name |-> name])
    BY <1>10 DEF CreatePlayer
  <2> DEFINE q == [op |-> "player", pc |-> "commit", player |-> p, name |-> name]
  <2>2. \A played : RequestFits(q, Squad, Staff, played)
    BY DEF RequestFits
  <2> HIDE DEF q
  <2> QED BY <1>1, <1>2, <2>1, <2>2 DEF q
<1>11. CASE UpdateAssignments(r)
  <2>1. PICK k \in CoachesIn(Context), ts \in SUBSET TeamsIn(Context) :
          Proceed(r, [op |-> "assign", pc |-> "commit", coach |-> k, teams |-> ts,
                      version |-> coaches[k].version])
    BY <1>11 DEF UpdateAssignments
  <2> DEFINE q == [op |-> "assign", pc |-> "commit", coach |-> k, teams |-> ts,
                   version |-> coaches[k].version]
  <2>2. k \in Staff /\ ts \in SUBSET Teams
    BY <2>1, InContext
  <2>3. \A played : RequestFits(q, Squad, Staff, played)
    BY <2>2 DEF RequestFits
  <2> HIDE DEF q
  <2> QED BY <1>1, <1>2, <2>1, <2>3 DEF q
<1> QED BY <1>4, <1>5, <1>6, <1>7, <1>8, <1>9, <1>10, <1>11

-----------------------------------------------------------------------------
(* Steps that write to people and rosters.                                 *)

LEMMA RankIsNat ==
  ASSUME NEW members, IsFiniteSet(DOMAIN members), NEW p
  PROVE  Rank(members, p) \in Nat
BY CountIsNat DEF Rank

LEMMA RosterWritten ==
  ASSUME PeopleFit, NEW t \in Teams, NEW members, RosterFits(members, Squad'),
         Squad \subseteq Squad', roster' = [roster EXCEPT ![t] = members], DOMAIN roster = Teams
  PROVE  \A u \in Teams : RosterFits(roster'[u], Squad')
<1> SUFFICES ASSUME NEW u \in Teams PROVE RosterFits(roster'[u], Squad')
  OBVIOUS
<1>1. CASE u = t
  BY <1>1
<1>2. CASE u # t
  <2>1. roster'[u] = roster[u]
    BY <1>2
  <2> QED BY <2>1 DEF PeopleFit, RosterFits
<1> QED BY <1>1, <1>2

LEMMA ListedFits ==
  ASSUME NEW list \in Seq(Players), NEW squad, ToSet(list) \subseteq squad
  PROVE  RosterFits(Listed(list), squad)
<1>1. Len(list) \in Nat /\ DOMAIN list = 1 .. Len(list)
  BY LenProperties
<1>2. ASSUME NEW p \in ToSet(list) PROVE (CHOOSE n \in DOMAIN list : list[n] = p) \in Nat
  <2>1. \E n \in DOMAIN list : list[n] = p
    BY DEF ToSet
  <2>2. (CHOOSE n \in DOMAIN list : list[n] = p) \in DOMAIN list
    BY <2>1
  <2> QED BY <1>1, <2>2
<1>3. Listed(list) \in [ToSet(list) -> Int]
  BY <1>2 DEF Listed
<1> QED BY <1>3 DEF RosterFits

LEMMA CoachMoved ==
  ASSUME NEW y \in CoachRows, NEW role \in Roles, NEW active \in BOOLEAN
  PROVE  /\ [y EXCEPT !.active = active, !.version = y.version + 1] \in CoachRows
         /\ [y EXCEPT !.role = role, !.version = y.version + 1] \in CoachRows
         /\ [y EXCEPT !.version = y.version + 1] \in CoachRows
<1>1. y.version + 1 \in Nat \ {0}
  BY DEF CoachRows
<1> QED BY <1>1 DEF CoachRows

LEMMA CoachWritten ==
  ASSUME PeopleFit, NEW k \in Coaches, NEW z \in CoachRows, coaches' = [coaches EXCEPT ![k] = z]
  PROVE  coaches' \in [Coaches -> CoachRows \cup {None}] /\ Staff \subseteq Staff'
<1>1. z # None
  BY RosterAssumption
<1>2. \A x \in Coaches : coaches'[x] = IF x = k THEN z ELSE coaches[x]
  BY DEF PeopleFit
<1> QED BY <1>1, <1>2 DEF PeopleFit, Staff

\* A request that has written has ended, or was never more than one step.
Written(r) == OthersStay(r) /\ (requests'[r] = requests[r] \/ requests'[r] = Idle)

LEMMA Ends ==
  ASSUME Inv, NEW r \in Requests, End(r) \/ UNCHANGED requests
  PROVE  Written(r)
BY DEF Inv, End, Written, OthersStay

\* Only teams and rosters are written.
LEMMA RostersTyped ==
  ASSUME Inv, PeopleFit, UNCHANGED <<players, coaches, assigned>>, NEW t \in Teams, NEW members,
         RosterFits(members, Squad), roster' = [roster EXCEPT ![t] = members]
  PROVE  PeopleFit' /\ Squad' = Squad /\ Staff' = Staff
<1>1. Squad' = Squad /\ Staff' = Staff
  BY DEF Squad, Staff
<1>2. RosterFits(members, Squad')
  BY <1>1
<1>3. \A u \in Teams : RosterFits(roster'[u], Squad')
  BY <1>1, <1>2, RosterWritten DEF Inv, Rostered
<1> QED BY <1>1, <1>3 DEF PeopleFit

LEMMA RosterCommitsTyped ==
  ASSUME Inv, Typed, NEW r \in Requests,
         CreateTeamCommit(r) \/ UpdateTeamCommit(r) \/ AddPlayerCommit(r)
  PROVE  PeopleFit' /\ Squad' = Squad /\ Staff' = Staff /\ Written(r)
<1> DEFINE q == requests[r]
<1>1. Written(r) /\ UNCHANGED <<players, coaches, assigned>>
  BY Ends DEF CreateTeamCommit, UpdateTeamCommit, AddPlayerCommit
<1>2. PeopleFit /\ RequestFits(q, Squad, Staff, MatchesIn) /\ Sound(q)
  BY DEF CreateTeamCommit, UpdateTeamCommit, AddPlayerCommit, At, Typed, Inv
<1>3. CASE CreateTeamCommit(r) \/ UpdateTeamCommit(r)
  <2>1. q.op \in {"create", "update"} /\ roster' = [roster EXCEPT ![q.team] = Listed(q.list)]
    BY <1>3 DEF CreateTeamCommit, UpdateTeamCommit, At
  <2>2. q.team \in Teams /\ q.list \in Seq(Players) /\ ToSet(q.list) \subseteq Squad
    BY <1>2, <2>1 DEF RequestFits, Sound, Submitted
  <2>3. RosterFits(Listed(q.list), Squad)
    BY <2>2, ListedFits
  <2> QED BY <1>1, <1>2, <2>1, <2>2, <2>3, RostersTyped
<1>4. CASE AddPlayerCommit(r)
  <2> DEFINE members == Joined(roster[q.team], q.player, q.last + 1)
  <2>1. /\ q.op = "add"
        /\ roster' = roster \/ roster' = [roster EXCEPT ![q.team] = members]
    BY <1>4 DEF AddPlayerCommit, At
  <2>2. q.team \in Teams /\ q.player \in Squad /\ q.last + 1 \in Int
    <3>1. q.team \in Teams /\ q.player \in Squad /\ q.last \in Int
      BY <1>2, <2>1 DEF RequestFits, Sound
    <3> QED BY <3>1
  <2>3. RosterFits(roster[q.team], Squad)
    BY <1>2, <2>2 DEF PeopleFit
  <2>4. RosterFits(members, Squad)
    BY <2>2, <2>3 DEF RosterFits, Joined
  <2>5. CASE roster' = roster
    BY <1>1, <1>2, <2>5 DEF PeopleFit, Squad, Staff
  <2>6. CASE roster' = [roster EXCEPT ![q.team] = members]
    <3> HIDE DEF members
    <3> QED BY <1>1, <1>2, <2>2, <2>4, <2>6, RostersTyped
  <2> QED BY <2>1, <2>5, <2>6
<1> QED BY <1>3, <1>4

LEMMA RepairTyped ==
  ASSUME Inv, Typed, NEW r \in Requests, RepairCommit(r)
  PROVE  PeopleFit' /\ Squad' = Squad /\ Staff \subseteq Staff' /\ Written(r)
<1> DEFINE x == requests[r].do
           t == x.team
           k == x.coach
           old == roster[t]
           read == requests[r].read
<1>1. Written(r) /\ players' = players /\ Squad' = Squad
  BY Ends DEF RepairCommit, Squad
<1>2. /\ x.do \in {"normalize", "remove", "unassign"}
      /\ x.do # "unassign" => t \in Teams
      /\ x.do = "unassign" => k \in Staff
      /\ x.do = "normalize" => IsFiniteSet(DOMAIN read)
  BY DEF RepairCommit, At, Inv, Sound, Fenced, Typed, RequestFits
<1>3. /\ roster' = Repaired(Context, x, read).roster
      /\ coaches' = Repaired(Context, x, read).coaches
      /\ assigned' = Repaired(Context, x, read).assigned
  BY DEF RepairCommit
<1>4. PeopleFit
  BY DEF Typed
<1>5. CASE x.do = "unassign"
  <2> DEFINE z == [coaches[k] EXCEPT !.version = coaches[k].version + 1]
  <2>1. /\ roster' = roster
        /\ coaches' = [coaches EXCEPT ![k] = z]
        /\ assigned' = [assigned EXCEPT ![k] = assigned[k] \ {t}]
    BY <1>3, <1>5 DEF Repaired, Context
  <2>2. k \in Coaches /\ coaches[k] \in CoachRows
    BY <1>2, <1>4, <1>5 DEF Staff, PeopleFit
  <2>3. \A y \in CoachRows : [y EXCEPT !.version = y.version + 1] \in CoachRows
    <3> TAKE y \in CoachRows
    <3>1. y.version + 1 \in Nat \ {0}
      BY DEF CoachRows
    <3> QED BY <3>1 DEF CoachRows
  <2>4. z \in CoachRows
    BY <2>2, <2>3
  <2> HIDE DEF z, k, t
  <2>5. coaches' \in [Coaches -> CoachRows \cup {None}] /\ Staff \subseteq Staff'
    BY <1>4, <2>1, <2>2, <2>4, CoachWritten
  <2>6. assigned' \in [Coaches -> SUBSET Teams]
    BY <1>4, <2>1, <2>2 DEF PeopleFit
  <2> QED BY <1>1, <1>4, <2>1, <2>5, <2>6 DEF PeopleFit
<1>6. ASSUME NEW members, RosterFits(members, Squad), x.do # "unassign",
             roster' = [roster EXCEPT ![t] = members], coaches' = coaches, assigned' = assigned
      PROVE  PeopleFit' /\ Staff \subseteq Staff'
  <2>1. t \in Teams
    BY <1>2, <1>6
  <2> HIDE DEF t
  <2> QED BY <1>1, <1>4, <1>6, <2>1, RostersTyped
<1>7. CASE x.do = "normalize"
  <2>1. /\ roster' = [roster EXCEPT ![t] = Renumbered(old, read)]
        /\ coaches' = coaches /\ assigned' = assigned
    BY <1>3, <1>7 DEF Repaired, Context
  <2>2. RosterFits(old, Squad)
    BY <1>2, <1>4, <1>7 DEF PeopleFit
  <2>3. \A p : Rank(read, p) \in Nat
    BY <1>2, <1>7, RankIsNat
  <2> HIDE DEF old, read
  <2>4. RosterFits(Renumbered(old, read), Squad)
    BY <2>2, <2>3 DEF RosterFits, Renumbered
  <2> QED BY <1>1, <1>6, <1>7, <2>1, <2>4
<1>8. CASE x.do = "remove"
  <2> DEFINE members == [p \in DOMAIN old \ {x.player} |-> old[p]]
  <2>1. /\ roster' = [roster EXCEPT ![t] = members]
        /\ coaches' = coaches /\ assigned' = assigned
    BY <1>3, <1>8 DEF Repaired, Context
  <2>2. RosterFits(old, Squad)
    BY <1>2, <1>4, <1>8 DEF PeopleFit
  <2>3. RosterFits(members, Squad)
    BY <2>2 DEF RosterFits
  <2> HIDE DEF members
  <2> QED BY <1>1, <1>6, <1>8, <2>1, <2>3
<1> QED BY <1>2, <1>5, <1>7, <1>8

LEMMA PlayersTyped ==
  ASSUME Inv, Typed, NEW r \in Requests, CreatePlayerCommit(r) \/ UpdatePlayer(r)
  PROVE  PeopleFit' /\ Squad \subseteq Squad' /\ Staff' = Staff /\ Written(r)
<1>1. Written(r) /\ UNCHANGED <<teams, roster, coaches, assigned>> /\ Staff' = Staff
  BY Ends DEF CreatePlayerCommit, UpdatePlayer, Staff
<1>2. PeopleFit
  BY DEF Typed
<1>3. \E p \in Players, z \in PlayerRows : players' = [players EXCEPT ![p] = z]
  <2>1. CASE CreatePlayerCommit(r)
    <3> DEFINE z == [name |-> requests[r].name, active |-> TRUE]
    <3>1. requests[r].player \in Players /\ z \in PlayerRows
      BY <2>1 DEF CreatePlayerCommit, At, Typed, RequestFits, PlayerRows
    <3>2. players' = [players EXCEPT ![requests[r].player] = z]
      BY <2>1 DEF CreatePlayerCommit
    <3> HIDE DEF z
    <3> QED BY <3>1, <3>2
  <2>2. CASE UpdatePlayer(r)
    <3>1. PICK p \in PlayersIn(Context), name \in Names, active \in BOOLEAN :
            players' = [players EXCEPT ![p] = [name |-> name, active |-> active]]
      BY <2>2 DEF UpdatePlayer
    <3> DEFINE z == [name |-> name, active |-> active]
    <3>2. p \in Players /\ z \in PlayerRows
      BY <3>1, InContext DEF Squad, PlayerRows
    <3> HIDE DEF z
    <3> QED BY <3>1, <3>2 DEF z
  <2> QED BY <2>1, <2>2
<1>4. PICK p \in Players, z \in PlayerRows : players' = [players EXCEPT ![p] = z]
  BY <1>3
<1>5. players' \in [Players -> PlayerRows \cup {None}] /\ Squad \subseteq Squad'
  BY <1>2, <1>4, RosterAssumption DEF PeopleFit, Squad
<1>6. \A t \in Teams : RosterFits(roster'[t], Squad')
  BY <1>1, <1>2, <1>5 DEF PeopleFit, RosterFits
<1> QED BY <1>1, <1>2, <1>5, <1>6 DEF PeopleFit

LEMMA CoachesTyped ==
  ASSUME Inv, Typed, NEW r \in Requests,
         \/ CreateCoach(r) \/ ToggleCoachStatus(r) \/ ChangeRole(r) \/ UpdateAssignmentsCommit(r)
  PROVE  PeopleFit' /\ Squad' = Squad /\ Staff \subseteq Staff' /\ Written(r)
<1>1. Written(r) /\ UNCHANGED <<teams, roster, players>> /\ Squad' = Squad
  BY Ends DEF CreateCoach, ToggleCoachStatus, ChangeRole, UpdateAssignmentsCommit, Squad
<1>2. PeopleFit
  BY DEF Typed
<1>3. ASSUME NEW k \in Coaches, NEW z \in CoachRows, NEW ts \in SUBSET Teams,
             coaches' = [coaches EXCEPT ![k] = z],
             assigned' = assigned \/ assigned' = [assigned EXCEPT ![k] = ts]
      PROVE  PeopleFit' /\ Squad' = Squad /\ Staff \subseteq Staff' /\ Written(r)
  <2>1. coaches' \in [Coaches -> CoachRows \cup {None}] /\ Staff \subseteq Staff'
    BY <1>2, <1>3, CoachWritten
  <2>2. assigned' \in [Coaches -> SUBSET Teams]
    BY <1>2, <1>3 DEF PeopleFit
  <2> QED BY <1>1, <1>2, <2>1, <2>2 DEF PeopleFit
<1>4. CASE CreateCoach(r)
  <2>1. PICK k \in Coaches \ CoachesIn(Context), ts \in SUBSET TeamsIn(Context) :
          /\ coaches' = [coaches EXCEPT ![k] =
                           [role |-> "assistant coach", active |-> TRUE, version |-> 1]]
          /\ assigned' = [assigned EXCEPT ![k] = ts]
    BY <1>4 DEF CreateCoach
  <2>2. [role |-> "assistant coach", active |-> TRUE, version |-> 1] \in CoachRows
    BY DEF CoachRows, Roles
  <2>3. ts \in SUBSET Teams
    BY InContext
  <2> QED BY <1>3, <2>1, <2>2, <2>3
<1>5. CASE ToggleCoachStatus(r)
  <2>1. PICK k \in CoachesIn(Context), active \in BOOLEAN :
          coaches' = [coaches EXCEPT ![k].active = active, ![k].version = @ + 1]
    BY <1>5 DEF ToggleCoachStatus
  <2> DEFINE z == [coaches[k] EXCEPT !.active = active, !.version = coaches[k].version + 1]
  <2>2. k \in Coaches /\ coaches[k] \in CoachRows
    BY <1>2, InContext DEF Staff, PeopleFit
  <2>3. coaches' = [coaches EXCEPT ![k] = z]
    BY <1>2, <2>1, <2>2 DEF PeopleFit, CoachRows
  <2>4. z \in CoachRows
    <3>1. "player" \in Roles
      BY DEF Roles
    <3> QED BY <2>2, <3>1, CoachMoved
  <2>5. assigned' = assigned
    BY <1>5 DEF ToggleCoachStatus
  <2> HIDE DEF z
  <2> QED BY <1>3, <2>2, <2>3, <2>4, <2>5
<1>6. CASE ChangeRole(r)
  <2>1. PICK k \in CoachesIn(Context), role \in Roles :
          coaches' = [coaches EXCEPT ![k].role = role, ![k].version = @ + 1]
    BY <1>6 DEF ChangeRole
  <2> DEFINE z == [coaches[k] EXCEPT !.role = role, !.version = coaches[k].version + 1]
  <2>2. k \in Coaches /\ coaches[k] \in CoachRows
    BY <1>2, InContext DEF Staff, PeopleFit
  <2>3. coaches' = [coaches EXCEPT ![k] = z]
    BY <1>2, <2>1, <2>2 DEF PeopleFit, CoachRows
  <2>4. z \in CoachRows
    BY <2>2, CoachMoved
  <2>5. assigned' = assigned
    BY <1>6 DEF ChangeRole
  <2> HIDE DEF z
  <2> QED BY <1>3, <2>2, <2>3, <2>4, <2>5
<1>7. CASE UpdateAssignmentsCommit(r)
  <2> DEFINE q == requests[r]
             k == q.coach
  <2>1. k \in Staff /\ q.teams \in SUBSET Teams
    BY <1>7 DEF UpdateAssignmentsCommit, At, Typed, RequestFits
  <2>2. k \in Coaches /\ coaches[k] \in CoachRows
    BY <1>2, <2>1 DEF Staff, PeopleFit
  <2>3. CASE UNCHANGED <<assigned, coaches>>
    <3>1. coaches' = [coaches EXCEPT ![k] = coaches[k]]
      BY <1>2, <2>3 DEF PeopleFit
    <3> HIDE DEF q, k
    <3> QED BY <1>3, <2>1, <2>2, <2>3, <3>1
  <2>4. CASE /\ assigned' = [assigned EXCEPT ![k] = q.teams]
             /\ coaches' = [coaches EXCEPT ![k].version = @ + 1]
    <3> DEFINE z == [coaches[k] EXCEPT !.version = coaches[k].version + 1]
    <3>1. coaches' = [coaches EXCEPT ![k] = z]
      BY <1>2, <2>2, <2>4 DEF PeopleFit, CoachRows
    <3>2. z \in CoachRows
      <4>1. "player" \in Roles /\ TRUE \in BOOLEAN
        BY DEF Roles
      <4> QED BY <2>2, <4>1, CoachMoved
    <3> HIDE DEF z, k
    <3> QED BY <1>3, <2>1, <2>2, <2>4, <3>1, <3>2 DEF k
  <2> QED BY <1>7, <2>3, <2>4 DEF UpdateAssignmentsCommit
<1> QED BY <1>4, <1>5, <1>6, <1>7

LEMMA SquadTyped ==
  ASSUME Inv, Typed, NEW r \in Requests, SquadStep(r), UNCHANGED performanceVars
  PROVE  Typed'
<1>1. ASSUME PeopleFit', Squad \subseteq Squad', Staff \subseteq Staff', OthersStay(r),
             RequestKept(r)
      PROVE  Typed'
  <2>1. RecordsFit' /\ MatchesIn' = MatchesIn
    BY <1>1, RecordsAside DEF Typed
  <2> QED BY <1>1, <2>1, TypedKept DEF Remains
<1>2. ASSUME PeopleFit', Squad \subseteq Squad', Staff \subseteq Staff', Written(r)
      PROVE  Typed'
  BY <1>1, <1>2 DEF Written, RequestKept
<1>3. CASE \/ Remediate(r) \/ RepairRead(r) \/ RepairRefused(r) \/ CreateTeam(r) \/ UpdateTeam(r)
           \/ AddPlayer(r) \/ CreatePlayer(r) \/ UpdateAssignments(r)
  <2>1. /\ OthersStay(r) /\ UNCHANGED squads
        /\ \/ requests'[r] = Idle
           \/ \A played : RequestFits(requests'[r], Squad, Staff, played)
    BY <1>3, SquadReadsTyped
  <2>2. PeopleFit' /\ Squad' = Squad /\ Staff' = Staff
    BY <2>1, PeopleAside DEF Typed
  <2>3. RequestKept(r)
    BY <2>1, <2>2 DEF RequestKept
  <2> QED BY <1>1, <2>1, <2>2, <2>3
<1>4. CASE CreateTeamCommit(r) \/ UpdateTeamCommit(r) \/ AddPlayerCommit(r)
  BY <1>2, <1>4, RosterCommitsTyped
<1>5. CASE RepairCommit(r)
  BY <1>2, <1>5, RepairTyped
<1>6. CASE CreatePlayerCommit(r) \/ UpdatePlayer(r)
  BY <1>2, <1>6, PlayersTyped
<1>7. CASE CreateCoach(r) \/ ToggleCoachStatus(r) \/ ChangeRole(r) \/ UpdateAssignmentsCommit(r)
  BY <1>2, <1>7, CoachesTyped
<1> QED BY <1>3, <1>4, <1>5, <1>6, <1>7 DEF SquadStep

-----------------------------------------------------------------------------
(* Steps of matches and performances.                                      *)

\* What is submitted of a player, and what scoring derives of one.
ItemFits(item, squad) ==
  item.player \in squad /\ \A kind \in Kinds : item[kind] # None => item[kind] \in KindRows(kind)

LEMMA OwnTyped ==
  ASSUME NEW items, NEW n \in Nat, DOMAIN items = 1 .. n,
         NEW squad, NEW played, NEW m \in played,
         \A i \in DOMAIN items : ItemFits(items[i], squad),
         \A i, j \in DOMAIN items : items[i].player = items[j].player => i = j
  PROVE  RowsFit(RowsOf(m, items), squad, played)
<1> DEFINE given == {g \in Kinds \X DOMAIN items : items[g[2]][g[1]] # None}
           key(g) == <<g[1], items[g[2]].player, m>>
           keys == {key(g) : g \in given}
           row(k) == LET i == CHOOSE i \in DOMAIN items : items[i].player = k[2]
                     IN items[i][k[1]]
<1>1. RowsOf(m, items) = [k \in keys |-> row(k)]
  BY DEF RowsOf
<1>2. IsFiniteSet(keys)
  <2>1. IsFiniteSet(Kinds)
    <3>1. IsFiniteSet({"batting"}) /\ IsFiniteSet({"bowling"}) /\ IsFiniteSet({"fielding"})
      BY FS_Singleton
    <3>2. Kinds = {"batting"} \cup {"bowling"} \cup {"fielding"}
      BY DEF Kinds
    <3> QED BY <3>1, <3>2, FS_Union
  <2>2. IsFiniteSet(DOMAIN items)
    BY FS_Interval
  <2>3. IsFiniteSet(Kinds \X DOMAIN items)
    BY <2>1, <2>2, FS_Product
  <2>4. IsFiniteSet(given)
    BY <2>3, FS_Subset
  <2> DEFINE f == [g \in given |-> key(g)]
  <2>5. f \in Surjection(given, keys)
    BY DEF Surjection
  <2> HIDE DEF given, keys, f
  <2> QED BY <2>4, <2>5, FS_Surjection
<1>3. ASSUME NEW k \in keys PROVE k \in Kinds \X squad \X played /\ row(k) \in KindRows(k[1])
  <2>1. PICK kind \in Kinds, i \in DOMAIN items :
          k = <<kind, items[i].player, m>> /\ items[i][kind] # None
    BY <1>3
  <2>2. ItemFits(items[i], squad)
    BY <2>1
  <2>3. items[i].player \in squad /\ items[i][kind] \in KindRows(kind)
    BY <2>1, <2>2 DEF ItemFits
  <2>4. k[1] = kind /\ k[2] = items[i].player
    BY <2>1
  <2>5. (CHOOSE j \in DOMAIN items : items[j].player = k[2]) = i
    <3>1. \E j \in DOMAIN items : items[j].player = k[2]
      BY <2>4
    <3>2. /\ (CHOOSE j \in DOMAIN items : items[j].player = k[2]) \in DOMAIN items
          /\ items[CHOOSE j \in DOMAIN items : items[j].player = k[2]].player = k[2]
      BY <3>1
    <3> QED BY <2>4, <3>2
  <2>6. row(k) = items[i][kind]
    BY <2>4, <2>5
  <2>7. k \in Kinds \X squad \X played
    BY <2>1, <2>3
  <2> QED BY <2>3, <2>4, <2>6, <2>7
<1> HIDE DEF keys, row
<1> QED BY <1>1, <1>2, <1>3 DEF RowsFit

LEMMA ItemsTyped ==
  ASSUME NEW items \in Batches, NEW squad, \A i \in DOMAIN items : items[i].player \in squad
  PROVE  \E n \in Nat : /\ DOMAIN items = 1 .. n
                        /\ \A i \in DOMAIN items : ItemFits(items[i], squad)
<1>1. items \in Seq(Items)
  BY PerformanceAssumption
<1>2. Len(items) \in Nat /\ DOMAIN items = 1 .. Len(items)
  BY <1>1, LenProperties
<1>3. ASSUME NEW i \in DOMAIN items PROVE ItemFits(items[i], squad)
  <2>1. items[i] \in Items
    BY <1>1, ElementOfSeq, <1>2
  <2>2. /\ items[i]["batting"] # None => items[i]["batting"] \in KindRows("batting")
        /\ items[i]["bowling"] # None => items[i]["bowling"] \in KindRows("bowling")
        /\ items[i]["fielding"] # None => items[i]["fielding"] \in KindRows("fielding")
    BY <2>1 DEF Items, KindRows
  <2> QED BY <2>2 DEF ItemFits, Kinds
<1> QED BY <1>2, <1>3

LEMMA OverlayFits ==
  ASSUME NEW top, NEW base, NEW squad, NEW played,
         RowsFit(top, squad, played), RowsFit(base, squad, played)
  PROVE  RowsFit(Overlay(top, base), squad, played)
<1>1. IsFiniteSet(DOMAIN top \cup DOMAIN base)
  BY FS_Union DEF RowsFit
<1>2. /\ DOMAIN Overlay(top, base) = DOMAIN top \cup DOMAIN base
      /\ \A k \in DOMAIN Overlay(top, base) :
           Overlay(top, base)[k] = IF k \in DOMAIN top THEN top[k] ELSE base[k]
  BY DEF Overlay
<1> QED BY <1>1, <1>2 DEF RowsFit

LEMMA OverlayTotals ==
  ASSUME NEW top, NEW base, NEW squad, TotalsFit(top, squad), TotalsFit(base, squad)
  PROVE  TotalsFit(Overlay(top, base), squad)
<1>1. /\ DOMAIN Overlay(top, base) = DOMAIN top \cup DOMAIN base
      /\ \A k \in DOMAIN Overlay(top, base) :
           Overlay(top, base)[k] = IF k \in DOMAIN top THEN top[k] ELSE base[k]
  BY DEF Overlay
<1> QED BY <1>1 DEF TotalsFit

\* Steps that leave the people.
LEMMA RecordsTyped ==
  ASSUME Typed, NEW r \in Requests, UNCHANGED squads, OthersStay(r),
         \/ requests'[r] = requests[r] \/ requests'[r] = Idle
         \/ RequestFits(requests'[r], Squad, Staff, MatchesIn),
         MatchesIn \subseteq MatchesIn', \A m \in MatchesIn' : PairingFits(matches'[m].between),
         RowsFit(rows', Squad, MatchesIn), TotalsFit(stats', Squad)
  PROVE  Typed'
<1>1. PeopleFit' /\ Squad' = Squad /\ Staff' = Staff
  BY PeopleAside DEF Typed
<1>2. RowsFit(rows', Squad, MatchesIn')
  BY RowsFitStill
<1>3. RecordsFit'
  BY <1>1, <1>2 DEF RecordsFit
<1>4. RequestFits(requests'[r], Squad, Staff, MatchesIn)
        => RequestFits(requests'[r], Squad, Staff, MatchesIn')
  BY RequestFitsStill
<1>5. RequestKept(r)
  BY <1>1, <1>4 DEF RequestKept
<1> QED BY <1>1, <1>3, <1>5, TypedKept DEF Remains

LEMMA ParticipantsFit ==
  ASSUME NEW between \in Participants
  PROVE  PairingFits(between)
<1>1. \A t \in TeamsIn(Context) : t # None
  BY PerformanceAssumption DEF TeamsIn
<1> QED BY <1>1 DEF Participants, PairingFits

LEMMA MatchesTyped ==
  ASSUME Inv, Tallies, Typed, NEW r \in Requests, CreateMatch(r) \/ UpdateMatch(r) \/ ConfigureScoring(r)
  PROVE  Typed'
<1>1. UNCHANGED <<requests, rows, stats>> /\ UNCHANGED squads
  BY DEF CreateMatch, UpdateMatch, ConfigureScoring
<1>2. ASSUME NEW m \in Matches, NEW z, z # None, PairingFits(z.between),
             matches' = [matches EXCEPT ![m] = z]
      PROVE  Typed'
  <2>1. \A n \in Matches : matches'[n] = IF n = m THEN z ELSE matches[n]
    BY <1>2 DEF Tallies
  <2>2. MatchesIn \subseteq MatchesIn'
    BY <1>2, <2>1 DEF MatchesIn
  <2>3. ASSUME NEW n \in MatchesIn' PROVE PairingFits(matches'[n].between)
    <3>1. n \in Matches /\ matches'[n] # None
      BY DEF MatchesIn
    <3>2. CASE n = m
      BY <1>2, <2>1, <3>1, <3>2
    <3>3. CASE n # m
      <4>1. n \in MatchesIn /\ matches'[n] = matches[n]
        BY <2>1, <3>1, <3>3 DEF MatchesIn
      <4> QED BY <4>1 DEF Typed, RecordsFit
    <3> QED BY <3>2, <3>3
  <2>4. OthersStay(r) /\ requests'[r] = requests[r]
    BY <1>1 DEF OthersStay, Inv
  <2>5. RowsFit(rows', Squad, MatchesIn) /\ TotalsFit(stats', Squad)
    BY <1>1 DEF Typed, RecordsFit
  <2> QED BY <1>1, <2>2, <2>3, <2>4, <2>5, RecordsTyped
<1>3. \A m \in MatchesIn : m \in Matches /\ matches[m] \in MatchRows /\ PairingFits(matches[m].between)
  BY DEF MatchesIn, Tallies, Typed, RecordsFit
<1>4. \A z \in MatchRows : z # None
  BY PerformanceAssumption
<1>5. CASE CreateMatch(r)
  <2>1. PICK m \in Matches \ MatchesIn, format \in Formats, between \in Participants :
          matches' = [matches EXCEPT ![m] =
                        [format |-> format, between |-> between,
                         authority |-> "legacy_aggregate", version |-> 1]]
    BY <1>5 DEF CreateMatch
  <2> DEFINE z == [format |-> format, between |-> between,
                   authority |-> "legacy_aggregate", version |-> 1]
  <2>2. Participants \subseteq Pairings
    BY DEF Participants, Pairings, TeamsIn
  <2>3. z \in MatchRows /\ z.between = between
    BY <2>2 DEF MatchRows
  <2>4. PairingFits(z.between)
    BY <2>3, ParticipantsFit
  <2> HIDE DEF z
  <2> QED BY <1>2, <1>4, <2>1, <2>3, <2>4 DEF z
<1>6. CASE UpdateMatch(r)
  <2>1. PICK m \in MatchesIn, format \in Formats, between \in Participants :
          matches' = [matches EXCEPT ![m].format = format, ![m].between = between,
                                     ![m].version = @ + 1]
    BY <1>6 DEF UpdateMatch
  <2> DEFINE z == [matches[m] EXCEPT !.format = format, !.between = between,
                                     !.version = matches[m].version + 1]
  <2>2. matches' = [matches EXCEPT ![m] = z]
    BY <1>3, <2>1 DEF Tallies, MatchRows
  <2>3. ASSUME NEW y \in MatchRows
        PROVE  LET w == [y EXCEPT !.format = format, !.between = between, !.version = y.version + 1]
               IN  w \in MatchRows /\ w.between = between
    <3>1. between \in Pairings /\ format \in Formats
      BY DEF Participants, Pairings, TeamsIn
    <3>2. y.version + 1 \in Nat \ {0}
      BY DEF MatchRows
    <3> QED BY <3>1, <3>2 DEF MatchRows
  <2>4. z \in MatchRows /\ z.between = between
    BY <1>3, <2>3
  <2> HIDE DEF z
  <2>5. PairingFits(z.between)
    BY <2>4, ParticipantsFit
  <2> QED BY <1>2, <1>3, <1>4, <2>2, <2>4, <2>5
<1>7. CASE ConfigureScoring(r)
  <2>1. PICK m \in MatchesIn :
          matches' = [matches EXCEPT ![m].authority = "delivery_history", ![m].version = @ + 1]
    BY <1>7 DEF ConfigureScoring
  <2> DEFINE z == [matches[m] EXCEPT !.authority = "delivery_history",
                                     !.version = matches[m].version + 1]
  <2>2. matches' = [matches EXCEPT ![m] = z]
    BY <1>3, <2>1 DEF Tallies, MatchRows
  <2>3. ASSUME NEW y \in MatchRows
        PROVE  LET w == [y EXCEPT !.authority = "delivery_history", !.version = y.version + 1]
               IN  w \in MatchRows /\ w.between = y.between
    <3>1. y.version + 1 \in Nat \ {0}
      BY DEF MatchRows
    <3> QED BY <3>1 DEF MatchRows
  <2>4. z \in MatchRows /\ z.between = matches[m].between
    BY <1>3, <2>3
  <2> HIDE DEF z
  <2>5. PairingFits(z.between)
    BY <1>3, <2>4
  <2> QED BY <1>2, <1>3, <1>4, <2>2, <2>4, <2>5
<1> QED BY <1>5, <1>6, <1>7

LEMMA BatchTyped ==
  ASSUME Inv, Tallies, Typed, NEW r \in Requests,
         SubmitBatch(r) \/ BatchInsert(r) \/ BatchRecalculate(r) \/ DeadlockAbort(r)
  PROVE  Typed'
<1>1. /\ UNCHANGED squads /\ matches' = matches /\ rows' = rows /\ stats' = stats
  BY DEF SubmitBatch, BatchInsert, BatchRecalculate, DeadlockAbort, performanceVars
<1>2. /\ MatchesIn' = MatchesIn /\ RowsFit(rows, Squad, MatchesIn) /\ TotalsFit(stats, Squad)
      /\ \A m \in MatchesIn : PairingFits(matches[m].between)
  BY <1>1 DEF MatchesIn, Typed, RecordsFit
<1>3. ASSUME NEW q, Proceed(r, q), RequestFits(q, Squad, Staff, MatchesIn) PROVE Typed'
  BY <1>1, <1>2, <1>3, Proceeds, RecordsTyped
<1>4. ASSUME End(r) PROVE Typed'
  <2>1. OthersStay(r) /\ requests'[r] = Idle
    BY <1>4 DEF Inv, End, OthersStay
  <2> QED BY <1>1, <1>2, <2>1, RecordsTyped
<1>5. CASE SubmitBatch(r)
  <2>1. PICK m \in MatchesIn, items \in Batches :
          /\ \A i \in DOMAIN items : items[i].player \in PlayersIn(Context)
          /\ Proceed(r, [op |-> "batch", pc |-> "insert", match |-> m, items |-> items,
                         format |-> matches[m].format])
    BY <1>5 DEF SubmitBatch
  <2> DEFINE q == [op |-> "batch", pc |-> "insert", match |-> m, items |-> items,
                   format |-> matches[m].format]
  <2>2. RequestFits(q, Squad, Staff, MatchesIn)
    BY <2>1, InContext DEF RequestFits
  <2> HIDE DEF q
  <2> QED BY <1>3, <2>1, <2>2 DEF q
<1>6. CASE BatchInsert(r)
  <2> DEFINE b == requests[r]
             own == RowsOf(b.match, b.items)
             q == [op |-> "batch", pc |-> "recalculate", own |-> own,
                   todo |-> Agenda(b.items, b.format), wrote |-> <<>>]
  <2>1. End(r) \/ Proceed(r, q)
    BY <1>6 DEF BatchInsert
  <2>2. /\ b.items \in Batches /\ BatchAccepted(b.items) /\ b.format \in Formats
        /\ b.match \in MatchesIn /\ \A i \in DOMAIN b.items : b.items[i].player \in Squad
    BY <1>6 DEF BatchInsert, At, Tallies, BatchSound, Inserting, Typed, RequestFits
  <2>3. RowsFit(own, Squad, MatchesIn)
    <3>1. PICK n \in Nat : /\ DOMAIN b.items = 1 .. n
                           /\ \A i \in DOMAIN b.items : ItemFits(b.items[i], Squad)
      BY <2>2, ItemsTyped
    <3>2. \A i, j \in DOMAIN b.items : b.items[i].player = b.items[j].player => i = j
      BY <2>2 DEF BatchAccepted
    <3> HIDE DEF b
    <3> QED BY <2>2, <3>1, <3>2, OwnTyped
  <2>4. Agenda(b.items, b.format) \in Seq(KeysFor(Squad))
    BY <2>2, AgendaCovers
  <2>5. TotalsFit(<<>>, Squad)
    <3>1. DOMAIN <<>> = {}
      OBVIOUS
    <3> QED BY <3>1 DEF TotalsFit
  <2> HIDE DEF own, b
  <2>6. RequestFits(q, Squad, Staff, MatchesIn)
    BY <2>3, <2>4, <2>5 DEF RequestFits
  <2> HIDE DEF q
  <2> QED BY <1>3, <1>4, <2>1, <2>6
<1>7. CASE BatchRecalculate(r)
  <2> DEFINE b == requests[r]
             key == Head(b.todo)
             top == [k \in {key} |-> Recalculated(Overlay(rows, b.own), k)]
             wrote == Overlay(top, b.wrote)
             q == [op |-> "batch", pc |-> "recalculate", own |-> b.own, todo |-> Tail(b.todo),
                   wrote |-> wrote]
  <2>1. Proceed(r, q) /\ b.todo # <<>>
    BY <1>7 DEF BatchRecalculate
  <2>2. RowsFit(b.own, Squad, MatchesIn) /\ TotalsFit(b.wrote, Squad) /\ b.todo \in Seq(KeysFor(Squad))
    BY <1>7 DEF BatchRecalculate, At, Typed, RequestFits
  <2>3. key \in KeysFor(Squad) /\ Tail(b.todo) \in Seq(KeysFor(Squad))
    BY <2>1, <2>2, HeadTailProperties
  <2>4. TotalsFit(wrote, Squad)
    <3>1. RowsFit(Overlay(rows, b.own), Squad, MatchesIn)
      BY <1>2, <2>2, OverlayFits
    <3>2. Recalculated(Overlay(rows, b.own), key) \in TableRows(key[1])
      BY <3>1, RecalculatedTyped
    <3>3. DOMAIN top = {key} /\ top[key] = Recalculated(Overlay(rows, b.own), key)
      OBVIOUS
    <3> HIDE DEF key, top, b
    <3>4. TotalsFit(top, Squad)
      BY <2>3, <3>2, <3>3 DEF TotalsFit
    <3> QED BY <2>2, <3>4, OverlayTotals
  <2> HIDE DEF wrote, b
  <2>5. RequestFits(q, Squad, Staff, MatchesIn)
    BY <2>2, <2>3, <2>4 DEF RequestFits
  <2> HIDE DEF q
  <2> QED BY <1>3, <2>1, <2>5
<1>8. CASE DeadlockAbort(r)
  BY <1>4, <1>8 DEF DeadlockAbort
<1> QED BY <1>5, <1>6, <1>7, <1>8

LEMMA RowsTyped ==
  ASSUME Inv, Typed, NEW r \in Requests, BatchCommit(r) \/ SyncDerived(r)
  PROVE  Typed'
<1>1. UNCHANGED squads /\ matches' = matches /\ MatchesIn' = MatchesIn
  BY DEF BatchCommit, SyncDerived, MatchesIn
<1>2. /\ RowsFit(rows, Squad, MatchesIn) /\ TotalsFit(stats, Squad)
      /\ \A m \in MatchesIn : PairingFits(matches[m].between)
  BY DEF Typed, RecordsFit
<1>3. Written(r)
  BY Ends DEF BatchCommit, SyncDerived
<1>4. ASSUME RowsFit(rows', Squad, MatchesIn), TotalsFit(stats', Squad) PROVE Typed'
  BY <1>1, <1>2, <1>3, <1>4, RecordsTyped DEF Written
<1>5. CASE BatchCommit(r)
  <2>1. RowsFit(requests[r].own, Squad, MatchesIn) /\ TotalsFit(requests[r].wrote, Squad)
    BY <1>5 DEF BatchCommit, At, Typed, RequestFits
  <2>2. /\ rows' = Overlay(rows, requests[r].own)
        /\ stats' = Overlay(requests[r].wrote, stats)
    BY <1>5 DEF BatchCommit
  <2>3. RowsFit(Overlay(rows, requests[r].own), Squad, MatchesIn)
    BY <1>2, <2>1, OverlayFits
  <2>4. TotalsFit(Overlay(requests[r].wrote, stats), Squad)
    BY <1>2, <2>1, OverlayTotals
  <2> QED BY <1>4, <2>2, <2>3, <2>4
<1>6. CASE SyncDerived(r)
  <2>1. PICK m \in MatchesIn, d \in Derived :
          LET derived == RowsOf(m, <<DerivedItem(d.player, d.innings)>>)
              keys    == {k \in DOMAIN derived : Writable(k)}
          IN  /\ d.player \in PlayersIn(Context)
              /\ rows' = Overlay([k \in keys |-> derived[k]], rows)
    BY <1>6 DEF SyncDerived
  <2> DEFINE item == DerivedItem(d.player, d.innings)
             items == <<item>>
             derived == RowsOf(m, items)
             keys == {k \in DOMAIN derived : Writable(k)}
             new == [k \in keys |-> derived[k]]
  <2>2. d.player \in Squad /\ rows' = Overlay(new, rows)
    BY <2>1, InContext
  <2>3. ItemFits(item, Squad)
    <3>1. d.player \in Players /\ d.innings \in Seq(PlayedInnings)
      BY PerformanceAssumption
    <3>2. ASSUME NEW kind \in Kinds PROVE item[kind] \in KindRows(kind) /\ item.player = d.player
      BY <3>1, DerivedTyped
    <3>3. item.player = d.player
      BY <3>2 DEF Kinds
    <3> HIDE DEF item
    <3> QED BY <2>2, <3>2, <3>3 DEF ItemFits
  <2> HIDE DEF item
  <2>4. 1 \in Nat /\ DOMAIN items = 1 .. 1 /\ items[1] = item
    OBVIOUS
  <2> HIDE DEF items
  <2>5. RowsFit(derived, Squad, MatchesIn)
    <3>1. \A i \in DOMAIN items : i = 1
      BY <2>4
    <3>2. \A i \in DOMAIN items : ItemFits(items[i], Squad)
      BY <2>3, <2>4, <3>1
    <3>3. \A i, j \in DOMAIN items : items[i].player = items[j].player => i = j
      BY <3>1
    <3> QED BY <2>4, <3>2, <3>3, OwnTyped
  <2> HIDE DEF derived
  <2>6. RowsFit(new, Squad, MatchesIn)
    <3>1. IsFiniteSet(keys)
      BY <2>5, FS_Subset DEF RowsFit
    <3> QED BY <2>5, <3>1 DEF RowsFit
  <2> HIDE DEF new
  <2>7. RowsFit(Overlay(new, rows), Squad, MatchesIn)
    BY <1>2, <2>6, OverlayFits
  <2>8. stats' = stats
    BY <1>6 DEF SyncDerived
  <2> QED BY <1>2, <1>4, <2>2, <2>7, <2>8
<1> QED BY <1>5, <1>6

LEMMA TypedNext == Inv /\ Tallies /\ Typed /\ [Next]_vars => Typed'
<1> SUFFICES ASSUME Inv, Tallies, Typed, [Next]_vars PROVE Typed'
  OBVIOUS
<1>1. ASSUME NEW r \in Requests, SquadStep(r) /\ UNCHANGED performanceVars PROVE Typed'
  BY <1>1, SquadTyped
<1>2. ASSUME NEW r \in Requests, PerformanceStep(r) PROVE Typed'
  BY <1>2, MatchesTyped, BatchTyped, RowsTyped DEF PerformanceStep
<1>3. CASE UNCHANGED vars
  <2>1. UNCHANGED squads /\ requests' = requests /\ UNCHANGED performanceVars
    BY <1>3 DEF vars, squadVars
  <2>2. PeopleFit' /\ Squad' = Squad /\ Staff' = Staff
    BY <2>1, PeopleAside DEF Typed
  <2>3. RecordsFit' /\ MatchesIn' = MatchesIn
    BY <2>1, <2>2, RecordsAside DEF Typed
  <2> QED BY <2>1, <2>2, <2>3 DEF Typed
<1> QED BY <1>1, <1>2, <1>3 DEF Next

-----------------------------------------------------------------------------
(* Teams, players, coaches, matches, performances and aggregates keep the  *)
(* shape of their tables (models of the services' tables), and every row   *)
(* is of players and matches there are, whatever batches sum up and        *)
(* scoring derives.                                                        *)
THEOREM AcademyTypes == Spec => []TypeOK
<1>2. Inv /\ Tallies /\ Typed => TypeOK
  <2> SUFFICES ASSUME Inv, Tallies, Typed PROVE TypeOK
    OBVIOUS
  <2>1. SquadTypes
    BY InContext DEF SquadTypes, Inv, Rostered, Typed, PeopleFit, RosterFits
  <2>2. ASSUME NEW m \in MatchesIn PROVE MatchRowFits(matches[m])
    <3>1. matches[m] \in MatchRows /\ PairingFits(matches[m].between)
      BY DEF MatchesIn, Tallies, Typed, RecordsFit
    <3> QED BY <3>1 DEF MatchRowFits, MatchRows, PairingFits
  <2>3. RowsFit(rows, PlayersIn(Context), MatchesIn) /\ TotalsFit(stats, PlayersIn(Context))
    BY InContext DEF Typed, RecordsFit
  <2>4. ASSUME NEW k \in DOMAIN rows
        PROVE  rows[k] \in CASE k[1] = "batting"  -> BattingRows
                             [] k[1] = "bowling"  -> BowlingRows
                             [] k[1] = "fielding" -> FieldingRows
    BY <2>3 DEF RowsFit, KindRows, Kinds
  <2>5. ASSUME NEW key \in DOMAIN stats
        PROVE  stats[key] \in IF key[1] = "batting" THEN BattingStats ELSE BowlingStats
    BY <2>3 DEF TotalsFit, TableRows
  <2>6. /\ DOMAIN rows \subseteq Kinds \X PlayersIn(Context) \X MatchesIn
        /\ DOMAIN stats \subseteq {"batting", "bowling"} \X PlayersIn(Context) \X Formats
    BY <2>3 DEF RowsFit, TotalsFit, KeysFor
  <2> QED BY <2>1, <2>2, <2>4, <2>5, <2>6 DEF TypeOK
<1>3. Spec => [](Inv /\ Tallies /\ Typed)
  BY InvInit, InvNext, TalliesInit, TypedInit, TalliesNext, TypedNext, PTL DEF Spec
<1> QED BY <1>2, <1>3, PTL

-----------------------------------------------------------------------------
(* Repairs.  The ranks of a finite roster are the numbers from 1 to its    *)
(* size, each once; so a normalized roster breaks no rule of the order,    *)
(* and one that breaks none is normalized already.                         *)

Numbered(m) ==
  /\ IsFiniteSet(DOMAIN m) /\ DOMAIN m \subseteq Nat /\ m \in [DOMAIN m -> Int]

UpTo(m, p) == {q \in DOMAIN m : m[q] < m[p] \/ (m[q] = m[p] /\ q <= p)}

LEMMA RankOf ==
  ASSUME NEW m, Numbered(m), NEW p \in DOMAIN m
  PROVE  /\ Rank(m, p) = Cardinality(UpTo(m, p)) /\ p \in UpTo(m, p) /\ IsFiniteSet(UpTo(m, p))
         /\ Rank(m, p) \in 1 .. Cardinality(DOMAIN m)
<1>1. Rank(m, p) = Cardinality(UpTo(m, p))
  BY DEF Rank, UpTo
<1>2. p \in UpTo(m, p)
  BY DEF UpTo, Numbered
<1>3. UpTo(m, p) \in SUBSET DOMAIN m
  BY DEF UpTo
<1>4. IsFiniteSet(UpTo(m, p)) /\ Cardinality(UpTo(m, p)) <= Cardinality(DOMAIN m)
  BY <1>3, FS_Subset DEF Numbered
<1>5. Cardinality(UpTo(m, p)) \in Nat \ {0} /\ Cardinality(DOMAIN m) \in Nat
  BY <1>2, <1>4, FS_CardinalityType, FS_EmptySet DEF Numbered
<1> QED BY <1>1, <1>2, <1>4, <1>5

LEMMA LowerRank ==
  ASSUME NEW m, Numbered(m), NEW p \in DOMAIN m, NEW q \in DOMAIN m, p # q, q \in UpTo(m, p)
  PROVE  Rank(m, q) < Rank(m, p)
<1>1. /\ m[p] \in Int /\ m[q] \in Int /\ p \in Nat /\ q \in Nat
      /\ m[q] < m[p] \/ (m[q] = m[p] /\ q <= p)
  BY DEF Numbered, UpTo
<1>2. UpTo(m, q) \in SUBSET UpTo(m, p)
  <2> SUFFICES ASSUME NEW x \in UpTo(m, q) PROVE x \in UpTo(m, p)
    OBVIOUS
  <2>1. x \in DOMAIN m /\ (m[x] < m[q] \/ (m[x] = m[q] /\ x <= q)) /\ m[x] \in Int /\ x \in Nat
    BY DEF UpTo, Numbered
  <2>2. m[x] < m[p] \/ (m[x] = m[p] /\ x <= p)
    BY <1>1, <2>1
  <2> QED BY <2>1, <2>2 DEF UpTo
<1>3. p \notin UpTo(m, q)
  BY <1>1 DEF UpTo
<1>4. p \in UpTo(m, p) /\ IsFiniteSet(UpTo(m, p))
  BY RankOf
<1>5. /\ Cardinality(UpTo(m, q)) <= Cardinality(UpTo(m, p))
      /\ Cardinality(UpTo(m, q)) # Cardinality(UpTo(m, p))
  BY <1>2, <1>3, <1>4, FS_Subset
<1>6. Cardinality(UpTo(m, q)) \in Nat /\ Cardinality(UpTo(m, p)) \in Nat
  BY RankOf, FS_CardinalityType
<1> QED BY <1>5, <1>6, RankOf

LEMMA RanksDiffer ==
  ASSUME NEW m, Numbered(m), NEW p \in DOMAIN m, NEW q \in DOMAIN m, p # q
  PROVE  Rank(m, p) # Rank(m, q)
<1>1. /\ m[p] \in Int /\ m[q] \in Int /\ p \in Nat /\ q \in Nat
  BY DEF Numbered
<1>2. q \in UpTo(m, p) \/ p \in UpTo(m, q)
  BY <1>1 DEF UpTo
<1>3. Rank(m, p) \in Nat /\ Rank(m, q) \in Nat
  BY RankOf
<1>4. Rank(m, q) < Rank(m, p) \/ Rank(m, p) < Rank(m, q)
  BY <1>2, LowerRank
<1> QED BY <1>3, <1>4

\* What it is to break none of the rules.
InOrder(m) ==
  /\ {m[p] : p \in DOMAIN m} = 1 .. Cardinality(DOMAIN m)
  /\ \A p, q \in DOMAIN m : m[p] = m[q] => p = q

LEMMA NoFaults ==
  ASSUME NEW m, Numbered(m)
  PROVE  OrderFaults(m) = {} <=> InOrder(m)
<1> DEFINE taken == {m[p] : p \in DOMAIN m}
           positive == {n \in taken : n > 0}
           twice == \E p, q \in DOMAIN m : p # q /\ m[p] = m[q]
           between == \E n \in positive, x \in positive : \E i \in n .. x : i \notin positive
           faults == {f \in {"non_positive", "duplicate", "gap"} :
                        \/ f = "non_positive" /\ positive # taken
                        \/ f = "duplicate" /\ twice
                        \/ f = "gap" /\ between}
           all == taken = 1 .. Cardinality(DOMAIN m)
<1>1. OrderFaults(m) = IF faults = {} /\ ~all THEN {"non_contiguous"} ELSE faults
  BY DEF OrderFaults
<1>2. Cardinality(DOMAIN m) \in Nat
  BY FS_CardinalityType DEF Numbered
<1>3. faults = {} <=> positive = taken /\ ~twice /\ ~between
  <2> HIDE DEF positive, taken, twice, between
  <2>1. "non_positive" \in faults <=> positive # taken
    OBVIOUS
  <2>2. "duplicate" \in faults <=> twice
    OBVIOUS
  <2>3. "gap" \in faults <=> between
    OBVIOUS
  <2>4. \A f \in faults : f \in {"non_positive", "duplicate", "gap"}
    OBVIOUS
  <2> HIDE DEF faults
  <2> QED BY <2>1, <2>2, <2>3, <2>4
<1>4. ASSUME all PROVE positive = taken /\ ~between
  <2>1. positive = taken
    BY <1>2, <1>4
  <2>2. ASSUME NEW n \in taken, NEW x \in taken, NEW i \in n .. x PROVE i \in taken
    <3> HIDE DEF taken
    <3>1. n \in 1 .. Cardinality(DOMAIN m) /\ x \in 1 .. Cardinality(DOMAIN m)
      BY <1>4, <2>2
    <3>2. i \in 1 .. Cardinality(DOMAIN m)
      BY <1>2, <2>2, <3>1
    <3> QED BY <1>4, <3>2
  <2> HIDE DEF positive, taken
  <2> QED BY <2>1, <2>2
<1>5. InOrder(m) <=> all /\ ~twice
  BY DEF InOrder
<1> HIDE DEF taken, positive, twice, between, faults, all
<1>6. OrderFaults(m) = {} <=> faults = {} /\ all
  BY <1>1
<1> QED BY <1>3, <1>4, <1>5, <1>6

LEMMA NormalizedInOrder ==
  ASSUME NEW m, Numbered(m)
  PROVE  Numbered(Normalized(m)) /\ InOrder(Normalized(m))
<1> DEFINE n == Normalized(m)
           D == DOMAIN m
           size == Cardinality(D)
<1>1. DOMAIN n = D /\ \A p \in D : n[p] = Rank(m, p)
  BY DEF Normalized
<1>2. IsFiniteSet(D) /\ size \in Nat
  BY FS_CardinalityType DEF Numbered
<1>3. \A p \in D : n[p] \in 1 .. size
  BY <1>1, RankOf
<1>4. n \in [D -> 1 .. size]
  BY <1>3 DEF Normalized
<1>5. \A p, q \in D : n[p] = n[q] => p = q
  BY <1>1, RanksDiffer
<1>6. IsFiniteSet(1 .. size) /\ Cardinality(1 .. size) = size
  BY <1>2, FS_Interval
<1> HIDE DEF n
<1>7. n \in Injection(D, 1 .. size)
  BY <1>4, <1>5 DEF Injection, IsInjective
<1> HIDE DEF D
<1>8. n \in Surjection(D, 1 .. size)
  BY <1>6, <1>7, FS_Injection
<1>9. {n[p] : p \in D} = 1 .. size
  BY <1>4, <1>8 DEF Surjection
<1>10. Numbered(n)
  <2>1. D \subseteq Nat
    BY DEF Numbered, D
  <2>2. n \in [D -> Int]
    BY <1>2, <1>4
  <2> QED BY <1>1, <1>2, <2>1, <2>2 DEF Numbered
<1> QED BY <1>1, <1>5, <1>9, <1>10 DEF InOrder, n, D

LEMMA InOrderIsNormalized ==
  ASSUME NEW m, Numbered(m), InOrder(m)
  PROVE  Normalized(m) = m
<1> DEFINE size == Cardinality(DOMAIN m)
<1>1. size \in Nat
  BY FS_CardinalityType DEF Numbered
<1>2. ASSUME NEW p \in DOMAIN m PROVE Rank(m, p) = m[p]
  <2>1. m[p] \in 1 .. size
    BY DEF InOrder
  <2>2. IsFiniteSet(UpTo(m, p)) /\ Rank(m, p) = Cardinality(UpTo(m, p))
    BY RankOf
  <2> DEFINE f == [q \in UpTo(m, p) |-> m[q]]
  <2>3. ASSUME NEW q \in UpTo(m, p) PROVE m[q] \in 1 .. m[p]
    <3>1. q \in DOMAIN m /\ (m[q] < m[p] \/ m[q] = m[p])
      BY DEF UpTo
    <3>2. m[q] \in 1 .. size
      BY <3>1 DEF InOrder
    <3> QED BY <1>1, <2>1, <3>1, <3>2
  <2>4. f \in Injection(UpTo(m, p), 1 .. m[p])
    <3>1. f \in [UpTo(m, p) -> 1 .. m[p]]
      BY <2>3
    <3>2. \A x, y \in UpTo(m, p) : f[x] = f[y] => x = y
      BY DEF InOrder, UpTo
    <3> HIDE DEF f
    <3> QED BY <3>1, <3>2 DEF Injection, IsInjective
  <2>5. ASSUME NEW i \in 1 .. m[p] PROVE \E q \in UpTo(m, p) : f[q] = i
    <3>1. i \in 1 .. size
      BY <1>1, <2>1
    <3>2. PICK q \in DOMAIN m : m[q] = i
      BY <3>1 DEF InOrder
    <3>3. m[q] < m[p] \/ m[q] = m[p]
      BY <1>1, <2>1, <3>2
    <3>4. m[q] = m[p] => q = p
      BY DEF InOrder
    <3>5. q \in UpTo(m, p)
      BY <3>3, <3>4 DEF UpTo, Numbered
    <3> QED BY <3>2, <3>5
  <2>6. f \in Surjection(UpTo(m, p), 1 .. m[p])
    <3>1. f \in [UpTo(m, p) -> 1 .. m[p]]
      BY <2>3
    <3> HIDE DEF f
    <3> QED BY <2>5, <3>1 DEF Surjection
  <2> HIDE DEF f
  <2>7. Cardinality(1 .. m[p]) = Cardinality(UpTo(m, p))
    <3>1. f \in Injection(UpTo(m, p), 1 .. m[p])
      BY <2>4
    <3> QED BY <2>2, <2>6, <3>1, FS_Surjection
  <2>8. Cardinality(1 .. m[p]) = m[p]
    <3>1. m[p] \in Nat \ {0}
      BY <1>1, <2>1
    <3> QED BY <3>1, FS_Interval
  <2> QED BY <2>2, <2>7, <2>8
<1> QED BY <1>2 DEF Normalized, Numbered

LEMMA OrderRepaired ==
  ASSUME NEW m, Numbered(m)
  PROVE  /\ OrderFaults(Normalized(m)) = {}
         /\ OrderFaults(m) # {} <=> Normalized(m) # m
<1>1. Numbered(Normalized(m)) /\ InOrder(Normalized(m))
  BY NormalizedInOrder
<1>2. OrderFaults(Normalized(m)) = {}
  BY <1>1, NoFaults
<1>3. ASSUME OrderFaults(m) = {} PROVE Normalized(m) = m
  BY <1>3, NoFaults, InOrderIsNormalized
<1>4. ASSUME Normalized(m) = m PROVE OrderFaults(m) = {}
  BY <1>2, <1>4
<1> QED BY <1>2, <1>3, <1>4

-----------------------------------------------------------------------------
(* A finding's rule tells where it comes from.                             *)

OrderRules == {"non_positive", "duplicate", "gap", "non_contiguous"}

OfRule(F, rule) == \A f \in F : f.rule = rule

LEMMA RulesOfFindings ==
  ASSUME NEW c
  PROVE  /\ OfRule(ActiveUnassignedPlayers(c), "player_active_unassigned")
         /\ OfRule(InactiveRosteredPlayers(c), "player_inactive_rostered")
         /\ OfRule(NormalizedPlayerDuplicates(c), "player_duplicate")
         /\ OfRule(NormalizedTeamNameConflicts(c), "team_name_conflict")
         /\ OfRule(TeamsWithoutCoaches(c), "team_no_coach")
         /\ OfRule(SoleHeadCoach(c), "sole_head_coach")
         /\ OfRule(InactiveAssistantAssignments(c), "coach_inactive_assigned")
         /\ OfRule(ActiveUnassignedAssistants(c), "assistant_unassigned")
         /\ OfRule(InvalidRoleAssignments(c), "invalid_role")
<1>1. \A rule, about, repair : Finding(rule, about, repair).rule = rule
  BY DEF Finding
<1>2. ASSUME NEW f \in ActiveUnassignedPlayers(c) PROVE f.rule = "player_active_unassigned"
  <2>1. PICK about, repair : f = Finding("player_active_unassigned", about, repair)
    BY DEF ActiveUnassignedPlayers
  <2> QED BY <1>1, <2>1
<1>3. OfRule(NormalizedPlayerDuplicates(c), "player_duplicate")
  BY <1>1 DEF OfRule, NormalizedPlayerDuplicates
<1>4. OfRule(NormalizedTeamNameConflicts(c), "team_name_conflict")
  BY <1>1 DEF OfRule, NormalizedTeamNameConflicts
<1>5. ASSUME NEW f \in TeamsWithoutCoaches(c) PROVE f.rule = "team_no_coach"
  <2>1. PICK about, repair : f = Finding("team_no_coach", about, repair)
    BY DEF TeamsWithoutCoaches
  <2> QED BY <1>1, <2>1
<1>6. OfRule(SoleHeadCoach(c), "sole_head_coach")
  BY <1>1 DEF OfRule, SoleHeadCoach
<1>7. ASSUME NEW f \in ActiveUnassignedAssistants(c) PROVE f.rule = "assistant_unassigned"
  <2>1. PICK about, repair : f = Finding("assistant_unassigned", about, repair)
    BY DEF ActiveUnassignedAssistants
  <2> QED BY <1>1, <2>1
<1>8. ASSUME NEW f \in InactiveRosteredPlayers(c) PROVE f.rule = "player_inactive_rostered"
  <2>1. PICK about, repair : f = Finding("player_inactive_rostered", about, repair)
    BY DEF InactiveRosteredPlayers
  <2> QED BY <1>1, <2>1
<1>9. ASSUME NEW f \in InactiveAssistantAssignments(c) PROVE f.rule = "coach_inactive_assigned"
  <2>1. PICK about, repair : f = Finding("coach_inactive_assigned", about, repair)
    BY DEF InactiveAssistantAssignments
  <2> QED BY <1>1, <2>1
<1>10. ASSUME NEW f \in InvalidRoleAssignments(c) PROVE f.rule = "invalid_role"
  <2>1. PICK about, repair : f = Finding("invalid_role", about, repair)
    BY DEF InvalidRoleAssignments
  <2> QED BY <1>1, <2>1
<1> QED BY <1>2, <1>3, <1>4, <1>5, <1>6, <1>7, <1>8, <1>9, <1>10 DEF OfRule

LEMMA RulesOfRosters ==
  ASSUME NEW c
  PROVE  /\ \A f \in TeamRosterBounds(c) : f.rule = "below_minimum" \/ f.rule = "above_maximum"
         /\ \A f \in RosterOrderFindings(c) : f.rule \in OrderRules
<1>1. ASSUME NEW f \in TeamRosterBounds(c)
      PROVE  f.rule = "below_minimum" \/ f.rule = "above_maximum"
  BY DEF TeamRosterBounds, Finding
<1>2. ASSUME NEW f \in RosterOrderFindings(c) PROVE f.rule \in OrderRules
  <2>1. PICK t : \E fault \in OrderFaults(c.roster[t]) :
          f = Finding(fault, <<t>>, RosterNormalizationAction(c, t))
    BY DEF RosterOrderFindings
  <2>2. PICK fault \in OrderFaults(c.roster[t]) :
          f = Finding(fault, <<t>>, RosterNormalizationAction(c, t))
    BY <2>1
  <2>3. fault \in OrderRules
    BY DEF OrderFaults, OrderRules
  <2> QED BY <2>2, <2>3 DEF Finding
<1> QED BY <1>1, <1>2

LEMMA FoundBy ==
  ASSUME NEW c, NEW f \in Findings(c)
  PROVE  /\ f.rule = "player_inactive_rostered" => f \in InactiveRosteredPlayers(c)
         /\ f.rule = "coach_inactive_assigned" => f \in InactiveAssistantAssignments(c)
         /\ f.rule \in OrderRules => f \in RosterOrderFindings(c)
<1>1. \/ f \in InactiveRosteredPlayers(c) \/ f \in InactiveAssistantAssignments(c)
      \/ f \in RosterOrderFindings(c)
      \/ f.rule \in {"player_active_unassigned", "player_duplicate", "below_minimum",
                     "above_maximum", "team_name_conflict", "team_no_coach", "sole_head_coach",
                     "assistant_unassigned", "invalid_role"}
  BY RulesOfFindings, RulesOfRosters DEF OfRule, Findings
<1>2. /\ f \in InactiveRosteredPlayers(c) => f.rule = "player_inactive_rostered"
      /\ f \in InactiveAssistantAssignments(c) => f.rule = "coach_inactive_assigned"
      /\ f \in RosterOrderFindings(c) => f.rule \in OrderRules
  BY RulesOfFindings, RulesOfRosters DEF OfRule
<1> QED BY <1>1, <1>2 DEF OrderRules

-----------------------------------------------------------------------------
(* The three repairs.                                                      *)

\* What the rules may count on of the state.
Tidy ==
  /\ PeopleFit
  /\ teams \in [Teams -> TeamRows \cup {None}] /\ DOMAIN roster = Teams
  /\ \A t \in Teams : Numbered(roster[t])

LEMMA TidyAlways == Inv /\ Typed => Tidy
<1> SUFFICES ASSUME Inv, Typed, NEW t \in Teams PROVE Numbered(roster[t])
  BY DEF Tidy, Inv, Rostered, Typed
<1>1. RosterFits(roster[t], Squad) /\ IsFiniteSet(DOMAIN roster[t])
  BY DEF Inv, Rostered, Typed, PeopleFit
<1>2. Squad \subseteq Nat
  BY RosterAssumption DEF Squad
<1> QED BY <1>1, <1>2 DEF Numbered, RosterFits

\* A repair is accepted, and its finding is gone after it.
Works(f) ==
  /\ Accepted(Context, f.repair)
  /\ \A g \in Findings(Repaired(Context, f.repair, roster[f.repair.team])) :
       <<g.rule, g.about>> # <<f.rule, f.about>>

LEMMA RemovalWorks ==
  ASSUME Tidy, NEW f \in InactiveRosteredPlayers(Context), f.repair # None
  PROVE  Works(f)
<1>1. PICK t \in TeamsIn(Context) :
        \E p \in {p \in DOMAIN roster[t] : ~ActivePlayer(Context, p)} :
          f = Finding("player_inactive_rostered", <<p, t>>, InactivePlayerAction(Context, t, p))
  BY DEF InactiveRosteredPlayers, Context
<1>2. PICK p \in DOMAIN roster[t] :
        /\ ~ActivePlayer(Context, p)
        /\ f = Finding("player_inactive_rostered", <<p, t>>, InactivePlayerAction(Context, t, p))
  BY <1>1
<1> DEFINE x == [do |-> "remove", team |-> t, player |-> p, version |-> teams[t].version]
           after == Repaired(Context, x, roster[t])
<1>3. /\ f.rule = "player_inactive_rostered" /\ f.about = <<p, t>>
      /\ f.repair = InactivePlayerAction(Context, t, p)
  BY <1>2 DEF Finding
<1>4. f.repair = x /\ RosterValid(Context, DOMAIN roster[t] \ {p})
  BY <1>3 DEF InactivePlayerAction, Context
<1>5. t \in Teams /\ p \in Squad
  <2>1. t \in Teams
    BY DEF TeamsIn
  <2> QED BY <2>1 DEF Tidy, PeopleFit, RosterFits
<1>6. x.do = "remove" /\ x.team = t /\ x.player = p
  OBVIOUS
<1>7. Context.roster = roster /\ Context.players = players
  BY DEF Context
<1>8. Accepted(Context, x)
  <2>1. ~players[p].active
    BY <1>2, <1>5, <1>7, InContext DEF ActivePlayer
  <2> HIDE DEF x
  <2> QED BY <1>2, <1>4, <1>6, <1>7, <2>1 DEF Accepted
<1>9. DOMAIN after.roster[t] = DOMAIN roster[t] \ {p}
  BY <1>5 DEF Repaired, Context, Tidy
<1> HIDE DEF x, after
<1>10. ASSUME NEW g \in Findings(after), g.rule = "player_inactive_rostered"
       PROVE  g.about # <<p, t>>
  <2>1. g \in InactiveRosteredPlayers(after)
    BY <1>10, FoundBy
  <2>2. PICK u, q :
          /\ q \in DOMAIN after.roster[u]
          /\ g = Finding("player_inactive_rostered", <<q, u>>, InactivePlayerAction(after, u, q))
    BY <2>1 DEF InactiveRosteredPlayers
  <2>3. g.about = <<q, u>>
    BY <2>2 DEF Finding
  <2> QED BY <1>9, <2>2, <2>3
<1>11. f.repair.team = t
  BY <1>4, <1>6
<1> QED BY <1>3, <1>4, <1>8, <1>10, <1>11 DEF Works, after

LEMMA NormalizationWorks ==
  ASSUME Tidy, NEW f \in RosterOrderFindings(Context), f.repair # None
  PROVE  Works(f)
<1>1. PICK t \in {t \in TeamsIn(Context) : DOMAIN Context.roster[t] # {}} :
        \E fault \in OrderFaults(Context.roster[t]) :
          f = Finding(fault, <<t>>, RosterNormalizationAction(Context, t))
  BY DEF RosterOrderFindings
<1>2. PICK fault \in OrderFaults(Context.roster[t]) :
        f = Finding(fault, <<t>>, RosterNormalizationAction(Context, t))
  BY <1>1
<1> DEFINE x == [do |-> "normalize", team |-> t, version |-> teams[t].version]
           after == Repaired(Context, x, roster[t])
<1>3. f.rule = fault /\ f.about = <<t>> /\ f.repair = RosterNormalizationAction(Context, t)
  BY <1>2 DEF Finding
<1>4. f.repair = x /\ RosterValid(Context, DOMAIN roster[t])
  BY <1>3 DEF RosterNormalizationAction, Context
<1>5. t \in Teams /\ Numbered(roster[t]) /\ Context.roster = roster
  <2>1. t \in Teams
    BY DEF TeamsIn
  <2> QED BY <2>1 DEF Tidy, Context
<1>6. x.do = "normalize" /\ x.team = t
  OBVIOUS
<1>7. Normalized(roster[t]) # roster[t] /\ OrderFaults(Normalized(roster[t])) = {}
  BY <1>2, <1>5, OrderRepaired
<1>8. Accepted(Context, x)
  <2> HIDE DEF x
  <2> QED BY <1>4, <1>5, <1>6, <1>7 DEF Accepted
<1>9. after.roster[t] = Normalized(roster[t])
  <2>1. after.roster[t] = Renumbered(roster[t], roster[t])
    BY <1>5 DEF Repaired, Context, Tidy
  <2> QED BY <2>1 DEF Renumbered, Normalized
<1>10. fault \in OrderRules
  BY <1>2 DEF OrderFaults, OrderRules
<1> HIDE DEF x, after
<1>11. ASSUME NEW g \in Findings(after), g.rule = fault
       PROVE  g.about # <<t>>
  <2>1. g \in RosterOrderFindings(after)
    BY <1>10, <1>11, FoundBy
  <2>2. PICK u, other :
          /\ other \in OrderFaults(after.roster[u])
          /\ g = Finding(other, <<u>>, RosterNormalizationAction(after, u))
    BY <2>1 DEF RosterOrderFindings
  <2>3. g.about = <<u>>
    BY <2>2 DEF Finding
  <2> QED BY <1>7, <1>9, <2>2, <2>3
<1>12. f.repair.team = t
  BY <1>4, <1>6
<1> QED BY <1>3, <1>4, <1>8, <1>11, <1>12 DEF Works, after

LEMMA UnassignmentWorks ==
  ASSUME Tidy, NEW f \in InactiveAssistantAssignments(Context)
  PROVE  Works(f)
<1>1. PICK k \in InactiveAssistants(Context) : \E t \in assigned[k] :
        f = Finding("coach_inactive_assigned", <<k, t>>,
                    [do |-> "unassign", team |-> t, coach |-> k, version |-> coaches[k].version])
  BY DEF InactiveAssistantAssignments, Context
<1>2. PICK t \in assigned[k] :
        f = Finding("coach_inactive_assigned", <<k, t>>,
                    [do |-> "unassign", team |-> t, coach |-> k, version |-> coaches[k].version])
  BY <1>1
<1> DEFINE x == [do |-> "unassign", team |-> t, coach |-> k, version |-> coaches[k].version]
           after == Repaired(Context, x, roster[t])
<1>3. /\ f.rule = "coach_inactive_assigned" /\ f.about = <<k, t>> /\ f.repair = x
  BY <1>2 DEF Finding
<1>4. x.do = "unassign" /\ x.team = t /\ x.coach = k
  OBVIOUS
<1>5. k \in Coaches
  BY DEF InactiveAssistants, CoachesIn
<1>6. Context.assigned = assigned
  BY DEF Context
<1>7. Accepted(Context, x)
  <2> HIDE DEF x
  <2> QED BY <1>4, <1>6 DEF Accepted
<1>8. t \notin after.assigned[k]
  BY <1>5 DEF Repaired, Context, Tidy, PeopleFit
<1> HIDE DEF x, after
<1>9. ASSUME NEW g \in Findings(after), g.rule = "coach_inactive_assigned"
      PROVE  g.about # <<k, t>>
  <2>1. g \in InactiveAssistantAssignments(after)
    BY <1>9, FoundBy
  <2>2. PICK j, u :
          /\ u \in after.assigned[j]
          /\ g = Finding("coach_inactive_assigned", <<j, u>>,
                   [do |-> "unassign", team |-> u, coach |-> j,
                    version |-> after.coaches[j].version])
    BY <2>1 DEF InactiveAssistantAssignments
  <2>3. g.about = <<j, u>>
    BY <2>2 DEF Finding
  <2> QED BY <1>8, <2>2, <2>3
<1>10. f.repair.team = t
  BY <1>3, <1>4
<1> QED BY <1>3, <1>7, <1>9, <1>10 DEF Works, after

LEMMA EveryRepairWorks ==
  ASSUME Tidy, NEW f \in Findings(Context), f.repair # None
  PROVE  Works(f)
<1>1. \/ f \in InactiveRosteredPlayers(Context) \/ f \in RosterOrderFindings(Context)
      \/ f \in InactiveAssistantAssignments(Context)
  BY MostOfferNone DEF OffersNone, Findings
<1> QED BY <1>1, RemovalWorks, NormalizationWorks, UnassignmentWorks

\* A disorder is found, and a repair of it is offered when it can be accepted.
LEMMA DisorderFound ==
  ASSUME Tidy, NEW t \in TeamsIn(Context), DOMAIN roster[t] # {}, Normalized(roster[t]) # roster[t]
  PROVE  \E f \in Findings(Context) :
           /\ f.about = <<t>> /\ f.rule \in OrderFaults(roster[t])
           /\ RosterValid(Context, DOMAIN roster[t]) => f.repair # None
<1>1. t \in Teams /\ teams[t] # None /\ Context.roster = roster /\ Context.teams = teams
  BY InContext DEF Context
<1>2. Numbered(roster[t]) /\ teams[t].version \in Nat \ {0}
  BY <1>1 DEF Tidy, TeamRows
<1>3. PICK fault : fault \in OrderFaults(roster[t])
  BY <1>2, OrderRepaired
<1> DEFINE f == Finding(fault, <<t>>, RosterNormalizationAction(Context, t))
<1>4. f \in RosterOrderFindings(Context)
  BY <1>1, <1>3 DEF RosterOrderFindings
<1>5. f \in Findings(Context)
  BY <1>4 DEF Findings
<1>6. /\ f.about = <<t>> /\ f.rule = fault
      /\ f.repair = RosterNormalizationAction(Context, t)
  BY DEF Finding
<1>7. ASSUME RosterValid(Context, DOMAIN roster[t])
      PROVE  RosterNormalizationAction(Context, t) # None
  <2>1. RosterNormalizationAction(Context, t)
          = [do |-> "normalize", team |-> t, version |-> teams[t].version]
    BY <1>1, <1>7 DEF RosterNormalizationAction
  <2>2. [do |-> "normalize", team |-> t, version |-> teams[t].version]
          \in [do : {"normalize"}, team : Teams, version : Nat \ {0}]
    BY <1>1, <1>2
  <2> QED BY <2>1, <2>2, RosterAssumption
<1> HIDE DEF f
<1> QED BY <1>3, <1>5, <1>6, <1>7

-----------------------------------------------------------------------------
(* The rules (data_quality_rules.py) and the services that carry a repair  *)
(* out agree: what is offered is accepted as long as nothing changes, its  *)
(* finding is gone after it, and no disorder of a roster goes unfound.     *)
THEOREM RepairsWork == Spec => []OfferedRepairsWork
<1>1. Inv /\ Typed => OfferedRepairsWork
  <2> SUFFICES ASSUME Inv, Typed PROVE OfferedRepairsWork
    OBVIOUS
  <2>1. Tidy
    BY TidyAlways
  <2>2. Context.roster = roster
    BY DEF Context
  <2>3. \A f \in Findings(Context) : f.repair # None => Works(f)
    BY <2>1, EveryRepairWorks
  <2>4. \A f \in Findings(Context) : f.repair # None =>
          /\ Accepted(Context, f.repair)
          /\ LET after == Repaired(Context, f.repair, Context.roster[f.repair.team])
             IN \A g \in Findings(after) : <<g.rule, g.about>> # <<f.rule, f.about>>
    BY <2>2, <2>3 DEF Works
  <2>5. \A t \in TeamsIn(Context) :
          DOMAIN roster[t] # {} /\ Normalized(roster[t]) # roster[t] =>
            \E f \in Findings(Context) :
              /\ f.about = <<t>> /\ f.rule \in OrderFaults(roster[t])
              /\ RosterValid(Context, DOMAIN roster[t]) => f.repair # None
    BY <2>1, DisorderFound
  <2> QED BY <2>4, <2>5 DEF OfferedRepairsWork
<1>2. Spec => [](Inv /\ Tallies /\ Typed)
  BY InvInit, InvNext, TalliesInit, TypedInit, TalliesNext, TypedNext, PTL DEF Spec
<1> QED BY <1>1, <1>2, PTL
=============================================================================
