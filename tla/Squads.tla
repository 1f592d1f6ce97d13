------------------------------- MODULE Squads -------------------------------
(***************************************************************************)
(* Teams and their ordered rosters, players, coaches and their team        *)
(* assignments, the data-quality rules over them and the repairs a coach   *)
(* may confirm (services/team_service.py, player_service.py,               *)
(* coach_service.py, data_quality_rules.py, data_quality_service.py).      *)
(*                                                                         *)
(* A command reads at READ COMMITTED, decides, and writes in one           *)
(* transaction: where others can come in between, it has a step for what   *)
(* it reads and one in which it claims a version, writes and commits.      *)
(***************************************************************************)
EXTENDS Integers, Sequences, FiniteSets, SequencesExt

CONSTANTS
  Teams, Coaches,
  Players,                 \* numbers, as player ids break ties of position
  Names, AgeGroups,
  Normal,                  \* Normal[n]: what the comparison makes of a name; for a
                           \* player, of both names and the date of birth
  MinRoster, MaxRoster,
  Lists,                   \* the player lists a coach may submit
  Requests,
  FirstTeams, FirstRosters, FirstPlayers, FirstCoaches, FirstAssigned,
  Idle, None

VARIABLES
  teams,      \* teams rows, None before they are created
  roster,     \* team_players: the position of every member of a team
  players,    \* players rows
  coaches,    \* users rows of coaches
  assigned,   \* team_coaches
  requests,   \* what each request has read
  left        \* commands of each kind that may still come

Roles      == {"head coach", "assistant coach", "player"}
CoachRoles == {"head coach", "assistant coach"}

TeamRows   == [name : Names, group : AgeGroups, version : Nat \ {0}]
PlayerRows == [name : Names, active : BOOLEAN]
CoachRows  == [role : Roles, active : BOOLEAN, version : Nat \ {0}]

\* The teams to begin with have rosters that a creation would have accepted.
ASSUME RosterAssumption ==
  /\ MinRoster \in Nat /\ MaxRoster \in Nat
  /\ Players \subseteq Nat
  /\ Lists \subseteq Seq(Players)
  /\ FirstTeams \in [Teams -> TeamRows \cup {None}] /\ None \notin TeamRows
  /\ None \notin [do : {"normalize"}, team : Teams, version : Nat \ {0}]
  /\ FirstPlayers \in [Players -> PlayerRows \cup {None}] /\ None \notin PlayerRows
  /\ FirstCoaches \in [Coaches -> CoachRows \cup {None}] /\ None \notin CoachRows
  /\ FirstAssigned \in [Coaches -> SUBSET Teams]
  /\ DOMAIN FirstRosters = Teams
  /\ \A t \in Teams :
       /\ FirstRosters[t] \in [DOMAIN FirstRosters[t] -> Int]
       /\ IsFiniteSet(DOMAIN FirstRosters[t])
       /\ \A p \in DOMAIN FirstRosters[t] : p \in Players /\ FirstPlayers[p] # None
       /\ FirstTeams[t] # None => Cardinality(DOMAIN FirstRosters[t]) >= MinRoster

squads    == <<teams, roster, players, coaches, assigned>>
squadVars == <<squads, requests, left>>

Starts(r, op) ==
  /\ requests[r] = Idle
  /\ left[op] > 0
  /\ left' = [left EXCEPT ![op] = @ - 1]

At(r, op, pc) == requests[r] # Idle /\ requests[r].op = op /\ requests[r].pc = pc
Proceed(r, q) == requests' = [requests EXCEPT ![r] = q]
End(r)        == requests' = [requests EXCEPT ![r] = Idle]

SquadInit ==
  /\ teams = FirstTeams /\ roster = FirstRosters
  /\ players = FirstPlayers
  /\ coaches = FirstCoaches /\ assigned = FirstAssigned
  /\ requests = [r \in Requests |-> Idle]

-----------------------------------------------------------------------------
(* What the rules evaluate, load_context, and what the services validate.  *)

Context ==
  [teams |-> teams, roster |-> roster, players |-> players,
   coaches |-> coaches, assigned |-> assigned]

TeamsIn(c)   == {t \in Teams : c.teams[t] # None}
PlayersIn(c) == {p \in Players : c.players[p] # None}
CoachesIn(c) == {k \in Coaches : c.coaches[k] # None}

ActivePlayer(c, p) == p \in PlayersIn(c) /\ c.players[p].active

\* _validate_roster_players, of a list without duplicates.
RosterValid(c, ids) ==
  /\ Cardinality(ids) \in MinRoster .. MaxRoster
  /\ \A p \in ids : ActivePlayer(c, p)

ListValid(c, list) == Cardinality(ToSet(list)) = Len(list) /\ RosterValid(c, ToSet(list))

NameTaken(name, group, but) ==
  \E t \in TeamsIn(Context) \ {but} :
    Normal[teams[t].name] = Normal[name] /\ teams[t].group = group

\* The rank of a member by position, equal positions by player id.
Rank(members, p) ==
  Cardinality({q \in DOMAIN members :
                 \/ members[q] < members[p]
                 \/ members[q] = members[p] /\ q <= p})

Normalized(members) == [p \in DOMAIN members |-> Rank(members, p)]

\* A complete roster in the order of the submitted list.
Listed(list) == [p \in ToSet(list) |-> CHOOSE n \in DOMAIN list : list[n] = p]

-----------------------------------------------------------------------------
(* The rules.  A finding names its rule, what it is about, and the repair   *)
(* it offers.                                                              *)

Finding(rule, about, repair) == [rule |-> rule, about |-> about, repair |-> repair]

ActiveUnassignedPlayers(c) ==
  {Finding("player_active_unassigned", <<p>>, None) :
     p \in {p \in PlayersIn(c) : c.players[p].active /\ \A t \in TeamsIn(c) :
                                                          p \notin DOMAIN c.roster[t]}}

InactivePlayerAction(c, t, p) ==
  IF RosterValid(c, DOMAIN c.roster[t] \ {p})
  THEN [do |-> "remove", team |-> t, player |-> p, version |-> c.teams[t].version]
  ELSE None

InactiveRosteredPlayers(c) ==
  UNION {{Finding("player_inactive_rostered", <<p, t>>, InactivePlayerAction(c, t, p)) :
            p \in {p \in DOMAIN c.roster[t] : ~ActivePlayer(c, p)}} : t \in TeamsIn(c)}

SamePerson(c, p) ==
  {q \in PlayersIn(c) : Normal[c.players[q].name] = Normal[c.players[p].name]}

NormalizedPlayerDuplicates(c) ==
  {Finding("player_duplicate", SetToSortSeq(SamePerson(c, p), <), None) :
     p \in {p \in PlayersIn(c) : Cardinality(SamePerson(c, p)) > 1}}

TeamRosterBounds(c) ==
  {Finding("below_minimum", <<t>>, None) :
     t \in {t \in TeamsIn(c) : Cardinality(DOMAIN c.roster[t]) < MinRoster}}
  \cup {Finding("above_maximum", <<t>>, None) :
     t \in {t \in TeamsIn(c) : Cardinality(DOMAIN c.roster[t]) > MaxRoster}}

\* Mutant: a roster with an inactive member is offered for normalization.
NormalizationOfferedToAny(c, t) ==
  [do |-> "normalize", team |-> t, version |-> c.teams[t].version]

RosterNormalizationAction(c, t) ==
  IF RosterValid(c, DOMAIN c.roster[t])
  THEN [do |-> "normalize", team |-> t, version |-> c.teams[t].version]
  ELSE None

\* The rules of the order a roster breaks; the last only if no other is.
OrderFaults(members) ==
  LET taken    == {members[p] : p \in DOMAIN members}
      positive == {n \in taken : n > 0}
      twice    == \E p, q \in DOMAIN members : p # q /\ members[p] = members[q]
      between  == \E n \in positive, x \in positive : \E i \in n .. x : i \notin positive
      faults   == {f \in {"non_positive", "duplicate", "gap"} :
                     \/ f = "non_positive" /\ positive # taken
                     \/ f = "duplicate" /\ twice
                     \/ f = "gap" /\ between}
  IN IF faults = {} /\ taken # 1 .. Cardinality(DOMAIN members)
     THEN {"non_contiguous"} ELSE faults

RosterOrderFindings(c) ==
  UNION {{Finding(f, <<t>>, RosterNormalizationAction(c, t)) :
            f \in OrderFaults(c.roster[t])} :
         t \in {t \in TeamsIn(c) : DOMAIN c.roster[t] # {}}}

SameName(c, t) ==
  {u \in TeamsIn(c) : /\ Normal[c.teams[u].name] = Normal[c.teams[t].name]
                      /\ c.teams[u].group = c.teams[t].group}

NormalizedTeamNameConflicts(c) ==
  {Finding("team_name_conflict", <<SameName(c, t)>>, None) :
     t \in {t \in TeamsIn(c) : Cardinality(SameName(c, t)) > 1}}

TeamsWithoutCoaches(c) ==
  {Finding("team_no_coach", <<t>>, None) :
     t \in {t \in TeamsIn(c) : \A k \in CoachesIn(c) : t \notin c.assigned[k]}}

\* Exactly one active head coach, assigned to every team.
SoleHeadCoach(c) ==
  LET heads == {k \in CoachesIn(c) : c.coaches[k].role = "head coach"}
      sound == /\ Cardinality(heads) = 1
               /\ \A k \in heads : c.coaches[k].active /\ c.assigned[k] = TeamsIn(c)
  IN IF sound THEN {} ELSE {Finding("sole_head_coach", <<>>, None)}

InactiveAssistants(c) ==
  {k \in CoachesIn(c) : c.coaches[k].role = "assistant coach" /\ ~c.coaches[k].active}

InactiveAssistantAssignments(c) ==
  UNION {{Finding("coach_inactive_assigned", <<k, t>>,
            [do |-> "unassign", team |-> t, coach |-> k, version |-> c.coaches[k].version]) :
            t \in c.assigned[k]} : k \in InactiveAssistants(c)}

ActiveUnassignedAssistants(c) ==
  {Finding("assistant_unassigned", <<k>>, None) :
     k \in {k \in CoachesIn(c) : /\ c.coaches[k].role = "assistant coach"
                                 /\ c.coaches[k].active /\ c.assigned[k] = {}}}

InvalidRoleAssignments(c) ==
  UNION {{Finding("invalid_role", <<k, t>>, None) : t \in c.assigned[k]} :
         k \in {k \in CoachesIn(c) : c.coaches[k].role \notin CoachRoles}}

Findings(c) ==
  UNION {ActiveUnassignedPlayers(c), InactiveRosteredPlayers(c),
         NormalizedPlayerDuplicates(c), TeamRosterBounds(c), RosterOrderFindings(c),
         NormalizedTeamNameConflicts(c), TeamsWithoutCoaches(c), SoleHeadCoach(c),
         InactiveAssistantAssignments(c), ActiveUnassignedAssistants(c),
         InvalidRoleAssignments(c)}

-----------------------------------------------------------------------------
(* The repairs: what the services check of them and what they write.        *)

Accepted(c, x) ==
  CASE x.do = "normalize" ->
         /\ RosterValid(c, DOMAIN c.roster[x.team])
         /\ Normalized(c.roster[x.team]) # c.roster[x.team]
    [] x.do = "remove" ->
         /\ x.player \in DOMAIN c.roster[x.team]
         /\ ~c.players[x.player].active
         /\ RosterValid(c, DOMAIN c.roster[x.team] \ {x.player})
    [] x.do = "unassign" ->
         x.coach \in InactiveAssistants(c) /\ x.team \in c.assigned[x.coach]

\* The positions of the members that were read; one added since keeps its own.
Renumbered(members, read) ==
  [p \in DOMAIN members |-> IF p \in DOMAIN read THEN Rank(read, p) ELSE members[p]]

Repaired(c, x, read) ==
  CASE x.do = "normalize" ->
         [c EXCEPT !.roster[x.team] = Renumbered(@, read), !.teams[x.team].version = @ + 1]
    [] x.do = "remove" ->
         [c EXCEPT !.roster[x.team] = [p \in DOMAIN @ \ {x.player} |-> @[p]],
                   !.teams[x.team].version = @ + 1]
    [] x.do = "unassign" ->
         [c EXCEPT !.assigned[x.coach] = @ \ {x.team}, !.coaches[x.coach].version = @ + 1]

\* A team row is locked from the claim of an update to its commit.
Locked(t) == \E r \in Requests : At(r, "update", "commit") /\ requests[r].team = t

\* Mutant: the repair takes whatever version it finds.
ClaimedUnversioned(x) == x.do = "unassign" \/ ~Locked(x.team)

Claimed(x) ==
  IF x.do = "unassign" THEN coaches[x.coach].version = x.version
                       ELSE ~Locked(x.team) /\ teams[x.team].version = x.version

\* remediate: the confirmed repair must be one a current finding offers, its
\* version included.
Remediate(r) ==
  /\ Starts(r, "repair")
  /\ \E f \in Findings(Context) :
       /\ f.repair # None
       /\ Proceed(r, [op |-> "repair", pc |-> "read", do |-> f.repair])
  /\ UNCHANGED squads

RepairRead(r) ==
  /\ At(r, "repair", "read")
  /\ LET x == requests[r].do
     IN IF Accepted(Context, x)
        THEN Proceed(r, [op |-> "repair", pc |-> "commit", do |-> x, read |-> roster[x.team]])
        ELSE End(r)
  /\ UNCHANGED <<squads, left>>

RepairCommit(r) ==
  /\ At(r, "repair", "commit")
  /\ LET x == requests[r].do
         c == Repaired(Context, x, requests[r].read)
     IN /\ Claimed(x)
        /\ teams' = c.teams /\ roster' = c.roster
        /\ coaches' = c.coaches /\ assigned' = c.assigned
  /\ End(r)
  /\ UNCHANGED <<players, left>>

RepairRefused(r) ==
  /\ At(r, "repair", "commit")
  /\ LET x == requests[r].do
     IN x.do # "unassign" => ~Locked(x.team)
  /\ ~Claimed(requests[r].do)
  /\ End(r)
  /\ UNCHANGED <<squads, left>>

-----------------------------------------------------------------------------
(* Teams and rosters.                                                      *)

CreateTeam(r) ==
  /\ Starts(r, "create")
  /\ \E t \in Teams, name \in Names, group \in AgeGroups, list \in Lists :
       /\ teams[t] = None /\ \A q \in Requests : ~(At(q, "create", "commit") /\ requests[q].team = t)
       /\ ListValid(Context, list) /\ ~NameTaken(name, group, None)
       /\ Proceed(r, [op |-> "create", pc |-> "commit", team |-> t,
                      name |-> name, group |-> group, list |-> list])
  /\ UNCHANGED squads

\* Mutant: the version column has no default.
NewTeamUnversioned(q, version) == [name |-> q.name, group |-> q.group, version |-> 0]
NewTeam(q, version)            == [name |-> q.name, group |-> q.group, version |-> version]

CreateTeamCommit(r) ==
  /\ At(r, "create", "commit")
  /\ LET q == requests[r]
     IN /\ teams'  = [teams EXCEPT ![q.team] = NewTeam(q, 1)]
        /\ roster' = [roster EXCEPT ![q.team] = Listed(q.list)]
  /\ End(r)
  /\ UNCHANGED <<players, coaches, assigned, left>>

\* update_team claims the version the coach saw before it validates the list
\* and the name; only a current version gets that far.
UpdateTeam(r) ==
  /\ Starts(r, "update")
  /\ \E t \in TeamsIn(Context), name \in Names, group \in AgeGroups, list \in Lists :
       /\ ~Locked(t)
       /\ ListValid(Context, list) /\ ~NameTaken(name, group, t)
       /\ Proceed(r, [op |-> "update", pc |-> "commit", team |-> t,
                      name |-> name, group |-> group, list |-> list])
  /\ UNCHANGED squads

\* The old list is deleted, the new one inserted and both committed at once: no
\* other transaction sees the team without members.
UpdateTeamCommit(r) ==
  /\ At(r, "update", "commit")
  /\ LET q == requests[r]
     IN /\ teams'  = [teams EXCEPT ![q.team] = NewTeam(q, @.version + 1)]
        /\ roster' = [roster EXCEPT ![q.team] = Listed(q.list)]
  /\ End(r)
  /\ UNCHANGED <<players, coaches, assigned, left>>

\* The last position is read without a lock or a version.
AddPlayer(r) ==
  /\ Starts(r, "add")
  /\ \E t \in TeamsIn(Context), p \in PlayersIn(Context) :
       /\ p \notin DOMAIN roster[t]
       /\ Proceed(r, [op |-> "add", pc |-> "commit", team |-> t, player |-> p,
                      last |-> IF DOMAIN roster[t] = {} THEN 0
                               ELSE Max({roster[t][q] : q \in DOMAIN roster[t]})])
  /\ UNCHANGED squads

Joined(members, p, n) == [q \in DOMAIN members \cup {p} |-> IF q = p THEN n ELSE members[q]]

\* A membership inserted meanwhile violates the primary key.
AddPlayerCommit(r) ==
  /\ At(r, "add", "commit")
  /\ LET q == requests[r]
     IN roster' = IF q.player \in DOMAIN roster[q.team] THEN roster
                  ELSE [roster EXCEPT ![q.team] = Joined(@, q.player, q.last + 1)]
  /\ End(r)
  /\ UNCHANGED <<teams, players, coaches, assigned, left>>

-----------------------------------------------------------------------------
(* Players and coaches.                                                    *)

\* The duplicate check compares names as they are, and is not repeated when
\* the row is inserted.
CreatePlayer(r) ==
  /\ Starts(r, "player")
  /\ \E p \in Players \ PlayersIn(Context), name \in Names :
       /\ \A q \in Requests : ~(At(q, "player", "commit") /\ requests[q].player = p)
       /\ \A o \in PlayersIn(Context) : players[o].name # name
       /\ Proceed(r, [op |-> "player", pc |-> "commit", player |-> p, name |-> name])
  /\ UNCHANGED squads

CreatePlayerCommit(r) ==
  /\ At(r, "player", "commit")
  /\ players' = [players EXCEPT ![requests[r].player] = [name |-> requests[r].name, active |-> TRUE]]
  /\ End(r)
  /\ UNCHANGED <<teams, roster, coaches, assigned, left>>

\* update_player at the current version; the account link is AuthSessions'.
UpdatePlayer(r) ==
  /\ Starts(r, "edit")
  /\ \E p \in PlayersIn(Context), name \in Names, active \in BOOLEAN :
       players' = [players EXCEPT ![p] = [name |-> name, active |-> active]]
  /\ UNCHANGED <<teams, roster, coaches, assigned, requests>>

CreateCoach(r) ==
  /\ Starts(r, "coach")
  /\ \E k \in Coaches \ CoachesIn(Context), ts \in SUBSET TeamsIn(Context) :
       /\ coaches' = [coaches EXCEPT ![k] =
                        [role |-> "assistant coach", active |-> TRUE, version |-> 1]]
       /\ assigned' = [assigned EXCEPT ![k] = ts]
  /\ UNCHANGED <<teams, roster, players, requests>>

\* Status and role changes; both move the version of the users row.
ToggleCoachStatus(r) ==
  /\ Starts(r, "status")
  /\ \E k \in CoachesIn(Context), active \in BOOLEAN :
       /\ coaches[k].role \in CoachRoles
       /\ coaches' = [coaches EXCEPT ![k].active = active, ![k].version = @ + 1]
  /\ UNCHANGED <<teams, roster, players, assigned, requests>>

ChangeRole(r) ==
  /\ Starts(r, "status")
  /\ \E k \in CoachesIn(Context), role \in Roles :
       /\ coaches[k].role # role
       /\ coaches' = [coaches EXCEPT ![k].role = role, ![k].version = @ + 1]
  /\ UNCHANGED <<teams, roster, players, assigned, requests>>

UpdateAssignments(r) ==
  /\ Starts(r, "assign")
  /\ \E k \in CoachesIn(Context), ts \in SUBSET TeamsIn(Context) :
       /\ coaches[k].role \in CoachRoles /\ coaches[k].active
       /\ Proceed(r, [op |-> "assign", pc |-> "commit", coach |-> k, teams |-> ts,
                      version |-> coaches[k].version])
  /\ UNCHANGED squads

UpdateAssignmentsCommit(r) ==
  /\ At(r, "assign", "commit")
  /\ LET q == requests[r]
     IN IF coaches[q.coach].version = q.version
        THEN /\ assigned' = [assigned EXCEPT ![q.coach] = q.teams]
             /\ coaches' = [coaches EXCEPT ![q.coach].version = @ + 1]
        ELSE UNCHANGED <<assigned, coaches>>
  /\ End(r)
  /\ UNCHANGED <<teams, roster, players, left>>

SquadStep(r) ==
  \/ Remediate(r) \/ RepairRead(r) \/ RepairCommit(r) \/ RepairRefused(r)
  \/ CreateTeam(r) \/ CreateTeamCommit(r)
  \/ UpdateTeam(r) \/ UpdateTeamCommit(r)
  \/ AddPlayer(r) \/ AddPlayerCommit(r)
  \/ CreatePlayer(r) \/ CreatePlayerCommit(r) \/ UpdatePlayer(r)
  \/ CreateCoach(r) \/ ToggleCoachStatus(r) \/ ChangeRole(r)
  \/ UpdateAssignments(r) \/ UpdateAssignmentsCommit(r)

-----------------------------------------------------------------------------
(* The properties.                                                         *)

SquadTypes ==
  /\ teams \in [Teams -> TeamRows \cup {None}]
  /\ players \in [Players -> PlayerRows \cup {None}]
  /\ coaches \in [Coaches -> CoachRows \cup {None}]
  /\ assigned \in [Coaches -> SUBSET Teams]
  /\ DOMAIN roster = Teams
  /\ \A t \in Teams : DOMAIN roster[t] \subseteq PlayersIn(Context) /\ \A p \in DOMAIN roster[t] : roster[t][p] \in Int

\* No interleaving of repairs, replacements and additions leaves a team below
\* the minimum: a removal that counted the members that would remain is void
\* once the roster it counted has been replaced.
RosterNeverShort ==
  \A t \in TeamsIn(Context) : Cardinality(DOMAIN roster[t]) >= MinRoster

\* The rules and the services, which check the same things in different words,
\* agree: a repair that is offered is accepted as long as nothing changes, and
\* the finding it was offered for is gone after it.  And no disorder is missed:
\* a roster that is not numbered 1 to n has a finding, and a repair when its
\* members are as a submitted list must be.
OfferedRepairsWork ==
  LET c == Context
      found == Findings(c) IN
  /\ \A f \in found : f.repair # None =>
       /\ Accepted(c, f.repair)
       /\ LET after == Repaired(c, f.repair, c.roster[f.repair.team])
          IN \A g \in Findings(after) : <<g.rule, g.about>> # <<f.rule, f.about>>
  /\ \A t \in TeamsIn(c) :
       DOMAIN roster[t] # {} /\ Normalized(roster[t]) # roster[t] =>
         \E f \in found : /\ f.about = <<t>> /\ f.rule \in OrderFaults(roster[t])
                          /\ RosterValid(c, DOMAIN roster[t]) => f.repair # None
=============================================================================
