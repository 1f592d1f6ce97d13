---------------------------- MODULE AuthSessions ----------------------------
(***************************************************************************)
(* Accounts, their login sessions and the login limiter: login, refresh    *)
(* with token rotation, logout, profile edits, and the administrator's     *)
(* commands that revoke sessions (services/auth_service.py,                *)
(* rate_limiter.py, user_service.py, player_service.py,                    *)
(* player_account_service.py, coach_service.py, middleware/auth.py).       *)
(*                                                                         *)
(* A request is a coroutine with a database session of its own at READ     *)
(* COMMITTED: it reads, waits, decides and writes in separate steps, and   *)
(* what it read may be old when it writes.  A write that waits for a row   *)
(* lock is the step in which the transaction commits.                      *)
(***************************************************************************)
EXTENDS Integers, Sequences, FiniteSets, SequencesExt

CONSTANTS
  Users, Players,        \* accounts and player profiles
  Stranger, Addresses,   \* an email of no account, client addresses
  Requests,              \* requests that may be in flight at once
  Window, MaxAttempts, CleanupEvery,      \* the limiter
  Lifetime, Inactivity, AccessLifetime,   \* of a session and an access token
  Workloads,                 \* bounds: the calls of each kind, and the clock
  FirstRow, FirstProfile,    \* the accounts and profiles to begin with
  Idle, None

VARIABLES
  accounts,      \* users rows
  players,       \* players rows: active, user_id, version_number
  sessions,      \* auth_sessions rows; a session's id is its position
  issued,        \* issued[t] is the session refresh token t was issued for
  attempts,      \* InMemoryRateLimiter._attempts; no failures is no key
  lastCleanup,   \* InMemoryRateLimiter._last_cleanup
  requests,      \* what each request has read
  now,
  left           \* calls of each kind that may still come

vars == <<accounts, players, sessions, issued, attempts, lastCleanup,
          requests, now, left>>

Emails == Users \cup {Stranger}
Keys   == Emails \X Addresses
Roles  == {"head coach", "assistant coach", "player"}

RevokingOps == {"disable", "password", "revoke"}
AccountOps  == RevokingOps \cup {"reactivate", "role"}
LinkOps     == {"link", "unlink", "reassign"}
PlayerOps   == LinkOps \cup {"deactivate", "activate"}
Ops         == {"tick", "login", "refresh", "logout", "me"} \cup AccountOps \cup PlayerOps

Init ==
  /\ accounts = FirstRow
  /\ players = FirstProfile
  /\ sessions = <<>> /\ issued = <<>>
  /\ attempts = [k \in Keys |-> <<>>] /\ lastCleanup = 0
  /\ requests = [r \in Requests |-> Idle]
  /\ now = 0
  /\ left \in Workloads

Starts(r, op) ==
  /\ requests[r] = Idle
  /\ left[op] > 0
  /\ left' = [left EXCEPT ![op] = @ - 1]

At(r, ops, pc) ==
  requests[r] # Idle /\ requests[r].op \in ops /\ requests[r].pc = pc

Proceed(r, q) == requests' = [requests EXCEPT ![r] = q]
End(r)        == requests' = [requests EXCEPT ![r] = Idle]

(***************************************************************************)
(* Accounts and sessions as a request finds them.                          *)
(***************************************************************************)
\* A linked inactive profile bars its account; an unlinked Player may log in.
ProfileAllows(u) ==
  accounts[u].role = "player" =>
    \A p \in Players : players[p].user = u => players[p].active

Allowed(u) == accounts[u].active /\ ProfileAllows(u)

Unrevoked(s) == sessions[s].revoked = None
SessionsOf(u) == {s \in DOMAIN sessions : sessions[s].user = u /\ Unrevoked(s)}

\* A bearer token of session s: one was issued at its last login or refresh.
Authenticated(s) ==
  /\ now < sessions[s].lastUsed + AccessLifetime
  /\ Unrevoked(s) /\ sessions[s].expires > now
  /\ Allowed(sessions[s].user)

\* Logging out also accepts the session's current refresh token.
LogoutAccepted(s) ==
  Unrevoked(s) /\ sessions[s].expires > now /\ Allowed(sessions[s].user)

(***************************************************************************)
(* The limiter.                                                            *)
(***************************************************************************)
\* The timestamps a request at the given time still counts.
Recent(times, at) ==
  LET kept[i \in 0 .. Len(times)] ==
        IF i = 0 THEN <<>>
        ELSE IF times[i] > at - Window THEN Append(kept[i - 1], times[i])
        ELSE kept[i - 1]
  IN  kept[Len(times)]

Live(times) == Recent(times, now)

CleanupDue == now - lastCleanup >= CleanupEvery

Swept == IF CleanupDue THEN [k \in Keys |-> Live(attempts[k])] ELSE attempts

LimitedLate(key) == Len(Live(attempts[key])) > MaxAttempts

Limited(key) == Len(Live(attempts[key])) >= MaxAttempts

CheckLimiter(key) ==
  /\ attempts' = [Swept EXCEPT ![key] = Live(@)]
  /\ lastCleanup' = IF CleanupDue THEN now ELSE lastCleanup

RecordFailure(key) ==
  /\ attempts' = [Swept EXCEPT ![key] = Append(Live(@), now)]
  /\ lastCleanup' = IF CleanupDue THEN now ELSE lastCleanup

LoginCheck(r, email, address, password) ==
  LET key == <<email, address>>
  IN  /\ Starts(r, "login")
      /\ CheckLimiter(key)
      /\ IF Limited(key) THEN UNCHANGED requests
         ELSE Proceed(r, [op |-> "login", pc |-> "verify", key |-> key,
                          password |-> password])
      /\ UNCHANGED <<accounts, players, sessions, issued, now>>

PasswordAccepted(q) ==
  /\ q.key[1] \in Users
  /\ q.password = accounts[q.key[1]].password
  /\ Allowed(q.key[1])

LoginVerify(r) ==
  /\ At(r, {"login"}, "verify")
  /\ LET q == requests[r]
     IN  IF PasswordAccepted(q)
         THEN Proceed(r, [q EXCEPT !.pc = "commit"]) /\ UNCHANGED <<attempts, lastCleanup>>
         ELSE End(r) /\ RecordFailure(q.key)
  /\ UNCHANGED <<accounts, players, sessions, issued, now, left>>

NextToken == Len(issued) + 1

NewSessionOffByOne(u) ==
  [user |-> u, current |-> NextToken + 1, rotated |-> <<>>, version |-> 1,
   lastUsed |-> now, expires |-> now + Lifetime, revoked |-> None]

NewSession(u) ==
  [user |-> u, current |-> NextToken, rotated |-> <<>>, version |-> 1,
   lastUsed |-> now, expires |-> now + Lifetime, revoked |-> None]

LoginCommit(r) ==
  /\ At(r, {"login"}, "commit")
  /\ sessions' = Append(sessions, NewSession(requests[r].key[1]))
  /\ issued' = Append(issued, Len(sessions) + 1)
  /\ Proceed(r, [requests[r] EXCEPT !.pc = "reset"])
  /\ UNCHANGED <<accounts, players, attempts, lastCleanup, now, left>>

LoginReset(r) ==
  /\ At(r, {"login"}, "reset")
  /\ attempts' = [attempts EXCEPT ![requests[r].key] = <<>>]
  /\ End(r)
  /\ UNCHANGED <<accounts, players, sessions, issued, lastCleanup, now, left>>

(***************************************************************************)
(* Refresh: exchange a token for the next one, once.                       *)
(***************************************************************************)
RefreshRead(r, t) ==
  /\ Starts(r, "refresh")
  /\ Proceed(r, [op |-> "refresh", pc |-> "check", token |-> t, id |-> issued[t],
                 row |-> sessions[issued[t]], at |-> now])
  /\ UNCHANGED <<accounts, players, sessions, issued, attempts, lastCleanup, now>>

Reused(q) == q.token \in ToSet(q.row.rotated)

Fresh(row, at) ==
  row.revoked = None /\ row.expires > at /\ row.lastUsed > at - Inactivity

\* The family of a token is its session; this write has no guard.
RejectTokenReuse(r) ==
  /\ sessions' = [sessions EXCEPT ![requests[r].id].revoked = "token_reuse"]
  /\ End(r)

RefreshCheck(r) ==
  /\ At(r, {"refresh"}, "check")
  /\ LET q == requests[r]
     IN  \/ Reused(q) /\ RejectTokenReuse(r)
         \/ /\ ~Reused(q)
            /\ IF Fresh(q.row, q.at) /\ Allowed(q.row.user)
               THEN Proceed(r, [q EXCEPT !.pc = "rotate"])
               ELSE End(r)
            /\ UNCHANGED sessions
  /\ UNCHANGED <<accounts, players, issued, attempts, lastCleanup, now, left>>

RotatesUnlessRevoked(q) == Fresh(sessions[q.id], q.at)

RotatesIfUnchanged(q) ==
  /\ sessions[q.id].version = q.row.version
  /\ sessions[q.id].current = q.token

\* The WHERE clause of the rotating UPDATE.
Rotates(q) == RotatesIfUnchanged(q) /\ Fresh(sessions[q.id], q.at)

Rotation(q) ==
  [sessions EXCEPT ![q.id] = [@ EXCEPT
     !.current  = NextToken,
     !.rotated  = Append(q.row.rotated, q.row.current),
     !.lastUsed = q.at,
     !.version  = q.row.version + 1]]

NeverLost(q) == FALSE

LostToRotation(q) == q.token \in ToSet(sessions[q.id].rotated)

RefreshRotate(r) ==
  /\ At(r, {"refresh"}, "rotate")
  /\ LET q == requests[r]
     IN  \/ /\ Rotates(q)
            /\ sessions' = Rotation(q)
            /\ issued' = Append(issued, q.id)
            /\ End(r)
         \/ /\ ~Rotates(q)
            /\ IF LostToRotation(q) THEN RejectTokenReuse(r)
                                    ELSE End(r) /\ UNCHANGED sessions
            /\ UNCHANGED issued
  /\ UNCHANGED <<accounts, players, attempts, lastCleanup, now, left>>

(***************************************************************************)
(* Requests of the account's owner.  The ORM writes the columns it changed, *)
(* with the values it computed from the row it read.                       *)
(***************************************************************************)
LogoutRead(r, s) ==
  /\ Starts(r, "logout")
  /\ LogoutAccepted(s)
  /\ Proceed(r, [op |-> "logout", pc |-> "write", id |-> s, row |-> sessions[s]])
  /\ UNCHANGED <<accounts, players, sessions, issued, attempts, lastCleanup, now>>

LogoutWrite(r) ==
  /\ At(r, {"logout"}, "write")
  /\ LET q == requests[r]
     IN  sessions' = [sessions EXCEPT ![q.id] = [@ EXCEPT
                        !.revoked = "logout", !.version = q.row.version + 1]]
  /\ End(r)
  /\ UNCHANGED <<accounts, players, issued, attempts, lastCleanup, now, left>>

\* A transaction that wrote the account's row has not committed yet.
Locked(u) ==
  \E r \in Requests : At(r, AccountOps \ {"revoke"}, "commit") /\ requests[r].user = u

MeRead(r, s) ==
  /\ Starts(r, "me")
  /\ Authenticated(s)
  /\ Proceed(r, [op |-> "me", pc |-> "write", user |-> sessions[s].user,
                 row |-> accounts[sessions[s].user]])
  /\ UNCHANGED <<accounts, players, sessions, issued, attempts, lastCleanup, now>>

RowRewritten(q) ==
  [accounts EXCEPT ![q.user] = [q.row EXCEPT !.version = @ + 1]]

ProfileEdited(q) == [accounts EXCEPT ![q.user].version = q.row.version + 1]

MeWrite(r) ==
  /\ At(r, {"me"}, "write")
  /\ ~Locked(requests[r].user)
  /\ accounts' = ProfileEdited(requests[r])
  /\ End(r)
  /\ UNCHANGED <<players, sessions, issued, attempts, lastCleanup, now, left>>

(***************************************************************************)
(* Administration of an account: read the row, claim it (under its version *)
(* when the command carries one) and list the sessions to revoke, commit.  *)
(* A request holds the session rows it has seen, with the versions it read. *)
(***************************************************************************)
AsRead(ids) == {<<s, sessions[s].version>> : s \in ids}

\* The session that authenticated the request, when it is one of those the command
\* will revoke: an owner's password change, a head coach's own revocation.
OwnSessions(op, u) ==
  {s \in SessionsOf(u) : /\ Authenticated(s)
                        /\ \/ op = "password"
                           \/ op = "revoke" /\ accounts[u].role = "head coach"}

AccountRead(r, u, op, role, versioned) ==
  /\ Starts(r, op)
  /\ versioned => op \in {"disable", "reactivate"}
  /\ \E own \in {{}} \cup {{v} : v \in AsRead(OwnSessions(op, u))} :
       Proceed(r, [op |-> op, pc |-> "claim", user |-> u, row |-> accounts[u],
                   role |-> IF op = "role" THEN role ELSE None, versioned |-> versioned,
                   seen |-> own])
  /\ UNCHANGED <<accounts, players, sessions, issued, attempts, lastCleanup, now>>

\* The live sessions a revocation lists; a row the request already holds keeps
\* the version it was read at.
Loaded(u, seen) ==
  {v \in seen : v[1] \in SessionsOf(u)} \cup AsRead(SessionsOf(u) \ {v[1] : v \in seen})

AccountClaim(r) ==
  /\ At(r, AccountOps, "claim")
  /\ LET q == requests[r]
     IN  /\ q.op # "revoke" => ~Locked(q.user)
         /\ IF q.versioned /\ accounts[q.user].version # q.row.version
            THEN End(r)
            ELSE Proceed(r, [q EXCEPT !.pc = "commit",
                   !.seen = IF q.op \in RevokingOps THEN Loaded(q.user, q.seen) ELSE {}])
  /\ UNCHANGED <<accounts, players, sessions, issued, attempts, lastCleanup, now, left>>

\* An UPDATE leaves out a column that is set to the value it was read with.
Written(read, set, stored) == IF set = read THEN stored ELSE set

AccountAfter(q) ==
  LET row == [accounts[q.user] EXCEPT !.version = q.row.version + 1]
  IN  CASE q.op = "disable"    -> [row EXCEPT !.active = Written(q.row.active, FALSE, @)]
        [] q.op = "reactivate" -> [row EXCEPT !.active = Written(q.row.active, TRUE, @)]
        [] q.op = "password"   -> [row EXCEPT !.password = @ + 1]
        [] q.op = "role"       -> [row EXCEPT !.role = Written(q.row.role, q.role, @)]
        [] OTHER               -> accounts[q.user]

Revoked(seen, reason) ==
  [s \in DOMAIN sessions |->
     IF \E v \in seen : v[1] = s
     THEN [sessions[s] EXCEPT !.revoked = reason,
                              !.version = 1 + (CHOOSE v \in seen : v[1] = s)[2]]
     ELSE sessions[s]]

AccountCommit(r) ==
  /\ At(r, AccountOps, "commit")
  /\ LET q == requests[r]
     IN  /\ accounts' = [accounts EXCEPT ![q.user] = AccountAfter(q)]
         /\ sessions' = Revoked(q.seen, q.op)
  /\ End(r)
  /\ UNCHANGED <<players, issued, attempts, lastCleanup, now, left>>

(***************************************************************************)
(* Player profiles and their accounts, one profile per account.            *)
(***************************************************************************)
\* Another profile holds the account.
LinkedElsewhere(u, p) == \E other \in Players \ {p} : players[other].user = u

LinkPossible(op, p, u) ==
  CASE op = "link"     -> /\ players[p].user = None
                          /\ accounts[u].role = "player" /\ ~LinkedElsewhere(u, p)
    [] op = "reassign" -> /\ players[p].user # None
                          /\ accounts[u].role = "player" /\ ~LinkedElsewhere(u, p)
    [] op = "unlink"   -> players[p].user # None
    [] OTHER           -> TRUE

PlayerRead(r, p, op, u) ==
  /\ Starts(r, op)
  /\ LinkPossible(op, p, u)
  /\ Proceed(r, [op |-> op, pc |-> "claim", player |-> p,
                 user |-> IF op \in {"link", "reassign"} THEN u ELSE None,
                 row |-> players[p], seen |-> {}])
  /\ UNCHANGED <<accounts, players, sessions, issued, attempts, lastCleanup, now>>

PlayerLocked(p) ==
  \E r \in Requests : At(r, PlayerOps, "commit") /\ requests[r].player = p

\* Deactivating a linked profile revokes the sessions of its account.
Unseats(q) == q.op = "deactivate" /\ q.row.active /\ q.row.user # None

PlayerClaim(r) ==
  /\ At(r, PlayerOps, "claim")
  /\ LET q == requests[r]
     IN  /\ ~PlayerLocked(q.player)
         /\ IF players[q.player].version # q.row.version
            THEN End(r)
            ELSE Proceed(r, [q EXCEPT !.pc = "commit",
                   !.seen = IF Unseats(q) THEN Loaded(q.row.user, q.seen) ELSE {}])
  /\ UNCHANGED <<accounts, players, sessions, issued, attempts, lastCleanup, now, left>>

PlayerAfter(q) ==
  LET row == players[q.player]
  IN  [row EXCEPT
         !.version = row.version + 1,
         !.active  = IF q.op \in LinkOps THEN row.active ELSE q.op = "activate",
         !.user    = IF q.op = "unlink" THEN None
                     ELSE IF q.op \in LinkOps THEN q.user ELSE row.user]

\* The partial unique index on players.user_id.
IndexRefuses(q) == q.op \in {"link", "reassign"} /\ LinkedElsewhere(q.user, q.player)

PlayerCommit(r) ==
  /\ At(r, PlayerOps, "commit")
  /\ LET q == requests[r]
     IN  IF IndexRefuses(q) THEN UNCHANGED <<players, sessions>>
         ELSE /\ players' = [players EXCEPT ![q.player] = PlayerAfter(q)]
              /\ sessions' = Revoked(q.seen, "linked_player_inactive")
  /\ End(r)
  /\ UNCHANGED <<accounts, issued, attempts, lastCleanup, now, left>>

Tick ==
  /\ left["tick"] > 0
  /\ left' = [left EXCEPT !["tick"] = @ - 1]
  /\ now' = now + 1
  /\ UNCHANGED <<accounts, players, sessions, issued, attempts, lastCleanup, requests>>

Next ==
  \/ Tick
  \/ \E r \in Requests :
       \/ \E e \in Emails, a \in Addresses, password \in 1 .. 2 : LoginCheck(r, e, a, password)
       \/ LoginVerify(r)
       \/ LoginCommit(r)
       \/ LoginReset(r)
       \/ \E t \in DOMAIN issued : RefreshRead(r, t)
       \/ RefreshCheck(r)
       \/ RefreshRotate(r)
       \/ \E s \in DOMAIN sessions : LogoutRead(r, s) \/ MeRead(r, s)
       \/ LogoutWrite(r)
       \/ MeWrite(r)
       \/ \E u \in Users, op \in AccountOps, role \in Roles, versioned \in BOOLEAN :
            AccountRead(r, u, op, role, versioned)
       \/ AccountClaim(r)
       \/ AccountCommit(r)
       \/ \E p \in Players, op \in PlayerOps, u \in Users : PlayerRead(r, p, op, u)
       \/ PlayerClaim(r)
       \/ PlayerCommit(r)

Spec == Init /\ [][Next]_vars
-----------------------------------------------------------------------------
Times   == 0 .. now
Tokens  == 1 .. Len(issued)
Reasons == {"token_reuse", "logout", "linked_player_inactive"} \cup AccountOps

AccountRows ==
  [role : Roles, active : BOOLEAN, password : Nat \ {0}, version : Nat \ {0}]
PlayerRows  == [active : BOOLEAN, user : Users \cup {None}, version : Nat \ {0}]

\* The accounts and profiles to begin with, the limiter's settings, and a mark
\* no reason is spelled as.
ASSUME AuthAssumption ==
  /\ FirstRow \in [Users -> AccountRows]
  /\ FirstProfile \in [Players -> PlayerRows]
  /\ IsFiniteSet(Requests)
  /\ Window \in Nat /\ MaxAttempts \in Nat \ {0}
  /\ Lifetime \in Nat
  /\ None \notin Reasons

SessionRowOK(row) ==
  /\ DOMAIN row = {"user", "current", "rotated", "version", "lastUsed", "expires", "revoked"}
  /\ row.user \in Users
  /\ row.current \in Tokens /\ ToSet(row.rotated) \subseteq Tokens
  /\ row.version \in Nat \ {0}
  /\ row.lastUsed \in Times /\ row.expires \in Nat
  /\ row.revoked \in {None} \cup Reasons

RequestOK(q) ==
  \/ q.op = "login" /\ q.pc \in {"verify", "commit", "reset"} /\ q.key \in Keys
  \/ /\ q.op = "refresh" /\ q.pc \in {"check", "rotate"}
     /\ q.token \in Tokens /\ q.id = issued[q.token] /\ SessionRowOK(q.row)
  \/ /\ q.op = "logout" /\ q.pc = "write"
     /\ q.id \in DOMAIN sessions /\ SessionRowOK(q.row)
  \/ q.op = "me" /\ q.pc = "write" /\ q.user \in Users /\ q.row \in AccountRows
  \/ /\ q.op \in AccountOps /\ q.pc \in {"claim", "commit"}
     /\ q.user \in Users /\ q.row \in AccountRows
     /\ q.seen \subseteq (DOMAIN sessions) \X (Nat \ {0})
  \/ /\ q.op \in PlayerOps /\ q.pc \in {"claim", "commit"}
     /\ q.player \in Players /\ q.row \in PlayerRows
     /\ q.seen \subseteq (DOMAIN sessions) \X (Nat \ {0})

TypeOK ==
  /\ accounts \in [Users -> AccountRows]
  /\ players \in [Players -> PlayerRows]
  /\ \A s \in DOMAIN sessions : SessionRowOK(sessions[s])
  /\ ToSet(issued) = DOMAIN sessions
  /\ DOMAIN attempts = Keys /\ \A k \in Keys : ToSet(attempts[k]) \subseteq Times
  /\ lastCleanup \in Times /\ now \in Times
  /\ \A r \in Requests : requests[r] # Idle => RequestOK(requests[r])

\* Every refresh token handed out for a session is the one it accepts or one
\* of those it remembers as exchanged, each exchanged once: whatever refreshes,
\* logouts and revocations run together, no token escapes reuse detection.
TokensTracked ==
  /\ \A t \in Tokens :
       LET row == sessions[issued[t]]
       IN  t \in ToSet(Append(row.rotated, row.current))
  /\ \A s \in DOMAIN sessions :
       IsInjective(Append(sessions[s].rotated, sessions[s].current))

\* A revoked session is dead for good: no refresh that read it earlier, not
\* even one whose version number comes up again, renews it.
RevokedIsFinal ==
  [][\A s \in DOMAIN sessions :
       ~Unrevoked(s) =>
         /\ sessions'[s].revoked # None
         /\ sessions'[s].current = sessions[s].current
         /\ sessions'[s].rotated = sessions[s].rotated
         /\ sessions'[s].lastUsed = sessions[s].lastUsed]_vars

\* A token presented again after another request exchanged it ends its session,
\* even when both read the session before either wrote - unless the account or
\* the age of the session turns the request away first.
ReplayEndsSession ==
  [][\A r \in Requests :
       /\ At(r, {"refresh"}, "rotate") \/ (At(r, {"refresh"}, "check") /\ Reused(requests[r]))
       /\ requests'[r] = Idle
       /\ requests[r].token \in ToSet(sessions[requests[r].id].rotated)
       => sessions'[requests[r].id].revoked # None]_vars

\* When a disablement, a password change, an administrator's revocation or a
\* profile's deactivation commits, every session of the account that was live
\* when it listed them is revoked, also those refreshed in between.
RevocationsSpareNone ==
  [][\A r \in Requests :
       At(r, AccountOps \cup PlayerOps, "commit") =>
         (requests'[r] = Idle =>
            \A v \in requests[r].seen : sessions'[v[1]].revoked # None)]_vars

\* Only a reactivation makes a disabled account active again: no profile edit,
\* role or password change that read the account earlier brings it back.
OnlyReactivationActivates ==
  [][\A u \in Users :
       ~accounts[u].active /\ accounts'[u].active =>
         \E r \in Requests : At(r, {"reactivate"}, "commit") /\ requests[r].user = u]_vars

\* Requests that passed the limiter together may all fail, so the failures of
\* a key exceed the threshold by the requests in flight and by no more.
LimitHolds ==
  \A k \in Keys : Len(Live(attempts[k])) <= MaxAttempts + Cardinality(Requests) - 1
-----------------------------------------------------------------------------
(* Sessions keep what TokenFamilies promises. *)

Families == INSTANCE TokenFamilies WITH
  family <- [s \in DOMAIN sessions |->
               [chain |-> Append(sessions[s].rotated, sessions[s].current),
                over  |-> ~Unrevoked(s)]],
  owner  <- issued

\* A login opens a family, a refresh gives the next token of one that is not over
\* for its last, revocations, logouts and replays end some; no other step shows.
\* However old the row is that a request read, it neither revives a session nor
\* loses a token from its history.
KeepsTokenFamilies == Families!FamiliesSpec
=============================================================================
