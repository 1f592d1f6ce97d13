------------------------- MODULE AuthSessionsProofs -------------------------
(***************************************************************************)
(* Theorems about login sessions, for any accounts, profiles, requests in  *)
(* flight and workloads.  The argument is one about tokens: the chain of a *)
(* session, the tokens it has exchanged and then the one it accepts, only  *)
(* ever grows at its end by a token nobody has, and what a refresh has     *)
(* read of it is an initial segment of it.                                 *)
(***************************************************************************)
EXTENDS AuthSessions, SequenceTheorems, FiniteSetTheorems, WellFoundedInduction, TLAPS

SessionRows ==
  [user : Users, current : Nat, rotated : Seq(Nat), version : Nat \ {0},
   lastUsed : Nat, expires : Nat, revoked : {None} \cup Reasons]

LoginsToVerify ==
  [op : {"login"}, pc : {"verify"}, key : Keys, password : 1 .. 2]
LoginsVerified ==
  [op : {"login"}, pc : {"commit", "reset"}, key : Users \X Addresses, password : 1 .. 2]
Refreshes ==
  [op : {"refresh"}, pc : {"check", "rotate"}, token : Nat, id : Nat,
   row : SessionRows, at : Nat]
Logouts == [op : {"logout"}, pc : {"write"}, id : Nat, row : SessionRows]
Edits   == [op : {"me"}, pc : {"write"}, user : Users, row : AccountRows]
AccountCommands ==
  {q \in [op : AccountOps, pc : {"claim", "commit"}, user : Users, row : AccountRows,
          role : Roles \cup {None}, versioned : BOOLEAN, seen : SUBSET (Nat \X (Nat \ {0}))] :
     q.op = "role" => q.role \in Roles}
PlayerCommands ==
  {q \in [op : PlayerOps, pc : {"claim", "commit"}, player : Players,
          user : Users \cup {None}, row : PlayerRows, seen : SUBSET (Nat \X (Nat \ {0}))] :
     /\ q.op # "deactivate" => q.seen = {}
     /\ q.op \in {"link", "reassign"} => q.user \in Users}

InFlight == UNION {LoginsToVerify, LoginsVerified, Refreshes, Logouts, Edits,
                   AccountCommands, PlayerCommands}

Typed ==
  /\ accounts \in [Users -> AccountRows]
  /\ players \in [Players -> PlayerRows]
  /\ now \in Nat
  /\ sessions \in Seq(SessionRows)
  /\ issued \in Seq(Nat)
  /\ requests \in [Requests -> {Idle} \cup InFlight]

\* Requests name sessions there are.
Located ==
  \A r \in Requests : requests[r] # Idle =>
    /\ requests[r].op \in {"refresh", "logout"} => requests[r].id \in 1 .. Len(sessions)
    /\ requests[r].op \in AccountOps \cup PlayerOps =>
         \A v \in requests[r].seen : v[1] \in 1 .. Len(sessions)

LEMMA TypedInit == Init => Typed
  BY AuthAssumption, EmptySeq DEF Init, Typed

LEMMA RowRead ==
  ASSUME Typed, NEW s \in DOMAIN sessions
  PROVE  /\ sessions[s] \in SessionRows
         /\ s \in Nat /\ s \in 1 .. Len(sessions)
  BY LenProperties DEF Typed

LEMMA Reads ==
  ASSUME Typed, NEW r \in Requests
  PROVE  /\ \A e \in Emails, a \in Addresses, password \in 1 .. 2 :
              LoginCheck(r, e, a, password) => Typed'
         /\ LoginVerify(r) => Typed'
         /\ LoginReset(r) => Typed'
<1>1. ASSUME NEW e \in Emails, NEW a \in Addresses, NEW password \in 1 .. 2,
             LoginCheck(r, e, a, password)
      PROVE  Typed'
  <2>1. [op |-> "login", pc |-> "verify", key |-> <<e, a>>, password |-> password] \in InFlight
    BY DEF InFlight, LoginsToVerify, Keys
  <2> QED BY <1>1, <2>1 DEF LoginCheck, Typed, Proceed
<1>2. ASSUME LoginVerify(r) PROVE Typed'
  <2>1. requests[r] \in LoginsToVerify
    BY <1>2 DEF LoginVerify, At, Typed, InFlight, LoginsToVerify, LoginsVerified, Refreshes,
                Logouts, Edits, AccountCommands, PlayerCommands
  <2>2. PasswordAccepted(requests[r]) => [requests[r] EXCEPT !.pc = "commit"] \in LoginsVerified
    BY <2>1 DEF PasswordAccepted, LoginsToVerify, LoginsVerified, Keys
  <2> QED BY <1>2, <2>1, <2>2 DEF LoginVerify, Typed, Proceed, End, InFlight
<1>3. ASSUME LoginReset(r) PROVE Typed'
  BY <1>3 DEF LoginReset, Typed, End
<1> QED BY <1>1, <1>2, <1>3

LEMMA Kinds ==
  ASSUME Typed, NEW r \in Requests, requests[r] # Idle
  PROVE  /\ requests[r].op = "login" /\ requests[r].pc = "verify" => requests[r] \in LoginsToVerify
         /\ requests[r].op = "login" /\ requests[r].pc # "verify" => requests[r] \in LoginsVerified
         /\ requests[r].op = "refresh" => requests[r] \in Refreshes
         /\ requests[r].op = "logout" => requests[r] \in Logouts
         /\ requests[r].op = "me" => requests[r] \in Edits
         /\ requests[r].op \in AccountOps => requests[r] \in AccountCommands
         /\ requests[r].op \in PlayerOps => requests[r] \in PlayerCommands
  BY DEF Typed, InFlight, LoginsToVerify, LoginsVerified, Refreshes, Logouts, Edits,
         AccountCommands, PlayerCommands, AccountOps, RevokingOps, PlayerOps, LinkOps

LEMMA LoginTypes ==
  ASSUME Typed, NEW r \in Requests, LoginCommit(r)
  PROVE  Typed'
<1> DEFINE q == requests[r]
<1>1. q \in LoginsVerified
  BY Kinds DEF LoginCommit, At
<1>2. [q EXCEPT !.pc = "reset"] \in InFlight
  BY <1>1 DEF LoginsVerified, InFlight
<1>3. NewSession(q.key[1]) \in SessionRows
  BY <1>1, AuthAssumption, EmptySeq, LenProperties
     DEF LoginsVerified, NewSession, NextToken, SessionRows, Typed
<1>4. Len(sessions) + 1 \in Nat
  BY LenProperties DEF Typed
<1> QED BY <1>2, <1>3, <1>4 DEF LoginCommit, Typed, Proceed

LEMMA RotatedRow ==
  ASSUME NEW row \in SessionRows, NEW token \in Nat, NEW old \in Seq(Nat),
         NEW at \in Nat, NEW version \in Nat \ {0}
  PROVE  [row EXCEPT !.current = token, !.rotated = old, !.lastUsed = at,
                     !.version = version] \in SessionRows
  BY DEF SessionRows

LEMMA RevokedRow ==
  ASSUME NEW row \in SessionRows, NEW reason \in Reasons, NEW version \in Nat \ {0}
  PROVE  /\ [row EXCEPT !.revoked = reason] \in SessionRows
         /\ [row EXCEPT !.revoked = reason, !.version = version] \in SessionRows
  BY DEF SessionRows

LEMMA ReuseTypes ==
  ASSUME Typed, Located, NEW r \in Requests,
         requests[r] \in Refreshes, requests[r] # Idle, RejectTokenReuse(r)
  PROVE  /\ sessions' \in Seq(SessionRows)
         /\ requests' \in [Requests -> {Idle} \cup InFlight]
<1> DEFINE s == requests[r].id
<1>1. s \in 1 .. Len(sessions)
  BY DEF Located, Refreshes
<1>2. [sessions[s] EXCEPT !.revoked = "token_reuse"] \in SessionRows
  <2>1. sessions[s] \in SessionRows /\ "token_reuse" \in Reasons /\ 1 \in Nat \ {0}
    BY <1>1, ElementOfSeq DEF Typed, Reasons
  <2> QED BY <2>1, RevokedRow
<1>3. [sessions EXCEPT ![s] = [sessions[s] EXCEPT !.revoked = "token_reuse"]] \in Seq(SessionRows)
  BY <1>1, <1>2, ExceptSeq DEF Typed
<1>4. sessions' = [sessions EXCEPT ![s] = [sessions[s] EXCEPT !.revoked = "token_reuse"]]
  BY DEF RejectTokenReuse
<1> QED BY <1>3, <1>4 DEF RejectTokenReuse, Typed, End

LEMMA RefreshTypes ==
  ASSUME Typed, Located, NEW r \in Requests
  PROVE  /\ \A t \in DOMAIN issued : issued[t] \in DOMAIN sessions /\ RefreshRead(r, t) => Typed'
         /\ RefreshCheck(r) => Typed'
         /\ RefreshRotate(r) => Typed'
<1> DEFINE q == requests[r]
<1>1. ASSUME NEW t \in DOMAIN issued, issued[t] \in DOMAIN sessions, RefreshRead(r, t)
      PROVE  Typed'
  <2>1. t \in Nat /\ issued[t] \in Nat /\ sessions[issued[t]] \in SessionRows
    BY <1>1, RowRead, LenProperties DEF Typed
  <2>2. [op |-> "refresh", pc |-> "check", token |-> t, id |-> issued[t],
         row |-> sessions[issued[t]], at |-> now] \in InFlight
    BY <2>1 DEF InFlight, Refreshes, Typed
  <2> QED BY <1>1, <2>2 DEF RefreshRead, Typed, Proceed
<1>2. ASSUME RefreshCheck(r) PROVE Typed'
  <2>1. q \in Refreshes
    BY <1>2, Kinds DEF RefreshCheck, At
  <2>2. CASE RejectTokenReuse(r)
    BY <2>1, <2>2, <1>2, ReuseTypes DEF RefreshCheck, Typed, At
  <2>3. CASE ~RejectTokenReuse(r)
    <3>1. [q EXCEPT !.pc = "rotate"] \in InFlight
      BY <2>1 DEF Refreshes, InFlight
    <3> QED BY <3>1, <2>3, <1>2 DEF RefreshCheck, Typed, Proceed, End
  <2> QED BY <2>2, <2>3
<1>3. ASSUME RefreshRotate(r) PROVE Typed'
  <2>1. q \in Refreshes
    BY <1>3, Kinds DEF RefreshRotate, At
  <2>2. CASE RejectTokenReuse(r) /\ issued' = issued
    BY <2>1, <2>2, <1>3, ReuseTypes DEF RefreshRotate, Typed, At
  <2>3. CASE Rotates(q) /\ sessions' = Rotation(q) /\ issued' = Append(issued, q.id) /\ End(r)
    <3>1. Append(q.row.rotated, q.row.current) \in Seq(Nat) /\ q.row.version + 1 \in Nat \ {0}
          /\ q.at \in Nat /\ NextToken \in Nat /\ q.id \in Nat
      BY <2>1, LenProperties DEF Refreshes, SessionRows, NextToken, Typed
    <3>2. q.id \in 1 .. Len(sessions)
      BY <1>3, <2>1 DEF Located, Refreshes, RefreshRotate, At
    <3>3. sessions[q.id] \in SessionRows
      BY <3>2, ElementOfSeq DEF Typed
    <3>4. [sessions[q.id] EXCEPT !.current = NextToken,
             !.rotated = Append(q.row.rotated, q.row.current), !.lastUsed = q.at,
             !.version = q.row.version + 1] \in SessionRows
      BY <3>1, <3>3, RotatedRow
    <3>5. sessions' \in Seq(SessionRows)
      BY <3>4, <3>2, <2>3, ExceptSeq DEF Rotation, Typed
    <3> QED BY <3>1, <3>5, <2>3, <1>3 DEF Typed, End, RefreshRotate
  <2>4. CASE sessions' = sessions /\ issued' = issued /\ End(r)
    BY <2>4, <1>3 DEF RefreshRotate, Typed, End
  <2> QED BY <2>2, <2>3, <2>4, <1>3 DEF RefreshRotate
<1> QED BY <1>1, <1>2, <1>3

LEMMA RevokedTypes ==
  ASSUME Typed, NEW seen \in SUBSET (Nat \X (Nat \ {0})), NEW reason \in Reasons,
         sessions' = Revoked(seen, reason)
  PROVE  /\ sessions' \in Seq(SessionRows)
         /\ Len(sessions') = Len(sessions)
         /\ \A s \in 1 .. Len(sessions) :
              /\ sessions'[s].current = sessions[s].current
              /\ sessions'[s].rotated = sessions[s].rotated
              /\ sessions'[s].lastUsed = sessions[s].lastUsed
              /\ \/ sessions'[s].revoked = sessions[s].revoked
                 \/ sessions'[s].revoked = reason
              /\ (\E v \in seen : v[1] = s) => sessions'[s].revoked = reason
<1>1. DOMAIN sessions = 1 .. Len(sessions) /\ Len(sessions) \in Nat
  BY LenProperties DEF Typed
<1> DEFINE was(s)   == \E v \in seen : v[1] = s
           ver(s)   == 1 + (CHOOSE v \in seen : v[1] = s)[2]
           after(s) == [sessions[s] EXCEPT !.revoked = reason, !.version = ver(s)]
<1>2. ASSUME NEW s \in 1 .. Len(sessions)
      PROVE  /\ sessions[s] \in SessionRows
             /\ was(s) => after(s) \in SessionRows
  <2>1. sessions[s] \in SessionRows
    BY ElementOfSeq DEF Typed
  <2>2. was(s) => ver(s) \in Nat \ {0}
    <3>1. was(s) => (CHOOSE v \in seen : v[1] = s) \in seen
      OBVIOUS
    <3>2. \A v \in seen : v[2] \in Nat
      OBVIOUS
    <3> QED BY <3>1, <3>2
  <2> QED BY <2>1, <2>2, RevokedRow
<1>3. sessions' = [s \in 1 .. Len(sessions) |-> IF was(s) THEN after(s) ELSE sessions[s]]
  BY <1>1 DEF Revoked
<1>4. sessions' \in [1 .. Len(sessions) -> SessionRows]
  BY <1>2, <1>3
<1>5. sessions' \in Seq(SessionRows) /\ Len(sessions') = Len(sessions)
  BY <1>1, <1>4, SeqDef
<1>6. ASSUME NEW s \in 1 .. Len(sessions)
      PROVE  sessions'[s] = IF was(s) THEN after(s) ELSE sessions[s]
  BY <1>3
<1>7. ASSUME NEW s \in 1 .. Len(sessions), NEW row \in SessionRows, NEW n
      PROVE  LET new == [row EXCEPT !.revoked = reason, !.version = n]
             IN  /\ new.current = row.current /\ new.rotated = row.rotated
                 /\ new.lastUsed = row.lastUsed /\ new.revoked = reason
  BY DEF SessionRows
<1> HIDE DEF was, ver
<1>8. ASSUME NEW s \in 1 .. Len(sessions)
      PROVE  /\ sessions'[s].current = sessions[s].current
             /\ sessions'[s].rotated = sessions[s].rotated
             /\ sessions'[s].lastUsed = sessions[s].lastUsed
             /\ \/ sessions'[s].revoked = sessions[s].revoked
                \/ sessions'[s].revoked = reason
             /\ was(s) => sessions'[s].revoked = reason
  <2>1. /\ after(s).current = sessions[s].current /\ after(s).rotated = sessions[s].rotated
        /\ after(s).lastUsed = sessions[s].lastUsed /\ after(s).revoked = reason
    BY <1>2, <1>7
  <2>2. sessions'[s] = IF was(s) THEN after(s) ELSE sessions[s]
    BY <1>6
  <2> HIDE DEF after
  <2> QED BY <2>1, <2>2
<1> QED BY <1>5, <1>8 DEF was

LEMMA VersionRewritten ==
  ASSUME NEW row \in AccountRows, NEW version \in Nat \ {0}
  PROVE  /\ [row EXCEPT !.version = version] \in AccountRows
         /\ [row EXCEPT !.version = version].active = row.active
  BY DEF AccountRows

LEMMA ActiveRewritten ==
  ASSUME NEW row \in AccountRows, NEW version \in Nat \ {0}, NEW active \in BOOLEAN
  PROVE  /\ [row EXCEPT !.active = active, !.version = version] \in AccountRows
         /\ [row EXCEPT !.active = active, !.version = version].active = active
  BY DEF AccountRows

LEMMA PasswordRewritten ==
  ASSUME NEW row \in AccountRows, NEW version \in Nat \ {0}, NEW password \in Nat \ {0}
  PROVE  /\ [row EXCEPT !.password = password, !.version = version] \in AccountRows
         /\ [row EXCEPT !.password = password, !.version = version].active = row.active
  BY DEF AccountRows

LEMMA RoleRewritten ==
  ASSUME NEW row \in AccountRows, NEW version \in Nat \ {0}, NEW role \in Roles
  PROVE  /\ [row EXCEPT !.role = role, !.version = version] \in AccountRows
         /\ [row EXCEPT !.role = role, !.version = version].active = row.active
  BY DEF AccountRows

LEMMA OwnerTypes ==
  ASSUME Typed, Located, NEW r \in Requests
  PROVE  /\ \A s \in DOMAIN sessions : LogoutRead(r, s) \/ MeRead(r, s) => Typed'
         /\ LogoutWrite(r) => Typed'
         /\ MeWrite(r) => Typed'
<1> DEFINE q == requests[r]
<1>1. ASSUME NEW s \in DOMAIN sessions, LogoutRead(r, s) PROVE Typed'
  <2>1. [op |-> "logout", pc |-> "write", id |-> s, row |-> sessions[s]] \in InFlight
    BY RowRead DEF InFlight, Logouts
  <2> QED BY <1>1, <2>1 DEF LogoutRead, Typed, Proceed
<1>2. ASSUME NEW s \in DOMAIN sessions, MeRead(r, s) PROVE Typed'
  <2>1. sessions[s].user \in Users
    BY RowRead DEF SessionRows
  <2>2. [op |-> "me", pc |-> "write", user |-> sessions[s].user,
         row |-> accounts[sessions[s].user]] \in InFlight
    BY <2>1 DEF InFlight, Edits, Typed
  <2> QED BY <1>2, <2>2 DEF MeRead, Typed, Proceed
<1>3. ASSUME LogoutWrite(r) PROVE Typed'
  <2>1. q \in Logouts /\ q.id \in 1 .. Len(sessions)
    BY <1>3, Kinds DEF LogoutWrite, At, Located
  <2>2. sessions[q.id] \in SessionRows /\ q.row.version + 1 \in Nat \ {0} /\ "logout" \in Reasons
    <3>1. q.row \in SessionRows
      BY <2>1 DEF Logouts
    <3>2. q.row.version \in Nat
      BY <3>1 DEF SessionRows
    <3> QED BY <2>1, <3>2, ElementOfSeq DEF Typed, Reasons
  <2>3. [sessions[q.id] EXCEPT !.revoked = "logout", !.version = q.row.version + 1] \in SessionRows
    BY <2>2, RevokedRow
  <2>4. sessions' = [sessions EXCEPT ![q.id] =
                       [sessions[q.id] EXCEPT !.revoked = "logout", !.version = q.row.version + 1]]
    BY <1>3 DEF LogoutWrite
  <2>5. sessions' \in Seq(SessionRows)
    BY <2>1, <2>3, <2>4, ExceptSeq DEF Typed
  <2> QED BY <2>5, <1>3 DEF LogoutWrite, Typed, End
<1>4. ASSUME MeWrite(r) PROVE Typed'
  <2>1. q \in Edits
    BY <1>4, Kinds DEF MeWrite, At
  <2>2. accounts' \in [Users -> AccountRows]
    <3>1. q.user \in Users /\ q.row \in AccountRows
      BY <2>1 DEF Edits
    <3>2. accounts[q.user] \in AccountRows /\ q.row.version + 1 \in Nat \ {0}
      BY <3>1 DEF AccountRows, Typed
    <3>3. [accounts[q.user] EXCEPT !.version = q.row.version + 1] \in AccountRows
      BY <3>2, VersionRewritten
    <3>4. accounts' = [accounts EXCEPT ![q.user] =
                         [accounts[q.user] EXCEPT !.version = q.row.version + 1]]
      BY <1>4 DEF MeWrite, ProfileEdited
    <3> QED BY <3>1, <3>3, <3>4 DEF Typed
  <2> QED BY <2>2, <1>4 DEF MeWrite, Typed, End
<1> QED BY <1>1, <1>2, <1>3, <1>4

LEMMA AccountChange ==
  ASSUME Typed, NEW q \in AccountCommands
  PROVE  /\ AccountAfter(q) \in AccountRows
         /\ q.op # "reactivate" /\ AccountAfter(q).active => accounts[q.user].active
<1> DEFINE row == accounts[q.user]
           n == q.row.version + 1
<1>1. row \in AccountRows /\ q.op \in AccountOps
  BY DEF Typed, AccountCommands
<1>2. n \in Nat \ {0} /\ row.password + 1 \in Nat \ {0}
  <2>1. q.row \in AccountRows
    BY DEF AccountCommands
  <2> QED BY <1>1, <2>1 DEF AccountRows
<1>3. CASE q.op \in {"disable", "reactivate"}
  <2> DEFINE set == q.op = "reactivate"
             active == Written(q.row.active, set, row.active)
  <2>1. AccountAfter(q) = [row EXCEPT !.active = active, !.version = n]
    BY <1>1, <1>3 DEF AccountAfter, AccountRows
  <2>2. active \in BOOLEAN /\ (~set /\ active => row.active)
    BY <1>1 DEF Written, AccountRows
  <2> HIDE DEF active
  <2>3. /\ [row EXCEPT !.active = active, !.version = n] \in AccountRows
        /\ [row EXCEPT !.active = active, !.version = n].active = active
    BY <1>1, <1>2, <2>2, ActiveRewritten
  <2> QED BY <1>3, <2>1, <2>2, <2>3
<1>5. CASE q.op = "password"
  <2>1. AccountAfter(q) = [row EXCEPT !.password = row.password + 1, !.version = n]
    BY <1>1, <1>5 DEF AccountAfter, AccountRows
  <2>3. [row EXCEPT !.password = row.password + 1, !.version = n] \in AccountRows
    BY <1>1, <1>2, PasswordRewritten
  <2>4. [row EXCEPT !.password = row.password + 1, !.version = n].active = row.active
    BY <1>1, <1>2, PasswordRewritten
  <2> QED BY <1>5, <2>1, <2>3, <2>4
<1>6. CASE q.op = "role"
  <2> DEFINE role == Written(q.row.role, q.role, row.role)
  <2>1. AccountAfter(q) = [row EXCEPT !.role = role, !.version = n]
    BY <1>1, <1>6 DEF AccountAfter, AccountRows
  <2>2. role \in Roles
    BY <1>1, <1>6 DEF AccountCommands, AccountRows, Written
  <2> HIDE DEF role
  <2>3. [row EXCEPT !.role = role, !.version = n] \in AccountRows
    BY <1>1, <1>2, <2>2, RoleRewritten
  <2>4. [row EXCEPT !.role = role, !.version = n].active = row.active
    BY <1>1, <1>2, <2>2, RoleRewritten
  <2> QED BY <1>6, <2>1, <2>3, <2>4
<1>7. CASE q.op = "revoke"
  BY <1>1, <1>7 DEF AccountAfter
<1> QED BY <1>1, <1>3, <1>5, <1>6, <1>7 DEF AccountOps, RevokingOps

LEMMA LoadedTypes ==
  ASSUME Typed, NEW u, NEW seen \in SUBSET (Nat \X (Nat \ {0}))
  PROVE  /\ Loaded(u, seen) \in SUBSET (Nat \X (Nat \ {0}))
         /\ \A v \in Loaded(u, seen) : v[1] \in 1 .. Len(sessions)
<1>1. ASSUME NEW s \in SessionsOf(u)
      PROVE  s \in 1 .. Len(sessions) /\ s \in Nat /\ sessions[s].version \in Nat \ {0}
  <2>1. s \in DOMAIN sessions
    BY DEF SessionsOf
  <2> QED BY <2>1, RowRead DEF SessionRows
<1> QED BY <1>1 DEF Loaded, AsRead

LEMMA OwnTypes ==
  ASSUME Typed, NEW op, NEW u, NEW own \in {{}} \cup {{v} : v \in AsRead(OwnSessions(op, u))}
  PROVE  /\ own \in SUBSET (Nat \X (Nat \ {0}))
         /\ \A v \in own : v[1] \in 1 .. Len(sessions)
<1>1. ASSUME NEW s \in OwnSessions(op, u)
      PROVE  s \in 1 .. Len(sessions) /\ s \in Nat /\ sessions[s].version \in Nat \ {0}
  <2>1. s \in DOMAIN sessions
    BY DEF OwnSessions, SessionsOf
  <2> QED BY <2>1, RowRead DEF SessionRows
<1> QED BY <1>1 DEF AsRead

LEMMA AccountTypes ==
  ASSUME Typed, Located, NEW r \in Requests
  PROVE  /\ \A u \in Users, op \in AccountOps, role \in Roles, versioned \in BOOLEAN :
              AccountRead(r, u, op, role, versioned) => Typed'
         /\ AccountClaim(r) => Typed'
         /\ AccountCommit(r) => Typed'
<1> DEFINE q == requests[r]
<1>1. ASSUME NEW u \in Users, NEW op \in AccountOps, NEW role \in Roles,
             NEW versioned \in BOOLEAN, AccountRead(r, u, op, role, versioned)
      PROVE  Typed'
  <2>1. PICK own \in {{}} \cup {{v} : v \in AsRead(OwnSessions(op, u))} :
          Proceed(r, [op |-> op, pc |-> "claim", user |-> u, row |-> accounts[u],
                      role |-> IF op = "role" THEN role ELSE None,
                      versioned |-> versioned, seen |-> own])
    BY <1>1 DEF AccountRead
  <2> DEFINE new == [op |-> op, pc |-> "claim", user |-> u, row |-> accounts[u],
                     role |-> IF op = "role" THEN role ELSE None,
                     versioned |-> versioned, seen |-> own]
  <2>2. new \in AccountCommands
    BY OwnTypes DEF AccountCommands, Typed
  <2> QED BY <1>1, <2>1, <2>2 DEF AccountRead, Typed, Proceed, InFlight
<1>2. ASSUME AccountClaim(r) PROVE Typed'
  <2>1. q \in AccountCommands
    BY <1>2, Kinds DEF AccountClaim, At
  <2>2. ASSUME NEW seen \in SUBSET (Nat \X (Nat \ {0}))
        PROVE  [q EXCEPT !.pc = "commit", !.seen = seen] \in AccountCommands
    BY <2>1 DEF AccountCommands
  <2> DEFINE seen == IF q.op \in RevokingOps THEN Loaded(q.user, q.seen) ELSE {}
  <2>3. seen \in SUBSET (Nat \X (Nat \ {0}))
    BY <2>1, LoadedTypes DEF AccountCommands
  <2>4. [q EXCEPT !.pc = "commit", !.seen = seen] \in AccountCommands
    BY <2>2, <2>3
  <2>5. requests' \in [Requests -> {Idle} \cup InFlight]
    BY <1>2, <2>4 DEF AccountClaim, Typed, Proceed, End, InFlight
  <2> QED BY <1>2, <2>5 DEF AccountClaim, Typed
<1>3. ASSUME AccountCommit(r) PROVE Typed'
  <2>1. q \in AccountCommands
    BY <1>3, Kinds DEF AccountCommit, At
  <2>2. q.seen \in SUBSET (Nat \X (Nat \ {0})) /\ q.op \in Reasons /\ q.user \in Users
    BY <2>1 DEF AccountCommands, Reasons
  <2>3. sessions' \in Seq(SessionRows)
    BY <2>2, <1>3, RevokedTypes DEF AccountCommit
  <2>4. accounts' \in [Users -> AccountRows]
    BY <2>1, <2>2, <1>3, AccountChange DEF AccountCommit, Typed
  <2> QED BY <2>3, <2>4, <1>3 DEF AccountCommit, Typed, End
<1> QED BY <1>1, <1>2, <1>3

LEMMA PlayerChange ==
  ASSUME Typed, NEW q \in PlayerCommands
  PROVE  PlayerAfter(q) \in PlayerRows
<1> DEFINE row == players[q.player]
           active == IF q.op \in LinkOps THEN row.active ELSE q.op = "activate"
           user == IF q.op = "unlink" THEN None
                   ELSE IF q.op \in LinkOps THEN q.user ELSE row.user
<1>1. row \in PlayerRows
  BY DEF Typed, PlayerCommands
<1>2. row.version + 1 \in Nat \ {0} /\ row.active \in BOOLEAN /\ row.user \in Users \cup {None}
      /\ q.user \in Users \cup {None}
  BY <1>1 DEF PlayerRows, PlayerCommands
<1>5. active \in BOOLEAN
  BY <1>2
<1>6. user \in Users \cup {None}
  BY <1>2
<1>3. ASSUME NEW x \in PlayerRows, NEW n \in Nat \ {0}, NEW a \in BOOLEAN,
             NEW u \in Users \cup {None}
      PROVE  [x EXCEPT !.version = n, !.active = a, !.user = u] \in PlayerRows
  BY DEF PlayerRows
<1>4. PlayerAfter(q) = [row EXCEPT !.version = row.version + 1, !.active = active,
                                   !.user = user]
  BY DEF PlayerAfter
<1> DEFINE n == row.version + 1
<1>7. n \in Nat \ {0}
  BY <1>2
<1> HIDE DEF row, n, active, user
<1>8. [row EXCEPT !.version = n, !.active = active, !.user = user] \in PlayerRows
  BY <1>1, <1>3, <1>5, <1>6, <1>7
<1> QED BY <1>4, <1>8 DEF n

LEMMA PlayerTypes ==
  ASSUME Typed, Located, NEW r \in Requests
  PROVE  /\ \A p \in Players, op \in PlayerOps, u \in Users : PlayerRead(r, p, op, u) => Typed'
         /\ PlayerClaim(r) => Typed'
         /\ PlayerCommit(r) => Typed'
<1> DEFINE q == requests[r]
<1>1. ASSUME NEW p \in Players, NEW op \in PlayerOps, NEW u \in Users, PlayerRead(r, p, op, u)
      PROVE  Typed'
  <2> DEFINE new == [op |-> op, pc |-> "claim", player |-> p,
                     user |-> IF op \in {"link", "reassign"} THEN u ELSE None,
                     row |-> players[p], seen |-> {}]
  <2>1. new \in PlayerCommands
    BY DEF PlayerCommands, Typed
  <2> QED BY <1>1, <2>1 DEF PlayerRead, Typed, Proceed, InFlight
<1>2. ASSUME PlayerClaim(r) PROVE Typed'
  <2>1. q \in PlayerCommands
    BY <1>2, Kinds DEF PlayerClaim, At
  <2> DEFINE seen == IF Unseats(q) THEN Loaded(q.row.user, q.seen) ELSE {}
  <2>2. seen \in SUBSET (Nat \X (Nat \ {0})) /\ (q.op # "deactivate" => seen = {})
    BY <2>1, LoadedTypes DEF Unseats, PlayerCommands
  <2>3. ASSUME NEW x \in SUBSET (Nat \X (Nat \ {0})), q.op # "deactivate" => x = {}
        PROVE  [q EXCEPT !.pc = "commit", !.seen = x] \in PlayerCommands
    BY <2>1, <2>3 DEF PlayerCommands
  <2>4. [q EXCEPT !.pc = "commit", !.seen = seen] \in PlayerCommands
    BY <2>2, <2>3
  <2>5. requests' \in [Requests -> {Idle} \cup InFlight]
    BY <1>2, <2>4 DEF PlayerClaim, Typed, Proceed, End, InFlight
  <2> QED BY <1>2, <2>5 DEF PlayerClaim, Typed
<1>3. ASSUME PlayerCommit(r) PROVE Typed'
  <2>1. q \in PlayerCommands
    BY <1>3, Kinds DEF PlayerCommit, At
  <2>2. q.seen \in SUBSET (Nat \X (Nat \ {0})) /\ "linked_player_inactive" \in Reasons
        /\ q.player \in Players
    BY <2>1 DEF PlayerCommands, Reasons
  <2>3. sessions' \in Seq(SessionRows) /\ players' \in [Players -> PlayerRows]
    BY <2>1, <2>2, <1>3, RevokedTypes, PlayerChange DEF PlayerCommit, Typed
  <2> QED BY <2>3, <1>3 DEF PlayerCommit, Typed, End
<1> QED BY <1>1, <1>2, <1>3

-----------------------------------------------------------------------------
(* What a step does to the sessions and to what refreshes have read.       *)

Kept(s) ==
  /\ sessions'[s].current = sessions[s].current
  /\ sessions'[s].rotated = sessions[s].rotated
  /\ sessions'[s].lastUsed = sessions[s].lastUsed
  /\ sessions[s].revoked # None => sessions'[s].revoked # None

KeepsAll ==
  /\ issued' = issued /\ Len(sessions') = Len(sessions)
  /\ \A s \in 1 .. Len(sessions) : Kept(s)

LogsIn ==
  /\ issued' = Append(issued, Len(sessions) + 1)
  /\ \E u \in Users : sessions' = Append(sessions, NewSession(u))

RotatesFor(r) ==
  /\ At(r, {"refresh"}, "rotate") /\ Rotates(requests[r])
  /\ sessions' = Rotation(requests[r])
  /\ issued' = Append(issued, requests[r].id)

LEMMA Untouched == ASSUME UNCHANGED <<sessions, issued>> PROVE KeepsAll
  BY DEF KeepsAll, Kept

LEMMA ReuseKeeps ==
  ASSUME Typed, Located, NEW r \in Requests, requests[r] \in Refreshes, requests[r] # Idle,
         RejectTokenReuse(r), issued' = issued
  PROVE  KeepsAll /\ sessions'[requests[r].id].revoked # None
<1> DEFINE s == requests[r].id
<1>1. s \in 1 .. Len(sessions)
  BY DEF Located, Refreshes
<1>2. sessions[s] \in SessionRows /\ "token_reuse" # None
  BY <1>1, ElementOfSeq, AuthAssumption DEF Typed, Reasons
<1> DEFINE new == [sessions[s] EXCEPT !.revoked = "token_reuse"]
<1>3. ASSUME NEW row \in SessionRows
      PROVE  LET x == [row EXCEPT !.revoked = "token_reuse"]
             IN  /\ x.current = row.current /\ x.rotated = row.rotated
                 /\ x.lastUsed = row.lastUsed /\ x.revoked = "token_reuse"
  BY DEF SessionRows
<1>4. /\ new.current = sessions[s].current /\ new.rotated = sessions[s].rotated
      /\ new.lastUsed = sessions[s].lastUsed /\ new.revoked = "token_reuse"
  BY <1>2, <1>3
<1>5. new \in SessionRows
  <2>1. "token_reuse" \in Reasons /\ 1 \in Nat \ {0}
    BY DEF Reasons
  <2> QED BY <1>2, <2>1, RevokedRow
<1>6. sessions' = [sessions EXCEPT ![s] = new]
  BY DEF RejectTokenReuse
<1> HIDE DEF new
<1>7. /\ Len(sessions') = Len(sessions)
      /\ \A j \in 1 .. Len(sessions) : sessions'[j] = IF j = s THEN new ELSE sessions[j]
  BY <1>1, <1>5, <1>6, ExceptSeq DEF Typed
<1> QED BY <1>1, <1>2, <1>4, <1>7 DEF KeepsAll, Kept

LEMMA LogoutKeeps ==
  ASSUME Typed, Located, NEW r \in Requests, LogoutWrite(r)
  PROVE  KeepsAll
<1> DEFINE q == requests[r]
           s == q.id
           n == q.row.version + 1
           new == [sessions[s] EXCEPT !.revoked = "logout", !.version = n]
<1>1. q \in Logouts /\ s \in 1 .. Len(sessions)
  BY Kinds DEF LogoutWrite, At, Located
<1>2. sessions[s] \in SessionRows /\ "logout" # None /\ "logout" \in Reasons
  BY <1>1, ElementOfSeq, AuthAssumption DEF Typed, Reasons
<1>3. n \in Nat \ {0}
  <2>1. q.row \in SessionRows
    BY <1>1 DEF Logouts
  <2> QED BY <2>1 DEF SessionRows
<1>4. ASSUME NEW row \in SessionRows, NEW m \in Nat
      PROVE  LET x == [row EXCEPT !.revoked = "logout", !.version = m]
             IN  /\ x.current = row.current /\ x.rotated = row.rotated
                 /\ x.lastUsed = row.lastUsed /\ x.revoked = "logout"
  BY DEF SessionRows
<1>5. /\ new.current = sessions[s].current /\ new.rotated = sessions[s].rotated
      /\ new.lastUsed = sessions[s].lastUsed /\ new.revoked = "logout"
  BY <1>2, <1>3, <1>4
<1>6. new \in SessionRows
  BY <1>2, <1>3, RevokedRow
<1>7. sessions' = [sessions EXCEPT ![s] = new]
  BY DEF LogoutWrite
<1> HIDE DEF new
<1>8. /\ Len(sessions') = Len(sessions)
      /\ \A j \in 1 .. Len(sessions) : sessions'[j] = IF j = s THEN new ELSE sessions[j]
  BY <1>1, <1>6, <1>7, ExceptSeq DEF Typed
<1>9. issued' = issued
  BY DEF LogoutWrite
<1> QED BY <1>2, <1>5, <1>8, <1>9 DEF KeepsAll, Kept

LEMMA RevocationKeeps ==
  ASSUME Typed, Located, NEW r \in Requests,
         AccountCommit(r) \/ (PlayerCommit(r) /\ ~IndexRefuses(requests[r]))
  PROVE  KeepsAll /\ \A v \in requests[r].seen : sessions'[v[1]].revoked # None
<1> DEFINE q == requests[r]
<1>1. PICK reason \in Reasons : sessions' = Revoked(q.seen, reason)
  BY DEF AccountCommit, PlayerCommit, At, Reasons
<1>2. /\ q.seen \in SUBSET (Nat \X (Nat \ {0}))
      /\ \A v \in q.seen : v[1] \in 1 .. Len(sessions)
  BY Kinds DEF AccountCommit, PlayerCommit, At, Located, AccountCommands, PlayerCommands
<1>3. issued' = issued /\ reason # None
  BY AuthAssumption DEF AccountCommit, PlayerCommit
<1> HIDE DEF q
<1>4. KeepsAll
  BY <1>1, <1>2, <1>3, RevokedTypes DEF KeepsAll, Kept
<1>5. \A s \in 1 .. Len(sessions) :
        (\E v \in q.seen : v[1] = s) => sessions'[s].revoked = reason
  BY <1>1, <1>2, RevokedTypes
<1> QED BY <1>2, <1>3, <1>4, <1>5 DEF q

\* Steps that read, decide or count, and leave every session as it is.
LEMMA ReadersKeep ==
  ASSUME NEW r \in Requests
  PROVE  /\ \A e \in Emails, a \in Addresses, password \in 1 .. 2 :
              LoginCheck(r, e, a, password) => UNCHANGED <<accounts, sessions, issued>>
         /\ LoginVerify(r) \/ LoginReset(r) => UNCHANGED <<accounts, sessions, issued>>
         /\ \A t \in DOMAIN issued : RefreshRead(r, t) => UNCHANGED <<accounts, sessions, issued>>
         /\ \A s \in DOMAIN sessions :
              LogoutRead(r, s) \/ MeRead(r, s) => UNCHANGED <<accounts, sessions, issued>>
         /\ \A u \in Users, op \in AccountOps, role \in Roles, versioned \in BOOLEAN :
              AccountRead(r, u, op, role, versioned) => UNCHANGED <<accounts, sessions, issued>>
         /\ AccountClaim(r) \/ PlayerClaim(r) => UNCHANGED <<accounts, sessions, issued>>
         /\ \A p \in Players, op \in PlayerOps, u \in Users :
              PlayerRead(r, p, op, u) => UNCHANGED <<accounts, sessions, issued>>
         /\ MeWrite(r) => UNCHANGED <<sessions, issued>>
  BY DEF LoginCheck, LoginVerify, LoginReset, RefreshRead, LogoutRead, MeRead, AccountRead,
         AccountClaim, PlayerClaim, PlayerRead, MeWrite

LEMMA LoginLogsIn ==
  ASSUME Typed, NEW r \in Requests, LoginCommit(r)
  PROVE  LogsIn
<1>1. requests[r].key[1] \in Users
  BY Kinds DEF LoginCommit, At, LoginsVerified
<1> QED BY <1>1 DEF LoginCommit, LogsIn

LEMMA RefreshOutcomes ==
  ASSUME Typed, Located, NEW r \in Requests
  PROVE  /\ RefreshCheck(r) => KeepsAll
         /\ RefreshRotate(r) => KeepsAll \/ RotatesFor(r)
<1>1. ASSUME RefreshCheck(r) PROVE KeepsAll
  <2>1. requests[r] \in Refreshes /\ requests[r] # Idle
    BY <1>1, Kinds DEF RefreshCheck, At
  <2>2. issued' = issued
    BY <1>1 DEF RefreshCheck
  <2>3. RejectTokenReuse(r) \/ sessions' = sessions
    BY <1>1 DEF RefreshCheck
  <2> QED BY <2>1, <2>2, <2>3, ReuseKeeps, Untouched
<1>2. ASSUME RefreshRotate(r) PROVE KeepsAll \/ RotatesFor(r)
  <2>1. requests[r] \in Refreshes /\ requests[r] # Idle
    BY <1>2, Kinds DEF RefreshRotate, At
  <2>2. CASE Rotates(requests[r])
    BY <1>2, <2>2 DEF RefreshRotate, RotatesFor
  <2>3. CASE ~Rotates(requests[r])
    <3>1. issued' = issued /\ (RejectTokenReuse(r) \/ sessions' = sessions)
      BY <1>2, <2>3 DEF RefreshRotate
    <3> QED BY <2>1, <3>1, ReuseKeeps, Untouched
  <2> QED BY <2>2, <2>3
<1> QED BY <1>1, <1>2

LEMMA StepKinds ==
  ASSUME Typed, Located, Next
  PROVE  KeepsAll \/ LogsIn \/ \E r \in Requests : RotatesFor(r)
<1>1. CASE Tick
  BY <1>1, Untouched DEF Tick
<1>2. ASSUME NEW r \in Requests, LoginCommit(r) PROVE LogsIn
  BY <1>2, LoginLogsIn
<1>3. ASSUME NEW r \in Requests,
             \/ \E e \in Emails, a \in Addresses, password \in 1 .. 2 :
                  LoginCheck(r, e, a, password)
             \/ LoginVerify(r) \/ LoginReset(r)
             \/ \E t \in DOMAIN issued : RefreshRead(r, t)
             \/ \E s \in DOMAIN sessions : LogoutRead(r, s) \/ MeRead(r, s)
             \/ \E u \in Users, op \in AccountOps, role \in Roles, versioned \in BOOLEAN :
                  AccountRead(r, u, op, role, versioned)
             \/ AccountClaim(r) \/ PlayerClaim(r) \/ MeWrite(r)
             \/ \E p \in Players, op \in PlayerOps, u \in Users : PlayerRead(r, p, op, u)
      PROVE  KeepsAll
  <2>1. UNCHANGED <<sessions, issued>>
    BY <1>3, ReadersKeep
  <2> QED BY <2>1, Untouched
<1>4. ASSUME NEW r \in Requests, RefreshCheck(r) \/ RefreshRotate(r)
      PROVE  KeepsAll \/ RotatesFor(r)
  BY <1>4, RefreshOutcomes
<1>5. ASSUME NEW r \in Requests, LogoutWrite(r) \/ AccountCommit(r) PROVE KeepsAll
  BY <1>5, LogoutKeeps, RevocationKeeps
<1>6. ASSUME NEW r \in Requests, PlayerCommit(r) PROVE KeepsAll
  <2>1. CASE IndexRefuses(requests[r])
    BY <1>6, <2>1, Untouched DEF PlayerCommit
  <2>2. CASE ~IndexRefuses(requests[r])
    BY <1>6, <2>2, RevocationKeeps
  <2> QED BY <2>1, <2>2
<1> QED BY <1>1, <1>2, <1>3, <1>4, <1>5, <1>6 DEF Next

-----------------------------------------------------------------------------
(* The invariant.                                                          *)

\* The tokens of a session in the order they were accepted.
Chain(row) == Append(row.rotated, row.current)

Within(c, t) == \E i \in 1 .. Len(c) : c[i] = t

Segment(c, d) ==
  Len(c) <= Len(d) /\ \A i \in 1 .. Len(c) : c[i] = d[i]

Tracked ==
  /\ \A t \in 1 .. Len(issued) :
       issued[t] \in 1 .. Len(sessions) /\ Within(Chain(sessions[issued[t]]), t)
  /\ \A s \in 1 .. Len(sessions) :
       /\ \A i \in 1 .. Len(Chain(sessions[s])) : Chain(sessions[s])[i] \in 1 .. Len(issued)
       /\ \A i, j \in 1 .. Len(Chain(sessions[s])) :
            Chain(sessions[s])[i] = Chain(sessions[s])[j] => i = j

Behind(q) ==
  /\ Segment(Chain(q.row), Chain(sessions[q.id]))
  /\ Within(Chain(q.row), q.token)
  /\ q.pc = "rotate" => q.token = q.row.current

ReadsBehind ==
  \A r \in Requests :
    requests[r] # Idle /\ requests[r].op = "refresh" => Behind(requests[r])

Inv == Typed /\ Located /\ Tracked /\ ReadsBehind

LEMMA ChainOf ==
  ASSUME NEW row \in SessionRows
  PROVE  /\ Chain(row) \in Seq(Nat)
         /\ Len(Chain(row)) = Len(row.rotated) + 1 /\ Len(row.rotated) \in Nat
         /\ Chain(row)[Len(Chain(row))] = row.current
         /\ \A i \in 1 .. Len(row.rotated) : Chain(row)[i] = row.rotated[i]
  BY LenProperties DEF Chain, SessionRows

LEMMA InvInit == Init => Inv
  BY TypedInit, EmptySeq DEF Init, Inv, Located, Tracked, ReadsBehind

-----------------------------------------------------------------------------
(* What a request holds after a step.                                      *)

ReadsToken(x) ==
  /\ UNCHANGED <<sessions, issued>>
  /\ \E t \in DOMAIN issued :
       requests'[x] = [op |-> "refresh", pc |-> "check", token |-> t, id |-> issued[t],
                       row |-> sessions[issued[t]], at |-> now]

GoesOn(x) ==
  /\ UNCHANGED <<sessions, issued>>
  /\ At(x, {"refresh"}, "check") /\ ~Reused(requests[x])
  /\ requests'[x] = [requests[x] EXCEPT !.pc = "rotate"]

NamesSessions(q) ==
  \/ q.op \in {"login", "me"}
  \/ q.op = "logout" /\ q.id \in DOMAIN sessions /\ q.row = sessions[q.id]
  \/ q.op \in AccountOps \cup PlayerOps /\ \A v \in q.seen : v[1] \in 1 .. Len(sessions)

Holds(x) ==
  \/ requests'[x] \in {requests[x], Idle}
  \/ ReadsToken(x) \/ GoesOn(x)
  \/ NamesSessions(requests'[x])

LEMMA ClaimHolds ==
  ASSUME Typed, NEW r \in Requests, AccountClaim(r) \/ PlayerClaim(r)
  PROVE  requests'[r] = Idle \/ NamesSessions(requests'[r])
<1> DEFINE q == requests[r]
<1>1. CASE AccountClaim(r)
  <2> DEFINE seen == IF q.op \in RevokingOps THEN Loaded(q.user, q.seen) ELSE {}
             new  == [q EXCEPT !.pc = "commit", !.seen = seen]
  <2>1. q \in AccountCommands
    BY <1>1, Kinds DEF AccountClaim, At
  <2>2. ASSUME NEW x \in SUBSET (Nat \X (Nat \ {0}))
        PROVE  LET y == [q EXCEPT !.pc = "commit", !.seen = x]
               IN  y.op = q.op /\ y.seen = x
    BY <2>1 DEF AccountCommands
  <2>3. seen \in SUBSET (Nat \X (Nat \ {0})) /\ \A v \in seen : v[1] \in 1 .. Len(sessions)
    BY <2>1, LoadedTypes DEF AccountCommands
  <2>4. new.op = q.op /\ new.seen = seen
    BY <2>2, <2>3
  <2>5. requests'[r] = Idle \/ requests'[r] = new
    BY <1>1 DEF AccountClaim, Proceed, End, Typed
  <2>6. q.op \in AccountOps
    BY <2>1 DEF AccountCommands
  <2> HIDE DEF seen, new
  <2> QED BY <2>3, <2>4, <2>5, <2>6 DEF NamesSessions
<1>2. CASE PlayerClaim(r)
  <2> DEFINE seen == IF Unseats(q) THEN Loaded(q.row.user, q.seen) ELSE {}
             new  == [q EXCEPT !.pc = "commit", !.seen = seen]
  <2>1. q \in PlayerCommands
    BY <1>2, Kinds DEF PlayerClaim, At
  <2>2. ASSUME NEW x \in SUBSET (Nat \X (Nat \ {0}))
        PROVE  LET y == [q EXCEPT !.pc = "commit", !.seen = x]
               IN  y.op = q.op /\ y.seen = x
    BY <2>1 DEF PlayerCommands
  <2>3. seen \in SUBSET (Nat \X (Nat \ {0})) /\ \A v \in seen : v[1] \in 1 .. Len(sessions)
    BY <2>1, LoadedTypes DEF PlayerCommands
  <2>4. new.op = q.op /\ new.seen = seen
    BY <2>2, <2>3
  <2>5. requests'[r] = Idle \/ requests'[r] = new
    BY <1>2 DEF PlayerClaim, Proceed, End, Typed
  <2>6. q.op \in PlayerOps
    BY <2>1 DEF PlayerCommands
  <2> HIDE DEF seen, new
  <2> QED BY <2>3, <2>4, <2>5, <2>6 DEF NamesSessions
<1> QED BY <1>1, <1>2

LEMMA LoginHolds ==
  ASSUME Typed, NEW r \in Requests
  PROVE  /\ \A e \in Emails, a \in Addresses, password \in 1 .. 2 :
              LoginCheck(r, e, a, password) => Holds(r)
         /\ LoginVerify(r) \/ LoginCommit(r) \/ LoginReset(r) => Holds(r)
<1>1. ASSUME NEW e \in Emails, NEW a \in Addresses, NEW password \in 1 .. 2,
             LoginCheck(r, e, a, password)
      PROVE  Holds(r)
  BY <1>1 DEF LoginCheck, Typed, Proceed, Holds, NamesSessions
<1>2. ASSUME LoginVerify(r) \/ LoginCommit(r) PROVE Holds(r)
  <2>1. requests[r] \in LoginsToVerify \cup LoginsVerified
    BY <1>2, Kinds DEF LoginVerify, LoginCommit, At
  <2>2. [requests[r] EXCEPT !.pc = "commit"].op = "login"
        /\ [requests[r] EXCEPT !.pc = "reset"].op = "login"
    BY <2>1 DEF LoginsToVerify, LoginsVerified
  <2>3. requests'[r] \in {Idle, [requests[r] EXCEPT !.pc = "commit"],
                          [requests[r] EXCEPT !.pc = "reset"]}
    BY <1>2 DEF LoginVerify, LoginCommit, Proceed, End, Typed
  <2> QED BY <2>2, <2>3 DEF Holds, NamesSessions
<1>3. ASSUME LoginReset(r) PROVE Holds(r)
  BY <1>3 DEF LoginReset, End, Typed, Holds
<1> QED BY <1>1, <1>2, <1>3

LEMMA RefreshHolds ==
  ASSUME Typed, NEW r \in Requests
  PROVE  /\ \A t \in DOMAIN issued : RefreshRead(r, t) => Holds(r)
         /\ RefreshCheck(r) \/ RefreshRotate(r) => Holds(r)
<1>1. ASSUME NEW t \in DOMAIN issued, RefreshRead(r, t) PROVE Holds(r)
  BY <1>1 DEF RefreshRead, Proceed, Typed, Holds, ReadsToken
<1>2. ASSUME RefreshCheck(r) PROVE Holds(r)
  BY <1>2 DEF RefreshCheck, RejectTokenReuse, Proceed, End, Typed, Holds, GoesOn
<1>3. ASSUME RefreshRotate(r) PROVE Holds(r)
  BY <1>3 DEF RefreshRotate, RejectTokenReuse, End, Typed, Holds
<1> QED BY <1>1, <1>2, <1>3

LEMMA CommandHolds ==
  ASSUME Typed, NEW r \in Requests
  PROVE  /\ \A s \in DOMAIN sessions : LogoutRead(r, s) \/ MeRead(r, s) => Holds(r)
         /\ LogoutWrite(r) \/ MeWrite(r) \/ AccountCommit(r) \/ PlayerCommit(r) => Holds(r)
         /\ \A u \in Users, op \in AccountOps, role \in Roles, versioned \in BOOLEAN :
              AccountRead(r, u, op, role, versioned) => Holds(r)
         /\ \A p \in Players, op \in PlayerOps, u \in Users : PlayerRead(r, p, op, u) => Holds(r)
<1>1. ASSUME NEW s \in DOMAIN sessions, LogoutRead(r, s) \/ MeRead(r, s) PROVE Holds(r)
  BY <1>1 DEF LogoutRead, MeRead, Proceed, Typed, Holds, NamesSessions
<1>2. ASSUME LogoutWrite(r) \/ MeWrite(r) \/ AccountCommit(r) \/ PlayerCommit(r) PROVE Holds(r)
  BY <1>2 DEF LogoutWrite, MeWrite, AccountCommit, PlayerCommit, End, Typed, Holds
<1>3. ASSUME NEW u \in Users, NEW op \in AccountOps, NEW role \in Roles,
             NEW versioned \in BOOLEAN, AccountRead(r, u, op, role, versioned)
      PROVE  Holds(r)
  <2>1. PICK own \in {{}} \cup {{v} : v \in AsRead(OwnSessions(op, u))} :
          requests'[r] = [op |-> op, pc |-> "claim", user |-> u, row |-> accounts[u],
                          role |-> IF op = "role" THEN role ELSE None,
                          versioned |-> versioned, seen |-> own]
    BY <1>3 DEF AccountRead, Proceed, Typed
  <2> QED BY <2>1, OwnTypes DEF Holds, NamesSessions
<1>4. ASSUME NEW p \in Players, NEW op \in PlayerOps, NEW u \in Users, PlayerRead(r, p, op, u)
      PROVE  Holds(r)
  BY <1>4 DEF PlayerRead, Proceed, Typed, Holds, NamesSessions
<1> QED BY <1>1, <1>2, <1>3, <1>4

\* The steps of request r.
Steps(r) ==
  \/ \E e \in Emails, a \in Addresses, password \in 1 .. 2 : LoginCheck(r, e, a, password)
  \/ LoginVerify(r) \/ LoginCommit(r) \/ LoginReset(r)
  \/ \E t \in DOMAIN issued : RefreshRead(r, t)
  \/ RefreshCheck(r) \/ RefreshRotate(r)
  \/ \E s \in DOMAIN sessions : LogoutRead(r, s) \/ MeRead(r, s)
  \/ LogoutWrite(r) \/ MeWrite(r)
  \/ \E u \in Users, op \in AccountOps, role \in Roles, versioned \in BOOLEAN :
       AccountRead(r, u, op, role, versioned)
  \/ AccountClaim(r) \/ AccountCommit(r)
  \/ \E p \in Players, op \in PlayerOps, u \in Users : PlayerRead(r, p, op, u)
  \/ PlayerClaim(r) \/ PlayerCommit(r)

LEMMA NextSteps == Next => Tick \/ \E r \in Requests : Steps(r)
  BY DEF Next, Steps

LEMMA OthersWait ==
  ASSUME Typed, NEW r \in Requests, Steps(r), NEW x \in Requests \ {r}
  PROVE  requests'[x] = requests[x]
<1>1. CASE \E e \in Emails, a \in Addresses, password \in 1 .. 2 : LoginCheck(r, e, a, password)
  BY <1>1 DEF LoginCheck, Proceed, Typed
<1>2. CASE LoginVerify(r) \/ LoginCommit(r) \/ LoginReset(r)
  BY <1>2 DEF LoginVerify, LoginCommit, LoginReset, Proceed, End, Typed
<1>3. CASE \E t \in DOMAIN issued : RefreshRead(r, t)
  BY <1>3 DEF RefreshRead, Proceed, Typed
<1>4. CASE RefreshCheck(r) \/ RefreshRotate(r)
  BY <1>4 DEF RefreshCheck, RefreshRotate, RejectTokenReuse, Proceed, End, Typed
<1>5. CASE \E s \in DOMAIN sessions : LogoutRead(r, s) \/ MeRead(r, s)
  BY <1>5 DEF LogoutRead, MeRead, Proceed, Typed
<1>6. CASE LogoutWrite(r) \/ MeWrite(r) \/ AccountCommit(r) \/ PlayerCommit(r)
  BY <1>6 DEF LogoutWrite, MeWrite, AccountCommit, PlayerCommit, End, Typed
<1>7. CASE \E u \in Users, op \in AccountOps, role \in Roles, versioned \in BOOLEAN :
             AccountRead(r, u, op, role, versioned)
  BY <1>7 DEF AccountRead, Proceed, Typed
<1>8. CASE \E p \in Players, op \in PlayerOps, u \in Users : PlayerRead(r, p, op, u)
  BY <1>8 DEF PlayerRead, Proceed, Typed
<1>9. CASE AccountClaim(r) \/ PlayerClaim(r)
  BY <1>9 DEF AccountClaim, PlayerClaim, Proceed, End, Typed
<1> QED BY <1>1, <1>2, <1>3, <1>4, <1>5, <1>6, <1>7, <1>8, <1>9 DEF Steps

LEMMA StepHolds ==
  ASSUME Typed, Next, NEW x \in Requests
  PROVE  Holds(x)
<1>1. CASE Tick
  BY <1>1 DEF Tick, Holds
<1>2. ASSUME NEW r \in Requests, Steps(r), x # r PROVE Holds(x)
  BY <1>2, OthersWait DEF Holds
<1>3. CASE Steps(x)
  BY <1>3, LoginHolds, RefreshHolds, CommandHolds, ClaimHolds DEF Steps, Holds
<1> QED BY <1>1, <1>2, <1>3, NextSteps

LEMMA TypedNext ==
  ASSUME Typed, Located, Tracked, Next
  PROVE  Typed'
<1>1. CASE Tick
  BY <1>1 DEF Tick, Typed
<1>2. ASSUME NEW r \in Requests, Steps(r) PROVE Typed'
  <2>1. \A t \in DOMAIN issued : issued[t] \in DOMAIN sessions
    BY LenProperties DEF Tracked, Typed
  <2>2. CASE LoginCommit(r)
    BY <2>2, LoginTypes
  <2>3. CASE ~LoginCommit(r)
    BY <1>2, <2>1, <2>3, Reads, RefreshTypes, OwnerTypes, AccountTypes, PlayerTypes DEF Steps
  <2> QED BY <2>2, <2>3
<1> QED BY <1>1, <1>2, NextSteps

\* Sessions are never deleted.
LEMMA SessionsStay ==
  ASSUME Typed, Located, Tracked, Next
  PROVE  \A n \in 1 .. Len(sessions) : n \in 1 .. Len(sessions')
<1>1. CASE KeepsAll
  BY <1>1 DEF KeepsAll
<1>2. CASE LogsIn
  <2>1. PICK u \in Users : sessions' = Append(sessions, NewSession(u))
    BY <1>2 DEF LogsIn
  <2> QED BY <2>1, LenProperties DEF Typed
<1>3. ASSUME NEW r \in Requests, RotatesFor(r)
      PROVE  Len(sessions') = Len(sessions)
  <2>1. DOMAIN sessions' = DOMAIN sessions
    BY <1>3 DEF RotatesFor, Rotation
  <2>2. sessions' \in Seq(SessionRows)
    <3>1. Typed'
      BY TypedNext
    <3> QED BY <3>1 DEF Typed
  <2> QED BY <2>1, <2>2, LenProperties DEF Typed
<1> QED BY <1>1, <1>2, <1>3, StepKinds

LEMMA LocatedNext ==
  ASSUME Inv, Next
  PROVE  Located'
<1> SUFFICES ASSUME NEW x \in Requests, requests'[x] # Idle
             PROVE  /\ requests'[x].op \in {"refresh", "logout"} =>
                         requests'[x].id \in 1 .. Len(sessions')
                    /\ requests'[x].op \in AccountOps \cup PlayerOps =>
                         \A v \in requests'[x].seen : v[1] \in 1 .. Len(sessions')
  BY DEF Located
<1>0. \A n \in 1 .. Len(sessions) : n \in 1 .. Len(sessions')
  BY SessionsStay DEF Inv
<1>1. DOMAIN sessions = 1 .. Len(sessions)
  BY LenProperties DEF Inv, Typed
<1>2. CASE requests'[x] = requests[x]
  BY <1>0, <1>2 DEF Inv, Located
<1>3. CASE ReadsToken(x)
  <2>1. PICK t \in DOMAIN issued :
          requests'[x] = [op |-> "refresh", pc |-> "check", token |-> t, id |-> issued[t],
                          row |-> sessions[issued[t]], at |-> now]
    BY <1>3 DEF ReadsToken
  <2>2. issued[t] \in 1 .. Len(sessions)
    BY LenProperties DEF Inv, Typed, Tracked
  <2> QED BY <1>0, <2>1, <2>2 DEF AccountOps, RevokingOps, PlayerOps, LinkOps
<1>4. CASE GoesOn(x)
  <2>1. requests[x] \in Refreshes /\ requests[x].id \in 1 .. Len(sessions)
    BY <1>4, Kinds DEF GoesOn, At, Inv, Located
  <2>2. ASSUME NEW q \in Refreshes
        PROVE  [q EXCEPT !.pc = "rotate"].op = "refresh" /\ [q EXCEPT !.pc = "rotate"].id = q.id
    BY DEF Refreshes
  <2>3. requests'[x].op = "refresh" /\ requests'[x].id = requests[x].id
    BY <1>4, <2>1, <2>2 DEF GoesOn
  <2> QED BY <1>0, <2>1, <2>3 DEF AccountOps, RevokingOps, PlayerOps, LinkOps
<1>5. CASE NamesSessions(requests'[x])
  BY <1>0, <1>1, <1>5 DEF NamesSessions, AccountOps, RevokingOps, PlayerOps, LinkOps
<1> QED BY <1>2, <1>3, <1>4, <1>5, StepHolds DEF Holds, Inv

\* Under its WHERE clause a rotation writes to the session as it was read.
LEMMA RotatesAsRead ==
  ASSUME Inv, NEW r \in Requests, At(r, {"refresh"}, "rotate"),
         sessions[requests[r].id].current = requests[r].token
  PROVE  /\ requests[r] \in Refreshes /\ requests[r].id \in 1 .. Len(sessions)
         /\ Chain(sessions[requests[r].id]) = Chain(requests[r].row)
<1> DEFINE q == requests[r]
           c == Chain(q.row)
           d == Chain(sessions[q.id])
<1>1. q \in Refreshes /\ q.id \in 1 .. Len(sessions)
  BY Kinds DEF At, Inv, Located
<1>2. q.row \in SessionRows /\ sessions[q.id] \in SessionRows
  BY <1>1, ElementOfSeq DEF Refreshes, Inv, Typed
<1>3. Segment(c, d) /\ q.token = q.row.current
  BY DEF Inv, ReadsBehind, Behind, At
<1>4. /\ c \in Seq(Nat) /\ Len(c) \in 1 .. Len(d) /\ c[Len(c)] = q.row.current
      /\ d \in Seq(Nat) /\ Len(d) \in Nat \ {0} /\ d[Len(d)] = sessions[q.id].current
  BY <1>2, <1>3, ChainOf, SMTT(60) DEF Segment
<1>5. \A i, j \in 1 .. Len(d) : d[i] = d[j] => i = j
  BY <1>1 DEF Inv, Tracked
<1> HIDE DEF q, c, d
<1>6. sessions[q.id].current = q.token
  BY DEF q
<1>7. d[Len(c)] = d[Len(d)]
  BY <1>3, <1>4, <1>6 DEF Segment
<1>8. Len(c) = Len(d)
  BY <1>4, <1>5, <1>7
<1>9. c = d
  BY <1>3, <1>4, <1>8, SeqEqual DEF Segment
<1> QED BY <1>1, <1>9 DEF q, c, d

GrowsAt(s) ==
  /\ issued' = Append(issued, s)
  /\ \A x \in 1 .. Len(sessions) : x # s => Chain(sessions'[x]) = Chain(sessions[x])
  /\ \/ /\ s \in 1 .. Len(sessions) /\ Len(sessions') = Len(sessions)
        /\ Chain(sessions'[s]) = Append(Chain(sessions[s]), Len(issued) + 1)
     \/ /\ s = Len(sessions) + 1 /\ Len(sessions') = s
        /\ Chain(sessions'[s]) = <<Len(issued) + 1>>

\* A rotation writes one row: it gives a live session the next token and leaves it live.
LEMMA RotationEffect ==
  ASSUME Inv, NEW r \in Requests, RotatesFor(r)
  PROVE  LET s == requests[r].id
         IN  /\ s \in 1 .. Len(sessions) /\ Len(sessions') = Len(sessions)
             /\ issued' = Append(issued, s)
             /\ Chain(sessions'[s]) = Append(Chain(sessions[s]), Len(issued) + 1)
             /\ sessions[s].revoked = None /\ sessions'[s].revoked = None
             /\ \A x \in 1 .. Len(sessions) : x # s => sessions'[x] = sessions[x]
<1> DEFINE q == requests[r]
<1>1. /\ q \in Refreshes /\ q.id \in 1 .. Len(sessions)
      /\ Chain(sessions[q.id]) = Chain(q.row)
  BY RotatesAsRead DEF RotatesFor, Rotates, RotatesIfUnchanged
<1>2. sessions[q.id] \in SessionRows /\ DOMAIN sessions = 1 .. Len(sessions)
  BY <1>1, ElementOfSeq, LenProperties DEF Inv, Typed
<1> DEFINE new == [sessions[q.id] EXCEPT !.current = NextToken,
                     !.rotated = Append(q.row.rotated, q.row.current),
                     !.lastUsed = q.at, !.version = q.row.version + 1]
<1>3. ASSUME NEW row \in SessionRows, NEW a, NEW b, NEW c, NEW d
      PROVE  LET x == [row EXCEPT !.current = a, !.rotated = b, !.lastUsed = c, !.version = d]
             IN  x.current = a /\ x.rotated = b /\ x.revoked = row.revoked
  BY DEF SessionRows
<1>4. /\ new.current = NextToken /\ new.rotated = Append(q.row.rotated, q.row.current)
      /\ new.revoked = sessions[q.id].revoked
  BY <1>2, <1>3
<1>5. sessions' = [sessions EXCEPT ![q.id] = new] /\ sessions[q.id].revoked = None
  BY DEF RotatesFor, Rotation, Rotates, Fresh
<1> HIDE DEF new
<1>6. /\ sessions'[q.id] = new
      /\ \A x \in 1 .. Len(sessions) : x # q.id => sessions'[x] = sessions[x]
  BY <1>1, <1>2, <1>5
<1>7. Len(sessions') = Len(sessions)
  <2>1. q.row \in SessionRows /\ q.at \in Nat
    BY <1>1 DEF Refreshes
  <2>2. /\ NextToken \in Nat /\ q.row.version + 1 \in Nat \ {0}
        /\ Append(q.row.rotated, q.row.current) \in Seq(Nat)
    BY <2>1, LenProperties DEF NextToken, Inv, Typed, SessionRows
  <2>3. new \in SessionRows
    BY <1>2, <2>1, <2>2, RotatedRow DEF new
  <2> QED BY <1>1, <1>5, <2>3, ExceptSeq DEF Inv, Typed
<1>8. Chain(new) = Append(Chain(q.row), Len(issued) + 1)
  BY <1>4 DEF Chain, NextToken
<1>9. issued' = Append(issued, q.id)
  BY DEF RotatesFor
<1> QED BY <1>1, <1>4, <1>5, <1>6, <1>7, <1>8, <1>9

LEMMA ChainEffect ==
  ASSUME Inv, Next
  PROVE  \/ /\ issued' = issued /\ Len(sessions') = Len(sessions)
            /\ \A x \in 1 .. Len(sessions) : Chain(sessions'[x]) = Chain(sessions[x])
         \/ \E s \in Nat : GrowsAt(s)
<1>1. CASE KeepsAll
  BY <1>1 DEF KeepsAll, Kept, Chain
<1>2. CASE LogsIn
  <2>1. PICK u \in Users : sessions' = Append(sessions, NewSession(u))
    BY <1>2 DEF LogsIn
  <2> DEFINE n == Len(sessions) + 1
  <2>2. /\ n \in Nat /\ Len(sessions') = n /\ sessions'[n] = NewSession(u)
        /\ \A x \in 1 .. Len(sessions) : sessions'[x] = sessions[x] /\ x # n
    BY <2>1, LenProperties DEF Inv, Typed
  <2>3. Chain(NewSession(u)) = <<Len(issued) + 1>>
    BY DEF Chain, NewSession, NextToken
  <2> QED BY <1>2, <2>2, <2>3 DEF LogsIn, GrowsAt
<1>3. ASSUME NEW r \in Requests, RotatesFor(r)
      PROVE  GrowsAt(requests[r].id) /\ requests[r].id \in Nat
  BY <1>3, RotationEffect DEF GrowsAt
<1> QED BY <1>1, <1>2, <1>3, StepKinds DEF Inv

LEMMA Grown ==
  ASSUME NEW c \in Seq(Nat), NEW n \in Nat
  PROVE  /\ Append(c, n) \in Seq(Nat) /\ Len(c) \in Nat /\ Len(Append(c, n)) = Len(c) + 1
         /\ Append(c, n)[Len(c) + 1] = n
         /\ \A i \in 1 .. Len(c) : Append(c, n)[i] = c[i]
  BY LenProperties

\* The chain that grows stays one of distinct issued tokens.
LEMMA GrownChain ==
  ASSUME Inv, NEW s \in Nat, GrowsAt(s)
  PROVE  LET e == Chain(sessions'[s])
         IN  /\ Len(e) \in Nat \ {0} /\ e[Len(e)] = Len(issued) + 1
             /\ \A i \in 1 .. Len(e) : e[i] \in 1 .. Len(issued) + 1
             /\ \A i, j \in 1 .. Len(e) : e[i] = e[j] => i = j
             /\ s \in 1 .. Len(sessions) =>
                  /\ Len(Chain(sessions[s])) \in Nat \ {0} /\ Len(Chain(sessions[s])) <= Len(e)
                  /\ \A i \in 1 .. Len(Chain(sessions[s])) : e[i] = Chain(sessions[s])[i]
<1> DEFINE e == Chain(sessions'[s])
           d == Chain(sessions[s])
           n == Len(issued) + 1
<1>1. n \in Nat \ {0} /\ Len(sessions) \in Nat
  BY LenProperties DEF Inv, Typed
<1>2. CASE s \in 1 .. Len(sessions) /\ e = Append(d, n)
  <2>1. sessions[s] \in SessionRows
    BY <1>2, ElementOfSeq DEF Inv, Typed
  <2>2. d \in Seq(Nat) /\ Len(d) \in Nat \ {0}
    BY <2>1, ChainOf
  <2>3. /\ \A i \in 1 .. Len(d) : d[i] \in 1 .. Len(issued)
        /\ \A i, j \in 1 .. Len(d) : d[i] = d[j] => i = j
    BY <1>2 DEF Inv, Tracked
  <2> HIDE DEF d
  <2>4. /\ Len(e) = Len(d) + 1 /\ e[Len(d) + 1] = n
        /\ \A i \in 1 .. Len(d) : e[i] = d[i]
    BY <1>1, <1>2, <2>2, Grown
  <2> HIDE DEF e
  <2>5. \A i \in 1 .. Len(e) : i \in 1 .. Len(d) \/ i = Len(d) + 1
    BY <2>2, <2>4
  <2>6. \A i \in 1 .. Len(d) : e[i] \in 1 .. Len(issued)
    BY <2>3, <2>4
  <2>7. \A i \in 1 .. Len(e) : e[i] \in 1 .. n
    BY <1>1, <2>4, <2>5, <2>6
  <2>8. ASSUME NEW i \in 1 .. Len(e), NEW j \in 1 .. Len(e), e[i] = e[j] PROVE i = j
    <3>1. CASE i \in 1 .. Len(d) /\ j \in 1 .. Len(d)
      BY <2>3, <2>4, <2>8, <3>1
    <3>2. CASE i = Len(d) + 1 \/ j = Len(d) + 1
      BY <1>1, <2>4, <2>5, <2>6, <2>8, <3>2
    <3> QED BY <2>5, <3>1, <3>2
  <2> QED BY <1>1, <2>2, <2>4, <2>7, <2>8 DEF e, d
<1>3. CASE s = Len(sessions) + 1 /\ e = <<n>>
  <2>1. Len(e) = 1 /\ e[1] = n
    BY <1>3
  <2> HIDE DEF e
  <2>2. s \notin 1 .. Len(sessions)
    BY <1>1, <1>3
  <2> QED BY <1>1, <2>1, <2>2 DEF e
<1> QED BY <1>2, <1>3 DEF GrowsAt

LEMMA TrackedNext ==
  ASSUME Inv, Next
  PROVE  Tracked'
<1>1. CASE /\ issued' = issued /\ Len(sessions') = Len(sessions)
           /\ \A x \in 1 .. Len(sessions) : Chain(sessions'[x]) = Chain(sessions[x])
  BY <1>1 DEF Inv, Tracked
<1>2. ASSUME NEW s \in Nat, GrowsAt(s) PROVE Tracked'
  <2> DEFINE n == Len(issued) + 1
             e(x) == Chain(sessions'[x])
  <2>1. n \in Nat \ {0} /\ Len(issued) \in Nat /\ Len(sessions) \in Nat
    BY LenProperties DEF Inv, Typed
  <2>2. /\ Len(issued') = n /\ issued'[n] = s
        /\ \A t \in 1 .. Len(issued) : issued'[t] = issued[t]
    BY <1>2, LenProperties DEF GrowsAt, Inv, Typed
  <2>3. /\ s \in 1 .. Len(sessions')
        /\ \A x \in 1 .. Len(sessions') :
             x # s => x \in 1 .. Len(sessions) /\ e(x) = Chain(sessions[x])
        /\ \A x \in 1 .. Len(sessions) : x \in 1 .. Len(sessions')
    BY <1>2, <2>1 DEF GrowsAt
  <2>4. /\ Len(e(s)) \in Nat \ {0} /\ e(s)[Len(e(s))] = n
        /\ \A i \in 1 .. Len(e(s)) : e(s)[i] \in 1 .. n
        /\ \A i, j \in 1 .. Len(e(s)) : e(s)[i] = e(s)[j] => i = j
        /\ s \in 1 .. Len(sessions) =>
             /\ Len(Chain(sessions[s])) \in Nat \ {0} /\ Len(Chain(sessions[s])) <= Len(e(s))
             /\ \A i \in 1 .. Len(Chain(sessions[s])) : e(s)[i] = Chain(sessions[s])[i]
    BY <1>2, GrownChain
  <2> HIDE DEF e
  <2>5. ASSUME NEW t \in 1 .. Len(issued')
        PROVE  issued'[t] \in 1 .. Len(sessions') /\ Within(e(issued'[t]), t)
    <3>1. CASE t = n
      BY <2>2, <2>3, <2>4, <3>1 DEF Within
    <3>2. CASE t \in 1 .. Len(issued)
      <4>1. issued[t] \in 1 .. Len(sessions) /\ Within(Chain(sessions[issued[t]]), t)
        BY <3>2 DEF Inv, Tracked
      <4>2. CASE issued[t] = s
        <5>1. PICK i \in 1 .. Len(Chain(sessions[s])) : Chain(sessions[s])[i] = t
          BY <4>1, <4>2 DEF Within
        <5>2. i \in 1 .. Len(e(s)) /\ e(s)[i] = t
          BY <4>1, <4>2, <5>1, <2>4
        <5> QED BY <2>2, <2>3, <3>2, <4>2, <5>2 DEF Within
      <4>3. CASE issued[t] # s
        BY <2>2, <2>3, <3>2, <4>1, <4>3
      <4> QED BY <4>2, <4>3
    <3> QED BY <2>1, <2>2, <3>1, <3>2
  <2>6. ASSUME NEW x \in 1 .. Len(sessions')
        PROVE  /\ \A i \in 1 .. Len(e(x)) : e(x)[i] \in 1 .. Len(issued')
               /\ \A i, j \in 1 .. Len(e(x)) : e(x)[i] = e(x)[j] => i = j
    <3>1. CASE x = s
      BY <2>2, <2>4, <3>1
    <3>2. CASE x # s
      <4>1. x \in 1 .. Len(sessions) /\ e(x) = Chain(sessions[x])
        BY <2>3, <3>2
      <4>2. /\ \A i \in 1 .. Len(e(x)) : e(x)[i] \in 1 .. Len(issued)
            /\ \A i, j \in 1 .. Len(e(x)) : e(x)[i] = e(x)[j] => i = j
        BY <4>1 DEF Inv, Tracked
      <4> QED BY <2>1, <2>2, <4>2
    <3> QED BY <3>1, <3>2
  <2>7. \A x : Chain(sessions[x])' = e(x)
    BY DEF e, Chain
  <2> QED BY <2>5, <2>6 DEF Tracked, e, Chain, Within
<1> QED BY <1>1, <1>2, ChainEffect

\* A chain only grows, and at its end.
LEMMA ChainsGrow ==
  ASSUME Inv, Next, NEW x \in 1 .. Len(sessions)
  PROVE  Segment(Chain(sessions[x]), Chain(sessions'[x]))
<1>1. sessions[x] \in SessionRows
  BY ElementOfSeq DEF Inv, Typed
<1>2. Len(Chain(sessions[x])) \in Nat
  BY <1>1, ChainOf
<1>3. CASE Chain(sessions'[x]) = Chain(sessions[x])
  BY <1>2, <1>3 DEF Segment
<1>4. CASE GrowsAt(x)
  BY <1>4, GrownChain DEF Segment
<1>5. CASE \E s \in Nat : GrowsAt(s) /\ s # x
  BY <1>3, <1>5 DEF GrowsAt
<1> QED BY <1>3, <1>4, <1>5, ChainEffect

LEMMA StillBehind ==
  ASSUME Inv, Next, NEW x \in Requests, requests[x] # Idle, requests[x].op = "refresh"
  PROVE  Segment(Chain(requests[x].row), Chain(sessions'[requests[x].id]))
<1> DEFINE q == requests[x]
           c == Chain(q.row)
           d == Chain(sessions[q.id])
           e == Chain(sessions'[q.id])
<1>1. q \in Refreshes /\ q.id \in 1 .. Len(sessions)
  BY Kinds DEF Inv, Located
<1>2. q.row \in SessionRows /\ sessions[q.id] \in SessionRows /\ sessions'[q.id] \in SessionRows
  <2>1. Typed' /\ q.id \in 1 .. Len(sessions')
    BY <1>1, TypedNext, SessionsStay DEF Inv
  <2> QED BY <1>1, <2>1, ElementOfSeq DEF Refreshes, Inv, Typed
<1>3. Len(c) \in Nat /\ Len(d) \in Nat /\ Len(e) \in Nat
  BY <1>2, ChainOf
<1>4. Segment(c, d) /\ Segment(d, e)
  BY <1>1, ChainsGrow DEF Inv, ReadsBehind, Behind
<1> HIDE DEF c, d, e
<1>5. Segment(c, e)
  BY <1>3, <1>4 DEF Segment
<1> QED BY <1>5 DEF c, e

LEMMA ReadsBehindNext ==
  ASSUME Inv, Next
  PROVE  ReadsBehind'
<1> SUFFICES ASSUME NEW x \in Requests, requests'[x] # Idle, requests'[x].op = "refresh"
             PROVE  Behind(requests[x])'
  BY DEF ReadsBehind
<1>1. CASE requests'[x] = requests[x]
  <2>1. Behind(requests[x])
    BY <1>1 DEF Inv, ReadsBehind
  <2>2. Segment(Chain(requests[x].row), Chain(sessions'[requests[x].id]))
    BY <1>1, StillBehind
  <2> QED BY <1>1, <2>1, <2>2 DEF Behind, Chain, Segment, Within
<1>2. CASE ReadsToken(x)
  <2>1. PICK t \in DOMAIN issued :
          requests'[x] = [op |-> "refresh", pc |-> "check", token |-> t, id |-> issued[t],
                          row |-> sessions[issued[t]], at |-> now]
    BY <1>2 DEF ReadsToken
  <2>2. issued[t] \in 1 .. Len(sessions) /\ Within(Chain(sessions[issued[t]]), t)
    BY LenProperties DEF Inv, Typed, Tracked
  <2>3. sessions[issued[t]] \in SessionRows
    BY <2>2, ElementOfSeq DEF Inv, Typed
  <2>4. Segment(Chain(sessions[issued[t]]), Chain(sessions[issued[t]]))
    BY <2>3, ChainOf DEF Segment
  <2>5. sessions' = sessions
    BY <1>2 DEF ReadsToken
  <2> QED BY <2>1, <2>2, <2>4, <2>5 DEF Behind, Chain, Segment, Within
<1>3. CASE GoesOn(x)
  <2> DEFINE q == requests[x]
  <2>1. q \in Refreshes /\ Behind(q)
    BY <1>3, Kinds DEF GoesOn, At, Inv, ReadsBehind
  <2>2. q.row \in SessionRows
    BY <2>1 DEF Refreshes
  <2>3. q.token = q.row.current
    <3>1. PICK i \in 1 .. Len(Chain(q.row)) : Chain(q.row)[i] = q.token
      BY <2>1 DEF Behind, Within
    <3>2. q.row.rotated \in Seq(Nat)
      BY <2>2 DEF SessionRows
    <3>3. ASSUME i \in 1 .. Len(q.row.rotated) PROVE FALSE
      <4>1. q.row.rotated[i] = q.token
        BY <2>2, <3>1, <3>3, ChainOf
      <4>2. q.token \in ToSet(q.row.rotated)
        BY <3>2, <3>3, <4>1, LenProperties DEF ToSet
      <4> QED BY <1>3, <4>2 DEF GoesOn, Reused
    <3> QED BY <2>2, <3>1, <3>3, ChainOf
  <2>4. ASSUME NEW y \in Refreshes
        PROVE  LET z == [y EXCEPT !.pc = "rotate"]
               IN  z.row = y.row /\ z.id = y.id /\ z.token = y.token
    BY DEF Refreshes
  <2>5. /\ requests'[x].row = q.row /\ requests'[x].id = q.id /\ requests'[x].token = q.token
        /\ sessions' = sessions
    BY <1>3, <2>1, <2>4 DEF GoesOn
  <2> QED BY <2>1, <2>3, <2>5 DEF Behind, Chain, Segment, Within
<1>4. CASE NamesSessions(requests'[x])
  BY <1>4 DEF NamesSessions, AccountOps, RevokingOps, PlayerOps, LinkOps
<1> QED BY <1>1, <1>2, <1>3, <1>4, StepHolds DEF Holds, Inv

LEMMA InvNext == Inv /\ [Next]_vars => Inv'
<1>1. ASSUME Inv, Next PROVE Inv'
  BY <1>1, TypedNext, LocatedNext, TrackedNext, ReadsBehindNext DEF Inv
<1>2. ASSUME Inv, UNCHANGED vars PROVE Inv'
  <2>1. UNCHANGED <<accounts, players, sessions, issued, requests, now>>
    BY <1>2 DEF vars
  <2>2. Typed'
    BY <1>2, <2>1 DEF Inv, Typed
  <2>3. Located'
    BY <1>2, <2>1 DEF Inv, Located
  <2>4. Tracked'
    BY <1>2, <2>1 DEF Inv, Tracked
  <2>5. ReadsBehind'
    BY <1>2, <2>1 DEF Inv, ReadsBehind, Behind
  <2> QED BY <2>2, <2>3, <2>4, <2>5 DEF Inv
<1> QED BY <1>1, <1>2

-----------------------------------------------------------------------------
(* The theorems.                                                           *)

\* The inductive invariant of tokens, sessions and of what requests have read.
THEOREM Invariance == Spec => []Inv
  BY InvInit, InvNext, PTL DEF Spec

\* Every refresh token ever handed out is the one its session accepts or one
\* it remembers as exchanged, and no session holds a token twice: whatever
\* logins, refreshes, logouts and revocations run together, the replay of a
\* token is recognised.
THEOREM AllTokensTracked == Spec => []TokensTracked
<1>1. Inv => TokensTracked
  <2> SUFFICES ASSUME Inv PROVE TokensTracked
    OBVIOUS
  <2>1. ASSUME NEW t \in Tokens
        PROVE  t \in ToSet(Chain(sessions[issued[t]]))
    <3>1. issued[t] \in 1 .. Len(sessions) /\ Within(Chain(sessions[issued[t]]), t)
      BY DEF Inv, Tracked, Tokens
    <3>2. sessions[issued[t]] \in SessionRows
      BY <3>1, ElementOfSeq DEF Inv, Typed
    <3>3. DOMAIN Chain(sessions[issued[t]]) = 1 .. Len(Chain(sessions[issued[t]]))
      BY <3>2, ChainOf, LenProperties
    <3> QED BY <3>1, <3>3 DEF Within, ToSet
  <2>2. ASSUME NEW s \in DOMAIN sessions
        PROVE  IsInjective(Chain(sessions[s]))
    <3>1. s \in 1 .. Len(sessions) /\ sessions[s] \in SessionRows
      BY RowRead DEF Inv
    <3>2. DOMAIN Chain(sessions[s]) = 1 .. Len(Chain(sessions[s]))
      BY <3>1, ChainOf, LenProperties
    <3> QED BY <3>1, <3>2 DEF IsInjective, Inv, Tracked
  <2> QED BY <2>1, <2>2 DEF TokensTracked, Chain
<1> QED BY <1>1, Invariance, PTL

\* A session once revoked is never refreshed again and never comes back,
\* although revocations and logouts may write a version number twice.
THEOREM RevocationIsFinal == Spec => RevokedIsFinal
<1> DEFINE Final ==
      \A s \in DOMAIN sessions :
        ~Unrevoked(s) =>
          /\ sessions'[s].revoked # None
          /\ sessions'[s].current = sessions[s].current
          /\ sessions'[s].rotated = sessions[s].rotated
          /\ sessions'[s].lastUsed = sessions[s].lastUsed
<1>1. ASSUME Inv, Next PROVE Final
  <2> SUFFICES ASSUME NEW s \in DOMAIN sessions, ~Unrevoked(s)
               PROVE  Kept(s)
    BY DEF Kept, Unrevoked
  <2>1. s \in 1 .. Len(sessions) /\ s \in Nat
    BY <1>1, RowRead DEF Inv
  <2>2. CASE KeepsAll
    BY <2>1, <2>2 DEF KeepsAll
  <2>3. CASE sessions'[s] = sessions[s]
    BY <2>3 DEF Kept
  <2>4. CASE LogsIn
    <3>1. PICK u \in Users : sessions' = Append(sessions, NewSession(u))
      BY <2>4 DEF LogsIn
    <3> QED BY <1>1, <2>1, <2>3, <3>1, LenProperties DEF Inv, Typed
  <2>5. ASSUME NEW r \in Requests, RotatesFor(r) PROVE sessions'[s] = sessions[s]
    <3>1. sessions[requests[r].id].revoked = None
      BY <2>5 DEF RotatesFor, Rotates, Fresh
    <3>2. s # requests[r].id
      BY <3>1 DEF Unrevoked
    <3> QED BY <2>5, <3>2 DEF RotatesFor, Rotation
  <2> QED BY <1>1, <2>2, <2>3, <2>4, <2>5, StepKinds DEF Inv
<1>2. Inv /\ [Next]_vars => [Final]_vars
  BY <1>1
<1> QED BY <1>2, Invariance, PTL DEF Spec, RevokedIsFinal

\* A request's state changes only in a step of its own.
LEMMA OwnStep ==
  ASSUME Typed, Next, NEW r \in Requests, requests'[r] # requests[r]
  PROVE  Steps(r)
  BY NextSteps, OthersWait DEF Tick

LEMMA RefreshStep ==
  ASSUME NEW r \in Requests, Steps(r), At(r, {"refresh"}, "check") \/ At(r, {"refresh"}, "rotate")
  PROVE  RefreshCheck(r) \/ RefreshRotate(r)
  BY DEF Steps, At, Starts, LoginCheck, LoginVerify, LoginCommit, LoginReset, RefreshRead,
         LogoutRead, LogoutWrite, MeRead, MeWrite, AccountRead, AccountClaim, AccountCommit,
         PlayerRead, PlayerClaim, PlayerCommit, AccountOps, RevokingOps, PlayerOps, LinkOps

LEMMA CommitStep ==
  ASSUME NEW r \in Requests, Steps(r), At(r, AccountOps \cup PlayerOps, "commit")
  PROVE  AccountCommit(r) \/ PlayerCommit(r)
  BY DEF Steps, At, Starts, LoginCheck, LoginVerify, LoginCommit, LoginReset, RefreshRead,
         RefreshCheck, RefreshRotate, LogoutRead, LogoutWrite, MeRead, MeWrite, AccountRead,
         AccountClaim, PlayerRead, PlayerClaim, AccountOps, RevokingOps, PlayerOps, LinkOps

\* The revocation behind a disablement, a password change, an administrator's
\* command or a profile's deactivation reaches every session it had listed,
\* those included that were refreshed, logged out or revoked since.
THEOREM NoSessionSpared == Spec => RevocationsSpareNone
<1> DEFINE Spared ==
      \A r \in Requests :
        At(r, AccountOps \cup PlayerOps, "commit") =>
          (requests'[r] = Idle =>
             \A v \in requests[r].seen : sessions'[v[1]].revoked # None)
<1>1. ASSUME Inv, Next PROVE Spared
  <2> SUFFICES ASSUME NEW r \in Requests, At(r, AccountOps \cup PlayerOps, "commit"),
                      requests'[r] = Idle, NEW v \in requests[r].seen
               PROVE  sessions'[v[1]].revoked # None
    OBVIOUS
  <2>1. AccountCommit(r) \/ PlayerCommit(r)
    BY <1>1, OwnStep, CommitStep DEF Inv, At
  <2>2. ASSUME PlayerCommit(r), IndexRefuses(requests[r]) PROVE FALSE
    <3>1. requests[r] \in PlayerCommands /\ requests[r].op \in {"link", "reassign"}
      BY <1>1, <2>2, Kinds DEF PlayerCommit, At, IndexRefuses, Inv
    <3> QED BY <3>1 DEF PlayerCommands
  <2> QED BY <1>1, <2>1, <2>2, RevocationKeeps DEF Inv
<1>2. Inv /\ [Next]_vars => [Spared]_vars
  BY <1>1
<1> QED BY <1>2, Invariance, PTL DEF Spec, RevocationsSpareNone

\* The replay of a token that another request exchanged first ends the session
\* whichever of the two writes last, unless the request is turned away before.
THEOREM ReplayIsFatal == Spec => ReplayEndsSession
<1> DEFINE Ended ==
      \A r \in Requests :
        /\ At(r, {"refresh"}, "rotate") \/ (At(r, {"refresh"}, "check") /\ Reused(requests[r]))
        /\ requests'[r] = Idle
        /\ requests[r].token \in ToSet(sessions[requests[r].id].rotated)
        => sessions'[requests[r].id].revoked # None
<1>1. ASSUME Inv, Next PROVE Ended
  <2> SUFFICES ASSUME NEW r \in Requests,
                      \/ At(r, {"refresh"}, "rotate")
                      \/ At(r, {"refresh"}, "check") /\ Reused(requests[r]),
                      requests'[r] = Idle,
                      requests[r].token \in ToSet(sessions[requests[r].id].rotated)
               PROVE  sessions'[requests[r].id].revoked # None
    OBVIOUS
  <2>1. requests[r] # Idle /\ requests[r] \in Refreshes
    BY <1>1, Kinds DEF At, Inv
  <2>2. CASE RejectTokenReuse(r) /\ issued' = issued
    BY <1>1, <2>1, <2>2, ReuseKeeps DEF Inv
  <2>3. RefreshCheck(r) \/ RefreshRotate(r)
    BY <1>1, <2>1, OwnStep, RefreshStep DEF Inv
  <2>4. CASE RefreshCheck(r)
    BY <2>2, <2>4 DEF RefreshCheck, At
  <2>5. CASE RefreshRotate(r)
    <3>1. CASE Rotates(requests[r])
      <4> DEFINE row == sessions[requests[r].id]
      <4>1. At(r, {"refresh"}, "rotate") /\ row.current = requests[r].token
        BY <2>5, <3>1 DEF RefreshRotate, Rotates, RotatesIfUnchanged
      <4>2. requests[r].id \in 1 .. Len(sessions)
        BY <1>1, <4>1, RotatesAsRead
      <4>3. row \in SessionRows
        BY <1>1, <4>2, ElementOfSeq DEF Inv, Typed
      <4>4. PICK i \in 1 .. Len(row.rotated) : row.rotated[i] = requests[r].token
        BY <4>3, LenProperties DEF ToSet, SessionRows
      <4>5. \A a, b \in 1 .. Len(Chain(row)) : Chain(row)[a] = Chain(row)[b] => a = b
        BY <1>1, <4>2 DEF Inv, Tracked
      <4>6. Chain(row)[i] = Chain(row)[Len(Chain(row))]
        BY <4>1, <4>3, <4>4, ChainOf
      <4> QED BY <4>3, <4>4, <4>5, <4>6, ChainOf
    <3>2. CASE ~Rotates(requests[r])
      BY <2>2, <2>5, <3>2 DEF RefreshRotate, LostToRotation
    <3> QED BY <3>1, <3>2
  <2> QED BY <2>3, <2>4, <2>5
<1>2. Inv /\ [Next]_vars => [Ended]_vars
  BY <1>1
<1> QED BY <1>2, Invariance, PTL DEF Spec, ReplayEndsSession

\* Whatever else was under way when an account was disabled, only a
\* reactivation makes it active again.
THEOREM DisabledStaysDisabled == Spec => OnlyReactivationActivates
<1> DEFINE Deliberate ==
      \A u \in Users :
        ~accounts[u].active /\ accounts'[u].active =>
          \E r \in Requests : At(r, {"reactivate"}, "commit") /\ requests[r].user = u
<1>1. ASSUME Inv, Next PROVE Deliberate
  <2> SUFFICES ASSUME NEW u \in Users, ~accounts[u].active, accounts'[u].active
               PROVE  \E r \in Requests : At(r, {"reactivate"}, "commit") /\ requests[r].user = u
    OBVIOUS
  <2>1. accounts' # accounts
    OBVIOUS
  <2>2. PICK r \in Requests : Steps(r)
    BY <1>1, <2>1, NextSteps DEF Tick
  <2>3. MeWrite(r) \/ AccountCommit(r)
    BY <2>1, <2>2, ReadersKeep
       DEF Steps, LoginCommit, RefreshCheck, RefreshRotate, LogoutWrite, PlayerCommit
  <2>4. CASE MeWrite(r)
    <3> DEFINE q == requests[r]
    <3>1. q.user \in Users /\ q.row \in AccountRows
      BY <1>1, <2>4, Kinds DEF MeWrite, At, Inv, Edits
    <3>2. accounts[q.user] \in AccountRows /\ q.row.version + 1 \in Nat \ {0}
      BY <1>1, <3>1 DEF AccountRows, Inv, Typed
    <3>3. [accounts[q.user] EXCEPT !.version = q.row.version + 1].active = accounts[q.user].active
      BY <3>2, VersionRewritten
    <3>4. accounts' = [accounts EXCEPT ![q.user] =
                         [accounts[q.user] EXCEPT !.version = q.row.version + 1]]
      BY <2>4 DEF MeWrite, ProfileEdited
    <3> QED BY <1>1, <3>1, <3>3, <3>4 DEF Inv, Typed
  <2>5. CASE AccountCommit(r)
    <3> DEFINE q == requests[r]
    <3>1. q \in AccountCommands
      BY <1>1, <2>5, Kinds DEF AccountCommit, At, Inv
    <3>2. accounts' = [accounts EXCEPT ![q.user] = AccountAfter(q)]
      BY <2>5 DEF AccountCommit
    <3>3. q.user = u /\ AccountAfter(q).active
      BY <1>1, <3>2 DEF Inv, Typed
    <3>4. q.op = "reactivate"
      BY <1>1, <3>1, <3>3, AccountChange DEF Inv
    <3> QED BY <2>5, <3>3, <3>4 DEF AccountCommit, At
  <2> QED BY <2>3, <2>4, <2>5
<1>2. Inv /\ [Next]_vars => [Deliberate]_vars
  BY <1>1
<1> QED BY <1>2, Invariance, PTL DEF Spec, OnlyReactivationActivates

-----------------------------------------------------------------------------
(* The timestamps a request still counts, by induction on the sequence: the *)
(* least position where a claim fails does not exist.                      *)

LEMMA LeastNumber ==
  ASSUME NEW T \in SUBSET Nat, T # {}
  PROVE  \E x \in T : \A y \in T : x <= y
<1> DEFINE R == OpToRel(<, Nat)
<1>1. IsWellFoundedOn(R, Nat)
  BY NatLessThanWellFounded
<1>2. ASSUME NEW x \in Nat, NEW y \in Nat, y < x PROVE <<y, x>> \in R
  BY <1>2 DEF OpToRel
<1> HIDE DEF R
<1>3. PICK x \in T : \A y \in T : ~ (<<y, x>> \in R)
  BY <1>1, WFMin
<1>4. ASSUME NEW y \in T PROVE x <= y
  <2>1. ~(y < x)
    BY <1>2, <1>3
  <2> QED BY <2>1
<1> QED BY <1>4

\* f[i] holds those of the first i timestamps that still count.
Counts(times, at, f) ==
  /\ f[0] = <<>>
  /\ \A i \in DOMAIN f : i # 0 =>
       f[i] = IF times[i] > at - Window THEN Append(f[i - 1], times[i]) ELSE f[i - 1]

LEMMA CountsExists ==
  ASSUME NEW S, NEW times \in Seq(S), NEW at \in Int
  PROVE  \A n \in 0 .. Len(times) : \E f \in [0 .. n -> Seq(S)] : Counts(times, at, f)
<1> DEFINE Has(n) == \E f \in [0 .. n -> Seq(S)] : Counts(times, at, f)
           T == {n \in 0 .. Len(times) : ~Has(n)}
<1>1. Len(times) \in Nat /\ \A i \in 1 .. Len(times) : times[i] \in S
  BY LenProperties, ElementOfSeq
<1> SUFFICES ASSUME T # {} PROVE FALSE
  OBVIOUS
<1>2. T \in SUBSET Nat
  BY <1>1
<1>3. PICK n \in T : \A m \in T : n <= m
  <2> HIDE DEF T
  <2> QED BY <1>2, LeastNumber
<1>4. CASE n = 0
  <2> DEFINE f == [i \in 0 .. 0 |-> <<>>]
  <2>1. f \in [0 .. 0 -> Seq(S)]
    BY EmptySeq
  <2>2. Counts(times, at, f)
    BY DEF Counts
  <2> QED BY <1>3, <1>4, <2>1, <2>2
<1>5. CASE n # 0
  <2>1. n \in 1 .. Len(times) /\ n - 1 \in 0 .. Len(times) /\ Has(n - 1)
    <3> HIDE DEF Has
    <3>1. n \in 1 .. Len(times) /\ n - 1 \in 0 .. Len(times)
      BY <1>1, <1>3, <1>5
    <3>2. n - 1 \notin T
      BY <1>3, <3>1
    <3> QED BY <3>1, <3>2
  <2>2. PICK f \in [0 .. n - 1 -> Seq(S)] : Counts(times, at, f)
    BY <2>1
  <2> DEFINE new == IF times[n] > at - Window THEN Append(f[n - 1], times[n]) ELSE f[n - 1]
             g == [i \in 0 .. n |-> IF i = n THEN new ELSE f[i]]
  <2>3. f[n - 1] \in Seq(S) /\ times[n] \in S
    BY <1>1, <2>1, <2>2
  <2>4. new \in Seq(S)
    BY <2>3, AppendProperties
  <2> HIDE DEF new
  <2>5. g \in [0 .. n -> Seq(S)]
    BY <1>1, <2>1, <2>2, <2>4
  <2>6. /\ DOMAIN g = 0 .. n /\ DOMAIN f = 0 .. n - 1
        /\ g[n] = new /\ \A i \in 0 .. n - 1 : g[i] = f[i]
    BY <2>1, <2>2
  <2> HIDE DEF g
  <2>7. g[0] = <<>>
    BY <2>1, <2>2, <2>6 DEF Counts
  <2>8. ASSUME NEW i \in DOMAIN g, i # 0
        PROVE  g[i] = IF times[i] > at - Window THEN Append(g[i - 1], times[i]) ELSE g[i - 1]
    <3>1. CASE i = n
      BY <2>1, <2>6, <3>1 DEF new
    <3>2. CASE i # n
      <4>1. i \in 0 .. n - 1 /\ i - 1 \in 0 .. n - 1
        BY <1>1, <2>1, <2>6, <2>8, <3>2
      <4> QED BY <2>2, <2>6, <2>8, <4>1, ZenonT(60) DEF Counts
    <3> QED BY <3>1, <3>2
  <2>9. Counts(times, at, g)
    BY <2>7, <2>8 DEF Counts
  <2> QED BY <1>3, <2>5, <2>9
<1> QED BY <1>4, <1>5

LEMMA RecentCounts ==
  ASSUME NEW S, NEW times \in Seq(S), NEW at \in Int
  PROVE  \E f \in [0 .. Len(times) -> Seq(S)] :
           Counts(times, at, f) /\ Recent(times, at) = f[Len(times)]
<1> DEFINE n == Len(times)
           kept[i \in 0 .. Len(times)] ==
             IF i = 0 THEN <<>>
             ELSE IF times[i] > at - Window THEN Append(kept[i - 1], times[i])
             ELSE kept[i - 1]
<1>1. n \in Nat
  BY LenProperties
<1>2. PICK f \in [0 .. n -> Seq(S)] : Counts(times, at, f)
  <2>1. n \in 0 .. Len(times)
    BY <1>1
  <2> HIDE DEF n, kept
  <2> QED BY <2>1, CountsExists
<1>3. f = [i \in 0 .. Len(times) |->
             IF i = 0 THEN <<>>
             ELSE IF times[i] > at - Window THEN Append(f[i - 1], times[i])
             ELSE f[i - 1]]
  <2> DEFINE e(i) == IF i = 0 THEN <<>>
                     ELSE IF times[i] > at - Window THEN Append(f[i - 1], times[i])
                     ELSE f[i - 1]
  <2>1. \A i \in 0 .. n : f[i] = e(i)
    BY <1>2 DEF Counts
  <2> HIDE DEF e
  <2>2. f = [i \in 0 .. n |-> e(i)]
    BY <1>2, <2>1
  <2> QED BY <2>2 DEF e
<1>4. kept = [i \in 0 .. Len(times) |->
                IF i = 0 THEN <<>>
                ELSE IF times[i] > at - Window THEN Append(kept[i - 1], times[i])
                ELSE kept[i - 1]]
  BY <1>3 DEF kept
<1>5. Recent(times, at) = kept[Len(times)]
  BY DEF Recent
<1> HIDE DEF kept
<1> DEFINE e(i) == IF i = 0 THEN <<>>
                   ELSE IF times[i] > at - Window THEN Append(kept[i - 1], times[i])
                   ELSE kept[i - 1]
<1>6. Counts(times, at, kept) /\ DOMAIN kept = 0 .. n
  <2>1. kept = [i \in 0 .. n |-> e(i)]
    BY <1>4
  <2> HIDE DEF e
  <2>2. DOMAIN kept = 0 .. n /\ \A i \in 0 .. n : kept[i] = e(i)
    BY <2>1
  <2>3. 0 \in 0 .. n
    BY <1>1
  <2> QED BY <2>2, <2>3 DEF Counts, e
<1> DEFINE T == {i \in 0 .. n : kept[i] # f[i]}
<1>7. ASSUME NEW i \in T, \A j \in T : i <= j PROVE FALSE
  <2>1. CASE i = 0
    BY <1>2, <1>6, <2>1 DEF Counts
  <2>2. CASE i # 0
    <3>1. i \in 1 .. n /\ i - 1 \in 0 .. n /\ i - 1 \notin T
      BY <1>1, <1>7, <2>2
    <3>2. kept[i - 1] = f[i - 1] /\ i \in DOMAIN f /\ i \in DOMAIN kept
      BY <1>2, <1>6, <3>1
    <3> QED BY <1>2, <1>6, <2>2, <3>2 DEF Counts
  <2> QED BY <2>1, <2>2
<1>8. T = {}
  <2>1. T \in SUBSET Nat
    BY <1>1
  <2> HIDE DEF T
  <2> QED BY <1>7, <2>1, LeastNumber
<1>9. kept[n] = f[n]
  BY <1>1, <1>8
<1> QED BY <1>2, <1>5, <1>9

LEMMA RecentTypes ==
  ASSUME NEW S, NEW times \in Seq(S), NEW at \in Int
  PROVE  /\ Recent(times, at) \in Seq(S) /\ Len(Recent(times, at)) \in Nat
         /\ Len(Recent(times, at)) <= Len(times)
<1> DEFINE n == Len(times)
<1>1. n \in Nat
  BY LenProperties
<1>2. PICK f \in [0 .. n -> Seq(S)] : Counts(times, at, f) /\ Recent(times, at) = f[n]
  BY RecentCounts
<1> DEFINE T == {i \in 0 .. n : Len(f[i]) > i}
<1>3. ASSUME NEW i \in T, \A j \in T : i <= j PROVE FALSE
  <2>1. CASE i = 0
    BY <1>2, <2>1, EmptySeq DEF Counts
  <2>2. CASE i # 0
    <3>1. i \in 1 .. n /\ i - 1 \in 0 .. n /\ i - 1 \notin T
      BY <1>1, <1>3, <2>2
    <3>2. f[i - 1] \in Seq(S) /\ Len(f[i - 1]) \in Nat /\ Len(f[i - 1]) <= i - 1
      BY <1>2, <3>1, LenProperties
    <3>3. f[i] = f[i - 1] \/ f[i] = Append(f[i - 1], times[i])
      <4>1. i \in DOMAIN f /\ i # 0
        BY <1>2, <3>1
      <4> QED BY <1>2, <4>1 DEF Counts
    <3>4. times[i] \in S
      BY <3>1, ElementOfSeq
    <3>5. Len(Append(f[i - 1], times[i])) = Len(f[i - 1]) + 1
      BY <3>2, <3>4, AppendProperties
    <3>6. Len(f[i]) <= i
      BY <3>1, <3>2, <3>3, <3>5
    <3> QED BY <3>1, <3>2, <3>3, <3>5, <3>6
  <2> QED BY <2>1, <2>2
<1>4. T = {}
  <2>1. T \in SUBSET Nat
    BY <1>1
  <2> HIDE DEF T
  <2> QED BY <1>3, <2>1, LeastNumber
<1>5. f[n] \in Seq(S) /\ n \in 0 .. n
  BY <1>1, <1>2
<1>6. Len(f[n]) \in Nat /\ ~(Len(f[n]) > n)
  BY <1>4, <1>5, LenProperties
<1> QED BY <1>1, <1>2, <1>5, <1>6

\* As time passes no timestamp comes back.
LEMMA RecentShrinks ==
  ASSUME NEW times \in Seq(Nat), NEW at \in Int, NEW later \in Int, at <= later
  PROVE  Len(Recent(times, later)) <= Len(Recent(times, at))
<1> DEFINE n == Len(times)
<1>1. n \in Nat
  BY LenProperties
<1>2. PICK f \in [0 .. n -> Seq(Nat)] : Counts(times, at, f) /\ Recent(times, at) = f[n]
  BY RecentCounts
<1>3. PICK g \in [0 .. n -> Seq(Nat)] : Counts(times, later, g) /\ Recent(times, later) = g[n]
  BY RecentCounts
<1>4. \A i \in 0 .. n : Len(f[i]) \in Nat /\ Len(g[i]) \in Nat
  BY <1>2, <1>3, LenProperties
<1> DEFINE T == {i \in 0 .. n : Len(g[i]) > Len(f[i])}
<1>5. ASSUME NEW i \in T, \A j \in T : i <= j PROVE FALSE
  <2>1. CASE i = 0
    BY <1>2, <1>3, <1>4, <1>5, <2>1 DEF Counts
  <2>2. CASE i # 0
    <3>1. i \in 1 .. n /\ i - 1 \in 0 .. n /\ i - 1 \notin T
      BY <1>1, <1>5, <2>2
    <3>2. Len(g[i - 1]) <= Len(f[i - 1]) /\ f[i - 1] \in Seq(Nat) /\ g[i - 1] \in Seq(Nat)
      <4>1. ~(Len(g[i - 1]) > Len(f[i - 1]))
        BY <3>1
      <4>2. Len(g[i - 1]) \in Nat /\ Len(f[i - 1]) \in Nat
        BY <1>4, <3>1
      <4>3. f[i - 1] \in Seq(Nat) /\ g[i - 1] \in Seq(Nat)
        BY <1>2, <1>3, <3>1
      <4> QED BY <4>1, <4>2, <4>3
    <3>3. times[i] \in Nat
      BY <3>1, ElementOfSeq
    <3>4. /\ f[i] = IF times[i] > at - Window THEN Append(f[i - 1], times[i]) ELSE f[i - 1]
          /\ g[i] = IF times[i] > later - Window THEN Append(g[i - 1], times[i]) ELSE g[i - 1]
      <4>1. i \in DOMAIN f /\ i \in DOMAIN g /\ i # 0
        BY <1>2, <1>3, <3>1
      <4>2. f[i] = IF times[i] > at - Window THEN Append(f[i - 1], times[i]) ELSE f[i - 1]
        BY <1>2, <4>1 DEF Counts
      <4>3. g[i] = IF times[i] > later - Window THEN Append(g[i - 1], times[i]) ELSE g[i - 1]
        BY <1>3, <4>1 DEF Counts
      <4> QED BY <4>2, <4>3
    <3>5. times[i] > later - Window => times[i] > at - Window
      BY <3>3, AuthAssumption
    <3>6. /\ Len(Append(f[i - 1], times[i])) = Len(f[i - 1]) + 1
          /\ Len(Append(g[i - 1], times[i])) = Len(g[i - 1]) + 1
      BY <3>2, <3>3, AppendProperties
    <3>7. Len(f[i - 1]) \in Nat /\ Len(g[i - 1]) \in Nat
      BY <1>4, <3>1
    <3>8. Len(g[i]) <= Len(f[i])
      BY <3>2, <3>4, <3>5, <3>6, <3>7
    <3> QED BY <1>4, <3>1, <3>8
  <2> QED BY <2>1, <2>2
<1>6. T = {}
  <2>1. T \in SUBSET Nat
    BY <1>1
  <2> HIDE DEF T
  <2> QED BY <1>5, <2>1, LeastNumber
<1>7. n \in 0 .. n
  BY <1>1
<1> QED BY <1>2, <1>3, <1>4, <1>6, <1>7

-----------------------------------------------------------------------------
(* The limiter.  A request between its check and its verification has a    *)
(* failure to its credit: the check let it through, and nothing stops the  *)
(* failure it may record.                                                  *)

Verifying(key) == {r \in Requests : At(r, {"login"}, "verify") /\ requests[r].key = key}

LimiterTyped ==
  /\ lastCleanup \in 0 .. now
  /\ attempts \in [Keys -> Seq(0 .. now)]

Counted ==
  \A key \in Keys :
    Len(Live(attempts[key])) + Cardinality(Verifying(key))
      <= MaxAttempts - 1 + Cardinality(Requests)

LEMMA VerifyingFinite ==
  \A key : /\ IsFiniteSet(Verifying(key)) /\ Cardinality(Verifying(key)) \in Nat
           /\ Cardinality(Verifying(key)) <= Cardinality(Requests)
           /\ Cardinality(Requests) \in Nat
<1> TAKE key
<1>1. Verifying(key) \subseteq Requests
  BY DEF Verifying
<1> QED BY <1>1, AuthAssumption, FS_Subset, FS_CardinalityType

\* The clock moves in Tick and nowhere else; three steps touch the limiter.
LEMMA Clock ==
  ASSUME NEW r \in Requests, Steps(r)
  PROVE  now' = now
<1>1. CASE \E e \in Emails, a \in Addresses, password \in 1 .. 2 : LoginCheck(r, e, a, password)
  BY <1>1 DEF LoginCheck
<1>2. CASE LoginVerify(r) \/ LoginCommit(r) \/ LoginReset(r)
  BY <1>2 DEF LoginVerify, LoginCommit, LoginReset
<1>3. CASE \/ \E t \in DOMAIN issued : RefreshRead(r, t)
           \/ RefreshCheck(r) \/ RefreshRotate(r)
  BY <1>3 DEF RefreshRead, RefreshCheck, RefreshRotate
<1>4. CASE \/ \E s \in DOMAIN sessions : LogoutRead(r, s) \/ MeRead(r, s)
           \/ LogoutWrite(r) \/ MeWrite(r)
  BY <1>4 DEF LogoutRead, MeRead, LogoutWrite, MeWrite
<1>5. CASE \/ \E u \in Users, op \in AccountOps, role \in Roles, versioned \in BOOLEAN :
                AccountRead(r, u, op, role, versioned)
           \/ AccountClaim(r) \/ AccountCommit(r)
  BY <1>5 DEF AccountRead, AccountClaim, AccountCommit
<1>6. CASE \/ \E p \in Players, op \in PlayerOps, u \in Users : PlayerRead(r, p, op, u)
           \/ PlayerClaim(r) \/ PlayerCommit(r)
  BY <1>6 DEF PlayerRead, PlayerClaim, PlayerCommit
<1> QED BY <1>1, <1>2, <1>3, <1>4, <1>5, <1>6 DEF Steps

LEMMA LimiterSteps ==
  ASSUME NEW r \in Requests, Steps(r)
  PROVE  \/ UNCHANGED <<attempts, lastCleanup>>
         \/ \E e \in Emails, a \in Addresses, password \in 1 .. 2 : LoginCheck(r, e, a, password)
         \/ LoginVerify(r) \/ LoginReset(r)
<1>1. CASE LoginCommit(r)
  BY <1>1 DEF LoginCommit
<1>2. CASE \/ \E t \in DOMAIN issued : RefreshRead(r, t)
           \/ RefreshCheck(r) \/ RefreshRotate(r)
  BY <1>2 DEF RefreshRead, RefreshCheck, RefreshRotate
<1>3. CASE \/ \E s \in DOMAIN sessions : LogoutRead(r, s) \/ MeRead(r, s)
           \/ LogoutWrite(r) \/ MeWrite(r)
  BY <1>3 DEF LogoutRead, MeRead, LogoutWrite, MeWrite
<1>4. CASE \/ \E u \in Users, op \in AccountOps, role \in Roles, versioned \in BOOLEAN :
                AccountRead(r, u, op, role, versioned)
           \/ AccountClaim(r) \/ AccountCommit(r)
  BY <1>4 DEF AccountRead, AccountClaim, AccountCommit
<1>5. CASE \/ \E p \in Players, op \in PlayerOps, u \in Users : PlayerRead(r, p, op, u)
           \/ PlayerClaim(r) \/ PlayerCommit(r)
  BY <1>5 DEF PlayerRead, PlayerClaim, PlayerCommit
<1> QED BY <1>1, <1>2, <1>3, <1>4, <1>5 DEF Steps

\* Only a check puts a request before its verification.
LEMMA OnlyChecksVerify ==
  ASSUME Typed, NEW r \in Requests, Steps(r), At(r, {"login"}, "verify")'
  PROVE  \E e \in Emails, a \in Addresses, password \in 1 .. 2 : LoginCheck(r, e, a, password)
<1> DEFINE q == requests[r]
<1>0. requests'[r] # Idle /\ requests'[r].op = "login" /\ requests'[r].pc = "verify"
  BY DEF At
<1>1. ASSUME LoginVerify(r) \/ LoginCommit(r) PROVE FALSE
  <2>1. q \in LoginsToVerify \cup LoginsVerified
    BY <1>1, Kinds DEF LoginVerify, LoginCommit, At
  <2>2. [q EXCEPT !.pc = "commit"].pc = "commit" /\ [q EXCEPT !.pc = "reset"].pc = "reset"
    BY <2>1 DEF LoginsToVerify, LoginsVerified
  <2>3. requests'[r] \in {Idle, [q EXCEPT !.pc = "commit"], [q EXCEPT !.pc = "reset"]}
    BY <1>1 DEF LoginVerify, LoginCommit, Proceed, End, Typed
  <2> QED BY <1>0, <2>2, <2>3
<1>2. ASSUME LoginReset(r) \/ LogoutWrite(r) \/ MeWrite(r) \/ AccountCommit(r) \/ PlayerCommit(r)
             \/ RefreshRotate(r)
      PROVE  FALSE
  <2>1. requests'[r] = Idle
    BY <1>2 DEF LoginReset, LogoutWrite, MeWrite, AccountCommit, PlayerCommit, RefreshRotate,
                RejectTokenReuse, End, Typed
  <2> QED BY <1>0, <2>1
<1>3. ASSUME \/ \E t \in DOMAIN issued : RefreshRead(r, t)
             \/ \E s \in DOMAIN sessions : LogoutRead(r, s) \/ MeRead(r, s)
             \/ \E p \in Players, op \in PlayerOps, u \in Users : PlayerRead(r, p, op, u)
             \/ \E u \in Users, op \in AccountOps, role \in Roles, versioned \in BOOLEAN :
                  AccountRead(r, u, op, role, versioned)
      PROVE  FALSE
  <2>1. requests'[r].pc \in {"check", "write", "claim"}
    <3>1. CASE \E t \in DOMAIN issued : RefreshRead(r, t)
      BY <3>1 DEF RefreshRead, Proceed, Typed
    <3>2. CASE \E s \in DOMAIN sessions : LogoutRead(r, s) \/ MeRead(r, s)
      BY <3>2 DEF LogoutRead, MeRead, Proceed, Typed
    <3>3. CASE \E p \in Players, op \in PlayerOps, u \in Users : PlayerRead(r, p, op, u)
      BY <3>3 DEF PlayerRead, Proceed, Typed
    <3>4. CASE \E u \in Users, op \in AccountOps, role \in Roles, versioned \in BOOLEAN :
                 AccountRead(r, u, op, role, versioned)
      BY <3>4 DEF AccountRead, Proceed, Typed
    <3> QED BY <1>3, <3>1, <3>2, <3>3, <3>4
  <2> QED BY <1>0, <2>1
<1>4. ASSUME RefreshCheck(r) PROVE FALSE
  <2>1. q \in Refreshes
    BY <1>4, Kinds DEF RefreshCheck, At
  <2>2. [q EXCEPT !.pc = "rotate"].pc = "rotate"
    BY <2>1 DEF Refreshes
  <2>3. requests'[r] \in {Idle, [q EXCEPT !.pc = "rotate"]}
    BY <1>4 DEF RefreshCheck, RejectTokenReuse, Proceed, End, Typed
  <2> QED BY <1>0, <2>2, <2>3
<1>5. ASSUME AccountClaim(r) \/ PlayerClaim(r) PROVE FALSE
  <2>1. requests'[r].op = "login" /\ NamesSessions(requests'[r])
    BY <1>0, <1>5, ClaimHolds
  <2>2. q \in AccountCommands \cup PlayerCommands
    BY <1>5, Kinds DEF AccountClaim, PlayerClaim, At
  <2>3. \A x : [q EXCEPT !.pc = "commit", !.seen = x].pc = "commit"
    BY <2>2 DEF AccountCommands, PlayerCommands
  <2>4. requests'[r] = Idle \/ \E x : requests'[r] = [q EXCEPT !.pc = "commit", !.seen = x]
    BY <1>5 DEF AccountClaim, PlayerClaim, Proceed, End, Typed
  <2> QED BY <1>0, <2>3, <2>4
<1> QED BY <1>1, <1>2, <1>3, <1>4, <1>5 DEF Steps

LEMMA Wider ==
  ASSUME NEW S, NEW T, S \subseteq T, NEW s \in Seq(S)
  PROVE  s \in Seq(T)
<1>1. DOMAIN s = 1 .. Len(s) /\ Len(s) \in Nat /\ \A i \in 1 .. Len(s) : s[i] \in S
  BY LenProperties, ElementOfSeq
<1>2. s = [i \in 1 .. Len(s) |-> s[i]]
  BY <1>1
<1>3. s \in [1 .. Len(s) -> T]
  BY <1>1, <1>2
<1> QED BY <1>1, <1>3, SeqDef

LEMMA LiveOf ==
  ASSUME Typed, NEW s \in Seq(0 .. now)
  PROVE  /\ Live(s) \in Seq(0 .. now)
         /\ Len(Live(s)) \in Nat /\ Len(s) \in Nat /\ Len(Live(s)) <= Len(s)
<1>1. now \in Int
  BY DEF Typed
<1> QED BY <1>1, RecentTypes, LenProperties DEF Live

LEMMA SweptOf ==
  ASSUME Typed, LimiterTyped
  PROVE  /\ Swept \in [Keys -> Seq(0 .. now)]
         /\ \A k \in Keys : Len(Live(Swept[k])) <= Len(Live(attempts[k]))
<1>1. \A k \in Keys : attempts[k] \in Seq(0 .. now)
  BY DEF LimiterTyped
<1>2. \A k \in Keys : Live(attempts[k]) \in Seq(0 .. now)
  BY <1>1, LiveOf
<1>3. CASE CleanupDue
  <2>1. Swept = [k \in Keys |-> Live(attempts[k])]
    BY <1>3 DEF Swept
  <2>2. \A k \in Keys : Swept[k] = Live(attempts[k])
    BY <2>1
  <2>3. \A k \in Keys : Len(Live(Live(attempts[k]))) <= Len(Live(attempts[k]))
    BY <1>2, LiveOf
  <2>4. Swept \in [Keys -> Seq(0 .. now)]
    BY <2>1, <1>2
  <2> QED BY <2>2, <2>3, <2>4
<1>4. CASE ~CleanupDue
  <2>1. Swept = attempts
    BY <1>4 DEF Swept
  <2>2. \A k \in Keys : Len(Live(attempts[k])) <= Len(Live(attempts[k]))
    BY <1>1, LiveOf
  <2> QED BY <2>1, <2>2 DEF LimiterTyped
<1> QED BY <1>3, <1>4

LEMMA CheckEffect ==
  ASSUME Typed, LimiterTyped, NEW key \in Keys, CheckLimiter(key)
  PROVE  /\ attempts' \in [Keys -> Seq(0 .. now)] /\ lastCleanup' \in 0 .. now
         /\ \A k \in Keys : Len(Live(attempts'[k])) <= Len(Live(attempts[k]))
<1>1. /\ Swept \in [Keys -> Seq(0 .. now)]
      /\ \A k \in Keys : Len(Live(Swept[k])) <= Len(Live(attempts[k]))
  BY SweptOf
<1>2. attempts' = [Swept EXCEPT ![key] = Live(Swept[key])]
  BY DEF CheckLimiter
<1>3. \A k \in Keys : Swept[k] \in Seq(0 .. now) /\ Live(Swept[k]) \in Seq(0 .. now)
  BY <1>1, LiveOf
<1>4. /\ Len(Live(Live(Swept[key]))) <= Len(Live(Swept[key]))
      /\ \A k \in Keys : Len(Live(Swept[k])) \in Nat /\ Len(Live(Live(Swept[k]))) \in Nat
  BY <1>3, LiveOf
<1>5. \A k \in Keys : Len(Live(attempts[k])) \in Nat
  BY LiveOf DEF LimiterTyped
<1>6. /\ attempts'[key] = Live(Swept[key])
      /\ \A k \in Keys \ {key} : attempts'[k] = Swept[k]
      /\ attempts' \in [Keys -> Seq(0 .. now)]
  BY <1>1, <1>2, <1>3
<1>7. Len(Live(attempts'[key])) <= Len(Live(attempts[key]))
  BY <1>1, <1>4, <1>5, <1>6
<1>8. lastCleanup' \in 0 .. now
  BY DEF CheckLimiter, LimiterTyped, Typed
<1> QED BY <1>1, <1>6, <1>7, <1>8

LEMMA FailureEffect ==
  ASSUME Typed, LimiterTyped, NEW key \in Keys, RecordFailure(key)
  PROVE  /\ attempts' \in [Keys -> Seq(0 .. now)] /\ lastCleanup' \in 0 .. now
         /\ \A k \in Keys \ {key} : Len(Live(attempts'[k])) <= Len(Live(attempts[k]))
         /\ Len(Live(attempts'[key])) <= Len(Live(attempts[key])) + 1
<1>1. /\ Swept \in [Keys -> Seq(0 .. now)]
      /\ \A k \in Keys : Len(Live(Swept[k])) <= Len(Live(attempts[k]))
  BY SweptOf
<1> DEFINE new == Append(Live(Swept[key]), now)
<1>2. attempts' = [Swept EXCEPT ![key] = new]
  BY DEF RecordFailure
<1>3. Swept[key] \in Seq(0 .. now) /\ Live(Swept[key]) \in Seq(0 .. now) /\ now \in 0 .. now
  BY <1>1, LiveOf DEF Typed
<1>4. new \in Seq(0 .. now) /\ Len(new) = Len(Live(Swept[key])) + 1
  BY <1>3, AppendProperties
<1>5. Len(Live(new)) <= Len(new) /\ Len(Live(new)) \in Nat /\ Len(new) \in Nat
  BY <1>4, LiveOf
<1>6. Len(Live(attempts[key])) \in Nat /\ Len(Live(Swept[key])) \in Nat
  BY <1>3, LiveOf DEF LimiterTyped
<1> HIDE DEF new
<1>7. /\ attempts'[key] = new
      /\ \A k \in Keys \ {key} : attempts'[k] = Swept[k]
      /\ attempts' \in [Keys -> Seq(0 .. now)]
  BY <1>1, <1>2, <1>4
<1>8. Len(Live(attempts'[key])) <= Len(Live(attempts[key])) + 1
  BY <1>1, <1>4, <1>5, <1>6, <1>7
<1>9. lastCleanup' \in 0 .. now
  BY DEF RecordFailure, LimiterTyped, Typed
<1> QED BY <1>1, <1>7, <1>8, <1>9

LEMMA LimiterInit == Init => LimiterTyped /\ Counted
<1> SUFFICES ASSUME Init PROVE LimiterTyped /\ Counted
  OBVIOUS
<1>1. Typed
  BY TypedInit
<1>2. attempts = [k \in Keys |-> <<>>] /\ now = 0 /\ lastCleanup = 0
  BY DEF Init
<1>3. LimiterTyped
  BY <1>2, EmptySeq DEF LimiterTyped
<1>4. ASSUME NEW key \in Keys
      PROVE  Len(Live(attempts[key])) + Cardinality(Verifying(key))
               <= MaxAttempts - 1 + Cardinality(Requests)
  <2>1. Len(Live(attempts[key])) \in Nat /\ Len(Live(attempts[key])) <= Len(attempts[key])
    BY <1>1, <1>3, LiveOf DEF LimiterTyped
  <2>2. Len(attempts[key]) = 0
    BY <1>2, EmptySeq
  <2> QED BY <2>1, <2>2, VerifyingFinite, AuthAssumption
<1> QED BY <1>3, <1>4 DEF Counted

\* What remains when no failure is recorded and no request passes a check.
LEMMA CountedStays ==
  ASSUME Counted, NEW key \in Keys,
         Len(Live(attempts[key]))' \in Nat, Len(Live(attempts[key])) \in Nat,
         Len(Live(attempts[key]))' <= Len(Live(attempts[key])),
         Verifying(key)' \subseteq Verifying(key)
  PROVE  Len(Live(attempts[key]))' + Cardinality(Verifying(key)')
           <= MaxAttempts - 1 + Cardinality(Requests)
<1>1. Cardinality(Verifying(key)') <= Cardinality(Verifying(key))
      /\ Cardinality(Verifying(key)') \in Nat
  BY VerifyingFinite, FS_Subset, FS_CardinalityType
<1> QED BY <1>1, VerifyingFinite, AuthAssumption DEF Counted

LEMMA CountedTick ==
  ASSUME Typed, LimiterTyped, Counted, Tick
  PROVE  LimiterTyped' /\ Counted'
<1>1. now' = now + 1 /\ attempts' = attempts /\ requests' = requests /\ lastCleanup' = lastCleanup
      /\ now \in Nat
  BY DEF Tick, Typed
<1>2. \A k \in Keys : attempts[k] \in Seq(0 .. now) /\ attempts[k] \in Seq(0 .. now + 1)
                      /\ attempts[k] \in Seq(Nat)
  <2> SUFFICES ASSUME NEW k \in Keys
               PROVE  attempts[k] \in Seq(0 .. now) /\ attempts[k] \in Seq(0 .. now + 1)
                      /\ attempts[k] \in Seq(Nat)
    OBVIOUS
  <2>1. attempts[k] \in Seq(0 .. now)
    BY DEF LimiterTyped
  <2>2. 0 .. now \subseteq 0 .. now + 1 /\ 0 .. now \subseteq Nat
    BY <1>1
  <2> QED BY <2>1, <2>2, Wider
<1>3. LimiterTyped'
  <2>1. attempts \in [Keys -> Seq(0 .. now + 1)]
    BY <1>2 DEF LimiterTyped
  <2>2. lastCleanup \in 0 .. now + 1
    BY <1>1 DEF LimiterTyped
  <2> QED BY <1>1, <2>1, <2>2 DEF LimiterTyped
<1>4. ASSUME NEW key \in Keys
      PROVE  Len(Live(attempts[key]))' + Cardinality(Verifying(key)')
               <= MaxAttempts - 1 + Cardinality(Requests)
  <2>1. attempts[key] \in Seq(Nat) /\ now \in Int /\ now + 1 \in Int /\ now <= now + 1
    BY <1>1, <1>2
  <2>2. Live(attempts[key])' = Recent(attempts[key], now + 1)
    BY <1>1 DEF Live
  <2>3. Len(Recent(attempts[key], now + 1)) <= Len(Recent(attempts[key], now))
    BY <2>1, RecentShrinks
  <2>4. /\ Len(Recent(attempts[key], now + 1)) \in Nat
        /\ Len(Recent(attempts[key], now)) \in Nat
    BY <2>1, RecentTypes
  <2>5. Verifying(key)' \subseteq Verifying(key)
    BY <1>1 DEF Verifying, At
  <2> QED BY <2>2, <2>3, <2>4, <2>5, CountedStays DEF Live
<1> QED BY <1>3, <1>4 DEF Counted

\* A check lets a request through only while the key has failures to spare.
LEMMA CountedCheck ==
  ASSUME Typed, LimiterTyped, Counted, NEW r \in Requests, Steps(r),
         NEW e \in Emails, NEW a \in Addresses, NEW password \in 1 .. 2,
         LoginCheck(r, e, a, password)
  PROVE  LimiterTyped' /\ Counted'
<1> DEFINE k == <<e, a>>
<1>1. k \in Keys /\ CheckLimiter(k) /\ now' = now
  BY DEF Keys, LoginCheck
<1>2. /\ attempts' \in [Keys -> Seq(0 .. now)] /\ lastCleanup' \in 0 .. now
      /\ \A key \in Keys : Len(Live(attempts'[key])) <= Len(Live(attempts[key]))
  BY <1>1, CheckEffect
<1>3. LimiterTyped'
  BY <1>1, <1>2 DEF LimiterTyped
<1>4. ASSUME NEW key \in Keys
      PROVE  Len(Live(attempts[key]))' + Cardinality(Verifying(key)')
               <= MaxAttempts - 1 + Cardinality(Requests)
  <2>1. Live(attempts[key])' = Live(attempts'[key])
    BY <1>1 DEF Live
  <2>2. Len(Live(attempts[key])) \in Nat /\ Len(Live(attempts'[key])) \in Nat
    BY <1>2, LiveOf DEF LimiterTyped
  <2>3. CASE Limited(k) \/ key # k
    <3>1. ASSUME NEW x \in Verifying(key)' PROVE x \in Verifying(key)
      <4>1. x \in Requests /\ At(x, {"login"}, "verify")' /\ requests'[x].key = key
        BY <3>1 DEF Verifying
      <4>2. CASE Limited(k) \/ x # r
        <5>1. requests'[x] = requests[x]
          BY <4>1, <4>2 DEF LoginCheck, Proceed, Typed
        <5> QED BY <4>1, <5>1 DEF Verifying, At
      <4>3. CASE ~Limited(k) /\ x = r /\ key # k
        <5>1. requests'[r] = [op |-> "login", pc |-> "verify", key |-> k, password |-> password]
          BY <4>3 DEF LoginCheck, Proceed, Typed
        <5>2. requests'[r].key = k
          BY <5>1
        <5> QED BY <4>1, <4>3, <5>2
      <4> QED BY <2>3, <4>2, <4>3
    <3> QED BY <1>2, <2>1, <2>2, <3>1, CountedStays
  <2>4. CASE ~Limited(k) /\ key = k
    <3>1. Len(Live(attempts[key])) < MaxAttempts
      BY <2>2, <2>4, AuthAssumption DEF Limited
    <3>2. Len(Live(attempts'[key])) <= MaxAttempts - 1
      BY <1>2, <2>2, <3>1, AuthAssumption
    <3>3. Cardinality(Verifying(key)') <= Cardinality(Requests)
          /\ Cardinality(Verifying(key)') \in Nat /\ Cardinality(Requests) \in Nat
      <4>1. Verifying(key)' \subseteq Requests
        BY DEF Verifying
      <4> QED BY <4>1, AuthAssumption, FS_Subset, FS_CardinalityType
    <3> QED BY <2>1, <2>2, <3>2, <3>3, AuthAssumption
  <2> QED BY <2>3, <2>4
<1> QED BY <1>3, <1>4 DEF Counted

\* A failure takes the place of the request that records it.
LEMMA CountedVerify ==
  ASSUME Typed, LimiterTyped, Counted, NEW r \in Requests, Steps(r), LoginVerify(r)
  PROVE  LimiterTyped' /\ Counted'
<1> DEFINE q == requests[r]
<1>1. q \in LoginsToVerify /\ now' = now
  BY Kinds DEF LoginVerify, At
<1>2. q.key \in Keys
  BY <1>1 DEF LoginsToVerify
<1>3. ASSUME NEW key \in Keys, NEW x \in Verifying(key)' PROVE x \in Verifying(key) \ {r}
  <2>1. x \in Requests /\ At(x, {"login"}, "verify")' /\ requests'[x].key = key
    BY <1>3 DEF Verifying
  <2>2. x # r
    <3>1. [q EXCEPT !.pc = "commit"].pc = "commit"
      BY <1>1 DEF LoginsToVerify
    <3>2. requests'[r] \in {Idle, [q EXCEPT !.pc = "commit"]}
      BY DEF LoginVerify, Proceed, End, Typed
    <3> QED BY <2>1, <3>1, <3>2 DEF At
  <2>3. requests'[x] = requests[x]
    BY <2>1, <2>2, OthersWait
  <2> QED BY <2>1, <2>2, <2>3 DEF Verifying, At
<1>4. CASE UNCHANGED <<attempts, lastCleanup>>
  <2>1. LimiterTyped'
    BY <1>1, <1>4 DEF LimiterTyped
  <2>2. ASSUME NEW key \in Keys
        PROVE  Len(Live(attempts[key]))' + Cardinality(Verifying(key)')
                 <= MaxAttempts - 1 + Cardinality(Requests)
    <3>1. Live(attempts[key])' = Live(attempts[key])
      BY <1>1, <1>4 DEF Live
    <3>2. Len(Live(attempts[key])) \in Nat
      BY LiveOf DEF LimiterTyped
    <3>3. Verifying(key)' \subseteq Verifying(key)
      BY <1>3
    <3> QED BY <3>1, <3>2, <3>3, CountedStays
  <2> QED BY <2>1, <2>2 DEF Counted
<1>5. CASE RecordFailure(q.key)
  <2>1. /\ attempts' \in [Keys -> Seq(0 .. now)] /\ lastCleanup' \in 0 .. now
        /\ \A k \in Keys \ {q.key} : Len(Live(attempts'[k])) <= Len(Live(attempts[k]))
        /\ Len(Live(attempts'[q.key])) <= Len(Live(attempts[q.key])) + 1
    BY <1>2, <1>5, FailureEffect
  <2>2. LimiterTyped'
    BY <1>1, <2>1 DEF LimiterTyped
  <2>3. ASSUME NEW key \in Keys
        PROVE  Len(Live(attempts[key]))' + Cardinality(Verifying(key)')
                 <= MaxAttempts - 1 + Cardinality(Requests)
    <3>1. Live(attempts[key])' = Live(attempts'[key])
      BY <1>1 DEF Live
    <3>2. Len(Live(attempts[key])) \in Nat /\ Len(Live(attempts'[key])) \in Nat
      BY <2>1, LiveOf DEF LimiterTyped
    <3>3. CASE key # q.key
      <4>1. Verifying(key)' \subseteq Verifying(key)
        BY <1>3
      <4> QED BY <2>1, <3>1, <3>2, <3>3, <4>1, CountedStays
    <3>4. CASE key = q.key
      <4> DEFINE V == Verifying(key)
                 W == Verifying(key)'
      <4>1. r \in V
        BY <3>4, <1>1 DEF Verifying, LoginVerify
      <4>2. W \subseteq V \ {r}
        BY <1>3
      <4>3. /\ IsFiniteSet(V) /\ Cardinality(V) \in Nat /\ Cardinality(Requests) \in Nat
        BY VerifyingFinite
      <4>4. Len(Live(attempts[key])) + Cardinality(V) <= MaxAttempts - 1 + Cardinality(Requests)
        BY DEF Counted
      <4> HIDE DEF V, W
      <4>5. IsFiniteSet(V \ {r}) /\ Cardinality(V \ {r}) = Cardinality(V) - 1
        BY <4>1, <4>3, FS_RemoveElement
      <4>6. Cardinality(W) <= Cardinality(V) - 1 /\ Cardinality(W) \in Nat
        BY <4>2, <4>5, FS_Subset, FS_CardinalityType
      <4>7. Len(Live(attempts'[key])) <= Len(Live(attempts[key])) + 1
        BY <2>1, <3>4
      <4>8. Len(Live(attempts'[key])) + Cardinality(W) <= MaxAttempts - 1 + Cardinality(Requests)
        BY <3>2, <4>3, <4>4, <4>6, <4>7, AuthAssumption
      <4> QED BY <3>1, <4>8 DEF W
    <3> QED BY <3>3, <3>4
  <2> QED BY <2>2, <2>3 DEF Counted
<1> QED BY <1>4, <1>5 DEF LoginVerify

LEMMA CountedElse ==
  ASSUME Typed, LimiterTyped, Counted, NEW r \in Requests, Steps(r),
         LoginReset(r) \/ UNCHANGED <<attempts, lastCleanup>>,
         ~ \E e \in Emails, a \in Addresses, password \in 1 .. 2 : LoginCheck(r, e, a, password)
  PROVE  LimiterTyped' /\ Counted'
<1>1. now' = now
  BY Clock
<1>2. ASSUME NEW key \in Keys, NEW x \in Verifying(key)' PROVE x \in Verifying(key)
  <2>1. x \in Requests /\ At(x, {"login"}, "verify")' /\ requests'[x].key = key
    BY <1>2 DEF Verifying
  <2>2. x # r
    BY <2>1, OnlyChecksVerify
  <2>3. requests'[x] = requests[x]
    BY <2>1, <2>2, OthersWait
  <2> QED BY <2>1, <2>3 DEF Verifying, At
<1>3. \A k \in Keys : attempts'[k] \in {attempts[k], <<>>}
  BY DEF LoginReset, LimiterTyped
<1>4. LimiterTyped'
  <2>1. attempts' \in [Keys -> Seq(0 .. now)] /\ lastCleanup' = lastCleanup
    BY EmptySeq DEF LoginReset, LimiterTyped
  <2> QED BY <1>1, <2>1 DEF LimiterTyped
<1>5. ASSUME NEW key \in Keys
      PROVE  Len(Live(attempts[key]))' + Cardinality(Verifying(key)')
               <= MaxAttempts - 1 + Cardinality(Requests)
  <2>1. Live(attempts[key])' = Live(attempts'[key])
    BY <1>1 DEF Live
  <2>2. attempts[key] \in Seq(0 .. now) /\ Len(Live(attempts[key])) \in Nat
    BY LiveOf DEF LimiterTyped
  <2>3. <<>> \in Seq(0 .. now) /\ Len(<<>>) = 0
    BY EmptySeq
  <2>4. Len(Live(<<>>)) \in Nat /\ Len(Live(<<>>)) <= 0
    BY <2>3, LiveOf
  <2>5. /\ Len(Live(attempts'[key])) <= Len(Live(attempts[key]))
        /\ Len(Live(attempts'[key])) \in Nat
    BY <1>3, <2>2, <2>4
  <2>6. Verifying(key)' \subseteq Verifying(key)
    BY <1>2
  <2> QED BY <2>1, <2>2, <2>5, <2>6, CountedStays
<1> QED BY <1>4, <1>5 DEF Counted

LEMMA LimiterNext ==
  ASSUME Typed, LimiterTyped, Counted, [Next]_vars
  PROVE  LimiterTyped' /\ Counted'
<1>1. CASE Tick
  BY <1>1, CountedTick
<1>2. ASSUME NEW r \in Requests, Steps(r) PROVE LimiterTyped' /\ Counted'
  BY <1>2, LimiterSteps, CountedCheck, CountedVerify, CountedElse
<1>3. CASE UNCHANGED vars
  BY <1>3 DEF vars, LimiterTyped, Counted, Live, Verifying, At
<1> QED BY <1>1, <1>2, <1>3, NextSteps

\* The failures that count and the logins that may still add one are bounded together.
THEOREM LimiterAlwaysCounts == Spec => [](LimiterTyped /\ Counted)
<1>1. Typed /\ LimiterTyped /\ Counted /\ [Next]_vars => (LimiterTyped /\ Counted)'
  BY LimiterNext
<1>2. Inv => Typed
  BY DEF Inv
<1> QED BY <1>1, <1>2, LimiterInit, Invariance, PTL DEF Spec

\* However many logins of a key pass the check before any of them has failed,
\* and whenever old failures drop out of the window, the failures that count
\* never exceed the threshold by more than the requests in flight less one.
THEOREM LimitAlwaysHolds == Spec => []LimitHolds
<1>1. ASSUME Typed, LimiterTyped, Counted PROVE LimitHolds
  <2> SUFFICES ASSUME NEW k \in Keys
               PROVE  Len(Live(attempts[k])) <= MaxAttempts + Cardinality(Requests) - 1
    BY DEF LimitHolds
  <2>1. Len(Live(attempts[k])) \in Nat
    BY <1>1, LiveOf DEF LimiterTyped
  <2>2. Len(Live(attempts[k])) + Cardinality(Verifying(k)) <= MaxAttempts - 1 + Cardinality(Requests)
    BY <1>1 DEF Counted
  <2> QED BY <2>1, <2>2, VerifyingFinite, AuthAssumption
<1>2. Inv => Typed
  BY DEF Inv
<1> QED BY <1>1, <1>2, Invariance, LimiterAlwaysCounts, PTL

-----------------------------------------------------------------------------
(* Rows and requests hold nothing newer than the present.                  *)

\* A session's row, read or current, when n tokens have been issued by time t.
DatedBy(row, t, n) ==
  row.lastUsed <= t /\ \A i \in 1 .. Len(Chain(row)) : Chain(row)[i] \in 1 .. n

RequestDated(q) ==
  /\ q.op \in {"refresh", "logout"} => DatedBy(q.row, now, Len(issued))
  /\ q.op = "refresh" =>
       q.at <= now /\ q.token \in 1 .. Len(issued) /\ q.id = issued[q.token]

Dated ==
  /\ \A s \in 1 .. Len(sessions) :
       /\ DatedBy(sessions[s], now, Len(issued))
       /\ \E t \in 1 .. Len(issued) : issued[t] = s
  /\ \A r \in Requests : requests[r] # Idle => RequestDated(requests[r])

LEMMA DatedInit == Init => Dated
  BY EmptySeq DEF Init, Dated

LEMMA DatedLater ==
  ASSUME NEW row \in SessionRows, NEW t \in Nat, NEW n \in Nat, NEW t2 \in Nat, NEW n2 \in Nat,
         DatedBy(row, t, n), t <= t2, n <= n2
  PROVE  DatedBy(row, t2, n2)
<1>1. row.lastUsed \in Nat
  BY DEF SessionRows
<1> QED BY <1>1 DEF DatedBy

\* The clock and the tokens issued only grow.
LEMMA Onwards ==
  ASSUME Inv, Next
  PROVE  /\ now \in Nat /\ now' \in Nat /\ now <= now'
         /\ Len(issued) \in Nat /\ Len(issued') \in Nat /\ Len(issued) <= Len(issued')
         /\ \A t \in 1 .. Len(issued) : issued'[t] = issued[t]
<1>1. now \in Nat /\ now' \in Nat /\ now <= now'
  <2>1. CASE Tick
    BY <2>1 DEF Tick, Inv, Typed
  <2>2. CASE \E r \in Requests : Steps(r)
    BY <2>2, Clock DEF Inv, Typed
  <2> QED BY <2>1, <2>2, NextSteps
<1>2. /\ Len(issued) \in Nat /\ Len(issued') \in Nat /\ Len(issued) <= Len(issued')
      /\ \A t \in 1 .. Len(issued) : issued'[t] = issued[t]
  <2>1. Len(issued) \in Nat
    BY LenProperties DEF Inv, Typed
  <2>2. CASE issued' = issued
    BY <2>1, <2>2
  <2>3. ASSUME NEW s \in Nat, GrowsAt(s)
        PROVE  /\ Len(issued') = Len(issued) + 1
               /\ \A t \in 1 .. Len(issued) : issued'[t] = issued[t]
    BY <2>3, LenProperties DEF GrowsAt, Inv, Typed
  <2> QED BY <2>1, <2>2, <2>3, ChainEffect
<1> QED BY <1>1, <1>2

LEMMA EveryIssued ==
  ASSUME Inv, Dated, Next, NEW s \in 1 .. Len(sessions')
  PROVE  \E t \in 1 .. Len(issued') : issued'[t] = s
<1>1. /\ Len(issued) \in Nat /\ Len(issued) <= Len(issued') /\ Len(issued') \in Nat
      /\ \A t \in 1 .. Len(issued) : issued'[t] = issued[t]
  BY Onwards
<1>2. CASE s \in 1 .. Len(sessions)
  <2>1. PICK t \in 1 .. Len(issued) : issued[t] = s
    BY <1>2 DEF Dated
  <2> QED BY <1>1, <2>1
<1>3. CASE s \notin 1 .. Len(sessions)
  <2>1. Len(sessions) \in Nat
    BY LenProperties DEF Inv, Typed
  <2>2. PICK x \in Nat : GrowsAt(x)
    BY <1>3, ChainEffect
  <2>3. x = s
    BY <1>3, <2>1, <2>2 DEF GrowsAt
  <2>4. issued' = Append(issued, s) /\ issued \in Seq(Nat)
    BY <2>2, <2>3 DEF GrowsAt, Inv, Typed
  <2>5. Len(issued') = Len(issued) + 1 /\ issued'[Len(issued) + 1] = s
    BY <2>4, <2>3, <1>1, Grown
  <2> QED BY <1>1, <2>5
<1> QED BY <1>2, <1>3

\* When a session was last used.
LEMMA UsedBefore ==
  ASSUME Inv, Dated, Next, NEW s \in 1 .. Len(sessions')
  PROVE  sessions'[s].lastUsed <= now'
<1>1. now \in Nat /\ now' \in Nat /\ now <= now'
  BY Onwards
<1>2. \A x \in 1 .. Len(sessions) : sessions[x].lastUsed \in Nat /\ sessions[x].lastUsed <= now
  <2> TAKE x \in 1 .. Len(sessions)
  <2>1. sessions[x] \in SessionRows
    BY ElementOfSeq DEF Inv, Typed
  <2> QED BY <2>1 DEF SessionRows, Dated, DatedBy
<1>3. CASE KeepsAll
  <2>1. s \in 1 .. Len(sessions) /\ sessions'[s].lastUsed = sessions[s].lastUsed
    BY <1>3 DEF KeepsAll, Kept
  <2> QED BY <1>1, <1>2, <2>1
<1>4. CASE LogsIn
  <2>1. PICK u \in Users : sessions' = Append(sessions, NewSession(u))
    BY <1>4 DEF LogsIn
  <2>2. \/ s \in 1 .. Len(sessions) /\ sessions'[s] = sessions[s]
        \/ sessions'[s] = NewSession(u)
    BY <2>1, LenProperties DEF Inv, Typed
  <2>3. NewSession(u).lastUsed = now
    BY DEF NewSession
  <2> QED BY <1>1, <1>2, <2>2, <2>3
<1>5. ASSUME NEW r \in Requests, RotatesFor(r) PROVE sessions'[s].lastUsed <= now'
  <2> DEFINE q == requests[r]
             new == [sessions[q.id] EXCEPT !.current = NextToken,
                       !.rotated = Append(q.row.rotated, q.row.current),
                       !.lastUsed = q.at, !.version = q.row.version + 1]
  <2>1. q \in Refreshes /\ q.id \in 1 .. Len(sessions)
    BY <1>5, RotatesAsRead DEF RotatesFor, Rotates, RotatesIfUnchanged
  <2>2. sessions[q.id] \in SessionRows
    BY <2>1, ElementOfSeq DEF Inv, Typed
  <2>3. ASSUME NEW row \in SessionRows, NEW a, NEW b, NEW c, NEW d
        PROVE  [row EXCEPT !.current = a, !.rotated = b, !.lastUsed = c, !.version = d].lastUsed = c
    BY DEF SessionRows
  <2>4. new.lastUsed = q.at
    BY <2>2, <2>3
  <2>5. sessions' = [sessions EXCEPT ![q.id] = new]
    BY <1>5 DEF RotatesFor, Rotation
  <2> HIDE DEF new
  <2>6. q.at <= now /\ q.at \in Nat
    BY <1>5, <2>1 DEF RotatesFor, At, Dated, RequestDated, Refreshes
  <2>7. DOMAIN sessions' = DOMAIN sessions
    BY <2>5
  <2>8. s \in DOMAIN sessions
    <3>1. sessions' \in Seq(SessionRows)
      BY TypedNext DEF Inv, Typed
    <3> QED BY <2>7, <3>1, LenProperties
  <2>9. s \in 1 .. Len(sessions)
    BY <2>8, RowRead DEF Inv
  <2>10. sessions'[s] = IF s = q.id THEN new ELSE sessions[s]
    BY <2>5, <2>8
  <2> QED BY <1>1, <1>2, <2>4, <2>6, <2>9, <2>10
<1> QED BY <1>3, <1>4, <1>5, StepKinds DEF Inv

LEMMA RequestsDatedNext ==
  ASSUME Inv, Dated, Next, NEW x \in Requests, requests'[x] # Idle
  PROVE  RequestDated(requests[x])'
<1>0. /\ now \in Nat /\ now' \in Nat /\ now <= now'
      /\ Len(issued) \in Nat /\ Len(issued') \in Nat /\ Len(issued) <= Len(issued')
      /\ \A t \in 1 .. Len(issued) : issued'[t] = issued[t]
  BY Onwards
<1>1. ASSUME NEW row \in SessionRows, DatedBy(row, now, Len(issued))
      PROVE  DatedBy(row, now', Len(issued'))
  BY <1>0, <1>1, DatedLater
<1>2. CASE requests'[x] = requests[x]
  <2> DEFINE q == requests[x]
  <2>1. RequestDated(q)
    BY <1>2 DEF Dated
  <2>2. /\ q.op = "refresh" => q \in Refreshes
        /\ q.op = "logout" => q \in Logouts
    BY <1>2, Kinds DEF Inv
  <2>3. q.op \in {"refresh", "logout"} => q.row \in SessionRows
    BY <2>2 DEF Refreshes, Logouts
  <2>4. q.op \in {"refresh", "logout"} => DatedBy(q.row, now', Len(issued'))
    BY <1>1, <2>1, <2>3 DEF RequestDated
  <2>5. q.op = "refresh" =>
          q.at <= now' /\ q.token \in 1 .. Len(issued') /\ q.id = issued'[q.token]
    BY <1>0, <2>1, <2>2 DEF RequestDated, Refreshes
  <2> QED BY <1>2, <2>4, <2>5 DEF RequestDated, DatedBy, Chain
<1>3. CASE ReadsToken(x)
  <2>1. PICK t \in DOMAIN issued :
          requests'[x] = [op |-> "refresh", pc |-> "check", token |-> t, id |-> issued[t],
                          row |-> sessions[issued[t]], at |-> now]
    BY <1>3 DEF ReadsToken
  <2>2. t \in 1 .. Len(issued) /\ issued[t] \in 1 .. Len(sessions)
    BY LenProperties DEF Inv, Typed, Tracked
  <2>3. sessions[issued[t]] \in SessionRows
    BY <2>2, ElementOfSeq DEF Inv, Typed
  <2>4. DatedBy(sessions[issued[t]], now', Len(issued'))
    BY <1>1, <2>2, <2>3 DEF Dated
  <2>5. t \in 1 .. Len(issued') /\ issued'[t] = issued[t]
    BY <1>0, <2>2
  <2>6. /\ requests'[x].op = "refresh" /\ requests'[x].row = sessions[issued[t]]
        /\ requests'[x].id = issued[t] /\ requests'[x].token = t /\ requests'[x].at = now
    BY <2>1
  <2>7. requests'[x].at <= now'
    BY <1>0, <2>6
  <2> QED BY <2>4, <2>5, <2>6, <2>7 DEF RequestDated, DatedBy, Chain
<1>4. CASE GoesOn(x)
  <2> DEFINE q == requests[x]
  <2>1. q \in Refreshes /\ RequestDated(q) /\ q.op = "refresh"
    BY <1>4, Kinds DEF GoesOn, At, Inv, Dated
  <2>2. ASSUME NEW y \in Refreshes
        PROVE  LET z == [y EXCEPT !.pc = "rotate"]
               IN  z.op = y.op /\ z.row = y.row /\ z.id = y.id /\ z.token = y.token /\ z.at = y.at
    BY DEF Refreshes
  <2>3. /\ requests'[x].op = q.op /\ requests'[x].row = q.row /\ requests'[x].id = q.id
        /\ requests'[x].token = q.token /\ requests'[x].at = q.at
    BY <1>4, <2>1, <2>2 DEF GoesOn
  <2>4. q.row \in SessionRows /\ q.at \in Nat
    BY <2>1 DEF Refreshes
  <2>5. DatedBy(q.row, now', Len(issued'))
    BY <1>1, <2>1, <2>4 DEF RequestDated
  <2>6. q.at <= now' /\ q.token \in 1 .. Len(issued') /\ q.id = issued'[q.token]
    BY <1>0, <2>1, <2>4 DEF RequestDated
  <2> QED BY <2>3, <2>5, <2>6 DEF RequestDated, DatedBy, Chain
<1>5. CASE NamesSessions(requests'[x])
  <2>1. requests'[x].op # "refresh"
    BY <1>5 DEF NamesSessions, AccountOps, RevokingOps, PlayerOps, LinkOps
  <2>2. CASE requests'[x].op = "logout"
    <3>1. requests'[x].id \in DOMAIN sessions /\ requests'[x].row = sessions[requests'[x].id]
      BY <1>5, <2>2 DEF NamesSessions, AccountOps, RevokingOps, PlayerOps, LinkOps
    <3>2. requests'[x].id \in 1 .. Len(sessions) /\ requests'[x].row \in SessionRows
      BY <3>1, RowRead DEF Inv
    <3>3. DatedBy(requests'[x].row, now', Len(issued'))
      BY <1>1, <3>1, <3>2 DEF Dated
    <3> QED BY <2>1, <3>3 DEF RequestDated, DatedBy, Chain
  <2> QED BY <2>1, <2>2 DEF RequestDated
<1> QED BY <1>2, <1>3, <1>4, <1>5, StepHolds DEF Holds, Inv

LEMMA DatedNext == Inv /\ Dated /\ [Next]_vars => Dated'
<1>1. ASSUME Inv, Dated, Next PROVE Dated'
  <2>1. Tracked'
    BY <1>1, TrackedNext
  <2>2. ASSUME NEW s \in 1 .. Len(sessions')
        PROVE  /\ DatedBy(sessions[s], now, Len(issued))'
               /\ \E t \in 1 .. Len(issued') : issued'[t] = s
    <3>1. sessions'[s].lastUsed <= now'
      BY <1>1, UsedBefore
    <3>2. \A i \in 1 .. Len(Chain(sessions'[s])) : Chain(sessions'[s])[i] \in 1 .. Len(issued')
      BY <2>1 DEF Tracked, Chain
    <3>3. \E t \in 1 .. Len(issued') : issued'[t] = s
      BY <1>1, EveryIssued
    <3> QED BY <3>1, <3>2, <3>3 DEF DatedBy, Chain
  <2>3. \A r \in Requests : requests'[r] # Idle => RequestDated(requests[r])'
    BY <1>1, RequestsDatedNext
  <2> QED BY <2>2, <2>3 DEF Dated
<1>2. ASSUME Inv, Dated, UNCHANGED vars PROVE Dated'
  BY <1>2 DEF vars, Dated, DatedBy, RequestDated, Chain
<1> QED BY <1>1, <1>2

\* No row, token, reading or recorded failure is newer than the present.
THEOREM NothingPostdated == Spec => []Dated
  BY DatedInit, DatedNext, Invariance, PTL DEF Spec

LEMMA RowsOK ==
  ASSUME Typed, NEW row \in SessionRows, DatedBy(row, now, Len(issued))
  PROVE  SessionRowOK(row)
<1>1. /\ DOMAIN row = {"user", "current", "rotated", "version", "lastUsed", "expires", "revoked"}
      /\ row.user \in Users /\ row.version \in Nat \ {0} /\ row.expires \in Nat
      /\ row.lastUsed \in Nat /\ row.revoked \in {None} \cup Reasons
      /\ row.rotated \in Seq(Nat)
  BY DEF SessionRows
<1>2. /\ Len(Chain(row)) = Len(row.rotated) + 1 /\ Len(row.rotated) \in Nat
      /\ Chain(row)[Len(Chain(row))] = row.current
      /\ \A i \in 1 .. Len(row.rotated) : Chain(row)[i] = row.rotated[i]
  BY ChainOf
<1>3. row.current \in Tokens
  <2>1. Len(Chain(row)) \in 1 .. Len(Chain(row))
    BY <1>2
  <2> QED BY <1>2, <2>1 DEF DatedBy, Tokens
<1>4. ToSet(row.rotated) \subseteq Tokens
  <2>1. \A i \in 1 .. Len(row.rotated) : row.rotated[i] \in Tokens
    BY <1>2 DEF DatedBy, Tokens
  <2> QED BY <1>1, <2>1, LenProperties DEF ToSet
<1>5. row.lastUsed \in Times
  BY <1>1 DEF DatedBy, Times, Typed
<1> QED BY <1>1, <1>3, <1>4, <1>5 DEF SessionRowOK

LEMMA RequestsOK ==
  ASSUME Inv, Dated, NEW r \in Requests, requests[r] # Idle
  PROVE  RequestOK(requests[r])
<1> DEFINE q == requests[r]
<1>0. RequestDated(q)
  BY DEF Dated
<1>1. CASE q \in LoginsToVerify
  BY <1>1 DEF LoginsToVerify, RequestOK
<1>2. CASE q \in LoginsVerified
  BY <1>2 DEF LoginsVerified, RequestOK, Keys, Emails
<1>3. CASE q \in Refreshes
  <2>1. /\ q.op = "refresh" /\ q.pc \in {"check", "rotate"} /\ q.row \in SessionRows
    BY <1>3 DEF Refreshes
  <2>2. SessionRowOK(q.row)
    BY <1>0, <2>1, RowsOK DEF RequestDated, Inv
  <2> QED BY <1>0, <2>1, <2>2 DEF RequestDated, RequestOK, Tokens
<1>4. CASE q \in Logouts
  <2>1. q.op = "logout" /\ q.pc = "write" /\ q.row \in SessionRows
    BY <1>4 DEF Logouts
  <2>2. SessionRowOK(q.row)
    BY <1>0, <2>1, RowsOK DEF RequestDated, Inv
  <2>3. q.id \in DOMAIN sessions
    BY <2>1, LenProperties DEF Inv, Located, Typed
  <2> QED BY <2>1, <2>2, <2>3 DEF RequestOK
<1>5. CASE q \in Edits
  BY <1>5 DEF Edits, RequestOK
<1>6. CASE q \in AccountCommands
  <2>1. /\ q.op \in AccountOps /\ q.pc \in {"claim", "commit"} /\ q.user \in Users
        /\ q.row \in AccountRows /\ q.seen \in SUBSET (Nat \X (Nat \ {0}))
    BY <1>6 DEF AccountCommands
  <2>2. \A v \in q.seen : v[1] \in DOMAIN sessions
    BY <2>1, LenProperties DEF Inv, Located, Typed
  <2>3. q.seen \subseteq (DOMAIN sessions) \X (Nat \ {0})
    BY <2>1, <2>2
  <2> QED BY <2>1, <2>3 DEF RequestOK
<1>7. CASE q \in PlayerCommands
  <2>1. /\ q.op \in PlayerOps /\ q.pc \in {"claim", "commit"} /\ q.player \in Players
        /\ q.row \in PlayerRows /\ q.seen \in SUBSET (Nat \X (Nat \ {0}))
    BY <1>7 DEF PlayerCommands
  <2>2. \A v \in q.seen : v[1] \in DOMAIN sessions
    BY <2>1, LenProperties DEF Inv, Located, Typed
  <2>3. q.seen \subseteq (DOMAIN sessions) \X (Nat \ {0})
    BY <2>1, <2>2
  <2> QED BY <2>1, <2>3 DEF RequestOK
<1> QED BY <1>1, <1>2, <1>3, <1>4, <1>5, <1>6, <1>7 DEF Inv, Typed, InFlight

\* Every account, profile, session and request is well formed; what a request
\* has read names sessions and tokens there are, no row is newer than the
\* present, and the tokens handed out are of all the sessions and of no other.
THEOREM AccountTypesHold == Spec => []TypeOK
<1>1. ASSUME Inv, Dated, LimiterTyped PROVE TypeOK
  <2>1. DOMAIN sessions = 1 .. Len(sessions) /\ DOMAIN issued = 1 .. Len(issued)
    BY <1>1, LenProperties DEF Inv, Typed
  <2>2. \A s \in DOMAIN sessions : SessionRowOK(sessions[s])
    BY <1>1, <2>1, RowRead, RowsOK DEF Inv, Dated
  <2>3. ToSet(issued) = DOMAIN sessions
    <3>1. \A t \in 1 .. Len(issued) : issued[t] \in 1 .. Len(sessions)
      BY <1>1 DEF Inv, Tracked
    <3>2. \A s \in 1 .. Len(sessions) : \E t \in 1 .. Len(issued) : issued[t] = s
      BY <1>1 DEF Dated
    <3> QED BY <2>1, <3>1, <3>2 DEF ToSet
  <2>4. DOMAIN attempts = Keys /\ \A k \in Keys : ToSet(attempts[k]) \subseteq Times
    <3>1. DOMAIN attempts = Keys /\ \A k \in Keys : attempts[k] \in Seq(Times)
      BY <1>1 DEF LimiterTyped, Times
    <3>2. ASSUME NEW k \in Keys PROVE ToSet(attempts[k]) \subseteq Times
      <4>1. /\ DOMAIN attempts[k] = 1 .. Len(attempts[k])
            /\ \A i \in 1 .. Len(attempts[k]) : attempts[k][i] \in Times
        BY <3>1, LenProperties, ElementOfSeq
      <4> QED BY <4>1 DEF ToSet
    <3> QED BY <3>1, <3>2
  <2>5. lastCleanup \in Times /\ now \in Times
    BY <1>1 DEF LimiterTyped, Times, Inv, Typed
  <2>6. \A r \in Requests : requests[r] # Idle => RequestOK(requests[r])
    BY <1>1, RequestsOK
  <2> QED BY <1>1, <2>2, <2>3, <2>4, <2>5, <2>6 DEF TypeOK, Inv, Typed
<1> QED BY <1>1, Invariance, NothingPostdated, LimiterAlwaysCounts, PTL

-----------------------------------------------------------------------------
(* The refinement of TokenFamilies.                                        *)

Family == [s \in DOMAIN sessions |->
             [chain |-> Append(sessions[s].rotated, sessions[s].current),
              over  |-> ~Unrevoked(s)]]

FamilyRows == [chain : Seq(Nat), over : BOOLEAN]

FamiliesAreChains ==
  /\ Family \in Seq(FamilyRows) /\ Len(Family) = Len(sessions)
  /\ DOMAIN Family = 1 .. Len(sessions) /\ Len(sessions) \in Nat
  /\ \A s \in 1 .. Len(sessions) :
       /\ Family[s] = [chain |-> Chain(sessions[s]), over |-> ~Unrevoked(s)]
       /\ Chain(sessions[s]) \in Seq(Nat)

LEMMA FamiliesTyped == Typed => FamiliesAreChains
<1> SUFFICES ASSUME Typed PROVE FamiliesAreChains
  OBVIOUS
<1>1. DOMAIN sessions = 1 .. Len(sessions) /\ Len(sessions) \in Nat
  BY LenProperties DEF Typed
<1>2. ASSUME NEW s \in 1 .. Len(sessions) PROVE Chain(sessions[s]) \in Seq(Nat)
  <2>1. sessions[s] \in SessionRows
    BY ElementOfSeq DEF Typed
  <2> QED BY <2>1, ChainOf
<1>3. Family = [s \in 1 .. Len(sessions) |-> [chain |-> Chain(sessions[s]), over |-> ~Unrevoked(s)]]
  BY <1>1 DEF Family, Chain
<1>4. Family \in [1 .. Len(sessions) -> FamilyRows]
  BY <1>2, <1>3 DEF FamilyRows
<1>5. Family \in Seq(FamilyRows) /\ Len(Family) = Len(sessions)
  BY <1>1, <1>4, SeqDef
<1> QED BY <1>1, <1>2, <1>3, <1>5 DEF FamiliesAreChains

LEMMA FamilyRewritten ==
  ASSUME NEW row \in FamilyRows
  PROVE  /\ \A c \in Seq(Nat) : [row EXCEPT !.chain = c] = [chain |-> c, over |-> row.over]
         /\ \A b \in BOOLEAN : [row EXCEPT !.over = b] = [chain |-> row.chain, over |-> b]
BY DEF FamilyRows

LEMMA LoginOpens ==
  ASSUME Inv, Typed', LogsIn
  PROVE  Families!Open
<1> DEFINE n   == Len(sessions)
           new == [chain |-> <<Len(issued) + 1>>, over |-> FALSE]
<1>1. PICK u \in Users : sessions' = Append(sessions, NewSession(u))
  BY DEF LogsIn
<1>2. n \in Nat /\ Len(issued) + 1 \in Nat
  BY LenProperties DEF Inv, Typed
<1>3. /\ Len(sessions') = n + 1 /\ sessions'[n + 1] = NewSession(u)
      /\ \A s \in 1 .. n : sessions'[s] = sessions[s]
  BY <1>1, LenProperties DEF Inv, Typed
<1>4. Chain(NewSession(u)) = <<Len(issued) + 1>> /\ NewSession(u).revoked = None
  BY DEF Chain, NewSession, NextToken
<1>5. new \in FamilyRows
  BY <1>2 DEF FamilyRows
<1>6. /\ Family \in Seq(FamilyRows) /\ Len(Family) = n
      /\ \A s \in 1 .. n : Family[s] = [chain |-> Chain(sessions[s]), over |-> ~Unrevoked(s)]
  BY FamiliesTyped DEF Inv, FamiliesAreChains
<1>7. /\ Family' \in Seq(FamilyRows) /\ Len(Family') = n + 1
      /\ \A s \in 1 .. n + 1 :
           Family'[s] = [chain |-> Chain(sessions'[s]), over |-> sessions'[s].revoked # None]
  <2>1. /\ Family' \in Seq(FamilyRows) /\ Len(Family') = Len(sessions')
        /\ \A s \in 1 .. Len(sessions') :
             Family'[s] = [chain |-> Chain(sessions[s])', over |-> ~Unrevoked(s)']
    <3>1. FamiliesAreChains'
      BY FamiliesTyped, PTL
    <3> QED BY <3>1 DEF FamiliesAreChains
  <2> QED BY <1>3, <2>1 DEF Chain, Unrevoked
<1>8. ASSUME NEW s \in 1 .. n PROVE Family'[s] = Family[s]
  <2>1. sessions'[s] = sessions[s] /\ s \in 1 .. n + 1
    BY <1>2, <1>3
  <2>2. (sessions'[s].revoked # None) = (~Unrevoked(s))
    BY <2>1 DEF Unrevoked
  <2>3. Family'[s] = [chain |-> Chain(sessions[s]), over |-> ~Unrevoked(s)]
    BY <1>7, <2>1, <2>2
  <2> QED BY <1>6, <2>3
<1>9. Family'[n + 1] = new
  <2>1. n + 1 \in 1 .. n + 1 /\ (sessions'[n + 1].revoked # None) = FALSE
    BY <1>2, <1>3, <1>4
  <2> QED BY <1>3, <1>4, <1>7, <2>1
<1> HIDE DEF new
<1>10. /\ Append(Family, new) \in Seq(FamilyRows) /\ Len(Append(Family, new)) = n + 1
       /\ Append(Family, new)[n + 1] = new
       /\ \A s \in 1 .. n : Append(Family, new)[s] = Family[s]
  BY <1>5, <1>6, AppendProperties
<1>11. \A s \in 1 .. n + 1 : s \in 1 .. n \/ s = n + 1
  BY <1>2
<1>12. \A s \in 1 .. n + 1 : Family'[s] = Append(Family, new)[s]
  BY <1>8, <1>9, <1>10, <1>11
<1>13. Family' = Append(Family, new)
  BY <1>7, <1>10, <1>12, SeqEqual
<1>14. issued' = Append(issued, Len(Family) + 1)
  BY <1>6 DEF LogsIn
<1> QED BY <1>13, <1>14 DEF new, Families!Open, Families!NewToken, Family

\* The row a refresh rotates is the one it read, token by token (RotatesAsRead), so
\* the history it writes back is the session's whole history.
LEMMA RotationExchanges ==
  ASSUME Inv, Typed', NEW r \in Requests, RotatesFor(r), NEW s, s = requests[r].id
  PROVE  s \in DOMAIN Family /\ Families!Exchange(s)
<1> DEFINE n   == Len(sessions)
           new == [chain |-> Append(Chain(sessions[s]), Len(issued) + 1), over |-> FALSE]
<1>1. /\ s \in 1 .. n /\ Len(sessions') = n
      /\ issued' = Append(issued, s)
      /\ Chain(sessions'[s]) = Append(Chain(sessions[s]), Len(issued) + 1)
      /\ sessions[s].revoked = None /\ sessions'[s].revoked = None
      /\ \A x \in 1 .. n : x # s => sessions'[x] = sessions[x]
  BY RotationEffect
<1>2. n \in Nat /\ Len(issued) + 1 \in Nat
  BY LenProperties DEF Inv, Typed
<1>3. /\ Family \in Seq(FamilyRows) /\ Len(Family) = n /\ DOMAIN Family = 1 .. n
      /\ \A x \in 1 .. n : Family[x] = [chain |-> Chain(sessions[x]), over |-> ~Unrevoked(x)]
      /\ Chain(sessions[s]) \in Seq(Nat)
  BY <1>1, FamiliesTyped DEF Inv, FamiliesAreChains
<1>4. /\ Family' \in Seq(FamilyRows) /\ Len(Family') = n
      /\ \A x \in 1 .. n :
           Family'[x] = [chain |-> Chain(sessions'[x]), over |-> sessions'[x].revoked # None]
  <2>1. /\ Family' \in Seq(FamilyRows) /\ Len(Family') = Len(sessions')
        /\ \A x \in 1 .. Len(sessions') :
             Family'[x] = [chain |-> Chain(sessions[x])', over |-> ~Unrevoked(x)']
    <3>1. FamiliesAreChains'
      BY FamiliesTyped, PTL
    <3> QED BY <3>1 DEF FamiliesAreChains
  <2> QED BY <1>1, <2>1 DEF Chain, Unrevoked
<1>5. Append(Chain(sessions[s]), Len(issued) + 1) \in Seq(Nat)
  BY <1>2, <1>3, AppendProperties
<1>6. new \in FamilyRows
  BY <1>5 DEF FamilyRows
<1>7. Family'[s] = new
  <2>1. (sessions'[s].revoked # None) = FALSE
    BY <1>1
  <2> QED BY <1>1, <1>4, <2>1
<1>8. ASSUME NEW x \in 1 .. n, x # s PROVE Family'[x] = Family[x]
  <2>1. sessions'[x] = sessions[x]
    BY <1>1, <1>8
  <2>2. (sessions'[x].revoked # None) = (~Unrevoked(x))
    BY <2>1 DEF Unrevoked
  <2>3. Family'[x] = [chain |-> Chain(sessions[x]), over |-> ~Unrevoked(x)]
    BY <1>4, <2>1, <2>2
  <2> QED BY <1>3, <2>3
<1>9. Family[s] = [chain |-> Chain(sessions[s]), over |-> FALSE]
  <2>1. (~Unrevoked(s)) = FALSE
    BY <1>1 DEF Unrevoked
  <2> QED BY <1>1, <1>3, <2>1
<1>10. [Family[s] EXCEPT !.chain = Append(Family[s].chain, Len(issued) + 1)] = new
  <2>1. Family[s] \in FamilyRows /\ Family[s].chain = Chain(sessions[s]) /\ Family[s].over = FALSE
    BY <1>3, <1>9 DEF FamilyRows
  <2>2. PICK c \in Seq(Nat) : c = Append(Chain(sessions[s]), Len(issued) + 1)
    BY <1>5
  <2>3. [Family[s] EXCEPT !.chain = c] = [chain |-> c, over |-> FALSE]
    BY <2>1, FamilyRewritten
  <2> QED BY <2>1, <2>2, <2>3
<1> HIDE DEF new
<1>11. /\ [Family EXCEPT ![s] = new] \in Seq(FamilyRows)
       /\ Len([Family EXCEPT ![s] = new]) = n
       /\ \A x \in 1 .. n : [Family EXCEPT ![s] = new][x] = IF x = s THEN new ELSE Family[x]
  BY <1>1, <1>3, <1>6, ExceptSeq
<1>12. Family' = [Family EXCEPT ![s] = new]
  BY <1>4, <1>7, <1>8, <1>11, SeqEqual
<1>13. Family' = [Family EXCEPT ![s].chain = Append(@, Len(issued) + 1)]
  BY <1>10, <1>12
<1>14. ~Family[s].over
  BY <1>9
<1>15. Families!Exchange(s)
  BY <1>1, <1>13, <1>14 DEF Families!Exchange, Families!NewToken, Family
<1> QED BY <1>1, <1>3, <1>15

LEMMA KeepingEnds ==
  ASSUME Inv, Typed', KeepsAll
  PROVE  \E ended \in SUBSET (DOMAIN Family) : Families!EndAll(ended)
<1> DEFINE n == Len(sessions)
<1>0. PICK ended : ended = {s \in 1 .. n : sessions'[s].revoked # None}
  OBVIOUS
<1> DEFINE After == [f \in DOMAIN Family |-> [Family[f] EXCEPT !.over = @ \/ f \in ended]]
<1>1. /\ issued' = issued /\ Len(sessions') = n
      /\ \A s \in 1 .. n : Kept(s)
  BY DEF KeepsAll
<1>2. /\ Family \in Seq(FamilyRows) /\ Len(Family) = n /\ DOMAIN Family = 1 .. n
      /\ \A s \in 1 .. n : Family[s] = [chain |-> Chain(sessions[s]), over |-> ~Unrevoked(s)]
  BY FamiliesTyped DEF Inv, FamiliesAreChains
<1>3. /\ DOMAIN Family' = 1 .. n
      /\ \A s \in 1 .. n :
           Family'[s] = [chain |-> Chain(sessions'[s]), over |-> sessions'[s].revoked # None]
  <2>1. /\ DOMAIN Family' = 1 .. Len(sessions')
        /\ \A s \in 1 .. Len(sessions') :
             Family'[s] = [chain |-> Chain(sessions[s])', over |-> ~Unrevoked(s)']
    <3>1. FamiliesAreChains'
      BY FamiliesTyped, PTL
    <3> QED BY <3>1 DEF FamiliesAreChains
  <2> QED BY <1>1, <2>1 DEF Chain, Unrevoked
<1>4. ASSUME NEW s \in 1 .. n
      PROVE  Family'[s] = [Family[s] EXCEPT !.over = @ \/ s \in ended]
  <2>1. Chain(sessions'[s]) = Chain(sessions[s])
    BY <1>1 DEF Kept, Chain
  <2>2. (sessions'[s].revoked # None) = (~Unrevoked(s) \/ s \in ended)
    BY <1>0, <1>1 DEF Kept, Unrevoked
  <2>3. /\ Family[s] \in FamilyRows /\ Family[s].chain = Chain(sessions[s])
        /\ Chain(sessions[s]) \in Seq(Nat) /\ Family[s].over = ~Unrevoked(s)
    BY <1>2, FamiliesTyped, ElementOfSeq DEF Inv, FamiliesAreChains
  <2>4. [Family[s] EXCEPT !.over = Family[s].over \/ s \in ended] =
          [chain |-> Chain(sessions[s]), over |-> Family[s].over \/ s \in ended]
    <3>1. (Family[s].over \/ s \in ended) \in BOOLEAN
      OBVIOUS
    <3> QED BY <2>3, <3>1, FamilyRewritten
  <2>5. (sessions'[s].revoked # None) = (Family[s].over \/ s \in ended)
    BY <2>2, <2>3
  <2> QED BY <1>3, <2>1, <2>4, <2>5
<1>5. Family' = After
  <2>1. Family' = [s \in 1 .. n |-> Family'[s]]
    BY <1>3 DEF Family
  <2> QED BY <1>2, <1>4, <2>1
<1>6. Families!EndAll(ended)
  BY <1>1, <1>5 DEF Families!EndAll, Family
<1>7. ended \in SUBSET (DOMAIN Family)
  BY <1>0, <1>2
<1> QED BY <1>6, <1>7

\* The sessions implement TokenFamilies: whatever logins, refreshes, logouts and
\* revocations overlap, a token is handed out once and to one session, in exchange for
\* the session's last, and a revoked session hands out none, although version numbers
\* come up again.
THEOREM SessionsKeepTokenFamilies == Spec => KeepsTokenFamilies
<1>1. Init => Families!FamiliesInit
  <2> SUFFICES ASSUME Init PROVE Families!FamiliesInit
    OBVIOUS
  <2>1. sessions = <<>> /\ issued = <<>> /\ Typed
    BY TypedInit DEF Init
  <2>2. Family \in Seq(FamilyRows) /\ Len(Family) = 0
    BY <2>1, FamiliesTyped, EmptySeq DEF FamiliesAreChains
  <2>3. Family = <<>>
    BY <2>2, EmptySeq
  <2> QED BY <2>1, <2>3 DEF Families!FamiliesInit, Family
<1>2. ASSUME Inv, [Next]_vars PROVE [Families!FamiliesNext]_(Families!tokens)
  <2>1. CASE UNCHANGED vars
    BY <2>1 DEF vars, Families!tokens, Unrevoked
  <2>2. CASE Next
    <3>1. Typed'
      BY <1>2, InvNext DEF Inv
    <3>2. CASE KeepsAll
      BY <1>2, <3>1, <3>2, KeepingEnds DEF Families!FamiliesNext, Family
    <3>3. CASE LogsIn
      BY <1>2, <3>1, <3>3, LoginOpens DEF Families!FamiliesNext
    <3>4. ASSUME NEW r \in Requests, RotatesFor(r) PROVE Families!FamiliesNext
      <4>1. PICK f : f = requests[r].id
        OBVIOUS
      <4>2. f \in DOMAIN Family /\ Families!Exchange(f)
        BY <1>2, <3>1, <3>4, <4>1, RotationExchanges
      <4> QED BY <4>2 DEF Families!FamiliesNext, Family
    <3> QED BY <1>2, <2>2, <3>2, <3>3, <3>4, StepKinds DEF Inv
  <2> QED BY <1>2, <2>1, <2>2
<1> QED BY <1>1, <1>2, Invariance, PTL DEF Spec, KeepsTokenFamilies, Families!FamiliesSpec
=============================================================================
