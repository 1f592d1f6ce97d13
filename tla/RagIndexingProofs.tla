------------------------- MODULE RagIndexingProofs -------------------------
(* Type correctness of RAG indexing, fencing of its plans, consistency of  *)
(* the index, and that its content only moves forward.                     *)
EXTENDS RagIndexing, TLAPS

-----------------------------------------------------------------------------
(* What a step does to one source's state and document.                      *)

Rests(s) ==
  state'[s] \in {state[s], [state[s] EXCEPT !.live = FALSE]} /\ doc'[s] = doc[s]
Taken(s) ==
  /\ doc'[s] = doc[s]
  /\ \E r \in Runs : \/ state'[s] = Claimed(state[s], r)
                     \/ state[s].status = "none" /\ state'[s] = Created(r)
Released(s) ==
  /\ doc'[s] = doc[s]
  /\ \E rev \in Nat : state'[s] \in {Failed(state[s], rev), Staled(state[s], rev)}
\* Run r hides s: decided so at the page or at the end, or s left its page.
Withholds(r, s) ==
  \/ (CommitPage(r) \/ CommitSweep(r)) /\ s \in Chosen(r, "hide")
  \/ s \in Planned(run[r].plans) /\ Withdraw(r, s)
Withdrawn(s) ==
  /\ \E r \in Runs : Withholds(r, s)
  /\ doc'[s] = [doc[s] EXCEPT !.searchable = FALSE]
  /\ \E kind \in Hidden : state'[s] = Unsearchable(state[s], kind)
Renewed(s) ==
  \E r \in Runs :
    LET plan == run[r].plans[s]
    IN  /\ run[r].pc = "settle"
        /\ plan.version # 0
        /\ plan.version = state[s].version
        /\ run[r].page[s] = [kind |-> "eligible", rev |-> plan.rev]
        /\ state'[s] = Activated(state[s], plan.rev, ProfileOf[r])
        /\ doc'[s] = [rev |-> plan.rev, profile |-> ProfileOf[r], searchable |-> TRUE]

Moves(s) == Rests(s) \/ Taken(s) \/ Released(s) \/ Withdrawn(s) \/ Renewed(s)

AllMove ==
  /\ state' = [s \in Sources |-> state'[s]]
  /\ doc' = [s \in Sources |-> doc'[s]]
  /\ \A s \in Sources : Moves(s)

LEMMA HiddenDocsAt ==
  ASSUME TypeOK, NEW keys, NEW s \in Sources
  PROVE  /\ s \in keys => HiddenDocs(keys)[s] = [doc[s] EXCEPT !.searchable = FALSE]
         /\ s \notin keys => HiddenDocs(keys)[s] = doc[s]
BY DEF HiddenDocs, TypeOK, Document

LEMMA QuietMoves ==
  ASSUME TypeOK, UNCHANGED <<state, doc>>
  PROVE  AllMove
BY DEF TypeOK, AllMove, Moves, Rests

LEMMA CommitPageMoves ==
  ASSUME TypeOK, NEW r \in Runs, CommitPage(r)
  PROVE  AllMove
<1> DEFINE won  == {s \in Chosen(r, "claim") : Claimable(s, r, run[r].work[s].version)}
           read == run[r].page
           After(s) ==
             CASE s \in won -> Claimed(state[s], r)
               [] s \in Chosen(r, "create") -> Created(r)
               [] s \in Chosen(r, "hide") -> Unsearchable(state[s], "ineligible")
               [] s \in Chosen(r, "rebuild") -> Staled(state[s], read[s].rev)
               [] OTHER -> state[s]
<1>1. state' = [s \in Sources |-> After(s)] /\ doc' = HiddenDocs(Chosen(r, "hide"))
  BY DEF CommitPage
<1>2. \A s \in Sources : Moves(s)
  <2> SUFFICES ASSUME NEW s \in Sources PROVE Moves(s)
    OBVIOUS
  <2> state'[s] = After(s) /\ doc'[s] = HiddenDocs(Chosen(r, "hide"))[s]
    BY <1>1
  <2> HIDE DEF After, won, read
  <2>0. /\ s \in won => s \in Chosen(r, "claim")
        /\ \A do, other : s \in Chosen(r, do) /\ s \in Chosen(r, other) => do = other
    BY DEF Chosen, won
  <2>1. CASE s \in won
    <3>1. s \notin Chosen(r, "hide") /\ After(s) = Claimed(state[s], r)
      BY <2>0, <2>1 DEF After
    <3> QED BY <2>1, <3>1, HiddenDocsAt DEF Moves, Taken
  <2>2. CASE s \notin won /\ s \in Chosen(r, "create")
    <3>1. s \notin Chosen(r, "hide") /\ After(s) = Created(r)
      BY <2>0, <2>2 DEF After
    <3>2. state[s].status = "none"
      BY <2>2 DEF CommitPage, PageAborts
    <3> QED BY <2>2, <3>1, <3>2, HiddenDocsAt DEF Moves, Taken
  <2>3. CASE s \notin won /\ s \in Chosen(r, "hide")
    <3>1. After(s) = Unsearchable(state[s], "ineligible")
      BY <2>0, <2>3 DEF After
    <3>2. Withholds(r, s)
      BY <2>3 DEF Withholds
    <3> QED BY <2>3, <3>1, <3>2, HiddenDocsAt DEF Moves, Withdrawn, Hidden
  <2>4. CASE s \notin won /\ s \in Chosen(r, "rebuild")
    <3>1. s \notin Chosen(r, "hide") /\ After(s) = Staled(state[s], read[s].rev)
      BY <2>0, <2>4 DEF After
    <3>2. read[s].rev \in Nat
      BY DEF TypeOK, RunState, Item, read
    <3> QED BY <2>4, <3>1, <3>2, HiddenDocsAt DEF Moves, Released
  <2>5. CASE /\ s \notin won /\ s \notin Chosen(r, "create")
             /\ s \notin Chosen(r, "hide") /\ s \notin Chosen(r, "rebuild")
    <3>1. After(s) = state[s]
      BY <2>5 DEF After
    <3> QED BY <2>5, <3>1, HiddenDocsAt DEF Moves, Rests
  <2> QED BY <2>1, <2>2, <2>3, <2>4, <2>5
<1> QED BY <1>1, <1>2 DEF AllMove, HiddenDocs

LEMMA FailPlansMoves ==
  ASSUME TypeOK, NEW r \in Runs, FailPlans(r)
  PROVE  AllMove
<1> \A s \in Sources : run[r].plans[s].rev \in Nat
  BY DEF TypeOK, RunState, Plan
<1> QED BY DEF FailPlans, AllMove, Moves, Released, Rests, TypeOK

LEMMA WithdrawMoves ==
  ASSUME TypeOK, NEW r \in Runs, NEW s \in Planned(run[r].plans), Withdraw(r, s)
  PROVE  AllMove
<1>0. s \in Sources /\ Withholds(r, s)
  BY DEF Planned, Withholds
<1> DEFINE kind == IF s \in OnPage(run[r].page) THEN "ineligible" ELSE "deleted"
<1>1. CASE StillAsRead(s, run[r].plans[s].version)
  <2>1. /\ state' = [state EXCEPT ![s] = Unsearchable(@, kind)]
        /\ doc' = HiddenDocs({s})
    BY <1>1 DEF Withdraw
  <2>2. ASSUME NEW t \in Sources, t # s PROVE Rests(t)
    <3>1. HiddenDocs({s})[t] = doc[t]
      BY <2>2 DEF HiddenDocs, TypeOK, Document
    <3> QED BY <2>1, <2>2, <3>1 DEF Rests, TypeOK
  <2>3. Withdrawn(s)
    BY <1>0, <2>1, HiddenDocsAt DEF Withdrawn, Hidden, TypeOK
  <2> QED BY <1>0, <2>1, <2>2, <2>3 DEF AllMove, Moves, TypeOK, HiddenDocs
<1>2. CASE ~StillAsRead(s, run[r].plans[s].version)
  BY <1>2, QuietMoves DEF Withdraw
<1> QED BY <1>1, <1>2

LEMMA PostponeMoves ==
  ASSUME TypeOK, NEW r \in Runs, NEW s \in Sources, Postpone(r, s)
  PROVE  AllMove
<1> run[r].page[s].rev \in Nat
  BY DEF TypeOK, RunState, Item
<1> QED BY DEF Postpone, AllMove, Moves, Released, Rests, TypeOK

LEMMA ActivateMoves ==
  ASSUME TypeOK, NEW r \in Runs, NEW s \in Planned(run[r].plans), Activate(r, s)
  PROVE  AllMove
<1>1. /\ s \in Sources
      /\ state' = [state EXCEPT ![s] = Activated(@, run[r].plans[s].rev, ProfileOf[r])]
      /\ doc' = [doc EXCEPT ![s] = [rev |-> run[r].plans[s].rev, profile |-> ProfileOf[r],
                                    searchable |-> TRUE]]
  BY DEF Activate, Planned
<1>2. \A t \in Sources : t # s => Rests(t)
  BY <1>1 DEF Rests, TypeOK
<1>3. /\ run[r].pc = "settle"
      /\ run[r].plans[s].version # 0
      /\ run[r].plans[s].version = state[s].version
  BY DEF Activate, Settling, Planned, MayActivate, HoldsClaim
<1>4. run[r].page[s] = [kind |-> "eligible", rev |-> run[r].plans[s].rev]
  BY <1>1 DEF Activate, Gone, Changed, TypeOK, RunState, Item
<1>5. /\ state'[s] = Activated(state[s], run[r].plans[s].rev, ProfileOf[r])
      /\ doc'[s] = [rev |-> run[r].plans[s].rev, profile |-> ProfileOf[r],
                    searchable |-> TRUE]
  BY <1>1 DEF TypeOK
<1>6. Renewed(s)
  BY <1>3, <1>4, <1>5 DEF Renewed
<1> QED BY <1>1, <1>2, <1>6 DEF AllMove, Moves, TypeOK

LEMMA ActivateFailsMoves ==
  ASSUME TypeOK, NEW r \in Runs, NEW s \in Sources, ActivateFails(r, s)
  PROVE  AllMove
<1> run[r].plans[s].rev \in Nat
  BY DEF TypeOK, RunState, Plan
<1> QED BY DEF ActivateFails, AllMove, Moves, Released, Rests, TypeOK

LEMMA CommitSweepMoves ==
  ASSUME TypeOK, NEW r \in Runs, CommitSweep(r)
  PROVE  AllMove
<1> DEFINE hit == {s \in Chosen(r, "hide") : StillAsRead(s, run[r].work[s].version)}
<1>1. /\ state' = [s \in Sources |->
           IF s \in hit THEN Unsearchable(state[s], "deleted") ELSE state[s]]
      /\ doc' = HiddenDocs(hit)
  BY DEF CommitSweep
<1>0. \A s \in hit : Withholds(r, s)
  BY DEF Withholds
<1> HIDE DEF hit
<1>2. \A s \in Sources : s \in hit => Withdrawn(s)
  BY <1>0, <1>1, HiddenDocsAt DEF Withdrawn, Hidden
<1>3. \A s \in Sources : s \notin hit => Rests(s)
  BY <1>1, HiddenDocsAt DEF Rests
<1> QED BY <1>1, <1>2, <1>3 DEF AllMove, Moves, HiddenDocs

LEMMA LeaseExpiresMoves ==
  ASSUME TypeOK, NEW s \in Sources, LeaseExpires(s)
  PROVE  AllMove
BY DEF LeaseExpires, AllMove, Moves, Rests, TypeOK

\* Every step moves every source's state and document in one of the five ways.
LEMMA StepMoves ==
  ASSUME TypeOK, [Next]_vars
  PROVE  AllMove
<1>1. CASE UNCHANGED vars
  BY <1>1, QuietMoves DEF vars
<1>2. CASE Next
  <2>1. ASSUME NEW r \in Runs,
               \/ Start(r) \/ Load(r) \/ ReadStates(r) \/ Reload(r) \/ ReadMissing(r)
               \/ Finish(r) \/ RunFails(r)
        PROVE  AllMove
    BY <2>1, QuietMoves DEF Start, Load, ReadStates, Reload, ReadMissing, Finish, RunFails
  <2>2. ASSUME NEW r \in Runs, CommitPage(r) \/ FailPlans(r) \/ CommitSweep(r)
        PROVE  AllMove
    BY <2>2, CommitPageMoves, FailPlansMoves, CommitSweepMoves
  <2>3. ASSUME NEW r \in Runs, NEW s \in Planned(run[r].plans),
               Withdraw(r, s) \/ Postpone(r, s) \/ Activate(r, s) \/ ActivateFails(r, s)
        PROVE  AllMove
    <3> s \in Sources
      BY DEF Planned
    <3> QED BY <2>3, WithdrawMoves, PostponeMoves, ActivateMoves, ActivateFailsMoves
  <2>4. ASSUME NEW s \in Sources, Change(s)
        PROVE  AllMove
    BY <2>4, QuietMoves DEF Change
  <2> QED BY <1>2, <2>1, <2>2, <2>3, <2>4, LeaseExpiresMoves DEF Next
<1> QED BY <1>1, <1>2

-----------------------------------------------------------------------------
(* Types. *)

\* What each write leaves in a well-typed state row.
LEMMA BumpedRow ==
  ASSUME NEW st \in State
  PROVE  /\ Bumped(st) \in State
         /\ Bumped(st).version = st.version + 1 /\ Bumped(st).claim = NoRun
<1> DEFINE ver == st.version + 1
<1>1. ver \in Nat
  BY DEF State
<1>2. Bumped(st) = [st EXCEPT !.version = ver, !.claim = NoRun, !.live = FALSE]
  BY DEF Bumped
<1> HIDE DEF ver
<1>3. Bumped(st) \in State
  BY <1>1, <1>2 DEF State
<1>4. Bumped(st).version = ver /\ Bumped(st).claim = NoRun
  BY <1>2 DEF State
<1> QED BY <1>3, <1>4 DEF ver

LEMMA WrittenClaim ==
  ASSUME NEW st \in State, NEW r \in Runs
  PROVE  /\ Claimed(st, r) \in State
         /\ Claimed(st, r).version = st.version + 1
         /\ Claimed(st, r).status = "indexing" /\ Claimed(st, r).claim = r
<1> DEFINE ver == st.version + 1
<1>1. ver \in Nat
  BY DEF State
<1>2. Claimed(st, r) = [st EXCEPT !.status = "indexing", !.version = ver, !.claim = r,
                                  !.live = TRUE]
  BY DEF Claimed
<1> HIDE DEF ver
<1>3. Claimed(st, r) \in State
  BY <1>1, <1>2 DEF State, Statuses
<1>4. /\ Claimed(st, r).version = ver
      /\ Claimed(st, r).status = "indexing" /\ Claimed(st, r).claim = r
  BY <1>2 DEF State
<1> QED BY <1>3, <1>4 DEF ver

LEMMA WrittenRelease ==
  ASSUME NEW st \in State, NEW rev \in Nat
  PROVE  /\ Failed(st, rev) \in State
         /\ Failed(st, rev).version = st.version + 1
         /\ Failed(st, rev).status = "failed" /\ Failed(st, rev).claim = NoRun
         /\ Staled(st, rev) \in State
         /\ Staled(st, rev).version = st.version + 1
         /\ Staled(st, rev).status = "stale" /\ Staled(st, rev).claim = NoRun
<1> DEFINE b == Bumped(st)
<1>1. b \in State /\ b.version = st.version + 1 /\ b.claim = NoRun
  BY BumpedRow
<1>2. /\ Failed(st, rev) = [b EXCEPT !.status = "failed", !.observed = rev]
      /\ Staled(st, rev) = [b EXCEPT !.status = "stale", !.observed = rev]
  BY DEF Failed, Staled
<1> HIDE DEF b
<1> QED BY <1>1, <1>2 DEF State, Statuses

LEMMA WrittenHide ==
  ASSUME NEW st \in State, NEW kind \in Hidden
  PROVE  /\ Unsearchable(st, kind) \in State
         /\ Unsearchable(st, kind).version = st.version + 1
         /\ Unsearchable(st, kind).status = kind /\ Unsearchable(st, kind).claim = NoRun
<1> DEFINE b == Bumped(st)
<1>1. b \in State /\ b.version = st.version + 1 /\ b.claim = NoRun
  BY BumpedRow
<1>2. Unsearchable(st, kind) = [b EXCEPT !.status = kind]
  BY DEF Unsearchable
<1> HIDE DEF b
<1> QED BY <1>1, <1>2 DEF State, Statuses

LEMMA WrittenActivation ==
  ASSUME NEW st \in State, NEW rev \in Nat, NEW p \in Profiles
  PROVE  /\ Activated(st, rev, p) \in State
         /\ Activated(st, rev, p).version = st.version + 1
         /\ Activated(st, rev, p).status = "current"
         /\ Activated(st, rev, p).claim = NoRun
         /\ Activated(st, rev, p).observed = rev /\ Activated(st, rev, p).profile = p
<1> DEFINE b == Bumped(st)
<1>1. b \in State /\ b.version = st.version + 1 /\ b.claim = NoRun
  BY BumpedRow
<1>2. Activated(st, rev, p) = [b EXCEPT !.status = "current", !.observed = rev,
                                        !.profile = p]
  BY DEF Activated
<1> HIDE DEF b
<1> QED BY <1>1, <1>2 DEF State, Statuses

LEMMA CreatedRow ==
  ASSUME NEW r \in Runs
  PROVE  /\ Created(r) \in State
         /\ Created(r).version = 2
         /\ Created(r).status = "indexing" /\ Created(r).claim = r
<1> DEFINE st == [NoState(ProfileOf[r]) EXCEPT !.version = 1]
<1>1. st \in State /\ st.version = 1
  BY RagIndexingAssumption DEF NoState, State, Statuses
<1> HIDE DEF st
<1>2. Created(r) = Claimed(st, r)
  BY DEF Created, st
<1> QED BY <1>1, <1>2, WrittenClaim

LEMMA MoveTyped ==
  ASSUME TypeOK, NEW s \in Sources, Moves(s)
  PROVE  state'[s] \in State /\ doc'[s] \in Document
<1> USE RagIndexingAssumption
<1>0. state[s] \in State /\ doc[s] \in Document
  BY DEF TypeOK
<1>1. CASE Rests(s)
  BY <1>0, <1>1 DEF Rests, State
<1>2. CASE Taken(s)
  BY <1>0, <1>2, CreatedRow, WrittenClaim DEF Taken
<1>3. CASE Released(s)
  <2>1. PICK rev \in Nat : state'[s] \in {Failed(state[s], rev), Staled(state[s], rev)}
    BY <1>3 DEF Released
  <2>2. Failed(state[s], rev) \in State /\ Staled(state[s], rev) \in State
    BY <1>0, WrittenRelease
  <2>3. state'[s] \in State
    BY <2>1, <2>2
  <2> QED BY <1>0, <1>3, <2>3 DEF Released
<1>4. CASE Withdrawn(s)
  <2>1. PICK kind \in Hidden : state'[s] = Unsearchable(state[s], kind)
    BY <1>4 DEF Withdrawn
  <2>2. state'[s] \in State
    BY <1>0, <2>1, WrittenHide
  <2>3. doc'[s] \in Document
    BY <1>0, <1>4 DEF Withdrawn, Document
  <2> QED BY <2>2, <2>3
<1>5. CASE Renewed(s)
  <2>1. PICK r \in Runs :
          /\ state'[s] = Activated(state[s], run[r].plans[s].rev, ProfileOf[r])
          /\ doc'[s] = [rev |-> run[r].plans[s].rev, profile |-> ProfileOf[r],
                        searchable |-> TRUE]
    BY <1>5 DEF Renewed
  <2>2. run[r].plans[s].rev \in Nat /\ ProfileOf[r] \in Profiles
    BY DEF TypeOK, RunState, Plan
  <2>3. state'[s] \in State
    BY <1>0, <2>1, <2>2, WrittenActivation
  <2> QED BY <2>1, <2>2, <2>3 DEF Document
<1> QED BY <1>1, <1>2, <1>3, <1>4, <1>5 DEF Moves

LEMMA BecomesTyped ==
  ASSUME TypeOK, NEW r \in Runs, NEW rn \in RunState, Becomes(r, rn)
  PROVE  run' \in [Runs -> RunState]
BY DEF Becomes, TypeOK

LEMMA NewRunTyped ==
  /\ NoPage \in [Sources -> Item]
  /\ NoWork \in [Sources -> Decision]
  /\ NoPlans \in [Sources -> Plan]
  /\ NewRun \in RunState
BY DEF NoPage, NoWork, NoPlans, NewRun, RunState, Item, Decision, Plan, Kinds, Stages

LEMMA PageTyped ==
  ASSUME TypeOK, NEW r \in Runs
  PROVE  Page(r) \in [Sources -> Item] /\ OnPage(Page(r)) \subseteq Sources
BY NewRunTyped DEF Page, OnPage, TypeOK

LEMMA AfterPageTyped ==
  ASSUME NEW rn \in RunState
  PROVE  AfterPage(rn) \in RunState
BY NewRunTyped DEF AfterPage, RunState, Stages

LEMMA DecideTyped ==
  ASSUME TypeOK, NEW r, NEW s \in Sources
  PROVE  Noted(Decide(r, s), s) \in Decision
<1>1. Decide(r, s) \in {"skip", "hide", "create", "claim", "rebuild"}
  BY DEF Decide
<1> QED BY <1>1 DEF Noted, Decision, TypeOK, State

LEMMA SettledTyped ==
  ASSUME TypeOK, NEW r \in Runs, NEW s \in Sources, NEW trouble \in BOOLEAN,
         Settled(r, s, trouble)
  PROVE  run' \in [Runs -> RunState]
<1> DEFINE rn == [run[r] EXCEPT !.plans[s] = NoPlans[s], !.troubled = @ \/ trouble]
<1>1. rn \in RunState
  <2>1. run[r] \in RunState /\ NoPlans[s] \in Plan
    BY NewRunTyped DEF TypeOK
  <2> QED BY <2>1 DEF RunState
<1>2. AfterPage(rn) \in RunState
  BY <1>1, AfterPageTyped
<1>3. Becomes(r, IF Planned(rn.plans) = {} THEN AfterPage(rn) ELSE rn)
  BY DEF Settled
<1> QED BY <1>1, <1>2, <1>3, BecomesTyped

LEMMA CommitPageTyped ==
  ASSUME TypeOK, state' \in [Sources -> State], NEW r \in Runs, CommitPage(r)
  PROVE  run' \in [Runs -> RunState]
<1> DEFINE won  == {s \in Chosen(r, "claim") : Claimable(s, r, run[r].work[s].version)}
           mine == won \cup Chosen(r, "create")
           read == run[r].page
           plans == [s \in Sources |->
             IF s \in mine THEN [version |-> state'[s].version, rev |-> read[s].rev]
                           ELSE NoPlans[s]]
           troubled == \/ run[r].troubled
                       \/ Chosen(r, "rebuild") # {}
                       \/ won # Chosen(r, "claim")
           decided == [run[r] EXCEPT !.pc = "embed", !.plans = plans, !.troubled = troubled]
<1>1. Becomes(r, IF mine = {} THEN AfterPage(decided)
                 ELSE [decided EXCEPT !.page = NoPage, !.work = NoWork])
  BY DEF CommitPage
<1>2. plans \in [Sources -> Plan]
  BY NewRunTyped DEF TypeOK, RunState, Item, State, Plan
<1>3. troubled \in BOOLEAN /\ run[r] \in RunState
  BY DEF TypeOK, RunState
<1> HIDE DEF plans, mine, won, troubled
<1>6. decided \in RunState
  BY <1>2, <1>3 DEF RunState, Stages
<1>4. AfterPage(decided) \in RunState
  BY <1>6, AfterPageTyped
<1>5. [decided EXCEPT !.page = NoPage, !.work = NoWork] \in RunState
  BY <1>6, NewRunTyped DEF RunState
<1> HIDE DEF decided
<1> QED BY <1>1, <1>4, <1>5, BecomesTyped

LEMMA TypeInit == Init => TypeOK
<1> SUFFICES ASSUME Init PROVE TypeOK
  OBVIOUS
<1>1. source \in [Sources -> Item]
  BY DEF Init, Item
<1>2. PICK p \in Profiles, indexed \in BOOLEAN :
        LET Built(s) == indexed /\ source[s].kind = "eligible"
        IN  /\ state = [s \in Sources |->
                 IF Built(s) THEN [NoState(p) EXCEPT !.status = "current", !.version = 3,
                                                     !.observed = 1]
                             ELSE NoState(p)]
            /\ doc = [s \in Sources |->
                 [rev |-> IF Built(s) THEN 1 ELSE 0, profile |-> p,
                  searchable |-> Built(s)]]
  BY DEF Init
<1>3. NoState(p) \in State
  BY DEF NoState, State, Statuses
<1>4. [NoState(p) EXCEPT !.status = "current", !.version = 3, !.observed = 1] \in State
  BY DEF NoState, State, Statuses
<1>5. state \in [Sources -> State]
  BY <1>2, <1>3, <1>4
<1>6. doc \in [Sources -> Document]
  BY <1>2 DEF Document
<1>7. run \in [Runs -> RunState]
  BY NewRunTyped DEF Init
<1> QED BY <1>1, <1>5, <1>6, <1>7 DEF Init, TypeOK

LEMMA RunTyped ==
  ASSUME TypeOK, Next, state' \in [Sources -> State]
  PROVE  run' \in [Runs -> RunState]
<1>0. \A r \in Runs : run[r] \in RunState
  BY DEF TypeOK
<1>1. ASSUME NEW r \in Runs, Start(r) PROVE run' \in [Runs -> RunState]
  <2>1. [run[r] EXCEPT !.pc = "load", !.clean = Sources] \in RunState
    BY <1>0 DEF RunState, Stages
  <2> QED BY <1>1, <2>1, BecomesTyped DEF Start
<1>2. ASSUME NEW r \in Runs, Load(r) PROVE run' \in [Runs -> RunState]
  <2> DEFINE page == Page(r)
             seen == run[r].seen \cup OnPage(page)
  <2>1. page \in [Sources -> Item] /\ OnPage(page) \subseteq Sources
    BY PageTyped
  <2>2. seen \in SUBSET Sources
    BY <1>0, <2>1 DEF RunState
  <2>3. PICK next \in NextCursor(r, OnPage(page)) :
          Becomes(r, [run[r] EXCEPT !.pc = "read", !.page = page, !.next = next,
                                    !.seen = seen])
    BY <1>2 DEF Load
  <2>4. next \in Nat
    <3>1. Last(OnPage(page)) \subseteq Nat
      BY <2>1, RagIndexingAssumption DEF Last
    <3> QED BY <2>3, <3>1 DEF NextCursor
  <2> HIDE DEF page, seen
  <2>5. [run[r] EXCEPT !.pc = "read", !.page = page, !.next = next, !.seen = seen] \in RunState
    BY <1>0, <2>1, <2>2, <2>4 DEF RunState, Stages
  <2> QED BY <2>3, <2>5, BecomesTyped
<1>3. ASSUME NEW r \in Runs, ReadStates(r) PROVE run' \in [Runs -> RunState]
  <2> DEFINE work == [s \in Sources |-> Noted(Decide(r, s), s)]
  <2>1. work \in [Sources -> Decision]
    BY DecideTyped
  <2>2. Becomes(r, [run[r] EXCEPT !.pc = "commit", !.work = work])
    BY <1>3 DEF ReadStates
  <2> HIDE DEF work
  <2>3. [run[r] EXCEPT !.pc = "commit", !.work = work] \in RunState
    BY <1>0, <2>1 DEF RunState, Stages
  <2> QED BY <2>2, <2>3, BecomesTyped
<1>4. ASSUME NEW r \in Runs, CommitPage(r) PROVE run' \in [Runs -> RunState]
  BY <1>4, CommitPageTyped
<1>5. ASSUME NEW r \in Runs, FailPlans(r) PROVE run' \in [Runs -> RunState]
  <2> DEFINE rn == [run[r] EXCEPT !.troubled = TRUE]
  <2>1. rn \in RunState
    BY <1>0 DEF RunState
  <2>2. AfterPage(rn) \in RunState
    BY <2>1, AfterPageTyped
  <2> QED BY <1>5, <2>2, BecomesTyped DEF FailPlans
<1>6. ASSUME NEW r \in Runs, Reload(r) PROVE run' \in [Runs -> RunState]
  <2>1. [run[r] EXCEPT !.pc = "settle", !.page = Page(r)] \in RunState
    BY <1>0, PageTyped DEF RunState, Stages
  <2> QED BY <1>6, <2>1, BecomesTyped DEF Reload
<1>7. ASSUME NEW r \in Runs, NEW s \in Planned(run[r].plans),
             Withdraw(r, s) \/ Postpone(r, s) \/ Activate(r, s) \/ ActivateFails(r, s)
      PROVE  run' \in [Runs -> RunState]
  <2>1. s \in Sources
    BY DEF Planned
  <2>2. PICK trouble \in BOOLEAN : Settled(r, s, trouble)
    BY <1>7 DEF Withdraw, Postpone, Activate, ActivateFails
  <2> QED BY <2>1, <2>2, SettledTyped
<1>8. ASSUME NEW r \in Runs, ReadMissing(r) PROVE run' \in [Runs -> RunState]
  <2> DEFINE known   == {s \in Scope[r] : state[s].status # "none"}
             missing == {s \in known \ run[r].seen : state[s].status # "deleted"}
             work    == [s \in Sources |-> Noted(IF s \in missing THEN "hide" ELSE "skip", s)]
  <2>1. work \in [Sources -> Decision]
    BY DEF Noted, Decision, TypeOK, State
  <2>2. Becomes(r, [run[r] EXCEPT !.pc = "sweep", !.work = work])
    BY <1>8 DEF ReadMissing
  <2> HIDE DEF work
  <2>3. [run[r] EXCEPT !.pc = "sweep", !.work = work] \in RunState
    BY <1>0, <2>1 DEF RunState, Stages
  <2> QED BY <2>2, <2>3, BecomesTyped
<1>9. ASSUME NEW r \in Runs, CommitSweep(r) PROVE run' \in [Runs -> RunState]
  <2> DEFINE hit == {s \in Chosen(r, "hide") : StillAsRead(s, run[r].work[s].version)}
             troubled == run[r].troubled \/ hit # Chosen(r, "hide")
  <2>1. troubled \in BOOLEAN
    BY <1>0 DEF RunState
  <2>2. Becomes(r, [run[r] EXCEPT !.pc = "finish", !.work = NoWork, !.troubled = troubled])
    BY <1>9 DEF CommitSweep
  <2> HIDE DEF troubled
  <2>3. NoWork \in [Sources -> Decision]
    BY NewRunTyped
  <2>4. [run[r] EXCEPT !.pc = "finish", !.work = NoWork, !.troubled = troubled] \in RunState
    BY <1>0, <2>1, <2>3 DEF RunState, Stages
  <2> QED BY <2>2, <2>4, BecomesTyped
<1>10. ASSUME NEW r \in Runs, Finish(r) \/ RunFails(r) PROVE run' \in [Runs -> RunState]
  <2>1. Ended \in RunState
    BY NewRunTyped DEF Ended, RunState, Stages
  <2> QED BY <1>10, <2>1, BecomesTyped DEF Finish, RunFails
<1>11. ASSUME NEW s \in Sources, Change(s) \/ LeaseExpires(s)
       PROVE  run' \in [Runs -> RunState]
  <2>1. \A r \in Runs : [run[r] EXCEPT !.clean = @ \ {s}] \in RunState
    BY <1>0 DEF RunState
  <2>2. CASE Change(s)
    BY <2>1, <2>2 DEF Change
  <2>3. CASE LeaseExpires(s)
    BY <2>3 DEF LeaseExpires, TypeOK
  <2> QED BY <1>11, <2>2, <2>3
<1> QED BY <1>1, <1>2, <1>3, <1>4, <1>5, <1>6, <1>7, <1>8, <1>9, <1>10, <1>11 DEF Next

\* Only a change touches the authoritative rows, only a finishing run the history.
LEMMA SourceRests ==
  ASSUME [Next]_vars
  PROVE  \/ \E s \in Sources : Change(s)
         \/ UNCHANGED source /\ ((\E r \in Runs : Finish(r)) \/ UNCHANGED fresh)
<1>1. ASSUME NEW s \in Sources, LeaseExpires(s)
      PROVE  UNCHANGED <<source, fresh>>
  BY <1>1 DEF LeaseExpires
<1>2. ASSUME NEW r \in Runs,
             \/ Start(r) \/ Load(r) \/ ReadStates(r) \/ Reload(r) \/ ReadMissing(r)
             \/ RunFails(r)
      PROVE  UNCHANGED <<source, fresh>>
  BY <1>2 DEF Start, Load, ReadStates, Reload, ReadMissing, RunFails
<1>3. ASSUME NEW r \in Runs, CommitPage(r)
      PROVE  UNCHANGED <<source, fresh>>
  BY <1>3 DEF CommitPage
<1>4. ASSUME NEW r \in Runs, FailPlans(r) \/ CommitSweep(r)
      PROVE  UNCHANGED <<source, fresh>>
  BY <1>4 DEF FailPlans, CommitSweep
<1>5. ASSUME NEW r \in Runs, NEW s \in Planned(run[r].plans),
             Withdraw(r, s) \/ Postpone(r, s) \/ Activate(r, s) \/ ActivateFails(r, s)
      PROVE  UNCHANGED <<source, fresh>>
  BY <1>5 DEF Withdraw, Postpone, Activate, ActivateFails
<1>6. ASSUME NEW r \in Runs, Finish(r)
      PROVE  UNCHANGED source
  BY <1>6 DEF Finish
<1>7. CASE UNCHANGED vars
  BY <1>7 DEF vars
<1> QED BY <1>1, <1>2, <1>3, <1>4, <1>5, <1>6, <1>7 DEF Next

LEMMA RestTyped ==
  ASSUME TypeOK, Next
  PROVE  source' \in [Sources -> Item] /\ fresh' \subseteq Sources
<1>1. ASSUME NEW s \in Sources, Change(s)
      PROVE  source' \in [Sources -> Item] /\ fresh' \subseteq Sources
  BY <1>1 DEF Change, TypeOK, Item
<1>2. ASSUME NEW r \in Runs, Finish(r)
      PROVE  source' \in [Sources -> Item] /\ fresh' \subseteq Sources
  BY <1>2, RagIndexingAssumption DEF Finish, TypeOK
<1>3. ASSUME UNCHANGED <<source, fresh>>
      PROVE  source' \in [Sources -> Item] /\ fresh' \subseteq Sources
  BY <1>3 DEF TypeOK
<1> QED BY <1>1, <1>2, <1>3, SourceRests

LEMMA TypeNext == TypeOK /\ [Next]_vars => TypeOK'
<1> SUFFICES ASSUME TypeOK, [Next]_vars PROVE TypeOK'
  OBVIOUS
<1>1. CASE UNCHANGED vars
  BY <1>1 DEF vars, TypeOK
<1>2. CASE Next
  <2>1. state' \in [Sources -> State] /\ doc' \in [Sources -> Document]
    BY <1>2, StepMoves, MoveTyped DEF AllMove
  <2> QED BY <1>2, <2>1, RunTyped, RestTyped DEF TypeOK
<1> QED BY <1>1, <1>2

\* Runs, index states, documents and plans are well typed.
THEOREM IndexTypes == Spec => []TypeOK
BY TypeInit, TypeNext, PTL DEF Spec

-----------------------------------------------------------------------------
(* The version discipline of the index states.                              *)

\* Every write but a lease's expiry counts as a new version, so a plan's version
\* is at most the state's, and as long as it is equal the claim is the plan's.
EmptyRows ==
  \A s \in Sources : state[s].status = "none" => state[s].version = 0
PlansOrdered ==
  \A r \in Runs : \A s \in Planned(run[r].plans) :
    /\ run[r].plans[s].version <= state[s].version
    /\ run[r].plans[s].version = state[s].version =>
         state[s].status = "indexing" /\ state[s].claim = r

\* Nothing is read or indexed before it is written; what a run has loaded again
\* is at least as new as the document while the run's claim holds.
NothingFromTheFuture ==
  \A s \in Sources :
    /\ doc[s].rev <= source[s].rev
    /\ \A r \in Runs : /\ run[r].page[s].rev <= source[s].rev
                       /\ run[r].plans[s].rev <= source[s].rev
ReloadedIsNewer ==
  \A r \in Runs : \A s \in Planned(run[r].plans) :
    (/\ run[r].pc = "settle"
     /\ run[r].plans[s].version = state[s].version
     /\ run[r].page[s].kind # "absent") => doc[s].rev <= run[r].page[s].rev

IndexInv ==
  /\ TypeOK
  /\ EmptyRows
  /\ PlansOrdered
  /\ IndexConsistent
  /\ NothingFromTheFuture
  /\ ReloadedIsNewer

-----------------------------------------------------------------------------
(* What a step does to a state's version and to what runs have read.         *)

SameVersion(s) ==
  /\ state'[s].version = state[s].version
  /\ state'[s].status = state[s].status
  /\ state'[s].claim = state[s].claim
  /\ doc'[s] = doc[s]

LEMMA VersionMoves ==
  ASSUME TypeOK, EmptyRows, NEW s \in Sources, Moves(s)
  PROVE  SameVersion(s) \/ state'[s].version > state[s].version
<1>0. state[s] \in State /\ state[s].version \in Nat
  BY DEF TypeOK, State
<1>1. CASE Rests(s)
  BY <1>0, <1>1 DEF Rests, SameVersion, State
<1>2. CASE Taken(s)
  <2>1. PICK r \in Runs : \/ state'[s] = Claimed(state[s], r)
                          \/ state[s].status = "none" /\ state'[s] = Created(r)
    BY <1>2 DEF Taken
  <2>2. Claimed(state[s], r).version = state[s].version + 1 /\ Created(r).version = 2
    BY <1>0, CreatedRow, WrittenClaim
  <2>3. CASE state'[s] = Claimed(state[s], r)
    <3>1. state'[s].version = state[s].version + 1
      BY <2>2, <2>3
    <3> QED BY <1>0, <3>1
  <2>4. CASE state[s].status = "none" /\ state'[s] = Created(r)
    <3>1. state[s].version = 0 /\ state'[s].version = 2
      BY <2>2, <2>4 DEF EmptyRows
    <3> QED BY <3>1
  <2> QED BY <2>1, <2>3, <2>4
<1>3. CASE Released(s)
  <2>1. PICK rev \in Nat : state'[s] \in {Failed(state[s], rev), Staled(state[s], rev)}
    BY <1>3 DEF Released
  <2>2. /\ Failed(state[s], rev).version = state[s].version + 1
        /\ Staled(state[s], rev).version = state[s].version + 1
    BY <1>0, WrittenRelease
  <2>3. state'[s].version = state[s].version + 1
    BY <2>1, <2>2
  <2> QED BY <1>0, <2>3
<1>4. CASE Withdrawn(s)
  <2>1. PICK kind \in Hidden : state'[s] = Unsearchable(state[s], kind)
    BY <1>4 DEF Withdrawn
  <2>2. state'[s].version = state[s].version + 1
    BY <1>0, <2>1, WrittenHide
  <2> QED BY <1>0, <2>2
<1>5. CASE Renewed(s)
  <2>1. PICK r \in Runs : state'[s] = Activated(state[s], run[r].plans[s].rev, ProfileOf[r])
    BY <1>5 DEF Renewed
  <2>2. run[r].plans[s].rev \in Nat /\ ProfileOf[r] \in Profiles
    BY RagIndexingAssumption DEF TypeOK, RunState, Plan
  <2>3. state'[s].version = state[s].version + 1
    BY <1>0, <2>1, <2>2, WrittenActivation
  <2> QED BY <1>0, <2>3
<1> QED BY <1>1, <1>2, <1>3, <1>4, <1>5 DEF Moves

\* What a run may come to plan and to hold of a source in one step.
Reads(r, s) ==
  LET old == run[r]
      new == run'[r]
  IN  /\ \/ new.plans[s] = old.plans[s]
         \/ new.plans[s] = NoPlans[s]
         \/ /\ new.plans[s].version = state'[s].version
            /\ state'[s].status = "indexing" /\ state'[s].claim = r
            /\ new.plans[s].rev = old.page[s].rev
      /\ new.page[s] \in {old.page[s], NoPage[s], source[s]}
      /\ new.pc = "settle" /\ new.plans[s].version # 0 =>
           /\ new.plans[s] = old.plans[s]
           /\ \/ old.pc = "settle" /\ new.page[s] = old.page[s]
              \/ new.page[s] \in {source[s], NoPage[s]}

AllRead == \A r \in Runs : \A s \in Sources : Reads(r, s)

\* The runs that do not act read nothing.
LEMMA OthersRead ==
  ASSUME TypeOK, NEW r \in Runs, NEW rn, Becomes(r, rn),
         \A s \in Sources : run'[r] = rn => Reads(r, s)
  PROVE  AllRead
<1>1. run'[r] = rn /\ \A t \in Runs : t # r => run'[t] = run[t]
  BY DEF Becomes, TypeOK
<1> QED BY <1>1 DEF AllRead, Reads

LEMMA AfterPageFields ==
  ASSUME NEW rn \in RunState
  PROVE  /\ AfterPage(rn).plans = NoPlans /\ AfterPage(rn).page = NoPage
         /\ AfterPage(rn).pc # "settle"
BY DEF AfterPage, RunState

\* A run that only moves on to another stage, or gives up the page.
LEMMA QuietRead ==
  ASSUME TypeOK, NEW r \in Runs, NEW rn, Becomes(r, rn), NEW s \in Sources,
         rn.plans[s] \in {run[r].plans[s], NoPlans[s]},
         rn.page[s] \in {run[r].page[s], NoPage[s], source[s]},
         rn.pc # "settle"
  PROVE  Reads(r, s)
<1> run'[r] = rn
  BY DEF Becomes, TypeOK
<1> QED BY DEF Reads
LEMMA SettledReads ==
  ASSUME TypeOK, NEW r \in Runs, NEW s \in Sources, NEW trouble \in BOOLEAN,
         run[r].pc = "settle", Settled(r, s, trouble)
  PROVE  AllRead
<1> DEFINE rn == [run[r] EXCEPT !.plans[s] = NoPlans[s], !.troubled = @ \/ trouble]
           final == IF Planned(rn.plans) = {} THEN AfterPage(rn) ELSE rn
<1>1. run[r] \in RunState /\ NoPlans[s] \in Plan /\ NoPlans \in [Sources -> Plan]
  BY NewRunTyped DEF TypeOK
<1>2. /\ rn \in RunState
      /\ rn.pc = run[r].pc /\ rn.page = run[r].page
      /\ \A t \in Sources : rn.plans[t] \in {run[r].plans[t], NoPlans[t]}
      /\ \A t \in Sources : rn.plans[t] = run[r].plans[t] \/ rn.plans[t].version = 0
  BY <1>1 DEF RunState, NoPlans
<1>3. Becomes(r, final)
  BY DEF Settled
<1> HIDE DEF rn
<1>4. CASE Planned(rn.plans) = {}
  BY <1>2, <1>3, <1>4, AfterPageFields, QuietRead, OthersRead
<1>5. CASE Planned(rn.plans) # {}
  <2>1. run'[r] = rn
    BY <1>3, <1>5 DEF Becomes, TypeOK
  <2>2. \A t \in Sources : Reads(r, t)
    BY <1>2, <2>1 DEF Reads
  <2> QED BY <1>3, <1>5, <2>2, OthersRead
<1> QED BY <1>4, <1>5

LEMMA PageRows ==
  ASSUME TypeOK, NEW r \in Runs, NEW s \in Sources
  PROVE  Page(r)[s] \in {source[s], NoPage[s]}
BY DEF Page

LEMMA LoadReads ==
  ASSUME TypeOK, NEW r \in Runs, Load(r) \/ Reload(r)
  PROVE  AllRead
<1>0. run[r] \in RunState
  BY DEF TypeOK
<1>1. CASE Load(r)
  <2> DEFINE page == Page(r)
             seen == run[r].seen \cup OnPage(page)
  <2>1. PICK next \in NextCursor(r, OnPage(page)) :
          Becomes(r, [run[r] EXCEPT !.pc = "read", !.page = page, !.next = next,
                                    !.seen = seen])
    BY <1>1 DEF Load
  <2>2. \A s \in Sources : page[s] \in {source[s], NoPage[s]}
    BY PageRows
  <2> HIDE DEF page, seen
  <2> DEFINE rn == [run[r] EXCEPT !.pc = "read", !.page = page, !.next = next, !.seen = seen]
  <2>3. rn.pc = "read" /\ rn.page = page /\ rn.plans = run[r].plans
    BY <1>0 DEF RunState
  <2>4. Becomes(r, rn)
    BY <2>1
  <2> HIDE DEF rn
  <2> QED BY <2>2, <2>3, <2>4, QuietRead, OthersRead
<1>2. CASE Reload(r)
  <2> DEFINE page == Page(r)
             rn == [run[r] EXCEPT !.pc = "settle", !.page = page]
  <2>1. Becomes(r, rn)
    BY <1>2 DEF Reload
  <2>2. \A s \in Sources : page[s] \in {source[s], NoPage[s]}
    BY PageRows
  <2> HIDE DEF page
  <2>3. rn.page = page /\ rn.plans = run[r].plans
    BY <1>0 DEF RunState
  <2> HIDE DEF rn
  <2>4. \A s \in Sources : run'[r] = rn => Reads(r, s)
    BY <2>2, <2>3 DEF Reads
  <2> QED BY <2>1, <2>4, OthersRead
<1> QED BY <1>1, <1>2

\* A state a page transaction claims or creates is the run's.
LEMMA CommittedRows ==
  ASSUME TypeOK, NEW r \in Runs, CommitPage(r),
         NEW s \in {t \in Chosen(r, "claim") : Claimable(t, r, run[r].work[t].version)}
                   \cup Chosen(r, "create")
  PROVE  /\ s \in Sources /\ state'[s] \in State /\ state'[s].version # 0
         /\ state'[s].status = "indexing" /\ state'[s].claim = r
<1> DEFINE won  == {t \in Chosen(r, "claim") : Claimable(t, r, run[r].work[t].version)}
           read == run[r].page
           After(t) ==
             CASE t \in won -> Claimed(state[t], r)
               [] t \in Chosen(r, "create") -> Created(r)
               [] t \in Chosen(r, "hide") -> Unsearchable(state[t], "ineligible")
               [] t \in Chosen(r, "rebuild") -> Staled(state[t], read[t].rev)
               [] OTHER -> state[t]
<1>1. state' = [t \in Sources |-> After(t)]
  BY DEF CommitPage
<1>2. /\ s \in Sources /\ state[s] \in State
      /\ s \in won => s \in Chosen(r, "claim")
      /\ s \in won \/ s \in Chosen(r, "create")
      /\ \A do, other : s \in Chosen(r, do) /\ s \in Chosen(r, other) => do = other
  BY DEF TypeOK, Chosen
<1>3. state'[s] = After(s)
  BY <1>1, <1>2
<1> HIDE DEF won, read
<1>4. After(s) = Claimed(state[s], r) \/ After(s) = Created(r)
  BY <1>2
<1> HIDE DEF After
<1>5. CASE After(s) = Claimed(state[s], r)
  BY <1>2, <1>3, <1>5, WrittenClaim DEF State
<1>6. CASE After(s) = Created(r)
  BY <1>2, <1>3, <1>6, CreatedRow
<1> QED BY <1>4, <1>5, <1>6

\* Only a won claim or a new state gives a run a plan.
LEMMA CommitPageReads ==
  ASSUME TypeOK, NEW r \in Runs, CommitPage(r)
  PROVE  AllRead
<1> DEFINE won  == {s \in Chosen(r, "claim") : Claimable(s, r, run[r].work[s].version)}
           mine == won \cup Chosen(r, "create")
           read == run[r].page
           plans == [s \in Sources |->
             IF s \in mine THEN [version |-> state'[s].version, rev |-> read[s].rev]
                           ELSE NoPlans[s]]
           troubled == \/ run[r].troubled
                       \/ Chosen(r, "rebuild") # {}
                       \/ won # Chosen(r, "claim")
           decided == [run[r] EXCEPT !.pc = "embed", !.plans = plans, !.troubled = troubled]
           final == IF mine = {} THEN AfterPage(decided)
                    ELSE [decided EXCEPT !.page = NoPage, !.work = NoWork]
<1>1. Becomes(r, final)
  BY DEF CommitPage
<1>2. \A s \in mine : /\ s \in Sources /\ state'[s] \in State
                      /\ state'[s].status = "indexing" /\ state'[s].claim = r
  BY CommittedRows
<1>3. /\ plans \in [Sources -> Plan] /\ troubled \in BOOLEAN /\ run[r] \in RunState
      /\ \A s \in Sources :
           \/ plans[s] = NoPlans[s]
           \/ s \in mine /\ plans[s].version = state'[s].version /\ plans[s].rev = read[s].rev
  <2> HIDE DEF mine
  <2> QED BY <1>2, NewRunTyped DEF TypeOK, RunState, Item, Plan, State
<1> HIDE DEF plans, mine, won, troubled
<1>4. decided \in RunState /\ decided.plans = plans /\ decided.pc = "embed"
  BY <1>3 DEF RunState, Stages
<1> HIDE DEF decided
<1>5. final.pc # "settle" /\ final.plans \in {plans, NoPlans} /\ final.page = NoPage
  BY <1>4, AfterPageFields DEF RunState
<1> HIDE DEF final
<1>6. \A s \in Sources : run'[r] = final => Reads(r, s)
  BY <1>2, <1>3, <1>5 DEF Reads
<1> QED BY <1>1, <1>6, OthersRead

LEMMA FailPlansReads ==
  ASSUME TypeOK, NEW r \in Runs, FailPlans(r)
  PROVE  AllRead
<1> DEFINE rn == [run[r] EXCEPT !.troubled = TRUE]
<1>1. rn \in RunState
  BY DEF TypeOK, RunState
<1> HIDE DEF rn
<1>2. Becomes(r, AfterPage(rn))
  BY DEF FailPlans, rn
<1> QED BY <1>1, <1>2, AfterPageFields, QuietRead, OthersRead
\* Every step lets every run read each source in one of the ways above.
LEMMA StepReads ==
  ASSUME TypeOK, [Next]_vars
  PROVE  AllRead
<1>0. \A r \in Runs : run[r] \in RunState
  BY DEF TypeOK
<1>1. CASE UNCHANGED vars
  BY <1>1 DEF vars, AllRead, Reads
<1>2. ASSUME NEW r \in Runs, NEW s \in Planned(run[r].plans),
             Withdraw(r, s) \/ Postpone(r, s) \/ Activate(r, s) \/ ActivateFails(r, s)
      PROVE  AllRead
  <2>1. s \in Sources /\ run[r].pc = "settle"
    BY <1>2 DEF Planned, Withdraw, Postpone, Activate, ActivateFails, Settling
  <2>2. PICK trouble \in BOOLEAN : Settled(r, s, trouble)
    BY <1>2 DEF Withdraw, Postpone, Activate, ActivateFails
  <2> QED BY <2>1, <2>2, SettledReads
<1>3. ASSUME NEW r \in Runs, NEW rn \in RunState, Becomes(r, rn), rn.pc # "settle",
             rn.plans \in {run[r].plans, NoPlans}, rn.page \in {run[r].page, NoPage}
      PROVE  AllRead
  BY <1>3, QuietRead, OthersRead
<1>4. ASSUME NEW r \in Runs, Start(r)
      PROVE  AllRead
  <2> DEFINE rn == [run[r] EXCEPT !.pc = "load", !.clean = Sources]
  <2>1. /\ rn \in RunState /\ rn.pc # "settle"
        /\ rn.plans = run[r].plans /\ rn.page = run[r].page
    BY <1>0 DEF RunState, Stages
  <2>2. Becomes(r, rn)
    BY <1>4 DEF Start
  <2> HIDE DEF rn
  <2> QED BY <1>3, <2>1, <2>2
<1>5. ASSUME NEW r \in Runs, ReadStates(r)
      PROVE  AllRead
  <2> DEFINE work == [s \in Sources |-> Noted(Decide(r, s), s)]
             rn == [run[r] EXCEPT !.pc = "commit", !.work = work]
  <2>1. work \in [Sources -> Decision]
    BY DecideTyped
  <2>2. Becomes(r, rn)
    BY <1>5 DEF ReadStates
  <2> HIDE DEF work
  <2>3. /\ rn \in RunState /\ rn.pc # "settle"
        /\ rn.plans = run[r].plans /\ rn.page = run[r].page
    BY <1>0, <2>1 DEF RunState, Stages
  <2> HIDE DEF rn
  <2> QED BY <1>3, <2>2, <2>3
<1>6. ASSUME NEW r \in Runs, ReadMissing(r)
      PROVE  AllRead
  <2> DEFINE known   == {s \in Scope[r] : state[s].status # "none"}
             missing == {s \in known \ run[r].seen : state[s].status # "deleted"}
             work    == [s \in Sources |-> Noted(IF s \in missing THEN "hide" ELSE "skip", s)]
             rn == [run[r] EXCEPT !.pc = "sweep", !.work = work]
  <2>1. work \in [Sources -> Decision]
    BY DEF Noted, Decision, TypeOK, State
  <2>2. Becomes(r, rn)
    BY <1>6 DEF ReadMissing
  <2> HIDE DEF work
  <2>3. /\ rn \in RunState /\ rn.pc # "settle"
        /\ rn.plans = run[r].plans /\ rn.page = run[r].page
    BY <1>0, <2>1 DEF RunState, Stages
  <2> HIDE DEF rn
  <2> QED BY <1>3, <2>2, <2>3
<1>7. ASSUME NEW r \in Runs, CommitSweep(r)
      PROVE  AllRead
  <2> DEFINE hit == {s \in Chosen(r, "hide") : StillAsRead(s, run[r].work[s].version)}
             troubled == run[r].troubled \/ hit # Chosen(r, "hide")
             rn == [run[r] EXCEPT !.pc = "finish", !.work = NoWork, !.troubled = troubled]
  <2>1. troubled \in BOOLEAN
    BY <1>0 DEF RunState
  <2>2. Becomes(r, rn)
    BY <1>7 DEF CommitSweep
  <2> HIDE DEF troubled
  <2>3. /\ rn \in RunState /\ rn.pc # "settle"
        /\ rn.plans = run[r].plans /\ rn.page = run[r].page
    BY <1>0, <2>1, NewRunTyped DEF RunState, Stages
  <2> HIDE DEF rn
  <2> QED BY <1>3, <2>2, <2>3
<1>8. ASSUME NEW r \in Runs, Finish(r) \/ RunFails(r)
      PROVE  AllRead
  <2>1. /\ Ended \in RunState /\ Ended.pc # "settle"
        /\ Ended.plans = NoPlans /\ Ended.page = NoPage
    BY NewRunTyped DEF Ended, NewRun, RunState, Stages
  <2> QED BY <1>3, <1>8, <2>1 DEF Finish, RunFails
<1>9. ASSUME NEW s \in Sources, Change(s) \/ LeaseExpires(s)
      PROVE  AllRead
  <2>1. \A r \in Runs : /\ run'[r].pc = run[r].pc
                        /\ run'[r].plans = run[r].plans /\ run'[r].page = run[r].page
    BY <1>0, <1>9 DEF Change, LeaseExpires, RunState
  <2> QED BY <2>1 DEF AllRead, Reads
<1>10. CASE Next
  BY <1>10, <1>2, <1>4, <1>5, <1>6, <1>7, <1>8, <1>9, LoadReads, CommitPageReads,
     FailPlansReads DEF Next
<1> QED BY <1>1, <1>10

-----------------------------------------------------------------------------
(* The invariant. *)

LEMMA IndexInit == Init => IndexInv
<1> SUFFICES ASSUME Init PROVE IndexInv
  OBVIOUS
<1> USE RagIndexingAssumption
<1>1. PICK p \in Profiles, indexed \in BOOLEAN :
        LET Built(s) == indexed /\ source[s].kind = "eligible"
        IN  /\ state = [s \in Sources |->
                 IF Built(s) THEN [NoState(p) EXCEPT !.status = "current", !.version = 3,
                                                     !.observed = 1]
                             ELSE NoState(p)]
            /\ doc = [s \in Sources |->
                 [rev |-> IF Built(s) THEN 1 ELSE 0, profile |-> p,
                  searchable |-> Built(s)]]
  BY DEF Init
<1>2. ASSUME NEW s \in Sources
      PROVE  \/ /\ state[s] = NoState(p)
                /\ doc[s] = [rev |-> 0, profile |-> p, searchable |-> FALSE]
             \/ /\ state[s] = [NoState(p) EXCEPT !.status = "current", !.version = 3,
                                                 !.observed = 1]
                /\ doc[s] = [rev |-> 1, profile |-> p, searchable |-> TRUE]
  BY <1>1
<1>3. /\ source \in [Sources -> [kind : Kinds, rev : {1}]]
      /\ \A r \in Runs : /\ run[r].page = NoPage /\ run[r].plans = NoPlans
                         /\ run[r].pc = "new"
  BY DEF Init, NewRun
<1>4. ASSUME NEW s \in Sources
      PROVE  /\ state[s].claim = NoRun
             /\ \/ /\ state[s].status = "none" /\ state[s].version = 0
                \/ /\ state[s].status = "current" /\ state[s].observed = 1
                   /\ state[s].profile = p
                   /\ doc[s] = [rev |-> 1, profile |-> p, searchable |-> TRUE]
  <2>1. CASE state[s] = NoState(p)
    BY <2>1 DEF NoState
  <2>2. CASE /\ state[s] = [NoState(p) EXCEPT !.status = "current", !.version = 3,
                                              !.observed = 1]
             /\ doc[s] = [rev |-> 1, profile |-> p, searchable |-> TRUE]
    BY <2>2 DEF NoState
  <2> QED BY <1>2, <2>1, <2>2
<1>5. PlansOrdered /\ ReloadedIsNewer
  BY <1>3 DEF PlansOrdered, ReloadedIsNewer, Planned, NoPlans
<1>6. NothingFromTheFuture
  BY <1>2, <1>3 DEF NothingFromTheFuture, NoPage, NoPlans
<1>7. EmptyRows /\ IndexConsistent
  BY <1>4 DEF EmptyRows, IndexConsistent, Hidden
<1> QED BY TypeInit, <1>5, <1>6, <1>7 DEF IndexInv

LEMMA ConsistentStep ==
  ASSUME TypeOK, IndexConsistent, EmptyRows, AllMove
  PROVE  IndexConsistent' /\ EmptyRows'
<1> USE RagIndexingAssumption
<1> SUFFICES ASSUME NEW s \in Sources
             PROVE  /\ state'[s].status \in Hidden => ~doc'[s].searchable
                    /\ state'[s].status = "current" =>
                         doc'[s] = [rev |-> state'[s].observed,
                                    profile |-> state'[s].profile, searchable |-> TRUE]
                    /\ state'[s].status = "indexing" <=> state'[s].claim # NoRun
                    /\ state'[s].status = "none" => state'[s].version = 0
  BY DEF IndexConsistent, EmptyRows
<1>0. /\ state[s] \in State /\ doc[s] \in Document /\ Moves(s)
      /\ state[s].status \in Hidden => ~doc[s].searchable
      /\ state[s].status = "current" =>
           doc[s] = [rev |-> state[s].observed,
                     profile |-> state[s].profile, searchable |-> TRUE]
      /\ state[s].status = "indexing" <=> state[s].claim # NoRun
      /\ state[s].status = "none" => state[s].version = 0
  BY DEF TypeOK, IndexConsistent, EmptyRows, AllMove
<1>1. CASE Rests(s)
  <2>1. /\ state'[s].status = state[s].status /\ state'[s].claim = state[s].claim
        /\ state'[s].version = state[s].version /\ state'[s].observed = state[s].observed
        /\ state'[s].profile = state[s].profile /\ doc'[s] = doc[s]
    BY <1>0, <1>1 DEF Rests, State
  <2> QED BY <1>0, <2>1
<1>2. CASE Taken(s)
  <2>1. PICK r \in Runs : \/ state'[s] = Claimed(state[s], r)
                          \/ state[s].status = "none" /\ state'[s] = Created(r)
    BY <1>2 DEF Taken
  <2>2. /\ Claimed(state[s], r).status = "indexing" /\ Claimed(state[s], r).claim = r
        /\ Created(r).status = "indexing" /\ Created(r).claim = r
    BY <1>0, WrittenClaim, CreatedRow
  <2>3. state'[s].status = "indexing" /\ state'[s].claim = r
    BY <2>1, <2>2
  <2> QED BY <2>3 DEF Hidden
<1>3. CASE Released(s)
  <2>1. PICK rev \in Nat : state'[s] \in {Failed(state[s], rev), Staled(state[s], rev)}
    BY <1>3 DEF Released
  <2>2. /\ Failed(state[s], rev).status = "failed" /\ Failed(state[s], rev).claim = NoRun
        /\ Staled(state[s], rev).status = "stale" /\ Staled(state[s], rev).claim = NoRun
    BY <1>0, WrittenRelease
  <2>3. state'[s].status \in {"failed", "stale"} /\ state'[s].claim = NoRun
    BY <2>1, <2>2
  <2> QED BY <2>3 DEF Hidden
<1>4. CASE Withdrawn(s)
  <2>1. PICK kind \in Hidden : state'[s] = Unsearchable(state[s], kind)
    BY <1>4 DEF Withdrawn
  <2>2. state'[s].status = kind /\ state'[s].claim = NoRun
    BY <1>0, <2>1, WrittenHide
  <2>3. ~doc'[s].searchable
    BY <1>0, <1>4 DEF Withdrawn, Document
  <2> QED BY <2>2, <2>3 DEF Hidden
<1>5. CASE Renewed(s)
  <2>1. PICK r \in Runs :
          /\ state'[s] = Activated(state[s], run[r].plans[s].rev, ProfileOf[r])
          /\ doc'[s] = [rev |-> run[r].plans[s].rev, profile |-> ProfileOf[r],
                        searchable |-> TRUE]
    BY <1>5 DEF Renewed
  <2>2. run[r].plans[s].rev \in Nat /\ ProfileOf[r] \in Profiles
    BY DEF TypeOK, RunState, Plan
  <2>3. /\ state'[s].status = "current" /\ state'[s].claim = NoRun
        /\ state'[s].observed = run[r].plans[s].rev /\ state'[s].profile = ProfileOf[r]
    BY <1>0, <2>1, <2>2, WrittenActivation
  <2> QED BY <2>1, <2>3 DEF Hidden
<1> QED BY <1>0, <1>1, <1>2, <1>3, <1>4, <1>5 DEF Moves
LEMMA OrderedStep ==
  ASSUME TypeOK, TypeOK', EmptyRows, PlansOrdered, AllMove, AllRead
  PROVE  PlansOrdered'
<1> SUFFICES ASSUME NEW r \in Runs, NEW s \in Sources, run'[r].plans[s].version # 0
             PROVE  /\ run'[r].plans[s].version <= state'[s].version
                    /\ run'[r].plans[s].version = state'[s].version =>
                         state'[s].status = "indexing" /\ state'[s].claim = r
  BY DEF PlansOrdered, Planned
<1>0. /\ run[r].plans[s].version \in Nat /\ state[s].version \in Nat
      /\ state'[s].version \in Nat
  BY DEF TypeOK, RunState, Plan, State
<1>1. SameVersion(s) \/ state'[s].version > state[s].version
  BY VersionMoves DEF AllMove
<1>2. \/ run'[r].plans[s] = run[r].plans[s]
      \/ run'[r].plans[s] = NoPlans[s]
      \/ /\ run'[r].plans[s].version = state'[s].version
         /\ state'[s].status = "indexing" /\ state'[s].claim = r
  BY DEF AllRead, Reads
<1>3. CASE run'[r].plans[s] = run[r].plans[s]
  <2>1. s \in Planned(run[r].plans)
    BY <1>3 DEF Planned
  <2>2. /\ run[r].plans[s].version <= state[s].version
        /\ run[r].plans[s].version = state[s].version =>
             state[s].status = "indexing" /\ state[s].claim = r
    BY <2>1 DEF PlansOrdered
  <2>3. CASE SameVersion(s)
    BY <1>3, <2>2, <2>3 DEF SameVersion
  <2>4. CASE state'[s].version > state[s].version
    BY <1>0, <1>3, <2>2, <2>4
  <2> QED BY <1>1, <2>3, <2>4
<1>4. CASE run'[r].plans[s] = NoPlans[s]
  BY <1>4 DEF NoPlans
<1>5. CASE /\ run'[r].plans[s].version = state'[s].version
           /\ state'[s].status = "indexing" /\ state'[s].claim = r
  BY <1>0, <1>5
<1> QED BY <1>2, <1>3, <1>4, <1>5

LEMMA SourceMoves ==
  ASSUME TypeOK, [Next]_vars, NEW s \in Sources
  PROVE  source'[s].rev >= source[s].rev
<1>1. source[s].rev \in Nat
  BY DEF TypeOK, Item
<1>2. ASSUME NEW t \in Sources, Change(t)
      PROVE  source'[s].rev >= source[s].rev
  <2>1. PICK kind \in Kinds :
          source' = [source EXCEPT ![t] = [kind |-> kind, rev |-> @.rev + 1]]
    BY <1>2 DEF Change
  <2> QED BY <1>1, <2>1 DEF TypeOK
<1>3. (\E t \in Sources : Change(t)) \/ UNCHANGED source
  BY SourceRests
<1> QED BY <1>1, <1>2, <1>3

\* What a renewal is built from.
LEMMA RenewedFrom ==
  ASSUME TypeOK, ReloadedIsNewer, NEW s \in Sources, Renewed(s)
  PROVE  \E r \in Runs : /\ doc'[s].rev = run[r].plans[s].rev
                         /\ doc[s].rev <= run[r].plans[s].rev
<1>1. PICK r \in Runs :
        /\ run[r].pc = "settle"
        /\ run[r].plans[s].version # 0
        /\ run[r].plans[s].version = state[s].version
        /\ run[r].page[s] = [kind |-> "eligible", rev |-> run[r].plans[s].rev]
        /\ doc'[s] = [rev |-> run[r].plans[s].rev, profile |-> ProfileOf[r],
                      searchable |-> TRUE]
  BY DEF Renewed
<1>2. s \in Planned(run[r].plans)
  BY <1>1 DEF Planned
<1>3. doc[s].rev <= run[r].page[s].rev
  BY <1>1, <1>2 DEF ReloadedIsNewer
<1> QED BY <1>1, <1>3

LEMMA DocMoves ==
  ASSUME TypeOK, ReloadedIsNewer, NEW s \in Sources, Moves(s)
  PROVE  /\ doc'[s].rev >= doc[s].rev
         /\ \/ doc'[s].rev = doc[s].rev
            \/ \E r \in Runs : doc'[s].rev = run[r].plans[s].rev
<1>1. doc[s] \in Document /\ doc[s].rev \in Nat
  BY DEF TypeOK, Document
<1>2. \A r \in Runs : run[r].plans[s].rev \in Nat
  BY DEF TypeOK, RunState, Plan
<1>3. CASE Renewed(s)
  <2>1. PICK r \in Runs : /\ doc'[s].rev = run[r].plans[s].rev
                          /\ doc[s].rev <= run[r].plans[s].rev
    BY <1>3, RenewedFrom
  <2> QED BY <1>1, <1>2, <2>1
<1>4. CASE Rests(s) \/ Taken(s) \/ Released(s) \/ Withdrawn(s)
  <2>1. doc'[s].rev = doc[s].rev
    BY <1>1, <1>4 DEF Rests, Taken, Released, Withdrawn, Document
  <2> QED BY <1>1, <2>1
<1> QED BY <1>3, <1>4 DEF Moves

LEMMA FutureStep ==
  ASSUME TypeOK, TypeOK', NothingFromTheFuture, ReloadedIsNewer, [Next]_vars
  PROVE  NothingFromTheFuture'
<1> SUFFICES ASSUME NEW s \in Sources
             PROVE  /\ doc'[s].rev <= source'[s].rev
                    /\ \A r \in Runs : /\ run'[r].page[s].rev <= source'[s].rev
                                       /\ run'[r].plans[s].rev <= source'[s].rev
  BY DEF NothingFromTheFuture
<1>0. /\ source[s].rev \in Nat /\ source'[s].rev \in Nat
      /\ doc[s].rev \in Nat /\ doc'[s].rev \in Nat
      /\ \A r \in Runs : /\ run[r].page[s].rev \in Nat /\ run'[r].page[s].rev \in Nat
                         /\ run[r].plans[s].rev \in Nat /\ run'[r].plans[s].rev \in Nat
  BY DEF TypeOK, Item, Document, RunState, Plan
<1>1. source'[s].rev >= source[s].rev
  BY SourceMoves
<1>2. /\ doc[s].rev <= source[s].rev
      /\ \A r \in Runs : /\ run[r].page[s].rev <= source[s].rev
                         /\ run[r].plans[s].rev <= source[s].rev
  BY DEF NothingFromTheFuture
<1>3. AllMove /\ AllRead
  BY StepMoves, StepReads
<1>4. doc'[s].rev <= source'[s].rev
  <2>1. doc'[s].rev = doc[s].rev \/ \E r \in Runs : doc'[s].rev = run[r].plans[s].rev
    BY <1>3, DocMoves DEF AllMove
  <2> QED BY <1>0, <1>1, <1>2, <2>1
<1>5. ASSUME NEW r \in Runs
      PROVE  run'[r].page[s].rev <= source'[s].rev /\ run'[r].plans[s].rev <= source'[s].rev
  <2>1. run'[r].page[s].rev \in {run[r].page[s].rev, 0, source[s].rev}
    BY <1>3 DEF AllRead, Reads, NoPage
  <2>2. run'[r].plans[s].rev \in {run[r].plans[s].rev, 0, run[r].page[s].rev}
    BY <1>3 DEF AllRead, Reads, NoPlans
  <2> QED BY <1>0, <1>1, <1>2, <2>1, <2>2
<1> QED BY <1>4, <1>5

LEMMA ReloadedStep ==
  ASSUME TypeOK, TypeOK', EmptyRows, PlansOrdered, NothingFromTheFuture, ReloadedIsNewer,
         AllMove, AllRead
  PROVE  ReloadedIsNewer'
<1> SUFFICES ASSUME NEW r \in Runs, NEW s \in Sources, run'[r].plans[s].version # 0,
                    run'[r].pc = "settle",
                    run'[r].plans[s].version = state'[s].version,
                    run'[r].page[s].kind # "absent"
             PROVE  doc'[s].rev <= run'[r].page[s].rev
  BY DEF ReloadedIsNewer, Planned
<1>0. /\ run[r].plans[s].version \in Nat /\ state[s].version \in Nat
      /\ state'[s].version \in Nat
  BY DEF TypeOK, RunState, Plan, State
<1>1. /\ run'[r].plans[s] = run[r].plans[s]
      /\ \/ run[r].pc = "settle" /\ run'[r].page[s] = run[r].page[s]
         \/ run'[r].page[s] \in {source[s], NoPage[s]}
  BY DEF AllRead, Reads
<1>2. s \in Planned(run[r].plans) /\ run[r].plans[s].version <= state[s].version
  BY <1>1 DEF Planned, PlansOrdered
<1>3. SameVersion(s)
  <2>1. ~(state'[s].version > state[s].version)
    BY <1>0, <1>1, <1>2
  <2>2. SameVersion(s) \/ state'[s].version > state[s].version
    BY VersionMoves DEF AllMove
  <2> QED BY <2>1, <2>2
<1>4. doc'[s].rev = doc[s].rev /\ run[r].plans[s].version = state[s].version
  BY <1>1, <1>3 DEF SameVersion
<1>5. CASE run[r].pc = "settle" /\ run'[r].page[s] = run[r].page[s]
  BY <1>2, <1>4, <1>5 DEF ReloadedIsNewer
<1>6. CASE run'[r].page[s] \in {source[s], NoPage[s]}
  BY <1>4, <1>6 DEF NothingFromTheFuture, NoPage
<1> QED BY <1>1, <1>5, <1>6

LEMMA IndexNext == IndexInv /\ [Next]_vars => IndexInv'
<1> SUFFICES ASSUME IndexInv, [Next]_vars PROVE IndexInv'
  OBVIOUS
<1>1. /\ TypeOK /\ EmptyRows /\ PlansOrdered /\ IndexConsistent
      /\ NothingFromTheFuture /\ ReloadedIsNewer
  BY DEF IndexInv
<1>2. TypeOK' /\ AllMove /\ AllRead
  BY <1>1, TypeNext, StepMoves, StepReads
<1> QED BY <1>1, <1>2, ConsistentStep, OrderedStep, FutureStep, ReloadedStep DEF IndexInv

LEMMA IndexInvariant == Spec => []IndexInv
BY IndexInit, IndexNext, PTL DEF Spec

\* While a state has the version of a run's plan, it is indexing under that run's
\* claim: no order of claims, hides, failures and expired leases breaks the fence.
THEOREM PlansAlwaysFenced == Spec => []PlansFenced
<1>1. IndexInv => PlansFenced
  BY DEF IndexInv, PlansOrdered, PlansFenced
<1> QED BY <1>1, IndexInvariant, PTL

\* Index states and documents agree in every interleaving of any runs.
THEOREM IndexAlwaysConsistent == Spec => []IndexConsistent
<1>1. IndexInv => IndexConsistent
  BY DEF IndexInv
<1> QED BY <1>1, IndexInvariant, PTL

\* No step replaces a document by one of an older revision.
THEOREM ContentOnlyMovesForward == Spec => ContentMovesForward
<1>1. IndexInv /\ [Next]_vars => [\A s \in Sources : doc'[s].rev >= doc[s].rev]_vars
  <2> SUFFICES ASSUME IndexInv, [Next]_vars, NEW s \in Sources
               PROVE  doc'[s].rev >= doc[s].rev
    OBVIOUS
  <2>1. AllMove
    BY StepMoves DEF IndexInv
  <2> QED BY <2>1, DocMoves DEF IndexInv, AllMove
<1> QED BY <1>1, IndexInvariant, PTL DEF Spec, ContentMovesForward
=============================================================================
