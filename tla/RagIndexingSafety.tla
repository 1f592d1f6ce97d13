------------------------- MODULE RagIndexingSafety -------------------------
(* What a completed indexing run may vouch for: it leaves no old content     *)
(* behind, and where no rows appear it hides nothing it should not.          *)
(* The runs implement CorpusIndex, and only rebuilds replace a profile.       *)
EXTENDS RagIndexingProofs, FiniteSetTheorems

-----------------------------------------------------------------------------
(* What a completed run vouches for.                                         *)

\* Run r holds the claim and a page on which s is not as it is now.
StalePage(r, s) ==
  /\ run[r].pc = "settle"
  /\ run[r].plans[s].version # 0
  /\ run[r].plans[s].version = state[s].version
  /\ run[r].page[s].kind = "eligible"
  /\ run[r].page[s] # source[s]

\* No old content of s is searchable, and no run is left that could bring it back.
Reflected(s) ==
  /\ doc[s].searchable => source[s].kind = "eligible" /\ doc[s].rev = source[s].rev
  /\ \A r \in Runs : ~StalePage(r, s)

\* A run that will vouch for s if it ends without trouble ...
Vouches(r, s) == Active(r) /\ ~run[r].troubled /\ s \in run[r].clean \cap Scope[r]

\* ... and what it has still to do about s at each of its stages.
Building(r, s) ==
  /\ run[r].plans[s].version # 0
  /\ run[r].plans[s].rev = source[s].rev
  /\ source[s].kind = "eligible"
StillAhead(r, s) ==
  LET rn == run[r]
  IN  \/ rn.pc \in {"load", "read", "commit", "embed", "settle", "missing"}
         /\ s \notin rn.seen
      \/ rn.pc = "read" /\ rn.page[s] = source[s] /\ source[s].kind # "absent"
      \/ /\ rn.pc = "commit"
         /\ rn.page[s] = source[s]
         /\ rn.work[s].do # "skip"
         /\ rn.work[s].do \in {"claim", "create"} => source[s].kind = "eligible"
      \/ rn.pc = "embed" /\ Building(r, s)
      \/ rn.pc = "settle" /\ Building(r, s) /\ rn.page[s] \in {source[s], NoPage[s]}
      \/ rn.pc = "sweep" /\ rn.work[s].do = "hide"

FreshReflected == \A s \in fresh : Reflected(s)
RunsKeepTrack ==
  \A r \in Runs : \A s \in Sources : Vouches(r, s) => Reflected(s) \/ StillAhead(r, s)

\* A source without a state has no searchable document, a run not started no page.
NothingYet ==
  /\ \A s \in Sources : state[s].status = "none" => ~doc[s].searchable
  /\ \A r \in Runs : run[r].pc = "new" => run[r].seen = {}

VouchInv == IndexInv /\ NothingYet /\ FreshReflected /\ RunsKeepTrack

\* What a step may do to the index, as the lemmas below need it.
Stepped == IndexInv /\ IndexInv' /\ AllMove /\ AllRead

LEMMA SteppedBy ==
  ASSUME IndexInv, [Next]_vars
  PROVE  Stepped
BY IndexNext, StepMoves, StepReads DEF IndexInv, Stepped

\* Once a source rests no run loads a stale page of it, and a write ends them all.
LEMMA StalePageKept ==
  ASSUME Stepped, NEW r \in Runs, NEW s \in Sources, source'[s] = source[s],
         StalePage(r, s)'
  PROVE  StalePage(r, s) /\ SameVersion(s)
<1>1. /\ run'[r].pc = "settle" /\ run'[r].plans[s].version # 0
      /\ run'[r].plans[s].version = state'[s].version
      /\ run'[r].page[s].kind = "eligible" /\ run'[r].page[s] # source[s]
  BY DEF StalePage
<1>2. /\ run'[r].plans[s] = run[r].plans[s]
      /\ \/ run[r].pc = "settle" /\ run'[r].page[s] = run[r].page[s]
         \/ run'[r].page[s] \in {source[s], NoPage[s]}
  BY <1>1 DEF Stepped, AllRead, Reads
<1>3. NoPage[s].kind # "eligible"
  BY DEF NoPage
<1>4. run[r].pc = "settle" /\ run'[r].page[s] = run[r].page[s]
  BY <1>1, <1>2, <1>3
<1>5. s \in Planned(run[r].plans)
  BY <1>1, <1>2 DEF Planned
<1>6. /\ run[r].plans[s].version <= state[s].version
      /\ run[r].plans[s].version \in Nat /\ state[s].version \in Nat
  BY <1>5 DEF Stepped, IndexInv, PlansOrdered, TypeOK, RunState, Plan, State
<1>7. SameVersion(s) \/ state'[s].version > state[s].version
  BY VersionMoves DEF Stepped, IndexInv, AllMove
<1>8. SameVersion(s)
  BY <1>1, <1>2, <1>6, <1>7
<1> QED BY <1>1, <1>2, <1>4, <1>8 DEF StalePage, SameVersion

\* What a run renews when no page of the source is stale.
LEMMA RenewedAsItIs ==
  ASSUME TypeOK, NEW s \in Sources, Renewed(s), \A r \in Runs : ~StalePage(r, s)
  PROVE  source[s].kind = "eligible" /\ doc'[s].rev = source[s].rev
<1>1. PICK r \in Runs :
        /\ run[r].pc = "settle" /\ run[r].plans[s].version # 0
        /\ run[r].plans[s].version = state[s].version
        /\ run[r].page[s] = [kind |-> "eligible", rev |-> run[r].plans[s].rev]
        /\ doc'[s].rev = run[r].plans[s].rev
  BY DEF Renewed
<1>2. run[r].page[s] = source[s]
  BY <1>1 DEF StalePage
<1>3. source[s].kind = "eligible" /\ source[s].rev = run[r].plans[s].rev
  BY <1>1, <1>2
<1> QED BY <1>1, <1>3

\* What is reflected stays so until the source changes, whatever runs do.
LEMMA ReflectedStays ==
  ASSUME Stepped, NEW s \in Sources, source'[s] = source[s], Reflected(s)
  PROVE  Reflected(s)'
<1>1. \A r \in Runs : ~StalePage(r, s)'
  BY StalePageKept DEF Reflected
<1>2. doc[s] \in Document /\ TypeOK /\ Moves(s)
  BY DEF Stepped, IndexInv, TypeOK, AllMove
<1>3. CASE Renewed(s)
  <2>1. source[s].kind = "eligible" /\ doc'[s].rev = source[s].rev
    BY <1>2, <1>3, RenewedAsItIs DEF Reflected
  <2> QED BY <1>1, <2>1 DEF Reflected
<1>4. CASE Rests(s) \/ Taken(s) \/ Released(s) \/ Withdrawn(s)
  <2>1. doc'[s].rev = doc[s].rev /\ (doc'[s].searchable => doc[s].searchable)
    BY <1>2, <1>4 DEF Rests, Taken, Released, Withdrawn, Document
  <2> QED BY <1>1, <2>1 DEF Reflected
<1> QED BY <1>2, <1>3, <1>4 DEF Moves

\* A write of a new version that leaves no old content reflects the source.
LEMMA ReflectedByWrite ==
  ASSUME Stepped, NEW s \in Sources, source'[s] = source[s], ~SameVersion(s),
         doc'[s].searchable => source[s].kind = "eligible" /\ doc'[s].rev = source[s].rev
  PROVE  Reflected(s)'
BY StalePageKept DEF Reflected

\* So does a state nobody is indexing.
LEMMA ReflectedAtRest ==
  ASSUME IndexInv, NEW s \in Sources, state[s].status # "indexing",
         doc[s].searchable => source[s].kind = "eligible" /\ doc[s].rev = source[s].rev
  PROVE  Reflected(s)
<1>1. ASSUME NEW r \in Runs, StalePage(r, s)
      PROVE  FALSE
  <2>1. s \in Planned(run[r].plans)
    BY <1>1 DEF StalePage, Planned
  <2> QED BY <1>1, <2>1 DEF StalePage, IndexInv, PlansOrdered
<1> QED BY <1>1 DEF Reflected

\* The stages of one run, each moving what it still has to do about s.
LEMMA LoadTracks ==
  ASSUME Stepped, NEW r \in Runs, NEW s \in Sources, UNCHANGED source, Load(r),
         Reflected(s) \/ StillAhead(r, s)
  PROVE  Reflected(s)' \/ StillAhead(r, s)'
<1> DEFINE page == Page(r)
           seen == run[r].seen \cup OnPage(page)
<1>1. PICK next \in NextCursor(r, OnPage(page)) :
        Becomes(r, [run[r] EXCEPT !.pc = "read", !.page = page, !.next = next,
                                  !.seen = seen])
  BY DEF Load
<1>2. TypeOK /\ run[r] \in RunState
  BY DEF Stepped, IndexInv, TypeOK
<1>3. page[s] \in {source[s], NoPage[s]}
  BY <1>2, PageRows
<1>4. s \in OnPage(page) => page[s].kind # "absent"
  BY DEF OnPage
<1> HIDE DEF page
<1>5. run'[r].pc = "read" /\ run'[r].page = page /\ run'[r].seen = seen
  BY <1>1, <1>2 DEF Becomes, RunState, TypeOK
<1>6. CASE Reflected(s)
  BY <1>6, ReflectedStays
<1>7. CASE StillAhead(r, s)
  <2>1. s \notin run[r].seen
    BY <1>7 DEF StillAhead, Load
  <2>2. CASE s \in OnPage(page)
    <3>1. page[s] = source[s] /\ source[s].kind # "absent"
      BY <1>3, <1>4, <2>2 DEF NoPage
    <3> QED BY <1>5, <3>1 DEF StillAhead
  <2>3. CASE s \notin OnPage(page)
    BY <1>5, <2>1, <2>3 DEF StillAhead
  <2> QED BY <2>2, <2>3
<1> QED BY <1>6, <1>7

\* What a decision says of the page's row.
LEMMA DecideMeans ==
  ASSUME TypeOK, NEW r \in Runs, NEW s \in Sources
  PROVE  LET kind == run[r].page[s].kind
         IN  /\ Decide(r, s) = "skip" =>
                  \/ kind = "absent"
                  \/ kind = "ineligible" /\ ~MustHide(s)
                  \/ kind = "eligible" /\ UpToDate(r, s)
             /\ Decide(r, s) = "hide" => kind = "ineligible"
             /\ Decide(r, s) \in {"claim", "create", "rebuild"} => kind = "eligible"
<1>1. run[r].page[s].kind \in Kinds
  BY DEF TypeOK, RunState, Item
<1> QED BY <1>1 DEF Decide, Kinds

LEMMA ReadTracks ==
  ASSUME Stepped, NothingYet, NEW r \in Runs, NEW s \in Sources, UNCHANGED source,
         ReadStates(r), Reflected(s) \/ StillAhead(r, s)
  PROVE  Reflected(s)' \/ StillAhead(r, s)'
<1> DEFINE work == [t \in Sources |-> Noted(Decide(r, t), t)]
<1>1. Becomes(r, [run[r] EXCEPT !.pc = "commit", !.work = work])
  BY DEF ReadStates
<1>2. IndexInv /\ TypeOK /\ run[r] \in RunState
  BY DEF Stepped, IndexInv, TypeOK
<1>3. work[s].do = Decide(r, s)
  BY DEF Noted
<1> HIDE DEF work
<1>4. /\ run'[r].pc = "commit" /\ run'[r].work = work
      /\ run'[r].seen = run[r].seen /\ run'[r].page = run[r].page
  BY <1>1, <1>2 DEF Becomes, RunState, TypeOK
<1>5. CASE Reflected(s)
  BY <1>5, ReflectedStays
<1>6. CASE StillAhead(r, s)
  <2>1. CASE s \notin run[r].seen
    BY <1>4, <2>1 DEF StillAhead
  <2>2. CASE run[r].page[s] = source[s] /\ source[s].kind # "absent"
    <3>1. CASE Decide(r, s) # "skip"
      <4>1. Decide(r, s) \in {"claim", "create"} => source[s].kind = "eligible"
        BY <1>2, <2>2, DecideMeans
      <4> QED BY <1>3, <1>4, <2>2, <3>1, <4>1 DEF StillAhead
    <3>2. CASE Decide(r, s) = "skip"
      <4>1. \/ source[s].kind = "ineligible" /\ ~MustHide(s)
            \/ source[s].kind = "eligible" /\ UpToDate(r, s)
        BY <1>2, <2>2, <3>2, DecideMeans
      <4>2. CASE source[s].kind = "ineligible" /\ ~MustHide(s)
        BY <1>2, <4>2, ReflectedAtRest, ReflectedStays DEF MustHide
      <4>3. CASE source[s].kind = "eligible" /\ UpToDate(r, s)
        <5>1. state[s].status = "current" /\ state[s].observed = source[s].rev
          BY <2>2, <4>3 DEF UpToDate
        <5>2. doc[s] = [rev |-> state[s].observed, profile |-> state[s].profile,
                        searchable |-> TRUE]
          BY <1>2, <5>1 DEF IndexInv, IndexConsistent
        <5>3. state[s].status # "indexing" /\ doc[s].rev = source[s].rev
          BY <5>1, <5>2
        <5> QED BY <1>2, <4>3, <5>3, ReflectedAtRest, ReflectedStays
      <4> QED BY <4>1, <4>2, <4>3
    <3> QED BY <3>1, <3>2
  <2> QED BY <1>6, <2>1, <2>2 DEF StillAhead, ReadStates
<1> QED BY <1>5, <1>6

LEMMA ReloadTracks ==
  ASSUME Stepped, NEW r \in Runs, NEW s \in Sources, UNCHANGED source, Reload(r),
         Reflected(s) \/ StillAhead(r, s)
  PROVE  Reflected(s)' \/ StillAhead(r, s)'
<1> DEFINE page == Page(r)
<1>1. Becomes(r, [run[r] EXCEPT !.pc = "settle", !.page = page])
  BY DEF Reload
<1>2. TypeOK /\ run[r] \in RunState
  BY DEF Stepped, IndexInv, TypeOK
<1>3. page[s] \in {source[s], NoPage[s]}
  BY <1>2, PageRows
<1> HIDE DEF page
<1>4. /\ run'[r].pc = "settle" /\ run'[r].page = page
      /\ run'[r].seen = run[r].seen /\ run'[r].plans = run[r].plans
  BY <1>1, <1>2 DEF Becomes, RunState, TypeOK
<1>5. CASE Reflected(s)
  BY <1>5, ReflectedStays
<1>6. CASE StillAhead(r, s)
  BY <1>3, <1>4, <1>6 DEF StillAhead, Building, Reload
<1> QED BY <1>5, <1>6

LEMMA MissingTracks ==
  ASSUME Stepped, NothingYet, NEW r \in Runs, NEW s \in Sources, UNCHANGED source,
         ReadMissing(r), s \in Scope[r], Reflected(s) \/ StillAhead(r, s)
  PROVE  Reflected(s)' \/ StillAhead(r, s)'
<1> DEFINE known   == {t \in Scope[r] : state[t].status # "none"}
           missing == {t \in known \ run[r].seen : state[t].status # "deleted"}
           work == [t \in Sources |-> Noted(IF t \in missing THEN "hide" ELSE "skip", t)]
<1>1. Becomes(r, [run[r] EXCEPT !.pc = "sweep", !.work = work])
  BY DEF ReadMissing
<1>2. IndexInv /\ TypeOK /\ run[r] \in RunState
  BY DEF Stepped, IndexInv, TypeOK
<1>3. s \in missing => work[s].do = "hide"
  BY DEF Noted
<1> HIDE DEF work
<1>4. run'[r].pc = "sweep" /\ run'[r].work = work
  BY <1>1, <1>2 DEF Becomes, RunState, TypeOK
<1>5. CASE Reflected(s)
  BY <1>5, ReflectedStays
<1>6. CASE StillAhead(r, s) /\ s \in missing
  BY <1>3, <1>4, <1>6 DEF StillAhead
<1>7. CASE StillAhead(r, s) /\ s \notin missing
  <2>1. s \notin run[r].seen
    BY <1>7 DEF StillAhead, ReadMissing
  <2>2. state[s].status \in {"none", "deleted"}
    BY <1>7, <2>1
  <2>3. ~doc[s].searchable
    BY <1>2, <2>2 DEF NothingYet, IndexInv, IndexConsistent, Hidden
  <2> QED BY <1>2, <2>2, <2>3, ReflectedAtRest, ReflectedStays
<1> QED BY <1>5, <1>6, <1>7

LEMMA SweepTracks ==
  ASSUME Stepped, NEW r \in Runs, NEW s \in Sources, UNCHANGED source,
         CommitSweep(r), ~run'[r].troubled, Reflected(s) \/ StillAhead(r, s)
  PROVE  Reflected(s)'
<1> DEFINE hit == {t \in Chosen(r, "hide") : StillAsRead(t, run[r].work[t].version)}
           troubled == run[r].troubled \/ hit # Chosen(r, "hide")
<1>1. /\ Becomes(r, [run[r] EXCEPT !.pc = "finish", !.work = NoWork, !.troubled = troubled])
      /\ state' = [t \in Sources |->
           IF t \in hit THEN Unsearchable(state[t], "deleted") ELSE state[t]]
      /\ doc' = HiddenDocs(hit)
  BY DEF CommitSweep
<1>2. TypeOK /\ run[r] \in RunState /\ state[s] \in State /\ doc[s] \in Document
  BY DEF Stepped, IndexInv, TypeOK
<1>3. run'[r].troubled = troubled
  <2> HIDE DEF troubled
  <2> QED BY <1>1, <1>2 DEF Becomes, RunState, TypeOK
<1>4. CASE Reflected(s)
  BY <1>4, ReflectedStays
<1>5. CASE StillAhead(r, s)
  <2>1. run[r].work[s].do = "hide"
    BY <1>5 DEF StillAhead, CommitSweep
  <2>2. s \in hit
    BY <1>3, <2>1 DEF Chosen
  <2> HIDE DEF hit
  <2>3. state'[s] = Unsearchable(state[s], "deleted") /\ doc'[s] = HiddenDocs(hit)[s]
    BY <1>1, <2>2
  <2>4. ~SameVersion(s)
    BY <1>2, <2>3, WrittenHide DEF SameVersion, Hidden, State
  <2>5. doc'[s] = [doc[s] EXCEPT !.searchable = FALSE]
    BY <1>2, <2>2, <2>3, HiddenDocsAt
  <2>6. ~doc'[s].searchable
    BY <1>2, <2>5 DEF Document
  <2> QED BY <2>4, <2>6, ReflectedByWrite
<1> QED BY <1>4, <1>5

LEMMA CommitTracks ==
  ASSUME Stepped, NothingYet, NEW r \in Runs, NEW s \in Sources, UNCHANGED source,
         CommitPage(r), ~run'[r].troubled, Reflected(s) \/ StillAhead(r, s)
  PROVE  Reflected(s)' \/ StillAhead(r, s)'
<1> DEFINE won  == {t \in Chosen(r, "claim") : Claimable(t, r, run[r].work[t].version)}
           mine == won \cup Chosen(r, "create")
           read == run[r].page
           After(t) ==
             CASE t \in won -> Claimed(state[t], r)
               [] t \in Chosen(r, "create") -> Created(r)
               [] t \in Chosen(r, "hide") -> Unsearchable(state[t], "ineligible")
               [] t \in Chosen(r, "rebuild") -> Staled(state[t], read[t].rev)
               [] OTHER -> state[t]
           plans == [t \in Sources |->
             IF t \in mine THEN [version |-> state'[t].version, rev |-> read[t].rev]
                           ELSE NoPlans[t]]
           troubled == \/ run[r].troubled
                       \/ Chosen(r, "rebuild") # {}
                       \/ won # Chosen(r, "claim")
           decided == [run[r] EXCEPT !.pc = "embed", !.plans = plans, !.troubled = troubled]
           final == IF mine = {} THEN AfterPage(decided)
                    ELSE [decided EXCEPT !.page = NoPage, !.work = NoWork]
<1>1. /\ Becomes(r, final)
      /\ state' = [t \in Sources |-> After(t)] /\ doc' = HiddenDocs(Chosen(r, "hide"))
  BY DEF CommitPage
<1>2. /\ IndexInv /\ TypeOK /\ run[r] \in RunState /\ run[r].pc = "commit"
      /\ state[s] \in State /\ doc[s] \in Document
  BY DEF Stepped, IndexInv, TypeOK, CommitPage
<1>3. \A t \in mine : /\ t \in Sources /\ state'[t] \in State
                      /\ state'[t].status = "indexing" /\ state'[t].claim = r
  BY <1>2, CommittedRows
<1>4. /\ plans \in [Sources -> Plan] /\ troubled \in BOOLEAN
      /\ s \in mine => plans[s] = [version |-> state'[s].version, rev |-> read[s].rev]
  <2> HIDE DEF mine
  <2> QED BY <1>2, <1>3, NewRunTyped DEF TypeOK, RunState, Item, Plan, State
<1>5. /\ s \in won <=> s \in Chosen(r, "claim") /\ Claimable(s, r, run[r].work[s].version)
      /\ \A do : s \in Chosen(r, do) <=> run[r].work[s].do = do
      /\ s \in won => s \in mine
      /\ state'[s] = After(s) /\ doc'[s] = HiddenDocs(Chosen(r, "hide"))[s]
  BY <1>1 DEF Chosen
<1>6. ~troubled => s \notin Chosen(r, "rebuild") /\ (s \in Chosen(r, "claim") => s \in won)
  OBVIOUS
<1> HIDE DEF plans, mine, won, troubled, read
<1>7. /\ decided \in RunState /\ decided.plans = plans /\ decided.pc = "embed"
      /\ decided.seen = run[r].seen /\ decided.troubled = troubled
  BY <1>2, <1>4 DEF RunState, Stages
<1> HIDE DEF decided
<1>8. /\ final.seen = run[r].seen /\ final.troubled = troubled
      /\ final.pc \in {"embed", "load", "missing"}
      /\ s \in mine => final.pc = "embed" /\ final.plans = plans
  BY <1>7 DEF RunState, AfterPage
<1>9. run'[r] = final
  BY <1>1, <1>2 DEF Becomes, TypeOK
<1> HIDE DEF final
<1>10. CASE Reflected(s)
  BY <1>10, ReflectedStays
<1>11. CASE StillAhead(r, s)
  <2>1. \/ s \notin run[r].seen
        \/ /\ run[r].page[s] = source[s] /\ run[r].work[s].do # "skip"
           /\ run[r].work[s].do \in {"claim", "create"} => source[s].kind = "eligible"
    BY <1>2, <1>11 DEF StillAhead
  <2>2. CASE s \notin run[r].seen
    BY <1>8, <1>9, <2>2 DEF StillAhead
  <2>3. CASE run[r].work[s].do = "hide"
    <3>1. After(s) = Unsearchable(state[s], "ineligible")
      BY <1>5, <2>3
    <3> HIDE DEF After
    <3>2. ~SameVersion(s)
      BY <1>2, <1>5, <3>1, WrittenHide DEF SameVersion, Hidden, State
    <3>3. doc'[s] = [doc[s] EXCEPT !.searchable = FALSE]
      BY <1>2, <1>5, <2>3, HiddenDocsAt
    <3>4. ~doc'[s].searchable
      BY <1>2, <3>3 DEF Document
    <3> QED BY <3>2, <3>4, ReflectedByWrite
  <2>4. CASE run[r].work[s].do = "create"
    <3>1. After(s) = Created(r)
      BY <1>5, <2>4
    <3> HIDE DEF After
    <3>2. state[s].status = "none"
      BY <1>5, <2>4 DEF CommitPage, PageAborts
    <3>3. ~SameVersion(s)
      BY <1>5, <3>1, <3>2, CreatedRow DEF SameVersion
    <3>4. doc'[s] = doc[s]
      <4>1. s \notin Chosen(r, "hide")
        BY <1>5, <2>4
      <4> QED BY <1>2, <1>5, <4>1, HiddenDocsAt
    <3>5. ~doc'[s].searchable
      BY <3>2, <3>4 DEF NothingYet
    <3> QED BY <3>3, <3>5, ReflectedByWrite
  <2>5. CASE /\ run[r].work[s].do = "claim"
             /\ run[r].page[s] = source[s] /\ source[s].kind = "eligible"
    <3>1. s \in won /\ s \in mine
      BY <1>5, <1>6, <1>8, <1>9, <2>5
    <3>2. After(s) = Claimed(state[s], r)
      BY <1>5, <2>5, <3>1
    <3> HIDE DEF After
    <3>3. state'[s].version = state[s].version + 1 /\ state[s].version \in Nat
      BY <1>2, <1>5, <3>2, WrittenClaim DEF State
    <3>4. plans[s].version # 0 /\ plans[s].rev = source[s].rev
      BY <1>4, <2>5, <3>1, <3>3 DEF read
    <3> QED BY <1>8, <1>9, <2>5, <3>1, <3>4 DEF StillAhead, Building
  <2>6. CASE run[r].work[s].do = "rebuild"
    BY <1>5, <1>6, <1>8, <1>9, <2>6
  <2>7. run[r].work[s].do \in {"skip", "hide", "create", "claim", "rebuild"}
    BY <1>2 DEF RunState, Decision
  <2> QED BY <2>1, <2>2, <2>3, <2>4, <2>5, <2>6, <2>7
<1> QED BY <1>10, <1>11

\* A settled plan leaves the rest of the page to do, or nothing of it.
LEMMA SettledFields ==
  ASSUME TypeOK, NEW r \in Runs, NEW t \in Sources, NEW trouble \in BOOLEAN,
         run[r].pc = "settle", Settled(r, t, trouble)
  PROVE  /\ run'[r].seen = run[r].seen
         /\ run'[r].troubled = (run[r].troubled \/ trouble)
         /\ \/ /\ run'[r].pc \in {"load", "missing"}
               /\ \A s \in Sources : s # t => run[r].plans[s].version = 0
            \/ /\ run'[r].pc = "settle" /\ run'[r].page = run[r].page
               /\ \A s \in Sources : s # t => run'[r].plans[s] = run[r].plans[s]
<1> DEFINE rn == [run[r] EXCEPT !.plans[t] = NoPlans[t], !.troubled = @ \/ trouble]
           final == IF Planned(rn.plans) = {} THEN AfterPage(rn) ELSE rn
<1>1. run[r] \in RunState /\ NoPlans[t] \in Plan
  BY NewRunTyped DEF TypeOK
<1>2. /\ rn \in RunState
      /\ rn.pc = run[r].pc /\ rn.page = run[r].page /\ rn.seen = run[r].seen
      /\ rn.troubled = (run[r].troubled \/ trouble)
      /\ \A s \in Sources : s # t => rn.plans[s] = run[r].plans[s]
  BY <1>1 DEF RunState
<1>3. Becomes(r, final)
  BY DEF Settled
<1>4. run'[r] = final
  BY <1>3 DEF Becomes, TypeOK
<1> HIDE DEF rn
<1>5. CASE Planned(rn.plans) = {}
  <2>1. final.pc \in {"load", "missing"} /\ final.seen = rn.seen /\ final.troubled = rn.troubled
    BY <1>2, <1>5 DEF AfterPage, RunState
  <2>2. \A s \in Sources : rn.plans[s].version = 0
    BY <1>5 DEF Planned
  <2> QED BY <1>2, <1>4, <2>1, <2>2
<1>6. CASE Planned(rn.plans) # {}
  BY <1>2, <1>4, <1>6
<1> QED BY <1>5, <1>6

LEMMA SettleTracks ==
  ASSUME Stepped, NEW r \in Runs, NEW t \in Planned(run[r].plans), NEW s \in Sources,
         UNCHANGED source, ~run'[r].troubled, Reflected(s) \/ StillAhead(r, s),
         Withdraw(r, t) \/ Postpone(r, t) \/ Activate(r, t) \/ ActivateFails(r, t)
  PROVE  Reflected(s)' \/ StillAhead(r, s)'
<1>1. /\ TypeOK /\ run[r] \in RunState /\ run[r].pc = "settle" /\ t \in Sources
      /\ state[s] \in State /\ doc[s] \in Document
  BY DEF Stepped, IndexInv, TypeOK, Planned, Withdraw, Postpone, Activate, ActivateFails,
         Settling
<1>2. PICK trouble \in BOOLEAN :
        /\ Settled(r, t, trouble)
        /\ Withdraw(r, t) => trouble = ~StillAsRead(t, run[r].plans[t].version)
        /\ Postpone(r, t) \/ ActivateFails(r, t) => trouble
  <2>1. CASE Postpone(r, t) \/ ActivateFails(r, t)
    BY <2>1 DEF Withdraw, Postpone, ActivateFails, Changed, Gone
  <2>2. CASE Withdraw(r, t)
    BY <2>2 DEF Withdraw, Postpone, ActivateFails
  <2>3. CASE Activate(r, t)
    BY <2>3 DEF Activate, Withdraw, Postpone, ActivateFails
  <2> QED BY <2>1, <2>2, <2>3
<1>3. /\ run'[r].seen = run[r].seen
      /\ ~trouble
      /\ \/ /\ run'[r].pc \in {"load", "missing"}
            /\ s # t => run[r].plans[s].version = 0
         \/ /\ run'[r].pc = "settle" /\ run'[r].page = run[r].page
            /\ s # t => run'[r].plans[s] = run[r].plans[s]
  BY <1>1, <1>2, SettledFields
<1>4. CASE Reflected(s)
  BY <1>4, ReflectedStays
<1>5. CASE StillAhead(r, s) /\ s \notin run[r].seen
  BY <1>3, <1>5 DEF StillAhead
<1>6. CASE StillAhead(r, s) /\ s \in run[r].seen
  <2>1. Building(r, s) /\ run[r].page[s] \in {source[s], NoPage[s]}
    BY <1>1, <1>6 DEF StillAhead
  <2>2. CASE s # t
    BY <1>3, <2>1, <2>2 DEF Building, StillAhead
  <2>3. CASE s = t /\ Withdraw(r, t)
    <3> DEFINE kind == IF s \in OnPage(run[r].page) THEN "ineligible" ELSE "deleted"
    <3>1. /\ state' = [state EXCEPT ![s] = Unsearchable(@, kind)] /\ doc' = HiddenDocs({s})
      BY <1>2, <1>3, <2>3 DEF Withdraw
    <3>2. state'[s] = Unsearchable(state[s], kind) /\ kind \in Hidden
      BY <1>1, <3>1 DEF TypeOK, Hidden
    <3> HIDE DEF kind
    <3>3. ~SameVersion(s)
      BY <1>1, <3>2, WrittenHide DEF SameVersion, State
    <3>4. doc'[s] = [doc[s] EXCEPT !.searchable = FALSE]
      BY <1>1, <3>1, HiddenDocsAt
    <3>5. ~doc'[s].searchable
      BY <1>1, <3>4 DEF Document
    <3> QED BY <3>3, <3>5, ReflectedByWrite
  <2>4. CASE s = t /\ Activate(r, t)
    <3>1. /\ state'[s] = Activated(state[s], run[r].plans[s].rev, ProfileOf[r])
          /\ doc'[s] = [rev |-> run[r].plans[s].rev, profile |-> ProfileOf[r],
                        searchable |-> TRUE]
      BY <1>1, <2>4 DEF Activate, TypeOK
    <3>2. run[r].plans[s].rev \in Nat /\ ProfileOf[r] \in Profiles
      BY <1>1, RagIndexingAssumption DEF RunState, Plan
    <3>3. ~SameVersion(s)
      BY <1>1, <3>1, <3>2, WrittenActivation DEF SameVersion, State
    <3>4. source[s].kind = "eligible" /\ doc'[s].rev = source[s].rev
      BY <2>1, <3>1 DEF Building
    <3> QED BY <3>3, <3>4, ReflectedByWrite
  <2> QED BY <1>2, <1>3, <2>2, <2>3, <2>4
<1> QED BY <1>4, <1>5, <1>6

\* A run vouches for a source until it is troubled or ends; the others stand still.
LEMMA StageFields ==
  ASSUME TypeOK, NEW r \in Runs,
         \/ Load(r) \/ ReadStates(r) \/ CommitPage(r) \/ FailPlans(r) \/ Reload(r)
         \/ ReadMissing(r) \/ CommitSweep(r)
         \/ \E t \in Planned(run[r].plans) :
              Withdraw(r, t) \/ Postpone(r, t) \/ Activate(r, t) \/ ActivateFails(r, t)
  PROVE  /\ UNCHANGED source /\ Active(r)
         /\ \A o \in Runs : o # r => run'[o] = run[o]
         /\ run'[r].clean = run[r].clean /\ run'[r].pc # "new"
         /\ ~run'[r].troubled => ~run[r].troubled
<1>0. run[r] \in RunState
  BY DEF TypeOK
<1>1. \A rn : Becomes(r, rn) => /\ run'[r] = rn
                                /\ \A o \in Runs : o # r => run'[o] = run[o]
  BY DEF Becomes, TypeOK
<1>2. CASE Load(r) \/ ReadStates(r) \/ Reload(r) \/ ReadMissing(r) \/ CommitSweep(r)
  <2>1. CASE Load(r)
    <3>1. PICK page, seen, next : Becomes(r, [run[r] EXCEPT !.pc = "read", !.page = page,
                                                !.next = next, !.seen = seen])
      BY <2>1 DEF Load
    <3> DEFINE rn == [run[r] EXCEPT !.pc = "read", !.page = page,
                                                !.next = next, !.seen = seen]
    <3>2. rn.clean = run[r].clean /\ rn.pc # "new" /\ (~rn.troubled => ~run[r].troubled)
      BY <1>0 DEF RunState
    <3>3. run'[r] = rn /\ \A o \in Runs : o # r => run'[o] = run[o]
      BY <1>1, <3>1
    <3> HIDE DEF rn
    <3> QED BY <2>1, <3>2, <3>3 DEF Load, Active
  <2>2. CASE ReadStates(r)
    <3>1. PICK work : Becomes(r, [run[r] EXCEPT !.pc = "commit", !.work = work])
      BY <2>2 DEF ReadStates
    <3> DEFINE rn == [run[r] EXCEPT !.pc = "commit", !.work = work]
    <3>2. rn.clean = run[r].clean /\ rn.pc # "new" /\ (~rn.troubled => ~run[r].troubled)
      BY <1>0 DEF RunState
    <3>3. run'[r] = rn /\ \A o \in Runs : o # r => run'[o] = run[o]
      BY <1>1, <3>1
    <3> HIDE DEF rn
    <3> QED BY <2>2, <3>2, <3>3 DEF ReadStates, Active
  <2>3. CASE Reload(r)
    <3>1. Becomes(r, [run[r] EXCEPT !.pc = "settle", !.page = Page(r)])
      BY <2>3 DEF Reload
    <3> DEFINE rn == [run[r] EXCEPT !.pc = "settle", !.page = Page(r)]
    <3>2. rn.clean = run[r].clean /\ rn.pc # "new" /\ (~rn.troubled => ~run[r].troubled)
      BY <1>0 DEF RunState
    <3>3. run'[r] = rn /\ \A o \in Runs : o # r => run'[o] = run[o]
      BY <1>1, <3>1
    <3> HIDE DEF rn
    <3> QED BY <2>3, <3>2, <3>3 DEF Reload, Active
  <2>4. CASE ReadMissing(r)
    <3>1. PICK work : Becomes(r, [run[r] EXCEPT !.pc = "sweep", !.work = work])
      BY <2>4 DEF ReadMissing
    <3> DEFINE rn == [run[r] EXCEPT !.pc = "sweep", !.work = work]
    <3>2. rn.clean = run[r].clean /\ rn.pc # "new" /\ (~rn.troubled => ~run[r].troubled)
      BY <1>0 DEF RunState
    <3>3. run'[r] = rn /\ \A o \in Runs : o # r => run'[o] = run[o]
      BY <1>1, <3>1
    <3> HIDE DEF rn
    <3> QED BY <2>4, <3>2, <3>3 DEF ReadMissing, Active
  <2>5. CASE CommitSweep(r)
    <3>1. PICK trouble : Becomes(r, [run[r] EXCEPT !.pc = "finish", !.work = NoWork,
                                          !.troubled = run[r].troubled \/ trouble])
      BY <2>5 DEF CommitSweep
    <3> DEFINE rn == [run[r] EXCEPT !.pc = "finish", !.work = NoWork,
                                          !.troubled = run[r].troubled \/ trouble]
    <3>2. rn.clean = run[r].clean /\ rn.pc # "new" /\ (~rn.troubled => ~run[r].troubled)
      BY <1>0 DEF RunState
    <3>3. run'[r] = rn /\ \A o \in Runs : o # r => run'[o] = run[o]
      BY <1>1, <3>1
    <3> HIDE DEF rn
    <3> QED BY <2>5, <3>2, <3>3 DEF CommitSweep, Active
  <2> QED BY <1>2, <2>1, <2>2, <2>3, <2>4, <2>5
<1>3. CASE CommitPage(r)
  <2>1. PICK plans, trouble, mine :
          LET decided == [run[r] EXCEPT !.pc = "embed", !.plans = plans,
                                        !.troubled = run[r].troubled \/ trouble]
          IN  Becomes(r, IF mine = {} THEN AfterPage(decided)
                         ELSE [decided EXCEPT !.page = NoPage, !.work = NoWork])
    <3> DEFINE won  == {s \in Chosen(r, "claim") : Claimable(s, r, run[r].work[s].version)}
               mine == won \cup Chosen(r, "create")
               read == run[r].page
               After(s) ==
                 CASE s \in won -> Claimed(state[s], r)
                   [] s \in Chosen(r, "create") -> Created(r)
                   [] s \in Chosen(r, "hide") -> Unsearchable(state[s], "ineligible")
                   [] s \in Chosen(r, "rebuild") -> Staled(state[s], read[s].rev)
                   [] OTHER -> state[s]
               plans == [s \in Sources |->
                 IF s \in mine THEN [version |-> After(s).version, rev |-> read[s].rev]
                               ELSE NoPlans[s]]
               trouble == Chosen(r, "rebuild") # {} \/ won # Chosen(r, "claim")
               decided == [run[r] EXCEPT !.pc = "embed", !.plans = plans,
                                         !.troubled = run[r].troubled \/ trouble]
    <3>1. Becomes(r, IF mine = {} THEN AfterPage(decided)
                     ELSE [decided EXCEPT !.page = NoPage, !.work = NoWork])
      BY <1>3 DEF CommitPage
    <3> HIDE DEF plans, trouble, mine
    <3> QED BY <3>1
  <2> DEFINE decided == [run[r] EXCEPT !.pc = "embed", !.plans = plans,
                                       !.troubled = run[r].troubled \/ trouble]
             final == IF mine = {} THEN AfterPage(decided)
                      ELSE [decided EXCEPT !.page = NoPage, !.work = NoWork]
  <2>2. /\ final.clean = run[r].clean /\ final.pc # "new"
        /\ ~final.troubled => ~run[r].troubled
    BY <1>0 DEF AfterPage, RunState
  <2>3. run'[r] = final /\ \A o \in Runs : o # r => run'[o] = run[o]
    BY <1>1, <2>1
  <2> HIDE DEF final
  <2> QED BY <1>3, <2>2, <2>3 DEF CommitPage, Active
<1>4. CASE FailPlans(r)
  <2> DEFINE final == AfterPage([run[r] EXCEPT !.troubled = TRUE])
  <2>1. run'[r] = final /\ \A o \in Runs : o # r => run'[o] = run[o]
    BY <1>1, <1>4 DEF FailPlans
  <2>2. final.clean = run[r].clean /\ final.pc # "new" /\ final.troubled
    BY <1>0 DEF AfterPage, RunState
  <2> QED BY <1>4, <2>1, <2>2 DEF FailPlans, Active
<1>5. ASSUME NEW t \in Planned(run[r].plans),
             Withdraw(r, t) \/ Postpone(r, t) \/ Activate(r, t) \/ ActivateFails(r, t)
      PROVE  /\ UNCHANGED source /\ Active(r)
             /\ \A o \in Runs : o # r => run'[o] = run[o]
             /\ run'[r].clean = run[r].clean /\ run'[r].pc # "new"
             /\ ~run'[r].troubled => ~run[r].troubled
  <2>1. PICK trouble \in BOOLEAN : Settled(r, t, trouble)
    BY <1>5 DEF Withdraw, Postpone, Activate, ActivateFails
  <2>2. run[r].pc = "settle" /\ t \in Sources /\ UNCHANGED source
    BY <1>5 DEF Planned, Withdraw, Postpone, Activate, ActivateFails, Settling
  <2> DEFINE rn == [run[r] EXCEPT !.plans[t] = NoPlans[t], !.troubled = @ \/ trouble]
             final == IF Planned(rn.plans) = {} THEN AfterPage(rn) ELSE rn
  <2>3. run'[r] = final /\ \A o \in Runs : o # r => run'[o] = run[o]
    BY <1>1, <2>1 DEF Settled
  <2>4. rn.clean = run[r].clean /\ (~rn.troubled => ~run[r].troubled) /\ rn.pc = "settle"
    BY <1>0, <2>2 DEF RunState
  <2>5. rn \in RunState
    <3> NoPlans[t] \in Plan
      BY <2>2, NewRunTyped
    <3> QED BY <1>0, <2>2 DEF RunState
  <2> HIDE DEF rn
  <2>6. /\ final.clean = run[r].clean /\ final.pc # "new"
        /\ ~final.troubled => ~run[r].troubled
    BY <2>4, <2>5 DEF AfterPage, RunState
  <2> HIDE DEF final
  <2> QED BY <2>2, <2>3, <2>6 DEF Active
<1> QED BY <1>2, <1>3, <1>4, <1>5

\* A run that does not act has still to do what it had.
LEMMA OthersTrack ==
  ASSUME Stepped, RunsKeepTrack, NEW r \in Runs, NEW s \in Sources,
         source'[s] = source[s], run'[r].pc = run[r].pc, run'[r].seen = run[r].seen,
         run'[r].page = run[r].page, run'[r].work = run[r].work,
         run'[r].plans = run[r].plans, run'[r].troubled = run[r].troubled,
         run'[r].clean \subseteq run[r].clean, Vouches(r, s)'
  PROVE  Reflected(s)' \/ StillAhead(r, s)'
<1>1. Vouches(r, s)
  BY DEF Vouches, Active
<1>2. Reflected(s) \/ StillAhead(r, s)
  BY <1>1 DEF RunsKeepTrack
<1>3. CASE Reflected(s)
  BY <1>3, ReflectedStays
<1>4. CASE StillAhead(r, s)
  BY <1>4 DEF StillAhead, Building
<1> QED BY <1>2, <1>3, <1>4

LEMMA StartFields ==
  ASSUME TypeOK, NEW r \in Runs, Start(r)
  PROVE  /\ UNCHANGED <<source, fresh>> /\ run[r].pc = "new"
         /\ run'[r].pc = "load" /\ run'[r].seen = run[r].seen
         /\ run'[r].page = run[r].page /\ run'[r].cursor = run[r].cursor
         /\ \A o \in Runs : o # r => run'[o] = run[o]
<1> DEFINE rn == [run[r] EXCEPT !.pc = "load", !.clean = Sources]
<1>1. /\ rn.pc = "load" /\ rn.seen = run[r].seen
      /\ rn.page = run[r].page /\ rn.cursor = run[r].cursor
  BY DEF TypeOK, RunState
<1>2. run'[r] = rn /\ \A o \in Runs : o # r => run'[o] = run[o]
  BY DEF Start, Becomes, TypeOK
<1> HIDE DEF rn
<1> QED BY <1>1, <1>2 DEF Start

LEMMA EndFields ==
  ASSUME TypeOK, NEW r \in Runs, Finish(r) \/ RunFails(r)
  PROVE  /\ UNCHANGED source /\ run'[r].pc = "ended" /\ run'[r].page = NoPage
         /\ \A o \in Runs : o # r => run'[o] = run[o]
<1>1. run'[r] = Ended /\ \A o \in Runs : o # r => run'[o] = run[o]
  BY DEF Finish, RunFails, Becomes, TypeOK
<1>2. Ended.pc = "ended" /\ Ended.page = NoPage
  BY DEF Ended, NewRun
<1> QED BY <1>1, <1>2 DEF Finish, RunFails

\* The actions of a run between its start and its end.
Stage(r) ==
  \/ Load(r) \/ ReadStates(r) \/ CommitPage(r) \/ FailPlans(r) \/ Reload(r)
  \/ ReadMissing(r) \/ CommitSweep(r)
  \/ \E t \in Planned(run[r].plans) :
       Withdraw(r, t) \/ Postpone(r, t) \/ Activate(r, t) \/ ActivateFails(r, t)

LEMMA StageTracks ==
  ASSUME Stepped, NothingYet, RunsKeepTrack, NEW r \in Runs, NEW s \in Sources, Stage(r),
         Vouches(r, s)'
  PROVE  Reflected(s)' \/ StillAhead(r, s)'
<1>1. TypeOK /\ run[r] \in RunState
  BY DEF Stepped, IndexInv, TypeOK
<1>2. /\ UNCHANGED source /\ Active(r) /\ run'[r].clean = run[r].clean
      /\ ~run'[r].troubled /\ ~run[r].troubled
  BY <1>1, StageFields DEF Stage, Vouches
<1>3. s \in Scope[r] /\ (Reflected(s) \/ StillAhead(r, s))
  BY <1>2 DEF Vouches, RunsKeepTrack
<1>4. CASE FailPlans(r)
  <2> DEFINE final == AfterPage([run[r] EXCEPT !.troubled = TRUE])
  <2>1. run'[r] = final
    BY <1>1, <1>4 DEF FailPlans, Becomes, TypeOK
  <2>2. final.troubled
    BY <1>1 DEF AfterPage, RunState
  <2> QED BY <1>2, <2>1, <2>2
<1>5. ASSUME NEW t \in Planned(run[r].plans),
             Withdraw(r, t) \/ Postpone(r, t) \/ Activate(r, t) \/ ActivateFails(r, t)
      PROVE  Reflected(s)' \/ StillAhead(r, s)'
  BY <1>2, <1>3, <1>5, SettleTracks
<1> QED BY <1>2, <1>3, <1>4, <1>5, LoadTracks, ReadTracks, CommitTracks, ReloadTracks,
           MissingTracks, SweepTracks DEF Stage

\* Every step, seen from run r: it acts, another run does, or a source changes.
LEMMA StepKinds ==
  ASSUME [Next]_vars
  PROVE  \/ UNCHANGED <<source, run, fresh>>
         \/ \E s \in Sources : Change(s)
         \/ \E r \in Runs : Start(r) \/ Stage(r) \/ Finish(r) \/ RunFails(r)
<1>1. CASE UNCHANGED vars
  BY <1>1 DEF vars
<1>2. ASSUME NEW s \in Sources, LeaseExpires(s)
      PROVE  UNCHANGED <<source, run, fresh>>
  BY <1>2 DEF LeaseExpires
<1> QED BY <1>1, <1>2 DEF Next, Stage

LEMMA ChangeFields ==
  ASSUME TypeOK, NEW t \in Sources, Change(t)
  PROVE  /\ \A s \in Sources : s # t => source'[s] = source[s]
         /\ fresh' = fresh \ {t}
         /\ \A r \in Runs :
              /\ run'[r].pc = run[r].pc /\ run'[r].seen = run[r].seen
              /\ run'[r].page = run[r].page /\ run'[r].work = run[r].work
              /\ run'[r].plans = run[r].plans /\ run'[r].troubled = run[r].troubled
              /\ run'[r].next = run[r].next /\ run'[r].cursor = run[r].cursor
              /\ run'[r].clean = run[r].clean \ {t}
<1>1. \A r \in Runs : run[r] \in RunState
  BY DEF TypeOK
<1> QED BY <1>1 DEF Change, TypeOK, RunState

LEMMA TrackStep ==
  ASSUME VouchInv, Stepped, [Next]_vars
  PROVE  RunsKeepTrack'
<1> SUFFICES ASSUME NEW r \in Runs, NEW s \in Sources, Vouches(r, s)'
             PROVE  Reflected(s)' \/ StillAhead(r, s)'
  BY DEF RunsKeepTrack
<1>0. TypeOK /\ NothingYet /\ RunsKeepTrack
  BY DEF VouchInv, IndexInv
<1>1. CASE UNCHANGED <<source, run, fresh>>
  BY <1>0, <1>1, OthersTrack
<1>2. ASSUME NEW t \in Sources, Change(t)
      PROVE  Reflected(s)' \/ StillAhead(r, s)'
  <2>1. s # t
    BY <1>0, <1>2, ChangeFields DEF Vouches
  <2> QED BY <1>0, <1>2, <2>1, ChangeFields, OthersTrack
<1>3. ASSUME NEW o \in Runs, Start(o) \/ Stage(o) \/ Finish(o) \/ RunFails(o), o # r
      PROVE  Reflected(s)' \/ StillAhead(r, s)'
  <2>1. UNCHANGED source /\ run'[r] = run[r]
    BY <1>0, <1>3, StartFields, StageFields, EndFields DEF Stage
  <2> QED BY <1>0, <2>1, OthersTrack
<1>4. CASE Start(r)
  <2>1. run'[r].pc = "load" /\ run'[r].seen = {}
    BY <1>0, <1>4, StartFields DEF NothingYet
  <2> QED BY <2>1 DEF StillAhead
<1>5. CASE Stage(r)
  BY <1>0, <1>5, StageTracks
<1>6. CASE Finish(r) \/ RunFails(r)
  BY <1>0, <1>6, EndFields DEF Vouches, Active
<1> QED BY <1>1, <1>2, <1>3, <1>4, <1>5, <1>6, StepKinds

LEMMA FreshStep ==
  ASSUME VouchInv, Stepped, [Next]_vars
  PROVE  FreshReflected'
<1> SUFFICES ASSUME NEW s \in fresh'
             PROVE  Reflected(s)'
  BY DEF FreshReflected
<1>0. TypeOK /\ fresh' \subseteq Sources
  BY DEF Stepped, IndexInv, TypeOK
<1>1. CASE UNCHANGED <<source, fresh>>
  <2>1. Reflected(s)
    BY <1>1 DEF VouchInv, FreshReflected
  <2> QED BY <1>0, <1>1, <2>1, ReflectedStays
<1>2. ASSUME NEW t \in Sources, Change(t)
      PROVE  Reflected(s)'
  <2>1. s # t /\ s \in fresh /\ source'[s] = source[s]
    BY <1>0, <1>2, ChangeFields
  <2>2. Reflected(s)
    BY <2>1 DEF VouchInv, FreshReflected
  <2> QED BY <1>0, <2>1, <2>2, ReflectedStays
<1>3. ASSUME NEW r \in Runs, Finish(r)
      PROVE  Reflected(s)'
  <2>1. CASE s \in fresh
    BY <1>0, <1>3, <2>1, ReflectedStays DEF VouchInv, FreshReflected, Finish
  <2>2. CASE s \notin fresh
    <3>1. run[r].pc = "finish" /\ ~run[r].troubled /\ s \in run[r].clean \cap Scope[r]
      BY <1>3, <2>2 DEF Finish
    <3>2. Vouches(r, s)
      BY <3>1 DEF Vouches, Active
    <3>3. ~StillAhead(r, s)
      BY <3>1 DEF StillAhead
    <3>4. Reflected(s)
      BY <1>0, <3>2, <3>3 DEF VouchInv, RunsKeepTrack
    <3> QED BY <1>0, <1>3, <3>4, ReflectedStays DEF Finish
  <2> QED BY <2>1, <2>2
<1> QED BY <1>1, <1>2, <1>3, SourceRests

LEMMA NothingStep ==
  ASSUME NothingYet, Stepped, [Next]_vars
  PROVE  NothingYet'
<1>0. TypeOK
  BY DEF Stepped, IndexInv
<1>1. ASSUME NEW s \in Sources, state'[s].status = "none"
      PROVE  ~doc'[s].searchable
  <2>1. state[s] \in State /\ Moves(s)
    BY <1>0 DEF TypeOK, Stepped, AllMove
  <2>2. CASE Rests(s)
    <3>1. state[s].status = "none" /\ doc'[s] = doc[s]
      BY <1>1, <2>1, <2>2 DEF Rests, State
    <3> QED BY <3>1 DEF NothingYet
  <2>3. CASE Taken(s)
    BY <1>1, <2>1, <2>3, WrittenClaim, CreatedRow DEF Taken
  <2>4. CASE Released(s)
    <3>1. PICK rev \in Nat : state'[s] \in {Failed(state[s], rev), Staled(state[s], rev)}
      BY <2>4 DEF Released
    <3> QED BY <1>1, <2>1, <3>1, WrittenRelease
  <2>5. CASE Withdrawn(s)
    BY <1>1, <2>1, <2>5, WrittenHide DEF Withdrawn, Hidden
  <2>6. CASE Renewed(s)
    <3>1. PICK r \in Runs : state'[s] = Activated(state[s], run[r].plans[s].rev, ProfileOf[r])
      BY <2>6 DEF Renewed
    <3>2. run[r].plans[s].rev \in Nat /\ ProfileOf[r] \in Profiles
      BY <1>0, RagIndexingAssumption DEF TypeOK, RunState, Plan
    <3>3. state'[s].status = "current"
      BY <2>1, <3>1, <3>2, WrittenActivation
    <3> QED BY <1>1, <3>3
  <2> QED BY <2>1, <2>2, <2>3, <2>4, <2>5, <2>6 DEF Moves
<1>2. ASSUME NEW r \in Runs, run'[r].pc = "new"
      PROVE  run'[r].seen = {}
  <2>1. CASE UNCHANGED run
    BY <1>2, <2>1 DEF NothingYet
  <2>2. ASSUME NEW t \in Sources, Change(t)
        PROVE  run'[r].seen = {}
    BY <1>0, <1>2, <2>2, ChangeFields DEF NothingYet
  <2>3. ASSUME NEW o \in Runs, Start(o) \/ Stage(o) \/ Finish(o) \/ RunFails(o)
        PROVE  run'[r].seen = {}
    <3>1. o # r /\ run'[r] = run[r]
      BY <1>0, <1>2, <2>3, StartFields, StageFields, EndFields DEF Stage
    <3> QED BY <1>2, <3>1 DEF NothingYet
  <2> QED BY <2>1, <2>2, <2>3, StepKinds
<1> QED BY <1>1, <1>2 DEF NothingYet

LEMMA VouchInit == Init => VouchInv
<1> SUFFICES ASSUME Init PROVE VouchInv
  OBVIOUS
<1>1. PICK p \in Profiles, indexed \in BOOLEAN :
        LET Built(s) == indexed /\ source[s].kind = "eligible"
        IN  /\ state = [s \in Sources |->
                 IF Built(s) THEN [NoState(p) EXCEPT !.status = "current", !.version = 3,
                                                     !.observed = 1]
                             ELSE NoState(p)]
            /\ doc = [s \in Sources |->
                 [rev |-> IF Built(s) THEN 1 ELSE 0, profile |-> p,
                  searchable |-> Built(s)]]
  BY DEF Init
<1>2. ASSUME NEW s \in Sources, state[s].status = "none"
      PROVE  ~doc[s].searchable
  <2>1. CASE indexed /\ source[s].kind = "eligible"
    <3>1. state[s] = [NoState(p) EXCEPT !.status = "current", !.version = 3, !.observed = 1]
      BY <1>1, <2>1
    <3> QED BY <1>2, <3>1 DEF NoState
  <2>2. CASE ~(indexed /\ source[s].kind = "eligible")
    <3>1. doc[s] = [rev |-> 0, profile |-> p, searchable |-> FALSE]
      BY <1>1, <2>2
    <3> QED BY <3>1
  <2> QED BY <2>1, <2>2
<1>3. \A r \in Runs : run[r].pc = "new" /\ run[r].seen = {}
  BY DEF Init, NewRun
<1>4. RunsKeepTrack
  BY <1>3 DEF RunsKeepTrack, Vouches, Active
<1>5. FreshReflected
  BY DEF Init, FreshReflected
<1> QED BY <1>2, <1>3, <1>4, <1>5, IndexInit DEF VouchInv, NothingYet

LEMMA VouchNext == VouchInv /\ [Next]_vars => VouchInv'
<1> SUFFICES ASSUME VouchInv, [Next]_vars PROVE VouchInv'
  OBVIOUS
<1>1. IndexInv /\ NothingYet /\ Stepped
  BY SteppedBy DEF VouchInv
<1> QED BY <1>1, TrackStep, FreshStep, NothingStep DEF VouchInv, Stepped

LEMMA VouchInvariant == Spec => []VouchInv
BY VouchInit, VouchNext, PTL DEF Spec

\* After a completed run no content older than the run's start is searchable, and
\* none of a source that is no longer allowed - in every interleaving of any number
\* of runs over any corpus, whatever claims, pages or answers the others still hold.
THEOREM NoStaleContentIsServed == Spec => []NoStaleContentServed
<1>1. VouchInv => NoStaleContentServed
  BY DEF VouchInv, FreshReflected, Reflected, NoStaleContentServed
<1> QED BY <1>1, VouchInvariant, PTL

-----------------------------------------------------------------------------
(* Pages.  A full page holds PageSize rows, so a source it does not hold is  *)
(* beyond its last row.                                                      *)

Rank(rest, s) == Cardinality({t \in rest : t < s})

LEMMA RankGrows ==
  ASSUME NEW rest \in SUBSET Nat, IsFiniteSet(rest), NEW s \in rest
  PROVE  /\ Rank(rest, s) \in 0 .. (Cardinality(rest) - 1)
         /\ \A t \in rest : t < s => Rank(rest, t) < Rank(rest, s)
<1> DEFINE below(t) == {u \in rest : u < t}
<1>1. IsFiniteSet(below(s)) /\ Cardinality(below(s)) \in Nat /\ Cardinality(rest) \in Nat
  BY FS_Subset, FS_CardinalityType
<1>2. Cardinality(below(s)) < Cardinality(rest)
  <2>1. below(s) \in SUBSET rest /\ below(s) # rest
    OBVIOUS
  <2>2. Cardinality(below(s)) <= Cardinality(rest) /\ Cardinality(rest) # Cardinality(below(s))
    BY <2>1, FS_Subset
  <2> QED BY <1>1, <2>2
<1>3. ASSUME NEW t \in rest, t < s
      PROVE  Rank(rest, t) < Rank(rest, s)
  <2>1. below(t) \in SUBSET below(s) /\ below(t) # below(s)
    <3>1. t \in below(s) /\ t \notin below(t)
      BY <1>3
    <3>2. \A u \in rest : u < t => u < s
      BY <1>3
    <3> QED BY <3>1, <3>2
  <2>2. /\ Cardinality(below(t)) <= Cardinality(below(s))
        /\ Cardinality(below(s)) # Cardinality(below(t))
    BY <1>1, <2>1, FS_Subset
  <2>3. IsFiniteSet(below(t)) /\ Cardinality(below(t)) \in Nat
    BY FS_Subset, FS_CardinalityType
  <2> QED BY <1>1, <2>2, <2>3 DEF Rank
<1> QED BY <1>1, <1>2, <1>3 DEF Rank

LEMMA FullPage ==
  ASSUME NEW rest \in SUBSET Nat, IsFiniteSet(rest), NEW size \in Nat \ {0},
         NEW s \in rest, Rank(rest, s) >= size
  PROVE  Cardinality({t \in rest : Rank(rest, t) < size}) = size
<1> DEFINE all == Cardinality(rest)
           f   == [t \in rest |-> Rank(rest, t)]
           cut == {t \in rest : Rank(rest, t) < size}
           g   == [t \in cut |-> Rank(rest, t)]
<1>1. all \in Nat /\ \A t \in rest : Rank(rest, t) \in 0 .. (all - 1)
  BY RankGrows, FS_CardinalityType
<1>2. \A t, u \in rest : Rank(rest, t) = Rank(rest, u) => t = u
  <2> SUFFICES ASSUME NEW t \in rest, NEW u \in rest, t # u
               PROVE  Rank(rest, t) # Rank(rest, u)
    OBVIOUS
  <2>1. t < u \/ u < t
    OBVIOUS
  <2>2. Rank(rest, t) \in Nat /\ Rank(rest, u) \in Nat
    BY <1>1
  <2> QED BY <2>1, <2>2, RankGrows
<1>3. all >= 1
  BY <1>1
<1>4. f \in Injection(rest, 0 .. (all - 1))
  BY <1>1, <1>2 DEF Injection, IsInjective
<1>5. IsFiniteSet(0 .. (all - 1)) /\ Cardinality(0 .. (all - 1)) = all
  BY <1>1, <1>3, FS_Interval
<1>6. f \in Surjection(rest, 0 .. (all - 1))
  BY <1>4, <1>5, FS_Injection
<1>7. \A n \in 0 .. (size - 1) : \E t \in cut : g[t] = n
  <2> SUFFICES ASSUME NEW n \in 0 .. (size - 1)
               PROVE  \E t \in cut : g[t] = n
    OBVIOUS
  <2>1. n \in 0 .. (all - 1)
    BY <1>1
  <2>2. PICK t \in rest : f[t] = n
    BY <1>6, <2>1 DEF Surjection
  <2>3. t \in cut
    BY <2>2
  <2> QED BY <2>2, <2>3
<1>8. g \in Bijection(cut, 0 .. (size - 1))
  <2>1. g \in Injection(cut, 0 .. (size - 1))
    <3>1. \A t \in cut : Rank(rest, t) \in 0 .. (size - 1)
      BY <1>1
    <3>2. g \in [cut -> 0 .. (size - 1)]
      BY <3>1
    <3>3. \A t, u \in cut : g[t] = g[u] => t = u
      BY <1>2
    <3> HIDE DEF g, cut
    <3> QED BY <3>2, <3>3 DEF Injection, IsInjective
  <2>2. g \in Surjection(cut, 0 .. (size - 1))
    BY <1>7, <2>1 DEF Injection, Surjection
  <2> QED BY <2>1, <2>2 DEF Bijection
<1>9. IsFiniteSet(cut)
  BY FS_Subset
<1>10. Cardinality(0 .. (size - 1)) = Cardinality(cut)
  BY <1>8, <1>9, FS_Bijection DEF ExistsBijection
<1> QED BY <1>10, FS_Interval

\* What the loader holds of a source, in terms of its rank beyond the cursor.
Rest(r) == {s \in Scope[r] : Loadable(r, s) /\ s > run[r].cursor}
Held(r, s) == s \in Rest(r) /\ (r \in Traversals => Rank(Rest(r), s) < PageSize)

LEMMA RestFinite ==
  ASSUME NEW r \in Runs
  PROVE  Rest(r) \in SUBSET Sources /\ Rest(r) \in SUBSET Nat /\ IsFiniteSet(Rest(r))
<1>1. Rest(r) \in SUBSET Sources
  BY RagIndexingAssumption DEF Rest
<1> QED BY <1>1, RagIndexingAssumption, FS_Subset

LEMMA PageHolds ==
  ASSUME NEW r \in Runs, NEW s \in Sources
  PROVE  s \in OnPage(Page(r)) <=> Held(r, s)
<1>1. \A t \in Rest(r) : source[t].kind # "absent"
  BY DEF Rest, Loadable
<1>2. Rest(r) \in SUBSET Sources
  BY RestFinite
<1> DEFINE cut  == {t \in Rest(r) : Cardinality({u \in Rest(r) : u < t}) < PageSize}
           held == IF r \in Traversals THEN cut ELSE Rest(r)
<1>3. Page(r) = [t \in Sources |-> IF t \in held THEN source[t] ELSE NoPage[t]]
  BY DEF Page, Rest
<1>4. s \in held <=> Held(r, s)
  BY DEF Held, Rank
<1>5. s \in held => s \in Rest(r)
  OBVIOUS
<1> HIDE DEF held
<1>6. NoPage[s].kind = "absent"
  BY DEF NoPage
<1> QED BY <1>1, <1>3, <1>4, <1>5, <1>6 DEF OnPage

\* A page that does not hold a source it could hold is full of earlier ones.
LEMMA LoadCovers ==
  ASSUME TypeOK, NEW r \in Runs, NEW s \in Rest(r), s \notin OnPage(Page(r)),
         NEW next \in NextCursor(r, OnPage(Page(r)))
  PROVE  next # 0 /\ next < s
<1> DEFINE keys == OnPage(Page(r))
<1>1. Rest(r) \in SUBSET Sources /\ Rest(r) \in SUBSET Nat /\ IsFiniteSet(Rest(r))
  BY RestFinite
<1>2. r \in Traversals /\ Rank(Rest(r), s) >= PageSize
  <2>1. ~Held(r, s)
    BY <1>1, PageHolds
  <2>2. Rank(Rest(r), s) \in Nat /\ PageSize \in Nat
    BY <1>1, RankGrows, RagIndexingAssumption
  <2> QED BY <2>1, <2>2 DEF Held
<1>3. keys = {t \in Rest(r) : Rank(Rest(r), t) < PageSize}
  <2>1. \A t \in Sources : t \in keys <=> t \in Rest(r) /\ Rank(Rest(r), t) < PageSize
    BY <1>2, PageHolds DEF Held
  <2>2. keys \subseteq Sources
    BY DEF OnPage
  <2> QED BY <1>1, <2>1, <2>2
<1>4. Cardinality(keys) = PageSize
  BY <1>1, <1>2, <1>3, FullPage, RagIndexingAssumption
<1>5. next \in Last(keys)
  BY <1>2, <1>4 DEF NextCursor
<1>6. next \in Rest(r) /\ Rank(Rest(r), next) < PageSize
  BY <1>3, <1>5 DEF Last
<1>7. next < s
  <2>1. ~(s < next) /\ s # next
    <3>1. Rank(Rest(r), s) \in Nat /\ Rank(Rest(r), next) \in Nat /\ PageSize \in Nat
      BY <1>1, <1>6, RankGrows, RagIndexingAssumption
    <3>2. s < next => Rank(Rest(r), s) < Rank(Rest(r), next)
      BY <1>1, <1>6, RankGrows
    <3> QED BY <1>2, <1>6, <3>1, <3>2
  <2> QED BY <1>1, <1>6, <2>1
<1>8. next # 0
  BY <1>1, <1>6, RagIndexingAssumption
<1> QED BY <1>7, <1>8

-----------------------------------------------------------------------------
(* Where no rows appear: authoritative rows are revised, made ineligible and *)
(* removed, but none is added or becomes eligible again.                     *)

NothingAppears ==
  \A c \in Changes : /\ c[1] = "absent" => c[2] = "absent"
                     /\ c[1] = "ineligible" => c[2] # "eligible"

\* What run r keeps in sight of an eligible source s: it is never held as
\* ineligible or decided to be hidden, a page that held it would hold it again, and
\* what lies before the cursor has been seen.
InSight(r, s) ==
  LET rn == run[r]
  IN  /\ rn.page[s].kind # "ineligible"
      /\ rn.pc \in {"commit", "sweep"} => rn.work[s].do # "hide"
      /\ rn.pc = "commit" /\ rn.work[s].do # "skip" => s \in OnPage(rn.page)
      /\ rn.pc \in {"read", "commit"} /\ s \in OnPage(rn.page) => Held(r, s)
      /\ rn.pc = "embed" /\ s \in Planned(rn.plans) => Held(r, s)
      /\ rn.pc = "settle" /\ s \in Planned(rn.plans) => s \in OnPage(rn.page)
      /\ s \in Scope[r] =>
           /\ rn.pc \in {"new", "load"} /\ s <= rn.cursor => s \in rn.seen
           /\ /\ rn.pc \in {"read", "commit", "embed", "settle"}
              /\ rn.next = 0 \/ s <= rn.next
              => s \in rn.seen
           /\ rn.pc \in {"missing", "sweep"} => s \in rn.seen

SightInv ==
  /\ NothingAppears
  /\ VouchInv
  /\ \A s \in Sources : source[s].kind = "eligible" => \A r \in Runs : InSight(r, s)

LEMMA HeldSame ==
  ASSUME UNCHANGED source, NEW r \in Runs, NEW s \in Sources,
         run'[r].cursor = run[r].cursor, Held(r, s)
  PROVE  Held(r, s)'
<1>1. Rest(r)' = Rest(r)
  BY DEF Rest, Loadable
<1> QED BY <1>1 DEF Held, Rank

\* A row that leaves or is revised makes room for the others.
LEMMA HeldOnChange ==
  ASSUME TypeOK, TypeOK', NothingAppears, NEW t \in Sources, Change(t),
         NEW r \in Runs, NEW s \in Sources, source'[s].kind = "eligible", Held(r, s)
  PROVE  Held(r, s)'
<1>1. run'[r].cursor = run[r].cursor /\ \A u \in Sources : u # t => source'[u] = source[u]
  BY ChangeFields
<1>2. /\ source[t].kind \in Kinds /\ source'[t].kind \in Kinds
      /\ <<source[t].kind, source'[t].kind>> \in Changes
  BY DEF TypeOK, Item, Change
<1>3. /\ source[t].kind = "absent" => source'[t].kind = "absent"
      /\ source[t].kind = "ineligible" => source'[t].kind # "eligible"
  <2> DEFINE c == <<source[t].kind, source'[t].kind>>
  <2>1. c \in Changes /\ c[1] = source[t].kind /\ c[2] = source'[t].kind
    BY <1>2
  <2> HIDE DEF c
  <2> QED BY <2>1 DEF NothingAppears
<1>4. \A u \in Sources : Loadable(r, u)' => Loadable(r, u)
  BY <1>1, <1>2, <1>3 DEF Loadable, Kinds
<1>5. Rest(r)' \in SUBSET Rest(r)
  BY <1>1, <1>4, RagIndexingAssumption DEF Rest
<1>6. s \in Rest(r)'
  BY <1>1 DEF Held, Rest, Loadable
<1>7. Rank(Rest(r)', s) <= Rank(Rest(r), s)
  <2> DEFINE below == {u \in Rest(r) : u < s}
             left  == {u \in Rest(r)' : u < s}
  <2>1. IsFiniteSet(below) /\ left \in SUBSET below
    BY <1>5, RestFinite, FS_Subset
  <2> QED BY <2>1, FS_Subset DEF Rank
<1>8. Rank(Rest(r), s) \in Nat /\ Rank(Rest(r)', s) \in Nat /\ PageSize \in Nat
  <2>1. Rest(r) \in SUBSET Nat /\ IsFiniteSet(Rest(r)) /\ s \in Rest(r)
    BY RestFinite DEF Held
  <2>2. Rest(r)' \in SUBSET Nat /\ IsFiniteSet(Rest(r)')
    BY <1>5, <2>1, FS_Subset
  <2> QED BY <1>6, <2>1, <2>2, RankGrows, RagIndexingAssumption
<1>9. r \in Traversals => Rank(Rest(r)', s) < PageSize
  BY <1>7, <1>8 DEF Held
<1> QED BY <1>6, <1>9 DEF Held, Rank

\* The stages of one run keep an eligible source in sight.
LEMMA LoadSights ==
  ASSUME TypeOK, NEW r \in Runs, NEW s \in Sources, source[s].kind = "eligible",
         UNCHANGED source, InSight(r, s), Load(r)
  PROVE  InSight(r, s)'
<1> DEFINE page == Page(r)
           seen == run[r].seen \cup OnPage(page)
<1>1. PICK next \in NextCursor(r, OnPage(page)) :
        Becomes(r, [run[r] EXCEPT !.pc = "read", !.page = page, !.next = next,
                                  !.seen = seen])
  BY DEF Load
<1>2. run[r] \in RunState /\ page[s] \in {source[s], NoPage[s]}
  BY PageRows DEF TypeOK
<1>3. s \in OnPage(page) <=> Held(r, s)
  BY PageHolds
<1>4. s \in Scope[r] => s \in seen \/ (next # 0 /\ next < s)
  <2> SUFFICES ASSUME s \in Scope[r], s \notin seen
               PROVE  next # 0 /\ next < s
    OBVIOUS
  <2>1. ~(s <= run[r].cursor)
    BY DEF InSight, Load
  <2>2. s \in Nat /\ run[r].cursor \in Nat
    BY <1>2, RagIndexingAssumption DEF RunState
  <2>3. s \in Rest(r)
    BY <2>1, <2>2 DEF Rest, Loadable
  <2> QED BY <1>1, <2>3, LoadCovers
<1>5. next \in Nat
  BY <1>1, RagIndexingAssumption DEF NextCursor, Last, OnPage
<1> HIDE DEF page, seen
<1>6. /\ run'[r].pc = "read" /\ run'[r].page = page /\ run'[r].seen = seen
      /\ run'[r].next = next /\ run'[r].cursor = run[r].cursor
  BY <1>1, <1>2 DEF Becomes, RunState, TypeOK
<1>7. Held(r, s) => Held(r, s)'
  BY <1>6, HeldSame
<1>8. page[s].kind # "ineligible"
  BY <1>2 DEF NoPage
<1>9. s \in Scope[r] /\ (next = 0 \/ s <= next) => s \in seen
  <2> s \in Nat
    BY RagIndexingAssumption
  <2> QED BY <1>4, <1>5
<1> QED BY <1>3, <1>6, <1>7, <1>8, <1>9 DEF InSight

LEMMA ReadSights ==
  ASSUME TypeOK, NEW r \in Runs, NEW s \in Sources, source[s].kind = "eligible",
         UNCHANGED source, InSight(r, s), ReadStates(r)
  PROVE  InSight(r, s)'
<1> DEFINE work == [t \in Sources |-> Noted(Decide(r, t), t)]
<1>1. Becomes(r, [run[r] EXCEPT !.pc = "commit", !.work = work])
  BY DEF ReadStates
<1>2. run[r] \in RunState /\ run[r].page[s].kind \in Kinds
  BY DEF TypeOK, RunState, Item
<1>3. work[s].do = Decide(r, s)
  BY DEF Noted
<1>4. /\ Decide(r, s) # "hide"
      /\ Decide(r, s) # "skip" => s \in OnPage(run[r].page)
  <2>1. run[r].page[s].kind # "ineligible"
    BY DEF InSight
  <2>2. run[r].page[s].kind = "absent" => Decide(r, s) = "skip"
    BY DEF Decide
  <2> QED BY <1>2, <2>1, <2>2, DecideMeans DEF OnPage
<1> HIDE DEF work
<1>5. /\ run'[r].pc = "commit" /\ run'[r].work = work /\ run'[r].page = run[r].page
      /\ run'[r].seen = run[r].seen
      /\ run'[r].next = run[r].next /\ run'[r].cursor = run[r].cursor
  BY <1>1, <1>2 DEF Becomes, RunState, TypeOK
<1>6. Held(r, s) => Held(r, s)'
  BY <1>5, HeldSame
<1> QED BY <1>3, <1>4, <1>5, <1>6 DEF InSight, ReadStates

\* A page given up leaves the cursor where the next one starts.
LEMMA AfterPageSights ==
  ASSUME TypeOK, NEW r \in Runs, NEW s \in Sources, InSight(r, s), NEW rn \in RunState,
         rn.next = run[r].next, rn.seen = run[r].seen,
         run[r].pc \in {"commit", "embed", "settle"}, run'[r] = AfterPage(rn)
  PROVE  InSight(r, s)'
<1>1. /\ run'[r].pc = IF rn.next = 0 THEN "missing" ELSE "load"
      /\ run'[r].cursor = rn.next /\ run'[r].seen = rn.seen
      /\ run'[r].page = NoPage
  BY DEF AfterPage, RunState
<1>2. NoPage[s].kind = "absent"
  BY DEF NoPage
<1> QED BY <1>1, <1>2 DEF InSight

LEMMA CommitSights ==
  ASSUME TypeOK, NEW r \in Runs, NEW s \in Sources, source[s].kind = "eligible",
         UNCHANGED source, InSight(r, s), CommitPage(r)
  PROVE  InSight(r, s)'
<1>1. PICK plans \in [Sources -> Plan], troubled \in BOOLEAN, over \in BOOLEAN :
        LET decided == [run[r] EXCEPT !.pc = "embed", !.plans = plans,
                                      !.troubled = troubled]
        IN  /\ s \in Planned(plans) => run[r].work[s].do \in {"claim", "create"}
            /\ Becomes(r, IF over THEN AfterPage(decided)
                          ELSE [decided EXCEPT !.page = NoPage, !.work = NoWork])
  <2> DEFINE won  == {t \in Chosen(r, "claim") : Claimable(t, r, run[r].work[t].version)}
             mine == won \cup Chosen(r, "create")
             read == run[r].page
             plans == [t \in Sources |->
               IF t \in mine THEN [version |-> state'[t].version, rev |-> read[t].rev]
                             ELSE NoPlans[t]]
             troubled == \/ run[r].troubled
                         \/ Chosen(r, "rebuild") # {}
                         \/ won # Chosen(r, "claim")
             decided == [run[r] EXCEPT !.pc = "embed", !.plans = plans,
                                       !.troubled = troubled]
  <2>1. Becomes(r, IF mine = {} THEN AfterPage(decided)
                   ELSE [decided EXCEPT !.page = NoPage, !.work = NoWork])
    BY DEF CommitPage
  <2>2. \A t \in mine : t \in Sources /\ state'[t] \in State
    BY CommittedRows
  <2>3. \A t \in mine : run[r].work[t].do \in {"claim", "create"}
    BY DEF Chosen
  <2>4. troubled \in BOOLEAN /\ run[r] \in RunState
    BY DEF TypeOK, RunState
  <2> HIDE DEF mine, won, troubled
  <2>5. plans \in [Sources -> Plan] /\ (s \in Planned(plans) => s \in mine)
    BY <2>2, <2>4, NewRunTyped DEF RunState, Item, Plan, State, Planned, NoPlans
  <2> DEFINE over == mine = {}
  <2>6. Becomes(r, IF over THEN AfterPage(decided)
                   ELSE [decided EXCEPT !.page = NoPage, !.work = NoWork])
    BY <2>1
  <2>7. over \in BOOLEAN
    OBVIOUS
  <2> HIDE DEF plans, over
  <2> QED BY <2>3, <2>4, <2>5, <2>6, <2>7
<1> DEFINE decided == [run[r] EXCEPT !.pc = "embed", !.plans = plans,
                                     !.troubled = troubled]
           kept == [decided EXCEPT !.page = NoPage, !.work = NoWork]
<1>2. /\ decided \in RunState
      /\ decided.seen = run[r].seen /\ decided.next = run[r].next
      /\ kept.pc = "embed" /\ kept.plans = plans /\ kept.page = NoPage
      /\ kept.seen = run[r].seen /\ kept.next = run[r].next /\ kept.cursor = run[r].cursor
  <2>1. run[r] \in RunState
    BY DEF TypeOK
  <2>2. /\ decided \in RunState
        /\ decided.seen = run[r].seen /\ decided.next = run[r].next
        /\ decided.cursor = run[r].cursor
        /\ decided.pc = "embed" /\ decided.plans = plans
    BY <1>1, <2>1 DEF RunState, Stages
  <2> HIDE DEF decided
  <2> QED BY <2>2 DEF RunState
<1>3. run[r].pc = "commit"
  BY DEF CommitPage
<1>4. run'[r] \in {AfterPage(decided), kept}
  BY <1>1 DEF Becomes, TypeOK
<1> HIDE DEF decided, kept
<1>5. CASE run'[r] = AfterPage(decided)
  BY <1>2, <1>3, <1>5, AfterPageSights
<1>6. CASE run'[r] = kept
  <2>1. s \in Planned(plans) => Held(r, s)
    BY <1>1, <1>3 DEF InSight
  <2>2. Held(r, s) => Held(r, s)'
    BY <1>2, <1>6, HeldSame
  <2>3. NoPage[s].kind = "absent"
    BY DEF NoPage
  <2> QED BY <1>2, <1>3, <1>6, <2>1, <2>2, <2>3 DEF InSight
<1> QED BY <1>4, <1>5, <1>6

LEMMA EmbedSights ==
  ASSUME TypeOK, NEW r \in Runs, NEW s \in Sources, source[s].kind = "eligible",
         UNCHANGED source, InSight(r, s), FailPlans(r) \/ Reload(r)
  PROVE  InSight(r, s)'
<1>0. run[r] \in RunState /\ run[r].pc = "embed"
  BY DEF TypeOK, FailPlans, Reload
<1>1. CASE FailPlans(r)
  <2> DEFINE rn == [run[r] EXCEPT !.troubled = TRUE]
  <2>1. rn \in RunState /\ rn.next = run[r].next /\ rn.seen = run[r].seen
    BY <1>0 DEF RunState
  <2>2. run'[r] = AfterPage(rn)
    BY <1>1 DEF FailPlans, Becomes, TypeOK
  <2> HIDE DEF rn
  <2> QED BY <1>0, <2>1, <2>2, AfterPageSights
<1>2. CASE Reload(r)
  <2> DEFINE page == Page(r)
  <2>1. Becomes(r, [run[r] EXCEPT !.pc = "settle", !.page = page])
    BY <1>2 DEF Reload
  <2>2. page[s] \in {source[s], NoPage[s]} /\ (Held(r, s) => s \in OnPage(page))
    BY PageRows, PageHolds
  <2> HIDE DEF page
  <2>3. /\ run'[r].pc = "settle" /\ run'[r].page = page /\ run'[r].plans = run[r].plans
        /\ run'[r].seen = run[r].seen /\ run'[r].next = run[r].next
    BY <1>0, <2>1 DEF Becomes, RunState, TypeOK
  <2>4. page[s].kind # "ineligible"
    BY <2>2 DEF NoPage
  <2> QED BY <1>0, <2>2, <2>3, <2>4 DEF InSight
<1> QED BY <1>1, <1>2

LEMMA SettleSights ==
  ASSUME TypeOK, NEW r \in Runs, NEW t \in Planned(run[r].plans), NEW s \in Sources,
         InSight(r, s),
         Withdraw(r, t) \/ Postpone(r, t) \/ Activate(r, t) \/ ActivateFails(r, t)
  PROVE  InSight(r, s)'
<1>1. run[r] \in RunState /\ run[r].pc = "settle" /\ t \in Sources
  BY DEF TypeOK, Planned, Withdraw, Postpone, Activate, ActivateFails, Settling
<1>2. PICK trouble \in BOOLEAN : Settled(r, t, trouble)
  BY DEF Withdraw, Postpone, Activate, ActivateFails
<1> DEFINE rn == [run[r] EXCEPT !.plans[t] = NoPlans[t], !.troubled = @ \/ trouble]
<1>3. run'[r] = IF Planned(rn.plans) = {} THEN AfterPage(rn) ELSE rn
  BY <1>2 DEF Settled, Becomes, TypeOK
<1>4. NoPlans[t] \in Plan /\ NoPlans[t].version = 0
  BY <1>1, NewRunTyped DEF NoPlans
<1>5. /\ rn \in RunState /\ rn.next = run[r].next /\ rn.seen = run[r].seen
      /\ rn.pc = run[r].pc /\ rn.page = run[r].page
      /\ \A u \in Planned(rn.plans) : u \in Planned(run[r].plans)
  BY <1>1, <1>4 DEF RunState, Planned
<1> HIDE DEF rn
<1>6. CASE Planned(rn.plans) = {}
  BY <1>1, <1>3, <1>5, <1>6, AfterPageSights
<1>7. CASE Planned(rn.plans) # {}
  BY <1>1, <1>3, <1>5, <1>7 DEF InSight
<1> QED BY <1>6, <1>7

LEMMA SweepSights ==
  ASSUME TypeOK, NEW r \in Runs, NEW s \in Sources, InSight(r, s),
         ReadMissing(r) \/ CommitSweep(r)
  PROVE  InSight(r, s)'
<1>0. run[r] \in RunState
  BY DEF TypeOK
<1>1. CASE ReadMissing(r)
  <2> DEFINE known   == {t \in Scope[r] : state[t].status # "none"}
             missing == {t \in known \ run[r].seen : state[t].status # "deleted"}
             work == [t \in Sources |-> Noted(IF t \in missing THEN "hide" ELSE "skip", t)]
  <2>1. Becomes(r, [run[r] EXCEPT !.pc = "sweep", !.work = work]) /\ run[r].pc = "missing"
    BY <1>1 DEF ReadMissing
  <2>2. s \notin missing
    BY <2>1 DEF InSight
  <2>3. work[s].do = "skip"
    BY <2>2 DEF Noted
  <2> HIDE DEF work
  <2>4. /\ run'[r].pc = "sweep" /\ run'[r].work = work /\ run'[r].page = run[r].page
        /\ run'[r].seen = run[r].seen
    BY <1>0, <2>1 DEF Becomes, RunState, TypeOK
  <2> QED BY <2>1, <2>3, <2>4 DEF InSight
<1>2. CASE CommitSweep(r)
  <2> DEFINE hit == {t \in Chosen(r, "hide") : StillAsRead(t, run[r].work[t].version)}
             troubled == run[r].troubled \/ hit # Chosen(r, "hide")
  <2>1. Becomes(r, [run[r] EXCEPT !.pc = "finish", !.work = NoWork, !.troubled = troubled])
    BY <1>2 DEF CommitSweep
  <2> HIDE DEF troubled
  <2>2. run'[r].pc = "finish" /\ run'[r].page = run[r].page
    BY <1>0, <2>1 DEF Becomes, RunState, TypeOK
  <2> QED BY <2>2 DEF InSight
<1> QED BY <1>1, <1>2

LEMMA StageSights ==
  ASSUME TypeOK, NEW r \in Runs, NEW s \in Sources, source[s].kind = "eligible",
         InSight(r, s), Stage(r)
  PROVE  InSight(r, s)'
<1>1. UNCHANGED source
  BY StageFields DEF Stage
<1>2. ASSUME NEW t \in Planned(run[r].plans),
             Withdraw(r, t) \/ Postpone(r, t) \/ Activate(r, t) \/ ActivateFails(r, t)
      PROVE  InSight(r, s)'
  BY <1>2, SettleSights
<1> QED BY <1>1, <1>2, LoadSights, ReadSights, CommitSights, EmbedSights, SweepSights
        DEF Stage

LEMMA StartSights ==
  ASSUME TypeOK, NEW r \in Runs, NEW s \in Sources, InSight(r, s),
         Start(r) \/ Finish(r) \/ RunFails(r)
  PROVE  InSight(r, s)'
<1>1. CASE Start(r)
  BY <1>1, StartFields DEF InSight
<1>2. CASE Finish(r) \/ RunFails(r)
  <2>1. NoPage[s].kind = "absent"
    BY DEF NoPage
  <2> QED BY <1>2, <2>1, EndFields DEF InSight
<1> QED BY <1>1, <1>2

LEMMA ChangeSights ==
  ASSUME TypeOK, TypeOK', NothingAppears, NEW t \in Sources, Change(t),
         NEW r \in Runs, NEW s \in Sources, source'[s].kind = "eligible", InSight(r, s)
  PROVE  InSight(r, s)'
<1>1. Held(r, s) => Held(r, s)'
  BY HeldOnChange
<1> QED BY <1>1, ChangeFields DEF InSight

LEMMA StillEligible ==
  ASSUME TypeOK, TypeOK', NothingAppears, [Next]_vars, NEW s \in Sources,
         source'[s].kind = "eligible"
  PROVE  source[s].kind = "eligible"
<1>1. CASE UNCHANGED source
  BY <1>1
<1>2. ASSUME NEW t \in Sources, Change(t)
      PROVE  source[s].kind = "eligible"
  <2>1. CASE s # t
    BY <1>2, <2>1, ChangeFields
  <2>2. CASE s = t
    <3> DEFINE c == <<source[t].kind, source'[t].kind>>
    <3>1. c \in Changes /\ c[1] = source[t].kind /\ c[2] = source'[t].kind
      BY <1>2 DEF Change, TypeOK, Item
    <3>2. source[t].kind \in Kinds
      BY DEF TypeOK, Item
    <3> HIDE DEF c
    <3> QED BY <2>2, <3>1, <3>2 DEF NothingAppears, Kinds
  <2> QED BY <2>1, <2>2
<1>3. ASSUME NEW o \in Runs, Start(o) \/ Stage(o) \/ Finish(o) \/ RunFails(o)
      PROVE  UNCHANGED source
  BY <1>3, StartFields, StageFields, EndFields DEF Stage
<1> QED BY <1>1, <1>2, <1>3, StepKinds

LEMMA SightStep ==
  ASSUME SightInv, VouchInv', [Next]_vars, NEW s \in Sources, NEW r \in Runs,
         source'[s].kind = "eligible"
  PROVE  InSight(r, s)'
<1>0. TypeOK /\ TypeOK' /\ NothingAppears
  BY DEF SightInv, VouchInv, IndexInv
<1>1. source[s].kind = "eligible" /\ InSight(r, s)
  BY <1>0, StillEligible DEF SightInv
<1>2. CASE UNCHANGED <<source, run[r]>>
  <2>1. Held(r, s) => Held(r, s)'
    BY <1>2, HeldSame
  <2> QED BY <1>1, <1>2, <2>1 DEF InSight
<1>3. ASSUME NEW t \in Sources, Change(t)
      PROVE  InSight(r, s)'
  BY <1>0, <1>1, <1>3, ChangeSights
<1>4. ASSUME NEW o \in Runs, Start(o) \/ Stage(o) \/ Finish(o) \/ RunFails(o), o # r
      PROVE  UNCHANGED <<source, run[r]>>
  BY <1>0, <1>4, StartFields, StageFields, EndFields DEF Stage
<1>5. CASE Start(r) \/ Stage(r) \/ Finish(r) \/ RunFails(r)
  BY <1>0, <1>1, <1>5, StartSights, StageSights
<1> QED BY <1>2, <1>3, <1>4, <1>5, StepKinds

LEMMA SightInit == NothingAppears /\ Init => SightInv
<1> SUFFICES ASSUME NothingAppears, Init, NEW s \in Sources, NEW r \in Runs
             PROVE  InSight(r, s)
  BY VouchInit DEF SightInv
<1>1. run[r] = NewRun /\ s \in Nat \ {0}
  BY RagIndexingAssumption DEF Init
<1>2. run[r].pc = "new" /\ run[r].cursor = 0 /\ run[r].page[s].kind = "absent"
  BY <1>1 DEF NewRun, NoPage
<1>3. ~(s <= run[r].cursor)
  BY <1>1, <1>2
<1> QED BY <1>2, <1>3 DEF InSight

LEMMA SightNext == SightInv /\ [Next]_vars => SightInv'
<1> SUFFICES ASSUME SightInv, [Next]_vars PROVE SightInv'
  OBVIOUS
<1>1. VouchInv' /\ NothingAppears
  BY VouchNext DEF SightInv
<1> QED BY <1>1, SightStep DEF SightInv, NothingAppears

LEMMA SightInvariant == NothingAppears /\ Spec => []SightInv
BY SightInit, SightNext, PTL DEF Spec

\* Nothing any run has read, decided or planned hides an eligible source.
LEMMA EligibleNotWithheld ==
  ASSUME SightInv, NEW s \in Sources, source[s].kind = "eligible", NEW r \in Runs
  PROVE  ~Withholds(r, s)
<1>0. InSight(r, s)
  BY DEF SightInv
<1>1. ~((CommitPage(r) \/ CommitSweep(r)) /\ s \in Chosen(r, "hide"))
  BY <1>0 DEF InSight, CommitPage, CommitSweep, Chosen
<1>2. ~(s \in Planned(run[r].plans) /\ Withdraw(r, s))
  <2> SUFFICES ASSUME s \in Planned(run[r].plans), Withdraw(r, s) PROVE FALSE
    OBVIOUS
  <2>1. run[r].pc = "settle" /\ Gone(r, s)
    BY DEF Withdraw, Settling
  <2>2. run[r].page[s].kind \in Kinds
    BY DEF SightInv, VouchInv, IndexInv, TypeOK, RunState, Item
  <2> QED BY <1>0, <2>1, <2>2 DEF InSight, OnPage, Gone, Kinds
<1> QED BY <1>1, <1>2 DEF Withholds

\* Neither a page's decision, nor a withdrawal, nor the sweep at a run's end ever
\* hides a source that is still allowed, as long as no row appears that pushes
\* others off a page between its two loads.
THEOREM OnlyTheDisallowedIsHidden == NothingAppears => (Spec => HiddenOnlyIfNotAllowed)
<1>1. ASSUME SightInv, [Next]_vars, NEW s \in Sources,
             state[s].status \notin Hidden, state'[s].status \in Hidden
      PROVE  source[s].kind # "eligible"
  <2> SUFFICES ASSUME source[s].kind = "eligible" PROVE FALSE
    OBVIOUS
  <2>1. IndexInv /\ Stepped
    BY <1>1, SteppedBy DEF SightInv, VouchInv
  <2>2. Moves(s) /\ ~Withdrawn(s) /\ state[s] \in State
    BY <1>1, <2>1, EligibleNotWithheld DEF Stepped, AllMove, Withdrawn, IndexInv, TypeOK
  <2>3. CASE Rests(s)
    BY <1>1, <2>2, <2>3 DEF Rests, State
  <2>4. CASE Taken(s)
    BY <1>1, <2>2, <2>4, WrittenClaim, CreatedRow DEF Taken, Hidden
  <2>5. CASE Released(s)
    <3>1. PICK rev \in Nat : state'[s] \in {Failed(state[s], rev), Staled(state[s], rev)}
      BY <2>5 DEF Released
    <3> QED BY <1>1, <2>2, <3>1, WrittenRelease DEF Hidden
  <2>6. CASE Renewed(s)
    <3>1. PICK r \in Runs : state'[s] = Activated(state[s], run[r].plans[s].rev, ProfileOf[r])
      BY <2>6 DEF Renewed
    <3>2. run[r].plans[s].rev \in Nat /\ ProfileOf[r] \in Profiles
      BY <2>1, RagIndexingAssumption DEF IndexInv, TypeOK, RunState, Plan
    <3>3. state'[s].status = "current"
      BY <2>2, <3>1, <3>2, WrittenActivation
    <3> QED BY <1>1, <3>3 DEF Hidden
  <2> QED BY <2>2, <2>3, <2>4, <2>5, <2>6 DEF Moves
<1>2. SightInv /\ [Next]_vars =>
        [\A s \in Sources :
           state[s].status \notin Hidden /\ state'[s].status \in Hidden =>
             \/ source[s].kind # "eligible"
             \/ \E r \in Runs : Active(r) /\ s \notin run[r].clean]_vars
  BY <1>1
<1> QED BY <1>2, SightInvariant, PTL DEF Spec, HiddenOnlyIfNotAllowed

-----------------------------------------------------------------------------
(* What is still allowed stays searchable, and becomes so.                   *)

\* What an untroubled run has still to do before an eligible source is searchable.
Coming(r, s) ==
  LET rn == run[r]
  IN  \/ rn.pc \in {"load", "read", "commit", "embed", "settle"} /\ s \notin rn.seen
      \/ rn.pc = "read" /\ s \in OnPage(rn.page)
      \/ rn.pc = "commit" /\ rn.work[s].do # "skip"
      \/ rn.pc \in {"embed", "settle"} /\ s \in Planned(rn.plans)

Serves(r, s) ==
  Active(r) /\ ~run[r].troubled /\ s \in Scope[r] => doc[s].searchable \/ Coming(r, s)

ServedInv ==
  /\ SightInv
  /\ \A s \in Sources : source[s].kind = "eligible" =>
       /\ s \in fresh => doc[s].searchable
       /\ \A r \in Runs : Serves(r, s)

\* A searchable document of an eligible source stays searchable.
LEMMA SearchableStays ==
  ASSUME SightInv, [Next]_vars, NEW s \in Sources, source[s].kind = "eligible",
         doc[s].searchable
  PROVE  doc'[s].searchable
<1>1. IndexInv /\ Stepped
  BY SteppedBy DEF SightInv, VouchInv
<1>2. Moves(s) /\ ~Withdrawn(s)
  BY <1>1, EligibleNotWithheld DEF Stepped, AllMove, Withdrawn
<1>3. CASE Renewed(s)
  BY <1>3 DEF Renewed
<1> QED BY <1>2, <1>3 DEF Moves, Rests, Taken, Released

LEMMA LoadServes ==
  ASSUME TypeOK, NEW r \in Runs, NEW s \in Sources, s \in Scope[r], Load(r), Coming(r, s)
  PROVE  Coming(r, s)'
<1> DEFINE page == Page(r)
           seen == run[r].seen \cup OnPage(page)
<1>1. PICK next \in NextCursor(r, OnPage(page)) :
        Becomes(r, [run[r] EXCEPT !.pc = "read", !.page = page, !.next = next,
                                  !.seen = seen])
  BY DEF Load
<1>2. run[r] \in RunState
  BY DEF TypeOK
<1> HIDE DEF page, seen
<1>3. run'[r].pc = "read" /\ run'[r].page = page /\ run'[r].seen = seen
  BY <1>1, <1>2 DEF Becomes, RunState, TypeOK
<1>4. s \notin run[r].seen
  BY DEF Coming, Load
<1>5. CASE s \in OnPage(page)
  BY <1>3, <1>5 DEF Coming
<1>6. CASE s \notin OnPage(page)
  BY <1>3, <1>4, <1>6 DEF Coming, seen
<1> QED BY <1>5, <1>6

LEMMA ReadServes ==
  ASSUME TypeOK, NEW r \in Runs, NEW s \in Sources, UNCHANGED doc, ReadStates(r),
         InSight(r, s), Coming(r, s)
  PROVE  doc'[s].searchable \/ Coming(r, s)'
<1> DEFINE work == [t \in Sources |-> Noted(Decide(r, t), t)]
<1>1. Becomes(r, [run[r] EXCEPT !.pc = "commit", !.work = work])
  BY DEF ReadStates
<1>2. run[r] \in RunState /\ run[r].page[s].kind \in Kinds
  BY DEF TypeOK, RunState, Item
<1>3. work[s].do = Decide(r, s)
  BY DEF Noted
<1> HIDE DEF work
<1>4. run'[r].pc = "commit" /\ run'[r].work = work /\ run'[r].seen = run[r].seen
  BY <1>1, <1>2 DEF Becomes, RunState, TypeOK
<1>5. CASE s \notin run[r].seen
  BY <1>4, <1>5 DEF Coming
<1>6. CASE s \in OnPage(run[r].page)
  <2>1. run[r].page[s].kind = "eligible"
    BY <1>2, <1>6 DEF InSight, OnPage, Kinds
  <2>2. CASE Decide(r, s) = "skip"
    BY <2>1, <2>2, DecideMeans DEF UpToDate
  <2>3. CASE Decide(r, s) # "skip"
    BY <1>3, <1>4, <2>3 DEF Coming
  <2> QED BY <2>2, <2>3
<1> QED BY <1>5, <1>6 DEF Coming, ReadStates

LEMMA CommitServes ==
  ASSUME TypeOK, NEW r \in Runs, NEW s \in Sources, CommitPage(r), ~run'[r].troubled,
         InSight(r, s), s \in Scope[r], Coming(r, s)
  PROVE  Coming(r, s)'
<1> DEFINE won  == {t \in Chosen(r, "claim") : Claimable(t, r, run[r].work[t].version)}
           mine == won \cup Chosen(r, "create")
           read == run[r].page
           plans == [t \in Sources |->
             IF t \in mine THEN [version |-> state'[t].version, rev |-> read[t].rev]
                           ELSE NoPlans[t]]
           troubled == \/ run[r].troubled
                       \/ Chosen(r, "rebuild") # {}
                       \/ won # Chosen(r, "claim")
           decided == [run[r] EXCEPT !.pc = "embed", !.plans = plans, !.troubled = troubled]
           final == IF mine = {} THEN AfterPage(decided)
                    ELSE [decided EXCEPT !.page = NoPage, !.work = NoWork]
<1>1. Becomes(r, final)
  BY DEF CommitPage
<1>2. run[r] \in RunState /\ run[r].pc = "commit" /\ s \in Nat \ {0}
  BY RagIndexingAssumption DEF TypeOK, CommitPage
<1>3. \A t \in mine : t \in Sources /\ state'[t] \in State /\ state'[t].version # 0
  BY CommittedRows
<1>4. ~troubled => s \notin Chosen(r, "rebuild") /\ (s \in Chosen(r, "claim") => s \in mine)
  OBVIOUS
<1>5. \A do : s \in Chosen(r, do) <=> run[r].work[s].do = do
  BY DEF Chosen
<1>6. s \in Chosen(r, "create") => s \in mine
  OBVIOUS
<1>7. troubled \in BOOLEAN
  BY <1>2 DEF RunState
<1> HIDE DEF mine, won, troubled
<1>8. plans \in [Sources -> Plan] /\ (s \in mine => s \in Planned(plans))
  BY <1>2, <1>3, NewRunTyped DEF RunState, Item, Plan, State, Planned
<1> HIDE DEF plans
<1>9. /\ decided \in RunState
      /\ decided.plans = plans /\ decided.pc = "embed"
      /\ decided.seen = run[r].seen /\ decided.next = run[r].next
      /\ decided.troubled = troubled
  BY <1>2, <1>7, <1>8 DEF RunState, Stages
<1> HIDE DEF decided
<1>10. /\ final.seen = run[r].seen /\ final.troubled = troubled
       /\ \/ mine # {} /\ final.pc = "embed" /\ final.plans = plans
          \/ mine = {} /\ final.pc = IF run[r].next = 0 THEN "missing" ELSE "load"
  BY <1>9 DEF AfterPage, RunState
<1>11. run'[r] = final
  BY <1>1, <1>2 DEF Becomes, TypeOK
<1> HIDE DEF final
<1>12. CASE s \notin run[r].seen
  <2>1. ~(run[r].next = 0)
    BY <1>2, <1>12 DEF InSight
  <2> QED BY <1>10, <1>11, <1>12, <2>1 DEF Coming
<1>13. CASE run[r].work[s].do # "skip"
  <2>1. run[r].work[s].do \in {"skip", "hide", "create", "claim", "rebuild"}
    BY <1>2 DEF RunState, Decision
  <2>2. s \in mine
    BY <1>2, <1>4, <1>5, <1>6, <1>10, <1>11, <1>13, <2>1 DEF InSight
  <2> QED BY <1>8, <1>10, <1>11, <2>2 DEF Coming
<1> QED BY <1>2, <1>12, <1>13 DEF Coming

LEMMA EmbedServes ==
  ASSUME TypeOK, NEW r \in Runs, NEW s \in Sources, FailPlans(r) \/ Reload(r),
         ~run'[r].troubled, Coming(r, s)
  PROVE  Coming(r, s)'
<1>0. run[r] \in RunState
  BY DEF TypeOK
<1>1. CASE FailPlans(r)
  <2> DEFINE final == AfterPage([run[r] EXCEPT !.troubled = TRUE])
  <2>1. run'[r] = final
    BY <1>1 DEF FailPlans, Becomes, TypeOK
  <2>2. final.troubled
    BY <1>0 DEF AfterPage, RunState
  <2> QED BY <2>1, <2>2
<1>2. CASE Reload(r)
  <2> DEFINE page == Page(r)
  <2>1. Becomes(r, [run[r] EXCEPT !.pc = "settle", !.page = page])
    BY <1>2 DEF Reload
  <2> HIDE DEF page
  <2>2. run'[r].pc = "settle" /\ run'[r].plans = run[r].plans /\ run'[r].seen = run[r].seen
    BY <1>0, <2>1 DEF Becomes, RunState, TypeOK
  <2> QED BY <1>2, <2>2 DEF Coming, Reload
<1> QED BY <1>1, <1>2

LEMMA SettleServes ==
  ASSUME TypeOK, NEW r \in Runs, NEW t \in Planned(run[r].plans), NEW s \in Sources,
         ~run'[r].troubled, InSight(r, s), s \in Scope[r], Coming(r, s),
         Withdraw(r, t) \/ Postpone(r, t) \/ Activate(r, t) \/ ActivateFails(r, t)
  PROVE  doc'[s].searchable \/ Coming(r, s)'
<1>1. run[r] \in RunState /\ run[r].pc = "settle" /\ t \in Sources
  BY DEF TypeOK, Planned, Withdraw, Postpone, Activate, ActivateFails, Settling
<1>2. PICK trouble \in BOOLEAN :
        /\ Settled(r, t, trouble)
        /\ Postpone(r, t) \/ ActivateFails(r, t) => trouble
  <2>1. CASE Postpone(r, t) \/ ActivateFails(r, t)
    BY <2>1 DEF Postpone, ActivateFails
  <2>2. CASE Withdraw(r, t) /\ ~(Postpone(r, t) \/ ActivateFails(r, t))
    BY <2>2 DEF Withdraw
  <2>3. CASE Activate(r, t) /\ ~(Postpone(r, t) \/ ActivateFails(r, t))
    BY <2>3 DEF Activate
  <2> QED BY <2>1, <2>2, <2>3
<1> DEFINE rn == [run[r] EXCEPT !.plans[t] = NoPlans[t], !.troubled = @ \/ trouble]
<1>3. run'[r] = IF Planned(rn.plans) = {} THEN AfterPage(rn) ELSE rn
  BY <1>2 DEF Settled, Becomes, TypeOK
<1>4. NoPlans[t] \in Plan
  BY <1>1, NewRunTyped
<1>5. /\ rn \in RunState /\ rn.next = run[r].next /\ rn.seen = run[r].seen
      /\ rn.pc = "settle" /\ rn.troubled = (run[r].troubled \/ trouble)
      /\ \A u \in Planned(run[r].plans) : u # t => u \in Planned(rn.plans)
  BY <1>1, <1>4 DEF RunState, Planned
<1> HIDE DEF rn
<1>6. run'[r].troubled = rn.troubled
  BY <1>3, <1>5 DEF AfterPage, RunState
<1>7. ~trouble
  BY <1>5, <1>6
<1>8. CASE s \notin run[r].seen
  <2>1. ~(run[r].next = 0)
    BY <1>1, <1>8 DEF InSight
  <2>2. run'[r].seen = run[r].seen /\ run'[r].pc \in {"load", "settle"}
    BY <1>3, <1>5, <2>1 DEF AfterPage, RunState
  <2> QED BY <1>8, <2>2 DEF Coming
<1>9. CASE s \in Planned(run[r].plans) /\ s # t
  <2>1. s \in Planned(rn.plans)
    BY <1>5, <1>9
  <2>2. run'[r] = rn
    BY <1>3, <2>1
  <2> QED BY <1>5, <2>1, <2>2 DEF Coming
<1>10. CASE s \in Planned(run[r].plans) /\ s = t
  <2>1. ~Gone(r, s)
    BY <1>1, <1>10 DEF InSight, OnPage, Gone, RunState, Item, Kinds
  <2>2. Activate(r, s)
    BY <1>2, <1>7, <1>10, <2>1 DEF Withdraw
  <2> QED BY <2>2 DEF Activate, TypeOK
<1> QED BY <1>1, <1>8, <1>9, <1>10 DEF Coming

LEMMA StageServes ==
  ASSUME SightInv, [Next]_vars, NEW r \in Runs, NEW s \in Sources,
         source[s].kind = "eligible", Serves(r, s), Stage(r), ~run'[r].troubled,
         s \in Scope[r]
  PROVE  doc'[s].searchable \/ Coming(r, s)'
<1>0. TypeOK /\ InSight(r, s)
  BY DEF SightInv, VouchInv, IndexInv
<1>1. CASE doc[s].searchable
  BY <1>1, SearchableStays
<1>2. CASE ~doc[s].searchable
  <2>1. Active(r) /\ ~run[r].troubled
    BY <1>0, StageFields DEF Stage
  <2>2. Coming(r, s)
    BY <1>2, <2>1 DEF Serves
  <2>3. ASSUME NEW t \in Planned(run[r].plans),
               Withdraw(r, t) \/ Postpone(r, t) \/ Activate(r, t) \/ ActivateFails(r, t)
        PROVE  doc'[s].searchable \/ Coming(r, s)'
    BY <1>0, <2>2, <2>3, SettleServes
  <2>4. CASE ReadStates(r)
    BY <1>0, <2>2, <2>4, ReadServes DEF ReadStates
  <2>5. CASE ReadMissing(r) \/ CommitSweep(r)
    BY <2>2, <2>5 DEF Coming, ReadMissing, CommitSweep
  <2> QED BY <1>0, <2>2, <2>3, <2>4, <2>5, LoadServes, CommitServes, EmbedServes DEF Stage
<1> QED BY <1>1, <1>2

LEMMA ServeStep ==
  ASSUME ServedInv, [Next]_vars, NEW s \in Sources, source'[s].kind = "eligible",
         NEW r \in Runs
  PROVE  Serves(r, s)'
<1>0. /\ TypeOK /\ TypeOK' /\ SightInv /\ NothingYet
      /\ source[s].kind = "eligible" /\ Serves(r, s)
  <2>1. SightInv /\ SightInv' /\ NothingAppears
    BY SightNext DEF ServedInv, SightInv
  <2>2. TypeOK /\ TypeOK' /\ NothingYet
    BY <2>1 DEF SightInv, VouchInv, IndexInv
  <2>3. source[s].kind = "eligible"
    BY <2>1, <2>2, StillEligible
  <2> QED BY <2>1, <2>2, <2>3 DEF ServedInv
<1>1. doc[s].searchable => doc'[s].searchable
  BY <1>0, SearchableStays
<1>2. CASE /\ run'[r].pc = run[r].pc /\ run'[r].seen = run[r].seen
           /\ run'[r].page = run[r].page /\ run'[r].work = run[r].work
           /\ run'[r].plans = run[r].plans /\ run'[r].troubled = run[r].troubled
  <2>1. Coming(r, s) => Coming(r, s)'
    BY <1>2 DEF Coming
  <2> QED BY <1>0, <1>1, <1>2, <2>1 DEF Serves, Active
<1>3. ASSUME NEW t \in Sources, Change(t)
      PROVE  Serves(r, s)'
  BY <1>0, <1>2, <1>3, ChangeFields
<1>4. ASSUME NEW o \in Runs, Start(o) \/ Stage(o) \/ Finish(o) \/ RunFails(o), o # r
      PROVE  Serves(r, s)'
  <2>1. run'[r] = run[r]
    BY <1>0, <1>4, StartFields, StageFields, EndFields DEF Stage
  <2> QED BY <1>2, <2>1
<1>5. CASE Start(r)
  BY <1>0, <1>5, StartFields DEF NothingYet, Serves, Coming
<1>6. CASE Stage(r)
  BY <1>0, <1>6, StageServes DEF Serves
<1>7. CASE Finish(r) \/ RunFails(r)
  BY <1>0, <1>7, EndFields DEF Serves, Active
<1> QED BY <1>2, <1>3, <1>4, <1>5, <1>6, <1>7, StepKinds

LEMMA ServedStep ==
  ASSUME ServedInv, [Next]_vars, NEW s \in fresh', source'[s].kind = "eligible"
  PROVE  doc'[s].searchable
<1>0. /\ TypeOK /\ SightInv /\ s \in Sources /\ source[s].kind = "eligible"
      /\ s \in fresh => doc[s].searchable
  <2>1. SightInv /\ SightInv' /\ NothingAppears
    BY SightNext DEF ServedInv, SightInv
  <2>2. TypeOK /\ TypeOK'
    BY <2>1 DEF SightInv, VouchInv, IndexInv
  <2>3. s \in Sources
    BY <2>2 DEF TypeOK
  <2>4. source[s].kind = "eligible"
    BY <2>1, <2>2, <2>3, StillEligible
  <2> QED BY <2>1, <2>2, <2>3, <2>4 DEF ServedInv
<1>1. CASE s \in fresh
  BY <1>0, <1>1, SearchableStays
<1>2. CASE s \notin fresh
  <2>1. PICK r \in Runs : Finish(r)
    BY <1>0, <1>2, SourceRests, ChangeFields
  <2>2. run[r].pc = "finish" /\ ~run[r].troubled /\ s \in Scope[r]
    BY <1>2, <2>1 DEF Finish
  <2>3. Serves(r, s) /\ Active(r) /\ ~Coming(r, s)
    BY <1>0, <2>2 DEF ServedInv, Active, Coming
  <2> QED BY <1>0, <2>2, <2>3, SearchableStays DEF Serves
<1> QED BY <1>1, <1>2

LEMMA ServedInit == NothingAppears /\ Init => ServedInv
<1> SUFFICES ASSUME NothingAppears, Init PROVE ServedInv
  OBVIOUS
<1>1. fresh = {} /\ \A r \in Runs : run[r].pc = "new"
  BY DEF Init, NewRun
<1> QED BY <1>1, SightInit DEF ServedInv, Serves, Active

LEMMA ServedNext == ServedInv /\ [Next]_vars => ServedInv'
<1> SUFFICES ASSUME ServedInv, [Next]_vars PROVE ServedInv'
  OBVIOUS
<1>1. SightInv'
  BY SightNext DEF ServedInv
<1> QED BY <1>1, ServeStep, ServedStep DEF ServedInv

\* Where no rows appear, a completed run leaves every allowed source of its scope
\* searchable, and no other run takes one away again before it changes.
THEOREM ReconciledIsSearchable == NothingAppears => (Spec => []ReconciledSourceSearchable)
<1>1. ServedInv => ReconciledSourceSearchable
  <2>1. ServedInv => fresh \subseteq Sources
    BY DEF ServedInv, SightInv, VouchInv, IndexInv, TypeOK
  <2> QED BY <2>1 DEF ServedInv, ReconciledSourceSearchable
<1> QED BY <1>1, ServedInit, ServedNext, PTL DEF Spec

-----------------------------------------------------------------------------
(* The refinement of CorpusIndex.                                            *)

Shown == [s \in Sources |-> [rev |-> doc[s].rev, searchable |-> doc[s].searchable]]

LEMMA ShownTyped ==
  ASSUME TypeOK
  PROVE  /\ Shown \in [Sources -> [rev : Nat, searchable : BOOLEAN]]
         /\ \A s \in Sources : /\ Shown[s].rev = doc[s].rev
                               /\ Shown[s].searchable = doc[s].searchable
BY DEF Shown, TypeOK, Document

\* What a step does that shows.
LEMMA ShowingSteps ==
  ASSUME [Next]_vars
  PROVE  \/ UNCHANGED <<source, doc, fresh>>
         \/ \E s \in Sources : Change(s)
         \/ \E r \in Runs : Finish(r)
         \/ \E r \in Runs : \E s \in Planned(run[r].plans) : Activate(r, s)
         \/ UNCHANGED <<source, fresh>> /\ \E keys : doc' = HiddenDocs(keys)
<1>1. CASE UNCHANGED vars
  BY <1>1 DEF vars
<1>2. ASSUME NEW r \in Runs,
             \/ Start(r) \/ Load(r) \/ ReadStates(r) \/ FailPlans(r) \/ Reload(r)
             \/ ReadMissing(r) \/ RunFails(r)
      PROVE  UNCHANGED <<source, doc, fresh>>
  BY <1>2 DEF Start, Load, ReadStates, FailPlans, Reload, ReadMissing, RunFails
<1>3. ASSUME NEW r \in Runs, CommitPage(r) \/ CommitSweep(r)
      PROVE  UNCHANGED <<source, fresh>> /\ \E keys : doc' = HiddenDocs(keys)
  BY <1>3 DEF CommitPage, CommitSweep
<1>4. ASSUME NEW r \in Runs, NEW s \in Planned(run[r].plans), Withdraw(r, s)
      PROVE  \/ UNCHANGED <<source, doc, fresh>>
             \/ UNCHANGED <<source, fresh>> /\ \E keys : doc' = HiddenDocs(keys)
  BY <1>4 DEF Withdraw
<1>5. ASSUME NEW r \in Runs, NEW s \in Planned(run[r].plans),
             Postpone(r, s) \/ ActivateFails(r, s)
      PROVE  UNCHANGED <<source, doc, fresh>>
  BY <1>5 DEF Postpone, ActivateFails
<1>6. ASSUME NEW s \in Sources, LeaseExpires(s)
      PROVE  UNCHANGED <<source, doc, fresh>>
  BY <1>6 DEF LeaseExpires
<1> QED BY <1>1, <1>2, <1>3, <1>4, <1>5, <1>6 DEF Next

LEMMA ChangeEdits ==
  ASSUME TypeOK, NEW s \in Sources, Change(s)
  PROVE  Corpus!Edit(s)
<1>1. /\ source \in [Sources -> Item] /\ source[s].rev \in Nat
      /\ UNCHANGED Shown /\ fresh' = fresh \ {s}
  BY DEF Change, TypeOK, Item, Shown
<1>2. PICK kind \in Kinds :
        source' = [source EXCEPT ![s] = [kind |-> kind, rev |-> source[s].rev + 1]]
  BY DEF Change
<1>3. source'[s] = [kind |-> kind, rev |-> source[s].rev + 1]
  BY <1>1, <1>2
<1>4. source' = [source EXCEPT ![s] = source'[s]] /\ source'[s].rev > source[s].rev
  BY <1>1, <1>2, <1>3
<1> QED BY <1>1, <1>4 DEF Corpus!Edit, Shown

\* What is activated was on the page just loaded, so it is not older than what is
\* shown; of a source that is caught up no such page is stale.
LEMMA ActivationPublishes ==
  ASSUME VouchInv, NEW r \in Runs, NEW s \in Planned(run[r].plans), Activate(r, s)
  PROVE  Corpus!Publish(s)
<1> DEFINE rev == run[r].plans[s].rev
<1>1. /\ TypeOK /\ ReloadedIsNewer /\ NothingFromTheFuture /\ FreshReflected
      /\ s \in Sources /\ run[r].plans[s].version # 0
  BY DEF VouchInv, IndexInv, Planned
<1>2. /\ run[r].pc = "settle" /\ run[r].plans[s].version = state[s].version
      /\ run[r].page[s].kind = "eligible" /\ run[r].page[s].rev = rev
      /\ doc' = [doc EXCEPT ![s] = [rev |-> rev, profile |-> ProfileOf[r],
                                    searchable |-> TRUE]]
      /\ UNCHANGED <<source, fresh>>
  BY DEF Activate, Settling, MayActivate, HoldsClaim, Gone, Changed
<1>3. rev \in Nat /\ doc[s].rev \in Nat /\ source[s].rev \in Nat
  BY <1>1 DEF TypeOK, RunState, Plan, Document, Item
<1>4. doc[s].rev <= rev
  BY <1>1, <1>2 DEF ReloadedIsNewer
<1>5. rev <= source[s].rev
  BY <1>1 DEF NothingFromTheFuture
<1>6. s \in fresh => source[s].kind = "eligible" /\ rev = source[s].rev
  BY <1>1, <1>2 DEF FreshReflected, Reflected, StalePage
<1> HIDE DEF rev
<1>7. Shown' = [Shown EXCEPT ![s] = [rev |-> rev, searchable |-> TRUE]]
  BY <1>1, <1>2 DEF Shown, TypeOK, Document
<1>8. rev \in Shown[s].rev .. source[s].rev
  BY <1>1, <1>3, <1>4, <1>5, ShownTyped
<1> QED BY <1>2, <1>6, <1>7, <1>8 DEF Corpus!Publish, Shown

LEMMA HidingWithholds ==
  ASSUME TypeOK, UNCHANGED <<source, fresh>>, NEW keys, doc' = HiddenDocs(keys)
  PROVE  Corpus!Withhold(Sources \cap keys)
<1> DEFINE W == [s \in Sources |->
                  [Shown[s] EXCEPT !.searchable = @ /\ s \notin Sources \cap keys]]
<1>1. ASSUME NEW s \in Sources
      PROVE  Shown'[s] = [Shown[s] EXCEPT !.searchable = @ /\ s \notin Sources \cap keys]
  <2>1. Shown[s] = [rev |-> doc[s].rev, searchable |-> doc[s].searchable]
    BY DEF Shown
  <2>2. Shown'[s] = [rev |-> doc'[s].rev, searchable |-> doc'[s].searchable]
    BY DEF Shown
  <2>3. doc[s] \in Document /\ doc'[s] = [doc[s] EXCEPT !.searchable = @ /\ s \notin keys]
    BY DEF TypeOK, HiddenDocs
  <2>4. doc'[s].rev = doc[s].rev /\ doc'[s].searchable = (doc[s].searchable /\ s \notin keys)
    BY <2>3 DEF Document
  <2> QED BY <2>1, <2>2, <2>4
<1>2. Shown' = W
  BY <1>1 DEF Shown
<1> QED BY <1>2 DEF Corpus!Withhold, Shown

\* A run that ends without trouble vouches for sources that are shown as they are.
LEMMA FinishCatchesUp ==
  ASSUME VouchInv, VouchInv', NEW r \in Runs, Finish(r)
  PROVE  \/ UNCHANGED <<source, doc, fresh>>
         \/ \E keys \in SUBSET Sources : Corpus!CatchUp(keys)
<1> DEFINE keys == run[r].clean \cap Scope[r]
<1>1. UNCHANGED <<source, doc>> /\ keys \in SUBSET Sources
  BY DEF Finish, VouchInv, IndexInv, TypeOK, RunState
<1>2. CASE run[r].troubled
  BY <1>1, <1>2 DEF Finish
<1>3. CASE ~run[r].troubled
  <2>1. fresh' = fresh \cup keys
    BY <1>3 DEF Finish
  <2>2. ASSUME NEW s \in keys PROVE Corpus!Current(s)
    <3>1. Reflected(s)'
      BY <2>1 DEF VouchInv, FreshReflected
    <3>2. doc[s].searchable => source[s].kind = "eligible" /\ doc[s].rev = source[s].rev
      BY <1>1, <3>1 DEF Reflected
    <3> QED BY <1>1, <3>2 DEF Corpus!Current
  <2> HIDE DEF keys
  <2>3. Corpus!CatchUp(keys)
    BY <1>1, <2>1, <2>2 DEF Corpus!CatchUp
  <2> QED BY <1>1, <2>3
<1> QED BY <1>2, <1>3

LEMMA CorpusStep ==
  ASSUME VouchInv, [Next]_vars
  PROVE  [Corpus!IndexNext]_(Corpus!index)
<1>1. VouchInv' /\ TypeOK
  BY VouchNext DEF VouchInv, IndexInv
<1>2. CASE UNCHANGED <<source, doc, fresh>>
  BY <1>2 DEF Corpus!index
<1>3. ASSUME NEW s \in Sources, Change(s) PROVE Corpus!IndexNext
  BY <1>1, <1>3, ChangeEdits DEF Corpus!IndexNext
<1>4. ASSUME NEW r \in Runs, NEW s \in Planned(run[r].plans), Activate(r, s)
      PROVE  Corpus!IndexNext
  <2>1. s \in Sources
    BY DEF Planned
  <2> QED BY <1>4, <2>1, ActivationPublishes DEF Corpus!IndexNext
<1>5. ASSUME NEW keys, UNCHANGED <<source, fresh>>, doc' = HiddenDocs(keys)
      PROVE  Corpus!IndexNext
  <2>1. Corpus!Withhold(Sources \cap keys) /\ Sources \cap keys \in SUBSET Sources
    BY <1>1, <1>5, HidingWithholds
  <2> QED BY <2>1 DEF Corpus!IndexNext
<1>6. ASSUME NEW r \in Runs, Finish(r)
      PROVE  UNCHANGED <<source, doc, fresh>> \/ Corpus!IndexNext
  BY <1>1, <1>6, FinishCatchesUp DEF Corpus!IndexNext
<1> QED BY <1>2, <1>3, <1>4, <1>5, <1>6, ShowingSteps

\* The runs implement CorpusIndex, whatever runs there are and however they overlap,
\* fail or lose their claims: what is shown of a source is of a revision it has had, is
\* never replaced by an older one, and is the present one from the end of a completed
\* run that began after the last change of the source until the next.
THEOREM RunsKeepCorpusIndex == Spec => KeepsCorpusIndex
<1>1. Init => Corpus!IndexInit
  <2> SUFFICES ASSUME Init PROVE Corpus!IndexInit
    OBVIOUS
  <2>1. PICK indexed \in BOOLEAN, p \in Profiles :
          LET Built(s) == indexed /\ source[s].kind = "eligible"
          IN  doc = [s \in Sources |-> [rev |-> IF Built(s) THEN 1 ELSE 0, profile |-> p,
                                        searchable |-> Built(s)]]
    BY DEF Init
  <2>2. fresh = {} /\ \A s \in Sources : source[s].rev = 1
    BY DEF Init
  <2>3. ASSUME NEW s \in Sources PROVE Corpus!Current(s)
    BY <2>1, <2>2 DEF Corpus!Current
  <2> QED BY <2>2, <2>3 DEF Corpus!IndexInit
<1>2. VouchInv /\ [Next]_vars => [Corpus!IndexNext]_(Corpus!index)
  BY CorpusStep
<1> QED BY VouchInvariant, <1>1, <1>2, PTL DEF Spec, KeepsCorpusIndex, Corpus!IndexSpec
-----------------------------------------------------------------------------
(* Which run may replace the vectors of another profile.                     *)

MayPut(r, s) == r \in Rebuilds \/ state[s].profile = ProfileOf[r]

\* A document has the profile of its state; and whoever decided to claim a source, or
\* holds a plan for it, may put its profile there as long as the state is at the
\* version of the decision or of the plan: every write of a profile is a new version.
ProfilesAgree ==
  \A s \in Sources :
    doc[s].rev # 0 => state[s].status # "none" /\ doc[s].profile = state[s].profile
DecidedByRight ==
  \A r \in Runs : \A s \in Sources :
    run[r].work[s].do = "claim" =>
      /\ run[r].work[s].version <= state[s].version
      /\ run[r].work[s].version = state[s].version => MayPut(r, s)
PlannedByRight ==
  \A r \in Runs : \A s \in Planned(run[r].plans) :
    run[r].plans[s].version = state[s].version => MayPut(r, s)

ProfileInv == IndexInv /\ ProfilesAgree /\ DecidedByRight /\ PlannedByRight

\* The profile each write leaves.
LEMMA WrittenProfile ==
  ASSUME NEW st \in State
  PROVE  /\ \A r \in Runs : Claimed(st, r).profile = st.profile
         /\ \A rev \in Nat : /\ Failed(st, rev).profile = st.profile
                            /\ Staled(st, rev).profile = st.profile
         /\ \A kind \in Hidden : Unsearchable(st, kind).profile = st.profile
<1> DEFINE b == Bumped(st)
<1>1. b \in State /\ b.profile = st.profile
  BY BumpedRow DEF Bumped, State
<1>2. \A r \in Runs : Claimed(st, r).profile = st.profile
  BY DEF Claimed, State
<1>3. ASSUME NEW rev \in Nat
      PROVE  Failed(st, rev).profile = st.profile /\ Staled(st, rev).profile = st.profile
  <2>1. /\ Failed(st, rev) = [b EXCEPT !.status = "failed", !.observed = rev]
        /\ Staled(st, rev) = [b EXCEPT !.status = "stale", !.observed = rev]
    BY DEF Failed, Staled
  <2> HIDE DEF b
  <2> QED BY <1>1, <2>1 DEF State
<1>4. ASSUME NEW kind \in Hidden
      PROVE  Unsearchable(st, kind).profile = st.profile
  <2>1. Unsearchable(st, kind) = [b EXCEPT !.status = kind]
    BY DEF Unsearchable
  <2> HIDE DEF b
  <2> QED BY <1>1, <2>1 DEF State
<1> QED BY <1>2, <1>3, <1>4

LEMMA CreatedProfile ==
  ASSUME NEW r \in Runs
  PROVE  Created(r).profile = ProfileOf[r]
<1> DEFINE st == [NoState(ProfileOf[r]) EXCEPT !.version = 1]
<1>1. st \in State /\ st.profile = ProfileOf[r]
  BY RagIndexingAssumption DEF NoState, State, Statuses
<1>2. Created(r) = Claimed(st, r)
  BY DEF Created
<1> HIDE DEF st
<1> QED BY <1>1, <1>2, WrittenProfile

\* A state without a new version keeps its profile, and a document that changes its
\* profile is renewed by the holder of the claim.
LEMMA ProfileMoves ==
  ASSUME TypeOK, EmptyRows, ProfilesAgree, NEW s \in Sources, Moves(s)
  PROVE  /\ SameVersion(s) => state'[s].profile = state[s].profile
         /\ doc'[s].profile # doc[s].profile => Renewed(s)
         /\ doc'[s].rev # 0 =>
              state'[s].status # "none" /\ doc'[s].profile = state'[s].profile
<1>0. /\ state[s] \in State /\ doc[s] \in Document /\ state[s].version \in Nat
      /\ doc[s].rev # 0 => state[s].status # "none" /\ doc[s].profile = state[s].profile
  BY DEF TypeOK, State, ProfilesAgree
<1>1. CASE Rests(s)
  BY <1>0, <1>1 DEF Rests, State
<1>2. CASE Taken(s)
  <2>1. PICK r \in Runs : \/ state'[s] = Claimed(state[s], r)
                          \/ state[s].status = "none" /\ state'[s] = Created(r)
    BY <1>2 DEF Taken
  <2>2. doc'[s] = doc[s] /\ state'[s].status = "indexing"
    BY <1>0, <1>2, <2>1, WrittenClaim, CreatedRow DEF Taken
  <2>3. CASE state'[s] = Claimed(state[s], r)
    <3>1. state'[s].profile = state[s].profile
      BY <1>0, <2>3, WrittenProfile
    <3> QED BY <1>0, <2>2, <3>1
  <2>4. CASE state[s].status = "none" /\ state'[s] = Created(r)
    <3>1. ~SameVersion(s) /\ doc[s].rev = 0
      BY <1>0, <2>2, <2>4 DEF SameVersion
    <3> QED BY <2>2, <3>1
  <2> QED BY <2>1, <2>3, <2>4
<1>3. CASE Released(s)
  <2>1. PICK rev \in Nat : state'[s] \in {Failed(state[s], rev), Staled(state[s], rev)}
    BY <1>3 DEF Released
  <2>2. /\ Failed(state[s], rev).profile = state[s].profile
        /\ Staled(state[s], rev).profile = state[s].profile
    BY <1>0, WrittenProfile
  <2>3. Failed(state[s], rev).status = "failed" /\ Staled(state[s], rev).status = "stale"
    BY <1>0, WrittenRelease
  <2>4. state'[s].profile = state[s].profile /\ state'[s].status # "none"
    BY <2>1, <2>2, <2>3
  <2> QED BY <1>0, <1>3, <2>4 DEF Released
<1>4. CASE Withdrawn(s)
  <2>1. PICK kind \in Hidden : state'[s] = Unsearchable(state[s], kind)
    BY <1>4 DEF Withdrawn
  <2>2. state'[s].profile = state[s].profile /\ state'[s].status # "none"
    BY <1>0, <2>1, WrittenProfile, WrittenHide DEF Hidden
  <2>3. doc'[s].profile = doc[s].profile /\ doc'[s].rev = doc[s].rev
    BY <1>0, <1>4 DEF Withdrawn, Document
  <2> QED BY <1>0, <2>2, <2>3
<1>5. CASE Renewed(s)
  <2>1. PICK r \in Runs :
          /\ state'[s] = Activated(state[s], run[r].plans[s].rev, ProfileOf[r])
          /\ doc'[s].profile = ProfileOf[r]
    BY <1>5 DEF Renewed
  <2>2. run[r].plans[s].rev \in Nat /\ ProfileOf[r] \in Profiles
    BY RagIndexingAssumption DEF TypeOK, RunState, Plan
  <2>3. /\ state'[s].version = state[s].version + 1 /\ state'[s].status = "current"
        /\ state'[s].profile = ProfileOf[r]
    BY <1>0, <2>1, <2>2, WrittenActivation
  <2>4. ~SameVersion(s)
    BY <1>0, <2>3 DEF SameVersion
  <2> QED BY <1>5, <2>1, <2>3, <2>4
<1> QED BY <1>1, <1>2, <1>3, <1>4, <1>5 DEF Moves

\* What a run may come to decide and to plan about a source in one step.
Learns(r, s) ==
  LET old == run[r]
      new == run'[r]
  IN  /\ \/ new.work[s] = old.work[s]
         \/ new.work[s].do # "claim"
         \/ new.work[s].version = state[s].version /\ MayPut(r, s)
      /\ \/ new.plans[s] \in {old.plans[s], NoPlans[s]}
         \/ new.plans[s].version = state'[s].version /\ MayPut(r, s)'

AllLearn == \A r \in Runs : \A s \in Sources : Learns(r, s)

LEMMA OthersLearn ==
  ASSUME TypeOK, NEW r \in Runs, NEW rn, Becomes(r, rn),
         \A s \in Sources : run'[r] = rn => Learns(r, s)
  PROVE  AllLearn
<1>1. run'[r] = rn /\ \A o \in Runs : o # r => run'[o] = run[o]
  BY DEF Becomes, TypeOK
<1> QED BY <1>1 DEF AllLearn, Learns

\* A run that decides nothing and plans nothing new.
LEMMA QuietLearns ==
  ASSUME TypeOK, NEW r \in Runs, NEW rn, Becomes(r, rn),
         rn.work \in {run[r].work, NoWork}, rn.plans \in {run[r].plans, NoPlans}
  PROVE  AllLearn
<1>1. \A s \in Sources : NoWork[s].do # "claim"
  BY DEF NoWork
<1>2. \A s \in Sources : run'[r] = rn => Learns(r, s)
  BY <1>1 DEF Learns
<1> QED BY <1>2, OthersLearn

LEMMA ReadLearns ==
  ASSUME TypeOK, NEW r \in Runs, ReadStates(r) \/ ReadMissing(r)
  PROVE  AllLearn
<1>0. run[r] \in RunState
  BY DEF TypeOK
<1>1. CASE ReadStates(r)
  <2> DEFINE work == [s \in Sources |-> Noted(Decide(r, s), s)]
             rn == [run[r] EXCEPT !.pc = "commit", !.work = work]
  <2>1. Becomes(r, rn)
    BY <1>1 DEF ReadStates
  <2>2. ASSUME NEW s \in Sources, work[s].do = "claim"
        PROVE  work[s].version = state[s].version /\ MayPut(r, s)
    <3>1. Decide(r, s) = "claim" /\ work[s].version = state[s].version
      BY <2>2 DEF Noted
    <3>2. ~NeedsRebuild(r, s)
      BY <3>1 DEF Decide
    <3> QED BY <3>1, <3>2 DEF NeedsRebuild, MayPut
  <2> HIDE DEF work
  <2>3. rn.work = work /\ rn.plans = run[r].plans
    BY <1>0 DEF RunState
  <2> HIDE DEF rn
  <2>4. \A s \in Sources : run'[r] = rn => Learns(r, s)
    BY <2>2, <2>3 DEF Learns
  <2> QED BY <2>1, <2>4, OthersLearn
<1>2. CASE ReadMissing(r)
  <2> DEFINE known   == {s \in Scope[r] : state[s].status # "none"}
             missing == {s \in known \ run[r].seen : state[s].status # "deleted"}
             work == [s \in Sources |-> Noted(IF s \in missing THEN "hide" ELSE "skip", s)]
             rn == [run[r] EXCEPT !.pc = "sweep", !.work = work]
  <2>1. Becomes(r, rn)
    BY <1>2 DEF ReadMissing
  <2>2. \A s \in Sources : work[s].do # "claim"
    BY DEF Noted
  <2> HIDE DEF work
  <2>3. rn.work = work /\ rn.plans = run[r].plans
    BY <1>0 DEF RunState
  <2> HIDE DEF rn
  <2>4. \A s \in Sources : run'[r] = rn => Learns(r, s)
    BY <2>2, <2>3 DEF Learns
  <2> QED BY <2>1, <2>4, OthersLearn
<1> QED BY <1>1, <1>2

LEMMA AfterPageWork ==
  ASSUME NEW rn \in RunState
  PROVE  AfterPage(rn).work = NoWork /\ AfterPage(rn).plans = NoPlans
BY DEF AfterPage, RunState

\* A page transaction plans only what the run may put: it claims at the version of its
\* decision, and a new state has the run's own profile.
LEMMA CommitLearns ==
  ASSUME TypeOK, DecidedByRight, NEW r \in Runs, CommitPage(r)
  PROVE  AllLearn
<1> DEFINE won  == {t \in Chosen(r, "claim") : Claimable(t, r, run[r].work[t].version)}
           mine == won \cup Chosen(r, "create")
           read == run[r].page
           After(t) ==
             CASE t \in won -> Claimed(state[t], r)
               [] t \in Chosen(r, "create") -> Created(r)
               [] t \in Chosen(r, "hide") -> Unsearchable(state[t], "ineligible")
               [] t \in Chosen(r, "rebuild") -> Staled(state[t], read[t].rev)
               [] OTHER -> state[t]
           plans == [t \in Sources |->
             IF t \in mine THEN [version |-> state'[t].version, rev |-> read[t].rev]
                           ELSE NoPlans[t]]
           troubled == \/ run[r].troubled
                       \/ Chosen(r, "rebuild") # {}
                       \/ won # Chosen(r, "claim")
           decided == [run[r] EXCEPT !.pc = "embed", !.plans = plans, !.troubled = troubled]
           final == IF mine = {} THEN AfterPage(decided)
                    ELSE [decided EXCEPT !.page = NoPage, !.work = NoWork]
<1>1. Becomes(r, final) /\ state' = [t \in Sources |-> After(t)]
  BY DEF CommitPage
<1>2. ASSUME NEW s \in mine PROVE MayPut(r, s)'
  <2>1. /\ s \in Sources /\ state[s] \in State /\ state'[s] = After(s)
        /\ s \in won => s \in Chosen(r, "claim")
        /\ \A do, other : s \in Chosen(r, do) /\ s \in Chosen(r, other) => do = other
    BY <1>1 DEF Chosen, TypeOK
  <2>2. CASE s \in won
    <3>1. /\ run[r].work[s].do = "claim" /\ run[r].work[s].version = state[s].version
          /\ state'[s] = Claimed(state[s], r)
      BY <2>1, <2>2 DEF Chosen, Claimable
    <3>2. MayPut(r, s)
      BY <2>1, <3>1 DEF DecidedByRight
    <3>3. state'[s].profile = state[s].profile
      BY <2>1, <3>1, WrittenProfile
    <3> QED BY <2>1, <3>2, <3>3 DEF MayPut
  <2>3. CASE s \notin won /\ s \in Chosen(r, "create")
    <3> HIDE DEF won, read
    <3>1. state'[s] = Created(r)
      BY <2>1, <2>3
    <3>2. state'[s].profile = ProfileOf[r]
      BY <3>1, CreatedProfile
    <3> QED BY <2>1, <3>2 DEF MayPut
  <2> QED BY <2>2, <2>3
<1>3. \A s \in mine : /\ s \in Sources /\ state'[s] \in State
                      /\ state'[s].status = "indexing" /\ state'[s].claim = r
  BY CommittedRows
<1>4. /\ plans \in [Sources -> Plan] /\ troubled \in BOOLEAN /\ run[r] \in RunState
      /\ \A s \in Sources :
           \/ plans[s] = NoPlans[s]
           \/ s \in mine /\ plans[s].version = state'[s].version /\ plans[s].rev = read[s].rev
  <2> HIDE DEF mine
  <2> QED BY <1>3, NewRunTyped DEF TypeOK, RunState, Item, Plan, State
<1> HIDE DEF plans, mine, won, troubled
<1>5. decided \in RunState /\ decided.plans = plans
  BY <1>4 DEF RunState, Stages
<1> HIDE DEF decided
<1>6. final.work = NoWork /\ final.plans \in {plans, NoPlans}
  BY <1>5, AfterPageWork DEF RunState
<1> HIDE DEF final
<1>7. \A s \in Sources : NoWork[s].do # "claim"
  BY DEF NoWork
<1>8. \A s \in Sources : run'[r] = final => Learns(r, s)
  BY <1>2, <1>4, <1>6, <1>7 DEF Learns
<1> QED BY <1>1, <1>8, OthersLearn

LEMMA SettledLearns ==
  ASSUME TypeOK, NEW r \in Runs, NEW t \in Sources, NEW trouble \in BOOLEAN,
         Settled(r, t, trouble)
  PROVE  AllLearn
<1> DEFINE rn == [run[r] EXCEPT !.plans[t] = NoPlans[t], !.troubled = @ \/ trouble]
           final == IF Planned(rn.plans) = {} THEN AfterPage(rn) ELSE rn
<1>1. run[r] \in RunState /\ NoPlans[t] \in Plan
  BY NewRunTyped DEF TypeOK
<1>2. /\ rn \in RunState /\ rn.work = run[r].work
      /\ \A s \in Sources : rn.plans[s] \in {run[r].plans[s], NoPlans[s]}
  BY <1>1 DEF RunState
<1>3. Becomes(r, final)
  BY DEF Settled
<1> HIDE DEF rn
<1>4. CASE Planned(rn.plans) = {}
  BY <1>2, <1>3, <1>4, AfterPageWork, QuietLearns
<1>5. CASE Planned(rn.plans) # {}
  <2>1. \A s \in Sources : run'[r] = rn => Learns(r, s)
    BY <1>2 DEF Learns
  <2> QED BY <1>3, <1>5, <2>1, OthersLearn
<1> QED BY <1>4, <1>5

LEMMA StepLearns ==
  ASSUME TypeOK, DecidedByRight, [Next]_vars
  PROVE  AllLearn
<1>0. \A r \in Runs : run[r] \in RunState
  BY DEF TypeOK
<1>1. CASE UNCHANGED <<source, run, fresh>>
  BY <1>1 DEF AllLearn, Learns
<1>2. ASSUME NEW t \in Sources, Change(t) PROVE AllLearn
  BY <1>2, ChangeFields DEF AllLearn, Learns
<1>3. ASSUME NEW r \in Runs, NEW rn \in RunState, Becomes(r, rn),
             rn.work \in {run[r].work, NoWork}, rn.plans \in {run[r].plans, NoPlans}
      PROVE  AllLearn
  BY <1>3, QuietLearns
<1>4. ASSUME NEW r \in Runs, Start(r) PROVE AllLearn
  <2> DEFINE rn == [run[r] EXCEPT !.pc = "load", !.clean = Sources]
  <2>1. rn \in RunState /\ rn.work = run[r].work /\ rn.plans = run[r].plans
    BY <1>0 DEF RunState, Stages
  <2>2. Becomes(r, rn)
    BY <1>4 DEF Start
  <2> HIDE DEF rn
  <2> QED BY <1>3, <2>1, <2>2
<1>5. ASSUME NEW r \in Runs, Load(r) PROVE AllLearn
  <2>1. PICK page, next, seen :
          Becomes(r, [run[r] EXCEPT !.pc = "read", !.page = page, !.next = next,
                                    !.seen = seen])
    BY <1>5 DEF Load
  <2> DEFINE rn == [run[r] EXCEPT !.pc = "read", !.page = page, !.next = next, !.seen = seen]
  <2>2. rn.work = run[r].work /\ rn.plans = run[r].plans
    BY <1>0 DEF RunState
  <2>3. Becomes(r, rn)
    BY <2>1
  <2> HIDE DEF rn
  <2> QED BY <2>2, <2>3, QuietLearns
<1>6. ASSUME NEW r \in Runs, Reload(r) PROVE AllLearn
  <2> DEFINE rn == [run[r] EXCEPT !.pc = "settle", !.page = Page(r)]
  <2>1. rn.work = run[r].work /\ rn.plans = run[r].plans
    BY <1>0 DEF RunState
  <2>2. Becomes(r, rn)
    BY <1>6 DEF Reload
  <2> HIDE DEF rn
  <2> QED BY <2>1, <2>2, QuietLearns
<1>7. ASSUME NEW r \in Runs, FailPlans(r) PROVE AllLearn
  <2> DEFINE rn == [run[r] EXCEPT !.troubled = TRUE]
  <2>1. rn \in RunState
    BY <1>0 DEF RunState
  <2>2. Becomes(r, AfterPage(rn))
    BY <1>7 DEF FailPlans
  <2> HIDE DEF rn
  <2> QED BY <2>1, <2>2, AfterPageWork, QuietLearns
<1>8. ASSUME NEW r \in Runs, CommitSweep(r) PROVE AllLearn
  <2>1. PICK troubled :
          Becomes(r, [run[r] EXCEPT !.pc = "finish", !.work = NoWork, !.troubled = troubled])
    BY <1>8 DEF CommitSweep
  <2> DEFINE rn == [run[r] EXCEPT !.pc = "finish", !.work = NoWork, !.troubled = troubled]
  <2>2. rn.work = NoWork /\ rn.plans = run[r].plans
    BY <1>0 DEF RunState
  <2>3. Becomes(r, rn)
    BY <2>1
  <2> HIDE DEF rn
  <2> QED BY <2>2, <2>3, QuietLearns
<1>9. ASSUME NEW r \in Runs, Finish(r) \/ RunFails(r) PROVE AllLearn
  <2>1. Ended.work = NoWork /\ Ended.plans = NoPlans
    BY DEF Ended, NewRun
  <2> QED BY <1>9, <2>1, QuietLearns DEF Finish, RunFails
<1>10. ASSUME NEW r \in Runs, NEW t \in Planned(run[r].plans),
              Withdraw(r, t) \/ Postpone(r, t) \/ Activate(r, t) \/ ActivateFails(r, t)
       PROVE  AllLearn
  <2>1. PICK trouble \in BOOLEAN : Settled(r, t, trouble)
    BY <1>10 DEF Withdraw, Postpone, Activate, ActivateFails
  <2> QED BY <2>1, SettledLearns DEF Planned
<1> QED BY <1>1, <1>2, <1>4, <1>5, <1>6, <1>7, <1>8, <1>9, <1>10, ReadLearns, CommitLearns,
           StepKinds DEF Stage

LEMMA ProfileInit == Init => ProfileInv
<1> SUFFICES ASSUME Init PROVE ProfileInv
  OBVIOUS
<1>1. PICK p \in Profiles, indexed \in BOOLEAN :
        LET Built(s) == indexed /\ source[s].kind = "eligible"
        IN  /\ state = [s \in Sources |->
                 IF Built(s) THEN [NoState(p) EXCEPT !.status = "current", !.version = 3,
                                                     !.observed = 1]
                             ELSE NoState(p)]
            /\ doc = [s \in Sources |->
                 [rev |-> IF Built(s) THEN 1 ELSE 0, profile |-> p,
                  searchable |-> Built(s)]]
  BY DEF Init
<1>2. ASSUME NEW s \in Sources, doc[s].rev # 0
      PROVE  state[s].status # "none" /\ doc[s].profile = state[s].profile
  <2>1. indexed /\ source[s].kind = "eligible"
    BY <1>1, <1>2
  <2>2. /\ state[s] = [NoState(p) EXCEPT !.status = "current", !.version = 3, !.observed = 1]
        /\ doc[s].profile = p
    BY <1>1, <2>1
  <2> QED BY <2>2 DEF NoState
<1>3. \A r \in Runs : run[r].work = NoWork /\ run[r].plans = NoPlans
  BY DEF Init, NewRun
<1>4. DecidedByRight /\ PlannedByRight
  BY <1>3 DEF DecidedByRight, PlannedByRight, NoWork, NoPlans, Planned
<1> QED BY IndexInit, <1>2, <1>4 DEF ProfileInv, ProfilesAgree

LEMMA ProfileNext == ProfileInv /\ [Next]_vars => ProfileInv'
<1> SUFFICES ASSUME ProfileInv, [Next]_vars PROVE ProfileInv'
  OBVIOUS
<1>1. /\ IndexInv /\ IndexInv' /\ TypeOK /\ TypeOK' /\ EmptyRows /\ PlansOrdered /\ AllMove
      /\ AllLearn /\ ProfilesAgree /\ DecidedByRight /\ PlannedByRight
  BY IndexNext, StepMoves, StepLearns DEF ProfileInv, IndexInv
<1>2. ProfilesAgree'
  BY <1>1, ProfileMoves DEF ProfilesAgree, AllMove
<1>3. ASSUME NEW s \in Sources
      PROVE  /\ state[s].version \in Nat /\ state'[s].version \in Nat
             /\ \/ /\ state'[s].version = state[s].version
                   /\ \A r : MayPut(r, s) => MayPut(r, s)'
                \/ state'[s].version > state[s].version
  <2>1. state[s].version \in Nat /\ state'[s].version \in Nat
    BY <1>1 DEF TypeOK, State
  <2>2. SameVersion(s) => state'[s].profile = state[s].profile
    BY <1>1, ProfileMoves DEF AllMove
  <2>3. SameVersion(s) \/ state'[s].version > state[s].version
    BY <1>1, VersionMoves DEF AllMove
  <2> QED BY <2>1, <2>2, <2>3 DEF SameVersion, MayPut
<1>4. DecidedByRight'
  <2> SUFFICES ASSUME NEW r \in Runs, NEW s \in Sources, run'[r].work[s].do = "claim"
               PROVE  /\ run'[r].work[s].version <= state'[s].version
                      /\ run'[r].work[s].version = state'[s].version => MayPut(r, s)'
    BY DEF DecidedByRight
  <2>1. run'[r].work[s].version \in Nat
    BY <1>1 DEF TypeOK, RunState, Decision
  <2>2. /\ run'[r].work[s].version <= state[s].version
        /\ run'[r].work[s].version = state[s].version => MayPut(r, s)
    BY <1>1, <1>3 DEF AllLearn, Learns, DecidedByRight
  <2> QED BY <1>3, <2>1, <2>2
<1>5. PlannedByRight'
  <2> SUFFICES ASSUME NEW r \in Runs, NEW s \in Sources, run'[r].plans[s].version # 0,
                      run'[r].plans[s].version = state'[s].version
               PROVE  MayPut(r, s)'
    BY DEF PlannedByRight, Planned
  <2>1. CASE run'[r].plans[s] = run[r].plans[s]
    <3>1. s \in Planned(run[r].plans) /\ run[r].plans[s].version \in Nat
      BY <1>1, <2>1 DEF Planned, TypeOK, RunState, Plan
    <3>2. run[r].plans[s].version <= state[s].version
      BY <1>1, <3>1 DEF PlansOrdered
    <3> QED BY <1>1, <1>3, <2>1, <3>1, <3>2 DEF PlannedByRight
  <2>2. CASE run'[r].plans[s] # run[r].plans[s]
    <3>1. NoPlans[s].version = 0
      BY DEF NoPlans
    <3> QED BY <1>1, <2>2, <3>1 DEF AllLearn, Learns
  <2> QED BY <2>1, <2>2
<1> QED BY <1>1, <1>2, <1>4, <1>5 DEF ProfileInv

\* Whatever runs with whatever profiles overlap, the vectors of one profile are replaced
\* by those of another only by a rebuilding run of that profile which holds the source.
THEOREM OnlyRebuildsReplace == Spec => ProfilesReplacedByRebuilds
<1>1. Spec => []ProfileInv
  BY ProfileInit, ProfileNext, PTL DEF Spec
<1>2. ProfileInv /\ [Next]_vars =>
        [\A s \in Sources :
           doc[s].rev # 0 /\ doc'[s].profile # doc[s].profile =>
             \E r \in Rebuilds : state[s].claim = r /\ ProfileOf[r] = doc'[s].profile]_vars
  <2> SUFFICES ASSUME ProfileInv, [Next]_vars, NEW s \in Sources, doc[s].rev # 0,
                      doc'[s].profile # doc[s].profile
               PROVE  \E r \in Rebuilds :
                        state[s].claim = r /\ ProfileOf[r] = doc'[s].profile
    OBVIOUS
  <2>1. /\ TypeOK /\ EmptyRows /\ PlansOrdered /\ ProfilesAgree /\ PlannedByRight /\ AllMove
    BY StepMoves DEF ProfileInv, IndexInv
  <2>2. Renewed(s)
    BY <2>1, ProfileMoves DEF AllMove
  <2>3. PICK r \in Runs :
          /\ run[r].plans[s].version # 0 /\ run[r].plans[s].version = state[s].version
          /\ doc'[s].profile = ProfileOf[r]
    BY <2>2 DEF Renewed
  <2>4. s \in Planned(run[r].plans)
    BY <2>3 DEF Planned
  <2>5. state[s].claim = r /\ MayPut(r, s)
    BY <2>1, <2>3, <2>4 DEF PlansOrdered, PlannedByRight
  <2>6. state[s].profile = doc[s].profile
    BY <2>1 DEF ProfilesAgree
  <2> QED BY <2>3, <2>5, <2>6 DEF MayPut
<1> QED BY <1>1, <1>2, PTL DEF Spec, ProfilesReplacedByRebuilds
=============================================================================
