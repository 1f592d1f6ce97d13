---------------------------- MODULE RagIndexing ----------------------------
(***************************************************************************)
(* RAG indexing runs of one registered source type, running concurrently   *)
(* with each other and with changes of the authoritative rows.  A run      *)
(* loads a page of sources, reads their index states, commits claims and   *)
(* invalidations, embeds, loads the page again and then activates,         *)
(* withdraws or postpones each claimed source in a transaction of its own; *)
(* at its end it hides the states whose source it never saw.  Every        *)
(* database read and every transaction is one action.                      *)
(***************************************************************************)
EXTENDS Naturals, FiniteSets

CONSTANTS
  Sources,      \* source keys, in cursor order
  Runs,         \* indexing runs
  Traversals,   \* runs over the whole corpus; the others are targeted
  Scope,        \* the keys a run is asked to reconcile
  Rebuilds,     \* full and targeted runs, which may replace a profile
  Profiles,     \* embedding profiles
  ProfileOf,    \* the profile a run is configured with
  PageSize,     \* the loader's batch limit
  ActiveOnly,   \* TRUE if traversals do not load ineligible rows
  Changes,      \* the changes of authoritative rows, as pairs of kinds
  MaxRev,       \* bound: changes of one authoritative row
  NoRun         \* no claim

Kinds == {"absent", "ineligible", "eligible"}

ASSUME RagIndexingAssumption ==
  /\ Sources \subseteq Nat \ {0}
  /\ IsFiniteSet(Sources)
  /\ NoRun \notin Runs
  /\ Traversals \subseteq Runs
  /\ Rebuilds \subseteq Runs
  /\ Scope \in [Runs -> SUBSET Sources]
  /\ \A r \in Traversals : Scope[r] = Sources
  /\ ProfileOf \in [Runs -> Profiles]
  /\ PageSize \in Nat \ {0}
  /\ ActiveOnly \in BOOLEAN
  /\ Changes \subseteq Kinds \X Kinds
  /\ MaxRev \in Nat

VARIABLES
  source,  \* authoritative rows: what the loader sees and its fingerprint
  state,   \* rag_source_states
  doc,     \* rag_documents with their chunks
  run,     \* what each indexing run has read and decided
  fresh    \* history: sources reconciled by a completed run since their change

vars == <<source, state, doc, run, fresh>>

Hidden   == {"deleted", "ineligible"}
Statuses == {"none", "indexing", "current", "stale", "failed"} \cup Hidden

Item     == [kind : Kinds, rev : Nat]
State    == [status : Statuses, version : Nat, claim : Runs \cup {NoRun},
             live : BOOLEAN, observed : Nat, profile : Profiles]
Document == [rev : Nat, profile : Profiles, searchable : BOOLEAN]
Decision == [do : {"skip", "hide", "create", "claim", "rebuild"}, version : Nat]
Plan     == [version : Nat, rev : Nat]

Stages   == {"new", "load", "read", "commit", "embed", "settle", "missing", "sweep",
             "finish", "ended"}

\* A row off the page is absent from it; no decision is "skip"; a plan has a version.
RunState == [pc : Stages, cursor : Nat, next : Nat, seen : SUBSET Sources,
             page : [Sources -> Item], work : [Sources -> Decision],
             plans : [Sources -> Plan], troubled : BOOLEAN, clean : SUBSET Sources]

TypeOK ==
  /\ source \in [Sources -> Item]
  /\ state \in [Sources -> State]
  /\ doc \in [Sources -> Document]
  /\ run \in [Runs -> RunState]
  /\ fresh \subseteq Sources

NoPage  == [s \in Sources |-> [kind |-> "absent", rev |-> 0]]
NoWork  == [s \in Sources |-> [do |-> "skip", version |-> 0]]
NoPlans == [s \in Sources |-> [version |-> 0, rev |-> 0]]
NewRun  == [pc |-> "new", cursor |-> 0, next |-> 0, seen |-> {}, page |-> NoPage,
            work |-> NoWork, plans |-> NoPlans, troubled |-> FALSE, clean |-> {}]

OnPage(page)   == {s \in Sources : page[s].kind # "absent"}
Chosen(r, do)  == {s \in Sources : run[r].work[s].do = do}
Planned(plans) == {s \in Sources : plans[s].version # 0}

Active(r) == run[r].pc \notin {"new", "ended"}

NoState(p) == [status |-> "none", version |-> 0, claim |-> NoRun, live |-> FALSE,
               observed |-> 0, profile |-> p]

\* Nothing is indexed yet, or an earlier run has indexed the eligible sources.
Init ==
  /\ source \in [Sources -> [kind : Kinds, rev : {1}]]
  /\ \E p \in Profiles, indexed \in BOOLEAN :
       LET Built(s) == indexed /\ source[s].kind = "eligible"
       IN  /\ state = [s \in Sources |->
                IF Built(s) THEN [NoState(p) EXCEPT !.status = "current", !.version = 3,
                                                    !.observed = 1]
                            ELSE NoState(p)]
           /\ doc = [s \in Sources |->
                [rev |-> IF Built(s) THEN 1 ELSE 0, profile |-> p, searchable |-> Built(s)]]
  /\ run = [r \in Runs |-> NewRun]
  /\ fresh = {}

-----------------------------------------------------------------------------
(* Transitions of one index state.  Each is an UPDATE with a version         *)
(* predicate that bumps the version; the predicates are beside the actions.  *)

Bumped(st) == [st EXCEPT !.version = @ + 1, !.claim = NoRun, !.live = FALSE]

Claimed(st, r)        == [st EXCEPT !.status = "indexing", !.version = @ + 1,
                                    !.claim = r, !.live = TRUE]
\* Mutation: the new state is committed before it is claimed.
CreatedUnclaimed(r) == [NoState(ProfileOf[r]) EXCEPT !.status = "pending", !.version = 1]
Created(r)            == Claimed([NoState(ProfileOf[r]) EXCEPT !.version = 1], r)
Activated(st, rev, p) == [Bumped(st) EXCEPT !.status = "current", !.observed = rev,
                                            !.profile = p]
Failed(st, rev)       == [Bumped(st) EXCEPT !.status = "failed", !.observed = rev]
Staled(st, rev)       == [Bumped(st) EXCEPT !.status = "stale", !.observed = rev]
\* Mutation: hiding a source does not count as a new version.
UnsearchableSameVersion(st, k) == [st EXCEPT !.status = k, !.claim = NoRun, !.live = FALSE]
Unsearchable(st, k)   == [Bumped(st) EXCEPT !.status = k]

\* Mutation: a claim does not compare the version its decision was taken at.
ClaimableAtAnyVersion(s, r, version) == state[s].claim \in {NoRun, r} \/ ~state[s].live

\* claim_source: nobody's, this run's, or a claim whose lease has expired.
Claimable(s, r, version) ==
  /\ state[s].version = version
  /\ state[s].claim \in {NoRun, r} \/ ~state[s].live

StillAsRead(s, version) == state[s].version = version
HoldsClaim(s, r, version) == state[s].version = version /\ state[s].claim = r

-----------------------------------------------------------------------------
(* One run.                                                                  *)

\* What a run remembers next.
Becomes(r, rn) == run' = [run EXCEPT ![r] = rn]

\* start_run and its commit.
Start(r) ==
  /\ run[r].pc = "new"
  /\ Becomes(r, [run[r] EXCEPT !.pc = "load", !.clean = Sources])
  /\ UNCHANGED <<source, state, doc, fresh>>

\* The rows a page of the loader holds: a traversal's page is cut at the batch
\* limit, a targeted page holds every requested row there is.
Loadable(r, s) ==
  \/ source[s].kind = "eligible"
  \/ source[s].kind = "ineligible" /\ ~(ActiveOnly /\ r \in Traversals)
Page(r) ==
  LET rest == {s \in Scope[r] : Loadable(r, s) /\ s > run[r].cursor}
      cut  == {s \in rest : Cardinality({t \in rest : t < s}) < PageSize}
      held == IF r \in Traversals THEN cut ELSE rest
  IN  [s \in Sources |-> IF s \in held THEN source[s] ELSE NoPage[s]]

\* The key of a full page's last row, and 0 if there is no further page.
Last(keys) == {k \in keys : \A j \in keys : j <= k}

\* Mutation: a full page is taken for the last one.
NextCursorLost(r, keys) ==
  IF r \in Traversals /\ Cardinality(keys) > PageSize THEN Last(keys) ELSE {0}
NextCursor(r, keys) ==
  IF r \in Traversals /\ Cardinality(keys) = PageSize THEN Last(keys) ELSE {0}

Load(r) ==
  /\ run[r].pc = "load"
  /\ LET page == Page(r)
     IN  \E next \in NextCursor(r, OnPage(page)) :
           Becomes(r, [run[r] EXCEPT !.pc = "read", !.page = page, !.next = next,
                                     !.seen = @ \cup OnPage(page)])
  /\ UNCHANGED <<source, state, doc, fresh>>

\* A decision with the version it was taken at.
Noted(do, s) == [do |-> do, version |-> IF do = "skip" THEN 0 ELSE state[s].version]

\* Mutation: the observed version is not compared.
UpToDateUnobserved(r, s) ==
  /\ state[s].status = "current"
  /\ state[s].profile = ProfileOf[r]
  /\ doc[s].searchable

\* compare_source_candidate and, before it, the check of eligibility.
UpToDate(r, s) ==
  /\ state[s].status = "current"
  /\ state[s].observed = run[r].page[s].rev
  /\ state[s].profile = ProfileOf[r]
  /\ doc[s].searchable
\* Mutation: any run replaces a profile.
ReplacedSilently(r, s) == FALSE
NeedsRebuild(r, s) == state[s].profile # ProfileOf[r] /\ r \notin Rebuilds
MustHide(s)        == state[s].status \notin {"none", "ineligible"} \/ doc[s].searchable
Decide(r, s) ==
  LET kind == run[r].page[s].kind
  IN  IF \/ kind = "absent"
         \/ kind = "ineligible" /\ ~MustHide(s)
         \/ kind = "eligible" /\ UpToDate(r, s)     THEN "skip"
      ELSE IF kind = "ineligible"                   THEN "hide"
      ELSE IF state[s].status = "none"              THEN "create"
      ELSE IF NeedsRebuild(r, s)                    THEN "rebuild" ELSE "claim"

ReadStates(r) ==
  /\ run[r].pc = "read"
  /\ Becomes(r, [run[r] EXCEPT !.pc = "commit",
                               !.work = [s \in Sources |-> Noted(Decide(r, s), s)]])
  /\ UNCHANGED <<source, state, doc, fresh>>

\* A create that finds the row there, an invalidation or a rebuild mark that finds
\* a newer version: the transaction rolls back and the run fails.
PageAborts(r) ==
  \/ \E s \in Chosen(r, "hide") \cup Chosen(r, "rebuild") :
       ~StillAsRead(s, run[r].work[s].version)
  \/ \E s \in Chosen(r, "create") : state[s].status # "none"

AfterPage(rn) ==
  [rn EXCEPT !.pc = IF rn.next = 0 THEN "missing" ELSE "load", !.cursor = rn.next,
             !.page = NoPage, !.work = NoWork, !.plans = NoPlans]

\* Mutation: only the state is invalidated.
HiddenNothing(keys) == doc
HiddenDocs(keys) == [s \in Sources |-> [doc[s] EXCEPT !.searchable = @ /\ s \notin keys]]

\* The page transaction: invalidations, rebuild marks, new states and claims.  A
\* claim another run holds is counted as a failed source.
CommitPage(r) ==
  /\ run[r].pc = "commit"
  /\ ~PageAborts(r)
  /\ LET won  == {s \in Chosen(r, "claim") : Claimable(s, r, run[r].work[s].version)}
         mine == won \cup Chosen(r, "create")
         read == run[r].page
         After(s) ==
           CASE s \in won -> Claimed(state[s], r)
             [] s \in Chosen(r, "create") -> Created(r)
             [] s \in Chosen(r, "hide") -> Unsearchable(state[s], "ineligible")
             [] s \in Chosen(r, "rebuild") -> Staled(state[s], read[s].rev)
             [] OTHER -> state[s]
         decided == [run[r] EXCEPT
           !.pc = "embed",
           !.plans = [s \in Sources |->
             IF s \in mine THEN [version |-> After(s).version, rev |-> read[s].rev]
                           ELSE NoPlans[s]],
           !.troubled = @ \/ Chosen(r, "rebuild") # {} \/ won # Chosen(r, "claim")]
     IN  /\ state' = [s \in Sources |-> After(s)]
         /\ doc' = HiddenDocs(Chosen(r, "hide"))
         /\ Becomes(r, IF mine = {} THEN AfterPage(decided)
                       ELSE [decided EXCEPT !.page = NoPage, !.work = NoWork])
  /\ UNCHANGED <<source, fresh>>

\* Embedding or the second load fails: every plan whose claim still holds is
\* marked failed.
FailPlans(r) ==
  /\ run[r].pc = "embed"
  /\ state' = [s \in Sources |->
       IF s \in Planned(run[r].plans) /\ HoldsClaim(s, r, run[r].plans[s].version)
         THEN Failed(state[s], run[r].plans[s].rev) ELSE state[s]]
  /\ Becomes(r, AfterPage([run[r] EXCEPT !.troubled = TRUE]))
  /\ UNCHANGED <<source, doc, fresh>>

\* The vectors are there: the page is loaded again from the same cursor.
Reload(r) ==
  /\ run[r].pc = "embed"
  /\ Becomes(r, [run[r] EXCEPT !.pc = "settle", !.page = Page(r)])
  /\ UNCHANGED <<source, state, doc, fresh>>

Settling(r, s) == run[r].pc = "settle" /\ \A t \in Planned(run[r].plans) : s <= t
Gone(r, s)     == run[r].page[s].kind # "eligible"
Changed(r, s)  == run[r].page[s].rev # run[r].plans[s].rev

\* The run goes on with its next plan, or with what follows the page.
Settled(r, s, trouble) ==
  LET rn == [run[r] EXCEPT !.plans[s] = NoPlans[s], !.troubled = @ \/ trouble]
  IN  Becomes(r, IF Planned(rn.plans) = {} THEN AfterPage(rn) ELSE rn)

\* A planned source the second load does not hold, or holds as ineligible.
Withdraw(r, s) ==
  LET holds == StillAsRead(s, run[r].plans[s].version)
      kind  == IF s \in OnPage(run[r].page) THEN "ineligible" ELSE "deleted"
  IN  /\ Settling(r, s)
      /\ Gone(r, s)
      /\ state' = IF holds THEN [state EXCEPT ![s] = Unsearchable(@, kind)] ELSE state
      /\ doc' = IF holds THEN HiddenDocs({s}) ELSE doc
      /\ Settled(r, s, ~holds)
      /\ UNCHANGED <<source, fresh>>

\* A planned source that changed while its text was embedded.
Postpone(r, s) ==
  /\ Settling(r, s)
  /\ ~Gone(r, s)
  /\ Changed(r, s)
  /\ state' = IF HoldsClaim(s, r, run[r].plans[s].version)
                THEN [state EXCEPT ![s] = Staled(@, run[r].page[s].rev)] ELSE state
  /\ Settled(r, s, TRUE)
  /\ UNCHANGED <<source, doc, fresh>>

\* Mutation: activation looks for the state, not for its own claim on it.
MayActivateAnyClaim(r, s) == state[s].status = "indexing"

\* mark_source_current's predicates.
MayActivate(r, s) ==
  /\ HoldsClaim(s, r, run[r].plans[s].version)
  /\ state[s].status = "indexing"

\* The document, its chunks and the state in one transaction.
Activate(r, s) ==
  /\ Settling(r, s)
  /\ ~Gone(r, s)
  /\ ~Changed(r, s)
  /\ MayActivate(r, s)
  /\ doc' = [doc EXCEPT ![s] = [rev |-> run[r].plans[s].rev, profile |-> ProfileOf[r],
                                searchable |-> TRUE]]
  /\ state' = [state EXCEPT ![s] = Activated(@, run[r].plans[s].rev, ProfileOf[r])]
  /\ Settled(r, s, FALSE)
  /\ UNCHANGED <<source, fresh>>

\* The transaction fails or conflicts and rolls back; a claim this run still
\* holds is then marked failed, at whatever version it now has.
ActivateFails(r, s) ==
  /\ Settling(r, s)
  /\ ~Gone(r, s)
  /\ ~Changed(r, s)
  /\ state' = IF state[s].claim = r /\ state[s].status = "indexing"
                THEN [state EXCEPT ![s] = Failed(@, run[r].plans[s].rev)] ELSE state
  /\ Settled(r, s, TRUE)
  /\ UNCHANGED <<source, doc, fresh>>

\* The states whose source no page of this run held.
ReadMissing(r) ==
  LET known   == {s \in Scope[r] : state[s].status # "none"}
      missing == {s \in known \ run[r].seen : state[s].status # "deleted"}
  IN  /\ run[r].pc = "missing"
      /\ Becomes(r, [run[r] EXCEPT !.pc = "sweep",
                                   !.work = [s \in Sources |->
                                     Noted(IF s \in missing THEN "hide" ELSE "skip", s)]])
      /\ UNCHANGED <<source, state, doc, fresh>>

CommitSweep(r) ==
  LET hit == {s \in Chosen(r, "hide") : StillAsRead(s, run[r].work[s].version)}
  IN  /\ run[r].pc = "sweep"
      /\ state' = [s \in Sources |->
           IF s \in hit THEN Unsearchable(state[s], "deleted") ELSE state[s]]
      /\ doc' = HiddenDocs(hit)
      /\ Becomes(r, [run[r] EXCEPT !.pc = "finish", !.work = NoWork,
                                   !.troubled = @ \/ hit # Chosen(r, "hide")])
      /\ UNCHANGED <<source, fresh>>

\* The run is completed if no source failed, and partial otherwise.
Ended == [NewRun EXCEPT !.pc = "ended"]
Finish(r) ==
  /\ run[r].pc = "finish"
  /\ fresh' = IF run[r].troubled THEN fresh ELSE fresh \cup (run[r].clean \cap Scope[r])
  /\ Becomes(r, Ended)
  /\ UNCHANGED <<source, state, doc>>

\* An exception, or the end of the process: the open transaction is lost and the
\* claims stay until their lease expires.
RunFails(r) ==
  /\ Active(r)
  /\ Becomes(r, Ended)
  /\ UNCHANGED <<source, state, doc, fresh>>

-----------------------------------------------------------------------------
(* Beside the runs.                                                          *)

\* A domain transaction changes an authoritative row.
Change(s) ==
  /\ source[s].rev < MaxRev
  /\ \E kind \in Kinds :
       /\ <<source[s].kind, kind>> \in Changes
       /\ source' = [source EXCEPT ![s] = [kind |-> kind, rev |-> @.rev + 1]]
  /\ run' = [r \in Runs |-> [run[r] EXCEPT !.clean = @ \ {s}]]
  /\ fresh' = fresh \ {s}
  /\ UNCHANGED <<state, doc>>

\* The lease of a claim runs out; no run renews one.
LeaseExpires(s) ==
  /\ state[s].live
  /\ state' = [state EXCEPT ![s].live = FALSE]
  /\ UNCHANGED <<source, doc, run, fresh>>

Next ==
  \/ \E r \in Runs :
       \/ Start(r) \/ Load(r) \/ ReadStates(r) \/ CommitPage(r) \/ FailPlans(r)
       \/ Reload(r) \/ ReadMissing(r) \/ CommitSweep(r) \/ Finish(r) \/ RunFails(r)
       \/ \E s \in Planned(run[r].plans) :
            Withdraw(r, s) \/ Postpone(r, s) \/ Activate(r, s) \/ ActivateFails(r, s)
  \/ \E s \in Sources : Change(s) \/ LeaseExpires(s)

Spec == Init /\ [][Next]_vars

-----------------------------------------------------------------------------
(* Properties.                                                               *)

\* While a state still has the version a run's plan recorded, it is indexing and
\* claimed by that run: the version predicate of mark_source_unsearchable alone is
\* as good as the claim predicates of the other updates, and whoever hides, fails
\* or takes over a source leaves the earlier claimer's plan behind.
PlansFenced ==
  \A r \in Runs : \A s \in Planned(run[r].plans) :
    state[s].version = run[r].plans[s].version =>
      state[s].status = "indexing" /\ state[s].claim = r

\* The index agrees with itself: hidden sources have no searchable document, a
\* current source has one of the observed revision and profile, and exactly the
\* indexing states carry a claim, whatever order overlapping runs commit in.
IndexConsistent ==
  \A s \in Sources :
    /\ state[s].status \in Hidden => ~doc[s].searchable
    /\ state[s].status = "current" =>
         doc[s] = [rev |-> state[s].observed, profile |-> state[s].profile,
                   searchable |-> TRUE]
    /\ state[s].status = "indexing" <=> state[s].claim # NoRun

\* A slow run never replaces a document by one of an older revision of its source.
ContentMovesForward == [][\A s \in Sources : doc'[s].rev >= doc[s].rev]_vars

\* Once a run that started after the last change of a source has completed, no
\* older content of the source is searchable, and none at all if the source is no
\* longer allowed; runs that began before the change cannot bring it back.
NoStaleContentServed ==
  \A s \in fresh : doc[s].searchable =>
    source[s].kind = "eligible" /\ doc[s].rev = source[s].rev

\* Once such a run has completed, an eligible source is searchable.
ReconciledSourceSearchable ==
  \A s \in fresh : source[s].kind = "eligible" => doc[s].searchable

\* A source that is eligible and has not changed since any of the active runs
\* started is not hidden: `deleted` and `ineligible` say that the source is no
\* longer allowed in the corpus.
HiddenOnlyIfNotAllowed ==
  [][\A s \in Sources :
       state[s].status \notin Hidden /\ state'[s].status \in Hidden =>
         \/ source[s].kind # "eligible"
         \/ \E r \in Runs : Active(r) /\ s \notin run[r].clean]_vars

\* Vectors of one embedding profile give way to those of another only by a full
\* or targeted run of that profile which holds the source: a run that must not
\* replace a corpus does not decide so, and no delay between its decision, its
\* claim and its activation lets it undo the rebuild of another.
ProfilesReplacedByRebuilds ==
  [][\A s \in Sources :
       doc[s].rev # 0 /\ doc'[s].profile # doc[s].profile =>
         \E r \in Rebuilds : state[s].claim = r /\ ProfileOf[r] = doc'[s].profile]_vars
-----------------------------------------------------------------------------
(* The index keeps what CorpusIndex promises. *)

Corpus == INSTANCE CorpusIndex WITH
  row      <- source,
  shown    <- [s \in Sources |-> [rev |-> doc[s].rev, searchable |-> doc[s].searchable]],
  caughtUp <- fresh

\* Every step of the runs and of the domain edits one source, publishes a content
\* of one, withholds some, vouches for some that are shown as they are, or leaves
\* what is shown alone; what runs read, claim, decide and lose does not show.
KeepsCorpusIndex == Corpus!IndexSpec
=============================================================================
