--------------------------- MODULE BackgroundWork ---------------------------
(***************************************************************************)
(* The background-work pipeline: business transactions stage intents in    *)
(* the outbox, dispatchers recover expired leases, claim due rows and hand *)
(* their ids to the ARQ queue, worker slots claim a row, run its handler   *)
(* and persist the outcome.  Every database transaction is one action; an  *)
(* actor that reads a row in one transaction and writes it in a later one  *)
(* keeps what it read (the expected version above all) in between.         *)
(***************************************************************************)
EXTENDS Outbox

CONSTANTS
  Requests,     \* business transactions that stage work
  IntentOf,     \* the logical intent a request stages
  StageDelays,  \* ticks until a staged intent may run
  Dispatchers,  \* dispatcher processes (the operator's dispatch command too)
  Slots,        \* ARQ job slots of the worker processes
  ProcessOf,    \* the worker process a slot belongs to
  NoWork,       \* no row
  NoJob         \* no job in the queue

ASSUME BackgroundWorkAssumption ==
  /\ IntentOf \in [Requests -> Intents]
  /\ \A q, r \in Requests :
       IntentOf[q] = IntentOf[r] /\ q # r => IntentOf[q] \in Idempotent
  /\ StageDelays \subseteq Nat
  /\ Dispatchers \subseteq Owners
  /\ ProcessOf \in [Slots -> Owners \ Dispatchers]
  /\ NoWork \notin Works
  /\ NoJob \notin Nat

VARIABLES
  rows,     \* background_work_items
  request,  \* what each business transaction has read and done
  todo,     \* claimed rows a dispatcher has not enqueued yet
  sent,     \* the row a dispatcher enqueued and has not marked
  failed,   \* the row a dispatcher could not enqueue and has not marked
  jobs,     \* ARQ: ticks until the job of a row may start, NoJob if none
  slot,     \* what each worker slot is doing
  handled   \* intents a handler has successfully run for

vars == <<rows, request, todo, sent, failed, jobs, slot, handled>>

\* A row as an actor read it.
Snapshot == [work : Works \cup {NoWork}, version : Nat, payload : SUBSET Intents]
Unread   == [work |-> NoWork, version |-> 0, payload |-> {}]
Read(w)  == [work |-> w, version |-> rows[w].version, payload |-> rows[w].payload]

RequestState == [pc : {"new", "merge", "insert", "resolve", "done", "failed"},
                 seen : Snapshot]
Claim        == [work : Works, version : Nat]
SlotState    == [pc : {"idle", "read", "claimed", "running", "ended"},
                 seen : Snapshot,
                 outcome : {"none", "success", "retryable", "fatal", "cancelled"},
                 live : BOOLEAN]
IdleSlot     == [pc |-> "idle", seen |-> Unread, outcome |-> "none", live |-> FALSE]

TypeOK ==
  /\ rows \in [Works -> Row]
  /\ request \in [Requests -> RequestState]
  /\ todo \in [Dispatchers -> SUBSET Claim]
  /\ sent \in [Dispatchers -> SUBSET Claim]
  /\ failed \in [Dispatchers -> SUBSET Claim]
  /\ jobs \in [Works -> Nat \cup {NoJob}]
  /\ slot \in [Slots -> SlotState]
  /\ handled \in SUBSET Intents
  /\ \A w \in Works : LeasePair(rows[w])

Init ==
  /\ rows = [w \in Works |-> NoRow]
  /\ request = [r \in Requests |-> [pc |-> "new", seen |-> Unread]]
  /\ todo = [d \in Dispatchers |-> {}]
  /\ sent = [d \in Dispatchers |-> {}]
  /\ failed = [d \in Dispatchers |-> {}]
  /\ jobs = [w \in Works |-> NoJob]
  /\ slot = [k \in Slots |-> IdleSlot]
  /\ handled = {}

Update(w, x) == rows' = [rows EXCEPT ![w] = x]

-----------------------------------------------------------------------------
(* Staging, inside the transaction of an academy mutation.  A request that *)
(* ends in "failed" is a mutation that rolled back with its intent.        *)

stagingOnly == <<todo, sent, failed, jobs, slot, handled>>

Finish(r, pc) == request' = [request EXCEPT ![r] = [pc |-> pc, seen |-> Unread]]

Known(i)     == i \in Idempotent /\ \E w \in Works : rows[w].idem = i
Mergeable(i) == {w \in Works : /\ KeyOf[i] # NoKey
                               /\ rows[w].key = KeyOf[i]
                               /\ rows[w].state \in ActiveCoalescing}

\* A logical submission that was staged before resolves to its existing row.
ResolveDuplicate(r) ==
  /\ request[r].pc \in {"new", "resolve"}
  /\ Known(IntentOf[r])
  /\ Finish(r, "done")
  /\ UNCHANGED <<rows, stagingOnly>>

\* An active row of the same coalescing key will take the intent.
ReadCandidate(r) ==
  /\ request[r].pc \in {"new", "resolve"}
  /\ ~Known(IntentOf[r])
  /\ \E w \in Mergeable(IntentOf[r]) :
       request' = [request EXCEPT ![r] = [pc |-> "merge", seen |-> Read(w)]]
  /\ UNCHANGED <<rows, stagingOnly>>

\* No row can take it: running and terminal rows get a successor.
FindNothing(r) ==
  /\ request[r].pc \in {"new", "resolve"}
  /\ ~Known(IntentOf[r])
  /\ Mergeable(IntentOf[r]) = {}
  /\ Finish(r, IF request[r].pc = "new" THEN "insert" ELSE "failed")
  /\ UNCHANGED <<rows, stagingOnly>>

\* Mutation: the merge updates by id alone.
StillAsReadById(r) == rows[request[r].seen.work].state # "absent"

\* The version and state predicates of the merge's update.
StillAsRead(r) == rows[request[r].seen.work].version = request[r].seen.version

Merge(r) ==
  LET seen == request[r].seen
      w    == seen.work
  IN /\ request[r].pc = "merge"
     /\ StillAsRead(r)
     /\ \E delay \in StageDelays :
          Update(w, Coalesced(rows[w], seen.payload, IntentOf[r], delay))
     /\ Finish(r, "done")
     /\ UNCHANGED stagingOnly

\* The row changed after it was read: BackgroundWorkConflictError.
MergeConflicts(r) ==
  /\ request[r].pc = "merge"
  /\ ~StillAsRead(r)
  /\ Finish(r, "failed")
  /\ UNCHANGED <<rows, stagingOnly>>

Insert(r) ==
  /\ request[r].pc = "insert"
  /\ \E w \in Works, delay \in StageDelays :
       LET x == NewRow(IntentOf[r], delay) IN
       /\ rows[w].state = "absent"
       /\ ~Clashes(rows, w, x)
       /\ Update(w, x)
  /\ Finish(r, "done")
  /\ UNCHANGED stagingOnly

\* A concurrent request won the unique index; look the row up again.
InsertClashes(r) ==
  /\ request[r].pc = "insert"
  /\ \E w \in Works :
       /\ rows[w].state = "absent"
       /\ Clashes(rows, w, NewRow(IntentOf[r], 0))
  /\ Finish(r, "resolve")
  /\ UNCHANGED <<rows, stagingOnly>>

-----------------------------------------------------------------------------
(* The dispatcher: dispatch_once, one transaction per database step. *)

dispatchOnly == <<request, slot, handled>>

Idle(d) == todo[d] = {} /\ sent[d] = {} /\ failed[d] = {}

\* No recovered row takes an active slot that another row keeps.
RecoveryCommits == OneActivePerKey(AfterRecovery(rows))

\* The rows are recovered in an order the model does not keep: no row that is
\* recovered to an active state meets one that leaves that slot in this batch.
AnyOrderCommits ==
  \A v, w \in Works :
    v # w /\ Expired(rows[v]) => ~SameSlot(rows[w], AfterRecovery(rows)[v])

Due(table) == {w \in Works : /\ table[w].state \in DispatchEligible
                             /\ table[w].delay = 0}

\* Recovery and claim share a transaction: a unique violation undoes both.
ClaimBatch(d) ==
  LET table == AfterRecovery(rows)
      due   == Due(table)
  IN /\ Idle(d)
     /\ RecoveryCommits
     /\ due # {} \/ \E w \in Works : Expired(rows[w])
     /\ rows' = [w \in Works |-> IF w \in due
                                 THEN ClaimedForDispatch(table[w], d)
                                 ELSE table[w]]
     /\ todo' = [todo EXCEPT ![d] = {[work |-> w, version |-> rows'[w].version] : w \in due}]
     /\ UNCHANGED <<sent, failed, jobs, dispatchOnly>>

\* enqueue_job does nothing when the queue still holds the job of that row.
Enqueued(w) == jobs' = [jobs EXCEPT ![w] = IF @ = NoJob THEN 0 ELSE @]

Enqueue(d) ==
  /\ sent[d] = {} /\ failed[d] = {}
  /\ \E c \in todo[d] :
       /\ Enqueued(c.work)
       /\ todo' = [todo EXCEPT ![d] = @ \ {c}]
       /\ sent' = [sent EXCEPT ![d] = {c}]
  /\ UNCHANGED <<rows, failed, dispatchOnly>>

\* The broker call raised, before or after Redis accepted the job.
EnqueueFails(d) ==
  /\ sent[d] = {} /\ failed[d] = {}
  /\ \E c \in todo[d] :
       /\ Enqueued(c.work) \/ UNCHANGED jobs
       /\ todo' = [todo EXCEPT ![d] = @ \ {c}]
       /\ failed' = [failed EXCEPT ![d] = {c}]
  /\ UNCHANGED <<rows, sent, dispatchOnly>>

\* The version, state and owner predicates of a dispatcher's update.  Its live
\* lease predicate compares with the time of the claim and always holds.
HoldsClaim(d, c) ==
  /\ rows[c.work].version = c.version
  /\ rows[c.work].state = "dispatching"
  /\ rows[c.work].owner = d

\* mark_dispatched; on a conflict the row is left to whoever changed it.
MarkDispatched(d) ==
  /\ \E c \in sent[d] :
       IF HoldsClaim(d, c) THEN Update(c.work, MarkedDispatched(rows[c.work]))
                           ELSE UNCHANGED rows
  /\ sent' = [sent EXCEPT ![d] = {}]
  /\ UNCHANGED <<todo, failed, jobs, dispatchOnly>>

\* mark_dead or mark_dispatch_failure; part of the back-off may have passed.
MarkDispatchFailure(d) ==
  /\ \E c \in failed[d] :
       \/ /\ HoldsClaim(d, c)
          /\ rows[c.work].dispatches >= MaxAttempts
          /\ Update(c.work, Buried(rows[c.work]))
       \/ /\ HoldsClaim(d, c)
          /\ rows[c.work].dispatches < MaxAttempts
          /\ \E delay \in 0..RetryDelay : Update(c.work, Retried(rows[c.work], delay))
       \/ ~HoldsClaim(d, c) /\ UNCHANGED rows
  /\ failed' = [failed EXCEPT ![d] = {}]
  /\ UNCHANGED <<todo, sent, jobs, dispatchOnly>>

\* The process exits, or a database error ends the cycle, with claims in hand.
DispatcherExits(d) ==
  /\ ~Idle(d)
  /\ todo' = [todo EXCEPT ![d] = {}]
  /\ sent' = [sent EXCEPT ![d] = {}]
  /\ failed' = [failed EXCEPT ![d] = {}]
  /\ UNCHANGED <<rows, jobs, dispatchOnly>>

-----------------------------------------------------------------------------
(* A worker slot: BackgroundWorkerRuntime.execute for one queue reference.  *)
(* The queue delivers at least once, so two slots may run the same job.     *)

slotOnly == <<request, todo, sent, failed>>

Become(k, s) == slot' = [slot EXCEPT ![k] = s]
Consume(w)   == jobs' = [jobs EXCEPT ![w] = NoJob]

\* Mutation: dead work is executable too.
ExecutableOrDead(x) == x.state \in {"dispatched", "retrying", "dead"}

Executable(x) == x.state \in {"dispatched", "retrying"}

\* The job starts and the row is reloaded.
Reload(k) ==
  /\ slot[k].pc = "idle"
  /\ \E w \in Works :
       /\ jobs[w] = 0
       /\ IF Executable(rows[w])
          THEN /\ Become(k, [IdleSlot EXCEPT !.pc = "read", !.seen = Read(w)])
               /\ UNCHANGED jobs
          ELSE Consume(w) /\ UNCHANGED slot
  /\ UNCHANGED <<rows, handled, slotOnly>>

ClaimAllowed(k) ==
  LET x == rows[slot[k].seen.work] IN
  x.version = slot[k].seen.version /\ Executable(x) /\ x.delay = 0

\* claim_for_execution, then the registry: an unregistered type is marked dead
\* next, and a handler timeout beyond the claim lease asks for a renewal first.
ClaimForExecution(k) ==
  LET seen == slot[k].seen
      w    == seen.work
  IN /\ slot[k].pc = "read"
     /\ ClaimAllowed(k)
     /\ Update(w, ClaimedForExecution(rows[w], ProcessOf[k]))
     /\ Become(k, [IdleSlot EXCEPT
          !.pc      = IF rows[w].key \in Unregistered THEN "ended"
                      ELSE IF HandlerLease > ClaimLease THEN "claimed" ELSE "running",
          !.seen    = [seen EXCEPT !.version = @ + 1],
          !.outcome = IF rows[w].key \in Unregistered THEN "fatal" ELSE "none",
          !.live    = rows[w].key \in Unregistered])
     /\ UNCHANGED <<jobs, handled, slotOnly>>

\* The row changed since it was read, or is not due: the job is used up.
ClaimRefused(k) ==
  LET w == slot[k].seen.work IN
  /\ slot[k].pc = "read"
  /\ ~ClaimAllowed(k)
  /\ Become(k, IdleSlot)
  /\ Consume(w)
  /\ UNCHANGED <<rows, handled, slotOnly>>

\* Mutation: the update trusts the lease owner and leaves the version out.
HoldsRowByOwner(k) ==
  LET w == slot[k].seen.work IN
  rows[w].state = "running" /\ rows[w].owner = ProcessOf[k]

\* The version, state and owner predicates of a worker's update.
HoldsRow(k) ==
  LET w == slot[k].seen.work IN
  /\ rows[w].version = slot[k].seen.version
  /\ rows[w].state = "running"
  /\ rows[w].owner = ProcessOf[k]

RenewLease(k) ==
  LET w == slot[k].seen.work IN
  /\ slot[k].pc = "claimed"
  /\ IF HoldsRow(k) /\ rows[w].lease > 0
     THEN /\ Update(w, Renewed(rows[w]))
          /\ Become(k, [slot[k] EXCEPT !.pc = "running", !.seen.version = @ + 1])
          /\ UNCHANGED jobs
     ELSE /\ Become(k, IdleSlot)
          /\ Consume(w)
          /\ UNCHANGED rows
  /\ UNCHANGED <<handled, slotOnly>>

\* The handler returns, raises, times out or is cancelled by a shutdown.  The
\* time its outcome is judged by is taken now, before the update runs.
HandlerEnds(k) ==
  /\ slot[k].pc = "running"
  /\ \E outcome \in {"success", "retryable", "fatal", "cancelled"} :
       /\ Become(k, [slot[k] EXCEPT
            !.pc = "ended", !.outcome = outcome, !.live = rows[slot[k].seen.work].lease > 0])
       /\ handled' = IF outcome = "success" THEN handled \cup slot[k].seen.payload
                                            ELSE handled
  /\ UNCHANGED <<rows, jobs, slotOnly>>

Applies(k) == slot[k].pc = "ended" /\ HoldsRow(k) /\ slot[k].live

\* A cancelled job stays with the queue, any other is finished by its outcome.
JobAfter(k) ==
  IF slot[k].outcome = "cancelled" THEN UNCHANGED jobs ELSE Consume(slot[k].seen.work)

PersistSuccess(k) ==
  LET w == slot[k].seen.work IN
  /\ Applies(k)
  /\ slot[k].outcome = "success"
  /\ Update(w, Completed(rows[w]))
  /\ Become(k, IdleSlot)
  /\ Consume(w)
  /\ UNCHANGED <<handled, slotOnly>>

MayRetry(k) ==
  /\ slot[k].outcome \in {"retryable", "cancelled"}
  /\ rows[slot[k].seen.work].executions < MaxAttempts

\* mark_dead: the failure is final, or the attempts are used up.
PersistDead(k) ==
  LET w == slot[k].seen.work IN
  /\ Applies(k)
  /\ slot[k].outcome # "success"
  /\ ~MayRetry(k)
  /\ Update(w, Buried(rows[w]))
  /\ Become(k, IdleSlot)
  /\ JobAfter(k)
  /\ UNCHANGED <<handled, slotOnly>>

\* mark_retrying; a retryable failure also defers the job in the queue by the
\* same back-off, of which part may have passed for the row.
PersistRetry(k) ==
  LET w == slot[k].seen.work IN
  /\ Applies(k)
  /\ MayRetry(k)
  /\ \E backoff \in 0..RetryDelay :
       /\ \E delay \in 0..backoff :
            /\ ~Clashes(rows, w, Retried(rows[w], delay))
            /\ Update(w, Retried(rows[w], delay))
       /\ jobs' = IF slot[k].outcome = "retryable" /\ jobs[w] # NoJob
                  THEN [jobs EXCEPT ![w] = backoff] ELSE jobs
  /\ Become(k, IdleSlot)
  /\ UNCHANGED <<handled, slotOnly>>

\* A successor holds the active slot of the key: the unique index rejects
\* mark_retrying, the error leaves execute() and the queue drops the job.
RetryClashes(k) ==
  LET w == slot[k].seen.work IN
  /\ Applies(k)
  /\ MayRetry(k)
  /\ Clashes(rows, w, Retried(rows[w], 0))
  /\ Become(k, IdleSlot)
  /\ Consume(w)
  /\ UNCHANGED <<rows, handled, slotOnly>>

\* The row was recovered or the lease has run out: the outcome is discarded.  Any
\* error of a handler leaves the job in the queue if the row is retrying by now;
\* an unregistered type has no handler.
OutcomeDiscarded(k) ==
  LET w == slot[k].seen.work IN
  /\ slot[k].pc = "ended"
  /\ ~Applies(k)
  /\ Become(k, IdleSlot)
  /\ IF /\ slot[k].outcome \in {"retryable", "fatal"}
        /\ rows[w].key \notin Unregistered
        /\ rows[w].state = "retrying"
     THEN UNCHANGED jobs ELSE JobAfter(k)
  /\ UNCHANGED <<rows, handled, slotOnly>>

WorkerExits(k) ==
  /\ slot[k].pc # "idle"
  /\ Become(k, IdleSlot)
  /\ UNCHANGED <<rows, jobs, handled, slotOnly>>

-----------------------------------------------------------------------------
(* Operators, the queue's own losses, and time. *)

\* The recover command: recovery in a transaction of its own.
OperatorRecovers ==
  /\ RecoveryCommits
  /\ \E w \in Works : Expired(rows[w])
  /\ rows' = AfterRecovery(rows)
  /\ UNCHANGED <<request, stagingOnly>>

\* The retry command; it fails, changing nothing, when the slot is taken.
ManualRequeue ==
  /\ \E w \in Works : /\ Requeueable(rows[w])
                      /\ ~Clashes(rows, w, Requeued(rows[w]))
                      /\ Update(w, Requeued(rows[w]))
  /\ UNCHANGED <<request, stagingOnly>>

\* A queue restart, an expired job, or ARQ's own max_tries.
QueueLosesJob ==
  /\ \E w \in Works : jobs[w] # NoJob /\ Consume(w)
  /\ UNCHANGED <<rows, handled, slot, slotOnly>>

Less(n) == IF n > 0 THEN n - 1 ELSE 0

Tick ==
  /\ \E w \in Works : rows[w].lease > 0 \/ rows[w].delay > 0 \/ jobs[w] \notin {NoJob, 0}
  /\ rows' = [w \in Works |-> [rows[w] EXCEPT !.lease = Less(@), !.delay = Less(@)]]
  /\ jobs' = [w \in Works |-> IF jobs[w] = NoJob THEN NoJob ELSE Less(jobs[w])]
  /\ UNCHANGED <<handled, slot, slotOnly>>

-----------------------------------------------------------------------------
Staging(r) ==
  \/ ResolveDuplicate(r) \/ ReadCandidate(r) \/ FindNothing(r)
  \/ Merge(r) \/ MergeConflicts(r)
  \/ Insert(r) \/ InsertClashes(r)

HandOff(d) == Enqueue(d) \/ EnqueueFails(d) \/ MarkDispatched(d) \/ MarkDispatchFailure(d)

Execution(k) ==
  \/ Reload(k) \/ ClaimForExecution(k) \/ ClaimRefused(k) \/ RenewLease(k)
  \/ HandlerEnds(k)
  \/ PersistSuccess(k) \/ PersistDead(k) \/ PersistRetry(k)
  \/ RetryClashes(k) \/ OutcomeDiscarded(k)

Next ==
  \/ \E r \in Requests : Staging(r)
  \/ \E d \in Dispatchers : ClaimBatch(d) \/ HandOff(d) \/ DispatcherExits(d)
  \/ \E k \in Slots : Execution(k) \/ WorkerExits(k)
  \/ OperatorRecovers
  \/ ManualRequeue
  \/ QueueLosesJob
  \/ Tick

Spec == Init /\ [][Next]_vars

\* Time passes and the dispatcher service keeps polling and finishes its batch.
\* Nothing is assumed of the workers, the queue or the operators.
Fairness ==
  /\ WF_vars(Tick)
  /\ \A d \in Dispatchers : /\ WF_vars(ClaimBatch(d) /\ AnyOrderCommits)
                            /\ WF_vars(HandOff(d))

FairSpec == Spec /\ Fairness
-----------------------------------------------------------------------------
(* Properties. *)

Accepted(i)   == \E r \in Requests : request[r].pc = "done" /\ IntentOf[r] = i
Carriers(i)   == {w \in Works : i \in rows[w].payload}
Claimed(k)    == slot[k].pc \in {"claimed", "running", "ended"}
ClaimsOf(d)   == todo[d] \cup sent[d] \cup failed[d]

\* The version is a fencing token: a worker slot or a dispatcher whose version
\* is still the row's is the row's only holder, and the row is in the state it
\* claimed, leased to it.  Slots of one process share their lease owner, so the
\* owner predicate of outbox.py cannot tell them apart: the version must.
StaleClaimsFenced ==
  /\ \A k \in Slots : LET x == rows[slot[k].seen.work] IN
       Claimed(k) /\ slot[k].seen.version = x.version =>
         /\ x.state = "running"
         /\ x.owner = ProcessOf[k]
         /\ \A j \in Slots : Claimed(j) /\ slot[j].seen = slot[k].seen => j = k
  /\ \A d \in Dispatchers : \A c \in ClaimsOf(d) :
       c.version = rows[c.work].version =>
         rows[c.work].state = "dispatching" /\ rows[c.work].owner = d

\* A row is completed only when a handler has succeeded for every intent in its
\* payload, those merged after an earlier claim of the row included: a stale
\* worker's success never completes work it has not seen.
CompletedWorkWasHandled ==
  \A w \in Works : rows[w].state = "completed" => rows[w].payload \subseteq handled

\* An intent whose transaction committed is never lost: a handler has succeeded
\* for it, or a row that is not completed still carries it.
NoAcceptedIntentLost ==
  \A i \in Intents :
    Accepted(i) => \/ i \in handled
                   \/ \E w \in Carriers(i) : rows[w].state # "completed"

\* Retries are finite: no row is executed more than max_attempts times between
\* two manual requeues, and however dispatch failures, lost jobs, expired leases
\* and handler failures alternate, it is dispatched fewer than 2 * max_attempts
\* times (claim_dispatch_batch itself never compares the count with the limit).
AttemptBudget ==
  \A w \in Works : /\ rows[w].executions <= MaxAttempts
                   /\ rows[w].dispatches < 2 * MaxAttempts

\* While its lease runs, nobody but the slot that claimed a running row changes
\* it: not a dispatcher, a recovery, a merge, nor an older claim of the row.
RunningRowLeftToHolder ==
  [][\A w \in Works :
       /\ rows[w].state = "running" /\ rows[w].lease > 0
       /\ rows'[w].version # rows[w].version
       => \E k \in Slots : /\ Claimed(k)
                           /\ slot[k].seen.work = w
                           /\ slot[k].seen.version = rows[w].version
                           /\ slot'[k] # slot[k]]_vars

\* Completed work stays completed and dead work stays dead, whatever late job,
\* claim or outcome arrives for it: only an operator's requeue revives dead work,
\* and no more than MAX_MANUAL_RETRIES times.
TerminalWorkRests ==
  [][\A w \in Works :
       /\ rows[w].state = "completed" => rows'[w] = rows[w]
       /\ rows[w].state = "dead" /\ rows'[w] # rows[w] =>
            /\ rows[w].manualRetries < MaxManualRetries
            /\ rows'[w] = Requeued(rows[w])]_vars

\* Every row reaches a terminal state, even if no worker ever runs and the queue
\* loses every job: leases expire, and recovery ends in a bounded retry or death.
WorkSettles ==
  \A w \in Works :
    rows[w].state \notin Terminal \cup {"absent"} ~> rows[w].state \in Terminal

\* An expired dispatch or execution lease makes the work executable again.
ExpiredWorkRecovered ==
  \A w \in Works : Expired(rows[w]) ~> ~Expired(rows[w])

-----------------------------------------------------------------------------
(* The outbox keeps what DurableIntents promises. *)

IntentStatus(i) ==
  IF ~Accepted(i) THEN "absent"
  ELSE IF i \in handled THEN "served"
  ELSE LET states == {rows[w].state : w \in Carriers(i)}
       IN  CASE ~(states \subseteq Terminal) -> "open"
             [] states \subseteq Terminal /\ "dead" \in states -> "failed"
             [] OTHER -> "lost"

Durable == INSTANCE DurableIntents WITH status <- [i \in Intents |-> IntentStatus(i)]

\* Every step of the pipeline is a step of DurableIntents or leaves every
\* intent's status alone; no intent is ever lost.
KeepsDurableIntents == Durable!DurableSpec
=============================================================================
