------------------------------- MODULE Outbox -------------------------------
(***************************************************************************)
(* The durable background-work rows of services/background_jobs/outbox.py: *)
(* what a row holds, which states belong together, and what each lifecycle *)
(* method of BackgroundJobOutbox writes to a row whose predicates matched. *)
(*                                                                         *)
(* Timestamps are kept as ticks that remain until they are reached: zero   *)
(* means reached.  The code only ever compares lease_expires_at and        *)
(* run_after with the current time and takes the smaller of two run_after  *)
(* values, and both survive this change of origin.                         *)
(***************************************************************************)
EXTENDS Naturals, FiniteSets

CONSTANTS
  Works,             \* ids of rows that can be inserted
  Intents,           \* logical intents: what one committed mutation asks for
  Keys,              \* coalescing keys, one per logical reconciliation target
  NoKey,             \* the null coalescing key
  KeyOf,             \* the coalescing key each intent is staged under
  Idempotent,        \* intents staged under an idempotency key of their own
  NoIntent,          \* the null idempotency key
  Owners,            \* lease owners: dispatcher ids and worker process ids
  NoOwner,           \* the null lease owner
  Unregistered,      \* keys whose job type this deployment does not register
  MaxAttempts,       \* background_max_attempts
  MaxManualRetries,  \* MAX_MANUAL_RETRIES of the operator command
  ClaimLease,        \* background_claim_lease_seconds, in ticks
  HandlerLease,      \* the lease the handler's timeout requires, in ticks
  RetryDelay         \* the longest back-off between two attempts, in ticks

ASSUME OutboxAssumption ==
  /\ NoKey \notin Keys
  /\ NoIntent \notin Intents
  /\ NoOwner \notin Owners
  /\ KeyOf \in [Intents -> Keys \cup {NoKey}]
  /\ Idempotent \subseteq Intents
  /\ Unregistered \subseteq Keys
  /\ MaxAttempts \in Nat \ {0}
  /\ MaxManualRetries \in Nat
  /\ ClaimLease \in Nat \ {0}
  /\ HandlerLease \in Nat /\ HandlerLease >= ClaimLease
  /\ RetryDelay \in Nat

-----------------------------------------------------------------------------
(* States, and the sets of states the queries of the outbox select. *)

DispatchEligible == {"pending", "scheduled", "retrying"}
ActiveCoalescing == DispatchEligible \cup {"dispatching", "dispatched"}
\* Mutation: recovery forgets the rows that wait in the queue.
LeasedButQueued  == {"dispatching", "running"}
Leased           == {"dispatching", "dispatched", "running"}
Terminal         == {"completed", "dead"}
States           == ActiveCoalescing \cup Terminal \cup {"running"}

Row == [state         : States \cup {"absent"},
        version       : Nat,
        owner         : Owners \cup {NoOwner},
        lease         : Nat,
        delay         : Nat,
        dispatches    : Nat,
        executions    : Nat,
        manualRetries : Nat,
        key           : Keys \cup {NoKey},
        idem          : Idempotent \cup {NoIntent},
        payload       : SUBSET Intents]

\* ck_background_work_items_lease_pair, and which states hold the lease.
LeasePair(x) == x.owner = NoOwner <=> x.state \notin Leased

\* An id that no row has taken yet.
NoRow == [state |-> "absent", version |-> 0, owner |-> NoOwner, lease |-> 0,
          delay |-> 0, dispatches |-> 0, executions |-> 0, manualRetries |-> 0,
          key |-> NoKey, idem |-> NoIntent, payload |-> {}]

-----------------------------------------------------------------------------
(* The two partial unique indexes of background_work_items. *)

\* Row x and row y would both occupy the active slot of one coalescing key.
SameSlot(x, y) ==
  /\ x.key # NoKey
  /\ x.key = y.key
  /\ x.state \in ActiveCoalescing
  /\ y.state \in ActiveCoalescing

\* uq_background_work_items_active_coalescing over a whole table.
OneActivePerKey(table) ==
  \A v, w \in Works : v # w => ~SameSlot(table[v], table[w])

\* Giving row w the contents x violates one of the unique indexes.
Clashes(table, w, x) ==
  \E v \in Works \ {w} :
    \/ SameSlot(table[v], x)
    \/ table[v].idem # NoIntent /\ table[v].idem = x.idem

-----------------------------------------------------------------------------
(* What staging writes. *)

\* The row stage() builds for intent i, eligible after delay ticks.
NewRow(i, delay) ==
  [NoRow EXCEPT !.state   = IF delay > 0 THEN "scheduled" ELSE "pending",
                !.version = 1,
                !.delay   = delay,
                !.key     = KeyOf[i],
                !.idem    = IF i \in Idempotent THEN i ELSE NoIntent,
                !.payload = {i}]

Earlier(a, b) == IF a <= b THEN a ELSE b

\* Mutation: the incoming payload replaces the stored one.
CoalescedOver(x, known, i, delay) ==
  [x EXCEPT !.payload = {i}, !.version = @ + 1]

\* _coalesce: the payload read before is merged with the incoming one.
Coalesced(x, known, i, delay) ==
  LET next == Earlier(x.delay, delay) IN
  [x EXCEPT !.payload = known \cup {i},
            !.delay   = next,
            !.state   = IF @ = "scheduled" /\ next = 0 THEN "pending" ELSE @,
            !.version = @ + 1]

-----------------------------------------------------------------------------
(* What dispatch and execution write. *)

ClaimedForDispatch(x, d) ==
  [x EXCEPT !.state = "dispatching", !.owner = d, !.lease = ClaimLease,
            !.dispatches = @ + 1, !.version = @ + 1]

MarkedDispatched(x) == [x EXCEPT !.state = "dispatched", !.version = @ + 1]

\* Mutation: the lease owner stays behind.
ReleasedStillOwned(x, state, delay) ==
  [x EXCEPT !.state = state, !.lease = 0, !.delay = delay, !.version = @ + 1]

\* Mutation: the row keeps its version.
ReleasedSameVersion(x, state, delay) ==
  [x EXCEPT !.state = state, !.owner = NoOwner, !.lease = 0, !.delay = delay]

Released(x, state, delay) ==
  [x EXCEPT !.state = state, !.owner = NoOwner, !.lease = 0,
            !.delay = delay, !.version = @ + 1]

Retried(x, delay) == Released(x, "retrying", delay)
Buried(x)         == Released(x, "dead", x.delay)
Completed(x)      == Released(x, "completed", x.delay)

ClaimedForExecution(x, p) ==
  [x EXCEPT !.state = "running", !.owner = p, !.lease = ClaimLease,
            !.executions = @ + 1, !.version = @ + 1]

Renewed(x) == [x EXCEPT !.lease = HandlerLease, !.version = @ + 1]

-----------------------------------------------------------------------------
(* Lease recovery and the operator's requeue. *)

Expired(x) == x.state \in Leased /\ x.lease = 0

\* Mutation: one attempt too many.
ExhaustedLate(x) ==
  \/ x.key \in Unregistered
  \/ (IF x.state = "running" THEN x.executions ELSE x.dispatches) > MaxAttempts

\* A running row is judged by its executions, a dispatch claim by its dispatches.
Exhausted(x) ==
  \/ x.key \in Unregistered
  \/ (IF x.state = "running" THEN x.executions ELSE x.dispatches) >= MaxAttempts

Recovered(x) == IF Exhausted(x) THEN Buried(x) ELSE Retried(x, 0)

\* recover_expired_leases: every expired claim of the table is recovered.
AfterRecovery(table) ==
  [w \in Works |-> IF Expired(table[w]) THEN Recovered(table[w]) ELSE table[w]]

Requeueable(x) ==
  /\ x.state = "dead"
  /\ x.key \notin Unregistered
  /\ x.manualRetries < MaxManualRetries

Requeued(x) ==
  [x EXCEPT !.state = "pending", !.delay = 0, !.manualRetries = @ + 1,
            !.dispatches = 0, !.executions = 0, !.version = @ + 1]
=============================================================================
