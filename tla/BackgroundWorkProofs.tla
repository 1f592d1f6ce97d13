------------------------ MODULE BackgroundWorkProofs ------------------------
(***************************************************************************)
(* What the writes of the outbox preserve, for every row and every         *)
(* constant; the type correctness of the background-work pipeline and its  *)
(* four safety invariants; what its steps may never do; and the refinement *)
(* of DurableIntents.                                                      *)
(***************************************************************************)
EXTENDS BackgroundWork, TLAPS

\* Row y is what one versioned update makes of row x: the version moves by one
\* and no intent and no idempotency key is taken back.
Newer(x, y) ==
  /\ y.version = x.version + 1
  /\ x.payload \subseteq y.payload
  /\ y.idem = x.idem

\* A row as the database's check constraints admit it.
Sound(x) == x \in Row /\ LeasePair(x)

-----------------------------------------------------------------------------
(* Every write of a lifecycle method yields a sound and newer row. *)

LEMMA NoRowSound == Sound(NoRow)
BY OutboxAssumption DEF Sound, NoRow, Row, LeasePair, States, Leased, ActiveCoalescing,
   DispatchEligible, Terminal

LEMMA NewRowSound ==
  ASSUME NEW i \in Intents, NEW delay \in Nat
  PROVE  /\ Sound(NewRow(i, delay))
         /\ NewRow(i, delay).version = 1
         /\ NewRow(i, delay).payload = {i}
         /\ NewRow(i, delay).idem \in {i, NoIntent}
BY OutboxAssumption DEF Sound, NewRow, NoRow, Row, LeasePair, States, Leased,
   ActiveCoalescing, DispatchEligible, Terminal

LEMMA CoalescedSound ==
  ASSUME NEW x \in Row, NEW known \in SUBSET Intents, NEW i \in Intents, NEW delay \in Nat,
         Sound(x)
  PROVE  /\ Sound(Coalesced(x, known, i, delay))
         /\ Coalesced(x, known, i, delay).version = x.version + 1
         /\ Coalesced(x, known, i, delay).payload = known \cup {i}
         /\ Coalesced(x, known, i, delay).idem = x.idem
<1> DEFINE next == Earlier(x.delay, delay)
           all  == known \cup {i}
           ver  == x.version + 1
           st   == IF x.state = "scheduled" /\ next = 0 THEN "pending" ELSE x.state
<1>1. next \in Nat
  BY DEF Earlier, Row
<1>2. /\ st \in States \cup {"absent"}
      /\ st \in Leased <=> x.state \in Leased
  BY DEF Row, States, Leased, ActiveCoalescing, DispatchEligible, Terminal
<1>3. all \in SUBSET Intents /\ ver \in Nat
  BY DEF Row
<1>4. Coalesced(x, known, i, delay)
        = [x EXCEPT !.payload = all, !.delay = next, !.state = st, !.version = ver]
  BY DEF Coalesced
<1> HIDE DEF next, st, all, ver
<1>5. Coalesced(x, known, i, delay) \in Row
  BY <1>1, <1>2, <1>3, <1>4 DEF Row
<1>6. /\ Coalesced(x, known, i, delay).owner = x.owner
      /\ Coalesced(x, known, i, delay).state = st
      /\ Coalesced(x, known, i, delay).version = ver
      /\ Coalesced(x, known, i, delay).payload = all
      /\ Coalesced(x, known, i, delay).idem = x.idem
  BY <1>4 DEF Row
<1>7. QED
  BY <1>2, <1>5, <1>6 DEF Sound, LeasePair, all, ver

LEMMA ClaimedForDispatchSound ==
  ASSUME NEW x \in Row, NEW d \in Owners
  PROVE  /\ Sound(ClaimedForDispatch(x, d))
         /\ Newer(x, ClaimedForDispatch(x, d))
<1> DEFINE ver == x.version + 1
           n == x.dispatches + 1
<1>1. ver \in Nat /\ n \in Nat
  BY OutboxAssumption DEF Row
<1>2. ClaimedForDispatch(x, d)
        = [x EXCEPT !.state = "dispatching", !.owner = d, !.lease = ClaimLease,
                    !.dispatches = n, !.version = ver]
  BY DEF ClaimedForDispatch
<1> HIDE DEF ver, n
<1>3. ClaimedForDispatch(x, d) \in Row
  BY <1>1, <1>2, OutboxAssumption DEF Row, States, ActiveCoalescing, DispatchEligible, Terminal
<1>4. LeasePair(ClaimedForDispatch(x, d))
  BY <1>2, OutboxAssumption DEF Row, LeasePair, Leased
<1>5. Newer(x, ClaimedForDispatch(x, d))
  BY <1>2 DEF Row, Newer, ver
<1>6. QED
  BY <1>3, <1>4, <1>5 DEF Sound

LEMMA MarkedDispatchedSound ==
  ASSUME NEW x \in Row, LeasePair(x), x.state = "dispatching"
  PROVE  /\ Sound(MarkedDispatched(x))
         /\ Newer(x, MarkedDispatched(x))
<1> DEFINE ver == x.version + 1
<1>1. ver \in Nat
  BY OutboxAssumption DEF Row
<1>2. MarkedDispatched(x)
        = [x EXCEPT !.state = "dispatched", !.version = ver]
  BY DEF MarkedDispatched
<1> HIDE DEF ver
<1>3. MarkedDispatched(x) \in Row
  BY <1>1, <1>2, OutboxAssumption DEF Row, States, ActiveCoalescing, DispatchEligible, Terminal
<1>4. LeasePair(MarkedDispatched(x))
  BY <1>2, OutboxAssumption DEF Row, LeasePair, Leased
<1>5. Newer(x, MarkedDispatched(x))
  BY <1>2 DEF Row, Newer, ver
<1>6. QED
  BY <1>3, <1>4, <1>5 DEF Sound

LEMMA ReleasedSound ==
  ASSUME NEW x \in Row, NEW delay \in Nat,
         NEW state \in {"retrying", "dead", "completed"}
  PROVE  /\ Sound(Released(x, state, delay))
         /\ Newer(x, Released(x, state, delay))
<1> DEFINE ver == x.version + 1
           zero == 0
<1>1. ver \in Nat /\ zero \in Nat
  BY OutboxAssumption DEF Row
<1>2. Released(x, state, delay)
        = [x EXCEPT !.state = state, !.owner = NoOwner, !.lease = zero,
                    !.delay = delay, !.version = ver]
  BY DEF Released
<1> HIDE DEF ver, zero
<1>3. Released(x, state, delay) \in Row
  BY <1>1, <1>2, OutboxAssumption DEF Row, States, ActiveCoalescing, DispatchEligible, Terminal
<1>4. LeasePair(Released(x, state, delay))
  BY <1>2, OutboxAssumption DEF Row, LeasePair, Leased
<1>5. Newer(x, Released(x, state, delay))
  BY <1>2 DEF Row, Newer, ver
<1>6. QED
  BY <1>3, <1>4, <1>5 DEF Sound

LEMMA ClaimedForExecutionSound ==
  ASSUME NEW x \in Row, NEW p \in Owners
  PROVE  /\ Sound(ClaimedForExecution(x, p))
         /\ Newer(x, ClaimedForExecution(x, p))
<1> DEFINE ver == x.version + 1
           n == x.executions + 1
<1>1. ver \in Nat /\ n \in Nat
  BY OutboxAssumption DEF Row
<1>2. ClaimedForExecution(x, p)
        = [x EXCEPT !.state = "running", !.owner = p, !.lease = ClaimLease,
                    !.executions = n, !.version = ver]
  BY DEF ClaimedForExecution
<1> HIDE DEF ver, n
<1>3. ClaimedForExecution(x, p) \in Row
  BY <1>1, <1>2, OutboxAssumption DEF Row, States, ActiveCoalescing, DispatchEligible, Terminal
<1>4. LeasePair(ClaimedForExecution(x, p))
  BY <1>2, OutboxAssumption DEF Row, LeasePair, Leased
<1>5. Newer(x, ClaimedForExecution(x, p))
  BY <1>2 DEF Row, Newer, ver
<1>6. QED
  BY <1>3, <1>4, <1>5 DEF Sound

LEMMA RenewedSound ==
  ASSUME NEW x \in Row, LeasePair(x), x.state = "running"
  PROVE  /\ Sound(Renewed(x))
         /\ Newer(x, Renewed(x))
<1> DEFINE ver == x.version + 1
<1>1. ver \in Nat
  BY OutboxAssumption DEF Row
<1>2. Renewed(x)
        = [x EXCEPT !.lease = HandlerLease, !.version = ver]
  BY DEF Renewed
<1> HIDE DEF ver
<1>3. Renewed(x) \in Row
  BY <1>1, <1>2, OutboxAssumption DEF Row, States, ActiveCoalescing, DispatchEligible, Terminal
<1>4. LeasePair(Renewed(x))
  BY <1>2, OutboxAssumption DEF Row, LeasePair, Leased
<1>5. Newer(x, Renewed(x))
  BY <1>2 DEF Row, Newer, ver
<1>6. QED
  BY <1>3, <1>4, <1>5 DEF Sound

LEMMA RequeuedSound ==
  ASSUME NEW x \in Row, LeasePair(x), x.state = "dead"
  PROVE  /\ Sound(Requeued(x))
         /\ Newer(x, Requeued(x))
<1> DEFINE ver == x.version + 1
           zero == 0
           n == x.manualRetries + 1
<1>1. ver \in Nat /\ zero \in Nat /\ n \in Nat
  BY OutboxAssumption DEF Row
<1>2. Requeued(x)
        = [x EXCEPT !.state = "pending", !.delay = zero, !.manualRetries = n,
                    !.dispatches = zero, !.executions = zero, !.version = ver]
  BY DEF Requeued
<1> HIDE DEF ver, zero, n
<1>3. Requeued(x) \in Row
  BY <1>1, <1>2, OutboxAssumption DEF Row, States, ActiveCoalescing, DispatchEligible, Terminal
<1>4. LeasePair(Requeued(x))
  BY <1>2, OutboxAssumption DEF Row, LeasePair, Leased
<1>5. Newer(x, Requeued(x))
  BY <1>2 DEF Row, Newer, ver
<1>6. QED
  BY <1>3, <1>4, <1>5 DEF Sound

LEMMA RecoveredSound ==
  ASSUME NEW x \in Row
  PROVE  /\ Sound(Recovered(x))
         /\ Newer(x, Recovered(x))
         /\ Recovered(x).state \in {"retrying", "dead"}
<1>1. x.delay \in Nat /\ 0 \in Nat
  BY DEF Row
<1>2. /\ Sound(Buried(x)) /\ Newer(x, Buried(x))
      /\ Sound(Retried(x, 0)) /\ Newer(x, Retried(x, 0))
  BY <1>1, ReleasedSound DEF Buried, Retried
<1>3. Buried(x).state = "dead" /\ Retried(x, 0).state = "retrying"
  BY DEF Buried, Retried, Released, Row
<1>4. QED
  BY <1>2, <1>3 DEF Recovered
-----------------------------------------------------------------------------
(* What one step of the pipeline may make of one row. *)

Recovering(x, y) == y = x \/ (Expired(x) /\ y = Recovered(x))

\* Every change of a row but its completion.
RowMove(x, y) ==
  \/ \E l, m \in Nat : y = [x EXCEPT !.lease = l, !.delay = m]
  \/ x.state = "absent" /\ \E i \in Intents, delay \in Nat : y = NewRow(i, delay)
  \/ /\ x.state \in ActiveCoalescing
     /\ \E i \in Intents, delay \in Nat : y = Coalesced(x, x.payload, i, delay)
  \/ Recovering(x, y)
  \/ \E z \in Row, d \in Owners : /\ Recovering(x, z)
                                  /\ z.state \in DispatchEligible
                                  /\ y = ClaimedForDispatch(z, d)
  \/ x.state = "dispatching" /\ y = MarkedDispatched(x)
  \/ x.state = "dispatching" /\ x.dispatches >= MaxAttempts /\ y = Buried(x)
  \/ /\ x.state = "dispatching" /\ x.dispatches < MaxAttempts
     /\ \E delay \in Nat : y = Retried(x, delay)
  \/ /\ x.state \in {"dispatched", "retrying"}
     /\ \E p \in Owners : y = ClaimedForExecution(x, p)
  \/ x.state = "running" /\ y \in {Renewed(x), Buried(x)}
  \/ /\ x.state = "running" /\ x.executions < MaxAttempts
     /\ \E delay \in Nat : y = Retried(x, delay)
  \/ x.state = "dead" /\ y = Requeued(x)

\* The version orders the contents of a row: while it stands still, so do the
\* state, the owner and the payload; when it moves, the payload only grows.
Advances(x, y) ==
  \/ /\ y.version = x.version
     /\ y.state = x.state
     /\ y.owner = x.owner
     /\ y.payload = x.payload
  \/ y.version > x.version /\ x.payload \subseteq y.payload

\* An id without a row, and the intent whose idempotency key a row holds.
Founded(x) ==
  /\ x.state = "absent" => x.version = 0 /\ x.payload = {}
  /\ x.idem # NoIntent => x.idem \in x.payload

\* How far the attempt counters can have come in each state.
WithinBudget(x) ==
  /\ x.executions <= MaxAttempts
  /\ x.dispatches < 2 * MaxAttempts
  /\ x.state \in DispatchEligible =>
       x.executions < MaxAttempts /\ x.dispatches < MaxAttempts + x.executions
  /\ x.state \in {"dispatching", "dispatched"} =>
       x.executions < MaxAttempts /\ x.dispatches <= MaxAttempts + x.executions
  /\ x.state = "running" => x.dispatches < MaxAttempts + x.executions

LEMMA ReleasedFields ==
  ASSUME NEW x \in Row, NEW state, NEW delay
  PROVE  /\ Released(x, state, delay).state = state
         /\ Released(x, state, delay).dispatches = x.dispatches
         /\ Released(x, state, delay).executions = x.executions
         /\ Released(x, state, delay).idem = x.idem
         /\ Released(x, state, delay).payload = x.payload
BY DEF Released, Row

LEMMA ClaimFields ==
  ASSUME NEW x \in Row, NEW o
  PROVE  /\ ClaimedForDispatch(x, o).state = "dispatching"
         /\ ClaimedForDispatch(x, o).owner = o
         /\ ClaimedForDispatch(x, o).dispatches = x.dispatches + 1
         /\ ClaimedForDispatch(x, o).executions = x.executions
         /\ ClaimedForDispatch(x, o).idem = x.idem
         /\ ClaimedForDispatch(x, o).payload = x.payload
         /\ ClaimedForExecution(x, o).state = "running"
         /\ ClaimedForExecution(x, o).owner = o
         /\ ClaimedForExecution(x, o).dispatches = x.dispatches
         /\ ClaimedForExecution(x, o).executions = x.executions + 1
         /\ ClaimedForExecution(x, o).idem = x.idem
         /\ ClaimedForExecution(x, o).payload = x.payload
BY DEF ClaimedForDispatch, ClaimedForExecution, Row

LEMMA UpdateFields ==
  ASSUME NEW x \in Row
  PROVE  /\ MarkedDispatched(x).state = "dispatched"
         /\ MarkedDispatched(x).dispatches = x.dispatches
         /\ MarkedDispatched(x).executions = x.executions
         /\ MarkedDispatched(x).idem = x.idem
         /\ MarkedDispatched(x).payload = x.payload
         /\ Renewed(x).state = x.state
         /\ Renewed(x).owner = x.owner
         /\ Renewed(x).dispatches = x.dispatches
         /\ Renewed(x).executions = x.executions
         /\ Renewed(x).idem = x.idem
         /\ Renewed(x).payload = x.payload
         /\ Requeued(x).state = "pending"
         /\ Requeued(x).dispatches = 0
         /\ Requeued(x).executions = 0
         /\ Requeued(x).idem = x.idem
         /\ Requeued(x).payload = x.payload
BY DEF MarkedDispatched, Renewed, Requeued, Row

LEMMA VersionFields ==
  ASSUME NEW x \in Row, NEW state, NEW delay, NEW o
  PROVE  /\ Released(x, state, delay).version = x.version + 1
         /\ ClaimedForDispatch(x, o).version = x.version + 1
         /\ ClaimedForExecution(x, o).version = x.version + 1
         /\ MarkedDispatched(x).version = x.version + 1
         /\ Renewed(x).version = x.version + 1
         /\ Requeued(x).version = x.version + 1
BY DEF Released, ClaimedForDispatch, ClaimedForExecution, MarkedDispatched, Renewed,
   Requeued, Row

LEMMA CoalescedFields ==
  ASSUME NEW x \in Row, NEW known, NEW i, NEW delay
  PROVE  /\ Coalesced(x, known, i, delay).state = x.state
              \/ (x.state = "scheduled" /\ Coalesced(x, known, i, delay).state = "pending")
         /\ Coalesced(x, known, i, delay).dispatches = x.dispatches
         /\ Coalesced(x, known, i, delay).executions = x.executions
         /\ Coalesced(x, known, i, delay).idem = x.idem
         /\ Coalesced(x, known, i, delay).payload = known \cup {i}
         /\ Coalesced(x, known, i, delay).version = x.version + 1
BY DEF Coalesced, Row

LEMMA NewRowFields ==
  ASSUME NEW i \in Intents, NEW delay
  PROVE  /\ NewRow(i, delay).state \in {"scheduled", "pending"}
         /\ NewRow(i, delay).dispatches = 0
         /\ NewRow(i, delay).executions = 0
         /\ NewRow(i, delay).version = 1
         /\ NewRow(i, delay).payload = {i}
         /\ NewRow(i, delay).idem \in {i, NoIntent}
BY DEF NewRow, NoRow
-----------------------------------------------------------------------------
(* What every move of a row preserves. *)

\* A row that completes was completed before, with this payload.
NotCompleting(x, y) ==
  y.state = "completed" => x.state = "completed" /\ y.payload = x.payload

\* The attempt counters and the intents of y, compared with those of x.
SameCounters(x, y) == y.dispatches = x.dispatches /\ y.executions = x.executions
SameIntents(x, y)  == y.payload = x.payload /\ y.idem = x.idem

\* What an invariant needs to know of a move from x to y.
Preserves(x, y) ==
  Advances(x, y) /\ Founded(y) /\ WithinBudget(y) /\ NotCompleting(x, y)

LEMMA CounterTypes ==
  ASSUME NEW x \in Row
  PROVE  /\ x.dispatches \in Nat /\ x.executions \in Nat /\ x.version \in Nat
         /\ MaxAttempts \in Nat /\ MaxAttempts > 0
BY OutboxAssumption DEF Row

\* The update of a row that exists: the version moves, the intents stay.
LEMMA UpdatePreserves ==
  ASSUME NEW x \in Row, NEW y, Founded(x), WithinBudget(y),
         y.version = x.version + 1, SameIntents(x, y),
         y.state \notin {"absent", "completed"}
  PROVE  Preserves(x, y)
<1>1. y.version > x.version
  BY CounterTypes
<1>2. QED
  BY <1>1 DEF Preserves, Advances, Founded, NotCompleting, SameIntents

LEMMA RecoveryPreserves ==
  ASSUME NEW x \in Row, NEW y, Founded(x), WithinBudget(x), Recovering(x, y)
  PROVE  Preserves(x, y) /\ SameIntents(x, y)
<1>1. CASE y = x
  BY <1>1 DEF Preserves, Advances, NotCompleting, SameIntents
<1>2. CASE Expired(x) /\ y = Recovered(x)
  <2>1. x.state \in {"dispatching", "dispatched", "running"}
    BY <1>2 DEF Expired, Leased
  <2>2. /\ y.version = x.version + 1
        /\ SameCounters(x, y) /\ SameIntents(x, y)
        /\ y.state \in {"dead", "retrying"}
        /\ y.state = "retrying" => ~Exhausted(x)
    BY <1>2, ReleasedFields, VersionFields DEF Recovered, Buried, Retried, SameCounters,
       SameIntents
  <2>3. WithinBudget(y)
    BY <2>1, <2>2, CounterTypes DEF WithinBudget, SameCounters, Exhausted, DispatchEligible
  <2>4. QED
    BY <2>2, <2>3, UpdatePreserves
<1>3. QED
  BY <1>1, <1>2 DEF Recovering

LEMMA MovePreserves ==
  ASSUME NEW x \in Row, NEW y, Founded(x), WithinBudget(x), RowMove(x, y)
  PROVE  Preserves(x, y)
<1>1. CASE \E l, m \in Nat : y = [x EXCEPT !.lease = l, !.delay = m]
  <2>1. /\ y.version = x.version /\ y.state = x.state /\ y.owner = x.owner
        /\ SameCounters(x, y) /\ SameIntents(x, y)
    BY <1>1 DEF SameCounters, SameIntents, Row
  <2>2. QED
    BY <2>1 DEF Preserves, Advances, Founded, WithinBudget, NotCompleting, SameCounters,
       SameIntents
<1>2. CASE x.state = "absent" /\ \E i \in Intents, delay \in Nat : y = NewRow(i, delay)
  <2>1. PICK i \in Intents, delay \in Nat : y = NewRow(i, delay)
    BY <1>2
  <2>2. /\ y.state \in {"scheduled", "pending"} /\ y.version = 1
        /\ y.dispatches = 0 /\ y.executions = 0
        /\ y.payload = {i} /\ y.idem \in {i, NoIntent}
    BY <2>1, NewRowFields
  <2>3. WithinBudget(y)
    BY <2>2, CounterTypes DEF WithinBudget, DispatchEligible
  <2>4. QED
    BY <1>2, <2>2, <2>3 DEF Preserves, Advances, Founded, NotCompleting
<1>3. CASE /\ x.state \in ActiveCoalescing
           /\ \E i \in Intents, delay \in Nat : y = Coalesced(x, x.payload, i, delay)
  <2>1. PICK i \in Intents, delay \in Nat : y = Coalesced(x, x.payload, i, delay)
    BY <1>3
  <2>2. /\ y.state = x.state \/ (x.state = "scheduled" /\ y.state = "pending")
        /\ SameCounters(x, y) /\ y.idem = x.idem
        /\ y.payload = x.payload \cup {i} /\ y.version = x.version + 1
    BY <2>1, CoalescedFields DEF SameCounters
  <2>3. y.version > x.version
    BY <2>2, CounterTypes
  <2>4. WithinBudget(y)
    BY <2>2 DEF WithinBudget, DispatchEligible, SameCounters
  <2>5. y.state \notin {"absent", "completed"}
    BY <1>3, <2>2 DEF ActiveCoalescing, DispatchEligible
  <2>6. QED
    BY <2>2, <2>3, <2>4, <2>5 DEF Preserves, Advances, Founded, NotCompleting
<1>4. CASE Recovering(x, y)
  BY <1>4, RecoveryPreserves
<1>5. CASE \E z \in Row, d \in Owners : /\ Recovering(x, z)
                                        /\ z.state \in DispatchEligible
                                        /\ y = ClaimedForDispatch(z, d)
  <2>1. PICK z \in Row, d \in Owners : /\ Recovering(x, z)
                                       /\ z.state \in DispatchEligible
                                       /\ y = ClaimedForDispatch(z, d)
    BY <1>5
  <2>2. Preserves(x, z) /\ SameIntents(x, z)
    BY <2>1, RecoveryPreserves
  <2>3. /\ y.state = "dispatching" /\ y.version = z.version + 1 /\ SameIntents(z, y)
        /\ y.dispatches = z.dispatches + 1 /\ y.executions = z.executions
    BY <2>1, ClaimFields, VersionFields DEF SameIntents
  <2>4. WithinBudget(y)
    BY <2>1, <2>2, <2>3, CounterTypes DEF WithinBudget, Preserves, DispatchEligible
  <2>5. Preserves(z, y)
    BY <2>2, <2>3, <2>4, UpdatePreserves DEF Preserves
  <2>6. y.version > x.version
    BY <2>2, <2>3, CounterTypes DEF Preserves, Advances
  <2>7. QED
    BY <2>2, <2>3, <2>5, <2>6 DEF Preserves, Advances, NotCompleting, SameIntents
<1>6. CASE x.state = "dispatching" /\ y = MarkedDispatched(x)
  <2>1. /\ y.state = "dispatched" /\ y.version = x.version + 1
        /\ SameCounters(x, y) /\ SameIntents(x, y)
    BY <1>6, UpdateFields, VersionFields DEF SameCounters, SameIntents
  <2>2. WithinBudget(y)
    BY <1>6, <2>1 DEF WithinBudget, SameCounters, DispatchEligible
  <2>3. QED
    BY <2>1, <2>2, UpdatePreserves
<1>7. ASSUME y = Buried(x)
      PROVE  Preserves(x, y)
  <2>1. /\ y.state = "dead" /\ y.version = x.version + 1
        /\ SameCounters(x, y) /\ SameIntents(x, y)
    BY <1>7, ReleasedFields, VersionFields DEF Buried, SameCounters, SameIntents
  <2>2. WithinBudget(y)
    BY <2>1 DEF WithinBudget, SameCounters, DispatchEligible
  <2>3. QED
    BY <2>1, <2>2, UpdatePreserves
<1>8. CASE /\ \/ x.state = "dispatching" /\ x.dispatches < MaxAttempts
              \/ x.state = "running" /\ x.executions < MaxAttempts
           /\ \E delay \in Nat : y = Retried(x, delay)
  <2>1. /\ y.state = "retrying" /\ y.version = x.version + 1
        /\ SameCounters(x, y) /\ SameIntents(x, y)
    BY <1>8, ReleasedFields, VersionFields DEF Retried, SameCounters, SameIntents
  <2>2. WithinBudget(y)
    BY <1>8, <2>1, CounterTypes DEF WithinBudget, SameCounters, DispatchEligible
  <2>3. QED
    BY <2>1, <2>2, UpdatePreserves
<1>9. CASE /\ x.state \in {"dispatched", "retrying"}
           /\ \E p \in Owners : y = ClaimedForExecution(x, p)
  <2>1. /\ y.state = "running" /\ y.version = x.version + 1 /\ SameIntents(x, y)
        /\ y.dispatches = x.dispatches /\ y.executions = x.executions + 1
    BY <1>9, ClaimFields, VersionFields DEF SameIntents
  <2>2. WithinBudget(y)
    BY <1>9, <2>1, CounterTypes DEF WithinBudget, DispatchEligible
  <2>3. QED
    BY <2>1, <2>2, UpdatePreserves
<1>10. CASE x.state = "running" /\ y = Renewed(x)
  <2>1. /\ y.state = "running" /\ y.version = x.version + 1
        /\ SameCounters(x, y) /\ SameIntents(x, y)
    BY <1>10, UpdateFields, VersionFields DEF SameCounters, SameIntents
  <2>2. WithinBudget(y)
    BY <1>10, <2>1 DEF WithinBudget, SameCounters, DispatchEligible
  <2>3. QED
    BY <2>1, <2>2, UpdatePreserves
<1>11. CASE x.state = "dead" /\ y = Requeued(x)
  <2>1. /\ y.state = "pending" /\ y.version = x.version + 1 /\ SameIntents(x, y)
        /\ y.dispatches = 0 /\ y.executions = 0
    BY <1>11, UpdateFields, VersionFields DEF SameIntents
  <2>2. WithinBudget(y)
    BY <2>1, CounterTypes DEF WithinBudget, DispatchEligible
  <2>3. QED
    BY <2>1, <2>2, UpdatePreserves
<1>12. QED
  BY <1>1, <1>2, <1>3, <1>4, <1>5, <1>6, <1>7, <1>8, <1>9, <1>10, <1>11 DEF RowMove

\* Completion adds no intent and no attempt.
LEMMA CompletionPreserves ==
  ASSUME NEW x \in Row, Founded(x), WithinBudget(x)
  PROVE  /\ Advances(x, Completed(x))
         /\ Founded(Completed(x))
         /\ WithinBudget(Completed(x))
         /\ Completed(x).payload = x.payload
<1> DEFINE y == Completed(x)
<1>1. /\ y.state = "completed" /\ y.version = x.version + 1
      /\ SameCounters(x, y) /\ SameIntents(x, y)
  BY ReleasedFields, VersionFields DEF Completed, SameCounters, SameIntents
<1> HIDE DEF y
<1>2. y.version > x.version
  BY <1>1, CounterTypes
<1>3. WithinBudget(y)
  BY <1>1 DEF WithinBudget, SameCounters, DispatchEligible
<1>4. Advances(x, y) /\ Founded(y) /\ y.payload = x.payload
  BY <1>1, <1>2 DEF Advances, Founded, SameIntents
<1>5. QED
  BY <1>3, <1>4 DEF y
-----------------------------------------------------------------------------
(* The pipeline. *)

RowsTyped ==
  rows \in [Works -> Row] /\ \A w \in Works : LeasePair(rows[w])

\* A request that is about to merge has read a row.
RequestsTyped ==
  /\ request \in [Requests -> RequestState]
  /\ \A r \in Requests : request[r].pc = "merge" => request[r].seen.work \in Works

ClaimsTyped ==
  /\ todo \in [Dispatchers -> SUBSET Claim]
  /\ sent \in [Dispatchers -> SUBSET Claim]
  /\ failed \in [Dispatchers -> SUBSET Claim]

JobsTyped == jobs \in [Works -> Nat \cup {NoJob}]

\* A slot that is not idle works on a row.
SlotsTyped ==
  /\ slot \in [Slots -> SlotState]
  /\ \A k \in Slots : slot[k].pc # "idle" => slot[k].seen.work \in Works

Typed ==
  /\ RowsTyped
  /\ RequestsTyped
  /\ ClaimsTyped
  /\ JobsTyped
  /\ SlotsTyped
  /\ handled \in SUBSET Intents

-----------------------------------------------------------------------------
(* Which actors leave which variables alone. *)

LEMMA StagingFrame ==
  ASSUME NEW r \in Requests, Staging(r)
  PROVE  UNCHANGED <<todo, sent, failed, jobs, slot, handled>>
BY DEF Staging, ResolveDuplicate, ReadCandidate, FindNothing, Merge, MergeConflicts,
   Insert, InsertClashes, stagingOnly

LEMMA DispatcherFrame ==
  ASSUME NEW d \in Dispatchers, ClaimBatch(d) \/ HandOff(d) \/ DispatcherExits(d)
  PROVE  UNCHANGED <<request, slot, handled>>
BY DEF ClaimBatch, HandOff, Enqueue, EnqueueFails, MarkDispatched, MarkDispatchFailure,
   DispatcherExits, dispatchOnly

LEMMA SlotFrame ==
  ASSUME NEW k \in Slots, Execution(k) \/ WorkerExits(k)
  PROVE  UNCHANGED <<request, todo, sent, failed>>
BY DEF Execution, Reload, ClaimForExecution, ClaimRefused, RenewLease, HandlerEnds,
   PersistSuccess, PersistDead, PersistRetry, RetryClashes, OutcomeDiscarded,
   WorkerExits, slotOnly

LEMMA ExternalFrame ==
  ASSUME OperatorRecovers \/ ManualRequeue \/ QueueLosesJob \/ Tick
  PROVE  UNCHANGED <<request, todo, sent, failed, slot, handled>>
BY DEF OperatorRecovers, ManualRequeue, QueueLosesJob, Tick, stagingOnly, slotOnly
-----------------------------------------------------------------------------
(* Rows. *)

LEMMA UpdateKeepsRows ==
  ASSUME RowsTyped, NEW w \in Works, NEW x, Sound(x), Update(w, x)
  PROVE  RowsTyped'
<1>1. rows' = [rows EXCEPT ![w] = x] /\ x \in Row /\ LeasePair(x)
  BY DEF Update, Sound
<1>2. rows' \in [Works -> Row]
  BY <1>1 DEF RowsTyped
<1>3. ASSUME NEW v \in Works PROVE LeasePair(rows'[v])
  BY <1>1 DEF RowsTyped
<1>4. QED
  BY <1>2, <1>3 DEF RowsTyped

LEMMA AfterRecoverySound ==
  ASSUME RowsTyped, NEW w \in Works
  PROVE  Sound(AfterRecovery(rows)[w])
<1>1. rows[w] \in Row /\ Sound(rows[w])
  BY DEF RowsTyped, Sound
<1>2. Sound(Recovered(rows[w]))
  BY <1>1, RecoveredSound
<1>3. AfterRecovery(rows)[w] = IF Expired(rows[w]) THEN Recovered(rows[w]) ELSE rows[w]
  BY DEF AfterRecovery
<1>4. QED
  BY <1>1, <1>2, <1>3

LEMMA SoundTable ==
  ASSUME NEW table, table = [w \in Works |-> table[w]],
         \A w \in Works : Sound(table[w]), rows' = table
  PROVE  RowsTyped'
BY DEF RowsTyped, Sound

LEMMA StagingKeepsRows ==
  ASSUME Typed, NEW r \in Requests, Staging(r)
  PROVE  RowsTyped'
<1> DEFINE i == IntentOf[r]
<1>1. i \in Intents
  BY BackgroundWorkAssumption
<1>2. CASE UNCHANGED rows
  BY <1>2 DEF Typed, RowsTyped
<1>3. CASE Merge(r)
  <2> DEFINE w == request[r].seen.work
             known == request[r].seen.payload
  <2>1. w \in Works /\ known \in SUBSET Intents
    BY <1>3 DEF Merge, Typed, RequestsTyped, RequestState, Snapshot
  <2>2. PICK delay \in StageDelays : Update(w, Coalesced(rows[w], known, i, delay))
    BY <1>3 DEF Merge
  <2>3. delay \in Nat /\ rows[w] \in Row /\ Sound(rows[w])
    BY <2>1, BackgroundWorkAssumption DEF Typed, RowsTyped, Sound
  <2>4. Sound(Coalesced(rows[w], known, i, delay))
    BY <1>1, <2>1, <2>3, CoalescedSound
  <2>5. QED
    BY <2>1, <2>2, <2>4, UpdateKeepsRows DEF Typed
<1>4. CASE Insert(r)
  <2>1. PICK w \in Works, delay \in StageDelays : Update(w, NewRow(i, delay))
    BY <1>4 DEF Insert
  <2>2. Sound(NewRow(i, delay))
    BY <1>1, NewRowSound, BackgroundWorkAssumption
  <2>3. QED
    BY <2>1, <2>2, UpdateKeepsRows DEF Typed
<1>5. QED
  BY <1>2, <1>3, <1>4 DEF Staging, ResolveDuplicate, ReadCandidate, FindNothing,
     MergeConflicts, InsertClashes
LEMMA DispatcherKeepsRows ==
  ASSUME Typed, NEW d \in Dispatchers, ClaimBatch(d) \/ HandOff(d) \/ DispatcherExits(d)
  PROVE  RowsTyped'
<1> USE DEF Typed
<1>1. d \in Owners
  BY BackgroundWorkAssumption
<1>2. CASE UNCHANGED rows
  BY <1>2 DEF RowsTyped
<1>3. CASE ClaimBatch(d)
  <2> DEFINE table == AfterRecovery(rows)
             next  == [w \in Works |-> IF w \in Due(table)
                                       THEN ClaimedForDispatch(table[w], d)
                                       ELSE table[w]]
  <2>1. rows' = next
    BY <1>3 DEF ClaimBatch
  <2>2. ASSUME NEW w \in Works PROVE Sound(next[w])
    <3>1. Sound(table[w]) /\ table[w] \in Row
      BY AfterRecoverySound DEF Sound
    <3>2. Sound(ClaimedForDispatch(table[w], d))
      BY <1>1, <3>1, ClaimedForDispatchSound
    <3>3. QED
      BY <3>1, <3>2
  <2>3. QED
    BY <2>1, <2>2, SoundTable
<1>4. ASSUME NEW c \in sent[d], HoldsClaim(d, c),
             Update(c.work, MarkedDispatched(rows[c.work]))
      PROVE  RowsTyped'
  <2>1. c.work \in Works
    BY DEF ClaimsTyped, Claim
  <2>2. Sound(MarkedDispatched(rows[c.work]))
    BY <1>4, <2>1, MarkedDispatchedSound DEF HoldsClaim, RowsTyped
  <2>3. QED
    BY <1>4, <2>1, <2>2, UpdateKeepsRows
<1>5. ASSUME NEW c \in failed[d], NEW delay \in Nat,
             NEW state \in {"retrying", "dead"},
             Update(c.work, Released(rows[c.work], state, delay))
      PROVE  RowsTyped'
  <2>1. c.work \in Works
    BY DEF ClaimsTyped, Claim
  <2>2. Sound(Released(rows[c.work], state, delay))
    BY <2>1, ReleasedSound DEF RowsTyped
  <2>3. QED
    BY <1>5, <2>1, <2>2, UpdateKeepsRows
<1>6. CASE MarkDispatched(d)
  BY <1>2, <1>4, <1>6 DEF MarkDispatched
<1>7. CASE MarkDispatchFailure(d)
  <2>1. PICK c \in failed[d] :
          \/ Update(c.work, Buried(rows[c.work]))
          \/ \E delay \in 0..RetryDelay : Update(c.work, Retried(rows[c.work], delay))
          \/ UNCHANGED rows
    BY <1>7 DEF MarkDispatchFailure
  <2>2. rows[c.work].delay \in Nat
    BY DEF ClaimsTyped, Claim, RowsTyped, Row
  <2>3. 0..RetryDelay \subseteq Nat
    BY OutboxAssumption
  <2>4. QED
    BY <1>2, <1>5, <2>1, <2>2, <2>3 DEF Buried, Retried
<1>8. QED
  BY <1>2, <1>3, <1>6, <1>7 DEF HandOff, Enqueue, EnqueueFails, DispatcherExits
\* What a retry writes: part of the back-off may have passed.
LEMMA RetryWrites ==
  ASSUME NEW k \in Slots, PersistRetry(k)
  PROVE  \E delay \in 0..RetryDelay :
           Update(slot[k].seen.work, Retried(rows[slot[k].seen.work], delay))
<1> DEFINE w == slot[k].seen.work
<1>1. PICK backoff \in 0..RetryDelay : \E delay \in 0..backoff : Update(w, Retried(rows[w], delay))
  BY DEF PersistRetry
<1>2. PICK delay \in 0..backoff : Update(w, Retried(rows[w], delay))
  BY <1>1
<1>3. delay \in 0..RetryDelay
  BY <1>1, <1>2, OutboxAssumption
<1> QED BY <1>2, <1>3

LEMMA SlotKeepsRows ==
  ASSUME Typed, NEW k \in Slots, Execution(k) \/ WorkerExits(k)
  PROVE  RowsTyped'
<1> DEFINE w == slot[k].seen.work
<1> USE DEF Typed
<1>1. ProcessOf[k] \in Owners
  BY BackgroundWorkAssumption
<1>2. CASE UNCHANGED rows
  BY <1>2 DEF RowsTyped
<1>3. ASSUME slot[k].pc # "idle"
      PROVE  w \in Works /\ rows[w] \in Row /\ LeasePair(rows[w]) /\ rows[w].delay \in Nat
  BY <1>3 DEF SlotsTyped, RowsTyped, Row
<1>4. CASE ClaimForExecution(k)
  <2>1. w \in Works /\ rows[w] \in Row
    BY <1>3, <1>4 DEF ClaimForExecution
  <2>2. Update(w, ClaimedForExecution(rows[w], ProcessOf[k]))
    BY <1>4 DEF ClaimForExecution
  <2>3. QED
    BY <1>1, <2>1, <2>2, ClaimedForExecutionSound, UpdateKeepsRows
<1>5. CASE RenewLease(k) /\ rows' # rows
  <2>1. /\ w \in Works /\ rows[w] \in Row /\ LeasePair(rows[w])
        /\ rows[w].state = "running"
        /\ Update(w, Renewed(rows[w]))
    BY <1>3, <1>5 DEF RenewLease, HoldsRow
  <2>2. QED
    BY <2>1, RenewedSound, UpdateKeepsRows
<1>6. ASSUME slot[k].pc # "idle", NEW delay \in Nat,
             NEW state \in {"retrying", "dead", "completed"},
             Update(w, Released(rows[w], state, delay))
      PROVE  RowsTyped'
  BY <1>3, <1>6, ReleasedSound, UpdateKeepsRows
<1>7. CASE PersistSuccess(k) \/ PersistDead(k) \/ PersistRetry(k)
  <2>1. slot[k].pc # "idle"
    BY <1>7 DEF PersistSuccess, PersistDead, PersistRetry, Applies
  <2>2. \/ Update(w, Completed(rows[w]))
        \/ Update(w, Buried(rows[w]))
        \/ \E delay \in 0..RetryDelay : Update(w, Retried(rows[w], delay))
    BY <1>7, RetryWrites DEF PersistSuccess, PersistDead
  <2>3. 0..RetryDelay \subseteq Nat
    BY OutboxAssumption
  <2>4. QED
    BY <1>3, <1>6, <2>1, <2>2, <2>3 DEF Completed, Buried, Retried
<1>8. QED
  BY <1>2, <1>4, <1>5, <1>7 DEF Execution, Reload, ClaimRefused, RenewLease, HandlerEnds,
     RetryClashes, OutcomeDiscarded, WorkerExits

\* What a tick does to a row: only the time that remains changes.
LEMMA TickedSound ==
  ASSUME NEW x \in Row, LeasePair(x)
  PROVE  LET y == [x EXCEPT !.lease = Less(@), !.delay = Less(@)] IN
         /\ Sound(y)
         /\ y = [x EXCEPT !.lease = y.lease, !.delay = y.delay]
<1> DEFINE l == Less(x.lease)
           m == Less(x.delay)
           y == [x EXCEPT !.lease = l, !.delay = m]
<1>1. l \in Nat /\ m \in Nat
  BY DEF Less, Row
<1> HIDE DEF l, m
<1>2. y \in Row /\ LeasePair(y) /\ y.lease = l /\ y.delay = m
  BY <1>1 DEF Row, LeasePair
<1>3. QED
  BY <1>2 DEF Sound, l, m

LEMMA ExternalKeepsRows ==
  ASSUME Typed, OperatorRecovers \/ ManualRequeue \/ QueueLosesJob \/ Tick
  PROVE  RowsTyped'
<1> USE DEF Typed
<1>1. CASE OperatorRecovers
  <2>1. rows' = AfterRecovery(rows)
    BY <1>1 DEF OperatorRecovers
  <2>2. AfterRecovery(rows) = [w \in Works |-> AfterRecovery(rows)[w]]
    BY DEF AfterRecovery
  <2>3. QED
    BY <2>1, <2>2, AfterRecoverySound, SoundTable
<1>2. CASE ManualRequeue
  <2>1. PICK w \in Works : Requeueable(rows[w]) /\ Update(w, Requeued(rows[w]))
    BY <1>2 DEF ManualRequeue
  <2>2. rows[w] \in Row /\ LeasePair(rows[w]) /\ rows[w].state = "dead"
    BY <2>1 DEF RowsTyped, Requeueable
  <2>3. QED
    BY <2>1, <2>2, RequeuedSound, UpdateKeepsRows
<1>3. CASE QueueLosesJob
  BY <1>3 DEF QueueLosesJob, RowsTyped
<1>4. CASE Tick
  <2> DEFINE table == [w \in Works |-> [rows[w] EXCEPT !.lease = Less(@), !.delay = Less(@)]]
  <2>1. rows' = table
    BY <1>4 DEF Tick
  <2>2. ASSUME NEW w \in Works PROVE Sound(table[w])
    <3>1. rows[w] \in Row /\ LeasePair(rows[w])
      BY DEF RowsTyped
    <3>2. QED
      BY <3>1, TickedSound
  <2>3. QED
    BY <2>1, <2>2, SoundTable
<1>5. QED
  BY <1>1, <1>2, <1>3, <1>4
-----------------------------------------------------------------------------
(* What the actors keep in between. *)

LEMMA ReadTyped ==
  ASSUME RowsTyped, NEW w \in Works
  PROVE  Read(w) \in Snapshot /\ Read(w).work = w
BY DEF RowsTyped, Row, Read, Snapshot

LEMMA UnreadTyped == Unread \in Snapshot
BY DEF Unread, Snapshot

LEMMA IdleSlotTyped == IdleSlot \in SlotState
BY UnreadTyped DEF IdleSlot, SlotState

LEMMA StagingKeepsRequests ==
  ASSUME Typed, NEW r \in Requests, Staging(r)
  PROVE  RequestsTyped'
<1>1. ASSUME NEW pc \in {"insert", "resolve", "done", "failed"}, Finish(r, pc)
      PROVE  RequestsTyped'
  BY <1>1, UnreadTyped DEF Typed, RequestsTyped, Finish, RequestState
<1>2. ASSUME NEW w \in Works, request' = [request EXCEPT ![r] = [pc |-> "merge", seen |-> Read(w)]]
      PROVE  RequestsTyped'
  BY <1>2, ReadTyped DEF Typed, RequestsTyped, RequestState
<1>3. CASE ReadCandidate(r)
  BY <1>2, <1>3 DEF ReadCandidate, Mergeable
<1>4. CASE ~ReadCandidate(r)
  <2>1. \E pc \in {"insert", "resolve", "done", "failed"} : Finish(r, pc)
    BY <1>4 DEF Staging, ResolveDuplicate, FindNothing, Merge, MergeConflicts, Insert,
       InsertClashes
  <2>2. QED
    BY <1>1, <2>1
<1>5. QED
  BY <1>3, <1>4

LEMMA DispatcherKeepsClaims ==
  ASSUME Typed, NEW d \in Dispatchers, ClaimBatch(d) \/ HandOff(d) \/ DispatcherExits(d)
  PROVE  ClaimsTyped' /\ JobsTyped'
<1> USE DEF Typed, ClaimsTyped, JobsTyped
<1>1. CASE ClaimBatch(d)
  <2>1. RowsTyped'
    BY <1>1, DispatcherKeepsRows
  <2> DEFINE due == Due(AfterRecovery(rows))
             new == {[work |-> w, version |-> rows'[w].version] : w \in due}
  <2>2. todo' = [todo EXCEPT ![d] = new] /\ UNCHANGED <<sent, failed, jobs>>
    BY <1>1 DEF ClaimBatch
  <2>3. new \in SUBSET Claim
    BY <2>1 DEF Due, RowsTyped, Row, Claim
  <2>4. QED
    BY <2>2, <2>3
<1>2. ASSUME NEW c \in todo[d], Enqueued(c.work) PROVE JobsTyped'
  BY <1>2 DEF Enqueued, Claim
<1>3. CASE Enqueue(d)
  BY <1>2, <1>3 DEF Enqueue
<1>4. CASE EnqueueFails(d)
  BY <1>2, <1>4 DEF EnqueueFails
<1>5. CASE MarkDispatched(d) \/ MarkDispatchFailure(d) \/ DispatcherExits(d)
  BY <1>5 DEF MarkDispatched, MarkDispatchFailure, DispatcherExits
<1>6. QED
  BY <1>1, <1>3, <1>4, <1>5 DEF HandOff

LEMMA SlotKeepsJobs ==
  ASSUME Typed, NEW k \in Slots, Execution(k) \/ WorkerExits(k)
  PROVE  JobsTyped'
<1> USE DEF Typed, JobsTyped
<1>1. ASSUME NEW w, Consume(w) PROVE JobsTyped'
  BY <1>1 DEF Consume
<1>2. CASE UNCHANGED jobs
  BY <1>2
<1>3. CASE PersistRetry(k)
  <2>1. PICK backoff \in 0..RetryDelay :
          \/ jobs' = [jobs EXCEPT ![slot[k].seen.work] = backoff]
          \/ UNCHANGED jobs
    BY <1>3 DEF PersistRetry
  <2>2. backoff \in Nat
    BY <2>1, OutboxAssumption
  <2> QED BY <2>1, <2>2
<1>4. QED
  BY <1>1, <1>2, <1>3 DEF Execution, Reload, ClaimForExecution, ClaimRefused, RenewLease,
     HandlerEnds, PersistSuccess, PersistDead, RetryClashes, OutcomeDiscarded, JobAfter,
     WorkerExits

LEMMA SlotKeepsSlots ==
  ASSUME Typed, NEW k \in Slots, Execution(k) \/ WorkerExits(k)
  PROVE  SlotsTyped'
<1> DEFINE w == slot[k].seen.work
           seen == slot[k].seen
<1> USE DEF Typed
<1>1. slot[k] \in SlotState /\ seen \in Snapshot
  BY DEF SlotsTyped, SlotState
<1>2. ASSUME NEW s \in SlotState, s.pc # "idle" => s.seen.work \in Works, Become(k, s)
      PROVE  SlotsTyped'
  BY <1>2 DEF SlotsTyped, Become
<1>3. CASE UNCHANGED slot
  BY <1>3 DEF SlotsTyped
<1>4. CASE Become(k, IdleSlot)
  BY <1>2, <1>4, IdleSlotTyped DEF IdleSlot
<1>5. CASE Reload(k) /\ ~UNCHANGED slot
  <2>1. PICK v \in Works : Become(k, [IdleSlot EXCEPT !.pc = "read", !.seen = Read(v)])
    BY <1>5 DEF Reload
  <2> DEFINE s == [IdleSlot EXCEPT !.pc = "read", !.seen = Read(v)]
  <2>2. Read(v) \in Snapshot /\ Read(v).work \in Works
    BY ReadTyped
  <2>3. s \in SlotState /\ s.seen = Read(v)
    BY <2>2, IdleSlotTyped DEF SlotState
  <2>4. QED
    BY <1>2, <2>1, <2>2, <2>3
<1>6. ASSUME slot[k].pc # "idle"
      PROVE  w \in Works /\ [seen EXCEPT !.version = @ + 1] \in Snapshot
                         /\ [seen EXCEPT !.version = @ + 1].work = w
  <2> DEFINE n == seen.version + 1
  <2>1. n \in Nat
    BY <1>1 DEF Snapshot
  <2> HIDE DEF n
  <2>2. [seen EXCEPT !.version = n] \in Snapshot /\ [seen EXCEPT !.version = n].work = w
    BY <1>1, <2>1 DEF Snapshot
  <2>3. w \in Works
    BY <1>6 DEF SlotsTyped
  <2>4. QED
    BY <2>2, <2>3 DEF n
<1>7. CASE ClaimForExecution(k)
  <2> DEFINE dead == rows[w].key \in Unregistered
             next == [seen EXCEPT !.version = @ + 1]
             pc   == IF dead THEN "ended"
                     ELSE IF HandlerLease > ClaimLease THEN "claimed" ELSE "running"
             out  == IF dead THEN "fatal" ELSE "none"
             s    == [IdleSlot EXCEPT !.pc = pc, !.seen = next, !.outcome = out, !.live = dead]
  <2>1. Become(k, s) /\ slot[k].pc # "idle"
    BY <1>7 DEF ClaimForExecution
  <2>2. next \in Snapshot /\ next.work \in Works
    BY <1>6, <2>1
  <2>3. pc \in {"ended", "claimed", "running"} /\ out \in {"fatal", "none"} /\ dead \in BOOLEAN
    OBVIOUS
  <2> HIDE DEF pc, out, dead, next
  <2>4. s \in SlotState /\ s.seen = next
    BY <2>2, <2>3, IdleSlotTyped DEF SlotState
  <2>5. QED
    BY <1>2, <2>1, <2>2, <2>4
<1>8. CASE RenewLease(k) /\ ~Become(k, IdleSlot)
  <2> DEFINE next == [seen EXCEPT !.version = @ + 1]
             s    == [slot[k] EXCEPT !.pc = "running", !.seen = next]
  <2>1. Become(k, s) /\ slot[k].pc # "idle"
    BY <1>8 DEF RenewLease
  <2>2. next \in Snapshot /\ next.work \in Works
    BY <1>6, <2>1
  <2> HIDE DEF next
  <2>3. s \in SlotState /\ s.seen = next
    BY <1>1, <2>2 DEF SlotState
  <2>4. QED
    BY <1>2, <2>1, <2>2, <2>3
<1>9. CASE HandlerEnds(k)
  <2>1. PICK outcome \in {"success", "retryable", "fatal", "cancelled"} :
          Become(k, [slot[k] EXCEPT !.pc = "ended", !.outcome = outcome, !.live = rows[w].lease > 0])
    BY <1>9 DEF HandlerEnds
  <2> DEFINE live == rows[w].lease > 0
             s == [slot[k] EXCEPT !.pc = "ended", !.outcome = outcome, !.live = live]
  <2>2. slot[k].pc # "idle" /\ live \in BOOLEAN
    BY <1>9 DEF HandlerEnds
  <2> HIDE DEF live
  <2>3. s \in SlotState /\ s.seen = seen
    BY <1>1, <2>2 DEF SlotState
  <2>4. QED
    BY <1>2, <1>6, <2>1, <2>2, <2>3 DEF live
<1>10. QED
  BY <1>3, <1>4, <1>5, <1>7, <1>8, <1>9 DEF Execution, Reload, ClaimRefused,
     PersistSuccess, PersistDead, PersistRetry, RetryClashes, OutcomeDiscarded, WorkerExits
-----------------------------------------------------------------------------
LEMMA TypedInit == Init => Typed
<1> SUFFICES ASSUME Init PROVE Typed
  OBVIOUS
<1>1. RowsTyped
  BY NoRowSound DEF Init, RowsTyped, Sound
<1>2. RequestsTyped
  BY UnreadTyped DEF Init, RequestsTyped, RequestState
<1>3. SlotsTyped
  BY IdleSlotTyped DEF Init, SlotsTyped, IdleSlot
<1>4. QED
  BY <1>1, <1>2, <1>3 DEF Init, Typed, ClaimsTyped, JobsTyped

LEMMA TypedNext == Typed /\ [Next]_vars => Typed'
<1> SUFFICES ASSUME Typed, [Next]_vars PROVE Typed'
  OBVIOUS
<1>1. ASSUME NEW r \in Requests, Staging(r) PROVE Typed'
  BY <1>1, StagingFrame, StagingKeepsRows, StagingKeepsRequests
     DEF Typed, ClaimsTyped, JobsTyped, SlotsTyped
<1>2. ASSUME NEW d \in Dispatchers, ClaimBatch(d) \/ HandOff(d) \/ DispatcherExits(d)
      PROVE  Typed'
  BY <1>2, DispatcherFrame, DispatcherKeepsRows, DispatcherKeepsClaims
     DEF Typed, RequestsTyped, SlotsTyped
<1>3. ASSUME NEW k \in Slots, Execution(k) \/ WorkerExits(k) PROVE Typed'
  <2>1. handled' \in SUBSET Intents
    <3>1. handled' \in {handled, handled \cup slot[k].seen.payload}
      BY <1>3 DEF Execution, Reload, ClaimForExecution, ClaimRefused, RenewLease, HandlerEnds,
         PersistSuccess, PersistDead, PersistRetry, RetryClashes, OutcomeDiscarded, WorkerExits
    <3>2. slot[k].seen.payload \in SUBSET Intents
      BY DEF Typed, SlotsTyped, SlotState, Snapshot
    <3>3. QED
      BY <3>1, <3>2 DEF Typed
  <2>2. QED
    BY <1>3, <2>1, SlotFrame, SlotKeepsRows, SlotKeepsJobs, SlotKeepsSlots
       DEF Typed, RequestsTyped, ClaimsTyped
<1>4. CASE OperatorRecovers \/ ManualRequeue \/ QueueLosesJob \/ Tick
  <2>1. JobsTyped'
    <3>1. CASE UNCHANGED jobs
      BY <3>1 DEF Typed, JobsTyped
    <3>2. CASE QueueLosesJob
      BY <3>2 DEF QueueLosesJob, Consume, Typed, JobsTyped
    <3>3. CASE Tick
      <4>1. \A n \in Nat : Less(n) \in Nat
        BY DEF Less
      <4>2. jobs' = [w \in Works |-> IF jobs[w] = NoJob THEN NoJob ELSE Less(jobs[w])]
        BY <3>3 DEF Tick
      <4>3. QED
        BY <4>1, <4>2 DEF Typed, JobsTyped
    <3>4. QED
      BY <1>4, <3>1, <3>2, <3>3 DEF OperatorRecovers, ManualRequeue, stagingOnly
  <2>2. QED
    BY <1>4, <2>1, ExternalFrame, ExternalKeepsRows DEF Typed, RequestsTyped, ClaimsTyped, SlotsTyped
<1>5. CASE UNCHANGED vars
  BY <1>5 DEF vars, Typed, RowsTyped, RequestsTyped, ClaimsTyped, JobsTyped, SlotsTyped
<1>6. QED
  BY <1>1, <1>2, <1>3, <1>4, <1>5 DEF Next

\* Every reachable state of the pipeline is well typed, and a row holds a lease
\* owner exactly in the leased states: ck_background_work_items_lease_pair is
\* never violated by a write of outbox.py.
THEOREM TypeCorrect == Spec => []TypeOK
<1>1. Typed => TypeOK
  BY DEF Typed, TypeOK, RowsTyped, RequestsTyped, ClaimsTyped, JobsTyped, SlotsTyped
<1>2. QED
  BY <1>1, TypedInit, TypedNext, PTL DEF Spec

-----------------------------------------------------------------------------
(***************************************************************************)
(* The safety invariants.  The argument has one idea: a row's version      *)
(* orders its contents, so what an actor has read is either the row as it  *)
(* stands or older than it, and an update that asks for the version it has *)
(* read applies only in the first case.                                    *)
(***************************************************************************)

RowsFounded == \A w \in Works : Founded(rows[w]) /\ WithinBudget(rows[w])

\* A merge candidate is the row as it stands, or older.
MergesBehind ==
  \A r \in Requests :
    request[r].pc = "merge" =>
      LET seen == request[r].seen
          x    == rows[seen.work]
      IN /\ seen.version <= x.version
         /\ seen.version = x.version =>
              seen.payload = x.payload /\ x.state \in ActiveCoalescing

\* What a slot works on is the row as it stands, or older.
SlotsBehind ==
  \A k \in Slots :
    slot[k].pc # "idle" =>
      LET seen == slot[k].seen
          x    == rows[seen.work]
      IN /\ seen.version <= x.version
         /\ seen.version = x.version => seen.payload = x.payload

ClaimsBehind ==
  \A d \in Dispatchers : \A c \in ClaimsOf(d) : c.version <= rows[c.work].version

\* A success that waits to be persisted has been counted.
SuccessesHandled ==
  \A k \in Slots :
    slot[k].pc = "ended" /\ slot[k].outcome = "success" => slot[k].seen.payload \subseteq handled

\* A row carries every intent whose request has committed.
AcceptedCarried == \A i \in Intents : Accepted(i) => Carriers(i) # {}

Safe ==
  /\ Typed
  /\ RowsFounded
  /\ MergesBehind
  /\ SlotsBehind
  /\ ClaimsBehind
  /\ StaleClaimsFenced
  /\ SuccessesHandled
  /\ CompletedWorkWasHandled
  /\ AcceptedCarried

-----------------------------------------------------------------------------
(* Every step moves every row as RowMove says, or completes one. *)

LEMMA Still ==
  ASSUME NEW x \in Row
  PROVE  RowMove(x, x)
BY DEF RowMove, Recovering

LEMMA StagingMoves ==
  ASSUME Safe, NEW r \in Requests, Staging(r), NEW w \in Works
  PROVE  RowMove(rows[w], rows'[w])
<1> DEFINE i == IntentOf[r]
<1>1. i \in Intents /\ rows[w] \in Row /\ rows \in [Works -> Row] /\ StageDelays \subseteq Nat
  BY BackgroundWorkAssumption DEF Safe, Typed, RowsTyped
<1>2. CASE rows'[w] = rows[w]
  BY <1>1, <1>2, Still
<1>3. CASE Merge(r) /\ rows'[w] # rows[w]
  <2>1. PICK delay \in StageDelays :
          Update(request[r].seen.work,
                 Coalesced(rows[request[r].seen.work], request[r].seen.payload, i, delay))
    BY <1>3 DEF Merge
  <2>2. w = request[r].seen.work
    BY <1>1, <1>3, <2>1 DEF Update
  <2>3. request[r].seen.payload = rows[w].payload /\ rows[w].state \in ActiveCoalescing
    BY <1>3, <2>2 DEF Merge, StillAsRead, Safe, MergesBehind
  <2>4. rows'[w] = Coalesced(rows[w], rows[w].payload, i, delay)
    BY <1>1, <2>1, <2>2, <2>3 DEF Update
  <2>5. QED
    BY <1>1, <2>3, <2>4 DEF RowMove
<1>4. CASE Insert(r) /\ rows'[w] # rows[w]
  <2>1. PICK v \in Works, delay \in StageDelays :
          rows[v].state = "absent" /\ Update(v, NewRow(i, delay))
    BY <1>4 DEF Insert
  <2>2. v = w /\ rows'[w] = NewRow(i, delay)
    BY <1>1, <1>4, <2>1 DEF Update
  <2>3. QED
    BY <1>1, <2>1, <2>2 DEF RowMove
<1>5. QED
  BY <1>2, <1>3, <1>4 DEF Staging, ResolveDuplicate, ReadCandidate, FindNothing,
     MergeConflicts, InsertClashes

LEMMA RecoveryMoves ==
  ASSUME Typed, NEW w \in Works
  PROVE  Recovering(rows[w], AfterRecovery(rows)[w])
BY DEF AfterRecovery, Recovering

LEMMA DispatcherMoves ==
  ASSUME Safe, NEW d \in Dispatchers, ClaimBatch(d) \/ HandOff(d) \/ DispatcherExits(d),
         NEW w \in Works
  PROVE  RowMove(rows[w], rows'[w])
<1>1. rows[w] \in Row /\ rows \in [Works -> Row] /\ d \in Owners
  BY BackgroundWorkAssumption DEF Safe, Typed, RowsTyped
<1>2. CASE rows'[w] = rows[w]
  BY <1>1, <1>2, Still
<1>3. CASE ClaimBatch(d)
  <2> DEFINE z == AfterRecovery(rows)[w]
  <2>1. Recovering(rows[w], z) /\ z \in Row
    BY RecoveryMoves, AfterRecoverySound DEF Safe, Typed, Sound
  <2>2. \/ z.state \in DispatchEligible /\ rows'[w] = ClaimedForDispatch(z, d)
        \/ rows'[w] = z
    BY <1>3 DEF ClaimBatch, Due
  <2>3. QED
    BY <1>1, <2>1, <2>2 DEF RowMove
<1>4. CASE MarkDispatched(d) /\ rows'[w] # rows[w]
  <2>1. PICK c \in sent[d] : HoldsClaim(d, c) /\ Update(c.work, MarkedDispatched(rows[c.work]))
    BY <1>4 DEF MarkDispatched
  <2>2. c.work = w
    BY <1>1, <1>4, <2>1 DEF Update
  <2>3. rows[w].state = "dispatching" /\ rows'[w] = MarkedDispatched(rows[w])
    BY <1>1, <2>1, <2>2 DEF Update, HoldsClaim
  <2>4. QED
    BY <2>3 DEF RowMove
<1>5. CASE MarkDispatchFailure(d) /\ rows'[w] # rows[w]
  <2>1. PICK c \in failed[d] :
          /\ HoldsClaim(d, c)
          /\ \/ rows[c.work].dispatches >= MaxAttempts /\ Update(c.work, Buried(rows[c.work]))
             \/ /\ rows[c.work].dispatches < MaxAttempts
                /\ \E delay \in 0..RetryDelay : Update(c.work, Retried(rows[c.work], delay))
    BY <1>5 DEF MarkDispatchFailure
  <2>2. c.work = w
    BY <1>1, <1>5, <2>1 DEF Update
  <2>3. rows[w].state = "dispatching"
    BY <2>1, <2>2 DEF HoldsClaim
  <2>4. \/ rows[w].dispatches >= MaxAttempts /\ rows'[w] = Buried(rows[w])
        \/ /\ rows[w].dispatches < MaxAttempts
           /\ \E delay \in 0..RetryDelay : rows'[w] = Retried(rows[w], delay)
    BY <1>1, <2>1, <2>2 DEF Update
  <2>5. 0..RetryDelay \subseteq Nat
    BY OutboxAssumption
  <2>6. QED
    BY <2>3, <2>4, <2>5 DEF RowMove
<1>6. QED
  BY <1>2, <1>3, <1>4, <1>5 DEF HandOff, Enqueue, EnqueueFails, DispatcherExits

\* What a slot does to a row of its own, the completion of the row included.
LEMMA SlotMoves ==
  ASSUME Safe, NEW k \in Slots, Execution(k) \/ WorkerExits(k), NEW w \in Works
  PROVE  \/ RowMove(rows[w], rows'[w])
         \/ /\ PersistSuccess(k)
            /\ w = slot[k].seen.work
            /\ rows'[w] = Completed(rows[w])
<1> DEFINE v == slot[k].seen.work
<1>1. /\ rows[w] \in Row /\ rows \in [Works -> Row]
      /\ ProcessOf[k] \in Owners /\ 0..RetryDelay \subseteq Nat
  BY BackgroundWorkAssumption, OutboxAssumption DEF Safe, Typed, RowsTyped
<1>2. CASE rows'[w] = rows[w]
  BY <1>1, <1>2, Still
<1>3. ASSUME NEW x, Update(v, x), rows'[w] # rows[w]
      PROVE  w = v /\ rows'[w] = x
  BY <1>1, <1>3 DEF Update
<1>4. CASE ClaimForExecution(k) /\ rows'[w] # rows[w]
  <2>1. Executable(rows[v]) /\ Update(v, ClaimedForExecution(rows[v], ProcessOf[k]))
    BY <1>4 DEF ClaimForExecution, ClaimAllowed
  <2>2. Executable(rows[w]) /\ rows'[w] = ClaimedForExecution(rows[w], ProcessOf[k])
    BY <1>3, <1>4, <2>1
  <2>3. QED
    BY <1>1, <2>2 DEF RowMove, Executable
<1>5. CASE RenewLease(k) /\ rows'[w] # rows[w]
  <2>1. rows[v].state = "running" /\ Update(v, Renewed(rows[v]))
    BY <1>5 DEF RenewLease, HoldsRow
  <2>2. rows[w].state = "running" /\ rows'[w] = Renewed(rows[w])
    BY <1>3, <1>5, <2>1
  <2>3. QED
    BY <2>2 DEF RowMove
<1>6. CASE PersistDead(k) /\ rows'[w] # rows[w]
  <2>1. rows[v].state = "running" /\ Update(v, Buried(rows[v]))
    BY <1>6 DEF PersistDead, Applies, HoldsRow
  <2>2. rows[w].state = "running" /\ rows'[w] = Buried(rows[w])
    BY <1>3, <1>6, <2>1
  <2>3. QED
    BY <2>2 DEF RowMove
<1>7. CASE PersistRetry(k) /\ rows'[w] # rows[w]
  <2>1. PICK delay \in 0..RetryDelay : Update(v, Retried(rows[v], delay))
    BY <1>7, RetryWrites
  <2>2. rows[v].state = "running" /\ rows[v].executions < MaxAttempts
    BY <1>7 DEF PersistRetry, Applies, HoldsRow, MayRetry
  <2>3. w = v /\ rows'[w] = Retried(rows[w], delay)
    BY <1>3, <1>7, <2>1
  <2>4. QED
    BY <1>1, <2>2, <2>3 DEF RowMove
<1>8. CASE PersistSuccess(k) /\ rows'[w] # rows[w]
  <2>1. Update(v, Completed(rows[v]))
    BY <1>8 DEF PersistSuccess
  <2>2. QED
    BY <1>3, <1>8, <2>1
<1>9. QED
  BY <1>2, <1>4, <1>5, <1>6, <1>7, <1>8 DEF Execution, Reload, ClaimRefused, HandlerEnds,
     RetryClashes, OutcomeDiscarded, WorkerExits

LEMMA ExternalMoves ==
  ASSUME Safe, OperatorRecovers \/ ManualRequeue \/ QueueLosesJob \/ Tick, NEW w \in Works
  PROVE  RowMove(rows[w], rows'[w])
<1>1. rows[w] \in Row /\ LeasePair(rows[w]) /\ rows \in [Works -> Row]
  BY DEF Safe, Typed, RowsTyped
<1>2. CASE rows'[w] = rows[w]
  BY <1>1, <1>2, Still
<1>3. CASE OperatorRecovers
  BY <1>3, RecoveryMoves DEF OperatorRecovers, Safe, RowMove
<1>4. CASE ManualRequeue /\ rows'[w] # rows[w]
  <2>1. PICK v \in Works : Requeueable(rows[v]) /\ Update(v, Requeued(rows[v]))
    BY <1>4 DEF ManualRequeue
  <2>2. v = w /\ rows'[w] = Requeued(rows[w])
    BY <1>1, <1>4, <2>1 DEF Update
  <2>3. QED
    BY <2>1, <2>2 DEF RowMove, Requeueable
<1>5. CASE Tick
  <2>1. rows'[w] = [rows[w] EXCEPT !.lease = Less(@), !.delay = Less(@)]
    BY <1>5 DEF Tick
  <2>2. /\ rows'[w] = [rows[w] EXCEPT !.lease = rows'[w].lease, !.delay = rows'[w].delay]
        /\ rows'[w] \in Row
    BY <1>1, <2>1, TickedSound DEF Sound
  <2>3. rows'[w].lease \in Nat /\ rows'[w].delay \in Nat
    BY <2>2 DEF Row
  <2>4. QED
    BY <2>2, <2>3 DEF RowMove
<1>6. QED
  BY <1>2, <1>3, <1>4, <1>5 DEF QueueLosesJob
-----------------------------------------------------------------------------
(* Hence rows only advance, whatever the step. *)

\* A success that slot k persists in this step for row w.
Completes(k, w) ==
  /\ PersistSuccess(k)
  /\ w = slot[k].seen.work
  /\ rows'[w] = Completed(rows[w])

LEMMA StepMoves ==
  ASSUME Safe, Next, NEW w \in Works
  PROVE  RowMove(rows[w], rows'[w]) \/ \E k \in Slots : Completes(k, w)
BY StagingMoves, DispatcherMoves, SlotMoves, ExternalMoves DEF Next, Completes

RowsAdvance == \A w \in Works : Advances(rows[w], rows'[w])

LEMMA StepPreserves ==
  ASSUME Safe, Next
  PROVE  /\ RowsAdvance
         /\ RowsFounded'
         /\ \A w \in Works : \/ NotCompleting(rows[w], rows'[w])
                             \/ \E k \in Slots : Completes(k, w)
<1> SUFFICES ASSUME NEW w \in Works
             PROVE  /\ Advances(rows[w], rows'[w])
                    /\ Founded(rows'[w]) /\ WithinBudget(rows'[w])
                    /\ \/ NotCompleting(rows[w], rows'[w])
                       \/ \E k \in Slots : Completes(k, w)
  BY DEF RowsAdvance, RowsFounded
<1>1. rows[w] \in Row /\ Founded(rows[w]) /\ WithinBudget(rows[w])
  BY DEF Safe, Typed, RowsTyped, RowsFounded
<1>2. CASE RowMove(rows[w], rows'[w])
  BY <1>1, <1>2, MovePreserves DEF Preserves
<1>3. CASE \E k \in Slots : Completes(k, w)
  BY <1>1, <1>3, CompletionPreserves DEF Completes
<1>4. QED
  BY <1>2, <1>3, StepMoves

\* What was behind a row that advances stays behind it, and is the row as it
\* stands only if it was so before.
LEMMA StaysBehind ==
  ASSUME Typed, Typed', RowsAdvance, NEW w \in Works, NEW n \in Nat, n <= rows[w].version
  PROVE  /\ n <= rows'[w].version
         /\ n = rows'[w].version =>
              /\ n = rows[w].version
              /\ rows'[w].state = rows[w].state
              /\ rows'[w].owner = rows[w].owner
              /\ rows'[w].payload = rows[w].payload
<1>1. rows[w].version \in Nat /\ rows'[w].version \in Nat
  BY DEF Typed, RowsTyped, Row
<1>2. Advances(rows[w], rows'[w])
  BY DEF RowsAdvance
<1>3. QED
  BY <1>1, <1>2 DEF Advances

LEMMA PayloadGrows ==
  ASSUME RowsAdvance, NEW w \in Works
  PROVE  rows[w].payload \subseteq rows'[w].payload
BY DEF RowsAdvance, Advances

-----------------------------------------------------------------------------
(* What the requests have read. *)

LEMMA MergesStayBehind ==
  ASSUME Safe, Typed', Next, RowsAdvance
  PROVE  MergesBehind'
<1> SUFFICES ASSUME NEW r \in Requests, request'[r].pc = "merge"
             PROVE  LET seen == request'[r].seen
                        x    == rows'[seen.work]
                    IN /\ seen.version <= x.version
                       /\ seen.version = x.version =>
                            seen.payload = x.payload /\ x.state \in ActiveCoalescing
  BY DEF MergesBehind
<1>1. request \in [Requests -> RequestState] /\ rows \in [Works -> Row]
  BY DEF Safe, Typed, RequestsTyped, RowsTyped
<1>2. CASE request'[r] = request[r]
  <2>1. /\ request[r].seen.work \in Works /\ request[r].seen.version \in Nat
        /\ request[r].pc = "merge"
    BY <1>1, <1>2 DEF Safe, Typed, RequestsTyped, RequestState, Snapshot
  <2>2. /\ request[r].seen.version <= rows[request[r].seen.work].version
        /\ request[r].seen.version = rows[request[r].seen.work].version =>
             /\ request[r].seen.payload = rows[request[r].seen.work].payload
             /\ rows[request[r].seen.work].state \in ActiveCoalescing
    BY <2>1 DEF Safe, MergesBehind
  <2>3. QED
    BY <1>2, <2>1, <2>2, StaysBehind DEF Safe
<1>3. CASE request'[r] # request[r]
  <2>1. PICK q \in Requests : Staging(q)
    BY <1>3, DispatcherFrame, SlotFrame, ExternalFrame DEF Next
  <2>2. CASE ReadCandidate(q)
    <3>1. PICK w \in Mergeable(IntentOf[q]) :
            request' = [request EXCEPT ![q] = [pc |-> "merge", seen |-> Read(w)]]
      BY <2>2 DEF ReadCandidate
    <3>2. request'[r].seen = Read(w) /\ w \in Works /\ rows[w].state \in ActiveCoalescing
      BY <1>1, <1>3, <3>1 DEF Mergeable
    <3>3. rows' = rows /\ rows[w].version \in Nat
      BY <1>1, <2>2, <3>2 DEF ReadCandidate, Row
    <3>4. QED
      BY <3>2, <3>3 DEF Read
  <2>3. CASE ~ReadCandidate(q)
    <3>1. \E pc \in {"insert", "resolve", "done", "failed"} : Finish(q, pc)
      BY <2>1, <2>3 DEF Staging, ResolveDuplicate, FindNothing, Merge, MergeConflicts, Insert,
         InsertClashes
    <3>2. request'[r] = request[r] \/ request'[r].pc # "merge"
      BY <1>1, <3>1 DEF Finish
    <3>3. QED
      BY <1>3, <3>2
  <2>4. QED
    BY <2>2, <2>3
<1>4. QED
  BY <1>2, <1>3

-----------------------------------------------------------------------------
(* What the dispatchers have claimed. *)

FencedClaim(d, c) ==
  /\ c.version <= rows[c.work].version
  /\ c.version = rows[c.work].version =>
       rows[c.work].state = "dispatching" /\ rows[c.work].owner = d

ClaimsFenced == \A d \in Dispatchers : \A c \in ClaimsOf(d) : FencedClaim(d, c)

LEMMA ClaimsStayFenced ==
  ASSUME Safe, Typed', Next, RowsAdvance, ClaimsFenced
  PROVE  ClaimsFenced'
<1> SUFFICES ASSUME NEW d \in Dispatchers, NEW c \in ClaimsOf(d)'
             PROVE  FencedClaim(d, c)'
  BY DEF ClaimsFenced
<1>1. /\ todo \in [Dispatchers -> SUBSET Claim]
      /\ sent \in [Dispatchers -> SUBSET Claim]
      /\ failed \in [Dispatchers -> SUBSET Claim]
  BY DEF Safe, Typed, ClaimsTyped
<1>2. CASE c \in ClaimsOf(d)
  <2>1. c.work \in Works /\ c.version \in Nat
    BY <1>1, <1>2 DEF ClaimsOf, Claim
  <2>2. FencedClaim(d, c)
    BY <1>2 DEF ClaimsFenced
  <2>3. QED
    BY <2>1, <2>2, StaysBehind DEF FencedClaim, Safe
<1>3. CASE c \notin ClaimsOf(d)
  <2>1. PICK e \in Dispatchers : ClaimBatch(e) \/ HandOff(e) \/ DispatcherExits(e)
    BY <1>3, StagingFrame, SlotFrame, ExternalFrame DEF Next, ClaimsOf
  <2>2. ClaimBatch(e)
    BY <1>1, <1>3, <2>1 DEF HandOff, Enqueue, EnqueueFails, MarkDispatched,
       MarkDispatchFailure, DispatcherExits, ClaimsOf
  <2> DEFINE table == AfterRecovery(rows)
             due   == Due(table)
  <2>3. d = e /\ c \in {[work |-> w, version |-> rows'[w].version] : w \in due}
    BY <1>1, <1>3, <2>2 DEF ClaimBatch, ClaimsOf
  <2>4. PICK w \in due : c = [work |-> w, version |-> rows'[w].version]
    BY <2>3
  <2>5. w \in Works /\ rows'[w] = ClaimedForDispatch(table[w], d) /\ table[w] \in Row
    BY <2>2, <2>3, AfterRecoverySound DEF ClaimBatch, Due, Safe, Typed, Sound
  <2>6. rows'[w].state = "dispatching" /\ rows'[w].owner = d /\ rows'[w].version \in Nat
    BY <2>5, ClaimFields DEF Typed, RowsTyped, Row
  <2>7. QED
    BY <2>4, <2>6 DEF FencedClaim
<1>4. QED
  BY <1>2, <1>3
-----------------------------------------------------------------------------
(* What the worker slots have read and claimed. *)

Keeps(k) ==
  /\ slot[k].pc # "idle"
  /\ slot'[k].seen = slot[k].seen
  /\ Claimed(k)' => Claimed(k)

Reads(k) ==
  /\ slot'[k].pc = "read"
  /\ rows' = rows
  /\ \E w \in Works : slot'[k].seen = Read(w)

\* The claim or the renewal of slot k: nobody else has seen the new version.
Takes(k) ==
  LET w == slot[k].seen.work IN
  /\ slot[k].pc # "idle"
  /\ slot[k].seen.version = rows[w].version
  /\ slot'[k].seen = [slot[k].seen EXCEPT !.version = rows[w].version + 1]
  /\ rows'[w].version = rows[w].version + 1
  /\ rows'[w].payload = rows[w].payload
  /\ rows'[w].state = "running"
  /\ rows'[w].owner = ProcessOf[k]
  /\ \A j \in Slots : j # k => slot'[j] = slot[j]

LEMMA SlotChange ==
  ASSUME Safe, Next, NEW k \in Slots, slot'[k].pc # "idle"
  PROVE  Keeps(k) \/ Reads(k) \/ Takes(k)
<1> DEFINE w == slot[k].seen.work
<1>1. slot \in [Slots -> SlotState] /\ slot[k] \in SlotState /\ rows \in [Works -> Row]
  BY DEF Safe, Typed, SlotsTyped, RowsTyped
<1>2. CASE slot'[k] = slot[k]
  BY <1>2 DEF Keeps, Claimed
<1>3. CASE slot'[k] # slot[k]
  <2>1. PICK j \in Slots : Execution(j) \/ WorkerExits(j)
    BY <1>3, StagingFrame, DispatcherFrame, ExternalFrame DEF Next
  <2>2. \A i \in Slots : i # j => slot'[i] = slot[i]
    BY <1>1, <2>1 DEF Execution, Reload, ClaimForExecution, ClaimRefused, RenewLease,
       HandlerEnds, PersistSuccess, PersistDead, PersistRetry, RetryClashes,
       OutcomeDiscarded, WorkerExits, Become
  <2>3. j = k
    BY <1>3, <2>2
  <2>4. ~Become(k, IdleSlot)
    BY <1>1 DEF Become, IdleSlot
  <2>5. CASE Reload(k)
    <3>1. PICK v \in Works : Become(k, [IdleSlot EXCEPT !.pc = "read", !.seen = Read(v)])
      BY <1>3, <2>5 DEF Reload
    <3>2. slot'[k].pc = "read" /\ slot'[k].seen = Read(v)
      BY <1>1, <3>1 DEF Become, IdleSlot
    <3>3. QED
      BY <2>5, <3>2 DEF Reload, Reads
  <2>6. ASSUME slot[k].pc # "idle"
        PROVE  w \in Works /\ rows[w] \in Row /\ slot[k].seen \in Snapshot
    BY <1>1, <2>6 DEF Safe, Typed, SlotsTyped, SlotState
  <2>7. CASE ClaimForExecution(k)
    <3>1. /\ slot[k].pc # "idle" /\ slot[k].seen.version = rows[w].version
          /\ Update(w, ClaimedForExecution(rows[w], ProcessOf[k]))
      BY <2>7 DEF ClaimForExecution, ClaimAllowed
    <3>2. slot'[k].seen = [slot[k].seen EXCEPT !.version = @ + 1]
      BY <1>1, <2>7 DEF ClaimForExecution, Become, IdleSlot
    <3>3. rows'[w] = ClaimedForExecution(rows[w], ProcessOf[k])
      BY <1>1, <2>6, <3>1 DEF Update
    <3>4. QED
      BY <2>2, <2>3, <2>6, <3>1, <3>2, <3>3, ClaimFields, VersionFields DEF Takes
  <2>8. CASE RenewLease(k)
    <3>1. /\ slot[k].pc # "idle" /\ slot[k].seen.version = rows[w].version
          /\ rows[w].state = "running" /\ rows[w].owner = ProcessOf[k]
          /\ Update(w, Renewed(rows[w]))
          /\ Become(k, [slot[k] EXCEPT !.pc = "running", !.seen.version = @ + 1])
      BY <2>4, <2>8 DEF RenewLease, HoldsRow
    <3>2. slot'[k].seen = [slot[k].seen EXCEPT !.version = @ + 1]
      BY <1>1, <3>1 DEF Become, SlotState
    <3>3. rows'[w] = Renewed(rows[w])
      BY <1>1, <2>6, <3>1 DEF Update
    <3>4. QED
      BY <2>2, <2>3, <2>6, <3>1, <3>2, <3>3, UpdateFields, VersionFields DEF Takes
  <2>9. CASE HandlerEnds(k)
    <3>1. slot[k].pc = "running" /\ slot'[k].seen = slot[k].seen
      BY <1>1, <2>9 DEF HandlerEnds, Become, SlotState
    <3>2. QED
      BY <3>1 DEF Keeps, Claimed
  <2>10. QED
    BY <1>3, <2>1, <2>3, <2>4, <2>5, <2>7, <2>8, <2>9 DEF Execution, ClaimRefused,
       PersistSuccess, PersistDead, PersistRetry, RetryClashes, OutcomeDiscarded, WorkerExits
<1>4. QED
  BY <1>2, <1>3

LEMMA SlotsStayBehind ==
  ASSUME Safe, Typed', Next, RowsAdvance
  PROVE  SlotsBehind'
<1> SUFFICES ASSUME NEW k \in Slots, slot'[k].pc # "idle"
             PROVE  LET seen == slot'[k].seen
                        x    == rows'[seen.work]
                    IN /\ seen.version <= x.version
                       /\ seen.version = x.version => seen.payload = x.payload
  BY DEF SlotsBehind
<1> DEFINE seen == slot[k].seen
           x    == rows[seen.work]
<1>1. ASSUME slot[k].pc # "idle"
      PROVE  /\ seen.work \in Works /\ seen \in Snapshot /\ seen.version \in Nat
             /\ x.version \in Nat
             /\ seen.version <= x.version
             /\ seen.version = x.version => seen.payload = x.payload
  BY <1>1 DEF Safe, SlotsBehind, Typed, SlotsTyped, SlotState, Snapshot, RowsTyped, Row
<1>2. CASE Keeps(k)
  BY <1>1, <1>2, StaysBehind DEF Keeps, Safe
<1>3. CASE Reads(k)
  <2>1. PICK w \in Works : slot'[k].seen = Read(w) /\ rows' = rows
    BY <1>3 DEF Reads
  <2>2. rows[w].version \in Nat
    BY DEF Safe, Typed, RowsTyped, Row
  <2>3. QED
    BY <2>1, <2>2 DEF Read
<1>4. CASE Takes(k)
  BY <1>1, <1>4 DEF Takes, Snapshot
<1>5. QED
  BY <1>2, <1>3, <1>4, SlotChange

FencedSlot(k) ==
  LET x == rows[slot[k].seen.work] IN
  Claimed(k) /\ slot[k].seen.version = x.version =>
    x.state = "running" /\ x.owner = ProcessOf[k]

\* Slots j and k hold the same version of the same row.
Share(j, k) == Claimed(j) /\ Claimed(k) /\ slot[j].seen = slot[k].seen
               /\ slot[k].seen.version = rows[slot[k].seen.work].version

SlotsFenced ==
  /\ \A k \in Slots : FencedSlot(k)
  /\ \A j, k \in Slots : Share(j, k) => j = k

LEMMA FencedParts == StaleClaimsFenced /\ ClaimsBehind <=> SlotsFenced /\ ClaimsFenced
<1>1. StaleClaimsFenced /\ ClaimsBehind => ClaimsFenced
  BY DEF StaleClaimsFenced, ClaimsBehind, ClaimsFenced, FencedClaim
<1>2. StaleClaimsFenced => SlotsFenced
  BY DEF StaleClaimsFenced, SlotsFenced, FencedSlot, Share
<1>3. SlotsFenced /\ ClaimsFenced => StaleClaimsFenced
  BY DEF StaleClaimsFenced, SlotsFenced, FencedSlot, Share, ClaimsFenced, FencedClaim
<1>4. ClaimsFenced => ClaimsBehind
  BY DEF ClaimsFenced, FencedClaim, ClaimsBehind
<1>5. QED
  BY <1>1, <1>2, <1>3, <1>4

LEMMA SlotsStayFenced ==
  ASSUME Safe, Typed', Next, RowsAdvance, SlotsFenced
  PROVE  SlotsFenced'
<1>1. ASSUME NEW k \in Slots, slot[k].pc # "idle"
      PROVE  /\ slot[k].seen.work \in Works /\ slot[k].seen \in Snapshot
             /\ slot[k].seen.version \in Nat
             /\ rows[slot[k].seen.work].version \in Nat
             /\ slot[k].seen.version <= rows[slot[k].seen.work].version
  BY <1>1 DEF Safe, SlotsBehind, Typed, SlotsTyped, SlotState, Snapshot, RowsTyped, Row
<1>2. ASSUME NEW k \in Slots, Claimed(k)'
      PROVE  Keeps(k) \/ Takes(k)
  BY <1>2, SlotChange DEF Claimed, Reads
<1>3. ASSUME NEW k \in Slots PROVE FencedSlot(k)'
  <2> SUFFICES ASSUME Claimed(k)', slot'[k].seen.version = rows'[slot'[k].seen.work].version
               PROVE  /\ rows'[slot'[k].seen.work].state = "running"
                      /\ rows'[slot'[k].seen.work].owner = ProcessOf[k]
    BY DEF FencedSlot
  <2>1. CASE Keeps(k)
    <3>1. Claimed(k) /\ slot[k].pc # "idle" /\ slot'[k].seen = slot[k].seen
      BY <2>1 DEF Keeps
    <3>2. FencedSlot(k)
      BY DEF SlotsFenced
    <3>3. QED
      BY <1>1, <3>1, <3>2, StaysBehind DEF FencedSlot, Safe
  <2>2. CASE Takes(k)
    BY <1>1, <2>2 DEF Takes, Snapshot
  <2>3. QED
    BY <1>2, <2>1, <2>2
<1>4. ASSUME NEW j \in Slots, NEW k \in Slots, Share(j, k)' PROVE j = k
  <2>1. /\ Claimed(j)' /\ Claimed(k)' /\ slot'[j].seen = slot'[k].seen
        /\ slot'[k].seen.version = rows'[slot'[k].seen.work].version
    BY <1>4 DEF Share
  <2>2. CASE Keeps(j) /\ Keeps(k)
    <3>1. Claimed(j) /\ Claimed(k) /\ slot[j].seen = slot[k].seen /\ slot[k].pc # "idle"
      BY <2>1, <2>2 DEF Keeps
    <3>2. slot[k].seen.version = rows[slot[k].seen.work].version
      BY <1>1, <2>1, <2>2, <3>1, StaysBehind DEF Keeps, Safe
    <3>3. QED
      BY <3>1, <3>2 DEF SlotsFenced, Share
  <2>3. ASSUME NEW m \in Slots, NEW n \in Slots, Takes(m), n # m, Keeps(n),
               slot'[m].seen = slot'[n].seen
        PROVE  FALSE
    <3>1. slot[n].seen = [slot[m].seen EXCEPT !.version = rows[slot[m].seen.work].version + 1]
      BY <2>3 DEF Takes, Keeps
    <3>2. /\ slot[m].pc # "idle" /\ slot[n].pc # "idle"
      BY <2>3 DEF Takes, Keeps
    <3>3. slot[n].seen.version = rows[slot[n].seen.work].version + 1
      BY <1>1, <3>1, <3>2 DEF Snapshot
    <3>4. QED
      BY <1>1, <3>2, <3>3
  <2>4. ASSUME NEW m \in Slots, NEW n \in Slots, Takes(m), Takes(n), n # m,
               slot'[m].seen = slot'[n].seen
        PROVE  FALSE
    <3>1. /\ slot'[n] = slot[n] /\ slot[n].pc # "idle"
          /\ slot'[n].seen = [slot[n].seen EXCEPT !.version = slot[n].seen.version + 1]
      BY <2>4 DEF Takes
    <3>2. slot[n].seen \in Snapshot /\ slot[n].seen.version \in Nat
      BY <1>1, <3>1
    <3>3. slot[n].seen.version = slot[n].seen.version + 1
      BY <3>1, <3>2 DEF Snapshot
    <3>4. QED
      BY <3>2, <3>3
  <2>5. QED
    BY <1>2, <2>1, <2>2, <2>3, <2>4
<1>5. QED
  BY <1>3, <1>4 DEF SlotsFenced
-----------------------------------------------------------------------------
(* What handlers have done, and what requests were promised. *)

LEMMA HandledGrows ==
  ASSUME Safe, [Next]_vars
  PROVE  handled \subseteq handled'
<1>1. ASSUME NEW k \in Slots, Execution(k) \/ WorkerExits(k) PROVE handled \subseteq handled'
  BY <1>1 DEF Execution, Reload, ClaimForExecution, ClaimRefused, RenewLease, HandlerEnds,
     PersistSuccess, PersistDead, PersistRetry, RetryClashes, OutcomeDiscarded, WorkerExits
<1>2. QED
  BY <1>1, StagingFrame, DispatcherFrame, ExternalFrame DEF Next, vars

LEMMA SuccessesStayHandled ==
  ASSUME Safe, Next
  PROVE  SuccessesHandled'
<1> SUFFICES ASSUME NEW k \in Slots, slot'[k].pc = "ended", slot'[k].outcome = "success"
             PROVE  slot'[k].seen.payload \subseteq handled'
  BY DEF SuccessesHandled
<1>1. slot \in [Slots -> SlotState] /\ slot[k] \in SlotState
  BY DEF Safe, Typed, SlotsTyped
<1>2. CASE slot'[k] = slot[k]
  BY <1>2, HandledGrows DEF Safe, SuccessesHandled
<1>3. CASE slot'[k] # slot[k]
  <2>1. PICK j \in Slots : Execution(j) \/ WorkerExits(j)
    BY <1>3, StagingFrame, DispatcherFrame, ExternalFrame DEF Next
  <2>2. \A i \in Slots : i # j => slot'[i] = slot[i]
    BY <1>1, <2>1 DEF Execution, Reload, ClaimForExecution, ClaimRefused, RenewLease,
       HandlerEnds, PersistSuccess, PersistDead, PersistRetry, RetryClashes,
       OutcomeDiscarded, WorkerExits, Become
  <2>3. j = k
    BY <1>3, <2>2
  <2>4. CASE HandlerEnds(k)
    <3>1. PICK outcome \in {"success", "retryable", "fatal", "cancelled"} :
            /\ Become(k, [slot[k] EXCEPT !.pc = "ended", !.outcome = outcome,
                                         !.live = rows[slot[k].seen.work].lease > 0])
            /\ handled' = IF outcome = "success" THEN handled \cup slot[k].seen.payload
                                                 ELSE handled
      BY <2>4 DEF HandlerEnds
    <3> DEFINE live == rows[slot[k].seen.work].lease > 0
    <3>2. slot'[k] = [slot[k] EXCEPT !.pc = "ended", !.outcome = outcome, !.live = live]
      BY <1>1, <3>1 DEF Become
    <3> HIDE DEF live
    <3>3. slot'[k].outcome = outcome /\ slot'[k].seen = slot[k].seen
      BY <1>1, <3>2 DEF SlotState
    <3>4. QED
      BY <3>1, <3>3
  <2>5. CASE Become(k, IdleSlot)
    BY <1>1, <2>5 DEF Become, IdleSlot
  <2>6. CASE Reload(k)
    BY <1>1, <1>3, <2>6 DEF Reload, Become, IdleSlot
  <2>7. CASE ClaimForExecution(k)
    <3>1. slot'[k].outcome \in {"fatal", "none"}
      BY <1>1, <2>7 DEF ClaimForExecution, Become, IdleSlot
    <3>2. QED
      BY <3>1
  <2>8. CASE RenewLease(k) /\ ~Become(k, IdleSlot)
    <3>1. slot'[k].pc = "running"
      BY <1>1, <2>8 DEF RenewLease, Become, SlotState
    <3>2. QED
      BY <3>1
  <2>9. QED
    BY <1>3, <2>1, <2>3, <2>4, <2>5, <2>6, <2>7, <2>8 DEF Execution, ClaimRefused, RenewLease,
       PersistSuccess, PersistDead, PersistRetry, RetryClashes, OutcomeDiscarded, WorkerExits
<1>4. QED
  BY <1>2, <1>3

LEMMA CompletedStaysHandled ==
  ASSUME Safe, Next
  PROVE  CompletedWorkWasHandled'
<1> SUFFICES ASSUME NEW w \in Works, rows'[w].state = "completed"
             PROVE  rows'[w].payload \subseteq handled'
  BY DEF CompletedWorkWasHandled
<1>1. handled \subseteq handled'
  BY HandledGrows
<1>2. CASE NotCompleting(rows[w], rows'[w])
  BY <1>1, <1>2 DEF NotCompleting, Safe, CompletedWorkWasHandled
<1>3. CASE \E k \in Slots : Completes(k, w)
  <2>1. PICK k \in Slots : Completes(k, w)
    BY <1>3
  <2>2. /\ slot[k].pc = "ended" /\ slot[k].outcome = "success"
        /\ w = slot[k].seen.work /\ slot[k].seen.version = rows[w].version
        /\ rows'[w] = Completed(rows[w])
    BY <2>1 DEF Completes, PersistSuccess, Applies, HoldsRow
  <2>3. slot[k].seen.payload \subseteq handled
    BY <2>2 DEF Safe, SuccessesHandled
  <2>4. slot[k].seen.payload = rows[w].payload
    BY <2>2 DEF Safe, SlotsBehind
  <2>5. rows'[w].payload = rows[w].payload
    BY <2>2, CompletionPreserves DEF Safe, RowsFounded, Typed, RowsTyped
  <2>6. QED
    BY <1>1, <2>3, <2>4, <2>5
<1>4. QED
  BY <1>2, <1>3, StepPreserves

LEMMA AcceptedStayCarried ==
  ASSUME Safe, Next, RowsAdvance
  PROVE  AcceptedCarried'
<1> SUFFICES ASSUME NEW i \in Intents, Accepted(i)'
             PROVE  \E w \in Works : i \in rows'[w].payload
  BY DEF AcceptedCarried, Carriers
<1>1. CASE \E w \in Works : i \in rows[w].payload
  BY <1>1, PayloadGrows
<1>2. CASE ~Accepted(i)
  <2>1. PICK r \in Requests : request'[r].pc = "done" /\ IntentOf[r] = i
    BY DEF Accepted
  <2>2. request[r].pc # "done" /\ request \in [Requests -> RequestState]
    BY <1>2, <2>1 DEF Accepted, Safe, Typed, RequestsTyped
  <2>3. PICK q \in Requests : Staging(q)
    BY <2>1, <2>2, DispatcherFrame, SlotFrame, ExternalFrame DEF Next
  <2>4. q = r
    BY <2>1, <2>2, <2>3 DEF Staging, ResolveDuplicate, ReadCandidate, FindNothing, Merge,
       MergeConflicts, Insert, InsertClashes, Finish
  <2>5. ResolveDuplicate(r) \/ Merge(r) \/ Insert(r)
    BY <2>1, <2>2, <2>3, <2>4 DEF Staging, ReadCandidate, FindNothing, MergeConflicts,
       InsertClashes, Finish
  <2>6. i \in Intents /\ NoIntent \notin Intents /\ rows \in [Works -> Row]
    BY OutboxAssumption DEF Safe, Typed, RowsTyped
  <2>7. CASE ResolveDuplicate(r)
    <3>1. PICK w \in Works : rows[w].idem = i
      BY <2>1, <2>7 DEF ResolveDuplicate, Known
    <3>2. i \in rows[w].payload
      BY <2>6, <3>1 DEF Safe, RowsFounded, Founded
    <3>3. QED
      BY <3>2, PayloadGrows
  <2>8. CASE Merge(r)
    <3> DEFINE w == request[r].seen.work
               known == request[r].seen.payload
    <3>1. PICK delay \in StageDelays : Update(w, Coalesced(rows[w], known, i, delay))
      BY <2>1, <2>8 DEF Merge
    <3>2. w \in Works /\ rows[w] \in Row
      BY <2>6, <2>8 DEF Merge, Safe, Typed, RequestsTyped
    <3>3. rows'[w].payload = known \cup {i}
      BY <2>6, <3>1, <3>2, CoalescedFields DEF Update
    <3>4. QED
      BY <3>2, <3>3
  <2>9. CASE Insert(r)
    <3>1. PICK w \in Works, delay \in StageDelays : Update(w, NewRow(i, delay))
      BY <2>1, <2>9 DEF Insert
    <3>2. rows'[w].payload = {i}
      BY <2>6, <3>1, NewRowFields DEF Update
    <3>3. QED
      BY <3>2
  <2>10. QED
    BY <2>5, <2>7, <2>8, <2>9
<1>3. QED
  BY <1>1, <1>2 DEF Safe, AcceptedCarried, Carriers

-----------------------------------------------------------------------------
(* The inductive invariant and its consequences. *)

LEMMA SafeInit == Init => Safe
<1> SUFFICES ASSUME Init PROVE Safe
  OBVIOUS
<1>1. Typed
  BY TypedInit
<1>2. RowsFounded
  BY CounterTypes, NoRowSound DEF Init, RowsFounded, Founded, WithinBudget, NoRow, Sound,
     DispatchEligible
<1>3. \A k \in Slots : slot[k] = IdleSlot
  BY DEF Init
<1>4. MergesBehind /\ SlotsBehind /\ ClaimsBehind /\ SuccessesHandled
  BY <1>3 DEF Init, MergesBehind, SlotsBehind, ClaimsBehind, SuccessesHandled, ClaimsOf,
     IdleSlot
<1>5. StaleClaimsFenced
  BY <1>3 DEF Init, StaleClaimsFenced, Claimed, ClaimsOf, IdleSlot
<1>6. CompletedWorkWasHandled /\ AcceptedCarried
  BY DEF Init, CompletedWorkWasHandled, AcceptedCarried, Accepted, NoRow
<1>7. QED
  BY <1>1, <1>2, <1>4, <1>5, <1>6 DEF Safe

LEMMA SafeNext == Safe /\ [Next]_vars => Safe'
<1> SUFFICES ASSUME Safe, [Next]_vars PROVE Safe'
  OBVIOUS
<1>1. Typed'
  BY TypedNext DEF Safe
<1>2. CASE Next
  <2>1. RowsAdvance /\ RowsFounded'
    BY <1>2, StepPreserves
  <2>2. SlotsFenced /\ ClaimsFenced
    BY FencedParts DEF Safe
  <2>3. SlotsFenced' /\ ClaimsFenced'
    BY <1>1, <1>2, <2>1, <2>2, SlotsStayFenced, ClaimsStayFenced
  <2>4. StaleClaimsFenced' /\ ClaimsBehind'
    BY <2>3, FencedParts, PTL
  <2>5. QED
    BY <1>1, <1>2, <2>1, <2>4, MergesStayBehind, SlotsStayBehind, SuccessesStayHandled,
       CompletedStaysHandled, AcceptedStayCarried DEF Safe
<1>3. CASE UNCHANGED vars
  BY <1>1, <1>3 DEF vars, Safe, RowsFounded, MergesBehind, SlotsBehind, ClaimsBehind,
     StaleClaimsFenced, SuccessesHandled, CompletedWorkWasHandled, AcceptedCarried,
     Claimed, ClaimsOf, Accepted, Carriers
<1>4. QED
  BY <1>2, <1>3

LEMMA SpecSafe == Spec => []Safe
BY SafeInit, SafeNext, PTL DEF Spec

\* The version fences every stale actor: whatever is redelivered, recovered or
\* claimed again, at most one slot or dispatcher holds the present version of a
\* row, and the row is in the state and under the owner it claimed.
THEOREM Fencing == Spec => []StaleClaimsFenced
<1>1. Safe => StaleClaimsFenced
  BY DEF Safe
<1>2. QED
  BY <1>1, SpecSafe, PTL

\* Work is completed only with every intent merged into it handled.
THEOREM Completion == Spec => []CompletedWorkWasHandled
<1>1. Safe => CompletedWorkWasHandled
  BY DEF Safe
<1>2. QED
  BY <1>1, SpecSafe, PTL

\* No crash, conflict, retry or merge loses an intent whose transaction
\* committed: it was handled, or a row that is not completed carries it.
THEOREM Durability == Spec => []NoAcceptedIntentLost
<1>1. Safe => NoAcceptedIntentLost
  <2> SUFFICES ASSUME Safe, NEW i \in Intents, Accepted(i), i \notin handled
               PROVE  \E w \in Carriers(i) : rows[w].state # "completed"
    BY DEF NoAcceptedIntentLost
  <2>1. PICK w \in Works : i \in rows[w].payload
    BY DEF Safe, AcceptedCarried, Carriers
  <2>2. rows[w].state # "completed"
    BY <2>1 DEF Safe, CompletedWorkWasHandled
  <2>3. QED
    BY <2>1, <2>2 DEF Carriers
<1>2. QED
  BY <1>1, SpecSafe, PTL

\* The attempt counters stay within their bounds although the claim of a batch
\* never compares them with the limit.
THEOREM Budget == Spec => []AttemptBudget
<1>1. Safe => AttemptBudget
  BY DEF Safe, RowsFounded, WithinBudget, AttemptBudget
<1>2. QED
  BY <1>1, SpecSafe, PTL

-----------------------------------------------------------------------------
(* Finished work rests, and only what was accepted travels: what the       *)
(* refinement needs beside Safe.  A row that no timer runs for holds none, *)
(* so the passing of time leaves finished work alone; and whatever is in a *)
(* payload, in a slot's copy of one or handled was accepted before.        *)

\* Only rows that wait have a delay, and finished work has no lease.
RestsWhenDone(x) ==
  /\ x.state \notin DispatchEligible => x.delay = 0
  /\ x.state \in Terminal => x.lease = 0

Resting == \A w \in Works : RestsWhenDone(rows[w])

\* Only accepted intents travel through the pipeline.
Promised ==
  /\ \A w \in Works : \A i \in rows[w].payload : Accepted(i)
  /\ \A k \in Slots : slot[k].pc # "idle" => \A i \in slot[k].seen.payload : Accepted(i)
  /\ \A i \in handled : Accepted(i)

Settled == Safe /\ Resting /\ Promised

-----------------------------------------------------------------------------
(* What a step makes of one row, by who takes it. *)

\* A dispatcher, a worker slot or a recovery works on a row.
WorkedOn(x, y) ==
  \/ y = x
  \/ /\ x.state \notin Terminal \cup {"absent"}
     /\ y.payload = x.payload
     /\ RestsWhenDone(y)

LEMMA TimerFields ==
  ASSUME NEW x \in Row, NEW o
  PROVE  /\ ClaimedForDispatch(x, o).delay = x.delay
         /\ ClaimedForExecution(x, o).delay = x.delay
BY DEF ClaimedForDispatch, ClaimedForExecution, Row

LEMMA UpdateTimers ==
  ASSUME NEW x \in Row
  PROVE  /\ MarkedDispatched(x).delay = x.delay
         /\ Renewed(x).delay = x.delay
         /\ Requeued(x).delay = 0
BY DEF MarkedDispatched, Renewed, Requeued, Row

LEMMA ReleasedTimers ==
  ASSUME NEW x \in Row, NEW state, NEW delay
  PROVE  /\ Released(x, state, delay).lease = 0
         /\ Released(x, state, delay).delay = delay
BY DEF Released, Row

LEMMA RetriedRests ==
  ASSUME NEW x \in Row, NEW delay
  PROVE  /\ Retried(x, delay).payload = x.payload
         /\ Retried(x, delay).state = "retrying"
         /\ RestsWhenDone(Retried(x, delay))
BY ReleasedFields DEF Retried, RestsWhenDone, DispatchEligible, Terminal

LEMMA FinishedRests ==
  ASSUME NEW x \in Row, x.state \in Leased, RestsWhenDone(x), NEW y \in {Buried(x), Completed(x)}
  PROVE  /\ y.payload = x.payload
         /\ y.state \in Terminal
         /\ RestsWhenDone(y)
<1>1. x.delay = 0
  BY DEF RestsWhenDone, Leased, DispatchEligible
<1>2. QED
  BY <1>1, ReleasedFields, ReleasedTimers DEF Buried, Completed, RestsWhenDone, Terminal

LEMMA RecoveryWorks ==
  ASSUME NEW x \in Row, NEW y, RestsWhenDone(x), Recovering(x, y)
  PROVE  /\ WorkedOn(x, y) /\ RestsWhenDone(y)
         /\ y # x => y.state \in {"retrying", "dead"} /\ Expired(x)
<1>1. CASE y = x
  BY <1>1 DEF WorkedOn
<1>2. CASE Expired(x) /\ y = Recovered(x)
  <2>1. x.state \in Leased /\ x.state \notin Terminal \cup {"absent"}
    BY <1>2 DEF Expired, Leased, Terminal
  <2>2. y = Buried(x) \/ y = Retried(x, 0)
    BY <1>2 DEF Recovered
  <2>3. y.payload = x.payload /\ RestsWhenDone(y) /\ y.state \in {"retrying", "dead"}
    BY <2>1, <2>2, RetriedRests, FinishedRests, ReleasedFields DEF Buried
  <2>4. QED
    BY <1>2, <2>1, <2>3 DEF WorkedOn
<1>3. QED
  BY <1>1, <1>2 DEF Recovering

LEMMA DispatcherWorks ==
  ASSUME Safe, Resting, NEW d \in Dispatchers,
         ClaimBatch(d) \/ HandOff(d) \/ DispatcherExits(d), NEW w \in Works
  PROVE  /\ WorkedOn(rows[w], rows'[w])
         /\ rows[w].state = "running" /\ rows[w].lease > 0 => rows'[w] = rows[w]
<1> DEFINE x == rows[w]
           y == rows'[w]
<1>1. x \in Row /\ rows \in [Works -> Row] /\ d \in Owners /\ RestsWhenDone(x)
  BY BackgroundWorkAssumption DEF Safe, Typed, RowsTyped, Resting
<1>2. CASE y = x
  BY <1>2 DEF WorkedOn
<1>3. CASE ClaimBatch(d)
  <2> DEFINE z == AfterRecovery(rows)[w]
  <2>1. Recovering(x, z) /\ z \in Row
    BY RecoveryMoves, AfterRecoverySound DEF Safe, Typed, Sound
  <2>2. /\ WorkedOn(x, z) /\ RestsWhenDone(z)
        /\ z # x => z.state \in {"retrying", "dead"} /\ Expired(x)
    BY <1>1, <2>1, RecoveryWorks
  <2>3. CASE z.state \in DispatchEligible /\ z.delay = 0 /\ y = ClaimedForDispatch(z, d)
    <3>1. y.state = "dispatching" /\ y.payload = z.payload /\ y.delay = 0
      BY <2>1, <2>3, ClaimFields, TimerFields
    <3>2. RestsWhenDone(y)
      BY <3>1 DEF RestsWhenDone, Terminal
    <3>3. x.state \notin Terminal \cup {"absent"} /\ z.payload = x.payload
      BY <2>2, <2>3 DEF WorkedOn, Expired, Leased, DispatchEligible, Terminal
    <3>4. ~(x.state = "running" /\ x.lease > 0)
      BY <1>1, <2>2, <2>3 DEF Expired, DispatchEligible, Row
    <3>5. QED
      BY <3>1, <3>2, <3>3, <3>4 DEF WorkedOn
  <2>4. CASE y = z
    BY <1>1, <2>2, <2>4 DEF Expired, Row
  <2>5. QED
    BY <1>3, <2>3, <2>4 DEF ClaimBatch, Due
<1>4. CASE MarkDispatched(d) /\ y # x
  <2>1. PICK c \in sent[d] : HoldsClaim(d, c) /\ Update(c.work, MarkedDispatched(rows[c.work]))
    BY <1>4 DEF MarkDispatched
  <2>2. c.work = w
    BY <1>1, <1>4, <2>1 DEF Update
  <2>3. x.state = "dispatching" /\ y = MarkedDispatched(x)
    BY <1>1, <2>1, <2>2 DEF Update, HoldsClaim
  <2>4. y.payload = x.payload /\ y.state = "dispatched" /\ y.delay = 0
    BY <1>1, <2>3, UpdateFields, UpdateTimers DEF RestsWhenDone, DispatchEligible
  <2>5. QED
    BY <2>3, <2>4 DEF WorkedOn, RestsWhenDone, Terminal
<1>5. CASE MarkDispatchFailure(d) /\ y # x
  <2>1. PICK c \in failed[d] :
          /\ HoldsClaim(d, c)
          /\ \/ Update(c.work, Buried(rows[c.work]))
             \/ \E delay \in 0..RetryDelay : Update(c.work, Retried(rows[c.work], delay))
    BY <1>5 DEF MarkDispatchFailure
  <2>2. c.work = w
    BY <1>1, <1>5, <2>1 DEF Update
  <2>3. x.state = "dispatching"
    BY <2>1, <2>2 DEF HoldsClaim
  <2>4. y = Buried(x) \/ \E delay \in 0..RetryDelay : y = Retried(x, delay)
    BY <1>1, <2>1, <2>2 DEF Update
  <2>5. y.payload = x.payload /\ RestsWhenDone(y)
    BY <1>1, <2>3, <2>4, RetriedRests, FinishedRests DEF Leased
  <2>6. QED
    BY <2>3, <2>5 DEF WorkedOn, Terminal
<1>6. QED
  BY <1>2, <1>3, <1>4, <1>5 DEF HandOff, Enqueue, EnqueueFails, DispatcherExits

\* A running row changes only under the slot that still holds its version.
Holder(k, w) ==
  /\ Claimed(k)
  /\ slot[k].seen.work = w
  /\ slot[k].seen.version = rows[w].version
  /\ slot'[k] # slot[k]

LEMMA SlotWorks ==
  ASSUME Safe, Resting, NEW k \in Slots, Execution(k) \/ WorkerExits(k), NEW w \in Works
  PROVE  /\ WorkedOn(rows[w], rows'[w])
         /\ rows[w].state = "running" /\ rows'[w] # rows[w] => Holder(k, w)
<1> DEFINE v == slot[k].seen.work
           x == rows[w]
           y == rows'[w]
<1>1. /\ x \in Row /\ rows \in [Works -> Row] /\ RestsWhenDone(x)
      /\ slot \in [Slots -> SlotState] /\ slot[k] \in SlotState
  BY DEF Safe, Typed, RowsTyped, SlotsTyped, Resting
<1>2. CASE y = x
  BY <1>2 DEF WorkedOn
<1>3. ASSUME NEW z, Update(v, z), y # x
      PROVE  w = v /\ y = z
  BY <1>1, <1>3 DEF Update
<1>4. CASE ClaimForExecution(k) /\ y # x
  <2>1. /\ Executable(rows[v]) /\ rows[v].delay = 0
        /\ Update(v, ClaimedForExecution(rows[v], ProcessOf[k]))
    BY <1>4 DEF ClaimForExecution, ClaimAllowed
  <2>2. Executable(x) /\ x.delay = 0 /\ y = ClaimedForExecution(x, ProcessOf[k])
    BY <1>3, <1>4, <2>1
  <2>3. y.state = "running" /\ y.payload = x.payload /\ y.delay = 0
    BY <1>1, <2>2, ClaimFields, TimerFields
  <2>4. QED
    BY <2>2, <2>3 DEF WorkedOn, Executable, RestsWhenDone, Terminal
<1>5. CASE RenewLease(k) /\ y # x
  <2>1. /\ HoldsRow(k) /\ slot[k].pc = "claimed"
        /\ Update(v, Renewed(rows[v]))
        /\ Become(k, [slot[k] EXCEPT !.pc = "running", !.seen.version = @ + 1])
    BY <1>5 DEF RenewLease
  <2>2. w = v /\ y = Renewed(x)
    BY <1>3, <1>5, <2>1
  <2>3. x.state = "running" /\ slot[k].seen.version = x.version
    BY <2>1, <2>2 DEF HoldsRow
  <2>4. y.state = "running" /\ y.payload = x.payload /\ y.delay = 0
    BY <1>1, <2>2, <2>3, UpdateFields, UpdateTimers DEF RestsWhenDone, DispatchEligible
  <2>5. slot'[k].pc = "running"
    BY <1>1, <2>1 DEF Become, SlotState
  <2>6. Holder(k, w)
    BY <2>1, <2>2, <2>3, <2>5 DEF Holder, Claimed
  <2>7. QED
    BY <2>3, <2>4, <2>6 DEF WorkedOn, RestsWhenDone, Terminal
<1>6. CASE (PersistSuccess(k) \/ PersistDead(k) \/ PersistRetry(k)) /\ y # x
  <2>1. /\ HoldsRow(k) /\ slot[k].pc = "ended" /\ Become(k, IdleSlot)
        /\ \/ Update(v, Completed(rows[v]))
           \/ Update(v, Buried(rows[v]))
           \/ \E delay \in 0..RetryDelay : Update(v, Retried(rows[v], delay))
    BY <1>6, RetryWrites DEF PersistSuccess, PersistDead, PersistRetry, Applies
  <2>2. /\ w = v
        /\ y \in {Buried(x), Completed(x)} \/ \E delay \in 0..RetryDelay : y = Retried(x, delay)
    BY <1>3, <1>6, <2>1
  <2>3. x.state = "running" /\ slot[k].seen.version = x.version
    BY <2>1, <2>2 DEF HoldsRow
  <2>4. y.payload = x.payload /\ RestsWhenDone(y)
    BY <1>1, <2>2, <2>3, RetriedRests, FinishedRests DEF Leased
  <2>5. slot'[k].pc = "idle"
    BY <1>1, <2>1 DEF Become, IdleSlot
  <2>6. Holder(k, w)
    BY <2>1, <2>2, <2>3, <2>5 DEF Holder, Claimed
  <2>7. QED
    BY <2>3, <2>4, <2>6 DEF WorkedOn, Terminal
<1>7. QED
  BY <1>2, <1>4, <1>5, <1>6 DEF Execution, Reload, ClaimRefused, HandlerEnds, RetryClashes,
     OutcomeDiscarded, WorkerExits

LEMMA RecoveryCommandWorks ==
  ASSUME Safe, Resting, OperatorRecovers \/ QueueLosesJob, NEW w \in Works
  PROVE  /\ WorkedOn(rows[w], rows'[w])
         /\ rows[w].state = "running" /\ rows[w].lease > 0 => rows'[w] = rows[w]
<1>1. rows[w] \in Row /\ RestsWhenDone(rows[w])
  BY DEF Safe, Typed, RowsTyped, Resting
<1>2. CASE rows' = rows
  BY <1>2 DEF WorkedOn
<1>3. CASE OperatorRecovers
  <2>1. Recovering(rows[w], rows'[w])
    BY <1>3, RecoveryMoves DEF OperatorRecovers, Safe
  <2>2. /\ WorkedOn(rows[w], rows'[w])
        /\ rows'[w] # rows[w] => Expired(rows[w])
    BY <1>1, <2>1, RecoveryWorks
  <2>3. QED
    BY <1>1, <2>2 DEF Expired, Row
<1>4. QED
  BY <1>2, <1>3 DEF QueueLosesJob

\* Time changes no more than the lease and the delay, and neither at rest.
LEMMA TickWorks ==
  ASSUME Safe, Resting, Tick, NEW w \in Works
  PROVE  /\ rows'[w].state = rows[w].state
         /\ rows'[w].version = rows[w].version
         /\ rows'[w].payload = rows[w].payload
         /\ RestsWhenDone(rows'[w])
         /\ rows[w].state \in Terminal => rows'[w] = rows[w]
<1> DEFINE x == rows[w]
           l == Less(x.lease)
           m == Less(x.delay)
<1>1. x \in Row /\ RestsWhenDone(x) /\ x.lease \in Nat /\ x.delay \in Nat
  BY DEF Safe, Typed, RowsTyped, Resting, Row
<1>2. rows'[w] = [x EXCEPT !.lease = l, !.delay = m]
  BY DEF Tick
<1>3. /\ l \in Nat /\ m \in Nat
      /\ x.lease = 0 => l = 0
      /\ x.delay = 0 => m = 0
  BY <1>1 DEF Less
<1> HIDE DEF l, m
<1>4. /\ rows'[w].state = x.state /\ rows'[w].version = x.version
      /\ rows'[w].payload = x.payload /\ rows'[w].lease = l /\ rows'[w].delay = m
  BY <1>1, <1>2 DEF Row
<1>5. x.state \in Terminal => x.lease = l /\ x.delay = m
  BY <1>1, <1>3 DEF RestsWhenDone, Terminal, DispatchEligible
<1>6. x.state \in Terminal => rows'[w] = x
  <2>1. [x EXCEPT !.lease = x.lease, !.delay = x.delay] = x
    BY <1>1 DEF Row
  <2>2. QED
    BY <1>2, <1>5, <2>1
<1>7. RestsWhenDone(rows'[w])
  BY <1>1, <1>3, <1>4 DEF RestsWhenDone
<1>8. QED
  BY <1>4, <1>6, <1>7

\* The retry command changes one dead row.
Revives(w) ==
  /\ Requeueable(rows[w])
  /\ rows'[w] = Requeued(rows[w])
  /\ \A v \in Works : v # w => rows'[v] = rows[v]

LEMMA RequeueRevives ==
  ASSUME Safe, ManualRequeue
  PROVE  \E w \in Works : Revives(w)
<1>1. rows \in [Works -> Row]
  BY DEF Safe, Typed, RowsTyped
<1>2. PICK w \in Works : Requeueable(rows[w]) /\ Update(w, Requeued(rows[w]))
  BY DEF ManualRequeue
<1>3. Revives(w)
  BY <1>1, <1>2 DEF Update, Revives
<1>4. QED
  BY <1>3

LEMMA RevivedRests ==
  ASSUME Safe, NEW w \in Works, Revives(w)
  PROVE  /\ rows[w].state = "dead" /\ rows'[w].state = "pending"
         /\ rows'[w].payload = rows[w].payload
         /\ RestsWhenDone(rows'[w])
<1>1. rows[w] \in Row
  BY DEF Safe, Typed, RowsTyped
<1>2. rows[w].state = "dead" /\ rows'[w] = Requeued(rows[w])
  BY DEF Revives, Requeueable
<1>3. rows'[w].state = "pending" /\ rows'[w].payload = rows[w].payload /\ rows'[w].delay = 0
  BY <1>1, <1>2, UpdateFields, UpdateTimers
<1>4. QED
  BY <1>2, <1>3 DEF RestsWhenDone, Terminal

-----------------------------------------------------------------------------
(* What the requests do. *)

\* Request r commits its intent into row w, new or already there.
Commits(r, w) ==
  /\ rows[w].state \notin Terminal \cup {"running"}
  /\ rows'[w].state \notin Terminal
  /\ rows'[w].payload = rows[w].payload \cup {IntentOf[r]}
  /\ RestsWhenDone(rows'[w])
  /\ \A v \in Works : v # w => rows'[v] = rows[v]
  /\ \A i \in Intents : Accepted(i)' <=> Accepted(i) \/ i = IntentOf[r]

SameAccepted == \A i \in Intents : Accepted(i)' <=> Accepted(i)

LEMMA FinishAccepts ==
  ASSUME Typed, NEW r \in Requests, NEW pc, Finish(r, pc), request[r].pc # "done",
         NEW i \in Intents
  PROVE  Accepted(i)' <=> Accepted(i) \/ (pc = "done" /\ i = IntentOf[r])
<1>1. request \in [Requests -> RequestState]
  BY DEF Typed, RequestsTyped
<1>2. request'[r].pc = pc /\ \A q \in Requests : q # r => request'[q] = request[q]
  BY <1>1 DEF Finish
<1>3. QED
  BY <1>2 DEF Accepted

LEMMA CoalescedRests ==
  ASSUME NEW x \in Row, NEW i, NEW delay \in Nat, x.state \in ActiveCoalescing,
         RestsWhenDone(x)
  PROVE  RestsWhenDone(Coalesced(x, x.payload, i, delay))
<1> DEFINE y == Coalesced(x, x.payload, i, delay)
<1>1. /\ y.state = x.state \/ (x.state = "scheduled" /\ y.state = "pending")
      /\ y.delay = Earlier(x.delay, delay)
  BY DEF Coalesced, Row
<1>2. x.state \notin DispatchEligible => Earlier(x.delay, delay) = 0
  BY DEF RestsWhenDone, Earlier
<1>3. QED
  BY <1>1, <1>2 DEF RestsWhenDone, ActiveCoalescing, DispatchEligible, Terminal

LEMMA NewRowRests ==
  ASSUME NEW i \in Intents, NEW delay
  PROVE  RestsWhenDone(NewRow(i, delay))
BY NewRowFields DEF RestsWhenDone, DispatchEligible, Terminal

LEMMA MergeCommits ==
  ASSUME Safe, Resting, NEW r \in Requests, Merge(r)
  PROVE  \E w \in Works : Commits(r, w)
<1> DEFINE w == request[r].seen.work
           i == IntentOf[r]
<1>1. /\ w \in Works /\ rows[w] \in Row /\ rows \in [Works -> Row]
      /\ RestsWhenDone(rows[w]) /\ StageDelays \subseteq Nat
  BY BackgroundWorkAssumption DEF Merge, Safe, Typed, RequestsTyped, RowsTyped, Resting
<1>2. request[r].seen.payload = rows[w].payload /\ rows[w].state \in ActiveCoalescing
  BY DEF Merge, StillAsRead, Safe, MergesBehind
<1>3. PICK delay \in StageDelays : Update(w, Coalesced(rows[w], rows[w].payload, i, delay))
  BY <1>2 DEF Merge
<1>4. /\ rows'[w] = Coalesced(rows[w], rows[w].payload, i, delay)
      /\ \A v \in Works : v # w => rows'[v] = rows[v]
  BY <1>1, <1>3 DEF Update
<1>5. /\ rows'[w].payload = rows[w].payload \cup {i}
      /\ rows'[w].state \in ActiveCoalescing
  BY <1>1, <1>2, <1>4, CoalescedFields, SMTT(60) DEF ActiveCoalescing, DispatchEligible
<1>6. RestsWhenDone(rows'[w])
  BY <1>1, <1>2, <1>4, CoalescedRests
<1>7. \A j \in Intents : Accepted(j)' <=> Accepted(j) \/ j = i
  BY FinishAccepts DEF Merge, Safe
<1>8. Commits(r, w)
  BY <1>2, <1>4, <1>5, <1>6, <1>7 DEF Commits, ActiveCoalescing, DispatchEligible, Terminal
<1>9. QED
  BY <1>1, <1>8

LEMMA InsertCommits ==
  ASSUME Safe, NEW r \in Requests, Insert(r)
  PROVE  \E w \in Works : Commits(r, w)
<1> DEFINE i == IntentOf[r]
<1>1. i \in Intents /\ rows \in [Works -> Row]
  BY BackgroundWorkAssumption DEF Safe, Typed, RowsTyped
<1>2. PICK w \in Works, delay \in StageDelays :
        rows[w].state = "absent" /\ Update(w, NewRow(i, delay))
  BY DEF Insert
<1>3. /\ rows'[w] = NewRow(i, delay)
      /\ \A v \in Works : v # w => rows'[v] = rows[v]
  BY <1>1, <1>2 DEF Update
<1>4. rows[w].payload = {}
  BY <1>2 DEF Safe, RowsFounded, Founded
<1>5. /\ rows'[w].payload = rows[w].payload \cup {i}
      /\ rows'[w].state \in {"scheduled", "pending"}
  BY <1>1, <1>3, <1>4, NewRowFields
<1>6. RestsWhenDone(rows'[w])
  BY <1>1, <1>3, NewRowRests
<1>7. \A j \in Intents : Accepted(j)' <=> Accepted(j) \/ j = i
  BY FinishAccepts DEF Insert, Safe
<1>8. Commits(r, w)
  BY <1>2, <1>3, <1>5, <1>6, <1>7 DEF Commits, Terminal
<1>9. QED
  BY <1>8

\* A request commits its intent, or nobody is promised anything new: a
\* duplicate resolves to a row whose intent was accepted before.
LEMMA StagingCommits ==
  ASSUME Safe, Resting, Promised, NEW r \in Requests, Staging(r)
  PROVE  \/ \E w \in Works : Commits(r, w)
         \/ rows' = rows /\ SameAccepted
<1>1. IntentOf[r] \in Intents /\ request \in [Requests -> RequestState] /\ NoIntent \notin Intents
  BY BackgroundWorkAssumption, OutboxAssumption DEF Safe, Typed, RequestsTyped
<1>2. CASE Merge(r) \/ Insert(r)
  BY <1>2, MergeCommits, InsertCommits
<1>3. CASE ResolveDuplicate(r)
  <2>1. PICK w \in Works : rows[w].idem = IntentOf[r]
    BY <1>3 DEF ResolveDuplicate, Known
  <2>2. Accepted(IntentOf[r])
    BY <1>1, <2>1 DEF Safe, RowsFounded, Founded, Promised
  <2>3. rows' = rows /\ Finish(r, "done") /\ request[r].pc # "done"
    BY <1>3 DEF ResolveDuplicate
  <2>4. SameAccepted
    BY <2>2, <2>3, FinishAccepts DEF SameAccepted, Safe
  <2>5. QED
    BY <2>3, <2>4
<1>4. CASE ReadCandidate(r)
  <2>1. /\ rows' = rows /\ request[r].pc # "done" /\ request'[r].pc = "merge"
        /\ \A q \in Requests : q # r => request'[q] = request[q]
    BY <1>1, <1>4 DEF ReadCandidate
  <2>2. QED
    BY <2>1 DEF SameAccepted, Accepted
<1>5. CASE FindNothing(r) \/ MergeConflicts(r) \/ InsertClashes(r)
  <2>1. /\ rows' = rows /\ request[r].pc # "done"
        /\ \E pc \in {"insert", "failed", "resolve"} : Finish(r, pc)
    BY <1>5 DEF FindNothing, MergeConflicts, InsertClashes
  <2>2. SameAccepted
    BY <2>1, FinishAccepts DEF SameAccepted, Safe
  <2>3. QED
    BY <2>1, <2>2
<1>6. QED
  BY <1>2, <1>3, <1>4, <1>5 DEF Staging

-----------------------------------------------------------------------------
(* The four kinds of steps, as far as an intent can tell them apart. *)

\* Finished work rests, and no payload changes.
WorkGoesOn ==
  /\ SameAccepted
  /\ handled' = handled
  /\ \A w \in Works : /\ rows'[w].payload = rows[w].payload
                      /\ rows[w].state \in Terminal => rows'[w] = rows[w]
                      /\ RestsWhenDone(rows'[w])

\* A handler has returned for the intents of a slot.
Handles ==
  /\ SameAccepted
  /\ rows' = rows
  /\ handled \subseteq handled'
  /\ \E k \in Slots : slot[k].pc # "idle" /\ handled' \subseteq handled \cup slot[k].seen.payload

Reopens ==
  /\ SameAccepted
  /\ handled' = handled
  /\ \E w \in Works : Revives(w)

Promises ==
  /\ handled' = handled
  /\ \E r \in Requests, w \in Works : Commits(r, w)

LEMMA SameRequests ==
  ASSUME request' = request
  PROVE  SameAccepted
BY DEF SameAccepted, Accepted

LEMMA WorkedRests ==
  ASSUME NEW x, NEW y, WorkedOn(x, y), RestsWhenDone(x)
  PROVE  /\ y.payload = x.payload
         /\ x.state \in Terminal => y = x
         /\ RestsWhenDone(y)
BY DEF WorkedOn

LEMMA SettledStep ==
  ASSUME Settled, Next
  PROVE  WorkGoesOn \/ Handles \/ Reopens \/ Promises
<1>1. Safe /\ Resting /\ Promised
  BY DEF Settled
<1>2. ASSUME NEW r \in Requests, Staging(r) PROVE WorkGoesOn \/ Promises
  <2>1. handled' = handled
    BY <1>2, StagingFrame
  <2>2. \/ \E w \in Works : Commits(r, w)
        \/ rows' = rows /\ SameAccepted
    BY <1>1, <1>2, StagingCommits
  <2>3. QED
    BY <1>1, <2>1, <2>2 DEF WorkGoesOn, Promises, Resting
<1>3. ASSUME SameAccepted, handled' = handled,
             \A w \in Works : WorkedOn(rows[w], rows'[w])
      PROVE  WorkGoesOn
  BY <1>1, <1>3, WorkedRests DEF WorkGoesOn, Resting
<1>4. ASSUME NEW d \in Dispatchers, ClaimBatch(d) \/ HandOff(d) \/ DispatcherExits(d)
      PROVE  WorkGoesOn
  <2>1. request' = request /\ handled' = handled
    BY <1>4, DispatcherFrame
  <2>2. \A w \in Works : WorkedOn(rows[w], rows'[w])
    BY <1>1, <1>4, DispatcherWorks
  <2>3. QED
    BY <1>3, <2>1, <2>2, SameRequests
<1>5. ASSUME NEW k \in Slots, Execution(k) \/ WorkerExits(k) PROVE WorkGoesOn \/ Handles
  <2>1. request' = request
    BY <1>5, SlotFrame
  <2>2. CASE HandlerEnds(k)
    <3>1. /\ rows' = rows /\ slot[k].pc # "idle"
          /\ handled' = handled \/ handled' = handled \cup slot[k].seen.payload
      BY <2>2 DEF HandlerEnds
    <3>2. QED
      BY <2>1, <3>1, SameRequests DEF Handles
  <2>3. CASE ~HandlerEnds(k)
    <3>1. handled' = handled
      BY <1>5, <2>3 DEF Execution, Reload, ClaimForExecution, ClaimRefused, RenewLease,
         PersistSuccess, PersistDead, PersistRetry, RetryClashes, OutcomeDiscarded, WorkerExits
    <3>2. \A w \in Works : WorkedOn(rows[w], rows'[w])
      BY <1>1, <1>5, SlotWorks
    <3>3. QED
      BY <1>3, <2>1, <3>1, <3>2, SameRequests
  <2>4. QED
    BY <2>2, <2>3
<1>6. ASSUME OperatorRecovers \/ ManualRequeue \/ QueueLosesJob \/ Tick
      PROVE  WorkGoesOn \/ Reopens
  <2>1. SameAccepted /\ handled' = handled
    BY <1>6, ExternalFrame, SameRequests
  <2>2. CASE OperatorRecovers \/ QueueLosesJob
    <3>1. \A w \in Works : WorkedOn(rows[w], rows'[w])
      BY <1>1, <2>2, RecoveryCommandWorks
    <3>2. QED
      BY <1>3, <2>1, <3>1
  <2>3. CASE ManualRequeue
    BY <1>1, <2>1, <2>3, RequeueRevives DEF Reopens
  <2>4. CASE Tick
    BY <1>1, <2>1, <2>4, TickWorks DEF WorkGoesOn
  <2>5. QED
    BY <1>6, <2>2, <2>3, <2>4
<1>7. QED
  BY <1>2, <1>4, <1>5, <1>6 DEF Next

-----------------------------------------------------------------------------
(* The strengthened invariant. *)

LEMMA SettledInit == Init => Settled
<1> SUFFICES ASSUME Init PROVE Settled
  OBVIOUS
<1>1. Safe
  BY SafeInit
<1>2. Resting /\ Promised
  BY DEF Init, Resting, Promised, RestsWhenDone, NoRow, IdleSlot
<1>3. QED
  BY <1>1, <1>2 DEF Settled

LEMMA RowsStayAtRest ==
  ASSUME Settled, Next
  PROVE  Resting'
<1> SUFFICES ASSUME NEW w \in Works PROVE RestsWhenDone(rows'[w])
  BY DEF Resting, RestsWhenDone
<1>1. RestsWhenDone(rows[w]) /\ Safe
  BY DEF Settled, Resting
<1>2. CASE WorkGoesOn
  BY <1>2 DEF WorkGoesOn
<1>3. CASE Handles
  BY <1>1, <1>3 DEF Handles
<1>4. CASE Reopens
  <2>1. PICK v \in Works : Revives(v)
    BY <1>4 DEF Reopens
  <2>2. w = v \/ rows'[w] = rows[w]
    BY <2>1 DEF Revives
  <2>3. QED
    BY <1>1, <2>1, <2>2, RevivedRests
<1>5. CASE Promises
  BY <1>1, <1>5 DEF Promises, Commits
<1>6. QED
  BY <1>2, <1>3, <1>4, <1>5, SettledStep

LEMMA AcceptedStays ==
  ASSUME Settled, Next, NEW i \in Intents, Accepted(i)
  PROVE  Accepted(i)'
<1>1. CASE SameAccepted
  BY <1>1 DEF SameAccepted
<1>2. CASE Promises
  BY <1>2 DEF Promises, Commits
<1>3. QED
  BY <1>1, <1>2, SettledStep DEF WorkGoesOn, Handles, Reopens

LEMMA RowsStayPromised ==
  ASSUME Settled, Typed', Next, NEW w \in Works, NEW i \in rows'[w].payload
  PROVE  Accepted(i)'
<1>1. rows'[w] \in Row /\ i \in Intents
  BY DEF Typed, RowsTyped, Row
<1>2. CASE i \in rows[w].payload
  BY <1>1, <1>2, AcceptedStays DEF Settled, Promised
<1>3. CASE i \notin rows[w].payload
  <2>1. ~WorkGoesOn /\ ~Handles
    BY <1>3 DEF WorkGoesOn, Handles
  <2>2. ~Reopens
    <3>1. ASSUME NEW v \in Works, Revives(v) PROVE rows'[w].payload = rows[w].payload
      <4>1. w = v \/ rows'[w] = rows[w]
        BY <3>1 DEF Revives
      <4>2. QED
        BY <3>1, <4>1, RevivedRests DEF Settled
    <3>2. QED
      BY <1>3, <3>1 DEF Reopens
  <2>3. PICK r \in Requests, v \in Works : Commits(r, v)
    BY <2>1, <2>2, SettledStep DEF Promises
  <2>4. v = w /\ i = IntentOf[r]
    BY <1>3, <2>3 DEF Commits
  <2>5. QED
    BY <1>1, <2>3, <2>4 DEF Commits
<1>4. QED
  BY <1>2, <1>3

LEMMA SlotsStayPromised ==
  ASSUME Settled, Typed', Next, NEW k \in Slots, slot'[k].pc # "idle",
         NEW i \in slot'[k].seen.payload
  PROVE  Accepted(i)'
<1>1. /\ slot'[k] \in SlotState /\ i \in Intents
      /\ slot[k] \in SlotState /\ slot[k].seen \in Snapshot
  BY DEF Typed, SlotsTyped, SlotState, Snapshot, Settled, Safe
<1>2. Keeps(k) \/ Reads(k) \/ Takes(k)
  BY SlotChange DEF Settled
<1>3. CASE (Keeps(k) \/ Takes(k))
  <2>1. slot[k].pc # "idle" /\ i \in slot[k].seen.payload
    BY <1>1, <1>3 DEF Keeps, Takes, Snapshot
  <2>2. QED
    BY <1>1, <2>1, AcceptedStays DEF Settled, Promised
<1>4. CASE Reads(k)
  <2>1. PICK w \in Works : i \in rows[w].payload
    BY <1>4 DEF Reads, Read
  <2>2. QED
    BY <1>1, <2>1, AcceptedStays DEF Settled, Promised
<1>5. QED
  BY <1>2, <1>3, <1>4

LEMMA HandledStaysPromised ==
  ASSUME Settled, Typed', Next, NEW i \in handled'
  PROVE  Accepted(i)'
<1>1. i \in Intents
  BY DEF Typed
<1>2. CASE i \in handled
  BY <1>1, <1>2, AcceptedStays DEF Settled, Promised
<1>3. CASE i \notin handled
  <2>1. PICK k \in Slots : slot[k].pc # "idle" /\ i \in slot[k].seen.payload
    BY <1>3, SettledStep DEF WorkGoesOn, Handles, Reopens, Promises
  <2>2. QED
    BY <1>1, <2>1, AcceptedStays DEF Settled, Promised
<1>4. QED
  BY <1>2, <1>3

LEMMA SettledNext == Settled /\ [Next]_vars => Settled'
<1> SUFFICES ASSUME Settled, [Next]_vars PROVE Settled'
  OBVIOUS
<1>1. Safe' /\ Typed'
  BY SafeNext, TypedNext DEF Settled, Safe
<1>2. CASE Next
  <2>1. Resting'
    BY <1>2, RowsStayAtRest
  <2>2. Promised'
    BY <1>1, <1>2, RowsStayPromised, SlotsStayPromised, HandledStaysPromised DEF Promised
  <2>3. QED
    BY <1>1, <2>1, <2>2 DEF Settled
<1>3. CASE UNCHANGED vars
  BY <1>1, <1>3 DEF vars, Settled, Resting, RestsWhenDone, Promised, Accepted
<1>4. QED
  BY <1>2, <1>3

LEMMA SpecSettled == Spec => []Settled
BY SettledInit, SettledNext, PTL DEF Spec

-----------------------------------------------------------------------------
(* What a step may never do. *)

\* Completed work stays as it is, and dead work but for an operator's requeue.
THEOREM TerminalRest == Spec => TerminalWorkRests
<1> DEFINE Rests ==
      \A w \in Works :
        /\ rows[w].state = "completed" => rows'[w] = rows[w]
        /\ rows[w].state = "dead" /\ rows'[w] # rows[w] =>
             /\ rows[w].manualRetries < MaxManualRetries
             /\ rows'[w] = Requeued(rows[w])
<1>1. ASSUME Settled, Next PROVE Rests
  <2> SUFFICES ASSUME NEW w \in Works, rows[w].state \in Terminal, rows'[w] # rows[w]
               PROVE  /\ rows[w].state = "dead"
                      /\ rows[w].manualRetries < MaxManualRetries
                      /\ rows'[w] = Requeued(rows[w])
    BY DEF Terminal
  <2>1. ~WorkGoesOn /\ ~Handles
    BY DEF WorkGoesOn, Handles
  <2>2. ~Promises
    BY DEF Promises, Commits
  <2>3. PICK v \in Works : Revives(v)
    BY <1>1, <2>1, <2>2, SettledStep DEF Reopens
  <2>4. v = w
    BY <2>3 DEF Revives
  <2>5. QED
    BY <2>3, <2>4 DEF Revives, Requeueable
<1>2. Settled /\ [Next]_vars => [Rests]_vars
  BY <1>1
<1>3. QED
  BY <1>2, SpecSettled, PTL DEF Spec, TerminalWorkRests

\* A running row under a live lease is changed by the slot that claimed it and
\* by nobody else.
THEOREM LeaseRespected == Spec => RunningRowLeftToHolder
<1> DEFINE Left ==
      \A w \in Works :
        /\ rows[w].state = "running" /\ rows[w].lease > 0
        /\ rows'[w].version # rows[w].version
        => \E k \in Slots : /\ Claimed(k)
                            /\ slot[k].seen.work = w
                            /\ slot[k].seen.version = rows[w].version
                            /\ slot'[k] # slot[k]
<1>1. ASSUME Settled, Next PROVE Left
  <2> SUFFICES ASSUME NEW w \in Works, rows[w].state = "running", rows[w].lease > 0,
                      rows'[w].version # rows[w].version
               PROVE  \E k \in Slots : Holder(k, w)
    BY DEF Holder
  <2>1. Safe /\ Resting /\ Promised /\ rows'[w] # rows[w]
    BY <1>1 DEF Settled
  <2>2. ASSUME NEW r \in Requests, Staging(r) PROVE FALSE
    BY <2>1, <2>2, StagingCommits DEF Commits
  <2>3. ASSUME NEW d \in Dispatchers, ClaimBatch(d) \/ HandOff(d) \/ DispatcherExits(d)
        PROVE  FALSE
    BY <2>1, <2>3, DispatcherWorks
  <2>4. ASSUME OperatorRecovers \/ ManualRequeue \/ QueueLosesJob \/ Tick
        PROVE  FALSE
    <3>1. CASE OperatorRecovers \/ QueueLosesJob
      BY <2>1, <3>1, RecoveryCommandWorks
    <3>2. CASE Tick
      BY <2>1, <3>2, TickWorks
    <3>3. CASE ManualRequeue
      <4>1. PICK v \in Works : Revives(v)
        BY <2>1, <3>3, RequeueRevives
      <4>2. rows[v].state = "dead"
        BY <2>1, <4>1, RevivedRests
      <4>3. QED
        BY <2>1, <4>1, <4>2 DEF Revives
    <3>4. QED
      BY <2>4, <3>1, <3>2, <3>3
  <2>5. PICK k \in Slots : Execution(k) \/ WorkerExits(k)
    BY <1>1, <2>2, <2>3, <2>4 DEF Next
  <2>6. QED
    BY <2>1, <2>5, SlotWorks
<1>2. Settled /\ [Next]_vars => [Left]_vars
  BY <1>1 DEF vars
<1>3. QED
  BY <1>2, SpecSettled, PTL DEF Spec, RunningRowLeftToHolder

-----------------------------------------------------------------------------
(* The refinement. *)

\* A row that is not finished carries the intent.
Live(i) == \E w \in Works : i \in rows[w].payload /\ rows[w].state \notin Terminal

\* The status of an intent under the invariant: none is lost.
Standing(i) ==
  IF ~Accepted(i) THEN "absent"
  ELSE IF i \in handled THEN "served"
  ELSE IF Live(i) THEN "open" ELSE "failed"

LEMMA StandingIs ==
  ASSUME Safe, NEW i \in Intents
  PROVE  IntentStatus(i) = Standing(i)
<1> DEFINE states == {rows[w].state : w \in Carriers(i)}
<1>1. CASE Accepted(i) /\ i \notin handled
  <2>1. PICK w \in Works : i \in rows[w].payload
    BY <1>1 DEF Safe, AcceptedCarried, Carriers
  <2>2. rows[w].state # "completed" /\ rows[w].state \in states
    BY <1>1, <2>1 DEF Safe, CompletedWorkWasHandled, Carriers
  <2>3. Live(i) <=> ~(states \subseteq Terminal)
    BY DEF Live, Carriers
  <2>4. states \subseteq Terminal => "dead" \in states
    BY <2>2 DEF Terminal
  <2> HIDE DEF states
  <2>5. IntentStatus(i) = CASE ~(states \subseteq Terminal) -> "open"
                            [] states \subseteq Terminal /\ "dead" \in states -> "failed"
                            [] OTHER -> "lost"
    BY <1>1 DEF IntentStatus, states
  <2>6. QED
    BY <1>1, <2>3, <2>4, <2>5 DEF Standing
<1>2. CASE ~Accepted(i) \/ i \in handled
  BY <1>2 DEF IntentStatus, Standing
<1>3. QED
  BY <1>1, <1>2

\* How the standing of one intent may move in each kind of step.
LEMMA WorkMoves ==
  ASSUME WorkGoesOn, NEW i \in Intents
  PROVE  Standing(i)' = Standing(i) \/ (Standing(i) = "open" /\ Standing(i)' = "failed")
<1>1. (Accepted(i)' <=> Accepted(i)) /\ handled' = handled
  BY DEF WorkGoesOn, SameAccepted
<1>2. Live(i)' => Live(i)
  BY DEF Live, WorkGoesOn
<1>3. QED
  BY <1>1, <1>2 DEF Standing

LEMMA HandlingMoves ==
  ASSUME Handles, NEW i \in Intents
  PROVE  \/ Standing(i)' = Standing(i)
         \/ Standing(i) \in {"open", "failed"} /\ Standing(i)' = "served"
<1>1. (Accepted(i)' <=> Accepted(i)) /\ handled \subseteq handled'
  BY DEF Handles, SameAccepted
<1>2. Live(i)' <=> Live(i)
  BY DEF Live, Handles
<1>3. QED
  BY <1>1, <1>2 DEF Standing

LEMMA ReopeningMoves ==
  ASSUME Safe, Reopens, NEW i \in Intents
  PROVE  Standing(i)' = Standing(i) \/ (Standing(i) = "failed" /\ Standing(i)' = "open")
<1>1. (Accepted(i)' <=> Accepted(i)) /\ handled' = handled
  BY DEF Reopens, SameAccepted
<1>2. PICK v \in Works : Revives(v)
  BY DEF Reopens
<1>3. /\ rows[v].state = "dead" /\ rows'[v].state = "pending"
      /\ rows'[v].payload = rows[v].payload
      /\ \A w \in Works : w # v => rows'[w] = rows[w]
  BY <1>2, RevivedRests DEF Revives
<1>4. Live(i) => Live(i)'
  BY <1>3 DEF Live, Terminal
<1>5. QED
  BY <1>1, <1>4 DEF Standing

\* A commit opens its own intent, new or failed, and leaves the others alone.
LEMMA PromiseMoves ==
  ASSUME Promised, NEW r \in Requests, NEW w \in Works, Commits(r, w), handled' = handled,
         NEW i \in Intents
  PROVE  \/ Standing(i)' = Standing(i)
         \/ i = IntentOf[r] /\ Standing(i) \in {"absent", "failed"} /\ Standing(i)' = "open"
<1>1. CASE i = IntentOf[r]
  <2>1. Accepted(i)' /\ Live(i)'
    BY <1>1 DEF Commits, Live
  <2>2. i \in handled => Accepted(i)
    BY DEF Promised
  <2>3. QED
    BY <1>1, <2>1, <2>2 DEF Standing
<1>2. CASE i # IntentOf[r]
  <2>1. Accepted(i)' <=> Accepted(i)
    BY <1>2 DEF Commits
  <2>2. Live(i)' <=> Live(i)
    BY <1>2 DEF Commits, Live
  <2>3. QED
    BY <2>1, <2>2 DEF Standing
<1>3. QED
  BY <1>1, <1>2

Status == [i \in Intents |-> IntentStatus(i)]

StandingTable == [i \in Intents |-> Standing(i)]

LEMMA StatusIs == Safe => Status = StandingTable
BY StandingIs DEF Status, StandingTable

LEMMA StandingTyped == StandingTable \in [Intents -> {"absent", "open", "served", "failed"}]
BY DEF StandingTable, Standing

LEMMA StatusRefined ==
  ASSUME Settled, Settled', Next
  PROVE  Durable!DurableNext \/ Status' = Status
<1>1. Status = StandingTable /\ Status' = StandingTable'
  <2>1. Safe /\ Safe'
    BY DEF Settled
  <2>2. (Status = StandingTable)'
    BY <2>1, StatusIs, PTL
  <2>3. QED
    BY <2>1, <2>2, StatusIs
<1>2. /\ Status \in [Intents -> {"absent", "open", "served", "failed"}]
      /\ Status' \in [Intents -> {"absent", "open", "served", "failed"}]
  <2>1. (StandingTable \in [Intents -> {"absent", "open", "served", "failed"}])'
    BY StandingTyped, PTL
  <2>2. QED
    BY <1>1, <2>1, StandingTyped
<1>3. \A i \in Intents : Status[i] = Standing(i) /\ Status'[i] = Standing(i)'
  BY <1>1 DEF StandingTable
<1>4. CASE WorkGoesOn
  <2>1. \A i \in Intents : Status'[i] # Status[i] => Status[i] = "open" /\ Status'[i] = "failed"
    BY <1>3, <1>4, WorkMoves
  <2>2. Status' # Status => Durable!Fail
    BY <1>2, <2>1 DEF Durable!Fail, Durable!Move, Durable!Statuses, Status
  <2>3. QED
    BY <2>2 DEF Durable!DurableNext
<1>5. CASE Handles
  <2>1. \A i \in Intents : Status'[i] # Status[i] =>
          Status[i] \in {"open", "failed"} /\ Status'[i] = "served"
    BY <1>3, <1>5, HandlingMoves
  <2>2. Status' # Status => Durable!Serve
    BY <1>2, <2>1 DEF Durable!Serve, Durable!Move, Durable!Statuses, Status
  <2>3. QED
    BY <2>2 DEF Durable!DurableNext
<1>6. CASE Reopens
  <2>1. \A i \in Intents : Status'[i] # Status[i] =>
          Status[i] = "failed" /\ Status'[i] = "open"
    BY <1>3, <1>6, ReopeningMoves DEF Settled
  <2>2. Status' # Status => Durable!Reopen
    BY <1>2, <2>1 DEF Durable!Reopen, Durable!Move, Durable!Statuses, Status
  <2>3. QED
    BY <2>2 DEF Durable!DurableNext
<1>7. CASE Promises
  <2>1. PICK r \in Requests, w \in Works : Commits(r, w) /\ handled' = handled
    BY <1>7 DEF Promises
  <2> DEFINE i == IntentOf[r]
  <2>2. i \in Intents
    BY BackgroundWorkAssumption
  <2>3. \A j \in Intents : j # i => Status'[j] = Status[j]
    BY <1>3, <2>1, PromiseMoves DEF Settled
  <2>4. \/ Status'[i] = Status[i]
        \/ Status[i] \in {"absent", "failed"} /\ Status'[i] = "open"
    BY <1>3, <2>1, <2>2, PromiseMoves DEF Settled
  <2>5. CASE Status'[i] = Status[i]
    BY <1>2, <2>3, <2>5
  <2>6. CASE Status[i] = "absent" /\ Status'[i] = "open"
    <3>1. Status' = [Status EXCEPT ![i] = "open"]
      BY <1>2, <2>2, <2>3, <2>6
    <3>2. Durable!Accept
      BY <2>2, <2>6, <3>1 DEF Durable!Accept, Status
    <3>3. QED
      BY <3>2 DEF Durable!DurableNext
  <2>7. CASE Status[i] = "failed" /\ Status'[i] = "open"
    <3>1. \A j \in Intents : Status'[j] # Status[j] => Status[j] = "failed" /\ Status'[j] = "open"
      BY <2>3, <2>7
    <3>2. Status' # Status
      BY <2>7
    <3>3. Durable!Reopen
      BY <1>2, <3>1, <3>2 DEF Durable!Reopen, Durable!Move, Durable!Statuses, Status
    <3>4. QED
      BY <3>3 DEF Durable!DurableNext
  <2>8. QED
    BY <2>4, <2>5, <2>6, <2>7
<1>8. QED
  BY <1>4, <1>5, <1>6, <1>7, SettledStep

\* The pipeline implements DurableIntents: it starts with no intent accepted,
\* and every step accepts one, serves, fails or reopens some, or leaves the
\* status of every intent alone.
THEOREM Refinement == Spec => KeepsDurableIntents
<1>1. Init => Durable!DurableInit
  BY DEF Init, Durable!DurableInit, IntentStatus, Accepted
<1>2. Settled /\ Settled' /\ [Next]_vars => [Durable!DurableNext]_Status
  <2> SUFFICES ASSUME Settled, Settled', [Next]_vars
               PROVE  Durable!DurableNext \/ Status' = Status
    OBVIOUS
  <2>1. CASE UNCHANGED vars
    BY <2>1 DEF vars, Status, IntentStatus, Accepted, Carriers
  <2>2. QED
    BY <2>1, StatusRefined
<1>3. QED
  BY <1>1, <1>2, SpecSettled, PTL
     DEF Spec, KeepsDurableIntents, Durable!DurableSpec, Status
=============================================================================
