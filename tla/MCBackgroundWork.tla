-------------------------- MODULE MCBackgroundWork --------------------------
(* Small instances of the background-work pipeline for TLC. *)
EXTENDS BackgroundWork, TLC

CONSTANTS
  w1, w2,          \* rows
  a, b,            \* intents
  ra, rb, rb2,     \* the requests that stage them, rb2 a duplicate of rb
  ka, kb,          \* coalescing keys
  d1, d2, p1,      \* dispatcher ids and a worker process id
  s1, s2           \* job slots

IntentOfRequest == [r \in Requests |-> IF r = ra THEN a ELSE b]

\* Both intents concern one reconciliation target, two targets, or none.
OneTarget  == [i \in Intents |-> ka]
TwoTargets == [i \in Intents |-> IF i = a THEN ka ELSE kb]

\* The slots of one worker process: they share their lease owner.
OneProcess == [k \in Slots |-> p1]

RowSymmetry   == Permutations(Works)
ActorSymmetry == Permutations(Slots) \cup Permutations(Dispatchers)
=============================================================================
