--------------------------- MODULE MCAuthSessions ---------------------------
(* Accounts and sessions small enough for TLC. *)
EXTENDS AuthSessions, TLC

CONSTANTS u1, u2, p1, p2, a1, r1, r2, r3

Account(role) == [role |-> role, active |-> TRUE, password |-> 1, version |-> 1]

MCFirstRow     == [u \in Users |-> Account("player")]
MCFirstProfile == [p \in Players |-> [active |-> TRUE, user |-> IF p = p1 THEN u1 ELSE None, version |-> 1]]

\* The calls each workload may make; every other kind is not called.
Calls(f) == [op \in Ops |-> IF op \in DOMAIN f THEN f[op] ELSE 0]

MCWorkloads ==
  {Calls([tick |-> 2, login |-> 5]),
   Calls([tick |-> 2, login |-> 1, refresh |-> 3, revoke |-> 1]),
   Calls([tick |-> 1, login |-> 1, refresh |-> 2, logout |-> 1, revoke |-> 1]),
   Calls([login |-> 1, refresh |-> 1, me |-> 2, disable |-> 1, reactivate |-> 1]),
   Calls([login |-> 2, refresh |-> 1, password |-> 1, role |-> 1]),
   Calls([login |-> 1, refresh |-> 1, deactivate |-> 1, activate |-> 1, unlink |-> 1]),
   Calls([link |-> 2, reassign |-> 2, unlink |-> 1])}

Interchangeable == Permutations(Requests)
=============================================================================
