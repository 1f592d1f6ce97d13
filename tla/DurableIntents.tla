--------------------------- MODULE DurableIntents ---------------------------
(***************************************************************************)
(* What the outbox promises the rest of the backend, seen from one         *)
(* accepted intent: it is open until a handler has run for it or its work  *)
(* is visibly dead; an operator or a new submission may reopen a failed    *)
(* intent; delivery is at least once, so nothing is said of how often the  *)
(* handler runs.  Nothing takes an accepted intent back.                   *)
(***************************************************************************)
CONSTANT Intents

VARIABLE status

Statuses == {"absent", "open", "served", "failed"}

DurableTypeOK == status \in [Intents -> Statuses]

DurableInit == status = [i \in Intents |-> "absent"]

\* A set of intents moves together: one row carries several of them.
Move(from, to) ==
  /\ status' # status
  /\ status' \in [Intents -> Statuses]
  /\ \A i \in Intents : status'[i] # status[i] => status[i] \in from /\ status'[i] = to

Accept == \E i \in Intents : /\ status[i] = "absent"
                             /\ status' = [status EXCEPT ![i] = "open"]
Serve  == Move({"open", "failed"}, "served")
Fail   == Move({"open"}, "failed")
Reopen == Move({"failed"}, "open")

DurableNext == Accept \/ Serve \/ Fail \/ Reopen

DurableSpec == DurableInit /\ [][DurableNext]_status
=============================================================================
