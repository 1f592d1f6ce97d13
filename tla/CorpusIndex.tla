---------------------------- MODULE CorpusIndex ----------------------------
(***************************************************************************)
(* What the RAG index promises those who search it, whatever runs there    *)
(* are and however they overlap: for each source it shows one content or   *)
(* none.  A content shown is not newer than the source, and is never       *)
(* replaced by an older one; once the index has caught up with a source it *)
(* shows nothing but its present content, until the source changes.        *)
(***************************************************************************)
EXTENDS Integers

CONSTANT Sources

VARIABLES
  row,      \* the authoritative sources: their kind and their revision
  shown,    \* the revision last published of each source, and if it is searchable
  caughtUp  \* the sources the index has caught up with

index == <<row, shown, caughtUp>>

\* Nothing is shown of a source but its present content.
Current(s) == shown[s].searchable => row[s].kind = "eligible" /\ shown[s].rev = row[s].rev

IndexInit == caughtUp = {} /\ \A s \in Sources : Current(s)

\* A source changes: the index still shows what it showed.
Edit(s) ==
  /\ row'[s].rev > row[s].rev
  /\ row' = [row EXCEPT ![s] = row'[s]]
  /\ caughtUp' = caughtUp \ {s}
  /\ UNCHANGED shown

\* Publishing goes forward, and does nothing but repeat what is current of a
\* source the index has caught up with.
Publish(s) ==
  /\ \E rev \in shown[s].rev .. row[s].rev :
       /\ s \in caughtUp => row[s].kind = "eligible" /\ rev = row[s].rev
       /\ shown' = [shown EXCEPT ![s] = [rev |-> rev, searchable |-> TRUE]]
  /\ UNCHANGED <<row, caughtUp>>

Withhold(keys) ==
  /\ shown' = [s \in Sources |-> [shown[s] EXCEPT !.searchable = @ /\ s \notin keys]]
  /\ UNCHANGED <<row, caughtUp>>

CatchUp(keys) ==
  /\ \A s \in keys : Current(s)
  /\ caughtUp' = caughtUp \cup keys
  /\ UNCHANGED <<row, shown>>

IndexNext ==
  \/ \E s \in Sources : Edit(s) \/ Publish(s)
  \/ \E keys \in SUBSET Sources : Withhold(keys) \/ CatchUp(keys)

IndexSpec == IndexInit /\ [][IndexNext]_index
=============================================================================
