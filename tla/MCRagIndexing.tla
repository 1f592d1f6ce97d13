--------------------------- MODULE MCRagIndexing ---------------------------
(* Small instances of RAG indexing for TLC. *)
EXTENDS RagIndexing, TLC

CONSTANTS
  full, incremental, targeted,  \* runs
  old, new                      \* embedding profiles

\* With one profile all traversals are alike.
TraversalSymmetry == Permutations(Traversals)

ScopeOfRun    == [r \in Runs |-> IF r \in Traversals THEN Sources ELSE {1}]
OneProfile    == [r \in Runs |-> old]
NewForRebuild == [r \in Runs |-> IF r = incremental THEN old ELSE new]

AllChanges == {c \in Kinds \X Kinds : c # <<"absent", "absent">>}
\* Rows are revised and removed; none appears.
Updates    == {<<"eligible", k>> : k \in Kinds}
Insertions == {<<"absent", "eligible">>}
=============================================================================
