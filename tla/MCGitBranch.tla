----------------------------- MODULE MCGitBranch -----------------------------
(* Small instances of the git_branch store: see the .cfg files. *)
EXTENDS GitBranch, TLC

CONSTANTS
  latest, snapshot,   \* a key that is swapped and one that is put
  a, b, blob          \* two bodies of the first, one of the second

OwnCopy == [t \in Tasks |-> t]
OneCopy == [t \in Tasks |-> CHOOSE c \in Copies : TRUE]

(* Checkpoints and locks are swapped, snapshots are put. *)
RunCalls ==
  [op : {"swap"}, key : {latest}, body : {a, b}]
    \cup [op : {"get", "head", "delete"}, key : {latest}, body : {None}]
    \cup [op : {"put"}, key : {snapshot}, body : {blob}]

(* An import puts bodies. *)
ImportCalls == [op : {"put"}, key : Keys, body : {a, b}]

Interchangeable == Permutations(Tasks) \cup Permutations({a, b})
==============================================================================
