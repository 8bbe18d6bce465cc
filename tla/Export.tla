-------------------------------- MODULE Export --------------------------------
(***************************************************************************)
(* `repossess export` after its restore (commands/export.rs): it lists     *)
(* the latest conversations, takes the first the API lets it have, stores  *)
(* the response, and then its text: the branch of the conversation's tree  *)
(* that ends in current_node, which walk_to_current follows along parents  *)
(* (workload/chatgpt.rs).  The requests are ApiClient's.                   *)
(*                                                                         *)
(* A response is any map from nodes to parents: a parent may be missing    *)
(* from it, and nothing says that parents do not go round in a circle.     *)
(***************************************************************************)
EXTENDS ApiClient, Functions, SequencesExt

CONSTANTS
  Nodes, NoNode,   \* ids of nodes; None
  Shown,           \* the nodes with a finished message that is not blank
  MaxItems         \* conversations asked for

ASSUME ExportConstants ==
  /\ IsFiniteSet(Nodes) /\ NoNode \notin Nodes /\ Shown \subseteq Nodes
  /\ MaxItems \in Nat \ {0}

VARIABLES
  phase,            \* where the command is
  items,            \* conversations of the listing not yet tried
  parent, current,  \* of the response: mapping, current_node
  cursor, path,     \* walk_to_current: id and path; then what of it is to be rendered
  text,             \* the messages rendered, in order
  stored            \* which of the two files are in the store

treeVars   == <<parent, current>>
walkVars   == <<cursor, path, text>>
exportVars == <<phase, items, treeVars, walkVars, stored>>
allVars    == <<vars, exportVars>>

Ended == {"empty", "none_accessible", "exported", "failed"}
NoTree == [n \in {} |-> NoNode]
Trees  == UNION {[D -> Nodes \cup {NoNode}] : D \in SUBSET Nodes}

ExportTypeOK ==
  /\ ApiTypeOK
  /\ phase \in {"requests", "put_json", "walk", "render", "put_md"} \cup Ended
  /\ items \in 0 .. MaxItems
  /\ DOMAIN parent \subseteq Nodes /\ Range(parent) \subseteq Nodes \cup {NoNode}
  /\ current \in Nodes \cup {NoNode} /\ cursor \in Nodes \cup {NoNode}
  /\ path \in Seq(Nodes) /\ text \in Seq(Shown)
  /\ stored \subseteq {"json", "md"}

ExportInit ==
  /\ Init
  /\ phase = "requests" /\ items = 0
  /\ parent = NoTree /\ current = NoNode
  /\ cursor = NoNode /\ path = <<>> /\ text = <<>>
  /\ stored = {}

-----------------------------------------------------------------------------
BugSameItem == UNCHANGED items   \* a failure is answered by asking again

NextItem == items' = items - 1

(* What the export does with an answer: the listing must come, and the first
   conversation that comes is the one. *)
HandleListing ==
  /\ stage = "list"
  /\ \/ /\ result = "ok"
        /\ items' \in 0 .. MaxItems
        /\ stage' = IF items' = 0 THEN "complete" ELSE "detail"
        /\ phase' = IF items' = 0 THEN "empty" ELSE phase
     \/ /\ result # "ok"
        /\ phase' = "failed"
        /\ UNCHANGED items
  /\ UNCHANGED treeVars

HandleConversation ==
  /\ stage = "detail"
  /\ \/ /\ result = "ok"
        /\ parent' \in Trees /\ current' \in Nodes \cup {NoNode}
        /\ stage' = "complete"
        /\ phase' = "put_json"
        /\ UNCHANGED items
     \/ /\ result # "ok"
        /\ NextItem
        /\ stage' = IF items' = 0 THEN "complete" ELSE "detail"
        /\ phase' = IF items' = 0 THEN "none_accessible" ELSE phase
        /\ UNCHANGED treeVars

ExportHandles ==
  /\ Handle
  /\ HandleListing \/ HandleConversation
  /\ UNCHANGED <<walkVars, stored>>

(* A put of one of the two files fails, and the command with it. *)
PutFails ==
  /\ phase \in {"put_json", "put_md"}
  /\ phase' = "failed"
  /\ UNCHANGED <<vars, items, treeVars, walkVars, stored>>

PutJson ==
  /\ phase = "put_json"
  /\ stored' = stored \cup {"json"}
  /\ phase' = "walk"
  /\ cursor' = current
  /\ UNCHANGED <<vars, items, treeVars, path, text>>

-----------------------------------------------------------------------------
BugNotReversed(p) == p   \* path.reverse() is missing
Reversed(p) == Reverse(p)

Walked(p) ==
  /\ path' = Reversed(p)
  /\ phase' = "render"
  /\ UNCHANGED cursor

(***************************************************************************)
(* walk_to_current, one turn of its loop at a time.  A path longer than    *)
(* there are nodes goes round in a circle; the walk would go on for ever,  *)
(* and stands still here.                                                  *)
(***************************************************************************)
WalkToCurrent ==
  /\ phase = "walk"
  /\ \/ /\ cursor \in DOMAIN parent /\ parent[cursor] # NoNode
        /\ Len(path) <= Cardinality(Nodes)
        /\ path' = Append(path, cursor)
        /\ cursor' = parent[cursor]
        /\ UNCHANGED phase
     \/ /\ cursor \in DOMAIN parent /\ parent[cursor] = NoNode
        /\ Walked(Append(path, cursor))
     \/ /\ cursor \notin DOMAIN parent
        /\ Walked(path)
  /\ UNCHANGED <<vars, items, treeVars, text, stored>>

(* to_markdown, one node of the path at a time. *)
ToMarkdown ==
  /\ phase = "render"
  /\ \/ /\ path # <<>>
        /\ path' = Tail(path)
        /\ text' = IF Head(path) \in Shown THEN Append(text, Head(path)) ELSE text
        /\ UNCHANGED phase
     \/ /\ path = <<>>
        /\ phase' = "put_md"
        /\ UNCHANGED <<path, text>>
  /\ UNCHANGED <<vars, items, treeVars, cursor, stored>>

PutMarkdown ==
  /\ phase = "put_md"
  /\ stored' = stored \cup {"md"}
  /\ phase' = "exported"
  /\ UNCHANGED <<vars, items, treeVars, walkVars>>

-----------------------------------------------------------------------------
(* The other steps of a client, and all of a workload's. *)
Requests ==
  /\ TokenExpires \/ SessionDies \/ Call \/ Await \/ (client = "workload" /\ Handle)
  /\ UNCHANGED exportVars

ExportStep ==
  /\ client = "export"
  /\ \/ Call /\ UNCHANGED exportVars
     \/ ExportHandles
     \/ PutFails \/ PutJson \/ WalkToCurrent \/ ToMarkdown \/ PutMarkdown

ExportNext == Requests \/ ExportStep

ExportSpec == ExportInit /\ [][ExportNext]_allVars

(* Answers, sleeps and refreshes end, as in ApiClient, and so do puts; between
   them the command is a sequential program that nothing holds up. *)
ExportFairSpec ==
  ExportSpec /\ WF_allVars(Requests /\ Await) /\ WF_allVars(ExportStep)

-----------------------------------------------------------------------------
(* The nodes from n upwards: the least set with n and the parents of its nodes. *)
Upwards(n) ==
  {m \in DOMAIN parent : \A S \in SUBSET DOMAIN parent :
     n \in S /\ (\A k \in S : parent[k] \in DOMAIN parent => parent[k] \in S) => m \in S}

Branch == IF current \in DOMAIN parent THEN Upwards(current) ELSE {}

(* The branch has an oldest node. *)
BranchEnds == Branch # {} => \E n \in Branch : parent[n] \notin DOMAIN parent

(***************************************************************************)
(* The text in the store has every message of the branch of current_node   *)
(* that is to be shown and no other, each once and older ones first,       *)
(* whatever is missing from the mapping; and its JSON is there too.        *)
(***************************************************************************)
MarkdownIsBranch ==
  "md" \in stored =>
    /\ Range(text) = Branch \cap Shown
    /\ \A i, j \in DOMAIN text : i < j => text[i] # text[j] /\ text[i] \in Upwards(text[j])
    /\ "json" \in stored

(***************************************************************************)
(* An export ends, whatever the API answers, if the parents of the         *)
(* conversation it got do not go round in a circle: that walk_to_current   *)
(* would follow for ever (chatgpt.rs:278), the JSON being stored by then.  *)
(***************************************************************************)
ExportEnds == client = "export" ~> phase \in Ended \/ ~BranchEnds
==============================================================================
