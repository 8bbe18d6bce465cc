----------------------------- MODULE Export_proofs -----------------------------
(***************************************************************************)
(* The safety properties of the API clients, for every retry budget; that  *)
(* the export asks the API as ApiClient says, so they hold of it; and that *)
(* the text it stores is the branch of the conversation, for every tree.   *)
(***************************************************************************)
EXTENDS Export, ListLemmas

(***************************************************************************)
(* Where the requests of a call went: one is the first, one per answer     *)
(* that was backed off from, one after the refresh.  An answer is counted  *)
(* before its back-off, and a refresh is noted before its request, so both *)
(* are owed one while the client is there.                                 *)
(***************************************************************************)
Accounted ==
  /\ pc = "waiting" =>
       attempt <= MaxRetries /\ requests = 1 + attempt + refreshed
  /\ pc = "backing_off" =>
       attempt <= MaxRetries /\ requests + 1 = 1 + attempt + refreshed
  /\ pc = "refreshing" =>
       attempt <= MaxRetries /\ refreshed = 1 /\ requests = 1 + attempt
  /\ requests <= MaxRetries + 2
  /\ pc = "returned" /\ result = "transient" =>
       requests = 1 + MaxRetries + refreshed

(* A token that is refused after its refresh has expired since. *)
Refused ==
  /\ again = 1 => refreshed = 1
  /\ pc = "waiting" /\ refreshed = 1 /\ token = "expired" => again = 1
  /\ pc = "backing_off" /\ refreshed = 1 /\ token = "expired" => again = 1
  /\ RefusedTwice

(* The stages come in order, so that a refusal before the sweep is the end. *)
Denials ==
  /\ stage = "list" => denied = {}
  /\ stage = "list" => ~failed
  /\ client = "workload" /\ stage = "detail" => denied = {}
  /\ client = "workload" /\ stage = "sweep" => denied \subseteq {"sweep"} /\ failed
  /\ stage \in {"complete", "failed"} => pc = "idle"
  /\ DeniedOnlyInSweep

ApiInv == ApiTypeOK /\ Accounted /\ Refused /\ Denials

LEMMA InitInv == Init => ApiInv
<1> SUFFICES ASSUME Init PROVE ApiInv
  OBVIOUS
<1>1. ApiTypeOK
  <2>1. denied \subseteq Stages /\ failed \in BOOLEAN
    BY Zenon DEF Init
  <2> QED
    BY <2>1, RetriesAreCounted, SMT DEF Init, ApiTypeOK, Clients, Results, Stages
<1>2. Accounted /\ Refused
  BY RetriesAreCounted, SMT DEF Init, Accounted, Refused, RefusedTwice
<1>3. Denials
  BY Zenon DEF Init, Denials, DeniedOnlyInSweep
<1> QED
  BY <1>1, <1>2, <1>3 DEF ApiInv

LEMMA NextInv == ApiInv /\ [Next]_vars => ApiInv'
<1> SUFFICES ASSUME ApiInv, [Next]_vars PROVE ApiInv'
  OBVIOUS
<1> USE RetriesAreCounted
        DEF ApiInv, ApiTypeOK, Accounted, Refused, RefusedTwice,
            Denials, DeniedOnlyInSweep, Clients, Results, Stages
<1>1. CASE TokenExpires
  BY <1>1, SMT DEF TokenExpires, callerVars
<1>2. CASE SessionDies
  BY <1>2, SMT DEF SessionDies, clientVars, callerVars
<1>3. CASE Call
  BY <1>3, SMT DEF Call, serverVars, callerVars
<1>4. CASE Overloaded
  BY <1>4, SMT DEF Overloaded, Return, serverVars, callerVars
<1>5. CASE Unauthorized
  BY <1>5, SMT DEF Unauthorized, Return, serverVars, callerVars
<1>6. CASE Answered
  BY <1>6, SMT DEF Answered, Return, serverVars, callerVars
<1>7. CASE Broken
  BY <1>7, SMT DEF Broken, Return, serverVars, callerVars
<1>8. CASE Resend
  BY <1>8, SMT DEF Resend, Send, serverVars, callerVars
<1>9. CASE RefreshToken
  BY <1>9, SMT DEF RefreshToken, Return, Send, callerVars
<1>10. CASE Handle
  <2> USE DEF Handle, Fails, serverVars
  <2>1. ApiTypeOK' /\ Accounted' /\ Refused'
    <3>1. denied' \subseteq Stages
      BY <1>10, Zenon
    <3>2. failed' \in BOOLEAN
      BY <1>10, Zenon
    <3>3. stage' \in Stages
      BY <1>10, SMT
    <3> QED
      BY <1>10, <3>1, <3>2, <3>3, SMT
  <2>2. CASE Fails(result)
    BY <1>10, <2>2, <2>1, SMT
  <2>3. CASE ~Fails(result) /\ stage = "list"
    <3>1. ~failed' /\ denied' = {}
      BY <1>10, <2>3, Zenon
    <3>2. stage' \in {"list", "detail", "complete"} /\ pc' = "idle"
      BY <1>10, <2>3, SMT
    <3> QED
      BY <2>1, <3>1, <3>2, SMT
  <2>4. CASE ~Fails(result) /\ stage = "detail" /\ client = "workload"
    <3>1. denied' = {}
      BY <1>10, <2>4, SMT
    <3>2. stage' \in {"detail", "sweep", "complete"} /\ pc' = "idle" /\ client' = client
      BY <1>10, <2>4, SMT
    <3>3. stage' = "sweep" => failed'
      BY <1>10, <2>4, Zenon
    <3> QED
      BY <2>1, <2>4, <3>1, <3>2, <3>3, Zenon
  <2>5. CASE ~Fails(result) /\ stage = "sweep" /\ client = "workload"
    <3>1. denied' \subseteq {"sweep"}
      BY <1>10, <2>5, Zenon
    <3>2. failed'
      BY <1>10, <2>5, Zenon
    <3>3. stage' \in {"sweep", "complete"} /\ pc' = "idle"
      BY <1>10, <2>5, SMT
    <3> QED
      BY <2>1, <3>1, <3>2, <3>3, Zenon
  <2>6. CASE ~Fails(result) /\ stage # "list" /\ client # "workload"
    BY <1>10, <2>6, <2>1, SMT
  <2>7. CASE stage \in {"complete", "failed"}
    BY <1>10, <2>7, SMT
  <2> QED
    BY <1>10, <2>2, <2>3, <2>4, <2>5, <2>6, <2>7, SMT
<1>11. CASE UNCHANGED vars
  BY <1>11, SMT DEF vars, serverVars, clientVars, callerVars
<1> QED
  BY <1>1, <1>2, <1>3, <1>4, <1>5, <1>6, <1>7, <1>8, <1>9, <1>10, <1>11
     DEF Next, Await, Answer

LEMMA InvHolds == Spec => []ApiInv
BY InitInv, NextInv, PTL DEF Spec

(* The type invariant of the client. *)
THEOREM ApiTypeCorrect == Spec => []ApiTypeOK
<1>1. ApiInv => ApiTypeOK
  BY DEF ApiInv
<1> QED
  BY <1>1, InvHolds, PTL

(***************************************************************************)
(* No request is sent more than MaxRetries + 2 times, whatever the server  *)
(* answers (get_json, chatgpt_chats.rs and chatgpt.rs).                    *)
(***************************************************************************)
THEOREM RequestsAreBoundedHolds == Spec => []RequestsAreBounded
<1>1. ApiInv => RequestsAreBounded
  BY DEF ApiInv, Accounted, RequestsAreBounded
<1> QED
  BY <1>1, InvHolds, PTL

(***************************************************************************)
(* A transient failure spent exactly the budget: one request, MaxRetries   *)
(* retries, and one more if the token was refreshed on the way.            *)
(***************************************************************************)
THEOREM TransientIsExhaustedHolds == Spec => []TransientIsExhausted
<1>1. ApiInv => TransientIsExhausted
  BY RetriesAreCounted, SMT DEF ApiInv, ApiTypeOK, Accounted, TransientIsExhausted
<1> QED
  BY <1>1, InvHolds, PTL

(***************************************************************************)
(* The workload gives up on its token only after the session endpoint      *)
(* refused the request a new one, or the API stopped accepting the new one *)
(* (get_json, chatgpt_chats.rs): one refusal is never enough.              *)
(***************************************************************************)
THEOREM RefusedTwiceHolds == Spec => []RefusedTwice
<1>1. ApiInv => RefusedTwice
  BY DEF ApiInv, Refused
<1> QED
  BY <1>1, InvHolds, PTL

(***************************************************************************)
(* A workload that completes was refused, if at all, in the sweep only.    *)
(***************************************************************************)
THEOREM DeniedOnlyInSweepHolds == Spec => []DeniedOnlyInSweep
<1>1. ApiInv => DeniedOnlyInSweep
  BY DEF ApiInv, Denials
<1> QED
  BY <1>1, InvHolds, PTL

-----------------------------------------------------------------------------
(* A step of the export is one of the client, or none of its business. *)
LEMMA StepIsClientStep == [ExportNext]_allVars => [Next]_vars
<1> SUFFICES ASSUME [ExportNext]_allVars PROVE [Next]_vars
  OBVIOUS
<1>1. CASE Requests
  BY <1>1 DEF Requests, Next
<1>2. CASE ExportStep
  <2>1. CASE Call
    BY <2>1 DEF Next
  <2>2. CASE ExportHandles
    BY <2>2 DEF ExportHandles, Next
  <2>3. CASE PutFails \/ PutJson \/ WalkToCurrent \/ ToMarkdown \/ PutMarkdown
    BY <2>3 DEF PutFails, PutJson, WalkToCurrent, ToMarkdown, PutMarkdown
  <2> QED
    BY <1>2, <2>1, <2>2, <2>3 DEF ExportStep
<1>3. CASE UNCHANGED allVars
  BY <1>3 DEF allVars
<1> QED
  BY <1>1, <1>2, <1>3 DEF ExportNext

(***************************************************************************)
(* Whatever the export does with an answer, a caller of ApiClient may do.  *)
(***************************************************************************)
THEOREM ExportImplementsClient == ExportSpec => Spec
<1>1. ExportInit => Init
  BY DEF ExportInit
<1> QED
  BY <1>1, StepIsClientStep, PTL DEF ExportSpec, Spec

(***************************************************************************)
(* Hence no request of the workload or of an export is sent more than      *)
(* MaxRetries + 2 times.                                                   *)
(***************************************************************************)
THEOREM ExportRequestsAreBounded == ExportSpec => []RequestsAreBounded
BY ExportImplementsClient, RequestsAreBoundedHolds, PTL
-----------------------------------------------------------------------------
(***************************************************************************)
(* The command, once it is past its requests, has the client to itself;    *)
(* and the two files are stored in order.                                  *)
(***************************************************************************)
Phases ==
  /\ phase # "requests" => client = "export" /\ stage \in {"complete", "failed"}
  /\ client = "export" /\ stage = "detail" => items > 0
  /\ phase \in {"requests", "put_json"} => path = <<>>
  /\ phase \in {"requests", "put_json", "walk"} => text = <<>>
  /\ phase \in {"walk", "render", "put_md", "exported"} => "json" \in stored
  /\ "md" \in stored => phase = "exported"

(* From current along parents to the cursor, with no loose end. *)
Linked ==
  /\ path = <<>> => cursor = current
  /\ path # <<>> => path[1] = current /\ cursor = parent[path[Len(path)]]
  /\ \A i \in 1 .. Len(path) :
       /\ path[i] \in DOMAIN parent /\ parent[path[i]] # NoNode
       /\ i < Len(path) => path[i + 1] = parent[path[i]]

(* Each node comes after those it is an ancestor of. *)
Climbed ==
  /\ \A i, j \in 1 .. Len(path) : i <= j => path[j] \in Upwards(path[i])
  /\ cursor \in DOMAIN parent => \A i \in 1 .. Len(path) : cursor \in Upwards(path[i])

(* A node comes twice only when the walk is in a circle, which it does not leave. *)
NoTwice(p) == \A i, j \in 1 .. Len(p) : i < j => p[i] # p[j]
Circles    == \E i \in 1 .. Len(path) : cursor = path[i]

Walking == Linked /\ Climbed /\ (NoTwice(path) \/ Circles)

(* Older ones first: each node above those that come later, and only once. *)
OldestFirst(p) == \A i, j \in 1 .. Len(p) : i < j => p[i] # p[j] /\ p[i] \in Upwards(p[j])

Rendering ==
  /\ OldestFirst(text) /\ OldestFirst(path)
  /\ \A i \in 1 .. Len(text), j \in 1 .. Len(path) :
       text[i] # path[j] /\ text[i] \in Upwards(path[j])
  /\ \A i \in 1 .. Len(text) : text[i] \in Branch
  /\ \A i \in 1 .. Len(path) : path[i] \in Branch
  /\ \A n \in Branch \cap Shown :
       \/ \E i \in 1 .. Len(text) : text[i] = n
       \/ \E i \in 1 .. Len(path) : path[i] = n

Rendered == OldestFirst(text) /\ Range(text) = Branch \cap Shown

ExportInv ==
  /\ ApiInv
  /\ ExportTypeOK
  /\ Phases
  /\ phase = "walk" => Walking
  /\ phase = "render" => Rendering
  /\ phase \in {"put_md", "exported"} => Rendered
-----------------------------------------------------------------------------
(* Upwards(n) has n and is closed under parents, and is the least such set. *)
LEMMA UpwardsSelf ==
  ASSUME NEW n \in DOMAIN parent
  PROVE  n \in Upwards(n)
BY Zenon DEF Upwards

LEMMA UpwardsStep ==
  ASSUME NEW n, NEW m \in Upwards(n), parent[m] \in DOMAIN parent
  PROVE  parent[m] \in Upwards(n)
<1> SUFFICES ASSUME NEW S \in SUBSET DOMAIN parent,
                    n \in S, \A k \in S : parent[k] \in DOMAIN parent => parent[k] \in S
             PROVE  parent[m] \in S
  BY Zenon DEF Upwards
<1>1. m \in S
  BY Zenon DEF Upwards
<1> QED
  BY <1>1

LEMMA UpwardsLeast ==
  ASSUME NEW n, NEW S \in SUBSET DOMAIN parent,
         n \in S, \A k \in S : parent[k] \in DOMAIN parent => parent[k] \in S
  PROVE  Upwards(n) \subseteq S
BY Zenon DEF Upwards

LEMMA SameTree ==
  ASSUME UNCHANGED treeVars
  PROVE  /\ Branch' = Branch
         /\ \A j : Upwards(path[j])' = Upwards(path'[j])
         /\ \A j : Upwards(text[j])' = Upwards(text'[j])
BY Zenon DEF treeVars, Branch, Upwards

(* A walk from current that is over is the branch, which it has turned round. *)
WalkedOut(p) ==
  /\ p = <<>> => current \notin DOMAIN parent
  /\ p # <<>> => p[1] = current /\ parent[p[Len(p)]] \notin DOMAIN parent
  /\ \A i \in 1 .. Len(p) :
       /\ p[i] \in DOMAIN parent
       /\ i < Len(p) => p[i + 1] = parent[p[i]]
  /\ \A i, j \in 1 .. Len(p) : i <= j => p[j] \in Upwards(p[i])
  /\ NoTwice(p)

LEMMA WalkIsBranch ==
  ASSUME NEW p \in Seq(Nodes), WalkedOut(p)
  PROVE  \A n : n \in Branch <=> \E i \in 1 .. Len(p) : p[i] = n
<1>1. CASE p = <<>>
  BY <1>1, EmptySeq, SMT DEF WalkedOut, Branch
<1>2. CASE p # <<>>
  <2> DEFINE S == {p[i] : i \in 1 .. Len(p)}
  <2>1. Len(p) \in Nat \ {0} /\ 1 \in 1 .. Len(p) /\ Len(p) \in 1 .. Len(p)
    BY <1>2, EmptySeq, SMT
  <2>2. current \in S /\ S \in SUBSET DOMAIN parent
    BY <1>2, <2>1, Zenon DEF WalkedOut
  <2>3. ASSUME NEW k \in S, parent[k] \in DOMAIN parent
        PROVE  parent[k] \in S
    <3>1. PICK i \in 1 .. Len(p) : k = p[i]
      OBVIOUS
    <3>2. i # Len(p)
      BY <1>2, <2>3, <3>1 DEF WalkedOut
    <3>3. i < Len(p) /\ i + 1 \in 1 .. Len(p)
      BY <2>1, <3>2, SMT
    <3> QED
      BY <3>1, <3>3 DEF WalkedOut
  <2>4. Upwards(current) \subseteq S
    <3> HIDE DEF S
    <3>1. \A k \in S : parent[k] \in DOMAIN parent => parent[k] \in S
      BY <2>3
    <3> QED
      BY <2>2, <3>1, UpwardsLeast
  <2>5. S \subseteq Upwards(current)
    <3> SUFFICES ASSUME NEW i \in 1 .. Len(p) PROVE p[i] \in Upwards(current)
      OBVIOUS
    <3> QED
      BY <1>2, <2>1, SMT DEF WalkedOut
  <2>6. Branch = S
    BY <2>2, <2>4, <2>5 DEF Branch
  <2> QED
    BY <2>6
<1> QED
  BY <1>1, <1>2

LEMMA WalkRenders ==
  ASSUME NEW p \in Seq(Nodes), WalkedOut(p), text = <<>>,
         UNCHANGED <<treeVars, text>>, path' = Reverse(p)
  PROVE  path' \in Seq(Nodes) /\ Rendering'
<1>1. /\ path' \in Seq(Nodes) /\ Len(path') = Len(p) /\ Len(p) \in Nat
      /\ \A i \in 1 .. Len(p) :
           path'[i] = p[Len(p) - i + 1] /\ Len(p) - i + 1 \in 1 .. Len(p)
  BY ReverseProperties, LenProperties, Zenon
<1>2. Branch' = Branch /\ \A j : Upwards(path[j])' = Upwards(path'[j])
  BY SameTree
<1>3. text' = <<>> /\ Len(text') = 0 /\ 1 .. 0 = {}
  BY EmptySeq, SMT
<1>4. OldestFirst(path)'
  <2> SUFFICES ASSUME NEW i \in 1 .. Len(path'), NEW j \in 1 .. Len(path'), i < j
               PROVE  path'[i] # path'[j] /\ path'[i] \in Upwards(path'[j])
    BY <1>2 DEF OldestFirst
  <2> DEFINE a == Len(p) - j + 1
             b == Len(p) - i + 1
  <2>1. a \in 1 .. Len(p) /\ b \in 1 .. Len(p) /\ a < b /\ a <= b
    BY <1>1, SMT
  <2> HIDE DEF a, b
  <2>2. p[a] # p[b] /\ p[b] \in Upwards(p[a])
    BY <2>1, Zenon DEF WalkedOut, NoTwice
  <2>3. path'[i] = p[b] /\ path'[j] = p[a]
    BY <1>1 DEF a, b
  <2> QED
    BY <2>2, <2>3
<1>5. \A i \in 1 .. Len(path') : path'[i] \in Branch'
  BY <1>1, <1>2, WalkIsBranch
<1>6. ASSUME NEW n \in Branch'
      PROVE  \E i \in 1 .. Len(path') : path'[i] = n
  <2>1. PICK k \in 1 .. Len(p) : p[k] = n
    BY <1>2, <1>6, WalkIsBranch
  <2>2. Len(p) - k + 1 \in 1 .. Len(p) /\ Len(p) - (Len(p) - k + 1) + 1 = k
    BY <1>1, SMT
  <2>3. path'[Len(p) - k + 1] = p[k]
    BY <1>1, <2>2
  <2> QED
    BY <1>1, <2>1, <2>2, <2>3
<1>7. OldestFirst(text)'
  BY <1>3 DEF OldestFirst
<1> QED
  BY <1>1, <1>3, <1>4, <1>5, <1>6, <1>7 DEF Rendering
(* One node further up. *)
LEMMA WalkGoesOn ==
  ASSUME ExportTypeOK, Walking, cursor \in DOMAIN parent, NEW q, q = Append(path, cursor)
  PROVE  /\ q \in Seq(Nodes) /\ Len(q) = Len(path) + 1 /\ Len(path) \in Nat
         /\ \A i \in 1 .. Len(path) : q[i] = path[i]
         /\ q[Len(q)] = cursor /\ q[1] = current
         /\ \A i \in 1 .. Len(q) :
              /\ q[i] \in DOMAIN parent
              /\ i < Len(q) => q[i + 1] = parent[q[i]]
         /\ \A i, j \in 1 .. Len(q) : i <= j => q[j] \in Upwards(q[i])
         /\ NoTwice(q) \/ Circles
<1>1. path \in Seq(Nodes) /\ cursor \in Nodes /\ Len(path) \in Nat
  BY LenProperties DEF ExportTypeOK
<1>2. /\ q \in Seq(Nodes) /\ Len(q) = Len(path) + 1
      /\ \A i \in 1 .. Len(path) : q[i] = path[i]
      /\ q[Len(path) + 1] = cursor
  BY <1>1, AppendProperties, SMT
<1>3. 1 .. Len(q) = 1 .. Len(path) \cup {Len(q)}
  BY <1>1, <1>2, SMT
<1>4. q[1] = current
  <2>1. CASE path = <<>>
    BY <2>1, <1>2, EmptySeq, SMT DEF Walking, Linked
  <2>2. CASE path # <<>>
    <3>1. 1 \in 1 .. Len(path)
      BY <1>1, <2>2, EmptySeq, SMT
    <3> QED
      BY <1>2, <2>2, <3>1 DEF Walking, Linked
  <2> QED
    BY <2>1, <2>2
<1>5. ASSUME NEW i \in 1 .. Len(q)
      PROVE  q[i] \in DOMAIN parent /\ (i < Len(q) => q[i + 1] = parent[q[i]])
  <2>1. CASE i = Len(q)
    BY <1>1, <1>2, <2>1, SMT
  <2>2. CASE i \in 1 .. Len(path) /\ i < Len(path)
    <3>1. i + 1 \in 1 .. Len(path)
      BY <1>1, <2>2, SMT
    <3> QED
      BY <1>2, <2>2, <3>1 DEF Walking, Linked
  <2>3. CASE i \in 1 .. Len(path) /\ i = Len(path)
    <3>1. path # <<>>
      BY <2>3, EmptySeq, SMT
    <3> QED
      BY <1>2, <2>3, <3>1 DEF Walking, Linked
  <2> QED
    BY <1>1, <1>3, <2>1, <2>2, <2>3, SMT
<1>6. ASSUME NEW i \in 1 .. Len(q), NEW j \in 1 .. Len(q), i <= j
      PROVE  q[j] \in Upwards(q[i])
  <2>1. CASE i = Len(q) /\ j = Len(q)
    BY <1>2, <2>1, UpwardsSelf
  <2>2. CASE i \in 1 .. Len(path) /\ j = Len(q)
    BY <1>2, <2>2 DEF Walking, Climbed
  <2>3. CASE i \in 1 .. Len(path) /\ j \in 1 .. Len(path)
    BY <1>2, <1>6, <2>3 DEF Walking, Climbed
  <2> QED
    BY <1>1, <1>2, <1>3, <1>6, <2>1, <2>2, <2>3, SMT
<1>7. ASSUME ~Circles PROVE NoTwice(q)
  <2> SUFFICES ASSUME NEW i \in 1 .. Len(q), NEW j \in 1 .. Len(q), i < j
               PROVE  q[i] # q[j]
    BY DEF NoTwice
  <2>1. i \in 1 .. Len(path)
    BY <1>1, <1>2, SMT
  <2>2. CASE j = Len(q)
    BY <1>2, <1>7, <2>1, <2>2 DEF Circles
  <2>3. CASE j \in 1 .. Len(path)
    BY <1>2, <1>7, <2>1, <2>3 DEF Walking, NoTwice
  <2> QED
    BY <1>3, <2>2, <2>3
<1> QED
  BY <1>1, <1>2, <1>4, <1>5, <1>6, <1>7

LEMMA WalkStepsUp ==
  ASSUME ExportTypeOK, Walking, cursor \in DOMAIN parent, parent[cursor] # NoNode,
         path' = Append(path, cursor), cursor' = parent[cursor], UNCHANGED treeVars
  PROVE  Walking' /\ path' \in Seq(Nodes) /\ cursor' \in Nodes \cup {NoNode}
<1> DEFINE q == Append(path, cursor)
<1>1. /\ q \in Seq(Nodes) /\ Len(q) = Len(path) + 1 /\ Len(path) \in Nat
      /\ \A i \in 1 .. Len(path) : q[i] = path[i]
      /\ q[Len(q)] = cursor /\ q[1] = current
  BY WalkGoesOn
<1>2. /\ \A i \in 1 .. Len(q) :
           q[i] \in DOMAIN parent /\ (i < Len(q) => q[i + 1] = parent[q[i]])
      /\ \A i, j \in 1 .. Len(q) : i <= j => q[j] \in Upwards(q[i])
      /\ NoTwice(q) \/ Circles
  BY WalkGoesOn
<1>3. path' = q /\ parent' = parent /\ current' = current
  BY DEF treeVars
<1> HIDE DEF q
<1>4. \A j : Upwards(path[j])' = Upwards(q[j])
  BY <1>3, SameTree
<1>5. Len(q) \in 1 .. Len(q) /\ q # <<>>
  BY <1>1, EmptySeq, SMT
<1>6. ASSUME NEW i \in 1 .. Len(q) PROVE parent[q[i]] # NoNode
  <2>1. i \in 1 .. Len(path) \/ i = Len(q)
    BY <1>1, SMT
  <2> QED
    BY <1>1, <2>1 DEF Walking, Linked
<1>7. Linked'
  BY <1>1, <1>2, <1>3, <1>5, <1>6 DEF Linked
<1>8. ASSUME NEW i \in 1 .. Len(q), cursor' \in DOMAIN parent
      PROVE  cursor' \in Upwards(q[i])
  <2>1. q[Len(q)] \in Upwards(q[i])
    BY <1>1, <1>2, <1>5, SMT
  <2> QED
    BY <1>1, <1>8, <2>1, UpwardsStep
<1>9. Climbed'
  BY <1>2, <1>3, <1>4, <1>8 DEF Climbed
<1>10. ASSUME Circles PROVE Circles'
  <2>1. PICK k \in 1 .. Len(path) : cursor = path[k]
    BY <1>10 DEF Circles
  <2>2. k \in 1 .. Len(q) /\ k < Len(q) /\ k + 1 \in 1 .. Len(q)
    BY <1>1, <2>1, SMT
  <2>3. q[k + 1] = cursor'
    BY <1>1, <1>2, <2>1, <2>2
  <2> QED
    BY <1>3, <2>2, <2>3 DEF Circles
<1>11. NoTwice(path)' \/ Circles'
  BY <1>2, <1>3, <1>10 DEF NoTwice
<1>12. parent[cursor] \in Nodes \cup {NoNode}
  BY Zenon DEF ExportTypeOK, Range
<1> QED
  BY <1>1, <1>3, <1>7, <1>9, <1>11, <1>12 DEF Walking

LEMMA WalkEndsAtRoot ==
  ASSUME ExportTypeOK, Walking, cursor \in DOMAIN parent, parent[cursor] = NoNode
  PROVE  Append(path, cursor) \in Seq(Nodes) /\ WalkedOut(Append(path, cursor))
<1> DEFINE q == Append(path, cursor)
<1>1. /\ q \in Seq(Nodes) /\ q[Len(q)] = cursor /\ q[1] = current
      /\ \A i \in 1 .. Len(q) :
           q[i] \in DOMAIN parent /\ (i < Len(q) => q[i + 1] = parent[q[i]])
      /\ \A i, j \in 1 .. Len(q) : i <= j => q[j] \in Upwards(q[i])
      /\ Len(q) = Len(path) + 1 /\ Len(path) \in Nat
      /\ NoTwice(q) \/ Circles
  BY WalkGoesOn
<1>2. ~Circles
  BY DEF Circles, Walking, Linked
<1>3. NoNode \notin DOMAIN parent
  BY ExportConstants DEF ExportTypeOK
<1> HIDE DEF q
<1>4. q # <<>>
  BY <1>1, EmptySeq, SMT
<1> QED
  BY <1>1, <1>2, <1>3, <1>4 DEF WalkedOut, q

LEMMA WalkEndsAtGap ==
  ASSUME ExportTypeOK, Walking, cursor \notin DOMAIN parent
  PROVE  path \in Seq(Nodes) /\ WalkedOut(path)
<1>1. ~Circles
  BY DEF Circles, Walking, Linked
<1> QED
  BY <1>1 DEF ExportTypeOK, Walking, Linked, Climbed, WalkedOut
(* One node more rendered, or passed over. *)
LEMMA RenderGoesOn ==
  ASSUME ExportTypeOK, Rendering, path # <<>>, UNCHANGED treeVars,
         path' = Tail(path),
         text' = IF Head(path) \in Shown THEN Append(text, Head(path)) ELSE text
  PROVE  Rendering' /\ path' \in Seq(Nodes) /\ text' \in Seq(Shown)
<1>1. path \in Seq(Nodes) /\ text \in Seq(Shown) /\ Len(path) \in Nat /\ Len(text) \in Nat
  BY LenProperties DEF ExportTypeOK
<1>2. Len(path) \in Nat \ {0} /\ 1 \in 1 .. Len(path)
  BY <1>1, EmptySeq, SMT
<1>3. /\ path' \in Seq(Nodes) /\ Len(path') = Len(path) - 1
      /\ \A i \in 1 .. Len(path') : path'[i] = path[i + 1]
  BY <1>1, HeadTailProperties, SMT
<1>4. \A i \in 1 .. Len(path') : i + 1 \in 1 .. Len(path) /\ 1 < i + 1
  BY <1>2, <1>3, SMT
<1>5. Head(path) = path[1]
  BY <1>1, SMT
<1>6. Branch' = Branch
  BY SameTree
<1>7. \A j : Upwards(path[j])' = Upwards(path'[j])
  BY SameTree
<1>8. \A j : Upwards(text[j])' = Upwards(text'[j])
  BY SameTree
<1>9. OldestFirst(path)'
  <2> SUFFICES ASSUME NEW i \in 1 .. Len(path'), NEW j \in 1 .. Len(path'), i < j
               PROVE  path'[i] # path'[j] /\ path'[i] \in Upwards(path'[j])
    BY <1>7 DEF OldestFirst
  <2>1. i + 1 < j + 1 /\ i + 1 \in 1 .. Len(path) /\ j + 1 \in 1 .. Len(path)
    BY <1>4, SMT
  <2>2. path[i + 1] # path[j + 1] /\ path[i + 1] \in Upwards(path[j + 1])
    BY <2>1 DEF Rendering, OldestFirst
  <2> QED
    BY <1>3, <2>2
<1>10. \A i \in 1 .. Len(path') : path'[i] \in Branch'
  BY <1>3, <1>4, <1>6 DEF Rendering
<1>11. CASE path[1] \in Shown
  <2>1. /\ text' \in Seq(Shown) /\ Len(text') = Len(text) + 1
        /\ \A i \in 1 .. Len(text) : text'[i] = text[i]
        /\ text'[Len(text) + 1] = path[1]
    BY <1>1, <1>5, <1>11, AppendProperties, SMT
  <2>2. 1 .. Len(text') = 1 .. Len(text) \cup {Len(text) + 1}
    BY <1>1, <2>1, SMT
  <2>3. OldestFirst(text)'
    <3> SUFFICES ASSUME NEW i \in 1 .. Len(text'), NEW j \in 1 .. Len(text'), i < j
                 PROVE  text'[i] # text'[j] /\ text'[i] \in Upwards(text'[j])
      BY <1>8 DEF OldestFirst
    <3>1. i \in 1 .. Len(text)
      BY <1>1, <2>1, SMT
    <3>2. CASE j \in 1 .. Len(text)
      BY <2>1, <3>1, <3>2 DEF Rendering, OldestFirst
    <3>3. CASE j = Len(text) + 1
      BY <1>2, <2>1, <3>1, <3>3 DEF Rendering
    <3> QED
      BY <2>2, <3>2, <3>3
  <2>4. ASSUME NEW i \in 1 .. Len(text'), NEW j \in 1 .. Len(path')
        PROVE  text'[i] # path'[j] /\ text'[i] \in Upwards(path'[j])
    <3>1. CASE i \in 1 .. Len(text)
      BY <1>3, <1>4, <2>1, <3>1 DEF Rendering
    <3>2. CASE i = Len(text) + 1
      <4>1. path[1] # path[j + 1] /\ path[1] \in Upwards(path[j + 1])
        BY <1>2, <1>4 DEF Rendering, OldestFirst
      <4> QED
        BY <1>3, <2>1, <3>2, <4>1
    <3> QED
      BY <2>2, <3>1, <3>2
  <2>5. \A i \in 1 .. Len(text') : text'[i] \in Branch'
    BY <1>2, <1>6, <2>1, <2>2 DEF Rendering
  <2>6. ASSUME NEW n \in Branch' \cap Shown
        PROVE  \/ \E i \in 1 .. Len(text') : text'[i] = n
               \/ \E i \in 1 .. Len(path') : path'[i] = n
    <3>1. CASE \E i \in 1 .. Len(text) : text[i] = n
      BY <2>1, <2>2, <3>1
    <3>2. ASSUME NEW i \in 1 .. Len(path), path[i] = n, i = 1
          PROVE  text'[Len(text) + 1] = n
      BY <2>1, <3>2
    <3>3. ASSUME NEW i \in 1 .. Len(path), path[i] = n, i # 1
          PROVE  \E k \in 1 .. Len(path') : path'[k] = n
      <4>1. i - 1 \in 1 .. Len(path') /\ (i - 1) + 1 = i
        BY <1>2, <1>3, <3>3, SMT
      <4> QED
        BY <1>3, <3>3, <4>1
    <3>4. Len(text) + 1 \in 1 .. Len(text')
      BY <2>2
    <3> QED
      BY <1>6, <2>6, <3>1, <3>2, <3>3, <3>4 DEF Rendering
  <2>7. \A i \in 1 .. Len(text'), j \in 1 .. Len(path') :
          text'[i] # path'[j] /\ text'[i] \in Upwards(path[j])'
    BY <1>7, <2>4
  <2> QED
    BY <1>3, <1>9, <1>10, <2>1, <2>3, <2>5, <2>6, <2>7 DEF Rendering
<1>12. CASE path[1] \notin Shown
  <2>1. text' = text
    BY <1>5, <1>12
  <2>2. OldestFirst(text)'
    BY <1>8, <2>1 DEF Rendering, OldestFirst
  <2>3. ASSUME NEW i \in 1 .. Len(text'), NEW j \in 1 .. Len(path')
        PROVE  text'[i] # path'[j] /\ text'[i] \in Upwards(path[j])'
    <3>1. text[i] # path[j + 1] /\ text[i] \in Upwards(path[j + 1])
      BY <1>4, <2>1 DEF Rendering
    <3> QED
      BY <1>3, <1>7, <2>1, <3>1
  <2>4. ASSUME NEW n \in Branch' \cap Shown
        PROVE  \/ \E i \in 1 .. Len(text') : text'[i] = n
               \/ \E i \in 1 .. Len(path') : path'[i] = n
    <3>1. CASE \E i \in 1 .. Len(text) : text[i] = n
      BY <2>1, <3>1
    <3>2. ASSUME NEW i \in 1 .. Len(path), path[i] = n
          PROVE  \E k \in 1 .. Len(path') : path'[k] = n
      <4>1. i # 1
        BY <1>12, <2>4, <3>2
      <4>2. i - 1 \in 1 .. Len(path') /\ (i - 1) + 1 = i
        BY <1>2, <1>3, <4>1, SMT
      <4> QED
        BY <1>3, <3>2, <4>2
    <3> QED
      BY <1>6, <2>4, <3>1, <3>2 DEF Rendering
  <2>5. \A i \in 1 .. Len(text') : text'[i] \in Branch'
    BY <1>6, <2>1 DEF Rendering
  <2> QED
    BY <1>1, <1>3, <1>9, <1>10, <2>1, <2>2, <2>3, <2>4, <2>5 DEF Rendering
<1> QED
  BY <1>11, <1>12

LEMMA RenderEnds ==
  ASSUME ExportTypeOK, Rendering, path = <<>>
  PROVE  Rendered
<1>1. Len(path) = 0 /\ 1 .. 0 = {}
  BY EmptySeq, SMT
<1>2. /\ DOMAIN text = 1 .. Len(text)
      /\ \A i \in 1 .. Len(text) : text[i] \in Shown
  BY LenProperties, ElementOfSeq, Zenon DEF ExportTypeOK
<1>3. Range(text) \subseteq Branch \cap Shown
  BY <1>2 DEF Rendering, Range
<1>4. ASSUME NEW n \in Branch \cap Shown PROVE n \in Range(text)
  <2>1. PICK i \in 1 .. Len(text) : text[i] = n
    BY <1>1, <1>4 DEF Rendering
  <2> QED
    BY <1>2, <2>1 DEF Range
<1> QED
  BY <1>3, <1>4 DEF Rendering, Rendered

LEMMA RenderedStays ==
  ASSUME Rendered, UNCHANGED <<treeVars, text>>
  PROVE  Rendered'
<1>1. Branch' = Branch /\ \A j : Upwards(text[j])' = Upwards(text'[j])
  BY SameTree
<1> QED
  BY <1>1 DEF Rendered, OldestFirst

-----------------------------------------------------------------------------
LEMMA ExportInitInv == ExportInit => ExportInv
<1> SUFFICES ASSUME ExportInit PROVE ExportInv
  OBVIOUS
<1>1. ApiInv /\ ApiTypeOK
  BY InitInv DEF ExportInit, ApiInv
<1>2. <<>> \in Seq(Nodes) /\ <<>> \in Seq(Shown)
  BY EmptySeq
<1>3. DOMAIN NoTree = {} /\ Range(NoTree) = {}
  BY Zenon DEF NoTree, Range
<1>4. 0 \in 0 .. MaxItems
  BY ExportConstants, SMT
<1>5. ExportTypeOK
  BY <1>1, <1>2, <1>3, <1>4, Zenon DEF ExportInit, ExportTypeOK
<1>6. Phases
  BY Zenon DEF ExportInit, Init, Phases
<1> QED
  BY <1>1, <1>5, <1>6, Zenon DEF ExportInit, ExportInv

LEMMA ExportNextInv == ExportInv /\ [ExportNext]_allVars => ExportInv'
<1> SUFFICES ASSUME ExportInv, [ExportNext]_allVars PROVE ExportInv'
  OBVIOUS
<1>1. ApiInv' /\ ApiTypeOK'
  BY NextInv, StepIsClientStep DEF ExportInv, ApiInv
<1>2. phase # "requests" => pc = "idle" /\ stage \notin {"list", "detail", "sweep"}
  BY Zenon DEF ExportInv, ApiInv, Denials, Phases
<1>3. CASE UNCHANGED exportVars /\ client' = client
           /\ (stage' = stage \/ client = "workload")
  <2>1. ExportTypeOK'
    BY <1>1, <1>3 DEF ExportInv, ExportTypeOK, exportVars, treeVars, walkVars
  <2>2. Phases'
    BY <1>3, Zenon DEF ExportInv, Phases, exportVars, treeVars, walkVars
  <2>3. UNCHANGED <<phase, treeVars, cursor, path, text>>
    BY <1>3 DEF exportVars, walkVars
  <2>4. \A j : Upwards(path[j])' = Upwards(path[j])
    BY <2>3, SameTree
  <2>5. ASSUME Walking PROVE Walking'
    <3>1. Linked'
      BY <2>3, <2>5 DEF Walking, Linked, treeVars
    <3>2. Climbed'
      BY <2>3, <2>4, <2>5 DEF Walking, Climbed, treeVars
    <3>3. NoTwice(path)' \/ Circles'
      BY <2>3, <2>5 DEF Walking, NoTwice, Circles
    <3> QED
      BY <3>1, <3>2, <3>3 DEF Walking
  <2>6. ASSUME Rendering PROVE Rendering'
    <3>1. \A j : Upwards(text[j])' = Upwards(text[j])
      BY <2>3, SameTree
    <3>2. OldestFirst(text)'
      BY <2>3, <2>6, <3>1 DEF Rendering, OldestFirst
    <3>3. OldestFirst(path)'
      BY <2>3, <2>4, <2>6 DEF Rendering, OldestFirst
    <3>4. Branch' = Branch
      BY <2>3, SameTree
    <3> QED
      BY <2>3, <2>4, <2>6, <3>2, <3>3, <3>4 DEF Rendering
  <2>7. phase \in {"put_md", "exported"} => Rendered'
    BY <2>3, RenderedStays DEF ExportInv
  <2> QED
    BY <1>1, <2>1, <2>2, <2>3, <2>5, <2>6, <2>7 DEF ExportInv
<1>4. CASE Requests
  <2>1. CASE TokenExpires \/ SessionDies \/ Call \/ Await
    BY <1>3, <1>4, <2>1
       DEF Requests, TokenExpires, SessionDies, Call, Await, Answer, Overloaded,
           Unauthorized, Answered, Broken, Resend, RefreshToken, callerVars, clientVars
  <2>2. CASE client = "workload" /\ Handle
    BY <1>3, <1>4, <2>2 DEF Requests, Handle
  <2> QED
    BY <1>4, <2>1, <2>2 DEF Requests
<1>5. CASE ExportStep /\ Call /\ UNCHANGED exportVars
  BY <1>3, <1>5 DEF Call, callerVars
<1>6. CASE ExportStep /\ ExportHandles
  <2>1. /\ client = "export" /\ client' = client /\ phase = "requests"
        /\ items \in Nat /\ items <= MaxItems /\ MaxItems \in Nat
    BY <1>2, <1>6, ExportConstants
       DEF ExportStep, ExportHandles, Handle, ExportInv, ExportTypeOK
  <2>2. items' \in 0 .. MaxItems /\ (stage' = "detail" => items' > 0)
    <3>1. CASE HandleListing
      BY <1>6, <2>1, <3>1, SMT DEF ExportHandles, Handle, Fails, HandleListing
    <3>2. CASE HandleConversation
      <4>1. items > 0
        BY <2>1, <3>2 DEF HandleConversation, ExportInv, Phases
      <4> QED
        BY <1>6, <2>1, <3>2, <4>1, SMT DEF HandleConversation, NextItem
    <3> QED
      BY <1>6, <3>1, <3>2 DEF ExportHandles
  <2>3. /\ phase' \in {"requests", "put_json"} \cup (Ended \ {"exported"})
        /\ phase' # "requests" => stage' \in {"complete", "failed"}
    BY <1>6, <2>1, Zenon
       DEF ExportHandles, Handle, Fails, HandleListing, HandleConversation, Ended
  <2>4. /\ DOMAIN parent' \subseteq Nodes /\ Range(parent') \subseteq Nodes \cup {NoNode}
        /\ current' \in Nodes \cup {NoNode}
    <3>1. ASSUME NEW t \in Trees
          PROVE  DOMAIN t \subseteq Nodes /\ Range(t) \subseteq Nodes \cup {NoNode}
      <4>1. PICK D \in SUBSET Nodes : t \in [D -> Nodes \cup {NoNode}]
        BY DEF Trees
      <4> QED
        BY <4>1 DEF Range
    <3>2. UNCHANGED treeVars \/ (parent' \in Trees /\ current' \in Nodes \cup {NoNode})
      <4>1. HandleListing => UNCHANGED treeVars
        BY DEF HandleListing
      <4>2. HandleConversation =>
              UNCHANGED treeVars \/ (parent' \in Trees /\ current' \in Nodes \cup {NoNode})
        BY DEF HandleConversation
      <4> QED
        BY <1>6, <4>1, <4>2 DEF ExportHandles
    <3> QED
      BY <3>1, <3>2 DEF treeVars, ExportInv, ExportTypeOK
  <2>5. UNCHANGED <<cursor, path, text, stored>> /\ "md" \notin stored
    BY <1>6, <2>1 DEF ExportHandles, walkVars, ExportInv, Phases
  <2>6. ExportTypeOK'
    BY <1>1, <2>2, <2>3, <2>4, <2>5 DEF ExportInv, ExportTypeOK, Ended
  <2>7. Phases'
    BY <2>1, <2>2, <2>3, <2>5 DEF ExportInv, Phases, Ended
  <2> QED
    BY <1>1, <2>3, <2>6, <2>7 DEF ExportInv, Ended
<1>7. CASE ExportStep /\ PutFails
  <2>1. phase' = "failed" /\ UNCHANGED <<vars, items, treeVars, walkVars, stored>>
    BY <1>7 DEF PutFails
  <2>2. ExportTypeOK'
    BY <1>1, <2>1, Zenon DEF ExportInv, ExportTypeOK, treeVars, walkVars, Ended
  <2>3. Phases'
    BY <1>7, <2>1 DEF ExportInv, Phases, PutFails, vars, walkVars, clientVars, callerVars
  <2> QED
    BY <1>1, <2>1, <2>2, <2>3 DEF ExportInv
<1>8. CASE ExportStep /\ PutJson
  <2>1. /\ phase = "put_json" /\ phase' = "walk" /\ cursor' = current
        /\ stored' = stored \cup {"json"}
        /\ UNCHANGED <<vars, items, treeVars, path, text>>
    BY <1>8 DEF PutJson
  <2>2. ExportTypeOK'
    BY <1>1, <2>1, Zenon DEF ExportInv, ExportTypeOK, treeVars, Ended
  <2>3. Phases'
    BY <2>1 DEF ExportInv, Phases, vars, clientVars, callerVars
  <2>4. path' = <<>> /\ Len(path') = 0 /\ 1 .. 0 = {} /\ current' = current
    BY <2>1, EmptySeq, SMT DEF ExportInv, Phases, treeVars
  <2>5. Walking'
    BY <2>1, <2>4, Zenon DEF Walking, Linked, Climbed, NoTwice
  <2> QED
    BY <1>1, <2>1, <2>2, <2>3, <2>5 DEF ExportInv
<1>9. CASE ExportStep /\ WalkToCurrent
  <2>1. /\ phase = "walk" /\ Walking /\ ExportTypeOK /\ text = <<>>
        /\ UNCHANGED <<vars, items, treeVars, text, stored>>
    BY <1>9 DEF WalkToCurrent, ExportInv, Phases
  <2>2. CASE /\ phase' = "walk" /\ Walking'
             /\ path' \in Seq(Nodes) /\ cursor' \in Nodes \cup {NoNode}
    <3>1. ExportTypeOK'
      BY <1>1, <2>1, <2>2, Zenon DEF ExportTypeOK, treeVars, Ended
    <3>2. Phases'
      BY <2>1, <2>2 DEF ExportInv, Phases, vars, clientVars, callerVars
    <3> QED
      BY <1>1, <2>2, <3>1, <3>2 DEF ExportInv
  <2>3. CASE \E p \in Seq(Nodes) : WalkedOut(p) /\ Walked(p)
    <3>1. PICK p \in Seq(Nodes) : WalkedOut(p) /\ Walked(p)
      BY <2>3
    <3>2. path' = Reverse(p) /\ phase' = "render" /\ cursor' = cursor
      BY <3>1 DEF Walked, Reversed
    <3>3. path' \in Seq(Nodes) /\ Rendering'
      BY <2>1, <3>1, <3>2, WalkRenders
    <3>4. ExportTypeOK'
      BY <1>1, <2>1, <3>2, <3>3, Zenon DEF ExportTypeOK, treeVars, Ended
    <3>5. Phases'
      BY <2>1, <3>2 DEF ExportInv, Phases, vars, clientVars, callerVars
    <3> QED
      BY <1>1, <3>2, <3>3, <3>4, <3>5 DEF ExportInv
  <2>4. CASE /\ cursor \in DOMAIN parent /\ parent[cursor] # NoNode
             /\ path' = Append(path, cursor) /\ cursor' = parent[cursor]
             /\ UNCHANGED phase
    BY <2>1, <2>2, <2>4, WalkStepsUp
  <2>5. CASE /\ cursor \in DOMAIN parent /\ parent[cursor] = NoNode
             /\ Walked(Append(path, cursor))
    BY <2>1, <2>3, <2>5, WalkEndsAtRoot
  <2>6. CASE cursor \notin DOMAIN parent /\ Walked(path)
    BY <2>1, <2>3, <2>6, WalkEndsAtGap
  <2> QED
    BY <1>9, <2>4, <2>5, <2>6, Zenon DEF WalkToCurrent
<1>10. CASE ExportStep /\ ToMarkdown
  <2>1. /\ phase = "render" /\ Rendering /\ ExportTypeOK
        /\ UNCHANGED <<vars, items, treeVars, cursor, stored>>
    BY <1>10 DEF ToMarkdown, ExportInv
  <2>2. CASE path # <<>> /\ UNCHANGED phase
    <3>1. /\ path' = Tail(path)
          /\ text' = IF Head(path) \in Shown THEN Append(text, Head(path)) ELSE text
      BY <1>10, <2>1, <2>2, Zenon DEF ToMarkdown
    <3>2. Rendering' /\ path' \in Seq(Nodes) /\ text' \in Seq(Shown)
      BY <2>1, <2>2, <3>1, RenderGoesOn
    <3>3. ExportTypeOK'
      BY <1>1, <2>1, <2>2, <3>2, Zenon DEF ExportTypeOK, treeVars
    <3>4. Phases'
      BY <2>1, <2>2 DEF ExportInv, Phases, vars, clientVars, callerVars
    <3> QED
      BY <1>1, <2>1, <2>2, <3>2, <3>3, <3>4 DEF ExportInv
  <2>3. CASE path = <<>> /\ phase' = "put_md"
    <3>1. UNCHANGED <<path, text>>
      BY <1>10, <2>1, <2>3, Zenon DEF ToMarkdown
    <3>2. Rendered'
      BY <2>1, <2>3, <3>1, RenderEnds, RenderedStays
    <3>3. ExportTypeOK'
      BY <1>1, <2>1, <2>3, <3>1, Zenon DEF ExportTypeOK, treeVars
    <3>4. Phases'
      BY <2>1, <2>3 DEF ExportInv, Phases, vars, clientVars, callerVars
    <3> QED
      BY <1>1, <2>3, <3>2, <3>3, <3>4 DEF ExportInv
  <2> QED
    BY <1>10, <2>2, <2>3, Zenon DEF ToMarkdown
<1>11. CASE ExportStep /\ PutMarkdown
  <2>1. /\ phase = "put_md" /\ phase' = "exported" /\ stored' = stored \cup {"md"}
        /\ UNCHANGED <<vars, items, treeVars, cursor, path, text>>
    BY <1>11 DEF PutMarkdown, walkVars
  <2>2. ExportTypeOK'
    BY <1>1, <2>1, Zenon DEF ExportInv, ExportTypeOK, treeVars, Ended
  <2>3. Phases'
    BY <2>1 DEF ExportInv, Phases, vars, clientVars, callerVars
  <2>4. Rendered'
    BY <2>1, RenderedStays DEF ExportInv
  <2> QED
    BY <1>1, <2>1, <2>2, <2>3, <2>4 DEF ExportInv
<1>12. CASE UNCHANGED allVars
  BY <1>3, <1>12 DEF allVars, vars, clientVars, callerVars
<1> QED
  BY <1>4, <1>5, <1>6, <1>7, <1>8, <1>9, <1>10, <1>11, <1>12, Zenon
     DEF ExportNext, ExportStep

LEMMA ExportInvHolds == ExportSpec => []ExportInv
BY ExportInitInv, ExportNextInv, PTL DEF ExportSpec

(* The type invariant of the export. *)
THEOREM ExportTypeHolds == ExportSpec => []ExportTypeOK
<1>1. ExportInv => ExportTypeOK
  BY DEF ExportInv
<1> QED
  BY <1>1, ExportInvHolds, PTL

(***************************************************************************)
(* Whatever tree the API answers with, circles and gaps included, a text   *)
(* that gets to the store has the messages of the branch of current_node   *)
(* that are to be shown, each once and older ones first (walk_to_current   *)
(* and to_markdown, chatgpt.rs), and the JSON is there too.                *)
(***************************************************************************)
THEOREM MarkdownIsBranchHolds == ExportSpec => []MarkdownIsBranch
<1>1. ExportInv => MarkdownIsBranch
  <2> SUFFICES ASSUME ExportInv, "md" \in stored PROVE MarkdownIsBranch
    BY DEF MarkdownIsBranch
  <2>1. phase = "exported" /\ "json" \in stored
    BY DEF ExportInv, Phases
  <2>2. Rendered
    BY <2>1 DEF ExportInv
  <2>3. DOMAIN text = 1 .. Len(text)
    BY LenProperties, Zenon DEF ExportInv, ExportTypeOK
  <2> QED
    BY <2>1, <2>2, <2>3 DEF Rendered, OldestFirst, MarkdownIsBranch
<1> QED
  BY <1>1, ExportInvHolds, PTL
===============================================================================
