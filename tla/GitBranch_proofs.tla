--------------------------- MODULE GitBranch_proofs ---------------------------
(***************************************************************************)
(* With a working copy per process, GitBranchStore implements AtomicStore, *)
(* for any number of processes, keys, bodies and commits.                  *)
(***************************************************************************)
EXTENDS GitBranch, TLAPS

(* A run is one process with one store, and its calls come one by one. *)
OwnCopies ==
  /\ CopyOf \in [Tasks -> Copies]
  /\ \A t, u \in Tasks : CopyOf[t] = CopyOf[u] => t = u

Working == {"edit", "stage", "commit", "push", "answer"}
Writes  == {"put", "swap", "delete"}

(* What a copy at commit c would answer, and the tree a write would make of it. *)
Takes(t, c)    == Promise!Accepted(call[t], TreeOf(c)[Key(t)], c)
Leaves(t, c)   == Promise!BodyAfter(call[t], TreeOf(c)[Key(t)])
Says(t, c)     == Promise!Answers(call[t], TreeOf(c)[Key(t)], c)
Written(t)     == [TreeOf(lease[t]) EXCEPT ![Key(t)] = Leaves(t, lease[t])]

(***************************************************************************)
(* Between calls a copy is exactly a commit, index and files included; in  *)
(* a call it is that commit with one change, then a commit on top of it    *)
(* that nobody else has.                                                   *)
(***************************************************************************)
CopyInv(t) ==
  /\ pc[t] \notin {"stage", "commit"} =>
       index[CopyOf[t]] = TreeOf(Current(t)) /\ files[CopyOf[t]] = TreeOf(Current(t))
  /\ pc[t] \in {"stage", "commit"} =>
       lease[t] = Current(t) /\ files[CopyOf[t]] = Written(t)
  /\ pc[t] = "commit" => index[CopyOf[t]] = files[CopyOf[t]]

WriteInv(t) ==
  /\ pc[t] \in {"stage", "commit", "push"} => call[t].op \in Writes /\ Takes(t, lease[t])
  /\ pc[t] = "push" =>
       /\ Current(t) > lease[t]
       /\ TreeOf(Current(t)) = Written(t)
       /\ commits[Current(t)].past =
            IF lease[t] = 0 THEN {} ELSE commits[lease[t]].past \cup {lease[t]}
       /\ remote # Current(t)
       /\ \A u \in Tasks : u # t => Current(u) # Current(t)

(* The history variables say what they should. *)
ReplyInv(t) ==
  /\ pc[t] = "idle" => call[t] = None
  /\ pc[t] # "idle" => call[t] \in Requests
  /\ pc[t] \in {"idle", "fetch"} => ~fetched[t] /\ reply[t] = None
  /\ pc[t] \in {"edit", "stage"} =>
       reply[t] = IF fetched[t] /\ Takes(t, Current(t))
                     /\ Leaves(t, Current(t)) = TreeOf(Current(t))[Key(t)]
                    THEN Says(t, Current(t)) ELSE None
  /\ pc[t] \in {"edit", "stage"} /\ fetched[t] => Current(t) # 0
  /\ pc[t] \in {"commit", "push"} => reply[t] = None
  /\ pc[t] = "answer" => Current(t) # 0 /\ reply[t] = Says(t, Current(t))

(* What a task was told of a key was so at the commit of the etag. *)
SeenInv(t) ==
  /\ seen[t] # None =>
       \E c \in 1 .. Len(commits) :
         seen[t].etag = GitEtag(c) /\ commits[c].tree[seen[t].key] = seen[t].body
  /\ pc[t] # "idle" /\ call[t].expected # None =>
       /\ seen[t] # None
       /\ seen[t].key = Key(t) /\ seen[t].etag = call[t].expected

TaskInv(t) == CopyInv(t) /\ WriteInv(t) /\ ReplyInv(t) /\ SeenInv(t)

GitInv == GitTypeOK /\ \A t \in Tasks : TaskInv(t)

-----------------------------------------------------------------------------
(* The steps of one task. *)
StepOf(t) ==
  \/ Begin(t) \/ InitWorkdir(t) \/ FetchAndReset(t) \/ FetchFails(t)
  \/ Get(t) \/ HeadKey(t) \/ Put(t) \/ PutIfUnmodified(t) \/ DeleteIfMatch(t)
  \/ Stage(t) \/ Commit(t) \/ Push(t) \/ PushFails(t) \/ Answer(t)

LEMMA NextIsSteps == Next <=> \E t \in Tasks : StepOf(t)
BY DEF Next, StepOf, CommitAndPush

LEMMA TreeTypes ==
  ASSUME GitTypeOK, NEW c \in 0 .. Len(commits)
  PROVE  TreeOf(c) \in Trees
<1>1. CASE c = 0
  BY <1>1 DEF TreeOf, Empty, Trees
<1>2. CASE c # 0
  <2>1. c \in 1 .. Len(commits) /\ commits \in Seq(History)
    BY <1>2 DEF GitTypeOK
  <2>2. commits[c] \in History
    BY <2>1
  <2> QED
    BY <1>2, <2>2 DEF TreeOf, History
<1> QED
  BY <1>1, <1>2

LEMMA AnswerTypes ==
  ASSUME NEW req \in Requests, NEW body \in Bodies \cup {None}, NEW at, at \in Commits
  PROVE  /\ Promise!Answers(req, body, at) \in Replies
         /\ Promise!Answers(req, body, at).etag # None =>
              body \in Bodies /\ Promise!Answers(req, body, at).etag = GitEtag(at)
<1>1. GitEtag(at) \in Etags
  BY DEF Etags
<1> QED
  BY <1>1 DEF Promise!Answers, Replies, GitEtag, Promise!GitEtag

(* Commits are only added. *)
LEMMA CommitsGrow ==
  ASSUME GitTypeOK, [Next]_vars
  PROVE  /\ commits' \in Seq(History)
         /\ Len(commits') \in Nat /\ Len(commits) \in Nat
         /\ Len(commits') <= MaxCommits
         /\ Len(commits) <= Len(commits')
         /\ \A i \in 1 .. Len(commits) : commits'[i] = commits[i]
<1>0. Len(commits) \in Nat /\ MaxCommits \in Nat
  BY GitConstants DEF GitTypeOK
<1>1. CASE commits' = commits
  BY <1>0, <1>1 DEF GitTypeOK
<1>2. ASSUME NEW t \in Tasks, Commit(t), commits' # commits
      PROVE  /\ commits' \in Seq(History)
             /\ Len(commits') = Len(commits) + 1 /\ Len(commits) < MaxCommits
             /\ \A i \in 1 .. Len(commits) : commits'[i] = commits[i]
  <2> DEFINE c == CopyOf[t]
             new == [tree |-> index[c],
                     past |-> IF HEAD[c] = 0 THEN {} ELSE commits[HEAD[c]].past \cup {HEAD[c]}]
  <2>1. commits' = Append(commits, new) /\ Len(commits) < MaxCommits
    BY <1>2 DEF Commit
  <2>2. c \in Copies
    BY GitConstants
  <2>3. index[c] \in Trees /\ HEAD[c] \in 0 .. Len(commits)
    BY <2>2 DEF GitTypeOK
  <2>4. HEAD[c] # 0 => commits[HEAD[c]].past \cup {HEAD[c]} \subseteq Commits
    <3>1. ASSUME HEAD[c] # 0
          PROVE  HEAD[c] \in Commits /\ commits[HEAD[c]].past \subseteq Commits
      <4>1. HEAD[c] \in 1 .. Len(commits) /\ HEAD[c] \in Commits
        BY <1>0, <2>1, <2>3, <3>1 DEF Commits
      <4>2. commits[HEAD[c]] \in History
        BY <4>1 DEF GitTypeOK
      <4> QED
        BY <4>1, <4>2 DEF History
    <3> QED
      BY <3>1
  <2>5. new \in History
    BY <2>3, <2>4 DEF History
  <2> QED
    BY <2>1, <2>5 DEF GitTypeOK
<1>3. commits' = commits \/ \E t \in Tasks : Commit(t)
  BY DEF Next, vars, CommitAndPush, Begin, InitWorkdir, FetchAndReset, FetchFails, Get, HeadKey,
         Put, PutIfUnmodified, DeleteIfMatch, Stage, Push, PushFails, Answer
<1>4. CASE commits' # commits
  BY <1>0, <1>2, <1>3, <1>4
<1> QED
  BY <1>1, <1>4

LEMMA TreesStay ==
  ASSUME GitTypeOK, [Next]_vars, NEW c \in 0 .. Len(commits)
  PROVE  TreeOf(c)' = TreeOf(c) /\ c \in 0 .. Len(commits')
BY CommitsGrow DEF TreeOf, Empty

-----------------------------------------------------------------------------
LEMMA InitTypes == Init => GitTypeOK
<1> SUFFICES ASSUME Init PROVE GitTypeOK
  OBVIOUS
<1>1. PICK first \in Trees :
        IF first = Empty THEN commits = <<>> /\ remote = 0
        ELSE commits = <<[tree |-> first, past |-> {}]>> /\ remote = 1
  BY DEF Init
<1>2. /\ commits \in Seq(History) /\ Len(commits) <= MaxCommits
      /\ remote \in 0 .. Len(commits) /\ Len(commits) \in Nat
  <2>1. CASE first = Empty
    BY <1>1, <2>1, GitConstants
  <2>2. CASE first # Empty
    <3>1. [tree |-> first, past |-> {}] \in History
      BY DEF History
    <3>2. ASSUME NEW h \in History
          PROVE  <<h>> \in Seq(History) /\ Len(<<h>>) = 1
      OBVIOUS
    <3>3. commits = <<[tree |-> first, past |-> {}]>> /\ remote = 1
      BY <1>1, <2>2
    <3>4. commits \in Seq(History) /\ Len(commits) = 1
      BY <3>1, <3>2, <3>3
    <3> QED
      BY <3>3, <3>4, GitConstants
  <2> QED
    BY <2>1, <2>2
<1>3. Empty \in Trees
  BY DEF Empty, Trees
<1> QED
  BY <1>2, <1>3 DEF Init, GitTypeOK, Steps

LEMMA UpdateTypes ==
  ASSUME NEW D, NEW S, NEW f \in [D -> S], NEW d, NEW v \in S
  PROVE  [f EXCEPT ![d] = v] \in [D -> S]
OBVIOUS

(* What returns a call leaves everything typed. *)
LEMMA ReturnTypes ==
  ASSUME GitTypeOK, NEW t \in Tasks, call[t] \in Requests,
         NEW answer, answer \in Replies \cup {Failed},
         answer # Failed /\ answer.etag # None => File(t) \in Bodies,
         Return(t, answer)
  PROVE  /\ pc' \in [Tasks -> Steps]
         /\ call' \in [Tasks -> Requests \cup {None}]
         /\ lease' \in [Tasks -> 0 .. Len(commits)]
         /\ result' \in [Tasks -> Replies \cup {None, Failed}]
         /\ fetched' \in [Tasks -> BOOLEAN]
         /\ reply' \in [Tasks -> Replies \cup {None}]
         /\ seen' \in [Tasks -> [key : Keys, body : Bodies, etag : Etags] \cup {None}]
<1>1. Key(t) \in Keys
  BY DEF Key, Requests
<1>2. Len(commits) \in Nat
  BY DEF GitTypeOK
<1>3. seen' \in [Tasks -> [key : Keys, body : Bodies, etag : Etags] \cup {None}]
  <2>1. CASE answer # Failed /\ answer.etag # None
    <3>1. answer.etag \in Etags /\ File(t) \in Bodies
      BY <2>1 DEF Replies
    <3>2. [key |-> Key(t), body |-> File(t), etag |-> answer.etag]
            \in [key : Keys, body : Bodies, etag : Etags]
      BY <1>1, <3>1
    <3>3. seen' = [seen EXCEPT ![t] = [key |-> Key(t), body |-> File(t), etag |-> answer.etag]]
      BY <2>1 DEF Return
    <3> QED
      BY <3>2, <3>3 DEF GitTypeOK
  <2>2. CASE ~(answer # Failed /\ answer.etag # None)
    BY <2>2 DEF Return, GitTypeOK
  <2> QED
    BY <2>1, <2>2
<1> QED
  BY <1>2, <1>3 DEF Return, Goto, Steps, GitTypeOK

(* Reads of a call's own copy, and its answer from there. *)
LEMMA CopyTypes ==
  ASSUME GitTypeOK, NEW t \in Tasks
  PROVE  /\ CopyOf[t] \in Copies
         /\ Current(t) \in 0 .. Len(commits) /\ lease[t] \in 0 .. Len(commits)
         /\ Len(commits) \in Nat /\ Len(commits) <= MaxCommits
         /\ remote \in 0 .. Len(commits)
         /\ index[CopyOf[t]] \in Trees /\ files[CopyOf[t]] \in Trees
         /\ Store \in Trees
         /\ call[t] \in Requests => /\ Key(t) \in Keys
                                    /\ call[t].body \in Bodies \cup {None}
                                    /\ call[t].op \in AllOps
                                    /\ File(t) \in Bodies \cup {None}
<1>1. CopyOf[t] \in Copies
  BY GitConstants
<1>2. Store \in Trees
  BY TreeTypes DEF Store, GitTypeOK
<1>3. call[t] \in Requests => /\ Key(t) \in Keys /\ call[t].body \in Bodies \cup {None}
                              /\ call[t].op \in AllOps
  BY DEF Requests, Key
<1>4. Len(commits) \in Nat
  BY DEF GitTypeOK
<1> QED
  BY <1>1, <1>2, <1>3, <1>4 DEF GitTypeOK, File, Current, Trees

LEMMA SucceedsTypes ==
  ASSUME GitTypeOK, NEW t \in Tasks, call[t] \in Requests, Succeeds(t),
         Current(t) = 0 => File(t) = None
  PROVE  /\ pc' \in [Tasks -> Steps]
         /\ call' \in [Tasks -> Requests \cup {None}]
         /\ lease' \in [Tasks -> 0 .. Len(commits)]
         /\ result' \in [Tasks -> Replies \cup {None, Failed}]
         /\ fetched' \in [Tasks -> BOOLEAN]
         /\ reply' \in [Tasks -> Replies \cup {None}]
         /\ seen' \in [Tasks -> [key : Keys, body : Bodies, etag : Etags] \cup {None}]
<1> DEFINE answer == Promise!Answers(call[t], File(t), Current(t))
<1>1. answer \in Replies /\ (answer.etag # None => File(t) \in Bodies)
  <2>1. CASE Current(t) # 0
    <3>1. Current(t) \in Commits
      BY <2>1, CopyTypes, GitConstants DEF Commits
    <3> QED
      BY <3>1, CopyTypes, AnswerTypes
  <2>2. CASE File(t) = None
    BY <2>2 DEF Promise!Answers, Replies
  <2> QED
    BY <2>1, <2>2
<1> QED
  BY <1>1, ReturnTypes DEF Succeeds

LEMMA FailsTypes ==
  ASSUME GitTypeOK, NEW t \in Tasks, call[t] \in Requests, Fails(t)
  PROVE  /\ pc' \in [Tasks -> Steps]
         /\ call' \in [Tasks -> Requests \cup {None}]
         /\ lease' \in [Tasks -> 0 .. Len(commits)]
         /\ result' \in [Tasks -> Replies \cup {None, Failed}]
         /\ fetched' \in [Tasks -> BOOLEAN]
         /\ reply' \in [Tasks -> Replies \cup {None}]
         /\ seen' \in [Tasks -> [key : Keys, body : Bodies, etag : Etags] \cup {None}]
BY ReturnTypes DEF Fails

(***************************************************************************)
(* Every step of a task keeps the types.                                   *)
(***************************************************************************)
LEMMA StepTypes ==
  ASSUME GitInv, NEW t \in Tasks, StepOf(t)
  PROVE  GitTypeOK'
<1>0. /\ GitTypeOK /\ TaskInv(t)
      /\ \A u \in Tasks : pc[u] # "idle" => call[u] \in Requests
  BY DEF GitInv, TaskInv, ReplyInv
<1> USE <1>0 DEF GitTypeOK
<1>1. CASE Begin(t)
  <2>0. PICK c \in Calls : \E expected \in Told(t, c) :
          call' = [call EXCEPT ![t] =
                     [op |-> c.op, key |-> c.key, body |-> c.body, expected |-> expected]]
    BY <1>1 DEF Begin
  <2>1. PICK expected \in Told(t, c) :
          call' = [call EXCEPT ![t] =
                     [op |-> c.op, key |-> c.key, body |-> c.body, expected |-> expected]]
    BY <2>0
  <2>2. c.op \in AllOps /\ c.key \in Keys /\ c.body \in Bodies \cup {None}
    BY GitConstants
  <2>3. expected \in Etags \cup {None}
    BY DEF Told
  <2>4. [op |-> c.op, key |-> c.key, body |-> c.body, expected |-> expected] \in Requests
    BY <2>2, <2>3 DEF Requests
  <2> QED
    BY <1>1, <2>1, <2>4 DEF Begin, copyVars, Goto, Steps
<1>2. CASE InitWorkdir(t)
  <2>1. /\ HEAD' \in [Copies -> 0 .. Len(commits)]
        /\ index' \in [Copies -> Trees] /\ files' \in [Copies -> Trees]
    <3>1. CASE UNCHANGED <<HEAD, index, files>>
      BY <3>1
    <3>2. CASE /\ HEAD' = [HEAD EXCEPT ![CopyOf[t]] = remote]
               /\ index' = [index EXCEPT ![CopyOf[t]] = Store]
               /\ files' = [files EXCEPT ![CopyOf[t]] = Store]
      BY <3>2, CopyTypes, UpdateTypes
    <3> QED
      BY <1>2, <3>1, <3>2 DEF InitWorkdir
  <2>2. open' \subseteq Copies
    BY <1>2, CopyTypes DEF InitWorkdir
  <2> QED
    BY <1>2, <2>1, <2>2 DEF InitWorkdir
<1>3. CASE FetchAndReset(t)
  <2>1. reply' \in [Tasks -> Replies \cup {None}]
    <3>1. remote \in Commits /\ Store[Key(t)] \in Bodies \cup {None} /\ call[t] \in Requests
      BY <1>0, <1>3, CopyTypes, GitConstants DEF FetchAndReset, Commits, Trees
    <3>2. Promise!Answers(call[t], Store[Key(t)], remote) \in Replies
      BY <3>1, AnswerTypes
    <3> QED
      BY <1>3, <3>2 DEF FetchAndReset
  <2>2. files' \in [Copies -> Trees]
    <3> DEFINE c == CopyOf[t]
               tree == [k \in Keys |->
                  IF Store[k] # None \/ index[c][k] # None THEN Store[k] ELSE files[c][k]]
    <3>1. tree \in Trees
      BY CopyTypes DEF Trees
    <3>2. files' = [files EXCEPT ![c] = tree]
      BY <1>3 DEF FetchAndReset
    <3> QED
      BY <3>1, <3>2
  <2>3. fetched' \in [Tasks -> BOOLEAN] /\ pc' \in [Tasks -> Steps]
    BY <1>3 DEF FetchAndReset, Goto, Steps
  <2> QED
    BY <1>3, <2>1, <2>2, <2>3, CopyTypes DEF FetchAndReset
<1>4. CASE FetchFails(t)
  <2>1. CASE call[t].op = "head"
    <3>1. [body |-> None, etag |-> None] \in Replies
      BY DEF Replies
    <3> QED
      BY <1>0, <1>4, <2>1, <3>1, ReturnTypes DEF FetchFails, copyVars
  <2>2. CASE call[t].op # "head"
    BY <1>4, <2>2 DEF FetchFails, copyVars, returnVars, Goto, Steps
  <2> QED
    BY <2>1, <2>2
<1>5. CASE Get(t)
  BY <1>0, <1>5, FailsTypes, SucceedsTypes DEF Get, Doing, copyVars
<1>6. CASE HeadKey(t)
  <2>1. call[t] \in Requests /\ (Current(t) = 0 => File(t) = None)
    BY <1>0, <1>6, CopyTypes DEF HeadKey, Doing, TaskInv, CopyInv, File, TreeOf, Empty
  <2> QED
    BY <1>6, <2>1, SucceedsTypes DEF HeadKey, copyVars
<1>7. ASSUME WriteFile(t), call[t] \in Requests
      PROVE  /\ files' \in [Copies -> Trees] /\ pc' \in [Tasks -> Steps]
             /\ lease' \in [Tasks -> 0 .. Len(commits)]
             /\ UNCHANGED <<call, fetched, seen, reply, result>>
  BY <1>7, CopyTypes DEF WriteFile, Prepared, Goto, Steps, Trees
<1>8. CASE Put(t)
  BY <1>0, <1>7, <1>8 DEF Put, Doing
<1>9. CASE PutIfUnmodified(t)
  BY <1>0, <1>7, <1>9, FailsTypes DEF PutIfUnmodified, Doing
<1>10. CASE DeleteIfMatch(t)
  <2>0. pc[t] = "edit" /\ call[t] \in Requests
    BY <1>0, <1>10 DEF DeleteIfMatch, Doing
  <2>1. CASE Prepared(t)
    <3>1. ASSUME NEW tree \in Trees, NEW k PROVE [tree EXCEPT ![k] = None] \in Trees
      BY DEF Trees
    <3>2. /\ index' = [index EXCEPT ![CopyOf[t]][Key(t)] = None]
          /\ files' = [files EXCEPT ![CopyOf[t]][Key(t)] = None]
          /\ UNCHANGED <<commits, remote, open, HEAD>>
      BY <1>10, <2>0, <2>1 DEF DeleteIfMatch, Prepared, Fails, Succeeds, Return, Goto
    <3>3. index' \in [Copies -> Trees] /\ files' \in [Copies -> Trees]
      BY <3>1, <3>2, CopyTypes
    <3> QED
      BY <2>1, <3>2, <3>3, CopyTypes DEF Prepared, Goto, Steps
  <2>2. CASE Succeeds(t) /\ File(t) = None /\ UNCHANGED <<index, files>>
    BY <1>10, <2>0, <2>2, SucceedsTypes DEF DeleteIfMatch
  <2>3. CASE Fails(t) /\ UNCHANGED <<index, files>>
    BY <1>10, <2>0, <2>3, FailsTypes DEF DeleteIfMatch
  <2> QED
    BY <1>10, <2>1, <2>2, <2>3 DEF DeleteIfMatch
<1>11. CASE Stage(t)
  <2>1. index' \in [Copies -> Trees] /\ call[t] \in Requests
    BY <1>0, <1>11, CopyTypes DEF Stage
  <2>2. CASE Goto(t, "commit") /\ UNCHANGED returnVars
    BY <1>11, <2>1, <2>2 DEF Stage, returnVars, Goto, Steps
  <2>3. CASE Fails(t)
    BY <1>11, <2>1, <2>3, FailsTypes DEF Stage
  <2>4. CASE Succeeds(t) /\ Current(t) # 0
    BY <1>11, <2>1, <2>4, SucceedsTypes DEF Stage
  <2> QED
    BY <1>11, <2>2, <2>3, <2>4 DEF Stage, Current
<1>12. CASE Commit(t)
  <2>1. CASE Fails(t) /\ UNCHANGED <<commits, HEAD>>
    BY <1>0, <1>12, <2>1, FailsTypes DEF Commit
  <2>2. CASE ~(Fails(t) /\ UNCHANGED <<commits, HEAD>>)
    <3>1. [Next]_vars
      BY <1>12, NextIsSteps DEF StepOf
    <3>2. /\ HEAD' = [HEAD EXCEPT ![CopyOf[t]] = Len(commits) + 1]
          /\ Len(commits') = Len(commits) + 1
          /\ UNCHANGED <<remote, open, index, files>> /\ UNCHANGED returnVars
          /\ Goto(t, "push")
      BY <1>12, <2>2 DEF Commit
    <3>3. Len(commits) \in Nat /\ Len(commits') \in Nat
      BY <3>1, CommitsGrow
    <3>4. /\ HEAD' \in [Copies -> 0 .. Len(commits')]
          /\ lease \in [Tasks -> 0 .. Len(commits')]
          /\ remote \in 0 .. Len(commits')
      <4>1. /\ HEAD \in [Copies -> 0 .. Len(commits')]
            /\ lease \in [Tasks -> 0 .. Len(commits')]
            /\ remote \in 0 .. Len(commits') /\ Len(commits) + 1 \in 0 .. Len(commits')
        BY <3>2, <3>3
      <4> QED
        BY <3>2, <4>1, UpdateTypes
    <3>5. pc' \in [Tasks -> Steps]
      BY <3>2 DEF Goto, Steps
    <3> QED
      BY <3>1, <3>2, <3>4, <3>5, CommitsGrow DEF returnVars
  <2> QED
    BY <2>1, <2>2
<1>13. CASE Push(t)
  <2>1. ASSUME NEW u \in CarriedOut(t)
        PROVE  Promise!Answers(call[u], TreeOf(Current(t))[Key(u)], Current(t)) \in Replies
    <3>1. u \in Tasks /\ call[u] \in Requests
      BY DEF CarriedOut
    <3>2. Current(t) \in Commits
      BY <1>13, CopyTypes, GitConstants DEF Push, TaskInv, WriteInv, Commits
    <3>3. TreeOf(Current(t))[Key(u)] \in Bodies \cup {None}
      BY <3>1, TreeTypes, CopyTypes DEF Trees
    <3> QED
      BY <3>1, <3>2, <3>3, AnswerTypes
  <2> QED
    BY <1>13, <2>1, CopyTypes DEF Push, copyVars, Goto, Steps
<1>14. CASE PushFails(t)
  BY <1>0, <1>14, FailsTypes DEF PushFails, copyVars
<1>15. CASE Answer(t)
  <2>1. call[t] \in Requests /\ Current(t) # 0
    BY <1>0, <1>15 DEF Answer, TaskInv, ReplyInv
  <2> QED
    BY <1>15, <2>1, FailsTypes, SucceedsTypes DEF Answer, copyVars
<1> QED
  BY <1>1, <1>2, <1>3, <1>4, <1>5, <1>6, <1>8, <1>9, <1>10, <1>11, <1>12, <1>13, <1>14, <1>15
     DEF StepOf

-----------------------------------------------------------------------------
(* A step leaves the other tasks and their copies alone. *)
LEMMA OthersWait ==
  ASSUME OwnCopies, GitInv, NEW t \in Tasks, StepOf(t), NEW u \in Tasks, u # t
  PROVE  /\ pc'[u] = pc[u] /\ call'[u] = call[u] /\ lease'[u] = lease[u]
         /\ fetched'[u] = fetched[u] /\ seen'[u] = seen[u]
         /\ reply'[u] = reply[u] /\ result'[u] = result[u]
         /\ HEAD'[CopyOf[u]] = HEAD[CopyOf[u]]
         /\ index'[CopyOf[u]] = index[CopyOf[u]] /\ files'[CopyOf[u]] = files[CopyOf[u]]
<1> DEFINE Same == /\ pc'[u] = pc[u] /\ call'[u] = call[u] /\ lease'[u] = lease[u]
                   /\ fetched'[u] = fetched[u] /\ seen'[u] = seen[u]
                   /\ reply'[u] = reply[u] /\ result'[u] = result[u]
           Elsewhere == /\ HEAD'[CopyOf[u]] = HEAD[CopyOf[u]]
                        /\ index'[CopyOf[u]] = index[CopyOf[u]]
                        /\ files'[CopyOf[u]] = files[CopyOf[u]]
<1>1. CopyOf[u] # CopyOf[t] /\ CopyOf[u] \in Copies
  BY GitConstants DEF OwnCopies
<1>2. GitTypeOK
  BY DEF GitInv
<1>3. ASSUME NEW answer, Return(t, answer) PROVE Same
  BY <1>2, <1>3 DEF Return, Goto, GitTypeOK
<1>4. ASSUME Fails(t) \/ Succeeds(t) PROVE Same
  BY <1>3, <1>4 DEF Fails, Succeeds
<1>5. ASSUME NEW s, Goto(t, s), UNCHANGED returnVars PROVE Same
  BY <1>2, <1>5 DEF returnVars, Goto, GitTypeOK
<1>6. ASSUME Prepared(t) PROVE Same
  BY <1>2, <1>6 DEF Prepared, Goto, GitTypeOK
<1>7. CASE Begin(t) \/ InitWorkdir(t) \/ FetchAndReset(t)
  <2>1. Same
    BY <1>2, <1>7 DEF Begin, InitWorkdir, FetchAndReset, Goto, GitTypeOK
  <2>2. Elsewhere
    BY <1>1, <1>2, <1>7 DEF Begin, InitWorkdir, FetchAndReset, copyVars, GitTypeOK
  <2> QED
    BY <2>1, <2>2
<1>8. CASE FetchFails(t) \/ Get(t) \/ HeadKey(t) \/ PushFails(t) \/ Answer(t)
  <2>1. UNCHANGED copyVars
    BY <1>8 DEF FetchFails, Get, HeadKey, PushFails, Answer
  <2>2. Same
    BY <1>3, <1>4, <1>5, <1>8 DEF FetchFails, Get, HeadKey, PushFails, Answer
  <2> QED
    BY <2>1, <2>2 DEF copyVars
<1>9. CASE Put(t) \/ PutIfUnmodified(t) \/ DeleteIfMatch(t)
  <2>1. Same
    BY <1>4, <1>6, <1>9 DEF Put, PutIfUnmodified, DeleteIfMatch, WriteFile
  <2>2. Elsewhere
    BY <1>1, <1>2, <1>9 DEF Put, PutIfUnmodified, DeleteIfMatch, WriteFile, GitTypeOK
  <2> QED
    BY <2>1, <2>2
<1>10. CASE Stage(t) \/ Commit(t)
  <2>1. Same
    BY <1>4, <1>5, <1>10 DEF Stage, Commit
  <2>2. Elsewhere
    BY <1>1, <1>2, <1>10 DEF Stage, Commit, GitTypeOK
  <2> QED
    BY <2>1, <2>2
<1>11. CASE Push(t)
  <2>1. u \notin CarriedOut(t)
    BY <1>1 DEF CarriedOut
  <2> QED
    BY <1>2, <1>11, <2>1 DEF Push, copyVars, Goto, GitTypeOK
<1> QED
  BY <1>7, <1>8, <1>9, <1>10, <1>11 DEF StepOf

(* Where a step can take the remote, and the HEAD of the copy it works in. *)
LEMMA Moves ==
  ASSUME GitInv, NEW t \in Tasks, StepOf(t)
  PROVE  /\ remote' = remote \/ (Push(t) /\ remote' = Current(t))
         /\ Current(t)' \in {Current(t), remote, Len(commits) + 1}
<1>1. GitTypeOK /\ CopyOf[t] \in Copies
  BY CopyTypes DEF GitInv
<1> QED
  BY <1>1 DEF StepOf, Begin, InitWorkdir, FetchAndReset, FetchFails, Get, HeadKey, Put,
     PutIfUnmodified, DeleteIfMatch, Stage, Commit, Push, PushFails, Answer, copyVars,
     Current, GitTypeOK

LEMMA OthersKeep ==
  ASSUME OwnCopies, GitInv, NEW t \in Tasks, StepOf(t), NEW u \in Tasks, u # t
  PROVE  TaskInv(u)'
<1>1. /\ GitTypeOK /\ TaskInv(u) /\ [Next]_vars
      /\ Current(u) \in 0 .. Len(commits) /\ lease[u] \in 0 .. Len(commits)
      /\ Len(commits) \in Nat
  BY NextIsSteps, CopyTypes DEF GitInv
<1>2. /\ Current(u)' = Current(u) /\ Key(u)' = Key(u) /\ lease'[u] = lease[u]
      /\ TreeOf(Current(u))' = TreeOf(Current(u)) /\ TreeOf(lease[u])' = TreeOf(lease[u])
      /\ pc'[u] = pc[u] /\ call'[u] = call[u]
  <2>1. /\ Current(u)' = Current(u) /\ Key(u)' = Key(u) /\ lease'[u] = lease[u]
        /\ pc'[u] = pc[u] /\ call'[u] = call[u]
    BY OthersWait DEF Current, Key
  <2>2. /\ TreeOf(Current(u))' = TreeOf(Current(u)) /\ TreeOf(lease[u])' = TreeOf(lease[u])
    BY <1>1, <2>1, TreesStay DEF TreeOf, Empty
  <2> QED
    BY <2>1, <2>2
<1>3. /\ Takes(u, Current(u))' = Takes(u, Current(u))
      /\ Takes(u, lease[u])' = Takes(u, lease[u])
      /\ Leaves(u, Current(u))' = Leaves(u, Current(u))
      /\ Says(u, Current(u))' = Says(u, Current(u))
      /\ Written(u)' = Written(u)
  BY <1>2 DEF Takes, Leaves, Says, Written
<1>4. CopyInv(u)'
  BY <1>1, <1>2, <1>3, OthersWait DEF CopyInv, TaskInv
<1>5. WriteInv(u)'
  <2>1. pc[u] = "push" => /\ remote' # Current(u)
                          /\ \A v \in Tasks : v # u => Current(v)' # Current(u)
    <3>1. ASSUME pc[u] = "push" PROVE remote' # Current(u)
      BY <1>1, <3>1, Moves DEF TaskInv, WriteInv
    <3>2. ASSUME pc[u] = "push", NEW v \in Tasks, v # u PROVE Current(v)' # Current(u)
      <4>1. CASE v = t
        BY <1>1, <3>2, <4>1, Moves DEF TaskInv, WriteInv
      <4>2. CASE v # t
        <5>1. Current(v)' = Current(v)
          BY <4>2, OthersWait DEF Current
        <5> QED
          BY <1>1, <3>2, <5>1 DEF TaskInv, WriteInv
      <4> QED
        BY <4>1, <4>2
    <3> QED
      BY <3>1, <3>2
  <2>2. pc[u] = "push" => commits'[Current(u)] = commits[Current(u)]
    BY <1>1, CommitsGrow DEF TaskInv, WriteInv
  <2>3. lease[u] # 0 => commits'[lease[u]] = commits[lease[u]]
    BY <1>1, CommitsGrow
  <2> QED
    BY <1>1, <1>2, <1>3, <2>1, <2>2, <2>3 DEF WriteInv, TaskInv
<1>6. ReplyInv(u)'
  BY <1>1, <1>2, <1>3, OthersWait DEF ReplyInv, TaskInv
<1>7. SeenInv(u)'
  <2>1. seen'[u] = seen[u]
    BY OthersWait
  <2>2. ASSUME seen[u] # None
        PROVE  \E c \in 1 .. Len(commits') :
                 seen[u].etag = GitEtag(c) /\ commits'[c].tree[seen[u].key] = seen[u].body
    <3>1. PICK c \in 1 .. Len(commits) :
            seen[u].etag = GitEtag(c) /\ commits[c].tree[seen[u].key] = seen[u].body
      BY <1>1, <2>2 DEF TaskInv, SeenInv
    <3> QED
      BY <1>1, <3>1, CommitsGrow
  <2> QED
    BY <1>1, <1>2, <2>1, <2>2 DEF SeenInv, TaskInv, GitEtag
<1> QED
  BY <1>4, <1>5, <1>6, <1>7 DEF TaskInv

-----------------------------------------------------------------------------
(* A request asks for an etag of its key that its task was told last. *)
LEMMA BeginRequest ==
  ASSUME GitInv, NEW t \in Tasks, Begin(t)
  PROVE  \E req \in Requests :
           /\ call' = [call EXCEPT ![t] = req]
           /\ req.expected # None =>
                /\ seen[t] # None
                /\ seen[t].key = req.key /\ seen[t].etag = req.expected
<1>1. PICK c \in Calls : \E expected \in Told(t, c) :
        call' = [call EXCEPT ![t] =
                   [op |-> c.op, key |-> c.key, body |-> c.body, expected |-> expected]]
  BY DEF Begin
<1>2. PICK expected \in Told(t, c) :
        call' = [call EXCEPT ![t] =
                   [op |-> c.op, key |-> c.key, body |-> c.body, expected |-> expected]]
  BY <1>1
<1> DEFINE req == [op |-> c.op, key |-> c.key, body |-> c.body, expected |-> expected]
<1>3. c.op \in AllOps /\ c.key \in Keys /\ c.body \in Bodies \cup {None}
  BY GitConstants
<1>4. expected \in Etags \cup {None}
  BY DEF Told, GitInv, GitTypeOK
<1>5. req \in Requests
  BY <1>3, <1>4 DEF Requests
<1>6. expected # None =>
        seen[t] # None /\ seen[t].key = c.key /\ seen[t].etag = expected
  BY DEF Told
<1> QED
  BY <1>2, <1>5, <1>6

(* A task that returns leaves its copy a commit. *)
LEMMA ReturnKeeps ==
  ASSUME GitInv, NEW t \in Tasks, StepOf(t), NEW answer, Return(t, answer),
         Current(t)' = Current(t),
         index'[CopyOf[t]] = TreeOf(Current(t)), files'[CopyOf[t]] = TreeOf(Current(t)),
         answer # Failed /\ answer.etag # None =>
           /\ Current(t) # 0 /\ answer.etag = GitEtag(Current(t))
           /\ File(t) = TreeOf(Current(t))[Key(t)]
  PROVE  TaskInv(t)'
<1>1. /\ GitTypeOK /\ TaskInv(t) /\ [Next]_vars /\ Len(commits) \in Nat
      /\ Current(t) \in 0 .. Len(commits)
  BY NextIsSteps, CopyTypes DEF GitInv
<1>2. /\ pc'[t] = "idle" /\ call'[t] = None /\ fetched'[t] = FALSE /\ reply'[t] = None
  BY <1>1 DEF Return, Goto, GitTypeOK
<1>3. TreeOf(Current(t))' = TreeOf(Current(t))
  BY <1>1, TreesStay DEF TreeOf, Empty
<1>4. CopyInv(t)' /\ WriteInv(t)' /\ ReplyInv(t)'
  BY <1>2, <1>3 DEF CopyInv, WriteInv, ReplyInv
<1>5. ASSUME seen'[t] # None
      PROVE  \E c \in 1 .. Len(commits) :
               seen'[t].etag = GitEtag(c) /\ commits[c].tree[seen'[t].key] = seen'[t].body
  <2>1. CASE seen'[t] = seen[t]
    BY <1>1, <1>5, <2>1 DEF TaskInv, SeenInv
  <2>2. CASE seen'[t] # seen[t]
    <3>1. /\ seen'[t] = [key |-> Key(t), body |-> File(t), etag |-> answer.etag]
          /\ answer # Failed /\ answer.etag # None
      BY <1>1, <2>2 DEF Return, GitTypeOK
    <3> QED
      BY <1>1, <3>1 DEF TreeOf
  <2> QED
    BY <2>1, <2>2
<1>6. SeenInv(t)'
  <2>1. seen'[t] # None => \E c \in 1 .. Len(commits') :
          seen'[t].etag = GitEtag(c) /\ commits'[c].tree[seen'[t].key] = seen'[t].body
    BY <1>1, <1>5, CommitsGrow
  <2> QED
    BY <1>2, <2>1 DEF SeenInv, GitEtag
<1> QED
  BY <1>4, <1>6 DEF TaskInv

LEMMA FailsKeeps ==
  ASSUME GitInv, NEW t \in Tasks, StepOf(t), Fails(t),
         Current(t)' = Current(t),
         index'[CopyOf[t]] = TreeOf(Current(t)), files'[CopyOf[t]] = TreeOf(Current(t))
  PROVE  TaskInv(t)'
BY ReturnKeeps DEF Fails

LEMMA SucceedsKeeps ==
  ASSUME GitInv, NEW t \in Tasks, StepOf(t), Succeeds(t),
         Current(t)' = Current(t),
         index'[CopyOf[t]] = TreeOf(Current(t)), files'[CopyOf[t]] = TreeOf(Current(t)),
         call[t] \in Requests, File(t) = TreeOf(Current(t))[Key(t)]
  PROVE  TaskInv(t)'
<1> DEFINE answer == Promise!Answers(call[t], File(t), Current(t))
<1>1. answer.etag # None => File(t) # None /\ answer.etag = GitEtag(Current(t))
  BY DEF Promise!Answers, GitEtag, Promise!GitEtag
<1>2. Current(t) = 0 => File(t) = None
  BY CopyTypes DEF TreeOf, Empty, GitInv
<1> QED
  BY <1>1, <1>2, ReturnKeeps DEF Succeeds

(* The push is accepted only at the commit the change was made to. *)
LEMMA PushAtLease ==
  ASSUME GitInv, NEW t \in Tasks, pc[t] = "push", PushAccepted(t)
  PROVE  remote = lease[t]
BY DEF GitInv, TaskInv, WriteInv, PushAccepted

(* A step that leaves the copy's commit alone leaves what is said of it. *)
LEMMA SameCommit ==
  ASSUME GitInv, NEW t \in Tasks, StepOf(t),
         Current(t)' = Current(t), call'[t] = call[t]
  PROVE  /\ TreeOf(Current(t))' = TreeOf(Current(t)) /\ Key(t)' = Key(t)
         /\ Takes(t, Current(t))' = Takes(t, Current(t))
         /\ Leaves(t, Current(t))' = Leaves(t, Current(t))
         /\ Says(t, Current(t))' = Says(t, Current(t))
<1>1. GitTypeOK /\ [Next]_vars /\ Current(t) \in 0 .. Len(commits)
  BY NextIsSteps, CopyTypes DEF GitInv
<1>2. TreeOf(Current(t))' = TreeOf(Current(t)) /\ Key(t)' = Key(t)
  BY <1>1, TreesStay DEF TreeOf, Empty, Key
<1> QED
  BY <1>2 DEF Takes, Leaves, Says

LEMMA SeenStays ==
  ASSUME GitInv, NEW t \in Tasks, StepOf(t),
         seen' = seen, call'[t] = call[t], pc[t] # "idle"
  PROVE  SeenInv(t)'
<1>1. GitTypeOK /\ TaskInv(t) /\ [Next]_vars /\ Len(commits) \in Nat
  BY NextIsSteps, CopyTypes DEF GitInv
<1>2. seen[t] # None => \E c \in 1 .. Len(commits') :
        seen[t].etag = GitEtag(c) /\ commits'[c].tree[seen[t].key] = seen[t].body
  BY <1>1, CommitsGrow DEF TaskInv, SeenInv
<1> QED
  BY <1>1, <1>2 DEF TaskInv, SeenInv, GitEtag, Key

(* What a write makes of the copy, to be committed. *)
LEMMA PreparedKeeps ==
  ASSUME GitInv, NEW t \in Tasks, StepOf(t), pc[t] = "edit", Prepared(t),
         UNCHANGED <<commits, HEAD>>,
         call[t].op \in Writes, Takes(t, Current(t)),
         files'[CopyOf[t]] =
           [TreeOf(Current(t)) EXCEPT ![Key(t)] = Leaves(t, Current(t))]
  PROVE  TaskInv(t)'
<1>1. GitTypeOK /\ TaskInv(t) /\ [Next]_vars /\ Len(commits) \in Nat
  BY NextIsSteps, CopyTypes DEF GitInv
<1>2. /\ pc'[t] = "stage" /\ lease'[t] = Current(t)
      /\ UNCHANGED <<call, fetched, seen, reply>> /\ Current(t)' = Current(t)
  BY <1>1 DEF Prepared, Goto, GitTypeOK, Current
<1>3. /\ TreeOf(lease[t])' = TreeOf(Current(t)) /\ Takes(t, lease[t])' = Takes(t, Current(t))
      /\ Leaves(t, lease[t])' = Leaves(t, Current(t))
  BY <1>2, SameCommit DEF Takes, Leaves, TreeOf, Key
<1>4. CopyInv(t)'
  BY <1>2, <1>3, SameCommit DEF CopyInv, Written
<1>5. WriteInv(t)'
  BY <1>2, <1>3 DEF WriteInv
<1>6. ReplyInv(t)'
  BY <1>1, <1>2, SameCommit DEF ReplyInv, TaskInv
<1>7. SeenInv(t)'
  BY <1>2, SeenStays
<1> QED
  BY <1>4, <1>5, <1>6, <1>7 DEF TaskInv

LEMMA FetchKeeps ==
  ASSUME GitInv, NEW t \in Tasks, FetchAndReset(t)
  PROVE  TaskInv(t)'
<1>1. /\ GitTypeOK /\ TaskInv(t) /\ StepOf(t) /\ call[t] \in Requests /\ Key(t) \in Keys
      /\ CopyOf[t] \in Copies /\ Store \in Trees /\ index[CopyOf[t]] \in Trees
      /\ pc[t] = "fetch" /\ remote # 0
  BY CopyTypes DEF GitInv, StepOf, FetchAndReset, TaskInv, ReplyInv
<1>2. /\ pc'[t] = "edit" /\ UNCHANGED <<commits, remote, call, lease, seen>>
      /\ fetched'[t] = TRUE /\ Current(t)' = remote
  BY <1>1 DEF FetchAndReset, Goto, GitTypeOK, Current
<1>3. TreeOf(Current(t))' = Store
  BY <1>2 DEF Store, TreeOf, Empty
<1>4. CopyInv(t)'
  <2>1. index'[CopyOf[t]] = Store
    BY <1>1 DEF FetchAndReset, GitTypeOK
  <2>2. index[CopyOf[t]] = files[CopyOf[t]]
    BY <1>1 DEF TaskInv, CopyInv
  <2>3. files'[CopyOf[t]] =
          [k \in Keys |-> IF Store[k] # None \/ index[CopyOf[t]][k] # None
                            THEN Store[k] ELSE files[CopyOf[t]][k]]
    BY <1>1 DEF FetchAndReset, GitTypeOK
  <2>4. \A k \in Keys : files'[CopyOf[t]][k] = Store[k]
    BY <2>2, <2>3
  <2>5. files'[CopyOf[t]] = Store
    BY <1>1, <2>3, <2>4 DEF Trees
  <2> QED
    BY <1>2, <1>3, <2>1, <2>5 DEF CopyInv
<1>5. WriteInv(t)'
  BY <1>2 DEF WriteInv
<1>6. ReplyInv(t)'
  <2>1. reply[t] = None
    BY <1>1 DEF TaskInv, ReplyInv
  <2>2. reply'[t] = IF AlreadySo(t) THEN Promise!Answers(call[t], Store[Key(t)], remote)
                                    ELSE None
    BY <1>1, <2>1 DEF FetchAndReset, GitTypeOK
  <2>3. AlreadySo(t) <=> (Takes(t, Current(t)) /\ Leaves(t, Current(t)) = TreeOf(Current(t))[Key(t)])'
    BY <1>2, <1>3 DEF AlreadySo, Takes, Leaves, Key, TreeOf, Store
  <2>4. Says(t, Current(t))' = Promise!Answers(call[t], Store[Key(t)], remote)
    BY <1>2, <1>3 DEF Says, Key, TreeOf, Store
  <2> QED
    BY <1>1, <1>2, <2>2, <2>3, <2>4 DEF ReplyInv
<1>7. SeenInv(t)'
  BY <1>1, <1>2, SeenStays
<1> QED
  BY <1>4, <1>5, <1>6, <1>7 DEF TaskInv

LEMMA EditKeeps ==
  ASSUME GitInv, NEW t \in Tasks,
         Get(t) \/ HeadKey(t) \/ Put(t) \/ PutIfUnmodified(t) \/ DeleteIfMatch(t)
  PROVE  TaskInv(t)'
<1>1. /\ GitTypeOK /\ TaskInv(t) /\ StepOf(t) /\ call[t] \in Requests /\ pc[t] = "edit"
      /\ CopyOf[t] \in Copies /\ UNCHANGED <<commits, HEAD>> /\ Current(t)' = Current(t)
  BY CopyTypes DEF GitInv, StepOf, Get, HeadKey, Put, PutIfUnmodified, DeleteIfMatch, Doing,
                   TaskInv, ReplyInv, copyVars, Current
<1>2. /\ index[CopyOf[t]] = TreeOf(Current(t)) /\ files[CopyOf[t]] = TreeOf(Current(t))
      /\ File(t) = TreeOf(Current(t))[Key(t)]
  BY <1>1 DEF TaskInv, CopyInv, File
<1>3. ASSUME UNCHANGED <<index, files>>, Fails(t) \/ Succeeds(t)
      PROVE  TaskInv(t)'
  BY <1>1, <1>2, <1>3, FailsKeeps, SucceedsKeeps
<1>4. CASE Get(t) \/ HeadKey(t)
  BY <1>3, <1>4 DEF Get, HeadKey, copyVars
<1>5. ASSUME WriteFile(t), call[t].op \in {"put", "swap"}, Takes(t, Current(t))
      PROVE  TaskInv(t)'
  <2>1. files'[CopyOf[t]] = [TreeOf(Current(t)) EXCEPT ![Key(t)] = call[t].body]
    BY <1>1, <1>2, <1>5 DEF WriteFile, GitTypeOK
  <2>2. Leaves(t, Current(t)) = call[t].body
    BY <1>5 DEF Leaves, Promise!BodyAfter
  <2> QED
    BY <1>1, <1>5, <2>1, <2>2, PreparedKeeps DEF WriteFile, Writes
<1>6. CASE Put(t)
  <2>1. Takes(t, Current(t)) /\ call[t].op = "put" /\ WriteFile(t)
    BY <1>6 DEF Put, Doing, Takes, Promise!Accepted
  <2> QED
    BY <1>5, <2>1
<1>7. CASE PutIfUnmodified(t)
  <2>1. CASE Fails(t) /\ UNCHANGED files
    BY <1>3, <1>7, <2>1 DEF PutIfUnmodified
  <2>2. CASE ~Refused(t) /\ WriteFile(t)
    <3>1. Takes(t, Current(t))
      BY <1>1, <1>2, <1>7, <2>2, CopyTypes
         DEF PutIfUnmodified, Doing, Refused, Takes, Promise!Accepted, Promise!GitAccepts,
             Promise!GitEtag, GitEtag
    <3> QED
      BY <1>5, <1>7, <2>2, <3>1 DEF PutIfUnmodified, Doing
  <2> QED
    BY <1>7, <2>1, <2>2 DEF PutIfUnmodified
<1>8. CASE DeleteIfMatch(t)
  <2>1. CASE UNCHANGED <<index, files>> /\ (Fails(t) \/ Succeeds(t))
    BY <1>3, <2>1
  <2>2. CASE /\ Current(t) # 0 /\ call[t].expected = GitEtag(Current(t))
             /\ files' = [files EXCEPT ![CopyOf[t]][Key(t)] = None]
             /\ Prepared(t)
    <3>1. call[t].op = "delete"
      BY <1>8 DEF DeleteIfMatch, Doing
    <3>2. Takes(t, Current(t))
      BY <2>2, <3>1, <1>1, CopyTypes
         DEF Takes, Promise!Accepted, Promise!GitDeletes, Promise!GitEtag, GitEtag
    <3>3. Leaves(t, Current(t)) = None
      BY <3>1 DEF Leaves, Promise!BodyAfter
    <3>4. files'[CopyOf[t]] = [TreeOf(Current(t)) EXCEPT ![Key(t)] = None]
      BY <1>1, <1>2, <2>2 DEF GitTypeOK
    <3> QED
      BY <1>1, <2>2, <3>1, <3>2, <3>3, <3>4, PreparedKeeps DEF Writes
  <2> QED
    BY <1>8, <2>1, <2>2 DEF DeleteIfMatch
<1> QED
  BY <1>4, <1>6, <1>7, <1>8

LEMMA StageKeeps ==
  ASSUME GitInv, NEW t \in Tasks, Stage(t)
  PROVE  TaskInv(t)'
<1>1. /\ GitTypeOK /\ TaskInv(t) /\ StepOf(t) /\ call[t] \in Requests /\ pc[t] = "stage"
      /\ CopyOf[t] \in Copies /\ UNCHANGED <<commits, HEAD, files>> /\ Current(t)' = Current(t)
      /\ Key(t) \in Keys
  BY CopyTypes DEF GitInv, StepOf, Stage, TaskInv, ReplyInv, Current
<1>2. index'[CopyOf[t]] = files[CopyOf[t]]
  BY <1>1 DEF Stage, GitTypeOK
<1>3. CASE files[CopyOf[t]] = TreeOf(Current(t))
  <2>1. Fails(t) \/ Succeeds(t)
    BY <1>3 DEF Stage, Current
  <2>2. File(t) = TreeOf(Current(t))[Key(t)]
    BY <1>3 DEF File
  <2> QED
    BY <1>1, <1>2, <1>3, <2>1, <2>2, FailsKeeps, SucceedsKeeps
<1>4. CASE files[CopyOf[t]] # TreeOf(Current(t))
  <2>1. /\ pc'[t] = "commit" /\ UNCHANGED returnVars
    BY <1>1, <1>4 DEF Stage, Goto, GitTypeOK, Current
  <2>2. /\ lease[t] = Current(t) /\ files[CopyOf[t]] = Written(t)
        /\ call[t].op \in Writes /\ Takes(t, lease[t])
    BY <1>1 DEF TaskInv, CopyInv, WriteInv
  <2>3. reply[t] = None
    <3>1. TreeOf(Current(t)) \in Trees
      BY <1>1, TreeTypes, CopyTypes
    <3>2. Leaves(t, Current(t)) # TreeOf(Current(t))[Key(t)]
      BY <1>1, <1>4, <2>2, <3>1 DEF Written, Trees
    <3> QED
      BY <1>1, <3>2 DEF TaskInv, ReplyInv
  <2>4. /\ TreeOf(lease[t])' = TreeOf(lease[t]) /\ Takes(t, lease[t])' = Takes(t, lease[t])
        /\ Written(t)' = Written(t)
    BY <1>1, <2>1, <2>2, SameCommit DEF returnVars, Takes, Leaves, Written, TreeOf, Key
  <2>5. CopyInv(t)' /\ WriteInv(t)'
    BY <1>1, <1>2, <2>1, <2>2, <2>4 DEF CopyInv, WriteInv, returnVars
  <2>6. ReplyInv(t)'
    BY <1>1, <2>1, <2>3 DEF ReplyInv, returnVars
  <2>7. SeenInv(t)'
    BY <1>1, <2>1, SeenStays DEF returnVars
  <2> QED
    BY <2>5, <2>6, <2>7 DEF TaskInv
<1> QED
  BY <1>3, <1>4

LEMMA CommitKeeps ==
  ASSUME OwnCopies, GitInv, NEW t \in Tasks, Commit(t)
  PROVE  TaskInv(t)'
<1>1. /\ GitTypeOK /\ TaskInv(t) /\ StepOf(t) /\ call[t] \in Requests /\ pc[t] = "commit"
      /\ CopyOf[t] \in Copies /\ UNCHANGED <<remote, index, files>> /\ [Next]_vars
      /\ Current(t) \in 0 .. Len(commits) /\ Len(commits) \in Nat
      /\ remote \in 0 .. Len(commits)
  BY NextIsSteps, CopyTypes DEF GitInv, StepOf, Commit, TaskInv, ReplyInv
<1>2. /\ lease[t] = Current(t) /\ files[CopyOf[t]] = Written(t)
      /\ index[CopyOf[t]] = files[CopyOf[t]]
      /\ call[t].op \in Writes /\ Takes(t, lease[t])
  BY <1>1 DEF TaskInv, CopyInv, WriteInv
<1>3. CASE Fails(t) /\ UNCHANGED <<commits, HEAD>> /\ index[CopyOf[t]] = TreeOf(Current(t))
  BY <1>1, <1>2, <1>3, FailsKeeps DEF Current
<1>4. CASE ~(Fails(t) /\ UNCHANGED <<commits, HEAD>> /\ index[CopyOf[t]] = TreeOf(Current(t)))
  <2> DEFINE new == [tree |-> index[CopyOf[t]],
                     past |-> IF Current(t) = 0 THEN {}
                              ELSE commits[Current(t)].past \cup {Current(t)}]
  <2>1. /\ commits' = Append(commits, new)
        /\ HEAD' = [HEAD EXCEPT ![CopyOf[t]] = Len(commits) + 1]
        /\ Goto(t, "push") /\ UNCHANGED returnVars
    BY <1>1, <1>4 DEF Commit, Current
  <2>2. /\ Current(t)' = Len(commits) + 1 /\ pc'[t] = "push"
        /\ Len(commits') = Len(commits) + 1 /\ commits'[Len(commits) + 1] = new
    BY <1>1, <2>1 DEF Current, Goto, GitTypeOK
  <2>3. TreeOf(Current(t))' = Written(t)
    BY <1>1, <1>2, <2>2 DEF TreeOf
  <2>4. /\ TreeOf(lease[t])' = TreeOf(lease[t]) /\ Takes(t, lease[t])' = Takes(t, lease[t])
        /\ Written(t)' = Written(t)
    <3>1. TreeOf(lease[t])' = TreeOf(lease[t])
      BY <1>1, <1>2, <2>1, TreesStay DEF returnVars, TreeOf, Empty
    <3> QED
      BY <2>1, <3>1 DEF returnVars, Takes, Leaves, Written, Key
  <2>5. CopyInv(t)'
    BY <1>1, <1>2, <2>2, <2>3 DEF CopyInv
  <2>6. WriteInv(t)'
    <3>1. ASSUME NEW u \in Tasks, u # t PROVE Current(u)' # Len(commits) + 1
      <4>1. Current(u)' = Current(u) /\ Current(u) \in 0 .. Len(commits)
        BY <1>1, <3>1, OthersWait, CopyTypes DEF Current
      <4> QED
        BY <1>1, <4>1
    <3>2. commits'[Len(commits) + 1].past =
            IF lease[t] = 0 THEN {} ELSE commits'[lease[t]].past \cup {lease[t]}
      <4>1. commits'[Len(commits) + 1].past =
              IF Current(t) = 0 THEN {} ELSE commits[Current(t)].past \cup {Current(t)}
        BY <2>2
      <4>2. Current(t) # 0 => commits'[Current(t)] = commits[Current(t)]
        BY <1>1, CommitsGrow
      <4> QED
        BY <1>2, <4>1, <4>2
    <3>3. Current(t)' > lease[t] /\ remote' # Current(t)' /\ lease' = lease /\ call' = call
      BY <1>1, <1>2, <2>1, <2>2 DEF returnVars
    <3> QED
      BY <1>2, <2>2, <2>3, <2>4, <3>1, <3>2, <3>3 DEF WriteInv
  <2>7. ReplyInv(t)'
    BY <1>1, <2>1, <2>2 DEF ReplyInv, TaskInv, returnVars
  <2>8. SeenInv(t)'
    BY <1>1, <2>1, SeenStays DEF returnVars
  <2> QED
    BY <2>5, <2>6, <2>7, <2>8 DEF TaskInv
<1> QED
  BY <1>3, <1>4

LEMMA PushKeeps ==
  ASSUME OwnCopies, GitInv, NEW t \in Tasks, Push(t)
  PROVE  /\ TaskInv(t)'
         /\ remote = lease[t] /\ remote' = Current(t)
         /\ Current(t) > lease[t] /\ Store' = Written(t) /\ Takes(t, remote)
         /\ reply' = [reply EXCEPT ![t] = Says(t, Current(t))]
<1>1. /\ GitTypeOK /\ TaskInv(t) /\ StepOf(t) /\ call[t] \in Requests /\ pc[t] = "push"
      /\ CopyOf[t] \in Copies /\ Current(t)' = Current(t) /\ pc'[t] = "answer"
      /\ UNCHANGED <<commits, index, files, call, lease, fetched, seen>> /\ remote' = Current(t)
      /\ Key(t) \in Keys /\ remote \in 0 .. Len(commits) /\ Len(commits) \in Nat
  BY CopyTypes DEF GitInv, StepOf, Push, TaskInv, ReplyInv, Current, copyVars, Goto, GitTypeOK
<1>2. /\ remote = lease[t]
      /\ call[t].op \in Writes /\ Takes(t, lease[t])
      /\ Current(t) > lease[t] /\ TreeOf(Current(t)) = Written(t)
      /\ reply[t] = None
  BY <1>1, PushAtLease DEF Push, TaskInv, WriteInv, ReplyInv
<1>3. CarriedOut(t) = {t}
  <2>1. t \in CarriedOut(t)
    <3>1. Promise!Accepted(call[t], Store[Key(t)], remote)
      BY <1>2 DEF Takes, Store
    <3>2. TreeOf(Current(t))[Key(t)] = Promise!BodyAfter(call[t], Store[Key(t)])
      <4>1. Store \in Trees
        BY <1>1, CopyTypes
      <4> QED
        BY <1>1, <1>2, <4>1 DEF Written, Leaves, Store, Trees
    <3> QED
      BY <1>1, <1>2, <3>1, <3>2 DEF CarriedOut
  <2>2. ASSUME NEW u \in CarriedOut(t) PROVE u = t
    BY DEF CarriedOut, OwnCopies
  <2> QED
    BY <2>1, <2>2
<1>4. reply' = [reply EXCEPT ![t] = Says(t, Current(t))]
  BY <1>1, <1>3 DEF Push, Says, GitTypeOK
<1>5. Store' = Written(t)
  BY <1>1, <1>2 DEF Store, TreeOf, Empty
<1>6. CopyInv(t)'
  BY <1>1, SameCommit DEF CopyInv, TaskInv
<1>7. WriteInv(t)'
  BY <1>1 DEF WriteInv
<1>8. ReplyInv(t)'
  <2>1. reply'[t] = Says(t, Current(t))
    BY <1>1, <1>4 DEF GitTypeOK
  <2>2. Current(t) # 0
    BY <1>1, <1>2
  <2> QED
    BY <1>1, <2>1, <2>2, SameCommit DEF ReplyInv
<1>9. SeenInv(t)'
  BY <1>1, SeenStays
<1> QED
  BY <1>1, <1>2, <1>4, <1>5, <1>6, <1>7, <1>8, <1>9 DEF TaskInv

LEMMA StepKeeps ==
  ASSUME OwnCopies, GitInv, NEW t \in Tasks, StepOf(t)
  PROVE  TaskInv(t)'
<1>1. /\ GitTypeOK /\ TaskInv(t) /\ CopyOf[t] \in Copies
  BY CopyTypes DEF GitInv
<1>2. CASE Begin(t)
  <2>1. PICK req \in Requests :
           /\ call' = [call EXCEPT ![t] = req]
           /\ req.expected # None =>
                /\ seen[t] # None
                /\ seen[t].key = req.key /\ seen[t].etag = req.expected
    BY <1>2, BeginRequest
  <2>2. /\ pc[t] = "idle" /\ pc'[t] = "fetch" /\ call'[t] = req
        /\ UNCHANGED <<commits, remote, HEAD, index, files, lease, fetched, seen, reply>>
    BY <1>1, <1>2, <2>1 DEF Begin, Goto, GitTypeOK, copyVars
  <2>3. CopyInv(t)'
    BY <1>1, <2>2 DEF CopyInv, TaskInv, Current, TreeOf, Empty
  <2>4. WriteInv(t)' /\ ReplyInv(t)'
    BY <1>1, <2>2 DEF WriteInv, ReplyInv, TaskInv
  <2>5. SeenInv(t)'
    BY <1>1, <2>1, <2>2 DEF SeenInv, TaskInv, Key
  <2> QED
    BY <2>3, <2>4, <2>5 DEF TaskInv
<1>3. CASE InitWorkdir(t)
  <2>1. /\ pc[t] = "fetch" /\ UNCHANGED <<pc, commits, remote, call, lease, fetched, seen, reply>>
    BY <1>3 DEF InitWorkdir
  <2>2. CopyInv(t)'
    <3>1. CASE UNCHANGED <<HEAD, index, files>>
      BY <1>1, <2>1, <3>1 DEF CopyInv, TaskInv, Current, TreeOf, Empty
    <3>2. CASE /\ HEAD' = [HEAD EXCEPT ![CopyOf[t]] = remote]
               /\ index' = [index EXCEPT ![CopyOf[t]] = Store]
               /\ files' = [files EXCEPT ![CopyOf[t]] = Store]
      BY <1>1, <2>1, <3>2 DEF CopyInv, Current, Store, TreeOf, Empty, GitTypeOK
    <3> QED
      BY <1>3, <3>1, <3>2 DEF InitWorkdir
  <2>3. WriteInv(t)' /\ ReplyInv(t)'
    BY <1>1, <2>1 DEF WriteInv, ReplyInv, TaskInv
  <2>4. SeenInv(t)'
    BY <1>1, <2>1, SeenStays DEF StepOf
  <2> QED
    BY <2>2, <2>3, <2>4 DEF TaskInv
<1>4. CASE FetchFails(t)
  <2>1. /\ pc[t] = "fetch" /\ UNCHANGED <<commits, remote, HEAD, index, files>>
        /\ Current(t)' = Current(t)
        /\ index[CopyOf[t]] = TreeOf(Current(t)) /\ files[CopyOf[t]] = TreeOf(Current(t))
    BY <1>1, <1>4 DEF FetchFails, copyVars, Current, TaskInv, CopyInv
  <2>2. CASE call[t].op = "head"
    BY <1>4, <2>1, <2>2, ReturnKeeps DEF FetchFails, StepOf
  <2>3. CASE call[t].op # "head"
    <3>1. pc'[t] = "edit" /\ UNCHANGED returnVars
      BY <1>1, <1>4, <2>3 DEF FetchFails, Goto, GitTypeOK
    <3>2. CopyInv(t)'
      BY <2>1, <3>1 DEF CopyInv, TreeOf, Empty
    <3>3. WriteInv(t)' /\ ReplyInv(t)'
      BY <1>1, <2>1, <3>1 DEF WriteInv, ReplyInv, TaskInv, returnVars
    <3>4. SeenInv(t)'
      BY <1>4, <2>1, <3>1, SeenStays DEF StepOf, returnVars
    <3> QED
      BY <3>2, <3>3, <3>4 DEF TaskInv
  <2> QED
    BY <2>2, <2>3
<1>5. CASE PushFails(t)
  <2>1. /\ Current(t)' = Current(t) /\ UNCHANGED <<index, files>> /\ pc[t] = "push" /\ Fails(t)
    BY <1>5 DEF PushFails, copyVars, Current
  <2> QED
    BY <1>1, <1>5, <2>1, FailsKeeps DEF TaskInv, CopyInv
<1>6. CASE Answer(t)
  <2>1. /\ Current(t)' = Current(t) /\ UNCHANGED <<index, files>> /\ pc[t] = "answer"
        /\ Fails(t) \/ Succeeds(t)
    BY <1>6 DEF Answer, copyVars, Current
  <2>2. /\ index[CopyOf[t]] = TreeOf(Current(t)) /\ files[CopyOf[t]] = TreeOf(Current(t))
        /\ call[t] \in Requests /\ File(t) = TreeOf(Current(t))[Key(t)]
    BY <1>1, <2>1 DEF TaskInv, CopyInv, ReplyInv, File
  <2> QED
    BY <2>1, <2>2, FailsKeeps, SucceedsKeeps
<1> QED
  BY <1>2, <1>3, <1>4, <1>5, <1>6, FetchKeeps, EditKeeps, StageKeeps, CommitKeeps, PushKeeps
     DEF StepOf

LEMMA InitHolds == Init => GitInv
<1> SUFFICES ASSUME Init PROVE GitInv
  OBVIOUS
<1>1. GitTypeOK
  BY InitTypes
<1>2. ASSUME NEW t \in Tasks PROVE TaskInv(t)
  <2>1. /\ pc[t] = "idle" /\ call[t] = None /\ seen[t] = None /\ reply[t] = None
        /\ fetched[t] = FALSE
    BY DEF Init
  <2>2. Current(t) = 0 /\ index[CopyOf[t]] = Empty /\ files[CopyOf[t]] = Empty
    BY CopyTypes, <1>1 DEF Init, Current
  <2> QED
    BY <2>1, <2>2 DEF TaskInv, CopyInv, WriteInv, ReplyInv, SeenInv, TreeOf
<1> QED
  BY <1>1, <1>2 DEF GitInv

LEMMA NextHolds ==
  ASSUME OwnCopies
  PROVE  GitInv /\ [Next]_vars => GitInv'
<1> SUFFICES ASSUME GitInv, [Next]_vars PROVE GitInv'
  OBVIOUS
<1>1. ASSUME NEW t \in Tasks, StepOf(t) PROVE GitInv'
  <2>1. GitTypeOK'
    BY <1>1, StepTypes
  <2>2. ASSUME NEW u \in Tasks PROVE TaskInv(u)'
    BY <1>1, StepKeeps, OthersKeep
  <2> QED
    BY <2>1, <2>2 DEF GitInv
<1>2. CASE UNCHANGED vars
  <2>1. GitTypeOK'
    BY <1>2 DEF GitInv, GitTypeOK, vars, copyVars, returnVars
  <2>2. ASSUME NEW t \in Tasks PROVE TaskInv(t)'
    <3>1. TaskInv(t)
      BY DEF GitInv
    <3> QED
      BY <1>2, <3>1 DEF vars, copyVars, returnVars, TaskInv, CopyInv, WriteInv, ReplyInv, SeenInv,
         Takes, Leaves, Says, Written, TreeOf, Empty, Key, Current
  <2> QED
    BY <2>1, <2>2 DEF GitInv
<1> QED
  BY <1>1, <1>2, NextIsSteps

LEMMA InvHolds ==
  ASSUME OwnCopies
  PROVE  Spec => []GitInv
<1>1. GitInv /\ [Next]_vars => GitInv'
  BY NextHolds
<1> QED
  BY <1>1, InitHolds, PTL DEF Spec

(* The type invariant, copies that belong to one task each. *)
THEOREM GitTypeCorrect ==
  ASSUME OwnCopies
  PROVE  Spec => []GitTypeOK
<1>1. GitInv => GitTypeOK
  BY DEF GitInv
<1> QED
  BY <1>1, InvHolds, PTL

(***************************************************************************)
(* A push moves the branch to a commit on top of the one it replaces.      *)
(***************************************************************************)
THEOREM HistoryKeptHolds ==
  ASSUME OwnCopies
  PROVE  Spec => HistoryKept
<1>1. GitInv /\ [Next]_vars =>
        [remote # 0 /\ remote' # remote => remote \in commits'[remote'].past]_vars
  <2> SUFFICES ASSUME GitInv, [Next]_vars, remote # 0, remote' # remote
               PROVE  remote \in commits'[remote'].past
    OBVIOUS
  <2>1. PICK t \in Tasks : StepOf(t)
    BY NextIsSteps DEF vars
  <2>2. Push(t)
    BY <2>1, Moves
  <2>3. remote = lease[t] /\ remote' = Current(t)
    BY <2>2, PushKeeps
  <2>4. commits' = commits /\ remote \in commits[Current(t)].past
    BY <2>2, <2>3 DEF Push, GitInv, TaskInv, WriteInv
  <2> QED
    BY <2>3, <2>4
<1> QED
  BY <1>1, InvHolds, PTL DEF Spec, HistoryKept

(***************************************************************************)
(* A swap on an etag replaces the body that was answered with that etag,   *)
(* whether or not the answer came from a stale copy.                       *)
(***************************************************************************)
THEOREM SwapReplacesWhatWasReadHolds ==
  ASSUME OwnCopies
  PROVE  Spec => SwapReplacesWhatWasRead
<1>1. GitInv /\ [Next]_vars =>
        [\A t \in Tasks :
           /\ pc[t] = "push" /\ pc'[t] = "answer"
           /\ call[t].op = "swap" /\ call[t].expected # None
           => Store[Key(t)] = seen[t].body]_vars
  <2> SUFFICES ASSUME GitInv, [Next]_vars, NEW t \in Tasks,
                      pc[t] = "push", pc'[t] = "answer",
                      call[t].op = "swap", call[t].expected # None
               PROVE  Store[Key(t)] = seen[t].body
    OBVIOUS
  <2>1. PICK u \in Tasks : StepOf(u)
    BY NextIsSteps DEF vars
  <2>2. u = t
    BY <2>1, OthersWait
  <2>3. Push(t)
    BY <2>1, <2>2 DEF StepOf, Begin, InitWorkdir, FetchAndReset, FetchFails, Get, HeadKey, Put,
       PutIfUnmodified, DeleteIfMatch, Doing, Stage, Commit, PushFails, Answer, Fails, Return,
       Goto, GitInv, GitTypeOK
  <2>4. Takes(t, remote) /\ TaskInv(t) /\ remote = lease[t]
    BY <2>3, PushKeeps DEF GitInv
  <2>5. remote # 0 /\ call[t].expected = GitEtag(remote)
    BY <2>4, CopyTypes
       DEF Takes, Promise!Accepted, Promise!GitAccepts, Promise!GitEtag, GitEtag, GitInv
  <2>6. PICK c \in 1 .. Len(commits) :
          /\ seen[t].etag = GitEtag(c) /\ commits[c].tree[seen[t].key] = seen[t].body
          /\ seen[t].key = Key(t) /\ seen[t].etag = call[t].expected
    BY <2>4 DEF TaskInv, SeenInv
  <2>7. c = remote
    BY <2>5, <2>6 DEF GitEtag
  <2> QED
    BY <2>5, <2>6, <2>7 DEF Store, TreeOf
<1> QED
  BY <1>1, InvHolds, PTL DEF Spec, SwapReplacesWhatWasRead

-----------------------------------------------------------------------------
(* The store changes only when the branch moves. *)
LEMMA StoreStays ==
  ASSUME GitInv, [Next]_vars, remote' = remote
  PROVE  Store' = Store
<1>1. GitTypeOK /\ remote \in 0 .. Len(commits)
  BY DEF GitInv, GitTypeOK
<1> QED
  BY <1>1, TreesStay DEF Store, TreeOf, Empty

(* What a call answers is what its effect left, or nothing is promised. *)
LEMMA ReturnImplements ==
  ASSUME GitInv, NEW t \in Tasks, StepOf(t), NEW answer, Return(t, answer),
         call[t] \in Requests, remote' = remote,
         fetched[t] \/ reply[t] # None =>
           answer = Failed \/ (answer = reply[t] /\ answer \in Replies)
  PROVE  Promise!Answer(t)
<1>1. Store' = Store
  BY StoreStays, NextIsSteps
<1>2. call[t] # None /\ Failed # None /\ None \notin Replies
  BY GitConstants, GitNames
<1>3. \E a \in {reply[t], Failed} \ {None} : result' = [result EXCEPT ![t] = a]
  <2>1. CASE fetched[t] \/ reply[t] # None
    BY <1>2, <2>1 DEF Return
  <2>2. CASE ~(fetched[t] \/ reply[t] # None)
    BY <1>2, <2>2 DEF Return
  <2> QED
    BY <2>1, <2>2
<1> QED
  BY <1>1, <1>2, <1>3 DEF Promise!Answer, Return

LEMMA FailsImplements ==
  ASSUME GitInv, NEW t \in Tasks, StepOf(t), Fails(t), call[t] \in Requests, remote' = remote
  PROVE  Promise!Answer(t)
BY ReturnImplements DEF Fails

LEMMA SucceedsImplements ==
  ASSUME GitInv, NEW t \in Tasks, StepOf(t), Succeeds(t), pc[t] \in {"edit", "stage"},
         remote' = remote,
         File(t) = TreeOf(Current(t))[Key(t)],
         Takes(t, Current(t)), Leaves(t, Current(t)) = TreeOf(Current(t))[Key(t)]
  PROVE  Promise!Answer(t)
<1>1. call[t] \in Requests /\ ReplyInv(t) /\ GitTypeOK
  BY DEF GitInv, TaskInv, ReplyInv
<1>2. fetched[t] \/ reply[t] # None => Says(t, Current(t)) = reply[t] /\ Current(t) # 0
  BY <1>1 DEF ReplyInv
<1>3. Current(t) # 0 => Says(t, Current(t)) \in Replies
  <2> SUFFICES ASSUME Current(t) # 0 PROVE Says(t, Current(t)) \in Replies
    OBVIOUS
  <2>1. Current(t) \in Commits /\ File(t) \in Bodies \cup {None}
    BY <1>1, CopyTypes, GitConstants DEF Commits
  <2> QED
    BY <1>1, <2>1, AnswerTypes DEF Says
<1> QED
  BY <1>1, <1>2, <1>3, ReturnImplements DEF Succeeds, Says

(***************************************************************************)
(* Every git command is a step of AtomicStore by its task, or none.        *)
(***************************************************************************)
LEMMA StepImplements ==
  ASSUME OwnCopies, GitInv, NEW t \in Tasks, StepOf(t)
  PROVE  \/ Promise!Begin(t) \/ Promise!TakeEffect(t) \/ Promise!Answer(t)
         \/ UNCHANGED Promise!vars
<1>1. /\ GitTypeOK /\ TaskInv(t) /\ [Next]_vars /\ CopyOf[t] \in Copies
      /\ pc[t] # "idle" => call[t] \in Requests /\ Key(t) \in Keys
  BY NextIsSteps, CopyTypes DEF GitInv, TaskInv, ReplyInv
<1>2. pc[t] \notin {"stage", "commit"} => File(t) = TreeOf(Current(t))[Key(t)]
  BY <1>1 DEF TaskInv, CopyInv, File
<1>3. ASSUME UNCHANGED <<remote, call, reply, result>> PROVE UNCHANGED Promise!vars
  BY <1>1, <1>3, StoreStays DEF Promise!vars
<1>4. CASE Begin(t)
  <2>1. PICK req \in Requests : call' = [call EXCEPT ![t] = req]
    BY <1>4, BeginRequest
  <2>2. call[t] = None /\ UNCHANGED <<remote, reply>> /\ result' = [result EXCEPT ![t] = None]
    BY <1>1, <1>4 DEF Begin, TaskInv, ReplyInv
  <2>3. Store' = Store
    BY <1>1, <2>2, StoreStays
  <2> QED
    BY <2>1, <2>2, <2>3 DEF Promise!Begin
<1>5. CASE InitWorkdir(t)
  BY <1>3, <1>5 DEF InitWorkdir
<1>6. CASE FetchAndReset(t)
  <2>1. /\ pc[t] = "fetch" /\ UNCHANGED <<remote, call, result>> /\ reply[t] = None
        /\ call[t] \in Requests
    BY <1>1, <1>6 DEF FetchAndReset, TaskInv, ReplyInv
  <2>2. Store' = Store /\ Store \in Trees
    BY <1>1, <2>1, StoreStays, CopyTypes
  <2>3. CASE AlreadySo(t)
    <3>1. reply' = [reply EXCEPT ![t] = Promise!Answers(call[t], Store[Key(t)], remote)]
      BY <1>6, <2>3 DEF FetchAndReset
    <3>2. [Store EXCEPT ![Key(t)] = Promise!BodyAfter(call[t], Store[Key(t)])] = Store
      BY <2>2, <2>3 DEF AlreadySo, Key, Trees
    <3>3. call[t] # None
      BY <2>1, GitNames
    <3> QED
      BY <2>1, <2>2, <2>3, <3>1, <3>2, <3>3 DEF Promise!TakeEffect, AlreadySo, Key
  <2>4. CASE ~AlreadySo(t)
    BY <1>3, <1>6, <2>1, <2>4 DEF FetchAndReset
  <2> QED
    BY <2>3, <2>4
<1>7. CASE FetchFails(t)
  <2>1. pc[t] = "fetch" /\ remote' = remote /\ ~fetched[t] /\ reply[t] = None
    BY <1>1, <1>7 DEF FetchFails, TaskInv, ReplyInv
  <2>2. CASE UNCHANGED returnVars
    BY <1>3, <2>1, <2>2 DEF returnVars
  <2>3. CASE Return(t, [body |-> None, etag |-> None])
    BY <1>1, <2>1, <2>3, ReturnImplements
  <2> QED
    BY <1>7, <2>2, <2>3 DEF FetchFails
<1>8. CASE Get(t)
  <2>1. pc[t] = "edit" /\ call[t].op = "get" /\ remote' = remote
    BY <1>8 DEF Get, Doing
  <2>2. CASE Fails(t)
    BY <1>1, <2>1, <2>2, FailsImplements
  <2>3. CASE Succeeds(t) /\ File(t) # None
    <3>1. Takes(t, Current(t)) /\ Leaves(t, Current(t)) = TreeOf(Current(t))[Key(t)]
      BY <1>2, <2>1, <2>3 DEF Takes, Leaves, Promise!Accepted, Promise!BodyAfter
    <3> QED
      BY <1>2, <2>1, <2>3, <3>1, SucceedsImplements
  <2> QED
    BY <1>8, <2>2, <2>3 DEF Get
<1>9. CASE HeadKey(t)
  <2>1. pc[t] = "edit" /\ call[t].op = "head" /\ remote' = remote /\ Succeeds(t)
    BY <1>9 DEF HeadKey, Doing
  <2>2. Takes(t, Current(t)) /\ Leaves(t, Current(t)) = TreeOf(Current(t))[Key(t)]
    BY <2>1 DEF Takes, Leaves, Promise!Accepted, Promise!BodyAfter
  <2> QED
    BY <1>2, <2>1, <2>2, SucceedsImplements
<1>10. CASE Put(t) \/ PutIfUnmodified(t)
  <2>1. pc[t] = "edit" /\ remote' = remote
    BY <1>10 DEF Put, PutIfUnmodified, Doing
  <2>2. CASE Prepared(t)
    BY <1>3, <2>1, <2>2 DEF Prepared
  <2>3. CASE Fails(t)
    BY <1>1, <2>1, <2>3, FailsImplements
  <2> QED
    BY <1>10, <2>2, <2>3 DEF Put, PutIfUnmodified, WriteFile
<1>11. CASE DeleteIfMatch(t)
  <2>1. pc[t] = "edit" /\ call[t].op = "delete" /\ remote' = remote
    BY <1>11 DEF DeleteIfMatch, Doing
  <2>2. CASE Prepared(t)
    BY <1>3, <2>1, <2>2 DEF Prepared
  <2>3. CASE Fails(t)
    BY <1>1, <2>1, <2>3, FailsImplements
  <2>4. CASE /\ Succeeds(t) /\ File(t) = None
             /\ Current(t) # 0 /\ call[t].expected = GitEtag(Current(t))
    <3>1. Takes(t, Current(t))
      BY <1>1, <2>1, <2>4, CopyTypes
         DEF Takes, Promise!Accepted, Promise!GitDeletes, Promise!GitEtag, GitEtag
    <3>2. Leaves(t, Current(t)) = TreeOf(Current(t))[Key(t)]
      BY <1>2, <2>1, <2>4 DEF Leaves, Promise!BodyAfter
    <3> QED
      BY <1>2, <2>1, <2>4, <3>1, <3>2, SucceedsImplements
  <2> QED
    BY <1>11, <2>2, <2>3, <2>4 DEF DeleteIfMatch
<1>12. CASE Stage(t)
  <2>1. pc[t] = "stage" /\ remote' = remote
    BY <1>12 DEF Stage
  <2>2. CASE UNCHANGED returnVars
    BY <1>3, <2>1, <2>2 DEF returnVars
  <2>3. CASE Fails(t)
    BY <1>1, <2>1, <2>3, FailsImplements
  <2>4. CASE Succeeds(t) /\ files[CopyOf[t]] = TreeOf(Current(t))
    <3>1. /\ lease[t] = Current(t) /\ files[CopyOf[t]] = Written(t) /\ Takes(t, lease[t])
          /\ TreeOf(Current(t)) \in Trees
      BY <1>1, <2>1, TreeTypes, CopyTypes DEF TaskInv, CopyInv, WriteInv
    <3>2. Leaves(t, Current(t)) = TreeOf(Current(t))[Key(t)]
      BY <1>1, <2>1, <2>4, <3>1 DEF Written, Trees
    <3>3. File(t) = TreeOf(Current(t))[Key(t)]
      BY <2>4 DEF File
    <3> QED
      BY <2>1, <2>4, <3>1, <3>2, <3>3, SucceedsImplements
  <2> QED
    BY <1>12, <2>2, <2>3, <2>4 DEF Stage, Current
<1>13. CASE Commit(t)
  <2>1. pc[t] = "commit" /\ remote' = remote
    BY <1>13 DEF Commit
  <2>2. CASE UNCHANGED returnVars
    BY <1>3, <2>1, <2>2 DEF returnVars
  <2>3. CASE Fails(t)
    BY <1>1, <2>1, <2>3, FailsImplements
  <2> QED
    BY <1>13, <2>2, <2>3 DEF Commit
<1>14. CASE Push(t)
  <2>1. /\ remote = lease[t] /\ remote' = Current(t) /\ Current(t) > lease[t]
        /\ Store' = Written(t) /\ Takes(t, remote)
        /\ reply' = [reply EXCEPT ![t] = Says(t, Current(t))]
    BY <1>14, PushKeeps
  <2>2. /\ pc[t] = "push" /\ UNCHANGED <<call, result>> /\ reply[t] = None
        /\ call[t] # None /\ call[t] \in Requests
    BY <1>1, <1>14, GitNames DEF Push, TaskInv, ReplyInv
  <2>3. Store' = [Store EXCEPT ![Key(t)] = Promise!BodyAfter(call[t], Store[Key(t)])]
    BY <2>1 DEF Written, Leaves, Store
  <2>4. Says(t, Current(t)) = Promise!Answers(call[t], Store'[Key(t)], remote')
    <3>1. TreeOf(Current(t)) = Store'
      BY <1>1, <2>1, <2>2 DEF TaskInv, WriteInv
    <3> QED
      BY <2>1, <3>1 DEF Says
  <2>5. Promise!Accepted(call[t], Store[Key(t)], remote)
    BY <2>1 DEF Takes, Store
  <2> QED
    BY <2>1, <2>2, <2>3, <2>4, <2>5 DEF Promise!TakeEffect, Key
<1>15. CASE PushFails(t)
  BY <1>1, <1>15, FailsImplements DEF PushFails
<1>16. CASE Answer(t)
  <2>1. pc[t] = "answer" /\ remote' = remote
    BY <1>16 DEF Answer
  <2>2. CASE Fails(t)
    BY <1>1, <2>1, <2>2, FailsImplements
  <2>3. CASE Succeeds(t)
    <3>1. reply[t] = Says(t, Current(t)) /\ Current(t) \in Commits
      BY <1>1, <2>1, CopyTypes, GitConstants DEF TaskInv, ReplyInv, Commits
    <3>2. reply[t] \in Replies
      BY <1>1, <1>2, <2>1, <3>1, CopyTypes, AnswerTypes DEF Says
    <3> QED
      BY <1>1, <1>2, <2>1, <2>3, <3>1, <3>2, ReturnImplements DEF Succeeds, Says
  <2> QED
    BY <1>16, <2>2, <2>3 DEF Answer
<1> QED
  BY <1>4, <1>5, <1>6, <1>7, <1>8, <1>9, <1>10, <1>11, <1>12, <1>13, <1>14, <1>15, <1>16
     DEF StepOf

(***************************************************************************)
(* With a copy per process, git_branch.rs keeps what `trait SnapshotStore` *)
(* promises its callers: a call takes effect at most once and atomically,  *)
(* a conditional one only at the commit of its etag.                       *)
(***************************************************************************)
THEOREM ImplementsAtomicStoreHolds ==
  ASSUME OwnCopies
  PROVE  Spec => ImplementsAtomicStore
<1>1. Init => Promise!Init
  BY DEF Init, Promise!Init, Store, TreeOf, Empty
<1>2. GitInv /\ [Next]_vars => [Promise!Next]_(Promise!vars)
  <2> SUFFICES ASSUME GitInv, [Next]_vars PROVE [Promise!Next]_(Promise!vars)
    OBVIOUS
  <2>1. ASSUME NEW t \in Tasks, StepOf(t) PROVE [Promise!Next]_(Promise!vars)
    BY <2>1, StepImplements DEF Promise!Next
  <2>2. CASE UNCHANGED vars
    BY <2>2 DEF vars, copyVars, returnVars, Promise!vars, Store, TreeOf, Empty
  <2> QED
    BY <2>1, <2>2, NextIsSteps
<1> QED
  BY <1>1, <1>2, InvHolds, PTL DEF Spec, ImplementsAtomicStore, Promise!Spec
===============================================================================
