------------------------------ MODULE GitBranch ------------------------------
(***************************************************************************)
(* GitBranchStore (stores/git_branch.rs): the calls of `trait              *)
(* SnapshotStore` carried out with git on a working copy.  Every process   *)
(* has a copy of its own, made by its first call; the parallel uploads of  *)
(* an import share one.  The remote branch is one commit, moved by pushes. *)
(*                                                                         *)
(* What runs inside a copy takes its local steps one at a time and in any  *)
(* order with the others; a local command that fails for its own reasons   *)
(* (a full disk, a lock file of git) is not modelled.                      *)
(***************************************************************************)
EXTENDS SnapshotStore, Sequences, FiniteSets

CONSTANTS
  Tasks,      \* threads of control, one call at a time each
  Copies,     \* working copies
  CopyOf,     \* whose copy a task works in
  Keys, Bodies,
  Calls,      \* what the callers ask for: [op, key, body]
  Faults,     \* what may go wrong: "fetch", "push", "lost_ack"
  MaxCommits, \* bound: no commit is made once there are this many
  Failed      \* the answer of a call that returned an error

AllOps == {"put", "swap", "get", "head", "delete"}

ASSUME GitConstants ==
  /\ CopyOf \in [Tasks -> Copies]
  /\ Calls \subseteq [op : AllOps, key : Keys, body : Bodies \cup {None}]
  /\ Faults \subseteq {"fetch", "push", "lost_ack"}
  /\ MaxCommits \in Nat \ {0}
  /\ None \notin Bodies /\ None # Failed

Commits  == 1 .. MaxCommits
Etags    == {GitEtag(c) : c \in Commits}
Trees    == [Keys -> Bodies \cup {None}]
Requests == [op : AllOps, key : Keys, body : Bodies \cup {None}, expected : Etags \cup {None}]
History  == [tree : Trees, past : SUBSET Commits]
Replies  == [body : Bodies \cup {None}, etag : Etags \cup {None}]

ASSUME GitNames == None \notin Requests /\ None \notin Replies

VARIABLES
  commits,   \* every commit made anywhere: its tree and its ancestors
  remote,    \* the commit of the remote branch, 0 while there is none
  open,      \* the copies that exist
  HEAD,      \* the commit of each copy's branch, 0 while it is unborn
  index,     \* its index
  files,     \* its files, tracked or not
  pc, call, lease,
  fetched,   \* the fetch of this call succeeded
  seen,      \* the last key with an etag a task was told, and the body then
  reply,     \* history: what the call may be answered, once it took effect remotely
  result     \* history: what it was answered on the word of the remote

copyVars   == <<open, HEAD, index, files>>
returnVars == <<call, lease, fetched, seen, reply, result>>
vars       == <<commits, remote, copyVars, pc, returnVars>>

Empty     == [k \in Keys |-> None]
TreeOf(c) == IF c = 0 THEN Empty ELSE commits[c].tree
Store     == TreeOf(remote)

Promise == INSTANCE AtomicStore
             WITH store <- Store, version <- remote

Steps == {"idle", "fetch", "edit", "stage", "commit", "push", "answer"}

GitTypeOK ==
  /\ commits \in Seq(History) /\ Len(commits) <= MaxCommits
  /\ remote \in 0 .. Len(commits)
  /\ open \subseteq Copies
  /\ HEAD \in [Copies -> 0 .. Len(commits)]
  /\ index \in [Copies -> Trees] /\ files \in [Copies -> Trees]
  /\ pc \in [Tasks -> Steps]
  /\ call \in [Tasks -> Requests \cup {None}]
  /\ lease \in [Tasks -> 0 .. Len(commits)]
  /\ result \in [Tasks -> Replies \cup {None, Failed}]
  /\ fetched \in [Tasks -> BOOLEAN]
  /\ reply \in [Tasks -> Replies \cup {None}]
  /\ seen \in [Tasks -> [key : Keys, body : Bodies, etag : Etags] \cup {None}]

(* What may be under a key. *)
BodiesOf(k) == {None} \cup {c.body : c \in {d \in Calls : d.key = k}}

Init ==
  /\ \E first \in {tree \in Trees : \A k \in Keys : tree[k] \in BodiesOf(k)} :
       IF first = Empty THEN commits = <<>> /\ remote = 0
       ELSE commits = <<[tree |-> first, past |-> {}]>> /\ remote = 1
  /\ open = {}
  /\ HEAD = [c \in Copies |-> 0]
  /\ index = [c \in Copies |-> Empty]
  /\ files = [c \in Copies |-> Empty]
  /\ pc = [t \in Tasks |-> "idle"]
  /\ call = [t \in Tasks |-> None]
  /\ lease = [t \in Tasks |-> 0]
  /\ result = [t \in Tasks |-> None]
  /\ fetched = [t \in Tasks |-> FALSE]
  /\ reply = [t \in Tasks |-> None]
  /\ seen = [t \in Tasks |-> None]

-----------------------------------------------------------------------------
Goto(t, s)   == pc' = [pc EXCEPT ![t] = s]
Doing(t, op) == pc[t] = "edit" /\ call[t].op = op
Key(t)       == call[t].key
Current(t)   == HEAD[CopyOf[t]]
File(t)      == files[CopyOf[t]][Key(t)]

(* The call returns, and its locals with it; an answer with an etag is what the
   caller goes on with.  An Ok from the copy alone is no word of the remote. *)
Return(t, answer) ==
  /\ result' = [result EXCEPT ![t] =
       IF fetched[t] \/ reply[t] # None THEN answer ELSE Failed]
  /\ call' = [call EXCEPT ![t] = None]
  /\ lease' = [lease EXCEPT ![t] = 0]
  /\ fetched' = [fetched EXCEPT ![t] = FALSE]
  /\ reply' = [reply EXCEPT ![t] = None]
  /\ Goto(t, "idle")
  /\ seen' = IF answer # Failed /\ answer.etag # None
               THEN [seen EXCEPT ![t] = [key |-> Key(t), body |-> File(t), etag |-> answer.etag]]
               ELSE seen

Fails(t) == Return(t, Failed)

Succeeds(t) == Return(t, Promise!Answers(call[t], File(t), Current(t)))

(* A caller passes no etag or the last one it was told, of the same key. *)
Told(t, c) ==
  {None} \cup IF c.op \in {"swap", "delete"} /\ seen[t] # None /\ seen[t].key = c.key
                THEN {seen[t].etag} ELSE {}

Begin(t) ==
  /\ pc[t] = "idle"
  /\ \E c \in Calls : \E expected \in Told(t, c) :
       /\ c.op = "delete" => expected # None
       /\ call' = [call EXCEPT ![t] =
                     [op |-> c.op, key |-> c.key, body |-> c.body, expected |-> expected]]
  /\ Goto(t, "fetch")
  /\ result' = [result EXCEPT ![t] = None]
  /\ UNCHANGED <<commits, remote, copyVars, lease, fetched, seen, reply>>

(***************************************************************************)
(* workdir: the first call of a copy clones, and whatever the reason a     *)
(* clone fails for, goes on with an orphan branch.                         *)
(***************************************************************************)
InitWorkdir(t) ==
  LET c == CopyOf[t] IN
  /\ pc[t] = "fetch" /\ c \notin open
  /\ open' = open \cup {c}
  /\ \/ /\ remote # 0
        /\ HEAD' = [HEAD EXCEPT ![c] = remote]
        /\ index' = [index EXCEPT ![c] = Store]
        /\ files' = [files EXCEPT ![c] = Store]
     \/ /\ remote = 0 \/ "fetch" \in Faults
        /\ UNCHANGED <<HEAD, index, files>>
  /\ UNCHANGED <<commits, remote, pc, call, lease, result, fetched, reply, seen>>

(* The effect of a call that finds the remote as it would leave it. *)
AlreadySo(t) ==
  LET req == call[t] IN
  /\ Promise!Accepted(req, Store[req.key], remote)
  /\ Promise!BodyAfter(req, Store[req.key]) = Store[req.key]

(***************************************************************************)
(* fetch_and_reset: the copy becomes the remote's commit, except for the   *)
(* files git does not track.                                               *)
(***************************************************************************)
FetchAndReset(t) ==
  LET c == CopyOf[t] IN
  /\ pc[t] = "fetch" /\ c \in open /\ remote # 0
  /\ HEAD' = [HEAD EXCEPT ![c] = remote]
  /\ index' = [index EXCEPT ![c] = Store]
  /\ files' = [files EXCEPT ![c] =
       [k \in Keys |-> IF Store[k] # None \/ index[c][k] # None THEN Store[k] ELSE files[c][k]]]
  /\ fetched' = [fetched EXCEPT ![t] = TRUE]
  /\ reply' = IF AlreadySo(t)
                THEN [reply EXCEPT ![t] = Promise!Answers(call[t], Store[Key(t)], remote)]
                ELSE reply
  /\ Goto(t, "edit")
  /\ UNCHANGED <<commits, remote, open, call, lease, result, seen>>

(* A failed fetch is not an error: put, swap, get and delete go on with the
   copy as it is, and head answers "absent". *)
FetchFails(t) ==
  /\ pc[t] = "fetch" /\ CopyOf[t] \in open
  /\ remote = 0 \/ "fetch" \in Faults
  /\ IF call[t].op = "head"
       THEN Return(t, [body |-> None, etag |-> None])
       ELSE Goto(t, "edit") /\ UNCHANGED returnVars
  /\ UNCHANGED <<commits, remote, copyVars>>

-----------------------------------------------------------------------------
(* The file is changed, and the commit to test the remote for noted. *)
Prepared(t) ==
  /\ lease' = [lease EXCEPT ![t] = Current(t)]
  /\ Goto(t, "stage")
  /\ UNCHANGED <<call, fetched, seen, reply, result>>

WriteFile(t) ==
  /\ files' = [files EXCEPT ![CopyOf[t]][Key(t)] = call[t].body]
  /\ Prepared(t)

(* get: bytes and HEAD of the copy, whatever the fetch said. *)
Get(t) ==
  /\ Doing(t, "get")
  /\ IF File(t) = None \/ Current(t) = 0 THEN Fails(t) ELSE Succeeds(t)
  /\ UNCHANGED <<commits, remote, copyVars>>

HeadKey(t) ==
  /\ Doing(t, "head")
  /\ Succeeds(t)
  /\ UNCHANGED <<commits, remote, copyVars>>

Put(t) ==
  /\ Doing(t, "put")
  /\ WriteFile(t)
  /\ UNCHANGED <<commits, remote, open, HEAD, index>>

BugNoMatch(t) == FALSE   \* the etag is not compared

(* The three-way match of put_if_unmodified, on the copy. *)
Refused(t) ==
  IF call[t].expected = None THEN File(t) # None
  ELSE Current(t) = 0 \/ call[t].expected # GitEtag(Current(t))

PutIfUnmodified(t) ==
  /\ Doing(t, "swap")
  /\ \/ /\ ~Refused(t)
        /\ WriteFile(t)
     \/ /\ Refused(t)
        /\ Fails(t)
        /\ UNCHANGED files
  /\ UNCHANGED <<commits, remote, open, HEAD, index>>

(* delete_if_match: `git rm` wants the file as it was committed. *)
DeleteIfMatch(t) ==
  LET c        == CopyOf[t]
      matches  == Current(t) # 0 /\ call[t].expected = GitEtag(Current(t))
      pristine == File(t) = index[c][Key(t)] /\ File(t) = TreeOf(Current(t))[Key(t)]
  IN
  /\ Doing(t, "delete")
  /\ \/ /\ matches /\ File(t) # None /\ pristine
        /\ index' = [index EXCEPT ![c][Key(t)] = None]
        /\ files' = [files EXCEPT ![c][Key(t)] = None]
        /\ Prepared(t)
     \/ /\ matches /\ File(t) = None
        /\ Succeeds(t)
        /\ UNCHANGED <<index, files>>
     \/ /\ ~matches \/ (File(t) # None /\ ~pristine)
        /\ Fails(t)
        /\ UNCHANGED <<index, files>>
  /\ UNCHANGED <<commits, remote, open, HEAD>>

-----------------------------------------------------------------------------
(***************************************************************************)
(* commit_and_push.  `add -A` stages all there is in the copy, whoever     *)
(* wrote it; when that is what HEAD has, the call returns Ok at once.      *)
(***************************************************************************)
Stage(t) ==
  LET c == CopyOf[t] IN
  /\ pc[t] = "stage"
  /\ index' = [index EXCEPT ![c] = files[c]]
  /\ \/ /\ files[c] # TreeOf(HEAD[c])
        /\ Goto(t, "commit")
        /\ UNCHANGED returnVars
     \/ /\ files[c] = TreeOf(HEAD[c])
        /\ IF HEAD[c] = 0 THEN Fails(t) ELSE Succeeds(t)
  /\ UNCHANGED <<commits, remote, open, HEAD, files>>

Commit(t) ==
  LET c == CopyOf[t] IN
  /\ pc[t] = "commit"
  /\ \/ /\ index[c] # TreeOf(HEAD[c]) /\ Len(commits) < MaxCommits
        /\ commits' = Append(commits,
             [tree |-> index[c],
              past |-> IF HEAD[c] = 0 THEN {} ELSE commits[HEAD[c]].past \cup {HEAD[c]}])
        /\ HEAD' = [HEAD EXCEPT ![c] = Len(commits) + 1]
        /\ Goto(t, "push")
        /\ UNCHANGED returnVars
     \/ /\ index[c] = TreeOf(HEAD[c])   \* another task has committed it
        /\ Fails(t)
        /\ UNCHANGED <<commits, HEAD>>
  /\ UNCHANGED <<remote, open, index, files>>

BugForcedPush(t) == TRUE   \* --force instead of --force-with-lease

(* The push moves the branch to the copy's commit, tested at the remote. *)
PushAccepted(t) ==
  LET tip == Current(t) IN
  \/ remote = tip
  \/ lease[t] # 0 /\ remote = lease[t]
  \/ lease[t] = 0 /\ (remote = 0 \/ remote \in commits[tip].past)

(* The writes of a copy that a push of its commit carries out. *)
CarriedOut(t) ==
  {u \in Tasks :
     /\ CopyOf[u] = CopyOf[t] /\ pc[u] \in {"stage", "commit", "push"} /\ reply[u] = None
     /\ Promise!Accepted(call[u], Store[Key(u)], remote)
     /\ TreeOf(Current(t))[Key(u)] = Promise!BodyAfter(call[u], Store[Key(u)])}

Push(t) ==
  /\ pc[t] = "push"
  /\ PushAccepted(t)
  /\ remote' = Current(t)
  /\ reply' = [u \in Tasks |-> IF u \in CarriedOut(t)
                 THEN Promise!Answers(call[u], TreeOf(Current(t))[Key(u)], Current(t))
                 ELSE reply[u]]
  /\ Goto(t, "answer")
  /\ UNCHANGED <<commits, copyVars, call, lease, result, fetched, seen>>

BugPushUnchecked(t) ==   \* the exit status of git push is not looked at
  /\ pc[t] = "push"
  /\ ~PushAccepted(t) \/ "push" \in Faults
  /\ Succeeds(t)
  /\ UNCHANGED <<commits, remote, copyVars>>

PushFails(t) ==
  /\ pc[t] = "push"
  /\ ~PushAccepted(t) \/ "push" \in Faults
  /\ Fails(t)
  /\ UNCHANGED <<commits, remote, copyVars>>

Answer(t) ==
  /\ pc[t] = "answer"
  /\ Succeeds(t) \/ ("lost_ack" \in Faults /\ Fails(t))
  /\ UNCHANGED <<commits, remote, copyVars>>

CommitAndPush(t) == Stage(t) \/ Commit(t) \/ Push(t) \/ PushFails(t) \/ Answer(t)

Next ==
  \E t \in Tasks : \/ Begin(t) \/ InitWorkdir(t) \/ FetchAndReset(t) \/ FetchFails(t)
                   \/ Get(t) \/ HeadKey(t) \/ Put(t) \/ PutIfUnmodified(t) \/ DeleteIfMatch(t)
                   \/ CommitAndPush(t)

Spec == Init /\ [][Next]_vars

-----------------------------------------------------------------------------
(***************************************************************************)
(* With one call at a time per copy, the store is the atomic one of        *)
(* AtomicStore: in any interleaving of two processes, with failing         *)
(* fetches and pushes and lost answers, each call takes effect at most     *)
(* once, a conditional one only at the commit of its etag, and an Ok is    *)
(* true of that instant.  One answer is excepted and counted as an error:  *)
(* an Ok given from the copy alone, after a fetch that failed              *)
(* (git_branch.rs:136, 171, 311).                                          *)
(***************************************************************************)
ImplementsAtomicStore == Promise!Spec

(***************************************************************************)
(* Those answers do no harm to whoever swaps on them: a                    *)
(* put_if_unmodified with an etag that get, head or an earlier put         *)
(* answered, from the remote or from a stale copy, is pushed only while    *)
(* the remote still has the body of that answer (lock.rs:52-59,            *)
(* run.rs:269-272 and save_index all rely on it).                          *)
(***************************************************************************)
SwapReplacesWhatWasRead ==
  [][\A t \in Tasks :
       /\ pc[t] = "push" /\ pc'[t] = "answer"
       /\ call[t].op = "swap" /\ call[t].expected # None
       => Store[Key(t)] = seen[t].body]_vars

(***************************************************************************)
(* A commit that was pushed stays in the history of the branch: no push    *)
(* throws another process's write away (git_branch.rs:12-14).              *)
(***************************************************************************)
HistoryKept ==
  [][remote # 0 /\ remote' # remote => remote \in commits'[remote'].past]_vars

(***************************************************************************)
(* import_chatgpt.rs:154-157: what an upload was answered Ok for did make  *)
(* it to the store, and only failures need a retry.                        *)
(***************************************************************************)
UploadsArrive ==
  [][\A t \in Tasks :
       call[t] # None /\ call'[t] = None /\ result'[t] # Failed => reply[t] # None]_vars
==============================================================================
