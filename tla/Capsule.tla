------------------------------- MODULE Capsule -------------------------------
(***************************************************************************)
(* The processes that share one primary store:                             *)
(*                                                                         *)
(*   Runs     `repossess run`: lock, restore, canary and workloads, save,  *)
(*            release, health record (commands/run.rs)                     *)
(*   Seeds    `repossess seed`: a fresh checkpoint, without the lock       *)
(*            (commands/seed.rs)                                           *)
(*   Readers  `repossess verify`, and the restore of `export`              *)
(*                                                                         *)
(* A checkpoint is three keys.  A snapshot and its signature live under a  *)
(* name made from the SECOND they were stamped in; latest.json names them  *)
(* and holds the digest.  A ciphertext is identified by its writer: every  *)
(* encryption is different and every process saves at most once.           *)
(***************************************************************************)
EXTENDS Lock, Integers

CONSTANTS
  Seeds, Readers,
  Parties,      \* which processes there may be together; the others never start
  Mirrors,      \* the mirrors that could be opened
  SecondTicks,  \* ticks of the clock per second of a snapshot's name
  MaxForeign    \* bound: no write of another key once the branch has this many commits

ASSUME CapsuleConstants ==
  /\ SecondTicks \in Nat \ {0} /\ MaxForeign \in Nat
  /\ Runs \cap (Seeds \cup Readers) = {} /\ Seeds \cap Readers = {}
  /\ EarlierRun \notin Seeds \cup Readers
  /\ \A party \in Parties : party \subseteq Runs \cup Seeds \cup Readers

Savers  == Runs \cup Seeds
Loaders == Runs \cup Readers
Procs   == Runs \cup Seeds \cup Readers
Writers == Savers \cup {EarlierRun}

SecondOf(t) == t \div SecondTicks
Versions    == (-1) .. SecondOf(MaxNow + MaxSkew)
Pointers    == [writer : Writers, version : Versions, created_at : Int]
PointerTags == [content : Pointers \cup {None}, commit : Nat]
Files       == [Versions -> Writers \cup {None}]

(* The files of a checkpoint in a working copy, and the commit it is at. *)
Trees  == [latest : Pointers \cup {None}, object : Files, signature : Files, commit : Nat]
NoFile == [v \in Versions |-> None]
Orphan == [latest |-> None, object |-> NoFile, signature |-> NoFile, commit |-> 0]

ASSUME CapsuleNames == None \notin Pointers /\ None \notin PointerTags /\ None \notin Writers

VARIABLES
  latest,     \* latest.json on the primary
  object,     \* whose ciphertext is under snapshots/<version>.zst.age
  signature,  \* whose signature is under snapshots/<version>.zst.age.sig
  step,       \* where each process is
  workdir,    \* git_branch.rs: the working copy restore's gets may answer from
  base,       \* the pointer a process restored from, or found in place (seed)
  tag,        \* the etag it will pass with its own pointer
  mine,       \* the pointer it stamped
  outcome,    \* what the command returned, or is about to
  health,     \* the kind of health record in the store
  installed,  \* history: every pointer latest.json has held
  mLatest, mObject, mSignature,  \* the three keys on each mirror
  missed      \* history: the mirrors some fan-out write failed on

storeVars  == <<latest, object, signature, installed>>
mirrorVars == <<mLatest, mObject, mSignature, missed>>
procVars   == <<step, workdir, base, tag, mine, outcome, health>>
vars       == <<lockVars, storeVars, mirrorVars, procVars>>

Steps == {"lock", "pointer", "object", "signature", "drive", "stamp", "put_object",
          "put_signature", "head_latest", "put_latest", "mirror_object",
          "mirror_signature", "mirror_latest", "release", "health", "done"}
Outcomes == {"none", "saved", "canary_failed", "verified", "missing", "torn",
             "rollback", "conflict", "failed", "unanswered"}

TypeOK ==
  /\ LockTypeOK
  /\ latest \in Pointers \cup {None}
  /\ object \in Files
  /\ signature \in Files
  /\ step \in [Procs -> Steps]
  /\ workdir \in [Loaders -> Trees]
  /\ base \in [Procs -> Pointers \cup {None}]
  /\ tag \in [Procs -> PointerTags \cup {None}]
  /\ mine \in [Savers -> Pointers \cup {None}]
  /\ outcome \in [Procs -> Outcomes]
  /\ health \in [Runs -> {"none", "ok", "canary_failed", "error"}]
  /\ installed \subseteq Pointers
  /\ mLatest \in [Mirrors -> Pointers \cup {None}]
  /\ mObject \in [Mirrors -> Files]
  /\ mSignature \in [Mirrors -> Files]
  /\ missed \subseteq Mirrors

(* The checkpoint an earlier run may have left, complete everywhere. *)
EarlierPointer ==
  [writer |-> EarlierRun, version |-> -1, created_at |-> -SecondTicks]

Init ==
  /\ LockInit
  /\ \E first \in {None, EarlierPointer} :
       LET kept == [v \in Versions |-> IF first # None /\ v = -1 THEN EarlierRun ELSE None]
       IN  /\ first # None => commit = AfterWrite(backend, 0)
           /\ latest = first
           /\ object = kept /\ signature = kept
           /\ installed = {first} \ {None}
           /\ mLatest = [m \in Mirrors |-> first]
           /\ mObject = [m \in Mirrors |-> kept]
           /\ mSignature = [m \in Mirrors |-> kept]
  /\ \E party \in Parties :
       step = [p \in Procs |-> CASE p \notin party -> "done"
                                 [] p \in party \cap Runs -> "lock"
                                 [] p \in party \cap Seeds -> "stamp"
                                 [] p \in party \cap Readers -> "pointer"]
  /\ workdir = [p \in Loaders |-> Orphan]
  /\ base = [p \in Procs |-> None]
  /\ tag = [p \in Procs |-> None]
  /\ mine = [p \in Savers |-> None]
  /\ outcome = [p \in Procs |-> "none"]
  /\ health = [p \in Runs |-> "none"]
  /\ missed = {}

-----------------------------------------------------------------------------
Goto(p, s) == step' = [step EXCEPT ![p] = s]

(* Where a command goes with its result: a run still releases the lock. *)
Return(p, o) ==
  /\ outcome' = [outcome EXCEPT ![p] = o]
  /\ Goto(p, IF p \in Runs THEN "release" ELSE "done")

(* A write of some key of the primary; only a git branch counts them. *)
KeyWritten == commit' = AfterWrite(backend, commit)
lockButCommit == <<backend, now, lock, phase, asked, seen, guard, wrote>>

(***************************************************************************)
(* The working copy of a git_branch primary.  A get fetches first, but it  *)
(* ignores a failed fetch and answers from the copy as the last call left  *)
(* it, with the commit the copy is at for an etag.  Before the first call, *)
(* and when the clone failed, the copy is an orphan.  The model keeps a    *)
(* copy only where a get may still answer from it.                         *)
(***************************************************************************)
FetchMayFail == backend = "git_branch" /\ "fetch" \in Faults

Branch(head) ==
  [latest |-> latest, object |-> object, signature |-> signature, commit |-> head]

Answers(p) == {Branch(commit)} \cup (IF FetchMayFail THEN {workdir[p]} ELSE {})

Keep(p, tree) ==
  workdir' = [workdir EXCEPT ![p] = IF FetchMayFail THEN tree ELSE Orphan]

(***************************************************************************)
(* lock::acquire, whose put leaves the working copy at its own commit.  A  *)
(* run it turns away ends there, without a health record.                  *)
(***************************************************************************)
Acquire(p) ==
  /\ step[p] = "lock"
  /\ Acquiring(p)
  /\ \/ /\ phase'[p] = "held"
        /\ Goto(p, "pointer")
        /\ Keep(p, Branch(commit'))
        /\ UNCHANGED outcome
     \/ /\ phase'[p] \in Refused \cup {"failed"}
        /\ Goto(p, "done")
        /\ outcome' = [outcome EXCEPT ![p] = "failed"]
        /\ UNCHANGED workdir
     \/ /\ phase'[p] \in Trying
        /\ UNCHANGED <<step, workdir, outcome>>
  /\ UNCHANGED <<storeVars, mirrorVars, base, tag, mine, health>>

BugNoEtag(p) ==   \* the etag of latest.json is not kept
  /\ step[p] = "pointer"
  /\ \E tree \in Answers(p) :
       /\ tree.latest # None
       /\ base' = [base EXCEPT ![p] = tree.latest]
       /\ Keep(p, tree)
  /\ Goto(p, "object")
  /\ UNCHANGED <<lockVars, storeVars, mirrorVars, tag, mine, outcome, health>>

(***************************************************************************)
(* restore: three gets from the primary, in this order; the digest in the  *)
(* pointer and the signature are both checks on the ciphertext.            *)
(***************************************************************************)
GetPointer(p) ==
  /\ step[p] = "pointer"
  /\ \E tree \in Answers(p) :
       /\ Keep(p, tree)
       /\ \/ /\ tree.latest = None
             /\ Return(p, "missing")
             /\ UNCHANGED <<base, tag>>
          \/ /\ tree.latest # None
             /\ base' = [base EXCEPT ![p] = tree.latest]
             /\ tag' = [tag EXCEPT ![p] = Etag(backend, tree.latest, tree.commit)]
             /\ Goto(p, "object")
             /\ UNCHANGED outcome
  /\ UNCHANGED <<lockVars, storeVars, mirrorVars, mine, health>>

BugObjectOfLatest(p) ==   \* latest.json is read again for the name
  /\ step[p] = "object"
  /\ \E tree \in Answers(p) :
       /\ Keep(p, tree)
       /\ \/ /\ tree.object[tree.latest.version] = base[p].writer
             /\ Goto(p, "signature")
             /\ UNCHANGED outcome
          \/ /\ tree.object[tree.latest.version] # base[p].writer
             /\ Return(p, "torn")
  /\ UNCHANGED <<lockVars, storeVars, mirrorVars, base, tag, mine, health>>

GetObject(p) ==
  /\ step[p] = "object"
  /\ \E tree \in Answers(p) :
       /\ Keep(p, tree)
       /\ \/ /\ tree.object[base[p].version] = base[p].writer
             /\ Goto(p, "signature")
             /\ UNCHANGED outcome
          \/ /\ tree.object[base[p].version] # base[p].writer
             /\ Return(p, "torn")
  /\ UNCHANGED <<lockVars, storeVars, mirrorVars, base, tag, mine, health>>

(* The last get: the copy is not needed after it. *)
GetSignature(p) ==
  /\ step[p] = "signature"
  /\ \E tree \in Answers(p) :
       \/ /\ tree.signature[base[p].version] = base[p].writer
          /\ IF p \in Readers THEN Return(p, "verified")
                              ELSE Goto(p, "drive") /\ UNCHANGED outcome
       \/ /\ tree.signature[base[p].version] # base[p].writer
          /\ Return(p, "torn")
  /\ Keep(p, Orphan)
  /\ UNCHANGED <<lockVars, storeVars, mirrorVars, base, tag, mine, health>>

(* Browser, canary, workloads and export: only a failed canary returns here,
   every other failure is a StepFails. *)
Drive(p) ==
  /\ step[p] = "drive"
  /\ \/ /\ Goto(p, "stamp")
        /\ UNCHANGED outcome
     \/ Return(p, "canary_failed")
  /\ UNCHANGED <<lockVars, storeVars, mirrorVars, workdir, base, tag, mine, health>>

BugNotMonotonic(p) ==   \* save does not call ensure_monotonic
  /\ step[p] = "stamp"
  /\ mine' = [mine EXCEPT ![p] = [writer     |-> p,
                                 version    |-> SecondOf(now),
                                 created_at |-> now]]
  /\ Goto(p, "put_object")
  /\ UNCHANGED <<lockVars, storeVars, mirrorVars, workdir, base, tag, outcome, health>>

(***************************************************************************)
(* The new pointer.  ensure_monotonic is asked by save, not by seed.       *)
(***************************************************************************)
Stamp(p) ==
  /\ step[p] = "stamp"
  /\ \E ahead \in 0 .. MaxSkew :
       mine' = [mine EXCEPT ![p] = [writer     |-> p,
                                    version    |-> SecondOf(now + ahead),
                                    created_at |-> now + ahead]]
  /\ \/ /\ p \in Runs => mine'[p].created_at > base[p].created_at
        /\ Goto(p, "put_object")
        /\ UNCHANGED outcome
     \/ /\ p \in Runs /\ mine'[p].created_at <= base[p].created_at
        /\ Return(p, "rollback")
  /\ UNCHANGED <<lockVars, storeVars, mirrorVars, workdir, base, tag, health>>

BugNoSignature(p) ==   \* the detached signature is not uploaded
  /\ step[p] = "put_object"
  /\ object' = [object EXCEPT ![mine[p].version] = p]
  /\ KeyWritten
  /\ Goto(p, IF p \in Runs THEN "put_latest" ELSE "head_latest")
  /\ UNCHANGED <<lockButCommit, latest, signature, installed, mirrorVars, workdir, base, tag, mine,
                 outcome, health>>

(* Two unconditional puts: the name may be taken already. *)
PutObject(p) ==
  /\ step[p] = "put_object"
  /\ object' = [object EXCEPT ![mine[p].version] = p]
  /\ KeyWritten
  /\ Goto(p, "put_signature")
  /\ UNCHANGED <<lockButCommit, latest, signature, installed, mirrorVars, workdir, base, tag, mine,
                 outcome, health>>

BugFanoutFirst(p) ==   \* the mirrors are written before the primary's CAS
  /\ step[p] = "put_signature"
  /\ signature' = [signature EXCEPT ![mine[p].version] = p]
  /\ KeyWritten
  /\ Goto(p, "mirror_object")
  /\ UNCHANGED <<lockButCommit, latest, object, installed, mirrorVars, workdir, base, tag, mine,
                 outcome, health>>

PutSignature(p) ==
  /\ step[p] = "put_signature"
  /\ signature' = [signature EXCEPT ![mine[p].version] = p]
  /\ KeyWritten
  /\ Goto(p, IF p \in Runs THEN "put_latest" ELSE "head_latest")
  /\ UNCHANGED <<lockButCommit, latest, object, installed, mirrorVars, workdir, base, tag, mine,
                 outcome, health>>

(* seed looks at latest.json only now; a run kept the etag of its restore. *)
HeadLatest(p) ==
  /\ step[p] = "head_latest"
  /\ \/ /\ base' = [base EXCEPT ![p] = latest]
        /\ tag' = [tag EXCEPT ![p] = IF latest = None THEN None
                                     ELSE Etag(backend, latest, commit)]
     \/ /\ FetchMayFail
        /\ UNCHANGED <<base, tag>>
  /\ Goto(p, "put_latest")
  /\ UNCHANGED <<lockVars, storeVars, mirrorVars, workdir, mine, outcome, health>>

BugPlainPutLatest(p) ==   \* put instead of put_if_unmodified
  /\ step[p] = "put_latest"
  /\ latest' = mine[p]
  /\ installed' = installed \cup {mine[p]}
  /\ KeyWritten
  /\ Return(p, "saved")
  /\ UNCHANGED <<lockButCommit, object, signature, mirrorVars, workdir, base, tag, mine, health>>

PutLatest(p) ==
  /\ step[p] = "put_latest"
  /\ CondPutOk(backend, latest, commit, tag[p])
  /\ latest' = mine[p]
  /\ installed' = installed \cup {mine[p]}
  /\ KeyWritten
  /\ \/ /\ Mirrors # {}
        /\ Goto(p, "mirror_object")
        /\ UNCHANGED outcome
     \/ /\ Mirrors = {}
        /\ Return(p, "saved")
     \/ /\ "lost_ack" \in Faults
        /\ Return(p, "unanswered")
  /\ UNCHANGED <<lockButCommit, object, signature, mirrorVars, workdir, base, tag, mine, health>>

BugConflictIgnored(p) ==   \* the refusal of the closing CAS is dropped
  /\ step[p] = "put_latest"
  /\ ~CondPutOk(backend, latest, commit, tag[p])
  /\ Return(p, "saved")
  /\ UNCHANGED <<lockVars, storeVars, mirrorVars, workdir, base, tag, mine, health>>

PutLatestRefused(p) ==
  /\ step[p] = "put_latest"
  /\ ~CondPutOk(backend, latest, commit, tag[p])
  /\ Return(p, "conflict")
  /\ UNCHANGED <<lockVars, storeVars, mirrorVars, workdir, base, tag, mine, health>>

(***************************************************************************)
(* stores::fanout, once per key: one unconditional put per mirror, any of  *)
(* which may fail without a trace.                                         *)
(***************************************************************************)
Reached(ok) ==
  /\ ok # Mirrors => "error" \in Faults
  /\ missed' = missed \cup (Mirrors \ ok)

MirrorObject(p) ==
  /\ step[p] = "mirror_object"
  /\ \E ok \in SUBSET Mirrors :
       /\ Reached(ok)
       /\ mObject' = [m \in Mirrors |->
                        IF m \in ok THEN [mObject[m] EXCEPT ![mine[p].version] = p]
                                    ELSE mObject[m]]
  /\ Goto(p, "mirror_signature")
  /\ UNCHANGED <<lockVars, storeVars, mLatest, mSignature, workdir, base, tag, mine, outcome, health>>

BugNoMirrorPointer(p) ==   \* fan-out stops after the signature
  /\ step[p] = "mirror_signature"
  /\ mSignature' = [m \in Mirrors |-> [mSignature[m] EXCEPT ![mine[p].version] = p]]
  /\ Return(p, "saved")
  /\ UNCHANGED <<lockVars, storeVars, missed, mLatest, mObject, workdir, base, tag, mine, health>>

MirrorSignature(p) ==
  /\ step[p] = "mirror_signature"
  /\ \E ok \in SUBSET Mirrors :
       /\ Reached(ok)
       /\ mSignature' = [m \in Mirrors |->
                           IF m \in ok THEN [mSignature[m] EXCEPT ![mine[p].version] = p]
                                       ELSE mSignature[m]]
  /\ Goto(p, "mirror_latest")
  /\ UNCHANGED <<lockVars, storeVars, mLatest, mObject, workdir, base, tag, mine, outcome, health>>

MirrorLatest(p) ==
  /\ step[p] = "mirror_latest"
  /\ \E ok \in SUBSET Mirrors :
       /\ Reached(ok)
       /\ mLatest' = [m \in Mirrors |-> IF m \in ok THEN mine[p] ELSE mLatest[m]]
  /\ Return(p, "saved")
  /\ UNCHANGED <<lockVars, storeVars, mObject, mSignature, workdir, base, tag, mine, health>>

-----------------------------------------------------------------------------
(* A store call, the browser or a workload fails, and `?` returns the error. *)
StepFails(p) ==
  /\ "error" \in Faults
  /\ step[p] \in {"pointer", "object", "signature", "drive", "stamp", "put_object",
                  "put_signature", "head_latest", "put_latest"}
  /\ Return(p, "failed")
  /\ UNCHANGED <<lockVars, storeVars, mirrorVars, workdir, base, tag, mine, health>>

BugBlindRelease(p) ==   \* whatever lock.json is there is deleted
  /\ step[p] = "release"
  /\ phase' = [phase EXCEPT ![p] = "released"]
  /\ lock' = None
  /\ Goto(p, "health")
  /\ UNCHANGED <<backend, now, commit, asked, seen, guard, wrote>>
  /\ UNCHANGED <<storeVars, mirrorVars, workdir, base, tag, mine, outcome, health>>

(* However the run went, the lock is released. *)
ReleaseLock(p) ==
  /\ step[p] = "release"
  /\ Release(p)
  /\ Goto(p, "health")
  /\ UNCHANGED <<storeVars, mirrorVars, workdir, base, tag, mine, outcome, health>>

BugRawOutcome(o) == o   \* the outcome is recorded as it is

HealthKind(o) == CASE o = "saved"         -> "ok"
                   [] o = "canary_failed" -> "canary_failed"
                   [] OTHER               -> "error"

(* health::write is best effort, under a key of the run's own. *)
WriteHealth(p) ==
  /\ step[p] = "health"
  /\ \/ /\ health' = [health EXCEPT ![p] = HealthKind(outcome[p])]
        /\ KeyWritten
     \/ /\ "error" \in Faults
        /\ UNCHANGED <<health, commit>>
  /\ Goto(p, "done")
  /\ UNCHANGED <<lockButCommit, storeVars, mirrorVars, workdir, base, tag, mine, outcome>>

(* The runner is killed, anywhere between acquire and release, and its
   temporary directories go with it. *)
Kill(p) ==
  /\ Crash(p)
  /\ Goto(p, "done")
  /\ Keep(p, Orphan)
  /\ UNCHANGED <<storeVars, mirrorVars, base, tag, mine, outcome, health>>

(* Time, and writes of other keys (a workload's, an export's). *)
Environment ==
  /\ Tick \/ (OtherWrite /\ commit < MaxForeign)
  /\ UNCHANGED <<storeVars, mirrorVars, procVars>>

Restoring(p) == GetPointer(p) \/ GetObject(p) \/ GetSignature(p)

Saving(p) == \/ Stamp(p) \/ PutObject(p) \/ PutSignature(p) \/ HeadLatest(p)
             \/ PutLatest(p) \/ PutLatestRefused(p)
             \/ MirrorObject(p) \/ MirrorSignature(p) \/ MirrorLatest(p)

Next ==
  \/ Environment
  \/ \E p \in Runs : Acquire(p) \/ Drive(p) \/ ReleaseLock(p) \/ WriteHealth(p) \/ Kill(p)
  \/ \E p \in Loaders : Restoring(p)
  \/ \E p \in Savers : Saving(p)
  \/ \E p \in Procs : StepFails(p)

Spec == Init /\ [][Next]_vars

-----------------------------------------------------------------------------
(* Another process stamped a snapshot in the same second. *)
NameShared(ptr) ==
  \E w \in Savers : w # ptr.writer /\ mine[w] # None /\ mine[w].version = ptr.version

(* Some clock may see the run's lease as expired. *)
Overdue(p) == phase[p] # "idle" /\ LockBody(p).expires_at <= now + MaxSkew

(***************************************************************************)
(* README:31-32, snapshots are append-only: whatever pointer latest.json   *)
(* ever held stays restorable, in any interleaving of saves, seeds and     *)
(* crashes, as long as no two processes stamped in the same second.        *)
(***************************************************************************)
InstalledResolves ==
  \A ptr \in installed :
    ~NameShared(ptr) => object[ptr.version] = ptr.writer /\ signature[ptr.version] = ptr.writer

(***************************************************************************)
(* restore reads three keys without the lock (verify) or with a lease that *)
(* may have run out (run): it still never sees a pointer whose snapshot or *)
(* signature is missing or another's, unless a second was shared.          *)
(***************************************************************************)
RestoreNeverTorn ==
  \A p \in Loaders : outcome[p] = "torn" => NameShared(base[p])

(***************************************************************************)
(* On s3, the closing CAS of a run (run.rs:269-272) is refused only if the *)
(* pointer was replaced since the restore: by a seed, which takes no lock, *)
(* or by another run, one of the two having outlived its lease.            *)
(***************************************************************************)
ConflictHasCause ==
  backend = "s3" =>
    \A p \in Runs : outcome[p] = "conflict" =>
      \E ptr \in installed :
        /\ ptr # base[p] /\ ptr.writer # p
        /\ \/ ptr.writer \in Seeds
           \/ ptr.writer \in Runs /\ (Overdue(p) \/ Overdue(ptr.writer))

(***************************************************************************)
(* The audit trail (health.rs:60-102) tells what happened to latest.json:  *)
(* "ok" only for a pointer that was installed, and "error" or              *)
(* "canary_failed" only for one that was not, unless the store's answer to *)
(* the closing CAS got lost.  After a failed canary not even a snapshot    *)
(* was written.                                                            *)
(***************************************************************************)
HealthTruthful ==
  \A p \in Runs :
    /\ health[p] = "ok" => mine[p] \in installed
    /\ health[p] \in {"error", "canary_failed"} /\ outcome[p] # "unanswered"
         => mine[p] \notin installed
    /\ health[p] = "canary_failed" =>
         \A v \in Versions : object[v] # p /\ signature[v] # p

(***************************************************************************)
(* The register of CheckpointRegister: no update is lost, no run goes back *)
(* in time, nobody writes twice.                                           *)
(***************************************************************************)
Register == INSTANCE CheckpointRegister
              WITH Loaders <- Procs, Savers <- Runs, Seeders <- Seeds,
                   current <- latest, loaded <- base, held <- installed

ImplementsRegister == Register!Spec

(* The lock the runs share is the lock of module Lock. *)
ImplementsLock == LockSpec

(***************************************************************************)
(* When every process is through, a mirror that answered every write holds *)
(* the primary's pointer, if every pointer's writer lived to fan it out    *)
(* within its lease and no seed took part.                                 *)
(***************************************************************************)
MirrorsCatchUp ==
  (/\ \A p \in Procs : step[p] = "done"
   /\ \A ptr \in installed : ptr.writer = EarlierRun \/ outcome[ptr.writer] = "saved")
  => \A m \in Mirrors \ missed :
       \/ mLatest[m] = latest
       \/ \E p \in Runs : Overdue(p)
       \/ \E s \in Seeds : mine[s] # None

(***************************************************************************)
(* A mirror never leads the primary: its pointer was authoritative once    *)
(* (fan-out comes after the CAS), so restoring from it is never a fork.    *)
(***************************************************************************)
MirrorsFollow ==
  \A m \in Mirrors : mLatest[m] # None => mLatest[m] \in installed

-----------------------------------------------------------------------------
(***************************************************************************)
(* What the documentation says and the code does not keep: run.rs:272,     *)
(* git_branch.rs:18-20, README:408-409: on any primary, the closing CAS    *)
(* fails because someone else wrote latest.json.                           *)
(***************************************************************************)
CasRefusedOnlyByOthers ==
  \A p \in Runs : outcome[p] = "conflict" => \E ptr \in installed : ptr # base[p]
==============================================================================
