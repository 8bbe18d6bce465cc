---------------------------- MODULE Capsule_proofs ----------------------------
(***************************************************************************)
(* What the capsule inherits from the lock: every step of its processes is *)
(* a step of module Lock or leaves the lock's variables alone, so the      *)
(* theorems about Lock hold of it.  (No bound is put on foreign commits:   *)
(* every write of another key is one, on a git branch.)                    *)
(***************************************************************************)
EXTENDS Capsule, Lock_proofs

(* A write of a snapshot, pointer or health record is a foreign commit. *)
LEMMA KeyWrittenIsOtherWrite ==
  ASSUME LockTypeOK, Commits = Nat, KeyWritten, UNCHANGED lockButCommit
  PROVE  OtherWrite \/ UNCHANGED lockVars
<1>1. backend \in Backends /\ commit \in Nat
  BY LockConstants DEF LockTypeOK
<1>2. CASE backend = "s3"
  BY <1>1, <1>2, EtagType, LockNames DEF KeyWritten, lockButCommit, lockVars, AfterWrite
<1>3. CASE backend = "git_branch"
  BY <1>1, <1>3 DEF KeyWritten, lockButCommit, OtherWrite, AfterWrite
<1> QED
  BY <1>1, <1>2, <1>3 DEF Backends

(* A step of the capsule is the lock's, or writes some other key, or neither. *)
LEMMA LockStepOrWrite ==
  [Next]_vars => \/ [LockNext]_lockVars
                 \/ KeyWritten /\ UNCHANGED lockButCommit
<1> SUFFICES ASSUME [Next]_vars
             PROVE  LockNext \/ UNCHANGED lockVars \/ (KeyWritten /\ UNCHANGED lockButCommit)
  OBVIOUS
<1>1. CASE Environment
  BY <1>1 DEF Environment, LockNext
<1>2. ASSUME NEW p \in Runs, Acquire(p) \/ ReleaseLock(p) \/ Kill(p) PROVE LockNext
  BY <1>2 DEF Acquire, ReleaseLock, Kill, LockNext
<1>3. ASSUME NEW p \in Procs,
             \/ GetPointer(p) \/ GetObject(p) \/ GetSignature(p) \/ Drive(p) \/ Stamp(p)
             \/ HeadLatest(p) \/ PutLatestRefused(p)
             \/ MirrorObject(p) \/ MirrorSignature(p) \/ MirrorLatest(p) \/ StepFails(p)
      PROVE  UNCHANGED lockVars
  BY <1>3 DEF GetPointer, GetObject, GetSignature, Drive, Stamp, HeadLatest, PutLatestRefused,
              MirrorObject, MirrorSignature, MirrorLatest, StepFails
<1>4. ASSUME NEW p \in Procs, PutObject(p) \/ PutSignature(p) \/ PutLatest(p)
      PROVE  KeyWritten /\ UNCHANGED lockButCommit
  BY <1>4 DEF PutObject, PutSignature, PutLatest
<1>5. ASSUME NEW p \in Runs, WriteHealth(p)
      PROVE  \/ KeyWritten /\ UNCHANGED lockButCommit
             \/ UNCHANGED lockVars
  BY <1>5 DEF WriteHealth, lockButCommit, lockVars
<1>6. CASE UNCHANGED vars
  BY <1>6 DEF vars
<1>7. \/ Environment
      \/ \E p \in Runs : \/ Acquire(p) \/ ReleaseLock(p) \/ Kill(p) \/ Drive(p) \/ WriteHealth(p)
      \/ \E p \in Procs : Restoring(p) \/ Saving(p) \/ StepFails(p)
      \/ UNCHANGED vars
  BY DEF Next, Procs, Savers, Loaders
<1>8. ASSUME NEW p \in Procs, Restoring(p) \/ Saving(p) \/ StepFails(p)
      PROVE  UNCHANGED lockVars \/ (KeyWritten /\ UNCHANGED lockButCommit)
  BY <1>3, <1>4, <1>8 DEF Restoring, Saving
<1>9. ASSUME NEW p \in Runs, Drive(p) \/ WriteHealth(p)
       PROVE  UNCHANGED lockVars \/ (KeyWritten /\ UNCHANGED lockButCommit)
  BY <1>3, <1>5, <1>9 DEF Procs
<1> QED
  BY <1>1, <1>2, <1>6, <1>7, <1>8, <1>9

LEMMA StepIsLockStep ==
  ASSUME Commits = Nat
  PROVE  LockTypeOK /\ [Next]_vars => [LockNext]_lockVars
BY LockStepOrWrite, KeyWrittenIsOtherWrite DEF LockNext

(***************************************************************************)
(* The runs, seeds and readers of the capsule use the lock as Lock says,   *)
(* however their restores, saves and fan-outs interleave.                  *)
(***************************************************************************)
THEOREM CapsuleImplementsLock ==
  ASSUME Commits = Nat
  PROVE  Spec => ImplementsLock
<1>1. Init => LockInit
  BY DEF Init
<1>2. LockTypeOK /\ [Next]_vars => [LockNext]_lockVars /\ LockTypeOK'
  BY StepIsLockStep, TypeStep
<1> QED
  BY <1>1, <1>2, TypeInit, PTL DEF Spec, LockSpec, ImplementsLock

(***************************************************************************)
(* Hence two runs never save under two leases that are both good.          *)
(***************************************************************************)
THEOREM CapsuleMutualExclusion ==
  ASSUME Commits = Nat, ~BlindDelete
  PROVE  Spec => []MutualExclusion
BY CapsuleImplementsLock, MutualExclusionHolds, PTL DEF ImplementsLock

-----------------------------------------------------------------------------
(***************************************************************************)
(* Proofs about the checkpoint of the capsule, for any processes, mirrors, *)
(* clocks and failures, and both backends.                                 *)
(*                                                                         *)
(* The argument.  A process stamps one pointer (StampInv), uploads what it *)
(* names (UploadInv) and only then installs it (InstalledInv); a name is   *)
(* written twice only if two processes stamped it in the same second, so   *)
(* every pointer anybody can restore from or copy to a mirror keeps        *)
(* resolving.  OutcomeInv ties what a command returns, and what its health *)
(* record says of it, to whether its pointer was installed.                *)
(***************************************************************************)

BeforeStamp == {"lock", "pointer", "object", "signature", "drive", "stamp"}
Mirroring   == {"mirror_object", "mirror_signature", "mirror_latest"}
Signed      == {"head_latest", "put_latest"} \cup Mirroring
Uploaded    == {"put_signature"} \cup Signed
Ending      == {"release", "health", "done"}

(* The clock stays within its bound. *)
NowInv == now <= MaxNow

(* A pointer is stamped once, by its writer, with a name no earlier run used. *)
StampInv ==
  \A p \in Savers :
    /\ step[p] \in BeforeStamp => mine[p] = None
    /\ step[p] \in {"put_object"} \cup Uploaded => mine[p] # None
    /\ mine[p] # None => mine[p].writer = p /\ mine[p].version >= 0

(* What a process uploaded is there, unless another stamped the same name. *)
UploadInv ==
  \A p \in Savers :
    mine[p] # None /\ ~NameShared(mine[p]) =>
      /\ step[p] \in Uploaded => object[mine[p].version] = p
      /\ step[p] \in Signed => signature[mine[p].version] = p

(* Whatever was installed is the earlier run's, or its writer is past the CAS;
   and only what was installed is ever read. *)
InstalledInv ==
  /\ \A ptr \in installed :
       \/ ptr = EarlierPointer
       \/ /\ ptr.writer \in Savers
          /\ ptr = mine[ptr.writer]
          /\ step[ptr.writer] \in Mirroring \cup Ending
  /\ latest # None => latest \in installed
  /\ \A p \in Procs : base[p] # None => base[p] \in installed
  /\ \A p \in Loaders : workdir[p].latest # None => workdir[p].latest \in installed
  /\ \A p \in Loaders : step[p] \in {"object", "signature"} => base[p] # None

(* What a get may answer from is the branch as it was after its pointer was
   installed: the pointer, and the one that is being restored, resolve there. *)
Resolves(tree, ptr) ==
  tree.object[ptr.version] = ptr.writer /\ tree.signature[ptr.version] = ptr.writer

WorkdirInv ==
  \A p \in Loaders :
    /\ workdir[p].latest # None =>
         NameShared(workdir[p].latest) \/ Resolves(workdir[p], workdir[p].latest)
    /\ FetchMayFail /\ step[p] \in {"object", "signature"} =>
         NameShared(base[p]) \/ Resolves(workdir[p], base[p])

(* The result of a command and the fate of its pointer. *)
OutcomeInv ==
  /\ \A p \in Procs : step[p] \notin Ending => outcome[p] = "none"
  /\ \A p \in Procs : step[p] \in {"release", "health"} => outcome[p] # "none"
  /\ \A p \in Savers : outcome[p] = "saved" \/ step[p] \in Mirroring => mine[p] \in installed
  /\ \A p \in Runs : mine[p] # None /\ mine[p] \in installed =>
       \/ step[p] \in Mirroring \/ outcome[p] \in {"saved", "unanswered"}
       \/ step[p] = "done" /\ outcome[p] = "none"
  /\ \A p \in Runs : health[p] # "none" =>
       step[p] = "done" /\ outcome[p] # "none" /\ health[p] = HealthKind(outcome[p])

(* A process that left something in the store got past its canary. *)
WrittenInv ==
  \A p \in Savers, v \in Versions :
    object[v] = p \/ signature[v] = p =>
      step[p] \in Uploaded \cup Ending /\ outcome[p] # "canary_failed"

CheckpointInv ==
  /\ TypeOK /\ NowInv /\ StampInv /\ UploadInv /\ InstalledInv /\ OutcomeInv /\ WrittenInv
  /\ InstalledResolves /\ WorkdirInv /\ RestoreNeverTorn /\ MirrorsFollow
-----------------------------------------------------------------------------
(* Division is monotone, which the bound of a pointer's name needs. *)
LEMMA DivUp ==
  ASSUME NEW d \in Nat \ {0}, NEW a \in Nat, NEW b \in Nat, a <= b
  PROVE  a \div d \in Nat /\ a \div d <= b \div d
<1> DEFINE qa == a \div d  qb == b \div d
<1>1. /\ qa \in Int /\ qb \in Int
      /\ d * qa <= a /\ a < d * qa + d
      /\ d * qb <= b /\ b < d * qb + d
  <2>1. a = d * (a \div d) + (a % d) /\ b = d * (b \div d) + (b % d)
    OBVIOUS
  <2>2. a % d \in 0 .. d-1 /\ b % d \in 0 .. d-1
    OBVIOUS
  <2> QED BY <2>1, <2>2
<1> HIDE DEF qa, qb
<1>2. ASSUME qb < qa PROVE FALSE
  <2>1. d * (qb + 1) <= d * qa
    BY <1>1, <1>2
  <2>2. d * qb + d <= d * qa
    BY <2>1, <1>1
  <2> QED BY <1>1, <2>2
<1>3. ASSUME qa < 0 PROVE FALSE
  <2>1. d * (qa + 1) <= 0
    BY <1>1, <1>3
  <2> QED BY <1>1, <2>1
<1> QED BY <1>1, <1>2, <1>3 DEF qa, qb

(* What a stamp makes is a pointer. *)
LEMMA StampType ==
  ASSUME LockTypeOK, NowInv, NEW p \in Savers, NEW ahead \in 0 .. MaxSkew
  PROVE  /\ SecondOf(now + ahead) \in Versions
         /\ SecondOf(now + ahead) >= 0
         /\ [writer |-> p, version |-> SecondOf(now + ahead), created_at |-> now + ahead]
               \in Pointers
<1>1. /\ now + ahead \in Nat /\ MaxNow + MaxSkew \in Nat
      /\ now + ahead <= MaxNow + MaxSkew
  BY LockConstants DEF LockTypeOK, NowInv
<1>2. /\ SecondOf(now + ahead) \in Nat
      /\ SecondOf(now + ahead) <= SecondOf(MaxNow + MaxSkew)
  BY <1>1, DivUp, CapsuleConstants DEF SecondOf
<1>3. SecondOf(MaxNow + MaxSkew) \in Int
  BY <1>1, DivUp, CapsuleConstants DEF SecondOf
<1>4. SecondOf(now + ahead) \in Versions
  BY <1>2, <1>3 DEF Versions
<1> QED
  BY <1>1, <1>2, <1>4 DEF Pointers, Writers

LEMMA EarlierPointerType == EarlierPointer \in Pointers /\ -1 \in Versions
<1>1. SecondOf(MaxNow + MaxSkew) \in Nat
  BY DivUp, CapsuleConstants, LockConstants DEF SecondOf
<1> QED
  BY <1>1, CapsuleConstants DEF EarlierPointer, Pointers, Writers, Versions

LEMMA OrphanType == Orphan \in Trees
BY DEF Orphan, NoFile, Trees, Files

(* What a get answers from is a tree, and so is what it keeps. *)
LEMMA TreeType ==
  ASSUME TypeOK, NEW p \in Loaders
  PROVE  /\ \A head \in Nat : Branch(head) \in Trees
         /\ Answers(p) \subseteq Trees
         /\ \A tree \in Trees : Keep(p, tree) => workdir' \in [Loaders -> Trees]
<1>1. \A head \in Nat : Branch(head) \in Trees
  BY DEF TypeOK, Branch, Trees
<1>2. commit \in Nat
  BY DEF TypeOK, LockTypeOK
<1> QED
  BY <1>1, <1>2, OrphanType DEF TypeOK, Answers, Keep

LEMMA CheckpointTypeInit == Init => TypeOK /\ NowInv
<1> SUFFICES ASSUME Init PROVE TypeOK /\ NowInv
  OBVIOUS
<1>1. LockTypeOK /\ NowInv
  BY TypeInit, LockConstants DEF Init, LockInit, NowInv
<1>2. PICK first \in {None, EarlierPointer} :
        LET kept == [v \in Versions |-> IF first # None /\ v = -1 THEN EarlierRun ELSE None]
        IN  /\ latest = first
            /\ object = kept /\ signature = kept
            /\ installed = {first} \ {None}
            /\ mLatest = [m \in Mirrors |-> first]
            /\ mObject = [m \in Mirrors |-> kept]
            /\ mSignature = [m \in Mirrors |-> kept]
  BY DEF Init
<1>3. /\ latest \in Pointers \cup {None} /\ installed \subseteq Pointers
      /\ object \in Files
      /\ signature \in Files
      /\ mLatest \in [Mirrors -> Pointers \cup {None}]
      /\ mObject \in [Mirrors -> Files]
      /\ mSignature \in [Mirrors -> Files]
  BY <1>2, EarlierPointerType DEF Writers, Files
<1>4. step \in [Procs -> Steps]
  <2>1. PICK party \in Parties :
          step = [p \in Procs |-> CASE p \notin party -> "done"
                                    [] p \in party \cap Runs -> "lock"
                                    [] p \in party \cap Seeds -> "stamp"
                                    [] p \in party \cap Readers -> "pointer"]
    BY DEF Init
  <2>2. \A p \in Procs : step[p] \in Steps
    BY <2>1 DEF Steps, Procs
  <2> QED
    BY <2>1, <2>2
<1>5. /\ workdir \in [Loaders -> Trees]
      /\ base \in [Procs -> Pointers \cup {None}]
      /\ tag \in [Procs -> PointerTags \cup {None}]
      /\ mine \in [Savers -> Pointers \cup {None}]
      /\ outcome \in [Procs -> Outcomes]
      /\ health \in [Runs -> {"none", "ok", "canary_failed", "error"}]
      /\ missed \subseteq Mirrors
  BY OrphanType DEF Init, Outcomes
<1> QED
  BY <1>1, <1>3, <1>4, <1>5 DEF TypeOK

(* Nothing but the lock and the clock moves. *)
LEMMA LockTypeStep ==
  LockTypeOK /\ NowInv /\ [Next]_vars => LockTypeOK' /\ NowInv'
<1> SUFFICES ASSUME LockTypeOK, NowInv, [Next]_vars PROVE LockTypeOK' /\ NowInv'
  OBVIOUS
<1>1. CASE [LockNext]_lockVars
  <2>1. LockTypeOK'
    BY <1>1, TypeStep
  <2>2. now' = now \/ (now < MaxNow /\ now' = now + 1)
    BY <1>1 DEF LockNext, lockVars, Tick, OtherWrite, Acquiring, Begin, Head, HeadUnfetched, Get, GetUnfetched,
                Put, PutRefused, AcquireError, Release, Crash
  <2> QED
    BY <2>1, <2>2, LockConstants DEF LockTypeOK, NowInv
<1>2. CASE KeyWritten /\ UNCHANGED lockButCommit
  BY <1>2, LockConstants DEF KeyWritten, lockButCommit, LockTypeOK, NowInv, AfterWrite
<1> QED
  BY <1>1, <1>2, LockStepOrWrite

LEMMA CheckpointTypeStep ==
  TypeOK /\ NowInv /\ StampInv /\ [Next]_vars => TypeOK'
<1> SUFFICES ASSUME TypeOK, NowInv, StampInv, [Next]_vars PROVE TypeOK'
  OBVIOUS
<1>1. LockTypeOK /\ LockTypeOK' /\ backend \in Backends /\ commit \in Nat
  BY LockTypeStep, LockConstants DEF TypeOK, LockTypeOK
<1> USE <1>1 DEF TypeOK
<1>2. CASE UNCHANGED vars \/ Environment
  BY <1>2 DEF vars, Environment, storeVars, mirrorVars, procVars
<1>3. ASSUME NEW p \in Runs, Acquire(p) \/ ReleaseLock(p) \/ Kill(p) \/ Drive(p) PROVE TypeOK'
  <2>1. UNCHANGED <<storeVars, mirrorVars, base, tag, mine, health>>
    BY <1>3 DEF Acquire, ReleaseLock, Kill, Drive
  <2>3. p \in Loaders /\ commit' \in Nat
    BY DEF Loaders, LockTypeOK
  <2>4. workdir' \in [Loaders -> Trees]
    BY <1>3, <2>1, <2>3, TreeType, OrphanType DEF Acquire, ReleaseLock, Kill, Drive
  <2>2. step' \in [Procs -> Steps] /\ outcome' \in [Procs -> Outcomes]
    BY <1>3 DEF Acquire, ReleaseLock, Kill, Drive, Goto, Return, Steps, Outcomes
  <2> QED
    BY <2>1, <2>2, <2>4 DEF storeVars, mirrorVars
<1>4. ASSUME NEW p \in Runs, WriteHealth(p) PROVE TypeOK'
  <2>1. HealthKind(outcome[p]) \in {"none", "ok", "canary_failed", "error"}
    BY DEF HealthKind
  <2> QED
    BY <1>4, <2>1 DEF WriteHealth, Goto, Steps, storeVars, mirrorVars
<1>5. ASSUME NEW p \in Procs, StepFails(p) \/ HeadLatest(p) \/ PutLatestRefused(p)
      PROVE  TypeOK'
  <2>1. UNCHANGED <<storeVars, mirrorVars, workdir, mine, health>>
    BY <1>5 DEF StepFails, HeadLatest, PutLatestRefused
  <2>2. step' \in [Procs -> Steps] /\ outcome' \in [Procs -> Outcomes]
    BY <1>5 DEF StepFails, HeadLatest, PutLatestRefused, Goto, Return, Steps, Outcomes
  <2>3. Etag(backend, latest, commit) \in PointerTags
    BY DEF Etag, S3Etag, GitEtag, PointerTags
  <2>4. base' \in [Procs -> Pointers \cup {None}] /\ tag' \in [Procs -> PointerTags \cup {None}]
    BY <1>5, <2>3 DEF StepFails, HeadLatest, PutLatestRefused
  <2> QED
    BY <2>1, <2>2, <2>4 DEF storeVars, mirrorVars
<1>10. ASSUME NEW p \in Loaders, GetPointer(p) \/ GetObject(p) \/ GetSignature(p)
       PROVE  TypeOK'
  <2>0. p \in Procs
    BY DEF Procs, Loaders
  <2>1. UNCHANGED <<storeVars, mirrorVars, mine, health>>
    BY <1>10 DEF GetPointer, GetObject, GetSignature
  <2>2. step' \in [Procs -> Steps] /\ outcome' \in [Procs -> Outcomes]
    BY <1>10, <2>0 DEF GetPointer, GetObject, GetSignature, Goto, Return, Steps, Outcomes
  <2>3. workdir' \in [Loaders -> Trees]
    BY <1>10, TreeType, OrphanType DEF GetPointer, GetObject, GetSignature
  <2>4. base' \in [Procs -> Pointers \cup {None}] /\ tag' \in [Procs -> PointerTags \cup {None}]
    <3>1. CASE GetPointer(p)
      <4>1. PICK tree \in Answers(p) :
              \/ UNCHANGED <<base, tag>>
              \/ /\ tree.latest # None
                 /\ base' = [base EXCEPT ![p] = tree.latest]
                 /\ tag' = [tag EXCEPT ![p] = Etag(backend, tree.latest, tree.commit)]
        BY <3>1 DEF GetPointer
      <4>2. tree.latest \in Pointers \cup {None} /\ tree.commit \in Nat
        BY TreeType DEF Trees
      <4>3. tree.latest # None => Etag(backend, tree.latest, tree.commit) \in PointerTags
        BY <4>2 DEF Etag, S3Etag, GitEtag, PointerTags
      <4> QED
        BY <2>0, <4>1, <4>2, <4>3
    <3>2. CASE GetObject(p) \/ GetSignature(p)
      BY <3>2 DEF GetObject, GetSignature
    <3> QED
      BY <1>10, <3>1, <3>2
  <2> QED
    BY <2>1, <2>2, <2>3, <2>4 DEF storeVars, mirrorVars
<1>6. ASSUME NEW p \in Savers, Stamp(p) PROVE TypeOK'
  <2>1. mine' \in [Savers -> Pointers \cup {None}]
    BY <1>6, StampType DEF Stamp
  <2> QED
    BY <1>6, <2>1 DEF Stamp, Goto, Return, Steps, Outcomes, storeVars, mirrorVars
<1>7. ASSUME NEW p \in Savers, PutObject(p) \/ PutSignature(p) PROVE TypeOK'
  <2>1. p \in Writers
    BY DEF Writers
  <2>2. object' \in Files /\ signature' \in Files
    BY <1>7, <2>1 DEF PutObject, PutSignature, Files
  <2>3. step' \in [Procs -> Steps]
    BY <1>7 DEF PutObject, PutSignature, Goto, Steps
  <2> QED
    BY <1>7, <2>2, <2>3 DEF PutObject, PutSignature, mirrorVars
<1>8. ASSUME NEW p \in Savers, PutLatest(p) PROVE TypeOK'
  <2>1. mine[p] \in Pointers
    BY <1>8 DEF PutLatest, StampInv, Uploaded, Signed
  <2> QED
    BY <1>8, <2>1 DEF PutLatest, Goto, Return, Steps, Outcomes, mirrorVars
<1>9. ASSUME NEW p \in Savers, MirrorObject(p) \/ MirrorSignature(p) \/ MirrorLatest(p)
      PROVE  TypeOK'
  <2>1. mine[p] \in Pointers
    BY <1>9 DEF MirrorObject, MirrorSignature, MirrorLatest, StampInv, Uploaded, Signed, Mirroring
  <2>2. step' \in [Procs -> Steps] /\ outcome' \in [Procs -> Outcomes]
    BY <1>9 DEF MirrorObject, MirrorSignature, MirrorLatest, Goto, Return, Steps, Outcomes
  <2>3. /\ mLatest' \in [Mirrors -> Pointers \cup {None}]
        /\ missed' \subseteq Mirrors
    BY <1>9, <2>1 DEF MirrorObject, MirrorSignature, MirrorLatest, Reached
  <2>4. ASSUME NEW f \in Files, NEW v
        PROVE  [f EXCEPT ![v] = p] \in Files
    BY DEF Writers, Files
  <2>5. /\ mObject' \in [Mirrors -> Files]
        /\ mSignature' \in [Mirrors -> Files]
    <3>1. CASE MirrorObject(p)
      BY <3>1, <2>4 DEF MirrorObject, Files
    <3>2. CASE MirrorSignature(p)
      BY <3>2, <2>4 DEF MirrorSignature, Files
    <3>3. CASE MirrorLatest(p)
      BY <3>3 DEF MirrorLatest
    <3> QED
      BY <1>9, <3>1, <3>2, <3>3
  <2> QED
    BY <1>9, <2>2, <2>3, <2>5 DEF MirrorObject, MirrorSignature, MirrorLatest, storeVars
<1> QED
  BY <1>2, <1>3, <1>4, <1>5, <1>6, <1>7, <1>8, <1>9, <1>10
     DEF Next, Restoring, Saving, Procs, Savers, Loaders

-----------------------------------------------------------------------------
(* The steps of the capsule, one by one. *)
LEMMA NextCases ==
  ASSUME [Next]_vars
  PROVE  \/ UNCHANGED vars \/ Environment
         \/ \E p \in Runs : \/ Acquire(p) \/ ReleaseLock(p) \/ Kill(p)
                            \/ Drive(p) \/ WriteHealth(p)
         \/ \E p \in Loaders : GetPointer(p) \/ GetObject(p) \/ GetSignature(p)
         \/ \E p \in Savers : \/ Stamp(p) \/ PutObject(p) \/ PutSignature(p) \/ HeadLatest(p)
                              \/ PutLatest(p) \/ PutLatestRefused(p)
                              \/ MirrorObject(p) \/ MirrorSignature(p) \/ MirrorLatest(p)
         \/ \E p \in Procs : StepFails(p)
BY DEF Next, Restoring, Saving

(* Which action changes what. *)
LEMMA Effects ==
  ASSUME [Next]_vars
  PROVE  /\ mine' = mine \/ \E p \in Savers : Stamp(p)
         /\ object' = object \/ \E p \in Savers : PutObject(p)
         /\ signature' = signature \/ \E p \in Savers : PutSignature(p)
         /\ (latest' = latest /\ installed' = installed) \/ \E p \in Savers : PutLatest(p)
         /\ mLatest' = mLatest \/ \E p \in Savers : MirrorLatest(p)
         /\ \/ base' = base /\ tag' = tag
            \/ \E p \in Loaders : GetPointer(p)
            \/ \E p \in Savers : HeadLatest(p)
         /\ health' = health \/ \E p \in Runs : WriteHealth(p)
         /\ \/ workdir' = workdir
            \/ \E p \in Runs : Acquire(p) \/ Kill(p)
            \/ \E p \in Loaders : GetPointer(p) \/ GetObject(p) \/ GetSignature(p)
BY NextCases DEF vars, storeVars, mirrorVars, procVars, Environment, Acquire, ReleaseLock, Kill,
   Drive, WriteHealth, GetPointer, GetObject, GetSignature, Stamp, PutObject, PutSignature,
   HeadLatest, PutLatest, PutLatestRefused, MirrorObject, MirrorSignature, MirrorLatest, StepFails

(* One process acts at a time. *)
Acts(p) ==
  \/ p \in Runs /\ (Acquire(p) \/ ReleaseLock(p) \/ Kill(p) \/ Drive(p) \/ WriteHealth(p))
  \/ p \in Loaders /\ (GetPointer(p) \/ GetObject(p) \/ GetSignature(p))
  \/ p \in Savers /\ (\/ Stamp(p) \/ PutObject(p) \/ PutSignature(p) \/ HeadLatest(p)
                      \/ PutLatest(p) \/ PutLatestRefused(p)
                      \/ MirrorObject(p) \/ MirrorSignature(p) \/ MirrorLatest(p))
  \/ StepFails(p)

LEMMA OthersWait ==
  ASSUME TypeOK, [Next]_vars, NEW q \in Procs, ~Acts(q)
  PROVE  /\ step'[q] = step[q] /\ base'[q] = base[q] /\ tag'[q] = tag[q]
         /\ outcome'[q] = outcome[q]
         /\ q \in Savers => mine'[q] = mine[q]
         /\ q \in Runs => health'[q] = health[q]
         /\ q \in Loaders => workdir'[q] = workdir[q]
<1>1. CASE UNCHANGED vars \/ Environment
  BY <1>1 DEF vars, Environment, procVars
<1>2. ASSUME NEW p \in Procs, Acts(p)
      PROVE  /\ step'[q] = step[q] /\ base'[q] = base[q] /\ tag'[q] = tag[q]
             /\ outcome'[q] = outcome[q]
             /\ q \in Savers => mine'[q] = mine[q]
             /\ q \in Runs => health'[q] = health[q]
             /\ q \in Loaders => workdir'[q] = workdir[q]
  <2>1. p # q
    BY <1>2
  <2>2. CASE \/ p \in Runs /\ (Acquire(p) \/ ReleaseLock(p) \/ Kill(p) \/ Drive(p) \/ WriteHealth(p))
             \/ StepFails(p)
    BY <2>1, <2>2 DEF TypeOK, Acquire, ReleaseLock, Kill, Drive, WriteHealth, StepFails, Goto, Return, Keep
  <2>3. CASE p \in Loaders /\ (GetPointer(p) \/ GetObject(p) \/ GetSignature(p))
    BY <2>1, <2>3 DEF TypeOK, GetPointer, GetObject, GetSignature, Goto, Return, Keep
  <2>4. CASE /\ p \in Savers
             /\ Stamp(p) \/ PutObject(p) \/ PutSignature(p) \/ HeadLatest(p)
    BY <2>1, <2>4 DEF TypeOK, Stamp, PutObject, PutSignature, HeadLatest, Goto, Return, Keep
  <2>5. CASE /\ p \in Savers
             /\ \/ PutLatest(p) \/ PutLatestRefused(p)
                \/ MirrorObject(p) \/ MirrorSignature(p) \/ MirrorLatest(p)
    BY <2>1, <2>5 DEF TypeOK, PutLatest, PutLatestRefused, MirrorObject, MirrorSignature,
                      MirrorLatest, Goto, Return, Keep
  <2> QED
    BY <1>2, <2>2, <2>3, <2>4, <2>5 DEF Acts
<1> QED
  BY <1>1, <1>2, NextCases DEF Acts, Procs, Savers, Loaders

(* A process finds its pointer itself. *)
LEMMA OwnBase ==
  ASSUME TypeOK, [Next]_vars, NEW q \in Procs
  PROVE  \/ base'[q] = base[q] /\ tag'[q] = tag[q]
         \/ q \in Loaders /\ GetPointer(q)
         \/ q \in Savers /\ HeadLatest(q)
<1>1. ASSUME NEW p \in Loaders, GetPointer(p), p # q PROVE base'[q] = base[q] /\ tag'[q] = tag[q]
  BY <1>1 DEF GetPointer, TypeOK
<1>2. ASSUME NEW p \in Savers, HeadLatest(p), p # q PROVE base'[q] = base[q] /\ tag'[q] = tag[q]
  BY <1>2 DEF HeadLatest, TypeOK
<1> QED
  BY <1>1, <1>2, Effects

LEMMA StampStep ==
  TypeOK /\ NowInv /\ StampInv /\ [Next]_vars =>
    /\ StampInv'
    /\ \A q \in Savers : mine[q] # None => mine'[q] = mine[q]
<1> SUFFICES ASSUME TypeOK, NowInv, StampInv, [Next]_vars, NEW q \in Savers
             PROVE  /\ step'[q] \in BeforeStamp => mine'[q] = None
                    /\ step'[q] \in {"put_object"} \cup Uploaded => mine'[q] # None
                    /\ mine'[q] # None => mine'[q].writer = q /\ mine'[q].version >= 0
                    /\ mine[q] # None => mine'[q] = mine[q]
  BY DEF StampInv
<1>0. q \in Procs /\ Runs \subseteq Procs
  BY DEF Procs, Savers
<1> USE <1>0 DEF TypeOK, StampInv, BeforeStamp, Uploaded, Signed, Mirroring
<1>1. CASE UNCHANGED vars \/ Environment
  BY <1>1 DEF vars, Environment, procVars
<1>2. ASSUME NEW p \in Runs,
             \/ Acquire(p) \/ ReleaseLock(p) \/ Kill(p) \/ Drive(p) \/ WriteHealth(p)
      PROVE  mine' = mine /\ (step'[q] = step[q] \/ (q = p /\ step'[q] \in Ending)
               \/ (q = p /\ step[q] \in BeforeStamp /\ step'[q] \in BeforeStamp))
  BY <1>2 DEF Acquire, ReleaseLock, Kill, Drive, WriteHealth, Goto, Return, Ending
<1>3. ASSUME NEW p \in Procs,
             GetPointer(p) \/ GetObject(p) \/ GetSignature(p) \/ StepFails(p)
      PROVE  mine' = mine /\ (step'[q] = step[q] \/ (q = p /\ step'[q] \in Ending)
               \/ (q = p /\ step[q] \in BeforeStamp /\ step'[q] \in BeforeStamp))
  BY <1>3 DEF GetPointer, GetObject, GetSignature, StepFails, Goto, Return, Ending
<1>4. ASSUME NEW p \in Savers,
             \/ PutObject(p) \/ PutSignature(p) \/ HeadLatest(p) \/ PutLatest(p)
             \/ PutLatestRefused(p) \/ MirrorObject(p) \/ MirrorSignature(p) \/ MirrorLatest(p)
      PROVE  /\ mine' = mine /\ mine[p] # None
             /\ step'[q] = step[q] \/ (q = p /\ step'[q] \notin BeforeStamp)
  BY <1>4 DEF PutObject, PutSignature, HeadLatest, PutLatest, PutLatestRefused, MirrorObject,
              MirrorSignature, MirrorLatest, Goto, Return
<1>5. ASSUME NEW p \in Savers, Stamp(p)
      PROVE  /\ mine[p] = None
             /\ mine'[p] # None /\ mine'[p].writer = p /\ mine'[p].version >= 0
             /\ q # p => mine'[q] = mine[q] /\ step'[q] = step[q]
             /\ step'[p] \notin BeforeStamp
  <2>1. PICK ahead \in 0 .. MaxSkew :
          mine' = [mine EXCEPT ![p] = [writer |-> p, version |-> SecondOf(now + ahead),
                                       created_at |-> now + ahead]]
    BY <1>5 DEF Stamp
  <2>2. mine'[p] # None /\ mine'[p].writer = p /\ mine'[p].version >= 0
    BY <2>1, StampType, CapsuleNames
  <2> QED
    BY <1>5, <2>1, <2>2 DEF Stamp, Goto, Return, Procs, Savers
<1>6. ASSUME mine'[q] = mine[q],
             \/ step'[q] = step[q] \/ step'[q] \in Ending
             \/ step[q] \in BeforeStamp /\ step'[q] \in BeforeStamp
             \/ mine[q] # None /\ step'[q] \notin BeforeStamp
      PROVE  /\ step'[q] \in BeforeStamp => mine'[q] = None
             /\ step'[q] \in {"put_object"} \cup Uploaded => mine'[q] # None
             /\ mine'[q] # None => mine'[q].writer = q /\ mine'[q].version >= 0
             /\ mine[q] # None => mine'[q] = mine[q]
  BY <1>6 DEF Ending
<1>7. Loaders \subseteq Procs /\ Savers \subseteq Procs
  BY DEF Procs, Savers, Loaders
<1>8. ASSUME NEW p \in Savers, Stamp(p)
      PROVE  /\ step'[q] \in BeforeStamp => mine'[q] = None
             /\ step'[q] \in {"put_object"} \cup Uploaded => mine'[q] # None
             /\ mine'[q] # None => mine'[q].writer = q /\ mine'[q].version >= 0
             /\ mine[q] # None => mine'[q] = mine[q]
  BY <1>5, <1>8
<1> HIDE DEF TypeOK, StampInv, BeforeStamp, Uploaded
<1> QED
  BY <1>1, <1>2, <1>3, <1>4, <1>6, <1>7, <1>8, NextCases

(* Once a second is shared, it stays shared. *)
LEMMA SharedStays ==
  ASSUME TypeOK, NowInv, StampInv, [Next]_vars, NEW ptr, NameShared(ptr)
  PROVE  NameShared(ptr)'
BY StampStep DEF NameShared

(***************************************************************************)
(* An upload is undone only by a process that stamped the same second.     *)
(***************************************************************************)
LEMMA UploadStep ==
  TypeOK /\ NowInv /\ StampInv /\ UploadInv /\ [Next]_vars => UploadInv'
<1> SUFFICES ASSUME TypeOK, NowInv, StampInv, UploadInv, [Next]_vars, NEW q \in Savers,
                    mine'[q] # None, ~NameShared(mine[q])'
             PROVE  /\ step'[q] \in Uploaded => object'[mine'[q].version] = q
                    /\ step'[q] \in Signed => signature'[mine'[q].version] = q
  BY DEF UploadInv
<1>1. CASE mine[q] = None
  <2>1. PICK p \in Savers : Stamp(p)
    BY <1>1, Effects
  <2>2. p = q
    BY <2>1, <1>1 DEF Stamp, TypeOK
  <2> QED
    BY <2>1, <2>2 DEF Stamp, Goto, Return, Uploaded, Signed, Mirroring, TypeOK, Procs
<1>2. CASE mine[q] # None
  <2>1. mine'[q] = mine[q] /\ ~NameShared(mine[q])
    BY <1>2, StampStep, SharedStays
  <2>2. mine[q] \in Pointers /\ mine[q].writer = q /\ mine[q].version \in Versions
    BY <1>2 DEF TypeOK, StampInv, Pointers
  <2>3. ASSUME NEW p \in Savers, p # q, step[p] \in {"put_object"} \cup Uploaded
        PROVE  mine[p].version # mine[q].version
    BY <2>1, <2>2, <2>3 DEF StampInv, NameShared
  <2>4. step'[q] \in Uploaded => step[q] \in Uploaded \/ PutObject(q)
    BY OthersWait DEF Acts, TypeOK, Acquire, ReleaseLock, Kill, Drive, WriteHealth, GetPointer,
       GetObject, GetSignature, Stamp, PutObject, PutSignature, HeadLatest, PutLatest,
       PutLatestRefused, MirrorObject, MirrorSignature, MirrorLatest, StepFails, Goto, Return,
       Uploaded, Signed, Mirroring, Procs, Savers
  <2>5. step'[q] \in Signed => step[q] \in Signed \/ PutSignature(q)
    BY OthersWait DEF Acts, TypeOK, Acquire, ReleaseLock, Kill, Drive, WriteHealth, GetPointer,
       GetObject, GetSignature, Stamp, PutObject, PutSignature, HeadLatest, PutLatest,
       PutLatestRefused, MirrorObject, MirrorSignature, MirrorLatest, StepFails, Goto, Return,
       Uploaded, Signed, Mirroring, Procs, Savers
  <2>6. object[mine[q].version] = q \/ PutObject(q) => object'[mine[q].version] = q
    BY <2>2, <2>3, Effects DEF PutObject, TypeOK, Files
  <2>7. signature[mine[q].version] = q \/ PutSignature(q) => signature'[mine[q].version] = q
    BY <2>2, <2>3, Effects DEF PutSignature, TypeOK, Files, Uploaded
  <2> QED
    BY <1>2, <2>1, <2>4, <2>5, <2>6, <2>7 DEF UploadInv
<1> QED
  BY <1>1, <1>2

(***************************************************************************)
(* Nobody comes back from the CAS, and only what was installed is read.    *)
(***************************************************************************)
LEMMA PastStays ==
  ASSUME TypeOK, [Next]_vars, NEW q \in Procs, step[q] \in Mirroring \cup Ending
  PROVE  step'[q] \in Mirroring \cup Ending
BY OthersWait DEF Acts, TypeOK, Acquire, ReleaseLock, Kill, Drive, WriteHealth, GetPointer,
     GetObject, GetSignature, Stamp, PutObject, PutSignature, HeadLatest, PutLatest,
     PutLatestRefused, MirrorObject, MirrorSignature, MirrorLatest, StepFails, Goto, Return,
     Mirroring, Ending

LEMMA InstalledStep ==
  TypeOK /\ NowInv /\ StampInv /\ InstalledInv /\ [Next]_vars =>
    InstalledInv' /\ installed \subseteq installed'
<1> SUFFICES ASSUME TypeOK, NowInv, StampInv, InstalledInv, [Next]_vars
             PROVE  InstalledInv' /\ installed \subseteq installed'
  OBVIOUS
<1>1. ASSUME NEW p \in Savers, PutLatest(p)
      PROVE  /\ mine[p] # None /\ mine[p].writer = p /\ mine' = mine
             /\ latest' = mine[p] /\ installed' = installed \cup {mine[p]}
             /\ step'[p] \in Mirroring \cup Ending
  BY <1>1 DEF PutLatest, StampInv, Uploaded, Signed, Mirroring, Ending, Goto, Return, TypeOK,
              Procs, Savers
<1>2. installed \subseteq installed' /\ (latest' # None => latest' \in installed')
  BY <1>1, Effects DEF InstalledInv
<1>3. ASSUME NEW ptr \in installed', ptr # EarlierPointer
      PROVE  /\ ptr.writer \in Savers
             /\ ptr = mine'[ptr.writer]
             /\ step'[ptr.writer] \in Mirroring \cup Ending
  <2>1. CASE ptr \in installed
    <3>1. /\ ptr.writer \in Savers /\ ptr = mine[ptr.writer] /\ ptr # None
          /\ step[ptr.writer] \in Mirroring \cup Ending
      BY <1>3, <2>1, CapsuleNames DEF InstalledInv, TypeOK
    <3> QED
      BY <3>1, StampStep, PastStays DEF Procs, Savers
  <2>2. CASE ptr \notin installed
    BY <2>2, <1>1, <1>3, Effects
  <2> QED
    BY <2>1, <2>2
<1>4. ASSUME NEW q \in Procs, base'[q] # None PROVE base'[q] \in installed'
  <2>1. CASE base'[q] = base[q] \/ base'[q] = latest
    BY <1>2, <1>4, <2>1 DEF InstalledInv
  <2>2. ASSUME NEW p \in Loaders, NEW tree \in Answers(p), base'[q] = tree.latest
        PROVE  base'[q] \in installed'
    <3>1. tree.latest = latest \/ tree.latest = workdir[p].latest
      BY DEF Answers, Branch
    <3> QED
      BY <1>2, <1>4, <2>2, <3>1 DEF InstalledInv
  <2> QED
    BY <2>1, <2>2, Effects DEF GetPointer, HeadLatest, TypeOK
<1>6. ASSUME NEW q \in Loaders, workdir'[q].latest # None
      PROVE  workdir'[q].latest \in installed'
  <2>1. CASE workdir'[q] = workdir[q]
    BY <1>2, <1>6, <2>1 DEF InstalledInv
  <2>2. ASSUME NEW p \in Loaders, NEW tree, Keep(p, tree),
               tree.latest \in {None, latest, workdir[p].latest}
        PROVE  workdir'[q].latest \in installed'
    <3>1. workdir'[q].latest \in {None, latest, workdir[p].latest, workdir[q].latest}
      BY <2>2 DEF Keep, TypeOK, Orphan
    <3> QED
      BY <1>2, <1>6, <3>1 DEF InstalledInv
  <2>3. ASSUME NEW p \in Loaders, NEW tree \in Answers(p)
        PROVE  tree.latest \in {None, latest, workdir[p].latest}
    BY DEF Answers, Branch
  <2>4. Orphan.latest = None /\ \A head : Branch(head).latest = latest
    BY DEF Orphan, Branch
  <2>5. ASSUME NEW p \in Loaders, GetPointer(p) \/ GetObject(p) \/ GetSignature(p)
        PROVE  workdir'[q].latest \in installed'
    BY <2>2, <2>3, <2>4, <2>5 DEF GetPointer, GetObject, GetSignature
  <2>6. ASSUME NEW p \in Runs, Acquire(p) \/ Kill(p)
        PROVE  workdir'[q].latest \in installed'
    BY <2>1, <2>2, <2>4, <2>6 DEF Acquire, Kill, Loaders
  <2> QED
    BY <2>1, <2>5, <2>6, Effects
<1>5. ASSUME NEW q \in Loaders, step'[q] \in {"object", "signature"} PROVE base'[q] # None
  <2>0. q \in Procs
    BY DEF Loaders, Procs
  <2>1. CASE ~Acts(q)
    BY <1>5, <2>0, <2>1, OthersWait DEF InstalledInv
  <2>2. CASE GetPointer(q)
    BY <1>5, <2>0, <2>2 DEF GetPointer, TypeOK, Goto, Return
  <2>3. CASE GetObject(q) \/ GetSignature(q)
    BY <1>5, <2>0, <2>3 DEF GetObject, GetSignature, InstalledInv, TypeOK, Goto, Return
  <2>4. ~(\/ q \in Runs /\ \/ Acquire(q) \/ ReleaseLock(q) \/ Kill(q)
                           \/ Drive(q) \/ WriteHealth(q)
          \/ StepFails(q))
    BY <1>5, <2>0 DEF Acquire, ReleaseLock, Kill, Drive, WriteHealth, StepFails, TypeOK, Goto,
                      Return
  <2>5. ~(q \in Savers /\ \/ Stamp(q) \/ PutObject(q) \/ PutSignature(q) \/ HeadLatest(q)
                          \/ PutLatest(q) \/ PutLatestRefused(q) \/ MirrorObject(q)
                          \/ MirrorSignature(q) \/ MirrorLatest(q))
    BY <1>5, <2>0 DEF Stamp, PutObject, PutSignature, HeadLatest, PutLatest, PutLatestRefused,
                      MirrorObject, MirrorSignature, MirrorLatest, TypeOK, Goto, Return
  <2> QED
    BY <2>1, <2>2, <2>3, <2>4, <2>5 DEF Acts
<1> QED
  BY <1>2, <1>3, <1>4, <1>5, <1>6 DEF InstalledInv

LEMMA ResolvesStep ==
  TypeOK /\ NowInv /\ StampInv /\ UploadInv /\ InstalledInv /\ InstalledResolves /\ [Next]_vars
    => InstalledResolves'
<1> SUFFICES ASSUME TypeOK, NowInv, StampInv, UploadInv, InstalledInv, InstalledResolves,
                    [Next]_vars, NEW ptr \in installed', ~NameShared(ptr)'
             PROVE  object'[ptr.version] = ptr.writer /\ signature'[ptr.version] = ptr.writer
  BY DEF InstalledResolves
<1>1. ~NameShared(ptr)
  BY SharedStays
<1>2. CASE ptr \in installed
  <2>1. /\ object[ptr.version] = ptr.writer /\ signature[ptr.version] = ptr.writer
        /\ ptr.version \in Versions
    BY <1>1, <1>2 DEF InstalledResolves, TypeOK, Pointers
  <2>2. ASSUME NEW p \in Savers, step[p] \in {"put_object", "put_signature"}
        PROVE  mine[p].version # ptr.version
    <3>1. mine[p] # None /\ mine[p].version >= 0 /\ mine[p].version \in Int
      BY <2>2 DEF StampInv, Uploaded, TypeOK, Pointers, Versions
    <3>2. CASE ptr = EarlierPointer
      BY <3>1, <3>2 DEF EarlierPointer
    <3>3. CASE ptr = mine[ptr.writer] /\ step[ptr.writer] \in Mirroring \cup Ending
      BY <1>1, <2>2, <3>1, <3>3 DEF NameShared, Mirroring, Ending
    <3> QED
      BY <1>2, <3>2, <3>3 DEF InstalledInv
  <2>3. object'[ptr.version] = object[ptr.version]
    BY <2>1, <2>2, Effects DEF PutObject, TypeOK, Files
  <2>4. signature'[ptr.version] = signature[ptr.version]
    BY <2>1, <2>2, Effects DEF PutSignature, TypeOK, Files
  <2> QED
    BY <2>1, <2>3, <2>4
<1>3. CASE ptr \notin installed
  <2>1. PICK p \in Savers : PutLatest(p) /\ ptr = mine[p]
    BY <1>3, Effects DEF PutLatest
  <2>2. mine[p] # None /\ mine[p].writer = p /\ step[p] \in Uploaded \cap Signed
    BY <2>1 DEF PutLatest, StampInv, Uploaded, Signed
  <2>3. object[ptr.version] = p /\ signature[ptr.version] = p
    BY <1>1, <2>1, <2>2 DEF UploadInv
  <2> QED
    BY <2>1, <2>2, <2>3 DEF PutLatest
<1> QED
  BY <1>2, <1>3

(* Commits only come, and every write of latest.json is one. *)
LEMMA CommitsGrow ==
  ASSUME TypeOK, [Next]_vars
  PROVE  /\ backend' = backend /\ commit \in Nat /\ commit' \in Nat /\ commit' >= commit
         /\ backend = "git_branch" /\ latest' # latest => commit' > commit
<1>1. backend \in Backends /\ commit \in Nat
  BY LockConstants DEF TypeOK, LockTypeOK
<1>2. backend = "git_branch" /\ latest' # latest => commit' > commit
  BY <1>1, Effects DEF PutLatest, KeyWritten, AfterWrite
<1>3. CASE [LockNext]_lockVars
  <2>1. /\ backend' = backend
        /\ commit' = commit \/ commit' = commit + 1 \/ commit' = AfterWrite(backend, commit)
    BY <1>3 DEF LockNext, lockVars, Tick, OtherWrite, Acquiring, Begin, Head, HeadUnfetched,
       Get, GetUnfetched, Put, PutRefused, AcquireError, Release, Crash
  <2> QED
    BY <1>1, <1>2, <2>1 DEF AfterWrite
<1>4. CASE KeyWritten /\ UNCHANGED lockButCommit
  BY <1>1, <1>4 DEF KeyWritten, lockButCommit, AfterWrite
<1> QED
  BY <1>1, <1>2, <1>3, <1>4, LockStepOrWrite

(***************************************************************************)
(* A get answers from a branch, of now or of the process's last fetch, on  *)
(* which its pointer and the pointer being restored resolve.               *)
(***************************************************************************)
LEMMA AnswersResolve ==
  ASSUME InstalledInv, InstalledResolves, WorkdirInv,
         NEW p \in Loaders, NEW tree \in Answers(p)
  PROVE  /\ tree.latest # None => NameShared(tree.latest) \/ Resolves(tree, tree.latest)
         /\ step[p] \in {"object", "signature"} =>
              NameShared(base[p]) \/ Resolves(tree, base[p])
<1>1. p \in Procs
  BY DEF Procs, Loaders
<1>2. \A ptr \in installed : \A head : NameShared(ptr) \/ Resolves(Branch(head), ptr)
  BY DEF InstalledResolves, Resolves, Branch
<1>3. CASE tree = Branch(commit)
  <2>1. tree.latest = latest
    BY <1>3 DEF Branch
  <2> QED
    BY <1>1, <1>2, <1>3, <2>1 DEF InstalledInv
<1>4. CASE FetchMayFail /\ tree = workdir[p]
  BY <1>4 DEF WorkdirInv
<1> QED
  BY <1>3, <1>4 DEF Answers

LEMMA WorkdirStep ==
  /\ TypeOK /\ NowInv /\ StampInv /\ InstalledInv /\ InstalledResolves /\ WorkdirInv
  /\ [Next]_vars
  => WorkdirInv'
<1> SUFFICES ASSUME TypeOK, NowInv, StampInv, InstalledInv, InstalledResolves, WorkdirInv,
                    [Next]_vars, NEW q \in Loaders
             PROVE  /\ workdir'[q].latest # None =>
                         \/ NameShared(workdir[q].latest)'
                         \/ Resolves(workdir'[q], workdir'[q].latest)
                    /\ FetchMayFail' /\ step'[q] \in {"object", "signature"} =>
                         NameShared(base[q])' \/ Resolves(workdir'[q], base'[q])
  BY DEF WorkdirInv, Resolves
<1>0. q \in Procs /\ FetchMayFail' = FetchMayFail
  BY CommitsGrow DEF Procs, Loaders, FetchMayFail
<1>1. ASSUME NEW ptr, NameShared(ptr) PROVE \E w \in Savers :
        w # ptr.writer /\ mine'[w] # None /\ mine'[w].version = ptr.version
  BY <1>1, SharedStays DEF NameShared
<1>2. CASE /\ workdir'[q] = workdir[q]
           /\ step'[q] \in {"object", "signature"} => step'[q] = step[q] /\ base'[q] = base[q]
  BY <1>0, <1>1, <1>2 DEF WorkdirInv, NameShared
<1>3. CASE ~Acts(q)
  BY <1>0, <1>2, <1>3, OthersWait
<1>4. CASE GetPointer(q) \/ GetObject(q)
  <2>1. PICK tree \in Answers(q) :
          /\ Keep(q, tree)
          /\ step'[q] \in {"object", "signature"} =>
               \/ tree.latest # None /\ base'[q] = tree.latest
               \/ step[q] = "object" /\ base'[q] = base[q]
    BY <1>0, <1>4 DEF GetPointer, GetObject, Goto, Return, TypeOK
  <2>2. workdir'[q] = tree \/ (~FetchMayFail /\ workdir'[q] = Orphan)
    BY <2>1 DEF Keep, TypeOK
  <2>3. /\ tree.latest # None => NameShared(tree.latest) \/ Resolves(tree, tree.latest)
        /\ step[q] \in {"object", "signature"} =>
             NameShared(base[q]) \/ Resolves(tree, base[q])
    BY AnswersResolve
  <2> QED
    BY <1>0, <1>1, <2>1, <2>2, <2>3 DEF NameShared, Orphan
<1>5. CASE GetSignature(q) \/ (q \in Runs /\ (Acquire(q) \/ Kill(q)))
  <2>1. step'[q] \notin {"object", "signature"}
    BY <1>0, <1>5 DEF GetSignature, Acquire, Kill, Goto, Return, TypeOK
  <2>2. CASE workdir'[q] = workdir[q]
    BY <1>2, <2>1, <2>2
  <2>3. CASE workdir'[q].latest = None
    BY <2>1, <2>3
  <2>4. CASE workdir'[q] = Branch(commit')
    <3>1. workdir'[q].latest = latest
      BY <2>4 DEF Branch
    <3>2. latest # None => NameShared(latest) \/ Resolves(workdir'[q], latest)
      BY <2>4 DEF InstalledInv, InstalledResolves, Resolves, Branch
    <3> QED
      BY <1>1, <2>1, <3>1, <3>2 DEF NameShared
  <2> QED
    BY <1>5, <2>2, <2>3, <2>4 DEF GetSignature, Acquire, Kill, Keep, TypeOK, Orphan
<1>6. CASE /\ Acts(q) /\ ~GetPointer(q) /\ ~GetObject(q) /\ ~GetSignature(q)
           /\ ~(q \in Runs /\ (Acquire(q) \/ Kill(q)))
  BY <1>0, <1>2, <1>6 DEF Acts, TypeOK, ReleaseLock, Drive, WriteHealth, Stamp, PutObject,
     PutSignature, HeadLatest, PutLatest, PutLatestRefused, MirrorObject, MirrorSignature,
     MirrorLatest, StepFails, Goto, Return
<1> QED
  BY <1>3, <1>4, <1>5, <1>6

LEMMA TornStep ==
  /\ TypeOK /\ NowInv /\ StampInv /\ InstalledInv /\ OutcomeInv /\ InstalledResolves
  /\ WorkdirInv /\ RestoreNeverTorn /\ [Next]_vars
  => RestoreNeverTorn'
<1> SUFFICES ASSUME TypeOK, NowInv, StampInv, InstalledInv, OutcomeInv, InstalledResolves,
                    WorkdirInv, RestoreNeverTorn, [Next]_vars, NEW q \in Loaders, outcome'[q] = "torn"
             PROVE  NameShared(base[q])'
  BY DEF RestoreNeverTorn
<1>0. q \in Procs
  BY DEF Procs, Loaders
<1>1. ASSUME NameShared(base[q]), base'[q] = base[q] PROVE NameShared(base[q])'
  BY <1>1, StampStep DEF NameShared
<1>2. CASE ~Acts(q)
  BY <1>0, <1>1, <1>2, OthersWait DEF RestoreNeverTorn
<1>3. CASE outcome[q] = "torn"
  <2>1. step[q] \in Ending
    BY <1>0, <1>3 DEF OutcomeInv
  <2>2. base'[q] = base[q]
    BY <1>0, <2>1, Effects DEF GetPointer, HeadLatest, TypeOK, Ending
  <2> QED
    BY <1>1, <1>3, <2>2 DEF RestoreNeverTorn
<1>4. CASE Acts(q) /\ outcome[q] # "torn"
  <2>1. GetObject(q) \/ GetSignature(q)
    BY <1>0, <1>4 DEF Acts, TypeOK, Acquire, ReleaseLock, Kill, Drive, WriteHealth, GetPointer,
     GetObject, GetSignature, Stamp, PutObject, PutSignature, HeadLatest, PutLatest,
     PutLatestRefused, MirrorObject, MirrorSignature, MirrorLatest, StepFails, Goto, Return
  <2>2. base'[q] = base[q] /\ step[q] \in {"object", "signature"}
    BY <1>0, <2>1 DEF GetObject, GetSignature
  <2>3. \E tree \in Answers(q) : ~Resolves(tree, base[q])
    BY <1>0, <1>4, <2>1 DEF GetObject, GetSignature, Return, TypeOK, Resolves
  <2> QED
    BY <1>1, <2>2, <2>3, AnswersResolve
<1> QED
  BY <1>2, <1>3, <1>4

(***************************************************************************)
(* What a command returns follows what became of its pointer.              *)
(***************************************************************************)
LEMMA OutcomeStep ==
  TypeOK /\ NowInv /\ StampInv /\ InstalledInv /\ OutcomeInv /\ [Next]_vars => OutcomeInv'
<1> SUFFICES ASSUME TypeOK, NowInv, StampInv, InstalledInv, OutcomeInv, [Next]_vars
             PROVE  OutcomeInv'
  OBVIOUS
<1>0. Runs \subseteq Savers /\ Savers \subseteq Procs
  BY DEF Savers, Procs
<1>1. ASSUME NEW q \in Procs
      PROVE  /\ step'[q] \notin Ending => outcome'[q] = "none"
             /\ step'[q] \in {"release", "health"} => outcome'[q] # "none"
  <2>1. CASE ~Acts(q)
    BY <2>1, OthersWait DEF OutcomeInv
  <2>2. CASE Acts(q)
    BY <2>2 DEF OutcomeInv, Ending, Acts, TypeOK, Acquire, ReleaseLock, Kill, Drive, WriteHealth, GetPointer,
       GetObject, GetSignature, Stamp, PutObject, PutSignature, HeadLatest, PutLatest,
       PutLatestRefused, MirrorObject, MirrorSignature, MirrorLatest, StepFails, Goto, Return
  <2> QED
    BY <2>1, <2>2
<1>2. ASSUME NEW q \in Savers, outcome'[q] = "saved" \/ step'[q] \in Mirroring
      PROVE  mine'[q] \in installed'
  <2>1. CASE outcome[q] = "saved" \/ step[q] \in Mirroring
    <3>1. mine[q] \in installed /\ mine[q] # None
      BY <2>1, CapsuleNames DEF OutcomeInv, TypeOK
    <3> QED
      BY <3>1, StampStep, InstalledStep
  <2>2. CASE outcome[q] # "saved" /\ step[q] \notin Mirroring
    <3>1. PutLatest(q)
      BY <1>0, <1>2, <2>2, OthersWait DEF Mirroring, Acts, TypeOK, Acquire, ReleaseLock, Kill, Drive, WriteHealth, GetPointer,
       GetObject, GetSignature, Stamp, PutObject, PutSignature, HeadLatest, PutLatest,
       PutLatestRefused, MirrorObject, MirrorSignature, MirrorLatest, StepFails, Goto, Return
    <3> QED
      BY <3>1 DEF PutLatest
  <2> QED
    BY <2>1, <2>2
<1>3. ASSUME NEW q \in Runs, mine'[q] # None, mine'[q] \in installed'
      PROVE  \/ step'[q] \in Mirroring \/ outcome'[q] \in {"saved", "unanswered"}
             \/ step'[q] = "done" /\ outcome'[q] = "none"
  <2>0. mine'[q].writer = q /\ mine'[q] # EarlierPointer
    BY <1>0, <1>3, StampStep, LockNames DEF StampInv, EarlierPointer
  <2>1. CASE mine[q] # None /\ mine[q] \in installed
    <3>1. \/ step[q] \in Mirroring \/ outcome[q] \in {"saved", "unanswered"}
          \/ step[q] = "done" /\ outcome[q] = "none"
      BY <2>1 DEF OutcomeInv
    <3>2. CASE ~Acts(q)
      BY <1>0, <3>1, <3>2, OthersWait
    <3>3. CASE Acts(q)
      BY <1>0, <3>1, <3>3 DEF OutcomeInv, Ending, Mirroring, Acts, TypeOK, Acquire, ReleaseLock, Kill, Drive, WriteHealth, GetPointer,
         GetObject, GetSignature, Stamp, PutObject, PutSignature, HeadLatest, PutLatest,
         PutLatestRefused, MirrorObject, MirrorSignature, MirrorLatest, StepFails, Goto, Return
    <3> QED
      BY <3>2, <3>3
  <2>2. CASE mine[q] # None /\ mine[q] \notin installed
    <3>1. mine'[q] = mine[q]
      BY <1>0, <2>2, StampStep
    <3>2. PICK p \in Savers : PutLatest(p)
      BY <1>3, <2>2, <3>1, Effects
    <3>3. mine[p].writer = p /\ mine[q].writer = q /\ mine[q] = mine[p]
      BY <1>0, <1>3, <2>2, <3>1, <3>2 DEF PutLatest, StampInv, Uploaded, Signed
    <3> QED
      BY <1>0, <3>2, <3>3 DEF PutLatest, Goto, Return, Mirroring, TypeOK
  <2>3. CASE mine[q] = None
    <3>1. mine' # mine
      BY <1>3, <2>3
    <3>2. installed' = installed
      BY <3>1, Effects DEF Stamp, storeVars
    <3> QED
      BY <1>3, <2>0, <2>3, <3>2, CapsuleNames DEF InstalledInv, TypeOK
  <2> QED
    BY <2>1, <2>2, <2>3
<1>4. ASSUME NEW q \in Runs, health'[q] # "none"
      PROVE  step'[q] = "done" /\ outcome'[q] # "none" /\ health'[q] = HealthKind(outcome'[q])
  <2>1. CASE ~Acts(q)
    BY <1>0, <1>4, <2>1, OthersWait DEF OutcomeInv
  <2>2. CASE WriteHealth(q)
    BY <1>0, <1>4, <2>2 DEF WriteHealth, Goto, OutcomeInv, TypeOK
  <2>3. CASE Acts(q) /\ ~WriteHealth(q)
    <3>1. health'[q] = health[q]
      BY <1>0, <2>3, Effects DEF WriteHealth, TypeOK
    <3>2. step[q] = "done" /\ outcome[q] # "none" /\ health[q] = HealthKind(outcome[q])
      BY <1>4, <3>1 DEF OutcomeInv
    <3>3. step'[q] = "done" /\ outcome'[q] = outcome[q]
      BY <1>0, <2>3, <3>2 DEF Acts, TypeOK, Acquire, ReleaseLock, Kill, Drive, WriteHealth, GetPointer,
         GetObject, GetSignature, Stamp, PutObject, PutSignature, HeadLatest, PutLatest,
         PutLatestRefused, MirrorObject, MirrorSignature, MirrorLatest, StepFails, Goto, Return
    <3> QED
      BY <3>1, <3>2, <3>3
  <2> QED
    BY <2>1, <2>2, <2>3
<1> QED
  BY <1>1, <1>2, <1>3, <1>4 DEF OutcomeInv

LEMMA WrittenStep ==
  TypeOK /\ OutcomeInv /\ WrittenInv /\ [Next]_vars => WrittenInv'
<1> SUFFICES ASSUME TypeOK, OutcomeInv, WrittenInv, [Next]_vars, NEW q \in Savers,
                    NEW v \in Versions, object'[v] = q \/ signature'[v] = q
             PROVE  step'[q] \in Uploaded \cup Ending /\ outcome'[q] # "canary_failed"
  BY DEF WrittenInv, Versions
<1>0. q \in Procs
  BY DEF Procs, Savers
<1>1. CASE PutObject(q) \/ PutSignature(q)
  BY <1>0, <1>1 DEF PutObject, PutSignature, Goto, OutcomeInv, TypeOK, Uploaded, Signed, Ending
<1>2. CASE object[v] = q \/ signature[v] = q
  <2>1. step[q] \in Uploaded \cup Ending /\ outcome[q] # "canary_failed"
    BY <1>2 DEF WrittenInv
  <2>2. CASE ~Acts(q)
    BY <1>0, <2>1, <2>2, OthersWait
  <2>3. CASE Acts(q)
    BY <1>0, <2>1, <2>3 DEF Uploaded, Signed, Mirroring, Ending, Acts, TypeOK, Acquire, ReleaseLock, Kill, Drive, WriteHealth, GetPointer,
       GetObject, GetSignature, Stamp, PutObject, PutSignature, HeadLatest, PutLatest,
       PutLatestRefused, MirrorObject, MirrorSignature, MirrorLatest, StepFails, Goto, Return
  <2> QED
    BY <2>2, <2>3
<1>3. CASE ~(object[v] = q \/ signature[v] = q)
  <2>1. PutObject(q) \/ PutSignature(q)
    BY <1>3, Effects DEF PutObject, PutSignature, TypeOK, Files
  <2> QED
    BY <1>1, <2>1
<1> QED
  BY <1>2, <1>3

LEMMA FollowStep ==
  /\ TypeOK /\ NowInv /\ StampInv /\ InstalledInv /\ OutcomeInv /\ MirrorsFollow /\ [Next]_vars
  => MirrorsFollow'
<1> SUFFICES ASSUME TypeOK, NowInv, StampInv, InstalledInv, OutcomeInv, MirrorsFollow,
                    [Next]_vars, NEW m \in Mirrors, mLatest'[m] # None
             PROVE  mLatest'[m] \in installed'
  BY DEF MirrorsFollow
<1>1. mLatest'[m] = mLatest[m] \/ \E p \in Savers : MirrorLatest(p) /\ mLatest'[m] = mine[p]
  BY Effects DEF MirrorLatest, TypeOK
<1>2. \A p \in Savers : MirrorLatest(p) => mine[p] \in installed
  BY DEF MirrorLatest, OutcomeInv, Mirroring
<1> QED
  BY <1>1, <1>2, InstalledStep DEF MirrorsFollow

-----------------------------------------------------------------------------
LEMMA CheckpointInit == Init => CheckpointInv
<1> SUFFICES ASSUME Init PROVE CheckpointInv
  OBVIOUS
<1>1. TypeOK /\ NowInv
  BY CheckpointTypeInit
<1>2. PICK first \in {None, EarlierPointer} :
        LET kept == [v \in Versions |-> IF first # None /\ v = -1 THEN EarlierRun ELSE None]
        IN  /\ latest = first
            /\ object = kept /\ signature = kept
            /\ installed = {first} \ {None}
            /\ mLatest = [m \in Mirrors |-> first]
  BY DEF Init
<1>3. /\ \A p \in Procs : base[p] = None /\ outcome[p] = "none"
      /\ \A p \in Savers : mine[p] = None
      /\ \A p \in Runs : health[p] = "none"
  BY DEF Init
<1>4. \A p \in Procs : step[p] \in {"done", "lock", "stamp", "pointer"}
  <2>1. PICK party \in Parties :
          step = [p \in Procs |-> CASE p \notin party -> "done"
                                    [] p \in party \cap Runs -> "lock"
                                    [] p \in party \cap Seeds -> "stamp"
                                    [] p \in party \cap Readers -> "pointer"]
    BY DEF Init
  <2> QED
    BY <2>1 DEF Procs
<1>5. Savers \subseteq Procs /\ Loaders \subseteq Procs /\ Runs \subseteq Savers
  BY DEF Savers, Loaders, Procs
<1>6. StampInv /\ UploadInv
  BY <1>3, <1>4, <1>5 DEF StampInv, UploadInv, Uploaded, Signed, Mirroring
<1>7. InstalledInv /\ MirrorsFollow
  <2>1. \A p \in Loaders : workdir[p].latest = None
    BY DEF Init, Orphan
  <2> QED
    BY <1>2, <1>3, <1>4, <1>5, <2>1 DEF InstalledInv, MirrorsFollow
<1>8. OutcomeInv /\ RestoreNeverTorn
  BY <1>3, <1>4, <1>5 DEF OutcomeInv, RestoreNeverTorn, Mirroring, Ending
<1>9. WrittenInv
  <2>1. EarlierRun \notin Savers /\ None \notin Savers
    BY LockNames, CapsuleConstants, CapsuleNames DEF Savers, Writers
  <2> QED
    BY <1>2, <2>1 DEF WrittenInv
<1>10. InstalledResolves
  BY <1>2, EarlierPointerType DEF InstalledResolves, EarlierPointer
<1>11. WorkdirInv
  BY <1>4, <1>5 DEF Init, WorkdirInv, Orphan
<1> QED
  BY <1>1, <1>6, <1>7, <1>8, <1>9, <1>10, <1>11 DEF CheckpointInv

(* The inductive invariant of the checkpoint. *)
LEMMA CheckpointCorrect == Spec => []CheckpointInv
<1>1. CheckpointInv /\ [Next]_vars => CheckpointInv'
  BY LockTypeStep, CheckpointTypeStep, StampStep, UploadStep, InstalledStep, ResolvesStep,
     WorkdirStep, TornStep, OutcomeStep, WrittenStep, FollowStep
     DEF CheckpointInv, TypeOK
<1> QED
  BY <1>1, CheckpointInit, PTL DEF Spec

(***************************************************************************)
(* The variables of the capsule keep their types: in particular every name *)
(* a process may stamp within the bounds of the clock is one of Versions.  *)
(***************************************************************************)
THEOREM TypeCorrect == Spec => []TypeOK
BY CheckpointCorrect, PTL DEF CheckpointInv

(***************************************************************************)
(* Whatever latest.json ever held stays restorable, unless two processes   *)
(* stamped in the same second: for any number of runs, seeds and readers,  *)
(* any lease and clock skew, both backends, and every failure.             *)
(***************************************************************************)
THEOREM InstalledResolvesHolds == Spec => []InstalledResolves
BY CheckpointCorrect, PTL DEF CheckpointInv

(***************************************************************************)
(* No restore, under a lease or without the lock, sees another pointer's   *)
(* snapshot or signature, with the same exception.                         *)
(***************************************************************************)
THEOREM RestoreNeverTornHolds == Spec => []RestoreNeverTorn
BY CheckpointCorrect, PTL DEF CheckpointInv

(***************************************************************************)
(* A mirror's pointer was the primary's first, whatever fan-outs fail.     *)
(***************************************************************************)
THEOREM MirrorsFollowHolds == Spec => []MirrorsFollow
BY CheckpointCorrect, PTL DEF CheckpointInv

(***************************************************************************)
(* A health record says what became of its run's pointer, and a run that   *)
(* failed its canary left nothing in the store.                            *)
(***************************************************************************)
THEOREM HealthTruthfulHolds == Spec => []HealthTruthful
<1>1. CheckpointInv => HealthTruthful
  <2> SUFFICES ASSUME CheckpointInv, NEW p \in Runs
               PROVE  /\ health[p] = "ok" => mine[p] \in installed
                      /\ health[p] \in {"error", "canary_failed"} /\ outcome[p] # "unanswered"
                           => mine[p] \notin installed
                      /\ health[p] = "canary_failed" =>
                           \A v \in Versions : object[v] # p /\ signature[v] # p
    BY DEF HealthTruthful
  <2>1. p \in Savers /\ health[p] \in {"none", "ok", "canary_failed", "error"}
    BY DEF Savers, CheckpointInv, TypeOK
  <2>2. health[p] # "none" => outcome[p] # "none" /\ health[p] = HealthKind(outcome[p])
    BY DEF CheckpointInv, OutcomeInv
  <2>3. /\ health[p] = "ok" => outcome[p] = "saved"
        /\ health[p] = "canary_failed" => outcome[p] = "canary_failed"
        /\ health[p] = "error" => outcome[p] \notin {"none", "saved"}
    BY <2>2 DEF HealthKind
  <2>4. health[p] # "none" => step[p] = "done"
    BY DEF CheckpointInv, OutcomeInv
  <2>5. mine[p] \in installed /\ outcome[p] # "none" /\ step[p] = "done"
          => outcome[p] \in {"saved", "unanswered"}
    BY CapsuleNames DEF CheckpointInv, OutcomeInv, TypeOK, Mirroring
  <2>6. outcome[p] = "saved" => mine[p] \in installed
    BY <2>1 DEF CheckpointInv, OutcomeInv
  <2>7. outcome[p] = "canary_failed" =>
          \A v \in Versions : object[v] # p /\ signature[v] # p
    BY <2>1 DEF CheckpointInv, WrittenInv
  <2> QED
    BY <2>1, <2>3, <2>4, <2>5, <2>6, <2>7
<1> QED
  BY <1>1, CheckpointCorrect, PTL

-----------------------------------------------------------------------------
(***************************************************************************)
(* latest.json is the register of CheckpointRegister, and on s3 a run's    *)
(* save is refused only for a reason.                                      *)
(*                                                                         *)
(* The argument.  If the conditional put can go through, the checkpoint it *)
(* replaces is the one its process looked at (TagInv): on s3 because the   *)
(* etag is the content's, on a git branch because commits only grow and    *)
(* every write of latest.json makes one, so that an old working copy gives *)
(* its age away (HeadInv).  If on s3 it cannot, latest.json changed since  *)
(* the restore (ReplacedInv), by a seed or by a run that held the lock at  *)
(* the same time; of two such runs one has outlived its lease, by the      *)
(* theorem about the lock.                                                 *)
(***************************************************************************)

Restored == {"object", "signature", "drive", "stamp", "put_object", "put_signature", "put_latest"}
Working  == {"pointer", "release"} \cup Restored \cup Mirroring

(* What a process found in latest.json, and when it looks. *)
BaseInv ==
  /\ \A p \in Runs :
       /\ step[p] \in {"lock", "pointer"} => base[p] = None
       /\ step[p] # "head_latest"
       /\ step[p] \in Restored => base[p] # None /\ tag[p] # None
       /\ step[p] \in {"put_object", "put_signature", "put_latest"} =>
            mine[p].created_at > base[p].created_at
  /\ \A p \in Readers : step[p] = "pointer" => base[p] = None
  /\ \A p \in Seeds :
       /\ step[p] \in {"stamp", "put_object", "put_signature", "head_latest"} => base[p] = None
       /\ step[p] \notin {"lock", "pointer", "object", "signature", "drive"}
       /\ step[p] = "put_latest" /\ tag[p] = None => base[p] = None

(* An etag that is still current is of the checkpoint it was taken with. *)
TagInv ==
  \A p \in Procs :
    tag[p] # None =>
      /\ base[p] # None
      /\ backend = "s3" => tag[p] = S3Etag(base[p])
      /\ backend = "git_branch" =>
           tag[p].commit <= commit /\ (tag[p].commit = commit => latest = base[p])

(* So is a working copy at a commit that is still the branch's head. *)
HeadInv ==
  \A p \in Loaders :
    FetchMayFail /\ workdir[p].latest # None =>
      /\ workdir[p].commit <= commit
      /\ workdir[p].commit = commit => latest = workdir[p].latest

(* A run that touches the store holds the lock, as far as it knows. *)
HeldInv == \A p \in Runs : step[p] \in Working => phase[p] = "held"

(* Somebody replaced the checkpoint the run restored. *)
Replaced(p) ==
  \E ptr \in installed :
    /\ ptr # base[p] /\ ptr.writer # p
    /\ \/ ptr.writer \in Seeds
       \/ ptr.writer \in Runs /\ (Overdue(p) \/ Overdue(ptr.writer))

ReplacedInv ==
  \A p \in Runs :
    /\ backend = "s3" /\ step[p] \in Restored => latest = base[p] \/ Replaced(p)
    /\ backend = "s3" /\ outcome[p] = "conflict" => Replaced(p)

-----------------------------------------------------------------------------
(* Where the processes start. *)
LEMMA StartingSteps ==
  ASSUME Init
  PROVE  /\ \A p \in Runs : step[p] \in {"lock", "done"}
         /\ \A p \in Seeds : step[p] \in {"stamp", "done"}
<1>1. PICK party \in Parties :
        step = [p \in Procs |-> CASE p \notin party -> "done"
                                  [] p \in party \cap Runs -> "lock"
                                  [] p \in party \cap Seeds -> "stamp"
                                  [] p \in party \cap Readers -> "pointer"]
  BY DEF Init
<1> QED
  BY <1>1, CapsuleConstants DEF Procs

LEMMA TagType ==
  ASSUME LockTypeOK, NEW ptr \in Pointers, NEW head \in Nat
  PROVE  /\ Etag(backend, ptr, head) # None
         /\ backend = "s3" => Etag(backend, ptr, head) = S3Etag(ptr)
         /\ backend = "git_branch" => Etag(backend, ptr, head).commit = head
BY CapsuleNames, LockConstants
   DEF LockTypeOK, Etag, S3Etag, GitEtag, PointerTags, Backends

LEMMA LatestTagType ==
  ASSUME TypeOK, latest # None
  PROVE  Etag(backend, latest, commit) # None
BY TagType DEF TypeOK, LockTypeOK

(* What a get answers about latest.json. *)
LEMMA AnswerType ==
  ASSUME TypeOK, HeadInv, NEW p \in Loaders, NEW tree \in Answers(p), tree.latest # None
  PROVE  /\ tree.latest \in Pointers /\ tree.commit \in Nat
         /\ Etag(backend, tree.latest, tree.commit) # None
         /\ backend = "s3" => tree = Branch(commit)
         /\ backend = "git_branch" =>
              /\ tree.commit <= commit
              /\ tree.commit = commit => latest = tree.latest
<1>1. tree.latest \in Pointers /\ tree.commit \in Nat /\ commit \in Nat
  BY TreeType DEF Trees, TypeOK, LockTypeOK
<1>2. Etag(backend, tree.latest, tree.commit) # None
  BY <1>1, TagType DEF TypeOK
<1>3. CASE tree = Branch(commit)
  BY <1>1, <1>2, <1>3 DEF Branch
<1>4. CASE FetchMayFail /\ tree = workdir[p]
  BY <1>1, <1>2, <1>4 DEF HeadInv, FetchMayFail
<1> QED
  BY <1>3, <1>4 DEF Answers

LEMMA HeadStep ==
  TypeOK /\ HeadInv /\ [Next]_vars => HeadInv'
<1> SUFFICES ASSUME TypeOK, HeadInv, [Next]_vars, NEW q \in Loaders,
                    FetchMayFail', workdir'[q].latest # None
             PROVE  /\ workdir'[q].commit <= commit'
                    /\ workdir'[q].commit = commit' => latest' = workdir'[q].latest
  BY DEF HeadInv
<1>1. /\ FetchMayFail /\ backend = "git_branch" /\ commit \in Nat /\ commit' \in Nat
      /\ commit <= commit' /\ (latest' # latest => commit' > commit)
  BY CommitsGrow DEF FetchMayFail
<1>2. ASSUME NEW c \in Nat, c <= commit, c = commit => latest = workdir'[q].latest,
             workdir'[q].commit = c
      PROVE  /\ workdir'[q].commit <= commit'
             /\ workdir'[q].commit = commit' => latest' = workdir'[q].latest
  BY <1>1, <1>2
<1>3. CASE workdir'[q] = workdir[q]
  BY <1>1, <1>2, <1>3 DEF HeadInv, TypeOK, Trees
<1>4. ASSUME NEW p \in Loaders, NEW tree \in Answers(p), Keep(p, tree)
      PROVE  /\ workdir'[q].commit <= commit'
             /\ workdir'[q].commit = commit' => latest' = workdir'[q].latest
  <2>1. workdir'[q] = workdir[q] \/ workdir'[q] = tree
    BY <1>1, <1>4 DEF Keep, TypeOK
  <2> QED
    BY <1>1, <1>2, <1>3, <2>1, AnswerType
<1>5. ASSUME NEW p \in Loaders, Keep(p, Orphan)
      PROVE  workdir'[q] = workdir[q]
  BY <1>1, <1>5 DEF Keep, TypeOK, Orphan
<1>6. ASSUME NEW p \in Runs, Acquire(p)
      PROVE  /\ workdir'[q].commit <= commit'
             /\ workdir'[q].commit = commit' => latest' = workdir'[q].latest
  <2>1. workdir'[q] = workdir[q] \/ workdir'[q] = Branch(commit')
    BY <1>1, <1>6 DEF Acquire, Keep, TypeOK, Loaders
  <2>2. latest' = latest
    BY <1>6 DEF Acquire, storeVars
  <2> QED
    BY <1>1, <1>3, <2>1, <2>2 DEF Branch
<1> QED
  BY <1>3, <1>4, <1>5, <1>6, Effects DEF GetPointer, GetObject, GetSignature, Kill, Loaders

LEMMA BaseStep ==
  TypeOK /\ NowInv /\ StampInv /\ BaseInv /\ HeadInv /\ [Next]_vars => BaseInv'
<1> SUFFICES ASSUME TypeOK, NowInv, StampInv, BaseInv, HeadInv, [Next]_vars PROVE BaseInv'
  OBVIOUS
<1>0. /\ Procs = Runs \cup Seeds \cup Readers /\ Savers = Runs \cup Seeds
      /\ Loaders = Runs \cup Readers
      /\ Runs \cap (Seeds \cup Readers) = {} /\ Seeds \cap Readers = {}
  BY CapsuleConstants DEF Procs, Savers, Loaders
<1>1. ASSUME NEW q \in Runs
      PROVE  /\ step'[q] \in {"lock", "pointer"} => base'[q] = None
             /\ step'[q] # "head_latest"
             /\ step'[q] \in Restored => base'[q] # None /\ tag'[q] # None
  <2>1. CASE ~Acts(q)
    BY <1>0, <2>1, OthersWait DEF BaseInv
  <2>2. CASE GetPointer(q)
    BY <1>0, <2>2, AnswerType DEF GetPointer, Goto, Return, Restored, TypeOK
  <2>3. CASE Acts(q) /\ ~GetPointer(q)
    <3>1. base'[q] = base[q] /\ tag'[q] = tag[q]
      BY <1>0, <2>3, OwnBase DEF BaseInv, HeadLatest
    <3>2. /\ step'[q] \in {"lock", "pointer"} => step[q] \in {"lock", "pointer"}
          /\ step'[q] # "head_latest"
          /\ step'[q] \in Restored => step[q] \in Restored
      BY <1>0, <2>3 DEF BaseInv, Restored, Acts, TypeOK, Acquire, ReleaseLock, Kill, Drive, WriteHealth, GetPointer,
       GetObject, GetSignature, Stamp, PutObject, PutSignature, HeadLatest, PutLatest,
       PutLatestRefused, MirrorObject, MirrorSignature, MirrorLatest, StepFails, Goto, Return
    <3> QED
      BY <3>1, <3>2 DEF BaseInv
  <2> QED
    BY <2>1, <2>2, <2>3
<1>2. ASSUME NEW q \in Runs, step'[q] \in {"put_object", "put_signature", "put_latest"}
      PROVE  mine'[q].created_at > base'[q].created_at
  <2>1. CASE ~Acts(q)
    BY <1>0, <1>2, <2>1, OthersWait DEF BaseInv
  <2>2. CASE Stamp(q)
    BY <1>0, <1>2, <2>2 DEF Stamp, Goto, Return, TypeOK
  <2>3. CASE Acts(q) /\ ~Stamp(q)
    <3>1. step[q] \in {"put_object", "put_signature", "put_latest"}
      BY <1>0, <1>2, <2>3 DEF BaseInv, Acts, TypeOK, Acquire, ReleaseLock, Kill, Drive, WriteHealth, GetPointer,
       GetObject, GetSignature, Stamp, PutObject, PutSignature, HeadLatest, PutLatest,
       PutLatestRefused, MirrorObject, MirrorSignature, MirrorLatest, StepFails, Goto, Return
    <3>2. mine'[q] = mine[q] /\ base'[q] = base[q]
      BY <1>0, <2>3, <3>1, Effects DEF Stamp, GetPointer, HeadLatest, TypeOK
    <3> QED
      BY <3>1, <3>2 DEF BaseInv
  <2> QED
    BY <2>1, <2>2, <2>3
<1>3. ASSUME NEW q \in Readers, step'[q] = "pointer" PROVE base'[q] = None
  <2>1. CASE ~Acts(q)
    BY <1>0, <1>3, <2>1, OthersWait DEF BaseInv
  <2>2. CASE Acts(q)
    BY <1>0, <1>3, <2>2 DEF BaseInv, Acts, TypeOK, Acquire, ReleaseLock, Kill, Drive, WriteHealth, GetPointer,
       GetObject, GetSignature, Stamp, PutObject, PutSignature, HeadLatest, PutLatest,
       PutLatestRefused, MirrorObject, MirrorSignature, MirrorLatest, StepFails, Goto, Return
  <2> QED
    BY <2>1, <2>2
<1>4. ASSUME NEW q \in Seeds
      PROVE  /\ step'[q] \in {"stamp", "put_object", "put_signature", "head_latest"} => base'[q] = None
             /\ step'[q] \notin {"lock", "pointer", "object", "signature", "drive"}
             /\ step'[q] = "put_latest" /\ tag'[q] = None => base'[q] = None
  <2>1. CASE ~Acts(q)
    BY <1>0, <1>4, <2>1, OthersWait DEF BaseInv
  <2>2. CASE HeadLatest(q)
    BY <1>0, <2>2, LatestTagType DEF BaseInv, HeadLatest, Goto, TypeOK
  <2>3. CASE Acts(q) /\ ~HeadLatest(q)
    <3>1. base'[q] = base[q] /\ tag'[q] = tag[q]
      BY <1>0, <2>3, Effects DEF GetPointer, HeadLatest, TypeOK
    <3>2. /\ step'[q] \in {"stamp", "put_object", "put_signature", "head_latest"} =>
                step[q] \in {"stamp", "put_object", "put_signature", "head_latest"}
          /\ step'[q] \notin {"lock", "pointer", "object", "signature", "drive"}
          /\ step'[q] # "put_latest"
      BY <1>0, <2>3 DEF BaseInv, Acts, TypeOK, Acquire, ReleaseLock, Kill, Drive, WriteHealth, GetPointer,
       GetObject, GetSignature, Stamp, PutObject, PutSignature, HeadLatest, PutLatest,
       PutLatestRefused, MirrorObject, MirrorSignature, MirrorLatest, StepFails, Goto, Return
    <3> QED
      BY <3>1, <3>2 DEF BaseInv
  <2> QED
    BY <2>1, <2>2, <2>3
<1> QED
  BY <1>1, <1>2, <1>3, <1>4 DEF BaseInv

LEMMA TagStep ==
  TypeOK /\ TagInv /\ HeadInv /\ [Next]_vars => TagInv'
<1> SUFFICES ASSUME TypeOK, TagInv, HeadInv, [Next]_vars, NEW q \in Procs, tag'[q] # None
             PROVE  /\ base'[q] # None
                    /\ backend' = "s3" => tag'[q] = S3Etag(base'[q])
                    /\ backend' = "git_branch" =>
                         /\ tag'[q].commit <= commit'
                         /\ tag'[q].commit = commit' => latest' = base'[q]
  BY DEF TagInv
<1>1. CASE base'[q] = base[q] /\ tag'[q] = tag[q]
  <2>1. tag[q].commit \in Nat
    BY <1>1 DEF TypeOK, PointerTags
  <2> QED
    BY <1>1, <2>1, CommitsGrow DEF TagInv
<1>2. ASSUME NEW ptr \in Pointers, NEW head \in Nat,
             base'[q] = ptr, tag'[q] = Etag(backend, ptr, head),
             backend = "git_branch" => head <= commit /\ (head = commit => latest = ptr),
             UNCHANGED <<lockVars, storeVars>>
      PROVE  /\ base'[q] # None
             /\ backend' = "s3" => tag'[q] = S3Etag(base'[q])
             /\ backend' = "git_branch" =>
                  /\ tag'[q].commit <= commit'
                  /\ tag'[q].commit = commit' => latest' = base'[q]
  <2>1. ptr # None /\ backend' = backend /\ commit' = commit /\ latest' = latest
    BY <1>2, CapsuleNames DEF lockVars, storeVars
  <2> QED
    BY <1>2, <2>1, TagType DEF TypeOK
<1>3. ASSUME NEW p \in Loaders, GetPointer(p)
      PROVE  \/ base'[q] = base[q] /\ tag'[q] = tag[q]
             \/ \E ptr \in Pointers, head \in Nat :
                  /\ base'[q] = ptr /\ tag'[q] = Etag(backend, ptr, head)
                  /\ backend = "git_branch" => head <= commit /\ (head = commit => latest = ptr)
                  /\ UNCHANGED <<lockVars, storeVars>>
  <2>1. PICK tree \in Answers(p) :
          \/ UNCHANGED <<base, tag>>
          \/ /\ tree.latest # None
             /\ base' = [base EXCEPT ![p] = tree.latest]
             /\ tag' = [tag EXCEPT ![p] = Etag(backend, tree.latest, tree.commit)]
    BY <1>3 DEF GetPointer
  <2>2. UNCHANGED <<lockVars, storeVars>>
    BY <1>3 DEF GetPointer
  <2> QED
    BY <2>1, <2>2, AnswerType DEF TypeOK
<1>4. ASSUME NEW p \in Savers, HeadLatest(p), latest # None
      PROVE  \/ base'[q] = base[q] /\ tag'[q] = tag[q]
             \/ /\ base'[q] = latest /\ tag'[q] = Etag(backend, latest, commit)
                /\ UNCHANGED <<lockVars, storeVars>>
  BY <1>4 DEF HeadLatest, TypeOK
<1>5. ASSUME NEW p \in Savers, HeadLatest(p), latest = None
      PROVE  base'[q] = base[q] /\ tag'[q] = tag[q]
  BY <1>5 DEF HeadLatest, TypeOK
<1>6. commit \in Nat /\ commit <= commit /\ (latest # None => latest \in Pointers)
  BY DEF TypeOK, LockTypeOK
<1> QED
  BY <1>1, <1>2, <1>3, <1>4, <1>5, <1>6, Effects

LEMMA RegisterInvCorrect == Spec => [](CheckpointInv /\ BaseInv /\ HeadInv /\ TagInv)
<1>1. Init => BaseInv /\ HeadInv /\ TagInv
  <2> SUFFICES ASSUME Init PROVE BaseInv /\ HeadInv /\ TagInv
    OBVIOUS
  <2>2. \A p \in Procs : base[p] = None /\ tag[p] = None
    BY DEF Init
  <2>1. /\ \A p \in Runs : step[p] \in {"lock", "done"}
        /\ \A p \in Seeds : step[p] \in {"stamp", "done"}
    BY StartingSteps
  <2>3. \A p \in Loaders : workdir[p].latest = None
    BY DEF Init, Orphan
  <2> QED
    BY <2>1, <2>2, <2>3 DEF BaseInv, HeadInv, TagInv, Restored, Procs
<1>2. /\ CheckpointInv /\ BaseInv /\ HeadInv /\ TagInv /\ [Next]_vars
      => BaseInv' /\ HeadInv' /\ TagInv'
  BY BaseStep, HeadStep, TagStep DEF CheckpointInv
<1> QED
  BY <1>1, <1>2, CheckpointCorrect, PTL DEF Spec

-----------------------------------------------------------------------------
(* A conditional put replaces the checkpoint its process looked at. *)
LEMMA PutReplacesOwn ==
  ASSUME TypeOK, TagInv, BaseInv, NEW p \in Savers, PutLatest(p)
  PROVE  latest = base[p] /\ (p \in Runs => latest # None)
<1>1. /\ CondPutOk(backend, latest, commit, tag[p]) /\ step[p] = "put_latest"
      /\ backend \in Backends /\ commit \in Nat /\ p \in Procs
      /\ p \in Runs \/ p \in Seeds
  BY LockConstants DEF PutLatest, TypeOK, LockTypeOK, Savers, Procs
<1>2. CASE tag[p] = None
  <2>1. p \in Seeds \ Runs /\ base[p] = None
    BY <1>1, <1>2 DEF BaseInv, Restored
  <2>2. latest = None
    BY <1>1, <1>2 DEF CondPutOk, S3Accepts, GitAccepts
  <2> QED
    BY <2>1, <2>2
<1>3. CASE tag[p] # None /\ backend = "s3"
  <2>1. latest # None /\ S3Etag(base[p]) = S3Etag(latest)
    BY <1>1, <1>3 DEF CondPutOk, S3Accepts, TagInv
  <2> QED
    BY <2>1 DEF S3Etag
<1>4. CASE tag[p] # None /\ backend = "git_branch"
  <2>1. tag[p].commit = commit
    BY <1>1, <1>4 DEF CondPutOk, GitAccepts, GitEtag
  <2> QED
    BY <1>1, <1>4, <2>1 DEF TagInv
<1> QED
  BY <1>1, <1>2, <1>3, <1>4 DEF Backends

(***************************************************************************)
(* The capsule implements the register: whatever the interleaving of runs  *)
(* (under good or expired leases), seeds, kills, failing calls and answers *)
(* from an old working copy, nobody replaces a checkpoint it has not       *)
(* looked at, no run goes back in time, and nobody writes twice.           *)
(***************************************************************************)
THEOREM ImplementsRegisterHolds == Spec => ImplementsRegister
<1>1. Init => Register!Init
  BY DEF Init, Register!Init
<1>2. /\ CheckpointInv /\ BaseInv /\ HeadInv /\ TagInv /\ [Next]_vars
      => [Register!Next]_(Register!regVars)
  <2> SUFFICES ASSUME CheckpointInv, BaseInv, HeadInv, TagInv, [Next]_vars
               PROVE  Register!Next \/ UNCHANGED <<latest, base, installed>>
    BY DEF Register!regVars
  <2>0. TypeOK /\ StampInv /\ InstalledInv /\ InstalledInv'
    BY InstalledStep DEF CheckpointInv
  <2>1. ASSUME NEW p \in Savers, PutLatest(p) PROVE Register!Next
    <3>1. /\ mine[p] # None /\ mine[p].writer = p /\ latest' = mine[p] /\ base' = base
          /\ installed' = installed \cup {mine[p]} /\ step[p] = "put_latest"
      BY <2>0, <2>1 DEF PutLatest, StampInv, Uploaded, Signed
    <3>2. p # EarlierRun
      BY LockNames, CapsuleConstants DEF Savers
    <3>3. \A ptr \in installed : ptr.writer # p
      BY <2>0, <3>1, <3>2 DEF InstalledInv, EarlierPointer, Mirroring, Ending
    <3>4. latest = base[p] /\ (p \in Runs => latest # None)
      BY <2>0, <2>1, PutReplacesOwn
    <3>5. Register!Install(p)
      BY <3>1, <3>3, <3>4 DEF Register!Install
    <3>6. CASE p \in Runs
      <4>1. latest'.created_at > latest.created_at
        BY <3>1, <3>4, <3>6 DEF BaseInv
      <4>2. Register!Replace(p)
        BY <3>4, <3>5, <3>6, <4>1 DEF Register!Replace
      <4> QED
        BY <3>6, <4>2 DEF Register!Next
    <3>7. CASE p \in Seeds
      BY <3>5, <3>7 DEF Register!Next
    <3> QED
      BY <3>6, <3>7 DEF Savers
  <2>2. ASSUME NEW p \in Procs, UNCHANGED storeVars, base[p] = None,
               NEW found, base' = [base EXCEPT ![p] = found], base'[p] = found
        PROVE  Register!Next \/ UNCHANGED <<latest, base, installed>>
    <3>1. CASE found = None
      BY <2>0, <2>2, <3>1 DEF storeVars, TypeOK
    <3>2. CASE found # None
      <4>1. found \in installed
        BY <2>0, <2>2, <3>2 DEF storeVars, InstalledInv
      <4> QED
        BY <2>2, <4>1 DEF storeVars, Register!Load, Register!Next
    <3> QED
      BY <3>1, <3>2
  <2>3. ASSUME NEW p \in Loaders, GetPointer(p)
        PROVE  Register!Next \/ UNCHANGED <<latest, base, installed>>
    <3>1. base[p] = None /\ p \in Procs /\ UNCHANGED storeVars
      BY <2>3 DEF GetPointer, BaseInv, Loaders, Procs
    <3>2. \/ base' = base
          \/ \E tree \in Answers(p) : base' = [base EXCEPT ![p] = tree.latest]
      BY <2>3 DEF GetPointer
    <3>3. CASE base' = base
      BY <3>1, <3>3 DEF storeVars
    <3>4. ASSUME NEW tree \in Answers(p), base' = [base EXCEPT ![p] = tree.latest]
          PROVE  Register!Next \/ UNCHANGED <<latest, base, installed>>
      <4>1. base'[p] = tree.latest
        BY <2>0, <3>1, <3>4 DEF TypeOK
      <4> QED
        BY <2>2, <3>1, <3>4, <4>1
    <3> QED
      BY <3>2, <3>3, <3>4
  <2>4. ASSUME NEW p \in Savers, HeadLatest(p)
        PROVE  Register!Next \/ UNCHANGED <<latest, base, installed>>
    <3>1. base[p] = None /\ p \in Procs /\ UNCHANGED storeVars
      BY <2>4 DEF HeadLatest, BaseInv, Savers, Procs
    <3>2. CASE base' = base
      BY <3>1, <3>2 DEF storeVars
    <3>3. CASE base' = [base EXCEPT ![p] = latest]
      <4>1. base'[p] = latest
        BY <2>0, <3>1, <3>3 DEF TypeOK
      <4> QED
        BY <2>2, <3>1, <3>3, <4>1
    <3> QED
      BY <2>4, <3>2, <3>3 DEF HeadLatest
  <2>5. CASE UNCHANGED <<latest, installed, base>>
    BY <2>5
  <2> QED
    BY <2>1, <2>3, <2>4, <2>5, Effects DEF PutLatest, GetPointer, HeadLatest, storeVars
<1> QED
  BY <1>1, <1>2, RegisterInvCorrect, PTL DEF Spec, ImplementsRegister, Register!Spec

-----------------------------------------------------------------------------
(* Only a run's own acquire, release or death moves its lock phase. *)
LEMMA PhaseSteps ==
  ASSUME TypeOK, [Next]_vars, NEW p \in Runs
  PROVE  /\ \/ phase'[p] = phase[p] /\ asked'[p] = asked[p]
            \/ Acquire(p) \/ ReleaseLock(p) \/ Kill(p)
         /\ phase[p] # "idle" => phase'[p] # "idle" /\ asked'[p] = asked[p]
         /\ now \in Nat /\ now' \in Nat /\ now' >= now
<1>1. /\ asked \in [Runs -> Nat] /\ phase \in [Runs -> Phases] /\ now \in Nat
  BY DEF TypeOK, LockTypeOK
<1>2. ASSUME NEW q \in Runs, Acquiring(q) \/ Release(q) \/ Crash(q)
      PROVE  /\ now' = now
             /\ q # p => phase'[p] = phase[p] /\ asked'[p] = asked[p]
             /\ phase[p] # "idle" => phase'[p] # "idle" /\ asked'[p] = asked[p]
  BY <1>1, <1>2 DEF Acquiring, Begin, Head, HeadUnfetched, Get, GetUnfetched, Put, PutRefused, AcquireError,
       Release, Crash, Trying
<1>3. CASE Tick \/ OtherWrite \/ UNCHANGED lockVars \/ (KeyWritten /\ UNCHANGED lockButCommit)
  BY <1>1, <1>3 DEF Tick, OtherWrite, lockVars, lockButCommit
<1>4. \/ Tick \/ OtherWrite \/ UNCHANGED lockVars \/ (KeyWritten /\ UNCHANGED lockButCommit)
      \/ \E q \in Runs : /\ Acquire(q) \/ ReleaseLock(q) \/ Kill(q)
                         /\ Acquiring(q) \/ Release(q) \/ Crash(q)
  <2>1. ASSUME NEW q \in Procs, Acts(q), ~(q \in Runs /\ (Acquire(q) \/ ReleaseLock(q) \/ Kill(q)))
        PROVE  UNCHANGED lockVars \/ (KeyWritten /\ UNCHANGED lockButCommit)
    BY <2>1 DEF Acts, lockVars, lockButCommit, Drive, WriteHealth, GetPointer, GetObject,
       GetSignature, Stamp, PutObject, PutSignature, HeadLatest, PutLatest, PutLatestRefused,
       MirrorObject, MirrorSignature, MirrorLatest, StepFails
  <2>2. \A q \in Runs : /\ Acquire(q) => Acquiring(q)
                        /\ ReleaseLock(q) => Release(q)
                        /\ Kill(q) => Crash(q)
    BY DEF Acquire, ReleaseLock, Kill
  <2>3. UNCHANGED vars \/ Environment => Tick \/ OtherWrite \/ UNCHANGED lockVars
    BY DEF vars, Environment
  <2>4. UNCHANGED vars \/ Environment \/ \E q \in Procs : Acts(q)
    BY NextCases DEF Acts, Procs, Savers, Loaders
  <2> QED
    BY <2>1, <2>2, <2>3, <2>4
<1> QED
  BY <1>1, <1>2, <1>3, <1>4

LEMMA HeldStep ==
  TypeOK /\ BaseInv /\ HeldInv /\ [Next]_vars => HeldInv'
<1> SUFFICES ASSUME TypeOK, BaseInv, HeldInv, [Next]_vars, NEW p \in Runs,
                    step'[p] \in Working
             PROVE  phase'[p] = "held"
  BY DEF HeldInv
<1>0. p \in Procs
  BY DEF Procs
<1>1. CASE Acquire(p)
  BY <1>0, <1>1 DEF Acquire, Goto, TypeOK, Working, Restored, Mirroring, Trying
<1>2. CASE ReleaseLock(p) \/ Kill(p)
  BY <1>0, <1>2 DEF ReleaseLock, Kill, Goto, TypeOK, Working, Restored, Mirroring
<1>3. CASE ~Acquire(p) /\ ~ReleaseLock(p) /\ ~Kill(p)
  <2>1. step[p] \in Working
    <3>1. CASE ~Acts(p)
      BY <1>0, <3>1, OthersWait
    <3>2. CASE Acts(p)
      BY <1>0, <1>3, <3>2 DEF BaseInv, Working, Restored, Mirroring, Acts, TypeOK, Acquire, ReleaseLock, Kill, Drive, WriteHealth, GetPointer,
       GetObject, GetSignature, Stamp, PutObject, PutSignature, HeadLatest, PutLatest,
       PutLatestRefused, MirrorObject, MirrorSignature, MirrorLatest, StepFails, Goto, Return
    <3> QED
      BY <3>1, <3>2
  <2> QED
    BY <1>3, <2>1, PhaseSteps DEF HeldInv
<1> QED
  BY <1>1, <1>2, <1>3

LEMMA HeldCorrect == Spec => []HeldInv
<1>1. Init => HeldInv
  BY StartingSteps DEF HeldInv, Working, Restored, Mirroring
<1>2. CheckpointInv /\ BaseInv /\ HeldInv /\ [Next]_vars => HeldInv'
  BY HeldStep DEF CheckpointInv
<1> QED
  BY <1>1, <1>2, RegisterInvCorrect, PTL DEF Spec

LEMMA OverdueStays ==
  ASSUME TypeOK, [Next]_vars, NEW p \in Runs, Overdue(p)
  PROVE  Overdue(p)'
<1>1. asked[p] \in Nat /\ TTL \in Nat /\ MaxSkew \in Nat
  BY LockConstants DEF TypeOK, LockTypeOK
<1> QED
  BY <1>1, PhaseSteps DEF Overdue, LockBody

LEMMA ReplacedStays ==
  ASSUME TypeOK, NowInv, StampInv, InstalledInv, [Next]_vars, NEW p \in Runs,
         Replaced(p), base'[p] = base[p]
  PROVE  Replaced(p)'
BY OverdueStays, InstalledStep DEF Replaced

LEMMA ReplacedStep ==
  /\ CheckpointInv /\ BaseInv /\ HeadInv /\ TagInv /\ HeldInv /\ MutualExclusion /\ ReplacedInv
  /\ [Next]_vars
  => ReplacedInv'
<1> SUFFICES ASSUME CheckpointInv, BaseInv, HeadInv, TagInv, HeldInv, MutualExclusion, ReplacedInv,
                    [Next]_vars, NEW p \in Runs
             PROVE  /\ backend' = "s3" /\ step'[p] \in Restored =>
                         latest' = base'[p] \/ Replaced(p)'
                    /\ backend' = "s3" /\ outcome'[p] = "conflict" => Replaced(p)'
  BY DEF ReplacedInv
<1>0. /\ TypeOK /\ NowInv /\ StampInv /\ InstalledInv /\ OutcomeInv
      /\ p \in Procs /\ p \in Savers /\ p \in Loaders
  BY DEF CheckpointInv, Procs, Savers, Loaders
<1>1. ASSUME backend' = "s3", step'[p] \in Restored PROVE latest' = base'[p] \/ Replaced(p)'
  <2>0. backend = "s3"
    BY <1>0, <1>1, CommitsGrow
  <2>1. CASE GetPointer(p)
    <3>1. \A tree \in Answers(p) : tree.latest = latest
      BY <2>0 DEF Answers, Branch, FetchMayFail
    <3> QED
      BY <1>0, <1>1, <2>1, <3>1 DEF GetPointer, storeVars, Goto, Return, Restored, TypeOK
  <2>2. CASE ~GetPointer(p)
    <3>1. step[p] \in Restored
      <4>1. CASE ~Acts(p)
        BY <1>0, <1>1, <4>1, OthersWait
      <4>2. CASE Acts(p)
        BY <1>0, <1>1, <2>2, <4>2 DEF BaseInv, Restored, Acts, TypeOK, Acquire, ReleaseLock, Kill, Drive, WriteHealth, GetPointer,
       GetObject, GetSignature, Stamp, PutObject, PutSignature, HeadLatest, PutLatest,
       PutLatestRefused, MirrorObject, MirrorSignature, MirrorLatest, StepFails, Goto, Return
      <4> QED
        BY <4>1, <4>2
    <3>2. base'[p] = base[p]
      BY <1>0, <2>2, Effects DEF BaseInv, GetPointer, HeadLatest, TypeOK
    <3>3. CASE Replaced(p)
      BY <1>0, <3>2, <3>3, ReplacedStays
    <3>4. CASE latest' = latest /\ ~Replaced(p)
      BY <2>0, <3>1, <3>2, <3>4 DEF ReplacedInv
    <3>5. ASSUME NEW q \in Savers, PutLatest(q) PROVE Replaced(p)'
      <4>1. /\ mine[q] # None /\ mine[q].writer = q /\ mine[q] \in installed'
            /\ step[q] = "put_latest" /\ UNCHANGED lockButCommit
        BY <1>0, <3>5 DEF PutLatest, StampInv, Uploaded, Signed
      <4>2. q # p
        BY <1>0, <1>1, <3>5 DEF PutLatest, Goto, Return, Restored, TypeOK
      <4>3. mine[q] # base[p]
        <5>1. base[p] # None
          BY <3>1 DEF BaseInv
        <5> QED
          BY <1>0, <4>1, <5>1, LockNames, CapsuleConstants
             DEF InstalledInv, EarlierPointer, Mirroring, Ending, Savers
      <4>4. CASE q \in Seeds
        BY <3>2, <4>1, <4>2, <4>3, <4>4 DEF Replaced
      <4>5. CASE q \in Runs
        <5>1. phase[p] = "held" /\ phase[q] = "held"
          BY <3>1, <4>1, <4>5 DEF HeldInv, Working, Restored
        <5>2. Overdue(p) \/ Overdue(q)
          <6>1. /\ asked[p] \in Nat /\ asked[q] \in Nat /\ now \in Nat
                /\ TTL \in Nat /\ MaxSkew \in Nat
            BY <1>0, <4>5, LockConstants DEF TypeOK, LockTypeOK
          <6> QED
            BY <4>2, <4>5, <5>1, <6>1 DEF MutualExclusion, Live, Overdue, LockBody
        <5>3. Overdue(p)' \/ Overdue(q)'
          BY <1>0, <4>5, <5>2, OverdueStays
        <5> QED
          BY <3>2, <4>1, <4>2, <4>3, <4>5, <5>3 DEF Replaced
      <4> QED
        BY <4>4, <4>5 DEF Savers
    <3> QED
      BY <3>3, <3>4, <3>5, Effects
  <2> QED
    BY <2>1, <2>2
<1>2. ASSUME backend' = "s3", outcome'[p] = "conflict" PROVE Replaced(p)'
  <2>0. backend = "s3"
    BY <1>0, <1>2, CommitsGrow
  <2>1. CASE outcome[p] = "conflict"
    <3>1. step[p] \in Ending
      BY <1>0, <2>1 DEF OutcomeInv
    <3>2. base'[p] = base[p]
      BY <1>0, <3>1, Effects DEF GetPointer, HeadLatest, TypeOK, Ending
    <3> QED
      BY <1>0, <2>0, <2>1, <3>2, ReplacedStays DEF ReplacedInv
  <2>2. CASE outcome[p] # "conflict"
    <3>1. PutLatestRefused(p)
      <4>1. Acts(p)
        BY <1>0, <1>2, <2>2, OthersWait
      <4> QED
        BY <1>0, <1>2, <2>2, <4>1 DEF Acts, TypeOK, Acquire, ReleaseLock, Kill, Drive, WriteHealth, GetPointer,
       GetObject, GetSignature, Stamp, PutObject, PutSignature, HeadLatest, PutLatest,
       PutLatestRefused, MirrorObject, MirrorSignature, MirrorLatest, StepFails, Goto, Return
    <3>2. step[p] = "put_latest" /\ base' = base /\ ~S3Accepts(latest, tag[p])
      BY <2>0, <3>1 DEF PutLatestRefused, CondPutOk
    <3>3. base[p] # None /\ tag[p] # None /\ tag[p] = S3Etag(base[p])
      BY <1>0, <2>0, <3>2 DEF BaseInv, TagInv, Restored
    <3>4. latest # base[p]
      BY <3>2, <3>3 DEF S3Accepts
    <3> QED
      BY <1>0, <2>0, <3>2, <3>4, ReplacedStays DEF ReplacedInv, Restored
  <2> QED
    BY <2>1, <2>2
<1> QED
  BY <1>1, <1>2

(***************************************************************************)
(* On s3, the closing CAS of a run is refused only because a seed, or a    *)
(* run that held the lock at the same time, one of the two with an expired *)
(* lease, replaced the checkpoint it restored.                             *)
(***************************************************************************)
THEOREM ConflictHasCauseHolds ==
  ASSUME Commits = Nat, ~BlindDelete
  PROVE  Spec => []ConflictHasCause
<1>1. Init => ReplacedInv
  <2> SUFFICES ASSUME Init PROVE ReplacedInv
    OBVIOUS
  <2>1. \A p \in Runs : step[p] \in {"lock", "done"} /\ outcome[p] = "none"
    BY StartingSteps DEF Init, Procs
  <2> QED
    BY <2>1 DEF ReplacedInv, Restored
<1>2. ReplacedInv => ConflictHasCause
  BY DEF ReplacedInv, Replaced, ConflictHasCause
<1> QED
  BY <1>1, <1>2, ReplacedStep, HeldCorrect, RegisterInvCorrect, CapsuleMutualExclusion, PTL
     DEF Spec

-----------------------------------------------------------------------------
(* A run outlived its lease, or a seed took part. *)
Excused == (\E p \in Runs : Overdue(p)) \/ (\E s \in Seeds : mine[s] # None)

(* It installed its pointer, and has yet to fan it out or never will. *)
Owes(p) ==
  /\ mine[p] # None /\ mine[p] \in installed
  /\ step[p] \in Mirroring \/ outcome[p] # "saved"

(* Without either, the run that fans out is the last that saved, and a mirror
   that lags waits for a run that is still at it, or that will not come. *)
FanOutInv ==
  ~Excused =>
    /\ \A p \in Runs : step[p] \in Mirroring => latest = mine[p]
    /\ \A m \in Mirrors \ missed :
         mLatest[m] = latest \/ \E p \in Runs : Owes(p)

LEMMA ExcusedStays ==
  ASSUME TypeOK, NowInv, StampInv, [Next]_vars, Excused
  PROVE  Excused'
BY OverdueStays, StampStep DEF Excused, Savers

(* Two runs do not both work under good leases. *)
LEMMA OneWorks ==
  ASSUME TypeOK, HeldInv, MutualExclusion, ~Excused, NEW p \in Runs, NEW q \in Runs,
         step[p] \in Working, step[q] \in Working
  PROVE  p = q
<1>1. phase[p] = "held" /\ phase[q] = "held"
  BY DEF HeldInv
<1>2. /\ asked[p] \in Nat /\ asked[q] \in Nat /\ now \in Nat
      /\ TTL \in Nat /\ MaxSkew \in Nat
  BY LockConstants DEF TypeOK, LockTypeOK
<1> QED
  BY <1>1, <1>2 DEF MutualExclusion, Live, Excused, Overdue, LockBody

LEMMA FanOutStep ==
  CheckpointInv /\ HeldInv /\ MutualExclusion /\ FanOutInv /\ [Next]_vars => FanOutInv'
<1> SUFFICES ASSUME CheckpointInv, HeldInv, MutualExclusion, FanOutInv, [Next]_vars, ~Excused'
             PROVE  /\ \A p \in Runs : step'[p] \in Mirroring => latest' = mine'[p]
                    /\ \A m \in Mirrors \ missed' :
                         mLatest'[m] = latest' \/ \E p \in Runs : Owes(p)'
  BY DEF FanOutInv
<1>0. /\ TypeOK /\ NowInv /\ StampInv /\ InstalledInv /\ OutcomeInv /\ ~Excused
      /\ Runs \subseteq Savers /\ Savers \subseteq Procs
  BY ExcusedStays DEF CheckpointInv, Procs, Savers
<1>1. ASSUME NEW p \in Savers, step[p] \in {"put_latest"} \cup Mirroring
      PROVE  p \in Runs /\ mine[p] # None /\ step[p] \in Working
  BY <1>0, <1>1 DEF StampInv, Uploaded, Signed, Excused, Savers, Working, Restored
<1>2. ASSUME NEW q \in Runs, step'[q] \in Mirroring PROVE latest' = mine'[q]
  <2>1. CASE PutLatest(q)
    BY <2>1 DEF PutLatest
  <2>2. CASE ~PutLatest(q)
    <3>1. step[q] \in Mirroring
      <4>1. CASE ~Acts(q)
        BY <1>0, <1>2, <4>1, OthersWait
      <4>2. CASE Acts(q)
        BY <1>0, <1>2, <2>2, <4>2 DEF Mirroring, Acts, TypeOK, Acquire, ReleaseLock, Kill, Drive, WriteHealth, GetPointer,
       GetObject, GetSignature, Stamp, PutObject, PutSignature, HeadLatest, PutLatest,
       PutLatestRefused, MirrorObject, MirrorSignature, MirrorLatest, StepFails, Goto, Return
      <4> QED
        BY <4>1, <4>2
    <3>2. mine'[q] = mine[q]
      BY <1>0, <1>1, <3>1, StampStep
    <3>3. \A p \in Savers : ~PutLatest(p)
      BY <1>0, <1>1, <2>2, <3>1, OneWorks DEF PutLatest
    <3> QED
      BY <1>0, <3>1, <3>2, <3>3, Effects DEF FanOutInv
  <2> QED
    BY <2>1, <2>2
<1>3. ASSUME NEW m \in Mirrors \ missed'
      PROVE  mLatest'[m] = latest' \/ \E p \in Runs : Owes(p)'
  <2>1. m \notin missed
    <3>1. missed' = missed \/ missed \subseteq missed'
      BY NextCases DEF vars, mirrorVars, Environment, Acquire, ReleaseLock, Kill,
         Drive, WriteHealth, GetPointer, GetObject, GetSignature, Stamp, PutObject, PutSignature,
         HeadLatest, PutLatest, PutLatestRefused, MirrorObject, MirrorSignature, MirrorLatest,
         StepFails, Reached
    <3> QED
      BY <3>1
  <2>2. ASSUME NEW p \in Savers, MirrorLatest(p) PROVE mLatest'[m] = latest'
    <3>1. mLatest'[m] = mine[p]
      BY <1>3, <2>2 DEF MirrorLatest, Reached
    <3>2. latest = mine[p]
      BY <1>0, <1>1, <2>2 DEF FanOutInv, MirrorLatest, Mirroring
    <3> QED
      BY <2>2, <3>1, <3>2 DEF MirrorLatest, storeVars
  <2>3. ASSUME NEW p \in Savers, PutLatest(p)
        PROVE  \E r \in Runs : Owes(r)'
    <3>1. p \in Runs /\ mine[p] # None
      BY <1>1, <2>3 DEF PutLatest
    <3>2. mine'[p] = mine[p] /\ mine[p] \in installed'
      BY <2>3 DEF PutLatest
    <3>3. step'[p] \in Mirroring \/ outcome'[p] # "saved"
      BY <1>0, <1>3, <2>3 DEF PutLatest, Goto, Return, Mirroring, TypeOK
    <3> QED
      BY <3>1, <3>2, <3>3 DEF Owes
  <2>4. CASE mLatest' = mLatest /\ latest' = latest /\ \A p \in Savers : ~MirrorLatest(p)
    <3>1. CASE mLatest[m] = latest
      BY <2>4, <3>1
    <3>2. CASE mLatest[m] # latest
      <4>1. PICK r \in Runs : Owes(r)
        BY <1>0, <1>3, <2>1, <3>2 DEF FanOutInv
      <4>2. mine'[r] # None /\ mine'[r] \in installed'
        BY <1>0, <4>1, StampStep, InstalledStep DEF Owes
      <4>3. step'[r] \in Mirroring \/ outcome'[r] # "saved"
        <5>1. CASE ~Acts(r)
          BY <1>0, <4>1, <5>1, OthersWait DEF Owes
        <5>2. CASE Acts(r) /\ step[r] \in Mirroring
          BY <1>0, <2>4, <5>2 DEF OutcomeInv, Mirroring, Ending, Acts, TypeOK, Acquire, ReleaseLock, Kill, Drive, WriteHealth, GetPointer,
             GetObject, GetSignature, Stamp, PutObject, PutSignature, HeadLatest, PutLatest,
             PutLatestRefused, MirrorObject, MirrorSignature, MirrorLatest, StepFails, Goto, Return
        <5>3. CASE Acts(r) /\ step[r] \notin Mirroring
          <6>1. outcome[r] # "saved" /\ step[r] \in Ending
            BY <1>0, <4>1, <5>3 DEF Owes, OutcomeInv, Ending
          <6> QED
            BY <1>0, <5>3, <6>1 DEF Ending, Acts, TypeOK, Acquire, ReleaseLock, Kill, Drive, WriteHealth, GetPointer,
               GetObject, GetSignature, Stamp, PutObject, PutSignature, HeadLatest, PutLatest,
               PutLatestRefused, MirrorObject, MirrorSignature, MirrorLatest, StepFails, Goto, Return
        <5> QED
          BY <5>1, <5>2, <5>3
      <4> QED
        BY <4>2, <4>3 DEF Owes
    <3> QED
      BY <3>1, <3>2
  <2> QED
    BY <2>2, <2>3, <2>4, Effects
<1> QED
  BY <1>2, <1>3

(***************************************************************************)
(* When every process is through, a mirror that answered every write holds *)
(* the primary's pointer, if every writer lived to fan its pointer out     *)
(* within its lease and no seed took part.                                 *)
(***************************************************************************)
THEOREM MirrorsCatchUpHolds ==
  ASSUME Commits = Nat, ~BlindDelete
  PROVE  Spec => []MirrorsCatchUp
<1>1. Init => FanOutInv
  <2> SUFFICES ASSUME Init PROVE FanOutInv
    OBVIOUS
  <2>1. \A m \in Mirrors : mLatest[m] = latest
    BY DEF Init
  <2>2. \A p \in Runs : step[p] \in {"lock", "done"}
    BY StartingSteps
  <2> QED
    BY <2>1, <2>2 DEF FanOutInv, Mirroring
<1>2. CheckpointInv /\ FanOutInv => MirrorsCatchUp
  <2> SUFFICES ASSUME CheckpointInv, FanOutInv, ~Excused,
                      \A p \in Procs : step[p] = "done",
                      \A ptr \in installed :
                        ptr.writer = EarlierRun \/ outcome[ptr.writer] = "saved",
                      NEW m \in Mirrors \ missed
               PROVE  mLatest[m] = latest
    BY DEF MirrorsCatchUp, Excused
  <2>1. ASSUME NEW p \in Runs, mine[p] # None, mine[p] \in installed
        PROVE  step[p] \notin Mirroring /\ outcome[p] = "saved"
    <3>1. mine[p].writer = p /\ p # EarlierRun
      BY <2>1, LockNames DEF CheckpointInv, StampInv, Savers
    <3> QED
      BY <2>1, <3>1 DEF Mirroring, Procs
  <2> QED
    BY <2>1 DEF FanOutInv, Owes
<1> QED
  BY <1>1, <1>2, FanOutStep, HeldCorrect, CheckpointCorrect, CapsuleMutualExclusion, PTL DEF Spec
==============================================================================
