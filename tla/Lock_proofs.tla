----------------------------- MODULE Lock_proofs -----------------------------
(***************************************************************************)
(* Proofs about the lock for any set of runs, any TTL, any clock skew and  *)
(* both backends, with every failure of FaultKinds possible.               *)
(*                                                                         *)
(* The argument.  A conditional put replaces a lock only if the etag taken *)
(* by head is still current, but the expiry that was checked is that of    *)
(* the body a later get answered.  CasInv says the two are the same body   *)
(* whenever the put goes through: on s3 because no body is ever stored     *)
(* twice (WroteInv, EtagInv), on a git branch because commits only grow.   *)
(* Hence a lock is replaced only when expired (HolderInv), and two runs    *)
(* that hold live leases would both own the one lock.json.                 *)
(***************************************************************************)
EXTENDS Lock, TLAPS

(* A lock body is stored by its own run, once, in Put. *)
WroteInv ==
  \A p \in Runs :
    /\ phase[p] \in {"idle"} \cup Trying => p \notin wrote
    /\ phase[p] = "held" => p \in wrote

(* Readings of the clock are not from the future. *)
ClockInv == \A p \in Runs : asked[p] <= now + MaxSkew

(* Whoever wrote a body that is, or was seen, in lock.json is past its Put. *)
Stored(body) == body # None => body.run_id \in wrote \cup {EarlierRun}

(* Etags of head and of the guard are of the past: of a stored body on s3, of
   a commit up to the present one on a git branch. *)
Past(etag) ==
  /\ backend = "s3" => etag.content # None /\ Stored(etag.content)
  /\ backend = "git_branch" => etag.commit <= commit

EtagInv ==
  /\ Stored(lock)
  /\ \A p \in Runs :
       /\ phase[p] = "get" => seen[p] # None
       /\ seen[p] # None => Past(seen[p])
       /\ phase[p] = "held" => guard[p] # None /\ Past(guard[p])

(* If the swap of Put can go through now, the lock it replaces is the one
   whose expiry Get examined. *)
CasInv ==
  \A p \in Runs :
    phase[p] = "put" /\ seen[p] # None /\ seen[p] = Etag(backend, lock, commit)
      => lock # None /\ lock.expires_at <= asked[p]

(* If the delete of Release can go through now, the lock is the run's own. *)
GuardInv ==
  \A p \in Runs :
    phase[p] = "held" =>
      /\ backend = "s3" => guard[p].content = LockBody(p)
      /\ guard[p] = Etag(backend, lock, commit) => lock = LockBody(p)

(* A holder whose lock.json is gone or replaced has an expired lease. *)
HolderInv ==
  \A p \in Runs :
    phase[p] = "held" =>
      lock = LockBody(p) \/ LockBody(p).expires_at <= now + MaxSkew

LockInv == LockTypeOK /\ WroteInv /\ ClockInv /\ EtagInv /\ CasInv /\ GuardInv

-----------------------------------------------------------------------------
(* What the operators of the store yield on well-typed arguments. *)
LEMMA EtagType ==
  ASSUME NEW b \in Backends, NEW c \in LockBodies \cup {None}, NEW n \in Nat
  PROVE  /\ Etag(b, c, n) \in Etags
         /\ Etag(b, c, n) # None
         /\ AfterWrite(b, n) \in Nat
         /\ b = "git_branch" => AfterWrite(b, n) = n + 1
         /\ b = "s3" => AfterWrite(b, n) = n
         /\ b = "s3" => Etag(b, c, n).content = c
         /\ b = "git_branch" => Etag(b, c, n).commit = n
BY LockNames DEF Etag, S3Etag, GitEtag, Etags, AfterWrite, Backends

LEMMA BodyType ==
  ASSUME LockTypeOK, NEW p \in Runs
  PROVE  /\ LockBody(p) \in LockBodies
         /\ LockBody(p) # None
         /\ LockBody(p).run_id = p
         /\ LockBody(p).expires_at = asked[p] + TTL
BY LockNames, LockConstants DEF LockBody, LockBodies, LockTypeOK

(* Type correctness is inductive by itself. *)
LEMMA TypeInit == LockInit => LockTypeOK
<1> SUFFICES ASSUME LockInit PROVE LockTypeOK
  OBVIOUS
<1>1. TTL + MaxSkew \in Nat
  BY LockConstants
<1>2. lock \in LockBodies \cup {None}
  BY <1>1 DEF LockInit, LockBodies
<1> QED
  BY <1>2 DEF LockInit, LockTypeOK, Phases, Trying

LEMMA TypeStep == LockTypeOK /\ [LockNext]_lockVars => LockTypeOK'
<1> SUFFICES ASSUME LockTypeOK, [LockNext]_lockVars PROVE LockTypeOK'
  OBVIOUS
<1> USE DEF LockTypeOK
<1>0. backend \in Backends
  BY LockConstants
<1>1. CASE Tick
  BY <1>1 DEF Tick
<1>2. CASE OtherWrite
  BY <1>2 DEF OtherWrite
<1>3. ASSUME NEW p \in Runs, Begin(p) PROVE LockTypeOK'
  <2>1. PICK ahead \in 0 .. MaxSkew : asked' = [asked EXCEPT ![p] = now + ahead]
    BY <1>3 DEF Begin
  <2>2. now + ahead \in Nat
    BY LockConstants
  <2> QED
    BY <1>3, <2>1, <2>2 DEF Begin, Phases, Trying
<1>4. ASSUME NEW p \in Runs, Head(p) PROVE LockTypeOK'
  <2>1. Etag(backend, lock, commit) \in Etags
    BY <1>0, EtagType
  <2> QED
    BY <1>4, <2>1 DEF Head, Phases, Trying
<1>5. ASSUME NEW p \in Runs, HeadUnfetched(p) PROVE LockTypeOK'
  BY <1>5 DEF HeadUnfetched, Phases, Trying
<1>6. ASSUME NEW p \in Runs, Get(p) \/ GetUnfetched(p) PROVE LockTypeOK'
  BY <1>6 DEF Get, GetUnfetched, Phases, Trying, Refused
<1>7. ASSUME NEW p \in Runs, Put(p) PROVE LockTypeOK'
  <2>1. LockBody(p) \in LockBodies
    BY BodyType
  <2>2. AfterWrite(backend, commit) \in Nat
    BY <1>0, EtagType
  <2>3. lock' \in LockBodies /\ commit' \in Nat
    BY <1>7, <2>1, <2>2 DEF Put
  <2>4. Etag(backend, lock', commit') \in Etags
    BY <1>0, <2>3, EtagType
  <2> QED
    BY <1>7, <2>3, <2>4 DEF Put, Phases
<1>8. ASSUME NEW p \in Runs, PutRefused(p) PROVE LockTypeOK'
  BY <1>8 DEF PutRefused, Phases, Refused
<1>9. ASSUME NEW p \in Runs, AcquireError(p) PROVE LockTypeOK'
  BY <1>9 DEF AcquireError, Phases
<1>10. ASSUME NEW p \in Runs, Release(p) PROVE LockTypeOK'
  <2>1. AfterWrite(backend, commit) \in Nat
    BY <1>0, EtagType
  <2>2. lock' \in LockBodies \cup {None} /\ commit' \in Nat
    BY <1>10, <2>1 DEF Release
  <2> QED
    BY <1>10, <2>2 DEF Release, Phases
<1>11. ASSUME NEW p \in Runs, Crash(p) PROVE LockTypeOK'
  BY <1>11 DEF Crash, Phases
<1>12. CASE UNCHANGED lockVars
  BY <1>12 DEF lockVars
<1> QED
  BY <1>1, <1>2, <1>3, <1>4, <1>5, <1>6, <1>7, <1>8, <1>9, <1>10, <1>11, <1>12
     DEF LockNext, Acquiring

(* Every reachable state is well typed. *)
THEOREM LockTypeCorrect == LockSpec => []LockTypeOK
BY TypeInit, TypeStep, PTL DEF LockSpec

-----------------------------------------------------------------------------
LEMMA InvInit == LockInit => LockInv
<1> SUFFICES ASSUME LockInit PROVE LockInv
  OBVIOUS
<1>1. LockTypeOK
  BY TypeInit
<1>2. WroteInv /\ CasInv /\ GuardInv
  BY DEF LockInit, WroteInv, CasInv, GuardInv, Trying
<1>3. ClockInv
  BY LockConstants DEF LockInit, ClockInv
<1>4. EtagInv
  BY DEF LockInit, EtagInv, Stored
<1> QED
  BY <1>1, <1>2, <1>3, <1>4 DEF LockInv

(***************************************************************************)
(* The strengthened invariant is preserved by every step, whatever the     *)
(* backend does with a conditional DELETE.                                 *)
(***************************************************************************)
LEMMA InvStep == LockInv /\ [LockNext]_lockVars => LockInv'
<1> SUFFICES ASSUME LockInv, [LockNext]_lockVars PROVE LockInv'
  OBVIOUS
<1>a. LockTypeOK /\ LockTypeOK'
  BY TypeStep DEF LockInv
<1>b. backend \in Backends
  BY <1>a, LockConstants DEF LockTypeOK
<1>c. Etag(backend, lock, commit) \in Etags /\ Etag(backend, lock, commit) # None
  BY <1>a, <1>b, EtagType DEF LockTypeOK
<1>1. CASE Tick
  <2>1. WroteInv' /\ EtagInv' /\ CasInv' /\ GuardInv'
    BY <1>1 DEF LockInv, Tick, WroteInv, EtagInv, CasInv, GuardInv, Stored, Past, LockBody, Etag, S3Etag, GitEtag
  <2>2. ClockInv'
    BY <1>1, <1>a, LockConstants DEF LockInv, Tick, ClockInv, LockTypeOK
  <2> QED
    BY <1>a, <2>1, <2>2 DEF LockInv
<1>2. CASE OtherWrite
  <2>1. WroteInv' /\ ClockInv'
    BY <1>2 DEF LockInv, OtherWrite, WroteInv, ClockInv
  <2>2. EtagInv'
    BY <1>2, <1>a DEF LockInv, OtherWrite, EtagInv, Stored, Past, LockTypeOK, Etags
  <2>3. \A p \in Runs : /\ seen[p] # None => seen[p] # Etag(backend, lock', commit')
                        /\ phase[p] = "held" => guard[p] # Etag(backend, lock', commit')
    BY <1>2, <1>a DEF LockInv, OtherWrite, EtagInv, Past, LockTypeOK, Etags, Etag, S3Etag, GitEtag
  <2>4. CasInv' /\ GuardInv'
    BY <1>2, <2>3 DEF LockInv, OtherWrite, CasInv, GuardInv, LockBody
  <2> QED
    BY <1>a, <2>1, <2>2, <2>4 DEF LockInv
<1>3. ASSUME NEW q \in Runs, Begin(q) PROVE LockInv'
  <2>1. WroteInv' /\ EtagInv'
    BY <1>3, <1>a DEF LockInv, Begin, WroteInv, EtagInv, Stored, Past, LockTypeOK, Trying
  <2>2. ClockInv'
    BY <1>3, <1>a, LockConstants DEF LockInv, Begin, ClockInv, LockTypeOK
  <2>3. CasInv' /\ GuardInv'
    BY <1>3, <1>a DEF LockInv, Begin, CasInv, GuardInv, LockBody, LockTypeOK
  <2> QED
    BY <1>a, <2>1, <2>2, <2>3 DEF LockInv
<1>4. ASSUME NEW q \in Runs, Head(q) PROVE LockInv'
  <2>1. WroteInv' /\ ClockInv'
    BY <1>4, <1>a DEF LockInv, Head, WroteInv, ClockInv, LockTypeOK, Trying
  <2>2. lock # None => Past(Etag(backend, lock, commit))
    BY <1>a, <1>b DEF LockInv, EtagInv, Past, Etag, S3Etag, GitEtag, LockTypeOK, Backends
  <2>3. EtagInv'
    BY <1>4, <1>a, <1>c, <2>2 DEF LockInv, Head, EtagInv, Stored, Past, LockTypeOK
  <2>4. CasInv' /\ GuardInv'
    BY <1>4, <1>a DEF LockInv, Head, CasInv, GuardInv, LockBody, LockTypeOK
  <2> QED
    BY <1>a, <2>1, <2>3, <2>4 DEF LockInv
<1>5. ASSUME NEW q \in Runs, HeadUnfetched(q) PROVE LockInv'
  <2>1. WroteInv' /\ ClockInv'
    BY <1>5, <1>a DEF LockInv, HeadUnfetched, WroteInv, ClockInv, LockTypeOK, Trying
  <2>2. EtagInv' /\ CasInv' /\ GuardInv'
    BY <1>5, <1>a DEF LockInv, HeadUnfetched, EtagInv, CasInv, GuardInv, Stored, Past,
                      LockBody, LockTypeOK
  <2> QED
    BY <1>a, <2>1, <2>2 DEF LockInv
<1>6. ASSUME NEW q \in Runs, Get(q) \/ GetUnfetched(q) PROVE LockInv'
  <2>1. WroteInv' /\ ClockInv'
    BY <1>6, <1>a DEF LockInv, Get, GetUnfetched, WroteInv, ClockInv, LockTypeOK, Trying, Refused
  <2>2. EtagInv' /\ CasInv' /\ GuardInv'
    BY <1>6, <1>a DEF LockInv, Get, GetUnfetched, EtagInv, CasInv, GuardInv, Stored, Past,
                      LockBody, LockTypeOK
  <2> QED
    BY <1>a, <2>1, <2>2 DEF LockInv
<1>7. ASSUME NEW q \in Runs, Put(q) PROVE LockInv'
  <2>0. PICK f \in {"held", "failed"} : phase' = [phase EXCEPT ![q] = f]
    BY <1>7 DEF Put
  <2>1. WroteInv' /\ ClockInv'
    BY <1>7, <1>a, <2>0 DEF LockInv, Put, WroteInv, ClockInv, LockTypeOK, Trying
  <2>2. /\ lock' = LockBody(q) /\ lock' \in LockBodies /\ lock'.run_id = q /\ lock' # None
        /\ q \notin wrote /\ q # EarlierRun /\ wrote' = wrote \cup {q}
        /\ backend' = backend /\ commit \in Nat /\ commit' \in Nat
        /\ backend = "git_branch" => commit' = commit + 1
    BY <1>7, <1>a, <1>b, BodyType, EtagType, LockNames
       DEF Put, LockInv, WroteInv, Trying, LockTypeOK
  <2>3. \A etag \in Etags : Past(etag) => Past(etag)' /\ etag # Etag(backend, lock', commit')
    <3> SUFFICES ASSUME NEW etag \in Etags, Past(etag)
                 PROVE  Past(etag)' /\ etag # Etag(backend, lock', commit')
      OBVIOUS
    <3>1. CASE backend = "s3"
      BY <3>1, <2>2 DEF Past, Stored, Etag, S3Etag, GitEtag, Etags
    <3>2. CASE backend = "git_branch"
      BY <3>2, <2>2 DEF Past, Etag, S3Etag, GitEtag, Etags
    <3> QED
      BY <3>1, <3>2, <1>b DEF Backends
  <2>4. /\ Etag(backend, lock', commit') \in Etags /\ Etag(backend, lock', commit') # None
        /\ backend = "s3" => Etag(backend, lock', commit').content = lock'
        /\ Past(Etag(backend, lock, commit))'
    <3>1. Past(Etag(backend, lock, commit))'
      BY <1>7, <2>2, <1>b DEF Put, Past, Stored, Etag, S3Etag, GitEtag, Backends
    <3> QED
      BY <3>1, <2>2, <1>b, EtagType
  <2>5. EtagInv'
    <3>1. Stored(lock)'
      BY <2>2 DEF Stored
    <3> QED
      BY <1>7, <1>a, <2>0, <2>2, <2>3, <2>4, <3>1 DEF LockInv, EtagInv, Put, LockTypeOK
  <2>6. CasInv'
    BY <1>7, <1>a, <2>0, <2>2, <2>3 DEF LockInv, EtagInv, CasInv, Put, LockTypeOK
  <2>7. GuardInv'
    <3> SUFFICES ASSUME NEW p \in Runs, phase'[p] = "held"
                 PROVE  /\ backend' = "s3" => guard'[p].content = LockBody(p)'
                        /\ guard'[p] = Etag(backend, lock, commit)' => lock' = LockBody(p)'
      BY DEF GuardInv
    <3>1. LockBody(p)' = LockBody(p)
      BY <1>7 DEF Put, LockBody
    <3>2. CASE p = q
      <4>1. guard'[q] = Etag(backend, lock', commit')
        BY <1>7, <1>a, <3>2 DEF Put, LockTypeOK
      <4> QED
        BY <4>1, <3>1, <3>2, <2>2, <2>4
    <3>3. CASE p # q
      <4>1. phase[p] = "held" /\ guard'[p] = guard[p] /\ guard[p] \in Etags
        BY <1>7, <1>a, <2>0, <3>3 DEF Put, LockTypeOK, LockInv, EtagInv
      <4>2. guard[p] # Etag(backend, lock', commit')
        BY <4>1, <2>3 DEF LockInv, EtagInv
      <4> QED
        BY <4>1, <4>2, <3>1, <2>2 DEF LockInv, GuardInv
    <3> QED
      BY <3>2, <3>3
  <2> QED
    BY <1>a, <2>1, <2>5, <2>6, <2>7 DEF LockInv
<1>8. ASSUME NEW q \in Runs, PutRefused(q) PROVE LockInv'
  <2>1. WroteInv' /\ ClockInv'
    BY <1>8, <1>a DEF LockInv, PutRefused, WroteInv, ClockInv, LockTypeOK, Trying
  <2>2. EtagInv' /\ CasInv' /\ GuardInv'
    BY <1>8, <1>a DEF LockInv, PutRefused, EtagInv, CasInv, GuardInv, Stored, Past,
                      LockBody, LockTypeOK
  <2> QED
    BY <1>a, <2>1, <2>2 DEF LockInv
<1>9. ASSUME NEW q \in Runs, AcquireError(q) PROVE LockInv'
  <2>1. WroteInv' /\ ClockInv'
    BY <1>9, <1>a DEF LockInv, AcquireError, WroteInv, ClockInv, LockTypeOK, Trying
  <2>2. EtagInv' /\ CasInv' /\ GuardInv'
    BY <1>9, <1>a DEF LockInv, AcquireError, EtagInv, CasInv, GuardInv, Stored, Past,
                      LockBody, LockTypeOK
  <2> QED
    BY <1>a, <2>1, <2>2 DEF LockInv
<1>10. ASSUME NEW q \in Runs, Release(q) PROVE LockInv'
  <2>1. WroteInv' /\ ClockInv'
    BY <1>10, <1>a DEF LockInv, Release, WroteInv, ClockInv, LockTypeOK, Trying
  <2>2. CASE lock' = lock /\ commit' = commit
    BY <1>10, <1>a, <2>1, <2>2 DEF LockInv, Release, EtagInv, CasInv, GuardInv, Stored, Past,
                      LockBody, LockTypeOK
  <2>3. CASE lock # None /\ lock' = None /\ commit' = AfterWrite(backend, commit)
    <3>1. /\ backend' = backend /\ commit \in Nat /\ commit' \in Nat
          /\ backend = "git_branch" => commit' = commit + 1
      BY <1>10, <1>a, <1>b, <2>3, EtagType DEF Release, LockTypeOK
    <3>2. \A etag \in Etags : Past(etag) => Past(etag)' /\ etag # Etag(backend, lock', commit')
      <4> SUFFICES ASSUME NEW etag \in Etags, Past(etag)
                   PROVE  Past(etag)' /\ etag # Etag(backend, lock', commit')
        OBVIOUS
      <4>0. wrote' = wrote
        BY <1>10 DEF Release
      <4>1. CASE backend = "s3"
        BY <4>0, <4>1, <3>1, <2>3 DEF Past, Stored, Etag, S3Etag, GitEtag, Etags
      <4>2. CASE backend = "git_branch"
        BY <4>2, <3>1, <2>3 DEF Past, Etag, S3Etag, GitEtag, Etags
      <4> QED
        BY <4>1, <4>2, <1>b DEF Backends
    <3>3. EtagInv'
      BY <1>10, <1>a, <2>3, <3>1, <3>2 DEF LockInv, EtagInv, Release, LockTypeOK, Stored
    <3>4. CasInv'
      BY <1>10, <1>a, <2>3, <3>1, <3>2 DEF LockInv, EtagInv, CasInv, Release, LockTypeOK
    <3>5. GuardInv'
      BY <1>10, <1>a, <2>3, <3>1, <3>2 DEF LockInv, EtagInv, GuardInv, Release, LockTypeOK,
                                           LockBody
    <3> QED
      BY <1>a, <2>1, <3>3, <3>4, <3>5 DEF LockInv
  <2> QED
    BY <1>10, <2>2, <2>3 DEF Release
<1>11. ASSUME NEW q \in Runs, Crash(q) PROVE LockInv'
  <2>1. WroteInv' /\ ClockInv'
    BY <1>11, <1>a DEF LockInv, Crash, WroteInv, ClockInv, LockTypeOK, Trying
  <2>2. EtagInv' /\ CasInv' /\ GuardInv'
    BY <1>11, <1>a DEF LockInv, Crash, EtagInv, CasInv, GuardInv, Stored, Past,
                       LockBody, LockTypeOK
  <2> QED
    BY <1>a, <2>1, <2>2 DEF LockInv
<1>12. CASE UNCHANGED lockVars
  BY <1>12, <1>a DEF LockInv, lockVars, WroteInv, ClockInv, EtagInv, CasInv, GuardInv, Stored,
               Past, LockBody, Etag, S3Etag, GitEtag
<1> QED
  BY <1>1, <1>2, <1>3, <1>4, <1>5, <1>6, <1>7, <1>8, <1>9, <1>10, <1>11, <1>12
     DEF LockNext, Acquiring

LEMMA InvCorrect == LockSpec => []LockInv
BY InvInit, InvStep, PTL DEF LockSpec

-----------------------------------------------------------------------------
(* The takeover: what Put replaces is expired on the clock of some run. *)
LEMMA PutReplacesExpired ==
  ASSUME LockInv, NEW q \in Runs, Put(q), lock # None
  PROVE  lock.expires_at \in Nat /\ lock.expires_at <= now + MaxSkew
<1>1. lock \in LockBodies /\ asked[q] \in Nat /\ now \in Nat
  BY DEF LockInv, LockTypeOK
<1>2. lock.expires_at \in Nat
  BY <1>1 DEF LockBodies
<1>3. seen[q] # None /\ seen[q] = Etag(backend, lock, commit) /\ phase[q] = "put"
  BY DEF Put, CondPutOk, S3Accepts, GitAccepts, Etag
<1>4. lock.expires_at <= asked[q]
  BY <1>3 DEF LockInv, CasInv
<1>5. asked[q] <= now + MaxSkew
  BY DEF LockInv, ClockInv
<1> QED
  BY <1>1, <1>2, <1>4, <1>5, LockConstants

(* The release: a backend that honours If-Match deletes only the run's own lock. *)
LEMMA ReleaseDeletesOwn ==
  ASSUME LockInv, ~BlindDelete, NEW q \in Runs, Release(q), lock' # lock
  PROVE  lock = LockBody(q) /\ lock' = None
<1>1. CondDeleteOk(backend, lock, commit, guard[q]) /\ lock' = None /\ phase[q] = "held"
  BY DEF Release
<1> QED
  BY <1>1 DEF CondDeleteOk, S3Deletes, GitDeletes, Etag, LockInv, GuardInv

(* The only steps that change lock.json. *)
LEMMA LockChanges ==
  ASSUME LockTypeOK, [LockNext]_lockVars, lock' # lock
  PROVE  \E q \in Runs : Put(q) \/ Release(q)
BY DEF LockNext, lockVars, Tick, OtherWrite, Acquiring, Begin, Head, HeadUnfetched, Get, GetUnfetched,
       PutRefused, AcquireError, Crash

(* Only its own Put makes a run a holder, and a holder's reading stays. *)
LEMMA BecomesHolder ==
  ASSUME LockTypeOK, [LockNext]_lockVars, NEW p \in Runs, phase'[p] = "held"
  PROVE  \/ phase[p] = "held" /\ asked'[p] = asked[p]
         \/ Put(p)
<1> USE DEF LockTypeOK
<1>1. CASE UNCHANGED lockVars \/ Tick \/ OtherWrite
  BY <1>1 DEF lockVars, Tick, OtherWrite
<1>2. ASSUME NEW q \in Runs, Acquiring(q) \/ Release(q) \/ Crash(q), p = q, ~Put(p)
      PROVE  FALSE
  BY <1>2 DEF Acquiring, Begin, Head, HeadUnfetched, Get, GetUnfetched, PutRefused, AcquireError, Release,
              Crash
<1>3. ASSUME NEW q \in Runs, Acquiring(q) \/ Release(q) \/ Crash(q), p # q
      PROVE  phase'[p] = phase[p] /\ asked'[p] = asked[p]
  BY <1>3 DEF Acquiring, Begin, Head, HeadUnfetched, Get, GetUnfetched, Put, PutRefused, AcquireError,
              Release, Crash
<1> QED
  BY <1>1, <1>2, <1>3 DEF LockNext

LEMMA HolderStep ==
  ASSUME ~BlindDelete
  PROVE  LockInv /\ HolderInv /\ [LockNext]_lockVars => HolderInv'
<1> SUFFICES ASSUME LockInv, HolderInv, [LockNext]_lockVars,
                    NEW p \in Runs, phase'[p] = "held"
             PROVE  lock' = LockBody(p)' \/ LockBody(p)'.expires_at <= now' + MaxSkew
  BY DEF HolderInv
<1>1. LockTypeOK /\ now \in Nat /\ now' \in Nat /\ now <= now' /\ asked[p] \in Nat
  <2>1. LockTypeOK /\ LockTypeOK'
    BY TypeStep DEF LockInv
  <2>2. now' = now \/ now' = now + 1
    BY DEF LockNext, lockVars, Tick, OtherWrite, Acquiring, Begin, Head, HeadUnfetched, Get, GetUnfetched,
           Put, PutRefused, AcquireError, Release, Crash
  <2> QED
    BY <2>1, <2>2 DEF LockTypeOK
<1>2. CASE Put(p)
  BY <1>2 DEF Put, LockBody
<1>3. CASE phase[p] = "held" /\ asked'[p] = asked[p]
  <2>1. LockBody(p)' = LockBody(p) /\ LockBody(p).expires_at \in Nat
    BY <1>1, <1>3, LockConstants DEF LockBody
  <2>2. lock = LockBody(p) \/ LockBody(p).expires_at <= now + MaxSkew
    BY <1>3 DEF HolderInv
  <2>3. CASE LockBody(p).expires_at <= now + MaxSkew
    BY <1>1, <2>1, <2>3, LockConstants
  <2>4. CASE lock = LockBody(p) /\ lock' = lock
    BY <2>1, <2>4
  <2>5. CASE lock = LockBody(p) /\ lock' # lock
    <3>1. PICK q \in Runs : Put(q) \/ Release(q)
      BY <1>1, <2>5, LockChanges
    <3>2. CASE Put(q)
      <4>1. lock # None
        BY <1>1, <2>5, BodyType
      <4> QED
        BY <3>2, <4>1, <2>5, <2>3, PutReplacesExpired
    <3>3. CASE Release(q)
      <4>1. lock = LockBody(q)
        BY <3>3, <2>5, ReleaseDeletesOwn
      <4>2. p = q
        BY <1>1, <2>5, <4>1, BodyType
      <4>3. phase'[q] = "released"
        BY <1>1, <3>3 DEF Release, LockTypeOK
      <4> QED
        BY <4>2, <4>3
    <3> QED
      BY <3>1, <3>2, <3>3
  <2> QED
    BY <2>2, <2>3, <2>4, <2>5
<1> QED
  BY <1>1, <1>2, <1>3, BecomesHolder

LEMMA HolderCorrect ==
  ASSUME ~BlindDelete
  PROVE  LockSpec => []HolderInv
<1>1. LockInit => HolderInv
  BY DEF LockInit, HolderInv
<1> QED
  BY <1>1, HolderStep, InvCorrect, PTL DEF LockSpec

(***************************************************************************)
(* No two runs hold a lease that has not run out, provided the backend     *)
(* honours If-Match on DELETE.                                             *)
(***************************************************************************)
THEOREM MutualExclusionHolds ==
  ASSUME ~BlindDelete
  PROVE  LockSpec => []MutualExclusion
<1>1. LockTypeOK /\ HolderInv => MutualExclusion
  <2> SUFFICES ASSUME LockTypeOK, HolderInv, NEW p \in Runs, NEW q \in Runs,
                      Live(p), Live(q)
               PROVE  p = q
    BY DEF MutualExclusion
  <2>1. LockBody(p).expires_at \in Nat /\ LockBody(q).expires_at \in Nat /\ now \in Nat
    BY LockConstants DEF LockBody, LockTypeOK
  <2>2. lock = LockBody(p) /\ lock = LockBody(q)
    BY <2>1, LockConstants DEF HolderInv, Live
  <2> QED
    BY <2>2, BodyType
<1> QED
  BY <1>1, LockTypeCorrect, HolderCorrect, PTL

(***************************************************************************)
(* A lock that no clock sees as expired is removed by its own run only,    *)
(* provided the backend honours If-Match on DELETE.                        *)
(***************************************************************************)
THEOREM LiveLockStaysHolds ==
  ASSUME ~BlindDelete
  PROVE  LockSpec => LiveLockStays
<1>1. LockInv /\ [LockNext]_lockVars =>
        [ \A p \in Runs :
            lock = LockBody(p) /\ lock.expires_at > now + MaxSkew /\ lock' # lock
              => lock' = None /\ phase[p] = "held" /\ phase'[p] = "released" ]_lockVars
  <2> SUFFICES ASSUME LockInv, [LockNext]_lockVars, NEW p \in Runs,
                      lock = LockBody(p), lock.expires_at > now + MaxSkew, lock' # lock
               PROVE  lock' = None /\ phase[p] = "held" /\ phase'[p] = "released"
    OBVIOUS
  <2>1. LockTypeOK /\ lock # None
    BY BodyType DEF LockInv
  <2>2. PICK q \in Runs : Put(q) \/ Release(q)
    BY <2>1, LockChanges
  <2>3. ~Put(q)
    <3> SUFFICES ASSUME Put(q) PROVE FALSE
      OBVIOUS
    <3>1. lock.expires_at \in Nat /\ lock.expires_at <= now + MaxSkew
      BY <2>1, PutReplacesExpired
    <3> QED
      BY <3>1, <2>1, LockConstants DEF LockTypeOK
  <2>4. lock = LockBody(q) /\ lock' = None
    BY <2>2, <2>3, ReleaseDeletesOwn
  <2>5. p = q
    BY <2>1, <2>4, BodyType
  <2> QED
    BY <2>1, <2>2, <2>3, <2>4, <2>5 DEF Release, LockTypeOK
<1> QED
  BY <1>1, InvCorrect, PTL DEF LockSpec, LiveLockStays

(***************************************************************************)
(* A lock blocks others for at most one TTL from any moment on.            *)
(***************************************************************************)
THEOREM BlockingIsBoundedHolds == LockSpec => []BlockingIsBounded
<1>1. LockInit => BlockingIsBounded
  BY LockConstants DEF LockInit, BlockingIsBounded
<1>2. LockInv /\ BlockingIsBounded /\ [LockNext]_lockVars => BlockingIsBounded'
  <2> SUFFICES ASSUME LockInv, BlockingIsBounded, [LockNext]_lockVars, lock' # None
               PROVE  lock'.expires_at <= now' + MaxSkew + TTL
    BY DEF BlockingIsBounded
  <2>1. LockTypeOK /\ LockTypeOK'
    BY TypeStep DEF LockInv
  <2>2. now \in Nat /\ (now' = now \/ now' = now + 1)
    BY <2>1 DEF LockTypeOK, LockNext, lockVars, Tick, OtherWrite, Acquiring, Begin, Head,
                HeadUnfetched, Get, GetUnfetched, Put, PutRefused, AcquireError, Release, Crash
  <2>3. CASE lock' = lock
    <3>1. lock.expires_at \in Nat
      BY <2>1, <2>3 DEF LockTypeOK, LockBodies
    <3> QED
      BY <3>1, <2>2, <2>3, LockConstants DEF BlockingIsBounded
  <2>4. CASE lock' # lock
    <3>1. PICK q \in Runs : Put(q)
      BY <2>1, <2>4, LockChanges DEF Release
    <3>2. lock'.expires_at = asked[q] + TTL /\ now' = now
      BY <3>1 DEF Put, LockBody
    <3>3. asked[q] \in Nat /\ asked[q] <= now + MaxSkew
      BY <2>1 DEF LockTypeOK, LockInv, ClockInv
    <3> QED
      BY <3>2, <3>3, <2>2, LockConstants
  <2> QED
    BY <2>3, <2>4
<1> QED
  BY <1>1, <1>2, InvCorrect, PTL DEF LockSpec

(***************************************************************************)
(* While a run is between head and put on s3, either lock.json is still    *)
(* what head saw, or some other run has written it.                        *)
(***************************************************************************)
CauseInv ==
  backend = "s3" =>
    \A p \in Runs :
      /\ phase[p] \in {"get", "put"} =>
           \/ wrote \ {p} # {}
           \/ IF lock = None THEN seen[p] = None ELSE seen[p] = Etag(backend, lock, commit)
      /\ phase[p] \in {"gone", "lost"} => wrote \ {p} # {}

LEMMA CauseStep == LockInv /\ CauseInv /\ [LockNext]_lockVars => CauseInv'
<1> SUFFICES ASSUME LockInv, CauseInv, [LockNext]_lockVars, backend = "s3"
             PROVE  CauseInv'
  BY DEF CauseInv, LockNext, lockVars, Tick, OtherWrite, Acquiring, Begin, Head, HeadUnfetched,
         Get, GetUnfetched, Put, PutRefused, AcquireError, Release, Crash
<1> USE DEF CauseInv
<1>a. LockTypeOK /\ Etag(backend, lock, commit) # None
  BY LockConstants, EtagType DEF LockInv, LockTypeOK
<1>1. CASE UNCHANGED lockVars \/ Tick
  BY <1>1 DEF lockVars, Tick
<1>2. ASSUME NEW q \in Runs, Begin(q) \/ PutRefused(q) \/ AcquireError(q) \/ Crash(q)
      PROVE  CauseInv'
  <2>1. phase'[q] = "lost" => wrote \ {q} # {}
    BY <1>2, <1>a DEF Begin, PutRefused, AcquireError, Crash, CondPutOk, S3Accepts,
                             Etag, LockTypeOK
  <2> QED
    BY <1>2, <1>a, <2>1 DEF Begin, PutRefused, AcquireError, Crash, LockTypeOK
<1>3. ASSUME NEW q \in Runs, Head(q) PROVE CauseInv'
  BY <1>3, <1>a DEF Head, LockTypeOK
<1>4. ASSUME NEW q \in Runs, Get(q) PROVE CauseInv'
  BY <1>4, <1>a DEF Get, LockTypeOK, LockInv, EtagInv
<1>5. ASSUME NEW q \in Runs, Put(q) PROVE CauseInv'
  <2>1. phase'[q] \in {"held", "failed"} /\ wrote' = wrote \cup {q}
    BY <1>5, <1>a DEF Put, LockTypeOK
  <2>2. \A p \in Runs : p # q => phase'[p] = phase[p] /\ wrote' \ {p} # {}
    BY <1>5, <2>1, <1>a DEF Put, LockTypeOK
  <2> QED
    BY <2>1, <2>2
<1>6. ASSUME NEW q \in Runs, Release(q) PROVE CauseInv'
  <2>1. q \in wrote /\ wrote' = wrote /\ phase'[q] = "released"
    BY <1>6, <1>a DEF Release, LockInv, WroteInv, LockTypeOK
  <2>2. \A p \in Runs : p # q => phase'[p] = phase[p] /\ wrote' \ {p} # {}
    BY <1>6, <2>1, <1>a DEF Release, LockTypeOK
  <2> QED
    BY <2>1, <2>2
<1> QED
  BY <1>1, <1>2, <1>3, <1>4, <1>5, <1>6
     DEF LockNext, Acquiring, OtherWrite, HeadUnfetched, GetUnfetched

(***************************************************************************)
(* On s3, a run that acquire turns away from a free or expired lock was    *)
(* raced by another run.                                                   *)
(***************************************************************************)
THEOREM RefusalHasCauseHolds == LockSpec => []RefusalHasCause
<1>1. LockInit => CauseInv
  BY DEF LockInit, CauseInv
<1>2. CauseInv => RefusalHasCause
  BY DEF CauseInv, RefusalHasCause
<1> QED
  BY <1>1, <1>2, CauseStep, InvCorrect, PTL DEF LockSpec
==============================================================================
