-------------------------------- MODULE Lock ---------------------------------
(***************************************************************************)
(* The single-writer lock of src/lock.rs: lock.json on the primary store,  *)
(* taken over by compare-and-swap once its TTL has run out.                *)
(*                                                                         *)
(* Every member of Runs is one process that calls acquire once.  A process *)
(* reads the clock before its first store call and judges the lock it      *)
(* finds, and computes its own expiry, with that one reading.  Clocks of   *)
(* different runners differ: a reading is at most MaxSkew ahead of `now`.  *)
(***************************************************************************)
EXTENDS SnapshotStore, FiniteSets

CONSTANTS
  Runs,          \* the processes that want the lock
  EarlierRun,    \* a run of an earlier day that died holding it
  TTL,           \* lock.ttl_seconds, in ticks
  MaxSkew,       \* how far ahead a runner's clock can be, in ticks
  MaxNow,        \* bound: the clock stops here
  Commits,       \* bound: foreign commits come on top of these (Nat: no bound)
  PrimaryKinds,  \* the backends the primary can have, a subset of Backends
  Faults,        \* the failures considered, a subset of FaultKinds
  BlindDelete    \* the s3 backend ignores If-Match on DELETE (s3.rs:198-200)

FaultKinds == {"error",     \* a call fails and has no effect
               "lost_ack",  \* a conditional put takes effect, its answer is lost
               "fetch",     \* git fetch fails: head takes that for absence, get does not see it
               "crash"}     \* the process is killed while it holds the lock

LockBodies == [run_id : Runs \cup {EarlierRun}, expires_at : Nat]
Etags      == [content : LockBodies \cup {None}, commit : Nat]

ASSUME LockConstants ==
  /\ TTL \in Nat \ {0}
  /\ MaxSkew \in Nat /\ MaxNow \in Nat /\ Commits \subseteq Nat
  /\ PrimaryKinds \subseteq Backends
  /\ Faults \subseteq FaultKinds
  /\ BlindDelete \in BOOLEAN

ASSUME LockNames ==
  /\ EarlierRun \notin Runs
  /\ None \notin LockBodies /\ None \notin Etags

VARIABLES
  backend,  \* the kind of store the configuration names as primary
  now,      \* the true time, in ticks
  lock,     \* the content of lock.json, or None
  commit,   \* the number of commits on the branch (stays 0 on s3)
  phase,    \* where each run is in acquire and release
  asked,    \* the one clock reading of acquire
  seen,     \* the etag head answered
  guard,    \* the etag in the LockGuard
  wrote     \* history: the runs whose lock body has been in the store

lockVars == <<backend, now, lock, commit, phase, asked, seen, guard, wrote>>

Trying  == {"head", "get", "put"}
Refused == {"busy", "gone", "lost"}
Phases  == {"idle", "held", "released", "failed", "dead"} \cup Trying \cup Refused

LockTypeOK ==
  /\ backend \in PrimaryKinds
  /\ now \in Nat
  /\ lock \in LockBodies \cup {None}
  /\ commit \in Nat
  /\ phase \in [Runs -> Phases]
  /\ asked \in [Runs -> Nat]
  /\ seen \in [Runs -> Etags \cup {None}]
  /\ guard \in [Runs -> Etags \cup {None}]
  /\ wrote \subseteq Runs

(* A run may find the lock an earlier run left, expired or not. *)
LockInit ==
  /\ backend \in PrimaryKinds
  /\ now = 0
  /\ lock \in {None} \cup [run_id : {EarlierRun}, expires_at : 0 .. TTL + MaxSkew]
  /\ commit \in 0 .. 1
  /\ commit = 1 => backend = "git_branch"
  /\ lock # None => commit = AfterWrite(backend, 0)
  /\ phase = [p \in Runs |-> "idle"]
  /\ asked = [p \in Runs |-> 0]
  /\ seen  = [p \in Runs |-> None]
  /\ guard = [p \in Runs |-> None]
  /\ wrote = {}

-----------------------------------------------------------------------------
(* Definitions named Bug... are not part of the model: each is the definition
   after it with a plausible mistake, for checking that a property sees it. *)
BugTwoTTLs(p) == [run_id |-> p, expires_at |-> asked[p] + 2 * TTL]

(* The body acquire serialises before it looks at the store. *)
LockBody(p) == [run_id |-> p, expires_at |-> asked[p] + TTL]

Tick ==
  /\ now < MaxNow
  /\ now' = now + 1
  /\ UNCHANGED <<backend, lock, commit, phase, asked, seen, guard, wrote>>

(* acquire reads the clock. *)
Begin(p) ==
  /\ phase[p] = "idle"
  /\ \E ahead \in 0 .. MaxSkew : asked' = [asked EXCEPT ![p] = now + ahead]
  /\ phase' = [phase EXCEPT ![p] = "head"]
  /\ UNCHANGED <<backend, now, lock, commit, seen, guard, wrote>>

(* store.head(LOCK_KEY): an absent lock is created, a present one examined. *)
Head(p) ==
  /\ phase[p] = "head"
  /\ IF lock = None
     THEN /\ seen'  = [seen EXCEPT ![p] = None]
          /\ phase' = [phase EXCEPT ![p] = "put"]
     ELSE /\ seen'  = [seen EXCEPT ![p] = Etag(backend, lock, commit)]
          /\ phase' = [phase EXCEPT ![p] = "get"]
  /\ UNCHANGED <<backend, now, lock, commit, asked, guard, wrote>>

(* On a git branch head answers None when the fetch fails. *)
HeadUnfetched(p) ==
  /\ phase[p] = "head"
  /\ backend = "git_branch" /\ "fetch" \in Faults
  /\ seen'  = [seen EXCEPT ![p] = None]
  /\ phase' = [phase EXCEPT ![p] = "put"]
  /\ UNCHANGED <<backend, now, lock, commit, asked, guard, wrote>>

BugTakeoverCreates(p) ==   \* an expired lock is overwritten create-only
  /\ phase[p] = "get"
  /\ phase' = [phase EXCEPT ![p] = IF lock # None /\ lock.expires_at > asked[p]
                                   THEN "busy" ELSE "put"]
  /\ seen' = [seen EXCEPT ![p] = None]
  /\ UNCHANGED <<backend, now, lock, commit, asked, guard, wrote>>

(* store.get(LOCK_KEY), and the expiry check on what it answered. *)
Get(p) ==
  /\ phase[p] = "get"
  /\ \/ /\ lock = None
        /\ phase' = [phase EXCEPT ![p] = "gone"]
     \/ /\ lock # None /\ lock.expires_at > asked[p]
        /\ phase' = [phase EXCEPT ![p] = "busy"]
     \/ /\ lock # None /\ lock.expires_at <= asked[p]
        /\ phase' = [phase EXCEPT ![p] = "put"]
  /\ UNCHANGED <<backend, now, lock, commit, asked, seen, guard, wrote>>

(* On a git branch get ignores a failed fetch and answers from the copy that
   head fetched.  Whatever lock it finds there, the branch has moved on and the
   put will be refused, so the model keeps no copy: either answer may come. *)
GetUnfetched(p) ==
  /\ phase[p] = "get"
  /\ backend = "git_branch" /\ "fetch" \in Faults
  /\ seen[p] # Etag(backend, lock, commit)
  /\ \E next \in {"busy", "put"} : phase' = [phase EXCEPT ![p] = next]
  /\ UNCHANGED <<backend, now, lock, commit, asked, seen, guard, wrote>>

BugPlainPut(p) ==   \* put instead of put_if_unmodified
  /\ phase[p] = "put"
  /\ lock'   = LockBody(p)
  /\ commit' = AfterWrite(backend, commit)
  /\ wrote'  = wrote \cup {p}
  /\ phase'  = [phase EXCEPT ![p] = "held"]
  /\ guard'  = [guard EXCEPT ![p] = Etag(backend, lock', commit')]
  /\ UNCHANGED <<backend, now, asked, seen>>

(* put_if_unmodified with the etag of head, not the one of get. *)
Put(p) ==
  /\ phase[p] = "put"
  /\ CondPutOk(backend, lock, commit, seen[p])
  /\ lock'   = LockBody(p)
  /\ commit' = AfterWrite(backend, commit)
  /\ wrote'  = wrote \cup {p}
  /\ \/ /\ phase' = [phase EXCEPT ![p] = "held"]
        /\ guard' = [guard EXCEPT ![p] = Etag(backend, lock', commit')]
     \/ /\ "lost_ack" \in Faults
        /\ phase' = [phase EXCEPT ![p] = "failed"]
        /\ UNCHANGED guard
  /\ UNCHANGED <<backend, now, asked, seen>>

PutRefused(p) ==
  /\ phase[p] = "put"
  /\ ~CondPutOk(backend, lock, commit, seen[p])
  /\ phase' = [phase EXCEPT ![p] = "lost"]
  /\ UNCHANGED <<backend, now, lock, commit, asked, seen, guard, wrote>>

(* A call of acquire fails on its way to the store and `?` ends the run, or
   the process is killed there: nobody else can tell the two apart. *)
AcquireError(p) ==
  /\ phase[p] \in Trying /\ "error" \in Faults
  /\ phase' = [phase EXCEPT ![p] = "failed"]
  /\ UNCHANGED <<backend, now, lock, commit, asked, seen, guard, wrote>>

BugPlainDelete(p) ==   \* delete instead of delete_if_match
  /\ phase[p] = "held"
  /\ phase' = [phase EXCEPT ![p] = "released"]
  /\ lock' = None
  /\ commit' = AfterWrite(backend, commit)
  /\ UNCHANGED <<backend, now, asked, seen, guard, wrote>>

(***************************************************************************)
(* LockGuard::release.  Whatever delete_if_match answers, the caller only  *)
(* warns and goes on.                                                      *)
(***************************************************************************)
Release(p) ==
  /\ phase[p] = "held"
  /\ phase' = [phase EXCEPT ![p] = "released"]
  /\ \/ /\ CondDeleteOk(backend, lock, commit, guard[p])
           \/ (BlindDelete /\ backend = "s3")
        /\ lock' = None
        /\ commit' = IF lock = None THEN commit ELSE AfterWrite(backend, commit)
     \/ /\ ~CondDeleteOk(backend, lock, commit, guard[p])
           \/ "error" \in Faults
        /\ UNCHANGED <<lock, commit>>
  /\ UNCHANGED <<backend, now, asked, seen, guard, wrote>>

Crash(p) ==
  /\ phase[p] = "held" /\ "crash" \in Faults
  /\ phase' = [phase EXCEPT ![p] = "dead"]
  /\ UNCHANGED <<backend, now, lock, commit, asked, seen, guard, wrote>>

(* Any write of another key, by anybody, moves the head of a git branch. *)
OtherWrite ==
  /\ backend = "git_branch" /\ commit \in Commits
  /\ commit' = commit + 1
  /\ UNCHANGED <<backend, now, lock, phase, asked, seen, guard, wrote>>

Acquiring(p) == Begin(p) \/ Head(p) \/ HeadUnfetched(p) \/ Get(p) \/ GetUnfetched(p)
                \/ Put(p) \/ PutRefused(p) \/ AcquireError(p)

LockNext ==
  \/ Tick
  \/ OtherWrite
  \/ \E p \in Runs : Acquiring(p) \/ Release(p) \/ Crash(p)

LockSpec == LockInit /\ [][LockNext]_lockVars

-----------------------------------------------------------------------------
(* The run works under the lock, and no clock in the system has reached its
   expiry yet. *)
Live(p) == phase[p] = "held" /\ LockBody(p).expires_at > now + MaxSkew

(***************************************************************************)
(* lock.rs:21-23, the CAS is race-free: however the head, get and put of   *)
(* several runs interleave with expiries, releases, crashes and lost       *)
(* answers, two runs never both hold a lease that has not run out.         *)
(***************************************************************************)
MutualExclusion ==
  \A p, q \in Runs : p # q => ~(Live(p) /\ Live(q))

(***************************************************************************)
(* A lock that no clock sees as expired leaves the store only when its own *)
(* run releases it: not by a takeover, and not by the late release of a    *)
(* run that was taken over (delete_if_match in release, lock.rs:63-65).    *)
(***************************************************************************)
LiveLockStays ==
  [][ \A p \in Runs :
        lock = LockBody(p) /\ lock.expires_at > now + MaxSkew /\ lock' # lock
          => lock' = None /\ phase[p] = "held" /\ phase'[p] = "released" ]_lockVars

(***************************************************************************)
(* A lock nobody renews or removes stops blocking by itself within one TTL *)
(* of any moment ("TTL will reclaim", run.rs:71).                          *)
(***************************************************************************)
BlockingIsBounded ==
  lock # None => lock.expires_at <= now + MaxSkew + TTL

(***************************************************************************)
(* On s3, acquire gives up on a lock it could have had only because some   *)
(* other run of this contention wrote lock.json: the head/get/put sequence *)
(* never refuses a lone run an absent or expired lock.                     *)
(***************************************************************************)
RefusalHasCause ==
  backend = "s3" =>
    \A p \in Runs : phase[p] \in {"gone", "lost"} => wrote \ {p} # {}
==============================================================================
