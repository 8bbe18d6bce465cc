# Repossess in TLA+

TLA+ modules, TLC configurations and TLAPS proofs for *repossess*, which keeps an
encrypted browser session in an object store and lets ephemeral CI agents take turns
at it. The code is the reference: every definition is translated from a function
under `src/src/`, and `PROJECT.json` names its lines. Paths below leave out `src/src/`.

- [The system](#the-system): components, state, interactions, what is hard
- [Modules](#modules): what models what, and with which abstractions
- [Runs](#runs): what TLC checks, on which instance, and why the bounds suffice
- [Findings](#findings)
- [Fairness](#fairness), [Proofs](#proofs), [Not modelled](#not-modelled), [Plan](#plan)

## The system

A *capsule* is one session: `latest.json` on the **primary** store names a snapshot
(`snapshots/<second>.zst.age`) and its detached signature, and holds their digest.
`lock.json` beside it admits one run at a time. **Mirrors** get copies, best effort.
No process talks to another: all they share is the store.
The daily workflow queues behind itself (`concurrency` in `.github/workflows/repossess-daily.yml`),
but runs started elsewhere, seeds, imports and readers do not, so the models let them overlap.

| component | state | operations | how it is hard |
|---|---|---|---|
| lock (`lock.rs`) | `lock.json`: run id, expiry; the guard's etag | acquire (head, get, conditional put), release (conditional delete) | three calls that others cut in on; clocks of several machines; late releases; a run that dies; an answer that is lost |
| `run` (`commands/run.rs`) | pointer and etag of the restore | lock, restore, canary, workloads, save, fan-out, release, health record | nothing stops it when its lease ends; it may die between any two puts |
| `seed` (`commands/seed.rs`) | — | put snapshot and signature, replace whatever pointer is there | takes no lock |
| `verify`, `export` (`commands/`) | — | restore, without the lock | three reads while another process writes the same keys |
| pointer (`snapshot.rs`) | — | digest check, monotonicity check | compares clocks of two machines |
| health (`health.rs`) | one record per run | best-effort put | must agree with what became of `latest.json` |
| stores (`stores/`) | keys with etags; a git branch and a working copy per process; a release and its assets | head, get, put, put_if_unmodified, delete_if_match, fan-out | an etag is the key's own on S3 and the whole branch's on git; a call on git is five commands; a put on a release is up to five requests |
| chats workload (`workload/chatgpt_chats.rs`) | index of archived conversations, one body each | list incrementally, fetch, one retry sweep, swap the index | the list moves while it is paged; an index read hours before it is swapped |
| `import-chatgpt` (`commands/import_chatgpt.rs`) | the same index and bodies | upload what differs in parallel, swap the index | takes no lock; its export may be older than the archive |
| API clients (`workload/chatgpt_chats.rs`, `workload/chatgpt.rs`) | token, retry budget, one refresh | get with back-off | budget, refresh and a server that refuses interact |
| browser session (`browser/cdp.rs`) | Chrome, its profile and cookie jar | launch, import, capture until the last page closes, export | event streams against a poll, over a connection that dies with Chrome; profiles that were used before |
| canary (`browser/canary.rs`) | the jar of the HTTP client | one request | its client gets the renewals, the browser does not |
| archive, crypto, config, secrets, CLI | none that lasts | conversions, validation | — |

What makes the components correct:

- **lock**: at most one run holds a lease that is good; a good lock goes only by its own
  run's release; a dead run's lock blocks for at most a TTL; a free lock is never refused
  for no reason.
- **capsule**: `latest.json` is a register without lost updates or rollbacks; whatever it
  names can be restored, in any interleaving; no reader sees a torn checkpoint; a save is
  refused only for a reason; the health record says what happened.
- **git branch**: the commands of a call add up to one atomic step, or to none; no push
  throws another's commit away; a stale answer does no harm to whoever swaps on it.
- **mirrors**: follow the primary, never lead it; a name is lost on a release only where a
  put was cut in two.
- **session**: the capture is what the user left, and what Chrome answered last if it died;
  a checkpoint keeps its login through any number of runs, or there is a known reason.
- **archive**: stopping the listing early loses nothing; the index vouches only for what is
  stored; no session's entries are lost to another one; everything is archived in the end.
- **API clients**: requests are bounded, budgets are spent before a failure is declared,
  one refusal is not enough to give up a login, every call ends; an exported text is the
  conversation's current branch.

The hazards behind these, each at its line and with the properties that watch it, are the
list `hazards` of `PROJECT.json`.

## Modules

```
SnapshotStore      conditional calls on both backends (no variables)
   ├ Lock          lock.json, the runs that contend for it       ── Lock_proofs
   │   └ Capsule   run, seed, verify; latest.json, mirrors       ── Capsule_proofs
   │        ├ refines Lock's own specification   (ImplementsLock)
   │        └ refines CheckpointRegister         (ImplementsRegister)
   ├ AtomicStore   what a primary with versions for etags promises
   └ GitBranch     the git_branch store, command by command    ── GitBranch_proofs
            └ refines AtomicStore                (ImplementsAtomicStore)
ReleaseMirror      the github_release store, request by request ── ReleaseMirror_proofs
Capture            wait_and_capture of the seed's browser        ── SessionLife_proofs
   └ SessionLife   the seed, and the cookies in the runs after it ── SessionLife_proofs
ChatsSync          the chats workload and import-chatgpt         ── ChatsSync_proofs
ApiClient          one HTTP request of either client, its caller ── Export_proofs
   └ Export        export: a conversation, its branch, two files ── Export_proofs
            └ refines ApiClient                  (ExportImplementsClient)
ListLemmas         what the proofs need of lists, Min and Max
MCLock, MCCapsule, MCGitBranch, MCReleaseMirror, MCSession, MCChats, MCExport
                   instances, parties and symmetry for TLC
```

Definitions named `Bug…` are not part of any next-state relation. Each repeats the
definition that follows it with a plausible mistake (an unconditional put, a dropped
etag, an off-by-one), and is there to show that a property notices.

### SnapshotStore

`put_if_unmodified` and `delete_if_match` of `stores/s3.rs` and `stores/git_branch.rs`.
On S3 an etag follows the content of its key. On a git branch the etag of every key is
the commit at the head, so any write changes all of them; the client compares with the
commit it fetched and `--force-with-lease` compares again at the push, which together are
one comparison at the push. `None` is Rust's `Option::None`.

### Lock

One record `lock`, and per run the phase, the one clock reading `asked`, the etag `seen`
by `head` and the etag in the `guard`. Each store call of `acquire` (`lock.rs:24-60`) is
one action (`Begin`, `Head`/`HeadUnfetched`, `Get`/`GetUnfetched`, `Put`/`PutRefused`), and so is
`release` (`lock.rs:63-65`, whose caller only warns). `Faults` selects what may go wrong:
`error` (a call fails before it has an effect), `lost_ack` (a put takes effect, its answer
does not arrive, which is also how the AWS SDK's own retries show), `fetch` (on a
git branch `head` takes a failed fetch for absence, and `get` answers from the old working
copy), `crash`. `BlindDelete` is the S3 backend
that ignores `If-Match` on DELETE. `wrote` is history.

Abstractions: a clock is at most `MaxSkew` ahead of `now` (only differences matter, so the
slowest clock defines `now`); `created_at` of the lock is never read and left out; a run
killed while it tries is an `AcquireError`, since nobody can tell.

### Capsule

Extends `Lock` with `latest`, `object`, `signature`, three keys per mirror, and per process
its `step`, the pointer it restored (`base`), the `tag` it will pass, the pointer it stamped
(`mine`) and its `outcome`. One action per store call of `run_locked`/`restore`/`save`
(`commands/run.rs`), `seed` and `verify`. A ciphertext is identified by its writer (every
encryption differs, every process saves once), so the digest check is a comparison of
writers. Names of snapshots are whole seconds: `SecondTicks` ticks share one.

On a git branch each process reads from a working copy. A get whose fetch fails answers from
the copy as it was left, with the commit the copy is at for an etag (`stores/git_branch.rs:311`):
`workdir` is that copy, and `Answers` the two trees a get may read from, so each of the three
gets of a restore may see the branch as it is or as it was (`GetPointer`, `GetObject`,
`GetSignature`). The copy begins as a run's own lock write left it, or as an orphan. It is kept
only where a get may still answer from it.

`Drive` stands for browser, canary, workloads and export: only a failed canary and an error
are told apart. `installed` and `missed` are history. Writes of any other key are
`Environment`, which on a git branch moves everyone's etag. `Parties` says which processes
there may be together; the others never start.

`CheckpointRegister` is the abstract view: a register that a process replaces only while it
holds the checkpoint the process looked at, runs only by a newer one, everyone once. What a
process looks at is some checkpoint the register has held, not always the current one.

### GitBranch and AtomicStore

`GitBranch` has one remote branch and any number of working copies, each with its `HEAD`,
`index` and `files`. A call is `Begin` and then what `stores/git_branch.rs` runs, one action
per command: clone or init, fetch and reset, write or look up, stage, commit, push. What
is in the copy is kept from call to call, as `workdir` keeps it: a commit whose push failed
is still its HEAD when the next fetch fails too, and files written before stay when the
branch is unborn. `--force-with-lease` with no known commit is a plain push, which
git accepts only as a fast-forward; otherwise the lease alone decides.

`AtomicStore` is what the callers count on: a call takes effect at most once, between its
start and its answer, a conditional one only at the version of its etag, and an Ok is true
of that instant. In the refinement `store` is the tree of the remote commit and `version`
the commit; `reply` and `result` are history that names the instant. Two uses
of the working copy's own word are excepted: an Ok of `get`, `head` or an unchanged `put`
after a fetch that failed is counted as no answer. `SwapReplacesWhatWasRead` is about them.

Left out: two processes that make the same commit in the same second and so get the same
hash; git's own lock file when tasks share a copy; a local command that fails.

### ReleaseMirror

`put` and `get` of `stores/github_release.rs` on one release: find or create it, list the
assets page by page, delete the matches one by one, upload; or download the first match.
Assets are listed by id, an asset never changes, and a name is taken by one at a time: that is
GitHub's part. As the list comes in the order of the ids, what a call has found (`matches`) is
a set of ids, of which put deletes the least first and get takes the least. `during`, `shifted` and `emptied` are history. `head`, `list` and the
conditional calls have no caller on a mirror.

### Capture

`wait_and_capture` and `close` of `browser/cdp.rs`. Chrome: whether it is `alive`, the
`pages` open, the targets it still has `listed`, and its `jar` as the number of its last
change. The command: where it is (`pc`), its `cache`, and the events received and not
yet taken. Every call to Chrome is an action; the user and Chrome go on between any two, and
Chrome may die (`crash`) or not answer (`timeout`) at each. `newest` and `timedOut` are
history. That the profile starts with cookies or without is a choice of `Init`.

### SessionLife

What the seed captured, and then one run after another: restore, launch on a profile that may
be used, import, canary, workloads, export, save (`commands/run.rs:97-185`), any of which may
fail. A jar is a set of cookies with at most one token of the login. There are two: the
browser's `profile`, which is what is saved, and the `http` jar of the client that talks to
the site. The site renews, revokes and lets lapse (`accepted`, `issued`, `lapsed`). `causes`
is history: what may have cost the checkpoint its login.

Writing this module showed that the two jars never meet again after the import: what is saved
is the browser's, and what the site renews is in the client's (finding `session_renewals`). It
is the site's tolerance of old tokens that keeps a session alive.

### ChatsSync

Upstream is the list `recent` in the API's order and an update count `time` per
conversation; the primary is `index` and `body`, as counts too. A session loads the index
(`Start`), reads pages until `StopAfter` known conversations in a row (`CollectOutdated`,
one page per step: `Page` is the places of the list on it, `InARow` the count of known ones at
each of them, `Seen` those up to the first at which the count is reached), then takes each summary (`Fetch`, `FetchFails`, `StoreConversation`),
sweeps once over the transient failures (`Sweep`), and swaps the index (`SaveIndex`,
`SaveIndexRefused`). Imports `Export`, `StartImport`, `Upload` in any order and swap the
same index. `Abort` is every early end; a put in flight may land. The user goes on
updating and deleting between any two steps.

`fresh` says whether the stored index is still the object whose etag the session holds,
which is S3's compare-and-swap. `dropped`, `left` and `alone` are history: what a session
gave up, what lies behind because of it, and whether sessions ever overlapped.

Writing this module showed something the code does not say: as the list moves between
pages, a conversation may be queued twice, and the sweep may then enter it under the older
`update_time` after the newer one. `EarlyStopIsSound` holds because such an entry counts as
left behind; it costs a fetch on the next listing that reaches it.

Abstractions: update times are exact counts (a textual time is cut to seconds, `workload/chatgpt.rs:23`: planned); fan-out
of bodies and index is the capsule's; a page is read at once, as one response is.

### ApiClient and Export

`ApiClient` is `get_json` of both clients and their callers' reaction. `attempt` and
`refreshed` are the code's counters, `pc` the await the call is at, `token` and `session` the
server's, `stage` what the caller is doing. The server may answer anything at any time.
A refresh is one call to the session endpoint (`fetch_session`), which may refuse it whether or
not the session is alive. `requests`, `again`, `refused` and `denied` are history; `requests`
saturates. Lengths of back-offs are left out.

`Export` narrows the caller to `commands/export.rs` and goes on from there: the first of
the listed conversations that comes, its JSON, the walk along parents (one turn of the loop
per step, over every map from nodes to parents), its text, one node per step. A text is the sequence of nodes whose
message is shown; how a message is formatted is left out. A walk in a circle stands still
when its path is longer than there are nodes.

## Runs

States are distinct states, with symmetry where the table says so. Symmetry is never used
with a liveness property. Every cfg says `CHECK_DEADLOCK FALSE` because the system may
stop in all of them: commands end, the clock stops at `MaxNow`, the user at `MaxChanges`,
an API client when its caller is over.

| run | instance | states | shows |
|---|---|---|---|
| `lock` | 3 runs (sym.), TTL 2, skew 1, clock to 3, both backends, every fault, an earlier lock of any age or none | 3.0 M | `MutualExclusion`, `BlockingIsBounded`, `RefusalHasCause`, `LiveLockStays` |
| `capsule` | 2 runs and a reader, 2 seeds and a reader, or a run and a seed (sym.); TTL 1, clock to 2, 2 ticks a second, both backends, kills, failed fetches | 2.2 M | type, `InstalledResolves`, `RestoreNeverTorn`, `ConflictHasCause`, both refinements |
| `capsule_mirrors` | 2 runs (sym.), or a run and a seed; TTL 2, skew 1, clock to 2, 1 mirror, failing calls, lost answers | 4.1 M | `HealthTruthful`, `MirrorsCatchUp`, `MirrorsFollow`, `ImplementsRegister` |
| `git_branch` | 2 processes with a copy each (sym.), a swapped key and a put one, every call, 3 commits, failing fetches and pushes, lost answers | 4.2 M | `ImplementsAtomicStore`, `SwapReplacesWhatWasRead`, `HistoryKept` |
| `release_mirror` | 3 puts (sym.) and a get, 2 names (sym.), 1 asset a page, failures and kills anywhere, lost answers | 5.9 M | `NamesSurvive`, `PutRefusedForCause`, `GetAnswersAMoment` |
| `session` | a capture with 3 pages, 4 changes, a dying or silent Chrome; then runs without end, 2 renewals | 0.83 M | type, `WaitsForTheUser`, `CapturesTheLastJar`, `NothingSeenIsLost`, `CaptureReturns`, `CheckpointStaysAlive`, `ProfileStaysOut` |
| `chats` | 4 conversations, one hidden, one deletable; one daily run again and again, 1 import; page 1, stop after 2; 3 changes, 2 faults | 1.2 M | type, `EarlyStopIsSound`, `IndexIsBackedAlone`, `NoLostUpdate`, `DailyRunsCatchUp` |
| `export_and_api` | both clients, 5 retries; 2 conversations to try, every tree over 3 nodes | 0.18 M | type, `RequestsAreBounded`, `TransientIsExhausted`, `RefusedTwice`, `DeniedOnlyInSweep`, `EveryCallReturns`, `MarkdownIsBranch`, `ExportEnds` |
| `git_primary`, `git_parallel`, `chats_import`, `session_renewals` | see below | — | one documented claim each that the code does not keep |

Why the bounds are enough:

- *lock*: three runs are the fewest for a takeover to be undone by the one it took over
  from while a third waits. TTL 2 and
  clock 3 let a lease be taken, run out and be taken over; skew 1 makes one clock wrong
  about it. The proofs below remove the bounds.
- *capsule*: TTL 1 lets every lease run out anywhere in the run; `SecondTicks` 2 makes
  stamps of one second collide and of two not. In the mirrors' run TTL 2 lets two runs save
  one after the other, in the same second or not, with neither lease ever out, so that
  `MirrorsCatchUp` is about both; skew 1 makes a seed stamp a pointer older than the one it
  replaces. That run has no kills, which `MirrorsCatchUp` excludes by itself, and the first
  has no lost answers, which only health records tell apart. The hazards are between two writers and a reader, so the
  parties are pairs of writers, and a reader where there is no third kind.
- `Commits` is a set large enough never to bind in a capsule run (a whole run makes fewer
  commits), so it only bounds the environment, together with `MaxForeign`.
- *git_branch*: three commits let one process push twice around a commit of the other, and
  leave one unpushed in a copy; each task makes any number of calls with any etag it was told.
- *release_mirror*: pages of one asset put a page boundary before every asset; three puts are
  the fewest for two to race on a name while the third shifts the pages.
- *session*: with three pages one may still be listed when the next is opened; four changes
  separate the last jar, the cache, and what an event announced. A run keeps nothing but
  the checkpoint and the profile, and those range over every subset of the cookies.
- *export*: three nodes give chains, forks, circles with and without a tail, parents and a
  current node that are missing, and a node without text in every position.
- *chats*: with three changes a listing of several pages is overtaken by an update, or by a
  deletion that makes a conversation slip past it, and a conversation given up ends behind two
  newer ones that are known, where no listing reaches it. The import, at any time and with an
  export of any age, is what overlaps the daily run; several daily runs that overlap are covered by
  the proofs. Pages of one put a page boundary between any two conversations; `StopAfter` 2
  makes the count of known conversations cross pages. Faults are bounded, that is, they stop.

## Findings

Each is a run that TLC ends with a counterexample; `PROJECT.json` quotes the lines.

- `git_primary` (**bug**): a lone run on a `git_branch` primary never saves. It puts its
  snapshot first, which moves the branch head, which is the etag it kept for the closing
  compare-and-swap (`run.rs:265-271`). The documentation offers git branches as primaries.
- `chats_import` (**bug**): an import of an older export overwrites bodies before it is
  known whether its index is saved. If it is not, the index vouches for versions that are
  gone, and no later run fetches them again.
- `git_parallel` (**bug**): on a `git_branch` primary the parallel uploads of an import share
  one working copy. One upload's reset reverts the file another has just written, whose
  `git status` is then empty, and which is answered Ok without a push. In a first import, whose
  index is written create-only, the index then vouches for a body that never left the machine
  (over an existing index the save is refused once another upload has moved the head).
- `session_renewals` (divergence): "the updated checkpoint" a run saves lacks every cookie the
  site renewed during the run.

Smaller divergences appear as exceptions that properties spell out:

- Snapshots are append-only by name only: a seed and a run of one second share the name and
  one overwrites what the other's pointer names (`NameShared` in `InstalledResolves`).
- "left for the next daily run" (`src/README.md:557`) is true only until enough newer
  conversations are known (`left` in `DailyRunsCatchUp`).
- A second 401 in the sweep does not fail the workload (`DeniedOnlyInSweep`;
  `src/README.md:552-553`).
- A refused refresh need not mean that "the session itself has expired" (`src/README.md:553`): a
  429 or 5xx of the session endpoint also ends the workload with "session expired; re-run
  `repossess seed`" (`workload/chatgpt_chats.rs:424-430`), after one call. `RefusedTwice` says
  what is true: one refusal is never enough.
- On a backend that ignores `If-Match` on DELETE the TTL is not the safety net that the
  comment at `stores/s3.rs:198-200` claims: a late release frees a lock that another run holds
  (`~BlindDelete` is an assumption of the theorems).
- A login the browser has dropped by its date is saved away while another cookie is left
  (`causes` in `CheckpointStaysAlive`).
- `close` waits for Chrome's process after a capture even where Chrome goes on without pages
  (`cdp.rs:312-320`): `CaptureReturns` is about the capture, not about `close`.

## Fairness

`Lock`, `Capsule`, `GitBranch` and `ReleaseMirror` state safety only. Their processes are
straight-line programs that end or die, so there is nothing to be fair to.

`ChatsSync!FairSpec` is weak fairness of the work of each daily run: the schedule starts
runs (`.github/workflows/repossess-daily.yml`), and every await ends in an answer or an
error. It leaves out imports, the user and all failures. `DailyRunsCatchUp` says what is
then eventually archived; it is about the time after changes and faults have stopped.

`Export!ExportFairSpec` (and `ApiClient!FairSpec`) is weak fairness of answers, sleeps and
refreshes taken together: HTTP requests time out. *Which* answer comes is not fair: a server may
refuse for ever. For an export it adds the command's own steps, which nothing holds up.

`SessionLife!LifeFairSpec` is weak fairness of the capture's loop (its interval of 400 ms
ticks, calls to Chrome are answered or fail) and of Chrome's dropping a target whose page is
gone. That Chrome's process exits without pages is not assumed, nor anything of the user.

## Proofs

All theorems hold for every value of the constants that their modules' `ASSUME`s allow.

**Lock_proofs**. Typing first. Then `LockInv`, whose parts are: `WroteInv` (a body is stored
once, by its own run), `ClockInv` (readings are not from the future), `EtagInv` (etags held
are of the past), `CasInv` (if the swap can go through, the lock it replaces is the one
whose expiry was examined) and `GuardInv` (if the delete can go through, the lock is the
run's own). `MutualExclusion` is not inductive by itself: `acquire` swaps with the etag of
`head` but judges the body of a later `get`, and `CasInv` is what closes that gap: on S3
because no body is ever stored twice, on git because commits only grow. `HolderInv` adds
that a holder whose lock is gone or replaced has expired; two good leases would then both own the
one `lock.json`. Proved of `LockSpec`: `LockTypeOK`, `MutualExclusion`, `LiveLockStays`
(these two if DELETE honours `If-Match`, `~BlindDelete`; they fail otherwise), `BlockingIsBounded`, `RefusalHasCause` (from `CauseInv`).

**Capsule_proofs**. `CapsuleImplementsLock`: every step of the capsule is a step of the lock
or leaves it alone, and a write of any other key is a foreign commit. Hence
`CapsuleMutualExclusion`. Both assume `Commits = Nat`, that is, no bound on the environment.

`CheckpointInv` follows one pointer through its life: `StampInv` (stamped
once, by its writer, under a name no earlier run used), `UploadInv` (what it names stays uploaded
unless another process stamped the same second), `InstalledInv` (what was installed is past its
compare-and-swap, and only what was installed is ever restored), `WorkdirInv` (in a working copy,
however old, its own pointer resolves, and so does the one being restored), `OutcomeInv` (what the command returns,
and its health record says, follows what became of the pointer), `WrittenInv` (a failed
canary wrote nothing). None of the properties is inductive without the others: that a restore is not torn needs
that the pointer it read resolves, which needs that its writer had uploaded both keys, whose
names nobody else stamped. Proved of `Spec`: `TypeOK`, `InstalledResolves`, `RestoreNeverTorn`,
`MirrorsFollow`, `HealthTruthful`.

`BaseInv` (who has looked at `latest.json` by when, and that a run's stamp
is newer) and `TagInv` (if an etag is still current, `latest.json` is still what it was taken with: on S3
because the etag is the content's, on git because every write makes a commit, so that a copy at
the head's commit has the head's pointer, `HeadInv`) give `ImplementsRegister`. `ReplacedInv` and `FanOutInv` use the theorem about the lock: two runs
that both work are not both within their leases, so without an overdue run or a seed
nothing comes between a restore and its save, or between a save and its fan-out. They give
`ConflictHasCause` and `MirrorsCatchUp` (both with `~BlindDelete` and `Commits = Nat`). With these every property of
`Capsule` that a run checks is proved.

**GitBranch_proofs**. All of it assumes `OwnCopies`, no two tasks in one working copy: that is
how a command uses its store, and the finding `git_parallel` shows what happens otherwise.
`CopyInv`: between calls a copy is exactly a commit, index and files included; within a call
it is that commit with one change (`Written`). `WriteInv`: what is about to be pushed is that
change as one commit, on top of `lease`, that nobody else has; so the only remote at which
git accepts the push is `lease` (`PushAtLease`), and the condition that was checked on the
copy is true of the remote. `ReplyInv` keeps the history variables honest, `SeenInv` ties each
etag a task was told to the tree of its commit. From these: `GitTypeOK`, `HistoryKept`,
`SwapReplacesWhatWasRead`, and `ImplementsAtomicStore`, where `Push` is the instant a write
takes effect, `FetchAndReset` that of a read or of a write that changes nothing, and every
other command is a stutter, the start or the end of a call.

**Export_proofs**. `ApiInv` accounts for every request (one first, one per back-off, one
per refresh) and for every refusal (stages come in order) and gives typing,
`RequestsAreBounded`, `TransientIsExhausted`, `RefusedTwice` and `DeniedOnlyInSweep` of
`ApiClient`. `ExportImplementsClient`: a step of the export is one of `ApiClient` or none, so
all of that holds of `ExportSpec`.

**SessionLife_proofs**. `CaptureInv`: events are bounded by what happened (`EventsInv`), each point
of the loop is reached for its reason (`ReachedInv`: once the last page is gone, jar and
pages stay as they are), and the cache is the last answer (`SeenInv`). From it
`WaitsForTheUser`, `CapturesTheLastJar`, `NothingSeenIsLost`.

`ImportedInv` (after the import the browser has what was
restored, less what has lapsed, and no more) makes `CheckpointStaysAlive` inductive and
gives the action property `ProfileStaysOut`.

`LifeTypeInv` adds that a jar has one token of the login because a new one replaces the old,
which makes `LifeTypeOK` inductive.

**ReleaseMirror_proofs**. A call remembers ids while the list moves under it. `ListInv` is what
GitHub promises (ids ascend, a name has one asset), `ReadInv` what that makes of the ids a call
has read: ids only grow, so of those read for a name only the greatest can still be listed.
`PageInv` says that the pages read so far hold the asset of the name, or none of them does,
unless a deletion moved the list (`shifted`); `SeenInv` and `EmptiedInv` keep the history
variables honest. Together with the answers (`AnswerInv`) they are inductive, and give
`ReleaseTypeOK`, `NamesSurvive`, `PutRefusedForCause` and `GetAnswersAMoment` for any number of
calls and any page size.

**Export_proofs**, the conversation. `Walking`: what was walked is linked along parents, every
node is above those before it, and no node comes twice unless the walk is in a circle. The last
matters because only a walk that has left nothing twice can end, and it makes `Reversed` a
list with older ones first; that is what `Rendering` carries over into the text, node by node.
At the end of the walk its nodes are closed under parents, so they are all of `Branch`, which is
defined as a least set and without an order. From this `ExportTypeOK` and `MarkdownIsBranch`,
for every tree, circles and gaps included.

**ChatsSync_proofs**. `EarlyStopIsSound` is far from inductive: it speaks of the stored index,
while what a session will store depends on what it has in memory, on where its listing is, and
on what the user has moved since. `ChatsInv` has five parts, which are proved of one action
after the other:

- `TypeInv`: types, and what a session has in memory in each phase;
- `Past`: index, bodies, entries, queues and exports are never newer than the conversation, so
  that an update makes all of them out of date;
- `Ahead`: a session that can still save has, of each conversation, what the index has or a
  later version; an import what the index or its archive has. `NoLostUpdate` follows;
- `Lone`: a lone daily run has stored at least what its entries say, and will only replace a
  body by a later one. `IndexIsBackedAlone` follows;
- `Sound`: in the list, nothing that the index has (`Current`), that a session will have saved
  (`Coming`), or that an archive has (`Archived`) comes before something that it has not, up to
  where the session has read (`Reach`), but for what was left behind, is hidden or given up.
  An update moves its conversation to the front and out of all three sets. A deletion
  slides the list, and the one conversation that may slip past the listing is the one `left`
  names. A listing that stops at a known conversation needs no further reading, because what
  comes after a conversation that the index has is covered by the first of these sets.

It holds for any number of overlapping runs and imports, any page size and any stop rule.

**ListLemmas** states what the library does not: `Min` and `Max`, `RemoveAt`, `RemoveFirst`,
`Reverse` and `Range` of lists.

**Model-checked only**: all liveness, which the prover's temporal backend does not reach under
fairness (`DailyRunsCatchUp`, `EveryCallReturns`, `ExportEnds`, `CaptureReturns`), and
`git_branch` copies that tasks share. Every invariant, action property and refinement that a
passing run checks is proved, under the assumptions named above (`OwnCopies`, `~BlindDelete`,
`Commits = Nat`) where there are any. No theorem needs a recursive definition: the walk over a tree and the rendering
are loops of actions, so no induction over data is needed either.

## Not modelled

- `build_store` and the environment variables it consumes: a command builds its stores once,
  before anything else happens.
- Update times cut to whole seconds (`workload/chatgpt.rs:23`), and the workload on a
  `git_branch` primary: `ChatsSync` has exact counts and S3's etags.
- The handler pump of the browser session, the stealth script, local storage (which the code
  skips, too).
- `archive.rs`, `crypto/`: conversions by libraries. A signature or ciphertext is either
  its writer's or not.
- `config.rs`, `secrets.rs`, `main.rs`: parsing and validation, without behaviour in time.
- Contents: cookies, conversations, logs. Names of keys, except that snapshots of one
  second share theirs.

## Plan

Done: `SnapshotStore`, `Lock`, `Capsule` with `CheckpointRegister`, `ChatsSync`, `ApiClient`,
`GitBranch` with `AtomicStore`, `ReleaseMirror`, `Capture` with `SessionLife`, `Export`, each with
its proofs. Left, in order of importance:

1. `ChatsSync` with listings cut to whole seconds, and over the etags of a git branch.
2. Several stores of one configuration that name the same environment variable (`build_store`).
