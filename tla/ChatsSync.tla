------------------------------ MODULE ChatsSync ------------------------------
(***************************************************************************)
(* The incremental archive of ChatGPT conversations: the chatgpt_chats     *)
(* workload (workload/chatgpt_chats.rs), which a `repossess run` executes  *)
(* every day, and `repossess import-chatgpt` (commands/import_chatgpt.rs), *)
(* which seeds the same archive from an official export, without the lock. *)
(*                                                                         *)
(* The archive is one object per conversation and an index that says which *)
(* update_time of each conversation is stored.  The API lists              *)
(* conversations most recently updated first, a page at a time, while the  *)
(* user goes on chatting; a session stops listing once it has met          *)
(* StopAfter known conversations in a row.                                 *)
(*                                                                         *)
(* An update_time is a count of the conversation's updates, and a body is  *)
(* the count it was read at; 0 is a conversation that does not exist or is *)
(* not stored.                                                             *)
(*                                                                         *)
(* Update times are exact, as in an API that reports them as numbers.      *)
(* (Reported as text they are cut to whole seconds, which is left out.)    *)
(***************************************************************************)
EXTENDS Naturals, SequencesExt

CONSTANTS
  Convs,
  Hidden,      \* listed, but the API refuses their bodies (projects, gizmos)
  Deletable,   \* conversations the user may delete
  Daily,       \* daily runs; one that outlives its lease overlaps the next
  Imports,     \* runs of import-chatgpt
  PageLimit,   \* list_page_limit
  StopAfter,   \* incremental_stop_after_known
  MaxChanges,  \* bound: updates and deletions by the user
  MaxFaults    \* bound: failed calls and killed processes

ASSUME ChatsConstants ==
  /\ Hidden \subseteq Convs /\ Deletable \subseteq Convs
  /\ Daily \cap Imports = {}
  /\ {PageLimit, StopAfter} \subseteq Nat \ {0}
  /\ {MaxChanges, MaxFaults} \subseteq Nat

VARIABLES
  recent,   \* upstream: the conversations as the API lists them
  time,     \* upstream: the update_time of each conversation
  changes,  \* how often the user changed something
  faults,   \* how often something failed
  index,    \* primary: the update_time the stored index has for each conversation
  body,     \* primary: the version of each conversation's object
  phase,    \* where each session is
  entries,  \* the index as a session has it in memory
  fresh,    \* whether the stored index still is the object whose etag it holds
  offset,   \* the next page it will ask for
  run,      \* consecutive_known
  queue,    \* summaries whose bodies it has yet to fetch
  again,    \* failed: summaries for the retry sweep
  held,     \* the body it fetched and is about to store
  archive,  \* the export an import was given
  pending,  \* what an import has yet to upload
  dropped,  \* history: what it gave up on, or entered under an older summary
  left,     \* history: conversations some session left behind
  alone     \* history: no sessions overlapped and no import ran

upstreamVars == <<recent, time, changes>>
storeVars    == <<index, body>>
sessionVars  == <<phase, entries, fresh, offset, run, queue, again, held,
                  archive, pending, dropped>>
vars == <<upstreamVars, faults, storeVars, sessionVars, left, alone>>

Sessions  == Daily \cup Imports
Times     == 0 .. MaxChanges
Summaries == [id : Convs, update_time : Times]
Nothing   == [c \in Convs |-> 0]
Storing   == {"put", "reput"}
Phases    == {"idle", "list", "fetch", "refetch", "upload", "done"} \cup Storing

ChatsTypeOK ==
  /\ recent \in Seq(Convs) /\ IsInjective(recent)
  /\ time \in [Convs -> Times]
  /\ changes \in 0 .. MaxChanges /\ faults \in 0 .. MaxFaults
  /\ index \in [Convs -> Times] /\ body \in [Convs -> Times]
  /\ phase \in [Sessions -> Phases]
  /\ entries \in [Sessions -> [Convs -> Times]]
  /\ fresh \in [Sessions -> BOOLEAN]
  /\ offset \in [Sessions -> Nat]
  /\ run \in [Sessions -> 0 .. StopAfter - 1]
  /\ queue \in [Sessions -> Seq(Summaries)]
  /\ again \in [Sessions -> Seq(Summaries)]
  /\ held \in [Sessions -> Times]
  /\ archive \in [Imports -> [Convs -> Times]]
  /\ pending \in [Imports -> SUBSET Convs]
  /\ dropped \in [Sessions -> SUBSET Convs]
  /\ left \subseteq Convs
  /\ alone \in BOOLEAN

Init ==
  /\ recent = <<>> /\ time = Nothing /\ changes = 0 /\ faults = 0
  /\ index = Nothing /\ body = Nothing
  /\ phase = [s \in Sessions |-> "idle"]
  /\ entries = [s \in Sessions |-> Nothing]
  /\ fresh = [s \in Sessions |-> FALSE]
  /\ offset = [s \in Sessions |-> 0]
  /\ run = [s \in Sessions |-> 0]
  /\ queue = [s \in Sessions |-> <<>>]
  /\ again = [s \in Sessions |-> <<>>]
  /\ held = [s \in Sessions |-> 0]
  /\ archive = [s \in Imports |-> Nothing]
  /\ pending = [s \in Imports |-> {}]
  /\ dropped = [s \in Sessions |-> {}]
  /\ left = {} /\ alone = TRUE

-----------------------------------------------------------------------------
(***************************************************************************)
(* The user: an updated or new conversation moves to the head of the list. *)
(***************************************************************************)
Listed == Range(recent)

Update(c) ==
  /\ changes < MaxChanges
  /\ c \in Listed \/ time[c] = 0
  /\ recent' = <<c>> \o RemoveFirst(recent, c)
  /\ time' = [time EXCEPT ![c] = @ + 1]
  /\ changes' = changes + 1
  /\ left' = left \ {c}
  /\ UNCHANGED <<faults, storeVars, sessionVars, alone>>

(***************************************************************************)
(* A deletion makes the list slide up: the conversation at the next page's *)
(* first place moves to a page that a listing session has already read.    *)
(***************************************************************************)
Delete(c) ==
  /\ changes < MaxChanges
  /\ c \in Listed \cap Deletable
  /\ recent' = RemoveFirst(recent, c)
  /\ changes' = changes + 1
  /\ LET slid(s) == /\ phase[s] = "list"
                    /\ offset[s] < Len(recent)
                    /\ c \in Range(SubSeq(recent, 1, offset[s]))
     IN  left' = left \cup {recent[offset[s] + 1] : s \in {t \in Daily : slid(t)}}
  /\ UNCHANGED <<time, faults, storeVars, sessionVars, alone>>

-----------------------------------------------------------------------------
Fault == faults < MaxFaults /\ faults' = faults + 1

Pop(s) == queue' = [queue EXCEPT ![s] = Tail(@)]

(* A session ends, however it ends: what it had in memory is gone. *)
End(s) ==
  /\ phase' = [phase EXCEPT ![s] = IF s \in Daily THEN "idle" ELSE "done"]
  /\ entries' = [entries EXCEPT ![s] = Nothing]
  /\ offset' = [offset EXCEPT ![s] = 0]
  /\ run' = [run EXCEPT ![s] = 0]
  /\ queue' = [queue EXCEPT ![s] = <<>>]
  /\ again' = [again EXCEPT ![s] = <<>>]
  /\ held' = [held EXCEPT ![s] = 0]
  /\ archive' = [t \in Imports |-> IF t = s THEN Nothing ELSE archive[t]]
  /\ pending' = [t \in Imports |-> IF t = s THEN {} ELSE pending[t]]
  /\ dropped' = [dropped EXCEPT ![s] = {}]

Forget(s) == fresh' = [fresh EXCEPT ![s] = FALSE]

(***************************************************************************)
(* load_index.  head only decides whether there is anything to get; the    *)
(* index is never deleted, so the pair acts as one read, at the get if     *)
(* there is one and else at the head.                                      *)
(***************************************************************************)
LoadIndex(s) ==
  /\ entries' = [entries EXCEPT ![s] = index]
  /\ fresh' = [fresh EXCEPT ![s] = TRUE]

Start(d) ==
  /\ phase[d] = "idle"
  /\ LoadIndex(d)
  /\ phase' = [phase EXCEPT ![d] = "list"]
  /\ alone' = (alone /\ \A s \in Daily \ {d} : phase[s] = "idle")
  /\ UNCHANGED <<upstreamVars, faults, storeVars, offset, run, queue, again, held,
                 archive, pending, dropped, left>>

Summary(c) == [id |-> c, update_time |-> time[c]]

BugKnownById(s, summary) ==   \* any conversation in the index counts as known
  entries[s][summary.id] # 0

(* The index has the update_time the page reports. *)
Known(s, summary) == entries[s][summary.id] = summary.update_time

(* Of the conversations, by their places in the list, a page has those not
   yet seen; some are unknown, and some end a row of StopAfter known ones. *)
Page(d)    == (offset[d] + 1 .. offset[d] + PageLimit) \cap DOMAIN recent
Unknown(d) == {i \in Page(d) : ~Known(d, Summary(recent[i]))}

InARow(d, i) ==
  LET before == {j \in Unknown(d) : j <= i}
  IN  IF before = {} THEN run[d] + (i - offset[d]) ELSE i - Max(before)

CaughtUp(d) == {i \in Page(d) : InARow(d, i) >= StopAfter}
Seen(d)     == IF CaughtUp(d) = {} THEN Page(d) ELSE {i \in Page(d) : i <= Min(CaughtUp(d))}
PageIsFull(d) == offset[d] + PageLimit <= Len(recent)

(* A set of places as the list of them in order. *)
InOrder(P) ==
  {at \in Bijection(1 .. Cardinality(P), P) : \A i, j \in DOMAIN at : i < j => at[i] < at[j]}

BugNeverStops(d) ==   \* the end of the history is not recognised
  /\ phase[d] = "list"
  /\ offset' = [offset EXCEPT ![d] = @ + PageLimit]
  /\ run' = [run EXCEPT ![d] = @ + 1]
  /\ UNCHANGED <<upstreamVars, faults, storeVars, phase, entries, fresh, queue, again,
                 held, archive, pending, dropped, left, alone>>

(***************************************************************************)
(* collect_outdated, one page.  Listing ends at StopAfter known            *)
(* conversations in a row, or with a page that is not full; with nothing   *)
(* to fetch the session is over.                                           *)
(***************************************************************************)
CollectOutdated(d) ==
  /\ phase[d] = "list"
  /\ \E at \in InOrder(Seen(d) \cap Unknown(d)) :
       LET found == queue[d] \o [k \in DOMAIN at |-> Summary(recent[at[k]])]
       IN  \/ /\ CaughtUp(d) = {} /\ PageIsFull(d)
              /\ queue' = [queue EXCEPT ![d] = found]
              /\ offset' = [offset EXCEPT ![d] = @ + PageLimit]
              /\ run' = [run EXCEPT ![d] = InARow(d, offset[d] + PageLimit)]
              /\ UNCHANGED <<phase, entries, fresh, again, held, archive, pending, dropped>>
           \/ /\ CaughtUp(d) # {} \/ ~PageIsFull(d)
              /\ found # <<>>
              /\ queue' = [queue EXCEPT ![d] = found]
              /\ phase' = [phase EXCEPT ![d] = "fetch"]
              /\ offset' = [offset EXCEPT ![d] = 0]
              /\ run' = [run EXCEPT ![d] = 0]
              /\ UNCHANGED <<entries, fresh, again, held, archive, pending, dropped>>
           \/ /\ CaughtUp(d) # {} \/ ~PageIsFull(d)
              /\ found = <<>>
              /\ End(d) /\ Forget(d)
  /\ UNCHANGED <<upstreamVars, faults, storeVars, left, alone>>

(***************************************************************************)
(* The body of the next conversation: whatever the API has now, which may  *)
(* be newer than the list said.  A conversation the API hides or no longer *)
(* has is skipped.                                                         *)
(***************************************************************************)
Fetch(d) ==
  /\ phase[d] \in {"fetch", "refetch"} /\ queue[d] # <<>>
  /\ LET c == Head(queue[d]).id
     IN  \/ /\ c \in Listed \ Hidden
            /\ held' = [held EXCEPT ![d] = time[c]]
            /\ phase' = [phase EXCEPT ![d] = IF @ = "fetch" THEN "put" ELSE "reput"]
            /\ UNCHANGED queue
         \/ /\ c \notin Listed \ Hidden
            /\ Pop(d)
            /\ UNCHANGED <<held, phase>>
  /\ UNCHANGED <<upstreamVars, faults, storeVars, entries, fresh, offset, run, again,
                 archive, pending, dropped, left, alone>>

(***************************************************************************)
(* A fetch that fails.  The first time a transient failure is put aside;   *)
(* the sweep gives up on any failure (a fatal first one is an Abort).      *)
(***************************************************************************)
BugTransientIndexed(d) ==   \* the entry is written before the body is there
  /\ Fault
  /\ phase[d] = "fetch" /\ queue[d] # <<>>
  /\ entries' = [entries EXCEPT ![d][Head(queue[d]).id] = Head(queue[d]).update_time]
  /\ Pop(d)
  /\ UNCHANGED <<upstreamVars, storeVars, phase, fresh, offset, run, again, held,
                 archive, pending, dropped, left, alone>>

FetchFails(d) ==
  /\ Fault
  /\ queue[d] # <<>>
  /\ \/ /\ phase[d] = "fetch"
        /\ again' = [again EXCEPT ![d] = Append(@, Head(queue[d]))]
        /\ UNCHANGED dropped
     \/ /\ phase[d] = "refetch"
        /\ dropped' = [dropped EXCEPT ![d] = @ \cup {Head(queue[d]).id}]
        /\ UNCHANGED again
  /\ Pop(d)
  /\ UNCHANGED <<upstreamVars, storeVars, phase, entries, fresh, offset, run, held,
                 archive, pending, left, alone>>

(***************************************************************************)
(* store_conversation: an unconditional put, then the entry in memory.  A  *)
(* conversation that moved while it was listed may have been listed twice, *)
(* and the sweep may come to its older summary after the newer one.        *)
(***************************************************************************)
StoreConversation(d) ==
  /\ phase[d] \in Storing
  /\ LET summary == Head(queue[d])
         older   == summary.update_time < entries[d][summary.id]
     IN  /\ body' = [body EXCEPT ![summary.id] = held[d]]
         /\ entries' = [entries EXCEPT ![d][summary.id] = summary.update_time]
         /\ dropped' = [dropped EXCEPT ![d] = IF older THEN @ \cup {summary.id} ELSE @]
  /\ phase' = [phase EXCEPT ![d] = IF @ = "put" THEN "fetch" ELSE "refetch"]
  /\ held' = [held EXCEPT ![d] = 0]
  /\ Pop(d)
  /\ UNCHANGED <<upstreamVars, faults, index, fresh, offset, run, again,
                 archive, pending, left, alone>>

(* The single retry sweep over what failed. *)
Sweep(d) ==
  /\ phase[d] = "fetch" /\ queue[d] = <<>> /\ again[d] # <<>>
  /\ phase' = [phase EXCEPT ![d] = "refetch"]
  /\ queue' = [queue EXCEPT ![d] = again[d]]
  /\ again' = [again EXCEPT ![d] = <<>>]
  /\ UNCHANGED <<upstreamVars, faults, storeVars, entries, fresh, offset, run, held,
                 archive, pending, dropped, left, alone>>

(***************************************************************************)
(* import-chatgpt.  The user downloads an export; any time later the       *)
(* import loads the index and decides what to upload.  Uploads run in      *)
(* parallel and finish in any order; one that fails is counted, and the    *)
(* index is saved all the same.                                            *)
(***************************************************************************)
Export(m) ==
  /\ phase[m] = "idle" /\ archive[m] = Nothing /\ Listed # {}
  /\ archive' = [archive EXCEPT ![m] = [c \in Convs |-> IF c \in Listed THEN time[c] ELSE 0]]
  /\ UNCHANGED <<upstreamVars, faults, storeVars, phase, entries, fresh, offset, run,
                 queue, again, held, pending, dropped, left, alone>>

StartImport(m) ==
  /\ phase[m] = "idle" /\ archive[m] # Nothing
  /\ LoadIndex(m)
  /\ pending' = [pending EXCEPT ![m] =
                   {c \in Convs : archive[m][c] # 0 /\ index[c] # archive[m][c]}]
  /\ phase' = [phase EXCEPT ![m] = "upload"]
  /\ alone' = FALSE
  /\ UNCHANGED <<upstreamVars, faults, storeVars, offset, run, queue, again, held,
                 archive, dropped, left>>

Upload(m, c) ==
  /\ phase[m] = "upload" /\ c \in pending[m]
  /\ body' = [body EXCEPT ![c] = archive[m][c]]
  /\ entries' = [entries EXCEPT ![m][c] = archive[m][c]]
  /\ pending' = [pending EXCEPT ![m] = @ \ {c}]
  /\ UNCHANGED <<upstreamVars, faults, index, phase, fresh, offset, run, queue, again,
                 held, archive, dropped, left, alone>>

UploadFails(m, c) ==
  /\ Fault
  /\ phase[m] = "upload" /\ c \in pending[m]
  /\ body' \in {body, [body EXCEPT ![c] = archive[m][c]]}   \* refused, or unanswered
  /\ pending' = [pending EXCEPT ![m] = @ \ {c}]
  /\ dropped' = [dropped EXCEPT ![m] = @ \cup {c}]
  /\ UNCHANGED <<upstreamVars, index, phase, entries, fresh, offset, run, queue, again,
                 held, archive, left, alone>>

(***************************************************************************)
(* save_index: put_if_unmodified with the etag load_index returned.        *)
(***************************************************************************)
Finished(s) ==
  \/ phase[s] = "fetch" /\ queue[s] = <<>> /\ again[s] = <<>>
  \/ phase[s] = "refetch" /\ queue[s] = <<>>
  \/ phase[s] = "upload" /\ pending[s] = {}

(* What the session leaves to a later one: failures, and older archives. *)
LeftBy(s) == dropped[s] \cup {c \in Convs : entries[s][c] < index[c]}

WriteIndex(s) ==
  /\ Finished(s)
  /\ index' = entries[s]
  /\ fresh' = [t \in Sessions |-> FALSE]
  /\ left' = {c \in left \cup LeftBy(s) : entries[s][c] # time[c]}
  /\ End(s)
  /\ UNCHANGED <<upstreamVars, faults, body, alone>>

BugPlainSave(s) == WriteIndex(s)   \* an unconditional put

SaveIndex(s) == fresh[s] /\ WriteIndex(s)

SaveIndexRefused(s) ==
  /\ Finished(s) /\ ~fresh[s]
  /\ End(s) /\ Forget(s)
  /\ UNCHANGED <<upstreamVars, faults, storeVars, left, alone>>

(***************************************************************************)
(* Everything that ends a session early: a fatal answer, a refused put, a  *)
(* canary or a lock lost, a killed job.  A put in flight may have landed.  *)
(***************************************************************************)
BugSaveOnAbort(s) ==   \* keep what was fetched, though the rest was not
  /\ Fault
  /\ phase[s] \notin {"idle", "done"} /\ fresh[s]
  /\ index' = entries[s]
  /\ fresh' = [t \in Sessions |-> FALSE]
  /\ End(s)
  /\ UNCHANGED <<upstreamVars, body, left, alone>>

Abort(s) ==
  /\ Fault
  /\ phase[s] \notin {"idle", "done"}
  /\ \/ UNCHANGED body
     \/ /\ phase[s] \in Storing
        /\ body' = [body EXCEPT ![Head(queue[s]).id] = held[s]]
     \/ \E landed \in (IF phase[s] = "upload" THEN SUBSET pending[s] ELSE {}) :
          body' = [c \in Convs |-> IF c \in landed THEN archive[s][c] ELSE body[c]]
  /\ End(s) /\ Forget(s)
  /\ UNCHANGED <<upstreamVars, index, left, alone>>

-----------------------------------------------------------------------------
Work(d) ==
  \/ Start(d) \/ CollectOutdated(d) \/ Fetch(d) \/ StoreConversation(d) \/ Sweep(d)
  \/ SaveIndex(d) \/ SaveIndexRefused(d)

Importing(m) ==
  \/ Export(m) \/ StartImport(m) \/ SaveIndex(m) \/ SaveIndexRefused(m)
  \/ \E c \in Convs : Upload(m, c) \/ UploadFails(m, c)

Next ==
  \/ \E c \in Convs : Update(c) \/ Delete(c)
  \/ \E d \in Daily : Work(d) \/ FetchFails(d)
  \/ \E m \in Imports : Importing(m)
  \/ \E s \in Sessions : Abort(s)

Spec == Init /\ [][Next]_vars

(***************************************************************************)
(* The schedule starts a run every day, and a run that nothing stops goes  *)
(* on: its awaits all end, in an answer or in an error.  Nothing is        *)
(* assumed of the user or of imports.                                      *)
(***************************************************************************)
FairSpec == Spec /\ \A d \in Daily : WF_vars(Work(d))

-----------------------------------------------------------------------------
(***************************************************************************)
(* Stopping at StopAfter known conversations is sound: a conversation that *)
(* is not up to date, unless some session left it behind, is preceded in   *)
(* the list only by conversations that are not up to date either, so a     *)
(* listing comes to it before it comes to anything it knows.               *)
(***************************************************************************)
EarlyStopIsSound ==
  \A i, j \in 1 .. Len(recent) :
    (/\ i < j
     /\ index[recent[j]] # time[recent[j]]
     /\ recent[j] \notin left \cup Hidden)
    => index[recent[i]] # time[recent[i]]

(***************************************************************************)
(* No session's entries are lost to another one that overlaps it (lease    *)
(* overrun, or an import, which takes no lock): an entry goes down only    *)
(* when an import replaces it by its archive's.                            *)
(***************************************************************************)
NoLostUpdate ==
  [][\A c \in Convs : index'[c] < index[c] =>
       \E m \in Imports : phase[m] = "upload" /\ index'[c] = archive[m][c]]_vars

(***************************************************************************)
(* The index never vouches for a version whose body is not there: the next *)
(* listing would take the conversation for known and never fetch it.       *)
(***************************************************************************)
IndexIsBacked == \A c \in Convs : index[c] <= body[c]

(* So it is as long as daily runs have the archive to themselves. *)
IndexIsBackedAlone == alone => IndexIsBacked

(***************************************************************************)
(* When the user and the failures come to rest, the daily runs bring every *)
(* conversation up to date, those left behind excepted: README:557-558 and *)
(* chatgpt_chats.rs:301 leave them to later runs, which stop listing once  *)
(* StopAfter newer conversations are known.                                *)
(***************************************************************************)
UpToDate(c) == c \in Listed \ Hidden => index[c] = time[c]

DailyRunsCatchUp == <>[](\A c \in Convs \ left : UpToDate(c))
==============================================================================
