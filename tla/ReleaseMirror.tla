---------------------------- MODULE ReleaseMirror ----------------------------
(***************************************************************************)
(* GithubReleaseStore (stores/github_release.rs): put and get on the       *)
(* assets of one release; the others are other instances.  A key and the   *)
(* name of its asset are one here.  An asset never changes, so its id      *)
(* stands for the body it was uploaded with.                               *)
(*                                                                         *)
(* GitHub's part: a name is taken by at most one asset of a release, and   *)
(* assets are listed by id, page by page, each page as of its request.     *)
(***************************************************************************)
EXTENDS Naturals, SequencesExt

CONSTANTS
  Putters, Getters,  \* calls: each is made once
  Names,
  PageSize,          \* the 100 of list_assets
  Faults,            \* "error": a call fails, or its process dies; "lost_ack"
  None

ASSUME ReleaseConstants ==
  /\ PageSize \in Nat \ {0}
  /\ IsFiniteSet(Names)
  /\ Putters \cap Getters = {} /\ Faults \subseteq {"error", "lost_ack"}

Calls  == Putters \cup Getters
Assets == [id : Nat, name : Names]
NoId   == 0   \* ids start at 1

VARIABLES
  exists,   \* the release
  assets,   \* what it lists
  lastId,   \* the last id given
  pc, name, page,
  matches,  \* the listed ids of the name; the list is in the order of the ids
  result,
  during,   \* history: the ids the name has had since the call began
  shifted,  \* history: an asset was deleted between two pages of the call
  emptied   \* history: the put that left a name without an asset

callVars == <<name, page, matches, result, during, shifted>>
vars     == <<exists, assets, lastId, pc, callVars, emptied>>

Steps   == {"begin", "tag", "create", "list", "delete", "upload", "download", "done"}
Results == {"none", "ok", "error", "raced", "refused", "missing"}

ReleaseTypeOK ==
  /\ exists \in BOOLEAN /\ lastId \in Nat
  /\ assets \in Seq(Assets) /\ (assets # <<>> => exists)
  /\ pc \in [Calls -> Steps] /\ name \in [Calls -> Names]
  /\ page \in [Calls -> Nat]
  /\ matches \in [Calls -> SUBSET Nat]
  /\ result \in [Calls -> Results]
  /\ during \in [Calls -> SUBSET Nat]
  /\ shifted \in [Calls -> BOOLEAN]
  /\ emptied \in [Names -> Putters \cup {None}]

(* The ids of the assets with this name, at these positions of the list. *)
Named(positions, n) == {assets[i].id : i \in {j \in positions : assets[j].name = n}}

IdOf(n) ==
  LET ids == Named(DOMAIN assets, n) IN IF ids = {} THEN NoId ELSE Min(ids)

Init ==
  /\ \E kept \in {order \in [1 .. Cardinality(Names) -> Names] : IsInjective(order)},
        length \in 0 .. Cardinality(Names), there \in BOOLEAN :
       /\ exists = (there \/ length > 0)
       /\ assets = [i \in 1 .. length |-> [id |-> i, name |-> kept[i]]]
       /\ lastId = length
  /\ pc = [c \in Calls |-> "begin"]
  /\ name \in [Calls -> Names]
  /\ page = [c \in Calls |-> 1]
  /\ matches = [c \in Calls |-> {}]
  /\ result = [c \in Calls |-> "none"]
  /\ during = [c \in Calls |-> {}]
  /\ shifted = [c \in Calls |-> FALSE]
  /\ emptied = [n \in Names |-> None]

-----------------------------------------------------------------------------
Goto(c, s) == pc' = [pc EXCEPT ![c] = s]

Return(c, r) ==
  /\ result' = [result EXCEPT ![c] = r]
  /\ Goto(c, "done")

Running(c) == pc[c] \notin {"begin", "done"}

(* What the calls under way see of a change of this name's asset. *)
Witnessed(n, id) ==
  during' = [c \in Calls |-> IF Running(c) /\ name[c] = n THEN during[c] \cup {id}
                                                          ELSE during[c]]

Begin(c) ==
  /\ pc[c] = "begin"
  /\ Goto(c, "tag")
  /\ during' = [during EXCEPT ![c] = {IdOf(name[c])}]
  /\ UNCHANGED <<exists, assets, lastId, name, page, matches, result, shifted, emptied>>

(* release_by_tag: a put goes on to create what is not there. *)
ReleaseByTag(c) ==
  /\ pc[c] = "tag"
  /\ \/ exists /\ Goto(c, "list") /\ UNCHANGED result
     \/ ~exists /\ c \in Putters /\ Goto(c, "create") /\ UNCHANGED result
     \/ ~exists /\ c \in Getters /\ Return(c, "missing")
  /\ UNCHANGED <<exists, assets, lastId, name, page, matches, during, shifted, emptied>>

(* ensure_release: GitHub refuses a tag that another put has just taken. *)
EnsureRelease(c) ==
  /\ pc[c] = "create"
  /\ exists' = TRUE
  /\ IF exists THEN Return(c, "raced") ELSE Goto(c, "list") /\ UNCHANGED result
  /\ UNCHANGED <<assets, lastId, name, page, matches, during, shifted, emptied>>

-----------------------------------------------------------------------------
(* How many assets the pages before this one hold. *)
Before(p) == (p - 1) * PageSize

BugOnePage(p) == TRUE   \* list_assets reads the first page only

(* list_assets: a page that is not full is the last. *)
LastPage(p) == Len(assets) < Before(p + 1)

(* The assets put deletes, and get chooses from. *)
BugAllMatch(positions, n) == {assets[i].id : i \in positions}
Matching(positions, n) == Named(positions, n)

ListAssets(c) ==
  LET batch == {i \in DOMAIN assets : Before(page[c]) < i /\ i <= Before(page[c] + 1)}
      found == matches[c] \cup Matching(batch, name[c])
  IN
  /\ pc[c] = "list"
  /\ matches' = [matches EXCEPT ![c] = found]
  /\ \/ /\ ~LastPage(page[c])
        /\ page' = [page EXCEPT ![c] = @ + 1]
        /\ UNCHANGED <<pc, result>>
     \/ /\ LastPage(page[c]) /\ c \in Putters
        /\ Goto(c, IF found = {} THEN "upload" ELSE "delete")
        /\ UNCHANGED <<page, result>>
     \/ /\ LastPage(page[c]) /\ c \in Getters
        /\ IF found = {} THEN Return(c, "missing")
                         ELSE Goto(c, "download") /\ UNCHANGED result
        /\ UNCHANGED page
  /\ UNCHANGED <<exists, assets, lastId, name, during, shifted, emptied>>

(* put drops the assets of its name, one call each; one that is gone is an error. *)
DeleteAsset(c) ==
  LET id == Min(matches[c]) IN
  /\ pc[c] = "delete"
  /\ \/ /\ \A at \in DOMAIN assets : assets[at].id # id
        /\ Return(c, "refused")
        /\ UNCHANGED <<assets, matches, during, shifted, emptied>>
     \/ \E at \in DOMAIN assets :
        /\ assets[at].id = id
        /\ assets' = RemoveAt(assets, at)
        /\ Witnessed(assets[at].name, NoId)
        /\ shifted' = [d \in Calls |-> shifted[d] \/ (pc[d] = "list" /\ page[d] > 1)]
        /\ emptied' = [emptied EXCEPT ![assets[at].name] = c]
        /\ matches' = [matches EXCEPT ![c] = @ \ {id}]
        /\ IF matches[c] = {id} THEN Goto(c, "upload") ELSE UNCHANGED pc
        /\ UNCHANGED result
  /\ UNCHANGED <<exists, lastId, name, page>>

UploadAsset(c) ==
  /\ pc[c] = "upload"
  /\ \/ /\ IdOf(name[c]) # NoId
        /\ Return(c, "refused")
        /\ UNCHANGED <<assets, lastId, during, emptied>>
     \/ /\ IdOf(name[c]) = NoId
        /\ lastId' = lastId + 1
        /\ assets' = Append(assets, [id |-> lastId', name |-> name[c]])
        /\ Witnessed(name[c], lastId')
        /\ emptied' = [emptied EXCEPT ![name[c]] = None]
        /\ Return(c, "ok") \/ ("lost_ack" \in Faults /\ Return(c, "error"))
  /\ UNCHANGED <<exists, name, page, matches, shifted>>

(* get takes the first match, which may be gone by now. *)
DownloadAsset(c) ==
  /\ pc[c] = "download"
  /\ IF \E i \in DOMAIN assets : assets[i].id = Min(matches[c])
       THEN Return(c, "ok") ELSE Return(c, "refused")
  /\ UNCHANGED <<exists, assets, lastId, name, page, matches, during, shifted, emptied>>

(* A request fails, or the process is killed: the call ends where it is. *)
CallFails(c) ==
  /\ "error" \in Faults /\ Running(c)
  /\ Return(c, "error")
  /\ UNCHANGED <<exists, assets, lastId, name, page, matches, during, shifted, emptied>>

Put(c) == EnsureRelease(c) \/ DeleteAsset(c) \/ UploadAsset(c)

Next ==
  \/ \E c \in Calls : Begin(c) \/ ReleaseByTag(c) \/ ListAssets(c) \/ CallFails(c)
  \/ \E c \in Putters : Put(c)
  \/ \E c \in Getters : DownloadAsset(c)

Spec == Init /\ [][Next]_vars

-----------------------------------------------------------------------------
(***************************************************************************)
(* A name that had an asset loses it for good only where a put was cut     *)
(* between its delete and its upload (github_release.rs:265-271); however  *)
(* puts of the name overlap, one of them leaves it with an asset.          *)
(***************************************************************************)
NamesSurvive ==
  \A n \in Names : emptied[n] # None =>
    pc[emptied[n]] \in {"delete", "upload"} \/ result[emptied[n]] = "error"

(* The name of a call has had two assets, or one and none, since it began. *)
Changed(c) == \E i, j \in during[c] : i # j

(***************************************************************************)
(* "If an asset with the same name exists, drop it" (line 264): the upload *)
(* finds its name taken, or a delete its asset gone, only if the asset of  *)
(* the name changed under the put, or a deletion moved assets across a     *)
(* page boundary list_assets had passed, so that it missed its own.        *)
(***************************************************************************)
PutRefusedForCause ==
  \A c \in Putters : result[c] = "refused" => shifted[c] \/ Changed(c)

(***************************************************************************)
(* get and put agree on one asset: what a get answers was the asset of the *)
(* name at some moment of the call, and it finds none only if there was    *)
(* none at some moment, or a deletion moved it to a page already read.     *)
(***************************************************************************)
GetAnswersAMoment ==
  \A c \in Getters :
    /\ result[c] = "ok" => Min(matches[c]) \in during[c]
    /\ result[c] = "missing" => NoId \in during[c] \/ shifted[c]
    /\ result[c] = "refused" => Changed(c)
==============================================================================
