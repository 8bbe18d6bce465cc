------------------------- MODULE ReleaseMirror_proofs -------------------------
(***************************************************************************)
(* The safety properties of the github_release mirror, for any number of   *)
(* puts and gets, any names and any page size.                             *)
(*                                                                         *)
(* A call remembers ids and the list moves under it, so the argument ties  *)
(* what a call has read to what the list has become: ids only grow, a name *)
(* has one asset at a time, and so of the ids a call has read for a name   *)
(* only the greatest can still be listed.                                  *)
(***************************************************************************)
EXTENDS ReleaseMirror, ListLemmas

Unlisted(n) == \A i \in DOMAIN assets : assets[i].name # n

(* What GitHub promises of a list. *)
ListInv ==
  /\ \A i, j \in DOMAIN assets : i < j => assets[i].id < assets[j].id
  /\ \A i, j \in DOMAIN assets : assets[i].name = assets[j].name => i = j
  /\ \A i \in DOMAIN assets : 0 < assets[i].id /\ assets[i].id <= lastId

(* The steps come in order, and only a call of its kind takes some of them. *)
StepInv(c) ==
  /\ pc[c] \in {"begin", "tag", "create"} => matches[c] = {} /\ page[c] = 1
  /\ page[c] > 0
  /\ pc[c] \in {"delete", "download"} => matches[c] # {}
  /\ pc[c] # "done" => result[c] = "none"
  /\ pc[c] \in {"create", "delete", "upload"} => c \in Putters
  /\ pc[c] = "download" => c \in Getters
  /\ pc[c] \in {"list", "delete", "upload", "download"} => exists
  /\ c \in Getters /\ result[c] = "ok" => matches[c] # {}

(* What the ids that a call has read are to the list of now. *)
ReadInv(c) ==
  /\ matches[c] \subseteq during[c]
  /\ \A id \in matches[c] : 0 < id /\ id <= lastId
  /\ \A i \in DOMAIN assets : assets[i].id \in matches[c] => assets[i].name = name[c]
  /\ \A i \in DOMAIN assets : assets[i].name = name[c] =>
       \A id \in matches[c] : id <= assets[i].id

(* History: a running call has seen what its name is now, listed or not. *)
SeenInv(c) ==
  Running(c) =>
    /\ \A i \in DOMAIN assets : assets[i].name = name[c] => assets[i].id \in during[c]
    /\ Unlisted(name[c]) => NoId \in during[c]

(* The pages read so far hold the asset of the name or none of them does. *)
PageInv(c) ==
  pc[c] = "list" /\ ~shifted[c] =>
    /\ Before(page[c]) <= Len(assets)
    /\ \A i \in DOMAIN assets :
         i <= Before(page[c]) /\ assets[i].name = name[c] => assets[i].id \in matches[c]

UploadInv(c) == pc[c] = "upload" /\ ~shifted[c] => NoId \in during[c]

(* A put that emptied its name is about to upload, or was cut there. *)
EmptiedInv ==
  \A n \in Names : emptied[n] # None =>
    /\ name[emptied[n]] = n
    /\ Unlisted(n)
    /\ pc[emptied[n]] = "upload" \/ result[emptied[n]] = "error"

(* PutRefusedForCause and GetAnswersAMoment, call by call. *)
AnswerInv(c) ==
  /\ c \in Putters /\ result[c] = "refused" => shifted[c] \/ Changed(c)
  /\ c \in Getters =>
       /\ result[c] = "ok" => Min(matches[c]) \in during[c]
       /\ result[c] = "missing" => NoId \in during[c] \/ shifted[c]
       /\ result[c] = "refused" => Changed(c)

CallInv(c) ==
  /\ StepInv(c) /\ ReadInv(c) /\ SeenInv(c)
  /\ PageInv(c) /\ UploadInv(c) /\ AnswerInv(c)

IInv ==
  /\ ReleaseTypeOK /\ ListInv /\ EmptiedInv
  /\ \A c \in Calls : CallInv(c)

-----------------------------------------------------------------------------
LEMMA BeforeProperties ==
  /\ Before(1) = 0
  /\ \A p \in Nat \ {0} : Before(p) \in Nat /\ Before(p + 1) = Before(p) + PageSize
<1> USE ReleaseConstants DEF Before
<1>1. Before(1) = 0
  BY SMT
<1>2. ASSUME NEW p \in Nat \ {0}
      PROVE  Before(p) \in Nat /\ Before(p + 1) = Before(p) + PageSize
  BY SMT
<1> QED
  BY <1>1, <1>2

LEMMA AssetsType ==
  ASSUME ReleaseTypeOK
  PROVE  /\ Len(assets) \in Nat /\ DOMAIN assets = 1 .. Len(assets)
         /\ \A i \in DOMAIN assets :
              assets[i] \in Assets /\ assets[i].id \in Nat /\ assets[i].name \in Names
<1>1. assets \in Seq(Assets)
  BY DEF ReleaseTypeOK
<1>2. Len(assets) \in Nat /\ DOMAIN assets = 1 .. Len(assets)
  BY <1>1, LenProperties
<1>3. \A i \in DOMAIN assets : assets[i] \in Assets
  BY <1>1, <1>2, ElementOfSeq
<1> QED
  BY <1>2, <1>3, SMT DEF Assets

(* The id of a name is that of its asset, or none. *)
LEMMA IdOfProperties ==
  ASSUME ReleaseTypeOK, ListInv, NEW n
  PROVE  /\ \A i \in DOMAIN assets : assets[i].name = n => IdOf(n) = assets[i].id
         /\ Unlisted(n) => IdOf(n) = NoId
<1>1. ASSUME NEW i \in DOMAIN assets, assets[i].name = n
      PROVE  IdOf(n) = assets[i].id
  <2>1. assets[i].id \in Nat
    BY AssetsType
  <2>2. Named(DOMAIN assets, n) = {assets[i].id}
    BY <1>1, Zenon DEF Named, ListInv
  <2> QED
    BY <2>1, <2>2, MinIsLeast, Zenon DEF IdOf
<1>2. ASSUME Unlisted(n) PROVE IdOf(n) = NoId
  BY <1>2, Zenon DEF IdOf, Named, Unlisted
<1> QED
  BY <1>1, <1>2

LEMMA InitInv == Init => IInv
<1> SUFFICES ASSUME Init PROVE IInv
  OBVIOUS
<1>1. PICK kept \in {order \in [1 .. Cardinality(Names) -> Names] : IsInjective(order)},
           length \in 0 .. Cardinality(Names), there \in BOOLEAN :
        /\ exists = (there \/ length > 0)
        /\ assets = [i \in 1 .. length |-> [id |-> i, name |-> kept[i]]]
        /\ lastId = length
  BY Zenon DEF Init
<1>2. length \in Nat /\ length <= Cardinality(Names)
  BY ReleaseConstants, FS_CardinalityType, SMT
<1>3. \A i \in 1 .. length : kept[i] \in Names
  BY <1>2, ReleaseConstants, FS_CardinalityType, SMT
<1>4. \A i, j \in 1 .. length : kept[i] = kept[j] => i = j
  BY <1>2, ReleaseConstants, FS_CardinalityType, SMT DEF IsInjective
<1>5. assets \in Seq(Assets) /\ DOMAIN assets = 1 .. length
  <2>1. \A i \in 1 .. length : [id |-> i, name |-> kept[i]] \in Assets
    BY <1>2, <1>3, SMT DEF Assets
  <2>2. assets \in [1 .. length -> Assets]
    BY <1>1, <2>1
  <2> QED
    BY <1>2, <2>2, SeqDef
<1>6. assets # <<>> => exists
  <2>1. assets # <<>> => length > 0
    BY <1>2, <1>5, EmptySeq, LenProperties, SMT
  <2> QED
    BY <1>1, <2>1
<1>7. ReleaseTypeOK
  <2>1. exists \in BOOLEAN
    BY <1>1, Zenon
  <2>2. name \in [Calls -> Names] /\ lastId \in Nat
    BY <1>1, <1>2 DEF Init
  <2>3. shifted \in [Calls -> BOOLEAN] /\ emptied \in [Names -> Putters \cup {None}]
    BY Zenon DEF Init
  <2>4. /\ pc \in [Calls -> Steps] /\ page \in [Calls -> Nat]
        /\ result \in [Calls -> Results]
    BY SMT DEF Init, Steps, Results
  <2>5. matches \in [Calls -> SUBSET Nat] /\ during \in [Calls -> SUBSET Nat]
    BY Zenon DEF Init
  <2> QED
    BY <1>5, <1>6, <2>1, <2>2, <2>3, <2>4, <2>5, Zenon DEF ReleaseTypeOK
<1>8. ListInv
  BY <1>1, <1>2, <1>4, <1>5, SMT DEF ListInv
<1>9. EmptiedInv
  BY SMT DEF Init, EmptiedInv
<1>10. \A c \in Calls : CallInv(c)
  BY SMT DEF Init, CallInv, StepInv, ReadInv, SeenInv, PageInv, UploadInv, AnswerInv, Running
<1> QED
  BY <1>7, <1>8, <1>9, <1>10 DEF IInv

-----------------------------------------------------------------------------
(* What touches neither a call nor the list leaves what is known of the call. *)
LEMMA CallFrame ==
  ASSUME NEW d \in Calls, CallInv(d), UNCHANGED <<assets, lastId, name>>, exists => exists',
         pc'[d] = pc[d], result'[d] = result[d], page'[d] = page[d],
         matches'[d] = matches[d], during'[d] = during[d], shifted'[d] = shifted[d]
  PROVE  CallInv(d)'
BY Zenon DEF CallInv, StepInv, ReadInv, SeenInv, PageInv, UploadInv, AnswerInv,
             Running, Unlisted, Changed, Before

LEMMA ListFrame ==
  ASSUME ListInv, UNCHANGED <<assets, lastId>>
  PROVE  ListInv'
BY Zenon DEF ListInv

(* The put that emptied a name does not move, or fails. *)
LEMMA EmptiedFrame ==
  ASSUME EmptiedInv, UNCHANGED <<assets, name, emptied>>,
         \A c \in Calls : pc'[c] # pc[c] \/ result'[c] # result[c] =>
                            pc[c] \notin {"upload", "done"} \/ result'[c] = "error",
         \A c \in Calls : result[c] = "error" => pc[c] = "done",
         ReleaseTypeOK
  PROVE  EmptiedInv'
<1> SUFFICES ASSUME NEW n \in Names, emptied[n] # None
             PROVE  /\ name[emptied[n]] = n
                    /\ Unlisted(n)'
                    /\ pc'[emptied[n]] = "upload" \/ result'[emptied[n]] = "error"
  BY DEF EmptiedInv
<1>1. /\ name[emptied[n]] = n /\ Unlisted(n)
      /\ pc[emptied[n]] = "upload" \/ result[emptied[n]] = "error"
  BY DEF EmptiedInv
<1>2. emptied[n] \in Calls
  BY Zenon DEF ReleaseTypeOK, Calls
<1>3. pc'[emptied[n]] = "upload" \/ result'[emptied[n]] = "error"
  BY <1>1, <1>2
<1> QED
  BY <1>1, <1>3 DEF Unlisted

LEMMA BeginStep ==
  ASSUME IInv, NEW c \in Calls, Begin(c)
  PROVE  IInv'
<1> USE DEF IInv
<1>1. ReleaseTypeOK'
  <2>1. IdOf(name[c]) \in Nat
    BY AssetsType, IdOfProperties, SMT DEF Unlisted, NoId
  <2> QED
    BY <2>1, SMT DEF Begin, Goto, ReleaseTypeOK, Steps
<1>2. ListInv'
  BY ListFrame DEF Begin
<1>3. EmptiedInv'
  BY EmptiedFrame, SMT DEF Begin, Goto, CallInv, StepInv, ReleaseTypeOK
<1>4. ASSUME NEW d \in Calls, d # c PROVE CallInv(d)'
  BY <1>4, CallFrame, SMT DEF Begin, Goto, ReleaseTypeOK
<1>5. CallInv(c)'
  <2>1. CallInv(c)
    OBVIOUS
  <2>2. StepInv(c)' /\ ReadInv(c)' /\ PageInv(c)' /\ UploadInv(c)' /\ AnswerInv(c)'
    BY <2>1, SMT DEF Begin, Goto, ReleaseTypeOK,
          CallInv, StepInv, ReadInv, PageInv, UploadInv, AnswerInv
  <2>3. SeenInv(c)'
    <3>1. during'[c] = {IdOf(name[c])}
      BY Zenon DEF Begin, ReleaseTypeOK
    <3>2. assets' = assets /\ name' = name
      BY DEF Begin
    <3> QED
      BY <3>1, <3>2, IdOfProperties, Zenon DEF SeenInv, Unlisted
  <2> QED
    BY <2>2, <2>3 DEF CallInv
<1> QED
  BY <1>1, <1>2, <1>3, <1>4, <1>5

LEMMA ReleaseByTagStep ==
  ASSUME IInv, NEW c \in Calls, ReleaseByTag(c)
  PROVE  IInv'
<1> USE DEF IInv
<1>1. ReleaseTypeOK'
  <2>1. pc' \in [Calls -> Steps] /\ result' \in [Calls -> Results]
    BY Zenon DEF ReleaseByTag, Return, Goto, ReleaseTypeOK, Steps, Results
  <2> QED
    BY <2>1, Zenon DEF ReleaseByTag, ReleaseTypeOK
<1>2. ListInv'
  BY ListFrame DEF ReleaseByTag
<1>3. EmptiedInv'
  BY EmptiedFrame, SMT DEF ReleaseByTag, Return, Goto, CallInv, StepInv, ReleaseTypeOK
<1>4. ASSUME NEW d \in Calls, d # c PROVE CallInv(d)'
  BY <1>4, CallFrame, SMT DEF ReleaseByTag, Return, Goto, ReleaseTypeOK
<1>5. CallInv(c)'
  <2>1. CallInv(c) /\ pc[c] = "tag"
    BY DEF ReleaseByTag
  <2>2. UNCHANGED <<assets, lastId, name, matches, during, shifted>>
    BY DEF ReleaseByTag
  <2>3. StepInv(c)' /\ UploadInv(c)' /\ ReadInv(c)'
    BY <2>1, <2>2, SMT DEF ReleaseByTag, Return, Goto, ReleaseTypeOK, CallInv, StepInv, ReadInv, UploadInv
  <2>4. SeenInv(c)'
    BY <2>1, <2>2, Zenon DEF CallInv, SeenInv, Running, Unlisted
  <2>5. PageInv(c)'
    BY <2>1, <2>2, BeforeProperties, AssetsType, SMT
    DEF ReleaseByTag, Return, Goto, ReleaseTypeOK, CallInv, StepInv, PageInv
  <2>6. AnswerInv(c)'
    <3>1. ~exists => Unlisted(name[c])
      BY EmptySeq DEF ReleaseTypeOK, Unlisted
    <3>2. ~exists => NoId \in during[c]
      BY <3>1, <2>1, Zenon DEF CallInv, SeenInv, Running
    <3> QED
      BY <2>1, <2>2, <3>2, SMT
      DEF ReleaseByTag, Return, Goto, ReleaseTypeOK, CallInv, StepInv, AnswerInv
  <2> QED
    BY <2>3, <2>4, <2>5, <2>6 DEF CallInv
<1> QED
  BY <1>1, <1>2, <1>3, <1>4, <1>5

LEMMA EnsureReleaseStep ==
  ASSUME IInv, NEW c \in Putters, EnsureRelease(c)
  PROVE  IInv'
<1> USE DEF IInv
<1>0. c \in Calls
  BY DEF Calls
<1>1. ReleaseTypeOK'
  <2>1. pc' \in [Calls -> Steps] /\ result' \in [Calls -> Results]
    BY <1>0, Zenon DEF EnsureRelease, Return, Goto, ReleaseTypeOK, Steps, Results
  <2> QED
    BY <2>1, Zenon DEF EnsureRelease, ReleaseTypeOK
<1>2. ListInv'
  BY ListFrame DEF EnsureRelease
<1>3. EmptiedInv'
  BY <1>0, EmptiedFrame, SMT DEF EnsureRelease, Return, Goto, CallInv, StepInv, ReleaseTypeOK
<1>4. ASSUME NEW d \in Calls, d # c PROVE CallInv(d)'
  BY <1>0, <1>4, CallFrame, SMT DEF EnsureRelease, Return, Goto, ReleaseTypeOK
<1>5. CallInv(c)'
  <2>1. CallInv(c) /\ pc[c] = "create"
    BY <1>0 DEF EnsureRelease
  <2>2. UNCHANGED <<assets, lastId, name, matches, during, shifted>>
    BY DEF EnsureRelease
  <2>3. StepInv(c)' /\ UploadInv(c)' /\ ReadInv(c)'
    BY <1>0, <2>1, <2>2, SMT DEF EnsureRelease, Return, Goto, ReleaseTypeOK, CallInv, StepInv, ReadInv, UploadInv
  <2>4. SeenInv(c)'
    BY <2>1, <2>2, Zenon DEF CallInv, SeenInv, Running, Unlisted
  <2>5. PageInv(c)'
    BY <1>0, <2>1, <2>2, BeforeProperties, AssetsType, SMT
    DEF EnsureRelease, Return, Goto, ReleaseTypeOK, CallInv, StepInv, PageInv
  <2>6. AnswerInv(c)'
    BY <1>0, <2>1, <2>2, ReleaseConstants, SMT
    DEF EnsureRelease, Return, Goto, ReleaseTypeOK, CallInv, StepInv, AnswerInv
  <2> QED
    BY <2>3, <2>4, <2>5, <2>6 DEF CallInv
<1> QED
  BY <1>1, <1>2, <1>3, <1>4, <1>5

LEMMA CallFailsStep ==
  ASSUME IInv, NEW c \in Calls, CallFails(c)
  PROVE  IInv'
<1> USE DEF IInv
<1>1. ReleaseTypeOK'
  BY SMT DEF CallFails, Return, Goto, ReleaseTypeOK, Steps, Results
<1>2. ListInv'
  BY ListFrame DEF CallFails
<1>3. EmptiedInv'
  BY EmptiedFrame, SMT DEF CallFails, Return, Goto, CallInv, StepInv, ReleaseTypeOK
<1>4. ASSUME NEW d \in Calls, d # c PROVE CallInv(d)'
  BY <1>4, CallFrame, SMT DEF CallFails, Return, Goto, ReleaseTypeOK
<1>5. CallInv(c)'
  BY SMT DEF CallFails, Return, Goto, ReleaseTypeOK, CallInv,
       StepInv, ReadInv, SeenInv, Running, PageInv, UploadInv, AnswerInv
<1> QED
  BY <1>1, <1>2, <1>3, <1>4, <1>5

(* An id that was read and is not listed any more: the name has changed. *)
LEMMA GoneIsChanged ==
  ASSUME IInv, NEW c \in Calls, Running(c), matches[c] # {},
         \A i \in DOMAIN assets : assets[i].id # Min(matches[c])
  PROVE  Changed(c)
<1> USE DEF IInv
<1>1. CallInv(c)
  OBVIOUS
<1>2. Min(matches[c]) \in matches[c]
  BY MinIsLeast DEF ReleaseTypeOK
<1>3. Min(matches[c]) \in during[c] /\ Min(matches[c]) # NoId
  BY <1>1, <1>2, SMT DEF CallInv, ReadInv, NoId
<1>4. CASE Unlisted(name[c])
  BY <1>1, <1>3, <1>4, Zenon DEF CallInv, SeenInv, Changed
<1>5. CASE ~Unlisted(name[c])
  BY <1>1, <1>3, <1>5, Zenon DEF CallInv, SeenInv, Changed, Unlisted
<1> QED
  BY <1>4, <1>5

LEMMA DownloadAssetStep ==
  ASSUME IInv, NEW c \in Getters, DownloadAsset(c)
  PROVE  IInv'
<1> USE DEF IInv
<1>0. c \in Calls
  BY DEF Calls
<1>1. ReleaseTypeOK'
  <2>1. pc' \in [Calls -> Steps] /\ result' \in [Calls -> Results]
    BY <1>0, Zenon DEF DownloadAsset, Return, Goto, ReleaseTypeOK, Steps, Results
  <2> QED
    BY <2>1, Zenon DEF DownloadAsset, ReleaseTypeOK
<1>2. ListInv'
  BY ListFrame DEF DownloadAsset
<1>3. EmptiedInv'
  BY <1>0, EmptiedFrame, SMT DEF DownloadAsset, Return, Goto, CallInv, StepInv, ReleaseTypeOK
<1>4. ASSUME NEW d \in Calls, d # c PROVE CallInv(d)'
  BY <1>0, <1>4, CallFrame, SMT DEF DownloadAsset, Return, Goto, ReleaseTypeOK
<1>5. CallInv(c)'
  <2>1. CallInv(c) /\ pc[c] = "download" /\ c \notin Putters /\ matches[c] # {}
    BY <1>0, ReleaseConstants, SMT DEF DownloadAsset, CallInv, StepInv
  <2>2. /\ UNCHANGED <<assets, lastId, name, page, matches, during, shifted>>
        /\ pc'[c] = "done" /\ result'[c] \in {"ok", "refused"}
        /\ result'[c] = "refused" => \A i \in DOMAIN assets : assets[i].id # Min(matches[c])
    BY <1>0, Zenon DEF DownloadAsset, Return, Goto, ReleaseTypeOK
  <2>3. StepInv(c)' /\ UploadInv(c)' /\ ReadInv(c)' /\ SeenInv(c)' /\ PageInv(c)'
    BY <2>1, <2>2, SMT DEF CallInv, StepInv, ReadInv, UploadInv, SeenInv, Running, PageInv
  <2>4. Min(matches[c]) \in during[c]
    BY <1>0, <2>1, MinIsLeast DEF CallInv, ReadInv, ReleaseTypeOK
  <2>5. result'[c] = "refused" => Changed(c)
    BY <1>0, <2>1, <2>2, GoneIsChanged DEF Running
  <2>6. AnswerInv(c)'
    BY <2>1, <2>2, <2>4, <2>5, Zenon DEF AnswerInv, Changed
  <2> QED
    BY <2>3, <2>6 DEF CallInv
<1> QED
  BY <1>1, <1>2, <1>3, <1>4, <1>5

-----------------------------------------------------------------------------
LEMMA ListAssetsStep ==
  ASSUME IInv, NEW c \in Calls, ListAssets(c)
  PROVE  IInv'
<1> USE DEF IInv
<1> DEFINE batch == {i \in DOMAIN assets : Before(page[c]) < i /\ i <= Before(page[c] + 1)}
           found == matches[c] \cup Matching(batch, name[c])
<1>0. /\ CallInv(c) /\ pc[c] = "list" /\ Running(c) /\ page[c] \in Nat \ {0}
      /\ matches[c] \in SUBSET Nat
  BY SMT DEF ListAssets, Running, ReleaseTypeOK, CallInv, StepInv
<1>1. UNCHANGED <<exists, assets, lastId, name, during, shifted, emptied>>
  BY DEF ListAssets
<1>2. matches' = [matches EXCEPT ![c] = found]
  BY Zenon DEF ListAssets
<1>3. \A id \in found :
        id \in matches[c] \/ \E i \in batch : id = assets[i].id /\ assets[i].name = name[c]
  BY Zenon DEF Matching, Named
<1>4. \A i \in batch : assets[i].name = name[c] => assets[i].id \in found
  BY Zenon DEF Matching, Named
<1>5. batch \subseteq DOMAIN assets /\ matches[c] \subseteq found
  OBVIOUS
<1>6. \/ /\ ~LastPage(page[c])
         /\ page' = [page EXCEPT ![c] = @ + 1]
         /\ UNCHANGED <<pc, result>>
      \/ /\ LastPage(page[c]) /\ c \in Putters
         /\ Goto(c, IF found = {} THEN "upload" ELSE "delete")
         /\ UNCHANGED <<page, result>>
      \/ /\ LastPage(page[c]) /\ c \in Getters
         /\ IF found = {} THEN Return(c, "missing")
                          ELSE Goto(c, "download") /\ UNCHANGED result
         /\ UNCHANGED page
  BY Zenon DEF ListAssets
<1>7. found \in SUBSET Nat
  BY <1>0, <1>3, <1>5, AssetsType
<1>8. \A i \in DOMAIN assets : Before(page[c]) < i /\ i <= Before(page[c] + 1) => i \in batch
  OBVIOUS
<1>14. /\ Before(page[c]) \in Nat
       /\ Before(page[c] + 1) = Before(page[c]) + PageSize
  BY <1>0, BeforeProperties, Zenon
<1>15. Before(page[c] + 1) \in Nat
  BY <1>14, ReleaseConstants
<1>16. Len(assets) \in Nat /\ DOMAIN assets = 1 .. Len(assets)
  BY AssetsType, Zenon
<1> HIDE DEF batch, found
<1>9. ReleaseTypeOK'
  <2>1. pc' \in [Calls -> Steps] /\ result' \in [Calls -> Results]
    BY <1>6, Zenon DEF Return, Goto, ReleaseTypeOK, Steps, Results
  <2>2. page' \in [Calls -> Nat]
    <3>1. page' = page \/ page' = [page EXCEPT ![c] = @ + 1]
      BY <1>6, Zenon
    <3>2. page[c] + 1 \in Nat
      BY <1>0
    <3> QED
      BY <3>1, <3>2, Zenon DEF ReleaseTypeOK
  <2>3. matches' \in [Calls -> SUBSET Nat]
    BY <1>2, <1>7, Zenon DEF ReleaseTypeOK
  <2> QED
    BY <1>1, <2>1, <2>2, <2>3, Zenon DEF ReleaseTypeOK
<1>10. ListInv'
  BY <1>1, ListFrame
<1>11. EmptiedInv'
  <2>1. \A d \in Calls : result[d] = "error" => pc[d] = "done"
    BY SMT DEF CallInv, StepInv
  <2>2. \A d \in Calls : d # c => pc'[d] = pc[d] /\ result'[d] = result[d]
    BY <1>6, SMT DEF Return, Goto, ReleaseTypeOK
  <2> QED
    BY <1>0, <1>1, <2>1, <2>2, EmptiedFrame, SMT
<1>12. ASSUME NEW d \in Calls, d # c PROVE CallInv(d)'
  <2>1. pc'[d] = pc[d] /\ result'[d] = result[d] /\ page'[d] = page[d]
    BY <1>6, <1>12, SMT DEF Return, Goto, ReleaseTypeOK
  <2>2. matches'[d] = matches[d]
    BY <1>2, <1>12, Zenon DEF ReleaseTypeOK
  <2> QED
    BY <1>1, <2>1, <2>2, CallFrame
<1>13. CallInv(c)'
  <2>1. matches'[c] = found
    BY <1>2, Zenon DEF ReleaseTypeOK
  <2>2. ReadInv(c)'
    <3>1. found \subseteq during[c]
      <4>1. matches[c] \subseteq during[c]
        BY <1>0 DEF CallInv, ReadInv
      <4>2. \A i \in DOMAIN assets : assets[i].name = name[c] => assets[i].id \in during[c]
        BY <1>0 DEF CallInv, SeenInv
      <4> QED
        BY <1>3, <1>5, <4>1, <4>2, Zenon
    <3>2. \A id \in found : 0 < id /\ id <= lastId
      <4>1. \A id \in matches[c] : 0 < id /\ id <= lastId
        BY <1>0 DEF CallInv, ReadInv
      <4>2. \A i \in batch : 0 < assets[i].id /\ assets[i].id <= lastId
        BY <1>5, Zenon DEF IInv, ListInv
      <4> QED
        BY <1>3, <4>1, <4>2, Zenon
    <3>3. ASSUME NEW i \in DOMAIN assets, assets[i].id \in found
          PROVE  assets[i].name = name[c]
      <4>1. CASE assets[i].id \in matches[c]
        BY <1>0, <4>1, Zenon DEF CallInv, ReadInv
      <4>2. CASE \E j \in batch : assets[i].id = assets[j].id /\ assets[j].name = name[c]
        <5>1. PICK j \in DOMAIN assets : assets[i].id = assets[j].id /\ assets[j].name = name[c]
          BY <1>5, <4>2
        <5>2. i = j
          BY <5>1, AssetsType, SMT DEF ListInv
        <5> QED
          BY <5>1, <5>2
      <4> QED
        BY <1>3, <3>3, <4>1, <4>2
    <3>4. ASSUME NEW i \in DOMAIN assets, assets[i].name = name[c], NEW id \in found
          PROVE  id <= assets[i].id
      <4>1. CASE id \in matches[c]
        BY <1>0, <3>4, <4>1, Zenon DEF CallInv, ReadInv
      <4>2. CASE \E j \in batch : id = assets[j].id /\ assets[j].name = name[c]
        <5>1. PICK j \in DOMAIN assets : id = assets[j].id /\ assets[j].name = name[c]
          BY <1>5, <4>2
        <5>2. i = j
          BY <3>4, <5>1, Zenon DEF ListInv
        <5> QED
          BY <5>1, <5>2, AssetsType, SMT
      <4> QED
        BY <1>3, <4>1, <4>2
    <3> QED
      BY <1>1, <2>1, <3>1, <3>2, <3>3, <3>4, Zenon DEF ReadInv
  <2>3. SeenInv(c)'
    BY <1>0, <1>1, Zenon DEF CallInv, SeenInv, Running, Unlisted
  <2>4. ~shifted[c] => \A i \in DOMAIN assets :
          i <= Before(page[c] + 1) /\ assets[i].name = name[c] => assets[i].id \in found
    <3> SUFFICES ASSUME ~shifted[c], NEW i \in DOMAIN assets,
                        i <= Before(page[c] + 1), assets[i].name = name[c]
                 PROVE  assets[i].id \in found
      OBVIOUS
    <3>1. i \in Nat /\ Before(page[c]) \in Nat
      BY <1>14, <1>16
    <3>2. CASE i <= Before(page[c])
      BY <1>0, <1>5, <3>2, Zenon DEF CallInv, PageInv
    <3>3. CASE ~(i <= Before(page[c]))
      <4>1. Before(page[c]) < i
        BY <3>1, <3>3, SMT
      <4> QED
        BY <1>4, <1>8, <4>1
    <3> QED
      BY <3>2, <3>3
  <2>5. LastPage(page[c]) /\ found = {} /\ ~shifted[c] => NoId \in during[c]
    <3> SUFFICES ASSUME LastPage(page[c]), found = {}, ~shifted[c] PROVE NoId \in during[c]
      OBVIOUS
    <3>1. \A i \in DOMAIN assets : i <= Before(page[c] + 1)
      BY <1>15, <1>16, SMT DEF LastPage
    <3>2. Unlisted(name[c])
      BY <2>4, <3>1, Zenon DEF Unlisted
    <3> QED
      BY <1>0, <3>2, Zenon DEF CallInv, SeenInv
  <2>6. CASE ~LastPage(page[c])
    <3>1. page'[c] = page[c] + 1 /\ pc' = pc /\ result' = result
      BY <1>6, <2>6, Zenon DEF ReleaseTypeOK
    <3>2. Before(page[c] + 1) <= Len(assets)
      BY <1>15, <1>16, <2>6, SMT DEF LastPage
    <3>3. PageInv(c)'
      BY <1>0, <1>1, <2>1, <2>4, <3>1, <3>2, Zenon DEF PageInv, Before
    <3>4. StepInv(c)' /\ UploadInv(c)' /\ AnswerInv(c)'
      BY <1>0, <1>1, <3>1, SMT DEF CallInv, StepInv, UploadInv, AnswerInv
    <3> QED
      BY <2>2, <2>3, <3>3, <3>4 DEF CallInv
  <2>7. CASE LastPage(page[c]) /\ c \in Putters
    <3>1. /\ pc'[c] = (IF found = {} THEN "upload" ELSE "delete")
          /\ page' = page /\ result' = result /\ c \notin Getters
      BY <1>6, <2>7, ReleaseConstants, Zenon DEF Goto, ReleaseTypeOK
    <3>2. PageInv(c)' /\ StepInv(c)' /\ AnswerInv(c)'
      BY <1>0, <1>1, <2>1, <2>7, <3>1, SMT DEF CallInv, StepInv, PageInv, AnswerInv
    <3>3. UploadInv(c)'
      BY <1>1, <2>5, <2>7, <3>1, SMT DEF UploadInv
    <3> QED
      BY <2>2, <2>3, <3>2, <3>3 DEF CallInv
  <2>8. CASE LastPage(page[c]) /\ c \in Getters
    <3>1. /\ c \notin Putters /\ page' = page
          /\ IF found = {} THEN pc'[c] = "done" /\ result'[c] = "missing"
                           ELSE pc'[c] = "download" /\ result'[c] = result[c]
      BY <1>6, <2>8, ReleaseConstants, Zenon DEF Goto, Return, ReleaseTypeOK
    <3>2. PageInv(c)' /\ StepInv(c)' /\ UploadInv(c)'
      BY <1>0, <1>1, <2>1, <2>8, <3>1, SMT DEF CallInv, StepInv, PageInv, UploadInv
    <3>3. AnswerInv(c)'
      BY <1>0, <1>1, <2>5, <2>8, <3>1, SMT DEF CallInv, StepInv, AnswerInv
    <3> QED
      BY <2>2, <2>3, <3>2, <3>3 DEF CallInv
  <2> QED
    BY <1>6, <2>6, <2>7, <2>8
<1> QED
  BY <1>9, <1>10, <1>11, <1>12, <1>13

-----------------------------------------------------------------------------
(* A delete that is refused ends the call, and its name had changed. *)
LEMMA DeleteRefused ==
  ASSUME IInv, NEW c \in Putters, pc[c] = "delete",
         \A at \in DOMAIN assets : assets[at].id # Min(matches[c]),
         Return(c, "refused"),
         UNCHANGED <<exists, assets, lastId, name, page, matches, during, shifted, emptied>>
  PROVE  IInv'
<1> USE DEF IInv
<1>0. c \in Calls /\ CallInv(c) /\ Running(c) /\ matches[c] # {} /\ c \notin Getters
  BY ReleaseConstants, SMT DEF Calls, Running, CallInv, StepInv
<1>1. ReleaseTypeOK'
  <2>1. pc' \in [Calls -> Steps] /\ result' \in [Calls -> Results]
    BY <1>0, Zenon DEF Return, Goto, ReleaseTypeOK, Steps, Results
  <2> QED
    BY <2>1, Zenon DEF ReleaseTypeOK
<1>2. ListInv'
  BY ListFrame
<1>3. EmptiedInv'
  BY <1>0, EmptiedFrame, SMT DEF Return, Goto, CallInv, StepInv, ReleaseTypeOK
<1>4. ASSUME NEW d \in Calls, d # c PROVE CallInv(d)'
  BY <1>0, <1>4, CallFrame, SMT DEF Return, Goto, ReleaseTypeOK
<1>5. CallInv(c)'
  <2>1. Changed(c)
    BY <1>0, GoneIsChanged
  <2>2. pc'[c] = "done" /\ result'[c] = "refused"
    BY <1>0, Zenon DEF Return, Goto, ReleaseTypeOK
  <2>3. AnswerInv(c)'
    BY <1>0, <2>1, <2>2, Zenon DEF AnswerInv, Changed
  <2> QED
    BY <1>0, <2>2, <2>3, SMT
    DEF CallInv, StepInv, ReadInv, SeenInv, Running, PageInv, UploadInv
<1> QED
  BY <1>1, <1>2, <1>3, <1>4, <1>5

(* The asset that a put deletes is the only one it has read, and of its name. *)
LEMMA DeletesItsOwn ==
  ASSUME IInv, NEW c \in Putters, pc[c] = "delete",
         NEW at \in DOMAIN assets, assets[at].id = Min(matches[c])
  PROVE  assets[at].name = name[c] /\ matches[c] = {assets[at].id}
<1> USE DEF IInv
<1>1. CallInv(c) /\ matches[c] \in SUBSET Nat /\ matches[c] # {}
  BY SMT DEF CallInv, StepInv, Calls, ReleaseTypeOK
<1>2. /\ assets[at].id \in matches[c]
      /\ \A id \in matches[c] : assets[at].id <= id
  BY <1>1, MinIsLeast
<1>3. assets[at].name = name[c]
  BY <1>1, <1>2, Zenon DEF CallInv, ReadInv
<1>4. \A id \in matches[c] : id <= assets[at].id
  BY <1>1, <1>3, Zenon DEF CallInv, ReadInv
<1>5. \A id \in matches[c] : id = assets[at].id
  BY <1>1, <1>2, <1>4, SMT
<1> QED
  BY <1>2, <1>3, <1>5

LEMMA DeleteAssetStep ==
  ASSUME IInv, NEW c \in Putters, DeleteAsset(c)
  PROVE  IInv'
<1> USE DEF IInv
<1>1. CASE /\ pc[c] = "delete"
           /\ \A at \in DOMAIN assets : assets[at].id # Min(matches[c])
           /\ Return(c, "refused")
           /\ UNCHANGED <<exists, assets, lastId, name, page, matches, during, shifted, emptied>>
  BY <1>1, DeleteRefused
<1>2. ASSUME NEW at \in DOMAIN assets,
             pc[c] = "delete",
             assets[at].id = Min(matches[c]),
             assets' = RemoveAt(assets, at),
             Witnessed(assets[at].name, NoId),
             shifted' = [d \in Calls |-> shifted[d] \/ (pc[d] = "list" /\ page[d] > 1)],
             emptied' = [emptied EXCEPT ![assets[at].name] = c],
             matches' = [matches EXCEPT ![c] = @ \ {Min(matches[c])}],
             IF matches[c] = {Min(matches[c])} THEN Goto(c, "upload") ELSE UNCHANGED pc,
             UNCHANGED <<result, exists, lastId, name, page>>
      PROVE  IInv'
  <2>1. /\ c \in Calls /\ c \notin Getters /\ Running(c) /\ CallInv(c)
        /\ name[c] \in Names
    BY <1>2, ReleaseConstants, SMT DEF Calls, Running, ReleaseTypeOK
  <2>2. assets[at].name = name[c] /\ matches[c] = {assets[at].id}
    BY <1>2, DeletesItsOwn
  <2>3. /\ pc' = [pc EXCEPT ![c] = "upload"] /\ matches' = [matches EXCEPT ![c] = {}]
        /\ emptied' = [emptied EXCEPT ![name[c]] = c]
    BY <1>2, <2>2, Zenon DEF Goto
  <2>4. during' = [d \in Calls |-> IF Running(d) /\ name[d] = name[c]
                                     THEN during[d] \cup {NoId} ELSE during[d]]
    BY <1>2, <2>2, Zenon DEF Witnessed
  <2>5. /\ assets' \in Seq(Assets) /\ Len(assets') = Len(assets) - 1
        /\ \A i \in 1 .. Len(assets) - 1 :
             assets'[i] = IF i < at THEN assets[i] ELSE assets[i + 1]
    <3>1. assets \in Seq(Assets) /\ at \in 1 .. Len(assets)
      BY <1>2, AssetsType DEF ReleaseTypeOK
    <3> QED
      BY <1>2, <3>1, RemoveAtProperties
  <2>6. /\ Len(assets) \in Nat /\ at \in 1 .. Len(assets)
        /\ DOMAIN assets = 1 .. Len(assets) /\ DOMAIN assets' = 1 .. Len(assets) - 1
    BY <1>2, <2>5, AssetsType, LenProperties, Zenon
  (* What is left in the list was there, in this order. *)
  <2> DEFINE old(i) == IF i < at THEN i ELSE i + 1
  <2>7. \A i \in DOMAIN assets' :
          old(i) \in DOMAIN assets /\ old(i) # at /\ assets'[i] = assets[old(i)]
    BY <2>5, <2>6, SMT
  <2>8. \A i, j \in DOMAIN assets' :
          (i < j => old(i) < old(j)) /\ (old(i) = old(j) => i = j)
    BY <2>6, SMT
  <2>9. \A j \in DOMAIN assets : j # at => \E i \in DOMAIN assets' : assets'[i] = assets[j]
    <3> SUFFICES ASSUME NEW j \in DOMAIN assets, j # at
                 PROVE  \E i \in DOMAIN assets' : assets'[i] = assets[j]
      OBVIOUS
    <3>1. CASE j < at
      BY <2>5, <2>6, <3>1, SMT
    <3>2. CASE ~(j < at)
      <4>1. j - 1 \in DOMAIN assets' /\ assets'[j - 1] = assets[j]
        BY <2>5, <2>6, <3>2, SMT
      <4> QED
        BY <4>1
    <3> QED
      BY <3>1, <3>2
  <2> HIDE DEF old
  <2>10. ReleaseTypeOK'
    <3>1. /\ pc' \in [Calls -> Steps] /\ matches' \in [Calls -> SUBSET Nat]
          /\ emptied' \in [Names -> Putters \cup {None}]
      BY <2>1, <2>3, Zenon DEF ReleaseTypeOK, Steps
    <3>2. during' \in [Calls -> SUBSET Nat]
      <4>1. NoId \in Nat
        BY DEF NoId
      <4> QED
        BY <2>4, <4>1, Zenon DEF ReleaseTypeOK
    <3>3. shifted' \in [Calls -> BOOLEAN]
      BY <1>2, Zenon DEF ReleaseTypeOK
    <3>4. exists
      <4>1. assets # <<>>
        BY <2>6, EmptySeq, SMT
      <4> QED
        BY <4>1 DEF ReleaseTypeOK
    <3> QED
      BY <1>2, <2>5, <3>1, <3>2, <3>3, <3>4, Zenon DEF ReleaseTypeOK
  <2>11. ListInv'
    <3>1. \A i, j \in DOMAIN assets' : i < j => assets'[i].id < assets'[j].id
      BY <2>7, <2>8, Zenon DEF ListInv
    <3>2. \A i, j \in DOMAIN assets' : assets'[i].name = assets'[j].name => i = j
      BY <2>7, <2>8, Zenon DEF ListInv
    <3>3. \A i \in DOMAIN assets' : 0 < assets'[i].id /\ assets'[i].id <= lastId'
      BY <1>2, <2>7, Zenon DEF ListInv
    <3> QED
      BY <3>1, <3>2, <3>3 DEF ListInv
  <2>12. Unlisted(name[c])'
    BY <1>2, <2>2, <2>7, Zenon DEF Unlisted, ListInv
  <2>13. EmptiedInv'
    <3> SUFFICES ASSUME NEW n \in Names, emptied'[n] # None
                 PROVE  /\ name'[emptied'[n]] = n
                        /\ Unlisted(n)'
                        /\ pc'[emptied'[n]] = "upload" \/ result'[emptied'[n]] = "error"
      BY DEF EmptiedInv
    <3>1. CASE n = name[c]
      <4>1. emptied'[n] = c /\ pc'[c] = "upload"
        BY <2>1, <2>3, <3>1, Zenon DEF ReleaseTypeOK
      <4> QED
        BY <1>2, <2>12, <3>1, <4>1
    <3>2. CASE n # name[c]
      <4>1. emptied'[n] = emptied[n]
        BY <2>3, <3>2, Zenon DEF ReleaseTypeOK
      <4>2. /\ name[emptied[n]] = n /\ Unlisted(n)
            /\ pc[emptied[n]] = "upload" \/ result[emptied[n]] = "error"
        BY <4>1 DEF EmptiedInv
      <4>3. emptied[n] \in Calls /\ emptied[n] # c
        BY <3>2, <4>1, <4>2, Zenon DEF ReleaseTypeOK, Calls
      <4>4. pc'[emptied[n]] = pc[emptied[n]]
        BY <2>3, <4>3, Zenon DEF ReleaseTypeOK
      <4>5. Unlisted(n)'
        BY <2>7, <4>2, Zenon DEF Unlisted
      <4> QED
        BY <1>2, <4>1, <4>2, <4>4, <4>5
    <3> QED
      BY <3>1, <3>2
  <2>14. ASSUME NEW d \in Calls PROVE ReadInv(d)' /\ SeenInv(d)' /\ PageInv(d)'
    <3>1. CallInv(d) /\ during[d] \subseteq during'[d] /\ matches'[d] \subseteq matches[d]
      BY <2>1, <2>3, <2>4, Zenon DEF ReleaseTypeOK
    <3>2. ReadInv(d)'
      <4>1. matches'[d] \subseteq during'[d] /\ \A id \in matches'[d] : 0 < id /\ id <= lastId'
        BY <1>2, <3>1, Zenon DEF CallInv, ReadInv
      <4>2. \A i \in DOMAIN assets' : assets'[i].id \in matches'[d] => assets'[i].name = name'[d]
        <5>1. \A i \in DOMAIN assets : assets[i].id \in matches[d] => assets[i].name = name[d]
          BY <3>1 DEF CallInv, ReadInv
        <5> QED
          BY <1>2, <2>7, <3>1, <5>1, SMT
      <4>3. \A i \in DOMAIN assets' : assets'[i].name = name'[d] =>
              \A id \in matches'[d] : id <= assets'[i].id
        BY <1>2, <2>7, <3>1, Zenon DEF CallInv, ReadInv
      <4> QED
        BY <4>1, <4>2, <4>3 DEF ReadInv
    <3>3. SeenInv(d)'
      <4> SUFFICES ASSUME Running(d)'
                   PROVE  /\ \A i \in DOMAIN assets' :
                               assets'[i].name = name[d] => assets'[i].id \in during'[d]
                          /\ Unlisted(name[d])' => NoId \in during'[d]
        BY <1>2, Zenon DEF SeenInv, Unlisted
      <4>1. Running(d)
        BY <1>2, <2>3, SMT DEF Running, ReleaseTypeOK
      <4>2. \A i \in DOMAIN assets' :
              assets'[i].name = name[d] => assets'[i].id \in during'[d]
        BY <2>7, <3>1, <4>1, Zenon DEF CallInv, SeenInv
      <4>3. Unlisted(name[d])' => NoId \in during'[d]
        <5>1. CASE name[d] = name[c]
          BY <2>4, <4>1, <5>1, Zenon
        <5>2. CASE name[d] # name[c]
          <6>1. Unlisted(name[d])' => Unlisted(name[d])
            BY <1>2, <2>2, <2>9, <5>2, Zenon DEF Unlisted
          <6> QED
            BY <3>1, <4>1, <6>1, Zenon DEF CallInv, SeenInv
        <5> QED
          BY <5>1, <5>2
      <4> QED
        BY <4>2, <4>3
    <3>4. PageInv(d)'
      <4> SUFFICES ASSUME pc'[d] = "list", ~shifted'[d]
                   PROVE  /\ Before(page[d]) <= Len(assets')
                          /\ \A i \in DOMAIN assets' :
                               i <= Before(page[d]) /\ assets'[i].name = name'[d]
                                 => assets'[i].id \in matches'[d]
        BY <1>2, Zenon DEF PageInv, Before
      <4>1. pc[d] = "list"
        BY <2>3, Zenon DEF ReleaseTypeOK
      <4>2. ~(page[d] > 1)
        BY <1>2, <4>1, Zenon
      <4>3. page[d] = 1
        BY <3>1, <4>2, SMT DEF CallInv, StepInv, ReleaseTypeOK
      <4>4. Before(page[d]) = 0
        BY <4>3, BeforeProperties
      <4>5. 0 <= Len(assets') /\ \A i \in DOMAIN assets' : ~(i <= 0)
        BY <2>5, <2>6, SMT
      <4> QED
        BY <4>4, <4>5
    <3> QED
      BY <3>2, <3>3, <3>4
  <2>15. ASSUME NEW d \in Calls, d # c PROVE CallInv(d)'
    <3>1. /\ CallInv(d) /\ during[d] \subseteq during'[d] /\ (shifted[d] => shifted'[d])
          /\ pc'[d] = pc[d] /\ matches'[d] = matches[d] /\ result' = result /\ page' = page
      BY <1>2, <2>3, <2>4, <2>15, Zenon DEF ReleaseTypeOK
    <3>2. StepInv(d)'
      BY <1>2, <3>1, Zenon DEF CallInv, StepInv
    <3>3. UploadInv(d)'
      BY <3>1, Zenon DEF CallInv, UploadInv
    <3>4. AnswerInv(d)'
      BY <3>1, Zenon DEF CallInv, AnswerInv, Changed
    <3> QED
      BY <2>14, <3>2, <3>3, <3>4 DEF CallInv
  <2>16. CallInv(c)'
    <3>1. /\ pc'[c] = "upload" /\ result' = result /\ page' = page
          /\ NoId \in during'[c]
      BY <1>2, <2>1, <2>3, <2>4, Zenon DEF ReleaseTypeOK
    <3>2. result[c] = "none" /\ page[c] > 0 /\ exists'
      BY <1>2, <2>1, SMT DEF CallInv, StepInv
    <3>3. StepInv(c)' /\ UploadInv(c)' /\ AnswerInv(c)'
      BY <2>1, <3>1, <3>2, SMT DEF StepInv, UploadInv, AnswerInv
    <3> QED
      BY <2>1, <2>14, <3>3 DEF CallInv
  <2> QED
    BY <2>10, <2>11, <2>13, <2>15, <2>16
<1>3. \/ /\ pc[c] = "delete"
         /\ \A at \in DOMAIN assets : assets[at].id # Min(matches[c])
         /\ Return(c, "refused")
         /\ UNCHANGED <<exists, assets, lastId, name, page, matches, during, shifted, emptied>>
      \/ \E at \in DOMAIN assets :
         /\ pc[c] = "delete"
         /\ assets[at].id = Min(matches[c])
         /\ assets' = RemoveAt(assets, at)
         /\ Witnessed(assets[at].name, NoId)
         /\ shifted' = [d \in Calls |-> shifted[d] \/ (pc[d] = "list" /\ page[d] > 1)]
         /\ emptied' = [emptied EXCEPT ![assets[at].name] = c]
         /\ matches' = [matches EXCEPT ![c] = @ \ {Min(matches[c])}]
         /\ IF matches[c] = {Min(matches[c])} THEN Goto(c, "upload") ELSE UNCHANGED pc
         /\ UNCHANGED <<result, exists, lastId, name, page>>
  BY Zenon DEF DeleteAsset
<1> QED
  BY <1>1, <1>2, <1>3

-----------------------------------------------------------------------------
(* An upload that is refused ends the call, and its name had changed. *)
LEMMA UploadRefused ==
  ASSUME IInv, NEW c \in Putters, pc[c] = "upload", IdOf(name[c]) # NoId,
         Return(c, "refused"),
         UNCHANGED <<exists, assets, lastId, name, page, matches, during, shifted, emptied>>
  PROVE  IInv'
<1> USE DEF IInv
<1>0. /\ c \in Calls /\ CallInv(c) /\ Running(c) /\ c \notin Getters
      /\ name[c] \in Names
  BY ReleaseConstants, SMT DEF Calls, Running, ReleaseTypeOK
<1>1. ReleaseTypeOK'
  <2>1. pc' \in [Calls -> Steps] /\ result' \in [Calls -> Results]
    BY <1>0, Zenon DEF Return, Goto, ReleaseTypeOK, Steps, Results
  <2> QED
    BY <2>1, Zenon DEF ReleaseTypeOK
<1>2. ListInv'
  BY ListFrame
<1>3. PICK i \in DOMAIN assets : assets[i].name = name[c] /\ assets[i].id # NoId
  BY IdOfProperties, Zenon DEF Unlisted
<1>4. EmptiedInv'
  <2> SUFFICES ASSUME NEW n \in Names, emptied[n] # None
               PROVE  /\ name[emptied[n]] = n
                      /\ Unlisted(n)'
                      /\ pc'[emptied[n]] = "upload" \/ result'[emptied[n]] = "error"
    BY DEF EmptiedInv
  <2>1. /\ name[emptied[n]] = n /\ Unlisted(n)
        /\ pc[emptied[n]] = "upload" \/ result[emptied[n]] = "error"
    BY DEF EmptiedInv
  <2>2. emptied[n] \in Calls /\ emptied[n] # c
    BY <1>3, <2>1, Zenon DEF Unlisted, ReleaseTypeOK, Calls
  <2>3. pc'[emptied[n]] = pc[emptied[n]] /\ result'[emptied[n]] = result[emptied[n]]
    BY <2>2, Zenon DEF Return, Goto, ReleaseTypeOK
  <2> QED
    BY <2>1, <2>3, Zenon DEF Unlisted
<1>5. ASSUME NEW d \in Calls, d # c PROVE CallInv(d)'
  BY <1>0, <1>5, CallFrame, SMT DEF Return, Goto, ReleaseTypeOK
<1>6. CallInv(c)'
  <2>1. ~shifted[c] => Changed(c)
    BY <1>0, <1>3, Zenon DEF CallInv, SeenInv, UploadInv, Changed
  <2>2. pc'[c] = "done" /\ result'[c] = "refused"
    BY <1>0, Zenon DEF Return, Goto, ReleaseTypeOK
  <2>3. AnswerInv(c)'
    BY <1>0, <2>1, <2>2, Zenon DEF AnswerInv, Changed
  <2> QED
    BY <1>0, <2>2, <2>3, SMT
    DEF CallInv, StepInv, ReadInv, SeenInv, Running, PageInv, UploadInv
<1> QED
  BY <1>1, <1>2, <1>4, <1>5, <1>6

(* An upload lists a new asset under a name that had none. *)
LEMMA UploadTaken ==
  ASSUME IInv, NEW c \in Putters, pc[c] = "upload", IdOf(name[c]) = NoId,
         lastId' = lastId + 1,
         assets' = Append(assets, [id |-> lastId', name |-> name[c]]),
         Witnessed(name[c], lastId'),
         emptied' = [emptied EXCEPT ![name[c]] = None],
         Return(c, "ok") \/ Return(c, "error"),
         UNCHANGED <<exists, name, page, matches, shifted>>, exists
  PROVE  IInv'
<1> USE DEF IInv
<1> DEFINE new == [id |-> lastId', name |-> name[c]]
<1>1. /\ c \in Calls /\ CallInv(c) /\ Running(c) /\ c \notin Getters
      /\ name[c] \in Names /\ lastId \in Nat /\ lastId' \in Nat
  BY ReleaseConstants, SMT DEF Calls, Running, ReleaseTypeOK
<1>2. Unlisted(name[c])
  <2>1. \A i \in DOMAIN assets : assets[i].id # NoId
    BY AssetsType, SMT DEF ListInv, NoId
  <2> QED
    BY <2>1, IdOfProperties, Zenon DEF Unlisted
<1>3. new \in Assets /\ new.id = lastId' /\ new.name = name[c]
  BY <1>1 DEF Assets
<1> HIDE DEF new
<1>4. assets' = Append(assets, new)
  BY DEF new
<1>5. /\ Len(assets) \in Nat /\ DOMAIN assets = 1 .. Len(assets)
      /\ DOMAIN assets' = 1 .. Len(assets) + 1
      /\ assets' \in Seq(Assets) /\ Len(assets') = Len(assets) + 1
      /\ assets'[Len(assets) + 1] = new
      /\ \A i \in DOMAIN assets : assets'[i] = assets[i]
  <2>1. assets \in Seq(Assets) /\ Len(assets) \in Nat /\ DOMAIN assets = 1 .. Len(assets)
    BY AssetsType DEF ReleaseTypeOK
  <2>2. /\ assets' \in Seq(Assets) /\ Len(assets') = Len(assets) + 1
        /\ assets'[Len(assets) + 1] = new
        /\ \A i \in 1 .. Len(assets) : assets'[i] = assets[i]
    BY <1>3, <1>4, <2>1, AppendProperties
  <2> QED
    BY <2>1, <2>2, LenProperties, Zenon
<1>6. \A i \in DOMAIN assets' :
        \/ i \in DOMAIN assets /\ assets'[i] = assets[i]
        \/ i = Len(assets) + 1 /\ assets'[i] = new
  BY <1>5, SMT
<1>7. during' = [d \in Calls |-> IF Running(d) /\ name[d] = name[c]
                                   THEN during[d] \cup {lastId'} ELSE during[d]]
  BY Zenon DEF Witnessed
<1>8. pc' = [pc EXCEPT ![c] = "done"]
  BY Zenon DEF Return, Goto
<1>9. /\ \A d \in Calls : d # c => pc'[d] = pc[d] /\ result'[d] = result[d]
      /\ pc'[c] = "done" /\ result'[c] \in {"ok", "error"}
  BY <1>1, Zenon DEF Return, Goto, ReleaseTypeOK
<1>10. ReleaseTypeOK'
  <2>1. pc' \in [Calls -> Steps] /\ result' \in [Calls -> Results]
    BY <1>1, Zenon DEF Return, Goto, ReleaseTypeOK, Steps, Results
  <2>2. during' \in [Calls -> SUBSET Nat] /\ emptied' \in [Names -> Putters \cup {None}]
    BY <1>1, <1>7, Zenon DEF ReleaseTypeOK
  <2> QED
    BY <1>1, <1>5, <2>1, <2>2, Zenon DEF ReleaseTypeOK
<1>11. ListInv'
  <2>1. ASSUME NEW i \in DOMAIN assets', NEW j \in DOMAIN assets', i < j
        PROVE  assets'[i].id < assets'[j].id
    <3>1. i \in DOMAIN assets /\ assets'[i] = assets[i]
      BY <1>5, <2>1, SMT
    <3>2. CASE j \in DOMAIN assets
      BY <1>5, <2>1, <3>1, <3>2, Zenon DEF ListInv
    <3>3. CASE j = Len(assets) + 1
      <4>1. assets[i].id \in Nat /\ assets[i].id <= lastId
        BY <3>1, AssetsType DEF ListInv
      <4> QED
        BY <1>1, <1>3, <1>5, <3>1, <3>3, <4>1, SMT
    <3> QED
      BY <1>6, <3>2, <3>3
  <2>2. \A i, j \in DOMAIN assets' : assets'[i].name = assets'[j].name => i = j
    <3> SUFFICES ASSUME NEW i \in DOMAIN assets', NEW j \in DOMAIN assets',
                        assets'[i].name = assets'[j].name
                 PROVE  i = j
      OBVIOUS
    <3>1. CASE i \in DOMAIN assets /\ assets'[i] = assets[i]
      BY <1>2, <1>3, <1>6, <3>1, Zenon DEF ListInv, Unlisted
    <3>2. CASE i = Len(assets) + 1 /\ assets'[i] = new
      BY <1>2, <1>3, <1>6, <3>2, Zenon DEF Unlisted
    <3> QED
      BY <1>6, <3>1, <3>2
  <2>3. \A i \in DOMAIN assets' : 0 < assets'[i].id /\ assets'[i].id <= lastId'
    <3>1. \A i \in DOMAIN assets :
            assets[i].id \in Nat /\ 0 < assets[i].id /\ assets[i].id <= lastId
      BY AssetsType DEF ListInv
    <3> QED
      BY <1>1, <1>3, <1>6, <3>1, SMT
  <2> QED
    BY <2>1, <2>2, <2>3 DEF ListInv
<1>12. \A n \in Names : n # name[c] /\ Unlisted(n) => Unlisted(n)'
  BY <1>3, <1>6, Zenon DEF Unlisted
<1>13. EmptiedInv'
  <2> SUFFICES ASSUME NEW n \in Names, emptied'[n] # None
               PROVE  /\ name[emptied'[n]] = n
                      /\ Unlisted(n)'
                      /\ pc'[emptied'[n]] = "upload" \/ result'[emptied'[n]] = "error"
    BY DEF EmptiedInv
  <2>1. n # name[c] /\ emptied'[n] = emptied[n]
    BY <1>1, Zenon DEF ReleaseTypeOK
  <2>2. /\ name[emptied[n]] = n /\ Unlisted(n)
        /\ pc[emptied[n]] = "upload" \/ result[emptied[n]] = "error"
    BY <2>1 DEF EmptiedInv
  <2>3. emptied[n] \in Calls /\ emptied[n] # c
    BY <2>1, <2>2, Zenon DEF ReleaseTypeOK, Calls
  <2> QED
    BY <1>9, <1>12, <2>1, <2>2, <2>3
<1>14. ASSUME NEW d \in Calls PROVE ReadInv(d)' /\ SeenInv(d)' /\ PageInv(d)'
  <2>1. /\ CallInv(d) /\ during[d] \subseteq during'[d] /\ name' = name
        /\ matches' = matches /\ page' = page /\ shifted' = shifted
        /\ matches[d] \in SUBSET Nat
    BY <1>7, Zenon DEF ReleaseTypeOK
  <2>2. \A id \in matches[d] : id \in Nat /\ 0 < id /\ id <= lastId
    BY <2>1, Zenon DEF CallInv, ReadInv
  <2>3. ReadInv(d)'
    <3>1. matches[d] \subseteq during'[d]
      BY <2>1, Zenon DEF CallInv, ReadInv
    <3>2. \A id \in matches[d] : 0 < id /\ id < lastId'
      BY <1>1, <2>2, SMT
    <3>3. new.id \notin matches[d] /\ \A id \in matches[d] : id <= new.id
      BY <1>1, <1>3, <2>2, SMT
    <3>4. \A i \in DOMAIN assets' : assets'[i].id \in matches[d] => assets'[i].name = name[d]
      BY <1>6, <2>1, <3>3, Zenon DEF CallInv, ReadInv
    <3>5. \A i \in DOMAIN assets' : assets'[i].name = name[d] =>
            \A id \in matches[d] : id <= assets'[i].id
      BY <1>6, <2>1, <3>3, Zenon DEF CallInv, ReadInv
    <3>6. \A id \in matches[d] : 0 < id /\ id <= lastId'
      BY <1>1, <2>2, SMT
    <3> QED
      BY <2>1, <3>1, <3>4, <3>5, <3>6 DEF ReadInv
  <2>4. SeenInv(d)'
    <3> SUFFICES ASSUME Running(d)'
                 PROVE  /\ \A i \in DOMAIN assets' :
                             assets'[i].name = name[d] => assets'[i].id \in during'[d]
                        /\ Unlisted(name[d])' => NoId \in during'[d]
      BY <2>1, Zenon DEF SeenInv, Unlisted
    <3>1. Running(d)
      BY <1>8, SMT DEF Running, ReleaseTypeOK
    <3>2. name[d] = name[c] => new.id \in during'[d]
      BY <1>3, <1>7, <3>1, Zenon
    <3>3. Unlisted(name[d])' => Unlisted(name[d])
      <4>1. \A i \in DOMAIN assets : i \in DOMAIN assets' /\ assets'[i] = assets[i]
        BY <1>5, SMT
      <4> QED
        BY <4>1, Zenon DEF Unlisted
    <3>4. \A i \in DOMAIN assets' : assets'[i].name = name[d] => assets'[i].id \in during'[d]
      BY <1>3, <1>6, <2>1, <3>1, <3>2, Zenon DEF CallInv, SeenInv
    <3> QED
      BY <2>1, <3>1, <3>3, <3>4, Zenon DEF CallInv, SeenInv
  <2>5. PageInv(d)'
    <3> SUFFICES ASSUME pc'[d] = "list", ~shifted[d]
                 PROVE  /\ Before(page[d]) <= Len(assets')
                        /\ \A i \in DOMAIN assets' :
                             i <= Before(page[d]) /\ assets'[i].name = name[d]
                               => assets'[i].id \in matches[d]
      BY <2>1, Zenon DEF PageInv, Before
    <3>1. pc[d] = "list" /\ page[d] \in Nat \ {0}
      BY <1>8, <2>1, SMT DEF ReleaseTypeOK, CallInv, StepInv
    <3>2. /\ Before(page[d]) <= Len(assets)
          /\ \A i \in DOMAIN assets :
               i <= Before(page[d]) /\ assets[i].name = name[d] => assets[i].id \in matches[d]
      BY <2>1, <3>1, Zenon DEF CallInv, PageInv
    <3>3. Before(page[d]) \in Nat
      BY <3>1, BeforeProperties, Zenon
    <3>4. Before(page[d]) <= Len(assets') /\ ~(Len(assets) + 1 <= Before(page[d]))
      BY <1>5, <3>2, <3>3, SMT
    <3> QED
      BY <1>6, <3>2, <3>4, Zenon
  <2> QED
    BY <2>3, <2>4, <2>5
<1>15. ASSUME NEW d \in Calls, d # c PROVE CallInv(d)'
  <2>1. /\ CallInv(d) /\ during[d] \subseteq during'[d]
        /\ pc'[d] = pc[d] /\ result'[d] = result[d]
    BY <1>7, <1>9, <1>15, Zenon
  <2>2. StepInv(d)' /\ UploadInv(d)' /\ AnswerInv(d)'
    BY <2>1, Zenon DEF CallInv, StepInv, UploadInv, AnswerInv, Changed
  <2> QED
    BY <1>14, <2>2 DEF CallInv
<1>16. CallInv(c)'
  <2>1. StepInv(c)' /\ UploadInv(c)' /\ AnswerInv(c)'
    BY <1>1, <1>9, SMT DEF CallInv, StepInv, UploadInv, AnswerInv
  <2> QED
    BY <1>1, <1>14, <2>1 DEF CallInv
<1> QED
  BY <1>10, <1>11, <1>13, <1>15, <1>16

LEMMA UploadAssetStep ==
  ASSUME IInv, NEW c \in Putters, UploadAsset(c)
  PROVE  IInv'
<1>1. CASE IdOf(name[c]) # NoId
  BY <1>1, UploadRefused, Zenon DEF UploadAsset
<1>2. CASE IdOf(name[c]) = NoId
  <2>1. exists
    BY SMT DEF IInv, CallInv, StepInv, Calls, UploadAsset
  <2> QED
    BY <1>2, <2>1, UploadTaken, Zenon DEF UploadAsset
<1> QED
  BY <1>1, <1>2

-----------------------------------------------------------------------------
LEMMA NextInv == IInv /\ [Next]_vars => IInv'
<1> SUFFICES ASSUME IInv, [Next]_vars PROVE IInv'
  OBVIOUS
<1>1. ASSUME NEW c \in Calls, Begin(c) \/ ReleaseByTag(c) \/ ListAssets(c) \/ CallFails(c)
      PROVE  IInv'
  BY <1>1, BeginStep, ReleaseByTagStep, ListAssetsStep, CallFailsStep
<1>2. ASSUME NEW c \in Putters, Put(c) PROVE IInv'
  BY <1>2, EnsureReleaseStep, DeleteAssetStep, UploadAssetStep DEF Put
<1>3. ASSUME NEW c \in Getters, DownloadAsset(c) PROVE IInv'
  BY <1>3, DownloadAssetStep
<1>4. CASE UNCHANGED vars
  <2> USE <1>4 DEF IInv, vars, callVars
  <2>1. ReleaseTypeOK' /\ ListInv'
    BY Zenon DEF ReleaseTypeOK, ListInv
  <2>2. EmptiedInv'
    BY Zenon DEF EmptiedInv, Unlisted
  <2>3. \A c \in Calls : CallInv(c)'
    BY CallFrame
  <2> QED
    BY <2>1, <2>2, <2>3
<1> QED
  BY <1>1, <1>2, <1>3, <1>4, Zenon DEF Next

LEMMA InvHolds == Spec => []IInv
<1> QED
  BY InitInv, NextInv, PTL DEF Spec

(* The types of the mirror's state, for any calls, names and page size. *)
THEOREM ReleaseTypeHolds == Spec => []ReleaseTypeOK
<1>1. IInv => ReleaseTypeOK
  BY DEF IInv
<1> QED
  BY InvHolds, <1>1, PTL

(***************************************************************************)
(* However puts of a name overlap, one of them leaves it with an asset,    *)
(* unless the put that emptied it is cut before its upload.                *)
(***************************************************************************)
THEOREM NamesSurviveHolds == Spec => []NamesSurvive
<1>1. IInv => NamesSurvive
  BY Zenon DEF IInv, EmptiedInv, NamesSurvive
<1> QED
  BY InvHolds, <1>1, PTL

(***************************************************************************)
(* A put is refused only if the asset of its name changed under it, or a   *)
(* deletion moved assets across a page boundary it had passed.             *)
(***************************************************************************)
THEOREM PutRefusedForCauseHolds == Spec => []PutRefusedForCause
<1>1. IInv => PutRefusedForCause
  BY Zenon DEF IInv, CallInv, AnswerInv, PutRefusedForCause, Calls
<1> QED
  BY InvHolds, <1>1, PTL

(***************************************************************************)
(* What a get answers was so at some moment of the call, but for what a    *)
(* deletion moved to a page that it had read.                              *)
(***************************************************************************)
THEOREM GetAnswersAMomentHolds == Spec => []GetAnswersAMoment
<1>1. IInv => GetAnswersAMoment
  BY Zenon DEF IInv, CallInv, AnswerInv, GetAnswersAMoment, Calls
<1> QED
  BY InvHolds, <1>1, PTL
=============================================================================
