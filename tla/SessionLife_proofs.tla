-------------------------- MODULE SessionLife_proofs --------------------------
(***************************************************************************)
(* The safety of the capture, for any number of pages, changes and events, *)
(* and what becomes of the captured login over any number of runs,         *)
(* renewals and lapses.                                                    *)
(***************************************************************************)
EXTENDS SessionLife, FiniteSetTheorems, TLAPS

(***************************************************************************)
(* The capture of the seed (module Capture).                               *)
(***************************************************************************)
(* A page is open, or its end is announced, but not both; no event is invented. *)
EventsInv ==
  /\ pages + destroyed <= MaxPages
  /\ changed <= changes

(* What a step of wait_and_capture is reached for; a gone page stays gone. *)
ReachedInv ==
  /\ pc = "snapshot" => pages = 0
  /\ pc = "closed" => \/ pages = 0 /\ jar = 0
                      \/ ~alive \/ timedOut
  /\ pc \in {"captured", "ended"} => \/ pages = 0 /\ jar \in {captured, 0}
                                     \/ ~alive \/ timedOut
  /\ pc = "failed" => pages = 0 \/ ~alive \/ timedOut

(* The cache is what Chrome answered last, until it is returned. *)
SeenInv ==
  /\ pc = "init" => newest = 0
  /\ pc \notin {"captured", "ended"} => cache = newest
  /\ NothingSeenIsLost

CaptureInv == CaptureTypeOK /\ EventsInv /\ ReachedInv /\ SeenInv

LEMMA CaptureInit == Init => CaptureInv
<1> SUFFICES ASSUME Init PROVE CaptureInv
  OBVIOUS
<1>1. alive \in BOOLEAN /\ timedOut \in BOOLEAN
  BY Zenon DEF Init
<1> QED
  BY <1>1, CaptureConstants, SMT
     DEF Init, CaptureInv, CaptureTypeOK, EventsInv, ReachedInv, SeenInv, NothingSeenIsLost, Jars

(* Events may be lost, within any bound m on events and b on a sum with them. *)
LEMMA FewerEvents ==
  ASSUME NEW m \in Nat, NEW b \in Nat, NEW n \in Nat, NEW e \in 0 .. m, n + e <= b,
         NEW left \in 0 .. e
  PROVE  left \in 0 .. m /\ left <= b /\ n + left <= b
BY SMT

(* Chrome and the user: a jar and a set of pages change only while a page is open. *)
LEMMA ChromeStep == CaptureInv /\ Chrome => CaptureInv'
<1> SUFFICES ASSUME CaptureInv, Chrome PROVE CaptureInv'
  OBVIOUS
<1> USE CaptureConstants
        DEF CaptureInv, CaptureTypeOK, EventsInv, ReachedInv, SeenInv, NothingSeenIsLost, Jars
<1>1. CASE Browse
  BY <1>1, SMT DEF Browse
<1>2. CASE OpenPage
  BY <1>2, SMT DEF OpenPage
<1>3. CASE ClosePage
  BY <1>3, SMT DEF ClosePage
<1>4. CASE DropTarget
  BY <1>4, SMT DEF DropTarget
<1>5. CASE ChromeExits
  <2>1. alive' \in BOOLEAN /\ ~alive' /\ timedOut' \in BOOLEAN
    BY <1>5, Zenon DEF ChromeExits
  <2>2. /\ destroyed' \in 0 .. destroyed /\ changed' \in 0 .. changed
        /\ UNCHANGED <<pages, listed, jar, changes, pc, cache, captured, newest>>
    BY <1>5, Zenon DEF ChromeExits
  <2>3. /\ pages \in Nat /\ destroyed \in 0 .. MaxPages
        /\ changed \in 0 .. MaxChanges /\ changes \in Nat
        /\ pages + destroyed <= MaxPages /\ changed <= changes
    BY SMT
  <2>4. CaptureTypeOK' /\ EventsInv'
    <3>1. destroyed' \in 0 .. MaxPages /\ pages + destroyed' <= MaxPages
      BY <2>2, <2>3, FewerEvents
    <3>2. changed' \in 0 .. MaxChanges /\ changed' <= changes
      <4>1. 0 + changed <= changes
        BY <2>3, SMT
      <4> QED
        BY <2>2, <2>3, <4>1, FewerEvents
    <3>3. EventsInv'
      BY <2>2, <3>1, <3>2, Zenon
    <3>4. CaptureTypeOK'
      BY <2>1, <2>2, <3>1, <3>2, Zenon
    <3> QED
      BY <3>3, <3>4
  <2>5. pc = "snapshot" => pages = 0
    OBVIOUS
  <2>6. ReachedInv'
    BY <2>1, <2>2, <2>5, Zenon
  <2>7. SeenInv'
    BY <2>2, Zenon
  <2> QED
    BY <2>4, <2>6, <2>7
<1> QED
  BY <1>1, <1>2, <1>3, <1>4, <1>5 DEF Chrome

(* The loop of wait_and_capture, its last look, its cache, and close. *)
LEMMA CaptureStep == CaptureInv /\ (WaitAndCapture \/ Close) => CaptureInv'
<1> SUFFICES ASSUME CaptureInv, WaitAndCapture \/ Close PROVE CaptureInv'
  OBVIOUS
<1> USE CaptureConstants
        DEF CaptureInv, CaptureTypeOK, EventsInv, ReachedInv, SeenInv, NothingSeenIsLost, Jars,
            chromeVars, Goto
<1>1. CASE InitialCache
  BY <1>1, SMT DEF InitialCache, Exported, CallFails
<1>2. CASE Poll \/ TargetDestroyed \/ TargetInfoChanged \/ StreamEnds
  BY <1>2, SMT DEF Poll, TargetDestroyed, TargetInfoChanged, StreamEnds
<1>3. CASE Refresh
  BY <1>3, SMT DEF Refresh, Exported, CallFails
<1>4. CASE GetTargets
  BY <1>4, SMT DEF GetTargets, CallFails
<1>5. CASE Snapshot
  BY <1>5, SMT DEF Snapshot, Exported, CallFails
<1>6. CASE FromCache \/ Close
  BY <1>6, SMT DEF FromCache, Close
<1> QED
  BY <1>1, <1>2, <1>3, <1>4, <1>5, <1>6 DEF WaitAndCapture

LEMMA CaptureFrame == CaptureInv /\ UNCHANGED vars => CaptureInv'
BY DEF CaptureInv, CaptureTypeOK, EventsInv, ReachedInv, SeenInv, NothingSeenIsLost, vars,
       chromeVars

LEMMA CaptureInvHolds == Spec => []CaptureInv
<1>1. CaptureInv /\ [Next]_vars => CaptureInv'
  BY CaptureFrame, ChromeStep, CaptureStep DEF Next
<1> QED
  BY <1>1, CaptureInit, PTL DEF Spec

LEMMA CaptureInvGives ==
  CaptureInv => CaptureTypeOK /\ WaitsForTheUser /\ CapturesTheLastJar /\ NothingSeenIsLost
BY SMT DEF CaptureInv, CaptureTypeOK, ReachedInv, SeenInv, WaitsForTheUser, Returned,
           CapturesTheLastJar

(***************************************************************************)
(* wait_and_capture returns with a page open only if Chrome is gone or did *)
(* not answer, whatever the order of poll, events and Chrome's death.      *)
(***************************************************************************)
THEOREM WaitsForTheUserHolds == Spec => []WaitsForTheUser
BY CaptureInvHolds, CaptureInvGives, PTL

(***************************************************************************)
(* From a Chrome that is still there and answers, it returns the jar as    *)
(* the user left it.                                                       *)
(***************************************************************************)
THEOREM CapturesTheLastJarHolds == Spec => []CapturesTheLastJar
BY CaptureInvHolds, CaptureInvGives, PTL

(***************************************************************************)
(* It returns the last cookies Chrome ever answered, and fails only if     *)
(* Chrome never answered any.                                              *)
(***************************************************************************)
THEOREM NothingSeenIsLostHolds == Spec => []NothingSeenIsLost
BY CaptureInvHolds, CaptureInvGives, PTL

-----------------------------------------------------------------------------
(***************************************************************************)
(* The life of the login.                                                  *)
(***************************************************************************)
InBrowser == {"canary", "work", "export"}   \* steps after the import

(* There is something to restore, and the browser of a run that has imported
   it has that and no more: it may miss only what has lapsed. *)
ImportedInv ==
  /\ step # "seed" => checkpoint # {}
  /\ step \in InBrowser => profile \subseteq checkpoint /\ checkpoint \ lapsed \subseteq profile

LifeInv == ImportedInv /\ CheckpointStaysAlive

LEMMA LifeStart == LifeInit => LifeInv
BY Zenon DEF LifeInit, LifeInv, ImportedInv, CheckpointStaysAlive, InBrowser

(* The seed: a checkpoint starts with the login, or with a cause. *)
LEMMA SeedStep == LifeInv /\ (SeedCaptures \/ SeedSaves) => LifeInv'
<1> SUFFICES ASSUME LifeInv, SeedCaptures \/ SeedSaves PROVE LifeInv'
  OBVIOUS
<1> USE DEF LifeInv, ImportedInv, CheckpointStaysAlive, InBrowser
<1>1. CASE SeedCaptures
  BY <1>1, SMT DEF SeedCaptures
<1>2. CASE SeedSaves
  <2>1. step' = "idle" /\ captured \in checkpoint'
    BY <1>2, SMT DEF SeedSaves, GotoStep
  <2>2. CASE captured = jar
    BY <1>2, <2>1, <2>2, SMT DEF SeedSaves
  <2>3. CASE captured # jar
    BY <1>2, <2>1, <2>3, SMT DEF SeedSaves
  <2> QED
    BY <2>2, <2>3
<1> QED
  BY <1>1, <1>2

(* The site and the clock: what they take from a checkpoint is a cause. *)
LEMMA SiteStep == LifeInv /\ (Revoke \/ Lapse) => LifeInv'
<1> SUFFICES ASSUME LifeInv, Revoke \/ Lapse PROVE LifeInv'
  OBVIOUS
<1> USE DEF LifeInv, ImportedInv, CheckpointStaysAlive, InBrowser
<1>1. CASE Revoke
  <2>1. PICK t \in accepted :
          /\ accepted' = accepted \ {t}
          /\ causes' = IF t \in checkpoint THEN causes \cup {"revoked"} ELSE causes
    BY <1>1, Zenon DEF Revoke
  <2>2. UNCHANGED <<step, checkpoint, profile, lapsed>>
    BY <1>1, SMT DEF Revoke
  <2> QED
    BY <2>1, <2>2, SMT
<1>2. CASE Lapse
  BY <1>2, SMT DEF Lapse
<1> QED
  BY <1>1, <1>2

(* The client's requests: only a renewal that ends the old token is a cause. *)
LEMMA RenewalKeepsAlive ==
  ASSUME Renewal, UNCHANGED checkpoint, checkpoint \cap accepted = {} => causes # {}
  PROVE  checkpoint' \cap accepted' = {} => causes' # {}
BY SMT DEF Renewal

LEMMA RunStep == LifeInv /\ Run => LifeInv'
<1> SUFFICES ASSUME LifeInv, Run PROVE LifeInv'
  OBVIOUS
<1> USE DEF LifeInv, ImportedInv, CheckpointStaysAlive, InBrowser, GotoStep, siteVars
<1>1. CASE Restore \/ Launch \/ RunFails
  BY <1>1, SMT DEF Restore, Launch, RunFails
<1>2. CASE ImportState
  BY <1>2, SMT DEF ImportState
<1>3. CASE Canary \/ Work
  <2>1. UNCHANGED <<checkpoint, profile, lapsed>> /\ step \in InBrowser /\ step' \in InBrowser \cup {"idle"}
    BY <1>3, SMT DEF Canary, Work
  <2>2. Renewal \/ UNCHANGED <<accepted, causes>>
    BY <1>3, SMT DEF Canary, Work
  <2>3. checkpoint \cap accepted = {} => causes # {}
    BY <2>1, SMT
  <2>4. checkpoint' \cap accepted' = {} => causes' # {}
    BY <2>1, <2>2, <2>3, RenewalKeepsAlive
  <2> QED
    BY <2>1, <2>4, SMT
<1>4. CASE ExportAndSave
  BY <1>4, SMT DEF ExportAndSave
<1> QED
  BY <1>1, <1>2, <1>3, <1>4 DEF Run

LEMMA LifeInvHolds == LifeSpec => []LifeInv
<1>1. LifeInv /\ UNCHANGED lifeVars => LifeInv'
  BY Zenon DEF LifeInv, ImportedInv, CheckpointStaysAlive, InBrowser, lifeVars, siteVars
<1>2. LifeInv /\ [LifeNext]_lifeVars => LifeInv'
  BY <1>1, SeedStep, SiteStep, RunStep DEF LifeNext
<1> QED
  BY <1>2, LifeStart, PTL DEF LifeSpec

(***************************************************************************)
(* However many runs there are, the checkpoint keeps a login the site      *)
(* takes, or one of the four named causes has cost it.                     *)
(***************************************************************************)
THEOREM CheckpointStaysAliveHolds == LifeSpec => []CheckpointStaysAlive
BY LifeInvHolds, PTL DEF LifeInv

(***************************************************************************)
(* No run saves a cookie of a used profile: what it saves it restored, or  *)
(* the site gave it (import_storage_state, cdp.rs).                        *)
(***************************************************************************)
THEOREM ProfileStaysOutHolds == LifeSpec => ProfileStaysOut
<1>1. LifeInv /\ LifeNext /\ step # "seed" => checkpoint' \subseteq checkpoint \cup http
  <2> SUFFICES ASSUME LifeInv, LifeNext, step # "seed"
               PROVE  checkpoint' \subseteq checkpoint \cup http
    OBVIOUS
  <2>1. CASE ExportAndSave
    BY <2>1, SMT DEF ExportAndSave, LifeInv, ImportedInv, InBrowser
  <2>2. CASE Restore \/ Launch \/ ImportState \/ Canary \/ Work \/ RunFails
    BY <2>2, SMT DEF Restore, Launch, ImportState, Canary, Work, RunFails
  <2>3. CASE SeedCaptures \/ SeedSaves \/ Revoke \/ Lapse
    BY <2>3, SMT DEF SeedCaptures, SeedSaves, Revoke, Lapse
  <2> QED
    BY <2>1, <2>2, <2>3 DEF LifeNext, Run
<1>2. LifeInv /\ [LifeNext]_lifeVars =>
        [step # "seed" => checkpoint' \subseteq checkpoint \cup http]_lifeVars
  BY <1>1
<1> QED
  BY <1>2, LifeInvHolds, PTL DEF LifeSpec, ProfileStaysOut

-----------------------------------------------------------------------------
(* The types.  A jar has one token of the login, because a new one replaces
   the old, and a run exports no more than it imported. *)
OneToken(cookies) == \A t, u \in cookies \cap Tokens : t = u

LifeTypeInv ==
  /\ CaptureInv
  /\ step \in Steps
  /\ checkpoint \subseteq Cookies /\ profile \subseteq Cookies /\ http \subseteq Cookies
  /\ OneToken(checkpoint) /\ OneToken(http)
  /\ issued \in 0 .. MaxChanges + MaxRenewals
  /\ accepted \subseteq 1 .. issued
  /\ lapsed \subseteq Cookies
  /\ causes \subseteq Causes

LEMMA OneTokenIsOne ==
  ASSUME NEW cookies, OneToken(cookies)
  PROVE  Cardinality(cookies \cap Tokens) <= 1
<1>1. CASE cookies \cap Tokens = {}
  BY <1>1, FS_EmptySet, SMT
<1>2. CASE cookies \cap Tokens # {}
  <2>1. PICK t \in cookies \cap Tokens : TRUE
    BY <1>2
  <2>2. cookies \cap Tokens = {t}
    BY <2>1 DEF OneToken
  <2> QED
    BY <2>2, FS_Singleton, SMT
<1> QED
  BY <1>1, <1>2

LEMMA LifeTypeInit == LifeInit => LifeTypeInv
<1> SUFFICES ASSUME LifeInit PROVE LifeTypeInv
  OBVIOUS
<1>1. CaptureInv
  BY CaptureInit DEF LifeInit
<1>2. issued \in 0 .. MaxChanges + MaxRenewals
  BY CaptureConstants, LifeConstants, SMT DEF LifeInit
<1> QED
  BY <1>1, <1>2, Zenon DEF LifeInit, LifeTypeInv, OneToken, Steps

LEMMA LifeTypeSeed == LifeTypeInv /\ (SeedCaptures \/ SeedSaves) => LifeTypeInv'
<1> SUFFICES ASSUME LifeTypeInv, SeedCaptures \/ SeedSaves PROVE LifeTypeInv'
  OBVIOUS
<1>1. CASE SeedCaptures
  <2>1. CaptureInv'
    BY <1>1, ChromeStep, CaptureStep DEF SeedCaptures, Next, LifeTypeInv
  <2> QED
    BY <1>1, <2>1, Zenon DEF SeedCaptures, LifeTypeInv, siteVars, OneToken
<1>2. CASE SeedSaves
  <2>1. CaptureInv /\ pc = "ended" /\ captured # 0 /\ captured \in 0 .. MaxChanges
    BY <1>2, SMT DEF SeedSaves, LifeTypeInv, CaptureInv, SeenInv, NothingSeenIsLost,
                     CaptureTypeOK, Jars
  <2>2. captured \in Tokens /\ captured \in 1 .. captured
        /\ captured \in 0 .. MaxChanges + MaxRenewals
    BY <2>1, CaptureConstants, LifeConstants, SMT DEF Tokens
  <2>3. CaptureInv'
    <3>1. /\ pages' = 0 /\ listed' = 0 /\ jar' = 0 /\ changes' = 0
          /\ destroyed' = 0 /\ changed' = 0 /\ cache' = 0 /\ timedOut' = FALSE
          /\ UNCHANGED <<alive, pc, captured, newest>>
      BY <1>2, Zenon DEF SeedSaves
    <3>2. CaptureTypeOK'
      <4>1. alive' \in BOOLEAN /\ timedOut' \in BOOLEAN
        BY <2>1, <3>1, Zenon DEF CaptureInv, CaptureTypeOK
      <4> QED
        BY <2>1, <3>1, <4>1, CaptureConstants, SMT DEF CaptureInv, CaptureTypeOK, Jars
    <3>3. EventsInv' /\ ReachedInv'
      BY <2>1, <3>1, CaptureConstants, SMT DEF EventsInv, ReachedInv
    <3>4. SeenInv'
      BY <2>1, <3>1, SMT DEF CaptureInv, SeenInv, NothingSeenIsLost
    <3> QED
      BY <3>2, <3>3, <3>4 DEF CaptureInv
  <2>4. PICK others \in SUBSET {Site} : checkpoint' = {captured} \cup others
    BY <1>2, Zenon DEF SeedSaves
  <2>5. checkpoint' \subseteq Cookies /\ OneToken(checkpoint')
    BY <2>2, <2>4, LifeConstants, Zenon DEF Cookies, OneToken
  <2>6. accepted' \subseteq 1 .. issued'
    BY <1>2, <2>2, Zenon DEF SeedSaves
  <2>7. causes' \subseteq Causes /\ step' \in Steps
    BY <1>2, Zenon DEF SeedSaves, GotoStep, Causes, Steps
  <2> QED
    BY <1>2, <2>2, <2>3, <2>5, <2>6, <2>7, Zenon DEF SeedSaves, LifeTypeInv, OneToken
<1> QED
  BY <1>1, <1>2

LEMMA LifeTypeSite == LifeTypeInv /\ (Revoke \/ Lapse) => LifeTypeInv'
<1> SUFFICES ASSUME LifeTypeInv, Revoke \/ Lapse PROVE LifeTypeInv'
  OBVIOUS
<1>1. CaptureInv' /\ UNCHANGED <<step, checkpoint, profile, http, issued>>
  BY CaptureFrame DEF Revoke, Lapse, captureVars, LifeTypeInv
<1>2. accepted' \subseteq accepted /\ causes' \subseteq Causes /\ lapsed' \subseteq Cookies
  BY Zenon DEF Revoke, Lapse, LifeTypeInv, Causes
<1> QED
  BY <1>1, <1>2, Zenon DEF LifeTypeInv, OneToken

(* A renewal puts one token in the place of any the jar had. *)
LEMMA RenewalType ==
  ASSUME LifeTypeInv, Renewal
  PROVE  /\ http' \subseteq Cookies /\ OneToken(http')
         /\ issued' \in 0 .. MaxChanges + MaxRenewals
         /\ accepted' \subseteq 1 .. issued'
         /\ causes' \subseteq Causes
<1>1. CASE UNCHANGED <<http, accepted, issued, causes>>
  BY <1>1, Zenon DEF LifeTypeInv, OneToken
<1>2. CASE issued < MaxChanges + MaxRenewals /\ issued' = issued + 1
  <2>1. /\ issued' \in Tokens /\ issued' \in 0 .. MaxChanges + MaxRenewals
        /\ issued' \in 1 .. issued' /\ 1 .. issued \subseteq 1 .. issued'
    BY <1>2, CaptureConstants, LifeConstants, SMT DEF LifeTypeInv, Tokens
  <2>2. \/ UNCHANGED <<http, accepted, issued, causes>>
        \/ /\ http' = (http \ Tokens) \cup {issued'}
           /\ accepted' \subseteq accepted \cup {issued'}
           /\ causes' \subseteq causes \cup {"renewed"}
    BY Zenon DEF Renewal
  <2> QED
    BY <1>1, <2>1, <2>2, Zenon DEF LifeTypeInv, Cookies, OneToken, Causes
<1> QED
  BY <1>1, <1>2, Zenon DEF Renewal

LEMMA LifeTypeRun == LifeInv /\ LifeTypeInv /\ Run => LifeTypeInv'
<1> SUFFICES ASSUME LifeInv, LifeTypeInv, Run PROVE LifeTypeInv'
  OBVIOUS
<1>1. CaptureInv'
  <2>1. UNCHANGED captureVars
    BY Zenon DEF Run, Restore, Launch, ImportState, Canary, Work, ExportAndSave, RunFails
  <2> QED
    BY <2>1, CaptureFrame DEF captureVars, LifeTypeInv
<1>2. step' \in Steps
  BY Zenon DEF Run, Restore, Launch, ImportState, Canary, Work, ExportAndSave, RunFails,
       GotoStep, Steps
<1>3. CASE Restore \/ Launch \/ RunFails
  <2>1. UNCHANGED <<checkpoint, http, siteVars, causes>>
        /\ profile' \subseteq profile \cup {Stranger}
    BY <1>3, Zenon DEF Restore, Launch, RunFails
  <2> QED
    BY <1>1, <1>2, <2>1, Zenon DEF LifeTypeInv, OneToken, siteVars, Cookies
<1>4. CASE ImportState
  <2>1. /\ UNCHANGED <<checkpoint, siteVars, causes>>
        /\ profile' \subseteq profile \cup checkpoint /\ http' \in {http, checkpoint}
    BY <1>4, Zenon DEF ImportState
  <2> QED
    BY <1>1, <1>2, <2>1, Zenon DEF LifeTypeInv, OneToken, siteVars
<1>5. CASE Canary \/ Work
  <2>1. UNCHANGED <<checkpoint, profile, lapsed>>
    BY <1>5, Zenon DEF Canary, Work
  <2>2. Renewal
    BY <1>5, Zenon DEF Canary, Work, Renewal
  <2> QED
    BY <1>1, <1>2, <2>1, <2>2, RenewalType, Zenon DEF LifeTypeInv, OneToken
<1>6. CASE ExportAndSave
  <2>1. step \in InBrowser
    BY <1>6, Zenon DEF ExportAndSave, InBrowser
  <2>2. /\ UNCHANGED <<profile, http, siteVars>>
        /\ checkpoint' \in {profile \ lapsed, checkpoint}
        /\ causes' \subseteq causes \cup {"lapsed"}
    BY <1>6, Zenon DEF ExportAndSave
  <2>3. checkpoint' \subseteq checkpoint
    BY <2>1, <2>2, Zenon DEF LifeInv, ImportedInv
  <2> QED
    BY <1>1, <1>2, <2>2, <2>3, Zenon DEF LifeTypeInv, OneToken, siteVars, Causes
<1> QED
  BY <1>3, <1>4, <1>5, <1>6 DEF Run

(* The types of a login's state, for any number of runs and renewals: its
   jars keep one token, and a checkpoint once made keeps a cookie. *)
THEOREM LifeTypeHolds == LifeSpec => []LifeTypeOK
<1>1. LifeTypeInv /\ UNCHANGED lifeVars => LifeTypeInv'
  <2> SUFFICES ASSUME LifeTypeInv, UNCHANGED lifeVars PROVE LifeTypeInv'
    OBVIOUS
  <2>1. CaptureInv' /\ UNCHANGED <<step, checkpoint, profile, http, siteVars, causes>>
    BY CaptureFrame DEF lifeVars, captureVars, LifeTypeInv
  <2> QED
    BY <2>1, Zenon DEF LifeTypeInv, OneToken, siteVars
<1>2. LifeInv /\ LifeTypeInv /\ [LifeNext]_lifeVars => LifeTypeInv'
  BY <1>1, LifeTypeSeed, LifeTypeSite, LifeTypeRun DEF LifeNext
<1>3. LifeInv /\ LifeTypeInv => LifeTypeOK
  BY OneTokenIsOne, Zenon DEF LifeInv, ImportedInv, LifeTypeInv, LifeTypeOK, CaptureInv
<1> QED
  BY <1>2, <1>3, LifeTypeInit, LifeInvHolds, PTL DEF LifeSpec
==============================================================================
