----------------------------- MODULE SessionLife -----------------------------
(***************************************************************************)
(* One login and what becomes of it: `repossess seed` captures it (module  *)
(* Capture), and `repossess run`, again and again, restores it into a      *)
(* browser and into the jar of an HTTP client, talks to the site with the  *)
(* client, and saves what the browser then has (commands/run.rs).          *)
(*                                                                         *)
(* A jar is a set of cookies: at most one token of the login, and others   *)
(* of the site.  The token of a captured jar is the jar's number; the site *)
(* renews tokens as it likes.  That runs exclude each other and that a     *)
(* save may be refused is module Capsule's; here one run follows another.  *)
(***************************************************************************)
EXTENDS Capture, FiniteSets

CONSTANTS
  MaxRenewals,     \* bound on the tokens the site gives to runs
  Site, Stranger   \* another cookie of the site; one the profile had anyway

Tokens  == 1 .. MaxChanges + MaxRenewals
Cookies == Tokens \cup {Site, Stranger}

ASSUME LifeConstants ==
  MaxRenewals \in Nat /\ Site # Stranger /\ {Site, Stranger} \cap Tokens = {}

VARIABLES
  step,        \* of the seed, then of the run under way
  checkpoint,  \* the cookies of the latest checkpoint
  profile,     \* the cookies of the browser in user_data_dir
  http,        \* the jar of the HTTP client
  accepted,    \* site: the tokens it takes for the login
  issued,      \* site: the last token it gave
  lapsed,      \* the cookies whose date of expiry has passed
  causes       \* history: what may have cost the checkpoint its login

siteVars    == <<accepted, issued, lapsed>>
captureVars == vars
lifeVars    == <<captureVars, step, checkpoint, profile, http, siteVars, causes>>

Steps  == {"seed", "idle", "launch", "import", "canary", "work", "export"}
Causes == {"stale", "renewed", "revoked", "lapsed"}

LifeTypeOK ==
  /\ CaptureTypeOK
  /\ step \in Steps
  /\ checkpoint \subseteq Cookies /\ (step # "seed" => checkpoint # {})
  /\ profile \subseteq Cookies /\ http \subseteq Cookies
  /\ Cardinality(checkpoint \cap Tokens) <= 1 /\ Cardinality(http \cap Tokens) <= 1
  /\ issued \in 0 .. MaxChanges + MaxRenewals
  /\ accepted \subseteq 1 .. issued
  /\ lapsed \subseteq Cookies
  /\ causes \subseteq Causes

LifeInit ==
  /\ Init
  /\ step = "seed" /\ checkpoint = {}
  /\ profile = {} /\ http = {}
  /\ accepted = {} /\ issued = 0 /\ lapsed = {}
  /\ causes = {}

-----------------------------------------------------------------------------
GotoStep(s) == step' = s

SeedCaptures ==
  /\ step = "seed"
  /\ Next
  /\ UNCHANGED <<step, checkpoint, profile, http, siteVars, causes>>

(***************************************************************************)
(* The seed saves what it captured.  The last jar holds the login the user *)
(* was asked for; an older one may, and so may one the user then emptied.  *)
(* The seed's process is over and its browser forgotten.                   *)
(***************************************************************************)
SeedSaves ==
  /\ step = "seed" /\ pc = "ended"
  /\ \E others \in SUBSET {Site} : checkpoint' = {captured} \cup others
  /\ accepted' \in {{captured}} \cup (IF captured = jar THEN {} ELSE {{}})
  /\ causes' = IF captured = jar THEN {} ELSE {"stale"}
  /\ issued' = captured
  /\ GotoStep("idle")
  /\ pages' = 0 /\ listed' = 0 /\ jar' = 0 /\ changes' = 0
  /\ destroyed' = 0 /\ changed' = 0 /\ cache' = 0 /\ timedOut' = FALSE
  /\ UNCHANGED <<alive, pc, captured, newest, profile, http, lapsed>>

-----------------------------------------------------------------------------
(* The site ends a login, and dates of expiry pass. *)
Revoke ==
  /\ step # "seed"
  /\ \E t \in accepted :
       /\ accepted' = accepted \ {t}
       /\ causes' = IF t \in checkpoint THEN causes \cup {"revoked"} ELSE causes
  /\ UNCHANGED <<captureVars, step, checkpoint, profile, http, issued, lapsed>>

Lapse ==
  /\ step # "seed"
  /\ \E c \in (checkpoint \cup profile) \ lapsed : lapsed' = lapsed \cup {c}
  /\ UNCHANGED <<captureVars, step, checkpoint, profile, http, accepted, issued, causes>>

(***************************************************************************)
(* An answer to a logged-in request may set a new token, which replaces    *)
(* the old one in the jar of the client that asked; the site may or may    *)
(* not go on taking the old one.                                           *)
(***************************************************************************)
BugRenewalAdds ==   \* the new token does not replace the old one in the jar
  \/ UNCHANGED <<http, accepted, issued, causes>>
  \/ /\ issued < MaxChanges + MaxRenewals
     /\ issued' = issued + 1
     /\ http' = http \cup {issued'}
     /\ accepted' = accepted \cup {issued'}
     /\ UNCHANGED causes

Renewal ==
  \/ UNCHANGED <<http, accepted, issued, causes>>
  \/ /\ issued < MaxChanges + MaxRenewals
     /\ issued' = issued + 1
     /\ http' = (http \ Tokens) \cup {issued'}
     /\ \/ /\ accepted' = accepted \cup {issued'}
           /\ UNCHANGED causes
        \/ /\ accepted' = {issued'}
           /\ causes' = IF checkpoint \cap accepted # {} THEN causes \cup {"renewed"} ELSE causes

LoggedIn == http \cap accepted # {}

-----------------------------------------------------------------------------
(* A run restores the checkpoint; its profile may be a used one. *)
Restore ==
  /\ step = "idle"
  /\ GotoStep("launch")
  /\ UNCHANGED <<captureVars, checkpoint, profile, http, siteVars, causes>>

Launch ==
  /\ step = "launch"
  /\ profile' \in SUBSET (profile \cup {Stranger})
  /\ GotoStep("import")
  /\ UNCHANGED <<captureVars, checkpoint, http, siteVars, causes>>

BugNotCleared ==   \* without Storage.clearCookies
  /\ step = "import"
  /\ profile' = profile \cup (checkpoint \ lapsed)
  /\ http' = checkpoint
  /\ GotoStep("canary")
  /\ UNCHANGED <<captureVars, checkpoint, siteVars, causes>>

BugImportIgnored ==   \* a failure of the import is passed over
  /\ step = "import"
  /\ profile' \in {profile, {}, checkpoint \ lapsed}
  /\ http' = checkpoint
  /\ GotoStep("canary")
  /\ UNCHANGED <<captureVars, checkpoint, siteVars, causes>>

(***************************************************************************)
(* import_storage_state clears the browser's cookies and sets the restored *)
(* ones, of which the browser drops the lapsed; cookies_to_reqwest_jar     *)
(* copies them without their dates.                                        *)
(***************************************************************************)
ImportState ==
  /\ step = "import"
  /\ \/ /\ profile' = IF checkpoint = {} THEN profile ELSE checkpoint \ lapsed
        /\ http' = checkpoint
        /\ GotoStep("canary")
     \/ /\ profile' \in {profile, {}}
        /\ GotoStep("idle")
        /\ UNCHANGED http
  /\ UNCHANGED <<captureVars, checkpoint, siteVars, causes>>

(* The canary asks the site with the client; a login that is not taken ends the run. *)
Canary ==
  /\ step = "canary"
  /\ \/ LoggedIn /\ Renewal /\ GotoStep("work")
     \/ ~LoggedIn /\ GotoStep("idle") /\ UNCHANGED <<http, accepted, issued, causes>>
  /\ UNCHANGED <<captureVars, checkpoint, profile, lapsed>>

(* The workloads ask with the same client, and so never through the browser. *)
Work ==
  /\ step = "work"
  /\ \/ LoggedIn /\ Renewal /\ GotoStep("work")
     \/ GotoStep("export") /\ UNCHANGED <<http, accepted, issued, causes>>
  /\ UNCHANGED <<captureVars, checkpoint, profile, lapsed>>

BugSaveEmpty ==   \* "post-run cookies empty" is not refused
  /\ step = "export"
  /\ checkpoint' = profile \ lapsed
  /\ GotoStep("idle")
  /\ UNCHANGED <<captureVars, profile, http, siteVars, causes>>

(* export_storage_state and save: what the browser has, unless that is nothing. *)
ExportAndSave ==
  LET exported == profile \ lapsed IN
  /\ step = "export"
  /\ \/ /\ exported # {}
        /\ checkpoint' = exported
        /\ causes' = IF checkpoint \cap accepted # {} /\ exported \cap accepted = {}
                        /\ checkpoint \cap accepted \subseteq lapsed
                       THEN causes \cup {"lapsed"} ELSE causes
     \/ /\ exported = {}
        /\ UNCHANGED <<checkpoint, causes>>
  /\ GotoStep("idle")
  /\ UNCHANGED <<captureVars, profile, http, siteVars>>

(* Any step fails, and the run with it; or its closing write is refused. *)
RunFails ==
  /\ step \notin {"seed", "idle"}
  /\ GotoStep("idle")
  /\ UNCHANGED <<captureVars, checkpoint, profile, http, siteVars, causes>>

Run == Restore \/ Launch \/ ImportState \/ Canary \/ Work \/ ExportAndSave \/ RunFails

LifeNext == SeedCaptures \/ SeedSaves \/ Revoke \/ Lapse \/ Run

LifeSpec == LifeInit /\ [][LifeNext]_lifeVars

(* The fairness of Capture, for the capture of the seed. *)
LifeFairSpec ==
  LifeSpec /\ WF_lifeVars(SeedCaptures /\ WaitAndCapture)
           /\ WF_lifeVars(SeedCaptures /\ DropTarget)

-----------------------------------------------------------------------------
(***************************************************************************)
(* Through any number of runs, used profiles, failures at any step and     *)
(* renewals: the checkpoint keeps a login the site takes, unless the site  *)
(* revoked it, the capture had only an older jar, or one of two things the *)
(* code does not follow: the site renewed the token to the HTTP client,    *)
(* whose jar no export sees (run.rs:118, 165), or the browser dropped it   *)
(* by its date while another cookie kept the export from being empty       *)
(* (run.rs:167).                                                           *)
(***************************************************************************)
CheckpointStaysAlive ==
  step # "seed" /\ checkpoint \cap accepted = {} => causes # {}

(***************************************************************************)
(* No cookie of a used profile gets into the capsule, whatever earlier     *)
(* runs left there and wherever they failed: what a run saves it restored, *)
(* or the site gave it (the browser's cookies are cleared before the       *)
(* import, cdp.rs:277-282).                                                *)
(***************************************************************************)
ProfileStaysOut ==
  [][step # "seed" => checkpoint' \subseteq checkpoint \cup http]_lifeVars

(***************************************************************************)
(* A run "saves the updated checkpoint back" (src/README.md:92), so that a *)
(* jar that "gets revalidated" lives on (104-106) and cookies may rotate   *)
(* (111-112): the login the run ended with, if it has not lapsed, is in    *)
(* the checkpoint it saves.  It is not: the jar with the renewals is the   *)
(* HTTP client's, and the browser's is saved.                              *)
(***************************************************************************)
SavesRenewals ==
  [][ExportAndSave /\ profile \ lapsed # {} =>
       (http \cap accepted) \ lapsed \subseteq checkpoint']_lifeVars
==============================================================================
