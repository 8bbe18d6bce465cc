------------------------------- MODULE Capture -------------------------------
(***************************************************************************)
(* The browser session of `repossess seed` (browser/cdp.rs): the user logs *)
(* in and closes the browser, and wait_and_capture has to get hold of the  *)
(* cookies, over a connection that dies with Chrome.  It polls, and        *)
(* listens to two streams of events; every call to Chrome is a step of its *)
(* own, during which the user and Chrome go on.                            *)
(*                                                                         *)
(* The cookie jar is the number of its last change, 0 when it is empty.    *)
(***************************************************************************)
EXTENDS Naturals

CONSTANTS
  MaxPages, MaxChanges,   \* bounds: pages open or closing, changes of the jar
  Faults                  \* "crash": Chrome dies; "timeout": a call to it fails

ASSUME CaptureConstants ==
  MaxPages \in Nat \ {0} /\ MaxChanges \in Nat /\ Faults \subseteq {"crash", "timeout"}

Jars == 0 .. MaxChanges

VARIABLES
  alive,      \* the Chrome process, and with it the connection
  pages,      \* pages the user has open
  listed,     \* pages Chrome lists as targets; it may announce a page's end first
  jar, changes,
  destroyed, changed,   \* events received and not yet taken from their streams
  pc, cache,
  captured,             \* the state returned
  newest,     \* history: the last jar with cookies that Chrome answered
  timedOut    \* history: a call failed while Chrome was there

chromeVars == <<alive, pages, listed, jar, changes>>
vars == <<chromeVars, destroyed, changed, pc, cache, captured, newest, timedOut>>

CaptureTypeOK ==
  /\ alive \in BOOLEAN /\ timedOut \in BOOLEAN
  /\ pages \in 0 .. MaxPages /\ listed \in pages .. MaxPages
  /\ jar \in {0, changes} /\ changes \in Jars
  /\ destroyed \in 0 .. MaxPages /\ changed \in 0 .. MaxChanges
  /\ pc \in {"init", "select", "targets", "snapshot", "refresh", "closed",
             "captured", "failed", "ended"}
  /\ cache \in Jars /\ captured \in Jars /\ newest \in Jars

(* seed opens one page, in a profile that may have cookies. *)
Init ==
  /\ alive = TRUE /\ pages = 1 /\ listed = 1
  /\ changes \in Jars /\ jar \in {0, changes}
  /\ destroyed = 0 /\ changed = 0
  /\ pc = "init" /\ cache = 0 /\ captured = 0
  /\ newest = 0 /\ timedOut = FALSE

-----------------------------------------------------------------------------
(* The user browses: cookies come and go, with or without a navigation. *)
Browse ==
  /\ alive /\ pages > 0 /\ changes < MaxChanges
  /\ changes' = changes + 1
  /\ jar' \in {0, changes'}
  /\ changed' \in {changed, changed + 1}
  /\ UNCHANGED <<alive, pages, listed, destroyed, pc, cache, captured, newest, timedOut>>

OpenPage ==
  /\ alive /\ pages > 0 /\ listed + destroyed < MaxPages
  /\ pages' = pages + 1 /\ listed' = listed + 1
  /\ UNCHANGED <<alive, jar, changes, destroyed, changed, pc, cache, captured, newest, timedOut>>

ClosePage ==
  /\ alive /\ pages > 0
  /\ pages' = pages - 1
  /\ destroyed' = destroyed + 1
  /\ UNCHANGED <<alive, listed, jar, changes, changed, pc, cache, captured, newest, timedOut>>

DropTarget ==
  /\ alive /\ listed > pages
  /\ listed' = listed - 1
  /\ UNCHANGED <<alive, pages, jar, changes, destroyed, changed, pc, cache, captured, newest,
                 timedOut>>

(* Chrome ends after its last page, or dies; events on their way are lost. *)
ChromeExits ==
  /\ alive
  /\ pages = 0 \/ "crash" \in Faults
  /\ alive' = FALSE
  /\ destroyed' \in 0 .. destroyed /\ changed' \in 0 .. changed
  /\ UNCHANGED <<pages, listed, jar, changes, pc, cache, captured, newest, timedOut>>

Chrome == Browse \/ OpenPage \/ ClosePage \/ DropTarget \/ ChromeExits

-----------------------------------------------------------------------------
Goto(s) == pc' = s

(* A call to Chrome that fails. *)
CallFails ==
  /\ ~alive \/ "timeout" \in Faults
  /\ timedOut' = (timedOut \/ alive)
  /\ UNCHANGED newest

(* export_storage_state: the whole jar, as of now. *)
Exported ==
  /\ alive
  /\ newest' = IF jar # 0 THEN jar ELSE newest
  /\ UNCHANGED timedOut

InitialCache ==
  /\ pc = "init"
  /\ \/ Exported /\ cache' = jar
     \/ CallFails /\ cache' = 0
  /\ Goto("select")
  /\ UNCHANGED <<chromeVars, destroyed, changed, captured>>

BugNoPoll == FALSE   \* events alone

(* The tick of 400 ms. *)
Poll ==
  /\ pc = "select"
  /\ Goto("targets")
  /\ UNCHANGED <<chromeVars, destroyed, changed, cache, captured, newest, timedOut>>

BugDestroyedIsLast ==   \* the pages left are not counted
  /\ pc = "select" /\ destroyed > 0
  /\ destroyed' = destroyed - 1
  /\ Goto("snapshot")
  /\ UNCHANGED <<chromeVars, changed, cache, captured, newest, timedOut>>

BugNoneIsEvent ==   \* the end of the stream is taken for one more event
  /\ pc = "select" /\ (destroyed > 0 \/ ~alive)
  /\ destroyed' = destroyed - 1
  /\ Goto("targets")
  /\ UNCHANGED <<chromeVars, changed, cache, captured, newest, timedOut>>

TargetDestroyed ==
  /\ pc = "select" /\ destroyed > 0
  /\ destroyed' = destroyed - 1
  /\ Goto("targets")
  /\ UNCHANGED <<chromeVars, changed, cache, captured, newest, timedOut>>

TargetInfoChanged ==
  /\ pc = "select" /\ changed > 0
  /\ changed' = changed - 1
  /\ Goto("refresh")
  /\ UNCHANGED <<chromeVars, destroyed, cache, captured, newest, timedOut>>

(* Without its connection a stream ends when it is drained. *)
StreamEnds ==
  /\ pc = "select" /\ ~alive /\ (destroyed = 0 \/ changed = 0)
  /\ Goto("closed")
  /\ UNCHANGED <<chromeVars, destroyed, changed, cache, captured, newest, timedOut>>

BugRefreshEmpty ==   \* a jar without cookies replaces the cache
  /\ pc = "refresh"
  /\ \/ Exported /\ cache' = jar
     \/ CallFails /\ UNCHANGED cache
  /\ Goto("select")
  /\ UNCHANGED <<chromeVars, destroyed, changed, captured>>

Refresh ==
  /\ pc = "refresh"
  /\ \/ Exported /\ cache' = IF jar # 0 THEN jar ELSE cache
     \/ CallFails /\ UNCHANGED cache
  /\ Goto("select")
  /\ UNCHANGED <<chromeVars, destroyed, changed, captured>>

GetTargets ==
  /\ pc = "targets"
  /\ \/ /\ alive
        /\ Goto(IF listed = 0 THEN "snapshot" ELSE "select")
        /\ UNCHANGED <<newest, timedOut>>
     \/ /\ CallFails
        /\ Goto("closed")
  /\ UNCHANGED <<chromeVars, destroyed, changed, cache, captured>>

BugCacheFirst ==   \* the cache is preferred to a last look
  /\ pc = "snapshot"
  /\ Goto("closed")
  /\ UNCHANGED <<chromeVars, destroyed, changed, cache, captured, newest, timedOut>>

(* The last page is gone: one more look while Chrome lives, else the cache. *)
Snapshot ==
  /\ pc = "snapshot"
  /\ \/ /\ Exported
        /\ IF jar # 0 THEN captured' = jar /\ Goto("captured")
                      ELSE Goto("closed") /\ UNCHANGED captured
     \/ /\ CallFails
        /\ Goto("closed")
        /\ UNCHANGED captured
  /\ UNCHANGED <<chromeVars, destroyed, changed, cache>>

FromCache ==
  /\ pc = "closed"
  /\ captured' = cache
  /\ Goto(IF cache = 0 THEN "failed" ELSE "captured")
  /\ UNCHANGED <<chromeVars, destroyed, changed, cache, newest, timedOut>>

(* close: wait_and_capture has noted the browser as closed, whatever made it
   return, so that close does not close it but waits for the process to end. *)
Close ==
  /\ pc = "captured" /\ ~alive
  /\ Goto("ended")
  /\ UNCHANGED <<chromeVars, destroyed, changed, cache, captured, newest, timedOut>>

WaitAndCapture ==
  \/ InitialCache \/ Poll \/ TargetDestroyed \/ TargetInfoChanged \/ StreamEnds
  \/ Refresh \/ GetTargets \/ Snapshot \/ FromCache

Next == Chrome \/ WaitAndCapture \/ Close

Spec == Init /\ [][Next]_vars

(* The capture runs, and Chrome stops listing a page that is gone.  That
   Chrome exits without pages is not assumed. *)
FairSpec == Spec /\ WF_vars(WaitAndCapture) /\ WF_vars(DropTarget)

-----------------------------------------------------------------------------
Returned == pc \in {"captured", "failed", "ended"}

(***************************************************************************)
(* wait_and_capture "blocks until the user closes all browser pages"       *)
(* (cdp.rs:123): while a page is open it returns only if Chrome is gone or *)
(* did not answer.                                                         *)
(***************************************************************************)
WaitsForTheUser ==
  Returned => pages = 0 \/ ~alive \/ timedOut

(***************************************************************************)
(* What it returns is the jar as the user left it, if Chrome is still      *)
(* there: older cookies are returned only if Chrome was gone first or did  *)
(* not answer, or if the user had deleted every cookie at the end          *)
(* (cdp.rs:160-168).                                                       *)
(***************************************************************************)
CapturesTheLastJar ==
  pc = "captured" /\ alive /\ ~timedOut => jar \in {captured, 0}

(***************************************************************************)
(* Whichever of the poll, the streams and Chrome's death comes first, the  *)
(* last cookies Chrome ever answered are the ones returned, and none are   *)
(* returned only if it never answered any (cdp.rs:145-230).                *)
(***************************************************************************)
NothingSeenIsLost ==
  /\ pc \in {"captured", "ended"} => captured = newest /\ captured # 0
  /\ pc = "failed" => newest = 0

(***************************************************************************)
(* Once the user has closed all pages, or Chrome is gone, the capture      *)
(* returns, even if Chrome's process stays and a page is still listed when *)
(* its end is announced.                                                   *)
(***************************************************************************)
CaptureReturns == (pages = 0 \/ ~alive) ~> Returned
==============================================================================
