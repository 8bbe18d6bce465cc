------------------------------ MODULE ApiClient ------------------------------
(***************************************************************************)
(* The two HTTP clients of the ChatGPT API, which make one request at a    *)
(* time for a caller that awaits it:                                       *)
(*                                                                         *)
(*   workload   ChatsApiClient of the chatgpt_chats workload, which backs  *)
(*              off on 429 and 5xx and refreshes its token on a 401        *)
(*   export     ChatGptClient of `repossess export`, which backs off on    *)
(*              429 only                                                   *)
(*                                                                         *)
(* The server answers as it likes, whenever it likes.  It may stop         *)
(* accepting a token at any moment, any number of times, and the session   *)
(* a new token comes from may die.  How long a back-off lasts is left out: *)
(* it ends.                                                                *)
(***************************************************************************)
EXTENDS Naturals

CONSTANT MaxRetries   \* max_retries

ASSUME RetriesAreCounted == MaxRetries \in Nat

VARIABLES
  client,     \* which of the two clients
  pc,         \* where its request is
  attempt,    \* overloaded answers so far
  refreshed,  \* refreshed_once, as 0 or 1
  token,      \* server: whether it accepts the client's token
  session,    \* server: whether the session is good for a new token
  result,     \* of the latest request
  requests,   \* history: GETs sent for this request (saturates)
  again,      \* history: 1 if the token expired after this request's refresh
  refused,    \* history: 1 if the session endpoint refused this request a new token
  stage,      \* of the caller: listing, fetching, sweeping, or over
  failed,     \* the workload has conversations for the sweep
  denied      \* history: the stages a request was refused in for want of a session

serverVars == <<token, session>>
clientVars == <<client, pc, attempt, refreshed, result, requests, again, refused>>
callerVars == <<stage, failed, denied>>
vars == <<serverVars, clientVars, callerVars>>

Clients == {"workload", "export"}
Results == {"none", "ok", "inaccessible", "transient", "fatal", "unauthorized"}
Stages  == {"list", "detail", "sweep", "complete", "failed"}

ApiTypeOK ==
  /\ client \in Clients
  /\ pc \in {"idle", "waiting", "backing_off", "refreshing", "returned"}
  /\ attempt \in 0 .. MaxRetries + 1
  /\ refreshed \in 0 .. 1
  /\ token \in {"good", "expired"} /\ session \in {"alive", "dead"}
  /\ result \in Results
  /\ requests \in Nat
  /\ again \in 0 .. 1 /\ refused \in 0 .. 1
  /\ stage \in Stages /\ failed \in BOOLEAN /\ denied \subseteq Stages

(* A client is made by fetching a token from the session. *)
Init ==
  /\ client \in Clients
  /\ pc = "idle" /\ attempt = 0 /\ refreshed = 0
  /\ token = "good" /\ session = "alive"
  /\ result = "none" /\ requests = 0 /\ again = 0 /\ refused = 0
  /\ stage = "list" /\ failed = FALSE /\ denied = {}

-----------------------------------------------------------------------------
(* The server. *)
TokenExpires ==
  /\ token = "good"
  /\ token' = "expired"
  /\ again' = refreshed
  /\ UNCHANGED <<session, client, pc, attempt, refreshed, result, requests, refused, callerVars>>

SessionDies ==
  /\ session = "alive"
  /\ session' = "dead"
  /\ UNCHANGED <<token, clientVars, callerVars>>

-----------------------------------------------------------------------------
(* The count of requests saturates one above what is ever allowed. *)
Send == requests' = IF requests < MaxRetries + 3 THEN requests + 1 ELSE requests

Return(r) ==
  /\ pc' = "returned"
  /\ result' = r

BugRefreshOncePerRun ==   \* the client, not the request, remembers its refresh
  /\ pc = "idle" /\ stage \in {"list", "detail", "sweep"}
  /\ pc' = "waiting"
  /\ attempt' = 0
  /\ requests' = 1 /\ again' = 0 /\ refused' = 0
  /\ result' = "none"
  /\ UNCHANGED <<serverVars, client, refreshed, callerVars>>

(* A request begins with a fresh budget. *)
Call ==
  /\ pc = "idle" /\ stage \in {"list", "detail", "sweep"}
  /\ pc' = "waiting"
  /\ attempt' = 0 /\ refreshed' = 0
  /\ requests' = 1 /\ again' = 0 /\ refused' = 0
  /\ result' = "none"
  /\ UNCHANGED <<serverVars, client, callerVars>>

(***************************************************************************)
(* 429, and for the workload 5xx: both draw on the one budget of retries.  *)
(***************************************************************************)
BugRetryForever ==   \* the budget is never used up
  /\ pc = "waiting"
  /\ attempt' = attempt + 1
  /\ pc' = "backing_off"
  /\ UNCHANGED <<serverVars, client, refreshed, result, requests, again, refused, callerVars>>

BugOneTooMany ==   \* gives up only when the budget is overdrawn
  /\ pc = "waiting"
  /\ \/ /\ attempt > MaxRetries
        /\ Return(IF client = "workload" THEN "transient" ELSE "fatal")
        /\ UNCHANGED attempt
     \/ /\ attempt <= MaxRetries
        /\ attempt' = attempt + 1
        /\ pc' = "backing_off"
        /\ UNCHANGED result
  /\ UNCHANGED <<serverVars, client, refreshed, requests, again, refused, callerVars>>

Overloaded ==
  /\ pc = "waiting"
  /\ attempt' = attempt + 1
  /\ \/ /\ attempt' > MaxRetries
        /\ Return(IF client = "workload" THEN "transient" ELSE "fatal")
     \/ /\ attempt' <= MaxRetries
        /\ pc' = "backing_off"
        /\ UNCHANGED result
  /\ UNCHANGED <<serverVars, client, refreshed, requests, again, refused, callerVars>>

Resend ==
  /\ pc = "backing_off"
  /\ pc' = "waiting" /\ Send
  /\ UNCHANGED <<serverVars, client, attempt, refreshed, result, again, refused, callerVars>>

BugRefreshAgain ==   \* a refreshed token earns another refresh
  /\ pc = "waiting" /\ token = "expired"
  /\ client = "workload"
  /\ pc' = "refreshing"
  /\ UNCHANGED <<serverVars, client, attempt, refreshed, result, requests, again, refused, callerVars>>

(* 401: one refresh per request, and none for the export. *)
Unauthorized ==
  /\ pc = "waiting" /\ token = "expired"
  /\ \/ /\ client = "workload" /\ refreshed = 0
        /\ refreshed' = 1
        /\ pc' = "refreshing"
        /\ UNCHANGED result
     \/ /\ client = "export" \/ refreshed = 1
        /\ Return("unauthorized")
        /\ UNCHANGED refreshed
  /\ UNCHANGED <<serverVars, client, attempt, requests, again, refused, callerVars>>

(***************************************************************************)
(* fetch_session makes one call and no retry.  Any answer but a 2xx with a *)
(* token, a 429 or a 5xx of a session that is alive too, is an error that  *)
(* says "session expired" and asks for a new seed, as a dead session's is; *)
(* no connection, or an answer that does not parse, is another.            *)
(***************************************************************************)
RefreshToken ==
  /\ pc = "refreshing"
  /\ \/ /\ session = "alive"
        /\ token' = "good"
        /\ pc' = "waiting" /\ Send
        /\ UNCHANGED <<result, refused>>
     \/ /\ Return("unauthorized")
        /\ refused' = 1
        /\ UNCHANGED <<token, requests>>
     \/ /\ Return("fatal")
        /\ UNCHANGED <<token, requests, refused>>
  /\ UNCHANGED <<session, client, attempt, refreshed, again, callerVars>>

(***************************************************************************)
(* A body; 200 with a detail that says inaccessible or not_found (which    *)
(* the export takes for a failure like any other).                         *)
(***************************************************************************)
Answered ==
  /\ pc = "waiting" /\ token = "good"
  /\ Return("ok") \/ Return(IF client = "workload" THEN "inaccessible" ELSE "fatal")
  /\ UNCHANGED <<serverVars, client, attempt, refreshed, requests, again, refused, callerVars>>

(* No connection, another status, a body that does not parse. *)
Broken ==
  /\ pc = "waiting"
  /\ Return("fatal")
  /\ UNCHANGED <<serverVars, client, attempt, refreshed, requests, again, refused, callerVars>>

(***************************************************************************)
(* What the caller does with a result: any failure of the listing, and a   *)
(* fatal one of a first fetch, fail the workload; the sweep, which is for  *)
(* transient failures, warns of every failure and goes on.  The export     *)
(* tries its next conversation.                                            *)
(***************************************************************************)
BugDeniedIsSkipped(r) ==   \* a refused conversation is left out like an inaccessible one
  \/ stage = "list" /\ r # "ok"
  \/ stage = "detail" /\ client = "workload" /\ r = "fatal"

Fails(r) ==
  \/ stage = "list" /\ r # "ok"
  \/ stage = "detail" /\ client = "workload" /\ r \in {"fatal", "unauthorized"}

Handle ==
  /\ pc = "returned"
  /\ pc' = "idle"
  /\ denied' = IF result = "unauthorized" THEN denied \cup {stage} ELSE denied
  /\ failed' = (failed \/ (client = "workload" /\ stage = "detail" /\ result = "transient"))
  /\ \/ /\ Fails(result)
        /\ stage' = "failed"
     \/ /\ ~Fails(result)
        /\ \/ stage' = stage
           \/ stage = "list" /\ stage' \in {"detail", "complete"}
           \/ stage = "detail" /\ stage' = IF failed' THEN "sweep" ELSE "complete"
           \/ stage = "sweep" /\ stage' = "complete"
  /\ UNCHANGED <<serverVars, client, attempt, refreshed, result, requests, again, refused>>

-----------------------------------------------------------------------------
Answer == Overloaded \/ Unauthorized \/ Answered \/ Broken
Await  == Answer \/ Resend \/ RefreshToken

Next == TokenExpires \/ SessionDies \/ Call \/ Await \/ Handle

Spec == Init /\ [][Next]_vars

(***************************************************************************)
(* Every request gets some answer or times out, and sleeps end.  Nothing   *)
(* is assumed of which answer it is.                                       *)
(***************************************************************************)
FairSpec == Spec /\ WF_vars(Await)

-----------------------------------------------------------------------------
(***************************************************************************)
(* A request never hammers the API: it is sent at most once, plus once per *)
(* retry, plus once after a refresh, however the server mixes 429, 5xx and *)
(* 401 and however often the token expires.                                *)
(***************************************************************************)
RequestsAreBounded == requests <= MaxRetries + 2

(***************************************************************************)
(* A conversation is put aside for the sweep only after the whole budget   *)
(* was spent on it.                                                        *)
(***************************************************************************)
TransientIsExhausted ==
  pc = "returned" /\ result = "transient" =>
    requests = 1 + MaxRetries + refreshed

(***************************************************************************)
(* The workload never gives up on its token (and asks for a new seed) at   *)
(* the first refusal, whatever earlier requests went through: either the   *)
(* session endpoint, asked on behalf of this very request, refused it a    *)
(* new token, or it got one and the API stopped accepting that one, too.   *)
(* (That the session has then expired, as src/README.md:553 and the error  *)
(* say, is not so: the endpoint may just have been overloaded.)            *)
(***************************************************************************)
RefusedTwice ==
  pc = "returned" /\ client = "workload" /\ result = "unauthorized" =>
    refused = 1 \/ again = 1

(***************************************************************************)
(* A request refused for want of a session fails the workload              *)
(* (src/README.md:552-553, "A second 401 fails the workload"), with one    *)
(* exception the code makes: in the sweep, which exists only after         *)
(* transient failures, it is only warned of, and the workload completes.   *)
(***************************************************************************)
DeniedOnlyInSweep ==
  stage = "complete" /\ client = "workload" /\ denied # {} =>
    denied = {"sweep"} /\ failed

(* Whatever the server answers, every request returns. *)
EveryCallReturns == pc = "waiting" ~> pc = "returned"
==============================================================================
