----------------------------- MODULE AtomicStore -----------------------------
(***************************************************************************)
(* What a primary whose etags are versions promises to the callers of      *)
(* `trait SnapshotStore`: a call takes effect at most once, at one instant *)
(* between its start and its answer, a conditional one only if its etag is *)
(* the version of that instant; and an Ok is answered only by a call that  *)
(* took effect, with what was true at that instant.  An error says nothing.*)
(***************************************************************************)
EXTENDS SnapshotStore

CONSTANTS Tasks, Requests,
          Failed   \* the answer of a call that returned an error

VARIABLES
  store,     \* the body of each key
  version,   \* grows with every change; 0 is an empty store
  call,      \* the pending request of each task
  reply,     \* what it may be answered, from when it took effect to its return
  result     \* what it was answered

vars == <<store, version, call, reply, result>>

Init ==
  /\ version = 0 => \A k \in DOMAIN store : store[k] = None
  /\ call = [t \in Tasks |-> None]
  /\ reply = [t \in Tasks |-> None]
  /\ result = [t \in Tasks |-> None]

(* The condition of a request, on the body of its key and the version. *)
Accepted(req, body, at) ==
  CASE req.op = "swap"   -> GitAccepts(body, at, req.expected)
    [] req.op = "delete" -> GitDeletes(at, req.expected)
    [] req.op = "get"    -> body # None
    [] OTHER             -> TRUE

(* The body of its key afterwards. *)
BodyAfter(req, body) ==
  CASE req.op \in {"put", "swap"} -> req.body
    [] req.op = "delete"          -> None
    [] OTHER                      -> body

(* What it answers, from the body and the version it leaves. *)
Answers(req, body, at) ==
  [body |-> IF req.op = "get" THEN body ELSE None,
   etag |-> IF req.op = "delete" \/ body = None THEN None ELSE GitEtag(at)]

Begin(t) ==
  /\ call[t] = None
  /\ \E req \in Requests : call' = [call EXCEPT ![t] = req]
  /\ result' = [result EXCEPT ![t] = None]
  /\ UNCHANGED <<store, version, reply>>

TakeEffect(t) ==
  /\ call[t] # None /\ reply[t] = None
  /\ LET req == call[t] IN
     /\ Accepted(req, store[req.key], version)
     /\ store' = [store EXCEPT ![req.key] = BodyAfter(req, @)]
     /\ \/ version' > version
        \/ version' = version /\ store' = store
     /\ reply' = [reply EXCEPT ![t] = Answers(req, store'[req.key], version')]
  /\ UNCHANGED <<call, result>>

Answer(t) ==
  /\ call[t] # None
  /\ \E answer \in {reply[t], Failed} \ {None} : result' = [result EXCEPT ![t] = answer]
  /\ call' = [call EXCEPT ![t] = None]
  /\ reply' = [reply EXCEPT ![t] = None]
  /\ UNCHANGED <<store, version>>

Next == \E t \in Tasks : Begin(t) \/ TakeEffect(t) \/ Answer(t)

Spec == Init /\ [][Next]_vars
==============================================================================
