--------------------------- MODULE ChatsSync_proofs ---------------------------
(***************************************************************************)
(* The safety of the conversation archive, for every number of             *)
(* conversations, daily runs and imports, and every page size and stop     *)
(* rule.  The invariant has five parts, each inductive relative to those   *)
(* before it: types; what is no newer than the upstream; what a session    *)
(* that can still save is ahead of; what a lone daily run has stored; and  *)
(* where in the list the conversations are that a session will know.       *)
(***************************************************************************)
EXTENDS ChatsSync, ListLemmas

-----------------------------------------------------------------------------
(* The summaries a session has yet to fetch the bodies of. *)
Waiting(s) == Range(queue[s]) \cup Range(again[s])

(* What a session may be doing, and what it has in memory then. *)
Kinds ==
  /\ \A d \in Daily : phase[d] \notin {"upload", "done"}
  /\ \A m \in Imports : phase[m] \in {"idle", "upload", "done"}

Memory(s) ==
  /\ fresh[s] => phase[s] \notin {"idle", "done"}
  /\ phase[s] \in {"idle", "upload", "done"} => queue[s] = <<>> /\ again[s] = <<>>
  /\ phase[s] \in {"idle", "done"} => entries[s] = Nothing
  /\ phase[s] \in {"list", "refetch", "reput"} => again[s] = <<>>
  /\ phase[s] \in Storing => queue[s] # <<>>
  /\ phase[s] # "list" => offset[s] = 0

TypeInv ==
  /\ ChatsTypeOK
  /\ \A c \in Convs : time[c] <= changes
  /\ \A c \in Listed : time[c] > 0
  /\ Kinds
  /\ \A s \in Sessions : Memory(s)

(* Nothing the archive has is newer than the conversation. *)
NotNewer(s) ==
  /\ \A c \in Convs : entries[s][c] <= time[c]
  /\ \A summary \in Waiting(s) : summary.update_time <= time[summary.id]
  /\ phase[s] \in Storing => held[s] <= time[Head(queue[s]).id]

Past ==
  /\ \A c \in Convs : index[c] <= time[c] /\ body[c] <= time[c]
  /\ \A m \in Imports, c \in Convs : archive[m][c] <= time[c]
  /\ \A s \in Sessions : NotNewer(s)

(***************************************************************************)
(* A session that can still save its index has every entry of the stored   *)
(* one, or a later one; or, in an import, the archive's.                   *)
(***************************************************************************)
Ahead(s) ==
  fresh[s] =>
    /\ s \in Daily =>
         /\ \A c \in Convs : index[c] <= entries[s][c]
         /\ \A summary \in Waiting(s) : index[summary.id] <= summary.update_time
         /\ phase[s] = "list" => entries[s] = index
    /\ s \in Imports =>
         \A c \in Convs :
           /\ entries[s][c] \in {index[c], archive[s][c]}
           /\ archive[s][c] \notin {0, index[c]} =>
                c \in pending[s] \cup dropped[s] \/ entries[s][c] = archive[s][c]

(* A daily run that is alone only ever replaces a body by a later one. *)
Backed(d) ==
  /\ \A c \in Convs : entries[d][c] <= body[c]
  /\ phase[d] \in Storing =>
       /\ Head(queue[d]).update_time <= held[d]
       /\ body[Head(queue[d]).id] <= held[d]

Lone ==
  alone =>
    /\ \A m \in Imports : phase[m] = "idle"
    /\ \A d, e \in Daily : phase[d] # "idle" /\ phase[e] # "idle" => d = e
    /\ \A d \in Daily : Backed(d)
    /\ IndexIsBacked

(***************************************************************************)
(* Up to its n-th place, the list has no conversation of G before one that *)
(* is neither of G nor of X.                                               *)
(***************************************************************************)
InFront(list, n, G, X) ==
  \A i, j \in 1 .. Len(list) :
    i < j /\ j <= n /\ list[i] \in G => list[j] \in G \cup X

(* Up to date in the stored index; in the one this session will save; in m's archive. *)
Current   == {c \in Convs : index[c] = time[c]}
Coming(s) == {c \in Convs : entries[s][c] = time[c] \/ Summary(c) \in Waiting(s)}
Archived(m) == {c \in Convs : archive[m][c] = time[c]}

(* How far a session's listing has come; all of the list when it is over. *)
Reach(s) == IF phase[s] = "list" THEN offset[s] ELSE Len(recent)

Sound ==
  /\ InFront(recent, Len(recent), Current, left \cup Hidden)
  /\ \A d \in Daily : fresh[d] =>
       InFront(recent, Reach(d), Coming(d), left \cup Hidden \cup dropped[d])
  /\ \A m \in Imports : InFront(recent, Len(recent), Archived(m), {})

ChatsInv == TypeInv /\ Past /\ (\A s \in Sessions : Ahead(s)) /\ Lone /\ Sound

-----------------------------------------------------------------------------
(* What a step leaves as it was for a session that does not take it. *)
Same(t) ==
  /\ phase'[t] = phase[t] /\ entries'[t] = entries[t] /\ offset'[t] = offset[t]
  /\ queue'[t] = queue[t] /\ again'[t] = again[t] /\ held'[t] = held[t]
  /\ dropped'[t] = dropped[t]
  /\ fresh'[t] => fresh[t]
  /\ t \in Imports => archive'[t] = archive[t] /\ pending'[t] = pending[t]

OthersSame(s) == \A t \in Sessions \ {s} : Same(t)

LEMMA DailyOrImport ==
  /\ Daily \subseteq Sessions /\ Imports \subseteq Sessions
  /\ \A s \in Sessions : s \in Daily \/ s \in Imports
  /\ \A s \in Daily : s \notin Imports
BY ChatsConstants DEF Sessions

(* A step of session s keeps a part of the invariant if it keeps it for s. *)
LEMMA KeepsTypes ==
  ASSUME TypeInv, NEW s \in Sessions, OthersSame(s), UNCHANGED upstreamVars,
         ChatsTypeOK', Memory(s)',
         s \in Daily => phase'[s] \notin {"upload", "done"},
         s \in Imports => phase'[s] \in {"idle", "upload", "done"}
  PROVE  TypeInv'
<1>1. Kinds'
  BY DailyOrImport DEF TypeInv, Kinds, OthersSame, Same
<1>2. ASSUME NEW t \in Sessions \ {s} PROVE Memory(t)'
  BY <1>2 DEF TypeInv, Memory, OthersSame, Same
<1>3. \A t \in Sessions : Memory(t)'
  BY <1>2
<1>4. /\ \A c \in Convs : time'[c] <= changes'
      /\ \A c \in Listed' : time'[c] > 0
  BY DEF TypeInv, upstreamVars, Listed
<1> QED
  BY <1>1, <1>3, <1>4 DEF TypeInv

LEMMA KeepsPast ==
  ASSUME Past, NEW s \in Sessions, OthersSame(s), UNCHANGED upstreamVars,
         NotNewer(s)',
         \A c \in Convs : index'[c] <= time[c] /\ body'[c] <= time[c],
         s \in Imports => \A c \in Convs : archive'[s][c] <= time[c]
  PROVE  Past'
<1>1. time' = time
  BY DEF upstreamVars
<1>2. ASSUME NEW t \in Sessions \ {s} PROVE NotNewer(t)'
  BY <1>1, <1>2 DEF Past, NotNewer, Waiting, OthersSame, Same
<1>3. \A t \in Sessions : NotNewer(t)'
  BY <1>2
<1>4. ASSUME NEW m \in Imports, NEW c \in Convs PROVE archive'[m][c] <= time'[c]
  BY <1>1, DailyOrImport DEF Past, OthersSame, Same
<1> QED
  BY <1>1, <1>3, <1>4 DEF Past

LEMMA KeepsAhead ==
  ASSUME \A t \in Sessions : Ahead(t), NEW s \in Sessions, OthersSame(s), index' = index,
         Ahead(s)'
  PROVE  \A t \in Sessions : Ahead(t)'
<1> SUFFICES ASSUME NEW t \in Sessions \ {s}, fresh'[t] PROVE Ahead(t)'
  BY DEF Ahead
<1>1. Ahead(t) /\ fresh[t]
  BY DEF OthersSame, Same
<1> QED
  BY <1>1 DEF Ahead, Waiting, OthersSame, Same

LEMMA NothingIsBacked ==
  ASSUME TypeInv, ChatsTypeOK', NEW t \in Daily, phase[t] = "idle", Same(t)
  PROVE  Backed(t)'
<1>1. t \in Sessions /\ entries'[t] = Nothing /\ phase'[t] = "idle"
  BY DailyOrImport DEF TypeInv, Memory, Same
<1>2. ASSUME NEW c \in Convs PROVE entries'[t][c] <= body'[c]
  <2>1. body'[c] \in Times
    BY DEF ChatsTypeOK
  <2> QED
    BY <1>1, <2>1, SMT DEF Nothing, Times
<1> QED
  BY <1>1, <1>2 DEF Backed, Storing

(* A daily run that is alone, or starts alone, answers for the archive. *)
LEMMA KeepsLoneDaily ==
  ASSUME TypeInv, ChatsTypeOK', Lone, NEW d \in Daily, OthersSame(d),
         phase[d] # "idle" \/ (alone' => \A t \in Daily \ {d} : phase[t] = "idle"),
         alone' => alone,
         alone => Backed(d)' /\ IndexIsBacked'
  PROVE  Lone'
<1> SUFFICES ASSUME alone' PROVE Lone'
  BY DEF Lone
<1>1. alone /\ d \in Sessions
  BY DailyOrImport
<1>2. \A m \in Imports : phase'[m] = "idle"
  BY <1>1, DailyOrImport DEF Lone, OthersSame, Same
<1>3. \A t \in Daily \ {d} : phase[t] = "idle" /\ phase'[t] = "idle"
  BY <1>1, DailyOrImport DEF Lone, OthersSame, Same
<1>4. ASSUME NEW t \in Daily \ {d} PROVE Backed(t)'
  <2>1. t \in Sessions \ {d}
    BY DailyOrImport
  <2>2. Same(t)
    BY <2>1 DEF OthersSame
  <2> QED
    BY <1>3, <2>2, NothingIsBacked
<1>5. \A t \in Daily : Backed(t)'
  BY <1>1, <1>4
<1>6. \A t, e \in Daily : phase'[t] # "idle" /\ phase'[e] # "idle" => t = e
  BY <1>3
<1>7. IndexIsBacked'
  BY <1>1
<1> QED
  BY <1>2, <1>5, <1>6, <1>7 DEF Lone

LEMMA InFrontGrows ==
  ASSUME NEW list, NEW n, NEW G, NEW X, NEW X2, InFront(list, n, G, X), X \subseteq X2
  PROVE  InFront(list, n, G, X2)
BY DEF InFront

LEMMA KeepsSound ==
  ASSUME Sound, NEW s \in Sessions, OthersSame(s), UNCHANGED upstreamVars, index' = index,
         left' = left,
         s \in Daily /\ fresh'[s] =>
           InFront(recent, Reach(s)', Coming(s)', left \cup Hidden \cup dropped'[s]),
         s \in Imports => InFront(recent, Len(recent), Archived(s)', {})
  PROVE  Sound'
<1>1. recent' = recent /\ time' = time
  BY DEF upstreamVars
<1>2. Current' = Current
  BY <1>1 DEF Current
<1>3. ASSUME NEW d \in Daily, fresh'[d]
      PROVE  InFront(recent, Reach(d)', Coming(d)', left \cup Hidden \cup dropped'[d])
  <2>1. CASE d = s
    BY <1>3, <2>1
  <2>2. CASE d # s
    <3>1. Same(d)
      BY <2>2, DailyOrImport DEF OthersSame
    <3>2. Reach(d)' = Reach(d) /\ Waiting(d)' = Waiting(d) /\ dropped'[d] = dropped[d] /\ fresh[d]
      BY <1>1, <1>3, <3>1 DEF Same, Reach, Waiting
    <3>3. Coming(d)' = Coming(d)
      BY <1>1, <3>1, <3>2 DEF Same, Coming, Summary
    <3> QED
      BY <3>2, <3>3 DEF Sound
  <2> QED
    BY <2>1, <2>2
<1>4. ASSUME NEW m \in Imports
      PROVE  InFront(recent, Len(recent), Archived(m)', {})
  <2>1. CASE m = s
    BY <2>1
  <2>2. CASE m # s
    <3>1. Archived(m)' = Archived(m)
      BY <1>1, <2>2, DailyOrImport DEF OthersSame, Same, Archived
    <3> QED
      BY <3>1 DEF Sound
  <2> QED
    BY <2>1, <2>2
<1> QED
  BY <1>1, <1>2, <1>3, <1>4 DEF Sound

(* The end of a session. *)
LEMMA NothingIsTyped == Nothing \in [Convs -> Times] /\ \A c \in Convs : Nothing[c] = 0
<1>1. 0 \in Times
  BY ChatsConstants, SMT DEF Times
<1> QED
  BY <1>1 DEF Nothing

LEMMA EndFacts ==
  ASSUME TypeInv, NEW s \in Sessions, End(s)
  PROVE  /\ phase' \in [Sessions -> Phases]
         /\ entries' \in [Sessions -> [Convs -> Times]]
         /\ offset' \in [Sessions -> Nat] /\ run' \in [Sessions -> 0 .. StopAfter - 1]
         /\ queue' \in [Sessions -> Seq(Summaries)] /\ again' \in [Sessions -> Seq(Summaries)]
         /\ held' \in [Sessions -> Times] /\ dropped' \in [Sessions -> SUBSET Convs]
         /\ archive' \in [Imports -> [Convs -> Times]] /\ pending' \in [Imports -> SUBSET Convs]
         /\ phase'[s] = IF s \in Daily THEN "idle" ELSE "done"
         /\ entries'[s] = Nothing /\ queue'[s] = <<>> /\ again'[s] = <<>>
         /\ offset'[s] = 0
         /\ s \in Imports => archive'[s] = Nothing
         /\ (\A t \in Sessions : fresh'[t] => fresh[t]) => OthersSame(s)
<1> USE DEF End
<1>1. 0 \in Times /\ 0 \in 0 .. StopAfter - 1 /\ <<>> \in Seq(Summaries)
  BY ChatsConstants, EmptySeq, SMT DEF Times
<1>2. /\ phase' \in [Sessions -> Phases]
      /\ phase'[s] = IF s \in Daily THEN "idle" ELSE "done"
      /\ \A t \in Sessions \ {s} : phase'[t] = phase[t]
  BY DEF TypeInv, ChatsTypeOK, Phases
<1>3. /\ entries' \in [Sessions -> [Convs -> Times]] /\ entries'[s] = Nothing
      /\ \A t \in Sessions \ {s} : entries'[t] = entries[t]
  BY NothingIsTyped DEF TypeInv, ChatsTypeOK
<1>4. /\ offset' \in [Sessions -> Nat] /\ offset'[s] = 0
      /\ \A t \in Sessions \ {s} : offset'[t] = offset[t]
      /\ run' \in [Sessions -> 0 .. StopAfter - 1]
  BY <1>1 DEF TypeInv, ChatsTypeOK
<1>5. /\ queue' \in [Sessions -> Seq(Summaries)] /\ queue'[s] = <<>>
      /\ \A t \in Sessions \ {s} : queue'[t] = queue[t]
  BY <1>1 DEF TypeInv, ChatsTypeOK
<1>6. /\ again' \in [Sessions -> Seq(Summaries)] /\ again'[s] = <<>>
      /\ \A t \in Sessions \ {s} : again'[t] = again[t]
  BY <1>1 DEF TypeInv, ChatsTypeOK
<1>7. /\ held' \in [Sessions -> Times] /\ \A t \in Sessions \ {s} : held'[t] = held[t]
  BY <1>1 DEF TypeInv, ChatsTypeOK
<1>8. /\ dropped' \in [Sessions -> SUBSET Convs]
      /\ \A t \in Sessions \ {s} : dropped'[t] = dropped[t]
  BY DEF TypeInv, ChatsTypeOK
<1>9. /\ archive' \in [Imports -> [Convs -> Times]] /\ (s \in Imports => archive'[s] = Nothing)
      /\ \A t \in Imports : t # s => archive'[t] = archive[t]
  BY NothingIsTyped DEF TypeInv, ChatsTypeOK
<1>10. /\ pending' \in [Imports -> SUBSET Convs]
       /\ \A t \in Imports : t # s => pending'[t] = pending[t]
  BY DEF TypeInv, ChatsTypeOK
<1>11. (\A t \in Sessions : fresh'[t] => fresh[t]) => OthersSame(s)
  BY <1>2, <1>3, <1>4, <1>5, <1>6, <1>7, <1>8, <1>9, <1>10 DEF OthersSame, Same
<1> QED
  BY <1>1, <1>2, <1>3, <1>4, <1>5, <1>6, <1>7, <1>8, <1>9, <1>10, <1>11

LEMMA ForgetFacts ==
  ASSUME TypeInv, NEW s \in Sessions, Forget(s)
  PROVE  /\ fresh' \in [Sessions -> BOOLEAN] /\ ~fresh'[s]
         /\ \A t \in Sessions : fresh'[t] => fresh[t]
BY DEF TypeInv, ChatsTypeOK, Forget

(* A session that has ended keeps what the invariant says of it. *)
LEMMA EndedIsKept ==
  ASSUME TypeInv, NEW s \in Sessions, End(s), UNCHANGED upstreamVars, ~fresh'[s]
  PROVE  /\ Memory(s)' /\ NotNewer(s)' /\ Ahead(s)'
         /\ s \in Daily => phase'[s] \notin {"upload", "done"}
         /\ s \in Imports => phase'[s] \in {"idle", "upload", "done"}
         /\ s \in Imports => \A c \in Convs : archive'[s][c] <= time[c]
         /\ s \in Imports => InFront(recent, Len(recent), Archived(s)', {})
<1>1. /\ phase'[s] = IF s \in Daily THEN "idle" ELSE "done"
      /\ entries'[s] = Nothing /\ queue'[s] = <<>> /\ again'[s] = <<>>
      /\ offset'[s] = 0
      /\ s \in Imports => archive'[s] = Nothing
  BY EndFacts
<1>2. time' = time /\ time \in [Convs -> Times] /\ recent \in Seq(Convs)
  BY DEF TypeInv, ChatsTypeOK, upstreamVars
<1>3. Waiting(s)' = {}
  BY <1>1, RangeOfEmpty DEF Waiting
<1>4. \A c \in Convs : Nothing[c] <= time[c]
  BY <1>2, NothingIsTyped, SMT DEF Times
<1>5. Memory(s)'
  BY <1>1 DEF Memory, Storing
<1>6. NotNewer(s)'
  BY <1>1, <1>2, <1>3, <1>4 DEF NotNewer, Storing
<1>7. Ahead(s)'
  BY DEF Ahead
<1>8. ASSUME s \in Imports PROVE InFront(recent, Len(recent), Archived(s)', {})
  <2> SUFFICES ASSUME NEW i \in 1 .. Len(recent) PROVE recent[i] \notin Archived(s)'
    BY DEF InFront
  <2>1. recent[i] \in Convs /\ recent[i] \in Listed
    BY <1>2, RangeOfList, ElementOfSeq DEF Listed
  <2>2. time[recent[i]] > 0 /\ time[recent[i]] \in Nat
    BY <1>2, <2>1 DEF TypeInv, Times
  <2> QED
    BY <1>1, <1>2, <1>8, <2>1, <2>2, NothingIsTyped DEF Archived
<1> QED
  BY <1>1, <1>4, <1>5, <1>6, <1>7, <1>8

-----------------------------------------------------------------------------
(* Each step of a session keeps the invariant. *)
LEMMA StartKeeps ==
  ASSUME ChatsInv, NEW d \in Daily, Start(d)
  PROVE  ChatsInv'
<1> USE DailyOrImport DEF Start
<1>1. /\ TypeInv /\ Memory(d) /\ d \in Sessions /\ d \notin Imports
      /\ UNCHANGED upstreamVars /\ index' = index /\ body' = body /\ left' = left
      /\ phase[d] = "idle"
  BY DEF ChatsInv, TypeInv, storeVars
<1>2. /\ phase'[d] = "list" /\ entries'[d] = index /\ fresh'[d]
      /\ queue'[d] = <<>> /\ again'[d] = <<>> /\ offset'[d] = 0
      /\ OthersSame(d)
  BY <1>1 DEF TypeInv, ChatsTypeOK, Memory, LoadIndex, OthersSame, Same
<1>3. ChatsTypeOK'
  BY <1>1 DEF TypeInv, ChatsTypeOK, Phases, LoadIndex, upstreamVars
<1>4. Waiting(d)' = {}
  BY <1>2, RangeOfEmpty DEF Waiting
<1>5. TypeInv'
  <2>1. Memory(d)'
    BY <1>2 DEF Memory, Storing
  <2> QED
    BY <1>1, <1>2, <1>3, <2>1, KeepsTypes
<1>6. Past'
  <2>1. NotNewer(d)'
    BY <1>1, <1>2, <1>4 DEF ChatsInv, Past, NotNewer, Storing, upstreamVars
  <2> QED
    BY <1>1, <1>2, <2>1, KeepsPast DEF ChatsInv, Past
<1>7. \A t \in Sessions : Ahead(t)'
  <2>1. Ahead(d)'
    <3>1. \A c \in Convs : index[c] \in Nat
      BY <1>1 DEF TypeInv, ChatsTypeOK, Times
    <3> QED
      BY <1>1, <1>2, <1>4, <3>1 DEF Ahead
  <2> QED
    BY <1>1, <1>2, <2>1, KeepsAhead DEF ChatsInv
<1>8. Lone'
  <2>1. alone' => alone /\ \A t \in Daily \ {d} : phase[t] = "idle"
    OBVIOUS
  <2>2. alone => Backed(d)' /\ IndexIsBacked'
    BY <1>1, <1>2 DEF ChatsInv, Lone, Backed, IndexIsBacked, Storing
  <2> QED
    BY <1>1, <1>2, <1>3, <2>1, <2>2, KeepsLoneDaily DEF ChatsInv
<1>9. Sound'
  <2>1. Reach(d)' = 0 /\ Len(recent) \in Nat
    BY <1>1, <1>2, LenProperties DEF Reach, TypeInv, ChatsTypeOK
  <2>2. InFront(recent, 0, Coming(d)', left \cup Hidden \cup dropped'[d])
    BY <2>1, SMT DEF InFront
  <2> QED
    BY <1>1, <1>2, <2>1, <2>2, KeepsSound DEF ChatsInv
<1> QED
  BY <1>5, <1>6, <1>7, <1>8, <1>9 DEF ChatsInv

(* A session that ends without having saved, whatever it last put. *)
LEMMA EndKeeps ==
  ASSUME ChatsInv, NEW s \in Sessions, End(s), Forget(s),
         UNCHANGED upstreamVars, index' = index, left' = left, alone' = alone,
         phase[s] \notin {"idle", "done"},
         faults' \in 0 .. MaxFaults, body' \in [Convs -> Times],
         \A c \in Convs : body'[c] <= time[c],
         alone => \A c \in Convs : body[c] <= body'[c]
  PROVE  ChatsInv'
<1> USE DailyOrImport
<1>1. TypeInv
  BY DEF ChatsInv
<1>2. OthersSame(s) /\ ~fresh'[s]
  BY <1>1, EndFacts, ForgetFacts
<1>3. ChatsTypeOK'
  BY <1>1, EndFacts, ForgetFacts DEF TypeInv, ChatsTypeOK, upstreamVars
<1>4. TypeInv'
  BY <1>1, <1>2, <1>3, EndedIsKept, KeepsTypes
<1>5. Past'
  BY <1>1, <1>2, EndedIsKept, KeepsPast DEF ChatsInv, Past
<1>6. \A t \in Sessions : Ahead(t)'
  BY <1>1, <1>2, EndedIsKept, KeepsAhead DEF ChatsInv
<1>7. Lone'
  <2>1. CASE s \in Imports
    BY <2>1 DEF ChatsInv, Lone
  <2>2. CASE s \in Daily
    <3>1. ASSUME alone PROVE Backed(s)'
      BY <1>1, <1>3, <2>2, EndFacts, NothingIsTyped, SMT
         DEF Backed, Storing, ChatsTypeOK, Times
    <3>2. ASSUME alone PROVE IndexIsBacked'
      <4> SUFFICES ASSUME NEW c \in Convs PROVE index[c] <= body'[c]
        BY DEF IndexIsBacked
      <4>1. index[c] \in Nat /\ body[c] \in Nat /\ body'[c] \in Nat
        BY <1>1 DEF TypeInv, ChatsTypeOK, Times
      <4>2. index[c] <= body[c] /\ body[c] <= body'[c]
        BY <3>2 DEF ChatsInv, Lone, IndexIsBacked
      <4> QED
        BY <4>1, <4>2, SMT
    <3> QED
      BY <1>1, <1>2, <1>3, <2>2, <3>1, <3>2, KeepsLoneDaily DEF ChatsInv
  <2> QED
    BY <2>1, <2>2
<1>8. Sound'
  BY <1>1, <1>2, EndedIsKept, KeepsSound DEF ChatsInv
<1> QED
  BY <1>4, <1>5, <1>6, <1>7, <1>8 DEF ChatsInv

LEMMA Ages ==
  ASSUME TypeInv
  PROVE  /\ \A c \in Convs : time[c] \in Nat /\ index[c] \in Nat /\ body[c] \in Nat
         /\ \A s \in Sessions, c \in Convs : entries[s][c] \in Nat
         /\ \A m \in Imports, c \in Convs : archive[m][c] \in Nat
         /\ \A s \in Sessions : held[s] \in Nat
BY DEF TypeInv, ChatsTypeOK, Times

LEMMA EndUnstored ==
  ASSUME ChatsInv, NEW s \in Sessions, End(s), Forget(s),
         UNCHANGED <<upstreamVars, faults, storeVars, left, alone>>,
         phase[s] \notin {"idle", "done"}
  PROVE  ChatsInv'
<1>1. /\ TypeInv /\ faults' \in 0 .. MaxFaults /\ body' = body /\ body \in [Convs -> Times]
      /\ UNCHANGED upstreamVars /\ index' = index
  BY DEF ChatsInv, TypeInv, ChatsTypeOK, storeVars
<1>2. \A c \in Convs : body'[c] <= time[c] /\ body[c] <= body'[c]
  BY <1>1, Ages, SMT DEF ChatsInv, Past
<1> QED
  BY <1>1, <1>2, EndKeeps

LEMMA SaveIndexRefusedKeeps ==
  ASSUME ChatsInv, NEW s \in Sessions, SaveIndexRefused(s)
  PROVE  ChatsInv'
<1>1. phase[s] \notin {"idle", "done"}
  BY DEF SaveIndexRefused, Finished
<1> QED
  BY <1>1, EndUnstored DEF SaveIndexRefused

LEMMA AbortKeeps ==
  ASSUME ChatsInv, NEW s \in Sessions, Abort(s)
  PROVE  ChatsInv'
<1> USE DailyOrImport
<1>1. /\ TypeInv /\ End(s) /\ Forget(s) /\ phase[s] \notin {"idle", "done"}
      /\ UNCHANGED upstreamVars /\ index' = index /\ left' = left /\ alone' = alone
      /\ body \in [Convs -> Times]
  BY DEF ChatsInv, Abort, TypeInv, ChatsTypeOK
<1>2. faults' \in 0 .. MaxFaults
  BY <1>1, ChatsConstants DEF Abort, Fault, TypeInv, ChatsTypeOK
<1>3. CASE body' = body
  BY <1>1, <1>2, <1>3, Ages, EndKeeps DEF ChatsInv, Past
<1>4. CASE phase[s] \in Storing /\ body' = [body EXCEPT ![Head(queue[s]).id] = held[s]]
  <2> DEFINE c == Head(queue[s]).id
  <2>1. s \in Daily /\ c \in Convs /\ held[s] \in Times
    <3>1. queue[s] \in Seq(Summaries) /\ queue[s] # <<>>
      BY <1>1, <1>4 DEF TypeInv, ChatsTypeOK, Memory
    <3>2. Head(queue[s]) \in Summaries
      BY <3>1, HeadTailProperties
    <3> QED
      BY <1>1, <1>4, <3>2 DEF TypeInv, ChatsTypeOK, Kinds, Storing, Summaries
  <2>2. held[s] <= time[c]
    BY <1>4 DEF ChatsInv, Past, NotNewer
  <2>3. alone => body[c] <= held[s]
    BY <1>4, <2>1 DEF ChatsInv, Lone, Backed
  <2> HIDE DEF c
  <2>4. body' = [body EXCEPT ![c] = held[s]]
    BY <1>4 DEF c
  <2>5. body' \in [Convs -> Times]
    BY <1>1, <2>1, <2>4
  <2>6. \A e \in Convs : body'[e] <= time[e] /\ (alone => body[e] <= body'[e])
    BY <1>1, <2>1, <2>2, <2>3, <2>4, Ages, SMT DEF ChatsInv, Past
  <2> QED
    BY <1>1, <1>2, <2>5, <2>6, EndKeeps
<1>5. CASE \E landed \in (IF phase[s] = "upload" THEN SUBSET pending[s] ELSE {}) :
             body' = [c \in Convs |-> IF c \in landed THEN archive[s][c] ELSE body[c]]
  <2>1. PICK landed \in (IF phase[s] = "upload" THEN SUBSET pending[s] ELSE {}) :
          body' = [c \in Convs |-> IF c \in landed THEN archive[s][c] ELSE body[c]]
    BY <1>5
  <2>2. phase[s] = "upload"
    BY <2>1
  <2>3. s \in Imports /\ ~alone
    BY <1>1, <2>2 DEF ChatsInv, TypeInv, Kinds, Lone
  <2>4. archive[s] \in [Convs -> Times]
    BY <1>1, <2>3 DEF TypeInv, ChatsTypeOK
  <2>5. body' \in [Convs -> Times] /\ \A c \in Convs : body'[c] <= time[c]
    BY <1>1, <2>1, <2>3, <2>4 DEF ChatsInv, Past
  <2> QED
    BY <1>1, <1>2, <2>3, <2>5, EndKeeps
<1> QED
  BY <1>3, <1>4, <1>5 DEF Abort

LEMMA InFrontShrinks ==
  ASSUME NEW list \in Seq(Convs), NEW n, NEW G, NEW X, NEW G2, NEW X2,
         InFront(list, n, G, X), G2 \subseteq G, X \subseteq X2,
         \A e \in G \ G2 : e \in Range(list) => e \in X2
  PROVE  InFront(list, n, G2, X2)
<1>1. \A i \in 1 .. Len(list) : list[i] \in Range(list)
  BY RangeOfList
<1> QED
  BY <1>1 DEF InFront

LEMMA QueueFacts ==
  ASSUME TypeInv, NEW s \in Sessions, queue[s] # <<>>
  PROVE  /\ Head(queue[s]) \in Summaries
         /\ Head(queue[s]).id \in Convs /\ Head(queue[s]).update_time \in Times
         /\ Head(queue[s]).update_time \in Nat
         /\ Tail(queue[s]) \in Seq(Summaries)
         /\ Range(queue[s]) = {Head(queue[s])} \cup Range(Tail(queue[s]))
         /\ Head(queue[s]) \in Waiting(s)
<1>1. queue[s] \in Seq(Summaries)
  BY DEF TypeInv, ChatsTypeOK
<1>2. Head(queue[s]) \in Summaries /\ Tail(queue[s]) \in Seq(Summaries)
  BY <1>1, HeadTailProperties
<1>3. Range(queue[s]) = {Head(queue[s])} \cup Range(Tail(queue[s]))
  BY <1>1, RangeOfTail
<1> QED
  BY <1>2, <1>3 DEF Summaries, Times, Waiting

(***************************************************************************)
(* The steps of a daily run between its listing and its save: it takes     *)
(* summaries off its queue, enters them or gives them up.                  *)
(***************************************************************************)
Fetching == {"fetch", "refetch"} \cup Storing

LEMMA FetchingKeeps ==
  ASSUME ChatsInv, NEW d \in Daily, OthersSame(d), ChatsTypeOK',
         UNCHANGED upstreamVars, index' = index, left' = left, alone' = alone,
         phase[d] \in Fetching, phase'[d] \in Fetching,
         fresh' = fresh, offset' = offset, Memory(d)', Waiting(d)' \subseteq Waiting(d),
         \A c \in Convs :
           \/ entries'[d][c] = entries[d][c]
           \/ \E w \in Waiting(d) : w.id = c /\ entries'[d][c] = w.update_time,
         phase'[d] \in Storing => held'[d] <= time[Head(queue'[d]).id],
         \A c \in Convs : body'[c] <= time[c],
         alone => Backed(d)' /\ \A c \in Convs : body[c] <= body'[c],
         Coming(d)' \subseteq Coming(d), dropped[d] \subseteq dropped'[d],
         \A e \in Coming(d) \ Coming(d)' : e \in Listed => e \in Hidden \cup dropped'[d]
  PROVE  ChatsInv'
<1> USE DailyOrImport
<1>1. /\ TypeInv /\ d \in Sessions /\ d \notin Imports /\ recent \in Seq(Convs)
      /\ phase[d] \notin {"idle", "list", "upload", "done"}
      /\ phase'[d] \notin {"idle", "list", "upload", "done"}
      /\ recent' = recent /\ time' = time
  BY DEF ChatsInv, TypeInv, ChatsTypeOK, Fetching, Storing, upstreamVars
<1>2. TypeInv'
  BY <1>1, KeepsTypes
<1>3. Past'
  <2>1. \A w \in Waiting(d) : w.update_time <= time[w.id]
    BY <1>1 DEF ChatsInv, Past, NotNewer
  <2>2. \A c \in Convs : entries[d][c] <= time[c] /\ index[c] <= time[c]
    BY <1>1 DEF ChatsInv, Past, NotNewer
  <2>3. NotNewer(d)'
    BY <1>1, <2>1, <2>2 DEF NotNewer
  <2> QED
    BY <1>1, <2>2, <2>3, KeepsPast DEF ChatsInv
<1>4. \A t \in Sessions : Ahead(t)'
  <2>1. Ahead(d)'
    <3> SUFFICES ASSUME fresh[d] PROVE Ahead(d)'
      BY DEF Ahead
    <3>1. /\ \A c \in Convs : index[c] <= entries[d][c]
          /\ \A w \in Waiting(d) : index[w.id] <= w.update_time
      BY <1>1 DEF ChatsInv, Ahead
    <3> QED
      BY <1>1, <3>1 DEF Ahead
  <2> QED
    BY <1>1, <2>1, KeepsAhead DEF ChatsInv
<1>5. Lone'
  <2>1. ASSUME alone PROVE IndexIsBacked'
    <3> SUFFICES ASSUME NEW c \in Convs PROVE index[c] <= body'[c]
      BY DEF IndexIsBacked
    <3>1. index[c] \in Nat /\ body[c] \in Nat /\ body'[c] \in Nat
      BY <1>1 DEF TypeInv, ChatsTypeOK, Times
    <3>2. index[c] <= body[c] /\ body[c] <= body'[c]
      BY <2>1 DEF ChatsInv, Lone, IndexIsBacked
    <3> QED
      BY <3>1, <3>2, SMT
  <2> QED
    BY <1>1, <2>1, KeepsLoneDaily DEF ChatsInv
<1>6. Sound'
  <2>1. Reach(d)' = Reach(d)
    BY <1>1 DEF Reach
  <2>2. ASSUME fresh[d]
        PROVE  InFront(recent, Reach(d)', Coming(d)', left \cup Hidden \cup dropped'[d])
    <3>1. InFront(recent, Reach(d), Coming(d), left \cup Hidden \cup dropped[d])
      BY <1>1, <2>2 DEF ChatsInv, Sound
    <3> QED
      BY <1>1, <2>1, <3>1, InFrontShrinks DEF Listed
  <2> QED
    BY <1>1, <2>2, KeepsSound DEF ChatsInv
<1> QED
  BY <1>2, <1>3, <1>4, <1>5, <1>6 DEF ChatsInv

LEMMA FetchKeeps ==
  ASSUME ChatsInv, NEW d \in Daily, Fetch(d)
  PROVE  ChatsInv'
<1> USE DailyOrImport
<1> DEFINE c == Head(queue[d]).id
<1>1. /\ TypeInv /\ Memory(d) /\ d \in Sessions /\ d \notin Imports
      /\ phase[d] \in {"fetch", "refetch"} /\ queue[d] # <<>>
      /\ UNCHANGED upstreamVars /\ index' = index /\ body' = body /\ left' = left /\ alone' = alone
      /\ entries' = entries /\ fresh' = fresh /\ offset' = offset /\ again' = again
      /\ archive' = archive /\ pending' = pending /\ dropped' = dropped
      /\ recent' = recent /\ time' = time /\ faults' = faults /\ run' = run
      /\ changes' = changes
  BY DEF ChatsInv, TypeInv, Fetch, storeVars, upstreamVars
<1>2. /\ c \in Convs /\ Tail(queue[d]) \in Seq(Summaries)
      /\ Range(queue[d]) = {Head(queue[d])} \cup Range(Tail(queue[d]))
      /\ Head(queue[d]) \in Waiting(d) /\ Head(queue[d]) \in Summaries
  BY <1>1, QueueFacts
<1>3. \A e \in Convs : body'[e] <= time[e] /\ body[e] <= body'[e]
  BY <1>1, Ages DEF ChatsInv, Past
<1>4. CASE /\ held' = [held EXCEPT ![d] = time[c]]
           /\ phase' = [phase EXCEPT ![d] = IF @ = "fetch" THEN "put" ELSE "reput"]
           /\ queue' = queue
  <2>1. /\ held'[d] = time[c] /\ queue'[d] = queue[d]
        /\ phase'[d] = IF phase[d] = "fetch" THEN "put" ELSE "reput"
        /\ OthersSame(d)
    BY <1>1, <1>4 DEF TypeInv, ChatsTypeOK, OthersSame, Same
  <2>2. ChatsTypeOK'
    BY <1>1, <1>2, <1>4 DEF TypeInv, ChatsTypeOK, Phases, Storing
  <2>3. Waiting(d)' = Waiting(d)
    BY <1>1, <1>4 DEF Waiting
  <2>4. Coming(d)' = Coming(d)
    BY <1>1, <2>3 DEF Coming, Summary
  <2>5. Memory(d)'
    BY <1>1, <2>1 DEF Memory, Storing
  <2>6. ASSUME alone PROVE Backed(d)'
    <3>1. \A e \in Convs : entries[d][e] <= body[e]
      BY <2>6 DEF ChatsInv, Lone, Backed
    <3>2. Head(queue[d]).update_time <= time[c]
      BY <1>1, <1>2 DEF ChatsInv, Past, NotNewer
    <3>3. body[c] <= time[c]
      BY <1>1, <1>2, <1>3
    <3> QED
      BY <1>1, <2>1, <3>1, <3>2, <3>3 DEF Backed
  <2>7. held'[d] <= time[c]
    BY <1>1, <1>2, <2>1, Ages
  <2> QED
    BY <1>1, <1>3, <2>1, <2>2, <2>3, <2>4, <2>5, <2>6, <2>7, FetchingKeeps
       DEF Fetching, Storing
<1>5. CASE /\ c \notin Listed \ Hidden
           /\ queue' = [queue EXCEPT ![d] = Tail(@)] /\ held' = held /\ phase' = phase
  <2>1. queue'[d] = Tail(queue[d]) /\ OthersSame(d)
    BY <1>1, <1>5 DEF TypeInv, ChatsTypeOK, OthersSame, Same
  <2>2. ChatsTypeOK'
    BY <1>1, <1>2, <1>5 DEF TypeInv, ChatsTypeOK
  <2>3. Waiting(d)' \subseteq Waiting(d) /\ Waiting(d) \subseteq Waiting(d)' \cup {Head(queue[d])}
    BY <1>1, <1>2, <2>1 DEF Waiting
  <2>4. Coming(d)' \subseteq Coming(d) /\ \A e \in Coming(d) \ Coming(d)' : e = c
    <3>1. \A e \in Convs : Summary(e)' = Summary(e) /\ Summary(e).id = e
      BY <1>1 DEF Summary
    <3> QED
      BY <1>1, <2>3, <3>1 DEF Coming
  <2>5. Memory(d)'
    BY <1>1, <1>5, <2>1 DEF Memory, Storing
  <2>6. ASSUME alone PROVE Backed(d)'
    BY <1>1, <1>5, <2>6 DEF ChatsInv, Lone, Backed, Storing
  <2> HIDE DEF c
  <2> QED
    BY <1>1, <1>3, <1>5, <2>1, <2>2, <2>3, <2>4, <2>5, <2>6, FetchingKeeps
       DEF Fetching, Storing
<1> QED
  BY <1>1, <1>4, <1>5 DEF Fetch, Pop

LEMMA FetchFailsKeeps ==
  ASSUME ChatsInv, NEW d \in Daily, FetchFails(d)
  PROVE  ChatsInv'
<1> USE DailyOrImport
<1> DEFINE w == Head(queue[d])
<1>1. /\ TypeInv /\ Memory(d) /\ d \in Sessions /\ d \notin Imports
      /\ phase[d] \in {"fetch", "refetch"} /\ queue[d] # <<>>
      /\ UNCHANGED upstreamVars /\ index' = index /\ body' = body /\ left' = left /\ alone' = alone
      /\ entries' = entries /\ fresh' = fresh /\ offset' = offset /\ held' = held
      /\ archive' = archive /\ pending' = pending /\ phase' = phase /\ run' = run
      /\ recent' = recent /\ time' = time /\ changes' = changes
      /\ queue' = [queue EXCEPT ![d] = Tail(@)]
  BY DEF ChatsInv, TypeInv, FetchFails, Pop, storeVars, upstreamVars
<1>2. /\ w \in Summaries /\ w.id \in Convs /\ Tail(queue[d]) \in Seq(Summaries)
      /\ Range(queue[d]) = {w} \cup Range(Tail(queue[d]))
      /\ queue \in [Sessions -> Seq(Summaries)] /\ again \in [Sessions -> Seq(Summaries)]
      /\ dropped \in [Sessions -> SUBSET Convs]
  BY <1>1, QueueFacts DEF TypeInv, ChatsTypeOK
<1>3. faults' \in 0 .. MaxFaults
  BY <1>1, ChatsConstants DEF FetchFails, Fault, TypeInv, ChatsTypeOK
<1>4. \A e \in Convs : body'[e] <= time[e] /\ body[e] <= body'[e]
  BY <1>1, Ages DEF ChatsInv, Past
<1>5. ASSUME alone PROVE Backed(d)'
  BY <1>1, <1>5 DEF ChatsInv, Lone, Backed, Storing
<1>6. queue'[d] = Tail(queue[d]) /\ queue' \in [Sessions -> Seq(Summaries)]
  BY <1>1, <1>2
<1> HIDE DEF w
<1>7. CASE phase[d] = "fetch" /\ again' = [again EXCEPT ![d] = Append(@, w)] /\ dropped' = dropped
  <2>1. again'[d] = Append(again[d], w) /\ again[d] \in Seq(Summaries) /\ OthersSame(d)
    BY <1>1, <1>2, <1>7 DEF OthersSame, Same
  <2>2. again' \in [Sessions -> Seq(Summaries)] /\ Range(again'[d]) = Range(again[d]) \cup {w}
    <3>1. Append(again[d], w) \in Seq(Summaries)
      BY <1>2, <2>1, AppendProperties
    <3>2. Range(Append(again[d], w)) = Range(again[d]) \cup {w}
      BY <1>2, <2>1, RangeOfAppend
    <3> QED
      BY <1>2, <1>7, <2>1, <3>1, <3>2
  <2>3. ChatsTypeOK'
    BY <1>1, <1>3, <1>6, <1>7, <2>2 DEF TypeInv, ChatsTypeOK
  <2>4. Waiting(d)' = Waiting(d)
    BY <1>2, <1>6, <2>2 DEF Waiting
  <2>5. Coming(d)' = Coming(d)
    BY <1>1, <2>4 DEF Coming, Summary
  <2>6. Memory(d)'
    BY <1>1, <1>7 DEF Memory, Storing
  <2> QED
    BY <1>1, <1>4, <1>5, <1>7, <2>1, <2>3, <2>4, <2>5, <2>6, FetchingKeeps DEF Fetching, Storing
<1>8. CASE /\ phase[d] = "refetch" /\ again' = again
           /\ dropped' = [dropped EXCEPT ![d] = @ \cup {w.id}]
  <2>1. dropped'[d] = dropped[d] \cup {w.id} /\ OthersSame(d)
    BY <1>1, <1>2, <1>8 DEF OthersSame, Same
  <2>2. ChatsTypeOK'
    <3>1. dropped' \in [Sessions -> SUBSET Convs]
      BY <1>2, <1>8
    <3> QED
      BY <1>1, <1>3, <1>6, <1>8, <3>1 DEF TypeInv, ChatsTypeOK
  <2>3. Waiting(d)' \subseteq Waiting(d) /\ Waiting(d) \subseteq Waiting(d)' \cup {w}
    BY <1>2, <1>6, <1>8 DEF Waiting
  <2>4. Coming(d)' \subseteq Coming(d) /\ \A e \in Coming(d) \ Coming(d)' : e = w.id
    <3>1. \A e \in Convs : Summary(e)' = Summary(e) /\ Summary(e).id = e
      BY <1>1 DEF Summary
    <3> QED
      BY <1>1, <2>3, <3>1 DEF Coming
  <2>5. Memory(d)'
    BY <1>1, <1>8 DEF Memory, Storing
  <2> QED
    BY <1>1, <1>4, <1>5, <1>8, <2>1, <2>2, <2>3, <2>4, <2>5, FetchingKeeps DEF Fetching, Storing
<1> QED
  BY <1>1, <1>7, <1>8 DEF FetchFails, w

LEMMA StoreConversationKeeps ==
  ASSUME ChatsInv, NEW d \in Daily, StoreConversation(d)
  PROVE  ChatsInv'
<1> USE DailyOrImport
<1> DEFINE w == Head(queue[d])
           c == w.id
           u == w.update_time
           older == u < entries[d][c]
<1>1. /\ TypeInv /\ Memory(d) /\ d \in Sessions /\ d \notin Imports
      /\ phase[d] \in Storing /\ queue[d] # <<>>
      /\ UNCHANGED upstreamVars /\ index' = index /\ left' = left /\ alone' = alone
      /\ fresh' = fresh /\ offset' = offset /\ again' = again
      /\ archive' = archive /\ pending' = pending /\ run' = run /\ faults' = faults
      /\ recent' = recent /\ time' = time /\ changes' = changes
  BY DEF ChatsInv, TypeInv, Memory, StoreConversation, upstreamVars
<1>2. /\ queue' = [queue EXCEPT ![d] = Tail(@)]
      /\ body' = [body EXCEPT ![c] = held[d]]
      /\ entries' = [entries EXCEPT ![d][c] = u]
      /\ dropped' = [dropped EXCEPT ![d] = IF older THEN @ \cup {c} ELSE @]
      /\ phase' = [phase EXCEPT ![d] = IF @ = "put" THEN "fetch" ELSE "refetch"]
      /\ held' = [held EXCEPT ![d] = 0]
  BY DEF StoreConversation, Pop
<1>3. /\ w \in Summaries /\ c \in Convs /\ u \in Times /\ u \in Nat
      /\ Tail(queue[d]) \in Seq(Summaries) /\ w \in Waiting(d)
      /\ Range(queue[d]) = {w} \cup Range(Tail(queue[d]))
  BY <1>1, QueueFacts
<1>4. w = [id |-> c, update_time |-> u]
  BY <1>3 DEF Summaries
<1> HIDE DEF w, c, u
<1>5. /\ queue'[d] = Tail(queue[d]) /\ held'[d] = 0
      /\ phase'[d] = IF phase[d] = "put" THEN "fetch" ELSE "refetch"
      /\ dropped'[d] = IF older THEN dropped[d] \cup {c} ELSE dropped[d]
      /\ OthersSame(d)
  BY <1>1, <1>2 DEF TypeInv, ChatsTypeOK, OthersSame, Same
<1>6. \A e \in Convs : /\ entries'[d][e] = IF e = c THEN u ELSE entries[d][e]
                       /\ body'[e] = IF e = c THEN held[d] ELSE body[e]
  BY <1>1, <1>2, <1>3 DEF TypeInv, ChatsTypeOK
<1>7. ChatsTypeOK'
  <2>1. phase' \in [Sessions -> Phases] /\ queue' \in [Sessions -> Seq(Summaries)]
    BY <1>1, <1>2, <1>3 DEF TypeInv, ChatsTypeOK, Phases
  <2>2. entries' \in [Sessions -> [Convs -> Times]]
    BY <1>1, <1>2, <1>3 DEF TypeInv, ChatsTypeOK
  <2>3. body' \in [Convs -> Times] /\ held' \in [Sessions -> Times]
    <3>1. 0 \in Times
      BY NothingIsTyped, ChatsConstants, SMT DEF Times
    <3> QED
      BY <1>1, <1>2, <1>3, <3>1 DEF TypeInv, ChatsTypeOK
  <2>4. dropped' \in [Sessions -> SUBSET Convs]
    BY <1>1, <1>2, <1>3 DEF TypeInv, ChatsTypeOK
  <2> QED
    BY <1>1, <2>1, <2>2, <2>3, <2>4 DEF TypeInv, ChatsTypeOK
<1>8. Memory(d)'
  BY <1>1, <1>5 DEF Memory, Storing
<1>9. Waiting(d)' \subseteq Waiting(d) /\ Waiting(d) \subseteq Waiting(d)' \cup {w}
  BY <1>1, <1>3, <1>5 DEF Waiting
<1>10. /\ held[d] <= time[c] /\ u <= time[c] /\ held[d] \in Nat /\ time[c] \in Nat
       /\ entries[d][c] \in Nat /\ \A e \in Convs : body[e] <= time[e]
  BY <1>1, <1>3, Ages DEF ChatsInv, Past, NotNewer, w, c, u
<1>11. ASSUME alone
       PROVE  Backed(d)' /\ \A e \in Convs : body[e] <= body'[e]
  <2>1. /\ u <= held[d] /\ body[c] <= held[d]
        /\ \A e \in Convs : entries[d][e] <= body[e]
    BY <1>1, <1>11 DEF ChatsInv, Lone, Backed, w, c, u
  <2>2. phase'[d] \notin Storing
    BY <1>5 DEF Storing
  <2> QED
    BY <1>1, <1>6, <2>1, <2>2, Ages DEF Backed
<1>12. /\ Coming(d)' \subseteq Coming(d)
       /\ \A e \in Coming(d) \ Coming(d)' : e \in dropped'[d]
  <2>1. \A e \in Convs : Summary(e)' = Summary(e) /\ (Summary(e) = w <=> e = c /\ u = time[e])
    BY <1>1, <1>4, Zenon DEF Summary
  <2>2. ASSUME NEW e \in Coming(d)' PROVE e \in Coming(d)
    BY <1>1, <1>3, <1>6, <1>9, <2>1, <2>2 DEF Coming
  <2>3. ASSUME NEW e \in Coming(d) \ Coming(d)' PROVE e \in dropped'[d]
    <3>1. Summary(e) \notin Waiting(d)' /\ entries'[d][e] # time[e] /\ e \in Convs
      BY <1>1, <2>1 DEF Coming
    <3>2. e = c /\ u # time[c] /\ entries[d][c] = time[c]
      BY <1>6, <1>9, <2>1, <3>1 DEF Coming
    <3>3. older
      BY <1>3, <1>10, <3>2, SMT
    <3> QED
      BY <1>5, <3>2, <3>3
  <2> QED
    BY <2>2, <2>3
<1>13. \A e \in Convs : body'[e] <= time[e]
  BY <1>6, <1>10
<1>14. \A e \in Convs : \/ entries'[d][e] = entries[d][e]
                        \/ \E v \in Waiting(d) : v.id = e /\ entries'[d][e] = v.update_time
  BY <1>3, <1>6 DEF c, u
<1>15. phase[d] \in Fetching /\ phase'[d] \in Fetching /\ phase'[d] \notin Storing
  BY <1>1, <1>5 DEF Fetching, Storing
<1> QED
  BY <1>1, <1>5, <1>7, <1>8, <1>9, <1>11, <1>12, <1>13, <1>14, <1>15, FetchingKeeps

LEMMA SweepKeeps ==
  ASSUME ChatsInv, NEW d \in Daily, Sweep(d)
  PROVE  ChatsInv'
<1> USE DailyOrImport
<1>1. /\ TypeInv /\ Memory(d) /\ d \in Sessions /\ d \notin Imports
      /\ phase[d] = "fetch" /\ queue[d] = <<>>
      /\ UNCHANGED upstreamVars /\ index' = index /\ body' = body /\ left' = left /\ alone' = alone
      /\ entries' = entries /\ fresh' = fresh /\ offset' = offset /\ held' = held
      /\ archive' = archive /\ pending' = pending /\ run' = run /\ faults' = faults
      /\ recent' = recent /\ time' = time /\ changes' = changes /\ dropped' = dropped
  BY DEF ChatsInv, TypeInv, Sweep, storeVars, upstreamVars
<1>2. /\ phase'[d] = "refetch" /\ queue'[d] = again[d] /\ again'[d] = <<>> /\ OthersSame(d)
  BY <1>1 DEF TypeInv, ChatsTypeOK, Sweep, OthersSame, Same
<1>3. ChatsTypeOK'
  <2>1. <<>> \in Seq(Summaries)
    BY EmptySeq
  <2> QED
    BY <1>1, <2>1 DEF TypeInv, ChatsTypeOK, Sweep, Phases
<1>4. Waiting(d)' = Waiting(d)
  BY <1>1, <1>2 DEF Waiting
<1>5. Coming(d)' = Coming(d)
  BY <1>1, <1>4 DEF Coming, Summary
<1>6. Memory(d)'
  BY <1>1, <1>2 DEF Memory, Storing
<1>7. ASSUME alone PROVE Backed(d)'
  BY <1>1, <1>2, <1>7 DEF ChatsInv, Lone, Backed, Storing
<1>8. \A e \in Convs : body'[e] <= time[e] /\ body[e] <= body'[e]
  BY <1>1, Ages DEF ChatsInv, Past
<1> QED
  BY <1>1, <1>2, <1>3, <1>4, <1>5, <1>6, <1>7, <1>8, FetchingKeeps DEF Fetching, Storing

LEMMA ExportKeeps ==
  ASSUME ChatsInv, NEW m \in Imports, Export(m)
  PROVE  ChatsInv'
<1> USE DailyOrImport
<1>1. /\ TypeInv /\ Memory(m) /\ m \in Sessions /\ m \notin Daily /\ phase[m] = "idle"
      /\ archive' = [archive EXCEPT ![m] = [c \in Convs |-> IF c \in Listed THEN time[c] ELSE 0]]
      /\ UNCHANGED upstreamVars /\ index' = index /\ body' = body /\ left' = left /\ alone' = alone
      /\ entries' = entries /\ fresh' = fresh /\ offset' = offset /\ held' = held
      /\ pending' = pending /\ run' = run /\ faults' = faults /\ phase' = phase
      /\ queue' = queue /\ again' = again /\ dropped' = dropped
      /\ recent' = recent /\ time' = time /\ changes' = changes
  BY DEF ChatsInv, TypeInv, Export, storeVars, upstreamVars
<1>2. OthersSame(m)
  BY <1>1 DEF TypeInv, ChatsTypeOK, OthersSame, Same
<1>3. \A c \in Convs : archive'[m][c] = IF c \in Listed THEN time[c] ELSE 0
  BY <1>1 DEF TypeInv, ChatsTypeOK
<1>4. ChatsTypeOK'
  <2>1. [c \in Convs |-> IF c \in Listed THEN time[c] ELSE 0] \in [Convs -> Times]
    BY <1>1, NothingIsTyped, ChatsConstants, SMT DEF TypeInv, ChatsTypeOK, Times
  <2>2. archive' \in [Imports -> [Convs -> Times]]
    BY <1>1, <2>1 DEF TypeInv, ChatsTypeOK
  <2> QED
    BY <1>1, <2>2 DEF TypeInv, ChatsTypeOK
<1>5. TypeInv'
  <2>1. Memory(m)'
    BY <1>1 DEF Memory
  <2> QED
    BY <1>1, <1>2, <1>4, <2>1, KeepsTypes
<1>6. Past'
  <2>1. NotNewer(m)'
    BY <1>1 DEF ChatsInv, Past, NotNewer, Waiting
  <2>2. \A c \in Convs : archive'[m][c] <= time[c]
    BY <1>1, <1>3, Ages, SMT
  <2> QED
    BY <1>1, <1>2, <2>1, <2>2, KeepsPast DEF ChatsInv, Past
<1>7. \A t \in Sessions : Ahead(t)'
  <2>1. Ahead(m)'
    BY <1>1 DEF Memory, Ahead
  <2> QED
    BY <1>1, <1>2, <2>1, KeepsAhead DEF ChatsInv
<1>8. Lone'
  BY <1>1 DEF ChatsInv, Lone, Backed, IndexIsBacked
<1>9. Sound'
  <2>1. \A i \in 1 .. Len(recent) : recent[i] \in Listed /\ recent[i] \in Convs
    BY <1>1, RangeOfList DEF TypeInv, ChatsTypeOK, Listed
  <2>2. InFront(recent, Len(recent), Archived(m)', {})
    BY <1>1, <1>3, <2>1 DEF InFront, Archived
  <2> QED
    BY <1>1, <1>2, <2>2, KeepsSound DEF ChatsInv
<1> QED
  BY <1>5, <1>6, <1>7, <1>8, <1>9 DEF ChatsInv

(* The steps of an import from its load to its save. *)
LEMMA ImportingKeeps ==
  ASSUME ChatsInv, NEW m \in Imports, OthersSame(m), ChatsTypeOK',
         UNCHANGED upstreamVars, index' = index, left' = left,
         alone' => alone /\ phase[m] = "upload",
         phase[m] \in {"idle", "upload"}, phase'[m] = "upload",
         queue' = queue, again' = again, offset' = offset, archive' = archive,
         \A c \in Convs : entries'[m][c] <= time[c] /\ body'[c] <= time[c],
         Ahead(m)'
  PROVE  ChatsInv'
<1> USE DailyOrImport
<1>1. /\ TypeInv /\ Memory(m) /\ m \in Sessions /\ m \notin Daily
      /\ recent' = recent /\ time' = time
      /\ queue[m] = <<>> /\ again[m] = <<>> /\ offset[m] = 0
  BY DEF ChatsInv, TypeInv, Memory, upstreamVars
<1>2. TypeInv'
  <2>1. Memory(m)'
    BY <1>1 DEF Memory, Storing
  <2> QED
    BY <1>1, <2>1, KeepsTypes
<1>3. Past'
  <2>1. NotNewer(m)'
    BY <1>1, RangeOfEmpty DEF NotNewer, Waiting, Storing
  <2> QED
    BY <1>1, <2>1, KeepsPast DEF ChatsInv, Past
<1>4. \A t \in Sessions : Ahead(t)'
  BY <1>1, KeepsAhead DEF ChatsInv
<1>5. Lone'
  BY DEF ChatsInv, Lone
<1>6. Sound'
  <2>1. Archived(m)' = Archived(m)
    BY <1>1 DEF Archived
  <2> QED
    BY <1>1, <2>1, KeepsSound DEF ChatsInv, Sound
<1> QED
  BY <1>2, <1>3, <1>4, <1>5, <1>6 DEF ChatsInv

LEMMA StartImportKeeps ==
  ASSUME ChatsInv, NEW m \in Imports, StartImport(m)
  PROVE  ChatsInv'
<1> USE DailyOrImport
<1>1. /\ TypeInv /\ m \in Sessions /\ m \notin Daily /\ phase[m] = "idle" /\ ~alone'
      /\ UNCHANGED upstreamVars /\ index' = index /\ body' = body /\ left' = left
      /\ offset' = offset /\ queue' = queue /\ again' = again /\ archive' = archive
      /\ held' = held /\ run' = run /\ faults' = faults /\ dropped' = dropped
      /\ recent' = recent /\ time' = time /\ changes' = changes
  BY DEF ChatsInv, StartImport, storeVars, upstreamVars
<1>2. /\ phase'[m] = "upload" /\ entries'[m] = index /\ OthersSame(m)
      /\ pending'[m] = {c \in Convs : archive[m][c] # 0 /\ index[c] # archive[m][c]}
  BY <1>1 DEF TypeInv, ChatsTypeOK, StartImport, LoadIndex, OthersSame, Same
<1>3. ChatsTypeOK'
  <2>1. pending' \in [Imports -> SUBSET Convs] /\ phase' \in [Sessions -> Phases]
    BY <1>1 DEF TypeInv, ChatsTypeOK, StartImport, Phases
  <2>2. entries' \in [Sessions -> [Convs -> Times]] /\ fresh' \in [Sessions -> BOOLEAN]
    BY <1>1 DEF TypeInv, ChatsTypeOK, StartImport, LoadIndex
  <2>3. alone' \in BOOLEAN
    BY DEF StartImport
  <2> QED
    BY <1>1, <2>1, <2>2, <2>3 DEF TypeInv, ChatsTypeOK
<1>4. \A c \in Convs : entries'[m][c] <= time[c] /\ body'[c] <= time[c]
  BY <1>1, <1>2 DEF ChatsInv, Past
<1>5. Ahead(m)'
  BY <1>1, <1>2 DEF Ahead
<1> QED
  BY <1>1, <1>2, <1>3, <1>4, <1>5, ImportingKeeps

LEMMA UploadKeeps ==
  ASSUME ChatsInv, NEW m \in Imports, NEW c \in Convs, Upload(m, c)
  PROVE  ChatsInv'
<1> USE DailyOrImport
<1>1. /\ TypeInv /\ m \in Sessions /\ m \notin Daily /\ phase[m] = "upload"
      /\ UNCHANGED upstreamVars /\ index' = index /\ left' = left /\ alone' = alone
      /\ offset' = offset /\ queue' = queue /\ again' = again /\ archive' = archive
      /\ held' = held /\ run' = run /\ faults' = faults /\ dropped' = dropped
      /\ recent' = recent /\ time' = time /\ changes' = changes
      /\ phase' = phase /\ fresh' = fresh /\ archive[m] \in [Convs -> Times]
      /\ body' = [body EXCEPT ![c] = archive[m][c]]
      /\ entries' = [entries EXCEPT ![m][c] = archive[m][c]]
      /\ pending' = [pending EXCEPT ![m] = @ \ {c}]
  BY DEF ChatsInv, TypeInv, ChatsTypeOK, Upload, upstreamVars
<1>2. /\ OthersSame(m) /\ pending'[m] = pending[m] \ {c}
      /\ \A e \in Convs : entries'[m][e] = IF e = c THEN archive[m][c] ELSE entries[m][e]
      /\ \A e \in Convs : body'[e] = IF e = c THEN archive[m][c] ELSE body[e]
  BY <1>1 DEF TypeInv, ChatsTypeOK, OthersSame, Same
<1>3. ChatsTypeOK'
  <2>1. pending' \in [Imports -> SUBSET Convs]
    BY <1>1 DEF TypeInv, ChatsTypeOK
  <2>2. entries' \in [Sessions -> [Convs -> Times]] /\ body' \in [Convs -> Times]
    BY <1>1 DEF TypeInv, ChatsTypeOK
  <2> QED
    BY <1>1, <2>1, <2>2 DEF TypeInv, ChatsTypeOK
<1>4. \A e \in Convs : entries'[m][e] <= time[e] /\ body'[e] <= time[e]
  BY <1>1, <1>2 DEF ChatsInv, Past, NotNewer
<1>5. Ahead(m)'
  <2> SUFFICES ASSUME fresh[m] PROVE Ahead(m)'
    BY <1>1 DEF Ahead
  <2>1. \A e \in Convs :
          /\ entries[m][e] \in {index[e], archive[m][e]}
          /\ archive[m][e] \notin {0, index[e]} =>
               e \in pending[m] \cup dropped[m] \/ entries[m][e] = archive[m][e]
    BY <1>1 DEF ChatsInv, Ahead
  <2> QED
    BY <1>1, <1>2, <2>1 DEF Ahead
<1> QED
  BY <1>1, <1>2, <1>3, <1>4, <1>5, ImportingKeeps

LEMMA UploadFailsKeeps ==
  ASSUME ChatsInv, NEW m \in Imports, NEW c \in Convs, UploadFails(m, c)
  PROVE  ChatsInv'
<1> USE DailyOrImport
<1>1. /\ TypeInv /\ m \in Sessions /\ m \notin Daily /\ phase[m] = "upload"
      /\ UNCHANGED upstreamVars /\ index' = index /\ left' = left /\ alone' = alone
      /\ offset' = offset /\ queue' = queue /\ again' = again /\ archive' = archive
      /\ held' = held /\ run' = run /\ entries' = entries
      /\ recent' = recent /\ time' = time /\ changes' = changes
      /\ phase' = phase /\ fresh' = fresh /\ archive[m] \in [Convs -> Times]
      /\ body' \in {body, [body EXCEPT ![c] = archive[m][c]]}
      /\ dropped' = [dropped EXCEPT ![m] = @ \cup {c}]
      /\ pending' = [pending EXCEPT ![m] = @ \ {c}]
  BY DEF ChatsInv, TypeInv, ChatsTypeOK, UploadFails, upstreamVars
<1>2. /\ OthersSame(m) /\ pending'[m] = pending[m] \ {c} /\ dropped'[m] = dropped[m] \cup {c}
      /\ \A e \in Convs : body'[e] = body[e] \/ (e = c /\ body'[e] = archive[m][c])
  <2>1. OthersSame(m)
    BY <1>1 DEF TypeInv, ChatsTypeOK, OthersSame, Same
  <2>2. pending'[m] = pending[m] \ {c} /\ dropped'[m] = dropped[m] \cup {c}
    BY <1>1 DEF TypeInv, ChatsTypeOK
  <2>3. body \in [Convs -> Times]
    BY <1>1 DEF TypeInv, ChatsTypeOK
  <2>4. \A e \in Convs : body'[e] = body[e] \/ (e = c /\ body'[e] = archive[m][c])
    BY <1>1, <2>3
  <2> QED
    BY <2>1, <2>2, <2>4
<1>3. ChatsTypeOK'
  <2>1. pending' \in [Imports -> SUBSET Convs] /\ dropped' \in [Sessions -> SUBSET Convs]
    BY <1>1 DEF TypeInv, ChatsTypeOK
  <2>2. body' \in [Convs -> Times]
    BY <1>1 DEF TypeInv, ChatsTypeOK
  <2>3. faults' \in 0 .. MaxFaults
    BY <1>1, ChatsConstants DEF UploadFails, Fault, TypeInv, ChatsTypeOK
  <2> QED
    BY <1>1, <2>1, <2>2, <2>3 DEF TypeInv, ChatsTypeOK
<1>4. \A e \in Convs : entries'[m][e] <= time[e] /\ body'[e] <= time[e]
  BY <1>1, <1>2 DEF ChatsInv, Past, NotNewer
<1>5. Ahead(m)'
  BY <1>1, <1>2 DEF ChatsInv, Ahead
<1> QED
  BY <1>1, <1>2, <1>3, <1>4, <1>5, ImportingKeeps

(* What a session saves of its index is sound. *)
LEMMA SavedIsSound ==
  ASSUME ChatsInv, NEW s \in Sessions, fresh[s], Finished(s),
         NEW G, G = {c \in Convs : entries[s][c] = time[c]},
         NEW L, L = {c \in left \cup LeftBy(s) : entries[s][c] # time[c]}
  PROVE  InFront(recent, Len(recent), G, L \cup Hidden)
<1> USE DailyOrImport
<1>1. /\ TypeInv /\ Memory(s) /\ recent \in Seq(Convs) /\ left \subseteq Convs
      /\ dropped[s] \subseteq Convs
  BY DEF ChatsInv, TypeInv, ChatsTypeOK
<1>2. \A i \in 1 .. Len(recent) : recent[i] \in Convs /\ recent[i] \in Listed
  BY <1>1, RangeOfList DEF Listed
<1>3. InFront(recent, Len(recent), Current, left \cup Hidden)
  BY DEF ChatsInv, Sound
<1>4. CASE s \in Daily
  <2>1. queue[s] = <<>> /\ again[s] = <<>> /\ phase[s] # "list"
    BY <1>1, <1>4 DEF Finished, Memory
  <2>2. Coming(s) = G /\ Reach(s) = Len(recent)
    BY <2>1, RangeOfEmpty DEF Coming, Waiting, Reach
  <2>3. InFront(recent, Len(recent), G, left \cup Hidden \cup dropped[s])
    BY <1>4, <2>2 DEF ChatsInv, Sound
  <2> QED
    BY <1>2, <2>3 DEF InFront, LeftBy
<1>5. CASE s \in Imports
  <2>1. phase[s] = "upload" /\ pending[s] = {}
    BY <1>1, <1>5 DEF Finished, TypeInv, Kinds
  <2>2. \A c \in Convs :
          /\ entries[s][c] \in {index[c], archive[s][c]}
          /\ archive[s][c] \notin {0, index[c]} =>
               c \in dropped[s] \/ entries[s][c] = archive[s][c]
    BY <1>5, <2>1 DEF ChatsInv, Ahead
  <2> SUFFICES ASSUME NEW i \in 1 .. Len(recent), NEW j \in 1 .. Len(recent), i < j,
                      recent[i] \in G, recent[j] \notin G, recent[j] \notin left \cup Hidden
               PROVE  recent[j] \in LeftBy(s)
    BY <1>2 DEF InFront
  <2> DEFINE c == recent[j]
  <2>3. c \in Convs /\ c \in Listed /\ entries[s][c] # time[c] /\ Len(recent) \in Nat
    BY <1>1, <1>2, LenProperties
  <2>4. /\ time[c] > 0 /\ time[c] \in Nat /\ entries[s][c] \in Nat
        /\ index[c] \in Nat /\ index[c] <= time[c]
        /\ archive[s][c] \in Nat /\ archive[s][c] <= time[c]
    BY <1>1, <1>5, <2>3, Ages DEF TypeInv, ChatsInv, Past
  <2>5. CASE recent[i] \in Current
    <3>1. c \in Current
      BY <1>3, <2>3, <2>5, SMT DEF InFront
    <3>2. entries[s][c] < index[c]
      BY <2>2, <2>3, <2>4, <3>1 DEF Current
    <3> QED
      BY <2>3, <3>2 DEF LeftBy
  <2>6. CASE recent[i] \notin Current
    <3>1. recent[i] \in Archived(s)
      BY <1>2, <2>2, <2>6 DEF Current, Archived
    <3>2. c \in Archived(s)
      BY <1>5, <2>3, <3>1, SMT DEF ChatsInv, Sound, InFront
    <3>3. archive[s][c] = time[c] /\ archive[s][c] # 0
      BY <2>4, <3>2 DEF Archived
    <3>4. archive[s][c] # index[c]
      BY <2>2, <2>3, <3>3
    <3> QED
      BY <2>2, <2>3, <3>3, <3>4 DEF LeftBy
  <2> QED
    BY <2>5, <2>6
<1> QED
  BY <1>4, <1>5

LEMMA SaveIndexKeeps ==
  ASSUME ChatsInv, NEW s \in Sessions, SaveIndex(s)
  PROVE  ChatsInv'
<1> USE DailyOrImport
<1>1. /\ TypeInv /\ End(s) /\ Finished(s) /\ fresh[s]
      /\ phase[s] \notin {"idle", "done"}
      /\ UNCHANGED upstreamVars /\ body' = body /\ alone' = alone /\ faults' = faults
      /\ recent' = recent /\ time' = time
      /\ index' = entries[s] /\ fresh' = [t \in Sessions |-> FALSE]
      /\ left' = {c \in left \cup LeftBy(s) : entries[s][c] # time[c]}
  BY DEF ChatsInv, SaveIndex, WriteIndex, Finished, upstreamVars
<1>2. ~fresh'[s] /\ OthersSame(s) /\ \A t \in Sessions : ~fresh'[t]
  BY <1>1, EndFacts
<1>3. ChatsTypeOK'
  <2>1. left' \subseteq Convs
    BY <1>1 DEF TypeInv, ChatsTypeOK, LeftBy
  <2>2. fresh' \in [Sessions -> BOOLEAN] /\ index' \in [Convs -> Times]
    BY <1>1 DEF TypeInv, ChatsTypeOK
  <2> QED
    BY <1>1, <2>1, <2>2, EndFacts DEF TypeInv, ChatsTypeOK, upstreamVars
<1>4. TypeInv'
  BY <1>1, <1>2, <1>3, EndedIsKept, KeepsTypes
<1>5. Past'
  <2>1. \A c \in Convs : index'[c] <= time[c] /\ body'[c] <= time[c]
    BY <1>1 DEF ChatsInv, Past, NotNewer
  <2> QED
    BY <1>1, <1>2, <2>1, EndedIsKept, KeepsPast DEF ChatsInv
<1>6. \A t \in Sessions : Ahead(t)'
  BY <1>2 DEF Ahead
<1>7. Lone'
  <2>1. CASE s \in Imports
    BY <1>1, <2>1 DEF ChatsInv, Lone
  <2>2. CASE s \in Daily
    <3>1. Backed(s)'
      BY <1>1, <1>3, <2>2, EndFacts, NothingIsTyped, SMT
         DEF Backed, Storing, ChatsTypeOK, Times
    <3>2. alone => IndexIsBacked'
      BY <1>1, <2>2 DEF ChatsInv, Lone, Backed, IndexIsBacked
    <3> QED
      BY <1>1, <1>2, <1>3, <2>2, <3>1, <3>2, KeepsLoneDaily DEF ChatsInv
  <2> QED
    BY <2>1, <2>2
<1>8. Sound'
  <2>1. Current' = {c \in Convs : entries[s][c] = time[c]}
    BY <1>1 DEF Current
  <2>2. InFront(recent, Len(recent), Current', left' \cup Hidden)
    BY <1>1, <2>1, SavedIsSound
  <2>3. ASSUME NEW m \in Imports PROVE InFront(recent, Len(recent), Archived(m)', {})
    <3>1. CASE m = s
      BY <1>1, <1>2, <3>1, EndedIsKept
    <3>2. CASE m # s
      <4>1. Archived(m)' = Archived(m)
        BY <1>1, <1>2, <3>2 DEF OthersSame, Same, Archived
      <4> QED
        BY <4>1 DEF ChatsInv, Sound
    <3> QED
      BY <3>1, <3>2
  <2> QED
    BY <1>1, <1>2, <2>2, <2>3 DEF Sound
<1> QED
  BY <1>4, <1>5, <1>6, <1>7, <1>8 DEF ChatsInv

-----------------------------------------------------------------------------
(* What is seen of a page is all of it, or ends with a known conversation. *)
LEMMA SeenFacts ==
  ASSUME TypeInv, NEW d \in Daily
  PROVE  /\ Page(d) \subseteq 1 .. Len(recent)
         /\ \A i \in 1 .. Len(recent) :
              i \in Page(d) <=> offset[d] < i /\ i <= offset[d] + PageLimit
         /\ Seen(d) \subseteq Page(d)
         /\ CaughtUp(d) = {} => Seen(d) = Page(d)
         /\ CaughtUp(d) # {} =>
              \E t \in Page(d) : t \notin Unknown(d) /\ \A i \in Page(d) : i <= t => i \in Seen(d)
         /\ CaughtUp(d) = {} /\ PageIsFull(d) =>
              InARow(d, offset[d] + PageLimit) \in 0 .. StopAfter - 1
<1> USE DailyOrImport
<1>1. /\ offset[d] \in Nat /\ run[d] \in 0 .. StopAfter - 1
      /\ PageLimit \in Nat \ {0} /\ StopAfter \in Nat \ {0}
      /\ DOMAIN recent = 1 .. Len(recent) /\ Len(recent) \in Nat
  BY ChatsConstants, LenProperties DEF TypeInv, ChatsTypeOK
<1>2. /\ Page(d) \subseteq 1 .. Len(recent)
      /\ \A i \in 1 .. Len(recent) :
           i \in Page(d) <=> offset[d] < i /\ i <= offset[d] + PageLimit
  BY <1>1, SMT DEF Page
<1>3. \A i \in Page(d) : i \in Nat /\ offset[d] < i
  BY <1>1, <1>2
<1>4. ASSUME NEW i \in Page(d)
      PROVE  InARow(d, i) \in Nat /\ (i \in Unknown(d) => InARow(d, i) = 0)
  <2> DEFINE before == {j \in Unknown(d) : j <= i}
  <2>1. CASE before = {}
    <3>1. i \notin Unknown(d)
      BY <1>3, <2>1
    <3>2. InARow(d, i) = run[d] + (i - offset[d])
      BY <2>1 DEF InARow
    <3> QED
      BY <1>1, <1>3, <3>1, <3>2, SMT
  <2>2. CASE before # {}
    <3>1. before \in SUBSET (0 .. i)
      BY <1>3, SMT DEF Unknown
    <3>2. Max(before) \in before /\ \A j \in before : j <= Max(before)
      BY <1>3, <2>2, <3>1, MaxIsGreatest
    <3>3. InARow(d, i) = i - Max(before)
      BY <2>2 DEF InARow
    <3>4. Max(before) \in 0 .. i
      BY <3>1, <3>2
    <3>5. i \in Unknown(d) => i <= Max(before)
      BY <1>3, <3>2
    <3> HIDE DEF before
    <3> QED
      BY <1>3, <3>3, <3>4, <3>5, SMT
  <2> QED
    BY <2>1, <2>2
<1>5. CaughtUp(d) = {} => Seen(d) = Page(d)
  BY DEF Seen
<1>6. ASSUME CaughtUp(d) # {}
      PROVE  \E t \in Page(d) : t \notin Unknown(d) /\ \A i \in Page(d) : i <= t => i \in Seen(d)
  <2>1. CaughtUp(d) \subseteq Page(d) /\ CaughtUp(d) \in SUBSET Nat
    BY <1>3 DEF CaughtUp
  <2>2. Min(CaughtUp(d)) \in CaughtUp(d)
    BY <1>6, <2>1, MinIsLeast
  <2>3. InARow(d, Min(CaughtUp(d))) >= StopAfter
    BY <2>2 DEF CaughtUp
  <2>4. Min(CaughtUp(d)) \notin Unknown(d)
    BY <1>1, <1>4, <2>1, <2>2, <2>3, SMT
  <2>5. \A i \in Page(d) : i <= Min(CaughtUp(d)) => i \in Seen(d)
    BY <1>6 DEF Seen
  <2> QED
    BY <2>1, <2>2, <2>4, <2>5
<1>7. ASSUME CaughtUp(d) = {}, PageIsFull(d)
      PROVE  InARow(d, offset[d] + PageLimit) \in 0 .. StopAfter - 1
  <2>1. offset[d] + PageLimit \in 1 .. Len(recent)
    BY <1>1, <1>7, SMT DEF PageIsFull
  <2>2. offset[d] + PageLimit \in Page(d)
    BY <1>1, <1>2, <2>1, SMT
  <2>3. ~(InARow(d, offset[d] + PageLimit) >= StopAfter)
    BY <1>7, <2>2 DEF CaughtUp
  <2> QED
    BY <1>1, <1>4, <2>2, <2>3, SMT
<1>8. Seen(d) \subseteq Page(d)
  BY DEF Seen
<1> QED
  BY <1>2, <1>5, <1>6, <1>7, <1>8

(* The summaries a page adds to the queue. *)
Added(P) == {Summary(recent[i]) : i \in P}

LEMMA FoundFacts ==
  ASSUME TypeInv, NEW d \in Daily, NEW P, P \subseteq 1 .. Len(recent), NEW at \in InOrder(P),
         NEW found, found = queue[d] \o [k \in DOMAIN at |-> Summary(recent[at[k]])]
  PROVE  found \in Seq(Summaries) /\ Range(found) = Range(queue[d]) \cup Added(P)
<1> DEFINE n == Cardinality(P)
           new == [k \in 1 .. n |-> Summary(recent[at[k]])]
<1>1. /\ recent \in Seq(Convs) /\ Len(recent) \in Nat /\ time \in [Convs -> Times]
      /\ queue[d] \in Seq(Summaries)
  BY DailyOrImport, LenProperties DEF TypeInv, ChatsTypeOK
<1>2. n \in Nat
  <2>1. IsFiniteSet(1 .. Len(recent))
    BY <1>1, FS_Interval
  <2>2. IsFiniteSet(P)
    BY <2>1, FS_Subset
  <2> QED
    BY <2>2, FS_CardinalityType
<1>3. at \in [1 .. n -> P] /\ DOMAIN at = 1 .. n /\ \A i \in P : \E k \in 1 .. n : at[k] = i
  BY DEF InOrder, Bijection, Injection, Surjection
<1>4. \A i \in P : recent[i] \in Convs
  BY <1>1, ElementOfSeq
<1>5. \A k \in 1 .. n : Summary(recent[at[k]]) \in Summaries
  BY <1>1, <1>3, <1>4 DEF Summary, Summaries
<1>6. found = queue[d] \o new
  BY <1>3
<1> HIDE DEF n
<1>7. new \in Seq(Summaries)
  BY <1>2, <1>5, IsASeq
<1>8. Range(new) = Added(P)
  <2>1. Range(new) = {Summary(recent[at[k]]) : k \in 1 .. n}
    BY DEF Range
  <2> QED
    BY <1>3, <2>1 DEF Added
<1> HIDE DEF new
<1>9. found \in Seq(Summaries)
  BY <1>1, <1>6, <1>7, ConcatProperties
<1>10. Range(found) = Range(queue[d]) \cup Range(new)
  <2>1. queue[d] \in Seq(Summaries)
    BY <1>1
  <2>2. Range(queue[d] \o new) = Range(queue[d]) \cup Range(new)
    BY <1>7, <2>1, RangeOfConcat
  <2> QED
    BY <1>6, <2>2
<1> QED
  BY <1>8, <1>9, <1>10

(***************************************************************************)
(* A listing that goes on, or ends because it has caught up, is sound: a   *)
(* place it has not seen comes after a conversation that it knows, so what *)
(* is there is up to date in the index too, or was left behind.            *)
(***************************************************************************)
LEMMA ListedIsSound ==
  ASSUME ChatsInv, NEW d \in Daily, phase[d] = "list", fresh[d],
         NEW G, G = {c \in Convs : \/ entries[d][c] = time[c]
                                   \/ Summary(c) \in Waiting(d) \cup Added(Seen(d) \cap Unknown(d))},
         NEW n,
         \A j \in 1 .. Len(recent) : j <= n =>
           \/ j <= offset[d] \/ j \in Seen(d)
           \/ \E t \in Page(d) : t \notin Unknown(d) /\ t < j
  PROVE  InFront(recent, n, G, left \cup Hidden \cup dropped[d])
<1> USE DailyOrImport
<1>1. /\ TypeInv /\ recent \in Seq(Convs) /\ IsInjective(recent) /\ Len(recent) \in Nat
      /\ DOMAIN recent = 1 .. Len(recent) /\ offset[d] \in Nat
      /\ \A i \in 1 .. Len(recent) : recent[i] \in Convs
  BY LenProperties, ElementOfSeq DEF ChatsInv, TypeInv, ChatsTypeOK
<1>2. /\ Page(d) \subseteq 1 .. Len(recent) /\ Seen(d) \subseteq Page(d)
      /\ \A i \in Page(d) : offset[d] < i
  BY <1>1, SeenFacts
<1>3. entries[d] = index /\ Reach(d) = offset[d]
  BY DEF ChatsInv, Ahead, Reach
<1>4. ASSUME NEW i \in Page(d), i \notin Unknown(d)
      PROVE  index[recent[i]] = time[recent[i]]
  BY <1>3, <1>4 DEF Unknown, Known, Summary
<1> SUFFICES ASSUME NEW i \in 1 .. Len(recent), NEW j \in 1 .. Len(recent), i < j, j <= n,
                    recent[i] \in G
             PROVE  recent[j] \in G \cup (left \cup Hidden \cup dropped[d])
  BY DEF InFront
<1>5. CASE j \in Seen(d)
  <2>1. CASE j \in Unknown(d)
    BY <1>1, <1>5, <2>1 DEF Added
  <2>2. CASE j \notin Unknown(d)
    BY <1>1, <1>2, <1>3, <1>4, <1>5, <2>2
  <2> QED
    BY <2>1, <2>2
<1>6. CASE j <= offset[d]
  <2>1. i \notin Page(d)
    BY <1>1, <1>2, <1>6, SMT
  <2>2. recent[i] \in Coming(d)
    <3>1. ASSUME Summary(recent[i]) \in Added(Seen(d) \cap Unknown(d)) PROVE FALSE
      <4>1. PICK k \in Seen(d) \cap Unknown(d) : Summary(recent[i]) = Summary(recent[k])
        BY <3>1 DEF Added
      <4>2. recent[i] = recent[k]
        BY <4>1 DEF Summary
      <4> QED
        BY <1>1, <1>2, <2>1, <4>1, <4>2 DEF IsInjective
    <3> QED
      BY <1>1, <3>1 DEF Coming
  <2>3. recent[j] \in Coming(d) \cup (left \cup Hidden \cup dropped[d])
    BY <1>3, <1>6, <2>2 DEF ChatsInv, Sound, InFront
  <2> QED
    BY <2>3 DEF Coming
<1>7. CASE \E t \in Page(d) : t \notin Unknown(d) /\ t < j
  <2>1. PICK t \in Page(d) : t \notin Unknown(d) /\ t < j
    BY <1>7
  <2>2. recent[t] \in Current
    BY <1>1, <1>2, <1>4, <2>1 DEF Current
  <2>3. j <= Len(recent)
    BY <1>1, SMT
  <2>4. recent[j] \in Current \cup (left \cup Hidden)
    BY <1>2, <2>1, <2>2, <2>3 DEF ChatsInv, Sound, InFront
  <2> QED
    BY <1>1, <1>3, <2>4 DEF Current
<1> QED
  BY <1>5, <1>6, <1>7

(* What the listing has added to its queue, and how far it is then. *)
LEMMA ListingKeeps ==
  ASSUME ChatsInv, NEW d \in Daily, phase[d] = "list", OthersSame(d), ChatsTypeOK',
         UNCHANGED upstreamVars, index' = index, body' = body, left' = left, alone' = alone,
         entries' = entries, fresh' = fresh, again' = again, dropped' = dropped,
         Waiting(d)' = Waiting(d) \cup Added(Seen(d) \cap Unknown(d)),
         \/ phase'[d] = "list"
         \/ phase'[d] = "fetch" /\ offset'[d] = 0,
         \A j \in 1 .. Len(recent) : j <= Reach(d)' =>
           \/ j <= offset[d] \/ j \in Seen(d)
           \/ \E t \in Page(d) : t \notin Unknown(d) /\ t < j
  PROVE  ChatsInv'
<1> USE DailyOrImport
<1>1. /\ TypeInv /\ Memory(d) /\ d \in Sessions /\ d \notin Imports
      /\ recent' = recent /\ time' = time /\ recent \in Seq(Convs)
  BY DEF ChatsInv, TypeInv, ChatsTypeOK, upstreamVars
<1>2. \A w \in Added(Seen(d) \cap Unknown(d)) : w.id \in Convs /\ w.update_time = time[w.id]
  <2>1. Seen(d) \subseteq 1 .. Len(recent)
    BY <1>1, SeenFacts
  <2> QED
    BY <1>1, <2>1, ElementOfSeq DEF Added, Summary
<1>3. TypeInv'
  <2>1. Memory(d)'
    BY <1>1 DEF Memory, Storing
  <2> QED
    BY <1>1, <2>1, KeepsTypes
<1>4. Past'
  <2>1. NotNewer(d)'
    <3>1. ASSUME NEW w \in Added(Seen(d) \cap Unknown(d)) PROVE w.update_time <= time[w.id]
      <4>1. w.id \in Convs /\ w.update_time = time[w.id]
        BY <1>2
      <4>2. time[w.id] \in Nat
        BY <1>1, <4>1, Ages
      <4> QED
        BY <4>1, <4>2, SMT
    <3>2. \A w \in Waiting(d) : w.update_time <= time[w.id]
      BY <1>1 DEF ChatsInv, Past, NotNewer
    <3>3. \A w \in Waiting(d)' : w.update_time <= time[w.id]
      BY <3>1, <3>2
    <3> QED
      BY <1>1, <3>3 DEF ChatsInv, Past, NotNewer, Storing
  <2> QED
    BY <1>1, <2>1, KeepsPast DEF ChatsInv, Past
<1>5. \A t \in Sessions : Ahead(t)'
  <2>1. Ahead(d)'
    BY <1>1, <1>2 DEF ChatsInv, Past, Ahead
  <2> QED
    BY <1>1, <2>1, KeepsAhead DEF ChatsInv
<1>6. Lone'
  <2>1. alone => Backed(d)' /\ IndexIsBacked'
    BY <1>1 DEF ChatsInv, Lone, Backed, IndexIsBacked, Storing
  <2> QED
    BY <1>1, <2>1, KeepsLoneDaily DEF ChatsInv
<1>7. Sound'
  <2>1. ASSUME fresh[d]
        PROVE  InFront(recent, Reach(d)', Coming(d)', left \cup Hidden \cup dropped'[d])
    <3>1. Coming(d)' = {c \in Convs : \/ entries[d][c] = time[c]
                                      \/ Summary(c) \in Waiting(d) \cup Added(Seen(d) \cap Unknown(d))}
      BY <1>1 DEF Coming, Summary
    <3> QED
      BY <1>1, <2>1, <3>1, ListedIsSound
  <2> QED
    BY <1>1, <2>1, KeepsSound DEF ChatsInv
<1> QED
  BY <1>3, <1>4, <1>5, <1>6, <1>7 DEF ChatsInv

LEMMA CollectOutdatedKeeps ==
  ASSUME ChatsInv, NEW d \in Daily, CollectOutdated(d)
  PROVE  ChatsInv'
<1> USE DailyOrImport
<1> DEFINE P == Seen(d) \cap Unknown(d)
<1>1. /\ TypeInv /\ Memory(d) /\ d \in Sessions /\ d \notin Imports /\ phase[d] = "list"
      /\ UNCHANGED <<upstreamVars, faults, storeVars, left, alone>>
  BY DEF ChatsInv, TypeInv, CollectOutdated
<1>2. /\ UNCHANGED upstreamVars /\ index' = index /\ body' = body /\ left' = left /\ alone' = alone
      /\ recent' = recent /\ time' = time /\ changes' = changes /\ faults' = faults
  BY <1>1 DEF storeVars, upstreamVars
<1>3. /\ Page(d) \subseteq 1 .. Len(recent) /\ Seen(d) \subseteq Page(d)
      /\ \A i \in 1 .. Len(recent) :
           i \in Page(d) <=> offset[d] < i /\ i <= offset[d] + PageLimit
      /\ offset[d] \in Nat /\ PageLimit \in Nat \ {0} /\ Len(recent) \in Nat
  BY <1>1, SeenFacts, LenProperties, ChatsConstants DEF TypeInv, ChatsTypeOK
<1>4. P \subseteq 1 .. Len(recent)
  BY <1>3
<1> HIDE DEF P
<1>5. PICK at \in InOrder(P) :
        LET found == queue[d] \o [k \in DOMAIN at |-> Summary(recent[at[k]])]
        IN  \/ /\ CaughtUp(d) = {} /\ PageIsFull(d)
               /\ queue' = [queue EXCEPT ![d] = found]
               /\ offset' = [offset EXCEPT ![d] = @ + PageLimit]
               /\ run' = [run EXCEPT ![d] = InARow(d, offset[d] + PageLimit)]
               /\ UNCHANGED <<phase, entries, fresh, again, held, archive, pending, dropped>>
            \/ /\ CaughtUp(d) # {} \/ ~PageIsFull(d)
               /\ found # <<>>
               /\ queue' = [queue EXCEPT ![d] = found]
               /\ phase' = [phase EXCEPT ![d] = "fetch"]
               /\ offset' = [offset EXCEPT ![d] = 0]
               /\ run' = [run EXCEPT ![d] = 0]
               /\ UNCHANGED <<entries, fresh, again, held, archive, pending, dropped>>
            \/ /\ CaughtUp(d) # {} \/ ~PageIsFull(d)
               /\ found = <<>>
               /\ End(d) /\ Forget(d)
  BY DEF CollectOutdated, P
<1> DEFINE found == queue[d] \o [k \in DOMAIN at |-> Summary(recent[at[k]])]
<1>6. found \in Seq(Summaries) /\ Range(found) = Range(queue[d]) \cup Added(P)
  BY <1>1, <1>4, FoundFacts
<1> HIDE DEF found
<1>7. CASE /\ CaughtUp(d) = {} /\ PageIsFull(d)
           /\ queue' = [queue EXCEPT ![d] = found]
           /\ offset' = [offset EXCEPT ![d] = @ + PageLimit]
           /\ run' = [run EXCEPT ![d] = InARow(d, offset[d] + PageLimit)]
           /\ UNCHANGED <<phase, entries, fresh, again, held, archive, pending, dropped>>
  <2>1. queue'[d] = found /\ offset'[d] = offset[d] + PageLimit /\ OthersSame(d)
    BY <1>1, <1>7 DEF TypeInv, ChatsTypeOK, OthersSame, Same
  <2>2. ChatsTypeOK'
    <3>1. queue' \in [Sessions -> Seq(Summaries)] /\ offset' \in [Sessions -> Nat]
      BY <1>1, <1>3, <1>6, <1>7 DEF TypeInv, ChatsTypeOK
    <3>2. run' \in [Sessions -> 0 .. StopAfter - 1]
      BY <1>1, <1>7, SeenFacts DEF TypeInv, ChatsTypeOK
    <3> QED
      BY <1>1, <1>2, <1>7, <3>1, <3>2 DEF TypeInv, ChatsTypeOK
  <2>3. Waiting(d)' = Waiting(d) \cup Added(P)
    BY <1>6, <1>7, <2>1 DEF Waiting
  <2>4. ASSUME NEW j \in 1 .. Len(recent), j <= Reach(d)'
        PROVE  j <= offset[d] \/ j \in Seen(d)
    <3>1. j <= offset[d] + PageLimit
      BY <1>1, <1>7, <2>1, <2>4 DEF Reach
    <3>2. Seen(d) = Page(d)
      BY <1>1, <1>7, SeenFacts
    <3> QED
      BY <1>3, <3>1, <3>2, SMT
  <2> QED
    BY <1>1, <1>2, <1>7, <2>1, <2>2, <2>3, <2>4, ListingKeeps DEF P
<1>8. CASE /\ CaughtUp(d) # {} \/ ~PageIsFull(d)
           /\ found # <<>>
           /\ queue' = [queue EXCEPT ![d] = found]
           /\ phase' = [phase EXCEPT ![d] = "fetch"]
           /\ offset' = [offset EXCEPT ![d] = 0]
           /\ run' = [run EXCEPT ![d] = 0]
           /\ UNCHANGED <<entries, fresh, again, held, archive, pending, dropped>>
  <2>1. queue'[d] = found /\ offset'[d] = 0 /\ phase'[d] = "fetch" /\ OthersSame(d)
    BY <1>1, <1>8 DEF TypeInv, ChatsTypeOK, OthersSame, Same
  <2>2. ChatsTypeOK'
    <3>1. queue' \in [Sessions -> Seq(Summaries)] /\ offset' \in [Sessions -> Nat]
      BY <1>1, <1>6, <1>8 DEF TypeInv, ChatsTypeOK
    <3>2. run' \in [Sessions -> 0 .. StopAfter - 1] /\ phase' \in [Sessions -> Phases]
      BY <1>1, <1>8, ChatsConstants DEF TypeInv, ChatsTypeOK, Phases
    <3> QED
      BY <1>1, <1>2, <1>8, <3>1, <3>2 DEF TypeInv, ChatsTypeOK
  <2>3. Waiting(d)' = Waiting(d) \cup Added(P)
    BY <1>6, <1>8, <2>1 DEF Waiting
  <2>4. ASSUME NEW j \in 1 .. Len(recent)
        PROVE  \/ j <= offset[d] \/ j \in Seen(d)
               \/ \E t \in Page(d) : t \notin Unknown(d) /\ t < j
    <3>1. CASE CaughtUp(d) # {}
      <4>1. PICK t \in Page(d) : t \notin Unknown(d) /\ \A i \in Page(d) : i <= t => i \in Seen(d)
        BY <1>1, <3>1, SeenFacts
      <4>2. t \in 1 .. Len(recent) /\ t <= offset[d] + PageLimit
        BY <1>3
      <4>3. j <= offset[d] \/ (j \in Page(d) /\ j <= t) \/ t < j
        BY <1>3, <4>2, SMT
      <4> QED
        BY <4>1, <4>3
    <3>2. CASE CaughtUp(d) = {}
      <4>1. Seen(d) = Page(d) /\ ~PageIsFull(d)
        BY <1>1, <1>8, <3>2, SeenFacts
      <4>2. j <= offset[d] \/ j \in Page(d)
        BY <1>3, <4>1, SMT DEF PageIsFull
      <4> QED
        BY <4>1, <4>2
    <3> QED
      BY <3>1, <3>2
  <2> QED
    BY <1>1, <1>2, <1>8, <2>1, <2>2, <2>3, <2>4, ListingKeeps DEF P
<1>9. CASE End(d) /\ Forget(d)
  BY <1>1, <1>9, EndUnstored
<1> QED
  BY <1>5, <1>7, <1>8, <1>9 DEF found

-----------------------------------------------------------------------------
(***************************************************************************)
(* What becomes of the list when c is taken out: the others stay in their  *)
(* order, and where they were, or slide up by one place if c was before.   *)
(***************************************************************************)
LEMMA RemoveFacts ==
  ASSUME NEW c \in Convs, recent \in Seq(Convs), IsInjective(recent),
         NEW r, r = RemoveFirst(recent, c)
  PROVE  /\ r \in Seq(Convs) /\ IsInjective(r) /\ Range(r) = Listed \ {c}
         /\ \A i, j \in 1 .. Len(r) : i < j =>
              \E k, l \in 1 .. Len(recent) :
                /\ k < l /\ recent[k] = r[i] /\ recent[l] = r[j]
                /\ (l = j \/ (l = j + 1 /\ \E at \in 1 .. j : recent[at] = c))
<1>1. /\ Len(recent) \in Nat /\ DOMAIN recent = 1 .. Len(recent)
      /\ Listed = {recent[i] : i \in 1 .. Len(recent)}
  BY RangeOfList DEF Listed
<1>2. CASE c \notin Listed
  <2>1. r = recent
    BY <1>2, RemoveFirstIsRemoveAt DEF Listed
  <2>2. Range(r) = Listed \ {c}
    BY <1>2, <2>1 DEF Listed
  <2>3. ASSUME NEW i \in 1 .. Len(r), NEW j \in 1 .. Len(r), i < j
        PROVE  \E k, l \in 1 .. Len(recent) :
                 /\ k < l /\ recent[k] = r[i] /\ recent[l] = r[j]
                 /\ (l = j \/ (l = j + 1 /\ \E at \in 1 .. j : recent[at] = c))
    <3>1. i \in 1 .. Len(recent) /\ j \in 1 .. Len(recent) /\ recent[i] = r[i] /\ recent[j] = r[j]
      BY <2>1
    <3> USE <2>3, <3>1
    <3> WITNESS i \in 1 .. Len(recent), j \in 1 .. Len(recent)
    <3> QED
      OBVIOUS
  <2> QED
    BY <2>1, <2>2, <2>3
<1>3. CASE c \in Listed
  <2>1. PICK at \in 1 .. Len(recent) : recent[at] = c /\ r = RemoveAt(recent, at)
    BY <1>3, RemoveFirstIsRemoveAt DEF Listed
  <2> DEFINE Was(i) == IF i < at THEN i ELSE i + 1
  <2>2. /\ r \in Seq(Convs) /\ Len(r) = Len(recent) - 1
        /\ \A i \in 1 .. Len(r) : r[i] = recent[Was(i)]
    BY <2>1, RemoveAtProperties
  <2>3. /\ \A i \in 1 .. Len(r) : Was(i) \in 1 .. Len(recent) /\ Was(i) # at
        /\ \A i, j \in 1 .. Len(r) : i < j => Was(i) < Was(j)
        /\ \A i \in 1 .. Len(r) : Was(i) = i \/ (Was(i) = i + 1 /\ at \in 1 .. i)
        /\ \A k \in 1 .. Len(recent) : k = at \/ \E i \in 1 .. Len(r) : Was(i) = k
    <3>1. ASSUME NEW k \in 1 .. Len(recent), k # at
          PROVE  \E i \in 1 .. Len(r) : Was(i) = k
      <4>1. CASE k < at
        <5>1. k \in 1 .. Len(r)
          BY <1>1, <2>1, <2>2, <4>1, SMT
        <5> QED
          BY <4>1, <5>1
      <4>2. CASE ~(k < at)
        <5>1. k - 1 \in 1 .. Len(r) /\ ~(k - 1 < at) /\ (k - 1) + 1 = k
          BY <1>1, <2>1, <2>2, <3>1, <4>2, SMT
        <5> QED
          BY <5>1
      <4> QED
        BY <4>1, <4>2
    <3>2. Len(r) \in Nat
      BY <2>2, LenProperties
    <3>3. ASSUME NEW i \in 1 .. Len(r)
          PROVE  /\ Was(i) \in 1 .. Len(recent) /\ Was(i) # at
                 /\ Was(i) = i \/ (Was(i) = i + 1 /\ at \in 1 .. i)
      <4>1. CASE i < at
        <5>1. i \in 1 .. Len(recent) /\ i # at
          BY <1>1, <2>1, <2>2, <3>2, <4>1, SMT
        <5>2. Was(i) = i
          BY <4>1
        <5> HIDE DEF Was
        <5> QED
          BY <5>1, <5>2, Zenon
      <4>2. CASE ~(i < at)
        <5>1. i + 1 \in 1 .. Len(recent) /\ i + 1 # at /\ at \in 1 .. i
          BY <1>1, <2>1, <2>2, <3>2, <4>2, SMT
        <5> QED
          BY <4>2, <5>1
      <4> QED
        BY <4>1, <4>2
    <3>4. \A i, j \in 1 .. Len(r) : i < j => Was(i) < Was(j)
      BY <1>1, <2>1, <2>2, <3>2, SMT
    <3> HIDE DEF Was
    <3> QED
      BY <3>1, <3>3, <3>4
  <2>4. Len(r) \in Nat /\ DOMAIN r = 1 .. Len(r) /\ Range(r) = {r[i] : i \in 1 .. Len(r)}
    BY <2>2, RangeOfList
  <2> HIDE DEF Was
  <2>5. \A i, j \in 1 .. Len(r) : r[i] = r[j] => i = j
    <3> SUFFICES ASSUME NEW i \in 1 .. Len(r), NEW j \in 1 .. Len(r), r[i] = r[j]
                 PROVE  i = j
      OBVIOUS
    <3>1. Was(i) = Was(j)
      BY <1>1, <2>2, <2>3 DEF IsInjective
    <3>2. i < j \/ j < i \/ i = j
      BY SMT
    <3>3. Was(i) \in Nat
      BY <2>3, SMT
    <3>4. ~(Was(i) < Was(i))
      BY <3>3, SMT
    <3> QED
      BY <2>3, <3>1, <3>2, <3>4
  <2>6. Range(r) = Listed \ {c}
    <3>1. ASSUME NEW i \in 1 .. Len(r) PROVE r[i] \in Listed /\ r[i] # c
      <4>1. r[i] = recent[Was(i)] /\ Was(i) \in 1 .. Len(recent) /\ Was(i) # at
        BY <2>2, <2>3
      <4>2. recent[Was(i)] # recent[at]
        BY <1>1, <2>1, <4>1 DEF IsInjective
      <4> QED
        BY <1>1, <2>1, <4>1, <4>2
    <3>2. ASSUME NEW k \in 1 .. Len(recent), recent[k] # c PROVE recent[k] \in Range(r)
      BY <2>1, <2>2, <2>3, <2>4, <3>2
    <3> QED
      BY <1>1, <2>4, <3>1, <3>2
  <2>7. ASSUME NEW i \in 1 .. Len(r), NEW j \in 1 .. Len(r), i < j
        PROVE  \E k, l \in 1 .. Len(recent) :
                 /\ k < l /\ recent[k] = r[i] /\ recent[l] = r[j]
                 /\ (l = j \/ (l = j + 1 /\ \E t \in 1 .. j : recent[t] = c))
    <3>1. /\ Was(i) \in 1 .. Len(recent) /\ Was(j) \in 1 .. Len(recent) /\ Was(i) < Was(j)
          /\ recent[Was(i)] = r[i] /\ recent[Was(j)] = r[j]
      BY <2>2, <2>3, <2>7
    <3>2. Was(j) = j \/ (Was(j) = j + 1 /\ at \in 1 .. j)
      BY <2>3
    <3> QED
      BY <2>1, <3>1, <3>2
  <2>8. IsInjective(r)
    BY <2>4, <2>5 DEF IsInjective
  <2> QED
    BY <2>2, <2>6, <2>7, <2>8
<1> QED
  BY <1>2, <1>3

(* What becomes of it when c is updated: c comes first. *)
LEMMA UpdateFacts ==
  ASSUME TypeInv, NEW c \in Convs, Update(c)
  PROVE  /\ recent' \in Seq(Convs) /\ IsInjective(recent') /\ Listed' = Listed \cup {c}
         /\ Len(recent) \in Nat /\ Len(recent') \in Nat
         /\ \A j \in 1 .. Len(recent') : recent'[j] = c => j = 1
         /\ \A i, j \in 1 .. Len(recent') : i < j =>
              \/ recent'[i] = c
              \/ \E k, l \in 1 .. Len(recent) :
                   k < l /\ recent[k] = recent'[i] /\ recent[l] = recent'[j] /\ l <= j
<1> DEFINE r == RemoveFirst(recent, c)
<1>1. /\ recent \in Seq(Convs) /\ IsInjective(recent) /\ Len(recent) \in Nat
      /\ recent' = <<c>> \o r
  BY LenProperties DEF TypeInv, ChatsTypeOK, Update
<1>2. /\ r \in Seq(Convs) /\ IsInjective(r) /\ Range(r) = Listed \ {c}
      /\ \A i, j \in 1 .. Len(r) : i < j =>
           \E k, l \in 1 .. Len(recent) :
             /\ k < l /\ recent[k] = r[i] /\ recent[l] = r[j]
             /\ (l = j \/ (l = j + 1 /\ \E at \in 1 .. j : recent[at] = c))
  BY <1>1, RemoveFacts
<1> HIDE DEF r
<1>3. <<c>> \in Seq(Convs) /\ Len(<<c>>) = 1 /\ <<c>>[1] = c
  BY SMT
<1>4. Range(<<c>>) = {c}
  <2>1. Range(<<c>>) = {<<c>>[i] : i \in 1 .. 1}
    BY <1>3, RangeOfList
  <2>2. 1 .. 1 = {1}
    BY SMT
  <2> QED
    BY <1>3, <2>1, <2>2
<1>5. /\ recent' \in Seq(Convs) /\ Len(recent') = 1 + Len(r) /\ Len(r) \in Nat
      /\ recent'[1] = c
      /\ \A i \in 1 .. Len(recent') : i # 1 => i - 1 \in 1 .. Len(r) /\ recent'[i] = r[i - 1]
  <2>1. /\ <<c>> \o r \in Seq(Convs) /\ Len(<<c>> \o r) = 1 + Len(r) /\ Len(r) \in Nat
        /\ \A i \in 1 .. 1 + Len(r) : (<<c>> \o r)[i] = IF i <= 1 THEN <<c>>[i] ELSE r[i - 1]
    BY <1>2, <1>3, ConcatProperties, LenProperties
  <2>2. 1 \in 1 .. 1 + Len(r) /\ 1 <= 1
    BY <2>1, SMT
  <2>3. \A i \in 1 .. 1 + Len(r) : i # 1 => ~(i <= 1) /\ i - 1 \in 1 .. Len(r)
    BY <2>1, SMT
  <2> QED
    BY <1>1, <1>3, <2>1, <2>2, <2>3
<1>6. Listed' = Listed \cup {c}
  <2>1. Range(<<c>> \o r) = {c} \cup (Listed \ {c})
    <3> DEFINE one == <<c>>
    <3>1. one \in Seq(Convs) /\ Range(one) = {c}
      BY <1>3, <1>4
    <3> HIDE DEF one
    <3>2. Range(one \o r) = Range(one) \cup Range(r)
      BY <1>2, <3>1, RangeOfConcat
    <3> QED
      BY <1>2, <3>1, <3>2 DEF one
  <2> QED
    BY <1>1, <2>1 DEF Listed
<1>7. DOMAIN recent' = 1 .. Len(recent') /\ DOMAIN r = 1 .. Len(r) /\ Range(r) = {r[i] : i \in 1 .. Len(r)}
  BY <1>2, <1>5, RangeOfList
<1>8. ASSUME NEW j \in 1 .. Len(recent'), j # 1 PROVE recent'[j] # c
  <2>1. recent'[j] \in Range(r)
    BY <1>5, <1>7, <1>8
  <2> QED
    BY <1>2, <2>1
<1>9. ASSUME NEW i \in 1 .. Len(recent'), NEW j \in 1 .. Len(recent'), recent'[i] = recent'[j]
      PROVE  i = j
  <2>1. CASE i = 1 \/ j = 1
    BY <1>5, <1>8, <1>9, <2>1
  <2>2. CASE i # 1 /\ j # 1
    <3>1. i - 1 \in DOMAIN r /\ j - 1 \in DOMAIN r /\ r[i - 1] = r[j - 1]
      BY <1>5, <1>7, <1>9, <2>2
    <3>2. i - 1 = j - 1
      BY <1>2, <3>1 DEF IsInjective
    <3> QED
      BY <3>2, SMT
  <2> QED
    BY <2>1, <2>2
<1>10. ASSUME NEW i \in 1 .. Len(recent'), NEW j \in 1 .. Len(recent'), i < j, recent'[i] # c
       PROVE  \E k, l \in 1 .. Len(recent) :
                k < l /\ recent[k] = recent'[i] /\ recent[l] = recent'[j] /\ l <= j
  <2>1. i # 1 /\ j # 1 /\ i - 1 < j - 1 /\ j - 1 \in Int /\ j \in Int
    BY <1>5, <1>10, SMT
  <2>2. PICK k \in 1 .. Len(recent), l \in 1 .. Len(recent) :
          k < l /\ recent[k] = r[i - 1] /\ recent[l] = r[j - 1] /\ (l = j - 1 \/ l = (j - 1) + 1)
    <3>1. i - 1 \in 1 .. Len(r) /\ j - 1 \in 1 .. Len(r)
      BY <1>5, <2>1
    <3>2. PICK k \in 1 .. Len(recent), l \in 1 .. Len(recent) :
            /\ k < l /\ recent[k] = r[i - 1] /\ recent[l] = r[j - 1]
            /\ (l = j - 1 \/ (l = (j - 1) + 1 /\ \E at \in 1 .. j - 1 : recent[at] = c))
      BY <1>2, <2>1, <3>1, Zenon
    <3> QED
      BY <3>2, Zenon
  <2>3. l <= j
    BY <2>1, <2>2, SMT
  <2> QED
    BY <1>5, <2>1, <2>2, <2>3
<1>11. IsInjective(recent')
  BY <1>7, <1>9 DEF IsInjective
<1>12. Len(recent') \in Nat
  BY <1>5, SMT
<1> QED
  BY <1>1, <1>5, <1>6, <1>8, <1>10, <1>11, <1>12

(* An update of c, which is in G no longer and may leave X, keeps G in front. *)
LEMMA UpdateInFront ==
  ASSUME TypeInv, NEW c \in Convs, Update(c),
         NEW n \in Nat, NEW n2 \in Nat, n2 = n \/ n = Len(recent),
         NEW G, NEW X, InFront(recent, n, G, X),
         NEW G2, c \notin G2, G2 \subseteq G, G \subseteq G2 \cup {c},
         NEW X2, X \subseteq X2 \cup {c}
  PROVE  InFront(recent', n2, G2, X2)
<1> SUFFICES ASSUME NEW i \in 1 .. Len(recent'), NEW j \in 1 .. Len(recent'),
                    i < j, j <= n2, recent'[i] \in G2
             PROVE  recent'[j] \in G2 \cup X2
  BY DEF InFront
<1>1. PICK k \in 1 .. Len(recent), l \in 1 .. Len(recent) :
        k < l /\ recent[k] = recent'[i] /\ recent[l] = recent'[j] /\ l <= j
  BY UpdateFacts
<1>2. l <= n
  <2>1. l \in Nat /\ j \in Nat /\ l <= Len(recent)
    BY <1>1, UpdateFacts, SMT
  <2>2. CASE n2 = n
    BY <1>1, <2>1, <2>2, SMT
  <2>3. CASE n = Len(recent)
    BY <2>1, <2>3
  <2> QED
    BY <2>2, <2>3
<1>3. recent[l] \in G \cup X
  BY <1>1, <1>2 DEF InFront
<1>4. recent'[j] # c
  <2>1. j # 1
    BY UpdateFacts, SMT
  <2> QED
    BY <2>1, UpdateFacts
<1> QED
  BY <1>1, <1>3, <1>4

(***************************************************************************)
(* The same for a deletion: the conversation that slides to the last place *)
(* of those that were seen has to be one left behind.                      *)
(***************************************************************************)
LEMMA DeleteInFront ==
  ASSUME TypeInv, NEW c \in Convs, recent' = RemoveFirst(recent, c), NEW n \in Nat,
         NEW G, NEW X, InFront(recent, n, G, X), NEW X2, X \subseteq X2,
         n < Len(recent) /\ (\E at \in 1 .. n : recent[at] = c) => recent[n + 1] \in X2
  PROVE  InFront(recent', n, G, X2)
<1>1. recent \in Seq(Convs) /\ IsInjective(recent) /\ Len(recent) \in Nat
  BY LenProperties DEF TypeInv, ChatsTypeOK
<1> SUFFICES ASSUME NEW i \in 1 .. Len(recent'), NEW j \in 1 .. Len(recent'),
                    i < j, j <= n, recent'[i] \in G
             PROVE  recent'[j] \in G \cup X2
  BY DEF InFront
<1>2. PICK k \in 1 .. Len(recent), l \in 1 .. Len(recent) :
        /\ k < l /\ recent[k] = recent'[i] /\ recent[l] = recent'[j]
        /\ (l = j \/ (l = j + 1 /\ \E at \in 1 .. j : recent[at] = c))
  <2> DEFINE r == RemoveFirst(recent, c)
  <2>1. \A a, b \in 1 .. Len(r) : a < b =>
          \E k, l \in 1 .. Len(recent) :
            /\ k < l /\ recent[k] = r[a] /\ recent[l] = r[b]
            /\ (l = b \/ (l = b + 1 /\ \E at \in 1 .. b : recent[at] = c))
    BY <1>1, RemoveFacts
  <2>2. recent' = r
    OBVIOUS
  <2> HIDE DEF r
  <2> QED
    BY <2>1, <2>2
<1>3. j \in Nat /\ l \in Nat /\ l <= Len(recent)
  <2>1. recent' \in Seq(Convs)
    BY <1>1, RemoveFacts
  <2>2. Len(recent') \in Nat
    BY <2>1, LenProperties
  <2> QED
    BY <1>1, <2>2, SMT
<1>4. CASE l <= n
  BY <1>2, <1>4 DEF InFront
<1>5. CASE ~(l <= n)
  <2>1. l = n + 1 /\ j = n /\ n < Len(recent)
    BY <1>2, <1>3, <1>5, SMT
  <2>2. ~(n + 1 = n)
    BY SMT
  <2>3. \E at \in 1 .. n : recent[at] = c
    BY <1>2, <2>1, <2>2
  <2> QED
    BY <1>2, <2>1, <2>3
<1> QED
  BY <1>4, <1>5

LEMMA ReachIsNat ==
  ASSUME TypeInv, NEW d \in Daily
  PROVE  Reach(d) \in Nat /\ Len(recent) \in Nat /\ offset[d] \in Nat
BY DailyOrImport, LenProperties DEF Reach, TypeInv, ChatsTypeOK

(* Whatever the user does, no session sees more than the list change. *)
LEMMA UpdateKeeps ==
  ASSUME ChatsInv, NEW c \in Convs, Update(c)
  PROVE  ChatsInv'
<1> USE DailyOrImport
<1>1. /\ TypeInv /\ changes < MaxChanges /\ changes \in Nat /\ changes' = changes + 1
      /\ time' = [time EXCEPT ![c] = @ + 1] /\ left' = left \ {c} /\ faults' = faults
      /\ UNCHANGED <<index, body, phase, entries, fresh, offset, run, queue, again, held,
                     archive, pending, dropped, alone>>
      /\ MaxChanges \in Nat
  BY ChatsConstants DEF ChatsInv, TypeInv, ChatsTypeOK, Update, storeVars, sessionVars
<1>2. /\ recent' \in Seq(Convs) /\ IsInjective(recent') /\ Listed' = Listed \cup {c}
      /\ Len(recent') \in Nat
  BY <1>1, UpdateFacts
<1>3. /\ \A e \in Convs : time[e] \in Nat /\ time[e] <= changes /\ time'[e] \in Nat
      /\ time'[c] = time[c] + 1 /\ \A e \in Convs : e # c => time'[e] = time[e]
      /\ \A e \in Convs : time[e] <= time'[e]
  <2>1. \A e \in Convs : time[e] \in Nat /\ time[e] <= changes
    BY <1>1, Ages DEF TypeInv
  <2>2. time \in [Convs -> Times]
    BY <1>1 DEF TypeInv, ChatsTypeOK
  <2>3. time'[c] = time[c] + 1 /\ \A e \in Convs : e # c => time'[e] = time[e]
    BY <1>1, <2>2
  <2> QED
    BY <2>1, <2>3, SMT
<1>4. TypeInv'
  <2>1. \A e \in Convs : time'[e] <= changes'
    BY <1>1, <1>3, SMT
  <2>2. time' \in [Convs -> Times] /\ changes' \in 0 .. MaxChanges
    <3>1. changes' \in 0 .. MaxChanges
      BY <1>1, SMT
    <3>2. time[c] + 1 \in Times
      BY <1>1, <1>3, SMT DEF Times
    <3> QED
      BY <1>1, <3>1, <3>2 DEF TypeInv, ChatsTypeOK
  <2>3. ChatsTypeOK'
    BY <1>1, <1>2, <2>2 DEF TypeInv, ChatsTypeOK
  <2>4. \A e \in Listed' : time'[e] > 0
    <3>1. time'[c] > 0
      BY <1>3, SMT
    <3>2. Listed \subseteq Convs
      BY <1>1, RangeOfList DEF Listed, TypeInv, ChatsTypeOK
    <3> QED
      BY <1>1, <1>2, <1>3, <3>1, <3>2 DEF TypeInv
  <2>5. Kinds' /\ \A s \in Sessions : Memory(s)'
    BY <1>1 DEF TypeInv, Kinds, Memory
  <2> QED
    BY <2>1, <2>3, <2>4, <2>5 DEF TypeInv
<1>5. Past'
  <2>1. \A e \in Convs, v \in Nat : v <= time[e] => v <= time'[e]
    BY <1>3, SMT
  <2>2. \A e \in Convs : index'[e] <= time'[e] /\ body'[e] <= time'[e]
    BY <1>1, <2>1, Ages DEF ChatsInv, Past
  <2>3. \A m \in Imports, e \in Convs : archive'[m][e] <= time'[e]
    BY <1>1, <2>1, Ages DEF ChatsInv, Past
  <2>4. ASSUME NEW s \in Sessions PROVE NotNewer(s)'
    <3>1. NotNewer(s) /\ Memory(s)
      BY <1>1 DEF ChatsInv, Past, TypeInv
    <3>2. \A e \in Convs : entries'[s][e] <= time'[e]
      BY <1>1, <2>1, <3>1, Ages DEF NotNewer
    <3>3. Waiting(s)' = Waiting(s) /\ Waiting(s) \subseteq Summaries
      BY <1>1, RangeOfList DEF Waiting, TypeInv, ChatsTypeOK
    <3>4. \A w \in Waiting(s) : w.id \in Convs /\ w.update_time \in Nat
      BY <3>3 DEF Summaries, Times
    <3>5. \A w \in Waiting(s)' : w.update_time <= time'[w.id]
      BY <2>1, <3>1, <3>3, <3>4 DEF NotNewer
    <3>6. phase[s] \in Storing => Head(queue[s]).id \in Convs /\ held[s] \in Nat
      <4> SUFFICES ASSUME phase[s] \in Storing PROVE Head(queue[s]).id \in Convs
        BY <1>1, Ages
      <4>1. queue[s] \in Seq(Summaries) /\ queue[s] # <<>>
        BY <1>1, <3>1 DEF TypeInv, ChatsTypeOK, Memory
      <4>2. Head(queue[s]) \in Summaries
        BY <4>1, HeadTailProperties
      <4> QED
        BY <4>2 DEF Summaries
    <3>7. phase'[s] \in Storing => held'[s] <= time'[Head(queue'[s]).id]
      BY <1>1, <2>1, <3>1, <3>6 DEF NotNewer
    <3> QED
      BY <3>2, <3>5, <3>7 DEF NotNewer
  <2> QED
    BY <2>2, <2>3, <2>4 DEF Past
<1>6. \A s \in Sessions : Ahead(s)'
  BY <1>1 DEF ChatsInv, Ahead, Waiting
<1>7. Lone'
  BY <1>1 DEF ChatsInv, Lone, Backed, IndexIsBacked
<1>8. \A v \in Nat : v <= time[c] => v # time'[c]
  BY <1>3, SMT
<1>9. InFront(recent', Len(recent'), Current', (left \cup Hidden)')
  <2>1. /\ c \notin Current' /\ Current' \subseteq Current /\ Current \subseteq Current' \cup {c}
        /\ left \cup Hidden \subseteq (left \cup Hidden)' \cup {c}
    BY <1>1, <1>3, <1>8, Ages DEF ChatsInv, Past, Current
  <2>2. InFront(recent, Len(recent), Current, left \cup Hidden) /\ Len(recent) \in Nat
    BY <1>1, LenProperties DEF ChatsInv, Sound, TypeInv, ChatsTypeOK
  <2> QED
    BY <1>1, <1>2, <2>1, <2>2, UpdateInFront
<1>10. ASSUME NEW d \in Daily, fresh'[d]
       PROVE  InFront(recent', Reach(d)', Coming(d)', (left \cup Hidden \cup dropped[d])')
  <2>1. Reach(d) \in Nat /\ Reach(d)' \in Nat /\ (Reach(d)' = Reach(d) \/ Reach(d) = Len(recent))
    BY <1>1, <1>2, ReachIsNat DEF Reach
  <2>2. Waiting(d)' = Waiting(d)
    BY <1>1 DEF Waiting
  <2>3. c \notin Coming(d)'
    <3>1. entries'[d][c] # time'[c]
      BY <1>1, <1>8, Ages DEF ChatsInv, Past, NotNewer
    <3>2. Summary(c)' \notin Waiting(d)
      <4> SUFFICES ASSUME Summary(c)' \in Waiting(d) PROVE FALSE
        OBVIOUS
      <4>1. Summary(c)'.id = c /\ Summary(c)'.update_time = time'[c]
        BY DEF Summary
      <4>2. time'[c] <= time[c]
        BY <4>1 DEF ChatsInv, Past, NotNewer
      <4> QED
        BY <1>3, <4>2, SMT
    <3> QED
      BY <2>2, <3>1, <3>2 DEF Coming
  <2>4. Coming(d)' \subseteq Coming(d) /\ Coming(d) \subseteq Coming(d)' \cup {c}
    <3>1. \A e \in Convs : e # c => Summary(e)' = Summary(e)
      BY <1>3 DEF Summary
    <3> QED
      BY <1>1, <1>3, <2>2, <2>3, <3>1 DEF Coming
  <2>5. InFront(recent, Reach(d), Coming(d), left \cup Hidden \cup dropped[d])
    BY <1>1, <1>10 DEF ChatsInv, Sound
  <2>6. left \cup Hidden \cup dropped[d] \subseteq (left \cup Hidden \cup dropped[d])' \cup {c}
    BY <1>1
  <2> QED
    BY <1>1, <2>1, <2>3, <2>4, <2>5, <2>6, UpdateInFront
<1>11. ASSUME NEW m \in Imports PROVE InFront(recent', Len(recent'), Archived(m)', {})
  <2>1. c \notin Archived(m)' /\ Archived(m)' \subseteq Archived(m) /\ Archived(m) \subseteq Archived(m)' \cup {c}
    BY <1>1, <1>3, <1>8, Ages DEF ChatsInv, Past, Archived
  <2>2. InFront(recent, Len(recent), Archived(m), {}) /\ Len(recent) \in Nat
    BY <1>1, LenProperties DEF ChatsInv, Sound, TypeInv, ChatsTypeOK
  <2> QED
    BY <1>1, <1>2, <2>1, <2>2, UpdateInFront
<1>12. Sound'
  BY <1>9, <1>10, <1>11 DEF Sound
<1> QED
  BY <1>4, <1>5, <1>6, <1>7, <1>12 DEF ChatsInv

LEMMA DeleteKeeps ==
  ASSUME ChatsInv, NEW c \in Convs, Delete(c)
  PROVE  ChatsInv'
<1> USE DailyOrImport
<1> DEFINE slid(s) == /\ phase[s] = "list" /\ offset[s] < Len(recent)
                      /\ c \in Range(SubSeq(recent, 1, offset[s]))
<1>1. /\ TypeInv /\ changes < MaxChanges /\ changes \in Nat /\ changes' = changes + 1
      /\ recent' = RemoveFirst(recent, c) /\ recent \in Seq(Convs) /\ IsInjective(recent)
      /\ left' = left \cup {recent[offset[s] + 1] : s \in {t \in Daily : slid(t)}}
      /\ UNCHANGED <<time, faults, index, body, phase, entries, fresh, offset, run, queue,
                     again, held, archive, pending, dropped, alone>>
      /\ MaxChanges \in Nat
  BY ChatsConstants DEF ChatsInv, TypeInv, ChatsTypeOK, Delete, storeVars, sessionVars
<1>2. recent' \in Seq(Convs) /\ IsInjective(recent') /\ Listed' = Listed \ {c}
  <2> DEFINE r == RemoveFirst(recent, c)
  <2>1. r \in Seq(Convs) /\ IsInjective(r) /\ Range(r) = Listed \ {c}
    BY <1>1, RemoveFacts
  <2>2. recent' = r
    BY <1>1
  <2> HIDE DEF r
  <2> QED
    BY <2>1, <2>2 DEF Listed
<1>3. /\ Len(recent) \in Nat /\ Len(recent') \in Nat
      /\ \A i \in 1 .. Len(recent) : recent[i] \in Convs
  BY <1>1, <1>2, LenProperties, ElementOfSeq
<1>4. ASSUME NEW d \in Daily, slid(d) PROVE recent[offset[d] + 1] \in left' \cap Convs
  <2>1. offset[d] + 1 \in 1 .. Len(recent)
    BY <1>1, <1>3, <1>4, ReachIsNat, SMT
  <2> QED
    BY <1>1, <1>3, <1>4, <2>1
<1>5. left' \subseteq Convs /\ left \subseteq left'
  <2>1. left \subseteq Convs
    BY <1>1 DEF TypeInv, ChatsTypeOK
  <2> QED
    BY <1>1, <1>4, <2>1
<1> HIDE DEF slid
<1>6. TypeInv'
  <2>1. \A e \in Convs : time'[e] <= changes'
    <3>1. \A e \in Convs : time[e] <= changes /\ time[e] \in Nat
      BY <1>1, Ages DEF TypeInv
    <3> QED
      BY <1>1, <3>1, SMT
  <2>2. changes' \in 0 .. MaxChanges
    BY <1>1, SMT
  <2>3. ChatsTypeOK'
    BY <1>1, <1>2, <1>5, <2>2 DEF TypeInv, ChatsTypeOK
  <2>4. \A e \in Listed' : time'[e] > 0
    BY <1>1, <1>2 DEF TypeInv
  <2>5. Kinds' /\ \A s \in Sessions : Memory(s)'
    BY <1>1 DEF TypeInv, Kinds, Memory
  <2> QED
    BY <2>1, <2>3, <2>4, <2>5 DEF TypeInv
<1>7. Past'
  BY <1>1 DEF ChatsInv, Past, NotNewer, Waiting
<1>8. \A s \in Sessions : Ahead(s)'
  BY <1>1 DEF ChatsInv, Ahead, Waiting
<1>9. Lone'
  BY <1>1 DEF ChatsInv, Lone, Backed, IndexIsBacked
<1>10. \A G, X, X2 : InFront(recent, Len(recent), G, X) /\ X \subseteq X2
                      => InFront(recent', Len(recent'), G, X2)
  <2> TAKE G, X, X2
  <2> HAVE InFront(recent, Len(recent), G, X) /\ X \subseteq X2
  <2>1. ~(Len(recent) < Len(recent))
    BY <1>3, SMT
  <2>2. InFront(recent', Len(recent), G, X2)
    BY <1>1, <1>3, <2>1, DeleteInFront
  <2>3. \A j \in 1 .. Len(recent') : j <= Len(recent)
    <3>1. CASE recent' = recent
      BY <1>3, <3>1, SMT
    <3>2. CASE recent' # recent
      <4>1. PICK at \in 1 .. Len(recent) : recent' = RemoveAt(recent, at)
        BY <1>1, <3>2, RemoveFirstIsRemoveAt
      <4>2. Len(recent') = Len(recent) - 1
        BY <1>1, <4>1, RemoveAtProperties
      <4> QED
        BY <1>3, <4>2, SMT
    <3> QED
      BY <3>1, <3>2
  <2> QED
    BY <2>2, <2>3 DEF InFront
<1>11. InFront(recent', Len(recent'), Current', (left \cup Hidden)')
  <2>1. Current' = Current /\ left \cup Hidden \subseteq (left \cup Hidden)'
    BY <1>1, <1>5 DEF Current
  <2>2. InFront(recent, Len(recent), Current, left \cup Hidden)
    BY DEF ChatsInv, Sound
  <2> QED
    BY <1>10, <2>1, <2>2
<1>12. ASSUME NEW d \in Daily, fresh'[d]
       PROVE  InFront(recent', Reach(d)', Coming(d)', (left \cup Hidden \cup dropped[d])')
  <2>1. Coming(d)' = Coming(d)
    BY <1>1 DEF Coming, Summary, Waiting
  <2>2. left \cup Hidden \cup dropped[d] \subseteq (left \cup Hidden \cup dropped[d])'
    BY <1>1, <1>5
  <2>3. InFront(recent, Reach(d), Coming(d), left \cup Hidden \cup dropped[d])
    BY <1>1, <1>12 DEF ChatsInv, Sound
  <2>4. CASE phase[d] = "list"
    <3>1. Reach(d) = offset[d] /\ Reach(d)' = offset[d] /\ offset[d] \in Nat
      BY <1>1, <2>4, ReachIsNat DEF Reach
    <3>2. ASSUME offset[d] < Len(recent), NEW at \in 1 .. offset[d], recent[at] = c
          PROVE  recent[offset[d] + 1] \in left'
      <4>1. slid(d)
        <5> DEFINE seen == SubSeq(recent, 1, offset[d])
        <5>1. \A i \in 1 .. offset[d] : recent[i] \in Convs
          BY <1>3, <3>1, <3>2, SMT
        <5>2. /\ seen \in Seq(Convs)
              /\ Len(seen) = IF 1 <= offset[d] THEN offset[d] - 1 + 1 ELSE 0
              /\ \A i \in 1 .. offset[d] - 1 + 1 : seen[i] = recent[1 + i - 1]
          BY <1>1, <3>1, <5>1, SubSeqProperties
        <5> HIDE DEF seen
        <5>3. at \in 1 .. Len(seen) /\ seen[at] = recent[at]
          BY <3>1, <5>2, SMT
        <5>4. c \in Range(seen)
          BY <3>2, <5>2, <5>3, RangeOfList
        <5> QED
          BY <2>4, <3>2, <5>4 DEF seen, slid
      <4> QED
        BY <1>4, <4>1 DEF slid
    <3> QED
      BY <1>1, <2>1, <2>2, <2>3, <3>1, <3>2, DeleteInFront
  <2>5. CASE phase[d] # "list"
    BY <1>1, <1>10, <2>1, <2>2, <2>3, <2>5 DEF Reach
  <2> QED
    BY <2>4, <2>5
<1>13. ASSUME NEW m \in Imports PROVE InFront(recent', Len(recent'), Archived(m)', {})
  <2>1. Archived(m)' = Archived(m)
    BY <1>1 DEF Archived
  <2> QED
    BY <1>10, <2>1 DEF ChatsInv, Sound
<1>14. Sound'
  BY <1>11, <1>12, <1>13 DEF Sound
<1> QED
  BY <1>6, <1>7, <1>8, <1>9, <1>14 DEF ChatsInv

-----------------------------------------------------------------------------
LEMMA ChatsInitInv == Init => ChatsInv
<1> SUFFICES ASSUME Init PROVE ChatsInv
  OBVIOUS
<1> USE DailyOrImport DEF Init
<1>1. /\ 0 \in Times /\ 0 \in 0 .. StopAfter - 1 /\ 0 \in 0 .. MaxChanges /\ 0 \in 0 .. MaxFaults
      /\ <<>> \in Seq(Convs) /\ <<>> \in Seq(Summaries) /\ Len(<<>>) = 0
  BY ChatsConstants, EmptySeq, SMT DEF Times
<1>2. Listed = {} /\ \A s \in Sessions : Waiting(s) = {}
  BY RangeOfEmpty DEF Listed, Waiting
<1>3. IsInjective(recent)
  <2>1. <<>> \in Seq({})
    BY EmptySeq
  <2>2. DOMAIN <<>> = {}
    <3>1. DOMAIN <<>> = 1 .. 0
      BY <1>1, <2>1, RangeOfList
    <3> QED
      BY <3>1, SMT
  <2> QED
    BY <2>2 DEF IsInjective
<1>4. TypeInv
  <2>1. ChatsTypeOK
    BY <1>1, <1>3, NothingIsTyped DEF ChatsTypeOK, Phases
  <2>2. \A c \in Convs : time[c] <= changes
    BY NothingIsTyped, SMT
  <2>3. Kinds /\ \A s \in Sessions : Memory(s)
    BY DEF Kinds, Memory, Storing
  <2> QED
    BY <1>2, <2>1, <2>2, <2>3 DEF TypeInv
<1>5. Past
  <2>1. 0 <= 0
    BY SMT
  <2> QED
    BY <1>2, <2>1, NothingIsTyped DEF Past, NotNewer, Storing
<1>6. \A s \in Sessions : Ahead(s)
  BY DEF Ahead
<1>7. Lone
  <2>1. 0 <= 0
    BY SMT
  <2> QED
    BY <2>1, NothingIsTyped DEF Lone, Backed, Storing, IndexIsBacked
<1>8. Sound
  <2>1. 1 .. 0 = {}
    BY SMT
  <2> QED
    BY <1>1, <2>1 DEF Sound, InFront
<1> QED
  BY <1>4, <1>5, <1>6, <1>7, <1>8 DEF ChatsInv

LEMMA ChatsNextInv == ChatsInv /\ [Next]_vars => ChatsInv'
<1> SUFFICES ASSUME ChatsInv, [Next]_vars PROVE ChatsInv'
  OBVIOUS
<1> USE DailyOrImport
<1>1. CASE \E c \in Convs : Update(c) \/ Delete(c)
  BY <1>1, UpdateKeeps, DeleteKeeps
<1>2. CASE \E d \in Daily : Work(d) \/ FetchFails(d)
  BY <1>2, StartKeeps, CollectOutdatedKeeps, FetchKeeps, StoreConversationKeeps, SweepKeeps,
     SaveIndexKeeps, SaveIndexRefusedKeeps, FetchFailsKeeps DEF Work
<1>3. CASE \E m \in Imports : Importing(m)
  BY <1>3, ExportKeeps, StartImportKeeps, SaveIndexKeeps, SaveIndexRefusedKeeps, UploadKeeps,
     UploadFailsKeeps DEF Importing
<1>4. CASE \E s \in Sessions : Abort(s)
  BY <1>4, AbortKeeps
<1>5. CASE UNCHANGED vars
  <2> USE <1>5 DEF vars, upstreamVars, storeVars, sessionVars
  <2>1. TypeInv'
    BY DEF ChatsInv, TypeInv, ChatsTypeOK, Listed, Kinds, Memory
  <2>2. Past'
    BY DEF ChatsInv, Past, NotNewer, Waiting
  <2>3. \A s \in Sessions : Ahead(s)'
    BY DEF ChatsInv, Ahead, Waiting
  <2>4. Lone'
    BY DEF ChatsInv, Lone, Backed, IndexIsBacked
  <2>5. Sound'
    <3>1. Current' = Current /\ \A m \in Imports : Archived(m)' = Archived(m)
      BY DEF Current, Archived
    <3>2. \A d \in Daily : Coming(d)' = Coming(d) /\ Reach(d)' = Reach(d)
      BY DEF Coming, Summary, Waiting, Reach
    <3> QED
      BY <3>1, <3>2 DEF ChatsInv, Sound
  <2> QED
    BY <2>1, <2>2, <2>3, <2>4, <2>5 DEF ChatsInv
<1> QED
  BY <1>1, <1>2, <1>3, <1>4, <1>5 DEF Next

LEMMA ChatsInvHolds == Spec => []ChatsInv
BY ChatsInitInv, ChatsNextInv, PTL DEF Spec

-----------------------------------------------------------------------------
(***************************************************************************)
(* ChatsTypeOK: every variable has its type; the row of known              *)
(* conversations never reaches StopAfter while listing goes on             *)
(* (chatgpt_chats.rs:321-367).                                             *)
(***************************************************************************)
THEOREM ChatsTypeHolds == Spec => []ChatsTypeOK
<1>1. ChatsInv => ChatsTypeOK
  BY DEF ChatsInv, TypeInv
<1> QED
  BY <1>1, ChatsInvHolds, PTL

(***************************************************************************)
(* EarlyStopIsSound: what is not up to date and was left behind by no      *)
(* session comes before everything that is up to date, so that the stop at *)
(* StopAfter known conversations in a row (chatgpt_chats.rs:321-367)       *)
(* misses nothing, whatever overlaps, fails or is imported.                *)
(***************************************************************************)
THEOREM EarlyStopIsSoundHolds == Spec => []EarlyStopIsSound
<1>1. ChatsInv => EarlyStopIsSound
  <2> SUFFICES ASSUME ChatsInv, NEW i \in 1 .. Len(recent), NEW j \in 1 .. Len(recent), i < j,
                      index[recent[j]] # time[recent[j]], recent[j] \notin left \cup Hidden
               PROVE  index[recent[i]] # time[recent[i]]
    BY DEF EarlyStopIsSound
  <2>1. recent[i] \in Convs /\ recent[j] \notin Current /\ j <= Len(recent)
    <3>1. recent \in Seq(Convs)
      BY DEF ChatsInv, TypeInv, ChatsTypeOK
    <3>2. Len(recent) \in Nat /\ recent[i] \in Convs
      BY <3>1, LenProperties, ElementOfSeq
    <3> QED
      BY <3>2, SMT DEF Current
  <2>2. recent[i] \notin Current
    BY <2>1 DEF ChatsInv, Sound, InFront
  <2> QED
    BY <2>1, <2>2 DEF Current
<1> QED
  BY <1>1, ChatsInvHolds, PTL

(***************************************************************************)
(* IndexIsBackedAlone: as long as daily runs follow one another and no     *)
(* import runs, the index vouches for no version that the body of the      *)
(* conversation is older than (store_conversation,                         *)
(* chatgpt_chats.rs:163-188).                                              *)
(***************************************************************************)
THEOREM IndexIsBackedAloneHolds == Spec => []IndexIsBackedAlone
<1>1. ChatsInv => IndexIsBackedAlone
  BY DEF ChatsInv, Lone, IndexIsBackedAlone
<1> QED
  BY <1>1, ChatsInvHolds, PTL

(* The stored index is only changed by a session that saves its own. *)
LEMMA OnlySavesChangeIndex ==
  ASSUME [Next]_vars, index' # index
  PROVE  \E s \in Sessions : SaveIndex(s)
<1> USE DailyOrImport
<1>1. CASE \E c \in Convs : Update(c) \/ Delete(c)
  BY <1>1 DEF Update, Delete, storeVars
<1>2. CASE \E d \in Daily : Work(d) \/ FetchFails(d)
  BY <1>2 DEF Work, FetchFails, Start, CollectOutdated, Fetch, StoreConversation, Sweep,
              SaveIndexRefused, storeVars
<1>3. CASE \E m \in Imports : Importing(m)
  BY <1>3 DEF Importing, Export, StartImport, Upload, UploadFails, SaveIndexRefused, storeVars
<1>4. CASE \E s \in Sessions : Abort(s)
  BY <1>4 DEF Abort
<1>5. CASE UNCHANGED vars
  BY <1>5 DEF vars, storeVars
<1> QED
  BY <1>1, <1>2, <1>3, <1>4, <1>5 DEF Next

(***************************************************************************)
(* NoLostUpdate: of sessions that overlap, none undoes an entry of         *)
(* another; an entry goes down only to what an import's archive has (the   *)
(* conditional put of save_index, chatgpt_chats.rs:143-161).               *)
(***************************************************************************)
THEOREM NoLostUpdateHolds == Spec => NoLostUpdate
<1> DEFINE Kept == \A c \in Convs : index'[c] < index[c] =>
                     \E m \in Imports : phase[m] = "upload" /\ index'[c] = archive[m][c]
<1>1. ChatsInv /\ [Next]_vars => [Kept]_vars
  <2> SUFFICES ASSUME ChatsInv, [Next]_vars, NEW c \in Convs, index'[c] < index[c]
               PROVE  \E m \in Imports : phase[m] = "upload" /\ index'[c] = archive[m][c]
    OBVIOUS
  <2>1. TypeInv /\ index[c] \in Nat /\ ~(index[c] < index[c])
    BY Ages DEF ChatsInv
  <2>2. PICK s \in Sessions : SaveIndex(s)
    BY <2>1, OnlySavesChangeIndex
  <2>3. fresh[s] /\ Finished(s) /\ index'[c] = entries[s][c]
    BY <2>2 DEF SaveIndex, WriteIndex
  <2>4. s \notin Daily
    <3>1. s \in Daily => index[c] <= entries[s][c]
      BY <2>3 DEF ChatsInv, Ahead
    <3>2. entries[s][c] \in Nat
      BY <2>1, Ages
    <3> QED
      BY <2>1, <2>3, <3>1, <3>2, SMT
  <2>5. s \in Imports /\ phase[s] = "upload"
    BY <2>1, <2>3, <2>4, DailyOrImport DEF Finished, TypeInv, Kinds
  <2>6. entries[s][c] \in {index[c], archive[s][c]}
    BY <2>3, <2>5 DEF ChatsInv, Ahead
  <2> QED
    BY <2>1, <2>3, <2>5, <2>6
<1> QED
  BY <1>1, ChatsInvHolds, PTL DEF Spec, NoLostUpdate
===============================================================================
