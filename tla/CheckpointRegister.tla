------------------------- MODULE CheckpointRegister --------------------------
(***************************************************************************)
(* What the capsule promises about latest.json: a register whose content a *)
(* process replaces only if it is still the very checkpoint it looked at,  *)
(* and at most once.  What it looked at may be out of date by then, or     *)
(* even be so when it looks: a load answers with some checkpoint the       *)
(* register has held.  A run replaces the checkpoint it restored by one    *)
(* that is strictly newer; seeding may start an empty register, and may go *)
(* back in time.                                                           *)
(***************************************************************************)
EXTENDS Integers

CONSTANTS Loaders,   \* the processes, all of which look at the register
          Savers,    \* those that save back what they restored
          Seeders,   \* those that save a fresh login
          None       \* no checkpoint

VARIABLES current,   \* the authoritative checkpoint
          loaded,    \* the checkpoint each process found, if any
          held       \* every checkpoint that has been authoritative

regVars == <<current, loaded, held>>

Init ==
  /\ loaded = [p \in Loaders |-> None]
  /\ held = {current} \ {None}

Load(p) ==
  /\ loaded[p] = None
  /\ \E checkpoint \in held : loaded' = [loaded EXCEPT ![p] = checkpoint]
  /\ UNCHANGED <<current, held>>

(* p's first checkpoint takes the place of the one it loaded. *)
Install(p) ==
  /\ current = loaded[p]
  /\ \A checkpoint \in held : checkpoint.writer # p
  /\ current' # None /\ current'.writer = p
  /\ held' = held \cup {current'}
  /\ UNCHANGED loaded

Replace(p) ==
  /\ Install(p)
  /\ current # None /\ current'.created_at > current.created_at

Next ==
  \/ \E p \in Loaders : Load(p)
  \/ \E p \in Savers : Replace(p)
  \/ \E s \in Seeders : Install(s)

Spec == Init /\ [][Next]_regVars
==============================================================================
