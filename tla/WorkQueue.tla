---------------------------- MODULE WorkQueue ----------------------------
(***************************************************************************)
(* What a registry of sets promises the workers that share it: a set is    *)
(* with one worker at a time, only that worker can complete it, and a      *)
(* completed set is never handed out again. The promise is kept until it   *)
(* is excused.                                                             *)
(***************************************************************************)
EXTENDS FiniteSets

CONSTANTS Workers, Sets, Nobody

VARIABLES
  owner,    \* the worker each set is with, or Nobody
  done,     \* completed sets
  excused

vars == <<owner, done, excused>>

Owned(w) == {s \in Sets : owner[s] = w}

Init ==
  /\ owner = [s \in Sets |-> Nobody]
  /\ done = {}
  /\ excused = FALSE

HandOut(w, batch) ==
  /\ \A s \in batch : owner[s] = Nobody /\ s \notin done
  /\ owner' = [s \in Sets |-> IF s \in batch THEN w ELSE owner[s]]
  /\ UNCHANGED <<done, excused>>

(* The worker is done with some of its sets and completed some of those.    *)
Settle(w, batch, completed) ==
  /\ batch \subseteq Owned(w) /\ completed \subseteq batch
  /\ owner' = [s \in Sets |-> IF s \in batch THEN Nobody ELSE owner[s]]
  /\ done' = done \cup completed
  /\ UNCHANGED excused

Next ==
  \/ \E w \in Workers, batch \in SUBSET Sets :
       \/ HandOut(w, batch)
       \/ \E completed \in SUBSET batch : Settle(w, batch, completed)
  \/ excused'

Spec == Init /\ [][Next]_vars
=============================================================================
