---------------------------- MODULE UpdateStream -----------------------------
(***************************************************************************)
(* What a surface promises its client about content updates, whatever locks *)
(* and queues implement it: updates are shown one at a time, oldest first   *)
(* and none skipped, each only when its own conditions (its buffer's fence, *)
(* its target time) are met; and a null buffer takes effect at once, in the *)
(* place of everything that waits.                                          *)
(***************************************************************************)
EXTENDS Integers

VARIABLES commits,   \* updates committed so far, numbered from 1
          waiting,   \* committed, neither shown nor discarded
          ready,     \* updates whose conditions are met
          shown      \* the update shown last

vars == <<commits, waiting, ready, shown>>

Init == commits = 0 /\ waiting = {} /\ ready = {} /\ shown = 0

Commit ==
  /\ commits' = commits + 1
  /\ waiting' = waiting \cup {commits + 1}
  /\ ready' \in {ready, ready \cup {commits + 1}}
  /\ UNCHANGED shown

Unmap ==
  /\ commits' = commits + 1
  /\ shown' = commits + 1
  /\ waiting' = {}
  /\ ready \cup {commits + 1} \subseteq ready'

Meet ==
  /\ ready \subseteq ready'
  /\ UNCHANGED <<commits, waiting, shown>>

Show ==
  /\ \E id \in waiting \cap ready :
       /\ \A other \in waiting : id <= other
       /\ shown' = id
       /\ waiting' = waiting \ {id}
  /\ UNCHANGED <<commits, ready>>

Next == Commit \/ Unmap \/ Meet \/ Show

Spec == Init /\ [][Next]_vars
=============================================================================
