------------------------------ MODULE WorkQueue ------------------------------
(***************************************************************************)
(* What a background worker promises: requests are carried out one at a     *)
(* time, each once, in the order they were made, until it is shut down.     *)
(***************************************************************************)
EXTENDS Sequences

CONSTANTS Requests

VARIABLES waiting,   \* requests made and not carried out, oldest first
          carried    \* requests carried out

vars == <<waiting, carried>>

Init == waiting = <<>> /\ carried = {}

Make(r) ==
  /\ waiting' = Append(waiting, r)
  /\ UNCHANGED carried

Carry ==
  /\ waiting # <<>>
  /\ Head(waiting) \notin carried
  /\ carried' = carried \cup {Head(waiting)}
  /\ waiting' = Tail(waiting)

Next == Carry \/ \E r \in Requests : Make(r)

Spec == Init /\ [][Next]_vars
=============================================================================
