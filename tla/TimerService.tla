---------------------------- MODULE TimerService -----------------------------
(***************************************************************************)
(* What the users of CEventLoopManager rely on, without a timerfd, a vector *)
(* or deferred functions: a timer is set and unset by its user at will, its *)
(* callback starts only after its time has passed and never inside another  *)
(* timer's callback, starting it unsets the timer, and what the callback    *)
(* sets again stays set when it returns.                                    *)
(***************************************************************************)
EXTENDS Integers

CONSTANTS Timers, Unset

VARIABLES due,      \* ticks left of each timer that is set, -1: overdue
          calling   \* the timer whose callback runs, or "none"

Init ==
  /\ due = [t \in Timers |-> Unset]
  /\ calling = "none"

(* the user arms, re-arms, registers, disarms, removes or loses a timer     *)
Set(t) ==
  /\ due'[t] \in Int \cup {Unset}
  /\ due' = [due EXCEPT ![t] = due'[t]]
  /\ UNCHANGED calling

Call(t) ==
  /\ calling = "none"
  /\ due[t] # Unset /\ due[t] < 0
  /\ due' = [due EXCEPT ![t] = Unset]
  /\ calling' = t

Return ==
  /\ calling # "none"
  /\ calling' = "none"
  /\ UNCHANGED due

Tick ==
  /\ due' = [t \in Timers |-> IF due[t] = Unset \/ due[t] < 0
                              THEN due[t] ELSE due[t] - 1]
  /\ UNCHANGED calling

Next == Tick \/ Return \/ \E t \in Timers : Set(t) \/ Call(t)

Spec == Init /\ [][Next]_<<due, calling>>

Overdue(t) == due[t] # Unset /\ due[t] < 0

Answered == \A t \in Timers : Overdue(t) ~> ~Overdue(t)
=============================================================================
