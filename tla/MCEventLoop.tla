----------------------------- MODULE MCEventLoop -----------------------------
(* EventLoop for TLC: the durations are 0 (overdue at the next tick), and   *)
(* one beyond IdleCap, so that a timer outlives a capped sleep.             *)
EXTENDS EventLoop

MCTimeouts == {0, 3}
=============================================================================
