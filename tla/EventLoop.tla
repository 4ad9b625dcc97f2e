------------------------------ MODULE EventLoop ------------------------------
(***************************************************************************)
(* Hyprland's main loop: CEventLoopManager and CEventLoopTimer              *)
(* (managers/eventLoop/), inside one iteration of libwayland's              *)
(* wl_event_loop_dispatch.                                                  *)
(*                                                                          *)
(* All timers share ONE timerfd.  Nothing re-arms it directly: every change *)
(* of a timer asks for a recalculation, which is itself a deferred function *)
(* (doLater) that runs when libwayland reaches its idle sources.  Handlers, *)
(* timer callbacks and deferred functions may all change timers, also while *)
(* the vector of timers is being walked.                                    *)
(*                                                                          *)
(* Time is relative: left[t] is the number of ticks before the timer's      *)
(* m_expires, -1 once it has passed, and fd the ticks before the timerfd is *)
(* readable.  A tick stands for the microsecond resolution of leftUs().     *)
(* The model therefore runs forever in a finite state space.                *)
(***************************************************************************)
EXTENDS Integers, Sequences

CONSTANTS Timers,     \* the CEventLoopTimer objects
          Timeouts,   \* the durations a caller may pass, in ticks
          IdleCap,    \* nudgeTimers' "10s": the longest sleep, in ticks
          MaxFns,     \* bound: queued deferred functions of callers
          Unset       \* std::nullopt, and the state of a disarmed timerfd

ASSUME TimersAssumption   == {"none", "later"} \cap Timers = {}
ASSUME TimeoutsAssumption == Timeouts \subseteq Nat
ASSUME IdleCapAssumption  == IdleCap \in Nat \ {0}
ASSUME UnsetAssumption    == Unset \notin Int
ASSUME MaxFnsAssumption   == MaxFns \in Nat

VARIABLES
  timers,           \* m_timers.timers (addTimer refuses duplicates, so a set)
  held,             \* the timers whose owner keeps its SP: in the code every
                    \* timer has exactly one owner outside the manager
  left,             \* m_expires of each timer, as ticks left, or Unset
  recalcScheduled,  \* m_timers.recalcScheduled
  fd,               \* the timerfd: Unset, or ticks before it is readable
  fns,              \* m_idle.fns
  idleSource,       \* m_idle.eventSource # nullptr
  batch,            \* the functions the idle handler moved out and still runs
  phase,            \* where wl_event_loop_dispatch is
  todo,             \* onTimerFire: members of CPY not visited yet
  running           \* whose function runs: a timer, "later", or "none"

timerVars == <<timers, held, left>>
idleVars  == <<recalcScheduled, fns, idleSource>>
loopVars  == <<fd, batch, phase, todo, running>>
vars      == <<timers, held, left, recalcScheduled, fd, fns, idleSource,
               batch, phase, todo, running>>

MaxOf(a, b) == IF a >= b THEN a ELSE b

Phases == {"poll",      \* in epoll_wait, nothing deferred is pending
           "due",       \* handlers run; the timerfd is among the ready fds
           "handlers",  \* handlers of the ready fds run
           "dispatch",  \* onTimerFire walks its copy of the timers
           "idle"}      \* wl_event_loop_dispatch_idle

Init ==
  /\ timers = {} /\ held = {} /\ todo = {}
  /\ left = [t \in Timers |-> Unset]
  /\ recalcScheduled = FALSE /\ idleSource = FALSE
  /\ fns = <<>> /\ batch = <<>>
  /\ fd = Unset
  /\ phase = "handlers"
  /\ running = "none"

-----------------------------------------------------------------------------
(* The parts every operation is made of                                     *)

(* doLater: queue the function, register the idle source if there is none   *)
Post(f) ==
  /\ fns' = Append(fns, f)
  /\ idleSource' = TRUE

(* scheduleRecalc: one nudgeTimers outstanding at a time                    *)
(* -- variant: the flag is set but not looked at                            *)
ScheduleRecalc_NoCheck == recalcScheduled' = TRUE /\ Post("nudge")

ScheduleRecalc ==
  \/ recalcScheduled /\ UNCHANGED idleVars
  \/ ~recalcScheduled /\ recalcScheduled' = TRUE /\ Post("nudge")

(* strongRef() during onTimerFire: CPY, the vector, the owner               *)
StrongRef(t) ==
  1 + (IF t \in timers THEN 1 ELSE 0) + (IF t \in held THEN 1 ELSE 0)

(* passed(): steadyNow() > *m_expires, strictly                             *)
Passed(t) == left[t] # Unset /\ left[t] < 0

(* -- variant: forgets that CPY itself holds a reference *)
Callable_IgnoresCopy(t) == StrongRef(t) > 1 /\ Passed(t)

Callable(t) == StrongRef(t) > 2 /\ Passed(t)

(* code of the compositor is on the stack and may call the manager          *)
InCode == phase \in {"due", "handlers"} \/ running # "none"

-----------------------------------------------------------------------------
(* Operations of the compositor's code: any handler, callback or deferred   *)
(* function may perform them, in any order                                  *)

(* makeShared<CEventLoopTimer>(timeout, ...) kept by its owner; a destroyed *)
(* timer's name may be used again                                           *)
CreateTimer(t, d) ==
  /\ InCode
  /\ t \notin held \cup timers \cup todo /\ running # t
  /\ held' = held \cup {t}
  /\ left' = [left EXCEPT ![t] = d]
  /\ UNCHANGED <<timers, idleVars, loopVars>>

(* -- variant: the new timer waits for somebody else's recalculation *)
AddTimer_NoRecalc(t) ==
  /\ InCode
  /\ t \in held /\ t \notin timers
  /\ timers' = timers \cup {t}
  /\ UNCHANGED <<held, left, idleVars, loopVars>>

AddTimer(t) ==
  /\ InCode
  /\ t \in held /\ t \notin timers
  /\ timers' = timers \cup {t}
  /\ ScheduleRecalc
  /\ UNCHANGED <<held, left, loopVars>>

RemoveTimer(t) ==
  /\ InCode
  /\ t \in held /\ t \in timers
  /\ timers' = timers \ {t}
  /\ ScheduleRecalc
  /\ UNCHANGED <<held, left, loopVars>>

(* updateTimeout, by the owner or by the callback on its own "self"         *)
UpdateTimeout(t, d) ==
  /\ InCode
  /\ t \in held \/ running = t
  /\ left' = [left EXCEPT ![t] = d]
  /\ ScheduleRecalc
  /\ UNCHANGED <<timers, held, loopVars>>

(* the owner drops its SP without telling the manager                       *)
LoseTimer(t) ==
  /\ InCode
  /\ t \in held
  /\ held' = held \ {t}
  /\ UNCHANGED <<timers, left, idleVars, loopVars>>

(* -- variant: queues the function but leaves the source to others          *)
DoLater_NoSource ==
  /\ InCode /\ phase # "idle"
  /\ Len(fns) < MaxFns
  /\ fns' = Append(fns, "later")
  /\ UNCHANGED <<timerVars, recalcScheduled, idleSource, loopVars>>

(* doLater with a function of the caller's.  A deferred function may change *)
(* timers but does not defer another one: none of the code's 28 uses        *)
(* re-posts itself, and libwayland would never leave the idle phase.        *)
DoLater ==
  /\ InCode /\ phase # "idle"
  /\ Len(fns) < MaxFns
  /\ Post("later")
  /\ UNCHANGED <<timerVars, recalcScheduled, loopVars>>

-----------------------------------------------------------------------------
(* The loop                                                                 *)

(* epoll_wait returns: the timerfd is handled in this round iff it was      *)
(* readable at that moment                                                  *)
Poll ==
  /\ phase = "poll"
  /\ phase' = IF fd = 0 THEN "due" ELSE "handlers"
  /\ UNCHANGED <<timerVars, idleVars, fd, batch, todo, running>>

(* timerWrite: read() the expirations, then onTimerFire takes its copy      *)
TimerFire ==
  /\ phase = "due"
  /\ phase' = "dispatch"
  /\ fd' = Unset
  /\ todo' = timers
  /\ UNCHANGED <<timerVars, idleVars, batch, running>>

(* one element of CPY: call() resets m_expires BEFORE the callback runs     *)
CallTimer(t) ==
  /\ phase = "dispatch" /\ running = "none" /\ t \in todo
  /\ Callable(t)
  /\ todo' = todo \ {t}
  /\ left' = [left EXCEPT ![t] = Unset]
  /\ running' = t
  /\ UNCHANGED <<timers, held, idleVars, fd, batch, phase>>

SkipTimer(t) ==
  /\ phase = "dispatch" /\ running = "none" /\ t \in todo
  /\ ~Callable(t)
  /\ todo' = todo \ {t}
  /\ UNCHANGED <<timerVars, idleVars, fd, batch, phase, running>>

(* -- variant: the one-shot timerfd is not armed again after the walk *)
EndTimerFire_NoRecalc ==
  /\ phase = "dispatch" /\ running = "none" /\ todo = {}
  /\ phase' = "handlers"
  /\ UNCHANGED <<timerVars, idleVars, fd, batch, todo, running>>

(* end of the walk: recalculate, back to the other handlers                 *)
EndTimerFire ==
  /\ phase = "dispatch" /\ running = "none" /\ todo = {}
  /\ phase' = "handlers"
  /\ ScheduleRecalc
  /\ UNCHANGED <<timerVars, fd, batch, todo, running>>

(* -- variant: call() resets m_expires after the callback *)
Return_ResetsExpiry ==
  /\ running # "none"
  /\ running' = "none"
  /\ left' = IF running \in Timers THEN [left EXCEPT ![running] = Unset] ELSE left
  /\ UNCHANGED <<timers, held, idleVars, fd, batch, phase, todo>>

(* the callback or deferred function on the stack returns                   *)
Return ==
  /\ running # "none"
  /\ running' = "none"
  /\ UNCHANGED <<timerVars, idleVars, fd, batch, phase, todo>>

EndHandlers ==
  /\ phase = "handlers"
  /\ phase' = "idle"
  /\ UNCHANGED <<timerVars, idleVars, fd, batch, todo, running>>

(* the idle handler: move fns out, forget the source, then run them         *)
TakeIdle ==
  /\ phase = "idle" /\ running = "none" /\ batch = <<>> /\ idleSource
  /\ batch' = fns
  /\ fns' = <<>>
  /\ idleSource' = FALSE
  /\ UNCHANGED <<timerVars, recalcScheduled, fd, phase, todo, running>>

(* clamp(next + 1, 1): the sleep that a timer with x ticks left asks for    *)
(* -- variant: sleeps exactly until the expiry                              *)
Sleep_Exact(x) == x

Sleep(x) == MaxOf(x, 0) + 1

(* the part of nudgeTimers that sets the timerfd for the timers it kept     *)
(* -- variant: without an armed timer the timerfd stays as it is            *)
ArmTimerfd_OnlyIfArmed(ts) ==
  LET armed == {t \in ts : left[t] # Unset}
  IN \/ armed = {} /\ fd' = fd
     \/ \E u \in armed : /\ \A t \in armed : left[u] <= left[t]
                         /\ fd' = Sleep(left[u])

ArmTimerfd(ts) ==
  LET armed == {t \in ts : left[t] # Unset}
  IN \E d \in {Sleep(IdleCap)} \cup {Sleep(left[t]) : t \in armed} :
       /\ d <= Sleep(IdleCap)
       /\ \A t \in armed : d <= Sleep(left[t])
       /\ fd' = d

(* nudgeTimers: forget the timers only the vector still refers to, then     *)
(* sleep until the earliest remaining one, IdleCap at most                  *)
NudgeTimers ==
  /\ phase = "idle" /\ running = "none" /\ batch # <<>> /\ Head(batch) = "nudge"
  /\ batch' = Tail(batch)
  /\ recalcScheduled' = FALSE
  /\ timers' = timers \cap held
  /\ ArmTimerfd(timers')
  /\ UNCHANGED <<held, left, fns, idleSource, phase, todo, running>>

RunLater ==
  /\ phase = "idle" /\ running = "none" /\ batch # <<>> /\ Head(batch) = "later"
  /\ batch' = Tail(batch)
  /\ running' = "later"
  /\ UNCHANGED <<timerVars, idleVars, fd, phase, todo>>

(* wl_event_loop_dispatch_idle returns once no idle source is left          *)
EndIdle ==
  /\ phase = "idle" /\ running = "none" /\ batch = <<>> /\ ~idleSource
  /\ phase' = "poll"
  /\ UNCHANGED <<timerVars, idleVars, fd, batch, todo, running>>

(* time passes, at any point                                                *)
Tick ==
  /\ left' = [t \in Timers |-> IF left[t] = Unset THEN Unset
                               ELSE MaxOf(left[t] - 1, -1)]
  /\ fd' = IF fd = Unset THEN Unset ELSE MaxOf(fd - 1, 0)
  /\ UNCHANGED <<timers, held, idleVars, batch, phase, todo, running>>

Operation ==
  \/ \E t \in Timers :
       \/ \E d \in Timeouts \cup {Unset} : CreateTimer(t, d) \/ UpdateTimeout(t, d)
       \/ AddTimer(t) \/ RemoveTimer(t) \/ LoseTimer(t)
  \/ DoLater

Loop ==
  \/ Poll \/ TimerFire \/ EndTimerFire \/ Return \/ EndHandlers
  \/ TakeIdle \/ NudgeTimers \/ RunLater \/ EndIdle
  \/ \E t \in Timers : CallTimer(t) \/ SkipTimer(t)

Next == Operation \/ Loop \/ Tick

(* Functions return and the loop goes on; time passes.  The strong fairness *)
(* says that, of infinitely many trips through the loop, some spend a tick  *)
(* between timerfd_settime and epoll_wait (libwayland flushes every client  *)
(* there): without it, operations in every round could move the timerfd one *)
(* tick ahead for ever.                                                     *)
Fairness ==
  /\ WF_vars(Loop) /\ WF_vars(Tick)
  /\ SF_vars(Tick /\ phase = "poll")

Spec == Init /\ [][Next]_vars
FairSpec == Spec /\ Fairness

-----------------------------------------------------------------------------
Functions == {"nudge", "later"}

TypeOK ==
  /\ timers \subseteq Timers /\ held \subseteq Timers /\ todo \subseteq Timers
  /\ left \in [Timers -> Nat \cup {-1, Unset}]
  /\ recalcScheduled \in BOOLEAN /\ idleSource \in BOOLEAN
  /\ fd \in Nat \cup {Unset}
  /\ fns \in Seq(Functions) /\ batch \in Seq(Functions)
  /\ phase \in Phases
  /\ running \in Timers \cup {"none", "later"}

Queued(s, f) == \E i \in 1..Len(s) : s[i] = f

(* the timers that are due a call: registered, owned and armed              *)
Live(t) == t \in timers /\ t \in held /\ left[t] # Unset

(* A request for a recalculation is never lost: while the flag is set, a    *)
(* nudgeTimers is queued (and only then), and a non-empty queue always has  *)
(* its idle source registered (doLater's "if (m_idle.eventSource) return"). *)
RecalcPending ==
  /\ recalcScheduled <=> Queued(fns, "nudge") \/ Queued(batch, "nudge")
  /\ idleSource <=> fns # <<>>

(* Never two of them: recalculations do not pile up, however many timers    *)
(* change between two trips through the idle phase.                         *)
SingleNudge ==
  /\ \A s \in {fns, batch} : \A i, j \in 1..Len(s) :
        s[i] = "nudge" /\ s[j] = "nudge" => i = j
  /\ ~(Queued(fns, "nudge") /\ Queued(batch, "nudge"))

(* The lost-wakeup invariant of the shared timerfd: whatever handlers,      *)
(* callbacks and deferred functions did to the timers, each timer that      *)
(* waits for a call is covered by a pending recalculation, by the walk in   *)
(* progress (which ends with one), or by a timerfd that becomes readable    *)
(* within a tick of the timer's expiry.                                     *)
Covered ==
  \A t \in Timers : Live(t) =>
    \/ recalcScheduled
    \/ phase = "dispatch"
    \/ fd # Unset /\ fd <= Sleep(left[t])

(* The heartbeat: once the loop has slept, it never sleeps with the timerfd *)
(* disarmed, which is what makes the manager notice lost timers at all.     *)
Heartbeat ==
  timers # {} /\ fd = Unset => recalcScheduled \/ phase = "dispatch"

(* A callback starts only for a timer that is registered, owned and overdue *)
(* at that very moment, also when an earlier callback of the same walk      *)
(* removed, lost or re-armed it after CPY was taken.                        *)
CallsOnlyOverdue ==
  [][\A t \in Timers : running' = t /\ running # t => Live(t) /\ left[t] < 0]_vars

(* addTimer's note: "will remove the timer if the ptr is lost", although    *)
(* losing the pointer schedules nothing                                     *)
LostIsForgotten ==
  \A t \in Timers : t \in timers \ held ~> t \notin timers \ held

(* every deferred function is run                                           *)
LaterRuns == Queued(fns, "later") ~> running = "later"

-----------------------------------------------------------------------------
(* What the loop promises its users, as TimerService states it              *)
Service == INSTANCE TimerService WITH
  due     <- [t \in Timers |-> IF t \in timers \cap held THEN left[t] ELSE Unset],
  calling <- IF running \in Timers THEN running ELSE "none"

(* The loop implements the service: no callback starts early or inside      *)
(* another one, and call()'s reset before the callback never undoes what    *)
(* the callback itself arms.                                                *)
ServiceSpec == Service!Spec

(* An overdue timer is called, unless it is re-armed, removed or lost first *)
ServiceAnswers == Service!Answered
=============================================================================
