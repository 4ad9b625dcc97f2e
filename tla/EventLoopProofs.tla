--------------------------- MODULE EventLoopProofs ---------------------------
(***************************************************************************)
(* Proofs about EventLoop, for any set of timers, any durations and any     *)
(* bound on the deferred functions.  Type correctness comes first; on it    *)
(* rest the coverage of every live timer by the shared timerfd, the         *)
(* accounting of the outstanding recalculation, and the refinement of       *)
(* TimerService.                                                            *)
(***************************************************************************)
EXTENDS EventLoop, SequenceTheorems, TLAPS

(* The queueing of a recalculation, as the other proofs use it: the flag is *)
(* set afterwards and the deferred functions keep their type.               *)
LEMMA ScheduleRecalcSets ==
  ASSUME TypeOK, ScheduleRecalc
  PROVE  /\ recalcScheduled' = TRUE
         /\ idleSource' \in BOOLEAN
         /\ fns' \in Seq(Functions)
<1> USE DEF ScheduleRecalc
<1>1. CASE recalcScheduled
  BY <1>1 DEF TypeOK, idleVars
<1>2. CASE ~recalcScheduled
  BY <1>2, AppendProperties DEF TypeOK, Post, idleVars, Functions
<1> QED
  BY <1>1, <1>2

(* Every variable keeps its type.                                           *)
LEMMA TypeStep == TypeOK /\ [Next]_vars => TypeOK'
<1> SUFFICES ASSUME TypeOK, [Next]_vars PROVE TypeOK'
  OBVIOUS
<1> USE TimeoutsAssumption, UnsetAssumption
<1>1. ASSUME NEW t \in Timers, NEW d \in Timeouts \cup {Unset}, CreateTimer(t, d)
      PROVE  TypeOK'
  BY <1>1 DEF TypeOK, CreateTimer, idleVars, loopVars
<1>2. ASSUME NEW t \in Timers, NEW d \in Timeouts \cup {Unset}, UpdateTimeout(t, d)
      PROVE  TypeOK'
  <2>1. /\ recalcScheduled' = TRUE /\ idleSource' \in BOOLEAN
        /\ fns' \in Seq(Functions)
    BY <1>2, ScheduleRecalcSets DEF UpdateTimeout
  <2>2. left' \in [Timers -> Nat \cup {-1, Unset}]
    BY <1>2 DEF TypeOK, UpdateTimeout
  <2> QED
    BY <1>2, <2>1, <2>2 DEF TypeOK, UpdateTimeout, loopVars
<1>3. ASSUME NEW t \in Timers, AddTimer(t) PROVE TypeOK'
  BY <1>3, ScheduleRecalcSets DEF TypeOK, AddTimer, loopVars
<1>4. ASSUME NEW t \in Timers, RemoveTimer(t) PROVE TypeOK'
  BY <1>4, ScheduleRecalcSets DEF TypeOK, RemoveTimer, loopVars
<1>5. ASSUME NEW t \in Timers, LoseTimer(t) PROVE TypeOK'
  BY <1>5 DEF TypeOK, LoseTimer, idleVars, loopVars
<1>6. CASE DoLater
  <2>1. fns' \in Seq(Functions) /\ idleSource' \in BOOLEAN
    BY <1>6, AppendProperties DEF TypeOK, DoLater, Post, Functions
  <2> QED
    BY <1>6, <2>1 DEF TypeOK, DoLater, timerVars, loopVars
<1>7. CASE Poll
  BY <1>7 DEF TypeOK, Poll, timerVars, idleVars, Phases
<1>8. CASE TimerFire
  BY <1>8 DEF TypeOK, TimerFire, timerVars, idleVars, Phases
<1>9. CASE EndTimerFire
  BY <1>9, ScheduleRecalcSets DEF TypeOK, EndTimerFire, timerVars, Phases
<1>10. CASE Return
  BY <1>10 DEF TypeOK, Return, timerVars, idleVars
<1>11. CASE EndHandlers
  BY <1>11 DEF TypeOK, EndHandlers, timerVars, idleVars, Phases
<1>12. CASE TakeIdle
  BY <1>12, EmptySeq DEF TypeOK, TakeIdle, timerVars
<1>13. CASE NudgeTimers
  <2>1. batch' \in Seq(Functions)
    BY <1>13, HeadTailProperties DEF TypeOK, NudgeTimers
  <2>2. \A x \in Int : Sleep(x) \in Nat
    BY DEF Sleep, MaxOf
  <2>3. fd' \in Nat
    BY <1>13, <2>2, IdleCapAssumption DEF TypeOK, NudgeTimers, ArmTimerfd
  <2> QED
    BY <1>13, <2>1, <2>3 DEF TypeOK, NudgeTimers
<1>14. CASE RunLater
  BY <1>14, HeadTailProperties DEF TypeOK, RunLater, timerVars, idleVars
<1>15. CASE EndIdle
  BY <1>15 DEF TypeOK, EndIdle, timerVars, idleVars, Phases
<1>16. ASSUME NEW t \in Timers, CallTimer(t) PROVE TypeOK'
  BY <1>16 DEF TypeOK, CallTimer, idleVars
<1>17. ASSUME NEW t \in Timers, SkipTimer(t) PROVE TypeOK'
  BY <1>17 DEF TypeOK, SkipTimer, timerVars, idleVars
<1>18. CASE Tick
  BY <1>18 DEF TypeOK, Tick, MaxOf, idleVars
<1>19. CASE UNCHANGED vars
  BY <1>19 DEF TypeOK, vars
<1> QED
  BY <1>1, <1>2, <1>3, <1>4, <1>5, <1>6, <1>7, <1>8, <1>9, <1>10, <1>11,
     <1>12, <1>13, <1>14, <1>15, <1>16, <1>17, <1>18, <1>19
     DEF Next, Operation, Loop

(* Type correctness of the main loop's model.                               *)
THEOREM TypeCorrect == Spec => []TypeOK
<1>1. Init => TypeOK
  BY UnsetAssumption, EmptySeq DEF Init, TypeOK, Phases
<1> QED
  BY <1>1, TypeStep, PTL DEF Spec

-----------------------------------------------------------------------------
(* No step leaves a live timer uncovered, or a sleeping loop without its    *)
(* timerfd: an operation sets recalcScheduled, the walk ends by setting it, *)
(* and nudgeTimers, the only step that clears it, arms the timerfd early    *)
(* enough for every timer it keeps.                                         *)
LEMMA CoveredStep ==
  TypeOK /\ Covered /\ Heartbeat /\ [Next]_vars => Covered' /\ Heartbeat'
<1> SUFFICES ASSUME TypeOK, Covered, Heartbeat, [Next]_vars
             PROVE  Covered' /\ Heartbeat'
  OBVIOUS
<1> USE UnsetAssumption DEF Covered, Heartbeat, Live, TypeOK
<1>1. ASSUME NEW t \in Timers, NEW d \in Timeouts \cup {Unset}, CreateTimer(t, d)
      PROVE  Covered' /\ Heartbeat'
  BY <1>1 DEF CreateTimer, idleVars, loopVars
<1>2. ASSUME NEW t \in Timers, NEW d \in Timeouts \cup {Unset}, UpdateTimeout(t, d)
      PROVE  Covered' /\ Heartbeat'
  BY <1>2, ScheduleRecalcSets DEF UpdateTimeout
<1>3. ASSUME NEW t \in Timers, AddTimer(t) PROVE Covered' /\ Heartbeat'
  BY <1>3, ScheduleRecalcSets DEF AddTimer
<1>4. ASSUME NEW t \in Timers, RemoveTimer(t) PROVE Covered' /\ Heartbeat'
  BY <1>4, ScheduleRecalcSets DEF RemoveTimer
<1>5. ASSUME NEW t \in Timers, LoseTimer(t) PROVE Covered' /\ Heartbeat'
  BY <1>5 DEF LoseTimer, idleVars, loopVars
<1>6. CASE DoLater
  BY <1>6 DEF DoLater, timerVars, loopVars
<1>7. CASE Poll
  BY <1>7 DEF Poll, timerVars, idleVars
<1>8. CASE TimerFire
  BY <1>8 DEF TimerFire
<1>9. CASE EndTimerFire
  BY <1>9, ScheduleRecalcSets DEF EndTimerFire
<1>10. CASE Return
  BY <1>10 DEF Return, timerVars, idleVars
<1>11. CASE EndHandlers
  BY <1>11 DEF EndHandlers, timerVars, idleVars
<1>12. CASE TakeIdle
  BY <1>12 DEF TakeIdle, timerVars
<1>13. CASE NudgeTimers
  <2>1. \A x \in Int : Sleep(x) \in Nat
    BY DEF Sleep, MaxOf
  <2>2. fd' # Unset
    BY <1>13, <2>1, IdleCapAssumption DEF NudgeTimers, ArmTimerfd
  <2>3. \A t \in timers' : left[t] # Unset => fd' <= Sleep(left[t])
    BY <1>13 DEF NudgeTimers, ArmTimerfd
  <2>4. Covered'
    BY <1>13, <2>2, <2>3 DEF NudgeTimers
  <2>5. Heartbeat'
    BY <2>2
  <2> QED
    BY <2>4, <2>5
<1>14. CASE RunLater
  BY <1>14 DEF RunLater, timerVars, idleVars
<1>15. CASE EndIdle
  BY <1>15 DEF EndIdle, timerVars, idleVars
<1>16. ASSUME NEW t \in Timers, CallTimer(t) PROVE Covered' /\ Heartbeat'
  BY <1>16 DEF CallTimer, idleVars
<1>17. ASSUME NEW t \in Timers, SkipTimer(t) PROVE Covered' /\ Heartbeat'
  BY <1>17 DEF SkipTimer, timerVars, idleVars
<1>18. CASE Tick
  <2>1. /\ timers' = timers /\ held' = held /\ phase' = phase
        /\ recalcScheduled' = recalcScheduled
    BY <1>18 DEF Tick, idleVars
  <2>2. fd # Unset => fd' \in Nat /\ fd' = MaxOf(fd - 1, 0)
    BY <1>18 DEF Tick, MaxOf
  <2>3. Heartbeat'
    BY <1>18, <2>1, <2>2
  <2>4. ASSUME NEW t \in Timers, Live(t)',
               fd # Unset, fd <= Sleep(left[t])
        PROVE  fd' # Unset /\ fd' <= Sleep(left'[t])
    <3>1. left[t] \in Int /\ left'[t] = MaxOf(left[t] - 1, -1)
      BY <1>18, <2>4 DEF Tick
    <3> QED
      BY <2>2, <2>4, <3>1 DEF Sleep, MaxOf
  <2>5. \A t \in Timers : Live(t)' => Live(t)
    BY <1>18, <2>1 DEF Tick
  <2>6. Covered'
    BY <2>1, <2>4, <2>5
  <2> QED
    BY <2>3, <2>6
<1>19. CASE UNCHANGED vars
  BY <1>19 DEF vars
<1> QED
  BY <1>1, <1>2, <1>3, <1>4, <1>5, <1>6, <1>7, <1>8, <1>9, <1>10, <1>11,
     <1>12, <1>13, <1>14, <1>15, <1>16, <1>17, <1>18, <1>19
     DEF Next, Operation, Loop

(* The lost-wakeup invariant holds for every number of timers, and the loop *)
(* never sleeps with a disarmed timerfd.                                    *)
THEOREM NoLostWakeup == Spec => [](Covered /\ Heartbeat)
<1>1. Init => Covered /\ Heartbeat
  BY DEF Init, Covered, Heartbeat, Live
<1> QED
  BY <1>1, CoveredStep, TypeCorrect, PTL DEF Spec

-----------------------------------------------------------------------------
(* The refinement mapping of Service                                        *)
Due     == [t \in Timers |-> IF t \in timers \cap held THEN left[t] ELSE Unset]
Calling == IF running \in Timers THEN running ELSE "none"

(* A change of one timer's registration, owner or expiry is a Set of that   *)
(* timer, as long as nothing else moves.                                    *)
LEMMA SetOfOne ==
  ASSUME TypeOK, TypeOK', running' = running, NEW t \in Timers,
         \A u \in Timers \ {t} : Due'[u] = Due[u]
  PROVE  Service!Set(t)
<1>1. Due'[t] \in Int \cup {Unset}
  BY DEF TypeOK, Due
<1>2. Due' = [Due EXCEPT ![t] = Due'[t]]
  BY DEF Due
<1> QED
  BY <1>1, <1>2 DEF Service!Set, Due, Calling

(* Every step of the loop is a step of the service, or invisible to it.     *)
LEMMA ServiceStep ==
  TypeOK /\ TypeOK' /\ [Next]_vars => [Service!Next]_<<Due, Calling>>
<1> SUFFICES ASSUME TypeOK, TypeOK', [Next]_vars
             PROVE  [Service!Next]_<<Due, Calling>>
  OBVIOUS
<1> DEFINE Goal == [Service!Next]_<<Due, Calling>>
<1> USE TimersAssumption, UnsetAssumption
<1>0. ASSUME NEW t \in Timers, running' = running,
             \A u \in Timers \ {t} :
                /\ left'[u] = left[u]
                /\ u \in timers' <=> u \in timers
                /\ u \in held' <=> u \in held
      PROVE  Goal
  <2>1. \A u \in Timers \ {t} : Due'[u] = Due[u]
    BY <1>0 DEF Due
  <2>2. Service!Set(t)
    BY <1>0, <2>1, SetOfOne
  <2> QED
    BY <2>2 DEF Service!Next
<1>1. ASSUME NEW t \in Timers, NEW d \in Timeouts \cup {Unset}, CreateTimer(t, d)
      PROVE  Goal
  BY <1>1, <1>0 DEF CreateTimer, TypeOK, loopVars
<1>2. ASSUME NEW t \in Timers, NEW d \in Timeouts \cup {Unset}, UpdateTimeout(t, d)
      PROVE  Goal
  BY <1>2, <1>0 DEF UpdateTimeout, TypeOK, loopVars
<1>3. ASSUME NEW t \in Timers, AddTimer(t) PROVE Goal
  BY <1>3, <1>0 DEF AddTimer, loopVars
<1>4. ASSUME NEW t \in Timers, RemoveTimer(t) PROVE Goal
  BY <1>4, <1>0 DEF RemoveTimer, loopVars
<1>5. ASSUME NEW t \in Timers, LoseTimer(t) PROVE Goal
  BY <1>5, <1>0 DEF LoseTimer, loopVars
<1>6. CASE UNCHANGED <<timers, held, left, running>>
  BY <1>6 DEF Due, Calling
<1>7. CASE NudgeTimers
  <2>1. Due' = Due /\ Calling' = Calling
    BY <1>7 DEF NudgeTimers, Due, Calling
  <2> QED
    BY <2>1
<1>8. CASE Return
  <2>1. Due' = Due /\ Calling' = "none"
    BY <1>8 DEF Return, Due, Calling, timerVars
  <2>2. Calling # "none" => Service!Return
    BY <2>1 DEF Service!Return, Due, Calling
  <2> QED
    BY <2>1, <2>2 DEF Service!Next
<1>9. CASE RunLater
  BY <1>9 DEF RunLater, timerVars, Due, Calling
<1>10. ASSUME NEW t \in Timers, CallTimer(t) PROVE Goal
  <2>1. t \in timers /\ t \in held /\ left[t] # Unset /\ left[t] < 0
    BY <1>10 DEF CallTimer, Callable, StrongRef, Passed
  <2>2. Due' = [Due EXCEPT ![t] = Unset]
    BY <1>10 DEF CallTimer, Due, TypeOK
  <2>3. Calling = "none" /\ Calling' = t
    BY <1>10 DEF CallTimer, Calling
  <2>4. Due[t] # Unset /\ Due[t] < 0
    BY <2>1 DEF Due
  <2>5. Service!Call(t)
    BY <2>2, <2>3, <2>4 DEF Service!Call, Due, Calling
  <2> QED
    BY <2>5 DEF Service!Next
<1>11. CASE Tick
  <2>1. Calling' = Calling
    BY <1>11 DEF Tick, Calling
  <2>2. ASSUME NEW t \in Timers
        PROVE  Due'[t] = IF Due[t] = Unset \/ Due[t] < 0 THEN Due[t] ELSE Due[t] - 1
    <3>1. left[t] \in Nat \cup {-1, Unset}
      BY DEF TypeOK
    <3>2. CASE t \notin timers \cap held
      BY <1>11, <3>2 DEF Tick, Due
    <3>3. CASE t \in timers \cap held
      BY <1>11, <3>1, <3>3 DEF Tick, Due, MaxOf
    <3> QED
      BY <3>2, <3>3
  <2>3. Due' = [t \in Timers |-> IF Due[t] = Unset \/ Due[t] < 0
                                THEN Due[t] ELSE Due[t] - 1]
    BY <2>2 DEF Due
  <2>4. Service!Tick
    BY <2>1, <2>3 DEF Service!Tick, Due, Calling
  <2> QED
    BY <2>4 DEF Service!Next
<1>12. ASSUME DoLater \/ Poll \/ TimerFire \/ EndTimerFire \/ EndHandlers
              \/ TakeIdle \/ EndIdle \/ (\E t \in Timers : SkipTimer(t))
              \/ UNCHANGED vars
       PROVE  UNCHANGED <<timers, held, left, running>>
  BY <1>12 DEF DoLater, Poll, TimerFire, EndTimerFire, EndHandlers, TakeIdle,
               EndIdle, SkipTimer, timerVars, loopVars, vars
<1> QED
  BY <1>1, <1>2, <1>3, <1>4, <1>5, <1>6, <1>7, <1>8, <1>9, <1>10, <1>11, <1>12
     DEF Next, Operation, Loop

(* The loop with its shared timerfd, its deferred recalculation and its     *)
(* copied vector implements the plain timer service.                        *)
THEOREM LoopImplementsService == Spec => ServiceSpec
<1>1. Init => Service!Init
  BY TimersAssumption DEF Init, Service!Init
<1>2. TypeOK /\ TypeOK' /\ [Next]_vars => [Service!Next]_<<Due, Calling>>
  BY ServiceStep
<1> QED
  BY <1>1, <1>2, TypeCorrect, PTL DEF Spec, ServiceSpec, Service!Spec, Due, Calling

-----------------------------------------------------------------------------
NudgeInv == RecalcPending /\ SingleNudge

(* Appending to a queue of deferred functions.                              *)
LEMMA PostQueued ==
  ASSUME NEW s \in Seq(Functions), NEW f \in Functions
  PROVE  /\ Append(s, f) # <<>>
         /\ \A g \in Functions : Queued(Append(s, f), g) <=> g = f \/ Queued(s, g)
<1>1. /\ Len(Append(s, f)) = Len(s) + 1 /\ Len(s) \in Nat
      /\ Append(s, f)[Len(s) + 1] = f
      /\ \A i \in 1..Len(s) : Append(s, f)[i] = s[i]
  BY AppendProperties, LenProperties
<1>2. Append(s, f) # <<>>
  BY <1>1, EmptySeq
<1>3. ASSUME NEW g \in Functions
      PROVE  Queued(Append(s, f), g) <=> g = f \/ Queued(s, g)
  <2>1. Queued(Append(s, f), g) => g = f \/ Queued(s, g)
    BY <1>1 DEF Queued
  <2>2. g = f => Queued(Append(s, f), g)
    BY <1>1 DEF Queued
  <2>3. Queued(s, g) => Queued(Append(s, f), g)
    BY <1>1 DEF Queued
  <2> QED
    BY <2>1, <2>2, <2>3
<1> QED
  BY <1>2, <1>3

(* Taking the first deferred function off a queue.                          *)
LEMMA TailQueued ==
  ASSUME NEW s \in Seq(Functions), s # <<>>
  PROVE  /\ Tail(s) \in Seq(Functions)
         /\ Len(Tail(s)) = Len(s) - 1 /\ Len(s) \in Nat \ {0}
         /\ \A i \in 1..Len(Tail(s)) : Tail(s)[i] = s[i + 1]
         /\ Head(s) = s[1]
         /\ \A g \in Functions : Queued(s, g) <=> g = Head(s) \/ Queued(Tail(s), g)
<1>1. /\ Tail(s) \in Seq(Functions)
      /\ Len(Tail(s)) = Len(s) - 1 /\ Len(s) \in Nat \ {0}
      /\ \A i \in 1..Len(Tail(s)) : Tail(s)[i] = s[i + 1]
      /\ Head(s) = s[1]
  BY HeadTailProperties, EmptySeq
<1>2. ASSUME NEW g \in Functions
      PROVE  Queued(s, g) <=> g = Head(s) \/ Queued(Tail(s), g)
  <2>1. ASSUME NEW i \in 1..Len(s), s[i] = g, i # 1
        PROVE  Queued(Tail(s), g)
    <3>1. i - 1 \in 1..Len(Tail(s)) /\ Tail(s)[i - 1] = g
      BY <1>1, <2>1
    <3> QED
      BY <3>1 DEF Queued
  <2>2. Queued(s, g) => g = Head(s) \/ Queued(Tail(s), g)
    BY <1>1, <2>1 DEF Queued
  <2>3. g = Head(s) => Queued(s, g)
    BY <1>1 DEF Queued
  <2>4. ASSUME NEW i \in 1..Len(Tail(s)), Tail(s)[i] = g
        PROVE  Queued(s, g)
    <3>1. i + 1 \in 1..Len(s) /\ s[i + 1] = g
      BY <1>1, <2>4
    <3> QED
      BY <3>1 DEF Queued
  <2>5. Queued(Tail(s), g) => Queued(s, g)
    BY <2>4 DEF Queued
  <2> QED
    BY <2>2, <2>3, <2>5
<1> QED
  BY <1>1, <1>2

(* scheduleRecalc queues one nudgeTimers if none is outstanding.            *)
LEMMA ScheduleRecalcKeeps ==
  ASSUME TypeOK, NudgeInv, ScheduleRecalc, batch' = batch
  PROVE  NudgeInv'
<1>1. CASE recalcScheduled
  BY <1>1 DEF ScheduleRecalc, NudgeInv, RecalcPending, SingleNudge, idleVars, Queued
<1>2. CASE ~recalcScheduled
  <2>1. /\ recalcScheduled' = TRUE /\ idleSource' = TRUE
        /\ fns' = Append(fns, "nudge")
    BY <1>2 DEF ScheduleRecalc, Post
  <2>2. fns \in Seq(Functions) /\ "nudge" \in Functions
    BY DEF TypeOK, Functions
  <2>3. fns' # <<>> /\ Queued(fns', "nudge")
    BY <2>1, <2>2, PostQueued
  <2>4. ~Queued(fns, "nudge") /\ ~Queued(batch, "nudge")
    BY <1>2 DEF NudgeInv, RecalcPending
  <2>5. /\ Len(fns') = Len(fns) + 1 /\ Len(fns) \in Nat
        /\ \A i \in 1..Len(fns) : fns'[i] = fns[i]
    BY <2>1, <2>2, AppendProperties, LenProperties
  <2>6. \A i \in 1..Len(fns') : fns'[i] = "nudge" => i = Len(fns')
    BY <2>4, <2>5 DEF Queued
  <2>7. \A i, j \in 1..Len(fns') : fns'[i] = "nudge" /\ fns'[j] = "nudge" => i = j
    BY <2>6
  <2>8. \A i, j \in 1..Len(batch) : batch[i] = "nudge" /\ batch[j] = "nudge" => i = j
    BY DEF NudgeInv, SingleNudge
  <2>9. ~Queued(batch', "nudge")
    BY <2>4
  <2>10. SingleNudge'
    BY <2>7, <2>8, <2>9 DEF SingleNudge
  <2> QED
    BY <2>1, <2>3, <2>10 DEF NudgeInv, RecalcPending
<1> QED
  BY <1>1, <1>2 DEF TypeOK

(* Taking the first function off the batch.                                 *)
LEMMA TailKeepsSingle ==
  ASSUME TypeOK, SingleNudge, batch # <<>>, batch' = Tail(batch), fns' = fns
  PROVE  /\ SingleNudge'
         /\ Head(batch) = "nudge" => ~Queued(batch', "nudge") /\ ~Queued(fns, "nudge")
         /\ Head(batch) = "later" => (Queued(batch', "nudge") <=> Queued(batch, "nudge"))
<1>0. batch \in Seq(Functions) /\ "nudge" \in Functions /\ "later" \in Functions
  BY DEF TypeOK, Functions
<1>1. /\ Len(batch') = Len(batch) - 1 /\ Len(batch) \in Nat \ {0}
      /\ \A i \in 1..Len(batch') : batch'[i] = batch[i + 1]
      /\ Head(batch) = batch[1]
      /\ \A g \in Functions : Queued(batch, g) <=> g = Head(batch) \/ Queued(batch', g)
  BY <1>0, TailQueued
<1>2. \A i, j \in 1..Len(batch) : batch[i] = "nudge" /\ batch[j] = "nudge" => i = j
  BY DEF SingleNudge
<1>3. \A i, j \in 1..Len(batch') : batch'[i] = "nudge" /\ batch'[j] = "nudge" => i = j
  <2> SUFFICES ASSUME NEW i \in 1..Len(batch'), NEW j \in 1..Len(batch'),
                      batch'[i] = "nudge", batch'[j] = "nudge"
               PROVE  i = j
    OBVIOUS
  <2>1. /\ i + 1 \in 1..Len(batch) /\ j + 1 \in 1..Len(batch)
        /\ batch[i + 1] = "nudge" /\ batch[j + 1] = "nudge"
    BY <1>1
  <2> QED
    BY <1>2, <2>1
<1>4. SingleNudge'
  BY <1>0, <1>1, <1>3 DEF SingleNudge
<1>5. ASSUME Head(batch) = "nudge"
      PROVE  ~Queued(batch', "nudge") /\ ~Queued(fns, "nudge")
  <2>1. 1 \in 1..Len(batch) /\ batch[1] = "nudge"
    BY <1>1, <1>5
  <2>2. \A i \in 1..Len(batch') : i + 1 \in 1..Len(batch) /\ i + 1 # 1
    BY <1>1
  <2>3. ~Queued(batch', "nudge")
    BY <1>1, <1>2, <2>1, <2>2 DEF Queued
  <2>4. Queued(batch, "nudge")
    BY <2>1 DEF Queued
  <2> QED
    BY <2>3, <2>4 DEF SingleNudge
<1> QED
  BY <1>0, <1>1, <1>4, <1>5

(* Each step keeps the accounting of the outstanding recalculation.         *)
LEMMA NudgeStep == TypeOK /\ NudgeInv /\ [Next]_vars => NudgeInv'
<1> SUFFICES ASSUME TypeOK, NudgeInv, [Next]_vars PROVE NudgeInv'
  OBVIOUS
<1>1. ASSUME UNCHANGED <<recalcScheduled, fns, idleSource, batch>> PROVE NudgeInv'
  BY <1>1 DEF NudgeInv, RecalcPending, SingleNudge, Queued
<1>2. ASSUME ScheduleRecalc, batch' = batch PROVE NudgeInv'
  BY <1>2, ScheduleRecalcKeeps
<1>3. CASE DoLater
  <2>1. /\ fns' = Append(fns, "later") /\ idleSource' = TRUE
        /\ batch' = batch /\ recalcScheduled' = recalcScheduled
    BY <1>3 DEF DoLater, Post, loopVars
  <2>2. /\ fns \in Seq(Functions)
        /\ "nudge" \in Functions /\ "later" \in Functions
    BY DEF TypeOK, Functions
  <2>3. fns' # <<>> /\ (Queued(fns', "nudge") <=> Queued(fns, "nudge"))
    BY <2>1, <2>2, PostQueued
  <2>4. /\ Len(fns') = Len(fns) + 1 /\ Len(fns) \in Nat
        /\ fns'[Len(fns) + 1] = "later"
        /\ \A i \in 1..Len(fns) : fns'[i] = fns[i]
    BY <2>1, <2>2, AppendProperties, LenProperties
  <2>5. \A i, j \in 1..Len(fns) : fns[i] = "nudge" /\ fns[j] = "nudge" => i = j
    BY DEF NudgeInv, SingleNudge
  <2>6. \A i \in 1..Len(fns') : fns'[i] = "nudge" => i \in 1..Len(fns)
    BY <2>4
  <2>7. \A i, j \in 1..Len(fns') : fns'[i] = "nudge" /\ fns'[j] = "nudge" => i = j
    BY <2>4, <2>5, <2>6
  <2>8. SingleNudge'
    BY <2>1, <2>3, <2>7 DEF NudgeInv, SingleNudge
  <2> QED
    BY <2>1, <2>3, <2>8 DEF NudgeInv, RecalcPending
<1>4. CASE TakeIdle
  <2>1. batch = <<>> /\ batch' = fns /\ fns' = <<>> /\ idleSource' = FALSE
        /\ recalcScheduled' = recalcScheduled
    BY <1>4 DEF TakeIdle
  <2>2. ~Queued(<<>>, "nudge")
    BY EmptySeq DEF Queued
  <2>3. RecalcPending'
    BY <2>1, <2>2 DEF NudgeInv, RecalcPending
  <2>4. SingleNudge'
    BY <2>1, <2>2, EmptySeq DEF NudgeInv, SingleNudge
  <2> QED
    BY <2>3, <2>4 DEF NudgeInv
<1>5. CASE NudgeTimers
  <2>1. /\ batch # <<>> /\ Head(batch) = "nudge" /\ batch' = Tail(batch)
        /\ fns' = fns /\ idleSource' = idleSource /\ recalcScheduled' = FALSE
    BY <1>5 DEF NudgeTimers
  <2>2. SingleNudge' /\ ~Queued(batch', "nudge") /\ ~Queued(fns, "nudge")
    BY <2>1, TailKeepsSingle DEF NudgeInv
  <2> QED
    BY <2>1, <2>2 DEF NudgeInv, RecalcPending
<1>6. CASE RunLater
  <2>1. /\ batch # <<>> /\ Head(batch) = "later" /\ batch' = Tail(batch)
        /\ fns' = fns /\ idleSource' = idleSource
        /\ recalcScheduled' = recalcScheduled
    BY <1>6 DEF RunLater, idleVars
  <2>2. SingleNudge' /\ (Queued(batch', "nudge") <=> Queued(batch, "nudge"))
    BY <2>1, TailKeepsSingle DEF NudgeInv
  <2> QED
    BY <2>1, <2>2 DEF NudgeInv, RecalcPending
<1>7. CASE Operation /\ ~DoLater
  <2>1. ASSUME NEW t \in Timers, NEW d \in Timeouts \cup {Unset},
               CreateTimer(t, d) \/ UpdateTimeout(t, d)
        PROVE  NudgeInv'
    BY <2>1, <1>1, <1>2 DEF CreateTimer, UpdateTimeout, idleVars, loopVars
  <2>2. ASSUME NEW t \in Timers, AddTimer(t) \/ RemoveTimer(t) \/ LoseTimer(t)
        PROVE  NudgeInv'
    BY <2>2, <1>1, <1>2 DEF AddTimer, RemoveTimer, LoseTimer, idleVars, loopVars
  <2> QED
    BY <1>7, <2>1, <2>2 DEF Operation
<1>8. CASE Poll \/ TimerFire \/ Return \/ EndHandlers \/ EndIdle \/ Tick
           \/ (\E t \in Timers : CallTimer(t) \/ SkipTimer(t)) \/ UNCHANGED vars
  BY <1>8, <1>1 DEF Poll, TimerFire, Return, EndHandlers, EndIdle, Tick,
                    CallTimer, SkipTimer, idleVars, vars
<1>9. CASE EndTimerFire
  BY <1>9, <1>2 DEF EndTimerFire
<1> QED
  BY <1>3, <1>4, <1>5, <1>6, <1>7, <1>8, <1>9 DEF Next, Operation, Loop

(* A recalculation that was asked for is always queued, exactly once, with  *)
(* its idle source registered.                                              *)
THEOREM NudgeOutstanding == Spec => [](RecalcPending /\ SingleNudge)
<1>1. Init => NudgeInv
  BY EmptySeq DEF Init, NudgeInv, RecalcPending, SingleNudge, Queued
<1> QED
  BY <1>1, NudgeStep, TypeCorrect, PTL DEF Spec, NudgeInv
=============================================================================
