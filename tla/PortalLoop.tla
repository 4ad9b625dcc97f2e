----------------------------- MODULE PortalLoop -----------------------------
(***************************************************************************)
(* The event loop of xdg-desktop-portal-hyprland                           *)
(* (CPortalManager::startEventLoop, addTimer and terminate in              *)
(* src/core/PortalManager.cpp).  Three threads:                            *)
(*   poll   polls the three connections and wakes the main thread          *)
(*   timer  sleeps until the nearest timer runs out and wakes it too       *)
(*   main   waits to be woken, reads the connections and calls the timers  *)
(* loopRequestMutex guards shouldProcess on the waking side only; the main *)
(* thread tests it under loopMutex, which nobody else takes, so a wake-up  *)
(* may come between its test and its wait. m_mEventLock guards the timers; *)
(* what the timer thread does under it is one step. loopMutex and the      *)
(* timer thread's own have one user each and are left out. A waiting       *)
(* thread is one whose counter says "waiting"; notify_all moves it to      *)
(* where it tests its predicate again.                                     *)
(***************************************************************************)
EXTENDS ShareSession

VARIABLES
    main, poll, timer,      \* where each thread is
    nearest,                \* what the timer thread sleeps for: "timer", or "minute"
    shouldProcess,          \* m_sEventLoopInternals.shouldProcess
    timerShouldProcess,     \* m_sTimersThread.shouldProcess
    loopRequestMutex,       \* its holder
    m_mEventLock,           \* its holder
    revents,                \* the connections the last poll found readable
    hangup,                 \* a connection was closed at the other end
    m_bTerminate

threads == <<main, poll, timer>>
locks == <<loopRequestMutex, m_mEventLock>>
flags == <<shouldProcess, timerShouldProcess, m_bTerminate>>
vars == <<sess, threads, nearest, flags, locks, revents, hangup>>

Free == "free"
Sources == {"dbus", "wayland", "pipewire"}
Waiting(source) ==
    {s \in Sessions : CASE source = "dbus" -> sess[s].call # None
                        [] source = "wayland" -> sess[s].answer # None
                        [] source = "pipewire" -> sess[s].event # None}
Readable == {source \in Sources : Waiting(source) # {}}
TimerPassed == \E s \in Sessions : sess[s].passed > 0

TypeOK ==
    /\ sess \in [Sessions -> SessionState]
    /\ main \in {"test", "block", "waiting", "lock", "clear", "dbus", "wayland",
                 "pipewire", "timers", "ended"}
    /\ poll \in {"poll", "wake", "terminate", "notify", "ended"}
    /\ timer \in {"nearest", "test", "block", "waiting", "clear", "passed", "wake",
                  "ended"}
    /\ nearest \in {"timer", "minute"}
    /\ shouldProcess \in BOOLEAN
    /\ timerShouldProcess \in BOOLEAN
    /\ loopRequestMutex \in {Free, "main"}
    /\ m_mEventLock \in {Free, "main"}
    /\ revents \subseteq Sources
    /\ hangup \in BOOLEAN
    /\ m_bTerminate \in BOOLEAN

Init ==
    /\ ShareInit
    /\ main = "test" /\ poll = "poll" /\ timer = "nearest"
    /\ nearest = "minute"
    /\ shouldProcess = FALSE /\ timerShouldProcess = FALSE
    /\ loopRequestMutex = Free /\ m_mEventLock = Free
    /\ revents = {} /\ hangup = FALSE /\ m_bTerminate = FALSE

\* loopSignal.notify_all() wakes the thread if it waits, and is lost if not.
Notified(pc) == IF pc = "waiting" THEN "test" ELSE pc

-----------------------------------------------------------------------------
(* The poll thread                                                         *)

PollReturns ==
    /\ poll = "poll"
    /\ Readable # {} \/ hangup
    /\ revents' = Readable
    /\ poll' = IF hangup THEN "terminate" ELSE "wake"
    /\ UNCHANGED <<sess, main, timer, flags, locks, hangup, nearest>>

\* Five seconds without an event.
PollTimesOut ==
    /\ poll = "poll"
    /\ Readable = {} /\ ~hangup
    /\ revents' = {}
    /\ UNCHANGED <<sess, threads, flags, locks, hangup, nearest>>

\* -- variant: the flag is raised and nobody is told
PollFlags ==
    /\ poll = "wake"
    /\ loopRequestMutex = Free
    /\ shouldProcess' = TRUE
    /\ poll' = "poll"
    /\ UNCHANGED <<sess, main, timer, timerShouldProcess, m_bTerminate, locks, revents, hangup, nearest>>

PollWakes ==
    /\ poll = "wake"
    /\ loopRequestMutex = Free
    /\ shouldProcess' = TRUE
    /\ main' = Notified(main)
    /\ poll' = "poll"
    /\ UNCHANGED <<sess, timer, timerShouldProcess, m_bTerminate, locks, revents, hangup, nearest>>

\* terminate() takes no lock; its stores are two steps of the others' apart.
\* The thread then finds m_bTerminate set and leaves its loop.
PollTerminates ==
    /\ poll = "terminate"
    /\ m_bTerminate' = TRUE
    /\ poll' = "notify"
    /\ UNCHANGED <<sess, main, timer, shouldProcess, timerShouldProcess, locks, revents, hangup, nearest>>

PollNotifies ==
    /\ poll = "notify"
    /\ shouldProcess' = TRUE
    /\ main' = Notified(main)
    /\ timerShouldProcess' = TRUE
    /\ timer' = Notified(timer)
    /\ poll' = "ended"
    /\ UNCHANGED <<sess, m_bTerminate, locks, revents, hangup, nearest>>

PollThread == PollReturns \/ PollTimesOut \/ PollWakes \/ PollTerminates \/ PollNotifies

-----------------------------------------------------------------------------
(* The timer thread                                                        *)

TimerGoes(from, to) == timer = from /\ timer' = to

\* Under m_mEventLock, finds how long to sleep: until the first of the timers
\* there are now runs out, or for a minute.  A timer that is added later cuts
\* the sleep short only if its notification finds the thread asleep.
FindNearest ==
    /\ TimerGoes("nearest", "test")
    /\ m_mEventLock = Free
    /\ nearest' = IF \E s \in Sessions : sess[s].armed + sess[s].passed > 0
                  THEN "timer" ELSE "minute"
    /\ UNCHANGED <<sess, main, poll, flags, locks, revents, hangup>>

TimerTests ==
    /\ TimerGoes("test", IF timerShouldProcess THEN "clear" ELSE "block")
    /\ UNCHANGED <<sess, main, poll, flags, locks, revents, hangup, nearest>>

TimerBlocks ==
    /\ TimerGoes("block", "waiting")
    /\ UNCHANGED <<sess, main, poll, flags, locks, revents, hangup, nearest>>

\* The time found before has passed, though another timer may be nearer by now.
TimerTimesOut ==
    /\ TimerGoes("waiting", "clear")
    /\ UNCHANGED <<sess, main, poll, flags, locks, revents, hangup, nearest>>

\* nearest is a local of the loop's body, and is not read any more.
TimerClears ==
    /\ TimerGoes("clear", IF m_bTerminate THEN "ended" ELSE "passed")
    /\ timerShouldProcess' = FALSE
    /\ nearest' = "minute"
    /\ UNCHANGED <<sess, main, poll, shouldProcess, m_bTerminate, locks, revents, hangup>>

\* Under m_mEventLock.
CheckPassed ==
    /\ TimerGoes("passed", IF TimerPassed THEN "wake" ELSE "nearest")
    /\ m_mEventLock = Free
    /\ UNCHANGED <<sess, main, poll, flags, locks, revents, hangup, nearest>>

TimerWakes ==
    /\ TimerGoes("wake", "nearest")
    /\ loopRequestMutex = Free
    /\ shouldProcess' = TRUE
    /\ main' = Notified(main)
    /\ UNCHANGED <<sess, poll, timerShouldProcess, m_bTerminate, locks, revents, hangup, nearest>>

TimerThread ==
    \/ FindNearest \/ TimerTests \/ TimerBlocks \/ TimerTimesOut
    \/ TimerClears \/ CheckPassed \/ TimerWakes

-----------------------------------------------------------------------------
(* The main thread                                                         *)

MainTests ==
    /\ main = "test"
    /\ main' = IF shouldProcess THEN "lock" ELSE "block"
    /\ UNCHANGED <<sess, poll, timer, flags, locks, revents, hangup, nearest>>

MainBlocks ==
    /\ main = "block"
    /\ main' = "waiting"
    /\ UNCHANGED <<sess, poll, timer, flags, locks, revents, hangup, nearest>>

\* -- variant: after five seconds without the flag it goes back to sleep
MainSleepsOn ==
    /\ main = "waiting"
    /\ main' = IF shouldProcess THEN "lock" ELSE "block"
    /\ UNCHANGED <<sess, poll, timer, flags, locks, revents, hangup, nearest>>

\* Five seconds; what wait_for returns is not looked at.
MainTimesOut ==
    /\ main = "waiting"
    /\ main' = "lock"
    /\ UNCHANGED <<sess, poll, timer, flags, locks, revents, hangup, nearest>>

MainLocks ==
    /\ main = "lock"
    /\ loopRequestMutex = Free
    /\ IF m_bTerminate
       THEN main' = "ended" /\ UNCHANGED loopRequestMutex
       ELSE main' = "clear" /\ loopRequestMutex' = "main"
    /\ UNCHANGED <<sess, poll, timer, flags, m_mEventLock, revents, hangup, nearest>>

MainClears ==
    /\ main = "clear"
    /\ m_mEventLock = Free
    /\ m_mEventLock' = "main"
    /\ shouldProcess' = FALSE
    /\ main' = "dbus"
    /\ UNCHANGED <<sess, poll, timer, timerShouldProcess, m_bTerminate, loopRequestMutex,
                   revents, hangup, nearest>>

\* addTimer, from a handler: it wakes the timer thread without its mutex.
AddedTimer == \E s \in Sessions : sess'[s].armed > sess[s].armed
WakesTimer ==
    /\ timerShouldProcess' = (timerShouldProcess \/ AddedTimer)
    /\ timer' = IF AddedTimer THEN Notified(timer) ELSE timer

\* Everything that waits on a connection is read, if the last poll saw it.
\* (startSharing waits for the compositor itself, and may so handle another
\* session's answer a little before the main thread gets to the Wayland socket.)
Reads(source, next, Results(_)) ==
    LET here == IF source \in revents THEN Waiting(source) ELSE {}
    IN  /\ main = source
        /\ main' = next
        /\ \E new \in [here -> UNION {Results(sess[s]) : s \in here}] :
              /\ \A s \in here : new[s] \in Results(sess[s])
              /\ sess' = [s \in Sessions |-> IF s \in here THEN new[s] ELSE sess[s]]
        /\ WakesTimer
        /\ UNCHANGED <<poll, shouldProcess, m_bTerminate, locks, revents, hangup, nearest>>

ReadDBus == Reads("dbus", "wayland", HandleCall)
ReadWayland == Reads("wayland", "pipewire", HandleAnswer)
ReadPipewire == Reads("pipewire", "timers", HandleEvent)

\* Calls the timers that have run out, erases them and releases the locks.
CallTimers ==
    /\ main = "timers"
    /\ main' = "test"
    /\ sess' = [s \in Sessions |-> HandleTimers(sess[s])]
    /\ m_mEventLock' = Free
    /\ loopRequestMutex' = Free
    /\ WakesTimer
    /\ UNCHANGED <<poll, shouldProcess, m_bTerminate, revents, hangup, nearest>>

MainThread ==
    \/ MainTests \/ MainBlocks \/ MainTimesOut \/ MainLocks \/ MainClears
    \/ ReadDBus \/ ReadWayland \/ ReadPipewire \/ CallTimers

-----------------------------------------------------------------------------
(* Outside, and the whole                                                  *)

\* Bound: it comes before anything is shared.
Hangup ==
    /\ ~hangup
    /\ \A s \in Sessions : sess[s].phase \in {None, "created"}
    /\ hangup' = TRUE
    /\ UNCHANGED <<sess, threads, flags, locks, revents, nearest>>

\* Bounds: one message at a time waits to be read, and none comes once a
\* connection is closed.
Outside ==
    /\ ~hangup
    /\ Readable = {}
    /\ \E s \in Sessions : \/ FrontendCalls(s) \/ CompositorAnswers(s)
                           \/ PipewireSends(s)
    /\ UNCHANGED <<threads, flags, locks, revents, hangup, nearest>>

TimePasses ==
    /\ \E s \in Sessions : TimerPasses(s)
    /\ UNCHANGED <<threads, flags, locks, revents, hangup, nearest>>

Ended == main = "ended" /\ UNCHANGED vars

Next ==
    \/ PollThread \/ TimerThread \/ MainThread
    \/ Hangup \/ Outside \/ TimePasses \/ Ended

\* The timer thread sleeps out its minute although a timer has run out: it was
\* added between the predicate and the block, and nobody will say so again.
Overslept == timer = "waiting" /\ nearest = "minute" /\ TimerPassed

\* Threads run; a mutex that is released again and again is got in the end;
\* time passes, but nothing waits for the timer thread's minute. The main thread's
\* five seconds are relied on for two things only: to notice that the portal is
\* to terminate, and to call a timer that the timer thread oversleeps.
Fairness ==
    /\ WF_vars(PollReturns \/ PollTerminates \/ PollNotifies)
    /\ SF_vars(PollWakes)
    /\ SF_vars(FindNearest \/ CheckPassed) /\ SF_vars(TimerWakes)
    /\ WF_vars(\/ TimerTests \/ TimerBlocks \/ TimerClears
               \/ nearest = "timer" /\ TimerTimesOut)
    /\ WF_vars(MainTests \/ MainBlocks \/ MainLocks \/ MainClears \/ ReadDBus \/ ReadWayland \/ ReadPipewire
               \/ CallTimers)
    /\ WF_vars((m_bTerminate \/ Overslept) /\ MainTimesOut)
    /\ WF_vars(TimePasses)

Spec == Init /\ [][Next]_vars /\ Fairness

-----------------------------------------------------------------------------
\* Although a wake-up may come when nobody waits yet, what has arrived on a
\* connection is read and a timer that has run out is called. The one thing the
\* main thread's five seconds are needed for is a timer whose notification
\* addTimer sent before the timer thread slept: that thread then sleeps on
\* (PortalManager.cpp:315-340, 344-376, 382-388, 508-513).
Served ==
    /\ Readable # {} ~> Readable = {} \/ hangup
    /\ TimerPassed ~> ~TimerPassed \/ hangup

\* Once a connection is closed, the poll thread and the main thread end
\* (PortalManager.cpp:321-330, 386-388, 433-447, 515-530).
Ends == hangup ~> [](main = "ended" /\ poll = "ended")
=============================================================================
