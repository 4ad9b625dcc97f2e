----------------------------- MODULE SessionLock -----------------------------
(***************************************************************************)
(* ext-session-lock-v1: CSessionLockProtocol keeps the locks of the         *)
(* clients and whether the session is locked; CSessionLockManager follows   *)
(* one of them, tells its client once every monitor shows it, and denies it *)
(* after five seconds.  Monitors come, go, and sleep meanwhile.             *)
(*                                                                          *)
(* Clients keep to the protocol: they unlock only when told "locked", and   *)
(* make at most one surface for a monitor, while that monitor is there.     *)
(* The backend has a session (it runs on DRM).  misc:session_lock_xray, the *)
(* surfaces' sizes and the keyboard focus are left out.                     *)
(***************************************************************************)

CONSTANTS Locks,          \* the locks clients may ask for
          Monitors,       \* the monitors, by ID
          None,           \* no lock
          AllowRestore,   \* misc:allow_session_lock_restore
          Rivals,         \* a client asks for a lock while another has it
          KeepsSurfaces   \* clients keep their surfaces until answered

ASSUME ConstantsAssumption ==
  /\ None \notin Locks
  /\ AllowRestore \in BOOLEAN /\ Rivals \in BOOLEAN /\ KeepsSurfaces \in BOOLEAN

VARIABLES
  \* the protocol
  locked,     \* m_locked
  answer,     \* where each lock's resource is
  notified,   \* CLockNotifyProtocol's m_isLocked
  \* the manager
  current,    \* m_sessionLock's lock
  surfaces,   \* its surface for each monitor
  covered,    \* its lockedMonitors
  late,       \* misc:lockdead_screen_delay has passed since it was made
  timer,      \* its sendDeniedTimer is armed
  \* the monitors and the session
  monitor,    \* where each monitor is
  active,     \* the session is active: this is the VT in use
  shown       \* what each monitor's last frame showed

lockVars    == <<locked, answer, notified>>
managerVars == <<current, surfaces, covered, late, timer>>
screenVars  == <<monitor, active, shown>>
vars == <<lockVars, managerVars, screenVars>>

AnswerAt  == {"none", "waiting", "locked", "finished", "gone"}
MonitorAt == {"out", "on", "fading", "off"}   \* "fading": off, its last frames
SurfaceAt == {"none", "made", "mapped"}
ShownAt   == {"nothing", "desktop", "surface", "cover"}

Init ==
  /\ locked = FALSE /\ notified = FALSE
  /\ answer = [l \in Locks |-> "none"]
  /\ current = None
  /\ surfaces = [m \in Monitors |-> "none"]
  /\ covered = {} /\ late = FALSE /\ timer = FALSE
  /\ monitor = [m \in Monitors |-> "on"]
  /\ active = TRUE
  /\ shown = [m \in Monitors |-> "desktop"]

On == {m \in Monitors : monitor[m] = "on"}

(* without a monitor the compositor is in the unsafe state                  *)
Unsafe == \A m \in Monitors : monitor[m] = "out"

ClientLocked == current # None /\ answer[current] = "locked"
ClientDenied == current # None /\ answer[current] = "finished"

-----------------------------------------------------------------------------
(* A client's lock                                                          *)

Deny(l)  == answer' = [answer EXCEPT ![l] = "finished"]

(* sendLocked also tells CLockNotifyProtocol                                *)
Tell(l) ==
  /\ answer' = [answer EXCEPT ![l] = "locked"]
  /\ notified' = TRUE

(* m_sessionLock.reset(): the lock owned its timer, and the event loop does *)
(* not call one that only the event loop still has                          *)
Forget ==
  /\ current' = None
  /\ surfaces' = [m \in Monitors |-> "none"]
  /\ covered' = {} /\ late' = FALSE /\ timer' = FALSE

(* onNewSessionLock, when the lock becomes the one the manager follows: the *)
(* SSessionLock it replaces goes, and its timer with it                     *)
Follow(l) ==
  /\ current' = l
  /\ surfaces' = [m \in Monitors |-> "none"]
  /\ covered' = {} /\ late' = FALSE
  /\ IF On = {}
     THEN Tell(l) /\ timer' = FALSE
     ELSE /\ answer' = [answer EXCEPT ![l] = "waiting"]
          /\ timer' = TRUE
          /\ UNCHANGED notified

(* an older lock without an answer is not replaced; the new one gets none   *)
Limbo == current # None /\ ~ClientLocked /\ ~ClientDenied

MayAsk(l) ==
  /\ answer[l] = "none"
  /\ ~Rivals => \A k \in Locks : answer[k] # "locked"

Ask(l) ==
  /\ MayAsk(l)
  /\ locked' = TRUE
  /\ \/ /\ locked /\ ~AllowRestore
        /\ Deny(l)
        /\ UNCHANGED <<notified, managerVars>>
     \/ /\ ~locked \/ AllowRestore
        /\ Limbo
        /\ answer' = [answer EXCEPT ![l] = "waiting"]
        /\ UNCHANGED <<notified, managerVars>>
     \/ /\ ~locked \/ AllowRestore
        /\ ~Limbo
        /\ Follow(l)
  /\ UNCHANGED <<monitor, active, shown>>

(* unlock_and_destroy                                                       *)
(* -- variant: the manager does not hear of it                              *)
Unlock_ManagerKeeps(l) ==
  /\ answer[l] = "locked"
  /\ locked' = FALSE /\ notified' = FALSE
  /\ answer' = [answer EXCEPT ![l] = "gone"]
  /\ UNCHANGED <<managerVars, screenVars>>

Unlock(l) ==
  /\ answer[l] = "locked"
  /\ locked' = FALSE /\ notified' = FALSE
  /\ answer' = [answer EXCEPT ![l] = "gone"]
  /\ IF l = current THEN Forget ELSE UNCHANGED managerVars
  /\ UNCHANGED screenVars

(* destroy, or the end of the client: the session stays locked              *)
Destroy(l) ==
  /\ answer[l] \in {"waiting", "locked", "finished"}
  /\ answer' = [answer EXCEPT ![l] = "gone"]
  /\ IF l = current THEN Forget ELSE UNCHANGED managerVars
  /\ UNCHANGED <<locked, notified, screenVars>>

-----------------------------------------------------------------------------
(* The surfaces of the lock the manager follows                             *)

GetLockSurface(m) ==
  /\ current # None /\ ~ClientDenied
  /\ monitor[m] # "out" /\ surfaces[m] = "none"
  /\ surfaces' = [surfaces EXCEPT ![m] = "made"]
  /\ UNCHANGED <<lockVars, current, covered, late, timer, screenVars>>

MapSurface(m) ==
  /\ surfaces[m] = "made"
  /\ surfaces' = [surfaces EXCEPT ![m] = "mapped"]
  /\ UNCHANGED <<lockVars, current, covered, late, timer, screenVars>>

DestroySurface(m) ==
  /\ surfaces[m] # "none"
  /\ KeepsSurfaces => ClientLocked \/ ClientDenied
  /\ surfaces' = [surfaces EXCEPT ![m] = "none"]
  /\ UNCHANGED <<lockVars, current, covered, late, timer, screenVars>>

-----------------------------------------------------------------------------
(* Frames                                                                   *)

ShallConsiderLockMissing == current = None \/ late

(* renderWorkspace renders no windows, renderLockscreen a primer over all   *)
Primer == ShallConsiderLockMissing \/ ClientLocked \/ ClientDenied

ShowsMissing(m) ==
  ShallConsiderLockMissing /\ (surfaces[m] # "mapped" \/ ClientDenied)

(* what renderWorkspace and renderLockscreen leave on the monitor           *)
(* -- variant: without the primer under a surface that is not there         *)
Shows_NoPrimer(m) ==
  CASE ~locked                -> "desktop"
    [] ShowsMissing(m)        -> "cover"
    [] surfaces[m] = "mapped" -> "surface"
    [] OTHER                  -> "desktop"

Shows(m) ==
  CASE ~locked                -> "desktop"
    [] ShowsMissing(m)        -> "cover"
    [] surfaces[m] = "mapped" -> "surface"
    [] OTHER                  -> IF Primer THEN "cover" ELSE "desktop"

RemoveSendDeniedTimer == timer' = FALSE

(* onLockscreenRenderedOnMonitor                                            *)
(* -- variant: one rendered monitor is enough                               *)
LockscreenRendered_Any(m) ==
  IF ClientLocked \/ ClientDenied
  THEN UNCHANGED <<answer, notified, covered, timer>>
  ELSE /\ covered' = covered \cup {m}
       /\ Tell(current) /\ RemoveSendDeniedTimer

(* -- variant: the timer goes with the first monitor                        *)
LockscreenRendered_EarlyRemove(m) ==
  IF ClientLocked \/ ClientDenied
  THEN UNCHANGED <<answer, notified, covered, timer>>
  ELSE /\ covered' = covered \cup {m}
       /\ RemoveSendDeniedTimer
       /\ IF On \subseteq covered' THEN Tell(current) ELSE UNCHANGED <<answer, notified>>

LockscreenRendered(m) ==
  IF ClientLocked \/ ClientDenied
  THEN UNCHANGED <<answer, notified, covered, timer>>
  ELSE /\ covered' = covered \cup {m}
       /\ IF On \subseteq covered'
          THEN Tell(current) /\ RemoveSendDeniedTimer
          ELSE UNCHANGED <<answer, notified, timer>>

(* renderMonitor                                                            *)
Render(m) ==
  /\ active /\ monitor[m] \in {"on", "fading"}
  /\ shown' = [shown EXCEPT ![m] = Shows(m)]
  /\ IF Shows(m) = "surface"
     THEN LockscreenRendered(m)
     ELSE UNCHANGED <<answer, notified, covered, timer>>
  /\ UNCHANGED <<locked, current, surfaces, late, monitor, active>>

-----------------------------------------------------------------------------
(* Time                                                                     *)

LockdeadDelay ==
  /\ current # None /\ ~late
  /\ late' = TRUE
  /\ UNCHANGED <<lockVars, current, surfaces, covered, timer, screenVars>>

(* sendDeniedTimer: the function looks at m_sessionLock as it is now        *)
(* -- variant: while the session is inactive there is no answer             *)
TimerFires_ActiveOnly ==
  /\ timer /\ timer' = FALSE
  /\ IF Limbo /\ active THEN Deny(current) ELSE UNCHANGED answer
  /\ UNCHANGED <<locked, notified, current, surfaces, covered, late, screenVars>>

TimerFires ==
  /\ timer /\ timer' = FALSE
  /\ IF ~Limbo
     THEN UNCHANGED <<answer, notified>>
     ELSE IF Unsafe \/ ~active
          THEN Tell(current)
          ELSE Deny(current) /\ UNCHANGED notified
  /\ UNCHANGED <<locked, current, surfaces, covered, late, screenVars>>

-----------------------------------------------------------------------------
(* Monitors, and the session                                                *)

Screen(m, to) ==
  /\ monitor' = [monitor EXCEPT ![m] = to]
  /\ shown' = [shown EXCEPT ![m] = "nothing"]
  /\ UNCHANGED <<lockVars, managerVars, active>>

Connect(m)    == monitor[m] = "out" /\ Screen(m, "on")
Disconnect(m) == monitor[m] # "out" /\ Screen(m, "out")

DpmsOn(m) ==
  /\ monitor[m] \in {"fading", "off"}
  /\ Screen(m, "on")

(* the last frames of a monitor that goes to sleep fade to black            *)
DpmsOff(m) ==
  /\ monitor[m] = "on"
  /\ monitor' = [monitor EXCEPT ![m] = "fading"]
  /\ UNCHANGED <<lockVars, managerVars, active, shown>>

FadeEnds(m) == monitor[m] = "fading" /\ Screen(m, "off")

(* the screens belong to another VT while the session is not active         *)
SwitchVT ==
  /\ active' = ~active
  /\ shown' = [m \in Monitors |-> "nothing"]
  /\ UNCHANGED <<lockVars, managerVars, monitor>>

Next ==
  \/ \E l \in Locks : Ask(l) \/ Unlock(l) \/ Destroy(l)
  \/ \E m \in Monitors : \/ GetLockSurface(m) \/ MapSurface(m) \/ DestroySurface(m)
                         \/ Render(m) \/ Connect(m) \/ Disconnect(m)
                         \/ DpmsOn(m) \/ DpmsOff(m) \/ FadeEnds(m)
  \/ LockdeadDelay \/ TimerFires \/ SwitchVT

Spec == Init /\ [][Next]_vars

(* the event loop calls its timers                                          *)
FairSpec == Spec /\ WF_vars(TimerFires)

-----------------------------------------------------------------------------
TypeOK ==
  /\ locked \in BOOLEAN /\ notified \in BOOLEAN
  /\ answer \in [Locks -> AnswerAt]
  /\ current \in Locks \cup {None}
  /\ surfaces \in [Monitors -> SurfaceAt]
  /\ covered \subseteq Monitors
  /\ late \in BOOLEAN /\ timer \in BOOLEAN
  /\ monitor \in [Monitors -> MonitorAt] /\ active \in BOOLEAN
  /\ shown \in [Monitors -> ShownAt]

(* The manager and CLockNotifyProtocol never hold on to a lock of a session *)
(* that is unlocked.                                                        *)
NothingStray == ~locked => current = None /\ ~notified

(* The five-second timer runs exactly while the manager follows a lock that *)
(* has no answer yet: such a lock will get one, and a lock that is answered *)
(* or gone leaves no timer behind to answer for it a second time.           *)
TimerArmed == timer <=> Limbo

(* When the client that locked the session has been told so, no monitor     *)
(* that is on goes on showing the desktop.                                  *)
Hidden == ClientLocked => \A m \in On : shown[m] # "desktop"

(* Followed, a lock is answered, or gone.                                   *)
Answered == \A l \in Locks : current = l ~> answer[l] # "waiting"

(* Once a client was told locked, the desktop does not come back before the *)
(* session is unlocked, whatever the clients do, but for one case: a client *)
(* that was restarted, and has neither its answer nor used up the delay.    *)
StaysHidden ==
  [][ \A m \in Monitors :
        notified /\ notified' /\ shown[m] # "desktop" /\ shown'[m] = "desktop"
          => Limbo /\ ~late ]_vars
=============================================================================
