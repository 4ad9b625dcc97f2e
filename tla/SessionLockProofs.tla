-------------------------- MODULE SessionLockProofs --------------------------
(***************************************************************************)
(* Proofs about SessionLock, for any number of locks and monitors.          *)
(***************************************************************************)
EXTENDS SessionLock, TLAPS

(* Every variable keeps its type.                                           *)
LEMMA TypeStep == TypeOK /\ [Next]_vars => TypeOK'
<1> SUFFICES ASSUME TypeOK, [Next]_vars PROVE TypeOK'
  OBVIOUS
<1> USE ConstantsAssumption DEF TypeOK, AnswerAt, SurfaceAt, MonitorAt, ShownAt
<1>1. ASSUME NEW l \in Locks, Ask(l) PROVE TypeOK'
  <2>1. CASE Follow(l)
    <3>1. /\ current' \in Locks \cup {None} /\ surfaces' \in [Monitors -> SurfaceAt]
          /\ covered' \subseteq Monitors /\ late' \in BOOLEAN
      BY <2>1 DEF Follow
    <3>2. /\ answer' \in [Locks -> AnswerAt] /\ notified' \in BOOLEAN
          /\ timer' \in BOOLEAN
      BY <2>1 DEF Follow, Tell
    <3> QED
      BY <1>1, <3>1, <3>2 DEF Ask
  <2>2. CASE ~Follow(l)
    BY <1>1, <2>2 DEF Ask, Deny, managerVars
  <2> QED
    BY <2>1, <2>2
<1>2. ASSUME NEW l \in Locks, Unlock(l) \/ Destroy(l) PROVE TypeOK'
  BY <1>2 DEF Unlock, Destroy, Forget, managerVars, screenVars
<1>3. ASSUME NEW m \in Monitors, GetLockSurface(m) \/ MapSurface(m) \/ DestroySurface(m)
      PROVE  TypeOK'
  BY <1>3 DEF GetLockSurface, MapSurface, DestroySurface, lockVars, screenVars
<1>4. ASSUME NEW m \in Monitors, Render(m) PROVE TypeOK'
  <2>1. Shows(m) \in ShownAt
    BY DEF Shows
  <2>2. LockscreenRendered(m) => /\ answer' \in [Locks -> AnswerAt] /\ notified' \in BOOLEAN
                                 /\ covered' \subseteq Monitors /\ timer' \in BOOLEAN
    BY DEF LockscreenRendered, Tell, RemoveSendDeniedTimer
  <2> QED
    BY <1>4, <2>1, <2>2 DEF Render
<1>5. ASSUME NEW m \in Monitors,
             Connect(m) \/ Disconnect(m) \/ DpmsOn(m) \/ DpmsOff(m) \/ FadeEnds(m)
      PROVE  TypeOK'
  BY <1>5 DEF Connect, Disconnect, DpmsOn, DpmsOff, FadeEnds, Screen, lockVars, managerVars
<1>6. CASE LockdeadDelay
  BY <1>6 DEF LockdeadDelay, lockVars, screenVars
<1>7. CASE TimerFires
  BY <1>7 DEF TimerFires, Tell, Deny, screenVars
<1>8. CASE SwitchVT
  BY <1>8 DEF SwitchVT, lockVars, managerVars
<1>9. CASE UNCHANGED vars
  BY <1>9 DEF vars, lockVars, managerVars, screenVars
<1> QED
  BY <1>1, <1>2, <1>3, <1>4, <1>5, <1>6, <1>7, <1>8, <1>9 DEF Next

(* Every variable of the protocol, the manager and the screens keeps its    *)
(* type.                                                                    *)
THEOREM TypeCorrect == Spec => []TypeOK
<1>1. Init => TypeOK
  BY ConstantsAssumption DEF Init, TypeOK, AnswerAt, SurfaceAt, MonitorAt, ShownAt
<1> QED
  BY <1>1, TypeStep, PTL DEF Spec

-----------------------------------------------------------------------------
(* The lock that was told "locked" is the one the manager follows; the one  *)
(* it follows is in use; without one it has no surfaces.                    *)
OneHolder ==
  /\ \A l \in Locks : answer[l] = "locked" => locked /\ current = l
  /\ current # None => answer[current] \in {"waiting", "locked", "finished"}
  /\ current = None => \A m \in Monitors : surfaces[m] = "none"

LockInv == TypeOK /\ OneHolder /\ NothingStray /\ TimerArmed

(* Only Ask, Unlock and Destroy change which lock is followed, and only Ask *)
(* needs a lock client to wait for its turn.                                *)
LEMMA LockStep ==
  ASSUME ~(AllowRestore /\ Rivals)
  PROVE  LockInv /\ [Next]_vars => LockInv'
<1> SUFFICES ASSUME LockInv, [Next]_vars PROVE OneHolder' /\ NothingStray' /\ TimerArmed'
  BY TypeStep DEF LockInv
<1> USE ConstantsAssumption DEF LockInv, OneHolder, NothingStray, TimerArmed, Limbo,
                                ClientLocked, ClientDenied
<1>1. ASSUME NEW l \in Locks, Ask(l) PROVE OneHolder' /\ NothingStray' /\ TimerArmed'
  <2>1. locked' /\ answer[l] = "none" /\ (current # None => current # l)
    BY <1>1 DEF Ask, MayAsk
  <2>2. \A k \in Locks : k # l => answer'[k] = answer[k]
    BY <1>1 DEF Ask, Deny, Follow, Tell, TypeOK
  <2>3. CASE UNCHANGED <<current, timer, surfaces>> /\ answer'[l] \in {"waiting", "finished"}
    BY <2>1, <2>2, <2>3 DEF TypeOK
  <2>4. CASE Follow(l) /\ (~locked \/ AllowRestore)
    <3>1. \A k \in Locks : answer[k] # "locked"
      BY <1>1, <2>4 DEF Ask, MayAsk
    <3>2. answer'[l] \in {"waiting", "locked"} /\ current' = l
      BY <2>4 DEF Follow, Tell, TypeOK
    <3>3. answer'[l] = "waiting" <=> timer'
      BY <2>4 DEF Follow, Tell, TypeOK
    <3> QED
      BY <2>1, <2>2, <3>1, <3>2, <3>3
  <2> QED
    BY <1>1, <2>3, <2>4 DEF Ask, Deny, TypeOK, managerVars
<1>2. ASSUME NEW l \in Locks, Unlock(l) PROVE OneHolder' /\ NothingStray' /\ TimerArmed'
  BY <1>2 DEF Unlock, Forget, TypeOK, managerVars
<1>3. ASSUME NEW l \in Locks, Destroy(l) PROVE OneHolder' /\ NothingStray' /\ TimerArmed'
  BY <1>3 DEF Destroy, Forget, TypeOK, managerVars
<1>4. ASSUME NEW m \in Monitors, Render(m) PROVE OneHolder' /\ NothingStray' /\ TimerArmed'
  <2>1. CASE UNCHANGED <<answer, notified, timer>>
    BY <1>4, <2>1 DEF Render
  <2>2. CASE Limbo /\ Tell(current) /\ timer' = FALSE
    BY <1>4, <2>2 DEF Render, Tell, TypeOK
  <2>3. Shows(m) = "surface" => locked /\ current # None
    BY DEF Shows, ShowsMissing, ShallConsiderLockMissing, TypeOK
  <2> QED
    BY <1>4, <2>1, <2>2, <2>3 DEF Render, LockscreenRendered, RemoveSendDeniedTimer
<1>5. CASE TimerFires
  <2>1. CASE ~Limbo /\ UNCHANGED <<answer, notified>>
    BY <1>5, <2>1 DEF TimerFires
  <2>2. CASE Limbo /\ (Tell(current) \/ (Deny(current) /\ UNCHANGED notified))
    BY <1>5, <2>2 DEF TimerFires, Tell, Deny, TypeOK
  <2> QED
    BY <1>5, <2>1, <2>2 DEF TimerFires
<1>6. CASE UNCHANGED <<locked, answer, notified, current, timer>>
           /\ (UNCHANGED surfaces \/ current # None)
  BY <1>6
<1>7. ASSUME NEW m \in Monitors, GetLockSurface(m) \/ MapSurface(m) \/ DestroySurface(m)
      PROVE  UNCHANGED <<locked, answer, notified, current, timer>> /\ current # None
  BY <1>7 DEF GetLockSurface, MapSurface, DestroySurface, lockVars, screenVars, TypeOK
<1> QED
  BY <1>1, <1>2, <1>3, <1>4, <1>5, <1>6, <1>7
     DEF Next, vars, lockVars, managerVars, screenVars, Connect, Disconnect, DpmsOn, DpmsOff, FadeEnds, Screen,
         LockdeadDelay, SwitchVT

LEMMA LockInit == Init => LockInv
<1> SUFFICES ASSUME Init PROVE LockInv
  OBVIOUS
<1>1. TypeOK
  BY ConstantsAssumption DEF Init, TypeOK, AnswerAt, SurfaceAt, MonitorAt, ShownAt
<1> QED
  BY <1>1 DEF Init, LockInv, OneHolder, NothingStray, TimerArmed, Limbo

LEMMA LockInvariant ==
  ASSUME ~(AllowRestore /\ Rivals)
  PROVE  Spec => []LockInv
  BY LockInit, LockStep, PTL DEF Spec

(* Unless a second client asks while another has the session, an unlocked   *)
(* session leaves nothing behind in the manager.                            *)
THEOREM UnlockLeavesNothing ==
  ASSUME ~(AllowRestore /\ Rivals)
  PROVE  Spec => []NothingStray
<1>1. LockInv => NothingStray
  BY DEF LockInv
<1> QED
  BY <1>1, LockInvariant, PTL

(* The five-second timer runs exactly while a lock is followed and has no   *)
(* answer, through crashes, restarts, denials and frames.                   *)
THEOREM AnswerIsDue ==
  ASSUME ~(AllowRestore /\ Rivals)
  PROVE  Spec => []TimerArmed
<1>1. LockInv => TimerArmed
  BY DEF LockInv
<1> QED
  BY <1>1, LockInvariant, PTL

-----------------------------------------------------------------------------
(* A covered monitor has kept its surface, and its last frame showed it or  *)
(* nothing at all; on another VT nothing is shown.                          *)
CoverSound ==
  Limbo => \A m \in covered : surfaces[m] = "mapped" /\ shown[m] # "desktop"

Blank == ~active => \A m \in Monitors : shown[m] = "nothing"

HiddenInv == CoverSound /\ Blank /\ Hidden

(* The frame that completes covered leaves every monitor that is on without *)
(* the desktop, and frames after it have the primer.                        *)
LEMMA HiddenStep ==
  ASSUME KeepsSurfaces
  PROVE  LockInv /\ HiddenInv /\ [Next]_vars => HiddenInv'
<1> SUFFICES ASSUME LockInv, HiddenInv, [Next]_vars PROVE HiddenInv'
  OBVIOUS
<1> USE ConstantsAssumption DEF HiddenInv, CoverSound, Blank, Hidden, Limbo, ClientLocked,
                                ClientDenied, On
<1>0. TypeOK /\ OneHolder /\ NothingStray
  BY DEF LockInv
<1>1. ASSUME NEW l \in Locks, Ask(l) PROVE HiddenInv'
  <2>1. answer[l] = "none" /\ UNCHANGED <<shown, monitor, active>>
    BY <1>1 DEF Ask, MayAsk
  <2>2. CASE Follow(l)
    <3>1. current' = l /\ covered' = {}
      BY <2>2 DEF Follow
    <3>2. answer'[l] = "locked" => On = {}
      BY <2>2, <1>0 DEF Follow, TypeOK
    <3> QED
      BY <2>1, <3>1, <3>2
  <2>3. CASE UNCHANGED <<current, surfaces, covered>> /\ current # l
             /\ \A k \in Locks : k # l => answer'[k] = answer[k]
    BY <2>1, <2>3, <1>0 DEF TypeOK
  <2>4. current # l
    BY <2>1, <1>0 DEF OneHolder
  <2>5. \A k \in Locks : k # l => answer'[k] = answer[k]
    BY <1>1, <1>0 DEF Ask, Deny, Follow, Tell, TypeOK
  <2> QED
    BY <1>1, <2>2, <2>3, <2>4, <2>5 DEF Ask, managerVars
<1>2. ASSUME NEW l \in Locks, Unlock(l) \/ Destroy(l) PROVE HiddenInv'
  <2>1. UNCHANGED <<shown, monitor, active>>
    BY <1>2 DEF Unlock, Destroy, screenVars
  <2>2. CASE current' = None
    BY <2>1, <2>2
  <2>3. CASE l # current /\ UNCHANGED <<current, surfaces, covered>>
             /\ answer' = [answer EXCEPT ![l] = "gone"]
    BY <2>1, <2>3, <1>0 DEF TypeOK
  <2> QED
    BY <1>2, <2>2, <2>3 DEF Unlock, Destroy, Forget, managerVars
<1>3. ASSUME NEW m \in Monitors, GetLockSurface(m) \/ MapSurface(m) \/ DestroySurface(m)
      PROVE  HiddenInv'
  <2>1. UNCHANGED <<answer, current, covered, shown, monitor, active>>
    BY <1>3 DEF GetLockSurface, MapSurface, DestroySurface, lockVars, screenVars
  <2>2. Limbo => \A n \in Monitors : surfaces[n] = "mapped" => surfaces'[n] = "mapped"
    BY <1>3, <1>0 DEF GetLockSurface, MapSurface, DestroySurface, TypeOK
  <2> QED
    BY <2>1, <2>2, <1>0 DEF TypeOK
<1>4. ASSUME NEW m \in Monitors, Render(m) PROVE HiddenInv'
  <2>1. /\ active /\ UNCHANGED <<current, surfaces, monitor, active, locked>>
        /\ shown' = [shown EXCEPT ![m] = Shows(m)]
    BY <1>4 DEF Render
  <2>2. ClientLocked => Shows(m) # "desktop"
    BY <1>0 DEF Shows, Primer, OneHolder, TypeOK
  <2>3. Limbo /\ surfaces[m] = "mapped" => Shows(m) # "desktop"
    BY <1>0 DEF Shows, NothingStray
  <2>4. CASE UNCHANGED <<answer, covered>>
    BY <2>1, <2>2, <2>3, <2>4, <1>0 DEF TypeOK
  <2>5. CASE Shows(m) = "surface" /\ LockscreenRendered(m) /\ Limbo
    <3>1. covered' = covered \cup {m} /\ surfaces[m] = "mapped"
      BY <2>5 DEF LockscreenRendered, Shows, ShowsMissing, Primer
    <3>2. \A n \in covered' : surfaces'[n] = "mapped" /\ shown'[n] # "desktop"
      BY <2>1, <2>5, <3>1, <1>0 DEF TypeOK
    <3>3. answer' # answer => On \subseteq covered'
      BY <2>5, <3>1 DEF LockscreenRendered
    <3> QED
      BY <2>1, <2>5, <3>2, <3>3, <1>0 DEF TypeOK
  <2>6. Shows(m) = "surface" => current # None
    BY <1>0 DEF Shows, ShowsMissing, ShallConsiderLockMissing, OneHolder, TypeOK
  <2> QED
    BY <1>4, <2>4, <2>5, <2>6 DEF Render, LockscreenRendered
<1>5. ASSUME NEW m \in Monitors,
             Connect(m) \/ Disconnect(m) \/ DpmsOn(m) \/ DpmsOff(m) \/ FadeEnds(m)
      PROVE  HiddenInv'
  <2>1. UNCHANGED <<answer, current, surfaces, covered, active>>
    BY <1>5 DEF Connect, Disconnect, DpmsOn, DpmsOff, FadeEnds, Screen, lockVars, managerVars
  <2>2. \A n \in Monitors : /\ shown'[n] \in {shown[n], "nothing"}
                            /\ monitor'[n] = "on" => monitor[n] = "on" \/ shown'[n] = "nothing"
    BY <1>5, <1>0 DEF Connect, Disconnect, DpmsOn, DpmsOff, FadeEnds, Screen, TypeOK
  <2> QED
    BY <2>1, <2>2, <1>0 DEF TypeOK
<1>6. CASE TimerFires
  <2>1. UNCHANGED <<current, surfaces, covered, monitor, active, shown>>
    BY <1>6 DEF TimerFires, screenVars
  <2>2. CASE answer' = answer
    BY <2>1, <2>2
  <2>3. CASE Limbo /\ (Unsafe \/ ~active) /\ Tell(current)
    <3>1. \A m \in On : shown[m] = "nothing"
      BY <2>3 DEF Unsafe
    <3> QED
      BY <2>1, <2>3, <3>1, <1>0 DEF Tell, TypeOK
  <2>4. CASE Limbo /\ Deny(current)
    BY <2>1, <2>4, <1>0 DEF Deny, TypeOK
  <2> QED
    BY <1>6, <2>2, <2>3, <2>4 DEF TimerFires
<1>7. CASE SwitchVT
  BY <1>7, <1>0 DEF SwitchVT, lockVars, managerVars, TypeOK
<1>8. CASE LockdeadDelay \/ UNCHANGED vars
  BY <1>8 DEF LockdeadDelay, vars, lockVars, managerVars, screenVars
<1> QED
  BY <1>1, <1>2, <1>3, <1>4, <1>5, <1>6, <1>7, <1>8 DEF Next

(* If clients keep their surfaces until they are answered and take turns,   *)
(* a client that was told "locked" never has the desktop on a monitor that  *)
(* is on, whatever monitors come, go or sleep.                              *)
THEOREM DesktopHidden ==
  ASSUME KeepsSurfaces, ~(AllowRestore /\ Rivals)
  PROVE  Spec => []Hidden
<1>1. Init => HiddenInv
  BY ConstantsAssumption DEF Init, HiddenInv, CoverSound, Blank, Hidden, Limbo, ClientLocked
<1>2. HiddenInv => Hidden
  BY DEF HiddenInv
<1> QED
  BY <1>1, <1>2, HiddenStep, LockInvariant, PTL DEF Spec

-----------------------------------------------------------------------------
(* Once a client was told "locked", the desktop does not come back while    *)
(* the session is locked, whatever the clients do with their surfaces, but  *)
(* in the frames of a lock that took over and is not answered yet: only a   *)
(* frame could bring it back, and renderLockscreen has the primer for all   *)
(* the others.                                                              *)
THEOREM NoWayBack ==
  ASSUME ~(AllowRestore /\ Rivals)
  PROVE  Spec => StaysHidden
<1>1. LockInv /\ [Next]_vars =>
        [\A m \in Monitors :
           notified /\ notified' /\ shown[m] # "desktop" /\ shown'[m] = "desktop"
             => Limbo /\ ~late]_vars
  <2> SUFFICES ASSUME LockInv, [Next]_vars, NEW m \in Monitors,
                      notified, shown[m] # "desktop", shown'[m] = "desktop"
               PROVE  Limbo /\ ~late
    OBVIOUS
  <2>1. TypeOK /\ NothingStray
    BY DEF LockInv
  <2>2. \E n \in Monitors : Render(n)
    <3>1. \A n \in Monitors : ~Screen(n, "on") /\ ~Screen(n, "off") /\ ~Screen(n, "out")
      BY <2>1 DEF Screen, TypeOK
    <3>2. ~SwitchVT
      BY DEF SwitchVT
    <3>3. shown' # shown
      OBVIOUS
    <3> QED
      BY <3>1, <3>2, <3>3
         DEF Next, vars, screenVars, Ask, Unlock, Destroy, GetLockSurface, MapSurface,
             DestroySurface, Connect, Disconnect, DpmsOn, DpmsOff, FadeEnds,
             LockdeadDelay, TimerFires
  <2>3. Shows(m) = "desktop"
    BY <2>1, <2>2 DEF Render, TypeOK
  <2>4. locked
    BY <2>1 DEF NothingStray
  <2>5. ~Primer
    BY <2>3, <2>4 DEF Shows
  <2> QED
    BY <2>5 DEF Primer, ShallConsiderLockMissing, Limbo
<1> QED
  BY <1>1, LockInvariant, PTL DEF StaysHidden, Spec

=============================================================================
