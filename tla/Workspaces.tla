----------------------------- MODULE Workspaces -----------------------------
(***************************************************************************)
(* Workspaces, windows and monitors.  A workspace belongs to a monitor and  *)
(* lives while a monitor shows it or a window is on it.  A monitor shows    *)
(* one normal workspace and, above it, at most one special workspace.       *)
(* When a monitor is unplugged its workspaces go to another one; with none  *)
(* left the compositor is in the unsafe state, on a headless output.        *)
(*                                                                          *)
(* desk is all of that state; the operators below take a desk and give the  *)
(* one the code's function of that name leaves.  Left out: pinned windows,  *)
(* groups, persistent and bound workspaces, disabled and mirrored monitors, *)
(* dispatchers sent by hyprctl, and windows asking for an output, in the    *)
(* unsafe state (key binds are ignored there), and windows mapped again     *)
(* after they were unmapped fullscreen in it.  Maximized is fullscreen.     *)
(***************************************************************************)
EXTENDS Naturals, Sequences, SequencesExt, FiniteSets

CONSTANTS Monitors,   \* the outputs that come and go, by name
          Fallback,   \* the headless output of the unsafe state
          Windows,
          Specials,   \* the special workspaces
          Ids,        \* of normal workspaces, from 1 on
          MaxAsked,   \* users ask for those in 1..MaxAsked
          MaxUnplugs, \* bounds: monitors are unplugged this often,
          MaxOrders,  \* and users dispatch, or clients ask, this often
          None

Asked == 1..MaxAsked
Spaces == Ids \union Specials
Screens == Monitors \union {Fallback}

(* A free ID is always found: a workspace has a window, is shown by one of  *)
(* the screens, was just asked for, or fills a gap, of which one is made on *)
(* each screen at most before the workspaces nobody needs are gone.         *)
ASSUME ConstantsAssumption ==
  /\ {MaxAsked, MaxUnplugs, MaxOrders} \subseteq Nat
  /\ Ids \subseteq Nat \ {0} /\ 1 \in Ids /\ Asked \subseteq Ids
  /\ IsFiniteSet(Screens) /\ IsFiniteSet(Windows)
  /\ IsFiniteSet(Ids) =>
       /\ Ids = 1..Cardinality(Ids)
       /\ Cardinality(Ids) >= Cardinality(Windows) + 2 * Cardinality(Screens)
  /\ Fallback \notin Monitors /\ None \notin Screens \union Spaces
  /\ Ids \intersect Specials = {}

VARIABLES desk,
          unplugs,    \* how often a monitor was unplugged
          orders      \* how often a user has dispatched, or a client asked

vars == <<desk, unplugs, orders>>

Desk == [
  monitors : Seq(Screens),                   \* m_monitors, in their order
  focus    : Screens,                        \* m_focusMonitor
  active   : [Screens -> Ids \union {None}],        \* m_activeWorkspace
  special  : [Screens -> Specials \union {None}],   \* m_activeSpecialWorkspace
  spaces   : Seq(Spaces),                    \* m_workspaces, oldest first
  home     : [Spaces -> Screens \union {None}],     \* its m_monitor
  last     : [Spaces -> Screens \union {None}],     \* its m_lastMonitor
  visible  : SUBSET Spaces,                  \* its m_visible
  seen     : [Screens -> Ids \union {None}], \* m_seenMonitorWorkspaceMap
  at       : [Windows -> Spaces \union {None}],     \* its m_workspace
  on       : [Windows -> Screens \union {None}],    \* its m_monitor
  full     : SUBSET Windows,                 \* its m_fullscreenState
  hasFull  : SUBSET Spaces ]                 \* m_hasFullscreenWindow

(* one monitor was plugged in when the compositor started                   *)
Init == unplugs = 0 /\ orders = 0 /\ \E m \in Monitors :
  desk = [ monitors |-> <<m>>, focus |-> m,
           active  |-> [s \in Screens |-> IF s = m THEN 1 ELSE None],
           special |-> [s \in Screens |-> None],
           spaces  |-> <<1>>,
           home    |-> [w \in Spaces |-> IF w = 1 THEN m ELSE None],
           last    |-> [w \in Spaces |-> None],
           visible |-> {1},
           seen    |-> [s \in Screens |-> None],
           at      |-> [x \in Windows |-> None],
           on      |-> [x \in Windows |-> None],
           full    |-> {},  hasFull |-> {} ]

Plugged(d)   == ToSet(d.monitors)
Exists(d, w) == w \in ToSet(d.spaces)
Safe(d)      == Fallback \notin Plugged(d)
On(d, w)     == {x \in Windows : d.at[x] = w}
Mapped(d)    == {x \in Windows : d.at[x] # None}

(* those of s that are in S, in their order (SelectSeq by a set: a function *)
(* that can be reasoned about)                                              *)
Those(s, S) ==
  LET those[i \in 0..Len(s)] ==
        IF i = 0 THEN <<>>
        ELSE IF s[i] \in S THEN Append(those[i - 1], s[i]) ELSE those[i - 1]
  IN those[Len(s)]

-----------------------------------------------------------------------------
(* A workspace's life                                                       *)

FreeId(d) == CHOOSE i \in Ids :
               ~Exists(d, i) /\ \A j \in 1..(i - 1) : Exists(d, j)

Create(d, w, s) == [d EXCEPT !.spaces = Append(@, w), !.home[w] = s]

Created(d, w, s) == IF Exists(d, w) THEN d ELSE Create(d, w, s)

(* the references to a workspace are its monitor's and its windows'         *)
Alive(d, w) == \/ \E s \in Screens : d.active[s] = w \/ d.special[s] = w
               \/ On(d, w) # {}

Reap(d) ==
  [d EXCEPT !.spaces  = Those(@, {w \in Spaces : Alive(d, w)}),
            !.home    = [w \in Spaces |-> IF Alive(d, w) THEN @[w] ELSE None],
            !.last    = [w \in Spaces |-> IF Alive(d, w) THEN @[w] ELSE None],
            !.visible = {w \in @ : Alive(d, w)},
            !.hasFull = {w \in @ : Alive(d, w)}]

-----------------------------------------------------------------------------
(* Fullscreen windows                                                       *)

(* the first of its windows that is                                         *)
FullscreenWindow(d, w) ==
  LET full == On(d, w) \intersect d.full
  IN IF full = {} THEN {} ELSE {CHOOSE x \in full : TRUE}

updateWindows(d, ws) ==
  [d EXCEPT !.hasFull = (@ \ ws) \union
                          {w \in ws : On(d, w) \intersect d.full # {}}]

(* setWindowFullscreenState, internal and client modes in step: another     *)
(* fullscreen window of the workspace leaves fullscreen, whatever is asked  *)
SetFullscreen(d, x, on) ==
  LET w     == d.at[x]
      other == IF w \in d.hasFull /\ x \notin d.full
               THEN FullscreenWindow(d, w) ELSE {}
      e     == [d EXCEPT !.full = @ \ other,
                         !.hasFull = IF other = {} THEN @ ELSE @ \ {w}]
  IN IF ~Safe(d) \/ w = None THEN d
     ELSE CASE on /\ x \notin d.full -> [e EXCEPT !.full = @ \union {x},
                                                 !.hasFull = @ \union {w}]
            [] ~on /\ x \in d.full   -> [e EXCEPT !.full = @ \ {x},
                                                 !.hasFull = @ \ {w}]
            [] OTHER -> e

(* onFullscreenWorkspaceFocusWindow: x takes over, ends fullscreen, or      *)
(* neither (misc:on_focus_under_fullscreen, or x floats)                    *)
Contends(d, x) ==
  {d} \union IF d.at[x] \in d.hasFull /\ x \notin d.full
             THEN {SetFullscreen(d, x, on) : on \in BOOLEAN} ELSE {}

(* a window that is seen may get the focus                                  *)
Focused(d) == {d} \union
  UNION {Contends(d, x) : x \in {y \in Windows : d.at[y] \in d.visible}}

-----------------------------------------------------------------------------
(* What a monitor shows                                                     *)

ChangeWorkspace(d, s, w) ==
  IF d.active[s] = w THEN d ELSE
  [d EXCEPT !.active[s] = w,
            !.visible   = (@ \ {d.active[s]}) \union {w}]

CloseSpecial(d, s) ==
  [d EXCEPT !.special[s] = None, !.visible = @ \ {d.special[s]}]

(* it is closed on its owner, its m_monitor                                 *)
OpenSpecial(d, s, w) ==
  IF d.special[s] = w THEN d ELSE
  LET owner == d.home[w] IN
  [d EXCEPT !.special = [t \in Screens |->
                           CASE t = s -> w
                             [] t # s /\ t = owner /\ @[t] = w -> None
                             [] OTHER -> @[t]],
            !.visible = (@ \ {d.special[s]}) \union {w},
            !.home[w] = s,
            !.on      = [x \in Windows |-> IF d.at[x] = w THEN s ELSE @[x]]]

(* rawWindowFocus of a mapped window: its workspace is shown first          *)
FocusOn(d, x) ==
  LET w == d.at[x]  s == d.on[x] IN
  IF w \notin d.visible /\ w \in Specials THEN OpenSpecial(d, d.focus, w)
  ELSE IF s = None THEN d
  ELSE IF w \notin d.visible
       THEN LET e == ChangeWorkspace(d, s, w) IN
            IF d.special[d.focus] = None THEN CloseSpecial(e, s) ELSE e
       ELSE IF d.special[s] # w THEN CloseSpecial(d, s) ELSE d

(* mouseMoveUnified: the monitor the pointer is on takes the focus          *)
Pointed(d) == {d} \union
  {[d EXCEPT !.focus = s] : s \in IF Safe(d) THEN Plugged(d) ELSE {}}

(* the handlers that move the focus; at most one window contends            *)
Becomes(ds) ==
  \E d \in ds : \E e \in Pointed(Reap(d)) : \E f \in Focused(e) : desk' = f

-----------------------------------------------------------------------------
(* Moving workspaces between monitors                                       *)

(* -- variant: the workspace that leaves may plug its own gap               *)
Others_WithItself(d, w, s) ==
  Those(d.spaces, {v \in Ids : d.home[v] = s})

(* the workspaces that can plug the gap w leaves on s                       *)
Others(d, w, s) == Those(d.spaces, {v \in Ids : d.home[v] = s /\ v # w})

PlugGap(d, w, s) ==
  IF Others(d, w, s) # <<>>
  THEN ChangeWorkspace(d, s, Head(Others(d, w, s)))
  ELSE LET n == FreeId(d) IN ChangeWorkspace(Create(d, n, s), s, n)

(* it and its windows get the monitor                                       *)
Rehome(d, w, s) ==
  [d EXCEPT !.home[w] = s,
            !.on = [x \in Windows |-> IF d.at[x] = w THEN s ELSE @[x]]]

(* -- variant: the workspace it replaces stays marked visible               *)
MoveWorkspace_StaysVisible(d, w, s) ==
  IF d.home[w] = s THEN d ELSE
  LET old    == d.home[w]
      shown  == old # None /\ d.active[old] = w
      gap    == IF shown THEN PlugGap(d, w, old) ELSE d
      moved  == Rehome(gap, w, s)
  IN IF shown /\ old = d.focus
     THEN [moved EXCEPT !.focus = s, !.active[s] = w,
                        !.visible = @ \union {w}]
     ELSE moved

MoveWorkspace(d, w, s) ==
  IF d.home[w] = s THEN d ELSE
  LET old    == d.home[w]
      shown  == old # None /\ d.active[old] = w     \* SWITCHINGISACTIVE
      gap    == IF shown THEN PlugGap(d, w, old) ELSE d
      moved  == Rehome(gap, w, s)
  IN IF shown /\ old = d.focus
     THEN [ChangeWorkspace(moved, s, w) EXCEPT !.focus = s]
     ELSE moved

(* one after the other                                                      *)
MoveAll(d, ws, s) ==
  LET moved[i \in 0..Len(ws)] ==
        IF i = 0 THEN d ELSE MoveWorkspace(moved[i - 1], ws[i], s)
  IN moved[Len(ws)]

Swapped(d, a, b) ==
  LET wa == d.active[a]  wb == d.active[b]
  IN [d EXCEPT !.home[wa] = b, !.home[wb] = a,
               !.active[a] = wb, !.active[b] = wa,
               !.on = [x \in Windows |-> CASE d.at[x] = wa -> b
                                           [] d.at[x] = wb -> a
                                           [] OTHER -> @[x]]]

(* both workspaces stay visible; a window of the one that comes to the      *)
(* focused monitor may take the focus                                       *)
Swap(d, a, b) ==
  LET e == Swapped(d, a, b)
  IN {e} \union {FocusOn(e, x) : x \in {y \in Windows :
                   d.focus \in {a, b} /\ d.at[y] = e.active[d.focus]}}

-----------------------------------------------------------------------------
(* Dispatchers                                                              *)

(* the dispatcher workspace: a window of w may take the focus when the      *)
(* focus changes monitors                                                   *)
ToWorkspace(d, w) ==
  LET e     == Created(d, w, d.focus)
      owner == e.home[w]
      shown == ChangeWorkspace([e EXCEPT !.focus = owner], owner, w)
  IN IF w = d.active[d.focus] THEN {d}
     ELSE IF w \in Specials THEN {OpenSpecial(e, d.focus, w)}
     ELSE {shown} \union {FocusOn(shown, x) :
                            x \in IF owner # d.focus THEN On(d, w) ELSE {}}

Workspace(w) == Safe(desk) /\ Becomes(ToWorkspace(desk, w))

FocusWorkspaceOnCurrentMonitor(w) ==
  LET here == desk.focus
      d    == Created(desk, w, here)
      old  == d.home[w]
  IN /\ Safe(desk)
     /\ IF old # here /\ d.active[old] = w
        THEN Becomes(Swap(d, old, here))
        ELSE Becomes(ToWorkspace(MoveWorkspace(d, w, here), w))

ToggleSpecialWorkspace(w) ==
  LET here == desk.focus IN
  /\ Safe(desk)
  /\ IF desk.special[here] = w
     THEN Becomes({CloseSpecial(desk, here)})
     ELSE Becomes({OpenSpecial(Created(desk, w, here), here, w)})

MoveWorkspaceToMonitor(w, m) ==
  /\ Safe(desk) /\ Exists(desk, w) /\ m \in Plugged(desk)
  /\ desk' = Reap(MoveWorkspace(desk, w, m))

SwapActiveWorkspaces(a, b) ==
  /\ Safe(desk) /\ a # b /\ {a, b} \subseteq Plugged(desk)
  /\ \E d \in Swap(desk, a, b) : \E e \in Focused(Reap(d)) : desk' = e

(* moveToWorkspace: misc:close_special_on_empty closes what is open on the  *)
(* monitor of the special workspace the window leaves                       *)
Leave(d, x, w) ==
  LET old == d.at[x]
      e   == updateWindows([d EXCEPT !.at[x] = w], {old, w})
  IN IF old \in Specials /\ On(e, old) = {} /\ e.home[old] # None
     THEN CloseSpecial(e, e.home[old]) ELSE e

(* -- variant: fullscreen is not left for the move                          *)
MoveWindow_Fullscreen(d, x, w) ==
  LET e == Created(d, w, d.on[x])
  IN updateWindows([Leave(e, x, w) EXCEPT !.on[x] = e.home[w]], {w})

(* moveWindowToWorkspaceSafe; the workspace is made on the window's monitor *)
MoveWindow(d, x, w) ==
  LET full  == x \in d.full
      made  == Created(d, w, d.on[x])
      out   == IF full THEN SetFullscreen(made, x, FALSE) ELSE made
      moved == [Leave(out, x, w) EXCEPT !.on[x] = made.home[w]]
      again == IF full THEN SetFullscreen(moved, x, TRUE) ELSE moved
  IN updateWindows(again, {w})

(* nothing is made for a window without a monitor                           *)
MayMove(x, w) == /\ desk.at[x] \notin {None, w}
                 /\ Exists(desk, w) \/ desk.on[x] # None

(* the focus goes to an existing workspace's monitor, and the window keeps  *)
(* its mode: one that is not fullscreen ends what is there                  *)
MoveToWorkspace(x, w) ==
  LET old == desk.at[x]
      d   == MoveWindow(desk, x, w)
      s   == d.on[x]
      e   == IF Exists(desk, w)
             THEN SetFullscreen([d EXCEPT !.focus = s], x, x \in desk.full)
             ELSE d
  IN /\ Safe(desk) /\ MayMove(x, w)
     /\ IF w \in Specials THEN Becomes({OpenSpecial(e, s, w)})
        ELSE LET f == IF old \in Specials THEN CloseSpecial(e, d.home[old])
                      ELSE e
             IN Becomes({FocusOn(ChangeWorkspace(f, s, w), x)})

MoveToWorkspaceSilent(x, w) ==
  /\ Safe(desk) /\ MayMove(x, w)
  /\ Becomes({MoveWindow(desk, x, w)})

(* tryMoveFocusToMonitor; its last focused window is on what it shows       *)
FocusMonitor(m) ==
  /\ Safe(desk) /\ m \in Plugged(desk) \ {desk.focus}
  /\ desk' \in Focused([desk EXCEPT !.focus = m])

FocusWindow(x) ==
  LET w     == desk.at[x]
      here  == w \in {desk.active[desk.focus], desk.special[desk.focus]}
      first == IF here THEN {desk} ELSE ToWorkspace(desk, w)
  IN /\ Safe(desk) /\ x \in Mapped(desk)
     /\ Becomes({FocusOn(d, x) : d \in first})

FullscreenActive(x, on) ==
  /\ Safe(desk) /\ x \in Mapped(desk)
  /\ desk' = SetFullscreen(desk, x, on)

(* xdg_toplevel.set_fullscreen of an output: the window goes there first    *)
SetFullscreenOn(x, m) ==
  LET w == desk.active[m]
      d == IF desk.at[x] = w THEN desk ELSE MoveWindow(desk, x, w)
  IN /\ Safe(desk) /\ x \in Mapped(desk) /\ m \in Plugged(desk)
     /\ Becomes({SetFullscreen([d EXCEPT !.focus = m], x, TRUE)})

-----------------------------------------------------------------------------
(* Windows come and go, also in the unsafe state                            *)

(* it asks for fullscreen, or it contends with the one there is             *)
Opens(d, x) == Contends(d, x) \union {SetFullscreen(d, x, TRUE)}

(* a new window takes the focus where it is                                 *)
MapWindow(x) ==
  LET s == desk.focus
      w == IF desk.special[s] # None THEN desk.special[s] ELSE desk.active[s]
  IN /\ desk.at[x] = None
     /\ \E d \in Opens([desk EXCEPT !.at[x] = w, !.on[x] = s], x) :
          desk' = updateWindows(d, {w})

(* misc:exit_window_retains_fullscreen                                      *)
Retains(d, full) ==
  {d} \union IF full THEN {SetFullscreen(d, y, TRUE) : y \in Mapped(d)} ELSE {}

(* misc:close_special_on_empty.  onUnmap uses the monitor of a special      *)
(* workspace's last window without a check; the model has no such step when *)
(* there is none                                                            *)
UnmapWindow(x) ==
  LET w == desk.at[x]  s == desk.on[x]
      d == [desk EXCEPT !.at[x] = None, !.on[x] = None, !.full = @ \ {x}]
      emptied == w \in Specials /\ On(d, w) = {}
  IN /\ x \in Mapped(desk)
     /\ emptied => s # None
     /\ Becomes({IF emptied /\ desk.special[s] = w THEN CloseSpecial(e, s)
                 ELSE e : e \in Retains(updateWindows(d, {w}), x \in desk.full)})

-----------------------------------------------------------------------------
(* Monitors come and go                                                     *)

(* findAvailableDefaultWS is of no existing workspace                       *)
SetupDefaultWS(d, s) ==
  LET n == FreeId(d) IN ChangeWorkspace(Create(d, n, s), s, n)

(* -- variant: only when s is alone                                         *)
MoveBack_Alone(d, s) ==
  LET back == IF Len(d.monitors) = 1 THEN d.spaces ELSE <<>>
  IN [MoveAll(d, back, s) EXCEPT
        !.last = [w \in Spaces |-> IF w \in ToSet(back) THEN None ELSE @[w]]]

(* the workspaces that were moved away from s, or all if it is alone        *)
MoveBack(d, s) ==
  LET back == Those(d.spaces,
                {w \in Spaces : d.last[w] = s \/ Len(d.monitors) = 1})
  IN [MoveAll(d, back, s) EXCEPT
        !.last = [w \in Spaces |-> IF w \in ToSet(back) THEN None ELSE @[w]]]

(* m_seenMonitorWorkspaceMap                                                *)
RestoreSeen(d, s) ==
  LET w == d.seen[s] IN
  IF w = None \/ ~Exists(d, w) THEN d
  ELSE ChangeWorkspace(MoveWorkspace(d, w, s), s, w)

OnConnect(d, s) ==
  LET added == SetupDefaultWS([d EXCEPT !.monitors = Append(@, s)], s)
  IN Reap(RestoreSeen(Reap(MoveBack(added, s)), s))

(* -- variant: workspaces without a monitor are left where they are         *)
Evacuate_OwnOnly(d, s, backup) ==
  LET ws == Those(d.spaces, {w \in Spaces : d.home[w] = s})
  IN MoveAll([d EXCEPT !.last = [w \in Spaces |->
                IF w \in ToSet(ws) THEN s ELSE @[w]]], ws, backup)

(* wspToMove                                                                *)
Evacuate(d, s, backup) ==
  LET ws == Those(d.spaces, {w \in Spaces : d.home[w] \in {s, None}})
  IN MoveAll([d EXCEPT !.last = [w \in Spaces |->
                IF w \in ToSet(ws) THEN s ELSE @[w]]], ws, backup)

(* -- variant: focusState()->monitor() is reset afterwards                  *)
EnterUnsafeState_Reset(d) == [OnConnect(d, Fallback) EXCEPT !.focus = None]

EnterUnsafeState(d) == [OnConnect(d, Fallback) EXCEPT !.focus = Fallback]

(* afterwards the monitor's object is destroyed; the headless output stays, *)
(* and has no special workspace                                             *)
OnDisconnect(d, s) ==
  LET others  == Those(d.monitors, Screens \ {s})
      backup  == IF others = <<>> THEN Fallback ELSE Head(others)
      noted   == [d EXCEPT !.seen[s] = d.active[s]]
      left    == IF others = <<>> THEN EnterUnsafeState(noted)
                 ELSE Evacuate(noted, s, backup)
  IN Reap([left EXCEPT
       !.visible  = @ \ {left.active[s]},
       !.active[s] = None, !.special[s] = None,
       !.focus    = IF @ = s THEN backup ELSE @,
       !.monitors = Those(@, Screens \ {s}),
       !.home     = [w \in Spaces |-> IF @[w] = s THEN None ELSE @[w]],
       !.on       = [x \in Windows |-> IF @[x] = s THEN None ELSE @[x]]])

LeaveUnsafeState(d) == OnDisconnect(d, Fallback)

(* onNewMonitor; its first frame leaves the unsafe state                    *)
Connect(m) ==
  LET d == OnConnect(desk, m) IN
  /\ m \notin Plugged(desk)
  /\ IF Safe(desk)
     THEN \E e \in {d, [d EXCEPT !.focus = m]} : desk' = e
     ELSE desk' = LeaveUnsafeState(d)

Disconnect(m) ==
  /\ m \in Plugged(desk) /\ unplugs < MaxUnplugs
  /\ desk' = OnDisconnect(desk, m)
  /\ unplugs' = unplugs + 1 /\ UNCHANGED orders

-----------------------------------------------------------------------------

Dispatch ==
  \/ \E w \in Asked : Workspace(w)
  \/ \E w \in Asked : FocusWorkspaceOnCurrentMonitor(w)
  \/ \E w \in Specials : ToggleSpecialWorkspace(w)
  \/ \E w \in Spaces, m \in Monitors : MoveWorkspaceToMonitor(w, m)
  \/ \E a, b \in Monitors : SwapActiveWorkspaces(a, b)
  \/ \E x \in Windows, w \in Asked \union Specials : MoveToWorkspace(x, w)
  \/ \E x \in Windows, w \in Asked \union Specials : MoveToWorkspaceSilent(x, w)
  \/ \E m \in Monitors : FocusMonitor(m)
  \/ \E x \in Windows : FocusWindow(x)
  \/ \E x \in Windows, on \in BOOLEAN : FullscreenActive(x, on)
  \/ \E x \in Windows, m \in Monitors : SetFullscreenOn(x, m)

Order == /\ orders < MaxOrders /\ Dispatch
         /\ orders' = orders + 1 /\ UNCHANGED unplugs

Appear(x) == MapWindow(x) /\ UNCHANGED <<unplugs, orders>>

Vanish(x) == UnmapWindow(x) /\ UNCHANGED <<unplugs, orders>>

Plug(m) == Connect(m) /\ UNCHANGED <<unplugs, orders>>

Next ==
  \/ Order
  \/ \E x \in Windows : Appear(x)
  \/ \E x \in Windows : Vanish(x)
  \/ \E m \in Monitors : Plug(m)
  \/ \E m \in Monitors : Disconnect(m)

Spec == Init /\ [][Next]_vars

-----------------------------------------------------------------------------
(* Properties                                                               *)

(* Every field of the desk keeps its type.                                  *)
TypeOK == desk \in Desk /\ unplugs \in 0..MaxUnplugs

(* The focused monitor is plugged in, and every plugged-in monitor shows a  *)
(* workspace that exists and belongs to it: no two monitors ever show the   *)
(* same one, whatever is moved, swapped, unplugged or plugged in            *)
(* (CMonitor::m_activeWorkspace, CWorkspace::m_monitor).                    *)
ShowsItsOwn ==
  /\ desk.focus \in Plugged(desk)
  /\ \A s \in Plugged(desk) :
       /\ Exists(desk, desk.active[s])
       /\ desk.home[desk.active[s]] = s

(* A normal workspace is marked visible exactly while a monitor shows it    *)
(* (CWorkspace::m_visible; suspended clients and window focus rely on it).  *)
VisibleShown ==
  desk.visible \ Specials = {desk.active[s] : s \in Plugged(desk)}

(* No window is lost: while there is a real monitor, every window's         *)
(* workspace belongs to one that is plugged in, and the window of a normal  *)
(* workspace is on the same one ("avoid lost workspaces on recover",        *)
(* onConnect).                                                              *)
NothingLost ==
  Safe(desk) => \A x \in Mapped(desk) :
    /\ Exists(desk, desk.at[x])
    /\ desk.home[desk.at[x]] \in Plugged(desk)
    /\ desk.at[x] \in Ids => desk.on[x] = desk.home[desk.at[x]]

(* A workspace is marked as having a fullscreen window exactly when one of  *)
(* its windows is, and at most one is, wherever windows are opened, moved,  *)
(* focused and closed (CWorkspace::m_hasFullscreenWindow; where it is set   *)
(* but getFullscreenWindow finds none, setWindowFullscreenState fails, and  *)
(* mouseMoveUnified wonders how: InputManager.cpp:421).                     *)
FullscreenAgrees ==
  /\ \A w \in Spaces : w \in desk.hasFull <=> On(desk, w) \intersect desk.full # {}
  /\ \A x, y \in desk.full : x # y => desk.at[x] # desk.at[y]

Plugs(m) == m \notin Plugged(desk) /\ m \in Plugged(desk)'

(* A monitor that is plugged in beside others has its windows back: those   *)
(* of the workspace it showed when it was unplugged are shown on it, and    *)
(* those of the workspaces that were moved away from it then are on it      *)
(* (onConnect).  A workspace without windows may be gone by then: nothing   *)
(* holds it once it is moved back and another one plugs its gap.            *)
ComesBack ==
  [][\A m \in Monitors : Plugs(m) /\ Safe(desk) =>
       \A x \in Mapped(desk) :
         /\ desk.at[x] = desk.seen[m] => desk'.active[m] = desk'.at[x]
         /\ desk.last[desk.at[x]] = m => desk'.home[desk'.at[x]] = m]_vars

(* "if we saw this monitor before, set it to the workspace it was on"       *)
(* (Monitor.cpp:329), also when it was the only one.                        *)
SeenIsShown ==
  [][\A m \in Monitors : Plugs(m) /\ Exists(desk, desk.seen[m])
       => desk'.active[m] = desk.seen[m]]_vars
=============================================================================
