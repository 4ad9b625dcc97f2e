# Verification of the Hyprland build tree

TLA+ models of the parts of this repository where order, concurrency and failure
decide whether the program is right: Hyprland's main loop, the commit pipeline of a
surface and the release of its buffers, the session lock, workspaces, windows and
monitors, the dialogs of the ANR and permission managers, the worker thread of
hyprgraphics, and the threads and screen-sharing sessions of the desktop portal. TLC
checks them on small instances; TLAPS proves the safety properties they check for every
value of their constants.

Paths below are relative to `src/Hyprland-0.54tar-gz/Hyprland-0.54.0/src/` unless they
start with `hyprgraphics` or `xdph` (xdg-desktop-portal-hyprland).

## 1. The system

The repository holds three programs and the scripts that build them.

* **Hyprland**, a Wayland compositor: one process and, but for a few workers, one
  thread, which runs libwayland's event loop. Clients, devices, outputs, timers and
  fences are file descriptors of that loop. Handlers run to completion, so "concurrency"
  here is the order of events, callbacks that call back into what called them, and
  functions deferred with `doLater`.
* **hyprgraphics**, a library of images, fonts and colours. Its
  `AsyncResourceGatherer` is a real worker thread.
* **xdg-desktop-portal-hyprland**, a D-Bus service with a poll thread, a timer
  thread and a main thread.

| component | state | operations | talks to | what is hard | what makes it correct |
|---|---|---|---|---|---|
| event loop `managers/eventLoop/` | timers, one shared timerfd, deferred functions, fd waiters | add, remove, re-arm, lose a timer; `doLater`; `doOnReadable` | everything | the vector of timers changes while it is walked; re-arming is itself deferred | no wake-up lost; only overdue timers called; each overdue timer called |
| surface commits `protocols/core/Compositor.cpp`, `protocols/types/SurfaceStateQueue.cpp`, `protocols/Fifo.cpp`, `CommitTiming.cpp`, `DRMSyncobj.cpp` | pending, queued and current state; fences; timers; the FIFO barrier | attach, frame, commit, unlock, tryProcess | event loop (fences, timers), monitor (frames, presentations) | unlocks in any order, null buffers overtaking the queue, a queue that waits on a frame that waits on the queue | never goes back; forgets no unlock; every callback answered |
| session lock `managers/SessionLockManager.cpp`, `protocols/SessionLock.cpp` | the lock followed, its surfaces, which monitors have shown it, its timer | lock, unlock, destroy, surfaces; frames | renderer, monitors, event loop | clients crash and restart, monitors come, go and sleep before the answer | the desktop is hidden from `locked` to `unlock`; a lock gets an answer |
| workspaces and monitors `Compositor.cpp`, `helpers/Monitor.cpp`, `desktop/Workspace.cpp`, `managers/KeybindManager.cpp` | workspaces, their monitor and windows, what each monitor shows, focus | dispatchers, windows opening and closing, hotplug | renderer, session lock, layouts | hotplug down to no monitor and back; workspaces made to fill gaps; the cached fullscreen flag | each monitor shows a workspace of its own; no window lost; windows come back with their monitor; the flag agrees with the windows |
| resource gatherer `hyprgraphics/src/resource/` | targets, flags, condition variables | enqueue, await, the worker's loop, the destructor | threads of its callers | flags and notifications outside the mutexes | requests carried out once, in order, all of them; await returns what is ready |
| frame scheduler, presentation | late frames, pending commit, feedbacks | frame, fence, presentation | renderer, surface commits | three events in any order; renderMonitor may destroy the scheduler | a rendered frame is committed; feedback answered once |
| buffers | lock counts, releasers | lock, unlock, drop, release | surface commits, backend | copies and moves of references | released once, when nobody uses it |
| permissions, dialog boxes | rules, pending promises | ask, answer, client gone | every protocol that needs one | the answer comes after the client, or the rule, went | one question; the answer reaches who asked |
| ANR manager | missed pings, dialog | tick, answer, dialog ends | XDG shell, XWayland, dialog boxes | late answers against the dialog | no dialog for an application that answers |
| event socket | clients' queues | post, writable, hang-up | bars and scripts | slow readers, partial writes | events in order, or the client dropped |
| input, seat, pointer, key binds | focus, grabs, pressed keys | device events | surfaces, windows | grabs and focus changing inside a callback | press and release reach the same surface |
| windows, groups, layouts | trees and lists of targets | map, move, group, resize | workspaces | restructuring while iterating | every mapped window in one place of one tree |
| XDG shell, popups, layer shell, subsurfaces | configure serials, popup trees | configure, ack, commit | surface commits | acks out of order, parents going first | state applied is the one acknowledged |
| data device, selections, DnD, XWayland | sources and offers | set, offer, receive | seat, event loop | sources and offers outliving each other | the current selection's source is asked |
| screen sharing | sessions, frames | capture, copy, fail | renderer, permissions | the shared thing goes away in between | each frame ends once |
| xdph portal loop, screencopy `xdph/src/core/`, `xdph/src/portals/Screencopy.cpp` | timers, three threads, two mutexes, flags; sessions with frames and streams | poll, timers, D-Bus, PipeWire, Wayland | the compositor, applications | flags and signals under different mutexes; frames asked for by timers, retries and stream states | what arrives is read and timers are called although wake-ups are lost; a session that streams has its next frame coming |
| start watchdog | the compositor's last message | exit, restart | the compositor | the exit against the last message | restarted after a crash only |
| rendering, animation, configuration, rules, images, plugins, hyprctl, hyprpm, scripts | | | | pure functions, parsing, I/O, or somebody else's program | |

`PROJECT.json` lists every component with its files, what is modelled of it and, where
nothing is, why.

## 2. The modules

| module | of | role |
|---|---|---|
| `EventLoop` | `EventLoopManager`, `EventLoopTimer` | the main loop; `TimerService` is what it promises |
| `SurfaceCommit` | `CWLSurfaceResource`, `CSurfaceStateQueue`, fifo, commit timing, syncobj | the pipeline; `UpdateStream` is what it promises |
| `BufferRelease` | `CHLBufferReference`, `IHLBuffer`, `CSyncReleaser`, `endRender`, `attemptDirectScanout` | who refers to a buffer, and when the client gets it back |
| `AsyncResourceGatherer` | hyprgraphics' class of that name | the threads; `WorkQueue` is what they promise |
| `SessionLock` | `CSessionLockManager`, `CSessionLockProtocol`, `renderLockscreen`, DPMS, hotplug | protocol, manager and renderer together |
| `Workspaces` | `CCompositor`, `CMonitor`, `CWorkspace`, `CFocusState`, the dispatchers | workspaces, windows, fullscreen, monitors |
| `AsyncDialogBox` | `CAsyncDialogBox` | the process that shows a dialog, and its answer |
| `ANRManager`, `DynamicPermissionManager` | the classes of those names, and who asks them | each extends the dialog box |
| `Dialogs` | the configuration's reload | composes the two managers |
| `ShareSession` | xdph's `CScreencopyPortal`, `CPipewireConnection` | what each handler makes of a session |
| `PortalLoop` | xdph's `CPortalManager` | the three threads, running `ShareSession`'s handlers |
| `MC*` | | the instances TLC checks, and symmetry |
| `*Proofs` | | theorems and their proofs |

Definitions keep the names of the functions they stand for, and `PROJECT.json` "map"
gives the lines of each. An operator under a comment `-- variant:` is a wrong version
of the definition after it: the mutants show that each property notices one.

### EventLoop

The timerfd is shared by all timers and nothing re-arms it directly: a change asks
for `nudgeTimers` through `doLater`, once (`recalcScheduled`). An iteration of
`wl_event_loop_dispatch` is split where other code can run: `Poll`, handlers
(`TimerFire` is the timerfd's), `CallTimer`/`SkipTimer` for each element of the copy
`onTimerFire` walks, `Return` of a callback, `TakeIdle`, `NudgeTimers`, `RunLater`.
Between them the callers' operations (`CreateTimer`, `AddTimer`, `RemoveTimer`,
`UpdateTimeout`, `LoseTimer`, `DoLater`) happen wherever code of the compositor runs.
Time is relative (ticks left), so the model runs for ever in a finite space. A tick is
the resolution of `leftUs()`; the `+ 1` of `nudgeTimers` is kept because `passed()` is
strict. The strong-reference test of the walk (`> 2` in the code) is kept as it is.

### SurfaceCommit

One surface. A commit copies `pending` to the queue with a mask of locks: FENCE
(explicit or implicit sync), FIFO, TIMER. `tryProcess` is a loop, one `ApplyFront` per
iteration, and nothing else happens while `processing`, but that content of a solitary
window that may tear renders the monitor before its state is popped (`ApplyAndRender`, from
`CWindow::commitWindow`). `Render`, `FramePresented`
and `ScanoutSameBuffer` are what the monitor does to the surface: frame callbacks, the
barrier, unlocking. `FenceFails` is an fd whose waiter `onFdReadableFail` erases without
calling it. The model takes content commits to carry damage and the surface to be
visible on its monitor, with misc:vfr on, as by default.

### BufferRelease

The same surface, seen from its buffers: a reference holds one lock of its buffer, so
`Locked` is whether one exists in the pending state, the queue, the current state,
`m_usedAsyncBuffers`, a GPU job's waiter, or (the lock taken for the backend) the output.
Every action that ends references ends in `Unlock`, which releases the buffers that lost
their last lock: `wl_buffer.release` if it is `owed`, and the end of its `releasers`, whose
`points` signal when the fences they were given have. `Render` is `endRender`: it gives the
job's fence to the releasers of what it drew, drops the references to those buffers, and
keeps the others until `FenceReadable`; a pass without a fence leaves its buffers to the
next one (`Snapshot`). `Scanout` and `PageFlip` are the output's: the buffer it shows is
unlocked by the flip to the next. `Finish` is the GPU's and belongs to no code here.
`SurfaceCommit` decides which queued state is applied when; here the front may be applied
any time, so what is shown of buffers does not rest on it. A client may attach a buffer
that it has not got back (`Reattached`), and replace it by another attach uncommitted
(`Careless`).

### AsyncResourceGatherer

A step is what happens between two accesses to memory another thread writes:
`needsToProcess`, `exit`, `awaitingCv`, `awaitingEvent`. `wait_for` is four steps
(predicate, about to block, blocked, awake) because the notifiers take no mutex and may
come between any two. Wake-ups may be spurious, and the five-second timeout is a step
with weak fairness. The worker's use of an `awaitingCv` that `await` has already reset is
undefined behaviour in the code; it leads to `crashed`, where everything stops.

### SessionLock

The protocol (`locked`, each lock's `answer`), the manager (`current`, `surfaces`,
`covered`, `timer`), and what each monitor last `shown`. The five-second timer is the
followed lock's: `SSessionLock` holds the one reference to it outside the event loop
(`managers/SessionLockManager.hpp:34`), which does not call a timer that only it still has
(`EventLoopManager.cpp:132`, `SkipTimer` in `EventLoop`), so it goes with the lock
(`Forget`, `Follow`). `Render` is a whole frame:
what `renderLockscreen` draws and, after it, `onLockscreenRenderedOnMonitor`, which may
tell the client. Monitors are on, fading, off or out; a monitor that comes back has its
old ID and has shown nothing. Three constants choose the environment:
`AllowRestore` is misc:allow_session_lock_restore, `Rivals` whether a client asks for a
lock while another one is alive (`config/ConfigDescriptions.hpp:1265` describes the
option as one for restarting a crashed client, hence FALSE in the runs), and
`KeepsSurfaces` whether clients keep their surfaces until answered.

### Workspaces

`desk` is a record of the compositor's `m_monitors`, focus, workspaces (order, monitor, last
monitor, visibility, fullscreen flag), what each monitor shows, and each window's workspace,
monitor and fullscreen state. The operators take a desk and return the one the code's
function leaves, so `OnDisconnect` is the composition of the calls `CMonitor::onDisconnect`
makes, in their order. `Reap` is the destruction of a workspace nobody refers to, at the end
of a handler: `m_workspaces` holds weak references. `Pointed` is what the pointer does after
focus or layout changed: it may be over any monitor. With no monitor left the compositor is
in the unsafe state on a headless output (`Fallback`), where key binds are ignored;
`LeaveUnsafeState` runs in the next monitor's first attempt to render, which `onNewMonitor`
makes itself.

`SetFullscreen` is `setWindowFullscreenState`, which first ends another fullscreen window
of the workspace, whatever it was asked; `updateWindows` recomputes the flag. A window that
gets the focus under a fullscreen one takes its place, ends it, or leaves it, depending on
misc:on_focus_under_fullscreen and on whether it floats; neither is tracked, so
`Contends` allows all three. Which visible window a handler ends up focusing is not
tracked either: `Focused` allows any, one at a time.

### AsyncDialogBox, ANRManager, DynamicPermissionManager, Dialogs

A box is closed, open, or ended with a result that its pipe's hangup has yet to deliver;
`kill` ends an open one. A manager acts on the hangup, never on the button. `ANRManager`
keeps for each client its windows, missed pings, `dialogSaidWait` and boxes: a killed box's
hangup is still to come when the next one opens, so there may be several.
`DynamicPermissionManager` has askers: keyboards, which `applyConfigToKeyboard` asks
for, and `hyprctl plugin load` requests, each with the rule it gets once asked for and
the one promise `promiseFor` hands out. `Dialogs` interleaves them; `postConfigReload`
changes the threshold of one and has the other configure every keyboard again.

### ShareSession, PortalLoop

`ShareSession` has no threads: each handler maps a session's record to those it may leave
behind (a stream may or may not have a buffer, a frame's format may have changed).
`PortalLoop` is what runs the handlers. The poll thread polls and raises
`shouldProcess`, the timer thread sleeps to the nearest timer and raises it too, the main
thread clears it, then reads D-Bus, Wayland and PipeWire and calls the timers, in that
order, holding both mutexes. A condition variable's wait is two steps, test and block,
because `loopRequestMutex` guards `shouldProcess` on the waking side only, and a
notification between the two is lost. The timer thread's wait is split likewise, because
`addTimer` notifies without its mutex: what it sleeps for, `nearest`, was found before, and
is an existing timer or a minute. `terminate` stores without a lock.

## 3. The runs

| run | instance | shows | states |
|---|---|---|---|
| `event_loop` | 2 timers, timeouts 0 and 3, longest sleep 2, 1 queued function | `Covered`, `LostIsForgotten`, `LaterRuns`; the loop implements `TimerService` (`ServiceSpec`, `ServiceAnswers`) | 45,772 |
| `surface_commit` | 3 commits, both kinds of buffer, fifo and timestamps | `QueueOrdered`, `LocksHaveKeys`, `NothingForgotten`; implements `UpdateStream` | 1,086,000 |
| `surface_live` | 3 commits, CPU buffers, frame callbacks and fifo | `Progress`, `FrameAnswered`, `FifoPaced` | 12,057 |
| `async_gatherer` | 3 threads, 2 of which await | `FlagNotLost`, `AwaitSound`, `Served`, `Joins`; implements `WorkQueue` | 69,425 |
| `async_await` | 1 thread | `AwaitAnswered` does not hold | |
| `session_lock` | 2 locks, 2 monitors | `NothingStray`, `TimerArmed`, `Hidden`, `Answered`, `StaysHidden` | 119,440 |
| `workspaces` | 2 monitors, 2 windows, 1 special workspace, 2 unplugs, 2 dispatches | `ShowsItsOwn`, `VisibleShown`, `NothingLost`, `FullscreenAgrees`, `ComesBack` | 619,410 |
| `workspaces_seen` | the same, 1 window | `SeenIsShown` does not hold | |
| `portal` | 1 session, 2 retries, up to 3 timers | `NeverStalls` | 1,479,381 |
| `portal_live` | 1 session, no retry, 1 timer | `Served`, `Ends` | 382,675 |
| `dialogs` | 1 client, 1 keyboard, 1 plugin request, thresholds 1 and 2 | `NoStrayDialog`, `AllowedByRule`, `Answered` | 336,672 |
| `buffer_release` | 2 dmabufs, one with release points, and a CPU buffer; 2 GPU jobs; a queue of 1 | `NoEarlyRelease`, `ReleasedWhenUnlocked`, `Returned` | 127,151 |

`event_loop`, `workspaces`, `portal` and `dialogs` also check their module's `TypeOK`; every
module's is proved (in the `TypeCorrect` of their proofs, or as part of what is inductive).

**Bounds.** Two timers are the least for which the walk's copy, the shared timerfd and a
callback that removes *another* timer matter; a timeout of 3 with a longest sleep of 2 lets
a timer outlive a capped sleep, and a timeout of 0 is overdue at the next tick. Three
commits give a shown, a front and a queued state, so that an unlock can hit the middle of
the queue. Three threads, two of them awaiting, let a request come before, during and after
the worker takes its batch. Two locks are a client and its restart. Two monitors are the
least for moving and swapping, and two unplugs go down to none, in either order; two windows
let a workspace keep one while losing the other, and two dispatches compose (move a window,
then swap; open a special workspace, then move it). IDs go from 1 to 8 (`Ids`)
because gaps are filled with a free one: `ConstantsAssumption` of `Workspaces` says how many
are always enough, and the proofs take as many as there are naturals. Only
dispatches, clients' requests and unplugs are counted; windows map, also fullscreen, and
unmap freely, so that two dispatches suffice to bring one fullscreen window to another.
Windows and monitors are symmetric in `workspaces`, which states no liveness.

In `portal` one session is enough because handlers touch one session each, and the threads
do not tell sessions apart; a second one only adds messages. One retry of
the code's ten tells first, last and too many apart; `portal` has two. A stream restarts while fewer timers
than `MaxTimers` run, so that in `portal` pausing and resuming it (which leaves the old timer
behind) gives several. `portal_live` has one timer and no retry: a lost notification needs one
timer, added while the timer thread goes to sleep for a minute, and to a thread a retry is a
message like another. One message waits on the connections at a time, and a hangup comes before
anything is shared: what a session is doing does not matter to `Ends`. The shared output
or window stays while it is shared, and `pw_stream_new` does not fail. In `dialogs`, one
client with two windows has a window left when one closes; thresholds 1 and 2 with two
missed pings counted let a reload move the threshold across the count, both ways; two boxes are a
killed one whose hangup is due and its successor. Clients and askers do not interact, so
one of each kind is enough. hyprland-dialog is installed and starts, permissions are enforced, ANR is
enabled, a terminated client does not return, a loaded plugin is not loaded again.

In `buffer_release` two dmabufs replace each other on the output, one answered by release
points and one by `wl_buffer.release`; a CPU buffer is let go as soon as it is current. Two
jobs are one that still reads what the next one draws over, and a buffer has fences of both;
a queue of one state has a queued and a current buffer at a time. The buffer with release
points may be attached again before it came back, so that it owes for two commits. The
fences, and the points' timelines, are made and merged without failing, and surfaces do not
share buffers.

**Fairness.** `EventLoop`: weak fairness of the loop's steps and of time: libwayland's
loop keeps running, handlers return, time passes. Strong fairness of time passing in
`epoll_wait`: of infinitely many rounds some spend a tick (a microsecond in the code)
between `timerfd_settime` and `epoll_wait`, where libwayland flushes every client. Without
it, operations in each round could push the timerfd one tick ahead for ever. Callers owe
nothing. `SurfaceCommit`: fences that do not fail are
signalled, timers called (the event loop's promise), scheduled frames rendered and
committed frames presented. These are strongly fair only because `processing` disables
them for the steps of `tryProcess`, one call in the code. Clients, other damage and
tearing owe nothing. `AsyncResourceGatherer`: each thread's steps and
the timeouts are weakly fair, which is what a scheduler gives. `SessionLock`: weak fairness
of the timer alone; not even frames are promised. `Workspaces` states no liveness.
`PortalLoop`: each thread's steps weakly, the steps that take a mutex strongly fair
(it is released again and again), time passes. A sleep to a timer ends, the poll thread's
five seconds and the timer thread's minute need not. The main thread's five seconds are
relied on in two cases: once `m_bTerminate` is set, for `Ends`, and while the timer thread is
`Overslept`, for the half of `Served` about timers, which fails without them; the half about
connections holds without any timeout. Front ends, the compositor
and PipeWire owe nothing. `BufferRelease`: the GPU finishes its jobs, the event loop finds
their fences readable and page flips happen, weakly; a frame that is due (the content on
the output was replaced, or a snapshot waits for its fence) is drawn, strongly, because
frames for others take the jobs' names and scanouts the flips. Clients owe nothing. `Dialogs`: ticks and hangups are weakly fair, the windows of a killed
client are closed, and a user who is asked for a permission answers or closes the dialog
some time; nobody owes the ANR dialog an answer, no client owes a pong.

**Deadlock** is checked but where the system really ends: gatherer runs (the threads are
done).

### What the runs found

* `async_await`. `await` may block for ever on a resource that is ready: the worker looks
  at `awaitingCv` before `await` creates it, or notifies between `await`'s test and its
  block, without `awaitingMtx` (`hyprgraphics/src/resource/AsyncResourceGatherer.cpp:67`).
* `workspaces_seen`. The only monitor, unplugged and plugged in again, does not show the
  workspace it showed, but the empty one of the headless fallback: `leaveUnsafeState`
  (`Compositor.cpp:2796`) moves the fallback's active workspace over while the fallback
  has the focus, after `onConnect` restored the right one.

### What else the models made visible

These are consequences of the code as it is; no doc of the repository says otherwise.

* `SurfaceCommit`: with fences or timers in the queue, `presented()` unlocks a state that is
  not at the front, and that state is no longer paced. A null buffer discards queued states
  with their callbacks. A fence whose fd fails locks its state until a null buffer.
  `Progress` therefore excepts `Starved`, a FIFO lock with nothing to damage the monitor
  (the TODO of `protocols/Fifo.cpp:49`), and failed fences; `FrameAnswered` excepts tearing.
  `tryProcess` pops a state only after committing it, and the frame that `ApplyAndRender` draws
  in between may find its buffer scanned out already: if the frame is not torn after all, the
  output scans out directly and debug:ds_handle_same_buffer_fifo is on, `unlockFirst` enters
  `tryProcess` again and commits the same state a second time, from inside the first
  (`protocols/types/SurfaceStateQueue.cpp:77`). The model leaves that frame out.
* `SessionLock`: `lockedMonitors` remembers monitors by ID over unplugging. A lock asked for
  while another is in limbo is never answered. If all monitors sleep before their lock frame
  the timer denies the client although `NOACTIVEMONS` would have told it `locked`. While a
  restarted client has not been answered, workspaces may be rendered again
  (`render/Renderer.cpp:909`), so `StaysHidden` speaks of the time it was, or no client is
  waiting.
* `BufferRelease`: `attach` drops the lock of a pending buffer that was not committed
  (`protocols/core/Compositor.cpp:88`) without releasing it, so for a client that is
  `Careless` the last lock may go without the release owed for an earlier commit.
* `Workspaces`: nothing refers to a workspace that `onConnect` has moved back to a monitor
  whose gap is already plugged, unless it has windows. An empty one, shown when its monitor
  was unplugged, is gone before the monitor's last one is restored from
  `m_seenMonitorWorkspaceMap`, or its ID is another workspace's by then (it takes three
  monitors); `ComesBack` therefore speaks of windows. A special workspace moved while open makes its windows' monitor differ from
  its own, and stays open where it was: `setSpecialWorkspace`'s "close if open elsewhere"
  (`helpers/Monitor.cpp:1446`) then looks in the wrong place, and it is open on two. In the unsafe state `setWindowFullscreenState` does nothing while
  `moveWindowToWorkspaceSafe` still moves, so a client that asks for fullscreen on the
  headless output brings a second fullscreen window to a workspace; the model leaves that
  request out, as it does hyprctl's. Moving a window that is not fullscreen to a workspace
  that has one that is ends the latter, whatever misc:on_focus_under_fullscreen says
  (`managers/KeybindManager.cpp:1402`). After the last monitor goes its windows have none,
  and handlers that dereference it (`desktop/view/Window.cpp:593`) rely on nobody getting
  there. The reset at `helpers/Monitor.cpp:451` acts on a temporary, so the focused monitor
  stays the unplugged one.
* `ANRManager`: `isRunning` stays true when a dialog ended by itself
  (`helpers/AsyncDialogBox.cpp:152`), so a client that is still silent gets no second dialog
  before it answers or a window closes. A box answered "wait" whose hangup is read after its
  successor opened counts for the successor. `SilentNoticed` is therefore about a dialog
  that runs or a user who said to wait.
* `DynamicPermissionManager`: a keyboard plugged in again while its question is open gets no
  promise (`promiseFor` hands one out), and stays disallowed until the next reload although
  the user allowed it; `AllowedByRule` is one-sided for that reason.
* `PortalLoop`: wake-ups do get lost between the main thread's test and its block; what
  arrived is read because the poll thread polls again and raises the flag anew. `addTimer`'s
  notification gets lost between the timer thread's predicate and its block
  (`xdph/src/core/PortalManager.cpp:354`, `511`). That thread then sleeps on, for a minute
  when there was no other timer, and the timer, and with it the session's next
  frame, is called when the main thread's five seconds are over.

## 4. The proofs

`TypeOK` of each proved module is inductive, or is made so by one more conjunct. All
proofs go by the actions of `Next`; a lemma `...Step` says what a step preserves, and
the theorem follows with PTL.

* **EventLoopProofs.** `Covered` says that a registered, owned, armed timer is covered
  by a queued recalculation, by the walk in progress or by the timerfd in time; it is
  inductive together with `Heartbeat` (some covering is always outstanding), because
  losing a timer schedules nothing. `RecalcPending` needs `SingleNudge`: a second queued
  nudge would clear the flag under the first (`NudgeOutstanding`). `LoopImplementsService` shows each step
  to be a step of `TimerService` or a stutter.
* **SurfaceCommitProofs.** `QueueOrdered`, `LocksHaveKeys`, and two auxiliary facts
  (waiters and the shown commit are of commits that were made) are inductive together:
  a key must not name a commit still to come. The refinement to `UpdateStream` follows
  from them. `NothingForgotten` is inductive on its own. `FifoPaced` is proved for clients
  of CPU buffers without timestamps, the ones `surface_live` has: then only FIFO locks
  states, `NothingForgotten` makes the front the first that holds one, and only the front
  can have lost it, in the middle of `tryProcess`, with the barrier gone (`WaitersLocked`).
* **AsyncResourceGathererProofs.** `FlagNotLost` needs to know what the worker's batch
  holds while it renders (`BatchHeld`), and that a thread between its push and its flag
  will raise it. `GathererIsAQueue`, the refinement to `WorkQueue`, rests on `OnceEach`:
  what is left to do (the batch, then the targets) names no resource twice and none that is
  ready, and outside its batch the worker holds none.
* **BufferReleaseProofs.** `NoEarlyRelease` follows from an invariant of four facts: a
  leased buffer (one with a reference but the pending state's) is owed, or has a releaser
  (`LeasedIsOwed`); a job that reads a buffer holds it, or a release point waits for it
  (`ReadsCovered`); a finished job reads nothing; the output's buffers are locked
  (`OutputLocked`). `ReleasedWhenUnlocked` is inductive with the types, for clients that
  are not `Careless`.
* **SessionLockProofs.** `LockInv` is `TypeOK`, `OneHolder` (a lock told `locked` is
  the one the manager follows, the one it follows is in use, and without one there are no
  surfaces), `NothingStray` and `TimerArmed` (the timer is there exactly while the lock is
  followed and unanswered); it assumes `~(AllowRestore /\ Rivals)`,
  without which a superseded client can unlock under its successor. `HiddenInv` adds that,
  until the answer, a covered monitor keeps its surface and does not show the desktop, and
  that nothing is shown on another VT; it assumes `KeepsSurfaces`. `StaysHidden` follows
  from `LockInv` alone: only a frame can show the desktop, and `renderLockscreen` draws the
  primer under every lock that is answered, late or gone.
* **DialogsProofs.** `ANRInv` (types and, for each client, what `NoStrayDialog` says of its
  boxes) and `PermInv` (types, `AllowedByRule`, `NoStrayQuestion`, and `HeldByPresent`: a
  promise that a keyboard still waits for is one whose keyboard is plugged in) are inductive,
  each under its own manager's steps and the reload; the answer to a question may set
  `m_allowed`, and `HeldByPresent` is what makes that the keyboard there is.
* **PortalLoopProofs.** `NeverStalls` is a fact of each session, so the proof is about
  `ShareSession`'s handlers: `Good(x)` (its type; a stream belongs to an active session,
  a status NONE has no frame, an ended frame is FAILED, an answered `bufferDone` was asked for;
  and what `NeverStalls` says) is kept by each of them, one lemma per operator
  (`CopyGood`, `StreamGood`, `AnswerGood`, `TimersGood`...), and the threads only choose
  which runs.
* **WorkspacesProofs.** One invariant gives all six properties of `Workspaces`. `Core` is the
  desk's type, what monitors show (`Placed`) and where windows are (`Housed`); `Marked` is about
  fullscreen; `Owned`, every workspace has a monitor, holds only while a real monitor is plugged
  in: the last one's `onDisconnect` has nowhere to move its workspaces. They are
  moved by the `onDisconnect` that ends the unsafe state, the headless output's, whose
  `wspToMove` takes those without a monitor; that it leaves none behind needs
  the headless output to have been the only one until then, the last part of `Inv`. Handlers are
  compositions, so each function of the code has its lemma, for any desk that
  satisfies what the function needs, not just one between two handlers: it `Keeps` those
  parts, and leaves workspaces (`Stays`), or all but the ones it was asked to move (`Moved`),
  where they were. `MoveAll` and `Those` are recursive functions over lists: their lemmas go
  by the least length for which they would fail (`Climb`, from the well-foundedness of `<`).
  `WindowsComeBack` is one `OnConnect` followed through: windows keep their workspaces
  alive, moving back takes all that were moved away, and what is restored last is shown.

Assumptions are the named `ASSUME`s of the modules (checked by TLC in the runs) and what
the theorems have as hypotheses: the two conditions above in `SessionLockProofs`,
`~Careless` for `NothingKept`, the kind of client for `UpdatesPaced`, and
`Ids = Nat \ {0}` in `WorkspacesProofs`: `findAvailableDefaultWS` counts up from 1 until it
finds an ID that is free, and a finite set of IDs is a bound of the runs.

Model-checked only: liveness, which is out of the prover's reach (`LostIsForgotten`,
`LaterRuns`, `ServiceAnswers`, `Progress`, `FrameAnswered`, the gatherer's `Served` and `Joins`,
the portal's `Served` and `Ends`, `Answered` of the session lock and of the dialogs,
`Returned`), and the two properties that do not hold. Every other property of
the runs is proved.

## 5. What is not modelled

`doOnReadable`'s waiters (as far as `SurfaceCommit` does not need them), the inotify
source and aquamarine's fds; subsurface trees, roles and destruction of surfaces; buffers
destroyed while in use or shared by surfaces, the references of screen copies and cursors,
implicit sync where explicit sync is missing or fails; lock surfaces' sizes and keyboard focus; pinned windows, groups, persistent,
bound and previous workspaces, binds:hide_special_on_workspace_change (off by default),
mirrored and disabled monitors, layouts; what hyprctl and clients' requests for an output do in the unsafe state, and a window mapped again after it was
unmapped fullscreen there, which keeps its mode. Permissions of `wl_client`s (screen copying), with
their remembered binaries, and plugins of the configuration; XWayland's pings. The portal's
other interfaces, and what its sessions select, negotiate and copy.

The frame scheduler decides by what Aquamarine says of its commits, and Aquamarine is
not in the repository: its order of events would be an assumption, and the properties would be about
that. Other components are not modelled yet (plan below) or not worth it: drawing, geometry
and interpolation are floating-point; parsing, formatting and process spawning have
no state to speak of.

## 6. Plan

Order: what a fault would cost the user, and what the modelled components already rest on.

1. `EventSocket`, `MainLoopExecutor`.
2. `SeatGrab` and `Keybinds`; `XDGConfigure`; `Selection`.
3. `Groups`, with `Workspaces`' fullscreen state handed from one member to the next, and `DwindleTree`;
   `Screenshare`; `Idle`; `Watchdog`.
4. `FrameScheduler` with presentation feedback, over an assumed backend, composed with
   `SurfaceCommit`'s `Render`.

Theorems: for every module above its type invariant and its main safety property.
