---------------------------- MODULE SurfaceCommit ----------------------------
(***************************************************************************)
(* The commit pipeline of one wl_surface: CWLSurfaceResource and its        *)
(* CSurfaceStateQueue (protocols/core/Compositor.cpp, protocols/types/),    *)
(* with the protocols that lock queued states: explicit and implicit sync   *)
(* (FENCE), fifo-v1 (FIFO) and commit-timing-v1 (TIMER).                    *)
(*                                                                          *)
(* A wl_surface.commit copies the pending state to the end of the queue.    *)
(* Fences, the monitor's presentations and timers unlock queued states in   *)
(* any order; only the front is ever committed to the current state.        *)
(*                                                                          *)
(* The surface has an xdg role (it maps with its first content).  Clients   *)
(* keep to the protocols: a commit that raises a protocol error ends the    *)
(* client and is not modelled.  Buffers are told apart by their kind only.  *)
(*                                                                          *)
(* tryProcess is a loop; each iteration is one step that commits the front  *)
(* state (ApplyFront, or ApplyAndRender for a tearing window), and while    *)
(* "processing" holds nothing else happens, as in the single-threaded code. *)
(***************************************************************************)
EXTENDS Integers, Sequences

CONSTANTS Kinds,       \* the kinds of buffer the client attaches
          Uses,        \* the optional requests the client makes
          MaxCommits   \* bound: commits of the client

ASSUME KindsAssumption   == Kinds \subseteq {"shm", "dma"}
ASSUME UsesAssumption    == Uses \subseteq {"callbacks", "fifo", "timestamps"}
ASSUME MaxCommitsAssumption == MaxCommits \in Nat

FENCE == "FENCE"
FIFO  == "FIFO"
TIMER == "TIMER"
Reasons == {FENCE, FIFO, TIMER}

VARIABLES
  pending,     \* m_pending
  queue,       \* m_stateQueue.m_queue
  texture,     \* m_current.texture # nullptr: the surface has content
  barrier,     \* m_current.barrierSet
  callbacks,   \* m_current.callbacks, named by the commit that brought them
  shown,       \* the last commit given to commitState, 0: none
  mapped,      \* m_mapped
  tearing,     \* activelyTearing of the surface's monitor
  due,         \* the frame the monitor has scheduled: "no", "frame", or
               \* "content" when content of this surface has damaged it
  flip,        \* a rendered frame has been committed and not yet presented
  commits,     \* commits so far; a commit's number is its name
  fences,      \* commits whose fence has a waiter in the event loop
  failed,      \* commits whose waiter was dropped by onFdReadableFail
  timers,      \* commits whose state owns an armed timer
  processing   \* tryProcess is running

currentVars == <<texture, barrier, callbacks, shown, mapped>>
monitorVars == <<tearing, due, flip>>
waitVars    == <<fences, failed, timers>>
vars        == <<pending, queue, texture, barrier, callbacks, shown, mapped, tearing,
                 due, flip, commits, fences, failed, timers, processing>>

Ids == 1..MaxCommits

(* SSurfaceState as far as the pipeline looks at it.  attach is "no" when   *)
(* updated.bits.buffer is not set and "null" for a null buffer.             *)
Attachments == Kinds \cup {"no", "null"}

Pending == [attach : Attachments, cb : BOOLEAN, barrier : BOOLEAN,
            surfaceLocked : BOOLEAN, fifoScheduled : BOOLEAN, timeout : BOOLEAN]

Queued == [id : Ids, attach : Kinds \cup {"no"}, cb : BOOLEAN,
           barrier : BOOLEAN, fifoScheduled : BOOLEAN, waited : BOOLEAN,
           mask : SUBSET Reasons]

(* SSurfaceState::reset                                                     *)
NoPending == [attach |-> "no", cb |-> FALSE, barrier |-> FALSE,
              surfaceLocked |-> FALSE, fifoScheduled |-> FALSE, timeout |-> FALSE]

(* !updated.all                                                             *)
Empty(s) == s.attach = "no" /\ ~s.cb /\ ~s.barrier

Init ==
  /\ pending = NoPending
  /\ queue = <<>>
  /\ texture = FALSE /\ barrier = FALSE /\ callbacks = {} /\ shown = 0
  /\ mapped = FALSE /\ tearing = FALSE /\ due = "no" /\ flip = FALSE
  /\ commits = 0
  /\ fences = {} /\ failed = {} /\ timers = {}
  /\ processing = FALSE

-----------------------------------------------------------------------------
(* CSurfaceStateQueue                                                       *)

QueuedIds == {queue[i].id : i \in 1..Len(queue)}

Without(s, reason) == [s EXCEPT !.mask = @ \ {reason}]

(* unlock: this very state, if it is still queued; then tryProcess          *)
(* -- variant: unlocks whichever state is first                             *)
Unlock_Front(id, reason) ==
  /\ queue' = [i \in 1..Len(queue) |->
                 IF i = 1 THEN Without(queue[i], reason) ELSE queue[i]]
  /\ processing' = (id \in QueuedIds)

Unlock(id, reason) ==
  /\ queue' = [i \in 1..Len(queue) |->
                 IF queue[i].id = id THEN Without(queue[i], reason) ELSE queue[i]]
  /\ processing' = (id \in QueuedIds)

(* unlockFirst: the first state that holds the lock, wherever it is queued  *)
UnlockFirst(reason) ==
  /\ queue' = [i \in 1..Len(queue) |->
                 IF /\ reason \in queue[i].mask
                    /\ \A j \in 1..(i - 1) : reason \notin queue[j].mask
                 THEN Without(queue[i], reason) ELSE queue[i]]
  /\ processing' = TRUE

-----------------------------------------------------------------------------
(* Requests of the client between two commits                               *)

Request == ~processing /\ commits < MaxCommits

(* wl_surface.attach, of a buffer or of null                                *)
Attach(kind) ==
  /\ Request
  /\ pending' = [pending EXCEPT !.attach = kind]
  /\ UNCHANGED <<queue, currentVars, monitorVars, commits, waitVars, processing>>

(* wl_surface.frame                                                         *)
Frame ==
  /\ Request /\ "callbacks" \in Uses
  /\ pending' = [pending EXCEPT !.cb = TRUE]
  /\ UNCHANGED <<queue, currentVars, monitorVars, commits, waitVars, processing>>

(* wp_fifo_v1.set_barrier                                                   *)
SetBarrier ==
  /\ Request /\ "fifo" \in Uses
  /\ pending' = [pending EXCEPT !.barrier = TRUE]
  /\ UNCHANGED <<queue, currentVars, monitorVars, commits, waitVars, processing>>

(* wp_fifo_v1.wait_barrier looks at the barrier of the CURRENT state, now   *)
WaitBarrier ==
  /\ Request /\ "fifo" \in Uses
  /\ pending' = IF barrier
                THEN [pending EXCEPT !.surfaceLocked = TRUE]
                ELSE [pending EXCEPT !.fifoScheduled = @ \/ ~tearing]
  /\ UNCHANGED <<queue, currentVars, monitorVars, commits, waitVars, processing>>

(* wp_commit_timer_v1.set_timestamp, of a time to come                      *)
SetTimestamp ==
  /\ Request /\ "timestamps" \in Uses
  /\ pending' = [pending EXCEPT !.timeout = TRUE]
  /\ UNCHANGED <<queue, currentVars, monitorVars, commits, waitVars, processing>>

-----------------------------------------------------------------------------
(* commitState: the state s of commit id becomes the current one            *)

(* damageSurface: new content damages the monitor, and callbacks that wait  *)
(* schedule a frame without damage; anything less schedules nothing         *)
(* -- variant: callbacks schedule nothing                                   *)
Damage_ContentOnly(s, owed) ==
  due' = IF s.attach # "no" THEN "content" ELSE due

Damage(s, owed) ==
  due' = IF s.attach # "no" THEN "content"
         ELSE IF due = "no" /\ owed # {} THEN "frame" ELSE due

(* The xdg role maps the surface with its first content, which answers the  *)
(* frame callbacks, and unmaps it when the content is gone.                 *)
CommitState(id, s) ==
  /\ shown' = id
  /\ IF Empty(s) /\ mapped /\ s.fifoScheduled
     THEN UNCHANGED <<texture, barrier, callbacks, mapped, due>>
     ELSE LET content == IF s.attach = "no" THEN texture ELSE s.attach # "null"
              owed    == callbacks \cup (IF s.cb THEN {id} ELSE {})
          IN /\ texture' = content
             /\ barrier' = (barrier \/ s.barrier)
             /\ mapped' = content
             /\ callbacks' = IF content /\ ~mapped THEN {} ELSE owed
             /\ IF mapped \/ content THEN Damage(s, owed) ELSE UNCHANGED due

(* -- variant: the queue survives a null buffer                             *)
CommitNull_KeepsQueue ==
  /\ ~processing /\ commits < MaxCommits
  /\ pending.attach = "null"
  /\ commits' = commits + 1
  /\ CommitState(commits + 1, pending)
  /\ pending' = NoPending
  /\ UNCHANGED <<queue, tearing, flip, waitVars, processing>>

(* wl_surface.commit of a null buffer takes effect at once and discards     *)
(* every queued state, with the timers those states own                     *)
CommitNull ==
  /\ ~processing /\ commits < MaxCommits
  /\ pending.attach = "null"
  /\ commits' = commits + 1
  /\ CommitState(commits + 1, pending)
  /\ queue' = <<>>
  /\ timers' = {}
  /\ pending' = NoPending
  /\ UNCHANGED <<tearing, flip, fences, failed, processing>>

(* CFifoResource's stateCommit listener: whether the state takes the lock.  *)
(* fifoScheduled becomes checkMonitors(), which is false while tearing.     *)
FifoScheduled == pending.fifoScheduled \/ (pending.surfaceLocked /\ ~tearing)
FifoLocks     == pending.surfaceLocked /\ FifoScheduled /\ mapped

(* the stateCommit2 listener of commit-timing                               *)
TimerLocks == pending.timeout /\ ~tearing

(* the state that joins the queue, with the locks its listeners took        *)
QueuedState(id, waits) ==
  [id |-> id, attach |-> pending.attach, cb |-> pending.cb,
   barrier |-> pending.barrier, fifoScheduled |-> FifoScheduled,
   waited |-> FifoLocks,
   mask |-> {r \in Reasons : \/ r = FENCE /\ waits
                             \/ r = FIFO /\ FifoLocks
                             \/ r = TIMER /\ TimerLocks}]

(* scheduleState.  A dmabuf comes with an acquire point or an exported sync *)
(* file: "waits" if its waiter joins the event loop.  Otherwise (the fence  *)
(* is signalled already, or has no sync file, or its waiter could not be    *)
(* made) it unlocks or processes at once.  A state that waits for its fence *)
(* is left to the waiter: tryProcess is not called.                         *)
Schedule(id, waits) ==
  /\ queue' = Append(queue, QueuedState(id, waits))
  /\ fences' = IF waits THEN fences \cup {id} ELSE fences
  /\ timers' = IF TimerLocks THEN timers \cup {id} ELSE timers
  /\ processing' = ~waits

(* any other commit                                                         *)
Commit(waits) ==
  /\ ~processing /\ commits < MaxCommits
  /\ pending.attach # "null"
  /\ waits => pending.attach = "dma"
  /\ commits' = commits + 1
  /\ Schedule(commits + 1, waits)
  /\ pending' = NoPending
  /\ UNCHANGED <<currentVars, monitorVars, failed>>

-----------------------------------------------------------------------------
(* Events that unlock queued states                                         *)

(* the fence's fd is readable: onFdReadable runs whenReadable               *)
FenceSignals(id) ==
  /\ ~processing /\ id \in fences
  /\ fences' = fences \ {id}
  /\ Unlock(id, FENCE)
  /\ UNCHANGED <<pending, currentVars, monitorVars, commits, failed, timers>>

(* the fence's fd reports an error or a hang-up: the waiter is erased, and  *)
(* its function is never called                                             *)
FenceFails(id) ==
  /\ ~processing /\ id \in fences
  /\ fences' = fences \ {id}
  /\ failed' = failed \cup {id}
  /\ UNCHANGED <<pending, queue, currentVars, monitorVars, commits, timers, processing>>

(* the state's timer is called; losing the state loses the timer            *)
TimerFires(id) ==
  /\ ~processing /\ id \in timers
  /\ timers' = timers \ {id}
  /\ Unlock(id, TIMER)
  /\ UNCHANGED <<pending, currentVars, monitorVars, commits, fences, failed>>

-----------------------------------------------------------------------------
(* The monitor                                                              *)

(* something else on the monitor schedules a frame                          *)
OtherDamage ==
  /\ ~processing /\ due = "no"
  /\ due' = "frame"
  /\ UNCHANGED <<pending, queue, currentVars, tearing, flip, commits, waitVars, processing>>

(* renderMonitor updates activelyTearing, renders, answers the callbacks of *)
(* what it renders (presentFeedback) and commits the frame.  Only content   *)
(* of the solitary surface asks for a torn frame.  While the monitor tears, *)
(* onFrame skips a frame nobody asked for; it renders one only for torn     *)
(* content, or when the surface is not solitary any more.                   *)
Render(torn) ==
  /\ ~processing /\ due # "no"
  /\ torn => mapped /\ due = "content"
  /\ tearing' = torn
  /\ due' = "no" /\ flip' = TRUE
  /\ callbacks' = IF mapped THEN {} ELSE callbacks
  /\ UNCHANGED <<pending, queue, texture, barrier, shown, mapped, commits,
                 waitVars, processing>>

(* The frame is presented: CFifoProtocol::onMonitorPresent does nothing     *)
(* while the monitor tears, and else calls CFifoResource::presented         *)
(* -- variant: presented() drops the barrier and unlocks nothing            *)
FramePresented_NoUnlock ==
  /\ ~processing /\ flip
  /\ flip' = FALSE
  /\ barrier' = (barrier /\ tearing)
  /\ UNCHANGED <<pending, queue, texture, callbacks, shown, mapped, tearing, due,
                 commits, waitVars, processing>>

FramePresented ==
  /\ ~processing /\ flip
  /\ flip' = FALSE
  /\ IF tearing
     THEN UNCHANGED <<barrier, queue, processing>>
     ELSE barrier' = FALSE /\ UnlockFirst(FIFO)
  /\ UNCHANGED <<pending, texture, callbacks, shown, mapped, tearing, due, commits,
                 waitVars>>

(* renderMonitor, when attemptDirectScanout finds the buffer it already     *)
(* scans out (dmabufs only, with debug:ds_handle_same_buffer and its _fifo):*)
(* no frame is committed; frame callbacks are answered and the FIFO lock    *)
(* opened, the barrier stays                                                *)
ScanoutSameBuffer(torn) ==
  /\ ~processing /\ due # "no" /\ mapped /\ "dma" \in Kinds
  /\ torn => due = "content"
  /\ tearing' = torn
  /\ due' = "no"
  /\ callbacks' = {}
  /\ IF torn THEN UNCHANGED <<queue, processing>> ELSE UnlockFirst(FIFO)
  /\ UNCHANGED <<pending, texture, barrier, shown, mapped, flip, commits, waitVars>>

-----------------------------------------------------------------------------
(* tryProcess                                                               *)

(* the FIFO lock of the front state is void once the barrier is gone        *)
(* -- variant: only presented() opens FIFO locks                            *)
FrontMask_NoVoid == Head(queue).mask

FrontMask == Head(queue).mask \ (IF barrier THEN {} ELSE {FIFO})

(* one iteration: commit the front state and pop it                         *)
(* -- variant: applies past a lock other than the fence                     *)
ApplyFront_FenceOnly ==
  /\ processing /\ queue # <<>> /\ FENCE \notin FrontMask
  /\ CommitState(Head(queue).id, Head(queue))
  /\ queue' = Tail(queue)
  /\ UNCHANGED <<pending, tearing, flip, commits, waitVars, processing>>

ApplyFront ==
  /\ processing /\ queue # <<>> /\ FrontMask = {}
  /\ CommitState(Head(queue).id, Head(queue))
  /\ queue' = Tail(queue)
  /\ UNCHANGED <<pending, tearing, flip, commits, waitVars, processing>>

(* The same for content of a solitary window that may tear: commitWindow     *)
(* renders the monitor at once, before the state is popped.  The frame is   *)
(* torn unless, say, the cursor's plane forbids it; a torn one may also find *)
(* the buffer scanned out already.  Whether the window is solitary, and the *)
(* monitor not busy with the torn frame before, is left open.               *)
ApplyAndRender(torn) ==
  /\ processing /\ queue # <<>> /\ FrontMask = {}
  /\ mapped /\ Head(queue).attach # "no"
  /\ queue' = Tail(queue)
  /\ shown' = Head(queue).id /\ texture' = TRUE
  /\ barrier' = (barrier \/ Head(queue).barrier)
  /\ callbacks' = {}
  /\ tearing' = torn /\ due' = "no"
  /\ \/ flip' = TRUE
     \/ torn /\ Head(queue).attach = "dma" /\ UNCHANGED flip
  /\ UNCHANGED <<pending, mapped, commits, waitVars, processing>>

(* the loop ends: nothing is queued, or the front is locked                 *)
StopProcessing ==
  /\ processing
  /\ \/ queue = <<>> /\ UNCHANGED queue
     \/ /\ queue # <<>> /\ FrontMask # {}
        /\ queue' = [queue EXCEPT ![1].mask = FrontMask]
  /\ processing' = FALSE
  /\ UNCHANGED <<pending, currentVars, monitorVars, commits, waitVars>>

Client ==
  \/ \E kind \in Kinds \cup {"null"} : Attach(kind)
  \/ Frame \/ SetBarrier \/ WaitBarrier \/ SetTimestamp
  \/ CommitNull \/ \E waits \in BOOLEAN : Commit(waits)

Events ==
  \/ \E id \in Ids : FenceSignals(id) \/ FenceFails(id) \/ TimerFires(id)
  \/ OtherDamage \/ FramePresented
  \/ \E torn \in BOOLEAN : Render(torn) \/ ScanoutSameBuffer(torn)

TryProcess ==
  \/ ApplyFront \/ StopProcessing
  \/ \E torn \in BOOLEAN : ApplyAndRender(torn)

Next == Client \/ Events \/ TryProcess

Spec == Init /\ [][Next]_vars

(* A scheduled frame is rendered, in the conditions of onFrame              *)
FrameEvent ==
  /\ tearing => due = "content"
  /\ \E torn \in BOOLEAN : Render(torn) \/ ScanoutSameBuffer(torn)

(* Fences that do not fail are signalled and timers called (EventLoop's     *)
(* promise), scheduled frames are rendered and committed frames presented.  *)
(* Strong fairness, because every event is disabled while tryProcess, one   *)
(* call in the code, takes its steps here.                                  *)
Fairness ==
  /\ WF_vars(TryProcess)
  /\ \A id \in Ids : SF_vars(FenceSignals(id)) /\ SF_vars(TimerFires(id))
  /\ SF_vars(FrameEvent) /\ SF_vars(FramePresented)

FairSpec == Spec /\ Fairness

-----------------------------------------------------------------------------
TypeOK ==
  /\ pending \in Pending
  /\ queue \in Seq(Queued)
  /\ texture \in BOOLEAN /\ barrier \in BOOLEAN
  /\ mapped \in BOOLEAN /\ processing \in BOOLEAN
  /\ tearing \in BOOLEAN /\ due \in {"no", "frame", "content"} /\ flip \in BOOLEAN
  /\ commits \in 0..MaxCommits
  /\ shown \in 0..MaxCommits
  /\ callbacks \subseteq Ids
  /\ fences \subseteq Ids /\ failed \subseteq Ids /\ timers \subseteq Ids

(* The queue holds commits newer than the one shown, oldest first: however  *)
(* fences, timers and presentations interleave, and also across a null      *)
(* buffer that overtakes the queue, content never goes back in time.        *)
QueueOrdered ==
  /\ \A i \in 1..Len(queue) : shown < queue[i].id /\ queue[i].id <= commits
  /\ \A i, j \in 1..Len(queue) : i < j => queue[i].id < queue[j].id

(* A queued state is FENCE-locked exactly while somebody can still unlock   *)
(* it (or its waiter failed), and TIMER-locked exactly while its timer is   *)
(* armed: no lock outlives its key, no key is left for a state that does    *)
(* not hold the lock, and no state was shown with its fence outstanding     *)
(* unless a null buffer discarded it.                                       *)
LocksHaveKeys ==
  /\ \A i \in 1..Len(queue) :
       /\ FENCE \in queue[i].mask <=> queue[i].id \in fences \cup failed
       /\ TIMER \in queue[i].mask <=> queue[i].id \in timers
  /\ timers \subseteq QueuedIds

(* Nothing that could be shown is left waiting: when the handlers are done, *)
(* the front of a non-empty queue waits for a fence, a timer, or, with the  *)
(* barrier up, for a presentation.                                          *)
NothingForgotten ==
  ~processing /\ queue # <<>> =>
    \E r \in Head(queue).mask : r = FIFO => barrier

(* An update committed after wait_barrier took the FIFO lock is shown only  *)
(* when the barrier of what it follows is gone.                             *)
FifoPaced ==
  [][\A i \in 1..Len(queue) :
       queue[i].waited /\ shown' = queue[i].id /\ shown # shown' => ~barrier]_vars

(* The front waits for a presentation, and no frame is on its way: the case *)
(* Fifo.cpp:49 is about ("presented might never come because we are waiting *)
(* on the barrier to unlock and no damage is around")                       *)
Starved ==
  /\ queue # <<>> /\ FIFO \in Head(queue).mask /\ barrier
  /\ ~flip /\ (due = "no" \/ (tearing /\ due = "frame"))

(* Every committed update is shown or discarded in the end, unless the      *)
(* waiter of its own or of an earlier update's fence failed, or the surface *)
(* is starved of presentations.                                             *)
Progress ==
  \A id \in Ids :
    id \in QueuedIds ~> \/ id \notin QueuedIds
                        \/ \E f \in failed : f <= id
                        \/ Starved

(* A frame callback of an update shown on a mapped surface is answered;     *)
(* while the monitor tears, only if the surface brings new content.         *)
FrameAnswered ==
  \A id \in Ids :
    mapped /\ id \in callbacks ~> ~mapped \/ id \notin callbacks \/ tearing

-----------------------------------------------------------------------------
(* What the client is promised, as UpdateStream states it                   *)
Stream == INSTANCE UpdateStream WITH
  waiting <- QueuedIds,
  ready   <- (1..commits) \ (fences \cup failed \cup timers)

StreamSpec == Stream!Spec
=============================================================================
