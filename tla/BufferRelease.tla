---------------------------- MODULE BufferRelease ----------------------------
(***************************************************************************)
(* When a client gets its buffers back: the references to a surface's       *)
(* buffers (CHLBufferReference, protocols/types/Buffer.cpp) from the        *)
(* request that attaches one to its release, through the commit queue, the  *)
(* renderer's GPU jobs and direct scanout, with wl_buffer.release and the   *)
(* release points of linux-drm-syncobj-v1.                                  *)
(*                                                                          *)
(* A reference holds one lock, by construction and destruction, so a        *)
(* buffer's m_locks is positive exactly while a reference, or the lock      *)
(* taken for the backend, exists (Locked).  Which queued state is applied   *)
(* when is SurfaceCommit's matter: here the front may be applied any time.  *)
(***************************************************************************)
EXTENDS Integers, Sequences

CONSTANTS Buffers,
          Synchronous,  \* those the CPU can read (shm); the others are dmabufs
          Explicit,     \* those the client commits with release points
          Frames,       \* names for the GPU's jobs
          None,         \* no buffer of the client's
          Null,         \* wl_surface.attach of a null buffer
          NoFlip,       \* no page flip is pending
          Reattached,   \* buffers the client may attach before it got them back
          Careless,     \* whether a client replaces an attached buffer that it
                        \* has not got back before it committed it
          MaxQueue      \* bound: states queued

ASSUME KindsAssumption == Synchronous \subseteq Buffers /\ Explicit \subseteq Buffers
ASSUME NamesAssumption   ==
  /\ None \notin Buffers /\ Null \notin Buffers /\ NoFlip \notin Buffers
  /\ None # Null /\ None # NoFlip
ASSUME ClientAssumption  == Reattached \subseteq Buffers /\ Careless \in BOOLEAN

VARIABLES
  pending,    \* m_pending.buffer
  queue,      \* the buffers of m_stateQueue's states
  current,    \* m_current.buffer
  used,       \* m_usedAsyncBuffers: read by commands no fence follows yet
  drawing,    \* jobs the GPU has not finished
  waiting,    \* jobs whose EGLSync has a waiter in the event loop
  reads,      \* the buffers an unfinished job reads
  holds,      \* the references its waiter owns
  front,      \* what the output shows
  back,       \* what it shows after the page flip, or NoFlip
  backend,    \* buffers locked for the backend (m_hlEvents.backendRelease)
  owed,       \* buffers committed without a release point and not released
  releasers,  \* m_syncReleasers: each the fences it was given
  points      \* the release points of destroyed releasers, not yet signalled

surfaceVars == <<pending, queue, current>>
gpuVars     == <<used, drawing, waiting, reads, holds>>
outputVars  == <<front, back, backend>>
clientVars  == <<owed, releasers, points>>
vars == <<pending, queue, current, used, drawing, waiting, reads, holds, front, back,
          backend, owed, releasers, points>>

Queued == {queue[i] : i \in 1..Len(queue)}

(* m_locks > 0                                                              *)
Locked(b) ==
  \/ b \in {pending, current} \cup Queued \cup used \cup backend
  \/ \E f \in Frames : b \in holds[f]

(* The client may write to b: all it committed b for has been answered      *)
Idle(b) == b \notin owed /\ releasers[b] = {} /\ points[b] = {}

Init ==
  /\ pending = None /\ queue = <<>> /\ current = None
  /\ used = {} /\ drawing = {} /\ waiting = {}
  /\ reads = [f \in Frames |-> {}] /\ holds = [f \in Frames |-> {}]
  /\ front = None /\ back = NoFlip /\ backend = {}
  /\ owed = {}
  /\ releasers = [b \in Buffers |-> {}] /\ points = [b \in Buffers |-> {}]

(* What the step's unlocks do, given the answers owed and the releasers at  *)
(* that moment: a buffer whose last lock is gone is released (sendRelease); *)
(* its releasers are destroyed, and signal their points when the fences     *)
(* they were given do                                                       *)
Unlock(owes, given) ==
  LET last == {b \in Buffers : Locked(b) /\ ~Locked(b)'}
  IN /\ owed' = owes \ last
     /\ releasers' = [b \in Buffers |-> IF b \in last THEN {} ELSE given[b]]
     /\ points' = [b \in Buffers |->
                     IF b \in last THEN points[b] \cup (given[b] \ {{}}) ELSE points[b]]

-----------------------------------------------------------------------------
(* The surface                                                              *)

(* wl_surface.attach: the buffer attached before, if it was not committed,  *)
(* loses its lock by drop(), which releases nothing                         *)
Attach(b) ==
  /\ b \in Buffers \ Reattached => Idle(b)
  /\ pending \in Buffers /\ ~Careless => Idle(pending)
  /\ pending' = b
  /\ UNCHANGED <<queue, current, gpuVars, outputVars, clientVars>>

(* wl_surface.commit of a buffer, with its release point if it has one      *)
Commit ==
  /\ pending \in Buffers /\ Len(queue) < MaxQueue
  /\ queue' = Append(queue, pending)
  /\ pending' = None
  /\ IF pending \in Explicit
     THEN releasers' = [releasers EXCEPT ![pending] = @ \cup {{}}] /\ UNCHANGED owed
     ELSE owed' = owed \cup {pending} /\ UNCHANGED releasers
  /\ UNCHANGED <<current, gpuVars, outputVars, points>>

(* wl_surface.commit of a null buffer: the surface loses its content, and   *)
(* every queued state goes with its buffer                                  *)
(* -- variant: the queue is emptied by drop()                               *)
CommitNull_Drops ==
  /\ pending = Null
  /\ pending' = None /\ queue' = <<>> /\ current' = None
  /\ UNCHANGED <<gpuVars, outputVars, clientVars>>

CommitNull ==
  /\ pending = Null
  /\ pending' = None /\ queue' = <<>> /\ current' = None
  /\ UNCHANGED <<gpuVars, outputVars>>
  /\ Unlock(owed, releasers)

(* commitState and pop_front: what was current loses its reference; the     *)
(* content of a synchronous buffer is copied, and the buffer let go at once *)
ApplyFront ==
  /\ queue # <<>>
  /\ current' = IF Head(queue) \in Synchronous THEN None ELSE Head(queue)
  /\ queue' = Tail(queue)
  /\ UNCHANGED <<pending, gpuVars, outputVars>>
  /\ Unlock(owed, releasers)

(* unmap() as XWayland does it, without a commit                            *)
Unmap ==
  /\ current # None
  /\ current' = None
  /\ UNCHANGED <<pending, queue, gpuVars, outputVars>>
  /\ Unlock(owed, releasers)

(* the wl_surface is destroyed, with its queue; the client makes another    *)
Destroy ==
  /\ pending' = None /\ queue' = <<>> /\ current' = None
  /\ UNCHANGED <<gpuVars, outputVars>>
  /\ Unlock(owed, releasers)

-----------------------------------------------------------------------------
(* The renderer                                                             *)

(* a render pass ended in RENDER_MODE_FULL_FAKE: its buffers stay in        *)
(* m_usedAsyncBuffers until a pass ends that asks for a fence               *)
Snapshot ==
  /\ current \in Buffers
  /\ used' = used \cup {current}
  /\ UNCHANGED <<surfaceVars, drawing, waiting, reads, holds, outputVars, clientVars>>

(* the frame replaces what the output shows, or is drawn for somebody else  *)
Target(onOutput) ==
  IF onOutput THEN back = NoFlip /\ back' = None ELSE UNCHANGED back

(* the buffers a pass has used by its end                                   *)
Batch == used \cup ({current} \cap Buffers)

(* -- variant: references with release points go before the fence is added  *)
Render_LateFence(f, onOutput) ==
  /\ f \notin drawing \cup waiting
  /\ Target(onOutput)
  /\ drawing' = drawing \cup {f} /\ waiting' = waiting \cup {f}
  /\ reads' = [reads EXCEPT ![f] = Batch]
  /\ holds' = [holds EXCEPT ![f] = {b \in Batch : releasers[b] = {}}]
  /\ used' = {}
  /\ UNCHANGED <<surfaceVars, front, backend>>
  /\ Unlock(owed, releasers)

(* endRender: every releaser of the batch gets the job's fence; references  *)
(* to buffers with releasers go at once, the others when the fence is       *)
(* readable                                                                 *)
Render(f, onOutput) ==
  /\ f \notin drawing \cup waiting
  /\ Target(onOutput)
  /\ drawing' = drawing \cup {f} /\ waiting' = waiting \cup {f}
  /\ reads' = [reads EXCEPT ![f] = Batch]
  /\ holds' = [holds EXCEPT ![f] = {b \in Batch : releasers[b] = {}}]
  /\ used' = {}
  /\ UNCHANGED <<surfaceVars, front, backend>>
  /\ Unlock(owed, [b \in Buffers |-> IF b \in Batch THEN {r \cup {f} : r \in releasers[b]}
                                                    ELSE releasers[b]])

(* the GPU finishes a job, which signals its fence                          *)
Finish(f) ==
  /\ f \in drawing
  /\ drawing' = drawing \ {f}
  /\ reads' = [reads EXCEPT ![f] = {}]
  /\ releasers' = [b \in Buffers |-> {r \ {f} : r \in releasers[b]}]
  /\ points' = [b \in Buffers |-> {r \ {f} : r \in points[b]} \ {{}}]
  /\ UNCHANGED <<surfaceVars, used, waiting, holds, outputVars, owed>>

(* the event loop finds the fence readable: prevbfs.clear()                 *)
FenceReadable(f) ==
  /\ f \in waiting \ drawing
  /\ waiting' = waiting \ {f}
  /\ holds' = [holds EXCEPT ![f] = {}]
  /\ UNCHANGED <<surfaceVars, used, drawing, reads, outputVars>>
  /\ Unlock(owed, releasers)

-----------------------------------------------------------------------------
(* The output                                                               *)

(* attemptDirectScanout of the current buffer.  The buffer committed last   *)
(* is not committed again.                                                  *)
Scanout ==
  /\ current \in Buffers \ {front}
  /\ back = NoFlip
  /\ back' = current
  /\ backend' = backend \cup {current}
  /\ UNCHANGED <<surfaceVars, gpuVars, front, clientVars>>

(* The page flip; the backend emits backendRelease of the buffer it was     *)
(* showing, and the listener takes back the lock                            *)
(* -- variant: the listener is not reset, and nothing unlocked              *)
PageFlip_KeepsLock ==
  /\ back # NoFlip
  /\ front' = back /\ back' = NoFlip
  /\ UNCHANGED <<surfaceVars, gpuVars, backend, clientVars>>

PageFlip ==
  /\ back # NoFlip
  /\ front' = back /\ back' = NoFlip
  /\ backend' = backend \ {front}
  /\ UNCHANGED <<surfaceVars, gpuVars>>
  /\ Unlock(owed, releasers)

-----------------------------------------------------------------------------
Client ==
  \/ \E b \in Buffers \cup {Null} : Attach(b)
  \/ Commit \/ CommitNull \/ Unmap \/ Destroy

Next ==
  \/ Client \/ ApplyFront \/ Snapshot \/ Scanout \/ PageFlip
  \/ \E f \in Frames : (\E onOutput \in BOOLEAN : Render(f, onOutput))
                       \/ Finish(f) \/ FenceReadable(f)

Spec == Init /\ [][Next]_vars

(* A frame that is due: the content on the output was replaced, which has   *)
(* damaged it, or a snapshot was taken, for an animation that goes on.      *)
Redraw ==
  /\ used # {} \/ front \in Buffers \ {current}
  /\ Scanout \/ \E f \in Frames : Render(f, TRUE)

(* The GPU finishes its jobs, the event loop sees their fences, page flips  *)
(* happen, frames that are due are drawn.  Frames drawn for others take     *)
(* part of the GPU's jobs, and scanouts do not draw snapshots: hence strong.*)
Fairness ==
  /\ \A f \in Frames : WF_vars(Finish(f)) /\ WF_vars(FenceReadable(f))
  /\ WF_vars(PageFlip)
  /\ SF_vars(\E f \in Frames : Redraw /\ Render(f, TRUE))

FairSpec == Spec /\ Fairness

-----------------------------------------------------------------------------
TypeOK ==
  /\ pending \in Buffers \cup {None, Null}
  /\ queue \in Seq(Buffers)
  /\ current \in (Buffers \ Synchronous) \cup {None}
  /\ used \subseteq Buffers
  /\ drawing \subseteq Frames /\ waiting \subseteq Frames
  /\ reads \in [Frames -> SUBSET Buffers] /\ holds \in [Frames -> SUBSET Buffers]
  /\ front \in Buffers \cup {None} /\ back \in Buffers \cup {None, NoFlip}
  /\ backend \subseteq Buffers
  /\ owed \subseteq Buffers
  /\ releasers \in [Buffers -> SUBSET SUBSET Frames]
  /\ points \in [Buffers -> SUBSET SUBSET Frames]

(* The compositor has yet to read b, reads it, or shows it                  *)
InUse(b) ==
  \/ b \in Queued \cup used \cup {current, front, back}
  \/ \E f \in Frames : b \in reads[f]

(* A client that has got back all it is owed for a buffer may write to it:  *)
(* no queued or current state, no job of the GPU and no output uses it,     *)
(* whichever of wl_buffer.release and release points the commits asked for. *)
NoEarlyRelease == \A b \in Buffers : Idle(b) => ~InUse(b)

(* Nothing is kept from the client: a buffer without a lock has been        *)
(* released, and its releasers destroyed.                                   *)
ReleasedWhenUnlocked ==
  \A b \in Buffers : Locked(b) \/ (b \notin owed /\ releasers[b] = {})

(* A buffer that the surface's states have let go comes back to the client, *)
(* unless it is attached again.                                             *)
InStates(b) == b \in {pending, current} \cup Queued

Returned == \A b \in Buffers : ~InStates(b) ~> InStates(b) \/ Idle(b)
=============================================================================
