------------------------ MODULE SurfaceCommitProofs ------------------------
(***************************************************************************)
(* Proofs about SurfaceCommit, for any kinds of buffers, any requests and   *)
(* any number of commits.  Type correctness comes first; the order of the   *)
(* queue and the pairing of locks with the fences and timers that open them *)
(* are inductive together once no waiter is known for a commit still to     *)
(* come (WaitersKnown); from them follows the refinement of UpdateStream.   *)
(* That no state is left waiting is inductive on its own; with it, without  *)
(* fences and timers, presentations open the locks they are meant for.      *)
(***************************************************************************)
EXTENDS SurfaceCommit, SequenceTheorems, TLAPS

(* A function on 1..n is a sequence of length n.                            *)
LEMMA FunctionIsSeq ==
  ASSUME NEW S, NEW n \in Nat, NEW q \in [1..n -> S]
  PROVE  q \in Seq(S) /\ Len(q) = n
  OBVIOUS

(* Taking a lock from a state leaves everything else of it.                 *)
LEMMA WithoutKeeps ==
  ASSUME NEW s \in Queued, NEW reason
  PROVE  /\ Without(s, reason) \in Queued
         /\ Without(s, reason).id = s.id
         /\ Without(s, reason).mask = s.mask \ {reason}
  BY DEF Without, Queued

(* unlock keeps the queue and takes the lock from the one state.            *)
LEMMA UnlockTakes ==
  ASSUME TypeOK, NEW id, NEW reason, Unlock(id, reason)
  PROVE  /\ queue' \in Seq(Queued) /\ Len(queue') = Len(queue)
         /\ processing' \in BOOLEAN
         /\ \A i \in 1..Len(queue) :
              /\ queue'[i].id = queue[i].id
              /\ queue'[i].mask = IF queue[i].id = id THEN queue[i].mask \ {reason}
                                                      ELSE queue[i].mask
<1>1. Len(queue) \in Nat /\ \A i \in 1..Len(queue) : queue[i] \in Queued
  BY LenProperties, ElementOfSeq DEF TypeOK
<1>2. queue' \in [1..Len(queue) -> Queued]
  BY <1>1, WithoutKeeps DEF Unlock
<1>3. queue' \in Seq(Queued) /\ Len(queue') = Len(queue)
  BY <1>1, <1>2, FunctionIsSeq
<1>4. \A i \in 1..Len(queue) :
        queue'[i] = IF queue[i].id = id THEN Without(queue[i], reason) ELSE queue[i]
  BY DEF Unlock
<1>5. processing' \in BOOLEAN
  BY DEF Unlock, QueuedIds
<1>6. ASSUME NEW i \in 1..Len(queue)
      PROVE  /\ queue'[i].id = queue[i].id
             /\ queue'[i].mask = IF queue[i].id = id THEN queue[i].mask \ {reason}
                                                     ELSE queue[i].mask
  <2>1. CASE queue[i].id = id
    BY <1>1, <1>4, <2>1, WithoutKeeps
  <2>2. CASE queue[i].id # id
    BY <1>1, <1>4, <2>2
  <2> QED
    BY <2>1, <2>2
<1> QED
  BY <1>3, <1>5, <1>6

(* unlockFirst keeps the queue and every lock of another reason.            *)
LEMMA UnlockFirstTakes ==
  ASSUME TypeOK, NEW reason, UnlockFirst(reason)
  PROVE  /\ queue' \in Seq(Queued) /\ Len(queue') = Len(queue)
         /\ processing' \in BOOLEAN
         /\ \A i \in 1..Len(queue) :
              /\ queue'[i].id = queue[i].id
              /\ queue'[i].mask \in {queue[i].mask, queue[i].mask \ {reason}}
<1>1. Len(queue) \in Nat /\ \A i \in 1..Len(queue) : queue[i] \in Queued
  BY LenProperties, ElementOfSeq DEF TypeOK
<1>2. queue' \in [1..Len(queue) -> Queued]
  BY <1>1, WithoutKeeps DEF UnlockFirst
<1>3. queue' \in Seq(Queued) /\ Len(queue') = Len(queue)
  BY <1>1, <1>2, FunctionIsSeq
<1> QED
  BY <1>1, <1>3, WithoutKeeps DEF UnlockFirst

(* The end of tryProcess may void the front's FIFO lock, and nothing else.  *)
LEMMA StopVoids ==
  ASSUME TypeOK, StopProcessing
  PROVE  /\ queue' \in Seq(Queued) /\ Len(queue') = Len(queue)
         /\ \A i \in 1..Len(queue) :
              /\ queue'[i].id = queue[i].id
              /\ queue'[i].mask \in {queue[i].mask, queue[i].mask \ {FIFO}}
<1>1. CASE queue = <<>>
  BY <1>1 DEF StopProcessing, TypeOK
<1>2. CASE queue # <<>>
  <2>1. Len(queue) \in Nat /\ 1 \in 1..Len(queue) /\ Head(queue) = queue[1]
        /\ \A i \in 1..Len(queue) : queue[i] \in Queued
    BY <1>2, LenProperties, ElementOfSeq, EmptySeq, HeadTailProperties DEF TypeOK
  <2>2. FrontMask \in {queue[1].mask, queue[1].mask \ {FIFO}}
    BY <2>1 DEF FrontMask
  <2> DEFINE s == [queue[1] EXCEPT !.mask = FrontMask]
  <2>3. s \in Queued /\ s.id = queue[1].id /\ s.mask = FrontMask
    BY <2>1, <2>2 DEF Queued, Reasons
  <2>4. queue' = [queue EXCEPT ![1] = s]
    BY <1>2, <2>1 DEF StopProcessing
  <2> HIDE DEF s
  <2>5. queue' \in Seq(Queued) /\ Len(queue') = Len(queue)
        /\ \A j \in 1..Len(queue) : queue'[j] = IF j = 1 THEN s ELSE queue[j]
    BY <2>1, <2>3, <2>4, ExceptSeq DEF TypeOK
  <2> QED
    BY <2>2, <2>3, <2>5
<1> QED
  BY <1>1, <1>2

(* What becomes the current state keeps its types.                          *)
LEMMA CommitStateType ==
  ASSUME TypeOK, NEW id \in Ids, NEW s, s.attach \in Attachments,
         s.cb \in BOOLEAN, s.barrier \in BOOLEAN, CommitState(id, s)
  PROVE  /\ texture' \in BOOLEAN /\ barrier' \in BOOLEAN /\ mapped' \in BOOLEAN
         /\ shown' \in 0..MaxCommits /\ callbacks' \subseteq Ids
         /\ due' \in {"no", "frame", "content"}
<1>1. shown' = id /\ shown' \in 0..MaxCommits
  BY MaxCommitsAssumption DEF CommitState, Ids
<1>2. CASE Empty(s) /\ mapped /\ s.fifoScheduled
  BY <1>1, <1>2 DEF CommitState, TypeOK
<1>3. CASE ~(Empty(s) /\ mapped /\ s.fifoScheduled)
  <2> DEFINE content == IF s.attach = "no" THEN texture ELSE s.attach # "null"
             owed    == callbacks \cup (IF s.cb THEN {id} ELSE {})
  <2>1. /\ texture' = content /\ mapped' = content
        /\ barrier' = (barrier \/ s.barrier)
        /\ callbacks' = IF content /\ ~mapped THEN {} ELSE owed
        /\ IF mapped \/ content THEN Damage(s, owed) ELSE UNCHANGED due
    BY <1>3, Zenon DEF CommitState
  <2>2. content \in BOOLEAN
    BY Zenon DEF TypeOK
  <2>3. owed \subseteq Ids
    BY DEF TypeOK
  <2>4. due' \in {"no", "frame", "content"}
    <3> HIDE DEF content, owed
    <3> QED
      BY <2>1 DEF Damage, TypeOK
  <2>5. barrier' \in BOOLEAN
    BY <2>1, Zenon DEF TypeOK
  <2> QED
    BY <1>1, <2>1, <2>2, <2>3, <2>4, <2>5
<1> QED
  BY <1>2, <1>3

(* A commit with content, or without, makes a well-typed queued state.      *)
LEMMA QueuedStateType ==
  ASSUME TypeOK, NEW id \in Ids, NEW waits \in BOOLEAN, pending.attach # "null"
  PROVE  QueuedState(id, waits) \in Queued
<1>1. /\ pending.attach \in Kinds \cup {"no"} /\ pending.cb \in BOOLEAN
      /\ pending.barrier \in BOOLEAN /\ pending.fifoScheduled \in BOOLEAN
      /\ pending.surfaceLocked \in BOOLEAN
  BY DEF TypeOK, Pending, Attachments
<1>2. FifoScheduled \in BOOLEAN /\ FifoLocks \in BOOLEAN
  BY <1>1, Zenon DEF FifoScheduled, FifoLocks
<1> QED
  BY <1>1, <1>2 DEF QueuedState, Queued

(* Every variable keeps its type.                                           *)
LEMMA TypeStep == TypeOK /\ [Next]_vars => TypeOK'
<1> SUFFICES ASSUME TypeOK, [Next]_vars PROVE TypeOK'
  OBVIOUS
<1>1. ASSUME NEW kind \in Kinds \cup {"null"}, Attach(kind) PROVE TypeOK'
  BY <1>1 DEF TypeOK, Attach, Pending, Attachments, currentVars, monitorVars, waitVars
<1>2. CASE Frame
  BY <1>2 DEF TypeOK, Frame, Pending, currentVars, monitorVars, waitVars
<1>3. CASE SetBarrier
  BY <1>3 DEF TypeOK, SetBarrier, Pending, currentVars, monitorVars, waitVars
<1>4. CASE WaitBarrier
  <2>1. pending' \in Pending
    <3>1. CASE barrier
      BY <1>4, <3>1 DEF TypeOK, WaitBarrier, Pending
    <3>2. CASE ~barrier
      <4>1. (pending.fifoScheduled \/ ~tearing) \in BOOLEAN
        BY Zenon
      <4>2. pending' = [pending EXCEPT !.fifoScheduled = pending.fifoScheduled \/ ~tearing]
        BY <1>4, <3>2, Zenon DEF WaitBarrier
      <4> QED
        BY <4>1, <4>2 DEF TypeOK, Pending
    <3> QED
      BY <3>1, <3>2
  <2> QED
    BY <1>4, <2>1 DEF TypeOK, WaitBarrier, currentVars, monitorVars, waitVars
<1>5. CASE SetTimestamp
  BY <1>5 DEF TypeOK, SetTimestamp, Pending, currentVars, monitorVars, waitVars
<1>6. NoPending \in Pending
  BY DEF NoPending, Pending, Attachments
<1>7. ASSUME ~processing, commits < MaxCommits, commits' = commits + 1
      PROVE  commits + 1 \in Ids /\ commits' \in 0..MaxCommits
  BY <1>7, MaxCommitsAssumption DEF TypeOK, Ids
<1>8. CASE CommitNull
  <2>1. commits + 1 \in Ids /\ commits' \in 0..MaxCommits
    BY <1>7, <1>8 DEF CommitNull
  <2>2. /\ pending.attach \in Attachments /\ pending.cb \in BOOLEAN
        /\ pending.barrier \in BOOLEAN
    BY DEF TypeOK, Pending
  <2>3. CommitState(commits + 1, pending)
    BY <1>8 DEF CommitNull
  <2>4. /\ texture' \in BOOLEAN /\ barrier' \in BOOLEAN /\ mapped' \in BOOLEAN
        /\ shown' \in 0..MaxCommits /\ callbacks' \subseteq Ids
        /\ due' \in {"no", "frame", "content"}
    BY <2>1, <2>2, <2>3, CommitStateType
  <2> QED
    BY <1>6, <1>8, <2>1, <2>4, EmptySeq DEF TypeOK, CommitNull
<1>9. ASSUME NEW waits \in BOOLEAN, Commit(waits) PROVE TypeOK'
  <2>1. commits + 1 \in Ids /\ commits' \in 0..MaxCommits
    BY <1>7, <1>9 DEF Commit
  <2>2. QueuedState(commits + 1, waits) \in Queued
    BY <1>9, <2>1, QueuedStateType DEF Commit
  <2>3. queue' \in Seq(Queued)
    BY <1>9, <2>2, AppendProperties DEF TypeOK, Commit, Schedule
  <2>4. fences' \subseteq Ids /\ timers' \subseteq Ids /\ processing' \in BOOLEAN
    BY <1>9, <2>1 DEF TypeOK, Commit, Schedule
  <2> QED
    BY <1>6, <1>9, <2>1, <2>3, <2>4 DEF TypeOK, Commit, currentVars, monitorVars
<1>10. ASSUME NEW id \in Ids, FenceSignals(id) PROVE TypeOK'
  BY <1>10, UnlockTakes DEF TypeOK, FenceSignals, currentVars, monitorVars
<1>11. ASSUME NEW id \in Ids, FenceFails(id) PROVE TypeOK'
  BY <1>11 DEF TypeOK, FenceFails, currentVars, monitorVars
<1>12. ASSUME NEW id \in Ids, TimerFires(id) PROVE TypeOK'
  BY <1>12, UnlockTakes DEF TypeOK, TimerFires, currentVars, monitorVars
<1>13. CASE OtherDamage
  BY <1>13 DEF TypeOK, OtherDamage, currentVars, waitVars
<1>14. ASSUME NEW torn \in BOOLEAN, Render(torn) PROVE TypeOK'
  BY <1>14 DEF TypeOK, Render, waitVars
<1>15. CASE FramePresented
  <2>1. queue' \in Seq(Queued) /\ processing' \in BOOLEAN /\ barrier' \in BOOLEAN
    BY <1>15, UnlockFirstTakes DEF TypeOK, FramePresented
  <2> QED
    BY <1>15, <2>1 DEF TypeOK, FramePresented, waitVars
<1>16. ASSUME NEW torn \in BOOLEAN, ScanoutSameBuffer(torn) PROVE TypeOK'
  <2>1. queue' \in Seq(Queued) /\ processing' \in BOOLEAN
    BY <1>16, UnlockFirstTakes DEF TypeOK, ScanoutSameBuffer
  <2> QED
    BY <1>16, <2>1 DEF TypeOK, ScanoutSameBuffer, waitVars
<1>17. CASE ApplyFront
  <2>1. Head(queue) \in Queued /\ queue' \in Seq(Queued)
    BY <1>17, HeadTailProperties DEF TypeOK, ApplyFront
  <2>2. /\ Head(queue).id \in Ids /\ Head(queue).attach \in Attachments
        /\ Head(queue).cb \in BOOLEAN /\ Head(queue).barrier \in BOOLEAN
    BY <2>1 DEF Queued, Attachments
  <2>3. CommitState(Head(queue).id, Head(queue))
    BY <1>17 DEF ApplyFront
  <2>4. /\ texture' \in BOOLEAN /\ barrier' \in BOOLEAN /\ mapped' \in BOOLEAN
        /\ shown' \in 0..MaxCommits /\ callbacks' \subseteq Ids
        /\ due' \in {"no", "frame", "content"}
    BY <2>2, <2>3, CommitStateType
  <2> QED
    BY <1>17, <2>1, <2>4 DEF TypeOK, ApplyFront, waitVars
<1>18. ASSUME NEW torn \in BOOLEAN, ApplyAndRender(torn) PROVE TypeOK'
  <2>1. Head(queue) \in Queued /\ queue' \in Seq(Queued)
    BY <1>18, HeadTailProperties DEF TypeOK, ApplyAndRender
  <2>2. Head(queue).id \in 0..MaxCommits /\ Head(queue).barrier \in BOOLEAN
    BY <2>1, MaxCommitsAssumption DEF Queued, Ids
  <2>3. barrier' \in BOOLEAN
    BY <1>18, <2>2, Zenon DEF ApplyAndRender
  <2>4. flip' \in BOOLEAN
    BY <1>18 DEF TypeOK, ApplyAndRender
  <2> QED
    BY <1>18, <2>1, <2>2, <2>3, <2>4 DEF TypeOK, ApplyAndRender, waitVars
<1>19. CASE StopProcessing
  BY <1>19, StopVoids DEF TypeOK, StopProcessing, currentVars, monitorVars, waitVars
<1>20. CASE UNCHANGED vars
  BY <1>20 DEF TypeOK, vars
<1> QED
  BY <1>1, <1>2, <1>3, <1>4, <1>5, <1>8, <1>9, <1>10, <1>11, <1>12, <1>13, <1>14,
     <1>15, <1>16, <1>17, <1>18, <1>19, <1>20 DEF Next, Client, Events, TryProcess

(* The initial state is well typed.                                         *)
LEMMA TypeInit == Init => TypeOK
<1>1. NoPending \in Pending
  BY DEF NoPending, Pending, Attachments
<1>2. 0 \in 0..MaxCommits
  BY MaxCommitsAssumption
<1>3. <<>> \in Seq(Queued)
  BY EmptySeq
<1> QED
  BY <1>1, <1>2, <1>3 DEF Init, TypeOK

(* The variables of the pipeline keep their types.                          *)
THEOREM TypeCorrect == Spec => []TypeOK
  BY TypeInit, TypeStep, PTL DEF Spec

-----------------------------------------------------------------------------
(* No waiter is known for a commit still to come, and none both waits and   *)
(* has failed: without this the next commit could be born with a key        *)
WaitersKnown ==
  /\ fences \cup failed \cup timers \subseteq 1..commits
  /\ fences \cap failed = {}

(* what is shown has been committed                                         *)
ShownKnown == shown <= commits

PipelineInv ==
  TypeOK /\ QueueOrdered /\ LocksHaveKeys /\ WaitersKnown /\ ShownKnown

(* Steps that only take locks leave the order and the members alone.        *)
LEMMA SameShape ==
  ASSUME PipelineInv, queue' \in Seq(Queued), Len(queue') = Len(queue),
         \A i \in 1..Len(queue) : queue'[i].id = queue[i].id,
         shown' = shown, commits' = commits
  PROVE  QueueOrdered' /\ QueuedIds' = QueuedIds
<1>1. QueueOrdered'
  BY DEF PipelineInv, QueueOrdered
<1>2. QueuedIds' = QueuedIds
  BY DEF QueuedIds
<1> QED
  BY <1>1, <1>2

(* A state that joins the queue is its newest, and holds a FENCE or TIMER   *)
(* lock exactly if the commit gave it a waiter or a timer.                  *)
LEMMA CommitKeeps ==
  ASSUME PipelineInv, NEW waits \in BOOLEAN, Commit(waits)
  PROVE  /\ QueueOrdered' /\ LocksHaveKeys' /\ WaitersKnown' /\ ShownKnown'
         /\ QueuedIds' = QueuedIds \cup {commits + 1}
<1> DEFINE id == commits + 1
           s  == QueuedState(id, waits)
           n  == Len(queue)
<1>1. /\ queue' = Append(queue, s) /\ commits' = id /\ shown' = shown
      /\ fences' = IF waits THEN fences \cup {id} ELSE fences
      /\ timers' = IF TimerLocks THEN timers \cup {id} ELSE timers
      /\ failed' = failed
  BY DEF Commit, Schedule, currentVars
<1>2. id \in Ids /\ commits \in Nat /\ shown \in Nat
  BY MaxCommitsAssumption DEF Commit, PipelineInv, TypeOK, Ids
<1>3. s \in Queued
  BY <1>2, QueuedStateType DEF Commit, PipelineInv
<1>4. s.id = id /\ (FENCE \in s.mask <=> waits) /\ (TIMER \in s.mask <=> TimerLocks)
  BY DEF QueuedState, Reasons, FENCE, FIFO, TIMER
<1> HIDE DEF s
<1>5. /\ n \in Nat /\ queue' \in Seq(Queued) /\ Len(queue') = n + 1
      /\ \A i \in 1..n : queue'[i] = queue[i]
      /\ queue'[n + 1] = s
  BY <1>1, <1>3, AppendProperties, LenProperties DEF PipelineInv, TypeOK
<1>6. \A i \in 1..n : queue[i].id \in Nat /\ shown < queue[i].id /\ queue[i].id < id
  <2>1. \A i \in 1..n : queue[i] \in Queued
    BY ElementOfSeq DEF PipelineInv, TypeOK
  <2>2. \A i \in 1..n : queue[i].id \in Nat
    BY <2>1 DEF Queued, Ids
  <2> QED
    BY <1>2, <2>2 DEF PipelineInv, QueueOrdered
<1>7. shown < id
  <2>1. shown <= commits
    BY DEF PipelineInv, ShownKnown
  <2> QED
    BY <1>2, <2>1
<1>8. QueueOrdered'
  BY <1>1, <1>2, <1>4, <1>5, <1>6, <1>7 DEF PipelineInv, QueueOrdered
<1>9. QueuedIds' = QueuedIds \cup {id}
  <2>1. ASSUME NEW i \in 1..(n + 1)
        PROVE  queue'[i].id \in QueuedIds \cup {id}
    BY <1>4, <1>5, <2>1 DEF QueuedIds
  <2>2. ASSUME NEW i \in 1..n PROVE queue[i].id \in QueuedIds'
    BY <1>5, <2>2 DEF QueuedIds
  <2>3. id \in QueuedIds'
    BY <1>4, <1>5 DEF QueuedIds
  <2> QED
    BY <1>5, <2>1, <2>2, <2>3 DEF QueuedIds
<1>10. id \notin fences \cup failed \cup timers
  BY <1>2 DEF PipelineInv, WaitersKnown
<1>11. LocksHaveKeys'
  <2>1. ASSUME NEW i \in 1..n
        PROVE  /\ FENCE \in queue'[i].mask <=> queue'[i].id \in fences' \cup failed'
               /\ TIMER \in queue'[i].mask <=> queue'[i].id \in timers'
    BY <1>1, <1>5, <1>6, <1>2, <2>1 DEF PipelineInv, LocksHaveKeys
  <2>2. /\ FENCE \in queue'[n + 1].mask <=> queue'[n + 1].id \in fences' \cup failed'
        /\ TIMER \in queue'[n + 1].mask <=> queue'[n + 1].id \in timers'
    BY <1>1, <1>4, <1>5, <1>10
  <2>3. timers' \subseteq QueuedIds'
    BY <1>1, <1>9 DEF PipelineInv, LocksHaveKeys
  <2> QED
    BY <1>5, <2>1, <2>2, <2>3 DEF LocksHaveKeys
<1>12. WaitersKnown'
  BY <1>1, <1>2, <1>10 DEF PipelineInv, WaitersKnown
<1>13. ShownKnown'
  BY <1>1, <1>2, <1>7 DEF ShownKnown
<1> QED
  BY <1>8, <1>9, <1>11, <1>12, <1>13

(* One iteration of tryProcess, rendered at once or not.                    *)
Applies ==
  /\ processing /\ queue # <<>> /\ FrontMask = {}
  /\ queue' = Tail(queue) /\ shown' = Head(queue).id
  /\ UNCHANGED <<pending, commits, fences, failed, timers, processing>>

LEMMA BothApply ==
  ASSUME ApplyFront \/ \E torn \in BOOLEAN : ApplyAndRender(torn)
  PROVE  Applies
  BY DEF ApplyFront, ApplyAndRender, CommitState, Applies, waitVars

(* The commit of the front, the oldest state, keeps the rest in order; it   *)
(* held no FENCE or TIMER lock, so nobody will come to unlock it.           *)
LEMMA ApplyKeeps ==
  ASSUME PipelineInv, Applies
  PROVE  /\ QueueOrdered' /\ LocksHaveKeys' /\ WaitersKnown' /\ ShownKnown'
         /\ shown' \in QueuedIds \ (fences \cup failed \cup timers)
         /\ \A id \in QueuedIds : shown' <= id
         /\ QueuedIds' = QueuedIds \ {shown'}
<1> DEFINE n == Len(queue)
<1>1. /\ queue # <<>> /\ FrontMask = {} /\ queue' = Tail(queue)
      /\ shown' = Head(queue).id /\ UNCHANGED <<commits, fences, failed, timers>>
  BY DEF Applies
<1>2. /\ n \in Nat \ {0} /\ Head(queue) = queue[1] /\ queue' \in Seq(Queued)
      /\ Len(queue') = n - 1 /\ \A i \in 1..(n - 1) : queue'[i] = queue[i + 1]
  BY <1>1, EmptySeq, LenProperties, HeadTailProperties DEF PipelineInv, TypeOK
<1>3. \A i \in 1..n : queue[i].id \in Nat
  <2>1. \A i \in 1..n : queue[i] \in Queued
    BY ElementOfSeq DEF PipelineInv, TypeOK
  <2> QED
    BY <2>1 DEF Queued, Ids
<1>4. FENCE \notin queue[1].mask /\ TIMER \notin queue[1].mask
  BY <1>1, <1>2 DEF FrontMask, FENCE, TIMER, FIFO
<1>5. \A i, j \in 1..n : i < j => queue[i].id < queue[j].id
  BY DEF PipelineInv, QueueOrdered
<1>6. QueueOrdered'
  <2>1. ASSUME NEW i \in 1..(n - 1)
        PROVE  shown' < queue'[i].id /\ queue'[i].id <= commits'
    BY <1>1, <1>2, <1>5 DEF PipelineInv, QueueOrdered
  <2>2. ASSUME NEW i \in 1..(n - 1), NEW j \in 1..(n - 1), i < j
        PROVE  queue'[i].id < queue'[j].id
    BY <1>2, <1>5, <2>2
  <2> QED
    BY <1>2, <2>1, <2>2 DEF QueueOrdered
<1>7. shown' \in QueuedIds \ (fences \cup failed \cup timers)
  BY <1>1, <1>2, <1>4 DEF PipelineInv, LocksHaveKeys, QueuedIds
<1>8. \A id \in QueuedIds : shown' <= id
  BY <1>1, <1>2, <1>3, <1>5 DEF QueuedIds
<1>9. QueuedIds' = QueuedIds \ {shown'}
  <2>1. ASSUME NEW i \in 1..(n - 1) PROVE queue'[i].id \in QueuedIds \ {shown'}
    <3>1. i + 1 \in 1..n /\ 1 < i + 1 /\ 1 \in 1..n
      BY <1>2
    <3> QED
      BY <1>1, <1>2, <1>3, <1>5, <3>1 DEF QueuedIds
  <2>2. ASSUME NEW i \in 1..n, queue[i].id # shown' PROVE queue[i].id \in QueuedIds'
    <3>1. i # 1
      BY <1>1, <1>2, <2>2
    <3>2. i - 1 \in 1..(n - 1) /\ queue'[i - 1] = queue[i]
      BY <1>2, <3>1
    <3> QED
      BY <1>2, <3>2 DEF QueuedIds
  <2> QED
    BY <1>2, <2>1, <2>2 DEF QueuedIds
<1>10. LocksHaveKeys'
  <2>1. ASSUME NEW i \in 1..(n - 1)
        PROVE  /\ FENCE \in queue'[i].mask <=> queue'[i].id \in fences' \cup failed'
               /\ TIMER \in queue'[i].mask <=> queue'[i].id \in timers'
    BY <1>1, <1>2, <2>1 DEF PipelineInv, LocksHaveKeys
  <2>2. timers' \subseteq QueuedIds'
    BY <1>1, <1>7, <1>9 DEF PipelineInv, LocksHaveKeys
  <2> QED
    BY <1>2, <2>1, <2>2 DEF LocksHaveKeys
<1>11. WaitersKnown' /\ ShownKnown'
  BY <1>1, <1>2 DEF PipelineInv, WaitersKnown, ShownKnown, QueueOrdered
<1> QED
  BY <1>6, <1>7, <1>8, <1>9, <1>10, <1>11

(* A step that neither moves states nor touches waiters, timers or the      *)
(* locks they open, whatever it does to FIFO locks.                         *)
Quiet ==
  /\ queue' \in Seq(Queued) /\ Len(queue') = Len(queue)
  /\ \A i \in 1..Len(queue) :
       /\ queue'[i].id = queue[i].id
       /\ FENCE \in queue'[i].mask <=> FENCE \in queue[i].mask
       /\ TIMER \in queue'[i].mask <=> TIMER \in queue[i].mask
  /\ UNCHANGED <<shown, commits, fences, failed, timers>>

LEMMA QuietKeeps ==
  ASSUME PipelineInv, Quiet
  PROVE  /\ QueueOrdered' /\ LocksHaveKeys' /\ WaitersKnown' /\ ShownKnown'
         /\ QueuedIds' = QueuedIds
<1>1. QueueOrdered' /\ QueuedIds' = QueuedIds
  BY SameShape DEF Quiet
<1>2. LocksHaveKeys'
  BY <1>1 DEF Quiet, PipelineInv, LocksHaveKeys
<1> QED
  BY <1>1, <1>2 DEF Quiet, PipelineInv, WaitersKnown, ShownKnown

(* Requests, frames, presentations and the end of tryProcess are quiet.     *)
LEMMA QuietSteps ==
  ASSUME TypeOK,
         \/ \E kind \in Kinds \cup {"null"} : Attach(kind)
         \/ Frame \/ SetBarrier \/ WaitBarrier \/ SetTimestamp
         \/ OtherDamage \/ FramePresented \/ StopProcessing
         \/ \E torn \in BOOLEAN : Render(torn) \/ ScanoutSameBuffer(torn)
         \/ UNCHANGED vars
  PROVE  Quiet
<1>1. FENCE # FIFO /\ TIMER # FIFO
  BY DEF FENCE, FIFO, TIMER
<1>2. ASSUME UNCHANGED <<queue, shown, commits, fences, failed, timers>> PROVE Quiet
  BY <1>2 DEF Quiet, TypeOK
<1>3. ASSUME UnlockFirst(FIFO), UNCHANGED <<shown, commits, fences, failed, timers>>
      PROVE  Quiet
  BY <1>1, <1>3, UnlockFirstTakes DEF Quiet
<1>4. CASE StopProcessing
  BY <1>1, <1>4, StopVoids DEF Quiet, StopProcessing, currentVars, waitVars
<1>5. CASE FramePresented
  BY <1>2, <1>3, <1>5 DEF FramePresented, waitVars
<1>6. ASSUME NEW torn \in BOOLEAN, Render(torn) PROVE Quiet
  BY <1>2, <1>6 DEF Render, waitVars
<1>7. ASSUME NEW torn \in BOOLEAN, ScanoutSameBuffer(torn) PROVE Quiet
  BY <1>2, <1>3, <1>7 DEF ScanoutSameBuffer, waitVars
<1>8. ASSUME \/ \E kind \in Kinds \cup {"null"} : Attach(kind)
             \/ Frame \/ SetBarrier \/ WaitBarrier \/ SetTimestamp
             \/ OtherDamage \/ UNCHANGED vars
      PROVE  Quiet
  BY <1>2, <1>8 DEF Attach, Frame, SetBarrier, WaitBarrier, SetTimestamp, OtherDamage,
                    currentVars, waitVars, vars
<1> QED
  BY <1>4, <1>5, <1>6, <1>7, <1>8

(* A fence that signals takes the FENCE lock from its own state, if that is *)
(* still queued, and from no other.                                         *)
LEMMA FenceKeeps ==
  ASSUME PipelineInv, NEW id \in Ids, FenceSignals(id)
  PROVE  /\ QueueOrdered' /\ LocksHaveKeys' /\ WaitersKnown' /\ ShownKnown'
         /\ QueuedIds' = QueuedIds
<1>1. /\ id \in fences /\ fences' = fences \ {id} /\ Unlock(id, FENCE)
      /\ UNCHANGED <<shown, commits, failed, timers>>
  BY DEF FenceSignals, currentVars
<1>2. /\ queue' \in Seq(Queued) /\ Len(queue') = Len(queue)
      /\ \A i \in 1..Len(queue) :
           /\ queue'[i].id = queue[i].id
           /\ queue'[i].mask = IF queue[i].id = id THEN queue[i].mask \ {FENCE}
                                                   ELSE queue[i].mask
  BY <1>1, UnlockTakes DEF PipelineInv
<1>3. QueueOrdered' /\ QueuedIds' = QueuedIds
  BY <1>1, <1>2, SameShape
<1>4. id \notin failed
  BY <1>1 DEF PipelineInv, WaitersKnown
<1>5. ASSUME NEW i \in 1..Len(queue)
      PROVE  /\ FENCE \in queue'[i].mask <=> queue'[i].id \in fences' \cup failed'
             /\ TIMER \in queue'[i].mask <=> queue'[i].id \in timers'
  <2>1. /\ FENCE \in queue[i].mask <=> queue[i].id \in fences \cup failed
        /\ TIMER \in queue[i].mask <=> queue[i].id \in timers
    BY DEF PipelineInv, LocksHaveKeys
  <2>2. CASE queue[i].id = id
    BY <1>1, <1>2, <1>4, <2>1, <2>2 DEF FENCE, TIMER
  <2>3. CASE queue[i].id # id
    BY <1>1, <1>2, <2>1, <2>3
  <2> QED
    BY <2>2, <2>3
<1>6. LocksHaveKeys'
  BY <1>1, <1>2, <1>3, <1>5 DEF PipelineInv, LocksHaveKeys
<1> QED
  BY <1>1, <1>3, <1>6 DEF PipelineInv, WaitersKnown, ShownKnown

(* A timer takes the TIMER lock from the state that owns it.                *)
LEMMA TimerKeeps ==
  ASSUME PipelineInv, NEW id \in Ids, TimerFires(id)
  PROVE  /\ QueueOrdered' /\ LocksHaveKeys' /\ WaitersKnown' /\ ShownKnown'
         /\ QueuedIds' = QueuedIds
<1>1. /\ id \in timers /\ timers' = timers \ {id} /\ Unlock(id, TIMER)
      /\ UNCHANGED <<shown, commits, failed, fences>>
  BY DEF TimerFires, currentVars
<1>2. /\ queue' \in Seq(Queued) /\ Len(queue') = Len(queue)
      /\ \A i \in 1..Len(queue) :
           /\ queue'[i].id = queue[i].id
           /\ queue'[i].mask = IF queue[i].id = id THEN queue[i].mask \ {TIMER}
                                                   ELSE queue[i].mask
  BY <1>1, UnlockTakes DEF PipelineInv
<1>3. QueueOrdered' /\ QueuedIds' = QueuedIds
  BY <1>1, <1>2, SameShape
<1>4. ASSUME NEW i \in 1..Len(queue)
      PROVE  /\ FENCE \in queue'[i].mask <=> queue'[i].id \in fences' \cup failed'
             /\ TIMER \in queue'[i].mask <=> queue'[i].id \in timers'
  <2>1. /\ FENCE \in queue[i].mask <=> queue[i].id \in fences \cup failed
        /\ TIMER \in queue[i].mask <=> queue[i].id \in timers
    BY DEF PipelineInv, LocksHaveKeys
  <2>2. CASE queue[i].id = id
    BY <1>1, <1>2, <2>1, <2>2 DEF FENCE, TIMER
  <2>3. CASE queue[i].id # id
    BY <1>1, <1>2, <2>1, <2>3
  <2> QED
    BY <2>2, <2>3
<1>5. LocksHaveKeys'
  BY <1>1, <1>2, <1>3, <1>4 DEF PipelineInv, LocksHaveKeys
<1> QED
  BY <1>1, <1>3, <1>5 DEF PipelineInv, WaitersKnown, ShownKnown

(* A waiter that fails still stands for the lock nobody will open.          *)
LEMMA FailKeeps ==
  ASSUME PipelineInv, NEW id \in Ids, FenceFails(id)
  PROVE  /\ QueueOrdered' /\ LocksHaveKeys' /\ WaitersKnown' /\ ShownKnown'
         /\ QueuedIds' = QueuedIds /\ fences' \cup failed' = fences \cup failed
<1>1. /\ id \in fences /\ fences' = fences \ {id} /\ failed' = failed \cup {id}
      /\ UNCHANGED <<queue, shown, commits, timers>>
  BY DEF FenceFails, currentVars
<1>2. QueueOrdered' /\ QueuedIds' = QueuedIds
  BY <1>1 DEF PipelineInv, QueueOrdered, QueuedIds
<1>3. fences' \cup failed' = fences \cup failed
  BY <1>1
<1>4. LocksHaveKeys'
  BY <1>1, <1>2, <1>3 DEF PipelineInv, LocksHaveKeys
<1> QED
  BY <1>1, <1>2, <1>3, <1>4 DEF PipelineInv, WaitersKnown, ShownKnown

(* A null buffer empties the queue and takes the timers with it.            *)
LEMMA NullKeeps ==
  ASSUME PipelineInv, CommitNull
  PROVE  /\ QueueOrdered' /\ LocksHaveKeys' /\ WaitersKnown' /\ ShownKnown'
         /\ QueuedIds' = {} /\ commits' = commits + 1 /\ shown' = commits + 1
         /\ timers' = {} /\ UNCHANGED <<fences, failed>>
<1>1. /\ queue' = <<>> /\ timers' = {} /\ commits' = commits + 1
      /\ shown' = commits + 1 /\ UNCHANGED <<fences, failed>>
  BY DEF CommitNull, CommitState
<1>2. Len(queue') = 0 /\ QueuedIds' = {}
  BY <1>1, EmptySeq DEF QueuedIds
<1>3. commits \in Nat
  BY DEF PipelineInv, TypeOK
<1> QED
  BY <1>1, <1>2, <1>3 DEF QueueOrdered, LocksHaveKeys, WaitersKnown, ShownKnown, PipelineInv

-----------------------------------------------------------------------------
(* The updates whose conditions are met, as the refinement names them       *)
Ready == (1..commits) \ (fences \cup failed \cup timers)

(* Every step keeps the invariant and is a step of the stream, or none.     *)
LEMMA PipelineStep ==
  PipelineInv /\ [Next]_vars => PipelineInv' /\ [Stream!Next]_Stream!vars
<1> SUFFICES ASSUME PipelineInv, [Next]_vars
             PROVE  PipelineInv' /\ [Stream!Next]_Stream!vars
  OBVIOUS
<1> DEFINE Kept == QueueOrdered' /\ LocksHaveKeys' /\ WaitersKnown' /\ ShownKnown'
<1>1. TypeOK' /\ commits \in Nat
  BY TypeStep DEF PipelineInv, TypeOK
<1>2. ASSUME QueuedIds' = QueuedIds, commits' = commits, shown' = shown,
             fences' \cup failed' \subseteq fences \cup failed,
             timers' \subseteq timers
      PROVE  Stream!Next
  <2>1. Ready \subseteq Ready'
    BY <1>2 DEF Ready
  <2> QED
    BY <1>2, <2>1 DEF Stream!Next, Stream!Meet, Ready
<1>3. ASSUME \/ \E kind \in Kinds \cup {"null"} : Attach(kind)
             \/ Frame \/ SetBarrier \/ WaitBarrier \/ SetTimestamp
             \/ OtherDamage \/ FramePresented \/ StopProcessing
             \/ \E torn \in BOOLEAN : Render(torn) \/ ScanoutSameBuffer(torn)
             \/ UNCHANGED vars
      PROVE  Kept /\ Stream!Next
  <2>1. Quiet
    BY <1>3, QuietSteps, Zenon DEF PipelineInv
  <2> QED
    BY <1>2, <2>1, QuietKeeps DEF Quiet
<1>4. ASSUME NEW id \in Ids, FenceSignals(id) PROVE Kept /\ Stream!Next
  <2>1. UNCHANGED <<commits, shown, failed, timers>> /\ fences' = fences \ {id}
    BY <1>4 DEF FenceSignals, currentVars
  <2> QED
    BY <1>2, <1>4, <2>1, FenceKeeps
<1>5. ASSUME NEW id \in Ids, FenceFails(id) PROVE Kept /\ Stream!Next
  <2>1. UNCHANGED <<commits, shown, timers>>
    BY <1>5 DEF FenceFails, currentVars
  <2> QED
    BY <1>2, <1>5, <2>1, FailKeeps
<1>6. ASSUME NEW id \in Ids, TimerFires(id) PROVE Kept /\ Stream!Next
  <2>1. UNCHANGED <<commits, shown, failed, fences>> /\ timers' = timers \ {id}
    BY <1>6 DEF TimerFires, currentVars
  <2> QED
    BY <1>2, <1>6, <2>1, TimerKeeps
<1>7. ASSUME NEW waits \in BOOLEAN, Commit(waits) PROVE Kept /\ Stream!Next
  <2>1. Kept /\ QueuedIds' = QueuedIds \cup {commits + 1}
    BY <1>7, CommitKeeps
  <2>2. /\ commits' = commits + 1 /\ shown' = shown /\ failed' = failed
        /\ fences' \in {fences, fences \cup {commits + 1}}
        /\ timers' \in {timers, timers \cup {commits + 1}}
    BY <1>7 DEF Commit, Schedule, currentVars
  <2>3. fences \cup failed \cup timers \subseteq 1..commits
    BY DEF PipelineInv, WaitersKnown
  <2>4. 1..commits' = (1..commits) \cup {commits + 1} /\ commits + 1 \notin 1..commits
    BY <1>1, <2>2
  <2>5. Ready' \in {Ready, Ready \cup {commits + 1}}
    BY <2>2, <2>3, <2>4 DEF Ready
  <2> QED
    BY <2>1, <2>2, <2>5 DEF Stream!Next, Stream!Commit, Ready
<1>8. CASE CommitNull
  <2>1. /\ Kept /\ QueuedIds' = {} /\ commits' = commits + 1
        /\ shown' = commits + 1 /\ timers' = {} /\ UNCHANGED <<fences, failed>>
    BY <1>8, NullKeeps
  <2>2. fences \cup failed \cup timers \subseteq 1..commits
    BY DEF PipelineInv, WaitersKnown
  <2>3. 1..commits' = (1..commits) \cup {commits + 1} /\ commits + 1 \notin 1..commits
    BY <1>1, <2>1
  <2>4. Ready \cup {commits + 1} \subseteq Ready'
    BY <2>1, <2>2, <2>3 DEF Ready
  <2>5. Stream!Next
    BY <2>1, <2>4 DEF Stream!Next, Stream!Unmap, Ready
  <2> QED
    BY <1>1, <2>1, <2>5 DEF PipelineInv
<1>9. CASE Applies
  <2>1. /\ Kept /\ shown' \in QueuedIds \ (fences \cup failed \cup timers)
        /\ \A id \in QueuedIds : shown' <= id
        /\ QueuedIds' = QueuedIds \ {shown'}
    BY <1>9, ApplyKeeps
  <2>2. UNCHANGED <<commits, fences, failed, timers>>
    BY <1>9 DEF Applies
  <2>3. QueuedIds \subseteq 1..commits
    <3>1. \A i \in 1..Len(queue) : queue[i] \in Queued
      BY ElementOfSeq DEF PipelineInv, TypeOK
    <3>2. \A i \in 1..Len(queue) : queue[i].id \in Nat \ {0}
      BY <3>1 DEF Queued, Ids
    <3> QED
      BY <1>1, <3>2 DEF PipelineInv, QueueOrdered, QueuedIds
  <2>4. shown' \in QueuedIds \cap Ready
    BY <2>1, <2>3 DEF Ready
  <2>5. Stream!Show
    BY <2>1, <2>2, <2>4 DEF Stream!Show, Ready
  <2> QED
    BY <1>1, <2>1, <2>5 DEF PipelineInv, Stream!Next
<1> QED
  BY <1>1, <1>3, <1>4, <1>5, <1>6, <1>7, <1>8, <1>9, BothApply
     DEF PipelineInv, Next, Client, Events, TryProcess

(* The invariant holds at the start.                                        *)
LEMMA PipelineInit == Init => QueueOrdered /\ LocksHaveKeys /\ WaitersKnown /\ ShownKnown
  BY EmptySeq DEF Init, QueueOrdered, LocksHaveKeys, WaitersKnown, ShownKnown, QueuedIds

(* Content never goes back in time: the queue holds newer commits than the  *)
(* one shown, oldest first, whatever unlocks its states and in what order.  *)
THEOREM ContentInOrder == Spec => []QueueOrdered
<1>1. Init => PipelineInv
  BY PipelineInit, TypeInit DEF PipelineInv
<1>2. PipelineInv => QueueOrdered
  BY DEF PipelineInv
<1> QED
  BY <1>1, <1>2, PipelineStep, PTL DEF Spec

(* Each FENCE or TIMER lock in the queue has exactly one key left to come,  *)
(* or a waiter that failed; no timer outlives its state.                    *)
THEOREM NoLostUnlock == Spec => []LocksHaveKeys
<1>1. Init => PipelineInv
  BY PipelineInit, TypeInit DEF PipelineInv
<1>2. PipelineInv => LocksHaveKeys
  BY DEF PipelineInv
<1> QED
  BY <1>1, <1>2, PipelineStep, PTL DEF Spec

(* The pipeline, with its locks taken in one order and opened in another,   *)
(* implements the stream of updates the client is promised.                 *)
THEOREM PipelineImplementsStream == Spec => StreamSpec
<1>1. Init => PipelineInv
  BY PipelineInit, TypeInit DEF PipelineInv
<1>2. Init => Stream!Init
  <2>1. ASSUME Init PROVE QueuedIds = {} /\ 1..commits = {}
    BY <2>1, EmptySeq DEF Init, QueuedIds
  <2> QED
    BY <2>1 DEF Init, Stream!Init
<1> QED
  BY <1>1, <1>2, PipelineStep, PTL DEF Spec, StreamSpec, Stream!Spec

-----------------------------------------------------------------------------
(* Every step that is not followed by tryProcess leaves the front its lock. *)
LEMMA RemembersStep == TypeOK /\ NothingForgotten /\ [Next]_vars => NothingForgotten'
<1> SUFFICES ASSUME TypeOK, NothingForgotten, [Next]_vars PROVE NothingForgotten'
  OBVIOUS
<1>1. ASSUME UNCHANGED <<queue, barrier, processing>> PROVE NothingForgotten'
  BY <1>1 DEF NothingForgotten
<1>2. ASSUME processing' PROVE NothingForgotten'
  BY <1>2 DEF NothingForgotten
<1>3. ASSUME NEW id, NEW reason, Unlock(id, reason), ~processing, UNCHANGED barrier
      PROVE  NothingForgotten'
  <2>1. CASE id \in QueuedIds
    BY <1>2, <1>3, <2>1 DEF Unlock
  <2>2. CASE id \notin QueuedIds
    <3>1. \A i \in 1..Len(queue) : queue[i].id # id
      BY <2>2 DEF QueuedIds
    <3>2. queue' = [i \in 1..Len(queue) |-> queue[i]]
      BY <1>3, <3>1 DEF Unlock
    <3>3. queue' = queue /\ processing' = FALSE
      BY <1>3, <2>2, <3>2, LenProperties DEF Unlock, TypeOK
    <3> QED
      BY <1>3, <3>3 DEF NothingForgotten
  <2> QED
    BY <2>1, <2>2
<1>4. CASE CommitNull
  BY <1>4 DEF CommitNull, NothingForgotten
<1>5. ASSUME NEW waits \in BOOLEAN, Commit(waits) PROVE NothingForgotten'
  <2>1. CASE ~waits
    BY <1>2, <1>5, <2>1 DEF Commit, Schedule
  <2>2. CASE waits
    <3> DEFINE s == QueuedState(commits + 1, waits)
    <3>1. queue' = Append(queue, s) /\ ~processing /\ barrier' = barrier
      BY <1>5 DEF Commit, Schedule, currentVars
    <3>2. FENCE \in s.mask
      BY <2>2 DEF QueuedState, Reasons
    <3>3. s \in Queued
      <4>1. commits + 1 \in Ids /\ pending.attach # "null"
        BY <1>5, MaxCommitsAssumption DEF Commit, TypeOK, Ids
      <4> QED
        BY <4>1, QueuedStateType
    <3> HIDE DEF s
    <3>4. CASE queue = <<>>
      <4>1. Head(queue') = s
        BY <3>1, <3>4
      <4> QED
        BY <3>2, <4>1 DEF NothingForgotten, FENCE, FIFO
    <3>5. CASE queue # <<>>
      <4>1. Head(queue') = Head(queue)
        BY <3>1, <3>3, <3>5, AppendProperties, EmptySeq, LenProperties DEF TypeOK
      <4> QED
        BY <3>1, <3>5, <4>1 DEF NothingForgotten
    <3> QED
      BY <3>4, <3>5
  <2> QED
    BY <2>1, <2>2
<1>6. ASSUME NEW id \in Ids, FenceSignals(id) \/ TimerFires(id) PROVE NothingForgotten'
  BY <1>3, <1>6 DEF FenceSignals, TimerFires, currentVars
<1>7. ASSUME \/ \E kind \in Kinds \cup {"null"} : Attach(kind)
             \/ Frame \/ SetBarrier \/ WaitBarrier \/ SetTimestamp
             \/ \E id \in Ids : FenceFails(id)
             \/ OtherDamage \/ UNCHANGED vars
             \/ \E torn \in BOOLEAN : Render(torn)
      PROVE  NothingForgotten'
  BY <1>1, <1>7 DEF Attach, Frame, SetBarrier, WaitBarrier, SetTimestamp, FenceFails,
                    OtherDamage, Render, currentVars, vars
<1>8. CASE FramePresented
  BY <1>1, <1>2, <1>8 DEF FramePresented, UnlockFirst
<1>9. ASSUME NEW torn \in BOOLEAN, ScanoutSameBuffer(torn) PROVE NothingForgotten'
  BY <1>1, <1>2, <1>9 DEF ScanoutSameBuffer, UnlockFirst
<1>10. CASE Applies
  BY <1>2, <1>10 DEF Applies
<1>11. CASE StopProcessing
  <2>1. CASE queue = <<>>
    BY <1>11, <2>1 DEF StopProcessing, NothingForgotten
  <2>2. CASE queue # <<>>
    <3>1. /\ FrontMask # {} /\ queue' = [queue EXCEPT ![1].mask = FrontMask]
          /\ barrier' = barrier
      BY <1>11, <2>2 DEF StopProcessing, currentVars
    <3>2. 1 \in 1..Len(queue) /\ queue[1] \in Queued
      BY <2>2, LenProperties, EmptySeq, ElementOfSeq DEF TypeOK
    <3>3. queue'[1].mask = FrontMask /\ Head(queue') = queue'[1]
      <4>1. queue'[1] = [queue[1] EXCEPT !.mask = FrontMask]
        BY <3>1, <3>2 DEF TypeOK
      <4>2. [queue[1] EXCEPT !.mask = FrontMask].mask = FrontMask
        BY <3>2 DEF Queued
      <4>3. queue' # <<>> /\ queue' \in Seq(Queued)
        BY <1>11, <2>2, StopVoids, EmptySeq, LenProperties DEF TypeOK
      <4> QED
        BY <4>1, <4>2, <4>3
    <3>4. \E r \in FrontMask : r = FIFO => barrier
      BY <3>1 DEF FrontMask
    <3> QED
      BY <3>1, <3>3, <3>4 DEF NothingForgotten
  <2> QED
    BY <2>1, <2>2
<1> QED
  BY <1>4, <1>5, <1>6, <1>7, <1>8, <1>9, <1>10, <1>11, BothApply DEF Next, Client, Events, TryProcess

(* Nothing that could be shown is left waiting: tryProcess is never called  *)
(* too seldom.                                                              *)
THEOREM NothingLeftWaiting == Spec => []NothingForgotten
<1>1. Init => NothingForgotten
  BY DEF Init, NothingForgotten
<1> QED
  BY <1>1, TypeInit, TypeStep, RemembersStep, PTL DEF Spec

-----------------------------------------------------------------------------
(* Without fences and timers only FIFO locks states, and then only the      *)
(* front can have waited and be unlocked, while tryProcess is at it and the *)
(* barrier is gone.                                                         *)
OnlyFifo == fences = {} /\ failed = {} /\ timers = {} /\ ~pending.timeout

WaitersLocked ==
  \A i \in 1..Len(queue) :
    queue[i].waited /\ FIFO \notin queue[i].mask => i = 1 /\ processing /\ ~barrier

(* No fence is made for a CPU buffer, and no timer without a timestamp.     *)
LEMMA OnlyFifoStep ==
  ASSUME Kinds \subseteq {"shm"}, "timestamps" \notin Uses, TypeOK, OnlyFifo, [Next]_vars
  PROVE  OnlyFifo'
<1> USE DEF OnlyFifo
<1>1. ASSUME NEW kind, Attach(kind) PROVE OnlyFifo'
  BY <1>1 DEF Attach, waitVars, TypeOK, Pending
<1>2. CASE Frame \/ SetBarrier \/ WaitBarrier
  BY <1>2 DEF Frame, SetBarrier, WaitBarrier, waitVars, TypeOK, Pending
<1>3. CASE CommitNull
  BY <1>3 DEF CommitNull, NoPending
<1>4. ASSUME NEW waits \in BOOLEAN, Commit(waits) PROVE OnlyFifo'
  <2>1. ~waits
    BY <1>4 DEF Commit, TypeOK, Pending, Attachments
  <2>2. ~TimerLocks
    BY DEF TimerLocks
  <2> QED
    BY <1>4, <2>1, <2>2 DEF Commit, Schedule, NoPending
<1>5. CASE TryProcess
  BY <1>5, BothApply DEF TryProcess, Applies, StopProcessing, waitVars
<1>6. CASE Events
  BY <1>6 DEF Events, FenceSignals, FenceFails, TimerFires, OtherDamage, FramePresented,
              Render, ScanoutSameBuffer, waitVars
<1>7. CASE UNCHANGED vars
  BY <1>7 DEF vars
<1> QED
  BY <1>1, <1>2, <1>3, <1>4, <1>5, <1>6, <1>7 DEF Next, Client, SetTimestamp

(* No presentation opens a lock but the front's.                            *)
LEMMA WaitersLockedStep ==
  ASSUME Kinds \subseteq {"shm"}, PipelineInv, NothingForgotten, OnlyFifo, WaitersLocked,
         OnlyFifo', [Next]_vars
  PROVE  WaitersLocked'
<1> DEFINE n == Len(queue)
<1>1. /\ queue \in Seq(Queued) /\ n \in Nat
      /\ \A i \in 1..n : queue[i] \in Queued /\ queue[i].mask \subseteq {FIFO}
  <2>1. queue \in Seq(Queued) /\ n \in Nat /\ \A i \in 1..n : queue[i] \in Queued
    BY LenProperties, ElementOfSeq DEF PipelineInv, TypeOK
  <2>2. \A i \in 1..n : FENCE \notin queue[i].mask /\ TIMER \notin queue[i].mask
    BY DEF PipelineInv, LocksHaveKeys, OnlyFifo
  <2>3. \A i \in 1..n : queue[i].mask \subseteq {FENCE, FIFO, TIMER}
    BY <2>1 DEF Queued, Reasons
  <2> QED
    BY <2>1, <2>2, <2>3
<1>2. queue # <<>> => n >= 1 /\ Head(queue) = queue[1]
  BY <1>1, EmptySeq
<1>3. ~processing /\ queue # <<>> => FIFO \in queue[1].mask
  BY <1>1, <1>2 DEF NothingForgotten
<1>4. ASSUME UNCHANGED <<queue, barrier>>, ~processing \/ UNCHANGED processing
      PROVE  WaitersLocked'
  BY <1>4 DEF WaitersLocked
<1>5. CASE CommitNull
  BY <1>5, EmptySeq DEF CommitNull, WaitersLocked
<1>6. ASSUME NEW waits \in BOOLEAN, Commit(waits) PROVE WaitersLocked'
  <2> DEFINE s == QueuedState(commits + 1, waits)
  <2>1. queue' = Append(queue, s) /\ ~processing
    BY <1>6 DEF Commit, Schedule
  <2>2. s \in Queued
    <3>1. commits + 1 \in Ids /\ pending.attach # "null"
      BY <1>6, MaxCommitsAssumption DEF Commit, PipelineInv, TypeOK, Ids
    <3> QED
      BY <3>1, QueuedStateType DEF PipelineInv
  <2>3. s.waited => FIFO \in s.mask
    BY DEF QueuedState, Reasons, FENCE, FIFO, TIMER
  <2> HIDE DEF s
  <2>4. /\ Len(queue') = n + 1 /\ queue'[n + 1] = s
        /\ \A i \in 1..n : queue'[i] = queue[i]
    BY <1>1, <2>1, <2>2, AppendProperties
  <2> QED
    BY <1>1, <2>1, <2>3, <2>4 DEF WaitersLocked
<1>7. CASE FramePresented
  <2>1. CASE tearing
    BY <1>4, <1>7, <2>1 DEF FramePresented
  <2>2. CASE ~tearing
    <3>1. /\ ~processing /\ ~barrier' /\ processing'
          /\ UnlockFirst(FIFO)
      BY <1>7, <2>2 DEF FramePresented, UnlockFirst
    <3>2. Len(queue') = n
      BY <3>1, UnlockFirstTakes DEF PipelineInv
    <3>3. \A i \in 1..n : i # 1 => queue'[i] = queue[i]
      <4> SUFFICES ASSUME NEW i \in 1..n, i # 1 PROVE queue'[i] = queue[i]
        OBVIOUS
      <4>1. 1 \in 1..(i - 1) /\ FIFO \in queue[1].mask
        BY <1>1, <1>2, <1>3, <3>1, EmptySeq
      <4> QED
        BY <3>1, <4>1 DEF UnlockFirst
    <3> QED
      BY <3>1, <3>2, <3>3 DEF WaitersLocked
  <2> QED
    BY <2>1, <2>2
<1>8. CASE Applies
  <2>1. queue' = Tail(queue) /\ queue # <<>>
    BY <1>8 DEF Applies
  <2>2. Len(queue') = n - 1 /\ \A i \in 1..(n - 1) : queue'[i] = queue[i + 1]
    BY <1>1, <2>1, HeadTailProperties
  <2>3. \A i \in 1..(n - 1) : i + 1 \in 1..n /\ i + 1 # 1
    BY <1>1
  <2> QED
    BY <2>2, <2>3 DEF WaitersLocked
<1>9. CASE StopProcessing
  <2>1. CASE queue = <<>>
    BY <1>9, <2>1, EmptySeq DEF StopProcessing, WaitersLocked
  <2>2. CASE queue # <<>>
    <3> DEFINE s == [queue[1] EXCEPT !.mask = FrontMask]
    <3>1. FrontMask # {} /\ queue' = [queue EXCEPT ![1] = s]
      BY <1>9, <2>2 DEF StopProcessing
    <3>2. FrontMask \subseteq {FIFO}
      BY <1>1, <1>2, <2>2 DEF FrontMask
    <3>3. s \in Queued /\ FIFO \in s.mask
      BY <1>1, <1>2, <2>2, <3>1, <3>2 DEF Queued, Reasons
    <3> HIDE DEF s
    <3>4. Len(queue') = n /\ \A j \in 1..n : queue'[j] = IF j = 1 THEN s ELSE queue[j]
      BY <1>1, <1>2, <2>2, <3>1, <3>3, ExceptSeq
    <3> QED
      BY <3>3, <3>4 DEF WaitersLocked
  <2> QED
    BY <2>1, <2>2
<1>10. ASSUME NEW id, FenceSignals(id) \/ TimerFires(id) \/ FenceFails(id)
       PROVE  WaitersLocked'
  BY <1>10 DEF FenceSignals, TimerFires, FenceFails, OnlyFifo
<1>11. ASSUME \/ \E kind \in Kinds \cup {"null"} : Attach(kind)
              \/ Frame \/ SetBarrier \/ WaitBarrier \/ SetTimestamp
              \/ OtherDamage \/ UNCHANGED vars
              \/ \E torn \in BOOLEAN : Render(torn)
       PROVE  WaitersLocked'
  BY <1>4, <1>11 DEF Attach, Frame, SetBarrier, WaitBarrier, SetTimestamp, OtherDamage,
                     Render, currentVars, vars
<1>12. ASSUME NEW torn \in BOOLEAN, ScanoutSameBuffer(torn) PROVE FALSE
  BY <1>12 DEF ScanoutSameBuffer
<1> QED
  BY <1>5, <1>6, <1>7, <1>8, <1>9, <1>10, <1>11, <1>12, BothApply
     DEF Next, Client, Events, TryProcess

(* For a client of CPU buffers that sets no timestamps, an update committed *)
(* after wait_barrier is shown only when the barrier it follows is gone.    *)
(* With fences or timers a presentation may open the lock of a state that   *)
(* is not the front.                                                        *)
THEOREM UpdatesPaced ==
  ASSUME Kinds \subseteq {"shm"}, "timestamps" \notin Uses
  PROVE  Spec => FifoPaced
<1> DEFINE Inv == PipelineInv /\ NothingForgotten /\ OnlyFifo /\ WaitersLocked
<1>1. Init => Inv
  BY PipelineInit, TypeInit, EmptySeq
     DEF PipelineInv, Init, NothingForgotten, OnlyFifo, WaitersLocked, NoPending
<1>2. Inv /\ [Next]_vars => Inv'
  BY PipelineStep, RemembersStep, OnlyFifoStep, WaitersLockedStep DEF PipelineInv
<1>3. Inv /\ [Next]_vars =>
        [\A i \in 1..Len(queue) :
           queue[i].waited /\ shown' = queue[i].id /\ shown # shown' => ~barrier]_vars
  <2> SUFFICES ASSUME Inv, [Next]_vars, NEW i \in 1..Len(queue), queue[i].waited,
                      shown' = queue[i].id, shown # shown'
               PROVE  ~barrier
    OBVIOUS
  <2>1. /\ Len(queue) \in Nat /\ shown < queue[i].id /\ queue[i].id <= commits
        /\ commits \in Nat /\ \A j \in 1..Len(queue) : queue[j].id \in Nat
        /\ queue # <<>> => Head(queue) = queue[1]
    <3>1. Len(queue) \in Nat /\ \A j \in 1..Len(queue) : queue[j] \in Queued
      BY LenProperties, ElementOfSeq DEF PipelineInv, TypeOK
    <3> QED
      BY <3>1, MaxCommitsAssumption DEF PipelineInv, TypeOK, QueueOrdered, Queued, Ids
  <2>2. ~CommitNull
    BY <2>1 DEF CommitNull, CommitState
  <2>3. Applies
    BY <2>2, BothApply DEF Next, Client, Events, TryProcess, Attach, Frame, SetBarrier, WaitBarrier,
                SetTimestamp, Commit, FenceSignals, FenceFails, TimerFires, OtherDamage,
                Render, FramePresented, ScanoutSameBuffer, StopProcessing, currentVars, vars
  <2>4. queue[i].id = queue[1].id /\ 1 \in 1..Len(queue)
    BY <2>1, <2>3 DEF Applies
  <2>5. i = 1
    BY <2>1, <2>4 DEF PipelineInv, QueueOrdered
  <2>6. FIFO \in queue[1].mask => ~barrier
    BY <2>1, <2>3 DEF Applies, FrontMask
  <2> QED
    BY <2>5, <2>6 DEF WaitersLocked
<1> QED
  BY <1>1, <1>2, <1>3, PTL DEF Spec, FifoPaced
=============================================================================
