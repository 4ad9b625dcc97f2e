------------------------- MODULE BufferReleaseProofs -------------------------
(***************************************************************************)
(* Proofs about BufferRelease, for any buffers of any kinds, any number of  *)
(* GPU jobs, any queue and any client.  Type correctness comes first.  That *)
(* no buffer is released early rests on three facts, inductive together: a  *)
(* leased buffer is owed to the client, a job that reads a buffer holds it  *)
(* or is awaited by one of its release points, and the backend's buffers    *)
(* are locked.  That none is kept is inductive on its own.                  *)
(***************************************************************************)
EXTENDS BufferRelease, SequenceTheorems, TLAPS

(* The releases of a step keep the client's side in its types.              *)
LEMMA UnlockType ==
  ASSUME TypeOK, NEW given \in [Buffers -> SUBSET SUBSET Frames],
         Unlock(owed, given)
  PROVE  /\ owed' \subseteq Buffers
         /\ releasers' \in [Buffers -> SUBSET SUBSET Frames]
         /\ points' \in [Buffers -> SUBSET SUBSET Frames]
  BY DEF TypeOK, Unlock

(* Every variable keeps its type.                                           *)
LEMMA TypeStep == TypeOK /\ [Next]_vars => TypeOK'
<1> SUFFICES ASSUME TypeOK, [Next]_vars PROVE TypeOK'
  OBVIOUS
<1>1. releasers \in [Buffers -> SUBSET SUBSET Frames]
  BY DEF TypeOK
<1>2. ASSUME NEW b \in Buffers \cup {Null}, Attach(b) PROVE TypeOK'
  BY <1>2 DEF TypeOK, Attach, gpuVars, outputVars, clientVars
<1>3. CASE Commit
  <2>1. queue' \in Seq(Buffers)
    BY <1>3, AppendProperties DEF TypeOK, Commit
  <2>2. releasers' \in [Buffers -> SUBSET SUBSET Frames]
    <3>1. releasers[pending] \cup {{}} \in SUBSET SUBSET Frames
      BY <1>1, <1>3 DEF Commit
    <3> QED
      BY <1>1, <1>3, <3>1 DEF Commit
  <2>3. owed' \subseteq Buffers
    BY <1>3 DEF TypeOK, Commit
  <2> QED
    BY <1>3, <2>1, <2>2, <2>3 DEF TypeOK, Commit, gpuVars, outputVars
<1>4. CASE CommitNull \/ Unmap \/ Destroy
  <2>1. Unlock(owed, releasers)
    BY <1>4 DEF CommitNull, Unmap, Destroy
  <2> QED
    BY <1>1, <1>4, <2>1, UnlockType, EmptySeq
    DEF TypeOK, CommitNull, Unmap, Destroy, gpuVars, outputVars
<1>5. CASE ApplyFront
  <2>1. Head(queue) \in Buffers /\ queue' \in Seq(Buffers)
    BY <1>5, HeadTailProperties DEF TypeOK, ApplyFront
  <2>2. Unlock(owed, releasers)
    BY <1>5 DEF ApplyFront
  <2> QED
    BY <1>1, <1>5, <2>1, <2>2, UnlockType DEF TypeOK, ApplyFront, gpuVars, outputVars
<1>6. CASE Snapshot
  BY <1>6 DEF TypeOK, Snapshot, surfaceVars, outputVars, clientVars
<1>7. CASE Scanout
  BY <1>7 DEF TypeOK, Scanout, surfaceVars, gpuVars, clientVars
<1>8. CASE PageFlip
  <2>1. Unlock(owed, releasers)
    BY <1>8 DEF PageFlip
  <2>2. front' \in Buffers \cup {None} /\ back' = NoFlip /\ backend' \subseteq Buffers
    BY <1>8 DEF TypeOK, PageFlip
  <2> QED
    BY <1>1, <1>8, <2>1, <2>2, UnlockType DEF TypeOK, PageFlip, surfaceVars, gpuVars
<1>9. ASSUME NEW f \in Frames, NEW onOutput \in BOOLEAN, Render(f, onOutput)
      PROVE  TypeOK'
  <2> DEFINE given == [b \in Buffers |-> IF b \in Batch THEN {r \cup {f} : r \in releasers[b]}
                                                        ELSE releasers[b]]
  <2>1. given \in [Buffers -> SUBSET SUBSET Frames]
    BY <1>1
  <2>2. Unlock(owed, given)
    BY <1>9 DEF Render
  <2> HIDE DEF given
  <2>3. /\ owed' \subseteq Buffers
        /\ releasers' \in [Buffers -> SUBSET SUBSET Frames]
        /\ points' \in [Buffers -> SUBSET SUBSET Frames]
    BY <2>1, <2>2, UnlockType
  <2>4. back' \in Buffers \cup {None, NoFlip}
    BY <1>9 DEF TypeOK, Render, Target
  <2>5. Batch \subseteq Buffers
    BY DEF TypeOK, Batch
  <2> QED
    BY <1>9, <2>3, <2>4, <2>5 DEF TypeOK, Render, surfaceVars
<1>10. ASSUME NEW f \in Frames, Finish(f) PROVE TypeOK'
  <2>1. /\ releasers' \in [Buffers -> SUBSET SUBSET Frames]
        /\ points' \in [Buffers -> SUBSET SUBSET Frames]
    BY <1>10 DEF TypeOK, Finish
  <2> QED
    BY <1>10, <2>1 DEF TypeOK, Finish, surfaceVars, outputVars
<1>11. ASSUME NEW f \in Frames, FenceReadable(f) PROVE TypeOK'
  <2>1. Unlock(owed, releasers)
    BY <1>11 DEF FenceReadable
  <2> QED
    BY <1>1, <1>11, <2>1, UnlockType DEF TypeOK, FenceReadable, surfaceVars, outputVars
<1>12. CASE UNCHANGED vars
  BY <1>12 DEF TypeOK, vars
<1> QED
  BY <1>2, <1>3, <1>4, <1>5, <1>6, <1>7, <1>8, <1>9, <1>10, <1>11, <1>12
  DEF Next, Client

(* The initial state is well typed.                                         *)
LEMMA TypeInit == Init => TypeOK
  BY EmptySeq DEF Init, TypeOK

(* The buffers, references, fences and points keep their types.             *)
THEOREM TypeCorrect == Spec => []TypeOK
  BY TypeInit, TypeStep, PTL DEF Spec

-----------------------------------------------------------------------------
(* Somebody but the pending state has a reference to b                      *)
Leased(b) ==
  \/ b \in {current} \cup Queued \cup used \cup backend
  \/ \E f \in Frames : b \in holds[f]

LeasedIsOwed == \A b \in Buffers : Leased(b) => b \in owed \/ releasers[b] # {}

(* A job that reads b has a reference, or a release point waits for it      *)
Awaited(f, b) == \E r \in releasers[b] \cup points[b] : f \in r

ReadsCovered ==
  \A f \in Frames : \A b \in reads[f] : b \in holds[f] \/ Awaited(f, b)

(* jobs that are done read nothing; what the output shows or is about to    *)
(* show is locked for the backend, and it is never about to show it again   *)
DoneReadNothing == \A f \in Frames \ drawing : reads[f] = {}

OutputLocked ==
  /\ {front, back} \cap Buffers \subseteq backend
  /\ back \in Buffers => back # front

ReleaseInv ==
  TypeOK /\ LeasedIsOwed /\ ReadsCovered /\ DoneReadNothing /\ OutputLocked

(* A step that leases no other buffer, and takes no releaser from one but   *)
(* by releasing it, leaves every leased buffer owed.                        *)
LEMMA UnlockKeepsOwed ==
  ASSUME LeasedIsOwed, NEW given, Unlock(owed, given),
         \A b \in Buffers : releasers[b] # {} => given[b] # {},
         \A b \in Buffers : Leased(b)' => Leased(b)
  PROVE  LeasedIsOwed'
<1> SUFFICES ASSUME NEW b \in Buffers, Leased(b)'
             PROVE  b \in owed' \/ releasers'[b] # {}
  BY DEF LeasedIsOwed
<1>1. Locked(b)'
  BY DEF Leased, Locked
<1>2. b \in owed \/ releasers[b] # {}
  BY DEF LeasedIsOwed
<1>3. (b \in owed => b \in owed') /\ releasers'[b] = given[b]
  BY <1>1 DEF Unlock
<1> QED
  BY <1>2, <1>3

(* Releasing a buffer keeps the jobs its release points wait for.           *)
LEMMA UnlockKeepsAwaited ==
  ASSUME NEW given, Unlock(owed, given), NEW f, NEW b \in Buffers,
         \E r \in given[b] \cup points[b] : f \in r
  PROVE  Awaited(f, b)'
<1>1. PICK r \in given[b] \cup points[b] : f \in r
  OBVIOUS
<1>2. r # {}
  BY <1>1
<1>3. r \in releasers'[b] \cup points'[b]
  BY <1>1, <1>2 DEF Unlock
<1> QED
  BY <1>1, <1>3 DEF Awaited

(* Steps that only let references go                                        *)
Letting == CommitNull \/ Unmap \/ Destroy \/ ApplyFront \/ PageFlip

(* Letting references go keeps the invariant: what is still leased stays    *)
(* owed, and jobs keep what covers their reads.                             *)
LEMMA LettingKeeps ==
  ASSUME ReleaseInv, Letting
  PROVE  LeasedIsOwed' /\ ReadsCovered' /\ DoneReadNothing' /\ OutputLocked'
<1>1. Unlock(owed, releasers) /\ UNCHANGED gpuVars
  BY DEF Letting, CommitNull, Unmap, Destroy, ApplyFront, PageFlip
<1>2. UNCHANGED holds /\ UNCHANGED reads /\ UNCHANGED drawing /\ UNCHANGED used
  BY <1>1 DEF gpuVars
<1>3. backend' \subseteq backend
  BY DEF Letting, CommitNull, Unmap, Destroy, ApplyFront, PageFlip, outputVars
<1>4. ASSUME NEW b \in Buffers, b \in {current'} \cup Queued'
      PROVE  b \in {current} \cup Queued
  <2>1. CASE CommitNull \/ Unmap \/ Destroy
    BY <1>4, <2>1, EmptySeq, NamesAssumption DEF CommitNull, Unmap, Destroy, Queued
  <2>2. CASE ApplyFront
    <3>1. /\ Head(queue) \in Queued
          /\ \A i \in 1..Len(queue') : queue'[i] \in Queued
      BY <2>2, HeadTailProperties DEF ReleaseInv, TypeOK, ApplyFront, Queued
    <3>2. current' \in {None, Head(queue)}
      BY <2>2 DEF ApplyFront
    <3> QED
      BY <1>4, <3>1, <3>2, NamesAssumption DEF Queued
  <2>3. CASE PageFlip
    BY <1>4, <2>3 DEF PageFlip, surfaceVars, Queued
  <2> QED
    BY <2>1, <2>2, <2>3 DEF Letting
<1>5. \A b \in Buffers : Leased(b)' => Leased(b)
  BY <1>2, <1>3, <1>4 DEF Leased
<1>6. LeasedIsOwed'
  BY <1>1, <1>5, UnlockKeepsOwed DEF ReleaseInv
<1>7. ReadsCovered'
  <2> SUFFICES ASSUME NEW f \in Frames, NEW b \in reads[f], b \notin holds[f]
               PROVE  Awaited(f, b)'
    BY <1>2 DEF ReadsCovered
  <2>1. b \in Buffers /\ Awaited(f, b)
    BY DEF ReleaseInv, TypeOK, ReadsCovered
  <2> QED
    BY <1>1, <2>1, UnlockKeepsAwaited DEF Awaited
<1>8. DoneReadNothing'
  BY <1>2 DEF ReleaseInv, DoneReadNothing
<1>9. OutputLocked'
  <2>1. CASE PageFlip
    BY <2>1, NamesAssumption DEF ReleaseInv, OutputLocked, PageFlip, TypeOK
  <2>2. CASE CommitNull \/ Unmap \/ Destroy \/ ApplyFront
    BY <2>2 DEF ReleaseInv, OutputLocked, CommitNull, Unmap, Destroy, ApplyFront, outputVars
  <2> QED
    BY <2>1, <2>2 DEF Letting
<1> QED
  BY <1>6, <1>7, <1>8, <1>9

(* Every step keeps the invariant.                                          *)
LEMMA ReleaseStep == ReleaseInv /\ [Next]_vars => ReleaseInv'
<1> SUFFICES ASSUME ReleaseInv, [Next]_vars PROVE ReleaseInv'
  OBVIOUS
<1> DEFINE Kept == LeasedIsOwed' /\ ReadsCovered' /\ DoneReadNothing' /\ OutputLocked'
<1>1. TypeOK' /\ TypeOK
  BY TypeStep DEF ReleaseInv
<1>2. ASSUME NEW b \in Buffers \cup {Null}, Attach(b) PROVE Kept
  BY <1>2 DEF ReleaseInv, Attach, gpuVars, outputVars, clientVars, LeasedIsOwed, Leased,
              Queued, ReadsCovered, Awaited, DoneReadNothing, OutputLocked
<1>3. CASE Commit
  <2>1. /\ queue' = Append(queue, pending) /\ pending \in Buffers
        /\ UNCHANGED <<current, gpuVars, outputVars, points>>
    BY <1>3 DEF Commit
  <2>2. Queued' \subseteq Queued \cup {pending}
    BY <1>1, <2>1, AppendProperties DEF TypeOK, Queued
  <2>3. /\ owed \subseteq owed'
        /\ \A b \in Buffers : releasers[b] \subseteq releasers'[b]
        /\ pending \in owed' \/ releasers'[pending] # {}
    <3>1. CASE pending \in Explicit
      <4>1. owed' = owed /\ releasers' = [releasers EXCEPT ![pending] = @ \cup {{}}]
        BY <1>3, <3>1 DEF Commit
      <4>2. releasers'[pending] = releasers[pending] \cup {{}}
        BY <1>1, <2>1, <4>1 DEF TypeOK
      <4>3. \A b \in Buffers : releasers[b] \subseteq releasers'[b]
        BY <1>1, <4>1, <4>2 DEF TypeOK
      <4> QED
        BY <4>1, <4>2, <4>3
    <3>2. CASE pending \notin Explicit
      BY <1>3, <3>2 DEF Commit
    <3> QED
      BY <3>1, <3>2
  <2>4. \A b \in Buffers : Leased(b)' => Leased(b) \/ b = pending
    BY <2>1, <2>2 DEF Leased, gpuVars, outputVars
  <2>5. LeasedIsOwed'
    BY <2>3, <2>4 DEF ReleaseInv, LeasedIsOwed
  <2>6. ReadsCovered'
    <3>1. \A f \in Frames : \A b \in reads[f] : b \in Buffers /\ (Awaited(f, b) => Awaited(f, b)')
      BY <1>1, <2>1, <2>3 DEF TypeOK, Awaited
    <3> QED
      BY <2>1, <3>1 DEF ReleaseInv, ReadsCovered, gpuVars
  <2> QED
    BY <1>1, <2>1, <2>5, <2>6
    DEF ReleaseInv, DoneReadNothing, OutputLocked, gpuVars, outputVars
<1>4. CASE Letting
  BY <1>1, <1>4, LettingKeeps DEF ReleaseInv
<1>5. CASE Snapshot
  <2>1. /\ used' = used \cup {current}
        /\ UNCHANGED <<surfaceVars, drawing, waiting, reads, holds, outputVars, clientVars>>
    BY <1>5 DEF Snapshot
  <2>2. \A b \in Buffers : Leased(b)' => Leased(b)
    BY <2>1 DEF Leased, surfaceVars, outputVars, Queued
  <2>3. LeasedIsOwed'
    BY <2>1, <2>2 DEF ReleaseInv, LeasedIsOwed, clientVars
  <2> QED
    BY <1>1, <2>1, <2>3 DEF ReleaseInv, ReadsCovered, Awaited, DoneReadNothing,
                            OutputLocked, clientVars, outputVars
<1>6. CASE Scanout
  <2>1. /\ backend' = backend \cup {current} /\ back' = current
        /\ current \in Buffers \ {front}
        /\ UNCHANGED <<surfaceVars, gpuVars, front, clientVars>>
    BY <1>6 DEF Scanout
  <2>2. \A b \in Buffers : Leased(b)' => Leased(b)
    BY <2>1 DEF Leased, surfaceVars, gpuVars, Queued
  <2>3. LeasedIsOwed'
    BY <2>1, <2>2 DEF ReleaseInv, LeasedIsOwed, clientVars
  <2>4. OutputLocked'
    BY <2>1 DEF ReleaseInv, OutputLocked
  <2> QED
    BY <1>1, <2>1, <2>3, <2>4 DEF ReleaseInv, ReadsCovered, Awaited, DoneReadNothing,
                                  clientVars, gpuVars
<1>7. ASSUME NEW f \in Frames, NEW onOutput \in BOOLEAN, Render(f, onOutput)
      PROVE  Kept
  <2> DEFINE given == [b \in Buffers |-> IF b \in Batch THEN {r \cup {f} : r \in releasers[b]}
                                                        ELSE releasers[b]]
  <2>1. /\ f \notin drawing /\ drawing' = drawing \cup {f}
        /\ reads' = [reads EXCEPT ![f] = Batch]
        /\ holds' = [holds EXCEPT ![f] = {b \in Batch : releasers[b] = {}}]
        /\ used' = {} /\ UNCHANGED <<surfaceVars, front, backend>>
        /\ Unlock(owed, given) /\ back' \in {back, None}
    BY <1>7 DEF Render, Target
  <2>2. Batch \subseteq Buffers
    BY <1>1 DEF TypeOK, Batch
  <2>3. \A b \in Buffers : Leased(b)' => Leased(b)
    BY <1>1, <2>1 DEF Leased, surfaceVars, Queued, Batch, TypeOK
  <2>4. LeasedIsOwed'
    <3>1. \A b \in Buffers : releasers[b] # {} => given[b] # {}
      OBVIOUS
    <3> HIDE DEF given
    <3> QED
      BY <2>1, <2>3, <3>1, UnlockKeepsOwed DEF ReleaseInv
  <2>5. ASSUME NEW g \in Frames, NEW b \in reads'[g], b \notin holds'[g]
        PROVE  Awaited(g, b)'
    <3>1. b \in Buffers
      BY <1>1, <2>5 DEF TypeOK
    <3>2. \E r \in given[b] \cup points[b] : g \in r
      <4>1. CASE g = f
        <5>1. b \in Batch /\ releasers[b] # {}
          BY <1>1, <2>1, <2>5, <4>1 DEF TypeOK
        <5>2. PICK r \in releasers[b] : TRUE
          BY <5>1
        <5>3. r \cup {f} \in given[b]
          BY <3>1, <5>1, <5>2
        <5> QED
          BY <4>1, <5>3
      <4>2. CASE g # f
        <5>1. b \in reads[g] /\ b \notin holds[g]
          BY <1>1, <2>1, <2>5, <4>2 DEF TypeOK
        <5>2. PICK r \in releasers[b] \cup points[b] : g \in r
          BY <5>1 DEF ReleaseInv, ReadsCovered, Awaited
        <5>3. CASE r \in points[b]
          BY <5>2, <5>3
        <5>4. CASE r \in releasers[b] /\ b \in Batch
          <6>1. given[b] = {q \cup {f} : q \in releasers[b]}
            BY <3>1, <5>4
          <6>2. r \cup {f} \in given[b]
            BY <5>4, <6>1
          <6> QED
            BY <5>2, <6>2
        <5>5. CASE r \in releasers[b] /\ b \notin Batch
          BY <3>1, <5>2, <5>5
        <5> QED
          BY <5>2, <5>3, <5>4, <5>5
      <4> QED
        BY <4>1, <4>2
    <3> HIDE DEF given
    <3> QED
      BY <2>1, <3>1, <3>2, UnlockKeepsAwaited
  <2>6. ReadsCovered'
    BY <2>5 DEF ReadsCovered
  <2>7. DoneReadNothing'
    BY <1>1, <2>1 DEF ReleaseInv, DoneReadNothing, TypeOK
  <2>8. OutputLocked'
    BY <2>1, NamesAssumption DEF ReleaseInv, OutputLocked
  <2> QED
    BY <2>4, <2>6, <2>7, <2>8
<1>8. ASSUME NEW f \in Frames, Finish(f) PROVE Kept
  <2>1. /\ drawing' = drawing \ {f} /\ reads' = [reads EXCEPT ![f] = {}]
        /\ releasers' = [b \in Buffers |-> {r \ {f} : r \in releasers[b]}]
        /\ points' = [b \in Buffers |-> {r \ {f} : r \in points[b]} \ {{}}]
        /\ UNCHANGED <<surfaceVars, used, waiting, holds, outputVars, owed>>
    BY <1>8 DEF Finish
  <2>2. \A b \in Buffers : Leased(b)' => Leased(b)
    BY <2>1 DEF Leased, surfaceVars, outputVars, Queued
  <2>3. \A b \in Buffers : releasers[b] # {} => releasers'[b] # {}
    BY <2>1
  <2>4. LeasedIsOwed'
    BY <2>1, <2>2, <2>3 DEF ReleaseInv, LeasedIsOwed
  <2>5. ASSUME NEW g \in Frames, NEW b \in reads'[g], b \notin holds'[g]
        PROVE  Awaited(g, b)'
    <3>1. g # f /\ b \in reads[g] /\ b \notin holds[g] /\ b \in Buffers
      BY <1>1, <2>1, <2>5 DEF TypeOK
    <3>2. PICK r \in releasers[b] \cup points[b] : g \in r
      BY <3>1 DEF ReleaseInv, ReadsCovered, Awaited
    <3>3. g \in r \ {f} /\ r \ {f} \in releasers'[b] \cup points'[b]
      BY <2>1, <3>1, <3>2
    <3> QED
      BY <3>3 DEF Awaited
  <2>6. ReadsCovered'
    BY <2>5 DEF ReadsCovered
  <2>7. DoneReadNothing'
    BY <1>1, <2>1 DEF ReleaseInv, DoneReadNothing, TypeOK
  <2> QED
    BY <2>1, <2>4, <2>6, <2>7 DEF ReleaseInv, OutputLocked, outputVars
<1>9. ASSUME NEW f \in Frames, FenceReadable(f) PROVE Kept
  <2>1. /\ f \notin drawing /\ holds' = [holds EXCEPT ![f] = {}]
        /\ UNCHANGED <<surfaceVars, used, drawing, reads, outputVars>>
        /\ Unlock(owed, releasers)
    BY <1>9 DEF FenceReadable
  <2>2. \A b \in Buffers : Leased(b)' => Leased(b)
    BY <1>1, <2>1 DEF Leased, surfaceVars, outputVars, Queued, TypeOK
  <2>3. LeasedIsOwed'
    BY <2>1, <2>2, UnlockKeepsOwed DEF ReleaseInv
  <2>4. ASSUME NEW g \in Frames, NEW b \in reads'[g], b \notin holds'[g]
        PROVE  Awaited(g, b)'
    <3>1. b \in reads[g] /\ b \in Buffers /\ g # f
      BY <1>1, <2>1, <2>4 DEF ReleaseInv, DoneReadNothing, TypeOK
    <3>2. Awaited(g, b)
      BY <1>1, <2>1, <2>4, <3>1 DEF ReleaseInv, ReadsCovered, TypeOK
    <3> QED
      BY <2>1, <3>1, <3>2, UnlockKeepsAwaited DEF Awaited
  <2>5. ReadsCovered'
    BY <2>4 DEF ReadsCovered
  <2> QED
    BY <2>1, <2>3, <2>5 DEF ReleaseInv, DoneReadNothing, OutputLocked, outputVars
<1>10. CASE UNCHANGED vars
  BY <1>1, <1>10 DEF vars, ReleaseInv, LeasedIsOwed, Leased, Queued, ReadsCovered, Awaited,
               DoneReadNothing, OutputLocked
<1> QED
  BY <1>1, <1>2, <1>3, <1>4, <1>5, <1>6, <1>7, <1>8, <1>9, <1>10
  DEF ReleaseInv, Next, Client, Letting

(* Nothing is leased at the start.                                          *)
LEMMA ReleaseInit == Init => ReleaseInv
<1> SUFFICES ASSUME Init PROVE ReleaseInv
  OBVIOUS
<1>1. Queued = {}
  BY EmptySeq DEF Init, Queued
<1>2. \A b \in Buffers : ~Leased(b)
  BY <1>1, NamesAssumption DEF Init, Leased
<1> QED
  BY <1>2, TypeInit, NamesAssumption
  DEF Init, ReleaseInv, LeasedIsOwed, ReadsCovered, DoneReadNothing, OutputLocked

(* A client that has got back what it is owed for a buffer may write to it: *)
(* neither a state, nor a job of the GPU, nor the output uses it.           *)
THEOREM NeverReleasedEarly == Spec => []NoEarlyRelease
<1>1. ReleaseInv => NoEarlyRelease
  <2> SUFFICES ASSUME ReleaseInv, NEW b \in Buffers, Idle(b), InUse(b)
               PROVE  FALSE
    BY DEF NoEarlyRelease
  <2>1. ~Leased(b)
    BY DEF ReleaseInv, LeasedIsOwed, Idle
  <2>2. CASE b \in Queued \cup used \cup {current}
    BY <2>1, <2>2 DEF Leased
  <2>3. CASE b \in {front, back}
    BY <2>1, <2>3 DEF ReleaseInv, OutputLocked, Leased
  <2>4. CASE \E f \in Frames : b \in reads[f]
    BY <2>1, <2>4 DEF ReleaseInv, ReadsCovered, Awaited, Idle, Leased
  <2> QED
    BY <2>2, <2>3, <2>4 DEF InUse
<1> QED
  BY <1>1, ReleaseInit, ReleaseStep, PTL DEF Spec

-----------------------------------------------------------------------------
(* The releases of a step leave no unlocked buffer with the compositor.     *)
LEMMA UnlockReleases ==
  ASSUME ReleasedWhenUnlocked, NEW given, Unlock(owed, given),
         \A b \in Buffers : releasers[b] = {} => given[b] = {}
  PROVE  ReleasedWhenUnlocked'
<1> SUFFICES ASSUME NEW b \in Buffers, ~Locked(b)'
             PROVE  b \notin owed' /\ releasers'[b] = {}
  BY DEF ReleasedWhenUnlocked
<1>1. CASE Locked(b)
  BY <1>1 DEF Unlock
<1>2. CASE ~Locked(b)
  BY <1>2 DEF Unlock, ReleasedWhenUnlocked
<1> QED
  BY <1>1, <1>2

(* Every step of a careful client, and every step of the compositor, leaves *)
(* unlocked buffers released.                                               *)
LEMMA UnlockedStep ==
  ASSUME ~Careless, TypeOK, ReleasedWhenUnlocked, [Next]_vars
  PROVE  ReleasedWhenUnlocked'
<1>1. ASSUME NEW b \in Buffers \cup {Null}, Attach(b) PROVE ReleasedWhenUnlocked'
  <2>1. /\ pending \in Buffers => Idle(pending)
        /\ UNCHANGED <<queue, current, gpuVars, outputVars, clientVars>>
    BY <1>1 DEF Attach
  <2>2. \A c \in Buffers : Locked(c) => Locked(c)' \/ c = pending
    BY <2>1 DEF Locked, Queued, gpuVars, outputVars
  <2> QED
    BY <2>1, <2>2 DEF ReleasedWhenUnlocked, Idle, clientVars
<1>2. CASE Commit
  <2>1. /\ queue' = Append(queue, pending) /\ pending \in Buffers
        /\ UNCHANGED <<current, gpuVars, outputVars, points>>
    BY <1>2 DEF Commit
  <2>2. Queued' = Queued \cup {pending}
    BY <2>1, AppendProperties DEF TypeOK, Queued
  <2>3. \A b \in Buffers : Locked(b) \/ b = pending => Locked(b)'
    BY <2>1, <2>2 DEF Locked, gpuVars, outputVars
  <2>4. \A b \in Buffers \ {pending} : /\ b \in owed' => b \in owed
                                       /\ releasers'[b] = releasers[b]
    BY <1>2 DEF Commit, TypeOK
  <2> QED
    BY <2>3, <2>4 DEF ReleasedWhenUnlocked
<1>3. CASE CommitNull \/ Unmap \/ Destroy \/ ApplyFront \/ PageFlip
           \/ \E f \in Frames : FenceReadable(f)
  <2>1. Unlock(owed, releasers)
    BY <1>3 DEF CommitNull, Unmap, Destroy, ApplyFront, PageFlip, FenceReadable
  <2> QED
    BY <2>1, UnlockReleases
<1>4. ASSUME NEW f \in Frames, NEW onOutput \in BOOLEAN, Render(f, onOutput)
      PROVE  ReleasedWhenUnlocked'
  <2> DEFINE given == [b \in Buffers |-> IF b \in Batch THEN {r \cup {f} : r \in releasers[b]}
                                                        ELSE releasers[b]]
  <2>1. \A b \in Buffers : releasers[b] = {} => given[b] = {}
    OBVIOUS
  <2>2. Unlock(owed, given)
    BY <1>4 DEF Render
  <2> HIDE DEF given
  <2> QED
    BY <2>1, <2>2, UnlockReleases
<1>5. ASSUME NEW f \in Frames, Finish(f) PROVE ReleasedWhenUnlocked'
  <2>1. \A b \in Buffers : Locked(b)' <=> Locked(b)
    BY <1>5 DEF Finish, Locked, surfaceVars, outputVars, Queued
  <2>2. owed' = owed /\ \A b \in Buffers : releasers[b] = {} => releasers'[b] = {}
    BY <1>5 DEF Finish
  <2> QED
    BY <2>1, <2>2 DEF ReleasedWhenUnlocked
<1>6. CASE Snapshot \/ Scanout
  <2>1. UNCHANGED clientVars /\ \A b \in Buffers : Locked(b) => Locked(b)'
    BY <1>6 DEF Snapshot, Scanout, Locked, surfaceVars, gpuVars, outputVars, Queued
  <2> QED
    BY <2>1 DEF ReleasedWhenUnlocked, clientVars
<1>7. CASE UNCHANGED vars
  BY <1>7 DEF vars, ReleasedWhenUnlocked, Locked, Queued
<1> QED
  BY <1>1, <1>2, <1>3, <1>4, <1>5, <1>6, <1>7 DEF Next, Client

(* A client that commits what it attached, or got it back before, is never  *)
(* kept from a buffer the compositor has no lock on.                        *)
THEOREM NothingKept == ASSUME ~Careless PROVE Spec => []ReleasedWhenUnlocked
<1>1. Init => TypeOK /\ ReleasedWhenUnlocked
  BY TypeInit DEF Init, ReleasedWhenUnlocked
<1>2. TypeOK /\ ReleasedWhenUnlocked /\ [Next]_vars => (TypeOK /\ ReleasedWhenUnlocked)'
  BY TypeStep, UnlockedStep
<1> QED
  BY <1>1, <1>2, PTL DEF Spec
=============================================================================
