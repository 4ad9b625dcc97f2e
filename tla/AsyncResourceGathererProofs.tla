--------------------- MODULE AsyncResourceGathererProofs ---------------------
(***************************************************************************)
(* Proofs about AsyncResourceGatherer, for any number of threads and any    *)
(* interleaving of their steps with the worker's.                           *)
(***************************************************************************)
EXTENDS AsyncResourceGatherer, SequenceTheorems, TLAPS

(* While the worker is busy with a batch, there is a current resource.      *)
Busy == worker \in {"render", "tell", "notify", "finish"}
BatchHeld == Busy => requests # <<>>

(* awaitingEvent is raised for rendered resources only, and seen by threads *)
(* only once raised.                                                        *)
EventSound ==
  /\ event \subseteq rendered
  /\ worker = "tell" => Current \in rendered
  /\ \A r \in Resources : thread[r] \in {"woken", "returned"} => r \in event

(* The current resource is a resource, and what follows it a batch.         *)
LEMMA CurrentType ==
  ASSUME TypeOK, BatchHeld, Busy
  PROVE  Current \in Resources /\ Tail(requests) \in Seq(Resources)
  BY HeadTailProperties DEF TypeOK, BatchHeld, Current

(* A thread's step changes its own place only.                              *)
LEMMA GoMoves ==
  ASSUME TypeOK, NEW r \in Resources, NEW from, NEW to \in ThreadAt, Go(r, from, to)
  PROVE  /\ thread' \in [Resources -> ThreadAt]
         /\ thread[r] = from /\ thread'[r] = to
         /\ \A q \in Resources : q # r => thread'[q] = thread[q]
  BY DEF Go, TypeOK

(* Every variable keeps its type, and a busy worker its batch.              *)
LEMMA TypeStep == TypeOK /\ BatchHeld /\ [Next]_vars => TypeOK' /\ BatchHeld'
<1> SUFFICES ASSUME TypeOK, BatchHeld, [Next]_vars PROVE TypeOK' /\ BatchHeld'
  OBVIOUS
<1> USE DEF BatchHeld, Busy
<1>1. ASSUME NEW r \in Resources, Push(r) PROVE TypeOK' /\ BatchHeld'
  <2>1. targets' \in Seq(Resources)
    BY <1>1, AppendProperties DEF Push, TypeOK
  <2>2. thread' \in [Resources -> ThreadAt]
    BY <1>1, GoMoves DEF Push, ThreadAt
  <2> QED
    BY <1>1, <2>1, <2>2 DEF Push, TypeOK, resourceVars
<1>2. ASSUME NEW r \in Resources, Flag(r) PROVE TypeOK' /\ BatchHeld'
  <2>1. thread' \in [Resources -> ThreadAt]
    BY <1>2, GoMoves DEF Flag, ThreadAt
  <2> QED
    BY <1>2, <2>1 DEF Flag, TypeOK, resourceVars
<1>3. ASSUME NEW r \in Resources, Notify(r) PROVE TypeOK' /\ BatchHeld'
  <2>1. thread' \in [Resources -> ThreadAt]
    BY <1>3, GoMoves DEF Notify, ThreadAt
  <2> QED
    BY <1>3, <2>1 DEF Notify, NotifyWorker, TypeOK, WorkerAt, resourceVars
<1>4. ASSUME NEW r \in Resources, AwaitBegins(r) PROVE TypeOK' /\ BatchHeld'
  <2>1. thread' \in [Resources -> ThreadAt]
    BY <1>4, GoMoves DEF AwaitBegins, ThreadAt
  <2> QED
    BY <1>4, <2>1 DEF AwaitBegins, TypeOK
<1>5. ASSUME NEW r \in Resources, AwaitTests(r) PROVE TypeOK' /\ BatchHeld'
  <2>1. thread' \in [Resources -> ThreadAt]
    BY <1>5, GoMoves DEF AwaitTests, ThreadAt
  <2> QED
    BY <1>5, <2>1 DEF AwaitTests, TypeOK, resourceVars
<1>6. ASSUME NEW r \in Resources, AwaitBlocks(r) \/ AwaitWakesSpuriously(r)
      PROVE  TypeOK' /\ BatchHeld'
  <2>1. thread' \in [Resources -> ThreadAt]
    BY <1>6, GoMoves DEF AwaitBlocks, AwaitWakesSpuriously, ThreadAt
  <2> QED
    BY <1>6, <2>1 DEF AwaitBlocks, AwaitWakesSpuriously, TypeOK, resourceVars
<1>7. ASSUME NEW r \in Resources, AwaitReturns(r) PROVE TypeOK' /\ BatchHeld'
  <2>1. thread' \in [Resources -> ThreadAt]
    BY <1>7, GoMoves DEF AwaitReturns, ThreadAt
  <2> QED
    BY <1>7, <2>1 DEF AwaitReturns, TypeOK
<1>8. CASE Exit \/ ExitFlag \/ ExitNotify
  BY <1>8 DEF Exit, ExitFlag, ExitNotify, Own, NotifyWorker, TypeOK, OwnerAt, WorkerAt,
              resourceVars
<1>9. CASE Loop \/ Check \/ Block \/ Awake \/ Timeout \/ WakesSpuriously
  BY <1>9 DEF Loop, Check, Block, Awake, Timeout, WakesSpuriously, Work, TypeOK, WorkerAt,
              resourceVars
<1>10. CASE Take
  BY <1>10, EmptySeq DEF Take, Work, TypeOK, WorkerAt, resourceVars
<1>11. CASE Render
  BY <1>11, CurrentType DEF Render, Work, TypeOK, WorkerAt
<1>12. CASE Tell
  BY <1>12, CurrentType DEF Tell, Work, TypeOK, WorkerAt
<1>13. CASE NotifyAwaiting
  BY <1>13, CurrentType DEF NotifyAwaiting, Work, TypeOK, WorkerAt, ThreadAt, resourceVars
<1>14. CASE Finish
  <2>1. Current \in Resources /\ requests' \in Seq(Resources)
    BY <1>14, CurrentType DEF Finish, Work
  <2>2. Len(requests) # 1 => requests' # <<>>
    <3>1. requests # <<>> /\ requests \in Seq(Resources) /\ requests' = Tail(requests)
      BY <1>14 DEF Finish, Work, TypeOK
    <3>2. Len(requests) \in Nat /\ Len(Tail(requests)) = Len(requests) - 1
      BY <3>1, HeadTailProperties, LenProperties
    <3>3. Len(requests) # 0
      BY <3>1, EmptySeq
    <3>4. requests' \in Seq(Resources)
      BY <3>1, HeadTailProperties
    <3>5. requests' = <<>> => Len(requests') = 0
      BY <3>4, EmptySeq
    <3> QED
      BY <3>1, <3>2, <3>3, <3>5
  <2> QED
    BY <1>14, <2>1, <2>2 DEF Finish, Work, TypeOK, WorkerAt
<1>15. CASE UNCHANGED vars
  BY <1>15 DEF TypeOK, vars
<1> QED
  BY <1>1, <1>2, <1>3, <1>4, <1>5, <1>6, <1>7, <1>8, <1>9, <1>10, <1>11, <1>12, <1>13,
     <1>14, <1>15 DEF Next, Thread, Worker

LEMMA TypeInit == Init => TypeOK /\ BatchHeld
  BY EmptySeq DEF Init, TypeOK, BatchHeld, Busy, ThreadAt, OwnerAt, WorkerAt

(* Every variable of the gatherer keeps its type.                           *)
THEOREM TypeCorrect == Spec => []TypeOK
  BY TypeInit, TypeStep, PTL DEF Spec

-----------------------------------------------------------------------------
(* Each step keeps the flag for what waits to be taken: only Awake lowers   *)
(* it, and takes next; only Push adds, and flags next.                      *)
LEMMA FlagStep == TypeOK /\ FlagNotLost /\ [Next]_vars => FlagNotLost'
<1> SUFFICES ASSUME TypeOK, FlagNotLost, [Next]_vars PROVE FlagNotLost'
  OBVIOUS
<1> USE DEF FlagNotLost
<1>1. ASSUME NEW r \in Resources, Push(r) PROVE FlagNotLost'
  BY <1>1, GoMoves DEF Push, ThreadAt
<1>2. ASSUME NEW r \in Resources, Flag(r) PROVE FlagNotLost'
  BY <1>2 DEF Flag
<1>3. ASSUME NEW r \in Resources,
             Notify(r) \/ AwaitBegins(r) \/ AwaitTests(r) \/ AwaitBlocks(r)
               \/ AwaitWakesSpuriously(r) \/ AwaitReturns(r)
      PROVE  FlagNotLost'
  <2>1. /\ targets' = targets /\ needsToProcess' = needsToProcess
        /\ worker \in {"take", "done"} => worker' = worker
    BY <1>3 DEF Notify, AwaitBegins, AwaitTests, AwaitBlocks, AwaitWakesSpuriously,
                AwaitReturns, NotifyWorker
  <2>2. \A q \in Resources : thread[q] = "pushed" => thread'[q] = "pushed"
    BY <1>3, GoMoves DEF Notify, AwaitBegins, AwaitTests, AwaitBlocks,
                         AwaitWakesSpuriously, AwaitReturns, ThreadAt
  <2> QED
    BY <2>1, <2>2
<1>4. CASE Exit \/ ExitFlag \/ ExitNotify
  BY <1>4 DEF Exit, ExitFlag, ExitNotify, Own, NotifyWorker
<1>5. CASE Loop \/ Check \/ Block \/ Awake \/ Take \/ Render \/ Tell \/ Finish
           \/ Timeout \/ WakesSpuriously
  BY <1>5 DEF Loop, Check, Block, Awake, Take, Render, Tell, Finish, Timeout,
              WakesSpuriously, Work
<1>6. CASE NotifyAwaiting
  <2>1. \A q \in Resources : thread[q] = "pushed" => thread'[q] = "pushed"
    BY <1>6 DEF NotifyAwaiting, TypeOK
  <2> QED
    BY <1>6, <2>1 DEF NotifyAwaiting, Work
<1>7. CASE UNCHANGED vars
  BY <1>7 DEF vars
<1> QED
  BY <1>1, <1>2, <1>3, <1>4, <1>5, <1>6, <1>7 DEF Next, Thread, Worker

(* No request waits behind a lowered flag: whatever the threads and the     *)
(* worker do, a target is taken, flagged, or about to be flagged.           *)
THEOREM NoLostRequest == Spec => []FlagNotLost
<1>1. Init => FlagNotLost
  BY DEF Init, FlagNotLost
<1> QED
  BY <1>1, TypeInit, TypeStep, FlagStep, PTL DEF Spec

(* Each step keeps awaitingEvent behind render().                           *)
LEMMA EventStep ==
  TypeOK /\ BatchHeld /\ EventSound /\ [Next]_vars => EventSound'
<1> SUFFICES ASSUME TypeOK, BatchHeld, EventSound, [Next]_vars PROVE EventSound'
  OBVIOUS
<1> USE DEF EventSound
<1>1. ASSUME NEW r \in Resources,
             Push(r) \/ Flag(r) \/ Notify(r) \/ AwaitBegins(r) \/ AwaitTests(r)
               \/ AwaitBlocks(r) \/ AwaitWakesSpuriously(r) \/ AwaitReturns(r)
      PROVE  EventSound'
  <2>1. /\ event' = event /\ rendered' = rendered /\ requests' = requests
        /\ worker' = "tell" => worker = "tell"
    BY <1>1 DEF Push, Flag, Notify, AwaitBegins, AwaitTests, AwaitBlocks,
                AwaitWakesSpuriously, AwaitReturns, NotifyWorker, resourceVars
  <2>2. \A q \in Resources :
          thread'[q] \in {"woken", "returned"} =>
            q \in event \/ thread[q] \in {"woken", "returned"}
    BY <1>1, GoMoves DEF Push, Flag, Notify, AwaitBegins, AwaitTests, AwaitBlocks,
                         AwaitWakesSpuriously, AwaitReturns, ThreadAt
  <2> QED
    BY <2>1, <2>2 DEF Current
<1>2. CASE Exit \/ ExitFlag \/ ExitNotify
  BY <1>2 DEF Exit, ExitFlag, ExitNotify, Own, NotifyWorker, resourceVars, Current
<1>3. CASE Loop \/ Check \/ Block \/ Awake \/ Take \/ Timeout \/ WakesSpuriously
  BY <1>3 DEF Loop, Check, Block, Awake, Take, Timeout, WakesSpuriously, Work,
              resourceVars
<1>4. CASE Render
  BY <1>4 DEF Render, Work, Current
<1>5. CASE Tell
  BY <1>5 DEF Tell, Work
<1>6. CASE NotifyAwaiting
  <2>1. \A q \in Resources :
          thread'[q] \in {"woken", "returned"} => thread'[q] = thread[q]
    BY <1>6 DEF NotifyAwaiting, TypeOK
  <2> QED
    BY <1>6, <2>1 DEF NotifyAwaiting, Work, resourceVars
<1>7. CASE Finish
  BY <1>7 DEF Finish, Work
<1>8. CASE UNCHANGED vars
  BY <1>8 DEF vars, Current
<1> QED
  BY <1>1, <1>2, <1>3, <1>4, <1>5, <1>6, <1>7, <1>8 DEF Next, Thread, Worker

(* await never returns early: its resource has been rendered.               *)
THEOREM AwaitNeverEarly == Spec => []AwaitSound
<1>1. Init => EventSound
  BY DEF Init, EventSound
<1>2. EventSound => AwaitSound
  BY DEF EventSound, AwaitSound
<1> QED
  BY <1>1, <1>2, TypeInit, TypeStep, EventStep, PTL DEF Spec
-----------------------------------------------------------------------------
(* A thread that has handed over its resource does not do so again; between *)
(* batches the worker holds none; and what is to be carried out is there    *)
(* once and has not been.                                                   *)
Left == requests \o targets

Resting == worker \notin {"render", "tell", "notify", "finish", "crashed"}

OnceEach ==
  /\ Resting => requests = <<>>
  /\ \A r \in ready : thread[r] # "idle"
  /\ \A i \in 1..Len(Left) : Left[i] \notin ready /\ thread[Left[i]] # "idle"
  /\ \A i, j \in 1..Len(Left) : Left[i] = Left[j] => i = j

(* What is left is a sequence of resources.                                 *)
LEMMA LeftType == ASSUME TypeOK PROVE Left \in Seq(Resources) /\ Len(Left) \in Nat
  BY ConcatProperties, LenProperties DEF Left, TypeOK

(* Adding at the end of what follows is adding at the end.                  *)
LEMMA ConcatAppend ==
  ASSUME NEW S, NEW s \in Seq(S), NEW t \in Seq(S), NEW e \in S
  PROVE  s \o Append(t, e) = Append(s \o t, e)
  OBVIOUS

(* The first of two sequences, if there is one, has the head of both.       *)
LEMMA ConcatHead ==
  ASSUME NEW S, NEW s \in Seq(S), NEW t \in Seq(S), s # <<>>
  PROVE  /\ s \o t # <<>> /\ Head(s \o t) = Head(s)
         /\ Tail(s \o t) = Tail(s) \o t
<1>1. s \o t \in Seq(S) /\ Len(s) \in Nat /\ Len(t) \in Nat /\ Len(s) # 0
  BY ConcatProperties, LenProperties, EmptySeq
<1>2. s \o t # <<>>
  BY ConcatEqualIffEmpty
<1>3. Head(s \o t) = Head(s)
  BY <1>1, <1>2, ConcatProperties
<1>4. Tail(s) \in Seq(S) /\ Len(Tail(s)) = Len(s) - 1
  BY HeadTailProperties
<1>5. Tail(s \o t) \in Seq(S) /\ Len(Tail(s \o t)) = Len(s) + Len(t) - 1
  BY <1>1, <1>2, HeadTailProperties, ConcatProperties
<1>6. Tail(s) \o t \in Seq(S) /\ Len(Tail(s) \o t) = Len(s) + Len(t) - 1
  BY <1>1, <1>4, ConcatProperties
<1>7. ASSUME NEW i \in 1..Len(s) + Len(t) - 1
      PROVE  Tail(s \o t)[i] = (Tail(s) \o t)[i]
  <2>1. Tail(s \o t)[i] = (s \o t)[i + 1]
    BY <1>1, <1>2, <1>5, HeadTailProperties
  <2>2. i + 1 \in 1..Len(s) + Len(t)
    BY <1>1
  <2>3. (s \o t)[i + 1] = IF i + 1 <= Len(s) THEN s[i + 1] ELSE t[i + 1 - Len(s)]
    BY <2>2, ConcatProperties
  <2>4. (Tail(s) \o t)[i] = IF i <= Len(s) - 1 THEN Tail(s)[i] ELSE t[i - (Len(s) - 1)]
    BY <1>1, <1>4, ConcatProperties
  <2>5. i <= Len(s) - 1 => Tail(s)[i] = s[i + 1]
    BY <1>1, <1>4, HeadTailProperties
  <2> QED
    BY <1>1, <2>1, <2>3, <2>4, <2>5
<1> QED
  BY <1>2, <1>3, <1>5, <1>6, <1>7, SeqEqual

(* Steps that neither add nor take, and make no thread idle.                *)
LEMMA OnceKept ==
  ASSUME OnceEach, Left' = Left, ready' = ready, Resting' => requests' = <<>>,
         \A r \in Resources : thread[r] # "idle" => thread'[r] # "idle", TypeOK
  PROVE  OnceEach'
<1>1. \A i \in 1..Len(Left) : Left[i] \in Resources
  BY LeftType, ElementOfSeq
<1>2. ready \subseteq Resources
  BY DEF TypeOK
<1> QED
  BY <1>1, <1>2 DEF OnceEach

(* What each step makes of what is left, and of what is ready.              *)
LEMMA OnceStep ==
  ASSUME TypeOK, BatchHeld, OnceEach, [Next]_vars
  PROVE  OnceEach' /\ [Queue!Next]_(Queue!vars)
<1> USE DEF Queue!vars, Queue!Next
<1>1. ASSUME NEW r \in Resources, Push(r) PROVE OnceEach' /\ [Queue!Next]_(Queue!vars)
  <2>1. /\ targets' = Append(targets, r) /\ UNCHANGED <<worker, requests, ready>>
        /\ thread[r] = "idle" /\ thread'[r] = "pushed"
        /\ \A q \in Resources : q # r => thread'[q] = thread[q]
    BY <1>1, GoMoves DEF Push, resourceVars, ThreadAt
  <2>2. Left' = Append(Left, r)
    BY <2>1, ConcatAppend DEF Left, TypeOK
  <2>3. Queue!Make(r)
    BY <2>1, <2>2 DEF Queue!Make, Left
  <2>4. /\ Len(Left') = Len(Left) + 1 /\ Left'[Len(Left) + 1] = r
        /\ \A i \in 1..Len(Left) : Left'[i] = Left[i]
    BY <2>2, LeftType, AppendProperties
  <2>5. \A i \in 1..Len(Left) : Left[i] \in Resources /\ Left[i] # r
    BY <2>1, LeftType, ElementOfSeq DEF OnceEach
  <2>6. \A i \in 1..Len(Left') : Left'[i] \notin ready /\ thread'[Left'[i]] # "idle"
    <3> SUFFICES ASSUME NEW i \in 1..Len(Left')
                 PROVE  Left'[i] \notin ready /\ thread'[Left'[i]] # "idle"
      OBVIOUS
    <3>1. CASE i \in 1..Len(Left)
      BY <2>1, <2>4, <2>5, <3>1 DEF OnceEach
    <3>2. CASE i = Len(Left) + 1
      BY <2>1, <2>4, <3>2 DEF OnceEach
    <3> QED
      BY <2>4, <3>1, <3>2, LeftType
  <2>7. \A i, j \in 1..Len(Left') : Left'[i] = Left'[j] => i = j
    <3> SUFFICES ASSUME NEW i \in 1..Len(Left'), NEW j \in 1..Len(Left'), Left'[i] = Left'[j]
                 PROVE  i = j
      OBVIOUS
    <3>1. /\ i \in 1..Len(Left) \/ i = Len(Left) + 1
          /\ j \in 1..Len(Left) \/ j = Len(Left) + 1
      BY <2>4, LeftType
    <3>2. CASE i \in 1..Len(Left) /\ j \in 1..Len(Left)
      BY <2>4, <3>2 DEF OnceEach
    <3>3. CASE i = Len(Left) + 1 \/ j = Len(Left) + 1
      BY <2>4, <2>5, <3>1, <3>3
    <3> QED
      BY <3>1, <3>2, <3>3
  <2>8. /\ Resting' => requests' = <<>>
        /\ \A q \in ready' : thread'[q] # "idle"
    BY <2>1 DEF OnceEach, Resting, TypeOK
  <2> QED
    BY <2>1, <2>3, <2>6, <2>7, <2>8 DEF OnceEach
<1>2. ASSUME NEW r \in Resources,
             Flag(r) \/ Notify(r) \/ AwaitBegins(r) \/ AwaitTests(r) \/ AwaitBlocks(r)
               \/ AwaitWakesSpuriously(r) \/ AwaitReturns(r)
      PROVE  OnceEach' /\ UNCHANGED Queue!vars
  <2>1. /\ UNCHANGED <<requests, targets, ready>>
        /\ worker' = worker \/ (worker = "blocked" /\ worker' = "predicate")
    BY <1>2 DEF Flag, Notify, AwaitBegins, AwaitTests, AwaitBlocks, AwaitWakesSpuriously,
                AwaitReturns, NotifyWorker, resourceVars
  <2>2. \A q \in Resources : thread[q] # "idle" => thread'[q] # "idle"
    BY <1>2, GoMoves DEF Flag, Notify, AwaitBegins, AwaitTests, AwaitBlocks,
                         AwaitWakesSpuriously, AwaitReturns, ThreadAt
  <2>3. Left' = Left /\ (Resting' => requests' = <<>>)
    BY <2>1 DEF Left, OnceEach, Resting
  <2> QED
    BY <2>1, <2>2, <2>3, OnceKept DEF Left
<1>3. CASE Exit \/ ExitFlag \/ ExitNotify
  <2>1. /\ UNCHANGED <<requests, targets, ready, thread>>
        /\ worker' = worker \/ (worker = "blocked" /\ worker' = "predicate")
    BY <1>3 DEF Exit, ExitFlag, ExitNotify, NotifyWorker, resourceVars
  <2>2. Left' = Left /\ (Resting' => requests' = <<>>)
    BY <2>1 DEF Left, OnceEach, Resting
  <2> QED
    BY <2>1, <2>2, OnceKept DEF Left
<1>4. CASE Loop \/ Check \/ Block \/ Awake \/ Timeout \/ WakesSpuriously
  <2>1. UNCHANGED <<requests, targets, ready, thread>> /\ Resting
    BY <1>4 DEF Loop, Check, Block, Awake, Timeout, WakesSpuriously, Work, Resting,
                resourceVars
  <2>2. Left' = Left /\ requests' = <<>>
    BY <2>1 DEF Left, OnceEach
  <2> QED
    BY <2>1, <2>2, OnceKept DEF Left
<1>5. CASE Take
  <2>1. /\ requests = <<>> /\ requests' = targets /\ targets' = <<>>
        /\ UNCHANGED <<ready, thread>>
        /\ Resting' => requests' = <<>>
    BY <1>5 DEF Take, Work, OnceEach, Resting, resourceVars
  <2>2. Left' = targets /\ Left = targets
    BY <2>1, ConcatEmptySeq DEF Left, TypeOK
  <2>3. Left' = Left /\ ready' = ready
    BY <2>1, <2>2
  <2>4. OnceEach'
    BY <2>1, <2>3, OnceKept
  <2> QED
    BY <2>3, <2>4 DEF Left
<1>6. CASE Render \/ Tell
  <2>1. UNCHANGED <<requests, targets, ready, thread>> /\ ~Resting'
    BY <1>6 DEF Render, Tell, Work, Resting
  <2>2. Left' = Left
    BY <2>1 DEF Left
  <2> QED
    BY <2>1, <2>2, OnceKept DEF Left
<1>7. CASE NotifyAwaiting
  <2>1. UNCHANGED <<requests, targets, ready>> /\ ~Resting'
    BY <1>7 DEF NotifyAwaiting, Work, Resting, resourceVars
  <2>2. Left' = Left
    BY <2>1 DEF Left
  <2>3. \A q \in Resources : thread[q] # "idle" => thread'[q] # "idle"
    BY <1>7 DEF NotifyAwaiting, TypeOK
  <2> QED
    BY <2>1, <2>2, <2>3, OnceKept DEF Left
<1>8. CASE Finish
  <2>1. /\ requests # <<>> /\ requests' = Tail(requests)
        /\ ready' = ready \cup {Head(requests)}
        /\ UNCHANGED <<targets, thread>>
    BY <1>8 DEF Finish, Work, BatchHeld, Busy, Current
  <2>2. /\ Left # <<>> /\ Head(Left) = Head(requests) /\ Left' = Tail(Left)
    BY <2>1, ConcatHead DEF Left, TypeOK
  <2>3. /\ Len(Left) \in Nat /\ Len(Left') = Len(Left) - 1
        /\ Len(Left) # 0 /\ Head(Left) = Left[1]
        /\ \A i \in 1..Len(Left') : Left'[i] = Left[i + 1]
    BY <2>2, LeftType, HeadTailProperties, EmptySeq
  <2>4. Head(Left) \notin ready /\ thread[Head(Left)] # "idle"
    BY <2>3 DEF OnceEach
  <2>5. Queue!Carry
    BY <2>1, <2>2, <2>4 DEF Queue!Carry, Left
  <2>6. \A i \in 1..Len(Left') :
          /\ i + 1 \in 1..Len(Left) /\ Left'[i] = Left[i + 1] /\ Left[i + 1] # Left[1]
    BY <2>3 DEF OnceEach
  <2>7. \A i \in 1..Len(Left') : Left'[i] \notin ready' /\ thread'[Left'[i]] # "idle"
    BY <2>1, <2>2, <2>3, <2>6 DEF OnceEach
  <2>8. \A i, j \in 1..Len(Left') : Left'[i] = Left'[j] => i = j
    BY <2>3, <2>6 DEF OnceEach
  <2>9. Resting' => requests' = <<>>
    <3>1. Resting' => Len(requests) = 1
      BY <1>8 DEF Finish, Work, Resting
    <3>2. Len(Tail(requests)) = Len(requests) - 1 /\ Tail(requests) \in Seq(Resources)
      BY <2>1, HeadTailProperties DEF TypeOK
    <3> QED
      BY <2>1, <3>1, <3>2, EmptySeq
  <2>10. \A q \in ready' : thread'[q] # "idle"
    BY <2>1, <2>2, <2>4 DEF OnceEach
  <2> QED
    BY <2>5, <2>7, <2>8, <2>9, <2>10 DEF OnceEach
<1>9. CASE UNCHANGED vars
  <2>1. UNCHANGED <<requests, targets, ready, thread, worker>>
    BY <1>9 DEF vars, resourceVars
  <2> QED
    BY <2>1 DEF OnceEach, Left, Resting
<1> QED
  BY <1>1, <1>2, <1>3, <1>4, <1>5, <1>6, <1>7, <1>8, <1>9 DEF Next, Thread, Worker

(* The threads, the flag and the two queues are one queue of requests, each *)
(* carried out once and in the order they were made.                        *)
THEOREM GathererIsAQueue == Spec => QueueSpec
<1>1. Init => OnceEach /\ Queue!Init
  BY ConcatEmptySeq, EmptySeq DEF Init, OnceEach, Left, Queue!Init
<1>2. TypeOK /\ BatchHeld /\ OnceEach /\ [Next]_vars => OnceEach' /\ [Queue!Next]_(Queue!vars)
  BY OnceStep
<1> QED
  BY <1>1, <1>2, TypeInit, TypeStep, PTL DEF Spec, QueueSpec, Queue!Spec
=============================================================================
