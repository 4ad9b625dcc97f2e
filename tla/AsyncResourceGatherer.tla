------------------------ MODULE AsyncResourceGatherer ------------------------
(***************************************************************************)
(* hyprgraphics' CAsyncResourceGatherer: threads hand resources to a worker *)
(* thread, which renders them; a thread may await its resource.             *)
(*                                                                          *)
(* Each thread enqueues one resource and is named by it.  A step is what    *)
(* happens between two accesses to memory another thread writes.  exit and  *)
(* needsToProcess are plain bools written without a lock: they are taken    *)
(* to be read and written in memory once per statement, as every statement  *)
(* that touches them is followed by an opaque call.  requestMutex and each  *)
(* awaitingMtx are only ever taken by the thread that waits on the          *)
(* condition variable, so they exclude nobody and are left out.             *)
(***************************************************************************)
EXTENDS Naturals, Sequences

CONSTANTS Resources,  \* the resources, and the threads that hand them over
          Awaited     \* those whose thread calls await

ASSUME AwaitedAssumption == Awaited \subseteq Resources

VARIABLES
  thread,          \* where each resource's thread is
  targets,         \* m_targetsToLoad
  needsToProcess,  \* m_asyncLoopState.needsToProcess
  exit,            \* m_asyncLoopState.exit
  owner,           \* where the thread that destroys the gatherer is
  worker,          \* where the worker thread is
  requests,        \* its local copy of the targets, what is left of it
  cv,              \* resources whose awaitingCv exists
  event,           \* resources whose awaitingEvent is set
  rendered,        \* resources whose render() has returned
  ready            \* resources that are m_ready

resourceVars == <<cv, event, rendered, ready>>
vars == <<thread, targets, needsToProcess, exit, owner, worker, requests, cv,
          event, rendered, ready>>

ThreadAt == {"idle", "pushed", "flagged", "free",
             "predicate", "blocking", "blocked", "woken", "returned"}
WorkerAt == {"loop", "check", "predicate", "blocking", "blocked", "awake", "take",
             "render", "tell", "notify", "finish", "done", "crashed"}
OwnerAt  == {"alive", "exiting", "flagged", "joining"}

Init ==
  /\ thread = [r \in Resources |-> "idle"]
  /\ targets = <<>> /\ requests = <<>>
  /\ needsToProcess = FALSE /\ exit = FALSE
  /\ owner = "alive" /\ worker = "loop"
  /\ cv = {} /\ event = {} /\ rendered = {} /\ ready = {}

-----------------------------------------------------------------------------
(* A thread that hands over its resource                                    *)

(* a crash of the worker ends the process                                   *)
Go(r, from, to) ==
  worker # "crashed" /\ thread[r] = from /\ thread' = [thread EXCEPT ![r] = to]

(* enqueue, under m_targetsToLoadMutex                                      *)
Push(r) ==
  /\ owner = "alive" /\ Go(r, "idle", "pushed")
  /\ targets' = Append(targets, r)
  /\ UNCHANGED <<needsToProcess, exit, owner, worker, requests, resourceVars>>

(* requestsCV.notify_all: who is blocked wakes; who is only about to block  *)
(* misses it                                                                *)
NotifyWorker == worker' = IF worker = "blocked" THEN "predicate" ELSE worker

(* wakeUpMainThread sets the flag, then notifies                            *)
Flag(r) ==
  /\ Go(r, "pushed", "flagged")
  /\ needsToProcess' = TRUE
  /\ UNCHANGED <<targets, exit, owner, worker, requests, resourceVars>>

Notify(r) ==
  /\ Go(r, "flagged", "free")
  /\ NotifyWorker
  /\ UNCHANGED <<targets, needsToProcess, exit, owner, requests, resourceVars>>

(* await makes the condition variable, and tests awaitingEvent              *)
AwaitBegins(r) ==
  /\ r \in Awaited /\ owner = "alive" /\ Go(r, "free", "predicate")
  /\ cv' = cv \cup {r}
  /\ UNCHANGED <<targets, needsToProcess, exit, owner, worker, requests, event,
                 rendered, ready>>

AwaitTests(r) ==
  /\ Go(r, "predicate", IF r \in event THEN "woken" ELSE "blocking")
  /\ UNCHANGED <<targets, needsToProcess, exit, owner, worker, requests, resourceVars>>

AwaitBlocks(r) ==
  /\ Go(r, "blocking", "blocked")
  /\ UNCHANGED <<targets, needsToProcess, exit, owner, worker, requests, resourceVars>>

(* -- variant: await returns without another look at awaitingEvent          *)
AwaitWakesSpuriously_Returns(r) ==
  /\ Go(r, "blocked", "woken")
  /\ UNCHANGED <<targets, needsToProcess, exit, owner, worker, requests, resourceVars>>

AwaitWakesSpuriously(r) ==
  /\ Go(r, "blocked", "predicate")
  /\ UNCHANGED <<targets, needsToProcess, exit, owner, worker, requests, resourceVars>>

AwaitReturns(r) ==
  /\ Go(r, "woken", "returned")
  /\ cv' = cv \ {r}
  /\ UNCHANGED <<targets, needsToProcess, exit, owner, worker, requests, event,
                 rendered, ready>>

-----------------------------------------------------------------------------
(* The destructor, called when no thread is inside a call                   *)

Own(from, to) == worker # "crashed" /\ owner = from /\ owner' = to

Exit ==
  /\ Own("alive", "exiting")
  /\ \A r \in Resources : thread[r] \in {"idle", "free", "returned"}
  /\ exit' = TRUE
  /\ UNCHANGED <<thread, targets, needsToProcess, worker, requests, resourceVars>>

ExitFlag ==
  /\ Own("exiting", "flagged")
  /\ needsToProcess' = TRUE
  /\ UNCHANGED <<thread, targets, exit, worker, requests, resourceVars>>

ExitNotify ==
  /\ Own("flagged", "joining")
  /\ NotifyWorker
  /\ UNCHANGED <<thread, targets, needsToProcess, exit, requests, resourceVars>>

-----------------------------------------------------------------------------
(* The worker, asyncAssetSpinLock                                           *)

Work(from, to) == worker = from /\ worker' = to

Loop ==
  /\ Work("loop", IF exit THEN "done" ELSE "check")
  /\ UNCHANGED <<thread, targets, needsToProcess, exit, owner, requests, resourceVars>>

(* the test before wait_for, and wait_for's own                             *)
Check ==
  /\ \/ Work("check", IF needsToProcess THEN "awake" ELSE "predicate")
     \/ Work("predicate", IF needsToProcess THEN "awake" ELSE "blocking")
  /\ UNCHANGED <<thread, targets, needsToProcess, exit, owner, requests, resourceVars>>

Block ==
  /\ Work("blocking", "blocked")
  /\ UNCHANGED <<thread, targets, needsToProcess, exit, owner, requests, resourceVars>>

(* wait_for returns after 5 s whatever the flag says; and may wake early    *)
(* -- variant: waits without a timeout                                      *)
Timeout_Never == FALSE /\ UNCHANGED vars

Timeout ==
  /\ Work("blocked", "awake")
  /\ UNCHANGED <<thread, targets, needsToProcess, exit, owner, requests, resourceVars>>

WakesSpuriously ==
  /\ Work("blocked", "predicate")
  /\ UNCHANGED <<thread, targets, needsToProcess, exit, owner, requests, resourceVars>>

Awake ==
  /\ Work("awake", IF exit THEN "done" ELSE "take")
  /\ needsToProcess' = IF exit THEN needsToProcess ELSE FALSE
  /\ UNCHANGED <<thread, targets, exit, owner, requests, resourceVars>>

(* takes the targets, under m_targetsToLoadMutex                            *)
Take ==
  /\ Work("take", IF targets = <<>> THEN "loop" ELSE "render")
  /\ requests' = targets /\ targets' = <<>>
  /\ UNCHANGED <<thread, needsToProcess, exit, owner, resourceVars>>

(* -- variant: the batch is not walked from its front                       *)
Current_Last == requests[Len(requests)]

Current == Head(requests)

Render ==
  /\ Work("render", "tell")
  /\ rendered' = rendered \cup {Current}
  /\ UNCHANGED <<thread, targets, needsToProcess, exit, owner, requests, cv, event, ready>>

(* tells a thread that is already awaiting the resource                     *)
Tell ==
  /\ Work("tell", IF Current \in cv THEN "notify" ELSE "finish")
  /\ event' = IF Current \in cv THEN event \cup {Current} ELSE event
  /\ UNCHANGED <<thread, targets, needsToProcess, exit, owner, requests, cv, rendered,
                 ready>>

(* awaitingCv->notify_all, through a pointer that await may have reset      *)
NotifyAwaiting ==
  /\ Work("notify", IF Current \in cv THEN "finish" ELSE "crashed")
  /\ thread' = IF thread[Current] = "blocked"
               THEN [thread EXCEPT ![Current] = "predicate"] ELSE thread
  /\ UNCHANGED <<targets, needsToProcess, exit, owner, requests, resourceVars>>

(* m_ready, and the finished signal                                         *)
(* -- variant: lowers the flag when the batch is done                       *)
Finish_LowersFlag ==
  /\ Work("finish", IF Len(requests) = 1 THEN "loop" ELSE "render")
  /\ ready' = ready \cup {Current}
  /\ requests' = Tail(requests)
  /\ needsToProcess' = (needsToProcess /\ Len(requests) > 1)
  /\ UNCHANGED <<thread, targets, exit, owner, cv, event, rendered>>

Finish ==
  /\ Work("finish", IF Len(requests) = 1 THEN "loop" ELSE "render")
  /\ ready' = ready \cup {Current}
  /\ requests' = Tail(requests)
  /\ UNCHANGED <<thread, targets, needsToProcess, exit, owner, cv, event, rendered>>

Worker ==
  \/ Loop \/ Check \/ Block \/ Awake \/ Take \/ Render \/ Tell
  \/ NotifyAwaiting \/ Finish

(* the steps of a call that has begun                                       *)
Thread(r) ==
  \/ Flag(r) \/ Notify(r) \/ AwaitTests(r) \/ AwaitBlocks(r) \/ AwaitReturns(r)

Next ==
  \/ \E r \in Resources : \/ Push(r) \/ AwaitBegins(r) \/ Thread(r)
                          \/ AwaitWakesSpuriously(r)
  \/ Exit \/ ExitFlag \/ ExitNotify
  \/ Worker \/ Timeout \/ WakesSpuriously

Spec == Init /\ [][Next]_vars

(* Threads run, and wait_for returns when its time is over.                 *)
Fairness ==
  /\ WF_vars(Worker) /\ WF_vars(Timeout)
  /\ WF_vars(ExitFlag \/ ExitNotify)
  /\ \A r \in Resources : WF_vars(Thread(r))

FairSpec == Spec /\ Fairness

-----------------------------------------------------------------------------
TypeOK ==
  /\ thread \in [Resources -> ThreadAt]
  /\ targets \in Seq(Resources) /\ requests \in Seq(Resources)
  /\ needsToProcess \in BOOLEAN /\ exit \in BOOLEAN
  /\ owner \in OwnerAt /\ worker \in WorkerAt
  /\ cv \subseteq Awaited /\ event \subseteq Awaited
  /\ rendered \subseteq Resources /\ ready \subseteq Resources

(* The flag is never lost: what waits in m_targetsToLoad is either about to *)
(* be taken, or flagged, or its thread is still on its way to the flag.     *)
FlagNotLost ==
  targets # <<>> =>
    \/ worker \in {"take", "done"} \/ needsToProcess
    \/ \E r \in Resources : thread[r] = "pushed"

(* await returns only with its resource rendered.                           *)
AwaitSound ==
  \A r \in Resources : thread[r] \in {"woken", "returned"} => r \in rendered

(* The worker has called notify_all through the awaitingCv await has reset. *)
Crashed == worker = "crashed"

(* A resource that was handed over becomes ready unless the gatherer is     *)
(* destroyed first: notifications may be missed, the timeout catches up.    *)
Served == \A r \in Resources : thread[r] = "pushed" ~> r \in ready \/ exit \/ Crashed

(* The destructor's join ends.                                              *)
Joins == exit ~> worker = "done" \/ Crashed

(* "Synchronously await the resource being available": await returns.       *)
AwaitAnswered ==
  \A r \in Resources : thread[r] = "predicate" ~> thread[r] = "returned" \/ Crashed

(* The worker as a queue: what it has not finished, then what it has not    *)
(* taken; shut down, it drops the rest.                                     *)
Queue == INSTANCE WorkQueue WITH
  Requests <- Resources, waiting <- requests \o targets, carried <- ready

QueueSpec == Queue!Spec
=============================================================================
