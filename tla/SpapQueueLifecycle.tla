-------------------------- MODULE SpapQueueLifecycle --------------------------
(***************************************************************************)
(* The life of a SpapQueue object (ParallelPriotityQueue/SpapQueue.hpp):   *)
(* its threads are spawned, meet at a barrier, work, meet again and free   *)
(* their resources; the main thread joins them and uses the object again,  *)
(* or destroys it.  Others use the workers' resources through the          *)
(* references in workerResources_: this module is about when they may.     *)
(*                                                                         *)
(* What a worker does in run() is reduced to taking and passing on tasks,  *)
(* and globalCount_ to the exact count of tasks.  (SpapQueue shows that    *)
(* the real one is zero in the same states.)  A barrier is one step of all *)
(* the threads that meet at it.  A stop may come while others are in the   *)
(* middle of a call; what it takes for the object to survive that is one   *)
(* of this module's questions.                                             *)
(***************************************************************************)
EXTENDS Integers

CONSTANTS
  NumWorkers,        \* netw.numWorkers_
  PushTargets,       \* workers with a self-push channel; each has one outside thread
  MaxTasks,          \* bound: tasks that can be created
  MaxRounds,         \* bound: calls of initQueue that succeed
  CallsOutlastWait   \* calls that a stop has overtaken may still go on in waitProcessFinish

Workers == 0 .. NumWorkers - 1

ASSUME LifecycleAssumption ==
  /\ NumWorkers \in Nat \ {0}
  /\ PushTargets \subseteq Workers
  /\ MaxTasks \in Nat /\ MaxRounds \in Nat
  /\ CallsOutlastWait \in BOOLEAN

VARIABLES
  main,         \* where the main thread is: between calls ("idle", "active"), or in one
  next,         \* the worker its loop over workers_ is at
  destroying,   \* it is in the destructor
  rounds,       \* how often the queue may still be initialised (bound)
  queueActive,  \* queueActive_
  startSignal,  \* startSignal_
  globalCount,  \* globalCount_; a negative number stands for one that has wrapped around
  stop,         \* stop[w]: a stop has been requested of the thread workers_[w]
  worker,       \* worker[w]: where that thread is in threadWork; "none" if not joinable
  reference,    \* reference[w]: workerResources_[w] points to w's resource
  target,       \* target[w]: the worker to which w is passing a task
  tasks,        \* tasks[w]: tasks in w's resource: local queue, buffer, incoming channels
  started,      \* the user has called processQueue since initQueue
  loader,       \* loader[w]: where the thread that populates w is in pushBeforeProcessing
  pusher,       \* pusher[w]: where the outside thread of w's self-push channel is in
                \* pushDuringProcessing
  budget        \* tasks that may still be created (bound)

mainVars == <<main, next, destroying, rounds>>
flags == <<queueActive, startSignal, stop>>
threads == <<worker, reference, target>>
users == <<started, loader, pusher, budget>>
vars == <<mainVars, flags, globalCount, threads, tasks, users>>

TypeOK ==
  /\ main \in {"idle", "spawn", "allocate", "active", "stop", "join", "resetSignal",
               "resetActive", "destroy", "destroyed"}
  /\ next \in -1 .. NumWorkers
  /\ destroying \in BOOLEAN /\ started \in BOOLEAN
  /\ rounds \in Nat
  /\ queueActive \in BOOLEAN /\ startSignal \in BOOLEAN
  /\ globalCount \in Nat
  /\ stop \in [Workers -> BOOLEAN]
  /\ worker \in [Workers -> {"none", "build", "allocate", "waitStart", "run", "push",
                             "deallocate", "unset", "free", "ended"}]
  /\ reference \in [Workers -> BOOLEAN]
  /\ target \in [Workers -> Workers]
  /\ tasks \in [Workers -> Nat]
  /\ loader \in [Workers -> {"idle", "push", "count"}]
  /\ pusher \in [Workers -> {"idle", "push", "undo"}]
  /\ budget \in Nat

(* The default constructor *)
Init ==
  /\ main = "idle" /\ next = 0 /\ destroying = FALSE /\ started = FALSE
  /\ rounds = MaxRounds
  /\ queueActive = FALSE /\ startSignal = FALSE
  /\ globalCount = 0
  /\ stop = [w \in Workers |-> FALSE]
  /\ worker = [w \in Workers |-> "none"]
  /\ reference = [w \in Workers |-> FALSE]
  /\ target = [w \in Workers |-> w]
  /\ tasks = [w \in Workers |-> 0]
  /\ loader = [w \in Workers |-> "idle"]
  /\ pusher = [w \in Workers |-> "idle"]
  /\ budget = MaxTasks

NoLoader == \A w \in Workers : loader[w] = "idle"
NoPusher == \A w \in Workers : pusher[w] = "idle"

StopAsked == main = "stop" \/ \E w \in Workers : stop[w]

(* The reference to a worker is set and its resource is there.              *)
Usable(w) ==
  /\ reference[w]
  /\ worker[w] \in {"allocate", "waitStart", "run", "push", "deallocate"}

-----------------------------------------------------------------------------
(* The main thread *)

(* initQueue: returns false on a queue that is active already, *)
InitQueue ==
  /\ main \in {"idle", "active"}
  /\ IF queueActive THEN UNCHANGED vars ELSE
       /\ rounds > 0
       /\ rounds' = rounds - 1
       /\ started' = FALSE
       /\ queueActive' = TRUE
       /\ main' = "spawn" /\ next' = 0
       /\ UNCHANGED <<destroying, startSignal, stop, globalCount, threads, tasks, loader,
                      pusher, budget>>

(* spawns the workers, ... *)
Spawn ==
  /\ main = "spawn" /\ next < NumWorkers
  /\ worker' = [worker EXCEPT ![next] = "build"]
  /\ stop' = [stop EXCEPT ![next] = FALSE]
  /\ next' = next + 1
  /\ UNCHANGED <<main, destroying, rounds, queueActive, startSignal, globalCount, reference,
                 target, tasks, users>>

(* ... and waits for them at the barrier. *)
AwaitAllocation ==
  /\ main = "spawn" /\ next = NumWorkers
  /\ main' = "allocate"
  /\ UNCHANGED <<next, destroying, rounds, flags, globalCount, threads, tasks, users>>

(* allocateSignal_, the barrier of all workers and the main thread *)
AllocateSignal ==
  /\ main = "allocate"
  /\ \A w \in Workers : worker[w] = "allocate"
  /\ main' = "active"
  /\ worker' = [w \in Workers |-> "waitStart"]
  /\ UNCHANGED <<next, destroying, rounds, flags, globalCount, reference,
                 target, tasks, users>>

(* processQueue, which the class documents to come after every              *)
(* pushBeforeProcessing                                                     *)
ProcessQueue ==
  /\ main = "active" /\ NoLoader
  /\ startSignal' = TRUE
  /\ started' = TRUE
  /\ UNCHANGED <<mainVars, queueActive, stop, globalCount, threads, tasks, loader, pusher,
                 budget>>

(* requestStop, which the class documents to be possible at any point,      *)
(* whatever calls of others are in progress                                 *)
RequestStop ==
  /\ main \in {"idle", "active"}
  /\ IF ~ queueActive THEN UNCHANGED vars ELSE
       /\ main' = "stop" /\ next' = 0
       /\ UNCHANGED <<destroying, rounds, flags, globalCount, threads, tasks, users>>

(* A mistake: the loop runs past the last thread.                           *)
SendStopTooFar ==
  /\ main = "stop" /\ next <= NumWorkers
  /\ stop' = [stop EXCEPT ![next] = TRUE]
  /\ next' = next + 1
  /\ UNCHANGED <<main, destroying, rounds, queueActive, startSignal, globalCount,
                 threads, tasks, users>>

SendStop ==
  /\ main = "stop" /\ next < NumWorkers
  /\ stop' = [stop EXCEPT ![next] = TRUE]
  /\ next' = next + 1
  /\ UNCHANGED <<main, destroying, rounds, queueActive, startSignal, globalCount,
                 threads, tasks, users>>

(* A mistake: workers that have not been started are not woken up.          *)
StopQuietly ==
  /\ main = "stop" /\ next = NumWorkers
  /\ IF destroying THEN main' = "destroy" /\ next' = NumWorkers - 1
                   ELSE main' = "active" /\ UNCHANGED next
  /\ UNCHANGED <<destroying, rounds, flags, globalCount, threads, tasks, users>>

(* requestStop wakes up workers that have not been started. *)
StopSignals ==
  /\ main = "stop" /\ next = NumWorkers
  /\ startSignal' = TRUE
  /\ IF destroying THEN main' = "destroy" /\ next' = NumWorkers - 1
                   ELSE main' = "active" /\ UNCHANGED next
  /\ UNCHANGED <<destroying, rounds, queueActive, stop, globalCount, threads, tasks,
                 users>>

(* waitProcessFinish, which comes last: after a stop, the main thread waits *)
(* for the calls of others to return, or it does not;                       *)
OthersAreOver == StopAsked /\ ~ CallsOutlastWait => NoLoader /\ NoPusher

(* it joins the workers in their order, *)
WaitProcessFinish ==
  /\ main = "active" /\ startSignal /\ OthersAreOver
  /\ main' = "join" /\ next' = 0
  /\ UNCHANGED <<destroying, rounds, flags, globalCount, threads, tasks, users>>

Join ==
  /\ main = "join" /\ next < NumWorkers
  /\ worker[next] = "ended"
  /\ worker' = [worker EXCEPT ![next] = "none"]
  /\ next' = next + 1
  /\ UNCHANGED <<main, destroying, rounds, flags, globalCount, reference,
                 target, tasks, users>>

(* A mistake: the tasks of an interrupted round stay in the count.          *)
KeepCount ==
  /\ main = "join" /\ next = NumWorkers
  /\ main' = "resetSignal"
  /\ UNCHANGED <<next, destroying, rounds, flags, globalCount, threads, tasks, users>>

(* and prepares the object for the next round. *)
ResetCount ==
  /\ main = "join" /\ next = NumWorkers
  /\ globalCount' = 0
  /\ main' = "resetSignal"
  /\ UNCHANGED <<next, destroying, rounds, flags, threads, tasks, users>>

ResetSignal ==
  /\ main = "resetSignal"
  /\ startSignal' = FALSE
  /\ main' = "resetActive"
  /\ UNCHANGED <<next, destroying, rounds, queueActive, stop, globalCount, threads,
                 tasks, users>>

ResetActive ==
  /\ main = "resetActive"
  /\ queueActive' = FALSE
  /\ main' = "idle"
  /\ UNCHANGED <<next, destroying, rounds, startSignal, stop, globalCount, threads,
                 tasks, users>>

(* The destructor, when nobody else uses the object: it requests a stop,    *)
(* whether the queue was active or not, *)
Destruct ==
  /\ main \in {"idle", "active"} /\ NoLoader /\ NoPusher
  /\ queueActive' = TRUE
  /\ destroying' = TRUE
  /\ main' = "stop" /\ next' = 0
  /\ UNCHANGED <<rounds, startSignal, stop, globalCount, threads, tasks, users>>

(* and the array workers_ is destroyed, which joins what is joinable.       *)
DestroyThread ==
  /\ main = "destroy" /\ next >= 0
  /\ worker[next] \in {"none", "ended"}
  /\ worker' = [worker EXCEPT ![next] = "none"]
  /\ next' = next - 1
  /\ UNCHANGED <<main, destroying, rounds, flags, globalCount, reference,
                 target, tasks, users>>

Destroyed ==
  /\ main = "destroy" /\ next = -1
  /\ main' = "destroyed"
  /\ UNCHANGED <<next, destroying, rounds, flags, globalCount, threads, tasks, users>>

-----------------------------------------------------------------------------
(* threadWork *)

Goto(w, label) == worker' = [worker EXCEPT ![w] = label]

(* The resource is built and the reference set. *)
Build(w) ==
  /\ worker[w] = "build"
  /\ reference' = [reference EXCEPT ![w] = TRUE]
  /\ Goto(w, "allocate")
  /\ UNCHANGED <<mainVars, flags, globalCount, target, tasks, users>>

(* Woken up, a worker enters run() and, if its first look at the count and  *)
(* the stop token lets it, processes tasks.                                 *)
WaitStart(w) ==
  /\ worker[w] = "waitStart" /\ startSignal
  /\ globalCount # 0 /\ ~ stop[w]
  /\ Goto(w, "run")
  /\ UNCHANGED <<mainVars, flags, globalCount, reference, target, tasks, users>>

(* A task is completed. *)
CompleteTask(w) ==
  /\ worker[w] = "run" /\ tasks[w] > 0
  /\ tasks' = [tasks EXCEPT ![w] = @ - 1]
  /\ globalCount' = globalCount - 1
  /\ UNCHANGED <<mainVars, flags, threads, users>>

(* A task in hand makes another, which is counted *)
EnqueueGlobal(w) ==
  /\ worker[w] = "run" /\ tasks[w] > 0 /\ budget > 0
  /\ globalCount' = globalCount + 1
  /\ budget' = budget - 1
  /\ \E v \in Workers : target' = [target EXCEPT ![w] = v]
  /\ Goto(w, "push")
  /\ UNCHANGED <<mainVars, flags, reference, tasks, started, loader, pusher>>

(* and passed on by pushInternal, through the reference to the other worker. *)
PushInternal(w) ==
  /\ worker[w] = "push"
  /\ tasks' = [tasks EXCEPT ![target[w]] = @ + 1]
  /\ Goto(w, "run")
  /\ UNCHANGED <<mainVars, flags, globalCount, reference, target, users>>

(* A mistake: a worker leaves when it has nothing to do itself.             *)
LeaveWhenIdle(w) ==
  /\ worker[w] = "run" \/ (worker[w] = "waitStart" /\ startSignal)
  /\ tasks[w] = 0 \/ stop[w]
  /\ Goto(w, "deallocate")
  /\ UNCHANGED <<mainVars, flags, globalCount, reference, target, tasks, users>>

(* run() ends, or has nothing to begin with.                                *)
Leave(w) ==
  /\ worker[w] = "run" \/ (worker[w] = "waitStart" /\ startSignal)
  /\ globalCount = 0 \/ stop[w]
  /\ Goto(w, "deallocate")
  /\ UNCHANGED <<mainVars, flags, globalCount, reference, target, tasks, users>>

(* A mistake: nobody waits for the others.                                  *)
DeallocateAlone ==
  /\ \E w \in Workers : worker[w] = "deallocate" /\ Goto(w, "unset")
  /\ UNCHANGED <<mainVars, flags, globalCount, reference, target, tasks, users>>

(* safeToDeallocateSignal_, the barrier of the workers *)
DeallocateSignal ==
  /\ \A w \in Workers : worker[w] = "deallocate"
  /\ worker' = [w \in Workers |-> "unset"]
  /\ UNCHANGED <<mainVars, flags, globalCount, reference, target, tasks, users>>

UnsetReference(w) ==
  /\ worker[w] = "unset"
  /\ reference' = [reference EXCEPT ![w] = FALSE]
  /\ Goto(w, "free")
  /\ UNCHANGED <<mainVars, flags, globalCount, target, tasks, users>>

(* The resource goes, with the tasks that a stop has left in it. *)
Free(w) ==
  /\ worker[w] = "free"
  /\ tasks' = [tasks EXCEPT ![w] = 0]
  /\ Goto(w, "ended")
  /\ UNCHANGED <<mainVars, flags, globalCount, reference, target, users>>

-----------------------------------------------------------------------------
(* pushBeforeProcessing, by one thread for each worker, which does not know *)
(* of a stop: the call begins                                               *)
Populate(w) ==
  /\ main \in {"active", "stop"} /\ ~ destroying /\ ~ started
  /\ loader[w] = "idle" /\ budget > 0
  /\ budget' = budget - 1
  /\ loader' = [loader EXCEPT ![w] = "push"]
  /\ UNCHANGED <<mainVars, flags, globalCount, threads, tasks, started, pusher>>

(* A task is put into w's resource.  Put into one that has gone, it is lost *)
(* (the code's behaviour is then undefined; this is the best it can do).    *)
PutIn(w) == tasks' = IF Usable(w) THEN [tasks EXCEPT ![w] = @ + 1] ELSE tasks

(* and goes through the reference; *)
PushUnsafe(w) ==
  /\ loader[w] = "push"
  /\ PutIn(w)
  /\ loader' = [loader EXCEPT ![w] = "count"]
  /\ UNCHANGED <<mainVars, flags, globalCount, threads, started, pusher, budget>>

(* then the task is counted.                                                *)
CountUnsafe(w) ==
  /\ loader[w] = "count"
  /\ globalCount' = globalCount + 1
  /\ loader' = [loader EXCEPT ![w] = "idle"]
  /\ UNCHANGED <<mainVars, flags, threads, tasks, started, pusher, budget>>

(* pushDuringProcessing, on a queue that was started and may have finished: *)
(* the load and the exchange announce a task if the count is positive; if   *)
(* it is not, nothing happens.  Nobody begins a call when the main thread   *)
(* that has asked for a stop has gone on.                                   *)
Announce(w) ==
  /\ w \in PushTargets /\ pusher[w] = "idle" /\ budget > 0
  /\ started /\ ~ destroying
  /\ StopAsked => main \in {"active", "stop"}
  /\ globalCount # 0
  /\ globalCount' = globalCount + 1
  /\ budget' = budget - 1
  /\ pusher' = [pusher EXCEPT ![w] = "push"]
  /\ UNCHANGED <<mainVars, flags, threads, tasks, started, loader>>

(* It goes through the reference, *)
PushDuring(w) ==
  /\ pusher[w] = "push"
  /\ PutIn(w)
  /\ pusher' = [pusher EXCEPT ![w] = "idle"]
  /\ UNCHANGED <<mainVars, flags, globalCount, threads, started, loader, budget>>

(* and finds the channel full; the announcement is taken back.              *)
PushDuringFails(w) ==
  /\ pusher[w] = "push"
  /\ pusher' = [pusher EXCEPT ![w] = "undo"]
  /\ UNCHANGED <<mainVars, flags, globalCount, threads, tasks, started, loader, budget>>

Withdraw(w) ==
  /\ pusher[w] = "undo"
  /\ globalCount' = globalCount - 1
  /\ pusher' = [pusher EXCEPT ![w] = "idle"]
  /\ UNCHANGED <<mainVars, flags, threads, tasks, started, loader, budget>>

-----------------------------------------------------------------------------
MainCalls == InitQueue \/ ProcessQueue \/ RequestStop \/ WaitProcessFinish \/ Destruct

MainGoesOn ==
  \/ Spawn \/ AwaitAllocation \/ AllocateSignal \/ SendStop \/ StopSignals
  \/ Join \/ ResetCount \/ ResetSignal \/ ResetActive \/ DestroyThread \/ Destroyed

Worker(w) ==
  \/ Build(w) \/ WaitStart(w) \/ CompleteTask(w) \/ EnqueueGlobal(w) \/ PushInternal(w)
  \/ Leave(w) \/ UnsetReference(w) \/ Free(w)

LoaderGoesOn(w) == PushUnsafe(w) \/ CountUnsafe(w)
PusherGoesOn(w) == PushDuring(w) \/ PushDuringFails(w) \/ Withdraw(w)

Next ==
  \/ MainCalls \/ MainGoesOn \/ DeallocateSignal
  \/ \E w \in Workers :
       Worker(w) \/ Populate(w) \/ LoaderGoesOn(w) \/ Announce(w) \/ PusherGoesOn(w)
  \/ main = "destroyed" /\ UNCHANGED vars

Spec == Init /\ [][Next]_vars

(* Every thread goes on with what it has begun; nobody has to call anything. *)
Fairness ==
  /\ WF_vars(MainGoesOn) /\ WF_vars(DeallocateSignal)
  /\ \A w \in Workers :
       WF_vars(Worker(w)) /\ WF_vars(LoaderGoesOn(w)) /\ WF_vars(PusherGoesOn(w))

FairSpec == Spec /\ Fairness

-----------------------------------------------------------------------------
AllStopped == \A w \in Workers : stop[w]

(* Whoever is about to use a worker's resource finds the reference set and  *)
(* the resource there.  A worker that passes on a task always does; an      *)
(* outside thread that has announced one, and a thread that populates a     *)
(* worker, do until a stop has been requested of every worker.  And while   *)
(* a thread is in pushBeforeProcessing, no worker processes tasks: the call *)
(* has the local queue to itself, also if a stop wakes the workers up.      *)
UsesLiveWorker ==
  \A w \in Workers :
    /\ worker[w] = "push" => Usable(target[w])
    /\ pusher[w] = "push" /\ ~ AllStopped => Usable(w)
    /\ loader[w] # "idle" =>
         /\ ~ AllStopped => Usable(w)
         /\ \A v \in Workers : worker[v] \notin {"run", "push"}

(* The same of outside threads without the exception.  pushDuringProcessing *)
(* is documented to return false when "the queue has already finished".     *)
PushersFindWorker == \A w \in Workers : pusher[w] = "push" => Usable(w)

(* The same of the threads that populate the queue.  The queue "may be      *)
(* interrupted at any point" by requestStop.                                *)
LoadersFindWorker == \A w \in Workers : loader[w] = "push" => Usable(w)

(* An object that waitProcessFinish has returned is as new, whether the     *)
(* round was completed or stopped half way: no count, signal, thread,       *)
(* reference or half-made push is left; and the next round's workers start  *)
(* without tasks and without the stop request of an earlier one.            *)
ReusedIsNew ==
  /\ main \in {"idle", "spawn", "allocate"} =>
       globalCount = 0 /\ ~ startSignal /\ NoLoader /\ NoPusher
  /\ main = "idle" =>
       /\ ~ queueActive
       /\ \A w \in Workers : worker[w] = "none" /\ ~ reference[w]
  /\ \A w \in Workers :
       worker[w] \in {"build", "allocate"} => tasks[w] = 0 /\ ~ stop[w]

(* A worker frees its resource with tasks in it only if it was stopped.     *)
FreedEmpty ==
  \A w \in Workers :
    worker[w] \in {"deallocate", "unset", "free"} => tasks[w] = 0 \/ stop[w]

(* Every call of the main thread returns: initQueue and waitProcessFinish   *)
(* get past the barriers, and the destructor returns from any state.        *)
CallsReturn == main \notin {"idle", "active"} ~> main \in {"idle", "active", "destroyed"}
=============================================================================
