------------------------------ MODULE SpapQueue ------------------------------
(***************************************************************************)
(* A SpapQueue while it is being populated, run and stopped                *)
(* (ParallelPriotityQueue/SpapQueue.hpp and SpapQueueWorker.hpp).          *)
(*                                                                         *)
(* Worker threads hold tasks in a local priority queue and in a small      *)
(* outgoing buffer, and hand them on in batches over bounded channels.     *)
(* Nobody counts the tasks exactly: globalCount_ and the workers'          *)
(* localCount_ hold the number between them, and a worker goes home when   *)
(* it reads zero in globalCount_.  This module is about that accounting,   *)
(* so a container is represented by how many tasks it holds; which task    *)
(* comes next, and how a channel is implemented, are other modules'        *)
(* subjects.                                                               *)
(*                                                                         *)
(* An action makes at most one access to memory shared between threads:    *)
(* globalCount_, a stop token, the start signal, or one end of a channel.  *)
(***************************************************************************)
EXTENDS Integers, Sequences, Sums, QueueContract

CONSTANTS
  NumWorkers,         \* netw.numWorkers_; as an edge target it marks a self-push channel
  NumChannels,        \* netw.numChannels_
  Source,             \* Source[c]: the worker that owns the out-edge c
  EdgeTargets,        \* edgeTargets_
  InPorts,            \* InPorts[w]: the channels that end in w, in the order of their ports
  BatchSize,          \* batchSize_
  MaxBatchSize,       \* maxBatchSize(): the length of every outBuffer_
  ChannelTable,       \* ChannelTable[w]: channelIndices_, up to channelTableEndPointer_
  ChannelBufferSize,  \* channelBufferSize_
  MaxPushAttempts,    \* maxPushAttempts_
  EnqueueFrequency,   \* enqueueFrequency_
  StopCheckPeriod,    \* the literal 128 in run()
  MaxTasks,           \* bound: tasks that can be created before a stop is requested
  MaxChildren,        \* bound: calls of enqueueGlobal in one processElement
  Recycling,          \* after a stop request each completed task allows for a new one, so
                      \* that the work does not end by itself
  MayStop,            \* requestStop may be called
  StaleViews          \* a plain load may return a value that has been overwritten

Workers == 0 .. NumWorkers - 1
Channels == 0 .. NumChannels - 1

SelfPush(c) == EdgeTargets[c] = NumWorkers

SelfPushChannels == {c \in Channels : SelfPush(c)}

(* What the static_asserts on the network and the types guarantee. *)
ASSUME NetworkAssumption ==
  IsNetwork(NumWorkers, NumChannels, Source, EdgeTargets, BatchSize, MaxBatchSize,
            ChannelBufferSize)

ASSUME TablesAssumption ==
  /\ ArePorts(NumWorkers, NumChannels, Source, EdgeTargets, InPorts)
  /\ AreTables(NumWorkers, NumChannels, Source, ChannelTable)

ASSUME ParameterAssumption ==
  /\ MaxPushAttempts \in Nat \ {0}
  /\ EnqueueFrequency \in Nat \ {0}
  /\ StopCheckPeriod \in Nat \ {0}
  /\ MaxTasks \in Nat /\ MaxChildren \in Nat
  /\ Recycling \in BOOLEAN /\ MayStop \in BOOLEAN /\ StaleViews \in BOOLEAN

VARIABLES
  globalCount,   \* globalCount_
  startSignal,   \* startSignal_
  stopsSent,     \* requestStop has called request_stop on the workers below stopsSent
  loader,        \* loader[w]: where the thread populating w is in pushBeforeProcessing
  pc,            \* pc[w]: where worker w is in threadWork, run and enqueueGlobal
  queueSize,     \* queueSize[w]: tasks in queue_
  localCount,    \* localCount[w]: localCount_
  outCount,      \* outCount[w]: tasks below bufferPointer_
  tablePos,      \* tablePos[w]: channelPointer_, counted from 1
  attempts,      \* attempts[w]: the local maxAttempts of enqueueGlobal, 0 outside of it
  todo,          \* todo[w]: calls of enqueueGlobal the current processElement will still make
  cntr,          \* cntr[w]: the local cntr of run, modulo a common period of its two uses
  port,          \* port[w]: the port enqueueInChannels is at, counted from 1
  occupancy,     \* occupancy[c]: tasks in the ring buffer of channel c
  pusher,        \* pusher[c]: where the outside thread of self-push channel c is in
                 \* pushDuringProcessing
  prevCount,     \* prevCount[c]: its local prevCount, 0 once the loop is over
  budget         \* tasks that may still be created (bound)

taskVars == <<queueSize, localCount, outCount, tablePos, attempts, todo, cntr, port>>
mainVars == <<startSignal, stopsSent, loader>>
pushVars == <<pusher, prevCount>>
vars == <<globalCount, mainVars, pc, taskVars, occupancy, pushVars, budget>>

PcValues == {"waitStart", "loadCount", "loadStop", "inner", "drainInner", "take",
             "process", "pushing", "drainOuter", "flush", "done"}

CntrPeriod == StopCheckPeriod * EnqueueFrequency

TypeOK ==
  /\ globalCount \in Nat
  /\ startSignal \in BOOLEAN
  /\ stopsSent \in 0 .. NumWorkers
  /\ loader \in [Workers -> {"idle", "count"}]
  /\ pc \in [Workers -> PcValues]
  /\ queueSize \in [Workers -> Nat]
  /\ localCount \in [Workers -> Nat]
  /\ outCount \in [Workers -> 0 .. MaxBatchSize]
  /\ tablePos \in [Workers -> Nat \ {0}]
  /\ \A w \in Workers : tablePos[w] <= Len(ChannelTable[w])
  /\ attempts \in [Workers -> 0 .. MaxPushAttempts]
  /\ todo \in [Workers -> Nat]
  /\ cntr \in [Workers -> 0 .. CntrPeriod - 1]
  /\ port \in [Workers -> Nat \ {0}]
  /\ \A w \in Workers : port[w] <= Len(InPorts[w])
  /\ occupancy \in [Channels -> 0 .. ChannelBufferSize]
  /\ pusher \in [Channels -> {"idle", "cas", "push", "undo"}]
  /\ prevCount \in [Channels -> Nat]
  /\ budget \in Nat

(* The workers have been allocated by initQueue; nothing is queued yet. *)
Init ==
  /\ globalCount = 0
  /\ startSignal = FALSE
  /\ stopsSent = 0
  /\ loader = [w \in Workers |-> "idle"]
  /\ pc = [w \in Workers |-> "waitStart"]
  /\ queueSize = [w \in Workers |-> 0]
  /\ localCount = [w \in Workers |-> 0]
  /\ outCount = [w \in Workers |-> 0]
  /\ tablePos = [w \in Workers |-> 1]
  /\ attempts = [w \in Workers |-> 0]
  /\ todo = [w \in Workers |-> 0]
  /\ cntr = [w \in Workers |-> 0]
  /\ port = [w \in Workers |-> 1]
  /\ occupancy = [c \in Channels |-> 0]
  /\ pusher = [c \in Channels |-> "idle"]
  /\ prevCount = [c \in Channels |-> 0]
  /\ budget = MaxTasks

-----------------------------------------------------------------------------
(* The threads that populate the queue, at most one per worker, and the    *)
(* main thread, which starts and stops it.  The order of calls that the    *)
(* class documents puts the start after every pushBeforeProcessing.  A     *)
(* stop may come between any two steps.                                    *)

(* pushBeforeProcessing: the task goes into the local queue (of a worker    *)
(* that is still there: SpapQueueLifecycle has the others) ...              *)
PushUnsafe(w) ==
  /\ ~startSignal
  /\ loader[w] = "idle"
  /\ budget > 0
  /\ queueSize' = [queueSize EXCEPT ![w] = @ + 1]
  /\ loader' = [loader EXCEPT ![w] = "count"]
  /\ budget' = budget - 1
  /\ UNCHANGED <<globalCount, startSignal, stopsSent, pc, localCount, outCount, tablePos,
                 attempts, todo, cntr, port, occupancy, pushVars>>

(* ... and is then counted.                                                 *)
CountUnsafe(w) ==
  /\ loader[w] = "count"
  /\ globalCount' = globalCount + 1
  /\ loader' = [loader EXCEPT ![w] = "idle"]
  /\ UNCHANGED <<startSignal, stopsSent, pc, taskVars, occupancy, pushVars, budget>>

NoLoaderBusy == \A w \in Workers : loader[w] = "idle"

(* processQueue, called by the user or as the last step of requestStop.     *)
ProcessQueue ==
  /\ ~startSignal
  /\ (stopsSent = 0 /\ NoLoaderBusy) \/ stopsSent = NumWorkers
  /\ startSignal' = TRUE
  /\ UNCHANGED <<globalCount, stopsSent, loader, pc, taskVars, occupancy, pushVars, budget>>

(* requestStop: the stop tokens are set one worker after the other.         *)
RequestStop ==
  /\ MayStop
  /\ stopsSent < NumWorkers
  /\ stopsSent' = stopsSent + 1
  /\ UNCHANGED <<globalCount, startSignal, loader, pc, taskVars, occupancy, pushVars, budget>>

StopRequested(w) == w < stopsSent

-----------------------------------------------------------------------------
(* WorkerResource::run *)

Goto(w, label) == pc' = [pc EXCEPT ![w] = label]

WaitStart(w) ==
  /\ pc[w] = "waitStart"
  /\ startSignal
  /\ Goto(w, "loadCount")
  /\ UNCHANGED <<globalCount, mainVars, taskVars, occupancy, pushVars, budget>>

(* A mistake: the worker looks at localCount_.                              *)
LoadLocalCount(w) ==
  /\ pc[w] = "loadCount"
  /\ Goto(w, IF localCount[w] = 0 THEN "done" ELSE "loadStop")
  /\ UNCHANGED <<globalCount, mainVars, taskVars, occupancy, pushVars, budget>>

(* The outer while: globalCount_ is read first, the stop token only if the  *)
(* count was positive.                                                      *)
LoadCount(w) ==
  /\ pc[w] = "loadCount"
  /\ \/ globalCount = 0 /\ Goto(w, "done")
     \/ (globalCount > 0 \/ StaleViews) /\ Goto(w, "loadStop")
  /\ UNCHANGED <<globalCount, mainVars, taskVars, occupancy, pushVars, budget>>

(* A stop request may be seen late.  But one that has overtaken a           *)
(* pushBeforeProcessing was sent before the start signal, so who has        *)
(* acquired the signal sees it.                                             *)
StopIsSeen == ~NoLoaderBusy \/ ~StaleViews

LoadStop(w) ==
  /\ pc[w] = "loadStop"
  /\ \/ StopRequested(w) /\ Goto(w, "done")
     \/ ~(StopRequested(w) /\ StopIsSeen) /\ Goto(w, "inner")
  /\ UNCHANGED <<globalCount, mainVars, taskVars, occupancy, pushVars, budget>>

(* A mistake: only the outer loop looks at the stop token.                  *)
StopCheckNever(w) == FALSE

StopCheckDue(w) == cntr[w] % StopCheckPeriod = 0
EnqueueDue(w) == cntr[w] % EnqueueFrequency = 0

(* The head of the inner while: it ends when the local queue is empty or,   *)
(* once in StopCheckPeriod rounds, when a stop has been requested.  Either  *)
(* way the channels are drained afterwards.                                 *)
LeaveInner(w) ==
  /\ pc[w] = "inner"
  /\ queueSize[w] = 0 \/ (StopCheckDue(w) /\ StopRequested(w))
  /\ Goto(w, "drainOuter")
  /\ port' = [port EXCEPT ![w] = 1]
  /\ UNCHANGED <<globalCount, mainVars, queueSize, localCount, outCount, tablePos, attempts,
                 todo, cntr, occupancy, pushVars, budget>>

EnterRound(w) ==
  /\ pc[w] = "inner"
  /\ queueSize[w] > 0
  /\ StopCheckDue(w) => ~StopRequested(w) \/ StaleViews
  /\ Goto(w, IF EnqueueDue(w) THEN "drainInner" ELSE "take")
  /\ port' = [port EXCEPT ![w] = 1]
  /\ UNCHANGED <<globalCount, mainVars, queueSize, localCount, outCount, tablePos, attempts,
                 todo, cntr, occupancy, pushVars, budget>>

AfterDrain(w) == IF pc[w] = "drainInner" THEN "take" ELSE "flush"

(* enqueueInChannels, called in a round and after the inner while: pop the  *)
(* current port until it has nothing, then go on to the next one.           *)
PopTask(w) ==
  LET c == InPorts[w][port[w]] IN
  /\ pc[w] \in {"drainInner", "drainOuter"}
  /\ occupancy[c] > 0
  /\ occupancy' = [occupancy EXCEPT ![c] = @ - 1]
  /\ queueSize' = [queueSize EXCEPT ![w] = @ + 1]
  /\ UNCHANGED <<globalCount, mainVars, pc, localCount, outCount, tablePos, attempts,
                 todo, cntr, port, pushVars, budget>>

PopNothing(w) ==
  LET c == InPorts[w][port[w]] IN
  /\ pc[w] \in {"drainInner", "drainOuter"}
  /\ occupancy[c] = 0 \/ StaleViews
  /\ IF port[w] < Len(InPorts[w])
     THEN port' = [port EXCEPT ![w] = @ + 1] /\ pc' = pc
     ELSE port' = [port EXCEPT ![w] = 1] /\ Goto(w, AfterDrain(w))
  /\ UNCHANGED <<globalCount, mainVars, queueSize, localCount, outCount, tablePos, attempts,
                 todo, cntr, occupancy, pushVars, budget>>

(* The top of the queue is taken out, and its processElement will create    *)
(* some number of children.                                                 *)
Take(w) ==
  /\ pc[w] = "take"
  /\ queueSize' = [queueSize EXCEPT ![w] = @ - 1]
  /\ \E children \in 0 .. MaxChildren :
       /\ children <= budget
       /\ todo' = [todo EXCEPT ![w] = children]
       /\ budget' = budget - children
  /\ Goto(w, "process")
  /\ UNCHANGED <<globalCount, mainVars, localCount, outCount, tablePos, attempts, cntr, port,
                 occupancy, pushVars>>

(* A mistake: children are counted locally for as long as there are any.    *)
IncrLocalCountOnly(w) ==
  /\ localCount' = [localCount EXCEPT ![w] = @ + 1]
  /\ UNCHANGED globalCount

(* incrGlobalCount: when localCount_ has caught up with the local queue,    *)
(* all but half the queue's length is moved to the global counter.          *)
IncrGlobalCount(w) ==
  LET count == localCount[w] + 1
      newLocalCount == queueSize[w] \div 2
  IN  IF count >= queueSize[w]
      THEN /\ localCount' = [localCount EXCEPT ![w] = newLocalCount]
           /\ globalCount' = globalCount + (count - newLocalCount)
      ELSE /\ localCount' = [localCount EXCEPT ![w] = count]
           /\ UNCHANGED globalCount

(* Mistakes: the refill forgets the completed task, ...                     *)
DecrForgetsTask(w) ==
  LET newLocalCount == queueSize[w] \div 2
  IN  IF localCount[w] = 0
      THEN /\ localCount' = [localCount EXCEPT ![w] = newLocalCount]
           /\ globalCount' = globalCount - newLocalCount
      ELSE /\ localCount' = [localCount EXCEPT ![w] = @ - 1]
           /\ UNCHANGED globalCount

(* ... or it takes the larger half of the queue.                            *)
DecrTakesLargerHalf(w) ==
  LET newLocalCount == (queueSize[w] + 1) \div 2
  IN  IF localCount[w] = 0
      THEN /\ localCount' = [localCount EXCEPT ![w] = newLocalCount]
           /\ globalCount' = globalCount - (newLocalCount + 1)
      ELSE /\ localCount' = [localCount EXCEPT ![w] = @ - 1]
           /\ UNCHANGED globalCount

(* decrGlobalCount: at zero, localCount_ is refilled from the global        *)
(* counter up to half the queue's length.                                   *)
DecrGlobalCount(w) ==
  LET newLocalCount == queueSize[w] \div 2
  IN  IF localCount[w] = 0
      THEN /\ localCount' = [localCount EXCEPT ![w] = newLocalCount]
           /\ globalCount' = globalCount - (newLocalCount + 1)
      ELSE /\ localCount' = [localCount EXCEPT ![w] = @ - 1]
           /\ UNCHANGED globalCount

(* enqueueGlobal up to its loop: count the child, then store it.            *)
EnqueueGlobal(w) ==
  /\ pc[w] = "process"
  /\ todo[w] > 0
  /\ IncrGlobalCount(w)
  /\ outCount' = [outCount EXCEPT ![w] = @ + 1]
  /\ attempts' = [attempts EXCEPT ![w] = MaxPushAttempts]
  /\ todo' = [todo EXCEPT ![w] = @ - 1]
  /\ Goto(w, "pushing")
  /\ UNCHANGED <<mainVars, queueSize, tablePos, cntr, port, occupancy, pushVars, budget>>

(* The channel channelPointer_ points at, and the condition of the loop.    *)
CurrentChannel(w) == ChannelTable[w][tablePos[w]]
BatchReady(w) == outCount[w] >= BatchSize[CurrentChannel(w)] /\ attempts[w] > 0

(* A mistake: the pointer goes around one entry too late.                   *)
NextTablePosLate(w) == IF tablePos[w] > Len(ChannelTable[w]) THEN 1 ELSE tablePos[w] + 1

NextTablePos(w) == IF tablePos[w] = Len(ChannelTable[w]) THEN 1 ELSE tablePos[w] + 1

(* pushOutBuffer on a self-push channel: the batch goes to the local queue. *)
PushBatchSelf(w) ==
  LET c == CurrentChannel(w) IN
  /\ pc[w] = "pushing" /\ BatchReady(w)
  /\ SelfPush(c)
  /\ queueSize' = [queueSize EXCEPT ![w] = @ + BatchSize[c]]
  /\ outCount' = [outCount EXCEPT ![w] = @ - BatchSize[c]]
  /\ tablePos' = [tablePos EXCEPT ![w] = NextTablePos(w)]
  /\ UNCHANGED <<globalCount, mainVars, pc, localCount, attempts, todo, cntr, port, occupancy,
                 pushVars, budget>>

(* pushOutBuffer on a channel to another worker that has room.              *)
PushBatch(w) ==
  LET c == CurrentChannel(w) IN
  /\ pc[w] = "pushing" /\ BatchReady(w)
  /\ ~SelfPush(c)
  /\ occupancy[c] + BatchSize[c] <= ChannelBufferSize
  /\ occupancy' = [occupancy EXCEPT ![c] = @ + BatchSize[c]]
  /\ outCount' = [outCount EXCEPT ![w] = @ - BatchSize[c]]
  /\ tablePos' = [tablePos EXCEPT ![w] = NextTablePos(w)]
  /\ UNCHANGED <<globalCount, mainVars, pc, queueSize, localCount, attempts, todo, cntr, port,
                 pushVars, budget>>

(* A mistake: the worker tries the full channel again and again.            *)
PushBatchInsists(w) ==
  LET c == CurrentChannel(w) IN
  /\ pc[w] = "pushing" /\ BatchReady(w)
  /\ ~SelfPush(c)
  /\ occupancy[c] + BatchSize[c] > ChannelBufferSize
  /\ UNCHANGED vars

(* pushOutBuffer on a channel that has no room: one attempt is used up.     *)
PushBatchFails(w) ==
  LET c == CurrentChannel(w) IN
  /\ pc[w] = "pushing" /\ BatchReady(w)
  /\ ~SelfPush(c)
  /\ occupancy[c] + BatchSize[c] > ChannelBufferSize \/ StaleViews
  /\ attempts' = [attempts EXCEPT ![w] = @ - 1]
  /\ tablePos' = [tablePos EXCEPT ![w] = NextTablePos(w)]
  /\ UNCHANGED <<globalCount, mainVars, pc, queueSize, localCount, outCount, todo, cntr, port,
                 occupancy, pushVars, budget>>

(* pushOutBufferSelf from the beginning of the buffer.                      *)
PushOutBufferSelf(w) ==
  /\ queueSize' = [queueSize EXCEPT ![w] = @ + outCount[w]]
  /\ outCount' = [outCount EXCEPT ![w] = 0]

(* A mistake: out of attempts, the worker leaves the buffer as it is.       *)
EndEnqueueKeeps(w) ==
  /\ pc[w] = "pushing" /\ ~BatchReady(w)
  /\ attempts' = [attempts EXCEPT ![w] = 0]
  /\ Goto(w, "process")
  /\ UNCHANGED <<globalCount, mainVars, queueSize, outCount, localCount, tablePos, todo, cntr,
                 port, occupancy, pushVars, budget>>

(* The loop of enqueueGlobal is over; out of attempts, the worker keeps     *)
(* everything to itself.                                                    *)
EndEnqueue(w) ==
  /\ pc[w] = "pushing" /\ ~BatchReady(w)
  /\ IF attempts[w] = 0 THEN PushOutBufferSelf(w) ELSE UNCHANGED <<queueSize, outCount>>
  /\ attempts' = [attempts EXCEPT ![w] = 0]
  /\ Goto(w, "process")
  /\ UNCHANGED <<globalCount, mainVars, localCount, tablePos, todo, cntr, port, occupancy,
                 pushVars, budget>>

(* processElement returns; the completed task is taken off the count.       *)
CompleteTask(w) ==
  /\ pc[w] = "process"
  /\ todo[w] = 0
  /\ DecrGlobalCount(w)
  /\ cntr' = [cntr EXCEPT ![w] = (@ + 1) % CntrPeriod]
  /\ budget' = IF Recycling /\ stopsSent > 0 THEN budget + 1 ELSE budget
  /\ Goto(w, "inner")
  /\ UNCHANGED <<mainVars, queueSize, outCount, tablePos, attempts, todo, port, occupancy,
                 pushVars>>

(* The end of the outer loop's body.                                        *)
FlushOutBuffer(w) ==
  /\ pc[w] = "flush"
  /\ PushOutBufferSelf(w)
  /\ Goto(w, "loadCount")
  /\ UNCHANGED <<globalCount, mainVars, localCount, tablePos, attempts, todo, cntr, port,
                 occupancy, pushVars, budget>>

-----------------------------------------------------------------------------
(* pushDuringProcessing, by at most one outside thread per self-push        *)
(* channel, while the queue runs.                                           *)

(* What a relaxed load of globalCount_ can return: zero only if it is zero, *)
(* because it is never positive again afterwards (NeverRevived).            *)
CountViews == {globalCount} \cup (IF StaleViews THEN 1 .. MaxTasks ELSE {})

(* A thread that reads zero returns false and has changed nothing.          *)
PusherLoad(c) ==
  /\ pusher[c] = "idle"
  /\ startSignal
  /\ budget > 0
  /\ \E seen \in CountViews :
       /\ seen > 0
       /\ prevCount' = [prevCount EXCEPT ![c] = seen]
  /\ pusher' = [pusher EXCEPT ![c] = "cas"]
  /\ budget' = budget - 1
  /\ UNCHANGED <<globalCount, mainVars, pc, taskVars, occupancy>>

(* A mistake: fetch_add instead of the compare-and-swap.                    *)
FetchAdd(c) ==
  /\ pusher[c] = "cas"
  /\ globalCount' = globalCount + 1
  /\ pusher' = [pusher EXCEPT ![c] = "push"]
  /\ UNCHANGED <<mainVars, pc, taskVars, occupancy, prevCount, budget>>

(* compare_exchange_weak: it may fail for no reason, and then reads.        *)
CasSucceeds(c) ==
  /\ pusher[c] = "cas"
  /\ globalCount = prevCount[c]
  /\ globalCount' = prevCount[c] + 1
  /\ prevCount' = [prevCount EXCEPT ![c] = 0]
  /\ pusher' = [pusher EXCEPT ![c] = "push"]
  /\ UNCHANGED <<mainVars, pc, taskVars, occupancy, budget>>

(* The queue has finished: pushDuringProcessing returns false.              *)
CasFails(c) ==
  /\ pusher[c] = "cas"
  /\ \E seen \in CountViews :
       /\ prevCount' = [prevCount EXCEPT ![c] = seen]
       /\ IF seen > 0
          THEN UNCHANGED <<pusher, budget>>
          ELSE pusher' = [pusher EXCEPT ![c] = "idle"] /\ budget' = budget + 1
  /\ UNCHANGED <<globalCount, mainVars, pc, taskVars, occupancy>>

PusherPush(c) ==
  /\ pusher[c] = "push"
  /\ occupancy[c] + 1 <= ChannelBufferSize
  /\ occupancy' = [occupancy EXCEPT ![c] = @ + 1]
  /\ pusher' = [pusher EXCEPT ![c] = "idle"]
  /\ UNCHANGED <<globalCount, mainVars, pc, taskVars, prevCount, budget>>

PusherPushFails(c) ==
  /\ pusher[c] = "push"
  /\ occupancy[c] + 1 > ChannelBufferSize \/ StaleViews
  /\ pusher' = [pusher EXCEPT ![c] = "undo"]
  /\ UNCHANGED <<globalCount, mainVars, pc, taskVars, occupancy, prevCount, budget>>

(* The channel was full: the announced task is taken back.                  *)
PusherUndo(c) ==
  /\ pusher[c] = "undo"
  /\ globalCount' = globalCount - 1
  /\ pusher' = [pusher EXCEPT ![c] = "idle"]
  /\ budget' = budget + 1
  /\ UNCHANGED <<mainVars, pc, taskVars, occupancy, prevCount>>

-----------------------------------------------------------------------------
Worker(w) ==
  \/ WaitStart(w) \/ LoadCount(w) \/ LoadStop(w) \/ LeaveInner(w) \/ EnterRound(w)
  \/ PopTask(w) \/ PopNothing(w) \/ Take(w) \/ EnqueueGlobal(w)
  \/ PushBatchSelf(w) \/ PushBatch(w) \/ PushBatchFails(w) \/ EndEnqueue(w)
  \/ CompleteTask(w) \/ FlushOutBuffer(w)

PusherStep(c) ==
  CasSucceeds(c) \/ CasFails(c) \/ PusherPush(c) \/ PusherPushFails(c) \/ PusherUndo(c)

AllDone == \A w \in Workers : pc[w] = "done"

(* Every worker waits at safeToDeallocateSignal_ and no call is under way.  *)
Finished ==
  /\ AllDone
  /\ \A c \in Channels : pusher[c] = "idle"
  /\ UNCHANGED vars

Next ==
  \/ \E w \in Workers : PushUnsafe(w) \/ CountUnsafe(w) \/ Worker(w)
  \/ \E c \in SelfPushChannels : PusherLoad(c) \/ PusherStep(c)
  \/ ProcessQueue
  \/ RequestStop
  \/ Finished

Spec == Init /\ [][Next]_vars

(* Each worker has a thread, pinned to a core of its own; a call that has   *)
(* begun is finished.  Nobody has to call anything.                         *)
Fairness ==
  /\ \A w \in Workers : WF_vars(Worker(w))
  /\ \A w \in Workers : WF_vars(CountUnsafe(w))
  /\ \A c \in SelfPushChannels : WF_vars(PusherStep(c))
  /\ WF_vars(stopsSent > 0 /\ RequestStop)
  /\ WF_vars(stopsSent > 0 /\ ProcessQueue)

FairSpec == Spec /\ Fairness

-----------------------------------------------------------------------------
(* What the counters owe to each worker and to each channel.               *)

InHand(w) == IF pc[w] \in {"process", "pushing"} THEN 1 ELSE 0
Uncounted(w) == IF loader[w] = "count" THEN 1 ELSE 0
Announced(c) == IF pusher[c] \in {"push", "undo"} THEN 1 ELSE 0

WorkerTasks == [w \in Workers |-> queueSize[w] + outCount[w] + InHand(w)]
ChannelTasks == [c \in Channels |-> occupancy[c] + Announced(c)]

(* A worker's tasks that are not in its localCount_.                        *)
WorkerShare == [w \in Workers |-> WorkerTasks[w] - Uncounted(w) - localCount[w]]

LiveTasks == SumTo(WorkerTasks, NumWorkers) + SumTo(ChannelTasks, NumChannels)

(* The global counter is exactly what the local counters leave open: every  *)
(* task in a local queue, an outgoing buffer, a channel or a processElement,*)
(* and every push that has been announced by pushDuringProcessing, is in    *)
(* exactly one counter, through all splits and refills of localCount_       *)
(* (incrGlobalCount, decrGlobalCount, the CAS and its undoing).             *)
Account ==
  globalCount = SumTo(WorkerShare, NumWorkers) + SumTo(ChannelTasks, NumChannels)

(* A worker never counts locally everything it holds: between two tasks its *)
(* localCount_ is below the length of its queue, or zero; while it has a    *)
(* task in its hands the two may be equal.  So a worker with work is always *)
(* visible in globalCount_.                                                 *)
LocalCountCovered ==
  \A w \in Workers :
    /\ InHand(w) = 1 => localCount[w] <= queueSize[w]
    /\ InHand(w) = 0 => localCount[w] < queueSize[w] \/ localCount[w] = 0

(* run() calls top() and pop() only on a queue that has an element.         *)
TakeHasTask == \A w \in Workers : pc[w] = "take" => queueSize[w] > 0

(* enqueueGlobal always finds a free place in outBuffer_ (the assert on its *)
(* first line): outside of its loop the buffer holds less than a batch of   *)
(* the channel that is next in the table, whichever channels were full and  *)
(* however the batches differ.                                              *)
OutBufferRoom ==
  \A w \in Workers :
    pc[w] # "pushing" => outCount[w] < BatchSize[CurrentChannel(w)]

NoTaskAnywhere ==
  /\ \A w \in Workers : WorkerTasks[w] = 0
  /\ \A c \in Channels : ChannelTasks[c] = 0

(* The comment on globalCount_: it "is zero if and only if there is no task *)
(* in the queue", also after a stop, unless a pushBeforeProcessing has put  *)
(* its task in and not yet counted it.                                      *)
ZeroIffEmpty == NoLoaderBusy => (globalCount = 0 <=> NoTaskAnywhere)

(* While a worker is still to learn that there is no work left, none has    *)
(* gone home without being told to, so a channel always has a receiver who  *)
(* will drain it and the target of pushDuringProcessing is still there.     *)
NobodyLeavesWork ==
  \A w \in Workers : pc[w] = "done" => StopRequested(w) \/ globalCount = 0

(* Once the running queue is empty it stays empty: no push, from within or  *)
(* from without, revives a count of zero.                                   *)
NeverRevived ==
  [][startSignal /\ NoLoaderBusy /\ globalCount = 0 => globalCount' = 0]_vars

(* A queue that was started is completed: with finitely many tasks, every   *)
(* worker reaches the end of run(), although pushes between workers and     *)
(* from without find channels full and batches are left over in outBuffer_. *)
Termination == startSignal ~> AllDone

(* After requestStop all workers leave even when the work never ends, one   *)
(* that always finds tasks in its own queue and full channels included.     *)
StopTerminates == stopsSent > 0 ~> AllDone

Pool == INSTANCE TaskPool WITH
          Members <- Workers,
          live <- LiveTasks,
          started <- startSignal,
          stopping <- stopsSent > 0,
          left <- {w \in Workers : pc[w] = "done"}

(* The queue is a pool of tasks with termination detection.                 *)
PoolSpec == Pool!Spec
=============================================================================
