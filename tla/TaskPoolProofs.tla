--------------------------- MODULE TaskPoolProofs ---------------------------
(***************************************************************************)
(* SpapQueue implements TaskPool: a proof for every network and every       *)
(* number of tasks.                                                         *)
(***************************************************************************)
EXTENDS SpapQueueProofs

-----------------------------------------------------------------------------
(* How many tasks live                                                      *)

(* A step that changes one worker's tasks by d and one channel's by e       *)
(* changes the number of live tasks by both.                                *)
LEMMA LiveStep ==
  ASSUME TypeOK, TypeOK',
         NEW w \in Workers, NEW c \in Channels, NEW d \in Int, NEW e \in Int,
         \A v \in Workers : WorkerTasks'[v] = WorkerTasks[v] + (IF v = w THEN d ELSE 0),
         \A b \in Channels : ChannelTasks'[b] = ChannelTasks[b] + (IF b = c THEN e ELSE 0)
  PROVE  LiveTasks' = LiveTasks + d + e
<1> DEFINE f == WorkerTasks
           g == WorkerTasks'
           h == ChannelTasks
           k == ChannelTasks'
<1>1. /\ f \in [0 .. NumWorkers - 1 -> Nat] /\ h \in [0 .. NumChannels - 1 -> Nat]
      /\ NumWorkers \in Nat /\ NumChannels \in Nat
  BY SharesType, NetworkIs DEF SharesOK
<1>2. g \in [0 .. NumWorkers - 1 -> Nat] /\ k \in [0 .. NumChannels - 1 -> Nat]
  BY SharesTypeNext DEF SharesOK
<1>3. /\ \A v \in 0 .. NumWorkers - 1 : g[v] = f[v] + (IF v = w THEN d ELSE 0)
      /\ \A b \in 0 .. NumChannels - 1 : k[b] = h[b] + (IF b = c THEN e ELSE 0)
      /\ w \in 0 .. NumWorkers - 1 /\ c \in 0 .. NumChannels - 1
  BY DEF Workers, Channels
<1>4. /\ LiveTasks = SumTo(f, NumWorkers) + SumTo(h, NumChannels)
      /\ LiveTasks' = SumTo(g, NumWorkers) + SumTo(k, NumChannels)
  BY DEF LiveTasks
<1> HIDE DEF f, g, h, k
<1>5. /\ f \in [0 .. NumWorkers - 1 -> Int] /\ h \in [0 .. NumChannels - 1 -> Int]
      /\ g \in [0 .. NumWorkers - 1 -> Int] /\ k \in [0 .. NumChannels - 1 -> Int]
  BY <1>1, <1>2
<1>6. /\ g[w] = f[w] + d /\ \A v \in 0 .. NumWorkers - 1 : v # w => g[v] = f[v]
      /\ k[c] = h[c] + e /\ \A b \in 0 .. NumChannels - 1 : b # c => k[b] = h[b]
  BY <1>3, <1>5, SMTT(20)
<1>7. SumTo(g, NumWorkers) = SumTo(f, NumWorkers) + d
  BY <1>1, <1>3, <1>5, <1>6, SumUpdate
<1>8. SumTo(k, NumChannels) = SumTo(h, NumChannels) + e
  BY <1>1, <1>3, <1>5, <1>6, SumUpdate, ZenonT(60)
<1>9. SumTo(f, NumWorkers) \in Int /\ SumTo(h, NumChannels) \in Int
  BY <1>1, <1>5, SumType
<1> QED BY <1>4, <1>7, <1>8, <1>9

(* The live tasks are at least those of any worker and any channel.         *)
LEMMA LiveBounds ==
  ASSUME TypeOK
  PROVE  /\ LiveTasks \in Int
         /\ \A w \in Workers : WorkerTasks[w] > 0 => LiveTasks > 0
         /\ \A c \in Channels : ChannelTasks[c] > 0 => LiveTasks > 0
<1> DEFINE f == WorkerTasks
           h == ChannelTasks
<1>1. /\ f \in [0 .. NumWorkers - 1 -> Nat] /\ h \in [0 .. NumChannels - 1 -> Nat]
      /\ NumWorkers \in Nat /\ NumChannels \in Nat
  BY SharesType, NetworkIs DEF SharesOK
<1>2. LiveTasks = SumTo(f, NumWorkers) + SumTo(h, NumChannels)
  BY DEF LiveTasks
<1> HIDE DEF f, h
<1>3. /\ f \in [0 .. NumWorkers - 1 -> Int] /\ \A j \in 0 .. NumWorkers - 1 : f[j] >= 0
      /\ h \in [0 .. NumChannels - 1 -> Int] /\ \A j \in 0 .. NumChannels - 1 : h[j] >= 0
  BY <1>1
<1>4. SumTo(f, NumWorkers) \in Int /\ SumTo(h, NumChannels) \in Int
  BY <1>1, <1>3, SumType
<1>5. /\ SumTo(f, NumWorkers) >= 0
      /\ \A w \in 0 .. NumWorkers - 1 : SumTo(f, NumWorkers) >= f[w]
  BY <1>1, <1>3, SumBounds
<1>6. /\ SumTo(h, NumChannels) >= 0
      /\ \A c \in 0 .. NumChannels - 1 : SumTo(h, NumChannels) >= h[c]
  BY <1>1, <1>3, SumBounds
<1>7. ASSUME NEW w \in 0 .. NumWorkers - 1, f[w] > 0 PROVE LiveTasks > 0
  <2>1. f[w] \in Int /\ SumTo(f, NumWorkers) >= f[w]
    BY <1>3, <1>5
  <2> QED BY <1>2, <1>4, <1>6, <1>7, <2>1
<1>8. ASSUME NEW c \in 0 .. NumChannels - 1, h[c] > 0 PROVE LiveTasks > 0
  <2>1. h[c] \in Int /\ SumTo(h, NumChannels) >= h[c]
    BY <1>3, <1>6
  <2> QED BY <1>2, <1>4, <1>5, <1>8, <2>1
<1> QED BY <1>2, <1>4, <1>7, <1>8 DEF f, h, Workers, Channels

(* No task anywhere: none lives.                                            *)
LEMMA LiveZero == TypeOK /\ NoTaskAnywhere => LiveTasks = 0
<1> SUFFICES ASSUME TypeOK, NoTaskAnywhere PROVE LiveTasks = 0
  OBVIOUS
<1>1. /\ WorkerTasks \in [0 .. NumWorkers - 1 -> Int]
      /\ ChannelTasks \in [0 .. NumChannels - 1 -> Int]
      /\ NumWorkers \in Nat /\ NumChannels \in Nat
  BY SharesType, NetworkIs DEF SharesOK
<1>2. SumTo(WorkerTasks, NumWorkers) = 0
  BY <1>1, SumZero DEF NoTaskAnywhere, Workers
<1>3. SumTo(ChannelTasks, NumChannels) = 0
  BY <1>1, SumZero DEF NoTaskAnywhere, Channels
<1> QED BY <1>2, <1>3 DEF LiveTasks

(* A count that is positive has a task to count.                            *)
LEMMA LiveWhenCounted == IInv /\ globalCount > 0 => LiveTasks > 0
<1> SUFFICES ASSUME IInv, globalCount > 0 PROVE LiveTasks > 0
  OBVIOUS
<1>1. ~ NoTaskAnywhere
  BY ZeroWhenEmpty
<1>2. TypeOK /\ SharesOK
  BY SharesType DEF IInv
<1>3. \/ \E w \in Workers : WorkerTasks[w] # 0
      \/ \E c \in Channels : ChannelTasks[c] # 0
  BY <1>1 DEF NoTaskAnywhere
<1>4. \/ \E w \in Workers : WorkerTasks[w] > 0
      \/ \E c \in Channels : ChannelTasks[c] > 0
  BY <1>2, <1>3 DEF SharesOK, Workers, Channels
<1> QED BY <1>2, <1>4, LiveBounds

(* There is a worker and a channel, for the steps that touch only one.      *)
LEMMA SomeWorkerAndChannel == 0 \in Workers /\ 0 \in Channels
BY NetworkIs DEF Workers, Channels

(* Steps that touch one worker only.                                        *)
LEMMA LiveWorker ==
  ASSUME TypeOK, TypeOK', NEW w \in Workers, NEW d \in Int,
         \A v \in Workers : WorkerTasks'[v] = WorkerTasks[v] + (IF v = w THEN d ELSE 0),
         ChannelTasks' = ChannelTasks
  PROVE  LiveTasks' = LiveTasks + d
<1>1. \A b \in Channels : ChannelTasks[b] \in Nat
  BY SharesType DEF SharesOK, Channels
<1>2. \A b \in Channels : ChannelTasks'[b] = ChannelTasks[b] + (IF b = 0 THEN 0 ELSE 0)
  BY <1>1
<1>3. LiveTasks' = LiveTasks + d + 0
  BY <1>2, LiveStep, SomeWorkerAndChannel
<1> QED BY <1>3, LiveBounds

(* Steps that touch one channel only.                                       *)
LEMMA LiveChannel ==
  ASSUME TypeOK, TypeOK', NEW c \in Channels, NEW e \in Int,
         WorkerTasks' = WorkerTasks,
         \A b \in Channels : ChannelTasks'[b] = ChannelTasks[b] + (IF b = c THEN e ELSE 0)
  PROVE  LiveTasks' = LiveTasks + e
<1>1. \A v \in Workers : WorkerTasks[v] \in Nat
  BY SharesType DEF SharesOK, Workers
<1>2. \A v \in Workers : WorkerTasks'[v] = WorkerTasks[v] + (IF v = 0 THEN 0 ELSE 0)
  BY <1>1
<1>3. LiveTasks' = LiveTasks + 0 + e
  BY <1>2, LiveStep, SomeWorkerAndChannel
<1> QED BY <1>3, LiveBounds

-----------------------------------------------------------------------------
(* What each step does to them                                              *)

(* The tasks of a worker and of a channel, as numbers.                      *)
LEMMA TasksAre ==
  ASSUME TypeOK, TypeOK'
  PROVE  /\ \A v \in Workers : /\ WorkerTasks[v] = queueSize[v] + outCount[v] + InHand(v)
                               /\ WorkerTasks'[v] = queueSize'[v] + outCount'[v] + InHand(v)'
                               /\ queueSize[v] \in Nat /\ outCount[v] \in Nat
                               /\ queueSize'[v] \in Nat /\ outCount'[v] \in Nat
                               /\ InHand(v) \in {0, 1} /\ InHand(v)' \in {0, 1}
         /\ \A b \in Channels : /\ ChannelTasks[b] = occupancy[b] + Announced(b)
                                /\ ChannelTasks'[b] = occupancy'[b] + Announced(b)'
                                /\ occupancy[b] \in Nat /\ occupancy'[b] \in Nat
                                /\ Announced(b) \in {0, 1} /\ Announced(b)' \in {0, 1}
<1>1. \A v \in Workers : /\ queueSize[v] \in Nat /\ outCount[v] \in Nat
                         /\ InHand(v) \in {0, 1} /\ InHand(v)' \in {0, 1}
  BY NetworkIs DEF TypeOK, InHand
<1>2. \A v \in Workers : queueSize'[v] \in Nat /\ outCount'[v] \in Nat
  BY NetworkIs DEF TypeOK
<1>3. \A b \in Channels : /\ occupancy[b] \in Nat /\ occupancy'[b] \in Nat
                          /\ Announced(b) \in {0, 1} /\ Announced(b)' \in {0, 1}
  BY NetworkIs DEF TypeOK, Announced
<1> QED BY <1>1, <1>2, <1>3, ShareValue, ShareValueNext, ChannelValue

(* A task that is handed to a worker before the start.                      *)
LEMMA PushUnsafeAdds ==
  ASSUME TypeOK, TypeOK', NEW w \in Workers, PushUnsafe(w)
  PROVE  LiveTasks' = LiveTasks + 1
<1>1. ChannelTasks' = ChannelTasks
  BY DEF ChannelTasks, Announced, PushUnsafe, pushVars
<1>2. \A v \in Workers : /\ queueSize'[v] = queueSize[v] + (IF v = w THEN 1 ELSE 0)
                         /\ outCount'[v] = outCount[v] /\ InHand(v)' = InHand(v)
  <2>1. outCount' = outCount /\ pc' = pc /\ queueSize' = [queueSize EXCEPT ![w] = @ + 1]
    BY DEF PushUnsafe
  <2>2. \A v \in Workers : queueSize[v] \in Nat
    BY TasksAre
  <2>3. \A v \in Workers : queueSize'[v] = IF v = w THEN queueSize[v] + 1 ELSE queueSize[v]
    BY <2>1 DEF TypeOK
  <2> QED BY <2>1, <2>2, <2>3 DEF InHand
<1>3. \A v \in Workers : WorkerTasks'[v] = WorkerTasks[v] + (IF v = w THEN 1 ELSE 0)
  BY <1>2, TasksAre
<1> QED BY <1>1, <1>3, LiveWorker

(* A child: it is in outBuffer_ now.                                        *)
LEMMA EnqueueGlobalAdds ==
  ASSUME TypeOK, TypeOK', NEW w \in Workers, EnqueueGlobal(w)
  PROVE  LiveTasks' = LiveTasks + 1
<1>1. ChannelTasks' = ChannelTasks
  BY DEF ChannelTasks, Announced, EnqueueGlobal, pushVars
<1>2. \A v \in Workers : /\ queueSize'[v] = queueSize[v]
                         /\ outCount'[v] = outCount[v] + (IF v = w THEN 1 ELSE 0)
                         /\ InHand(v)' = InHand(v)
  <2>1. /\ queueSize' = queueSize /\ outCount' = [outCount EXCEPT ![w] = @ + 1]
        /\ \A v \in Workers : outCount[v] \in Nat
    BY TasksAre DEF EnqueueGlobal
  <2>2. \A v \in Workers : InHand(v)' = InHand(v)
    BY DEF EnqueueGlobal, Goto, InHand, TypeOK
  <2>3. \A v \in Workers : outCount'[v] = IF v = w THEN outCount[v] + 1 ELSE outCount[v]
    BY <2>1 DEF TypeOK
  <2> QED BY <2>1, <2>2, <2>3
<1>3. \A v \in Workers : WorkerTasks'[v] = WorkerTasks[v] + (IF v = w THEN 1 ELSE 0)
  BY <1>2, TasksAre
<1> QED BY <1>1, <1>3, LiveWorker

(* The task in hand is done with.                                           *)
LEMMA CompleteTaskRemoves ==
  ASSUME TypeOK, TypeOK', NEW w \in Workers, CompleteTask(w)
  PROVE  LiveTasks' = LiveTasks - 1
<1>1. ChannelTasks' = ChannelTasks
  BY DEF ChannelTasks, Announced, CompleteTask, pushVars
<1>2. \A v \in Workers : /\ queueSize'[v] = queueSize[v] /\ outCount'[v] = outCount[v]
                         /\ InHand(v)' = InHand(v) + (IF v = w THEN -1 ELSE 0)
  <2>1. queueSize' = queueSize /\ outCount' = outCount
    BY DEF CompleteTask
  <2>2. InHand(w) = 1 /\ InHand(w)' = 0
    BY DEF CompleteTask, Goto, InHand, TypeOK
  <2>3. \A v \in Workers : v # w => InHand(v)' = InHand(v)
    BY DEF CompleteTask, Goto, InHand, TypeOK
  <2>4. \A v \in Workers : InHand(v) \in {0, 1}
    BY TasksAre
  <2> QED BY <2>1, <2>2, <2>3, <2>4
<1>3. \A v \in Workers : WorkerTasks'[v] = WorkerTasks[v] + (IF v = w THEN -1 ELSE 0)
  BY <1>2, TasksAre
<1>4. LiveTasks' = LiveTasks + (-1)
  BY <1>1, <1>3, LiveWorker
<1> QED BY <1>4, LiveBounds

(* An announcement from outside, and its undoing.                           *)
LEMMA AnnouncementCounts ==
  ASSUME TypeOK, TypeOK', NEW c \in SelfPushChannels, CasSucceeds(c) \/ PusherUndo(c)
  PROVE  /\ CasSucceeds(c) => LiveTasks' = LiveTasks + 1
         /\ PusherUndo(c) => LiveTasks' = LiveTasks - 1
<1>1. c \in Channels
  BY DEF SelfPushChannels
<1>2. WorkerTasks' = WorkerTasks
  BY DEF WorkerTasks, InHand, CasSucceeds, PusherUndo, taskVars
<1>3. ASSUME CasSucceeds(c) PROVE LiveTasks' = LiveTasks + 1
  <2>1. \A b \in Channels : /\ occupancy'[b] = occupancy[b]
                            /\ Announced(b)' = Announced(b) + (IF b = c THEN 1 ELSE 0)
    BY <1>1, <1>3 DEF CasSucceeds, Announced, TypeOK
  <2>2. \A b \in Channels : ChannelTasks'[b] = ChannelTasks[b] + (IF b = c THEN 1 ELSE 0)
    BY <2>1, TasksAre
  <2> QED BY <1>1, <1>2, <2>2, LiveChannel
<1>4. ASSUME PusherUndo(c) PROVE LiveTasks' = LiveTasks - 1
  <2>1. \A b \in Channels : /\ occupancy'[b] = occupancy[b]
                            /\ Announced(b)' = Announced(b) + (IF b = c THEN -1 ELSE 0)
    BY <1>1, <1>4 DEF PusherUndo, Announced, TypeOK
  <2>2. \A b \in Channels : ChannelTasks'[b] = ChannelTasks[b] + (IF b = c THEN -1 ELSE 0)
    BY <2>1, TasksAre
  <2>3. LiveTasks' = LiveTasks + (-1)
    BY <1>1, <1>2, <2>2, LiveChannel
  <2> QED BY <2>3, LiveBounds
<1> QED BY <1>3, <1>4

(* A worker pops a task, takes one into its hands, or moves its buffer: the *)
(* task changes its place.                                                  *)
LEMMA PopTaskMoves ==
  ASSUME TypeOK, TypeOK', NEW w \in Workers, PopTask(w)
  PROVE  LiveTasks' = LiveTasks
<1> DEFINE c == InPorts[w][port[w]]
<1>1. c \in Channels
  <2>1. port[w] \in Nat \ {0} /\ port[w] <= Len(InPorts[w])
    BY DEF TypeOK
  <2> QED BY <2>1, TablesType
<1>2. \A v \in Workers : /\ queueSize'[v] = queueSize[v] + (IF v = w THEN 1 ELSE 0)
                         /\ outCount'[v] = outCount[v] /\ InHand(v)' = InHand(v)
  <2>1. /\ outCount' = outCount /\ pc' = pc /\ queueSize' = [queueSize EXCEPT ![w] = @ + 1]
        /\ \A v \in Workers : queueSize[v] \in Nat
    BY TasksAre DEF PopTask
  <2>2. \A v \in Workers : queueSize'[v] = IF v = w THEN queueSize[v] + 1 ELSE queueSize[v]
    BY <2>1 DEF TypeOK
  <2> QED BY <2>1, <2>2 DEF InHand
<1>3. \A b \in Channels : /\ occupancy'[b] = occupancy[b] + (IF b = c THEN -1 ELSE 0)
                          /\ Announced(b)' = Announced(b)
  <2>1. /\ pusher' = pusher /\ occupancy' = [occupancy EXCEPT ![c] = @ - 1]
        /\ \A b \in Channels : occupancy[b] \in Nat
    BY TasksAre DEF PopTask, pushVars
  <2> HIDE DEF c
  <2>2. \A b \in Channels : occupancy'[b] = IF b = c THEN occupancy[b] - 1 ELSE occupancy[b]
    BY <2>1 DEF TypeOK
  <2> QED BY <2>1, <2>2 DEF Announced
<1> HIDE DEF c
<1>4. \A v \in Workers : WorkerTasks'[v] = WorkerTasks[v] + (IF v = w THEN 1 ELSE 0)
  BY <1>2, TasksAre
<1>5. \A b \in Channels : ChannelTasks'[b] = ChannelTasks[b] + (IF b = c THEN -1 ELSE 0)
  BY <1>3, TasksAre
<1>6. LiveTasks' = LiveTasks + 1 + (-1)
  BY <1>1, <1>4, <1>5, LiveStep
<1> QED BY <1>6, LiveBounds

(* A batch leaves for another worker.                                       *)
LEMMA PushBatchMoves ==
  ASSUME TypeOK, TypeOK', NEW w \in Workers, PushBatch(w)
  PROVE  LiveTasks' = LiveTasks
<1> DEFINE c == CurrentChannel(w)
           n == BatchSize[c]
<1>1. c \in Channels /\ n \in Nat
  BY CurrentChannelType, NetworkIs
<1>2. \A v \in Workers : /\ outCount'[v] = outCount[v] + (IF v = w THEN -n ELSE 0)
                         /\ queueSize'[v] = queueSize[v] /\ InHand(v)' = InHand(v)
  <2>1. /\ queueSize' = queueSize /\ pc' = pc /\ outCount' = [outCount EXCEPT ![w] = @ - n]
        /\ \A v \in Workers : outCount[v] \in Nat
    BY TasksAre DEF PushBatch
  <2> HIDE DEF c, n
  <2>2. \A v \in Workers : outCount'[v] = IF v = w THEN outCount[v] - n ELSE outCount[v]
    BY <2>1 DEF TypeOK
  <2> QED BY <1>1, <2>1, <2>2 DEF InHand
<1>3. \A b \in Channels : /\ occupancy'[b] = occupancy[b] + (IF b = c THEN n ELSE 0)
                          /\ Announced(b)' = Announced(b)
  <2>1. /\ pusher' = pusher /\ occupancy' = [occupancy EXCEPT ![c] = @ + n]
        /\ \A b \in Channels : occupancy[b] \in Nat
    BY TasksAre DEF PushBatch, pushVars
  <2> HIDE DEF c, n
  <2>2. \A b \in Channels : occupancy'[b] = IF b = c THEN occupancy[b] + n ELSE occupancy[b]
    BY <2>1 DEF TypeOK
  <2> QED BY <1>1, <2>1, <2>2 DEF Announced
<1> HIDE DEF c, n
<1>4. \A v \in Workers : WorkerTasks'[v] = WorkerTasks[v] + (IF v = w THEN -n ELSE 0)
  BY <1>1, <1>2, TasksAre
<1>5. \A b \in Channels : ChannelTasks'[b] = ChannelTasks[b] + (IF b = c THEN n ELSE 0)
  BY <1>1, <1>3, TasksAre
<1>6. -n \in Int /\ n \in Int
  BY <1>1
<1>7. LiveTasks' = LiveTasks + (-n) + n
  BY <1>1, <1>4, <1>5, <1>6, LiveStep
<1> QED BY <1>1, <1>7, LiveBounds

(* Steps of a worker within its own containers.                             *)
LEMMA OwnTasksMove ==
  ASSUME TypeOK, TypeOK', NEW w \in Workers,
         Take(w) \/ PushBatchSelf(w) \/ EndEnqueue(w) \/ FlushOutBuffer(w)
  PROVE  LiveTasks' = LiveTasks
<1>1. ChannelTasks' = ChannelTasks
  BY DEF ChannelTasks, Announced, Take, PushBatchSelf, EndEnqueue, FlushOutBuffer, pushVars
<1>2. ASSUME NEW v \in Workers, v # w
      PROVE  queueSize'[v] = queueSize[v] /\ outCount'[v] = outCount[v] /\ InHand(v)' = InHand(v)
  <2>1. queueSize'[v] = queueSize[v] /\ outCount'[v] = outCount[v]
    BY <1>2, ZenonT(60) DEF Take, PushBatchSelf, EndEnqueue, FlushOutBuffer, PushOutBufferSelf, TypeOK
  <2>2. pc' = pc \/ \E label \in PcValues : pc' = [pc EXCEPT ![w] = label]
    BY DEF Take, PushBatchSelf, EndEnqueue, FlushOutBuffer, Goto, PcValues
  <2> QED BY <1>2, <2>1, <2>2 DEF InHand, TypeOK
<1>3. queueSize'[w] + outCount'[w] + InHand(w)' = queueSize[w] + outCount[w] + InHand(w)
  <2>1. CASE Take(w)
    <3>1. /\ queueSize'[w] = queueSize[w] - 1 /\ outCount'[w] = outCount[w]
          /\ InHand(w) = 0 /\ InHand(w)' = 1
      BY <2>1 DEF Take, Goto, InHand, TypeOK
    <3> QED BY <3>1, TasksAre
  <2>2. CASE PushBatchSelf(w)
    <3> DEFINE n == BatchSize[CurrentChannel(w)]
    <3>1. n \in Nat
      BY CurrentChannelType, NetworkIs
    <3>2. /\ queueSize'[w] = queueSize[w] + n /\ outCount'[w] = outCount[w] - n
          /\ InHand(w)' = InHand(w)
      BY <2>2 DEF PushBatchSelf, InHand, TypeOK
    <3> HIDE DEF n
    <3> QED BY <3>1, <3>2, TasksAre
  <2>3. CASE EndEnqueue(w) \/ FlushOutBuffer(w)
    <3>1. InHand(w)' = InHand(w)
      BY <2>3 DEF EndEnqueue, FlushOutBuffer, Goto, InHand, TypeOK
    <3>2. \/ queueSize'[w] = queueSize[w] /\ outCount'[w] = outCount[w]
          \/ queueSize'[w] = queueSize[w] + outCount[w] /\ outCount'[w] = 0
      BY <2>3 DEF EndEnqueue, FlushOutBuffer, PushOutBufferSelf, TypeOK
    <3> QED BY <3>1, <3>2, TasksAre
  <2> QED BY <2>1, <2>2, <2>3
<1>4. \A v \in Workers : WorkerTasks'[v] = WorkerTasks[v] + (IF v = w THEN 0 ELSE 0)
  BY <1>2, <1>3, TasksAre
<1>5. LiveTasks' = LiveTasks + 0
  BY <1>1, <1>4, LiveWorker
<1> QED BY <1>5, LiveBounds

(* The announced task arrives in the channel.                               *)
LEMMA PusherPushMoves ==
  ASSUME TypeOK, TypeOK', NEW c \in SelfPushChannels, PusherPush(c)
  PROVE  LiveTasks' = LiveTasks
<1>1. c \in Channels
  BY DEF SelfPushChannels
<1>2. WorkerTasks' = WorkerTasks
  BY DEF WorkerTasks, InHand, PusherPush, taskVars
<1>3. \A b \in Channels :
        /\ occupancy'[b] = occupancy[b] + (IF b = c THEN 1 ELSE 0)
        /\ Announced(b)' = Announced(b) + (IF b = c THEN -1 ELSE 0)
  <2>1. /\ occupancy' = [occupancy EXCEPT ![c] = @ + 1]
        /\ \A b \in Channels : occupancy[b] \in Nat /\ Announced(b) \in {0, 1}
    BY TasksAre DEF PusherPush
  <2>2. \A b \in Channels : occupancy'[b] = IF b = c THEN occupancy[b] + 1 ELSE occupancy[b]
    BY <2>1 DEF TypeOK
  <2>3. Announced(c) = 1 /\ Announced(c)' = 0
    BY <1>1 DEF PusherPush, Announced, TypeOK
  <2>4. \A b \in Channels : b # c => Announced(b)' = Announced(b)
    BY <1>1 DEF PusherPush, Announced, TypeOK
  <2> QED BY <2>1, <2>2, <2>3, <2>4
<1>4. \A b \in Channels : ChannelTasks'[b] = ChannelTasks[b] + (IF b = c THEN 0 ELSE 0)
  BY <1>3, TasksAre
<1>5. LiveTasks' = LiveTasks + 0
  BY <1>1, <1>2, <1>4, LiveChannel
<1> QED BY <1>5, LiveBounds

(* Where no task moves, no number changes.                                  *)
LEMMA QuietSteps ==
  ASSUME TypeOK, TypeOK', UNCHANGED <<queueSize, outCount, occupancy>>,
         \A v \in Workers : InHand(v)' = InHand(v),
         \A b \in Channels : Announced(b)' = Announced(b)
  PROVE  LiveTasks' = LiveTasks
<1>1. \A v \in Workers : WorkerTasks'[v] = WorkerTasks[v] + (IF v = 0 THEN 0 ELSE 0)
  BY TasksAre
<1>2. \A b \in Channels : ChannelTasks'[b] = ChannelTasks[b] + (IF b = 0 THEN 0 ELSE 0)
  BY TasksAre
<1>3. LiveTasks' = LiveTasks + 0 + 0
  BY <1>1, <1>2, LiveStep, SomeWorkerAndChannel
<1> QED BY <1>3, LiveBounds

-----------------------------------------------------------------------------
(* The refinement                                                           *)

Left == {w \in Workers : pc[w] = "done"}

(* What the pool sees of a step that is not the first or last of anything.  *)
SameMode == startSignal' = startSignal /\ stopsSent' = stopsSent /\ Left' = Left

(* A step in which nobody leaves, starts or stops is a stutter of the pool, *)
(* if no task comes or goes ...                                             *)
LEMMA QuietRefines ==
  ASSUME SameMode, LiveTasks' = LiveTasks
  PROVE  UNCHANGED Pool!vars
BY DEF SameMode, Left, Pool!vars

(* ... and otherwise one of these.                                          *)
LEMMA CountRefines ==
  ASSUME SameMode
  PROVE  /\ ~startSignal /\ LiveTasks' = LiveTasks + 1 => Pool!Load
         /\ startSignal /\ LiveTasks > 0 /\ LiveTasks' = LiveTasks + 1 => Pool!Add
         /\ startSignal /\ LiveTasks > 0 /\ LiveTasks' = LiveTasks - 1 => Pool!Complete
BY DEF SameMode, Left, Pool!Load, Pool!Add, Pool!Complete

(* A worker that is at work was started; nobody pushes from outside before. *)
LEMMA AtWork ==
  ASSUME IInv
  PROVE  /\ \A w \in Workers : pc[w] # "waitStart" => startSignal
         /\ \A c \in Channels : pusher[c] # "idle" => startSignal
BY DEF IInv, BeforeStart

(* What moves a label, but not to the end, leaves the set of those that     *)
(* have gone as it is.                                                      *)
LEMMA LeftSame ==
  ASSUME TypeOK, NEW w \in Workers, pc[w] # "done",
         NEW label, label # "done", pc' = [pc EXCEPT ![w] = label]
  PROVE  Left' = Left
BY DEF Left, TypeOK

(* The workers' steps that move no task and end no worker.                  *)
LEMMA WorkerQuiet ==
  ASSUME TypeOK, TypeOK', NEW w \in Workers,
         \/ WaitStart(w) \/ LeaveInner(w) \/ EnterRound(w) \/ PopNothing(w)
         \/ PushBatchFails(w)
         \/ (LoadCount(w) \/ LoadStop(w)) /\ pc'[w] # "done"
  PROVE  UNCHANGED Pool!vars
<1>1. UNCHANGED <<queueSize, outCount, occupancy, pusher, startSignal, stopsSent>>
  BY DEF WaitStart, LeaveInner, EnterRound, PopNothing, PushBatchFails, LoadCount, LoadStop,
     mainVars, taskVars, pushVars
<1>2. \/ pc' = pc
      \/ /\ pc[w] \in {"waitStart", "inner", "drainInner", "drainOuter", "loadCount", "loadStop"}
         /\ \E label \in {"loadCount", "drainOuter", "drainInner", "take", "flush", "loadStop",
                          "inner"} : pc' = [pc EXCEPT ![w] = label]
  BY ZenonT(60) DEF WaitStart, LeaveInner, EnterRound, PopNothing, PushBatchFails, LoadCount, LoadStop,
     Goto, AfterDrain, TypeOK
<1>3. Left' = Left
  <2>1. CASE pc' = pc
    BY <2>1 DEF Left
  <2> QED BY <1>2, <2>1, LeftSame
<1>4. \A v \in Workers : InHand(v)' = InHand(v)
  BY <1>2, ZenonT(60) DEF InHand, TypeOK
<1>5. \A b \in Channels : Announced(b)' = Announced(b)
  BY <1>1 DEF Announced
<1>6. LiveTasks' = LiveTasks
  BY <1>1, <1>4, <1>5, QuietSteps
<1> QED BY <1>1, <1>3, <1>6, QuietRefines DEF SameMode

(* The workers' steps that move a task.                                     *)
LEMMA WorkerMoves ==
  ASSUME TypeOK, TypeOK', NEW w \in Workers,
         \/ PopTask(w) \/ Take(w) \/ PushBatchSelf(w) \/ PushBatch(w)
         \/ EndEnqueue(w) \/ FlushOutBuffer(w)
  PROVE  UNCHANGED Pool!vars
<1>1. UNCHANGED <<startSignal, stopsSent>>
  BY DEF PopTask, Take, PushBatchSelf, PushBatch, EndEnqueue, FlushOutBuffer, mainVars
<1>2. \/ pc' = pc
      \/ /\ pc[w] \in {"take", "pushing", "flush"}
         /\ \E label \in {"process", "loadCount"} : pc' = [pc EXCEPT ![w] = label]
  BY DEF PopTask, Take, PushBatchSelf, PushBatch, EndEnqueue, FlushOutBuffer, Goto
<1>3. Left' = Left
  <2>1. CASE pc' = pc
    BY <2>1 DEF Left
  <2> QED BY <1>2, <2>1, LeftSame
<1>4. LiveTasks' = LiveTasks
  BY PopTaskMoves, OwnTasksMove, PushBatchMoves
<1> QED BY <1>1, <1>3, <1>4, QuietRefines DEF SameMode

(* A worker goes home when it reads a zero, which means that no task lives, *)
(* or a request to stop.                                                    *)
LEMMA WorkerLeaves ==
  ASSUME IInv, IInv', NEW w \in Workers, LoadCount(w) \/ LoadStop(w), pc'[w] = "done"
  PROVE  Pool!Leave(w)
<1>1. /\ UNCHANGED <<queueSize, outCount, occupancy, pusher, startSignal, stopsSent>>
      /\ pc[w] \in {"loadCount", "loadStop"}
  BY DEF LoadCount, LoadStop, mainVars, taskVars, pushVars
<1>2. startSignal
  BY <1>1, AtWork
<1>3. pc' = [pc EXCEPT ![w] = "done"]
  BY DEF LoadCount, LoadStop, Goto, IInv, TypeOK
<1>4. Left' = Left \cup {w}
  BY <1>3 DEF Left, IInv, TypeOK
<1>5. \A v \in Workers : InHand(v)' = InHand(v)
  BY <1>1, <1>3 DEF InHand, IInv, TypeOK
<1>6. \A b \in Channels : Announced(b)' = Announced(b)
  BY <1>1 DEF Announced
<1>7. LiveTasks' = LiveTasks
  BY <1>1, <1>5, <1>6, QuietSteps DEF IInv
<1>8. globalCount = 0 \/ StopRequested(w)
  BY DEF LoadCount, LoadStop, Goto, IInv, TypeOK
<1>9. LiveTasks = 0 \/ stopsSent > 0
  <2>1. globalCount = 0 /\ NoLoaderBusy => LiveTasks = 0
    BY EmptyWhenZero, LiveZero DEF IInv
  <2>2. ~ NoLoaderBusy => stopsSent > 0
    BY <1>2, NetworkIs DEF IInv, TypeOK, BeforeStart, NoLoaderBusy
  <2>3. StopRequested(w) => stopsSent > 0
    BY NetworkIs DEF StopRequested, Workers, IInv, TypeOK
  <2> QED BY <1>8, <2>1, <2>2, <2>3
<1> QED BY <1>1, <1>2, <1>4, <1>7, <1>9 DEF Pool!Leave, Left

(* The workers' steps that make a task and complete one.                    *)
LEMMA WorkerCounts ==
  ASSUME IInv, IInv', NEW w \in Workers, EnqueueGlobal(w) \/ CompleteTask(w)
  PROVE  Pool!Add \/ Pool!Complete
<1>1. /\ UNCHANGED <<startSignal, stopsSent>> /\ pc[w] = "process"
      /\ \E label \in {"pushing", "inner"} : pc' = [pc EXCEPT ![w] = label]
  BY DEF EnqueueGlobal, CompleteTask, Goto, mainVars
<1>2. Left' = Left
  BY <1>1, LeftSame DEF IInv
<1>3. startSignal
  BY <1>1, AtWork
<1>4. LiveTasks > 0
  <2>1. WorkerTasks[w] = queueSize[w] + outCount[w] + 1 /\ queueSize[w] \in Nat /\ outCount[w] \in Nat
    BY <1>1, TasksAre DEF IInv, InHand
  <2>2. WorkerTasks[w] > 0
    BY <2>1
  <2> QED BY <2>2, LiveBounds DEF IInv
<1>5. LiveTasks' = LiveTasks + 1 \/ LiveTasks' = LiveTasks - 1
  BY EnqueueGlobalAdds, CompleteTaskRemoves DEF IInv
<1> QED BY <1>1, <1>2, <1>3, <1>4, <1>5, CountRefines DEF SameMode

(* The threads that push from outside.                                      *)
LEMMA PusherRefines ==
  ASSUME IInv, IInv', CasSawWork, NEW c \in SelfPushChannels, PusherLoad(c) \/ PusherStep(c)
  PROVE  [Pool!Next]_(Pool!vars)
<1>1. c \in Channels
  BY DEF SelfPushChannels
<1>2. UNCHANGED <<startSignal, stopsSent, pc, queueSize, outCount>>
  BY DEF PusherLoad, PusherStep, CasSucceeds, CasFails, PusherPush, PusherPushFails, PusherUndo,
     mainVars, taskVars
<1>3. SameMode
  BY <1>2 DEF SameMode, Left
<1>4. CASE PusherLoad(c) \/ CasFails(c) \/ PusherPushFails(c)
  <2>1. occupancy' = occupancy
    BY <1>4 DEF PusherLoad, CasFails, PusherPushFails
  <2>2. \/ pusher' = pusher
        \/ /\ pusher[c] \in {"idle", "cas"}
           /\ \E label \in {"cas", "idle"} : pusher' = [pusher EXCEPT ![c] = label]
        \/ pusher[c] = "push" /\ pusher' = [pusher EXCEPT ![c] = "undo"]
    BY <1>4 DEF PusherLoad, CasFails, PusherPushFails
  <2>3. \A b \in Channels : Announced(b)' = Announced(b)
    BY <1>1, <2>2, ZenonT(60) DEF Announced, IInv, TypeOK
  <2>4. \A v \in Workers : InHand(v)' = InHand(v)
    BY <1>2 DEF InHand
  <2>5. LiveTasks' = LiveTasks
    BY <1>2, <2>1, <2>3, <2>4, QuietSteps DEF IInv
  <2> QED BY <1>3, <2>5, QuietRefines
<1>5. CASE PusherPush(c)
  BY <1>3, <1>5, PusherPushMoves, QuietRefines DEF IInv
<1>6. CASE CasSucceeds(c)
  <2>1. pusher[c] = "cas" /\ globalCount = prevCount[c]
    BY <1>6 DEF CasSucceeds
  <2>2. startSignal /\ globalCount > 0
    BY <1>1, <2>1, AtWork DEF CasSawWork
  <2>3. LiveTasks > 0
    BY <2>2, LiveWhenCounted
  <2>4. LiveTasks' = LiveTasks + 1
    BY <1>6, AnnouncementCounts DEF IInv
  <2>5. Pool!Add
    BY <1>3, <2>2, <2>3, <2>4, CountRefines
  <2> QED BY <2>5 DEF Pool!Next
<1>7. CASE PusherUndo(c)
  <2>1. pusher[c] = "undo"
    BY <1>7 DEF PusherUndo
  <2>2. startSignal
    BY <1>1, <2>1, AtWork
  <2>3. ChannelTasks[c] = occupancy[c] + 1 /\ occupancy[c] \in Nat
    BY <1>1, <2>1, TasksAre DEF IInv, Announced
  <2>4. LiveTasks > 0
    BY <1>1, <2>3, LiveBounds DEF IInv
  <2>5. LiveTasks' = LiveTasks - 1
    BY <1>7, AnnouncementCounts DEF IInv
  <2>6. Pool!Complete
    BY <1>3, <2>2, <2>4, <2>5, CountRefines
  <2> QED BY <2>6 DEF Pool!Next
<1> QED BY <1>4, <1>5, <1>6, <1>7 DEF PusherStep

(* The threads that populate the queue.                                     *)
LEMMA LoaderRefines ==
  ASSUME IInv, IInv', NEW w \in Workers, PushUnsafe(w) \/ CountUnsafe(w)
  PROVE  [Pool!Next]_(Pool!vars)
<1>1. UNCHANGED <<startSignal, stopsSent, pc, occupancy, pusher, outCount>>
  BY DEF PushUnsafe, CountUnsafe, taskVars, pushVars
<1>2. SameMode
  BY <1>1 DEF SameMode, Left
<1>3. CASE PushUnsafe(w)
  <2>1. ~startSignal
    BY <1>3 DEF PushUnsafe
  <2>2. LiveTasks' = LiveTasks + 1
    BY <1>3, PushUnsafeAdds DEF IInv
  <2>3. Pool!Load
    BY <1>2, <2>1, <2>2, CountRefines
  <2> QED BY <2>3 DEF Pool!Next
<1>4. CASE CountUnsafe(w)
  <2>1. queueSize' = queueSize
    BY <1>4 DEF CountUnsafe, taskVars
  <2>2. /\ \A v \in Workers : InHand(v)' = InHand(v)
        /\ \A b \in Channels : Announced(b)' = Announced(b)
    BY <1>1 DEF InHand, Announced
  <2>3. LiveTasks' = LiveTasks
    BY <1>1, <2>1, <2>2, QuietSteps DEF IInv
  <2> QED BY <1>2, <2>3, QuietRefines
<1> QED BY <1>3, <1>4

(* The main thread.                                                         *)
LEMMA MainRefines ==
  ASSUME IInv, IInv', ProcessQueue \/ RequestStop
  PROVE  Pool!Next
<1>1. UNCHANGED <<pc, queueSize, outCount, occupancy, pusher>>
  BY DEF ProcessQueue, RequestStop, taskVars, pushVars
<1>2. Left' = Left
  BY <1>1 DEF Left
<1>3. /\ \A v \in Workers : InHand(v)' = InHand(v)
      /\ \A b \in Channels : Announced(b)' = Announced(b)
  BY <1>1 DEF InHand, Announced
<1>4. LiveTasks' = LiveTasks
  BY <1>1, <1>3, QuietSteps DEF IInv
<1>5. CASE ProcessQueue
  <2>1. ~startSignal /\ startSignal' = TRUE /\ stopsSent' = stopsSent
    BY <1>5, Zenon DEF ProcessQueue
  <2>2. Pool!Start
    BY <1>2, <1>4, <2>1 DEF Pool!Start, Left
  <2> QED BY <2>2 DEF Pool!Next
<1>6. CASE RequestStop
  <2>1. startSignal' = startSignal /\ stopsSent' = stopsSent + 1 /\ stopsSent \in Nat
    BY <1>6, NetworkIs DEF RequestStop, IInv, TypeOK
  <2>2. (stopsSent' > 0) = TRUE
    BY <2>1
  <2>3. Pool!RequestStop
    BY <1>2, <1>4, <2>1, <2>2 DEF Pool!RequestStop, Left
  <2> QED BY <2>3 DEF Pool!Next
<1> QED BY <1>5, <1>6

(* Every step of the queue is a step of the pool, or changes nothing in it. *)
LEMMA StepRefinesPool ==
  IInv /\ IInv' /\ CasSawWork /\ [Next]_vars => [Pool!Next]_(Pool!vars)
<1> SUFFICES ASSUME IInv, IInv', CasSawWork, [Next]_vars
             PROVE  [Pool!Next]_(Pool!vars)
  OBVIOUS
<1>1. ASSUME NEW w \in Workers, PushUnsafe(w) \/ CountUnsafe(w)
      PROVE  [Pool!Next]_(Pool!vars)
  BY <1>1, LoaderRefines
<1>2. ASSUME NEW w \in Workers, Worker(w) PROVE [Pool!Next]_(Pool!vars)
  <2>1. CASE EnqueueGlobal(w) \/ CompleteTask(w)
    BY <2>1, WorkerCounts DEF Pool!Next
  <2>2. CASE (LoadCount(w) \/ LoadStop(w)) /\ pc'[w] = "done"
    <3>1. Pool!Leave(w)
      BY <2>2, WorkerLeaves
    <3> QED BY <3>1 DEF Pool!Next
  <2>3. CASE \/ PopTask(w) \/ Take(w) \/ PushBatchSelf(w) \/ PushBatch(w)
             \/ EndEnqueue(w) \/ FlushOutBuffer(w)
    BY <2>3, WorkerMoves DEF IInv
  <2>4. CASE \/ WaitStart(w) \/ LeaveInner(w) \/ EnterRound(w) \/ PopNothing(w)
             \/ PushBatchFails(w)
             \/ (LoadCount(w) \/ LoadStop(w)) /\ pc'[w] # "done"
    BY <2>4, WorkerQuiet DEF IInv
  <2> QED BY <1>2, <2>1, <2>2, <2>3, <2>4 DEF Worker
<1>3. ASSUME NEW c \in SelfPushChannels, PusherLoad(c) \/ PusherStep(c)
      PROVE  [Pool!Next]_(Pool!vars)
  BY <1>3, PusherRefines
<1>4. CASE ProcessQueue \/ RequestStop
  BY <1>4, MainRefines
<1>5. CASE UNCHANGED vars
  <2>1. UNCHANGED <<pc, queueSize, outCount, occupancy, pusher, startSignal, stopsSent>>
    BY <1>5 DEF vars, mainVars, taskVars, pushVars
  <2>2. /\ \A v \in Workers : InHand(v)' = InHand(v)
        /\ \A b \in Channels : Announced(b)' = Announced(b)
    BY <2>1 DEF InHand, Announced
  <2>3. LiveTasks' = LiveTasks
    BY <2>1, <2>2, QuietSteps DEF IInv
  <2>4. SameMode
    BY <2>1 DEF SameMode, Left
  <2> QED BY <2>3, <2>4, QuietRefines
<1> QED BY <1>1, <1>2, <1>3, <1>4, <1>5 DEF Next, Finished

(* The queue is a pool with termination detection: tasks are added only     *)
(* where tasks live, and a worker leaves for good only when none lives or a *)
(* stop was requested, although no thread knows how many there are.         *)
THEOREM PoolCorrect == Spec => PoolSpec
<1>1. Init => Pool!Init
  <2> SUFFICES ASSUME Init PROVE Pool!Init
    OBVIOUS
  <2>1. TypeOK
    BY InitIInv DEF IInv
  <2>2. NoTaskAnywhere
    BY DEF Init, NoTaskAnywhere, WorkerTasks, ChannelTasks, InHand, Announced
  <2>3. LiveTasks = 0
    BY <2>1, <2>2, LiveZero
  <2>4. Left = {} /\ startSignal = FALSE /\ stopsSent = 0
    BY Zenon DEF Init, Left
  <2>5. (stopsSent > 0) = FALSE
    BY <2>4
  <2> QED BY <2>3, <2>4, <2>5 DEF Pool!Init, Left
<1>2. Spec => [](IInv /\ CasSawWork)
  BY InitIInv, StepIInv, InitCasSawWork, StepCasSawWork, PTL DEF Spec
<1> QED BY <1>1, <1>2, StepRefinesPool, PTL DEF Spec, PoolSpec, Pool!Spec
=============================================================================
