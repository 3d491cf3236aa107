--------------------------- MODULE SpapQueueProofs ---------------------------
(***************************************************************************)
(* Proofs about SpapQueue, for every network, every buffer length and       *)
(* every number of tasks.                                                   *)
(***************************************************************************)
EXTENDS SpapQueue, SumTheorems

(* Before the start signal the workers wait, their own counters untouched,  *)
(* and nobody pushes from outside.  A thread that populates the queue has   *)
(* put its task there before it counts it, and is done before the start,    *)
(* unless a stop gives the signal: then the workers leave at their first    *)
(* look at the stop token.                                                  *)
BeforeStart ==
  /\ ~startSignal => /\ \A w \in Workers : pc[w] = "waitStart" /\ localCount[w] = 0
                     /\ \A c \in Channels : pusher[c] = "idle"
  /\ \A w \in Workers :
       loader[w] = "count" =>
         /\ queueSize[w] > 0
         /\ startSignal => stopsSent = NumWorkers
         /\ \A v \in Workers : /\ pc[v] \in {"waitStart", "loadCount", "loadStop", "done"}
                               /\ localCount[v] = 0

(* A round is entered with a non-empty queue, and draining only adds to it. *)
RoundHasTask ==
  \A w \in Workers : pc[w] \in {"drainInner", "take"} => queueSize[w] > 0

(* The inductive invariant: none of its parts is inductive alone.  That     *)
(* globalCount_ does not wrap below zero (TypeOK) needs the account and the *)
(* cover, the account needs nothing but itself, the cover needs TypeOK.     *)
IInv ==
  /\ TypeOK
  /\ BeforeStart
  /\ LocalCountCovered
  /\ RoundHasTask
  /\ OutBufferRoom
  /\ Account

(* The period of cntr in run() is positive.                                 *)
LEMMA CntrPeriodType == CntrPeriod \in Nat \ {0}
<1>1. StopCheckPeriod \in Nat \ {0} /\ EnqueueFrequency \in Nat \ {0}
  BY ParameterAssumption
<1>2. \A m, n \in Nat \ {0} : m * n \in Nat \ {0}
  OBVIOUS
<1> QED BY <1>1, <1>2 DEF CntrPeriod

(* What is assumed of the network, spelled out                              *)
LEMMA NetworkIs ==
  /\ NumWorkers \in Nat \ {0}
  /\ NumChannels \in Nat \ {0}
  /\ Source \in [Channels -> Workers]
  /\ EdgeTargets \in [Channels -> 0 .. NumWorkers]
  /\ BatchSize \in [Channels -> 1 .. MaxBatchSize]
  /\ MaxBatchSize \in Nat /\ ChannelBufferSize \in Nat
  /\ MaxBatchSize <= ChannelBufferSize
BY NetworkAssumption DEF IsNetwork, Channels, Workers

(* The positions of channelPointer_ and the ports lead to channels of the   *)
(* network.                                                                 *)
LEMMA TablesType ==
  ASSUME NEW w \in Workers
  PROVE  /\ Len(ChannelTable[w]) \in Nat \ {0}
         /\ \A i \in 1 .. Len(ChannelTable[w]) : ChannelTable[w][i] \in Channels
         /\ Len(InPorts[w]) \in Nat \ {0}
         /\ \A i \in 1 .. Len(InPorts[w]) : InPorts[w][i] \in Channels
<1>1. /\ ChannelTable[w] \in Seq(Channels) /\ Len(ChannelTable[w]) > 0
      /\ InPorts[w] \in Seq(Channels) /\ Len(InPorts[w]) > 0
  BY TablesAssumption DEF ArePorts, AreTables, Channels, Workers
<1> QED BY <1>1

(* The channel a worker is to push to, and its batch.                       *)
LEMMA CurrentChannelType ==
  ASSUME TypeOK, NEW w \in Workers
  PROVE  /\ CurrentChannel(w) \in Channels
         /\ BatchSize[CurrentChannel(w)] \in 1 .. MaxBatchSize
<1>1. tablePos[w] \in 1 .. Len(ChannelTable[w])
  BY TablesType DEF TypeOK
<1>2. CurrentChannel(w) \in Channels
  BY <1>1, TablesType DEF CurrentChannel
<1> QED BY <1>2, NetworkIs

(* Even an old value of globalCount_ is a count.                            *)
LEMMA CountViewsType == TypeOK => CountViews \subseteq Nat
BY ParameterAssumption DEF TypeOK, CountViews

(* channelPointer_ stays within the table of its worker.                    *)
LEMMA NextTablePosType ==
  ASSUME TypeOK, NEW w \in Workers
  PROVE  /\ NextTablePos(w) \in Nat \ {0}
         /\ NextTablePos(w) <= Len(ChannelTable[w])
<1>1. tablePos[w] \in Nat \ {0} /\ tablePos[w] <= Len(ChannelTable[w])
  BY DEF TypeOK
<1> QED BY <1>1, TablesType DEF NextTablePos

SharesOK ==
  /\ WorkerTasks \in [0 .. NumWorkers - 1 -> Nat]
  /\ WorkerShare \in [0 .. NumWorkers - 1 -> Int]
  /\ ChannelTasks \in [0 .. NumChannels - 1 -> Nat]

(* The summands of the account are integers, and those of the channels      *)
(* naturals.                                                                *)
LEMMA SharesType == TypeOK => SharesOK
<1> SUFFICES ASSUME TypeOK PROVE SharesOK
  OBVIOUS
<1>1. ASSUME NEW w \in Workers
      PROVE  /\ WorkerTasks[w] \in Nat
             /\ WorkerShare[w] \in Int
  BY SMTT(40) DEF TypeOK, WorkerTasks, WorkerShare, InHand, Uncounted
<1>2. ASSUME NEW c \in Channels
      PROVE  ChannelTasks[c] \in Nat
  BY DEF TypeOK, ChannelTasks, Announced
<1> QED BY <1>1, <1>2 DEF SharesOK, WorkerTasks, WorkerShare, ChannelTasks, Workers, Channels

(* The functions at a worker, now and in the next state.                    *)
LEMMA ShareValue ==
  \A w \in Workers : /\ WorkerShare[w] = WorkerTasks[w] - Uncounted(w) - localCount[w]
                     /\ WorkerTasks[w] = queueSize[w] + outCount[w] + InHand(w)
BY DEF WorkerShare, WorkerTasks

(* The same after a step.                                                   *)
LEMMA ShareValueNext ==
  \A w \in Workers : /\ WorkerShare'[w] = WorkerTasks'[w] - Uncounted(w)' - localCount'[w]
                     /\ WorkerTasks'[w] = queueSize'[w] + outCount'[w] + InHand(w)'
<1>1. \A w \in Workers : WorkerShare'[w] = WorkerTasks'[w] - Uncounted(w)' - localCount'[w]
  BY DEF WorkerShare
<1>2. \A w \in Workers : WorkerTasks'[w] = queueSize'[w] + outCount'[w] + InHand(w)'
  BY DEF WorkerTasks
<1> QED BY <1>1, <1>2

(* The tasks of a channel, now and in the next state.                       *)
LEMMA ChannelValue ==
  \A c \in Channels : /\ ChannelTasks[c] = occupancy[c] + Announced(c)
                      /\ ChannelTasks'[c] = occupancy'[c] + Announced(c)'
BY DEF ChannelTasks

(* No worker's share is negative, and that of a worker with tasks positive, *)
(* if they have been counted.                                               *)
LEMMA SharesCover ==
  ASSUME IInv
  PROVE  \A w \in Workers : /\ WorkerShare[w] >= 0
                            /\ WorkerTasks[w] > 0 /\ loader[w] = "idle" => WorkerShare[w] > 0
<1> SUFFICES ASSUME NEW w \in Workers
             PROVE  /\ WorkerShare[w] >= 0
                    /\ WorkerTasks[w] > 0 /\ loader[w] = "idle" => WorkerShare[w] > 0
  OBVIOUS
<1>1. /\ queueSize[w] \in Nat /\ localCount[w] \in Nat /\ outCount[w] \in Nat
      /\ InHand(w) \in {0, 1} /\ Uncounted(w) \in {0, 1}
      /\ WorkerTasks[w] = queueSize[w] + outCount[w] + InHand(w)
      /\ WorkerShare[w] = WorkerTasks[w] - Uncounted(w) - localCount[w]
  BY DEF IInv, TypeOK, WorkerTasks, WorkerShare, InHand, Uncounted
<1>2. /\ InHand(w) = 1 => localCount[w] <= queueSize[w]
      /\ InHand(w) = 0 => localCount[w] < queueSize[w] \/ localCount[w] = 0
  BY DEF IInv, LocalCountCovered
<1>3. Uncounted(w) = 1 => loader[w] # "idle" /\ queueSize[w] > 0 /\ localCount[w] = 0
  BY DEF IInv, BeforeStart, Uncounted
<1> QED BY <1>1, <1>2, <1>3

(* The global counter is at least any worker's share plus any channel's     *)
(* tasks.                                                                   *)
LEMMA CountBounds ==
  ASSUME IInv, NEW w \in Workers, NEW c \in Channels
  PROVE  globalCount >= WorkerShare[w] + ChannelTasks[c]
<1>1. /\ WorkerShare \in [0 .. NumWorkers - 1 -> Int]
      /\ ChannelTasks \in [0 .. NumChannels - 1 -> Int]
      /\ NumWorkers \in Nat /\ NumChannels \in Nat
  BY SharesType, NetworkIs, SMTT(40) DEF IInv, SharesOK
<1>2. \A v \in 0 .. NumWorkers - 1 : WorkerShare[v] >= 0
  BY SharesCover DEF Workers
<1>3. \A d \in 0 .. NumChannels - 1 : ChannelTasks[d] >= 0
  BY SharesType DEF IInv, SharesOK
<1>4. SumTo(WorkerShare, NumWorkers) >= WorkerShare[w]
  BY <1>1, <1>2, SumBounds DEF Workers
<1>5. SumTo(ChannelTasks, NumChannels) >= ChannelTasks[c]
  BY <1>1, <1>3, SumBounds DEF Channels
<1>6. /\ SumTo(WorkerShare, NumWorkers) \in Int /\ SumTo(ChannelTasks, NumChannels) \in Int
      /\ WorkerShare[w] \in Int /\ ChannelTasks[c] \in Int
  BY <1>1, SumType DEF Workers, Channels
<1>7. globalCount = SumTo(WorkerShare, NumWorkers) + SumTo(ChannelTasks, NumChannels)
  BY DEF IInv, Account
<1> QED BY <1>4, <1>5, <1>6, <1>7

(* The queue that initQueue leaves behind satisfies the invariant.          *)
THEOREM InitIInv == Init => IInv
<1> SUFFICES ASSUME Init PROVE IInv
  OBVIOUS
<1>1. TypeOK
  <2>1. 0 \in 0 .. CntrPeriod - 1
    BY CntrPeriodType
  <2>2. \A w \in Workers : 1 <= Len(ChannelTable[w]) /\ 1 <= Len(InPorts[w])
    BY TablesType
  <2>3. globalCount \in Nat /\ stopsSent \in 0 .. NumWorkers
    BY NetworkIs DEF Init
  <2>8. startSignal \in BOOLEAN
    BY Zenon DEF Init
  <2>4. /\ loader \in [Workers -> {"idle", "count"}] /\ pc \in [Workers -> PcValues]
        /\ pusher \in [Channels -> {"idle", "cas", "push", "undo"}]
    BY DEF Init, PcValues
  <2>5. /\ queueSize \in [Workers -> Nat] /\ localCount \in [Workers -> Nat]
        /\ todo \in [Workers -> Nat] /\ prevCount \in [Channels -> Nat]
        /\ budget \in Nat
    BY ParameterAssumption DEF Init
  <2>6. /\ outCount \in [Workers -> 0 .. MaxBatchSize]
        /\ attempts \in [Workers -> 0 .. MaxPushAttempts]
        /\ occupancy \in [Channels -> 0 .. ChannelBufferSize]
        /\ cntr \in [Workers -> 0 .. CntrPeriod - 1]
    BY <2>1, NetworkIs, ParameterAssumption DEF Init
  <2>7. /\ tablePos \in [Workers -> Nat \ {0}] /\ port \in [Workers -> Nat \ {0}]
        /\ \A w \in Workers : tablePos[w] <= Len(ChannelTable[w])
        /\ \A w \in Workers : port[w] <= Len(InPorts[w])
    BY <2>2 DEF Init
  <2> QED BY <2>3, <2>4, <2>5, <2>6, <2>7, <2>8 DEF TypeOK
<1>2. BeforeStart /\ LocalCountCovered /\ RoundHasTask
  BY DEF Init, BeforeStart, LocalCountCovered, RoundHasTask, InHand
<1>3. OutBufferRoom
  <2>1. \A w \in Workers : BatchSize[CurrentChannel(w)] > 0
    BY <1>1, CurrentChannelType, NetworkIs
  <2> QED BY <2>1 DEF Init, OutBufferRoom
<1>4. Account
  <2>1. \A w \in 0 .. NumWorkers - 1 : WorkerShare[w] = 0
    BY DEF Init, WorkerShare, WorkerTasks, InHand, Uncounted, Workers
  <2>2. \A c \in 0 .. NumChannels - 1 : ChannelTasks[c] = 0
    BY DEF Init, ChannelTasks, Announced, Channels
  <2>3. /\ WorkerShare \in [0 .. NumWorkers - 1 -> Int]
        /\ ChannelTasks \in [0 .. NumChannels - 1 -> Int]
    BY <1>1, SharesType DEF SharesOK
  <2>4. SumTo(WorkerShare, NumWorkers) = 0
    BY <2>1, <2>3, SumZero, NetworkIs
  <2>5. SumTo(ChannelTasks, NumChannels) = 0
    BY <2>2, <2>3, SumZero, NetworkIs
  <2> QED BY <2>4, <2>5 DEF Init, Account
<1> QED BY <1>1, <1>2, <1>3, <1>4 DEF IInv

(* The same in the next state.                                              *)
LEMMA SharesTypeNext == TypeOK' => SharesOK'
BY SharesType, PTL

(* How the proofs below use SumUpdate: a step in which worker w's share     *)
(* changes by d, channel c's tasks by e, and the counter by both, keeps the *)
(* account.                                                                 *)
LEMMA AccountStep ==
  ASSUME TypeOK, TypeOK', Account,
         NEW w \in Workers, NEW c \in Channels, NEW d \in Int, NEW e \in Int,
         WorkerShare'[w] = WorkerShare[w] + d,
         \A v \in Workers : v # w => WorkerShare'[v] = WorkerShare[v],
         ChannelTasks'[c] = ChannelTasks[c] + e,
         \A b \in Channels : b # c => ChannelTasks'[b] = ChannelTasks[b],
         globalCount' = globalCount + d + e
  PROVE  Account'
<1>1. /\ WorkerShare \in [0 .. NumWorkers - 1 -> Int]
      /\ ChannelTasks \in [0 .. NumChannels - 1 -> Int]
      /\ NumWorkers \in Nat /\ NumChannels \in Nat
  BY SharesType, NetworkIs, SMTT(40) DEF SharesOK
<1>2. /\ WorkerShare' \in [0 .. NumWorkers - 1 -> Int]
      /\ ChannelTasks' \in [0 .. NumChannels - 1 -> Int]
  BY SharesTypeNext DEF SharesOK
<1>3. SumTo(WorkerShare', NumWorkers) = SumTo(WorkerShare, NumWorkers) + d
  BY <1>1, <1>2, SumUpdate DEF Workers
<1>4. SumTo(ChannelTasks', NumChannels) = SumTo(ChannelTasks, NumChannels) + e
  BY <1>1, <1>2, SumUpdate DEF Channels
<1>5. SumTo(WorkerShare, NumWorkers) \in Int /\ SumTo(ChannelTasks, NumChannels) \in Int
  BY <1>1, SumType
<1>6. globalCount = SumTo(WorkerShare, NumWorkers) + SumTo(ChannelTasks, NumChannels)
  BY DEF Account
<1>7. globalCount' = SumTo(WorkerShare', NumWorkers) + SumTo(ChannelTasks', NumChannels)
  BY <1>3, <1>4, <1>5, <1>6
<1> QED BY <1>7 DEF Account

(* Most steps touch one worker's share only, or one channel only, or none.  *)
LEMMA AccountWorker ==
  ASSUME TypeOK, TypeOK', Account,
         NEW w \in Workers, NEW d \in Int,
         WorkerShare'[w] = WorkerShare[w] + d,
         \A v \in Workers : v # w => WorkerShare'[v] = WorkerShare[v],
         ChannelTasks' = ChannelTasks,
         globalCount' = globalCount + d
  PROVE  Account'
<1> DEFINE c == 0
<1>1. c \in Channels
  BY NetworkIs DEF Channels
<1> HIDE DEF c
<1>2. ChannelTasks[c] \in Int /\ globalCount \in Int
  <2>1. SharesOK
    BY SharesType
  <2>2. globalCount \in Int
    BY DEF TypeOK
  <2> QED BY <1>1, <2>1, <2>2 DEF Channels, SharesOK
<1>3. ChannelTasks'[c] = ChannelTasks[c] + 0 /\ globalCount' = globalCount + d + 0
  BY <1>2
<1>4. \A b \in Channels : b # c => ChannelTasks'[b] = ChannelTasks[b]
  OBVIOUS
<1>5. 0 \in Int
  OBVIOUS
<1> QED BY <1>1, <1>3, <1>4, <1>5, AccountStep

(* The account when only one channel's tasks change: a pop, an              *)
(* announcement or its undoing.                                             *)
LEMMA AccountChannel ==
  ASSUME TypeOK, TypeOK', Account,
         NEW c \in Channels, NEW e \in Int,
         WorkerShare' = WorkerShare,
         ChannelTasks'[c] = ChannelTasks[c] + e,
         \A b \in Channels : b # c => ChannelTasks'[b] = ChannelTasks[b],
         globalCount' = globalCount + e
  PROVE  Account'
<1> DEFINE w == 0
<1>1. w \in Workers
  BY NetworkIs DEF Workers
<1> HIDE DEF w
<1>2. WorkerShare[w] \in Int /\ globalCount \in Int
  <2>1. SharesOK
    BY SharesType
  <2>2. globalCount \in Int
    BY DEF TypeOK
  <2> QED BY <1>1, <2>1, <2>2 DEF Workers, SharesOK
<1>3. WorkerShare'[w] = WorkerShare[w] + 0 /\ globalCount' = globalCount + 0 + e
  BY <1>2
<1>4. \A v \in Workers : v # w => WorkerShare'[v] = WorkerShare[v]
  OBVIOUS
<1>5. 0 \in Int
  OBVIOUS
<1> QED BY <1>1, <1>3, <1>4, <1>5, AccountStep

(* The account when no share changes.                                       *)
LEMMA AccountSame ==
  ASSUME TypeOK, TypeOK', Account, globalCount' = globalCount,
         \A v \in Workers : WorkerShare'[v] = WorkerShare[v],
         \A b \in Channels : ChannelTasks'[b] = ChannelTasks[b]
  PROVE  Account'
<1> DEFINE f == WorkerShare
           g == WorkerShare'
           h == ChannelTasks
           k == ChannelTasks'
<1>1. SharesOK /\ SharesOK'
  BY SharesType, SharesTypeNext
<1>2. f = g
  <2>1. f \in [Workers -> Int] /\ g \in [Workers -> Int]
    BY <1>1 DEF SharesOK, Workers
  <2>2. \A v \in Workers : g[v] = f[v]
    OBVIOUS
  <2> HIDE DEF f, g
  <2> QED BY <2>1, <2>2
<1>3. h = k
  <2>1. h \in [Channels -> Nat] /\ k \in [Channels -> Nat]
    BY <1>1 DEF SharesOK, Channels
  <2>2. \A b \in Channels : k[b] = h[b]
    OBVIOUS
  <2> HIDE DEF h, k
  <2> QED BY <2>1, <2>2
<1> QED BY <1>2, <1>3 DEF Account

(* pushUnsafe keeps the invariant: the task is not counted yet, and its     *)
(* worker's share says so.                                                  *)
LEMMA StepPushUnsafe ==
  ASSUME IInv, NEW w \in Workers, PushUnsafe(w)
  PROVE  IInv'
<1>1. TypeOK'
  BY SMTT(40) DEF IInv, TypeOK, PushUnsafe, pushVars
<1>2. BeforeStart'
  BY SMTT(40) DEF IInv, TypeOK, BeforeStart, PushUnsafe, pushVars
<1>3. LocalCountCovered'
  BY SMTT(40) DEF IInv, TypeOK, LocalCountCovered, InHand, PushUnsafe, pushVars
<1>4. RoundHasTask'
  BY SMTT(40) DEF IInv, TypeOK, RoundHasTask, PushUnsafe, pushVars
<1>5. OutBufferRoom'
  BY DEF IInv, TypeOK, OutBufferRoom, CurrentChannel, PushUnsafe, pushVars
<1>6. Account'
  <2> DEFINE d == 0
  <2>1. d \in Int /\ globalCount' = globalCount + d
    BY <1>1 DEF IInv, TypeOK, PushUnsafe, pushVars
  <2>2. WorkerShare'[w] = WorkerShare[w] + d
    BY DEF IInv, TypeOK, WorkerShare, WorkerTasks, InHand, Uncounted, PushUnsafe, pushVars
  <2>3. \A v \in Workers : v # w => WorkerShare'[v] = WorkerShare[v]
    BY DEF IInv, TypeOK, WorkerShare, WorkerTasks, InHand, Uncounted, PushUnsafe, pushVars
  <2>4. ChannelTasks' = ChannelTasks
    BY DEF ChannelTasks, Announced, PushUnsafe, pushVars
  <2> HIDE DEF d
  <2> QED BY <1>1, <2>1, <2>2, <2>3, <2>4, AccountWorker DEF IInv
<1> QED BY <1>1, <1>2, <1>3, <1>4, <1>5, <1>6 DEF IInv

(* The increment in pushBeforeProcessing keeps it: the task is now          *)
(* counted.                                                                 *)
LEMMA StepCountUnsafe ==
  ASSUME IInv, NEW w \in Workers, CountUnsafe(w)
  PROVE  IInv'
<1>1. TypeOK'
  BY SMTT(40) DEF IInv, TypeOK, CountUnsafe, pushVars, taskVars
<1>2. BeforeStart'
  BY DEF IInv, TypeOK, BeforeStart, CountUnsafe, pushVars, taskVars
<1>3. LocalCountCovered'
  BY DEF IInv, TypeOK, LocalCountCovered, InHand, CountUnsafe, pushVars, taskVars
<1>4. RoundHasTask'
  BY DEF IInv, TypeOK, RoundHasTask, CountUnsafe, pushVars, taskVars
<1>5. OutBufferRoom'
  BY DEF IInv, TypeOK, OutBufferRoom, CurrentChannel, CountUnsafe, pushVars, taskVars
<1>6. Account'
  <2> DEFINE d == 1
  <2>1. d \in Int /\ globalCount' = globalCount + d
    BY <1>1 DEF IInv, TypeOK, CountUnsafe, pushVars, taskVars
  <2>2. WorkerShare'[w] = WorkerShare[w] + d
    BY SMTT(40) DEF IInv, TypeOK, WorkerShare, WorkerTasks, InHand, Uncounted, CountUnsafe, pushVars, taskVars
  <2>3. \A v \in Workers : v # w => WorkerShare'[v] = WorkerShare[v]
    BY DEF IInv, TypeOK, WorkerShare, WorkerTasks, InHand, Uncounted, CountUnsafe, pushVars, taskVars
  <2>4. ChannelTasks' = ChannelTasks
    BY DEF ChannelTasks, Announced, CountUnsafe, pushVars, taskVars
  <2> HIDE DEF d
  <2> QED BY <1>1, <2>1, <2>2, <2>3, <2>4, AccountWorker DEF IInv
<1> QED BY <1>1, <1>2, <1>3, <1>4, <1>5, <1>6 DEF IInv

(* processQueue keeps it, because no task is left uncounted when it starts  *)
(* the workers.                                                             *)
LEMMA StepProcessQueue ==
  ASSUME IInv, ProcessQueue
  PROVE  IInv'
<1>1. TypeOK'
  BY DEF IInv, TypeOK, ProcessQueue, pushVars, taskVars, NoLoaderBusy
<1>2. BeforeStart'
  BY DEF IInv, TypeOK, BeforeStart, ProcessQueue, pushVars, taskVars, NoLoaderBusy
<1>3. LocalCountCovered'
  BY DEF IInv, TypeOK, LocalCountCovered, InHand, ProcessQueue, pushVars, taskVars, NoLoaderBusy
<1>4. RoundHasTask'
  BY DEF IInv, TypeOK, RoundHasTask, ProcessQueue, pushVars, taskVars, NoLoaderBusy
<1>5. OutBufferRoom'
  BY DEF IInv, TypeOK, OutBufferRoom, CurrentChannel, ProcessQueue, pushVars, taskVars, NoLoaderBusy
<1>6. Account'
  <2>1. \A v \in Workers : WorkerShare'[v] = WorkerShare[v]
    BY DEF IInv, TypeOK, WorkerShare, WorkerTasks, InHand, Uncounted, ProcessQueue, pushVars, taskVars, NoLoaderBusy
  <2>2. \A b \in Channels : ChannelTasks'[b] = ChannelTasks[b]
    BY DEF IInv, TypeOK, ChannelTasks, Announced, ProcessQueue, pushVars, taskVars, NoLoaderBusy
  <2>3. globalCount' = globalCount
    BY DEF ProcessQueue, pushVars, taskVars, NoLoaderBusy
  <2> QED BY <1>1, <2>1, <2>2, <2>3, AccountSame DEF IInv
<1> QED BY <1>1, <1>2, <1>3, <1>4, <1>5, <1>6 DEF IInv

(* requestStop keeps it: it only sets stop tokens.                          *)
LEMMA StepRequestStop ==
  ASSUME IInv, RequestStop
  PROVE  IInv'
<1>1. TypeOK'
  BY NetworkIs DEF IInv, TypeOK, RequestStop, pushVars, taskVars, NoLoaderBusy
<1>2. BeforeStart'
  BY NetworkIs DEF IInv, TypeOK, BeforeStart, RequestStop, pushVars, taskVars, NoLoaderBusy
<1>3. LocalCountCovered'
  BY NetworkIs DEF IInv, TypeOK, LocalCountCovered, InHand, RequestStop, pushVars, taskVars, NoLoaderBusy
<1>4. RoundHasTask'
  BY NetworkIs DEF IInv, TypeOK, RoundHasTask, RequestStop, pushVars, taskVars, NoLoaderBusy
<1>5. OutBufferRoom'
  BY NetworkIs DEF IInv, TypeOK, OutBufferRoom, CurrentChannel, RequestStop, pushVars, taskVars, NoLoaderBusy
<1>6. Account'
  <2>1. \A v \in Workers : WorkerShare'[v] = WorkerShare[v]
    BY NetworkIs DEF IInv, TypeOK, WorkerShare, WorkerTasks, InHand, Uncounted, RequestStop, pushVars, taskVars, NoLoaderBusy
  <2>2. \A b \in Channels : ChannelTasks'[b] = ChannelTasks[b]
    BY NetworkIs DEF IInv, TypeOK, ChannelTasks, Announced, RequestStop, pushVars, taskVars, NoLoaderBusy
  <2>3. globalCount' = globalCount
    BY DEF RequestStop, pushVars, taskVars, NoLoaderBusy
  <2> QED BY <1>1, <2>1, <2>2, <2>3, AccountSame DEF IInv
<1> QED BY <1>1, <1>2, <1>3, <1>4, <1>5, <1>6 DEF IInv

(* So does the wait for the start signal, ...                               *)
LEMMA StepWaitStart ==
  ASSUME IInv, NEW w \in Workers, WaitStart(w)
  PROVE  IInv'
<1>1. TypeOK'
  BY DEF IInv, TypeOK, WaitStart, pushVars, mainVars, taskVars, Goto, PcValues
<1>2. BeforeStart'
  BY DEF IInv, TypeOK, BeforeStart, WaitStart, pushVars, mainVars, taskVars, Goto
<1>3. LocalCountCovered'
  BY DEF IInv, TypeOK, LocalCountCovered, InHand, WaitStart, pushVars, mainVars, taskVars, Goto
<1>4. RoundHasTask'
  BY DEF IInv, TypeOK, RoundHasTask, WaitStart, pushVars, mainVars, taskVars, Goto
<1>5. OutBufferRoom'
  BY DEF IInv, TypeOK, OutBufferRoom, CurrentChannel, WaitStart, pushVars, mainVars, taskVars, Goto
<1>6. Account'
  <2>1. \A v \in Workers : WorkerShare'[v] = WorkerShare[v]
    BY DEF IInv, TypeOK, WorkerShare, WorkerTasks, InHand, Uncounted, WaitStart, pushVars, mainVars, taskVars, Goto
  <2>2. \A b \in Channels : ChannelTasks'[b] = ChannelTasks[b]
    BY DEF IInv, TypeOK, ChannelTasks, Announced, WaitStart, pushVars, mainVars, taskVars, Goto
  <2>3. globalCount' = globalCount
    BY DEF WaitStart, pushVars, mainVars, taskVars, Goto
  <2> QED BY <1>1, <2>1, <2>2, <2>3, AccountSame DEF IInv
<1> QED BY <1>1, <1>2, <1>3, <1>4, <1>5, <1>6 DEF IInv

(* ... the load of globalCount_ in the outer loop of run(), ...             *)
LEMMA StepLoadCount ==
  ASSUME IInv, NEW w \in Workers, LoadCount(w)
  PROVE  IInv'
<1>1. TypeOK'
  BY DEF IInv, TypeOK, LoadCount, pushVars, mainVars, taskVars, Goto, PcValues
<1>2. BeforeStart'
  BY DEF IInv, TypeOK, BeforeStart, LoadCount, pushVars, mainVars, taskVars, Goto
<1>3. LocalCountCovered'
  BY ZenonT(60) DEF IInv, TypeOK, LocalCountCovered, InHand, LoadCount, pushVars, mainVars, taskVars, Goto
<1>4. RoundHasTask'
  BY DEF IInv, TypeOK, RoundHasTask, LoadCount, pushVars, mainVars, taskVars, Goto
<1>5. OutBufferRoom'
  BY DEF IInv, TypeOK, OutBufferRoom, CurrentChannel, LoadCount, pushVars, mainVars, taskVars, Goto
<1>6. Account'
  <2>1. \A v \in Workers : WorkerShare'[v] = WorkerShare[v]
    BY ZenonT(60) DEF IInv, TypeOK, WorkerShare, WorkerTasks, InHand, Uncounted, LoadCount, pushVars, mainVars, taskVars, Goto
  <2>2. \A b \in Channels : ChannelTasks'[b] = ChannelTasks[b]
    BY DEF IInv, TypeOK, ChannelTasks, Announced, LoadCount, pushVars, mainVars, taskVars, Goto
  <2>3. globalCount' = globalCount
    BY DEF LoadCount, pushVars, mainVars, taskVars, Goto
  <2> QED BY <1>1, <2>1, <2>2, <2>3, AccountSame DEF IInv
<1> QED BY <1>1, <1>2, <1>3, <1>4, <1>5, <1>6 DEF IInv

(* ... and that of the stop token.                                          *)
LEMMA StepLoadStop ==
  ASSUME IInv, NEW w \in Workers, LoadStop(w)
  PROVE  IInv'
<1>1. TypeOK'
  BY DEF IInv, TypeOK, LoadStop, pushVars, mainVars, taskVars, Goto, PcValues
<1>2. BeforeStart'
  <2>1. startSignal
    BY DEF IInv, BeforeStart, LoadStop
  <2>2. CASE \E u \in Workers : loader[u] = "count"
    <3>1. stopsSent = NumWorkers
      BY <2>1, <2>2 DEF IInv, BeforeStart
    <3>2. StopRequested(w) /\ StopIsSeen
      BY <3>1, <2>2, NetworkIs DEF StopRequested, StopIsSeen, NoLoaderBusy, Workers
    <3>3. pc' = [pc EXCEPT ![w] = "done"]
      BY <3>2 DEF LoadStop, Goto
    <3> QED BY <2>1, <3>3 DEF IInv, TypeOK, BeforeStart, LoadStop, pushVars, mainVars, taskVars
  <2>3. CASE ~ \E u \in Workers : loader[u] = "count"
    BY <2>1, <2>3 DEF IInv, TypeOK, BeforeStart, LoadStop, pushVars, mainVars, taskVars, Goto
  <2> QED BY <2>2, <2>3
<1>3. LocalCountCovered'
  BY ZenonT(60) DEF IInv, TypeOK, LocalCountCovered, InHand, LoadStop, pushVars, mainVars, taskVars, Goto
<1>4. RoundHasTask'
  BY DEF IInv, TypeOK, RoundHasTask, LoadStop, pushVars, mainVars, taskVars, Goto
<1>5. OutBufferRoom'
  BY DEF IInv, TypeOK, OutBufferRoom, CurrentChannel, LoadStop, pushVars, mainVars, taskVars, Goto
<1>6. Account'
  <2>1. \A v \in Workers : WorkerShare'[v] = WorkerShare[v]
    BY ZenonT(60) DEF IInv, TypeOK, WorkerShare, WorkerTasks, InHand, Uncounted, LoadStop, pushVars, mainVars, taskVars, Goto
  <2>2. \A b \in Channels : ChannelTasks'[b] = ChannelTasks[b]
    BY DEF IInv, TypeOK, ChannelTasks, Announced, LoadStop, pushVars, mainVars, taskVars, Goto
  <2>3. globalCount' = globalCount
    BY DEF LoadStop, pushVars, mainVars, taskVars, Goto
  <2> QED BY <1>1, <2>1, <2>2, <2>3, AccountSame DEF IInv
<1> QED BY <1>1, <1>2, <1>3, <1>4, <1>5, <1>6 DEF IInv

(* Leaving the inner loop keeps the invariant.                              *)
LEMMA StepLeaveInner ==
  ASSUME IInv, NEW w \in Workers, LeaveInner(w)
  PROVE  IInv'
<1>0. \A v \in Workers : 1 <= Len(InPorts[v])
  BY TablesType
<1>1. TypeOK'
  <2>1. port' \in [Workers -> Nat \ {0}]
    BY DEF IInv, TypeOK, LeaveInner, pushVars, mainVars, Goto
  <2>2. ASSUME NEW v \in Workers PROVE port'[v] <= Len(InPorts[v])
    <3>1. port'[v] = 1 \/ port'[v] = port[v]
      BY DEF IInv, TypeOK, LeaveInner, pushVars, mainVars, Goto
    <3> QED BY <3>1, <1>0 DEF IInv, TypeOK
  <2>3. pc' \in [Workers -> PcValues]
    BY DEF IInv, TypeOK, PcValues, LeaveInner, pushVars, mainVars, Goto
  <2> QED BY <2>1, <2>2, <2>3 DEF IInv, TypeOK, LeaveInner, pushVars, mainVars, Goto
<1>2. BeforeStart'
  BY <1>0 DEF IInv, TypeOK, BeforeStart, LeaveInner, pushVars, mainVars, Goto
<1>3. LocalCountCovered'
  BY <1>0 DEF IInv, TypeOK, LocalCountCovered, InHand, LeaveInner, pushVars, mainVars, Goto
<1>4. RoundHasTask'
  BY <1>0 DEF IInv, TypeOK, RoundHasTask, LeaveInner, pushVars, mainVars, Goto
<1>5. OutBufferRoom'
  BY <1>0 DEF IInv, TypeOK, OutBufferRoom, CurrentChannel, LeaveInner, pushVars, mainVars, Goto
<1>6. Account'
  <2>1. \A v \in Workers : WorkerShare'[v] = WorkerShare[v]
    BY <1>0 DEF IInv, TypeOK, WorkerShare, WorkerTasks, InHand, Uncounted, LeaveInner, pushVars, mainVars, Goto
  <2>2. \A b \in Channels : ChannelTasks'[b] = ChannelTasks[b]
    BY <1>0 DEF IInv, TypeOK, ChannelTasks, Announced, LeaveInner, pushVars, mainVars, Goto
  <2>3. globalCount' = globalCount
    BY DEF LeaveInner, pushVars, mainVars, Goto
  <2> QED BY <1>1, <2>1, <2>2, <2>3, AccountSame DEF IInv
<1> QED BY <1>1, <1>2, <1>3, <1>4, <1>5, <1>6 DEF IInv

(* A round begins with a task in the local queue, which RoundHasTask        *)
(* remembers.                                                               *)
LEMMA StepEnterRound ==
  ASSUME IInv, NEW w \in Workers, EnterRound(w)
  PROVE  IInv'
<1>0. \A v \in Workers : 1 <= Len(InPorts[v])
  BY TablesType
<1>1. TypeOK'
  <2>1. port' \in [Workers -> Nat \ {0}]
    BY DEF IInv, TypeOK, EnterRound, pushVars, mainVars, Goto
  <2>2. ASSUME NEW v \in Workers PROVE port'[v] <= Len(InPorts[v])
    <3>1. port'[v] = 1 \/ port'[v] = port[v]
      BY DEF IInv, TypeOK, EnterRound, pushVars, mainVars, Goto
    <3> QED BY <3>1, <1>0 DEF IInv, TypeOK
  <2>3. pc' \in [Workers -> PcValues]
    BY DEF IInv, TypeOK, PcValues, EnterRound, pushVars, mainVars, Goto
  <2> QED BY <2>1, <2>2, <2>3 DEF IInv, TypeOK, EnterRound, pushVars, mainVars, Goto
<1>2. BeforeStart'
  BY <1>0 DEF IInv, TypeOK, BeforeStart, EnterRound, pushVars, mainVars, Goto
<1>3. LocalCountCovered'
  BY <1>0 DEF IInv, TypeOK, LocalCountCovered, InHand, EnterRound, pushVars, mainVars, Goto
<1>4. RoundHasTask'
  BY <1>0 DEF IInv, TypeOK, RoundHasTask, EnterRound, pushVars, mainVars, Goto
<1>5. OutBufferRoom'
  BY <1>0 DEF IInv, TypeOK, OutBufferRoom, CurrentChannel, EnterRound, pushVars, mainVars, Goto
<1>6. Account'
  <2>1. \A v \in Workers : WorkerShare'[v] = WorkerShare[v]
    BY <1>0 DEF IInv, TypeOK, WorkerShare, WorkerTasks, InHand, Uncounted, EnterRound, pushVars, mainVars, Goto
  <2>2. \A b \in Channels : ChannelTasks'[b] = ChannelTasks[b]
    BY <1>0 DEF IInv, TypeOK, ChannelTasks, Announced, EnterRound, pushVars, mainVars, Goto
  <2>3. globalCount' = globalCount
    BY DEF EnterRound, pushVars, mainVars, Goto
  <2> QED BY <1>1, <2>1, <2>2, <2>3, AccountSame DEF IInv
<1> QED BY <1>1, <1>2, <1>3, <1>4, <1>5, <1>6 DEF IInv

(* A task popped from a channel moves from the channel's share to the       *)
(* worker's, which only grows what localCount_ has to stay below.           *)
LEMMA StepPopTask ==
  ASSUME IInv, NEW w \in Workers, PopTask(w)
  PROVE  IInv'
<1> DEFINE c == InPorts[w][port[w]]
<1>0. c \in Channels /\ ChannelBufferSize \in Nat
  BY TablesType, NetworkIs DEF IInv, TypeOK
<1>a. /\ queueSize[w] \in Nat /\ outCount[w] \in 0 .. MaxBatchSize /\ localCount[w] \in Nat
      /\ InHand(w) \in {0, 1} /\ Uncounted(w) \in {0, 1} /\ globalCount \in Nat
      /\ attempts[w] \in 0 .. MaxPushAttempts /\ todo[w] \in Nat
      /\ MaxBatchSize \in Nat /\ MaxPushAttempts \in Nat \ {0}
  BY NetworkIs, ParameterAssumption DEF IInv, TypeOK, InHand, Uncounted
<1>b. /\ InHand(w) = 1 => localCount[w] <= queueSize[w]
      /\ InHand(w) = 0 => localCount[w] < queueSize[w] \/ localCount[w] = 0
  BY DEF IInv, LocalCountCovered
<1>c. /\ queueSize'[w] = queueSize[w] + 1
      /\ outCount'[w] = outCount[w]
      /\ localCount'[w] = localCount[w]
      /\ InHand(w) = 0 /\ InHand(w)' = 0
      /\ Uncounted(w)' = Uncounted(w)
  BY <1>0, <1>a DEF IInv, TypeOK, InHand, Uncounted, PopTask, pushVars, mainVars
<1>1. TypeOK'
  <2>1. queueSize[w] + 1 \in Nat
    BY <1>a
  <2>2. queueSize' \in [Workers -> Nat]
    BY <2>1 DEF IInv, TypeOK, PopTask
  <2>3. occupancy[c] - 1 \in 0 .. ChannelBufferSize
    BY <1>0, SMTT(40) DEF IInv, TypeOK, PopTask
  <2>4. occupancy' \in [Channels -> 0 .. ChannelBufferSize]
    BY <2>3 DEF IInv, TypeOK, PopTask
  <2> QED BY <2>2, <2>4 DEF IInv, TypeOK, PopTask, pushVars, mainVars
<1>2. BeforeStart'
  BY <1>0 DEF IInv, TypeOK, BeforeStart, PopTask, pushVars, mainVars
<1>3. LocalCountCovered'
  <2> SUFFICES ASSUME NEW v \in Workers
               PROVE  /\ InHand(v)' = 1 => localCount'[v] <= queueSize'[v]
                      /\ InHand(v)' = 0 => localCount'[v] < queueSize'[v] \/ localCount'[v] = 0
    BY DEF LocalCountCovered
  <2>1. CASE v # w
    BY <2>1, <1>0 DEF IInv, TypeOK, LocalCountCovered, InHand, PopTask, pushVars, mainVars
  <2>2. CASE v = w
    BY <2>2, <1>a, <1>b, <1>c
  <2> QED BY <2>1, <2>2
<1>4. RoundHasTask'
  BY <1>0, SMTT(40) DEF IInv, TypeOK, RoundHasTask, PopTask, pushVars, mainVars
<1>5. OutBufferRoom'
  BY <1>0 DEF IInv, TypeOK, OutBufferRoom, CurrentChannel, PopTask, pushVars, mainVars
<1>6. Account'
  <2> DEFINE d == 1
             e == -1
  <2>1. d \in Int /\ e \in Int /\ globalCount' = globalCount + d + e
    BY <1>0 DEF IInv, TypeOK, PopTask, pushVars, mainVars
  <2>2. WorkerShare'[w] = WorkerShare[w] + d
    BY <1>0, <1>a, <1>c DEF WorkerShare, WorkerTasks
  <2>3. \A v \in Workers : v # w => WorkerShare'[v] = WorkerShare[v]
    BY <1>0 DEF IInv, TypeOK, WorkerShare, WorkerTasks, InHand, Uncounted, PopTask, pushVars, mainVars
  <2>4. ChannelTasks'[c] = ChannelTasks[c] + e
    <3>1. PICK b \in Channels : b = c
      BY <1>0
    <3>2. occupancy[b] \in Nat /\ occupancy'[b] = occupancy[b] - 1
      BY <3>1, SMTT(40) DEF IInv, TypeOK, PopTask
    <3>3. Announced(b) \in {0, 1} /\ Announced(b)' = Announced(b)
      BY DEF Announced, PopTask, pushVars
    <3>4. ChannelTasks'[b] = ChannelTasks[b] + e
      BY <3>2, <3>3, ChannelValue
    <3> QED BY <3>1, <3>4
  <2>5. \A b \in Channels : b # c => ChannelTasks'[b] = ChannelTasks[b]
    BY <1>0 DEF IInv, TypeOK, ChannelTasks, Announced, PopTask, pushVars, mainVars
  <2> HIDE DEF d, e
  <2> QED BY <1>0, <1>1, <2>1, <2>2, <2>3, <2>4, <2>5, AccountStep DEF IInv
<1> QED BY <1>1, <1>2, <1>3, <1>4, <1>5, <1>6 DEF IInv

(* A pop that finds nothing moves on to the next port or past the loop.     *)
LEMMA StepPopNothing ==
  ASSUME IInv, NEW w \in Workers, PopNothing(w)
  PROVE  IInv'
<1>0. \A v \in Workers : Len(InPorts[v]) \in Nat \ {0}
  BY TablesType
<1>1. TypeOK'
  <2>1. /\ port \in [Workers -> Nat \ {0}]
        /\ \A v \in Workers : port[v] <= Len(InPorts[v])
        /\ port[w] + 1 \in Nat \ {0}
    BY SMTT(40) DEF IInv, TypeOK
  <2>2. \/ port' = [port EXCEPT ![w] = port[w] + 1] /\ port[w] < Len(InPorts[w])
        \/ port' = [port EXCEPT ![w] = 1]
    BY DEF PopNothing
  <2>3. port' \in [Workers -> Nat \ {0}]
    BY <2>1, <2>2
  <2>4. ASSUME NEW v \in Workers PROVE port'[v] <= Len(InPorts[v])
    <3>1. \/ port'[v] = 1
          \/ port'[v] = port[v]
          \/ v = w /\ port'[v] = port[w] + 1 /\ port[w] < Len(InPorts[w])
      BY <2>1, <2>2
    <3> QED BY <2>1, <3>1, <1>0
  <2>5. pc' \in [Workers -> PcValues]
    BY ZenonT(60) DEF IInv, TypeOK, PcValues, PopNothing, pushVars, mainVars, Goto, AfterDrain
  <2> QED BY <2>3, <2>4, <2>5 DEF IInv, TypeOK, PopNothing, pushVars, mainVars, Goto, AfterDrain
<1>2. BeforeStart'
  BY <1>0 DEF IInv, TypeOK, BeforeStart, PopNothing, pushVars, mainVars, Goto, AfterDrain
<1>3. LocalCountCovered'
  BY <1>0, ZenonT(60) DEF IInv, TypeOK, LocalCountCovered, InHand, PopNothing, pushVars, mainVars, Goto, AfterDrain
<1>4. RoundHasTask'
  BY <1>0 DEF IInv, TypeOK, RoundHasTask, PopNothing, pushVars, mainVars, Goto, AfterDrain
<1>5. OutBufferRoom'
  BY <1>0 DEF IInv, TypeOK, OutBufferRoom, CurrentChannel, PopNothing, pushVars, mainVars, Goto, AfterDrain
<1>6. Account'
  <2>1. \A v \in Workers : WorkerShare'[v] = WorkerShare[v]
    BY <1>0, ZenonT(60) DEF IInv, TypeOK, WorkerShare, WorkerTasks, InHand, Uncounted, PopNothing, pushVars, mainVars, Goto, AfterDrain
  <2>2. \A b \in Channels : ChannelTasks'[b] = ChannelTasks[b]
    BY <1>0 DEF IInv, TypeOK, ChannelTasks, Announced, PopNothing, pushVars, mainVars, Goto, AfterDrain
  <2>3. globalCount' = globalCount
    BY DEF PopNothing, pushVars, mainVars, Goto, AfterDrain
  <2> QED BY <1>1, <2>1, <2>2, <2>3, AccountSame DEF IInv
<1> QED BY <1>1, <1>2, <1>3, <1>4, <1>5, <1>6 DEF IInv

(* The task in hand leaves the queue but stays in the worker's share;       *)
(* localCount_ may now equal the queue's length.                            *)
LEMMA StepTake ==
  ASSUME IInv, NEW w \in Workers, Take(w)
  PROVE  IInv'
<1>a. /\ queueSize[w] \in Nat /\ outCount[w] \in 0 .. MaxBatchSize /\ localCount[w] \in Nat
      /\ InHand(w) \in {0, 1} /\ Uncounted(w) \in {0, 1} /\ globalCount \in Nat
      /\ attempts[w] \in 0 .. MaxPushAttempts /\ todo[w] \in Nat
      /\ MaxBatchSize \in Nat /\ MaxPushAttempts \in Nat \ {0}
  BY NetworkIs, ParameterAssumption DEF IInv, TypeOK, RoundHasTask, InHand, Uncounted
<1>b. /\ InHand(w) = 1 => localCount[w] <= queueSize[w]
      /\ InHand(w) = 0 => localCount[w] < queueSize[w] \/ localCount[w] = 0
  BY DEF IInv, LocalCountCovered
<1>c. /\ queueSize'[w] = queueSize[w] - 1
      /\ outCount'[w] = outCount[w]
      /\ localCount'[w] = localCount[w]
      /\ InHand(w) = 0 /\ InHand(w)' = 1
      /\ Uncounted(w)' = Uncounted(w)
      /\ queueSize[w] > 0
  BY <1>a DEF IInv, TypeOK, RoundHasTask, InHand, Uncounted, Take, pushVars, mainVars, Goto
<1>1. TypeOK'
  <2>1. queueSize' \in [Workers -> Nat]
    BY <1>a, <1>c, SMTT(40) DEF IInv, TypeOK, Take, pushVars, mainVars, Goto
  <2>2. todo' \in [Workers -> Nat] /\ budget' \in Nat
    BY ParameterAssumption DEF IInv, TypeOK, Take, pushVars, mainVars, Goto
  <2>3. pc' \in [Workers -> PcValues]
    BY DEF IInv, TypeOK, PcValues, Take, pushVars, mainVars, Goto
  <2> QED BY <2>1, <2>2, <2>3 DEF IInv, TypeOK, Take, pushVars, mainVars, Goto
<1>2. BeforeStart'
  BY DEF IInv, TypeOK, BeforeStart, Take, pushVars, mainVars, Goto
<1>3. LocalCountCovered'
  <2> SUFFICES ASSUME NEW v \in Workers
               PROVE  /\ InHand(v)' = 1 => localCount'[v] <= queueSize'[v]
                      /\ InHand(v)' = 0 => localCount'[v] < queueSize'[v] \/ localCount'[v] = 0
    BY DEF LocalCountCovered
  <2>1. CASE v # w
    BY <2>1 DEF IInv, TypeOK, LocalCountCovered, InHand, Take, pushVars, mainVars, Goto
  <2>2. CASE v = w
    BY <2>2, <1>a, <1>b, <1>c
  <2> QED BY <2>1, <2>2
<1>4. RoundHasTask'
  BY DEF IInv, TypeOK, RoundHasTask, Take, pushVars, mainVars, Goto
<1>5. OutBufferRoom'
  BY DEF IInv, TypeOK, OutBufferRoom, CurrentChannel, Take, pushVars, mainVars, Goto
<1>6. Account'
  <2> DEFINE d == 0
  <2>1. d \in Int /\ globalCount' = globalCount + d
    BY <1>1, <1>a DEF IInv, TypeOK, Take, pushVars, mainVars, Goto
  <2>2. WorkerShare'[w] = WorkerShare[w] + d
    BY <1>a, <1>c DEF WorkerShare, WorkerTasks
  <2>3. \A v \in Workers : v # w => WorkerShare'[v] = WorkerShare[v]
    BY DEF IInv, TypeOK, WorkerShare, WorkerTasks, InHand, Uncounted, Take, pushVars, mainVars, Goto
  <2>4. ChannelTasks' = ChannelTasks
    BY DEF ChannelTasks, Announced, Take, pushVars, mainVars, Goto
  <2> HIDE DEF d
  <2> QED BY <1>1, <2>1, <2>2, <2>3, <2>4, AccountWorker DEF IInv
<1> QED BY <1>1, <1>2, <1>3, <1>4, <1>5, <1>6 DEF IInv

(* incrGlobalCount and the store to outBuffer_ keep the invariant: what     *)
(* leaves the local count reaches the global one, and the buffer had room.  *)
LEMMA StepEnqueueGlobal ==
  ASSUME IInv, NEW w \in Workers, EnqueueGlobal(w)
  PROVE  IInv'
<1>a. /\ queueSize[w] \in Nat /\ outCount[w] \in 0 .. MaxBatchSize /\ localCount[w] \in Nat
      /\ InHand(w) \in {0, 1} /\ Uncounted(w) \in {0, 1} /\ globalCount \in Nat
      /\ attempts[w] \in 0 .. MaxPushAttempts /\ todo[w] \in Nat
      /\ MaxBatchSize \in Nat /\ MaxPushAttempts \in Nat \ {0}
  BY NetworkIs, ParameterAssumption DEF IInv, TypeOK, InHand, Uncounted
<1>b. /\ InHand(w) = 1 => localCount[w] <= queueSize[w]
      /\ InHand(w) = 0 => localCount[w] < queueSize[w] \/ localCount[w] = 0
  BY DEF IInv, LocalCountCovered
<1>c. /\ queueSize'[w] = queueSize[w]
      /\ outCount'[w] = outCount[w] + 1
      /\ localCount'[w] = IF localCount[w] + 1 >= queueSize[w] THEN queueSize[w] \div 2 ELSE localCount[w] + 1
      /\ InHand(w) = 1 /\ InHand(w)' = 1
      /\ Uncounted(w)' = Uncounted(w)
      /\ globalCount' = globalCount + (localCount[w] + 1 - localCount'[w])
  BY <1>a, SMTT(40) DEF IInv, TypeOK, InHand, Uncounted, EnqueueGlobal, pushVars, mainVars, Goto, IncrGlobalCount
<1>1. TypeOK'
  <2>1. queueSize[w] \div 2 \in Nat /\ queueSize[w] \div 2 <= queueSize[w]
    BY <1>a
  <2>2. localCount'[w] \in Nat /\ localCount'[w] <= localCount[w] + 1 /\ globalCount' \in Nat
    BY <2>1, <1>a, <1>b, <1>c
  <2>3. localCount' \in [Workers -> Nat]
    BY <2>2 DEF IInv, TypeOK, EnqueueGlobal, pushVars, mainVars, Goto, IncrGlobalCount
  <2>4. outCount[w] < MaxBatchSize
    <3>1. BatchSize[CurrentChannel(w)] \in 1 .. MaxBatchSize
      BY CurrentChannelType DEF IInv
    <3> QED BY <3>1, <1>a DEF IInv, OutBufferRoom, EnqueueGlobal
  <2>5. outCount' \in [Workers -> 0 .. MaxBatchSize]
    BY <2>4, <1>a, SMTT(40) DEF IInv, TypeOK, EnqueueGlobal
  <2>6. attempts' \in [Workers -> 0 .. MaxPushAttempts] /\ todo' \in [Workers -> Nat]
    BY <1>a, SMTT(40) DEF IInv, TypeOK, EnqueueGlobal
  <2>7. pc' \in [Workers -> PcValues]
    BY DEF IInv, TypeOK, PcValues, EnqueueGlobal, Goto
  <2> QED BY <2>2, <2>3, <2>5, <2>6, <2>7 DEF IInv, TypeOK, EnqueueGlobal, pushVars, mainVars
<1>2. BeforeStart'
  BY DEF IInv, TypeOK, BeforeStart, EnqueueGlobal, pushVars, mainVars, Goto, IncrGlobalCount
<1>3. LocalCountCovered'
  <2> SUFFICES ASSUME NEW v \in Workers
               PROVE  /\ InHand(v)' = 1 => localCount'[v] <= queueSize'[v]
                      /\ InHand(v)' = 0 => localCount'[v] < queueSize'[v] \/ localCount'[v] = 0
    BY DEF LocalCountCovered
  <2>1. CASE v # w
    BY <2>1 DEF IInv, TypeOK, LocalCountCovered, InHand, EnqueueGlobal, pushVars, mainVars, Goto, IncrGlobalCount
  <2>2. CASE v = w
    BY <2>2, <1>a, <1>b, <1>c
  <2> QED BY <2>1, <2>2
<1>4. RoundHasTask'
  BY DEF IInv, TypeOK, RoundHasTask, EnqueueGlobal, pushVars, mainVars, Goto, IncrGlobalCount
<1>5. OutBufferRoom'
  BY DEF IInv, TypeOK, OutBufferRoom, CurrentChannel, EnqueueGlobal, pushVars, mainVars, Goto, IncrGlobalCount
<1>6. Account'
  <2> DEFINE d == localCount[w] + 1 - localCount'[w]
  <2>0. localCount'[w] \in Nat
    BY <1>1 DEF TypeOK
  <2>1. d \in Int /\ globalCount' = globalCount + d
    BY <2>0, <1>a, <1>c
  <2>2. WorkerShare'[w] = WorkerShare[w] + d
    <3>1. /\ WorkerShare[w] = WorkerTasks[w] - Uncounted(w) - localCount[w]
          /\ WorkerTasks[w] = queueSize[w] + outCount[w] + InHand(w)
      BY ShareValue
    <3>2. /\ WorkerShare'[w] = WorkerTasks'[w] - Uncounted(w)' - localCount'[w]
          /\ WorkerTasks'[w] = queueSize'[w] + outCount'[w] + InHand(w)'
      BY ShareValueNext
    <3> QED BY <2>0, <3>1, <3>2, <1>a, <1>c
  <2>3. \A v \in Workers : v # w => WorkerShare'[v] = WorkerShare[v]
    BY ZenonT(60) DEF IInv, TypeOK, WorkerShare, WorkerTasks, InHand, Uncounted, EnqueueGlobal, pushVars, mainVars, Goto, IncrGlobalCount
  <2>4. ChannelTasks' = ChannelTasks
    BY DEF ChannelTasks, Announced, EnqueueGlobal, pushVars, mainVars, Goto, IncrGlobalCount
  <2> HIDE DEF d
  <2> QED BY <1>1, <2>1, <2>2, <2>3, <2>4, AccountWorker DEF IInv
<1> QED BY <1>1, <1>2, <1>3, <1>4, <1>5, <1>6 DEF IInv

(* A batch moves from outBuffer_ to the local queue, inside one worker's    *)
(* share.                                                                   *)
LEMMA StepPushBatchSelf ==
  ASSUME IInv, NEW w \in Workers, PushBatchSelf(w)
  PROVE  IInv'
<1> DEFINE c == CurrentChannel(w)
<1>0. /\ c \in Channels /\ BatchSize[c] \in 1 .. MaxBatchSize
      /\ MaxBatchSize \in Nat /\ ChannelBufferSize \in Nat
      /\ NextTablePos(w) \in Nat \ {0} /\ NextTablePos(w) <= Len(ChannelTable[w])
  BY CurrentChannelType, NextTablePosType, NetworkIs DEF IInv
<1>a. /\ queueSize[w] \in Nat /\ outCount[w] \in 0 .. MaxBatchSize /\ localCount[w] \in Nat
      /\ InHand(w) \in {0, 1} /\ Uncounted(w) \in {0, 1} /\ globalCount \in Nat
      /\ attempts[w] \in 0 .. MaxPushAttempts /\ todo[w] \in Nat
      /\ MaxBatchSize \in Nat /\ MaxPushAttempts \in Nat \ {0}
  BY NetworkIs, ParameterAssumption DEF IInv, TypeOK, InHand, Uncounted
<1>b. /\ InHand(w) = 1 => localCount[w] <= queueSize[w]
      /\ InHand(w) = 0 => localCount[w] < queueSize[w] \/ localCount[w] = 0
  BY DEF IInv, LocalCountCovered
<1>c. /\ queueSize'[w] = queueSize[w] + BatchSize[c]
      /\ outCount'[w] = outCount[w] - BatchSize[c]
      /\ localCount'[w] = localCount[w]
      /\ InHand(w) = 1 /\ InHand(w)' = 1
      /\ Uncounted(w)' = Uncounted(w)
      /\ outCount[w] >= BatchSize[c]
  BY <1>0, <1>a DEF IInv, TypeOK, InHand, Uncounted, PushBatchSelf, pushVars, mainVars, BatchReady
<1>1. TypeOK'
  <2>1. queueSize[w] + BatchSize[c] \in Nat /\ outCount[w] - BatchSize[c] \in 0 .. MaxBatchSize
    BY <1>0, <1>a, <1>c, SMTT(40)
  <2>2. queueSize' \in [Workers -> Nat]
    BY <2>1 DEF IInv, TypeOK, PushBatchSelf
  <2>3. outCount' \in [Workers -> 0 .. MaxBatchSize]
    BY <2>1 DEF IInv, TypeOK, PushBatchSelf
  <2>5. /\ tablePos' \in [Workers -> Nat \ {0}]
        /\ \A v \in Workers : tablePos'[v] <= Len(ChannelTable[v])
    BY <1>0 DEF IInv, TypeOK, PushBatchSelf
  <2> QED BY <2>2, <2>3, <2>5 DEF IInv, TypeOK, PushBatchSelf, pushVars, mainVars, BatchReady
<1>2. BeforeStart'
  BY <1>0 DEF IInv, TypeOK, BeforeStart, PushBatchSelf, pushVars, mainVars, BatchReady
<1>3. LocalCountCovered'
  <2> SUFFICES ASSUME NEW v \in Workers
               PROVE  /\ InHand(v)' = 1 => localCount'[v] <= queueSize'[v]
                      /\ InHand(v)' = 0 => localCount'[v] < queueSize'[v] \/ localCount'[v] = 0
    BY DEF LocalCountCovered
  <2>1. CASE v # w
    BY <2>1, <1>0 DEF IInv, TypeOK, LocalCountCovered, InHand, PushBatchSelf, pushVars, mainVars, BatchReady
  <2>2. CASE v = w
    BY <2>2, <1>0, <1>a, <1>b, <1>c, SMTT(40)
  <2> QED BY <2>1, <2>2
<1>4. RoundHasTask'
  BY <1>0 DEF IInv, TypeOK, RoundHasTask, PushBatchSelf, pushVars, mainVars, BatchReady
<1>5. OutBufferRoom'
  <2>1. \A v \in Workers : v # w => CurrentChannel(v)' = CurrentChannel(v)
    BY <1>0 DEF IInv, TypeOK, CurrentChannel, PushBatchSelf, pushVars, mainVars, BatchReady
  <2> QED BY <2>1 DEF IInv, TypeOK, OutBufferRoom, PushBatchSelf, pushVars, mainVars, BatchReady
<1>6. Account'
  <2> DEFINE d == 0
  <2>1. d \in Int /\ globalCount' = globalCount + d
    BY <1>1, <1>a, <1>0 DEF IInv, TypeOK, PushBatchSelf, pushVars, mainVars, BatchReady
  <2>2. WorkerShare'[w] = WorkerShare[w] + d
    <3>1. /\ WorkerShare[w] = WorkerTasks[w] - Uncounted(w) - localCount[w]
          /\ WorkerTasks[w] = queueSize[w] + outCount[w] + InHand(w)
      BY ShareValue
    <3>2. /\ WorkerShare'[w] = WorkerTasks'[w] - Uncounted(w)' - localCount'[w]
          /\ WorkerTasks'[w] = queueSize'[w] + outCount'[w] + InHand(w)'
      BY ShareValueNext
    <3>3. BatchSize[c] \in Nat
      BY <1>0
    <3> HIDE DEF c
    <3> QED BY <3>1, <3>2, <3>3, <1>a, <1>c
  <2>3. \A v \in Workers : v # w => WorkerShare'[v] = WorkerShare[v]
    BY <1>0 DEF IInv, TypeOK, WorkerShare, WorkerTasks, InHand, Uncounted, PushBatchSelf, pushVars, mainVars, BatchReady
  <2>4. ChannelTasks' = ChannelTasks
    BY DEF ChannelTasks, Announced, PushBatchSelf, pushVars, mainVars, BatchReady
  <2> HIDE DEF d
  <2> QED BY <1>1, <2>1, <2>2, <2>3, <2>4, AccountWorker DEF IInv
<1> QED BY <1>1, <1>2, <1>3, <1>4, <1>5, <1>6 DEF IInv

(* A batch moves from a worker's share to a channel's.                      *)
LEMMA StepPushBatch ==
  ASSUME IInv, NEW w \in Workers, PushBatch(w)
  PROVE  IInv'
<1> DEFINE c == CurrentChannel(w)
<1>0. /\ c \in Channels /\ BatchSize[c] \in 1 .. MaxBatchSize
      /\ MaxBatchSize \in Nat /\ ChannelBufferSize \in Nat
      /\ NextTablePos(w) \in Nat \ {0} /\ NextTablePos(w) <= Len(ChannelTable[w])
  BY CurrentChannelType, NextTablePosType, NetworkIs DEF IInv
<1>a. /\ queueSize[w] \in Nat /\ outCount[w] \in 0 .. MaxBatchSize /\ localCount[w] \in Nat
      /\ InHand(w) \in {0, 1} /\ Uncounted(w) \in {0, 1} /\ globalCount \in Nat
      /\ attempts[w] \in 0 .. MaxPushAttempts /\ todo[w] \in Nat
      /\ MaxBatchSize \in Nat /\ MaxPushAttempts \in Nat \ {0}
  BY NetworkIs, ParameterAssumption DEF IInv, TypeOK, InHand, Uncounted
<1>b. /\ InHand(w) = 1 => localCount[w] <= queueSize[w]
      /\ InHand(w) = 0 => localCount[w] < queueSize[w] \/ localCount[w] = 0
  BY DEF IInv, LocalCountCovered
<1>c. /\ queueSize'[w] = queueSize[w]
      /\ outCount'[w] = outCount[w] - BatchSize[c]
      /\ localCount'[w] = localCount[w]
      /\ InHand(w) = 1 /\ InHand(w)' = 1
      /\ Uncounted(w)' = Uncounted(w)
      /\ outCount[w] >= BatchSize[c]
  BY <1>0, <1>a DEF IInv, TypeOK, InHand, Uncounted, PushBatch, pushVars, mainVars, BatchReady
<1>1. TypeOK'
  <2>1. queueSize[w] + BatchSize[c] \in Nat /\ outCount[w] - BatchSize[c] \in 0 .. MaxBatchSize
    BY <1>0, <1>a, <1>c, SMTT(40)
  <2>2. queueSize' \in [Workers -> Nat]
    BY <2>1 DEF IInv, TypeOK, PushBatch
  <2>3. outCount' \in [Workers -> 0 .. MaxBatchSize]
    BY <2>1 DEF IInv, TypeOK, PushBatch
  <2>4. occupancy' \in [Channels -> 0 .. ChannelBufferSize]
    <3>a. occupancy[c] \in 0 .. ChannelBufferSize
      BY <1>0 DEF IInv, TypeOK
    <3>b. occupancy[c] + BatchSize[c] <= ChannelBufferSize
      BY DEF PushBatch
    <3>1. occupancy[c] + BatchSize[c] \in 0 .. ChannelBufferSize
      <4> HIDE DEF c
      <4> QED BY <3>a, <3>b, <1>0
    <3> QED BY <3>1 DEF IInv, TypeOK, PushBatch
  <2>5. /\ tablePos' \in [Workers -> Nat \ {0}]
        /\ \A v \in Workers : tablePos'[v] <= Len(ChannelTable[v])
    BY <1>0 DEF IInv, TypeOK, PushBatch
  <2> QED BY <2>2, <2>3, <2>4, <2>5 DEF IInv, TypeOK, PushBatch, pushVars, mainVars, BatchReady
<1>2. BeforeStart'
  BY <1>0 DEF IInv, TypeOK, BeforeStart, PushBatch, pushVars, mainVars, BatchReady
<1>3. LocalCountCovered'
  <2> SUFFICES ASSUME NEW v \in Workers
               PROVE  /\ InHand(v)' = 1 => localCount'[v] <= queueSize'[v]
                      /\ InHand(v)' = 0 => localCount'[v] < queueSize'[v] \/ localCount'[v] = 0
    BY DEF LocalCountCovered
  <2>1. CASE v # w
    BY <2>1, <1>0 DEF IInv, TypeOK, LocalCountCovered, InHand, PushBatch, pushVars, mainVars, BatchReady
  <2>2. CASE v = w
    BY <2>2, <1>0, <1>a, <1>b, <1>c
  <2> QED BY <2>1, <2>2
<1>4. RoundHasTask'
  BY <1>0 DEF IInv, TypeOK, RoundHasTask, PushBatch, pushVars, mainVars, BatchReady
<1>5. OutBufferRoom'
  <2>1. \A v \in Workers : v # w => CurrentChannel(v)' = CurrentChannel(v)
    BY <1>0 DEF IInv, TypeOK, CurrentChannel, PushBatch, pushVars, mainVars, BatchReady
  <2> QED BY <2>1 DEF IInv, TypeOK, OutBufferRoom, PushBatch, pushVars, mainVars, BatchReady
<1>6. Account'
  <2> DEFINE d == 0 - BatchSize[c]
             e == BatchSize[c]
  <2>1. d \in Int /\ e \in Int /\ globalCount' = globalCount + d + e
    <3>1. globalCount' = globalCount
      BY DEF PushBatch
    <3> QED BY <3>1, <1>0, <1>a, SMTT(40)
  <2>2. WorkerShare'[w] = WorkerShare[w] + d
    <3>1. /\ WorkerShare[w] = WorkerTasks[w] - Uncounted(w) - localCount[w]
          /\ WorkerTasks[w] = queueSize[w] + outCount[w] + InHand(w)
      BY ShareValue
    <3>2. /\ WorkerShare'[w] = WorkerTasks'[w] - Uncounted(w)' - localCount'[w]
          /\ WorkerTasks'[w] = queueSize'[w] + outCount'[w] + InHand(w)'
      BY ShareValueNext
    <3>3. d = 0 - BatchSize[c] /\ BatchSize[c] \in Int
      BY <1>0
    <3> HIDE DEF c, d
    <3> QED BY <3>1, <3>2, <3>3, <1>a, <1>c
  <2>3. \A v \in Workers : v # w => WorkerShare'[v] = WorkerShare[v]
    BY DEF IInv, TypeOK, WorkerShare, WorkerTasks, InHand, Uncounted, PushBatch, pushVars, mainVars, BatchReady
  <2>4. ChannelTasks'[c] = ChannelTasks[c] + e
    BY <1>0, SMTT(40) DEF IInv, TypeOK, ChannelTasks, Announced, PushBatch, pushVars, mainVars, BatchReady
  <2>5. \A b \in Channels : b # c => ChannelTasks'[b] = ChannelTasks[b]
    BY <1>0 DEF IInv, TypeOK, ChannelTasks, Announced, PushBatch, pushVars, mainVars, BatchReady
  <2> HIDE DEF d, e
  <2> QED BY <1>0, <1>1, <2>1, <2>2, <2>3, <2>4, <2>5, AccountStep DEF IInv
<1> QED BY <1>1, <1>2, <1>3, <1>4, <1>5, <1>6 DEF IInv

(* A failed push uses up an attempt and moves no task.                      *)
LEMMA StepPushBatchFails ==
  ASSUME IInv, NEW w \in Workers, PushBatchFails(w)
  PROVE  IInv'
<1> DEFINE c == CurrentChannel(w)
<1>0. /\ c \in Channels /\ BatchSize[c] \in 1 .. MaxBatchSize
      /\ MaxBatchSize \in Nat /\ ChannelBufferSize \in Nat
      /\ NextTablePos(w) \in Nat \ {0} /\ NextTablePos(w) <= Len(ChannelTable[w])
  BY CurrentChannelType, NextTablePosType, NetworkIs DEF IInv
<1>a. /\ queueSize[w] \in Nat /\ outCount[w] \in 0 .. MaxBatchSize /\ localCount[w] \in Nat
      /\ InHand(w) \in {0, 1} /\ Uncounted(w) \in {0, 1} /\ globalCount \in Nat
      /\ attempts[w] \in 0 .. MaxPushAttempts /\ todo[w] \in Nat
      /\ MaxBatchSize \in Nat /\ MaxPushAttempts \in Nat \ {0}
  BY NetworkIs, ParameterAssumption DEF IInv, TypeOK, InHand, Uncounted
<1>b. /\ InHand(w) = 1 => localCount[w] <= queueSize[w]
      /\ InHand(w) = 0 => localCount[w] < queueSize[w] \/ localCount[w] = 0
  BY DEF IInv, LocalCountCovered
<1>c. /\ queueSize'[w] = queueSize[w]
      /\ outCount'[w] = outCount[w]
      /\ localCount'[w] = localCount[w]
      /\ InHand(w) = 1 /\ InHand(w)' = 1
      /\ Uncounted(w)' = Uncounted(w)
  BY <1>0, <1>a DEF IInv, TypeOK, InHand, Uncounted, PushBatchFails, pushVars, mainVars, BatchReady
<1>1. TypeOK'
  <2>1. queueSize' \in [Workers -> Nat] /\ outCount' \in [Workers -> 0 .. MaxBatchSize]
    BY <1>0, <1>a, <1>c DEF IInv, TypeOK, PushBatchFails, pushVars, mainVars, BatchReady
  <2>2. occupancy' \in [Channels -> 0 .. ChannelBufferSize]
    BY <1>0 DEF IInv, TypeOK, PushBatchFails, pushVars, mainVars, BatchReady
  <2>3. tablePos' \in [Workers -> Nat \ {0}] /\ \A v \in Workers : tablePos'[v] <= Len(ChannelTable[v])
    BY <1>0 DEF IInv, TypeOK, PushBatchFails, pushVars, mainVars, BatchReady
  <2>4. attempts' \in [Workers -> 0 .. MaxPushAttempts]
    BY <1>a, SMTT(40) DEF IInv, TypeOK, PushBatchFails, pushVars, mainVars, BatchReady
  <2> QED BY <2>1, <2>2, <2>3, <2>4 DEF IInv, TypeOK, PushBatchFails, pushVars, mainVars, BatchReady
<1>2. BeforeStart'
  BY <1>0 DEF IInv, TypeOK, BeforeStart, PushBatchFails, pushVars, mainVars, BatchReady
<1>3. LocalCountCovered'
  <2> SUFFICES ASSUME NEW v \in Workers
               PROVE  /\ InHand(v)' = 1 => localCount'[v] <= queueSize'[v]
                      /\ InHand(v)' = 0 => localCount'[v] < queueSize'[v] \/ localCount'[v] = 0
    BY DEF LocalCountCovered
  <2>1. CASE v # w
    BY <2>1, <1>0 DEF IInv, TypeOK, LocalCountCovered, InHand, PushBatchFails, pushVars, mainVars, BatchReady
  <2>2. CASE v = w
    BY <2>2, <1>a, <1>b, <1>c
  <2> QED BY <2>1, <2>2
<1>4. RoundHasTask'
  BY <1>0 DEF IInv, TypeOK, RoundHasTask, PushBatchFails, pushVars, mainVars, BatchReady
<1>5. OutBufferRoom'
  <2>1. \A v \in Workers : v # w => CurrentChannel(v)' = CurrentChannel(v)
    BY <1>0 DEF IInv, TypeOK, CurrentChannel, PushBatchFails, pushVars, mainVars, BatchReady
  <2> QED BY <2>1 DEF IInv, TypeOK, OutBufferRoom, PushBatchFails, pushVars, mainVars, BatchReady
<1>6. Account'
  <2>1. \A v \in Workers : WorkerShare'[v] = WorkerShare[v]
    BY <1>0 DEF IInv, TypeOK, WorkerShare, WorkerTasks, InHand, Uncounted, PushBatchFails, pushVars, mainVars, BatchReady
  <2>2. \A b \in Channels : ChannelTasks'[b] = ChannelTasks[b]
    BY <1>0 DEF IInv, TypeOK, ChannelTasks, Announced, PushBatchFails, pushVars, mainVars, BatchReady
  <2>3. globalCount' = globalCount
    BY DEF PushBatchFails, pushVars, mainVars, BatchReady
  <2> QED BY <1>1, <2>1, <2>2, <2>3, AccountSame DEF IInv
<1> QED BY <1>1, <1>2, <1>3, <1>4, <1>5, <1>6 DEF IInv

(* After the loop of enqueueGlobal there is room in outBuffer_: the loop    *)
(* ended because less than a batch was left, or everything was taken back.  *)
LEMMA StepEndEnqueue ==
  ASSUME IInv, NEW w \in Workers, EndEnqueue(w)
  PROVE  IInv'
<1>a. /\ queueSize[w] \in Nat /\ outCount[w] \in 0 .. MaxBatchSize /\ localCount[w] \in Nat
      /\ InHand(w) \in {0, 1} /\ Uncounted(w) \in {0, 1} /\ globalCount \in Nat
      /\ attempts[w] \in 0 .. MaxPushAttempts /\ todo[w] \in Nat
      /\ MaxBatchSize \in Nat /\ MaxPushAttempts \in Nat \ {0}
  BY NetworkIs, ParameterAssumption DEF IInv, TypeOK, InHand, Uncounted
<1>b. /\ InHand(w) = 1 => localCount[w] <= queueSize[w]
      /\ InHand(w) = 0 => localCount[w] < queueSize[w] \/ localCount[w] = 0
  BY DEF IInv, LocalCountCovered
<1>c. /\ queueSize'[w] = IF attempts[w] = 0 THEN queueSize[w] + outCount[w] ELSE queueSize[w]
      /\ outCount'[w] = IF attempts[w] = 0 THEN 0 ELSE outCount[w]
      /\ localCount'[w] = localCount[w]
      /\ InHand(w) = 1 /\ InHand(w)' = 1
      /\ Uncounted(w)' = Uncounted(w)
  BY <1>a, SMTT(40) DEF IInv, TypeOK, InHand, Uncounted, EndEnqueue, pushVars, mainVars, Goto, BatchReady, PushOutBufferSelf
<1>1. TypeOK'
  <2>1. queueSize[w] + outCount[w] \in Nat /\ 0 \in 0 .. MaxBatchSize
    BY <1>a
  <2>2. queueSize' \in [Workers -> Nat]
    BY <2>1 DEF IInv, TypeOK, EndEnqueue, PushOutBufferSelf
  <2>3. outCount' \in [Workers -> 0 .. MaxBatchSize]
    BY <2>1 DEF IInv, TypeOK, EndEnqueue, PushOutBufferSelf
  <2>4. pc' \in [Workers -> PcValues]
    BY DEF IInv, TypeOK, PcValues, EndEnqueue, Goto
  <2>5. attempts' \in [Workers -> 0 .. MaxPushAttempts]
    BY <1>a DEF IInv, TypeOK, EndEnqueue
  <2> QED BY <2>2, <2>3, <2>4, <2>5 DEF IInv, TypeOK, EndEnqueue, pushVars, mainVars
<1>2. BeforeStart'
  BY DEF IInv, TypeOK, BeforeStart, EndEnqueue, pushVars, mainVars, Goto, BatchReady, PushOutBufferSelf
<1>3. LocalCountCovered'
  <2> SUFFICES ASSUME NEW v \in Workers
               PROVE  /\ InHand(v)' = 1 => localCount'[v] <= queueSize'[v]
                      /\ InHand(v)' = 0 => localCount'[v] < queueSize'[v] \/ localCount'[v] = 0
    BY DEF LocalCountCovered
  <2>1. CASE v # w
    BY <2>1 DEF IInv, TypeOK, LocalCountCovered, InHand, EndEnqueue, pushVars, mainVars, Goto, BatchReady, PushOutBufferSelf
  <2>2. CASE v = w
    BY <2>2, <1>a, <1>b, <1>c
  <2> QED BY <2>1, <2>2
<1>4. RoundHasTask'
  BY DEF IInv, TypeOK, RoundHasTask, EndEnqueue, pushVars, mainVars, Goto, BatchReady, PushOutBufferSelf
<1>5. OutBufferRoom'
  <2> SUFFICES ASSUME NEW v \in Workers, pc'[v] # "pushing"
               PROVE  outCount'[v] < BatchSize[CurrentChannel(v)]'
    BY DEF OutBufferRoom
  <2>1. CurrentChannel(v)' = CurrentChannel(v)
    BY DEF CurrentChannel, EndEnqueue, pushVars, mainVars, Goto, BatchReady, PushOutBufferSelf
  <2>2. CASE v # w
    BY <2>1, <2>2 DEF IInv, TypeOK, OutBufferRoom, EndEnqueue, pushVars, mainVars, Goto, BatchReady, PushOutBufferSelf
  <2>3. CASE v = w
    <3>1. BatchSize[CurrentChannel(w)] \in 1 .. MaxBatchSize
      BY CurrentChannelType DEF IInv
    <3> QED BY <3>1, <2>1, <2>3, <1>a, <1>c DEF IInv, OutBufferRoom, EndEnqueue, pushVars, mainVars, Goto, BatchReady, PushOutBufferSelf
  <2> QED BY <2>2, <2>3
<1>6. Account'
  <2> DEFINE d == 0
  <2>1. d \in Int /\ globalCount' = globalCount + d
    BY <1>1, <1>a DEF IInv, TypeOK, EndEnqueue, pushVars, mainVars, Goto, BatchReady, PushOutBufferSelf
  <2>2. WorkerShare'[w] = WorkerShare[w] + d
    BY <1>a, <1>c DEF WorkerShare, WorkerTasks
  <2>3. \A v \in Workers : v # w => WorkerShare'[v] = WorkerShare[v]
    BY SMTT(40) DEF IInv, TypeOK, WorkerShare, WorkerTasks, InHand, Uncounted, EndEnqueue, pushVars, mainVars, Goto, BatchReady, PushOutBufferSelf
  <2>4. ChannelTasks' = ChannelTasks
    BY DEF ChannelTasks, Announced, EndEnqueue, pushVars, mainVars, Goto, BatchReady, PushOutBufferSelf
  <2> HIDE DEF d
  <2> QED BY <1>1, <2>1, <2>2, <2>3, <2>4, AccountWorker DEF IInv
<1> QED BY <1>1, <1>2, <1>3, <1>4, <1>5, <1>6 DEF IInv

(* decrGlobalCount keeps the invariant: the completed task leaves its       *)
(* worker's share and exactly one counter, and the refill stays below the   *)
(* queue's length. Here globalCount_ could wrap below zero and, by          *)
(* CountBounds, does not.                                                   *)
LEMMA StepCompleteTask ==
  ASSUME IInv, NEW w \in Workers, CompleteTask(w)
  PROVE  IInv'
<1>a. /\ queueSize[w] \in Nat /\ outCount[w] \in 0 .. MaxBatchSize /\ localCount[w] \in Nat
      /\ InHand(w) \in {0, 1} /\ Uncounted(w) \in {0, 1} /\ globalCount \in Nat
      /\ attempts[w] \in 0 .. MaxPushAttempts /\ todo[w] \in Nat
      /\ MaxBatchSize \in Nat /\ MaxPushAttempts \in Nat \ {0}
  BY NetworkIs, ParameterAssumption DEF IInv, TypeOK, InHand, Uncounted
<1>b. /\ InHand(w) = 1 => localCount[w] <= queueSize[w]
      /\ InHand(w) = 0 => localCount[w] < queueSize[w] \/ localCount[w] = 0
  BY DEF IInv, LocalCountCovered
<1>c. /\ queueSize'[w] = queueSize[w]
      /\ outCount'[w] = outCount[w]
      /\ localCount'[w] = IF localCount[w] = 0 THEN queueSize[w] \div 2 ELSE localCount[w] - 1
      /\ InHand(w) = 1 /\ InHand(w)' = 0
      /\ Uncounted(w)' = Uncounted(w)
      /\ globalCount' = globalCount + (localCount[w] - localCount'[w] - 1)
  BY <1>a, SMTT(40) DEF IInv, TypeOK, InHand, Uncounted, CompleteTask, pushVars, mainVars, Goto, DecrGlobalCount
<1>1. TypeOK'
  <2>1. /\ queueSize[w] \div 2 \in Nat /\ queueSize[w] \div 2 <= queueSize[w]
        /\ queueSize[w] > 0 => queueSize[w] \div 2 < queueSize[w]
    BY <1>a
  <2>2. localCount'[w] \in Nat
    BY <2>1, <1>a, <1>c
  <2>3. globalCount >= queueSize[w] + outCount[w] + 1 - localCount[w]
    <3>1. Uncounted(w) = 0
      BY DEF IInv, BeforeStart, TypeOK, Uncounted, CompleteTask
    <3>2. 0 \in Channels
      BY NetworkIs DEF Channels
    <3>3. globalCount >= WorkerShare[w] + ChannelTasks[0] /\ ChannelTasks[0] \in Nat
      BY <3>2, CountBounds, SharesType DEF IInv, SharesOK, Channels
    <3>4. WorkerShare[w] = queueSize[w] + outCount[w] + 1 - localCount[w]
      BY <3>1, <1>a, <1>c DEF WorkerShare, WorkerTasks
    <3> QED BY <3>3, <3>4, <1>a
  <2>4. globalCount' \in Nat
    BY <2>1, <2>3, <1>a, <1>b, <1>c
  <2>5. localCount' \in [Workers -> Nat]
    <3>1. localCount' = [localCount EXCEPT ![w] = localCount'[w]]
      BY DEF IInv, TypeOK, CompleteTask, DecrGlobalCount
    <3> QED BY <2>2, <3>1 DEF IInv, TypeOK
  <2>6. cntr' \in [Workers -> 0 .. CntrPeriod - 1]
    <3>1. cntr[w] \in Nat /\ CntrPeriod \in Nat \ {0}
      BY CntrPeriodType DEF IInv, TypeOK
    <3>2. \A m \in Nat : \A p \in Nat \ {0} : m % p \in 0 .. p - 1
      OBVIOUS
    <3>3. (cntr[w] + 1) % CntrPeriod \in 0 .. CntrPeriod - 1
      BY <3>1, <3>2, SMTT(40)
    <3> QED BY <3>3 DEF IInv, TypeOK, CompleteTask
  <2>7. pc' \in [Workers -> PcValues] /\ budget' \in Nat
    BY DEF IInv, TypeOK, PcValues, CompleteTask, pushVars, mainVars, Goto, DecrGlobalCount
  <2> QED BY <2>4, <2>5, <2>6, <2>7 DEF IInv, TypeOK, CompleteTask, pushVars, mainVars, Goto, DecrGlobalCount
<1>2. BeforeStart'
  BY DEF IInv, TypeOK, BeforeStart, CompleteTask, pushVars, mainVars, Goto, DecrGlobalCount
<1>3. LocalCountCovered'
  <2> SUFFICES ASSUME NEW v \in Workers
               PROVE  /\ InHand(v)' = 1 => localCount'[v] <= queueSize'[v]
                      /\ InHand(v)' = 0 => localCount'[v] < queueSize'[v] \/ localCount'[v] = 0
    BY DEF LocalCountCovered
  <2>1. CASE v # w
    BY <2>1, ZenonT(60) DEF IInv, TypeOK, LocalCountCovered, InHand, CompleteTask, pushVars, mainVars, Goto, DecrGlobalCount
  <2>2. CASE v = w
    BY <2>2, <1>a, <1>b, <1>c
  <2> QED BY <2>1, <2>2
<1>4. RoundHasTask'
  BY DEF IInv, TypeOK, RoundHasTask, CompleteTask, pushVars, mainVars, Goto, DecrGlobalCount
<1>5. OutBufferRoom'
  BY DEF IInv, TypeOK, OutBufferRoom, CurrentChannel, CompleteTask, pushVars, mainVars, Goto, DecrGlobalCount
<1>6. Account'
  <2> DEFINE d == localCount[w] - localCount'[w] - 1
  <2>0. localCount'[w] \in Nat
    BY <1>1 DEF TypeOK
  <2>1. d \in Int /\ globalCount' = globalCount + d
    BY <2>0, <1>a, <1>c
  <2>2. WorkerShare'[w] = WorkerShare[w] + d
    <3>1. /\ WorkerShare[w] = WorkerTasks[w] - Uncounted(w) - localCount[w]
          /\ WorkerTasks[w] = queueSize[w] + outCount[w] + InHand(w)
      BY ShareValue
    <3>2. /\ WorkerShare'[w] = WorkerTasks'[w] - Uncounted(w)' - localCount'[w]
          /\ WorkerTasks'[w] = queueSize'[w] + outCount'[w] + InHand(w)'
      BY ShareValueNext
    <3> QED BY <2>0, <3>1, <3>2, <1>a, <1>c
  <2>3. \A v \in Workers : v # w => WorkerShare'[v] = WorkerShare[v]
    BY ZenonT(60) DEF IInv, TypeOK, WorkerShare, WorkerTasks, InHand, Uncounted, CompleteTask, pushVars, mainVars, Goto, DecrGlobalCount
  <2>4. ChannelTasks' = ChannelTasks
    BY DEF ChannelTasks, Announced, CompleteTask, pushVars, mainVars, Goto, DecrGlobalCount
  <2> HIDE DEF d
  <2> QED BY <1>1, <2>1, <2>2, <2>3, <2>4, AccountWorker DEF IInv
<1> QED BY <1>1, <1>2, <1>3, <1>4, <1>5, <1>6 DEF IInv

(* The flush at the end of the outer loop moves tasks inside one worker's   *)
(* share.                                                                   *)
LEMMA StepFlushOutBuffer ==
  ASSUME IInv, NEW w \in Workers, FlushOutBuffer(w)
  PROVE  IInv'
<1>a. /\ queueSize[w] \in Nat /\ outCount[w] \in 0 .. MaxBatchSize /\ localCount[w] \in Nat
      /\ InHand(w) \in {0, 1} /\ Uncounted(w) \in {0, 1} /\ globalCount \in Nat
      /\ attempts[w] \in 0 .. MaxPushAttempts /\ todo[w] \in Nat
      /\ MaxBatchSize \in Nat /\ MaxPushAttempts \in Nat \ {0}
  BY NetworkIs, ParameterAssumption DEF IInv, TypeOK, InHand, Uncounted
<1>b. /\ InHand(w) = 1 => localCount[w] <= queueSize[w]
      /\ InHand(w) = 0 => localCount[w] < queueSize[w] \/ localCount[w] = 0
  BY DEF IInv, LocalCountCovered
<1>c. /\ queueSize'[w] = queueSize[w] + outCount[w]
      /\ outCount'[w] = 0
      /\ localCount'[w] = localCount[w]
      /\ InHand(w) = 0 /\ InHand(w)' = 0
      /\ Uncounted(w)' = Uncounted(w)
  BY <1>a DEF IInv, TypeOK, InHand, Uncounted, FlushOutBuffer, pushVars, mainVars, Goto, PushOutBufferSelf
<1>1. TypeOK'
  <2>1. queueSize' \in [Workers -> Nat] /\ outCount' \in [Workers -> 0 .. MaxBatchSize]
    BY <1>a, <1>c, SMTT(40) DEF IInv, TypeOK, FlushOutBuffer, pushVars, mainVars, Goto, PushOutBufferSelf
  <2>2. pc' \in [Workers -> PcValues]
    BY DEF IInv, TypeOK, PcValues, FlushOutBuffer, pushVars, mainVars, Goto, PushOutBufferSelf
  <2> QED BY <2>1, <2>2 DEF IInv, TypeOK, FlushOutBuffer, pushVars, mainVars, Goto, PushOutBufferSelf
<1>2. BeforeStart'
  BY DEF IInv, TypeOK, BeforeStart, FlushOutBuffer, pushVars, mainVars, Goto, PushOutBufferSelf
<1>3. LocalCountCovered'
  <2> SUFFICES ASSUME NEW v \in Workers
               PROVE  /\ InHand(v)' = 1 => localCount'[v] <= queueSize'[v]
                      /\ InHand(v)' = 0 => localCount'[v] < queueSize'[v] \/ localCount'[v] = 0
    BY DEF LocalCountCovered
  <2>1. CASE v # w
    BY <2>1 DEF IInv, TypeOK, LocalCountCovered, InHand, FlushOutBuffer, pushVars, mainVars, Goto, PushOutBufferSelf
  <2>2. CASE v = w
    BY <2>2, <1>a, <1>b, <1>c
  <2> QED BY <2>1, <2>2
<1>4. RoundHasTask'
  BY DEF IInv, TypeOK, RoundHasTask, FlushOutBuffer, pushVars, mainVars, Goto, PushOutBufferSelf
<1>5. OutBufferRoom'
  <2> SUFFICES ASSUME NEW v \in Workers, pc'[v] # "pushing"
               PROVE  outCount'[v] < BatchSize[CurrentChannel(v)]'
    BY DEF OutBufferRoom
  <2>1. CurrentChannel(v)' = CurrentChannel(v)
    BY DEF CurrentChannel, FlushOutBuffer, pushVars, mainVars, Goto, PushOutBufferSelf
  <2>2. CASE v # w
    BY <2>1, <2>2 DEF IInv, TypeOK, OutBufferRoom, FlushOutBuffer, pushVars, mainVars, Goto, PushOutBufferSelf
  <2>3. CASE v = w
    <3>1. BatchSize[CurrentChannel(w)] \in 1 .. MaxBatchSize
      BY CurrentChannelType DEF IInv
    <3> QED BY <3>1, <2>1, <2>3, <1>a, <1>c DEF IInv, OutBufferRoom, FlushOutBuffer, pushVars, mainVars, Goto, PushOutBufferSelf
  <2> QED BY <2>2, <2>3
<1>6. Account'
  <2> DEFINE d == 0
  <2>1. d \in Int /\ globalCount' = globalCount + d
    BY <1>1, <1>a DEF IInv, TypeOK, FlushOutBuffer, pushVars, mainVars, Goto, PushOutBufferSelf
  <2>2. WorkerShare'[w] = WorkerShare[w] + d
    BY <1>a, <1>c DEF WorkerShare, WorkerTasks
  <2>3. \A v \in Workers : v # w => WorkerShare'[v] = WorkerShare[v]
    BY DEF IInv, TypeOK, WorkerShare, WorkerTasks, InHand, Uncounted, FlushOutBuffer, pushVars, mainVars, Goto, PushOutBufferSelf
  <2>4. ChannelTasks' = ChannelTasks
    BY DEF ChannelTasks, Announced, FlushOutBuffer, pushVars, mainVars, Goto, PushOutBufferSelf
  <2> HIDE DEF d
  <2> QED BY <1>1, <2>1, <2>2, <2>3, <2>4, AccountWorker DEF IInv
<1> QED BY <1>1, <1>2, <1>3, <1>4, <1>5, <1>6 DEF IInv

(* The load in pushDuringProcessing keeps the invariant.                    *)
LEMMA StepPusherLoad ==
  ASSUME IInv, NEW c \in SelfPushChannels, PusherLoad(c)
  PROVE  IInv'
<1>1. TypeOK'
  <2>1. c \in Channels
    BY DEF SelfPushChannels
  <2>2. prevCount' \in [Channels -> Nat] /\ budget' \in Nat
    BY <2>1, CountViewsType, SMTT(40) DEF IInv, TypeOK, PusherLoad
  <2>3. pusher' \in [Channels -> {"idle", "cas", "push", "undo"}]
    BY <2>1 DEF IInv, TypeOK, PusherLoad
  <2> QED BY <2>2, <2>3 DEF IInv, TypeOK, PusherLoad, mainVars, taskVars
<1>2. BeforeStart'
  BY DEF IInv, TypeOK, BeforeStart, PusherLoad, mainVars, taskVars, SelfPushChannels
<1>3. LocalCountCovered'
  BY DEF IInv, TypeOK, LocalCountCovered, InHand, PusherLoad, mainVars, taskVars, SelfPushChannels
<1>4. RoundHasTask'
  BY DEF IInv, TypeOK, RoundHasTask, PusherLoad, mainVars, taskVars, SelfPushChannels
<1>5. OutBufferRoom'
  BY DEF IInv, TypeOK, OutBufferRoom, CurrentChannel, PusherLoad, mainVars, taskVars, SelfPushChannels
<1>6. Account'
  <2>1. \A v \in Workers : WorkerShare'[v] = WorkerShare[v]
    BY DEF IInv, TypeOK, WorkerShare, WorkerTasks, InHand, Uncounted, PusherLoad, mainVars, taskVars, SelfPushChannels
  <2>2. \A b \in Channels : ChannelTasks'[b] = ChannelTasks[b]
    BY DEF IInv, TypeOK, ChannelTasks, Announced, PusherLoad, mainVars, taskVars, SelfPushChannels
  <2>3. globalCount' = globalCount
    BY DEF PusherLoad, mainVars, taskVars, SelfPushChannels
  <2> QED BY <1>1, <2>1, <2>2, <2>3, AccountSame DEF IInv
<1> QED BY <1>1, <1>2, <1>3, <1>4, <1>5, <1>6 DEF IInv

(* The compare-and-swap counts and announces a task in one step.            *)
LEMMA StepCasSucceeds ==
  ASSUME IInv, NEW c \in SelfPushChannels, CasSucceeds(c)
  PROVE  IInv'
<1>1. TypeOK'
  BY DEF IInv, TypeOK, CasSucceeds, mainVars, taskVars, SelfPushChannels
<1>2. BeforeStart'
  BY DEF IInv, TypeOK, BeforeStart, CasSucceeds, mainVars, taskVars, SelfPushChannels
<1>3. LocalCountCovered'
  BY DEF IInv, TypeOK, LocalCountCovered, InHand, CasSucceeds, mainVars, taskVars, SelfPushChannels
<1>4. RoundHasTask'
  BY DEF IInv, TypeOK, RoundHasTask, CasSucceeds, mainVars, taskVars, SelfPushChannels
<1>5. OutBufferRoom'
  BY DEF IInv, TypeOK, OutBufferRoom, CurrentChannel, CasSucceeds, mainVars, taskVars, SelfPushChannels
<1>6. Account'
  <2>1. globalCount' = globalCount + (1) /\ (1) \in Int
    BY DEF IInv, TypeOK, CasSucceeds, mainVars, taskVars, SelfPushChannels
  <2>2. WorkerShare' = WorkerShare
    BY DEF WorkerShare, WorkerTasks, InHand, Uncounted, CasSucceeds, mainVars, taskVars, SelfPushChannels
  <2>3. c \in Channels /\ ChannelTasks'[c] = ChannelTasks[c] + (1)
    BY DEF IInv, TypeOK, ChannelTasks, Announced, CasSucceeds, mainVars, taskVars, SelfPushChannels
  <2>4. \A b \in Channels : b # c => ChannelTasks'[b] = ChannelTasks[b]
    BY DEF IInv, TypeOK, ChannelTasks, Announced, CasSucceeds, mainVars, taskVars, SelfPushChannels
  <2> QED BY <1>1, <2>1, <2>2, <2>3, <2>4, AccountChannel DEF IInv
<1> QED BY <1>1, <1>2, <1>3, <1>4, <1>5, <1>6 DEF IInv

(* A failed compare-and-swap only reads the counter.                        *)
LEMMA StepCasFails ==
  ASSUME IInv, NEW c \in SelfPushChannels, CasFails(c)
  PROVE  IInv'
<1>1. TypeOK'
  <2>1. c \in Channels
    BY DEF SelfPushChannels
  <2>2. prevCount' \in [Channels -> Nat] /\ budget' \in Nat
    BY <2>1, CountViewsType, SMTT(40) DEF IInv, TypeOK, CasFails
  <2>3. pusher' \in [Channels -> {"idle", "cas", "push", "undo"}]
    BY <2>1, ZenonT(60) DEF IInv, TypeOK, CasFails
  <2> QED BY <2>2, <2>3 DEF IInv, TypeOK, CasFails, mainVars, taskVars
<1>2. BeforeStart'
  BY DEF IInv, TypeOK, BeforeStart, CasFails, mainVars, taskVars, SelfPushChannels
<1>3. LocalCountCovered'
  BY DEF IInv, TypeOK, LocalCountCovered, InHand, CasFails, mainVars, taskVars, SelfPushChannels
<1>4. RoundHasTask'
  BY DEF IInv, TypeOK, RoundHasTask, CasFails, mainVars, taskVars, SelfPushChannels
<1>5. OutBufferRoom'
  BY DEF IInv, TypeOK, OutBufferRoom, CurrentChannel, CasFails, mainVars, taskVars, SelfPushChannels
<1>6. Account'
  <2>1. \A v \in Workers : WorkerShare'[v] = WorkerShare[v]
    BY DEF IInv, TypeOK, WorkerShare, WorkerTasks, InHand, Uncounted, CasFails, mainVars, taskVars, SelfPushChannels
  <2>2. \A b \in Channels : ChannelTasks'[b] = ChannelTasks[b]
    BY DEF IInv, TypeOK, ChannelTasks, Announced, CasFails, mainVars, taskVars, SelfPushChannels
  <2>3. globalCount' = globalCount
    BY DEF CasFails, mainVars, taskVars, SelfPushChannels
  <2> QED BY <1>1, <2>1, <2>2, <2>3, AccountSame DEF IInv
<1> QED BY <1>1, <1>2, <1>3, <1>4, <1>5, <1>6 DEF IInv

(* The announced task arrives in its channel.                               *)
LEMMA StepPusherPush ==
  ASSUME IInv, NEW c \in SelfPushChannels, PusherPush(c)
  PROVE  IInv'
<1>1. TypeOK'
  BY DEF IInv, TypeOK, PusherPush, mainVars, taskVars, SelfPushChannels
<1>2. BeforeStart'
  BY DEF IInv, TypeOK, BeforeStart, PusherPush, mainVars, taskVars, SelfPushChannels
<1>3. LocalCountCovered'
  BY DEF IInv, TypeOK, LocalCountCovered, InHand, PusherPush, mainVars, taskVars, SelfPushChannels
<1>4. RoundHasTask'
  BY DEF IInv, TypeOK, RoundHasTask, PusherPush, mainVars, taskVars, SelfPushChannels
<1>5. OutBufferRoom'
  BY DEF IInv, TypeOK, OutBufferRoom, CurrentChannel, PusherPush, mainVars, taskVars, SelfPushChannels
<1>6. Account'
  <2>1. \A v \in Workers : WorkerShare'[v] = WorkerShare[v]
    BY DEF IInv, TypeOK, WorkerShare, WorkerTasks, InHand, Uncounted, PusherPush, mainVars, taskVars, SelfPushChannels
  <2>2. \A b \in Channels : ChannelTasks'[b] = ChannelTasks[b]
    BY DEF IInv, TypeOK, ChannelTasks, Announced, PusherPush, mainVars, taskVars, SelfPushChannels
  <2>3. globalCount' = globalCount
    BY DEF PusherPush, mainVars, taskVars, SelfPushChannels
  <2> QED BY <1>1, <2>1, <2>2, <2>3, AccountSame DEF IInv
<1> QED BY <1>1, <1>2, <1>3, <1>4, <1>5, <1>6 DEF IInv

(* A refused push leaves the announcement standing, ...                     *)
LEMMA StepPusherPushFails ==
  ASSUME IInv, NEW c \in SelfPushChannels, PusherPushFails(c)
  PROVE  IInv'
<1>1. TypeOK'
  BY DEF IInv, TypeOK, PusherPushFails, mainVars, taskVars, SelfPushChannels
<1>2. BeforeStart'
  BY DEF IInv, TypeOK, BeforeStart, PusherPushFails, mainVars, taskVars, SelfPushChannels
<1>3. LocalCountCovered'
  BY DEF IInv, TypeOK, LocalCountCovered, InHand, PusherPushFails, mainVars, taskVars, SelfPushChannels
<1>4. RoundHasTask'
  BY DEF IInv, TypeOK, RoundHasTask, PusherPushFails, mainVars, taskVars, SelfPushChannels
<1>5. OutBufferRoom'
  BY DEF IInv, TypeOK, OutBufferRoom, CurrentChannel, PusherPushFails, mainVars, taskVars, SelfPushChannels
<1>6. Account'
  <2>1. \A v \in Workers : WorkerShare'[v] = WorkerShare[v]
    BY DEF IInv, TypeOK, WorkerShare, WorkerTasks, InHand, Uncounted, PusherPushFails, mainVars, taskVars, SelfPushChannels
  <2>2. \A b \in Channels : ChannelTasks'[b] = ChannelTasks[b]
    BY DEF IInv, TypeOK, ChannelTasks, Announced, PusherPushFails, mainVars, taskVars, SelfPushChannels
  <2>3. globalCount' = globalCount
    BY DEF PusherPushFails, mainVars, taskVars, SelfPushChannels
  <2> QED BY <1>1, <2>1, <2>2, <2>3, AccountSame DEF IInv
<1> QED BY <1>1, <1>2, <1>3, <1>4, <1>5, <1>6 DEF IInv

(* ... until it is taken back; the counter is positive because of it.       *)
LEMMA StepPusherUndo ==
  ASSUME IInv, NEW c \in SelfPushChannels, PusherUndo(c)
  PROVE  IInv'
<1>1. TypeOK'
  <2>1. c \in Channels /\ ChannelTasks[c] >= 1
    BY DEF IInv, TypeOK, ChannelTasks, Announced, PusherUndo, mainVars, taskVars, SelfPushChannels
  <2>2. 0 \in Workers
    BY NetworkIs DEF Workers
  <2>3. WorkerShare[0] \in Int /\ ChannelTasks[c] \in Int
    BY <2>1, <2>2, SharesType DEF IInv, SharesOK, Workers, Channels
  <2>4. globalCount >= 1
    <3>1. WorkerShare[0] >= 0
      BY <2>2, SharesCover
    <3>2. globalCount >= WorkerShare[0] + ChannelTasks[c]
      BY <2>1, <2>2, CountBounds
    <3>3. globalCount \in Nat
      BY DEF IInv, TypeOK
    <3> QED BY <2>1, <2>3, <3>1, <3>2, <3>3
  <2>5. globalCount' \in Nat /\ budget' \in Nat
    BY <2>4 DEF IInv, TypeOK, PusherUndo
  <2>6. pusher' \in [Channels -> {"idle", "cas", "push", "undo"}]
    BY <2>1 DEF IInv, TypeOK, PusherUndo
  <2> QED BY <2>5, <2>6 DEF IInv, TypeOK, PusherUndo, mainVars, taskVars
<1>2. BeforeStart'
  BY DEF IInv, TypeOK, BeforeStart, PusherUndo, mainVars, taskVars, SelfPushChannels
<1>3. LocalCountCovered'
  BY DEF IInv, TypeOK, LocalCountCovered, InHand, PusherUndo, mainVars, taskVars, SelfPushChannels
<1>4. RoundHasTask'
  BY DEF IInv, TypeOK, RoundHasTask, PusherUndo, mainVars, taskVars, SelfPushChannels
<1>5. OutBufferRoom'
  BY DEF IInv, TypeOK, OutBufferRoom, CurrentChannel, PusherUndo, mainVars, taskVars, SelfPushChannels
<1>6. Account'
  <2>1. globalCount' = globalCount + (-1) /\ (-1) \in Int
    BY DEF IInv, TypeOK, PusherUndo, mainVars, taskVars, SelfPushChannels
  <2>2. WorkerShare' = WorkerShare
    BY DEF WorkerShare, WorkerTasks, InHand, Uncounted, PusherUndo, mainVars, taskVars, SelfPushChannels
  <2>3. c \in Channels /\ ChannelTasks'[c] = ChannelTasks[c] + (-1)
    BY DEF IInv, TypeOK, ChannelTasks, Announced, PusherUndo, mainVars, taskVars, SelfPushChannels
  <2>4. \A b \in Channels : b # c => ChannelTasks'[b] = ChannelTasks[b]
    BY DEF IInv, TypeOK, ChannelTasks, Announced, PusherUndo, mainVars, taskVars, SelfPushChannels
  <2> QED BY <1>1, <2>1, <2>2, <2>3, <2>4, AccountChannel DEF IInv
<1> QED BY <1>1, <1>2, <1>3, <1>4, <1>5, <1>6 DEF IInv

(* Every step keeps the invariant.                                          *)
THEOREM StepIInv == IInv /\ [Next]_vars => IInv'
<1> SUFFICES ASSUME IInv, [Next]_vars PROVE IInv'
  OBVIOUS
<1>1. ASSUME NEW w \in Workers, PushUnsafe(w) PROVE IInv'
  BY <1>1, StepPushUnsafe
<1>2. ASSUME NEW w \in Workers, CountUnsafe(w) PROVE IInv'
  BY <1>2, StepCountUnsafe
<1>3. ASSUME NEW w \in Workers, Worker(w) PROVE IInv'
  BY <1>3, StepWaitStart, StepLoadCount, StepLoadStop, StepLeaveInner, StepEnterRound,
     StepPopTask, StepPopNothing, StepTake, StepEnqueueGlobal, StepPushBatchSelf, StepPushBatch,
     StepPushBatchFails, StepEndEnqueue, StepCompleteTask, StepFlushOutBuffer DEF Worker
<1>4. ASSUME NEW c \in SelfPushChannels, PusherLoad(c) PROVE IInv'
  BY <1>4, StepPusherLoad
<1>5. ASSUME NEW c \in SelfPushChannels, PusherStep(c) PROVE IInv'
  BY <1>5, StepCasSucceeds, StepCasFails, StepPusherPush, StepPusherPushFails, StepPusherUndo
     DEF PusherStep
<1>6. CASE ProcessQueue
  BY <1>6, StepProcessQueue
<1>7. CASE RequestStop
  BY <1>7, StepRequestStop
<1>8. CASE UNCHANGED vars
  <2>1. TypeOK' /\ BeforeStart' /\ LocalCountCovered' /\ RoundHasTask' /\ OutBufferRoom'
    BY <1>8 DEF IInv, TypeOK, BeforeStart, LocalCountCovered, RoundHasTask, OutBufferRoom,
                CurrentChannel, InHand, vars, mainVars, taskVars, pushVars
  <2>2. Account'
    BY <1>8 DEF IInv, Account, WorkerShare, WorkerTasks, ChannelTasks, InHand, Uncounted,
                Announced, vars, mainVars, taskVars, pushVars
  <2> QED BY <2>1, <2>2 DEF IInv
<1> QED
  BY <1>1, <1>2, <1>3, <1>4, <1>5, <1>6, <1>7, <1>8 DEF Next, Finished

(* The inductive invariant holds in every reachable state.                  *)
THEOREM Invariance == Spec => []IInv
BY InitIInv, StepIInv, PTL DEF Spec

(* Types, and no counter ever wraps below zero: globalCount_ and            *)
(* localCount_ are unsigned and are decreased by more than one at a time.   *)
THEOREM TypeCorrect == Spec => []TypeOK
<1>1. IInv => TypeOK
  BY DEF IInv
<1> QED BY <1>1, Invariance, PTL

(* The global counter and the local counters are always an exact account.   *)
THEOREM AccountCorrect == Spec => []Account
<1>1. IInv => Account
  BY DEF IInv
<1> QED BY <1>1, Invariance, PTL

(* No worker hides its last task in its local counter.                      *)
THEOREM LocalCountCorrect == Spec => []LocalCountCovered
<1>1. IInv => LocalCountCovered
  BY DEF IInv
<1> QED BY <1>1, Invariance, PTL

(* top() and pop() are only called on a queue with an element.              *)
THEOREM TakeCorrect == Spec => []TakeHasTask
<1>1. IInv => TakeHasTask
  BY DEF IInv, RoundHasTask, TakeHasTask
<1> QED BY <1>1, Invariance, PTL

(* The assert on the first line of enqueueGlobal never fails.               *)
THEOREM OutBufferCorrect == Spec => []OutBufferRoom
<1>1. IInv => OutBufferRoom
  BY DEF IInv
<1> QED BY <1>1, Invariance, PTL

(* When globalCount_ is zero and nobody is about to count a task, there is  *)
(* none: every share is covered, so each is zero when their sum is.         *)
LEMMA EmptyWhenZero == IInv /\ NoLoaderBusy /\ globalCount = 0 => NoTaskAnywhere
<1> SUFFICES ASSUME IInv, NoLoaderBusy, globalCount = 0 PROVE NoTaskAnywhere
  OBVIOUS
<1>1. SharesOK
  BY SharesType DEF IInv
<1>2. ASSUME NEW w \in Workers, NEW c \in Channels
      PROVE  WorkerShare[w] = 0 /\ ChannelTasks[c] = 0
  <2>1. WorkerShare[w] \in Int /\ ChannelTasks[c] \in Nat
    BY <1>1 DEF SharesOK, Workers, Channels
  <2>2. WorkerShare[w] >= 0
    BY SharesCover
  <2>3. 0 >= WorkerShare[w] + ChannelTasks[c]
    BY CountBounds
  <2> QED BY <2>1, <2>2, <2>3
<1>3. 0 \in Workers /\ 0 \in Channels
  BY NetworkIs DEF Workers, Channels
<1>4. ASSUME NEW w \in Workers PROVE WorkerTasks[w] = 0
  <2>1. WorkerShare[w] = 0
    BY <1>2, <1>3
  <2>2. ~ (WorkerTasks[w] > 0)
    BY <2>1, SharesCover DEF NoLoaderBusy
  <2>3. WorkerTasks[w] \in Nat
    BY <1>1 DEF SharesOK, Workers
  <2> QED BY <2>2, <2>3
<1>5. \A c \in Channels : ChannelTasks[c] = 0
  BY <1>2, <1>3
<1> QED BY <1>4, <1>5 DEF NoTaskAnywhere

(* When there is no task globalCount_ is zero: the local counts have        *)
(* nothing to stay below and are zero too.                                  *)
LEMMA ZeroWhenEmpty == IInv /\ NoTaskAnywhere => globalCount = 0
<1> SUFFICES ASSUME IInv, NoTaskAnywhere PROVE globalCount = 0
  OBVIOUS
<1>1. SharesOK
  BY SharesType DEF IInv
<1>2. ASSUME NEW w \in Workers PROVE WorkerShare[w] = 0
  <2>1. /\ queueSize[w] \in Nat /\ outCount[w] \in Nat /\ localCount[w] \in Nat
        /\ InHand(w) \in {0, 1} /\ Uncounted(w) \in {0, 1}
    BY DEF IInv, TypeOK, InHand, Uncounted
  <2>2. WorkerTasks[w] = 0
    BY DEF NoTaskAnywhere
  <2>3. queueSize[w] = 0 /\ InHand(w) = 0
    BY <2>1, <2>2, ShareValue
  <2>4. localCount[w] = 0
    BY <2>1, <2>3 DEF IInv, LocalCountCovered
  <2>5. Uncounted(w) = 0
    BY <2>3 DEF IInv, BeforeStart, Uncounted
  <2> QED BY <2>2, <2>4, <2>5, ShareValue
<1>3. SumTo(WorkerShare, NumWorkers) = 0
  BY <1>1, <1>2, SumZero, NetworkIs DEF SharesOK, Workers
<1>4. SumTo(ChannelTasks, NumChannels) = 0
  <2>1. ChannelTasks \in [0 .. NumChannels - 1 -> Int]
    BY <1>1 DEF SharesOK
  <2>2. \A c \in 0 .. NumChannels - 1 : ChannelTasks[c] = 0
    BY DEF NoTaskAnywhere, Channels
  <2> QED BY <2>1, <2>2, SumZero, NetworkIs
<1> QED BY <1>3, <1>4 DEF IInv, Account

(* The comment on globalCount_ is right: it is zero if and only if there is *)
(* no task in the queue, wherever tasks may be on their way, except between *)
(* the two steps of pushBeforeProcessing.                                   *)
THEOREM ZeroCorrect == Spec => []ZeroIffEmpty
<1>1. IInv => ZeroIffEmpty
  BY EmptyWhenZero, ZeroWhenEmpty DEF ZeroIffEmpty
<1> QED BY <1>1, Invariance, PTL

(* A pusher that tries to exchange the counter has read a positive value.   *)
CasSawWork == \A c \in Channels : pusher[c] = "cas" => prevCount[c] > 0

(* Nobody is pushing initially.                                             *)
LEMMA InitCasSawWork == Init => CasSawWork
BY DEF Init, CasSawWork

(* Both the first load and a failed compare-and-swap give up on a zero.     *)
LEMMA StepCasSawWork == IInv /\ CasSawWork /\ [Next]_vars => CasSawWork'
<1> SUFFICES ASSUME IInv, CasSawWork, [Next]_vars PROVE CasSawWork'
  OBVIOUS
<1>1. CASE UNCHANGED pushVars
  BY <1>1 DEF CasSawWork, pushVars
<1>2. ASSUME NEW c \in SelfPushChannels, PusherLoad(c) PROVE CasSawWork'
  <2>1. PICK seen \in CountViews :
          seen > 0 /\ prevCount' = [prevCount EXCEPT ![c] = seen]
    BY <1>2 DEF PusherLoad
  <2> QED BY <1>2, <2>1 DEF CasSawWork, PusherLoad, IInv, TypeOK
<1>3. ASSUME NEW c \in SelfPushChannels, PusherStep(c) PROVE CasSawWork'
  <2>1. globalCount \in Nat /\ pusher \in [Channels -> {"idle", "cas", "push", "undo"}]
        /\ prevCount \in [Channels -> Nat]
    BY DEF IInv, TypeOK
  <2>2. CASE CasFails(c)
    <3>1. PICK seen \in CountViews :
            /\ prevCount' = [prevCount EXCEPT ![c] = seen]
            /\ seen > 0 \/ pusher' = [pusher EXCEPT ![c] = "idle"]
            /\ seen > 0 => UNCHANGED pusher
      BY <2>2 DEF CasFails
    <3> QED BY <2>1, <3>1 DEF CasSawWork
  <2>3. CASE CasSucceeds(c) \/ PusherPush(c) \/ PusherPushFails(c) \/ PusherUndo(c)
    BY <2>1, <2>3 DEF CasSawWork, CasSucceeds, PusherPush, PusherPushFails, PusherUndo
  <2> QED BY <1>3, <2>2, <2>3 DEF PusherStep
<1>4. ASSUME NEW w \in Workers, PushUnsafe(w) \/ CountUnsafe(w) \/ Worker(w)
      PROVE  UNCHANGED pushVars
  BY <1>4 DEF PushUnsafe, CountUnsafe, Worker, WaitStart, LoadCount, LoadStop, LeaveInner,
     EnterRound, PopTask, PopNothing, Take, EnqueueGlobal, PushBatchSelf, PushBatch,
     PushBatchFails, EndEnqueue, CompleteTask, FlushOutBuffer
<1>5. ProcessQueue \/ RequestStop \/ UNCHANGED vars => UNCHANGED pushVars
  BY DEF ProcessQueue, RequestStop, vars
<1> QED BY <1>1, <1>2, <1>3, <1>4, <1>5 DEF Next, Finished

(* At zero nothing is in anybody's hands, and a compare-and-swap expects a  *)
(* positive value: no action can raise the counter.                         *)
LEMMA ZeroStays ==
  IInv /\ CasSawWork /\ [Next]_vars
    => (startSignal /\ NoLoaderBusy /\ globalCount = 0 => globalCount' = 0)
<1> SUFFICES ASSUME IInv, CasSawWork, [Next]_vars, startSignal, NoLoaderBusy, globalCount = 0
             PROVE  globalCount' = 0
  OBVIOUS
<1>1. ASSUME NEW w \in Workers PROVE InHand(w) = 0
  <2>1. WorkerTasks[w] = 0
    BY EmptyWhenZero DEF NoTaskAnywhere
  <2> QED BY <2>1, ShareValue, SMTT(40) DEF IInv, TypeOK, InHand
<1>2. ASSUME NEW c \in Channels PROVE Announced(c) = 0
  <2>1. ChannelTasks[c] = 0
    BY EmptyWhenZero DEF NoTaskAnywhere
  <2> QED BY <2>1 DEF ChannelTasks, IInv, TypeOK, Announced
<1>3. ASSUME NEW w \in Workers, PushUnsafe(w) \/ CountUnsafe(w) PROVE FALSE
  BY <1>3 DEF PushUnsafe, CountUnsafe, NoLoaderBusy
<1>4. ASSUME NEW w \in Workers, Worker(w) PROVE globalCount' = globalCount
  <2>1. ~ (EnqueueGlobal(w) \/ CompleteTask(w))
    BY <1>1 DEF EnqueueGlobal, CompleteTask, InHand
  <2> QED BY <1>4, <2>1 DEF Worker, WaitStart, LoadCount, LoadStop, LeaveInner, EnterRound,
       PopTask, PopNothing, Take, PushBatchSelf, PushBatch, PushBatchFails, EndEnqueue,
       FlushOutBuffer
<1>5. ASSUME NEW c \in SelfPushChannels, PusherLoad(c) \/ PusherStep(c)
      PROVE  globalCount' = globalCount
  <2>1. c \in Channels
    BY DEF SelfPushChannels
  <2>2. ~ (CasSucceeds(c) \/ PusherUndo(c))
    BY <1>2, <2>1 DEF CasSucceeds, PusherUndo, CasSawWork, Announced
  <2> QED BY <1>5, <2>2 DEF PusherLoad, PusherStep, CasFails, PusherPush, PusherPushFails
<1>6. ProcessQueue \/ RequestStop \/ UNCHANGED vars => globalCount' = globalCount
  BY DEF ProcessQueue, RequestStop, vars
<1> QED BY <1>3, <1>4, <1>5, <1>6 DEF Next, Finished

(* A running queue that has become empty stays empty.                       *)
THEOREM NeverRevivedCorrect == Spec => NeverRevived
<1>1. Spec => [](IInv /\ CasSawWork)
  BY InitIInv, StepIInv, InitCasSawWork, StepCasSawWork, PTL DEF Spec
<1>2. IInv /\ CasSawWork /\ [Next]_vars
        => [startSignal /\ NoLoaderBusy /\ globalCount = 0 => globalCount' = 0]_vars
  BY ZeroStays
<1> QED BY <1>1, <1>2, PTL DEF Spec, NeverRevived

(* A worker leaves on a zero or a stop request; a stop request stands, and  *)
(* so does the zero, or all workers have been asked to stop.                *)
LEMMA StepNobodyLeavesWork ==
  IInv /\ CasSawWork /\ NobodyLeavesWork /\ [Next]_vars => NobodyLeavesWork'
<1> SUFFICES ASSUME IInv, CasSawWork, NobodyLeavesWork, [Next]_vars,
                    NEW v \in Workers, pc'[v] = "done"
             PROVE  StopRequested(v)' \/ globalCount' = 0
  BY DEF NobodyLeavesWork
<1>1. stopsSent' >= stopsSent /\ stopsSent \in Nat /\ stopsSent' \in Nat
  <2>1. stopsSent' = stopsSent \/ stopsSent' = stopsSent + 1
    BY DEF Next, Finished, PushUnsafe, CountUnsafe, Worker, WaitStart, LoadCount, LoadStop,
       LeaveInner, EnterRound, PopTask, PopNothing, Take, EnqueueGlobal, PushBatchSelf,
       PushBatch, PushBatchFails, EndEnqueue, CompleteTask, FlushOutBuffer, PusherLoad,
       PusherStep, CasSucceeds, CasFails, PusherPush, PusherPushFails, PusherUndo,
       ProcessQueue, RequestStop, vars, mainVars
  <2> QED BY <2>1, NetworkIs, SMTT(40) DEF IInv, TypeOK
<1>2. CASE pc[v] = "done"
  <2>1. startSignal
    BY <1>2 DEF IInv, BeforeStart
  <2>2. StopRequested(v) => StopRequested(v)'
    BY <1>1 DEF StopRequested, Workers
  <2>3. ~ NoLoaderBusy => StopRequested(v)
    <3>1. ~ NoLoaderBusy => stopsSent = NumWorkers
      BY <2>1 DEF IInv, TypeOK, BeforeStart, NoLoaderBusy
    <3> QED BY <3>1, NetworkIs DEF StopRequested, Workers
  <2> QED BY <1>2, <2>1, <2>2, <2>3, ZeroStays DEF NobodyLeavesWork
<1>3. CASE pc[v] # "done"
  <2>1. PICK w \in Workers : Worker(w)
    <3>1. pc' # pc
      BY <1>3
    <3> QED BY <3>1 DEF Next, Finished, PushUnsafe, CountUnsafe, PusherLoad, PusherStep,
         CasSucceeds, CasFails, PusherPush, PusherPushFails, PusherUndo, ProcessQueue,
         RequestStop, vars
  <2>2. pc' = pc \/ \E label \in PcValues : pc' = [pc EXCEPT ![w] = label]
    BY <2>1 DEF Worker, WaitStart, LoadCount, LoadStop, LeaveInner, EnterRound, PopTask,
       PopNothing, AfterDrain, Take, EnqueueGlobal, PushBatchSelf, PushBatch, PushBatchFails,
       EndEnqueue, CompleteTask, FlushOutBuffer, Goto, PcValues
  <2>3. w = v
    BY <1>3, <2>2 DEF IInv, TypeOK
  <2>4. (LoadCount(v) /\ globalCount = 0) \/ (LoadStop(v) /\ StopRequested(v))
    <3>1. CASE LoadCount(v) \/ LoadStop(v)
      BY <3>1, <1>3 DEF LoadCount, LoadStop, Goto, IInv, TypeOK
    <3>2. CASE WaitStart(v) \/ LeaveInner(v) \/ EnterRound(v) \/ Take(v) \/ FlushOutBuffer(v)
      BY <3>2, <1>3 DEF WaitStart, LeaveInner, EnterRound, Take, FlushOutBuffer, Goto, IInv, TypeOK
    <3>3. CASE PopTask(v) \/ PushBatchSelf(v) \/ PushBatch(v) \/ PushBatchFails(v)
      BY <3>3, <1>3 DEF PopTask, PushBatchSelf, PushBatch, PushBatchFails
    <3>4. CASE PopNothing(v)
      BY <3>4, <1>3 DEF PopNothing, AfterDrain, Goto, IInv, TypeOK
    <3>5. CASE EnqueueGlobal(v) \/ EndEnqueue(v) \/ CompleteTask(v)
      BY <3>5, <1>3 DEF EnqueueGlobal, EndEnqueue, CompleteTask, Goto, IInv, TypeOK
    <3> QED BY <2>1, <2>3, <3>1, <3>2, <3>3, <3>4, <3>5 DEF Worker
  <2> QED BY <2>4, <1>1 DEF LoadCount, LoadStop, StopRequested, mainVars
<1> QED BY <1>2, <1>3

(* Without a stop no worker leaves while there is work.                     *)
THEOREM NobodyLeavesWorkCorrect == Spec => []NobodyLeavesWork
<1>1. Init => NobodyLeavesWork
  BY DEF Init, NobodyLeavesWork
<1> QED BY <1>1, InitIInv, StepIInv, InitCasSawWork, StepCasSawWork, StepNobodyLeavesWork,
           PTL DEF Spec
=============================================================================
