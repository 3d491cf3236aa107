----------------------- MODULE SpapQueueLifecycleProofs -----------------------
(***************************************************************************)
(* That a worker's resource is used only while it is there, that it is     *)
(* freed empty unless a stop was requested, and that an object is as new   *)
(* after a round, for any number of workers, tasks and rounds.             *)
(*                                                                         *)
(* The invariant says where the workers are in each phase of the main      *)
(* thread, and why nobody is late: who is about to use a resource of a     *)
(* queue that was started is counted, and a worker leaves only when        *)
(* nothing is counted or when it was asked to stop.  A queue that was not  *)
(* started may be woken up by a stop, but then all were asked.             *)
(***************************************************************************)
EXTENDS SpapQueueLifecycle, SumTheorems

USE LifecycleAssumption

InRound == {"active", "stop", "join", "destroy"}
Working == {"waitStart", "run", "push", "deallocate"}
Passed == {"unset", "free", "ended", "none"}

(* Where the workers are: all before the second barrier or all behind it    *)
Phases ==
  /\ main \in {"idle", "resetSignal", "resetActive", "destroyed"} =>
       \A w \in Workers : worker[w] = "none"
  /\ main = "spawn" =>
       /\ next >= 0
       /\ \A w \in Workers : w < next => worker[w] \in {"build", "allocate"}
       /\ \A w \in Workers : w >= next => worker[w] = "none"
  /\ main = "allocate" => \A w \in Workers : worker[w] \in {"build", "allocate"}
  /\ main \in InRound => \/ \A w \in Workers : worker[w] \in Working
                         \/ \A w \in Workers : worker[w] \in Passed
  /\ main = "stop" => next >= 0
  /\ main = "join" => next >= 0 /\ \A w \in Workers : w < next => worker[w] = "none"
  /\ main = "destroy" =>
       next <= NumWorkers - 1 /\ \A w \in Workers : w > next => worker[w] = "none"

(* and all at the start signal while it is not given.                       *)
Rounds ==
  /\ Phases
  /\ main \in {"active", "stop"} /\ ~ startSignal /\ ~ destroying =>
       \A w \in Workers : worker[w] = "waitStart"

(* What the flags say: the start signal comes from the user or from a stop  *)
(* that has been sent to all, and nobody processes tasks before the user    *)
(* has given it.                                                            *)
Signals ==
  /\ main \in {"idle", "spawn", "allocate", "resetActive"} => ~ startSignal
  /\ main \in {"join", "destroy"} => startSignal
  /\ main = "idle" => ~ queueActive
  /\ main \in {"spawn", "allocate", "active", "join", "resetSignal", "resetActive"} =>
       queueActive
  /\ destroying => main \in {"stop", "destroy", "destroyed"}
  /\ main \in {"destroy", "destroyed"} => destroying
  /\ main = "stop" /\ ~ destroying => queueActive
  /\ main = "stop" => \A w \in Workers : w < next => stop[w]
  /\ startSignal /\ ~ started => AllStopped
  /\ \A w \in Workers :
       /\ ~ startSignal => worker[w] \in {"none", "build", "allocate", "waitStart"}
       /\ worker[w] \in {"run", "push"} => started

(* Who else uses the object, and when *)
Users ==
  \A w \in Workers :
    /\ loader[w] # "idle" => main \in {"active", "stop"} /\ ~ destroying /\ ~ started
    /\ pusher[w] # "idle" =>
         /\ main \in {"active", "stop", "join"} /\ ~ destroying /\ started
         /\ main = "join" => \A v \in Workers : ~ stop[v]

Resources ==
  \A w \in Workers :
    /\ reference[w] <=> worker[w] \in Working \cup {"allocate", "unset"}
    /\ worker[w] \in {"none", "build", "allocate", "ended"} => tasks[w] = 0
    /\ worker[w] \in {"build", "allocate"} => ~ stop[w]

(* A worker leaves when nothing is counted, or when it was asked to; there  *)
(* is nothing to count outside a round.                                     *)
Leaving ==
  /\ main \in InRound =>
       \A w \in Workers : worker[w] \in Passed \cup {"deallocate"} =>
         stop[w] \/ globalCount = 0
  /\ main \in {"idle", "spawn", "allocate", "resetSignal", "resetActive"} => globalCount = 0

(* What is counted on account of worker w: its tasks, the one it is passing *)
(* on, and the one its outside thread has announced, but not the one that   *)
(* is still to be counted.                                                  *)
Share(w) ==
  tasks[w] + (IF worker[w] = "push" THEN 1 ELSE 0) + (IF pusher[w] # "idle" THEN 1 ELSE 0)
           - (IF loader[w] = "count" THEN 1 ELSE 0)
Shares == [w \in 0 .. NumWorkers - 1 |-> Share(w)]

(* All of it is in the count, which is larger when a stop has lost tasks.   *)
Counted == globalCount >= SumTo(Shares, NumWorkers)

Control == TypeOK /\ Rounds /\ Signals /\ Users /\ Resources /\ Leaving
IInv == Control /\ Counted

-----------------------------------------------------------------------------
(* The shares are integers. *)
LEMMA ShareType ==
  ASSUME TypeOK
  PROVE  /\ NumWorkers \in Nat \ {0}
         /\ Shares \in [0 .. NumWorkers - 1 -> Int]
         /\ \A w \in Workers : Shares[w] = Share(w) /\ Share(w) \in Int
<1>1. \A w \in Workers : tasks[w] \in Nat
  BY DEF TypeOK
<1>2. \A w \in Workers : Share(w) \in Int
  BY <1>1 DEF Share
<1> QED BY <1>2 DEF Shares, Workers

LEMMA ShareTypeNext ==
  ASSUME TypeOK'
  PROVE  /\ Shares' \in [0 .. NumWorkers - 1 -> Int]
         /\ \A w \in Workers : Shares'[w] = Share(w)' /\ Share(w)' \in Int
<1>1. \A w \in Workers : tasks'[w] \in Nat
  BY DEF TypeOK
<1>2. \A w \in Workers : Share(w)' \in Int
  BY <1>1 DEF Share
<1> QED BY <1>2 DEF Shares, Workers

(* Workers are numbered. *)
LEMMA WorkerNumbers ==
  /\ \A w \in Workers : w \in Int /\ 0 <= w /\ w < NumWorkers
  /\ \A w \in Int : 0 <= w /\ w < NumWorkers => w \in Workers
  /\ NumWorkers \in Int /\ NumWorkers > 0 /\ 0 \in Workers
BY DEF Workers

(* A worker that has been started is in a round. *)
LEMMA StartedInRound ==
  ASSUME TypeOK, Rounds, NEW w \in Workers,
         worker[w] \notin {"none", "build", "allocate"}
  PROVE  /\ main \in InRound
         /\ worker[w] \in Working => \A v \in Workers : worker[v] \in Working
         /\ worker[w] \in Passed => \A v \in Workers : worker[v] \in Passed
<1>1. main \notin {"idle", "resetSignal", "resetActive", "destroyed", "allocate"}
  BY DEF Rounds, Phases
<1>2. main # "spawn"
  <2>1. w \in Int /\ next \in Int BY WorkerNumbers DEF TypeOK
  <2> QED BY <2>1 DEF Rounds, Phases
<1>3. main \in InRound
  BY <1>1, <1>2 DEF TypeOK, InRound
<1> QED BY <1>3 DEF Rounds, Phases, Working, Passed

(* On a queue that was started, nobody owes the count a task: each is       *)
(* counted.                                                                 *)
LEMMA ShareBounds ==
  ASSUME IInv, started, NEW w \in Workers
  PROVE  /\ 0 <= Share(w) /\ Share(w) <= globalCount
         /\ tasks[w] <= Share(w)
         /\ worker[w] = "push" => globalCount >= 1
         /\ pusher[w] # "idle" => globalCount >= 1
<1>1. \A v \in Workers : loader[v] = "idle" /\ tasks[v] \in Nat
  BY DEF IInv, Control, TypeOK, Users
<1>2. \A v \in Workers : Share(v) >= 0
  BY <1>1 DEF Share
<1>3. \A v \in Workers : Shares[v] = Share(v) /\ Share(v) \in Int
  BY ShareType DEF IInv, Control
<1>4. SumTo(Shares, NumWorkers) >= Shares[w]
  BY <1>2, <1>3, ShareType, SumBounds DEF IInv, Control, Workers
<1>5. SumTo(Shares, NumWorkers) \in Int /\ globalCount \in Nat
  BY ShareType, SumType DEF IInv, Control, TypeOK
<1>6. Share(w) <= globalCount
  BY <1>3, <1>4, <1>5 DEF IInv, Counted
<1>7. tasks[w] <= Share(w)
  BY <1>1 DEF Share
<1>8. worker[w] = "push" => Share(w) >= 1
  BY <1>1 DEF Share
<1>9. pusher[w] # "idle" => Share(w) >= 1
  BY <1>1 DEF Share
<1> QED BY <1>2, <1>3, <1>5, <1>6, <1>7, <1>8, <1>9

(* Nothing more is owed. *)
LEMMA CountedStill ==
  ASSUME TypeOK, TypeOK', Counted, globalCount' >= globalCount,
         \A w \in Workers : Share(w)' <= Share(w)
  PROVE  Counted'
<1>1. /\ Shares \in [0 .. NumWorkers - 1 -> Int] /\ Shares' \in [0 .. NumWorkers - 1 -> Int]
      /\ \A w \in Workers : Shares[w] = Share(w) /\ Shares'[w] = Share(w)'
  BY ShareType, ShareTypeNext
<1>2. \A w \in 0 .. NumWorkers - 1 : Shares'[w] <= Shares[w]
  BY <1>1 DEF Workers
<1>3. SumTo(Shares', NumWorkers) <= SumTo(Shares, NumWorkers)
  BY <1>1, <1>2, SumOrder
<1>4. SumTo(Shares', NumWorkers) \in Int /\ SumTo(Shares, NumWorkers) \in Int
  BY <1>1, SumType
<1>5. globalCount \in Nat /\ globalCount' \in Nat
  BY DEF TypeOK
<1> QED BY <1>3, <1>4, <1>5 DEF Counted

(* The count follows the share of one worker. *)
LEMMA CountedAgain ==
  ASSUME TypeOK, TypeOK', Counted, NEW w \in Workers, NEW d \in Int,
         globalCount' = globalCount + d,
         Share(w)' = Share(w) + d,
         \A v \in Workers : v # w => Share(v)' = Share(v)
  PROVE  Counted'
<1>1. /\ Shares \in [0 .. NumWorkers - 1 -> Int] /\ Shares' \in [0 .. NumWorkers - 1 -> Int]
      /\ \A v \in Workers : Shares[v] = Share(v) /\ Shares'[v] = Share(v)'
  BY ShareType, ShareTypeNext
<1>2. /\ w \in 0 .. NumWorkers - 1
      /\ Shares'[w] = Shares[w] + d
      /\ \A v \in 0 .. NumWorkers - 1 : v # w => Shares'[v] = Shares[v]
  BY <1>1 DEF Workers
<1>3. SumTo(Shares', NumWorkers) = SumTo(Shares, NumWorkers) + d
  BY <1>1, <1>2, SumUpdate
<1>4. SumTo(Shares, NumWorkers) \in Int
  BY <1>1, SumType
<1>5. globalCount \in Nat
  BY DEF TypeOK
<1> QED BY <1>3, <1>4, <1>5 DEF Counted

(* Where the workers are while others are in the middle of a call.  What    *)
(* has been announced keeps those from leaving that were not asked to stop, *)
(* and a worker that is passing on a task keeps all of them before the      *)
(* second barrier.  Who populates the queue finds them at the start signal, *)
(* or a stop has been sent to all.                                          *)
LEMMA UsersFindWorkers ==
  ASSUME IInv, NEW w \in Workers
  PROVE  /\ pusher[w] # "idle" =>
              \A v \in Workers : stop[v] \/ worker[v] \in {"waitStart", "run", "push"}
         /\ worker[w] \in Working =>
              main \in InRound /\ \A v \in Workers : worker[v] \in Working
         /\ loader[w] # "idle" =>
              /\ AllStopped \/ \A v \in Workers : worker[v] = "waitStart"
              /\ \A v \in Workers : worker[v] \notin {"run", "push"}
<1>1. ASSUME pusher[w] # "idle", NEW v \in Workers, ~ stop[v]
      PROVE  worker[v] \in {"waitStart", "run", "push"}
  <2>1. main \in InRound /\ started
    BY <1>1 DEF IInv, Control, Users, InRound
  <2>2. globalCount >= 1
    BY <1>1, <2>1, ShareBounds
  <2>3. worker[v] \notin Passed \cup {"deallocate"}
    BY <1>1, <2>1, <2>2 DEF IInv, Control, Leaving
  <2> QED BY <2>1, <2>3 DEF IInv, Control, Rounds, Phases, Working, Passed
<1>2. ASSUME worker[w] \in Working
      PROVE  main \in InRound /\ \A v \in Workers : worker[v] \in Working
  <2>1. main \in InRound
    BY <1>2, StartedInRound DEF IInv, Control, Working
  <2> QED BY <1>2, <2>1 DEF IInv, Control, Rounds, Phases, Working, Passed
<1>3. ASSUME loader[w] # "idle"
      PROVE  /\ AllStopped \/ \A v \in Workers : worker[v] = "waitStart"
             /\ \A v \in Workers : worker[v] \notin {"run", "push"}
  <2>1. main \in {"active", "stop"} /\ ~ destroying /\ ~ started
    BY <1>3 DEF IInv, Control, Users
  <2>2. AllStopped \/ ~ startSignal
    BY <2>1 DEF IInv, Control, Signals
  <2> QED BY <2>1, <2>2 DEF IInv, Control, Rounds, Phases, Signals
<1> QED BY <1>1, <1>2, <1>3

(* The invariant holds initially. *)
LEMMA InitInv == Init => IInv
<1> SUFFICES ASSUME Init PROVE IInv
  OBVIOUS
<1>1. TypeOK
  <2>1. 0 \in -1 .. NumWorkers /\ MaxRounds \in Nat /\ MaxTasks \in Nat
    BY WorkerNumbers
  <2>2. /\ \A w \in Workers : w \in Workers
        /\ stop \in [Workers -> BOOLEAN] /\ reference \in [Workers -> BOOLEAN]
        /\ target \in [Workers -> Workers] /\ tasks \in [Workers -> Nat]
    BY DEF Init
  <2> QED BY <2>1, <2>2 DEF Init, TypeOK
<1>2. Rounds /\ Signals /\ Users /\ Resources /\ Leaving
  BY DEF Init, Rounds, Phases, Signals, AllStopped, Users, Resources, Leaving, InRound, Working,
         Passed
<1>3. \A w \in Workers : Share(w) = 0
  BY DEF Init, Share
<1>4. Shares \in [0 .. NumWorkers - 1 -> Int] /\ \A w \in 0 .. NumWorkers - 1 : Shares[w] = 0
  BY <1>3, <1>1, ShareType DEF Workers
<1>5. SumTo(Shares, NumWorkers) = 0
  BY <1>4, SumZero
<1> QED BY <1>1, <1>2, <1>5 DEF IInv, Control, Counted, Init

(* A round begins. *)
LEMMA InitQueueInv ==
  ASSUME IInv, ~ CallsOutlastWait, ~ queueActive, InitQueue
  PROVE  IInv'
<1> USE DEF IInv, Control
<1>1. /\ main = "idle" /\ rounds' = rounds - 1 /\ rounds > 0
      /\ queueActive' = TRUE /\ main' = "spawn"
      /\ next' = 0
      /\ started' = FALSE
      /\ UNCHANGED <<destroying, startSignal, stop, globalCount, threads, tasks, loader, pusher,
                     budget>>
  BY DEF InitQueue, Signals
<1>2. \A v \in Workers : v \in Int /\ 0 <= v /\ NumWorkers >= 0
  BY WorkerNumbers
<1>3. TypeOK'
  <2>1. 0 \in -1 .. NumWorkers
    BY WorkerNumbers
  <2>2. rounds' \in Nat
    BY <1>1 DEF TypeOK
  <2> QED BY <1>1, <2>1, <2>2 DEF flags, threads, TypeOK
<1>4. Rounds'
  BY <1>1, <1>2
     DEF vars, mainVars, flags, threads, users, Rounds, Phases, InRound, Working, Passed, TypeOK
<1>5. Signals'
  BY <1>1, <1>2
     DEF vars, mainVars, flags, threads, users, Signals, AllStopped, Rounds, Phases, InRound,
         TypeOK
<1>6. Users'
  BY <1>1, <1>2
     DEF vars, mainVars, flags, threads, users, Users, TypeOK, Rounds, Phases, InRound, Working,
         Passed
<1>7. Resources'
  BY <1>1, <1>2
     DEF vars, mainVars, flags, threads, users, Resources, TypeOK, Rounds, Phases, InRound,
         Working, Passed
<1>8. Leaving'
  BY <1>1, <1>2
     DEF vars, mainVars, flags, threads, users, Leaving, TypeOK, Rounds, Phases, InRound, Working,
         Passed
<1>9. Counted'
  <2>1. globalCount' = globalCount /\ \A v \in Workers : Share(v)' = Share(v)
    BY <1>1, <1>2 DEF vars, mainVars, flags, threads, users, Share, TypeOK, Rounds, Phases
  <2>2. globalCount' >= globalCount /\ \A v \in Workers : Share(v)' <= Share(v)
    BY <2>1, ShareType DEF TypeOK
  <2> QED BY <2>2, <1>3, CountedStill
<1> QED BY <1>3, <1>4, <1>5, <1>6, <1>7, <1>8, <1>9

(* One more worker is spawned. *)
LEMMA SpawnInv ==
  ASSUME IInv, ~ CallsOutlastWait, Spawn
  PROVE  IInv'
<1> USE DEF IInv, Control
<1>1. next \in Workers /\ next \in Int /\ next + 1 \in 0 .. NumWorkers
  BY WorkerNumbers DEF Spawn, Rounds, Phases, TypeOK
<1>2. \A v \in Workers : v \in Int
  BY WorkerNumbers
<1>3. TypeOK'
  BY <1>1, <1>2 DEF Spawn, vars, mainVars, flags, threads, users, TypeOK
<1>4. Rounds'
  BY <1>1, <1>2
     DEF Spawn, vars, mainVars, flags, threads, users, Rounds, Phases, InRound, Working, Passed,
         TypeOK
<1>5. Signals'
  BY <1>1, <1>2
     DEF Spawn, vars, mainVars, flags, threads, users, Signals, AllStopped, Rounds, Phases,
         InRound, TypeOK
<1>6. Users'
  BY <1>1, <1>2
     DEF Spawn, vars, mainVars, flags, threads, users, Users, TypeOK, Rounds, Phases, InRound,
         Working, Passed
<1>7. Resources'
  BY <1>1, <1>2
     DEF Spawn, vars, mainVars, flags, threads, users, Resources, TypeOK, Rounds, Phases, InRound,
         Working, Passed
<1>8. Leaving'
  BY <1>1, <1>2
     DEF Spawn, vars, mainVars, flags, threads, users, Leaving, TypeOK, Rounds, Phases, InRound,
         Working, Passed
<1>9. Counted'
  <2>1. globalCount' = globalCount /\ \A v \in Workers : Share(v)' = Share(v)
    BY <1>1, <1>2 DEF Spawn, vars, mainVars, flags, threads, users, Share, TypeOK, Rounds, Phases
  <2>2. globalCount' >= globalCount /\ \A v \in Workers : Share(v)' <= Share(v)
    BY <2>1, ShareType DEF TypeOK
  <2> QED BY <2>2, <1>3, CountedStill
<1> QED BY <1>3, <1>4, <1>5, <1>6, <1>7, <1>8, <1>9

(* The main thread arrives at the first barrier. *)
LEMMA AwaitAllocationInv ==
  ASSUME IInv, ~ CallsOutlastWait, AwaitAllocation
  PROVE  IInv'
<1> USE DEF IInv, Control
<1>1. \A v \in Workers : worker[v] \in {"build", "allocate"}
  BY WorkerNumbers DEF AwaitAllocation, Rounds, Phases, TypeOK
<1>2. TypeOK'
  BY <1>1 DEF AwaitAllocation, vars, mainVars, flags, threads, users, TypeOK
<1>3. Rounds'
  BY <1>1
     DEF AwaitAllocation, vars, mainVars, flags, threads, users, Rounds, Phases, InRound, Working,
         Passed, TypeOK
<1>4. Signals'
  BY <1>1
     DEF AwaitAllocation, vars, mainVars, flags, threads, users, Signals, AllStopped, Rounds,
         Phases, InRound, TypeOK
<1>5. Users'
  BY <1>1
     DEF AwaitAllocation, vars, mainVars, flags, threads, users, Users, TypeOK, Rounds, Phases,
         InRound, Working, Passed
<1>6. Resources'
  BY <1>1
     DEF AwaitAllocation, vars, mainVars, flags, threads, users, Resources, TypeOK, Rounds,
         Phases, InRound, Working, Passed
<1>7. Leaving'
  BY <1>1
     DEF AwaitAllocation, vars, mainVars, flags, threads, users, Leaving, TypeOK, Rounds, Phases,
         InRound, Working, Passed
<1>8. Counted'
  <2>1. globalCount' = globalCount /\ \A v \in Workers : Share(v)' = Share(v)
    BY <1>1
       DEF AwaitAllocation, vars, mainVars, flags, threads, users, Share, TypeOK, Rounds, Phases
  <2>2. globalCount' >= globalCount /\ \A v \in Workers : Share(v)' <= Share(v)
    BY <2>1, ShareType DEF TypeOK
  <2> QED BY <2>2, <1>2, CountedStill
<1> QED BY <1>2, <1>3, <1>4, <1>5, <1>6, <1>7, <1>8

(* The first barrier opens: all workers are alive. *)
LEMMA AllocateSignalInv ==
  ASSUME IInv, ~ CallsOutlastWait, AllocateSignal
  PROVE  IInv'
<1> USE DEF IInv, Control
<1>1. TypeOK'
  BY DEF AllocateSignal, vars, mainVars, flags, threads, users, TypeOK
<1>2. Rounds'
  BY
     DEF AllocateSignal, vars, mainVars, flags, threads, users, Rounds, Phases, InRound, Working,
         Passed, TypeOK
<1>3. Signals'
  BY
     DEF AllocateSignal, vars, mainVars, flags, threads, users, Signals, AllStopped, Rounds,
         Phases, InRound, TypeOK
<1>4. Users'
  BY
     DEF AllocateSignal, vars, mainVars, flags, threads, users, Users, TypeOK, Rounds, Phases,
         InRound, Working, Passed
<1>5. Resources'
  BY
     DEF AllocateSignal, vars, mainVars, flags, threads, users, Resources, TypeOK, Rounds, Phases,
         InRound, Working, Passed
<1>6. Leaving'
  BY
     DEF AllocateSignal, vars, mainVars, flags, threads, users, Leaving, TypeOK, Rounds, Phases,
         InRound, Working, Passed
<1>7. Counted'
  <2>1. globalCount' = globalCount /\ \A v \in Workers : Share(v)' = Share(v)
    BY DEF AllocateSignal, vars, mainVars, flags, threads, users, Share, TypeOK, Rounds, Phases
  <2>2. globalCount' >= globalCount /\ \A v \in Workers : Share(v)' <= Share(v)
    BY <2>1, ShareType DEF TypeOK
  <2> QED BY <2>2, <1>1, CountedStill
<1> QED BY <1>1, <1>2, <1>3, <1>4, <1>5, <1>6, <1>7

(* The workers are started. *)
LEMMA ProcessQueueInv ==
  ASSUME IInv, ~ CallsOutlastWait, ProcessQueue
  PROVE  IInv'
<1> USE DEF IInv, Control
<1>1. TypeOK'
  BY DEF ProcessQueue, NoLoader, vars, mainVars, flags, threads, users, TypeOK
<1>2. Rounds'
  BY
     DEF ProcessQueue, NoLoader, vars, mainVars, flags, threads, users, Rounds, Phases, InRound,
         Working, Passed, TypeOK
<1>3. Signals'
  BY
     DEF ProcessQueue, NoLoader, vars, mainVars, flags, threads, users, Signals, AllStopped,
         Rounds, Phases, InRound, TypeOK
<1>4. Users'
  BY
     DEF ProcessQueue, NoLoader, vars, mainVars, flags, threads, users, Users, TypeOK, Rounds,
         Phases, InRound, Working, Passed
<1>5. Resources'
  BY
     DEF ProcessQueue, NoLoader, vars, mainVars, flags, threads, users, Resources, TypeOK, Rounds,
         Phases, InRound, Working, Passed
<1>6. Leaving'
  BY
     DEF ProcessQueue, NoLoader, vars, mainVars, flags, threads, users, Leaving, TypeOK, Rounds,
         Phases, InRound, Working, Passed
<1>7. Counted'
  <2>1. globalCount' = globalCount /\ \A v \in Workers : Share(v)' = Share(v)
    BY DEF ProcessQueue, NoLoader, vars, mainVars, flags, threads, users, Share, TypeOK, Rounds,
           Phases
  <2>2. globalCount' >= globalCount /\ \A v \in Workers : Share(v)' <= Share(v)
    BY <2>1, ShareType DEF TypeOK
  <2> QED BY <2>2, <1>1, CountedStill
<1> QED BY <1>1, <1>2, <1>3, <1>4, <1>5, <1>6, <1>7

(* A stop is asked for. *)
LEMMA RequestStopInv ==
  ASSUME IInv, ~ CallsOutlastWait, queueActive, RequestStop
  PROVE  IInv'
<1> USE DEF IInv, Control
<1>1. /\ main = "active" /\ main' = "stop" /\ next' = 0
      /\ UNCHANGED <<destroying, rounds, flags, globalCount, threads, tasks, users>>
  BY DEF RequestStop, Signals
<1>2. 0 <= NumWorkers /\ \A v \in Workers : v \in Int /\ ~ (v < 0)
  BY WorkerNumbers
<1>3. TypeOK'
  BY <1>1, <1>2 DEF vars, mainVars, flags, threads, users, TypeOK
<1>4. Rounds'
  BY <1>1, <1>2
     DEF vars, mainVars, flags, threads, users, Rounds, Phases, InRound, Working, Passed, TypeOK
<1>5. Signals'
  BY <1>1, <1>2
     DEF vars, mainVars, flags, threads, users, Signals, AllStopped, Rounds, Phases, InRound,
         TypeOK
<1>6. Users'
  BY <1>1, <1>2
     DEF vars, mainVars, flags, threads, users, Users, TypeOK, Rounds, Phases, InRound, Working,
         Passed
<1>7. Resources'
  BY <1>1, <1>2
     DEF vars, mainVars, flags, threads, users, Resources, TypeOK, Rounds, Phases, InRound,
         Working, Passed
<1>8. Leaving'
  BY <1>1, <1>2
     DEF vars, mainVars, flags, threads, users, Leaving, TypeOK, Rounds, Phases, InRound, Working,
         Passed
<1>9. Counted'
  <2>1. globalCount' = globalCount /\ \A v \in Workers : Share(v)' = Share(v)
    BY <1>1, <1>2 DEF vars, mainVars, flags, threads, users, Share, TypeOK, Rounds, Phases
  <2>2. globalCount' >= globalCount /\ \A v \in Workers : Share(v)' <= Share(v)
    BY <2>1, ShareType DEF TypeOK
  <2> QED BY <2>2, <1>3, CountedStill
<1> QED BY <1>3, <1>4, <1>5, <1>6, <1>7, <1>8, <1>9

(* One more worker is asked to stop. *)
LEMMA SendStopInv ==
  ASSUME IInv, ~ CallsOutlastWait, SendStop
  PROVE  IInv'
<1> USE DEF IInv, Control
<1>1. next \in Workers /\ next \in Int /\ next + 1 \in 0 .. NumWorkers
  BY WorkerNumbers DEF SendStop, Rounds, Phases, TypeOK
<1>2. \A v \in Workers : v \in Int /\ worker[v] \notin {"build", "allocate"}
  BY WorkerNumbers DEF SendStop, Rounds, Phases, TypeOK, InRound, Working, Passed
<1>3. TypeOK'
  BY <1>1, <1>2 DEF SendStop, vars, mainVars, flags, threads, users, TypeOK
<1>4. Rounds'
  BY <1>1, <1>2
     DEF SendStop, vars, mainVars, flags, threads, users, Rounds, Phases, InRound, Working,
         Passed, TypeOK
<1>5. Signals'
  BY <1>1, <1>2
     DEF SendStop, vars, mainVars, flags, threads, users, Signals, AllStopped, Rounds, Phases,
         InRound, TypeOK
<1>6. Users'
  BY <1>1, <1>2
     DEF SendStop, vars, mainVars, flags, threads, users, Users, TypeOK, Rounds, Phases, InRound,
         Working, Passed
<1>7. Resources'
  BY <1>1, <1>2
     DEF SendStop, vars, mainVars, flags, threads, users, Resources, TypeOK, Rounds, Phases,
         InRound, Working, Passed
<1>8. Leaving'
  BY <1>1, <1>2
     DEF SendStop, vars, mainVars, flags, threads, users, Leaving, TypeOK, Rounds, Phases,
         InRound, Working, Passed
<1>9. Counted'
  <2>1. globalCount' = globalCount /\ \A v \in Workers : Share(v)' = Share(v)
    BY <1>1, <1>2
       DEF SendStop, vars, mainVars, flags, threads, users, Share, TypeOK, Rounds, Phases
  <2>2. globalCount' >= globalCount /\ \A v \in Workers : Share(v)' <= Share(v)
    BY <2>1, ShareType DEF TypeOK
  <2> QED BY <2>2, <1>3, CountedStill
<1> QED BY <1>3, <1>4, <1>5, <1>6, <1>7, <1>8, <1>9

(* The stop wakes those that were not started. *)
LEMMA StopSignalsInv ==
  ASSUME IInv, ~ CallsOutlastWait, StopSignals
  PROVE  IInv'
<1> USE DEF IInv, Control
<1>1. /\ NumWorkers - 1 \in -1 .. NumWorkers
      /\ \A v \in Workers : v \in Int /\ v <= NumWorkers - 1 /\ v < NumWorkers
  BY WorkerNumbers
<1>2. TypeOK'
  BY <1>1 DEF StopSignals, vars, mainVars, flags, threads, users, TypeOK
<1>3. Rounds'
  BY <1>1
     DEF StopSignals, vars, mainVars, flags, threads, users, Rounds, Phases, InRound, Working,
         Passed, TypeOK
<1>4. Signals'
  BY <1>1
     DEF StopSignals, vars, mainVars, flags, threads, users, Signals, AllStopped, Rounds, Phases,
         InRound, TypeOK
<1>5. Users'
  BY <1>1
     DEF StopSignals, vars, mainVars, flags, threads, users, Users, TypeOK, Rounds, Phases,
         InRound, Working, Passed
<1>6. Resources'
  BY <1>1
     DEF StopSignals, vars, mainVars, flags, threads, users, Resources, TypeOK, Rounds, Phases,
         InRound, Working, Passed
<1>7. Leaving'
  BY <1>1
     DEF StopSignals, vars, mainVars, flags, threads, users, Leaving, TypeOK, Rounds, Phases,
         InRound, Working, Passed
<1>8. Counted'
  <2>1. globalCount' = globalCount /\ \A v \in Workers : Share(v)' = Share(v)
    BY <1>1 DEF StopSignals, vars, mainVars, flags, threads, users, Share, TypeOK, Rounds, Phases
  <2>2. globalCount' >= globalCount /\ \A v \in Workers : Share(v)' <= Share(v)
    BY <2>1, ShareType DEF TypeOK
  <2> QED BY <2>2, <1>2, CountedStill
<1> QED BY <1>2, <1>3, <1>4, <1>5, <1>6, <1>7, <1>8

(* The main thread begins to join the workers. *)
LEMMA WaitProcessFinishInv ==
  ASSUME IInv, ~ CallsOutlastWait, WaitProcessFinish
  PROVE  IInv'
<1> USE DEF IInv, Control
<1>1. \A v \in Workers : v \in Int /\ 0 <= v /\ NumWorkers >= 0
  BY WorkerNumbers
<1>2. /\ \A v \in Workers : loader[v] = "idle"
      /\ \A v \in Workers : pusher[v] # "idle" => \A u \in Workers : ~ stop[u]
  <2>1. CASE StopAsked
    BY <2>1 DEF WaitProcessFinish, OthersAreOver, NoLoader, NoPusher
  <2>2. CASE ~ StopAsked
    <3>1. \A v \in Workers : ~ stop[v]
      BY <2>2 DEF StopAsked
    <3>2. ~ AllStopped
      BY <3>1, WorkerNumbers DEF AllStopped
    <3>3. started
      BY <3>2 DEF WaitProcessFinish, Signals
    <3> QED BY <3>1, <3>3 DEF Users
  <2> QED BY <2>1, <2>2
<1>3. TypeOK'
  BY <1>1, <1>2 DEF WaitProcessFinish, vars, mainVars, flags, threads, users, TypeOK
<1>4. Rounds'
  BY <1>1, <1>2
     DEF WaitProcessFinish, vars, mainVars, flags, threads, users, Rounds, Phases, InRound,
         Working, Passed, TypeOK
<1>5. Signals'
  BY <1>1, <1>2
     DEF WaitProcessFinish, vars, mainVars, flags, threads, users, Signals, AllStopped, Rounds,
         Phases, InRound, TypeOK
<1>6. Users'
  BY <1>1, <1>2
     DEF WaitProcessFinish, vars, mainVars, flags, threads, users, Users, TypeOK, Rounds, Phases,
         InRound, Working, Passed
<1>7. Resources'
  BY <1>1, <1>2
     DEF WaitProcessFinish, vars, mainVars, flags, threads, users, Resources, TypeOK, Rounds,
         Phases, InRound, Working, Passed
<1>8. Leaving'
  BY <1>1, <1>2
     DEF WaitProcessFinish, vars, mainVars, flags, threads, users, Leaving, TypeOK, Rounds,
         Phases, InRound, Working, Passed
<1>9. Counted'
  <2>1. globalCount' = globalCount /\ \A v \in Workers : Share(v)' = Share(v)
    BY <1>1, <1>2
       DEF WaitProcessFinish, vars, mainVars, flags, threads, users, Share, TypeOK, Rounds, Phases
  <2>2. globalCount' >= globalCount /\ \A v \in Workers : Share(v)' <= Share(v)
    BY <2>1, ShareType DEF TypeOK
  <2> QED BY <2>2, <1>3, CountedStill
<1> QED BY <1>3, <1>4, <1>5, <1>6, <1>7, <1>8, <1>9

(* A worker that has ended is joined. *)
LEMMA JoinInv ==
  ASSUME IInv, ~ CallsOutlastWait, Join
  PROVE  IInv'
<1> USE DEF IInv, Control
<1>1. next \in Workers /\ next \in Int /\ next + 1 \in 0 .. NumWorkers
  BY WorkerNumbers DEF Join, Rounds, Phases, TypeOK
<1>2. \A v \in Workers : worker[v] \in Passed
  BY <1>1, StartedInRound DEF Join, Passed
<1>3. \A v \in Workers : v \in Int
  BY WorkerNumbers
<1>4. TypeOK'
  BY <1>1, <1>2, <1>3 DEF Join, vars, mainVars, flags, threads, users, TypeOK
<1>5. Rounds'
  BY <1>1, <1>2, <1>3
     DEF Join, vars, mainVars, flags, threads, users, Rounds, Phases, InRound, Working, Passed,
         TypeOK
<1>6. Signals'
  BY <1>1, <1>2, <1>3
     DEF Join, vars, mainVars, flags, threads, users, Signals, AllStopped, Rounds, Phases,
         InRound, TypeOK
<1>7. Users'
  BY <1>1, <1>2, <1>3
     DEF Join, vars, mainVars, flags, threads, users, Users, TypeOK, Rounds, Phases, InRound,
         Working, Passed
<1>8. Resources'
  BY <1>1, <1>2, <1>3
     DEF Join, vars, mainVars, flags, threads, users, Resources, TypeOK, Rounds, Phases, InRound,
         Working, Passed
<1>9. Leaving'
  BY <1>1, <1>2, <1>3
     DEF Join, vars, mainVars, flags, threads, users, Leaving, TypeOK, Rounds, Phases, InRound,
         Working, Passed
<1>10. Counted'
  <2>1. globalCount' = globalCount /\ \A v \in Workers : Share(v)' = Share(v)
    BY <1>1, <1>2, <1>3
       DEF Join, vars, mainVars, flags, threads, users, Share, TypeOK, Rounds, Phases
  <2>2. globalCount' >= globalCount /\ \A v \in Workers : Share(v)' <= Share(v)
    BY <2>1, ShareType DEF TypeOK
  <2> QED BY <2>2, <1>4, CountedStill
<1> QED BY <1>4, <1>5, <1>6, <1>7, <1>8, <1>9, <1>10

(* All have been joined: nothing is counted on anybody's account. *)
LEMMA ResetCountInv ==
  ASSUME IInv, ~ CallsOutlastWait, ResetCount
  PROVE  IInv'
<1> USE DEF IInv, Control
<1>1. \A w \in Workers :
        worker[w] = "none" /\ pusher[w] = "idle" /\ loader[w] = "idle" /\ tasks[w] = 0
  <2>1. \A w \in Workers : worker[w] = "none"
    BY WorkerNumbers DEF ResetCount, Rounds, Phases
  <2>2. \A w \in Workers : pusher[w] = "idle"
    BY <2>1, UsersFindWorkers DEF ResetCount, Users
  <2> QED BY <2>1, <2>2 DEF ResetCount, Users, Resources, TypeOK
<1>2. TypeOK'
  BY <1>1 DEF ResetCount, vars, mainVars, flags, threads, users, TypeOK
<1>3. Rounds'
  BY <1>1
     DEF ResetCount, vars, mainVars, flags, threads, users, Rounds, Phases, InRound, Working,
         Passed, TypeOK
<1>4. Signals'
  BY <1>1
     DEF ResetCount, vars, mainVars, flags, threads, users, Signals, AllStopped, Rounds, Phases,
         InRound, TypeOK
<1>5. Users'
  BY <1>1
     DEF ResetCount, vars, mainVars, flags, threads, users, Users, TypeOK, Rounds, Phases,
         InRound, Working, Passed
<1>6. Resources'
  BY <1>1
     DEF ResetCount, vars, mainVars, flags, threads, users, Resources, TypeOK, Rounds, Phases,
         InRound, Working, Passed
<1>7. Leaving'
  BY <1>1
     DEF ResetCount, vars, mainVars, flags, threads, users, Leaving, TypeOK, Rounds, Phases,
         InRound, Working, Passed
<1>8. Counted'
  <2>1. \A w \in Workers : Share(w)' = 0
    BY <1>1 DEF ResetCount, vars, mainVars, flags, threads, users, Share
  <2>2. Shares' \in [0 .. NumWorkers - 1 -> Int]
    BY ShareType, ShareTypeNext, <1>2
  <2>3. \A w \in 0 .. NumWorkers - 1 : Shares'[w] = 0
    BY <2>1, ShareTypeNext, <1>2 DEF Workers
  <2>4. SumTo(Shares', NumWorkers) = 0
    BY <2>2, <2>3, SumZero
  <2> QED BY <2>4 DEF Counted, ResetCount
<1> QED BY <1>2, <1>3, <1>4, <1>5, <1>6, <1>7, <1>8

(* The start signal is taken back. *)
LEMMA ResetSignalInv ==
  ASSUME IInv, ~ CallsOutlastWait, ResetSignal
  PROVE  IInv'
<1> USE DEF IInv, Control
<1>1. TypeOK'
  BY DEF ResetSignal, vars, mainVars, flags, threads, users, TypeOK
<1>2. Rounds'
  BY
     DEF ResetSignal, vars, mainVars, flags, threads, users, Rounds, Phases, InRound, Working,
         Passed, TypeOK
<1>3. Signals'
  BY
     DEF ResetSignal, vars, mainVars, flags, threads, users, Signals, AllStopped, Rounds, Phases,
         InRound, TypeOK
<1>4. Users'
  BY
     DEF ResetSignal, vars, mainVars, flags, threads, users, Users, TypeOK, Rounds, Phases,
         InRound, Working, Passed
<1>5. Resources'
  BY
     DEF ResetSignal, vars, mainVars, flags, threads, users, Resources, TypeOK, Rounds, Phases,
         InRound, Working, Passed
<1>6. Leaving'
  BY
     DEF ResetSignal, vars, mainVars, flags, threads, users, Leaving, TypeOK, Rounds, Phases,
         InRound, Working, Passed
<1>7. Counted'
  <2>1. globalCount' = globalCount /\ \A v \in Workers : Share(v)' = Share(v)
    BY DEF ResetSignal, vars, mainVars, flags, threads, users, Share, TypeOK, Rounds, Phases
  <2>2. globalCount' >= globalCount /\ \A v \in Workers : Share(v)' <= Share(v)
    BY <2>1, ShareType DEF TypeOK
  <2> QED BY <2>2, <1>1, CountedStill
<1> QED BY <1>1, <1>2, <1>3, <1>4, <1>5, <1>6, <1>7

(* The object may be used again. *)
LEMMA ResetActiveInv ==
  ASSUME IInv, ~ CallsOutlastWait, ResetActive
  PROVE  IInv'
<1> USE DEF IInv, Control
<1>1. TypeOK'
  BY DEF ResetActive, vars, mainVars, flags, threads, users, TypeOK
<1>2. Rounds'
  BY
     DEF ResetActive, vars, mainVars, flags, threads, users, Rounds, Phases, InRound, Working,
         Passed, TypeOK
<1>3. Signals'
  BY
     DEF ResetActive, vars, mainVars, flags, threads, users, Signals, AllStopped, Rounds, Phases,
         InRound, TypeOK
<1>4. Users'
  BY
     DEF ResetActive, vars, mainVars, flags, threads, users, Users, TypeOK, Rounds, Phases,
         InRound, Working, Passed
<1>5. Resources'
  BY
     DEF ResetActive, vars, mainVars, flags, threads, users, Resources, TypeOK, Rounds, Phases,
         InRound, Working, Passed
<1>6. Leaving'
  BY
     DEF ResetActive, vars, mainVars, flags, threads, users, Leaving, TypeOK, Rounds, Phases,
         InRound, Working, Passed
<1>7. Counted'
  <2>1. globalCount' = globalCount /\ \A v \in Workers : Share(v)' = Share(v)
    BY DEF ResetActive, vars, mainVars, flags, threads, users, Share, TypeOK, Rounds, Phases
  <2>2. globalCount' >= globalCount /\ \A v \in Workers : Share(v)' <= Share(v)
    BY <2>1, ShareType DEF TypeOK
  <2> QED BY <2>2, <1>1, CountedStill
<1> QED BY <1>1, <1>2, <1>3, <1>4, <1>5, <1>6, <1>7

(* The destructor begins. *)
LEMMA DestructInv ==
  ASSUME IInv, ~ CallsOutlastWait, Destruct
  PROVE  IInv'
<1> USE DEF IInv, Control
<1>1. \A v \in Workers : loader[v] = "idle" /\ pusher[v] = "idle"
  BY DEF Destruct, NoLoader, NoPusher
<1>2. 0 <= NumWorkers /\ \A v \in Workers : v \in Int /\ ~ (v < 0)
  BY WorkerNumbers
<1>3. TypeOK'
  BY <1>1, <1>2 DEF Destruct, NoLoader, NoPusher, vars, mainVars, flags, threads, users, TypeOK
<1>4. Rounds'
  BY <1>1, <1>2
     DEF Destruct, NoLoader, NoPusher, vars, mainVars, flags, threads, users, Rounds, Phases,
         InRound, Working, Passed, TypeOK
<1>5. Signals'
  BY <1>1, <1>2
     DEF Destruct, NoLoader, NoPusher, vars, mainVars, flags, threads, users, Signals, AllStopped,
         Rounds, Phases, InRound, TypeOK
<1>6. Users'
  BY <1>1, <1>2
     DEF Destruct, NoLoader, NoPusher, vars, mainVars, flags, threads, users, Users, TypeOK,
         Rounds, Phases, InRound, Working, Passed
<1>7. Resources'
  BY <1>1, <1>2
     DEF Destruct, NoLoader, NoPusher, vars, mainVars, flags, threads, users, Resources, TypeOK,
         Rounds, Phases, InRound, Working, Passed
<1>8. Leaving'
  BY <1>1, <1>2
     DEF Destruct, NoLoader, NoPusher, vars, mainVars, flags, threads, users, Leaving, TypeOK,
         Rounds, Phases, InRound, Working, Passed
<1>9. Counted'
  <2>1. globalCount' = globalCount /\ \A v \in Workers : Share(v)' = Share(v)
    BY <1>1, <1>2
       DEF Destruct, NoLoader, NoPusher, vars, mainVars, flags, threads, users, Share, TypeOK,
           Rounds, Phases
  <2>2. globalCount' >= globalCount /\ \A v \in Workers : Share(v)' <= Share(v)
    BY <2>1, ShareType DEF TypeOK
  <2> QED BY <2>2, <1>3, CountedStill
<1> QED BY <1>3, <1>4, <1>5, <1>6, <1>7, <1>8, <1>9

(* It joins a worker. *)
LEMMA DestroyThreadInv ==
  ASSUME IInv, ~ CallsOutlastWait, DestroyThread
  PROVE  IInv'
<1> USE DEF IInv, Control
<1>1. next \in Workers /\ next \in Int /\ next - 1 \in -1 .. NumWorkers
  <2>1. next \in Int /\ 0 <= next /\ next <= NumWorkers - 1 /\ NumWorkers \in Int
    BY WorkerNumbers DEF DestroyThread, TypeOK, Rounds, Phases
  <2> QED BY <2>1, WorkerNumbers
<1>2. \A v \in Workers : worker[v] \in Passed
  BY <1>1 DEF DestroyThread, Rounds, Phases, Passed, Working, InRound
<1>3. \A v \in Workers : v \in Int
  BY WorkerNumbers
<1>4. TypeOK'
  BY <1>1, <1>2, <1>3 DEF DestroyThread, vars, mainVars, flags, threads, users, TypeOK
<1>5. Rounds'
  BY <1>1, <1>2, <1>3
     DEF DestroyThread, vars, mainVars, flags, threads, users, Rounds, Phases, InRound, Working,
         Passed, TypeOK
<1>6. Signals'
  BY <1>1, <1>2, <1>3
     DEF DestroyThread, vars, mainVars, flags, threads, users, Signals, AllStopped, Rounds,
         Phases, InRound, TypeOK
<1>7. Users'
  BY <1>1, <1>2, <1>3
     DEF DestroyThread, vars, mainVars, flags, threads, users, Users, TypeOK, Rounds, Phases,
         InRound, Working, Passed
<1>8. Resources'
  BY <1>1, <1>2, <1>3
     DEF DestroyThread, vars, mainVars, flags, threads, users, Resources, TypeOK, Rounds, Phases,
         InRound, Working, Passed
<1>9. Leaving'
  BY <1>1, <1>2, <1>3
     DEF DestroyThread, vars, mainVars, flags, threads, users, Leaving, TypeOK, Rounds, Phases,
         InRound, Working, Passed
<1>10. Counted'
  <2>1. globalCount' = globalCount /\ \A v \in Workers : Share(v)' = Share(v)
    BY <1>1, <1>2, <1>3
       DEF DestroyThread, vars, mainVars, flags, threads, users, Share, TypeOK, Rounds, Phases
  <2>2. globalCount' >= globalCount /\ \A v \in Workers : Share(v)' <= Share(v)
    BY <2>1, ShareType DEF TypeOK
  <2> QED BY <2>2, <1>4, CountedStill
<1> QED BY <1>4, <1>5, <1>6, <1>7, <1>8, <1>9, <1>10

(* It ends. *)
LEMMA DestroyedInv ==
  ASSUME IInv, ~ CallsOutlastWait, Destroyed
  PROVE  IInv'
<1> USE DEF IInv, Control
<1>0. \A v \in Workers : worker[v] = "none"
  BY WorkerNumbers DEF Destroyed, Rounds, Phases, TypeOK
<1>1. TypeOK'
  BY DEF Destroyed, vars, mainVars, flags, threads, users, TypeOK
<1>2. Rounds'
  BY <1>0
     DEF Destroyed, vars, mainVars, flags, threads, users, Rounds, Phases, InRound, Working,
         Passed, TypeOK
<1>3. Signals'
  BY
     DEF Destroyed, vars, mainVars, flags, threads, users, Signals, AllStopped, Rounds, Phases,
         InRound, TypeOK
<1>4. Users'
  BY
     DEF Destroyed, vars, mainVars, flags, threads, users, Users, TypeOK, Rounds, Phases, InRound,
         Working, Passed
<1>5. Resources'
  BY
     DEF Destroyed, vars, mainVars, flags, threads, users, Resources, TypeOK, Rounds, Phases,
         InRound, Working, Passed
<1>6. Leaving'
  BY
     DEF Destroyed, vars, mainVars, flags, threads, users, Leaving, TypeOK, Rounds, Phases,
         InRound, Working, Passed
<1>7. Counted'
  <2>1. globalCount' = globalCount /\ \A v \in Workers : Share(v)' = Share(v)
    BY DEF Destroyed, vars, mainVars, flags, threads, users, Share, TypeOK, Rounds, Phases
  <2>2. globalCount' >= globalCount /\ \A v \in Workers : Share(v)' <= Share(v)
    BY <2>1, ShareType DEF TypeOK
  <2> QED BY <2>2, <1>1, CountedStill
<1> QED BY <1>1, <1>2, <1>3, <1>4, <1>5, <1>6, <1>7

(* The second barrier opens: nobody needs a resource any more. *)
LEMMA DeallocateSignalInv ==
  ASSUME IInv, ~ CallsOutlastWait, DeallocateSignal
  PROVE  IInv'
<1> USE DEF IInv, Control
<1>1. main \in InRound
  BY WorkerNumbers, StartedInRound DEF DeallocateSignal
<1>2. \A v \in Workers : worker[v] = "deallocate"
  BY DEF DeallocateSignal
<1>3. TypeOK'
  BY <1>1, <1>2 DEF DeallocateSignal, vars, mainVars, flags, threads, users, TypeOK
<1>4. Rounds'
  BY <1>1, <1>2
     DEF DeallocateSignal, vars, mainVars, flags, threads, users, Rounds, Phases, InRound,
         Working, Passed, TypeOK
<1>5. Signals'
  BY <1>1, <1>2
     DEF DeallocateSignal, vars, mainVars, flags, threads, users, Signals, AllStopped, Rounds,
         Phases, InRound, TypeOK
<1>6. Users'
  BY <1>1, <1>2
     DEF DeallocateSignal, vars, mainVars, flags, threads, users, Users, TypeOK, Rounds, Phases,
         InRound, Working, Passed
<1>7. Resources'
  BY <1>1, <1>2
     DEF DeallocateSignal, vars, mainVars, flags, threads, users, Resources, TypeOK, Rounds,
         Phases, InRound, Working, Passed
<1>8. Leaving'
  BY <1>1, <1>2
     DEF DeallocateSignal, vars, mainVars, flags, threads, users, Leaving, TypeOK, Rounds, Phases,
         InRound, Working, Passed
<1>9. Counted'
  <2>1. globalCount' = globalCount /\ \A v \in Workers : Share(v)' = Share(v)
    BY <1>1, <1>2
       DEF DeallocateSignal, vars, mainVars, flags, threads, users, Share, TypeOK, Rounds, Phases
  <2>2. globalCount' >= globalCount /\ \A v \in Workers : Share(v)' <= Share(v)
    BY <2>1, ShareType DEF TypeOK
  <2> QED BY <2>2, <1>3, CountedStill
<1> QED BY <1>3, <1>4, <1>5, <1>6, <1>7, <1>8, <1>9

(* A worker builds its resource. *)
LEMMA BuildInv ==
  ASSUME IInv, ~ CallsOutlastWait, NEW w \in Workers, Build(w)
  PROVE  IInv'
<1> USE DEF IInv, Control
<1>1. main \in {"spawn", "allocate"}
  BY DEF Build, Rounds, Phases, TypeOK, InRound, Working, Passed
<1>2. TypeOK'
  BY <1>1 DEF Build, Goto, vars, mainVars, flags, threads, users, TypeOK
<1>3. Rounds'
  BY <1>1
     DEF Build, Goto, vars, mainVars, flags, threads, users, Rounds, Phases, InRound, Working,
         Passed, TypeOK
<1>4. Signals'
  BY <1>1
     DEF Build, Goto, vars, mainVars, flags, threads, users, Signals, AllStopped, Rounds, Phases,
         InRound, TypeOK
<1>5. Users'
  BY <1>1
     DEF Build, Goto, vars, mainVars, flags, threads, users, Users, TypeOK, Rounds, Phases,
         InRound, Working, Passed
<1>6. Resources'
  BY <1>1
     DEF Build, Goto, vars, mainVars, flags, threads, users, Resources, TypeOK, Rounds, Phases,
         InRound, Working, Passed
<1>7. Leaving'
  BY <1>1
     DEF Build, Goto, vars, mainVars, flags, threads, users, Leaving, TypeOK, Rounds, Phases,
         InRound, Working, Passed
<1>8. Counted'
  <2>1. globalCount' = globalCount /\ \A v \in Workers : Share(v)' = Share(v)
    BY <1>1 DEF Build, Goto, vars, mainVars, flags, threads, users, Share, TypeOK, Rounds, Phases
  <2>2. globalCount' >= globalCount /\ \A v \in Workers : Share(v)' <= Share(v)
    BY <2>1, ShareType DEF TypeOK
  <2> QED BY <2>2, <1>2, CountedStill
<1> QED BY <1>2, <1>3, <1>4, <1>5, <1>6, <1>7, <1>8

(* A worker finds the start signal. *)
LEMMA WaitStartInv ==
  ASSUME IInv, ~ CallsOutlastWait, NEW w \in Workers, WaitStart(w)
  PROVE  IInv'
<1> USE DEF IInv, Control
<1>1. main \in InRound /\ started /\ \A v \in Workers : worker[v] \in Working
  BY UsersFindWorkers DEF WaitStart, Signals, AllStopped, Working
<1>2. TypeOK'
  BY <1>1 DEF WaitStart, Goto, vars, mainVars, flags, threads, users, TypeOK
<1>3. Rounds'
  BY <1>1
     DEF WaitStart, Goto, vars, mainVars, flags, threads, users, Rounds, Phases, InRound, Working,
         Passed, TypeOK
<1>4. Signals'
  BY <1>1
     DEF WaitStart, Goto, vars, mainVars, flags, threads, users, Signals, AllStopped, Rounds,
         Phases, InRound, TypeOK
<1>5. Users'
  BY <1>1
     DEF WaitStart, Goto, vars, mainVars, flags, threads, users, Users, TypeOK, Rounds, Phases,
         InRound, Working, Passed
<1>6. Resources'
  BY <1>1
     DEF WaitStart, Goto, vars, mainVars, flags, threads, users, Resources, TypeOK, Rounds,
         Phases, InRound, Working, Passed
<1>7. Leaving'
  BY <1>1
     DEF WaitStart, Goto, vars, mainVars, flags, threads, users, Leaving, TypeOK, Rounds, Phases,
         InRound, Working, Passed
<1>8. Counted'
  <2>1. globalCount' = globalCount /\ \A v \in Workers : Share(v)' = Share(v)
    BY <1>1
       DEF WaitStart, Goto, vars, mainVars, flags, threads, users, Share, TypeOK, Rounds, Phases
  <2>2. globalCount' >= globalCount /\ \A v \in Workers : Share(v)' <= Share(v)
    BY <2>1, ShareType DEF TypeOK
  <2> QED BY <2>2, <1>2, CountedStill
<1> QED BY <1>2, <1>3, <1>4, <1>5, <1>6, <1>7, <1>8

(* A task is completed. *)
LEMMA CompleteTaskInv ==
  ASSUME IInv, ~ CallsOutlastWait, NEW w \in Workers, CompleteTask(w)
  PROVE  IInv'
<1> USE DEF IInv, Control
<1>1. globalCount >= 1 /\ started /\ main \in InRound
  <2>1. started /\ main \in InRound
    BY UsersFindWorkers DEF CompleteTask, Signals, Working
  <2>2. Share(w) <= globalCount /\ tasks[w] <= Share(w)
    BY <2>1, ShareBounds
  <2> QED BY <2>1, <2>2, ShareType DEF CompleteTask, TypeOK
<1>2. TypeOK'
  BY <1>1 DEF CompleteTask, vars, mainVars, flags, threads, users, TypeOK
<1>3. Rounds'
  BY <1>1
     DEF CompleteTask, vars, mainVars, flags, threads, users, Rounds, Phases, InRound, Working,
         Passed, TypeOK
<1>4. Signals'
  BY <1>1
     DEF CompleteTask, vars, mainVars, flags, threads, users, Signals, AllStopped, Rounds, Phases,
         InRound, TypeOK
<1>5. Users'
  BY <1>1
     DEF CompleteTask, vars, mainVars, flags, threads, users, Users, TypeOK, Rounds, Phases,
         InRound, Working, Passed
<1>6. Resources'
  BY <1>1
     DEF CompleteTask, vars, mainVars, flags, threads, users, Resources, TypeOK, Rounds, Phases,
         InRound, Working, Passed
<1>7. Leaving'
  BY <1>1
     DEF CompleteTask, vars, mainVars, flags, threads, users, Leaving, TypeOK, Rounds, Phases,
         InRound, Working, Passed
<1>8. Counted'
  <2>1. globalCount' = globalCount + (-1) /\ Share(w)' = Share(w) + (-1)
    BY <1>1 DEF CompleteTask, vars, mainVars, flags, threads, users, Share, TypeOK
  <2>2. \A v \in Workers : v # w => Share(v)' = Share(v)
    BY <1>1 DEF CompleteTask, vars, mainVars, flags, threads, users, Share, TypeOK
  <2> QED BY <2>1, <2>2, <1>2, CountedAgain
<1> QED BY <1>2, <1>3, <1>4, <1>5, <1>6, <1>7, <1>8

(* A task is made and counted. *)
LEMMA EnqueueGlobalInv ==
  ASSUME IInv, ~ CallsOutlastWait, NEW w \in Workers, EnqueueGlobal(w)
  PROVE  IInv'
<1> USE DEF IInv, Control
<1>1. globalCount >= 1 /\ started /\ main \in InRound /\ \A v \in Workers : worker[v] \in Working
  <2>1. started /\ main \in InRound /\ \A v \in Workers : worker[v] \in Working
    BY UsersFindWorkers DEF EnqueueGlobal, Signals, Working
  <2>2. Share(w) <= globalCount /\ tasks[w] <= Share(w)
    BY <2>1, ShareBounds
  <2> QED BY <2>1, <2>2, ShareType DEF EnqueueGlobal, TypeOK
<1>2. TypeOK'
  BY <1>1 DEF EnqueueGlobal, Goto, vars, mainVars, flags, threads, users, TypeOK
<1>3. Rounds'
  BY <1>1
     DEF EnqueueGlobal, Goto, vars, mainVars, flags, threads, users, Rounds, Phases, InRound,
         Working, Passed, TypeOK
<1>4. Signals'
  BY <1>1
     DEF EnqueueGlobal, Goto, vars, mainVars, flags, threads, users, Signals, AllStopped, Rounds,
         Phases, InRound, TypeOK
<1>5. Users'
  BY <1>1
     DEF EnqueueGlobal, Goto, vars, mainVars, flags, threads, users, Users, TypeOK, Rounds,
         Phases, InRound, Working, Passed
<1>6. Resources'
  BY <1>1
     DEF EnqueueGlobal, Goto, vars, mainVars, flags, threads, users, Resources, TypeOK, Rounds,
         Phases, InRound, Working, Passed
<1>7. Leaving'
  BY <1>1
     DEF EnqueueGlobal, Goto, vars, mainVars, flags, threads, users, Leaving, TypeOK, Rounds,
         Phases, InRound, Working, Passed
<1>8. Counted'
  <2>1. globalCount' = globalCount + 1 /\ Share(w)' = Share(w) + 1
    BY <1>1 DEF EnqueueGlobal, Goto, vars, mainVars, flags, threads, users, Share, TypeOK
  <2>2. \A v \in Workers : v # w => Share(v)' = Share(v)
    BY <1>1 DEF EnqueueGlobal, Goto, vars, mainVars, flags, threads, users, Share, TypeOK
  <2> QED BY <2>1, <2>2, <1>2, CountedAgain
<1> QED BY <1>2, <1>3, <1>4, <1>5, <1>6, <1>7, <1>8

(* A task goes from one worker's account to that of another. *)
LEMMA PushInternalInv ==
  ASSUME IInv, ~ CallsOutlastWait, NEW w \in Workers, PushInternal(w)
  PROVE  IInv'
<1> USE DEF IInv, Control
<1>1. main \in InRound /\ \A v \in Workers : worker[v] \in Working
  BY UsersFindWorkers DEF PushInternal, Working
<1>2. TypeOK'
  BY <1>1 DEF PushInternal, Goto, vars, mainVars, flags, threads, users, TypeOK
<1>3. Rounds'
  BY <1>1
     DEF PushInternal, Goto, vars, mainVars, flags, threads, users, Rounds, Phases, InRound,
         Working, Passed, TypeOK
<1>4. Signals'
  BY <1>1
     DEF PushInternal, Goto, vars, mainVars, flags, threads, users, Signals, AllStopped, Rounds,
         Phases, InRound, TypeOK
<1>5. Users'
  BY <1>1
     DEF PushInternal, Goto, vars, mainVars, flags, threads, users, Users, TypeOK, Rounds, Phases,
         InRound, Working, Passed
<1>6. Resources'
  BY <1>1
     DEF PushInternal, Goto, vars, mainVars, flags, threads, users, Resources, TypeOK, Rounds,
         Phases, InRound, Working, Passed
<1>7. Leaving'
  BY <1>1
     DEF PushInternal, Goto, vars, mainVars, flags, threads, users, Leaving, TypeOK, Rounds,
         Phases, InRound, Working, Passed
<1>8. Counted'
  <2> DEFINE half == [Shares EXCEPT ![w] = @ - 1]
  <2>1. Shares \in [0 .. NumWorkers - 1 -> Int] /\ Shares' \in [0 .. NumWorkers - 1 -> Int]
    BY ShareType, ShareTypeNext, <1>2
  <2>2. \A v \in Workers : Shares[v] = Share(v) /\ Shares'[v] = Share(v)'
    BY ShareType, ShareTypeNext, <1>2
  <2>3. target[w] \in Workers
    BY DEF TypeOK
  <2>4. \A v \in Workers : Share(v)' = Share(v) - (IF v = w THEN 1 ELSE 0)
                                              + (IF v = target[w] THEN 1 ELSE 0)
    BY <1>1 DEF PushInternal, Goto, vars, mainVars, flags, threads, users, Share, TypeOK
  <2>5. half \in [0 .. NumWorkers - 1 -> Int]
    BY <2>1 DEF Workers
  <2>6. /\ half[w] = Shares[w] + (-1)
        /\ \A v \in 0 .. NumWorkers - 1 : v # w => half[v] = Shares[v]
    BY <2>1 DEF Workers
  <2>7. /\ Shares'[target[w]] = half[target[w]] + 1
        /\ \A v \in 0 .. NumWorkers - 1 : v # target[w] => Shares'[v] = half[v]
    BY <2>1, <2>2, <2>3, <2>4, <2>6, SMTT(40) DEF Workers
  <2> HIDE DEF half
  <2> DEFINE whole == Shares'
             plain == Shares
  <2>a. /\ plain \in [0 .. NumWorkers - 1 -> Int] /\ whole \in [0 .. NumWorkers - 1 -> Int]
        /\ half[w] = plain[w] + (-1)
        /\ \A v \in 0 .. NumWorkers - 1 : v # w => half[v] = plain[v]
        /\ whole[target[w]] = half[target[w]] + 1
        /\ \A v \in 0 .. NumWorkers - 1 : v # target[w] => whole[v] = half[v]
    BY <2>1, <2>6, <2>7
  <2>b. /\ NumWorkers \in Nat /\ w \in 0 .. NumWorkers - 1
        /\ target[w] \in 0 .. NumWorkers - 1 /\ -1 \in Int /\ 1 \in Int
    BY <2>3, WorkerNumbers DEF Workers
  <2> HIDE DEF whole, plain
  <2>8a. SumTo(half, NumWorkers) = SumTo(plain, NumWorkers) + (-1)
    BY <2>a, <2>5, <2>b, SumUpdate, ZenonT(60)
  <2>9a. SumTo(whole, NumWorkers) = SumTo(half, NumWorkers) + 1
    BY <2>a, <2>5, <2>b, SumUpdate, ZenonT(60)
  <2>8. SumTo(half, NumWorkers) = SumTo(Shares, NumWorkers) + (-1)
    BY <2>8a DEF plain
  <2>9. SumTo(Shares', NumWorkers) = SumTo(half, NumWorkers) + 1
    BY <2>9a DEF whole
  <2>10. SumTo(Shares, NumWorkers) \in Int
    BY <2>1, SumType
  <2> QED BY <2>8, <2>9, <2>10 DEF Counted, PushInternal
<1> QED BY <1>2, <1>3, <1>4, <1>5, <1>6, <1>7, <1>8

(* A worker leaves run(). *)
LEMMA LeaveInv ==
  ASSUME IInv, ~ CallsOutlastWait, NEW w \in Workers, Leave(w)
  PROVE  IInv'
<1> USE DEF IInv, Control
<1>1. main \in InRound /\ startSignal /\ \A v \in Workers : worker[v] \in Working
  BY UsersFindWorkers DEF Leave, Signals, Working
<1>2. TypeOK'
  BY <1>1 DEF Leave, Goto, vars, mainVars, flags, threads, users, TypeOK
<1>3. Rounds'
  BY <1>1
     DEF Leave, Goto, vars, mainVars, flags, threads, users, Rounds, Phases, InRound, Working,
         Passed, TypeOK
<1>4. Signals'
  BY <1>1
     DEF Leave, Goto, vars, mainVars, flags, threads, users, Signals, AllStopped, Rounds, Phases,
         InRound, TypeOK
<1>5. Users'
  BY <1>1
     DEF Leave, Goto, vars, mainVars, flags, threads, users, Users, TypeOK, Rounds, Phases,
         InRound, Working, Passed
<1>6. Resources'
  BY <1>1
     DEF Leave, Goto, vars, mainVars, flags, threads, users, Resources, TypeOK, Rounds, Phases,
         InRound, Working, Passed
<1>7. Leaving'
  BY <1>1
     DEF Leave, Goto, vars, mainVars, flags, threads, users, Leaving, TypeOK, Rounds, Phases,
         InRound, Working, Passed
<1>8. Counted'
  <2>1. globalCount' = globalCount /\ \A v \in Workers : Share(v)' = Share(v)
    BY <1>1 DEF Leave, Goto, vars, mainVars, flags, threads, users, Share, TypeOK, Rounds, Phases
  <2>2. globalCount' >= globalCount /\ \A v \in Workers : Share(v)' <= Share(v)
    BY <2>1, ShareType DEF TypeOK
  <2> QED BY <2>2, <1>2, CountedStill
<1> QED BY <1>2, <1>3, <1>4, <1>5, <1>6, <1>7, <1>8

(* A worker takes its reference back. *)
LEMMA UnsetReferenceInv ==
  ASSUME IInv, ~ CallsOutlastWait, NEW w \in Workers, UnsetReference(w)
  PROVE  IInv'
<1> USE DEF IInv, Control
<1>1. main \in InRound /\ \A v \in Workers : worker[v] \in Passed
  BY StartedInRound DEF UnsetReference, Passed
<1>2. TypeOK'
  BY <1>1 DEF UnsetReference, Goto, vars, mainVars, flags, threads, users, TypeOK
<1>3. Rounds'
  BY <1>1
     DEF UnsetReference, Goto, vars, mainVars, flags, threads, users, Rounds, Phases, InRound,
         Working, Passed, TypeOK
<1>4. Signals'
  BY <1>1
     DEF UnsetReference, Goto, vars, mainVars, flags, threads, users, Signals, AllStopped, Rounds,
         Phases, InRound, TypeOK
<1>5. Users'
  BY <1>1
     DEF UnsetReference, Goto, vars, mainVars, flags, threads, users, Users, TypeOK, Rounds,
         Phases, InRound, Working, Passed
<1>6. Resources'
  BY <1>1
     DEF UnsetReference, Goto, vars, mainVars, flags, threads, users, Resources, TypeOK, Rounds,
         Phases, InRound, Working, Passed
<1>7. Leaving'
  BY <1>1
     DEF UnsetReference, Goto, vars, mainVars, flags, threads, users, Leaving, TypeOK, Rounds,
         Phases, InRound, Working, Passed
<1>8. Counted'
  <2>1. globalCount' = globalCount /\ \A v \in Workers : Share(v)' = Share(v)
    BY <1>1
       DEF UnsetReference, Goto, vars, mainVars, flags, threads, users, Share, TypeOK, Rounds,
           Phases
  <2>2. globalCount' >= globalCount /\ \A v \in Workers : Share(v)' <= Share(v)
    BY <2>1, ShareType DEF TypeOK
  <2> QED BY <2>2, <1>2, CountedStill
<1> QED BY <1>2, <1>3, <1>4, <1>5, <1>6, <1>7, <1>8

(* A worker frees its resource. *)
LEMMA FreeInv ==
  ASSUME IInv, ~ CallsOutlastWait, NEW w \in Workers, Free(w)
  PROVE  IInv'
<1> USE DEF IInv, Control
<1>1. main \in InRound /\ \A v \in Workers : worker[v] \in Passed
  BY StartedInRound DEF Free, Passed
<1>2. TypeOK'
  BY <1>1 DEF Free, Goto, vars, mainVars, flags, threads, users, TypeOK
<1>3. Rounds'
  BY <1>1
     DEF Free, Goto, vars, mainVars, flags, threads, users, Rounds, Phases, InRound, Working,
         Passed, TypeOK
<1>4. Signals'
  BY <1>1
     DEF Free, Goto, vars, mainVars, flags, threads, users, Signals, AllStopped, Rounds, Phases,
         InRound, TypeOK
<1>5. Users'
  BY <1>1
     DEF Free, Goto, vars, mainVars, flags, threads, users, Users, TypeOK, Rounds, Phases,
         InRound, Working, Passed
<1>6. Resources'
  BY <1>1
     DEF Free, Goto, vars, mainVars, flags, threads, users, Resources, TypeOK, Rounds, Phases,
         InRound, Working, Passed
<1>7. Leaving'
  BY <1>1
     DEF Free, Goto, vars, mainVars, flags, threads, users, Leaving, TypeOK, Rounds, Phases,
         InRound, Working, Passed
<1>8. Counted'
  <2>1. globalCount' >= globalCount /\ \A v \in Workers : Share(v)' <= Share(v)
    BY <1>1 DEF Free, Goto, vars, mainVars, flags, threads, users, Share, TypeOK
  <2> QED BY <2>1, <1>2, CountedStill
<1> QED BY <1>2, <1>3, <1>4, <1>5, <1>6, <1>7, <1>8

(* A thread begins to populate a worker. *)
LEMMA PopulateInv ==
  ASSUME IInv, ~ CallsOutlastWait, NEW w \in Workers, Populate(w)
  PROVE  IInv'
<1> USE DEF IInv, Control
<1>1. TypeOK'
  BY DEF Populate, vars, mainVars, flags, threads, users, TypeOK
<1>2. Rounds'
  BY DEF Populate, vars, mainVars, flags, threads, users, Rounds, Phases, InRound, Working, Passed
<1>3. Signals'
  BY DEF Populate, vars, mainVars, flags, threads, users, Signals, AllStopped
<1>4. Users'
  BY DEF Populate, vars, mainVars, flags, threads, users, Users, TypeOK
<1>5. Resources'
  BY DEF Populate, vars, mainVars, flags, threads, users, Resources, Working
<1>6. Leaving'
  BY DEF Populate, vars, mainVars, flags, threads, users, Leaving, InRound, Passed
<1>7. Counted'
  <2>1. globalCount' = globalCount /\ \A v \in Workers : Share(v)' = Share(v)
    BY DEF Populate, vars, mainVars, flags, threads, users, Share, TypeOK
  <2>2. globalCount' >= globalCount /\ \A v \in Workers : Share(v)' <= Share(v)
    BY <2>1, ShareType DEF TypeOK
  <2> QED BY <2>2, <1>1, CountedStill
<1> QED BY <1>1, <1>2, <1>3, <1>4, <1>5, <1>6, <1>7

(* A task is put in before it is counted, or is lost. *)
LEMMA PushUnsafeInv ==
  ASSUME IInv, ~ CallsOutlastWait, NEW w \in Workers, PushUnsafe(w)
  PROVE  IInv'
<1> USE DEF IInv, Control
<1>1. /\ main \in InRound
      /\ Usable(w) => worker[w] \in Working
  BY DEF PushUnsafe, Users, Usable, Rounds, Phases, InRound, Working, Passed
<1>2. TypeOK'
  BY <1>1 DEF PushUnsafe, PutIn, vars, mainVars, flags, threads, users, TypeOK
<1>3. Rounds'
  BY <1>1
     DEF PushUnsafe, PutIn, vars, mainVars, flags, threads, users, Rounds, Phases, InRound,
         Working, Passed, TypeOK
<1>4. Signals'
  BY <1>1
     DEF PushUnsafe, PutIn, vars, mainVars, flags, threads, users, Signals, AllStopped, Rounds,
         Phases, InRound, TypeOK
<1>5. Users'
  BY <1>1
     DEF PushUnsafe, PutIn, vars, mainVars, flags, threads, users, Users, TypeOK, Rounds, Phases,
         InRound, Working, Passed
<1>6. Resources'
  BY <1>1
     DEF PushUnsafe, PutIn, vars, mainVars, flags, threads, users, Resources, TypeOK, Rounds,
         Phases, InRound, Working, Passed
<1>7. Leaving'
  BY <1>1
     DEF PushUnsafe, PutIn, vars, mainVars, flags, threads, users, Leaving, TypeOK, Rounds,
         Phases, InRound, Working, Passed
<1>8. Counted'
  <2>1. globalCount' >= globalCount /\ \A v \in Workers : Share(v)' <= Share(v)
    BY <1>1 DEF PushUnsafe, PutIn, vars, mainVars, flags, threads, users, Share, TypeOK
  <2> QED BY <2>1, <1>2, CountedStill
<1> QED BY <1>2, <1>3, <1>4, <1>5, <1>6, <1>7, <1>8

(* It is counted. *)
LEMMA CountUnsafeInv ==
  ASSUME IInv, ~ CallsOutlastWait, NEW w \in Workers, CountUnsafe(w)
  PROVE  IInv'
<1> USE DEF IInv, Control
<1>1. /\ main \in {"active", "stop"}
      /\ AllStopped \/ \A v \in Workers : worker[v] = "waitStart"
  BY UsersFindWorkers DEF CountUnsafe, Users
<1>2. TypeOK'
  BY <1>1 DEF CountUnsafe, vars, mainVars, flags, threads, users, TypeOK
<1>3. Rounds'
  BY <1>1
     DEF CountUnsafe, vars, mainVars, flags, threads, users, Rounds, Phases, InRound, Working,
         Passed, TypeOK
<1>4. Signals'
  BY <1>1
     DEF CountUnsafe, vars, mainVars, flags, threads, users, Signals, AllStopped, Rounds, Phases,
         InRound, TypeOK
<1>5. Users'
  BY <1>1
     DEF CountUnsafe, vars, mainVars, flags, threads, users, Users, TypeOK, Rounds, Phases,
         InRound, Working, Passed
<1>6. Resources'
  BY <1>1
     DEF CountUnsafe, vars, mainVars, flags, threads, users, Resources, TypeOK, Rounds, Phases,
         InRound, Working, Passed
<1>7. Leaving'
  BY <1>1
     DEF CountUnsafe, vars, mainVars, flags, threads, users, Leaving, AllStopped, TypeOK, Rounds,
         Phases, InRound, Working, Passed
<1>8. Counted'
  <2>1. globalCount' = globalCount + 1 /\ Share(w)' = Share(w) + 1
    BY <1>1 DEF CountUnsafe, vars, mainVars, flags, threads, users, Share, TypeOK
  <2>2. \A v \in Workers : v # w => Share(v)' = Share(v)
    BY <1>1 DEF CountUnsafe, vars, mainVars, flags, threads, users, Share, TypeOK
  <2> QED BY <2>1, <2>2, <1>2, CountedAgain
<1> QED BY <1>2, <1>3, <1>4, <1>5, <1>6, <1>7, <1>8

(* An outside thread announces a task. *)
LEMMA AnnounceInv ==
  ASSUME IInv, ~ CallsOutlastWait, NEW w \in Workers, Announce(w)
  PROVE  IInv'
<1> USE DEF IInv, Control
<1>1. /\ main \in {"active", "stop", "join"}
      /\ main = "join" => \A v \in Workers : ~ stop[v]
  BY DEF Announce, StopAsked, Leaving, Signals, TypeOK
<1>2. \A v \in Workers : worker[v] \in Passed \cup {"deallocate"} => stop[v]
  BY <1>1 DEF Announce, Leaving, InRound
<1>3. TypeOK'
  BY <1>1, <1>2 DEF Announce, StopAsked, vars, mainVars, flags, threads, users, TypeOK
<1>4. Rounds'
  BY <1>1, <1>2
     DEF Announce, StopAsked, vars, mainVars, flags, threads, users, Rounds, Phases, InRound,
         Working, Passed, TypeOK
<1>5. Signals'
  BY <1>1, <1>2
     DEF Announce, StopAsked, vars, mainVars, flags, threads, users, Signals, AllStopped, Rounds,
         Phases, InRound, TypeOK
<1>6. Users'
  BY <1>1, <1>2
     DEF Announce, StopAsked, vars, mainVars, flags, threads, users, Users, TypeOK, Rounds,
         Phases, InRound, Working, Passed
<1>7. Resources'
  BY <1>1, <1>2
     DEF Announce, StopAsked, vars, mainVars, flags, threads, users, Resources, TypeOK, Rounds,
         Phases, InRound, Working, Passed
<1>8. Leaving'
  BY <1>1, <1>2
     DEF Announce, StopAsked, vars, mainVars, flags, threads, users, Leaving, TypeOK, Rounds,
         Phases, InRound, Working, Passed
<1>9. Counted'
  <2>1. globalCount' = globalCount + 1 /\ Share(w)' = Share(w) + 1
    BY <1>1, <1>2 DEF Announce, StopAsked, vars, mainVars, flags, threads, users, Share, TypeOK
  <2>2. \A v \in Workers : v # w => Share(v)' = Share(v)
    BY <1>1, <1>2 DEF Announce, StopAsked, vars, mainVars, flags, threads, users, Share, TypeOK
  <2> QED BY <2>1, <2>2, <1>3, CountedAgain
<1> QED BY <1>3, <1>4, <1>5, <1>6, <1>7, <1>8, <1>9

(* It puts it in, or it is lost. *)
LEMMA PushDuringInv ==
  ASSUME IInv, ~ CallsOutlastWait, NEW w \in Workers, PushDuring(w)
  PROVE  IInv'
<1> USE DEF IInv, Control
<1>1. /\ main \in InRound
      /\ Usable(w) => worker[w] \in Working
  BY DEF PushDuring, Users, Usable, Rounds, Phases, InRound, Working, Passed
<1>2. TypeOK'
  BY <1>1 DEF PushDuring, PutIn, vars, mainVars, flags, threads, users, TypeOK
<1>3. Rounds'
  BY <1>1
     DEF PushDuring, PutIn, vars, mainVars, flags, threads, users, Rounds, Phases, InRound,
         Working, Passed, TypeOK
<1>4. Signals'
  BY <1>1
     DEF PushDuring, PutIn, vars, mainVars, flags, threads, users, Signals, AllStopped, Rounds,
         Phases, InRound, TypeOK
<1>5. Users'
  BY <1>1
     DEF PushDuring, PutIn, vars, mainVars, flags, threads, users, Users, TypeOK, Rounds, Phases,
         InRound, Working, Passed
<1>6. Resources'
  BY <1>1
     DEF PushDuring, PutIn, vars, mainVars, flags, threads, users, Resources, TypeOK, Rounds,
         Phases, InRound, Working, Passed
<1>7. Leaving'
  BY <1>1
     DEF PushDuring, PutIn, vars, mainVars, flags, threads, users, Leaving, TypeOK, Rounds,
         Phases, InRound, Working, Passed
<1>8. Counted'
  <2>1. globalCount' >= globalCount /\ \A v \in Workers : Share(v)' <= Share(v)
    BY <1>1 DEF PushDuring, PutIn, vars, mainVars, flags, threads, users, Share, TypeOK
  <2> QED BY <2>1, <1>2, CountedStill
<1> QED BY <1>2, <1>3, <1>4, <1>5, <1>6, <1>7, <1>8

(* It finds the channel full. *)
LEMMA PushDuringFailsInv ==
  ASSUME IInv, ~ CallsOutlastWait, NEW w \in Workers, PushDuringFails(w)
  PROVE  IInv'
<1> USE DEF IInv, Control
<1>1. TypeOK'
  BY DEF PushDuringFails, vars, mainVars, flags, threads, users, TypeOK
<1>2. Rounds'
  BY
     DEF PushDuringFails, vars, mainVars, flags, threads, users, Rounds, Phases, InRound, Working,
         Passed, TypeOK
<1>3. Signals'
  BY
     DEF PushDuringFails, vars, mainVars, flags, threads, users, Signals, AllStopped, Rounds,
         Phases, InRound, TypeOK
<1>4. Users'
  BY
     DEF PushDuringFails, vars, mainVars, flags, threads, users, Users, TypeOK, Rounds, Phases,
         InRound, Working, Passed
<1>5. Resources'
  BY
     DEF PushDuringFails, vars, mainVars, flags, threads, users, Resources, TypeOK, Rounds,
         Phases, InRound, Working, Passed
<1>6. Leaving'
  BY
     DEF PushDuringFails, vars, mainVars, flags, threads, users, Leaving, TypeOK, Rounds, Phases,
         InRound, Working, Passed
<1>7. Counted'
  <2>1. globalCount' = globalCount /\ \A v \in Workers : Share(v)' = Share(v)
    BY DEF PushDuringFails, vars, mainVars, flags, threads, users, Share, TypeOK, Rounds, Phases
  <2>2. globalCount' >= globalCount /\ \A v \in Workers : Share(v)' <= Share(v)
    BY <2>1, ShareType DEF TypeOK
  <2> QED BY <2>2, <1>1, CountedStill
<1> QED BY <1>1, <1>2, <1>3, <1>4, <1>5, <1>6, <1>7

(* It takes the announcement back. *)
LEMMA WithdrawInv ==
  ASSUME IInv, ~ CallsOutlastWait, NEW w \in Workers, Withdraw(w)
  PROVE  IInv'
<1> USE DEF IInv, Control
<1>1. globalCount >= 1
  BY ShareBounds DEF Withdraw, Users
<1>2. \A v \in Workers : stop[v] \/ worker[v] \in {"waitStart", "run", "push"}
  BY UsersFindWorkers DEF Withdraw
<1>3. main \in {"active", "stop", "join"}
  BY DEF Withdraw, Users
<1>4. TypeOK'
  BY <1>1, <1>2, <1>3 DEF Withdraw, vars, mainVars, flags, threads, users, TypeOK
<1>5. Rounds'
  BY <1>1, <1>2, <1>3
     DEF Withdraw, vars, mainVars, flags, threads, users, Rounds, Phases, InRound, Working,
         Passed, TypeOK
<1>6. Signals'
  BY <1>1, <1>2, <1>3
     DEF Withdraw, vars, mainVars, flags, threads, users, Signals, AllStopped, Rounds, Phases,
         InRound, TypeOK
<1>7. Users'
  BY <1>1, <1>2, <1>3
     DEF Withdraw, vars, mainVars, flags, threads, users, Users, TypeOK, Rounds, Phases, InRound,
         Working, Passed
<1>8. Resources'
  BY <1>1, <1>2, <1>3
     DEF Withdraw, vars, mainVars, flags, threads, users, Resources, TypeOK, Rounds, Phases,
         InRound, Working, Passed
<1>9. Leaving'
  BY <1>1, <1>2, <1>3
     DEF Withdraw, vars, mainVars, flags, threads, users, Leaving, TypeOK, Rounds, Phases,
         InRound, Working, Passed
<1>10. Counted'
  <2>1. globalCount' = globalCount + (-1) /\ Share(w)' = Share(w) + (-1)
    BY <1>1, <1>2, <1>3 DEF Withdraw, vars, mainVars, flags, threads, users, Share, TypeOK
  <2>2. \A v \in Workers : v # w => Share(v)' = Share(v)
    BY <1>1, <1>2, <1>3 DEF Withdraw, vars, mainVars, flags, threads, users, Share, TypeOK
  <2> QED BY <2>1, <2>2, <1>4, CountedAgain
<1> QED BY <1>4, <1>5, <1>6, <1>7, <1>8, <1>9, <1>10

(* Every step keeps the invariant. *)
LEMMA StepInv == ~ CallsOutlastWait /\ IInv /\ [Next]_vars => IInv'
<1> SUFFICES ASSUME ~ CallsOutlastWait, IInv, [Next]_vars PROVE IInv'
  OBVIOUS
<1>1. CASE UNCHANGED vars
  <2>1. Control'
    BY <1>1
       DEF vars, mainVars, flags, threads, users, IInv, Control, TypeOK, Rounds, Phases, Signals,
           AllStopped, Users, Resources, Leaving
  <2>2. Counted'
    BY <1>1 DEF vars, mainVars, flags, threads, users, IInv, Counted, Shares, Share
  <2> QED BY <2>1, <2>2 DEF IInv
<1>2. CASE MainCalls
  <2>1. CASE InitQueue
    BY <1>1, <2>1, InitQueueInv DEF InitQueue
  <2>2. CASE RequestStop
    BY <1>1, <2>2, RequestStopInv DEF RequestStop
  <2> QED BY <1>2, <2>1, <2>2, ProcessQueueInv, WaitProcessFinishInv, DestructInv DEF MainCalls
<1>3. CASE MainGoesOn
  BY <1>3, SpawnInv, AwaitAllocationInv, AllocateSignalInv, SendStopInv, StopSignalsInv, JoinInv,
     ResetCountInv, ResetSignalInv, ResetActiveInv, DestroyThreadInv, DestroyedInv
     DEF MainGoesOn
<1>4. CASE DeallocateSignal
  BY <1>4, DeallocateSignalInv
<1>5. ASSUME NEW w \in Workers, Worker(w) PROVE IInv'
  BY <1>5, BuildInv, WaitStartInv, CompleteTaskInv, EnqueueGlobalInv, PushInternalInv, LeaveInv,
     UnsetReferenceInv, FreeInv DEF Worker
<1>6. ASSUME NEW w \in Workers,
             Populate(w) \/ LoaderGoesOn(w) \/ Announce(w) \/ PusherGoesOn(w)
      PROVE  IInv'
  BY <1>6, PopulateInv, PushUnsafeInv, CountUnsafeInv, AnnounceInv, PushDuringInv,
     PushDuringFailsInv, WithdrawInv DEF LoaderGoesOn, PusherGoesOn
<1> QED BY <1>1, <1>2, <1>3, <1>4, <1>5, <1>6 DEF Next

(* The invariant holds in every reachable state, if the main thread that    *)
(* has asked for a stop waits for the calls of others to return before it   *)
(* calls waitProcessFinish.                                                 *)
THEOREM Invariance == ~ CallsOutlastWait /\ Spec => []IInv
<1>1. Init => IInv BY InitInv
<1>2. ~ CallsOutlastWait /\ IInv /\ [Next]_vars => IInv' BY StepInv
<1>3. CASE CallsOutlastWait BY <1>3
<1>4. CASE ~ CallsOutlastWait
  <2>1. IInv /\ [Next]_vars => IInv' BY <1>2, <1>4
  <2> QED BY <1>1, <2>1, PTL DEF Spec
<1> QED BY <1>3, <1>4

(* Types: in particular the count never falls below zero. *)
THEOREM TypeCorrect == ~ CallsOutlastWait /\ Spec => []TypeOK
<1>1. IInv => TypeOK BY DEF IInv, Control
<1> QED BY <1>1, Invariance, PTL

(* Whoever is about to use a worker's resource finds it alive, also while a *)
(* stop is being requested: workers always, others until it has been sent   *)
(* to all; and who populates the queue meets no worker that processes tasks. *)
THEOREM ResourcesAlive == ~ CallsOutlastWait /\ Spec => []UsesLiveWorker
<1>1. ASSUME IInv, NEW w \in Workers
      PROVE  /\ worker[w] = "push" => Usable(target[w])
             /\ pusher[w] = "push" /\ ~ AllStopped => Usable(w)
             /\ loader[w] # "idle" =>
                  /\ ~ AllStopped => Usable(w)
                  /\ \A v \in Workers : worker[v] \notin {"run", "push"}
  <2>1. \A v \in Workers : worker[v] \in Working => Usable(v)
    BY <1>1 DEF IInv, Control, Resources, Usable, Working
  <2>2. ASSUME worker[w] = "push" PROVE Usable(target[w])
    <3>1. target[w] \in Workers BY <1>1 DEF IInv, Control, TypeOK
    <3> QED BY <1>1, <2>1, <2>2, <3>1, UsersFindWorkers DEF Working
  <2>3. ASSUME pusher[w] = "push", ~ AllStopped PROVE Usable(w)
    <3>1. PICK v \in Workers : ~ stop[v] BY <2>3 DEF AllStopped
    <3>2. worker[v] \in Working BY <1>1, <2>3, <3>1, UsersFindWorkers DEF Working
    <3>3. worker[w] \in Working BY <1>1, <3>2, UsersFindWorkers
    <3> QED BY <2>1, <3>3
  <2>4. ASSUME loader[w] # "idle"
        PROVE  /\ ~ AllStopped => Usable(w)
               /\ \A v \in Workers : worker[v] \notin {"run", "push"}
    BY <1>1, <2>1, <2>4, UsersFindWorkers DEF Working
  <2> QED BY <2>2, <2>3, <2>4
<1>2. IInv => UsesLiveWorker BY <1>1 DEF UsesLiveWorker
<1> QED BY <1>2, Invariance, PTL

(* An object that waitProcessFinish has returned is as new. *)
THEOREM ReuseCorrect == ~ CallsOutlastWait /\ Spec => []ReusedIsNew
<1>1. ASSUME IInv PROVE ReusedIsNew
  <2>1. main \in {"idle", "spawn", "allocate"} =>
          globalCount = 0 /\ ~ startSignal /\ NoLoader /\ NoPusher
    BY <1>1 DEF IInv, Control, TypeOK, Leaving, Signals, Users, NoLoader, NoPusher
  <2>2. main = "idle" =>
          ~ queueActive /\ \A w \in Workers : worker[w] = "none" /\ ~ reference[w]
    BY <1>1 DEF IInv, Control, Rounds, Phases, Signals, Resources, Working
  <2>3. \A w \in Workers :
          worker[w] \in {"build", "allocate"} => tasks[w] = 0 /\ ~ stop[w]
    BY <1>1 DEF IInv, Control, Resources
  <2> QED BY <2>1, <2>2, <2>3 DEF ReusedIsNew
<1> QED BY <1>1, Invariance, PTL

(* No task is freed with its worker's resource, but after a stop. *)
THEOREM NothingFreed == ~ CallsOutlastWait /\ Spec => []FreedEmpty
<1>1. ASSUME IInv, NEW w \in Workers, worker[w] \in {"deallocate", "unset", "free"}
      PROVE  tasks[w] = 0 \/ stop[w]
  <2>1. main \in InRound
    BY <1>1, StartedInRound DEF IInv, Control
  <2>2. stop[w] \/ globalCount = 0
    BY <1>1, <2>1 DEF IInv, Control, Leaving, Passed
  <2>3. CASE started
    <3>1. tasks[w] <= Share(w) /\ Share(w) <= globalCount
      BY <1>1, <2>3, ShareBounds
    <3>2. tasks[w] \in Nat /\ Share(w) \in Int /\ globalCount \in Nat
      BY <1>1, ShareType DEF IInv, Control, TypeOK
    <3> QED BY <2>2, <3>1, <3>2
  <2>4. CASE ~ started
    BY <1>1, <2>4 DEF IInv, Control, Signals, AllStopped
  <2> QED BY <2>3, <2>4
<1>2. IInv => FreedEmpty BY <1>1 DEF FreedEmpty
<1> QED BY <1>2, Invariance, PTL

-----------------------------------------------------------------------------
(* What holds of the workers among themselves, whatever others do with the  *)
(* object and the count: they meet at the barriers.                         *)
Meeting ==
  /\ main \in {"idle", "spawn", "allocate", "active", "stop", "join", "resetSignal",
               "resetActive", "destroy", "destroyed"}
  /\ next \in -1 .. NumWorkers
  /\ worker \in [Workers -> {"none", "build", "allocate", "waitStart", "run", "push",
                             "deallocate", "unset", "free", "ended"}]
  /\ reference \in [Workers -> BOOLEAN]
  /\ target \in [Workers -> Workers]
  /\ Phases
  /\ main \in {"spawn", "allocate", "active", "stop", "join", "resetSignal", "resetActive"} =>
       queueActive
  /\ \A w \in Workers : reference[w] <=> worker[w] \in Working \cup {"allocate", "unset"}

LEMMA MeetingInit == Init => Meeting
<1> SUFFICES ASSUME Init PROVE Meeting
  OBVIOUS
<1>1. 0 \in -1 .. NumWorkers
  BY WorkerNumbers
<1> QED BY <1>1 DEF Init, Meeting, Phases, InRound, Working, Passed

(* The calls of the main thread and what they go on with *)
LEMMA MeetingMain ==
  ASSUME Meeting, MainCalls \/ MainGoesOn
  PROVE  Meeting'
<1> USE DEF Meeting, Phases, InRound, Working, Passed
<1>1. /\ \A v \in Workers : v \in Int /\ 0 <= v /\ v <= NumWorkers - 1
      /\ 0 \in -1 .. NumWorkers /\ NumWorkers - 1 \in -1 .. NumWorkers
      /\ NumWorkers \in Int /\ NumWorkers >= 0
  BY WorkerNumbers
<1>2. CASE InitQueue
  BY <1>1, <1>2 DEF InitQueue, vars, mainVars, threads, flags
<1>3. CASE ProcessQueue \/ RequestStop \/ Destruct
  BY <1>1, <1>3 DEF ProcessQueue, RequestStop, Destruct, vars, mainVars, threads, flags
<1>4. CASE WaitProcessFinish
  BY <1>1, <1>4 DEF WaitProcessFinish, threads, flags
<1>5. CASE Spawn
  <2>1. next \in Workers /\ next \in Int /\ next + 1 \in 0 .. NumWorkers
    BY <1>5, WorkerNumbers DEF Spawn
  <2> QED BY <1>1, <1>5, <2>1 DEF Spawn, flags
<1>6. CASE AwaitAllocation
  BY <1>1, <1>6 DEF AwaitAllocation, threads, flags
<1>7. CASE AllocateSignal
  BY <1>1, <1>7 DEF AllocateSignal, flags
<1>8. CASE SendStop
  BY <1>1, <1>8 DEF SendStop, threads, flags
<1>9. CASE StopSignals
  BY <1>1, <1>9 DEF StopSignals, threads, flags
<1>10. CASE Join \/ DestroyThread
  <2>1. next \in Workers /\ next \in Int /\ next + 1 \in -1 .. NumWorkers
                        /\ next - 1 \in -1 .. NumWorkers
    BY <1>10, WorkerNumbers DEF Join, DestroyThread
  <2>2. \A v \in Workers : worker[v] \in Passed
    BY <1>10, <2>1 DEF Join, DestroyThread
  <2> QED BY <1>1, <1>10, <2>1, <2>2 DEF Join, DestroyThread, flags
<1>11. CASE ResetCount \/ ResetSignal \/ ResetActive
  BY <1>1, <1>11 DEF ResetCount, ResetSignal, ResetActive, threads, flags
<1>12. CASE Destroyed
  BY <1>1, <1>12 DEF Destroyed, threads, flags
<1> QED BY <1>2, <1>3, <1>4, <1>5, <1>6, <1>7, <1>8, <1>9, <1>10, <1>11, <1>12
        DEF MainCalls, MainGoesOn

(* A worker's own steps *)
LEMMA MeetingWorker ==
  ASSUME Meeting, NEW w \in Workers, Worker(w)
  PROVE  Meeting'
<1> USE DEF Meeting, Phases, InRound, Working, Passed, Goto, mainVars, flags
<1>1. CASE Build(w)
  BY <1>1 DEF Build
<1>2. CASE WaitStart(w) \/ CompleteTask(w) \/ PushInternal(w) \/ Leave(w)
  BY <1>2 DEF WaitStart, CompleteTask, PushInternal, Leave, threads, flags
<1>3. CASE EnqueueGlobal(w)
  BY <1>3 DEF EnqueueGlobal
<1>4. CASE UnsetReference(w)
  BY <1>4 DEF UnsetReference
<1>5. CASE Free(w)
  BY <1>5 DEF Free
<1> QED BY <1>1, <1>2, <1>3, <1>4, <1>5 DEF Worker

(* Workers pass on tasks only to live workers, without any assumption: also *)
(* if calls of others outlast the round, whatever is left in the count then. *)
THEOREM WorkersFindWorkers ==
  Spec => [](\A w \in Workers : worker[w] = "push" => Usable(target[w]))
<1>1. ASSUME Meeting, [Next]_vars PROVE Meeting'
  <2>1. CASE DeallocateSignal
    BY <1>1, <2>1
       DEF DeallocateSignal, Meeting, Phases, InRound, Working, Passed, mainVars, flags,
           WorkerNumbers
  <2>2. ASSUME NEW w \in Workers,
               Populate(w) \/ LoaderGoesOn(w) \/ Announce(w) \/ PusherGoesOn(w)
        PROVE  Meeting'
    BY <1>1, <2>2
       DEF Populate, LoaderGoesOn, PushUnsafe, CountUnsafe, Announce, PusherGoesOn, PushDuring,
           PushDuringFails, Withdraw, Meeting, Phases, mainVars, threads, flags
  <2>3. CASE UNCHANGED vars
    BY <1>1, <2>3 DEF Meeting, Phases, vars, mainVars, threads, flags
  <2> QED BY <1>1, <2>1, <2>2, <2>3, MeetingMain, MeetingWorker DEF Next
<1>2. ASSUME Meeting, NEW w \in Workers, worker[w] = "push" PROVE Usable(target[w])
  <2>1. main \in InRound
    BY <1>2, WorkerNumbers DEF Meeting, Phases, InRound
  <2> QED BY <1>2, <2>1 DEF Meeting, Phases, InRound, Working, Passed, Usable
<1>3. Meeting => \A w \in Workers : worker[w] = "push" => Usable(target[w])
  BY <1>2
<1> QED BY <1>1, <1>3, MeetingInit, PTL DEF Spec
=============================================================================
