# SpapQueue in TLA+

SpapQueue is a header-only C++ library: a lock-free parallel approximate priority queue. Worker threads,
linked by a network that is fixed at compile time, each keep a local priority queue and hand tasks to each
other in batches over single-producer single-consumer ring buffers. This directory holds TLA+ models of it,
the TLC runs that check them on small instances, and proofs, checked by TLAPS, for all instances.

## 1. Inventory

| Component | Source (`src/include/...`) | State | Operations |
|---|---|---|---|
| Queue object | `ParallelPriotityQueue/SpapQueue.hpp` | `globalCount_`, `startSignal_`, stop tokens of the threads, `queueActive_`, two barriers, `workerResources_`, `workers_` | `initQueue`, `pushBeforeProcessing`, `processQueue`, `pushDuringProcessing`, `requestStop`, `waitProcessFinish`, `pushInternal`, `threadWork`, destructor |
| Worker | `ParallelPriotityQueue/SpapQueueWorker.hpp` | `queue_`, `localCount_`, `outBuffer_` with `bufferPointer_`, `channelIndices_` with `channelPointer_`, `inPorts_` | `run`, `enqueueGlobal`, `pushOutBuffer`, `pushOutBufferSelf`, `enqueueInChannels`, `incrGlobalCount`, `decrGlobalCount`, `push`, `pushUnsafe` |
| Channel | `RingBuffer/RingBuffer.hpp` | `data_`, `headCounter_`, `tailCounter_`, a cached copy of each | `push` (one element, a batch), `pop` (two forms), `empty`, `full`, `occupancy` |
| Network | `ParallelPriotityQueue/QNetwork.hpp` | constants | constructors (defaults, `assignTargetPorts`, `changeToSelfPushLabels`), `isValidQNetwork`, `isStronglyConnected`, `source`, `target`, homogeneity tests |
| Channel tables | `Discrepancy/TableGenerator.hpp`, `QNetworkTables.hpp` | none | `earliestDeadlineFirstTable`, `findEarliestdeadline`, `qNetworkTableFrequencies`, `qNetworkTable` |
| Predefined networks | `GraphExamples/*.hpp` | none | `FULLY_CONNECTED_GRAPH`, `LINE_GRAPH`, `PETERSEN_GRAPH` |
| Example workers | `WorkerExamples/*.hpp` | answer counters; atomic distances | `processElement` |
| Concept, configuration | `Concepts/BasicQueue.hpp`, `Configuration/config.hpp` | none | none |

How they interact. A worker calls `processElement` of the user's class, which calls `enqueueGlobal` back; a
full batch goes through `pushInternal` into an `inPorts_` ring buffer of another worker, or directly into the
own queue if the table points at a self-push channel. The receiver polls its ports. The workers share
`globalCount_` (atomic additions), and read their stop token. Outside threads put tasks into the local queues
before the start signal and into the ring buffers of self-push channels afterwards.

What is hard about it:

* **Termination detection.** No thread knows how many tasks there are. `globalCount_` and the workers'
  `localCount_` hold the number between them and move it around in lumps; a worker leaves for good when it
  reads zero. A zero that is read too early loses tasks, one that never comes hangs the queue.
* **Pushing from outside** while the queue may be finishing at the same moment.
* **Bounded buffers** between workers that must not wait for each other.
* **Lock-free publication** in the ring buffer, with stale cached counters and counters that wrap around.
* **Stopping**, before the start or in the middle, and reusing the object afterwards.

What makes the components correct: for the accounting, that the counters are exact and that zero means empty,
now and for ever; for the workers, that nobody leaves while there is work, that everybody leaves when there is
none or when told to, that the outgoing buffer never overflows; for the channel, that it is a bounded FIFO
without data races; for the network, that each ring buffer has one producer and one consumer; for the tables,
that each channel is served in proportion to its weight; for the life cycle, that workers outlive whoever
uses them and a reused object starts clean.

## 2. Modules

| Module | Contents |
|---|---|
| `SpapQueue` | the accounting protocol: every thread of a run, one action per access to shared memory |
| `TaskPool` | what users are promised: a pool of tasks that members leave only when it is empty or they are told to |
| `SpapQueueProofs` | the inductive invariant of `SpapQueue` and eight theorems |
| `TaskPoolProofs` | that `SpapQueue` implements `TaskPool` |
| `MCSpapQueue` | a network with two choices of batch sizes, for TLC |
| `QueueContract` | what the queue relies on and the network and the tables provide |
| `RingBuffer` | the channel, one action per access to a shared counter or slot |
| `SpscChannel` | what the channel is: a bounded queue that is filled in batches |
| `RingBufferProofs` | its inductive invariant, absence of data races, and that it implements `SpscChannel` |
| `MCRingBuffer` | sets of batch lengths for TLC |
| `SpapQueueLifecycle` | the object's life: threads, barriers, start, stop, reuse, destruction, and who uses the workers meanwhile |
| `SpapQueueLifecycleProofs` | its inductive invariant and the safety theorems |
| `QNetwork` | the network: constructors, validity, connectivity, the ends of a channel |
| `LineGraph` | the line graph of every network that `QNetwork` constructs |
| `GraphExamples` | `PETERSEN_GRAPH` and `FULLY_CONNECTED_GRAPH` as inputs of the constructor |
| `QNetworkProofs` | the invariant of `QNetwork` and its theorems, for every graph; what the queue relies on; line graphs; the predefined networks |
| `EarliestDeadlineFirst` | the generator of balanced tables with its binary search |
| `ChannelTable` | the frequencies a worker's channels get in that table |
| `EarliestDeadlineFirstProofs` | the generator's invariant and its theorems, for all frequencies; the tables of `ChannelTable`, for all weights |
| `SSSPWorker` | the shortest-path example on the pool that the queue is |
| `SSSPWorkerProofs` | that it loses no improvement, ends with the breadth-first distances, and uses the queue as a pool, for every graph |
| `Sums`, `SumTheorems` | sums over an initial segment of the naturals as a recursive function, and what the proofs need about them |

How they fit together. `SpapQueue` relies on `NetworkAssumption` and `TablesAssumption`. Both are stated with the operators of `QueueContract`, and
so are the theorems that provide them: `NetworkFits` says of every network that `QNetwork` constructs and that is valid that it is one (`IsNetwork`) and
that its ports are complete (`ArePorts`); `TableInRow` says of every table of `ChannelTable` that it stays in its worker's row, and
`TablesFit` that such tables are `AreTables`. The bounded containers between
workers are what `RingBuffer` implements (`SpscChannel`). In turn `SpapQueue` shows that the queue is a `TaskPool`, which is what
`SSSPWorker` computes on, and its workers use it as one (`CallsPool`); and that the count is zero exactly when there is no task (`ZeroIffEmpty`), which is why
`SpapQueueLifecycle` may use an exact count in place of the split one. `LineGraph` takes the networks that
`QNetwork` has constructed as its input.

### `SpapQueue`

One worker is at one of the labels of `pc`, in the order of `threadWork` and `run`:

| label | the worker is about to |
|---|---|
| `waitStart` | wait for `startSignal_` (`WaitStart`) |
| `loadCount`, `loadStop` | evaluate the condition of the outer loop (`LoadCount`, `LoadStop`) |
| `inner` | evaluate the condition of the inner loop and the periodic stop check (`EnterRound`, `LeaveInner`) |
| `drainInner`, `drainOuter` | pop from the current port in `enqueueInChannels`, called in the loop or after it (`PopTask`, `PopNothing`) |
| `take` | take the top of the queue and call `processElement` (`Take`) |
| `process` | call `enqueueGlobal` (`EnqueueGlobal`) or return and call `decrGlobalCount` (`CompleteTask`) |
| `pushing` | evaluate the loop of `enqueueGlobal` (`PushBatchSelf`, `PushBatch`, `PushBatchFails`, `EndEnqueue`) |
| `flush` | flush the outgoing buffer after the inner loop (`FlushOutBuffer`) |
| `done` | wait at `safeToDeallocateSignal_` |

Containers are numbers: how many tasks are in the local queue, in the outgoing buffer, in each ring buffer. What
`processElement` does is any number of `enqueueGlobal` calls up to `MaxChildren`. `cntr` is kept modulo
the product of the two periods it is compared with; the wrap of a 64-bit loop counter is not modelled. The
outside threads are one `loader` per worker (`pushBeforeProcessing`, documented as at most one thread for each
worker), one `pusher` per self-push channel (`pushDuringProcessing`, likewise) and the main thread
(`processQueue`, `requestStop`). The class documents an order of calls, in which `processQueue` comes after every
`pushBeforeProcessing`, and a stop "at any point"; so the main thread starts the queue when no such call is in progress, and stops
it between any two steps of anybody, calls that populate the queue included.

`requestStop` sets the tokens one after the other and then calls `processQueue`; `ProcessQueue` is enabled at
that point by `stopsSent = NumWorkers`, and before any stop by `stopsSent = 0`. The workers that this wakes up while others still populate the queue
have acquired a start signal that was given after all stops, so they see the stop (`StopIsSeen`) and leave before they touch their queues. From then on a
populating thread may push to a worker that has gone, which is not this module's subject (`PushUnsafe` is guarded by `~startSignal`) but that of
`SpapQueueLifecycle`; a call that has put its task in still counts it here.

Two local variables are set to a fixed value when the code no longer reads them (`attempts` at the end of
`enqueueGlobal`, `prevCount` after the exchange), so that states that differ in nothing else are one.

*Memory order.* The updates of `globalCount_` are relaxed read-modify-writes, which always act on the latest
value, so each is one atomic action. Plain loads (the outer loop, the first load and a failed exchange in
`pushDuringProcessing`, the stop token, the counters of the ring buffer) may return an overwritten value. With
`StaleViews` the model lets each of them do that: a worker may see a positive count or no stop request, a pop
may find nothing, a push may find no room. A load does not return *zero* when the count is positive: the
only zero in the modification order before the final one is the initial value, and the first increments happen
before the start signal that the reader has acquired. A worker's own tasks and its `localCount_` are not
shared. The effects that a batch is visible when its publication is, and that a slot is free when its release
is visible, are the ring buffer's subject.

### `RingBuffer`

The producer is `idle`, about to `reload` the tail, or about to `write`; the consumer `idle`, about to `reload`
the head, to `read` or to `advance`. A batch is copied with `std::execution::unseq`, so its elements are
written in any order, one per action, by `Slot` into the end of `data_` and, for the rest, its beginning. All
counter arithmetic is modulo `Modulus`. `Wide` chooses the branch of the `constexpr if` in the batch `push`: the wide
one compares counters by magnitude and relies on them never wrapping, so in that branch `Modulus` is just a bound
on the number of pushes. With `OldViews`, an acquire load returns any value of the counter between the newest
the thread has seen and the current one.

### `SpapQueueLifecycle`

`main` is where the main thread is in `initQueue` (`spawn`, `allocate`), `requestStop` (`stop`), `waitProcessFinish`
(`join`, `resetSignal`, `resetActive`) and the destructor (`stop` and `destroy`), and `worker[w]` where a thread is in
`threadWork`. A barrier is one step of all that meet there (`AllocateSignal`, `DeallocateSignal`). `reference[w]` is
whether `workerResources_[w]` points anywhere; the resource itself, on the worker's stack, is alive between `build` and `free`.
A worker in `run` takes tasks and passes them on through another worker's reference; outside threads announce
a task and push it through theirs. One thread calls `initQueue`, `processQueue`, `requestStop`, `waitProcessFinish` and
the destructor, and it calls `waitProcessFinish` only on a queue that was started: on one that was not the call waits for a start
that only its caller could give, and on an idle one it changes nothing.

Calls of others take several steps: `pushBeforeProcessing` begins (`Populate`), goes through the reference (`PushUnsafe`) and counts
its task (`CountUnsafe`); `pushDuringProcessing` announces its task (`Announce`), goes through the reference (`PushDuring`) or finds the channel full,
and then takes the announcement back (`Withdraw`). They know nothing of a stop: `RequestStop` may come between any two of these steps, and a call may
begin while a stop is being sent or after it. `started` is whether the user has called `processQueue` in this round, the documented border between the
two kinds of pushes. A push to a worker that has gone is undefined behaviour; the model lets it lose the task and go on, so that the
properties say when it can happen. A `globalCount` below zero stands for one that has wrapped around.

`CallsOutlastWait` is whether the main thread, after a stop, calls `waitProcessFinish` without waiting for such calls to return. The class documents
nothing about it. The runs let it wait (`FALSE`); section 5 says what happens otherwise.

### `QNetwork`

One step is an iteration of a loop, `pc` names the function: `ports` (`assignTargetPorts`), `labels`
(`changeToSelfPushLabels`), `search` (`hasPathToAllWorkers`, called by `isStronglyConnected` for one worker after
the other). `ConstructFully`, `ConstructWithWeights` and `ConstructPlainly` are the five constructors; logical
cores, in which they differ besides, play no part. The values of `Init` for what a constructor sets are placeholders.
`targetPort` has as its domain the channels that have been given a port, so that a port that is read
before it is written cannot be mistaken for a number. Inputs are rows in order (`IsRows`) and targets up to
`numWorkers_`: with others, `assignTargetPorts` reads outside its arrays, which a compiler rejects in a constant expression.

### `EarliestDeadlineFirst` and `ChannelTable`

One step is an iteration of the loop over entries (`NextEntry`), of the loop over symbols (`Skip`,
`BeginSearch`, `EndSearch`) or of the binary search (`Halve`). The products stay below the width of
`std::size_t` by the `static_assert` of line 94, so numbers are integers. `table` is a function on the entries that have been
written; `Return` is the end. `ChannelTable` narrows the initial states: the frequencies are
those `qNetworkTableFrequencies` computes from multiplicities and batch sizes, and that they are fit for the generator is the property `Spec`. The offset that `qNetworkTable` adds to the
entries, the number of the worker's first channel, is left out: symbol 0 is that channel.

### `SSSPWorker`

One action per access to a shared distance: the test in `processElement` (`Drop`, `Take`), the first load of
`updateDistance` (`Load`), the exchange (`Exchange`, `ExchangeFails`) and what follows it (`Enqueue`). The task goes
into `pool`, the abstraction of the queue: any worker may take any task next. `pool` is a set; that nothing is lost in it
because the same task is enqueued twice is the action property `CallsPool`, by which each call changes the number of live
tasks as `TaskPool` says. Relaxed loads return the present distance or a
larger one (`Loaded`): distances only decrease, so a value that has been overwritten is larger. A compare-exchange
that fails without cause leaves everything as it was: it is a stuttering step. `FibonacciWorker` has no module: it keeps no
state that others see and enqueues at most two tasks for each, which is one of the choices `SpapQueue` leaves to a worker.

### `LineGraph` and `GraphExamples`

`lineGraph` fills arrays in a triple loop; `LineGraph` gives each array by its elements (`LinePointer`, `LineTarget`,
`LineMultiplicity`, `LineBatchSize`, `LineCores`) over a finished network. It has no steps of its own: the result goes to
the constructor that `QNetwork` models for all graphs. The properties are about networks in state
`done`. `GraphExamples` starts the constructor of `QNetwork` with the arrays written out in the headers.

## 3. Runs

| Run | Instance | Shows |
|---|---|---|
| `spapq_two` | 2 workers, 3 channels (one self-push, batches 2, 1, 2), 4 tasks, up to 3 children each, a stop at any time, stale loads | types, exact account, cover, room in the buffer, zero iff empty, never revived; refinement of `TaskPool` |
| `spapq_live` | the same network with batches 1, 2, 1, one attempt to push, 4 tasks, up to 3 children each, fair; after a stop request endless work | a started queue is completed; a stop is obeyed |
| `ring_narrow` | capacity 2, counters modulo 8, batches of 1 and 2, old values | order of the counters, promises of `full`/`empty` kept, no refusal without cause, refinement of `SpscChannel` |
| `ring_wide` | capacity 3, 6 pushed elements, batches of 2 to 4, old values | no data race, refinement of `SpscChannel`, in the wide branch |
| `ring_oversized` | capacity 2, modulo 8, batch of 3 | *violation*: the narrow branch accepts an oversized batch |
| `network` | all graphs of 3 workers and 4 channels, all constructors, parameters 0 and 2, fair | ports, targets, validity and strong connectivity against their definitions; a valid network is what `SpapQueue` assumes; the search ends; the line graph is one, and can be used if the network can |
| `channel_table` | 4 channels, multiplicities 1 to 3, batch sizes 1 and 2 | the frequencies are fit for the generator (`Spec`); every entry assigned, no deadline missed, none too early, the search correct; the work is shared as the multiplicities say |
| `lifecycle` | 3 workers, 3 populating and 2 outside threads, 2 rounds, 3 tasks, a stop at any point of any call, fair | workers pass tasks only to live workers, others find theirs until the stop has been sent to all; nobody processes tasks while others populate; a reused object is as new; resources are freed empty unless stopped; every call returns |
| `lifecycle_late_push` | 2 workers, 1 outside thread, 1 round | *violation*: after a stop `pushDuringProcessing` goes through the reference of a worker that has gone |
| `lifecycle_stop_populating` | 2 workers, no outside threads, 1 round | *violation*: so does a `pushBeforeProcessing` that a stop has overtaken |
| `petersen` | `PETERSEN_GRAPH` | *violation*: the network is not the Petersen graph |
| `sssp` | 2 workers, all graphs of 4 vertices and 4 edges, old distances, fair | no improvement lost; the queue finishes; the distances are the shortest; no task is enqueued twice |

Why these bounds are enough to be interesting. The network of `spapq_two` is one of the tests' own
(`tests/SpapQueue.cpp`, vertex pointers `{0, 1, 3}`, edges `{1, 0, 1}`): it has different numbers of ports, a
self-push channel that its worker and an outside thread both use, and a worker with two channels of different
batch sizes, so that batches are left over and the table pointer matters. Buffers hold two tasks, the least that is
valid for a batch of two, so pushes fail; at most two attempts are made, so workers give up and keep their tasks.
Four tasks with three children let a local queue grow until the lumps that move between the counters are larger than one.
`StopCheckPeriod` (128 in the code) is 2 in both runs and `EnqueueFrequency` 2 in `spapq_two` (1 in `spapq_live`), so that both the round that checks and
the round that does not occur.

What `spapq_live` meets. Worker 0 sends single tasks over a channel with room for two, so with a task in hand its third
child finds the channel full; worker 1 sends batches of two, so it is left with tasks that make up no batch; the outside thread alone
pushes into the self-push channel's buffer (the worker's own batches go straight to its queue), and finds it full after two pushes. After a stop each completed task makes room for another, so a worker can stay in
the inner loop for ever, and one may find a channel full whose receiver has left. That these cases occur was seen by changing the model: the
run fails if `enqueueGlobal` waits for room, if a failed announcement is not taken back, if what is left over is not flushed, and if
the inner loop does not look at the stop token.

The narrow ring buffer wraps its counters
around without end; a modulus of four times the capacity lets a wrong difference be seen. The wide one has room for three
elements, so batches of two straddle its end, and batches of four never fit.

Four channels among three workers admit empty rows, parallel channels, channels to oneself in both ways of
writing, and workers that are reached only in a second pass. With four symbols several deadlines
coincide while other symbols are ahead of their share, and the frequencies, up to 6, give tables of up to 24 entries.
Two rounds of the life cycle are what reuse needs, and with three workers one may be late at a barrier while another has gone past
and a third is being joined. Four vertices are the least for which a vertex is reached first on a long way and then on
a short one while it is in a worker's hands.

`Multiplicities`, `BatchSizes` and `Parameters` (in `QNetwork`), `MaxFrequency` (in `EarliestDeadlineFirst`; the largest frequency
that `ChannelTable` can compute), `MaxMultiplicity` and `MaxBatch` (in `ChannelTable`) are the inputs that are tried.
`MaxTasks`, `MaxChildren` (in `SpapQueue`), `MaxTasks`, `MaxRounds` (in `SpapQueueLifecycle`), `NumVertices`, `NumEdges` (in
`SSSPWorker`), `Batches` and, for wide counters, `Modulus` (in `RingBuffer`) are the bounds; everything else
is the code's own parameter. With `Recycling`, after a stop request a completed task allows a new one, so that the work does not
end by itself.

### Fairness

`Fairness` in `SpapQueue` is weak fairness of each worker as a whole and of each call an outside thread or the
main thread has begun: each worker is a thread pinned to a core of its own (`threadWork`), no step waits
for another except the one for the start signal, and a thread that is scheduled takes its next step. Nobody is
forced to start or stop the queue or to push. `Worker(w)` always has at most one label enabled, and where a label
has alternatives (a load that may be stale), the liveness run takes loads to return current values: an acquire
load returns the current value eventually, which is what `StaleViews = FALSE` says in the simplest way. `Termination`
holds although an exchange of an outside thread may fail again and again: the workers do not wait for a pusher
that has not announced its task. Work is finite (`MaxTasks`) until a stop is requested: with outside threads that push
for ever, `enqueueInChannels` need not end.

In `SpapQueueLifecycle` every thread goes on with what it has begun: the steps of a call of the main thread
(`MainGoesOn`, not `MainCalls`: nobody has to call anything), the barrier once all have arrived, each worker, the populating threads that
have begun a call (`LoaderGoesOn`), and the outside threads that have announced a task (`PusherGoesOn`). `CallsReturn` holds of the calls as they are used, in particular of `waitProcessFinish` on a queue
that was started. `FairSpec` in `QNetwork` says that the evaluation of a constant expression takes its next step, and the one in
`SSSPWorker` that workers are scheduled; `Finishes` needs no more because a loop that exchanges fails only when
another worker has made progress.

## 4. Proofs

Eight modules hold theorems. Each states an inductive invariant `IInv`, one lemma per action that the action keeps it, and
derives the theorems from `Spec => []IInv`.

### `SpapQueueProofs` and `TaskPoolProofs`

For every network that is valid in the sense of the assumptions, every buffer length, table, number of attempts, and
number of tasks, stale loads and stops included, every reachable state satisfies

    IInv == TypeOK /\ BeforeStart /\ LocalCountCovered /\ RoundHasTask /\ OutBufferRoom /\ Account

* `Account` is the conservation law: the global counter equals the sum, over workers, of what they hold
  (queue, outgoing buffer, task in hand) minus what they count locally, plus the sum over channels of what these
  hold, including announced pushes. A thread that populates the queue has put its task there before it is
  counted, hence `Uncounted`.
* `LocalCountCovered`: a worker counts locally less than its queue holds, unless both are zero; when
  it has a task in hand it may count as much as its queue holds. This is what the halving in
  `incrGlobalCount` and `decrGlobalCount` is for, and with the account it makes every summand non-negative, and
  positive for a worker that has anything. Hence zero means empty while nobody is between putting a task in and counting it (`ZeroCorrect`), and the subtraction of a lump
  never wraps (`TypeCorrect`).
* `OutBufferRoom` needs that the loop of `enqueueGlobal` ends with less than a batch of the *next* channel or
  with an empty buffer; `RoundHasTask` carries the non-empty queue across the drain; `BeforeStart` says that
  nothing is counted locally while tasks are still being put in: either the start signal has not been given, or it was given by a stop
  that has been sent to all workers, and they have not gone past their first look at the stop token.

`NeverRevivedCorrect` and `NobodyLeavesWorkCorrect` use `IInv` and that a pusher at its exchange has read a positive
count (`CasSawWork`). `PoolCorrect` is the refinement: a lemma says for each action how many tasks live after it
(`LiveStep`: the sums over workers and channels change by what the action moves), and with that each step of the
queue is one of the pool or changes nothing in it. A worker that leaves on a zero leaves an empty pool by `EmptyWhenZero`;
an outside thread whose exchange succeeds adds to a pool that is not empty by `LiveWhenCounted`.

### `RingBufferProofs`

For every capacity, width of the counters, choice of what loads return and sequence of batches. `CountersOrdered` says where the four
counters and the two views are on the circle of `Modulus` numbers; `Producing`, `Consuming` say what the two
sides have established, `InPlace` that what is written stays until it is published and what is read until it is given back. `RaceFree`,
`OccupancyCorrect` (`occupancy()` never wraps below zero for either of its callers, a property no run checks), `PromisesKept`,
`RefusalCorrect` and the refinement `Refinement` follow: `Contents`, the sequence between tail and head, grows by the batch in one step and
loses its first element in one. The theorems about narrow counters assume `BatchesFit`, that no batch is longer
than the buffer; run `ring_oversized` shows that they need it, and `OversizedCorrect` that wide counters do not.

### `SpapQueueLifecycleProofs`

For any number of workers, tasks and rounds. The invariant says where the workers are in each phase of the main thread (`Rounds`: all before
the second barrier or all behind it), what the flags say (`Signals`: a start signal that the user has not given was given by a stop sent to all,
and then nobody processes tasks), when others use the object (`Users`), and that whoever uses a
resource is counted (`Counted`, an inequality, because a stop may lose tasks that stay in the count), so that a worker leaves only when nobody is, or when it was asked to.

The theorems assume `~ CallsOutlastWait`: the main thread that has asked for a stop waits for the calls of others before `waitProcessFinish`. They
assume nothing about when a stop comes or which calls it overtakes. `ResourcesAlive` says that a worker that passes on a task
finds its target alive in every case; that others find theirs until a stop has been sent to *all* workers, a border that cannot be moved, as `lifecycle_late_push` and
`lifecycle_stop_populating` show; and that a thread that populates a worker never meets one that processes tasks.
`WorkersFindWorkers` is the first of these without any assumption: with calls that outlast the round the count may be wrong, and the
two barriers still keep every worker's resource until no other worker can use it.

### `QNetworkProofs`

The invariant says of each loop what it has done for the channels before `edge` and the
workers before `worker`. During the search every worker in `reachable` is really reachable, and every worker
before `visit` that has been reached has all its targets reached unless a pass has to follow; when nothing has
changed the set is closed, so nothing reachable is missing. Reachability is defined without recursion, as membership in
all closed sets. `ValidityCorrect` adds that the numbers a constructor fills in are usable (`DoublingExists`: the
recursive function of the default frequency exists, by least counterexample).

`NetworkFits` needs that the ports of a worker are exactly `0` to `numPorts - 1`, which validity and `PortsCorrect` give together, so that the list of the channels
it polls (`PortChannels`) has no gaps.

The line graph: `LinePointer` is a sum over the channels of the numbers of channels that follow, `LineNumEdges` one over workers of ports times
outgoing channels. `PortsCounted` says that at every moment of `assignTargetPorts` the product, summed over all workers, is what the channels that
have a port contribute; `Counted` compares both when the loop has ended (`LineCorrect`). The
rows are disjoint intervals (`SumsAscend`), hence `LineIsNetwork`: the result is an input of `QNetwork` again. `LineUsable` follows a set closed in the line graph
back to the network: the workers at the ends of its channels are a closed set there.

The predefined networks are initial states of `QNetwork` (`ExamplesAreNetworks`), so the theorems hold of them. `FullyConnectedCorrect` is about
quotients and remainders, and with `ValidityCorrect` and `ConnectedIsCorrect` makes the networks valid and connected, for every number of workers (`FullyConnectedUsable`). `PetersenUsable` does it
for `PETERSEN_GRAPH` by a round trip to its ten workers.

### `EarliestDeadlineFirstProofs`

The heart is `InTime`. For every future time `d`, the occurrences that are due by
`d` and not yet placed fit into the entries from `i` to `d - 1`. An entry that goes to a symbol due by `d` uses
up one of them. If the entry goes to a symbol that is due later, no eligible symbol is due by `d`, and each
of the others is ahead of its share, so together they ask for strictly less than the entries that remain, hence for
at least one less. The sums are compared by `SumWeighted`. That some symbol is always eligible follows the
same way: if all were ahead, more than `i` entries would have been settled. `Scanned` and `Narrowing` carry the earliest
deadline through the loop and the binary search.

The tables of `ChannelTable` are behaviours of the generator from particular frequencies. That the least common multiple of the batch sizes is a multiple of each of
them, and the common divisor divides what it is to reduce, are facts about folds over a set: `FoldExists` and `SmallestSet` (in `SumTheorems`) take a smallest set on which the fold has no
value, or a value without the divisibility. Then frequency times batch size is the same multiple of the multiplicity for every channel,
and a complete table gives each channel its frequency (`WorkIsShared`). `GeneratorCalledCorrectly` needs the hypothesis that the frequencies are at
most `MaxFrequency` because `Init` of the generator has that bound; nothing else uses it.

### `SSSPWorkerProofs`

For every graph and number of workers: `NoImprovementLost` with `TasksValid` (a task never promises less than its vertex has), `EdgesInHand` and
`FromEdges` (every distance comes from an edge). When the queue has finished, no edge improves on the distances and each comes
from an edge (`FixpointCorrect`). That such distances are those of a breadth-first search (`AnswerIsCorrect`) is an induction over levels, made as a least
counterexample; that the levels of the definition are enough is a pigeonhole: the distances below a finite one are all taken by some vertex.

`PoolUsed` needs `AnnouncedOnce`: a task that is about to be enqueued is in nobody else's hands for that, and not in the pool. It holds because
the exchange that announces a task strictly decreases the distance of its vertex, and every older task for that vertex carries a larger distance.

### What the proofs rest on

The assumptions (`NetworkAssumption`, `TablesAssumption`, `ParameterAssumption`, `CapacityAssumption` and their like) are what `isValidQNetwork`, the
`static_assert`s and the way the workers' tables are built guarantee; TLC evaluates them in every run. `NetworkAssumption` and `TablesAssumption` are themselves
theorems about what `QNetwork` and `ChannelTable` construct (above). The others (`BoundsAssumption`, `ChannelAssumption`, `SizeAssumption`, `SSSPAssumption`, `LifecycleAssumption`) say that sizes and bounds are natural numbers, that there is at
least one channel, worker or vertex, that a distance type can count the vertices, and that there are finitely many workers. Where a
proof needs induction over numbers it takes a least counterexample (`LeastNat` in `SumTheorems`), which follows from
the library's well-foundedness of strict inclusion on finite sets.

Every invariant and every action property that a run checks is also a theorem, and so are the refinements. Only model-checked: the liveness properties (`Termination`, `StopTerminates`, `CallsReturn`, `Terminates`, `Finishes`),
which are out of the prover's reach, and the properties of the four runs that expect a violation, which are false.

The types of `QNetwork`, `SSSPWorker` (`TypeCorrect` in their proof modules) and the generator (`TypesCorrect`) are proved only, not run: the properties that are checked
there fail as soon as a type does.

## 5. Disagreements found

* `ring_oversized`: `RingBuffer::push(first, last)` has two tests for room. On a platform whose
  `std::size_t` is narrower than 8 bytes the test is `head - cachedTail <= N - numElements`, and for
  `numElements > N` the right side wraps around, so the push is accepted. `tests/RingBuffer.cpp:127`
  expects such a push to fail. A 64-bit build compiles the other branch, which refuses (proved), and SpapQueue
  never pushes a batch longer than a buffer (`isValidQNetwork`), so this concerns users of `RingBuffer` alone on narrow platforms.
* `lifecycle_late_push`: `SpapQueue.hpp:401` documents that `pushDuringProcessing` returns false when "the queue has already finished". It
  decides by `globalCount_ > 0`, which stays true after a stop with tasks left, and then goes through
  the reference of a worker that may have gone, until `waitProcessFinish` clears the count.
* `lifecycle_stop_populating`: `SpapQueue.hpp:53` documents that the queue "may be interrupted at any point", and `SpapQueue.hpp:57` that
  others may be populating it. `requestStop` wakes up workers that were not started (line 350); they leave at once and free their
  resources, while a thread in `pushBeforeProcessing`, which looks neither at `queueActive_` nor at the stop, goes through the reference (line 387).
* `petersen`: `PETERSEN_GRAPH` joins its inner workers in the order of the outer ones, so it is the prism over a
  pentagon and not the Petersen graph. It is valid and strongly connected (`PetersenUsable`), so the queue works on it.

Two more were seen in the code and have no run of their own:

* With `CallsOutlastWait = TRUE` in the configuration of `lifecycle`, TLC violates `TypeOK` and `ReusedIsNew`. A `pushDuringProcessing` that has announced its task and is
  delayed before the `fetch_sub` of `SpapQueue.hpp:429`, while the main thread calls `requestStop` and `waitProcessFinish`, is not waited for: line 167 stores zero,
  and the subtraction wraps `globalCount_` around, so the next round starts with a positive count. Whoever stops a queue has to
  wait for the calls of others before `waitProcessFinish`.
* `SpapQueue.hpp:175` documents `workerArgs` as "Arguments to be forwarded to the workers". The fold expression of lines 189-191
  forwards each of them once per worker, so an rvalue is moved into the first worker's thread and the others get what is left. Arguments in
  `std::ref` or `std::cref`, as in the tests, arrive.

## 6. Not modelled, and why

* `BasicQueue.hpp`, `config.hpp`: no behaviour. `printQNetwork`, debug output, thread pinning: output and
  platform calls; a failed pinning ends the process.
* Which task a local queue returns: the library promises only an approximate order, and no property depends on it.
* Which element of `outBuffer_` goes with which batch: the containers of `SpapQueue` are numbers. That the places
  suffice (`OutBufferRoom`) and that no task is counted twice or not at all (`Account`) is as far as they see.
* The homogeneity tests of a network, which compare all entries with the first to choose between two representations
  of the same array, and the size of the largest table.
* Overflow of the common multiple of batch sizes in `qNetworkTableFrequencies`, and of its product with a multiplicity. Ordinary batches are enough for it:
  ten coprime batch sizes of about 100 have a common multiple of more than 64 bits. `ChannelTable` computes with integers, so its results hold where nothing
  overflows; the `static_assert` of `TableGenerator.hpp:94` sees only the frequencies, after they have been computed.
* The wrap of a 64-bit loop counter.
* The arguments that `initQueue` forwards to the workers.
* A constructor of `std::jthread` that throws in the middle of `initQueue`: the library defines no way to go on.
* `initQueue`, `waitProcessFinish` and the destructor called by several threads at once, and `requestStop` concurrently with
  `waitProcessFinish`: the class documents neither as allowed.
* `occupancy()` called by a third thread: its two loads may be ordered so that the difference wraps around. The library does not call it; the tests
  call it from the producer's and the consumer's thread (`tests/RingBuffer.cpp:190-300`), and for both the difference is what the theorem `OccupancyCorrect` says.
* Empty batches, which the library never pushes.
* `FULLY_CONNECTED_GRAPH` has no run of its own: its arrays are proved to be a graph in the sense of `QNetwork`, so the
  theorems about all graphs hold of it, and fully connected; the network is proved valid and strongly connected.
* Tests, benchmarks, build and documentation files: not part of the library.

## 7. Plan

The modules were written in the order of the plan: accounting, channel, network, tables, life cycle, examples, and their
proofs along the way. What would come next, and why it has waited:

1. The identity of tasks through `enqueueGlobal`, as a refinement of the counting in `SpapQueue`. The order of elements in
   `outBuffer_` matters for no property that is stated here except that none is lost, which counting covers.
2. The ring buffers of `SpapQueue` as `SpscChannel`s, step by step: the number in `channelTasks` as the length of a channel, with the producer
   that `OneProducerPerPort` finds for it and, for a self-push channel, the outside thread and the worker itself.
