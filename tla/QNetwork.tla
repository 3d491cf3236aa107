------------------------------- MODULE QNetwork -------------------------------
(***************************************************************************)
(* The network of workers and channels, as its constructor completes it    *)
(* and its tests judge it (ParallelPriotityQueue/QNetwork.hpp).            *)
(*                                                                         *)
(* A network is given as a graph in compressed rows: the channels that     *)
(* leave worker w are vertexPointer[w] .. vertexPointer[w+1] - 1.  The     *)
(* constructor fills in parameters, numbers the ports at which each worker *)
(* receives, and relabels channels from a worker to itself.  Everything    *)
(* the queue assumes of its channels is settled here: each port is a       *)
(* buffer for a single producer.                                           *)
(*                                                                         *)
(* A step is an iteration of one of the loops.  After construction the     *)
(* model evaluates isStronglyConnected.                                    *)
(***************************************************************************)
EXTENDS Integers, FiniteSets, QueueContract

CONSTANTS
  NumWorkers,      \* numWorkers_; as an edge target, a channel to its own worker
  NumChannels,     \* numChannels_
  Multiplicities,  \* bound: multiplicities that may be given
  BatchSizes,      \* bound: batch sizes that may be given
  Parameters       \* bound: frequencies, buffer sizes and attempts that may be given

Workers == 0 .. NumWorkers - 1
Channels == 0 .. NumChannels - 1

ASSUME SizeAssumption ==
  /\ NumWorkers \in Nat \ {0}
  /\ NumChannels \in Nat \ {0}
  /\ Multiplicities \subseteq Nat
  /\ BatchSizes \subseteq Nat
  /\ Parameters \subseteq Nat

VARIABLES
  vertexPointer,      \* vertexPointer_
  given,              \* the edge targets the constructor was called with
  edgeTargets,        \* edgeTargets_
  multiplicities,     \* multiplicities_
  batchSize,          \* batchSize_
  enqueueFrequency,   \* enqueueFrequency_
  channelBufferSize,  \* channelBufferSize_
  maxPushAttempts,    \* maxPushAttempts_
  numPorts,           \* numPorts_
  targetPort,         \* targetPort_ of the channels below edge while ports are assigned
  pc,                 \* which function is running
  worker,             \* the outer loop of each of them
  edge,               \* the inner loop of the first two
  reachable,          \* hasPathToAllWorkers: the workers reached from worker
  hasChanged,         \* hasPathToAllWorkers: a worker has been reached in this pass
  visit,              \* hasPathToAllWorkers: the loop over w
  connected           \* the value of isStronglyConnected, once it has returned

graph == <<vertexPointer, given>>
weights == <<multiplicities, batchSize>>
params == <<enqueueFrequency, channelBufferSize, maxPushAttempts>>
ports == <<numPorts, targetPort>>
search == <<reachable, hasChanged, visit, connected>>
vars == <<graph, edgeTargets, weights, params, ports, pc, worker, edge, search>>

(* Compressed rows: the rows are in order and make up all channels. *)
IsRows(vp) ==
  /\ vp \in [0 .. NumWorkers -> 0 .. NumChannels]
  /\ vp[0] = 0 /\ vp[NumWorkers] = NumChannels
  /\ \A v, w \in 0 .. NumWorkers : v <= w => vp[v] <= vp[w]

(* A network whose graph and weights are given and whose constructor is     *)
(* called                                                                   *)
Begin ==
  /\ edgeTargets = given
  /\ enqueueFrequency = 0 /\ channelBufferSize = 0 /\ maxPushAttempts = 0
  /\ numPorts = [w \in Workers |-> 0]
  /\ targetPort = [c \in {} |-> 0]
  /\ pc = "construct"
  /\ worker = 0 /\ edge = 0
  /\ reachable = {} /\ hasChanged = FALSE /\ visit = 0
  /\ connected = FALSE

Init ==
  /\ vertexPointer \in [0 .. NumWorkers -> 0 .. NumChannels] /\ IsRows(vertexPointer)
  /\ given \in [Channels -> 0 .. NumWorkers]
  /\ multiplicities \in [Channels -> Multiplicities]
  /\ batchSize \in [Channels -> BatchSizes]
  /\ Begin

-----------------------------------------------------------------------------
(* The outgoing channels of w *)
Out(w) == vertexPointer[w] .. vertexPointer[w + 1] - 1

(* Where channel c of worker w leads *)
End(w, c) == IF edgeTargets[c] = NumWorkers THEN w ELSE edgeTargets[c]

(* The first row pointer beyond c, as std::upper_bound finds it, less one. *)
Source(c) ==
  (CHOOSE j \in 0 .. NumWorkers :
     /\ vertexPointer[j] > c
     /\ \A k \in 0 .. j - 1 : vertexPointer[k] <= c) - 1

Target(c) == End(Source(c), c)

Larger(a, b) == IF a >= b THEN a ELSE b

(* The largest value of an array, or 0 *)
Largest(f) == CHOOSE m \in {0} \cup {f[c] : c \in DOMAIN f} : \A c \in DOMAIN f : m >= f[c]

(* Doubled until it is not below the average number of channels of a worker *)
DefaultEnqueueFrequency ==
  LET avgChannelNum == (NumChannels + NumWorkers - 1) \div NumWorkers
      Double[pow2 \in 1 .. 2 * NumChannels] ==
        IF pow2 < avgChannelNum THEN Double[2 * pow2] ELSE pow2
  IN  Larger(16, 2 * Double[1])

DefaultChannelBufferSize(batches, frequency) == Larger(8 * Largest(batches), 4 * frequency)

DefaultMaxPushAttempts == 4

(* What every constructor does next: assignTargetPorts clears the counts. *)
BeginPorts ==
  /\ pc' = "ports"
  /\ numPorts' = [w \in Workers |-> 0]
  /\ targetPort' = [c \in {} |-> 0]
  /\ worker' = 0
  /\ edge' = vertexPointer[0]
  /\ UNCHANGED <<graph, edgeTargets, search>>

ConstructFully ==
  /\ pc = "construct"
  /\ enqueueFrequency' \in Parameters
  /\ channelBufferSize' \in Parameters
  /\ maxPushAttempts' \in Parameters
  /\ BeginPorts
  /\ UNCHANGED weights

ConstructWithWeights ==
  /\ pc = "construct"
  /\ enqueueFrequency' = DefaultEnqueueFrequency
  /\ channelBufferSize' = DefaultChannelBufferSize(batchSize, enqueueFrequency')
  /\ maxPushAttempts' = DefaultMaxPushAttempts
  /\ BeginPorts
  /\ UNCHANGED weights

(* The constructors with fewer arguments use the defaults for the rest. *)
ConstructPlainly ==
  /\ pc = "construct"
  /\ multiplicities' \in {multiplicities, [c \in Channels |-> 1]}
  /\ batchSize' = [c \in Channels |-> 1]
  /\ enqueueFrequency' = DefaultEnqueueFrequency
  /\ channelBufferSize' = DefaultChannelBufferSize(batchSize', enqueueFrequency')
  /\ maxPushAttempts' = DefaultMaxPushAttempts
  /\ BeginPorts

(* A mistake: the worker that sends counts one more port.                      *)
AssignPortOfSource ==
  /\ pc = "ports" /\ worker < NumWorkers /\ edge < vertexPointer[worker + 1]
  /\ targetPort' = [c \in DOMAIN targetPort \cup {edge} |->
                      IF c = edge THEN numPorts[worker] ELSE targetPort[c]]
  /\ numPorts' = [numPorts EXCEPT ![worker] = @ + 1]
  /\ edge' = edge + 1
  /\ UNCHANGED <<graph, edgeTargets, weights, params, pc, worker, search>>

(* assignTargetPorts: the worker at the other end counts one more port. *)
AssignPort ==
  /\ pc = "ports" /\ worker < NumWorkers /\ edge < vertexPointer[worker + 1]
  /\ LET tgt == End(worker, edge)
     IN  /\ targetPort' = [c \in DOMAIN targetPort \cup {edge} |->
                             IF c = edge THEN numPorts[tgt] ELSE targetPort[c]]
         /\ numPorts' = [numPorts EXCEPT ![tgt] = @ + 1]
  /\ edge' = edge + 1
  /\ UNCHANGED <<graph, edgeTargets, weights, params, pc, worker, search>>

(* A mistake: the comparison is with the edge, not with its worker.            *)
ChangeLabelByEdge ==
  /\ pc = "labels" /\ worker < NumWorkers /\ edge < vertexPointer[worker + 1]
  /\ edgeTargets' = IF edgeTargets[edge] = edge
                    THEN [edgeTargets EXCEPT ![edge] = NumWorkers] ELSE edgeTargets
  /\ edge' = edge + 1
  /\ UNCHANGED <<graph, weights, params, ports, pc, worker, search>>

(* changeToSelfPushLabels *)
ChangeLabel ==
  /\ pc = "labels" /\ worker < NumWorkers /\ edge < vertexPointer[worker + 1]
  /\ edgeTargets' = IF edgeTargets[edge] = worker
                    THEN [edgeTargets EXCEPT ![edge] = NumWorkers] ELSE edgeTargets
  /\ edge' = edge + 1
  /\ UNCHANGED <<graph, weights, params, ports, pc, worker, search>>

(* Both loops go on to the next row. *)
NextRow ==
  /\ pc \in {"ports", "labels"} /\ worker < NumWorkers /\ edge >= vertexPointer[worker + 1]
  /\ worker' = worker + 1
  /\ edge' = vertexPointer[worker + 1]
  /\ UNCHANGED <<graph, edgeTargets, weights, params, ports, pc, search>>

BeginLabels ==
  /\ pc = "ports" /\ worker = NumWorkers
  /\ pc' = "labels"
  /\ worker' = 0
  /\ edge' = vertexPointer[0]
  /\ UNCHANGED <<graph, edgeTargets, weights, params, ports, search>>

(* hasPathToAllWorkers(w) starts from the targets of w. *)
BeginSearch(w) ==
  /\ pc' = "search"
  /\ worker' = w
  /\ reachable' = {End(w, c) : c \in Out(w)}
  /\ hasChanged' = FALSE
  /\ visit' = 0
  /\ UNCHANGED <<graph, edgeTargets, weights, params, ports, edge, connected>>

Constructed ==
  /\ pc = "labels" /\ worker = NumWorkers
  /\ BeginSearch(0)

(* A mistake: another pass even if all targets had been reached before.        *)
VisitAgain ==
  /\ pc = "search" /\ visit < NumWorkers
  /\ LET found == IF visit \in reachable THEN {End(visit, c) : c \in Out(visit)} ELSE {}
     IN  /\ reachable' = reachable \cup found
         /\ hasChanged' = (hasChanged \/ found # {})
  /\ visit' = visit + 1
  /\ UNCHANGED <<graph, edgeTargets, weights, params, ports, pc, worker, edge, connected>>

(* A mistake: a single pass over the workers.                                  *)
VisitOnce ==
  /\ pc = "search" /\ visit < NumWorkers
  /\ reachable' = reachable \cup
       (IF visit \in reachable THEN {End(visit, c) : c \in Out(visit)} ELSE {})
  /\ visit' = visit + 1
  /\ UNCHANGED <<graph, edgeTargets, weights, params, ports, pc, worker, edge,
                 hasChanged, connected>>

(* The targets of a worker that has been reached are reached. *)
Visit ==
  /\ pc = "search" /\ visit < NumWorkers
  /\ LET found == IF visit \in reachable THEN {End(visit, c) : c \in Out(visit)} ELSE {}
     IN  /\ reachable' = reachable \cup found
         /\ hasChanged' = (hasChanged \/ ~ found \subseteq reachable)
  /\ visit' = visit + 1
  /\ UNCHANGED <<graph, edgeTargets, weights, params, ports, pc, worker, edge, connected>>

(* Another pass over the workers, because the last one reached a new one. *)
NextPass ==
  /\ pc = "search" /\ visit = NumWorkers /\ hasChanged
  /\ hasChanged' = FALSE
  /\ visit' = 0
  /\ UNCHANGED <<graph, edgeTargets, weights, params, ports, pc, worker, edge,
                 reachable, connected>>

SearchDone == pc = "search" /\ visit = NumWorkers /\ ~ hasChanged

(* isStronglyConnected goes on with the next worker, *)
NextSearch ==
  /\ SearchDone /\ reachable = Workers /\ worker < NumWorkers - 1
  /\ BeginSearch(worker + 1)

(* or returns, at the first worker that does not reach all. *)
ReturnConnected ==
  /\ SearchDone
  /\ reachable # Workers \/ worker = NumWorkers - 1
  /\ connected' = (reachable = Workers)
  /\ pc' = "done"
  /\ UNCHANGED <<graph, edgeTargets, weights, params, ports, worker, edge,
                 reachable, hasChanged, visit>>

Done == pc = "done" /\ UNCHANGED vars

Next ==
  \/ ConstructFully \/ ConstructWithWeights \/ ConstructPlainly
  \/ AssignPort \/ BeginLabels \/ ChangeLabel \/ NextRow
  \/ Constructed \/ Visit \/ NextPass \/ NextSearch \/ ReturnConnected
  \/ Done

Spec == Init /\ [][Next]_vars

(* A constant expression is evaluated to its end. *)
FairSpec == Spec /\ WF_vars(Next)

(* A mistake: a worker to which no channel leads, and which would never get  *)
(* work from others, is accepted.                                            *)
IsValidForSenders ==
  /\ \A c \in Channels :
       edgeTargets[c] <= NumWorkers /\ multiplicities[c] > 0 /\ batchSize[c] > 0
  /\ \A w \in Workers : vertexPointer[w] # vertexPointer[w + 1]
  /\ channelBufferSize >= Largest(batchSize)
  /\ maxPushAttempts # 0 /\ enqueueFrequency # 0

(* isValidQNetwork: what the queue asserts of its network *)
IsValidQNetwork ==
  /\ \A c \in Channels : edgeTargets[c] <= NumWorkers
  /\ \A c \in Channels : multiplicities[c] > 0
  /\ \A c \in Channels : batchSize[c] > 0
  /\ \A w \in Workers : numPorts[w] > 0
  /\ \A w \in Workers : \A c \in Out(w) : targetPort[c] < numPorts[End(w, c)]
  /\ \A v, w \in Workers : \A c \in Out(v), d \in Out(w) :
       c # d /\ End(v, c) = End(w, d) => targetPort[c] # targetPort[d]
  /\ \A w \in Workers : vertexPointer[w] # vertexPointer[w + 1]
  /\ channelBufferSize >= Largest(batchSize)
  /\ maxPushAttempts # 0
  /\ enqueueFrequency # 0

-----------------------------------------------------------------------------
IsConstructed == pc \in {"search", "done"}

(* The channels whose ports have been assigned *)
Assigned == DOMAIN targetPort

(* The worker in whose row c is, and the worker to which the channel was    *)
(* meant to lead, in either way of writing a channel to its own worker      *)
Owner(c) == CHOOSE w \in Workers : c \in Out(w)
Intended(c) == IF given[c] = NumWorkers THEN Owner(c) ELSE given[c]

GraphType ==
  /\ IsRows(vertexPointer)
  /\ given \in [Channels -> 0 .. NumWorkers]
  /\ edgeTargets \in [Channels -> 0 .. NumWorkers]
  /\ numPorts \in [Workers -> Nat]
  /\ targetPort \in [Assigned -> Nat]
  /\ Assigned = IF pc = "construct" THEN {}
                ELSE IF pc = "ports" THEN 0 .. edge - 1 ELSE Channels
  /\ pc \in {"construct", "ports", "labels", "search", "done"}
  /\ worker \in 0 .. NumWorkers
  /\ edge \in 0 .. NumChannels
  /\ reachable \subseteq Workers
  /\ hasChanged \in BOOLEAN /\ connected \in BOOLEAN
  /\ visit \in 0 .. NumWorkers

NumbersType ==
  /\ multiplicities \in [Channels -> Nat]
  /\ batchSize \in [Channels -> Nat]
  /\ {enqueueFrequency, channelBufferSize, maxPushAttempts} \subseteq Nat

(* Types; the ports are assigned from the first channel to the last, and    *)
(* none is left out.                                                        *)
TypeOK == GraphType /\ NumbersType

(* No two channels into a worker share a port, and the ports of a worker    *)
(* have no gap: each of its buffers has exactly one producer, which a       *)
(* single-producer buffer relies on, and each port it polls is fed.  It     *)
(* holds for what has been assigned so far at any time.                     *)
OneProducerPerPort ==
  /\ \A c, d \in Assigned :
       c # d /\ Intended(c) = Intended(d) => targetPort[c] # targetPort[d]
  /\ \A w \in Workers : \A p \in 0 .. numPorts[w] - 1 :
       \E c \in Assigned : Intended(c) = w /\ targetPort[c] = p
  /\ \A c \in Assigned : targetPort[c] < numPorts[Intended(c)]

(* Relabelling changes no channel's target, source() and target() find the  *)
(* ends of a channel by searching the rows, empty ones among them, and in   *)
(* the end the channels that the queue treats as self-push channels are     *)
(* all those from a worker to itself.                                       *)
TargetsKept ==
  /\ \A c \in Channels : Source(c) = Owner(c) /\ Target(c) = Intended(c)
  /\ IsConstructed =>
       \A c \in Channels : edgeTargets[c] = NumWorkers <=> Intended(c) = Owner(c)

(* The constructor never makes a network invalid: it is valid if and only   *)
(* if the numbers given to it are usable and every worker has a channel     *)
(* that leaves it and one that leads to it.                                 *)
ValidIffUsable ==
  IsConstructed =>
    (IsValidQNetwork <=>
       /\ \A c \in Channels :
            multiplicities[c] > 0 /\ batchSize[c] \in 1 .. channelBufferSize
       /\ maxPushAttempts > 0 /\ enqueueFrequency > 0
       /\ \A w \in Workers : \E c, d \in Channels : Owner(c) = w /\ Intended(d) = w)

(* A set of workers that no channel leaves *)
IsClosed(S) == \A c \in Channels : Owner(c) \in S => Intended(c) \in S

(* The workers to which a path of one or more channels leads from w: those  *)
(* in every closed set that has the targets of w                            *)
ReachableFrom(w) ==
  {v \in Workers : \A S \in SUBSET Workers :
     IsClosed(S) /\ (\A c \in Channels : Owner(c) = w => Intended(c) \in S) => v \in S}

(* When hasPathToAllWorkers returns it has found the workers that can be    *)
(* reached, neither fewer (it may stop only after a pass that changed       *)
(* nothing, though a worker may be reached after its own turn) nor more.    *)
SearchCorrect == SearchDone => reachable = ReachableFrom(worker)

(* isStronglyConnected returns true if and only if every worker can be      *)
(* reached from every worker, itself included.                              *)
ConnectedCorrect ==
  pc = "done" => (connected <=> \A w \in Workers : ReachableFrom(w) = Workers)

(* The channels whose ring buffers w polls, in the order of the ports.  At  *)
(* a port that no channel leads to is NumChannels, which is no channel.     *)
PortChannels(w) ==
  [p \in 1 .. numPorts[w] |->
     IF \E c \in Channels : Intended(c) = w /\ targetPort[c] = p - 1
     THEN CHOOSE c \in Channels : Intended(c) = w /\ targetPort[c] = p - 1
     ELSE NumChannels]

(* A network that passes the queue's static_assert is what the accounting   *)
(* of SpapQueue relies on: with the labels the constructor has written, the *)
(* ports it has counted and the largest batch that maxBatchSize finds,      *)
(* every worker polls exactly the channels that the others, or it itself,   *)
(* push to it, and every batch fits into its ring buffer.                   *)
FitForQueue ==
  pc = "done" /\ IsValidQNetwork =>
    LET source == [c \in Channels |-> Source(c)]
    IN  /\ IsNetwork(NumWorkers, NumChannels, source, edgeTargets, batchSize,
                     Largest(batchSize), channelBufferSize)
        /\ ArePorts(NumWorkers, NumChannels, source, edgeTargets,
                    [w \in Workers |-> PortChannels(w)])

(* The evaluation ends; the passes over the workers are not bounded.        *)
Terminates == <>(pc = "done")
=============================================================================
