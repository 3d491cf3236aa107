----------------------------- MODULE GraphExamples -----------------------------
(***************************************************************************)
(* The networks that come with the queue (ParallelPriotityQueue/           *)
(* GraphExamples/PetersenGraph.hpp and FullyConnectedGraph.hpp), as the    *)
(* constructor with a graph only builds them.                              *)
(***************************************************************************)
EXTENDS QNetwork

(* PETERSEN_GRAPH, for ten workers and thirty channels *)
PetersenPointer == [w \in 0 .. 10 |-> 3 * w]
PetersenTargets ==
  [c \in 0 .. 29 |-> <<1, 5, 4,  2, 6, 0,  3, 7, 1,  4, 8, 2,  0, 9, 3,
                       6, 0, 9,  7, 1, 5,  8, 2, 6,  9, 3, 7,  5, 4, 8>>[c + 1]]

(* FULLY_CONNECTED_GRAPH, for as many channels as there are pairs of workers *)
FullyConnectedPointer == [w \in 0 .. NumWorkers |-> NumWorkers * w]
FullyConnectedTargets == [c \in Channels |-> (c + c \div NumWorkers) % NumWorkers]

IsPetersenSize == NumWorkers = 10 /\ NumChannels = 30
IsFullyConnectedSize == NumChannels = NumWorkers * NumWorkers

ExampleInit ==
  /\ \/ IsPetersenSize /\ vertexPointer = PetersenPointer /\ given = PetersenTargets
     \/ IsFullyConnectedSize /\ vertexPointer = FullyConnectedPointer
                             /\ given = FullyConnectedTargets
  /\ multiplicities = [c \in Channels |-> 1]
  /\ batchSize = [c \in Channels |-> 1]
  /\ Begin

ExampleNext ==
  \/ ConstructPlainly
  \/ AssignPort \/ BeginLabels \/ ChangeLabel \/ NextRow
  \/ Constructed \/ Visit \/ NextPass \/ NextSearch \/ ReturnConnected
  \/ Done

ExampleSpec == ExampleInit /\ [][ExampleNext]_vars

-----------------------------------------------------------------------------
Adjacent(v, w) == \E c \in Channels : Source(c) = v /\ Target(c) = w

(* PetersenGraph.hpp presents PETERSEN_GRAPH as "The Petersen graph".  That *)
(* is the graph of ten vertices in which adjacent vertices have no common   *)
(* neighbour and any two others have exactly one.                           *)
IsPetersenGraph ==
  pc = "done" /\ IsPetersenSize =>
    \A v, w \in Workers : v # w =>
      Cardinality({u \in Workers : Adjacent(v, u) /\ Adjacent(u, w)})
        = IF Adjacent(v, w) THEN 0 ELSE 1
=============================================================================
