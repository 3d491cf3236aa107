------------------------------- MODULE LineGraph -------------------------------
(***************************************************************************)
(* The line graph of a network (ParallelPriotityQueue/GraphExamples/       *)
(* LineGraph.hpp): its workers are the channels of the network, and a      *)
(* channel leads from c to d if the worker at the end of c is the one that *)
(* d leaves.                                                               *)
(*                                                                         *)
(* The code fills arrays in a triple loop.  Here each array is given by    *)
(* its elements, over a network that has been constructed; lineGraph hands *)
(* them to the same constructor, so what QNetwork says of all networks     *)
(* holds of the result.                                                    *)
(***************************************************************************)
EXTENDS QNetwork, Sums

OutDegree(w) == vertexPointer[w + 1] - vertexPointer[w]

(* lineGraphNumEdges                                                        *)
LineNumEdgesByOut == SumTo([w \in Workers |-> OutDegree(w) * OutDegree(w)], NumWorkers)
LineNumEdges == SumTo([w \in Workers |-> numPorts[w] * OutDegree(w)], NumWorkers)

(* The worker at which channel e meets the channels that follow it; the     *)
(* loops know the worker in whose row e is.                                 *)
Joint(e) == Target(e)

(* vertPointer: the value of outEdgeCount when the row of e begins *)
LinePointer(e) == SumTo([c \in Channels |-> OutDegree(Joint(c))], e)

LineOut(e) == LinePointer(e) .. LinePointer(e + 1) - 1

(* The row of e runs over the channels of its joint.                        *)
LineTarget(e, k) == vertexPointer[Joint(e)] + (k - LinePointer(e))

LineMultiplicity(e, k) == multiplicities[e] * multiplicities[LineTarget(e, k)]
LineBatchSize(e) == batchSize[e]

maxPortNum == Largest(numPorts)

HasSeparateLogicalCores(core) ==
  \A i, j \in DOMAIN core : i # j => core[i] # core[j]

(* A mistake: the cores of a worker's group are not spread.                    *)
LineCoresNextToEachOther(core) == [e \in Channels |-> core[Joint(e)] + targetPort[e]]
LineCores(core) == [e \in Channels |-> maxPortNum * core[Joint(e)] + targetPort[e]]

-----------------------------------------------------------------------------
(* The count that is computed in advance, from the ports, is the number of  *)
(* channels that the loops produce, which is the size of the arrays they    *)
(* write to; and between any two channels c and d the result has exactly    *)
(* one channel if d leaves the worker to which c leads, and none otherwise. *)
LineIsLine ==
  pc = "done" =>
    /\ LinePointer(NumChannels) = LineNumEdges
    /\ \A c, d \in Channels :
         Cardinality({k \in LineOut(c) : LineTarget(c, k) = d})
           = IF Target(c) = Source(d) THEN 1 ELSE 0

LineFollows(c) == {LineTarget(c, k) : k \in LineOut(c)}

LineReachableFrom(c) ==
  {d \in Channels : \A S \in SUBSET Channels :
     LineFollows(c) \subseteq S /\ (\A b \in S : LineFollows(b) \subseteq S) => d \in S}

(* What SpapQueue asserts of its network passes on to the line graph: from  *)
(* a network that is valid, strongly connected and on separate cores comes  *)
(* one whose weights are usable, each of whose workers has a channel that   *)
(* leaves it and one that leads to it, which is strongly connected, and     *)
(* whose workers are on separate cores.                                     *)
LinePreservesUse ==
  pc = "done" /\ IsValidQNetwork =>
    /\ \A c \in Channels :
         /\ LineBatchSize(c) \in 1 .. channelBufferSize
         /\ LineOut(c) # {}
         /\ \A k \in LineOut(c) : LineMultiplicity(c, k) > 0
         /\ \E b \in Channels : c \in LineFollows(b)
    /\ connected => \A c \in Channels : LineReachableFrom(c) = Channels
    /\ \A core \in [Workers -> 0 .. NumWorkers] :
         HasSeparateLogicalCores(core) => HasSeparateLogicalCores(LineCores(core))
=============================================================================
