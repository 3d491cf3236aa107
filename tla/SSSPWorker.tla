------------------------------ MODULE SSSPWorker ------------------------------
(***************************************************************************)
(* Shortest paths from one vertex, with edges of length one, computed on a *)
(* SpapQueue (ParallelPriotityQueue/WorkerExamples/SSSPWorker.hpp).  A     *)
(* task is a vertex and a distance at which it has been reached; workers   *)
(* improve the distances of its targets, which all of them share, and      *)
(* enqueue a task for each improvement.                                    *)
(*                                                                         *)
(* The queue is what it promises to be: a pool from which any worker takes *)
(* any task next, each task once, and which has finished when no task is   *)
(* left.  (TaskPool and SpapQueue show that.)  Loads are relaxed: they     *)
(* may return a value that has been overwritten already.  Distances only   *)
(* decrease, so such a value is larger than the present one.  A            *)
(* compare-exchange acts on the present value, and one that fails although *)
(* the value is the expected one changes nothing.                          *)
(***************************************************************************)
EXTENDS Integers, FiniteSets

CONSTANTS
  Workers,
  NumVertices,
  NumEdges,
  Infinity     \* the largest distance_type: the distance of what has not been reached

Vertices == 0 .. NumVertices - 1
Edges == 0 .. NumEdges - 1

ASSUME SSSPAssumption ==
  /\ IsFiniteSet(Workers)
  /\ NumVertices \in Nat \ {0}
  /\ NumEdges \in Nat
  /\ Infinity \in Nat /\ Infinity >= NumVertices

VARIABLES
  sourcePointers,  \* graph_.sourcePointers_
  edgeTargets,     \* graph_.edgeTargets_
  distance,        \* distance_
  pool,            \* the tasks in the queue that nobody has in hand
  pc,              \* where each worker is in processElement and updateDistance
  val,             \* the task it has in hand
  index,           \* indx
  currDist         \* currDist

graph == <<sourcePointers, edgeTargets>>
vars == <<graph, distance, pool, pc, val, index, currDist>>

Source == 0

IsRows(sp) ==
  /\ sp[0] = 0 /\ sp[NumVertices] = NumEdges
  /\ \A v \in Vertices : sp[v] <= sp[v + 1]

TypeOK ==
  /\ sourcePointers \in [0 .. NumVertices -> 0 .. NumEdges] /\ IsRows(sourcePointers)
  /\ edgeTargets \in [Edges -> Vertices]
  /\ distance \in [Vertices -> 0 .. Infinity]
  /\ pool \subseteq [dist : 0 .. Infinity - 1, vertex : Vertices]
  /\ pc \in [Workers -> {"idle", "edges", "update", "enqueue"}]
  /\ val \in [Workers -> [dist : 0 .. Infinity - 1, vertex : Vertices]]
  /\ index \in [Workers -> 0 .. NumEdges]
  /\ currDist \in [Workers -> 0 .. Infinity]
  /\ \A w \in Workers : pc[w] \in {"update", "enqueue"} => index[w] \in Edges

(* Every distance is the largest but that of the first vertex, which is in  *)
(* the queue, as those who use the worker set it up.                        *)
Init ==
  /\ sourcePointers \in [0 .. NumVertices -> 0 .. NumEdges] /\ IsRows(sourcePointers)
  /\ edgeTargets \in [Edges -> Vertices]
  /\ distance = [v \in Vertices |-> IF v = Source THEN 0 ELSE Infinity]
  /\ pool = {[dist |-> 0, vertex |-> Source]}
  /\ pc = [w \in Workers |-> "idle"]
  /\ val = [w \in Workers |-> [dist |-> 0, vertex |-> Source]]
  /\ index = [w \in Workers |-> 0]
  /\ currDist = [w \in Workers |-> 0]

newDist(w) == val[w].dist + 1
tgt(w) == edgeTargets[index[w]]

(* What a load of v's distance may return *)
Loaded(v) == distance[v] .. Infinity

-----------------------------------------------------------------------------
(* A task that has been improved upon, as far as the worker can see *)
Drop(w) ==
  /\ pc[w] = "idle"
  /\ \E t \in pool : t.dist # distance[t.vertex] /\ pool' = pool \ {t}
  /\ UNCHANGED <<graph, distance, pc, val, index, currDist>>

Take(w) ==
  /\ pc[w] = "idle"
  /\ \E t \in pool :
       /\ t.dist \in Loaded(t.vertex)
       /\ pool' = pool \ {t}
       /\ val' = [val EXCEPT ![w] = t]
       /\ index' = [index EXCEPT ![w] = sourcePointers[t.vertex]]
  /\ pc' = [pc EXCEPT ![w] = "edges"]
  /\ UNCHANGED <<graph, distance, currDist>>

(* updateDistance starts with a load; *)
Load(w) ==
  /\ pc[w] = "edges" /\ index[w] < sourcePointers[val[w].vertex + 1]
  /\ \E d \in Loaded(tgt(w)) : currDist' = [currDist EXCEPT ![w] = d]
  /\ pc' = [pc EXCEPT ![w] = "update"]
  /\ UNCHANGED <<graph, distance, pool, val, index>>

NextEdge(w) ==
  /\ index' = [index EXCEPT ![w] = @ + 1]
  /\ pc' = [pc EXCEPT ![w] = "edges"]

(* it gives up if the distance is no improvement, *)
NotNearer(w) ==
  /\ pc[w] = "update" /\ newDist(w) >= currDist[w]
  /\ NextEdge(w)
  /\ UNCHANGED <<graph, distance, pool, val, currDist>>

(* A mistake: a store in place of the compare-exchange.                     *)
StoreDistance(w) ==
  /\ pc[w] = "update" /\ newDist(w) < currDist[w]
  /\ distance' = [distance EXCEPT ![tgt(w)] = newDist(w)]
  /\ pc' = [pc EXCEPT ![w] = "enqueue"]
  /\ UNCHANGED <<graph, pool, val, index, currDist>>

(* or else exchanges it for the one it has seen, *)
Exchange(w) ==
  /\ pc[w] = "update" /\ newDist(w) < currDist[w]
  /\ distance[tgt(w)] = currDist[w]
  /\ distance' = [distance EXCEPT ![tgt(w)] = newDist(w)]
  /\ pc' = [pc EXCEPT ![w] = "enqueue"]
  /\ UNCHANGED <<graph, pool, val, index, currDist>>

(* A mistake: the exchange is tried again with the same expected value.     *)
ExchangeFailsAgain(w) ==
  /\ pc[w] = "update" /\ newDist(w) < currDist[w]
  /\ distance[tgt(w)] # currDist[w]
  /\ UNCHANGED vars

(* and if that fails goes on with the value found instead. *)
ExchangeFails(w) ==
  /\ pc[w] = "update" /\ newDist(w) < currDist[w]
  /\ distance[tgt(w)] # currDist[w]
  /\ currDist' = [currDist EXCEPT ![w] = distance[tgt(w)]]
  /\ UNCHANGED <<graph, distance, pool, pc, val, index>>

(* A mistake: the improved vertex is enqueued with the distance in hand.    *)
EnqueueOldDistance(w) ==
  /\ pc[w] = "enqueue"
  /\ pool' = pool \cup {[dist |-> val[w].dist, vertex |-> tgt(w)]}
  /\ NextEdge(w)
  /\ UNCHANGED <<graph, distance, val, currDist>>

(* enqueueGlobal({newDist, tgt}) *)
Enqueue(w) ==
  /\ pc[w] = "enqueue"
  /\ pool' = pool \cup {[dist |-> newDist(w), vertex |-> tgt(w)]}
  /\ NextEdge(w)
  /\ UNCHANGED <<graph, distance, val, currDist>>

Finish(w) ==
  /\ pc[w] = "edges" /\ index[w] >= sourcePointers[val[w].vertex + 1]
  /\ pc' = [pc EXCEPT ![w] = "idle"]
  /\ UNCHANGED <<graph, distance, pool, val, index, currDist>>

(* Nothing is in the queue or in hand: globalCount_ is zero. *)
Finished == pool = {} /\ \A w \in Workers : pc[w] = "idle"

Step(w) ==
  \/ Drop(w) \/ Take(w) \/ Load(w) \/ NotNearer(w)
  \/ Exchange(w) \/ ExchangeFails(w) \/ Enqueue(w) \/ Finish(w)

Next == (\E w \in Workers : Step(w)) \/ (Finished /\ UNCHANGED vars)

Spec == Init /\ [][Next]_vars

(* Workers are threads that are scheduled. *)
FairSpec == Spec /\ \A w \in Workers : WF_vars(Step(w))

-----------------------------------------------------------------------------
Row(v) == sourcePointers[v] .. sourcePointers[v + 1] - 1

(* Edge e of v is relaxed: the distance of its target is not larger than    *)
(* the one by way of v.                                                     *)
Relaxed(v, e) == distance[edgeTargets[e]] <= distance[v] + 1

InHand(w, v) == pc[w] # "idle" /\ val[w] = [dist |-> distance[v], vertex |-> v]

(* v's distance is announced, or about to be. *)
Announced(v) ==
  \/ [dist |-> distance[v], vertex |-> v] \in pool
  \/ \E w \in Workers : pc[w] = "enqueue" /\ tgt(w) = v /\ newDist(w) = distance[v]

(* No improvement is lost: an edge that leaves a vertex that has been       *)
(* reached is relaxed, or it will be, since the vertex is in the queue with *)
(* its present distance (not only with one that will be dropped), or with a *)
(* worker that has not yet come to the edge.                                *)
NoImprovementLost ==
  \A v \in Vertices : distance[v] < Infinity =>
    \A e \in Row(v) :
      \/ Relaxed(v, e)
      \/ Announced(v)
      \/ \E w \in Workers : InHand(w, v) /\ index[w] <= e

(* The distances, as a breadth-first search finds them: those of the        *)
(* vertices reached in n steps or fewer                                     *)
Reached[n \in 0 .. NumVertices] ==
  IF n = 0 THEN {Source}
  ELSE Reached[n - 1] \cup {edgeTargets[e] : e \in UNION {Row(v) : v \in Reached[n - 1]}}

(* When the queue has finished, each vertex has its distance from the       *)
(* source, whatever order the tasks were processed in, and one that cannot  *)
(* be reached has none.                                                     *)
AnswerCorrect ==
  Finished =>
    \A v \in Vertices :
      \/ distance[v] = Infinity /\ v \notin Reached[NumVertices]
      \/ /\ distance[v] \in 0 .. NumVertices
         /\ v \in Reached[distance[v]]
         /\ distance[v] > 0 => v \notin Reached[distance[v] - 1]

(* The same without paths: no edge improves on the distances, and each      *)
(* but that of the source comes from an edge.                               *)
IsFixpoint ==
  /\ distance[Source] = 0
  /\ \A v \in Vertices : distance[v] < Infinity => \A e \in Row(v) : Relaxed(v, e)
  /\ \A v \in Vertices : v # Source /\ distance[v] < Infinity =>
       \E u \in Vertices : \E e \in Row(u) :
         edgeTargets[e] = v /\ distance[v] = distance[u] + 1

FinishedAtFixpoint == Finished => IsFixpoint

(* The tasks in the queue and in hand *)
LiveTasks == Cardinality(pool) + Cardinality({w \in Workers : pc[w] # "idle"})

Pool == INSTANCE TaskPool WITH
          Members <- Workers,
          live <- LiveTasks,
          started <- TRUE,
          stopping <- FALSE,
          left <- {}

(* The workers use the queue as the pool it promises to be: enqueueGlobal   *)
(* adds one task to those that are live, the end of processElement takes    *)
(* one away, and nothing else changes their number.  In particular no task  *)
(* is enqueued that is in the queue already: of the workers that reach a    *)
(* vertex at the same distance only one announces it, although all of them  *)
(* may have seen a larger distance.                                         *)
CallsPool ==
  [][IF \E w \in Workers : Enqueue(w) THEN Pool!Add
     ELSE IF \E w \in Workers : Drop(w) \/ Finish(w) THEN Pool!Complete
     ELSE UNCHANGED LiveTasks]_vars

(* The workers improve and re-enqueue only finitely often. *)
Finishes == <>Finished
=============================================================================
