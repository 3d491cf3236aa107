--------------------------- MODULE SSSPWorkerProofs ---------------------------
(***************************************************************************)
(* That the shortest-path worker loses no improvement, ends with the       *)
(* distances of a breadth-first search, and uses the queue as the pool it  *)
(* is, for every graph and any number of workers.                          *)
(***************************************************************************)
EXTENDS SSSPWorker, SumTheorems

USE SSSPAssumption

(* Tasks never promise a smaller distance than their vertex has. *)
TasksValid ==
  /\ \A t \in pool : distance[t.vertex] <= t.dist
  /\ \A w \in Workers : pc[w] # "idle" => distance[val[w].vertex] <= val[w].dist

(* A worker at an edge is in the row of its vertex, and knows a bound of    *)
(* the distance at the other end.                                           *)
EdgesInHand ==
  \A w \in Workers :
    /\ pc[w] # "idle" => sourcePointers[val[w].vertex] <= index[w]
    /\ pc[w] \in {"update", "enqueue"} => index[w] \in Row(val[w].vertex)
    /\ pc[w] = "update" => distance[tgt(w)] <= currDist[w]
    /\ pc[w] = "enqueue" => distance[tgt(w)] <= newDist(w) /\ newDist(w) < Infinity

(* Distances come from edges. *)
FromEdges ==
  /\ distance[Source] = 0
  /\ \A v \in Vertices : v # Source /\ distance[v] < Infinity =>
       \E u \in Vertices : \E e \in Row(u) :
         edgeTargets[e] = v /\ distance[u] + 1 <= distance[v]

IInv == TypeOK /\ TasksValid /\ EdgesInHand /\ NoImprovementLost /\ FromEdges

(* A row is made of edges. *)
LEMMA RowsAreEdges ==
  ASSUME TypeOK, NEW v \in Vertices
  PROVE  /\ v + 1 \in 0 .. NumVertices /\ v \in 0 .. NumVertices
         /\ sourcePointers[v] \in 0 .. NumEdges /\ sourcePointers[v + 1] \in 0 .. NumEdges
         /\ sourcePointers[v] <= sourcePointers[v + 1]
         /\ Row(v) \subseteq Edges
<1>1. /\ v + 1 \in 0 .. NumVertices /\ v \in 0 .. NumVertices
  BY DEF Vertices
<1>2. /\ sourcePointers[v] \in 0 .. NumEdges /\ sourcePointers[v + 1] \in 0 .. NumEdges
      /\ sourcePointers[v] <= sourcePointers[v + 1]
  BY <1>1 DEF TypeOK, IsRows
<1>3. Row(v) \subseteq Edges
  BY <1>2 DEF Row, Edges
<1> QED BY <1>1, <1>2, <1>3

(* What a worker has in hand is a task, at an edge of the graph. *)
LEMMA InRange ==
  ASSUME TypeOK, NEW w \in Workers
  PROVE  /\ val[w].dist \in 0 .. Infinity - 1 /\ val[w].vertex \in Vertices
         /\ val[w].dist \in Nat /\ currDist[w] \in Nat /\ newDist(w) \in Nat
         /\ val[w] = [dist |-> val[w].dist, vertex |-> val[w].vertex]
         /\ index[w] \in 0 .. NumEdges /\ currDist[w] \in 0 .. Infinity
         /\ newDist(w) = val[w].dist + 1
         /\ pc[w] \in {"update", "enqueue"} => index[w] \in Edges /\ tgt(w) \in Vertices
<1>1. val[w] \in [dist : 0 .. Infinity - 1, vertex : Vertices]
  BY DEF TypeOK
<1>2. index[w] \in 0 .. NumEdges /\ currDist[w] \in 0 .. Infinity
  BY DEF TypeOK
<1>3. pc[w] \in {"update", "enqueue"} => index[w] \in Edges
  BY DEF TypeOK
<1>4. edgeTargets \in [Edges -> Vertices]
  BY DEF TypeOK
<1> QED BY <1>1, <1>2, <1>3, <1>4 DEF newDist, tgt

(* A distance is a natural number. *)
LEMMA DistanceRange ==
  ASSUME TypeOK, NEW v \in Vertices
  PROVE  distance[v] \in Nat /\ distance[v] \in 0 .. Infinity
BY DEF TypeOK

(* The invariant holds initially. *)
LEMMA InitInv == Init => IInv
<1> SUFFICES ASSUME Init PROVE IInv
  OBVIOUS
<1>0. Source \in Vertices /\ Source = 0
  BY DEF Source, Vertices
<1>1. TypeOK
  BY <1>0 DEF Init, TypeOK
<1>2. TasksValid /\ EdgesInHand
  BY <1>0 DEF Init, TasksValid, EdgesInHand
<1>3. NoImprovementLost
  BY <1>0 DEF Init, NoImprovementLost, Announced
<1>4. FromEdges
  BY <1>0 DEF Init, FromEdges
<1> QED BY <1>1, <1>2, <1>3, <1>4 DEF IInv

(* Every step keeps it: most hand a vertex's announcement on, from the     *)
(* worker that improved it to the queue and to the one that takes it.      *)
LEMMA StepInv == IInv /\ [Next]_vars => IInv'
<1> SUFFICES ASSUME IInv, [Next]_vars PROVE IInv'
  OBVIOUS
<1> USE DEF IInv
<1>0. CASE UNCHANGED vars
  <2>1. TypeOK' BY <1>0 DEF vars, graph, TypeOK, IsRows
  <2>2. TasksValid' BY <1>0 DEF vars, graph, TasksValid
  <2>3. EdgesInHand' BY <1>0 DEF vars, graph, EdgesInHand, Row, tgt, newDist
  <2>4. NoImprovementLost'
    BY <1>0 DEF vars, graph, NoImprovementLost, Row, Relaxed, Announced, InHand, tgt, newDist
  <2>5. FromEdges' BY <1>0 DEF vars, graph, FromEdges, Row
  <2> QED BY <2>1, <2>2, <2>3, <2>4, <2>5
<1>1. ASSUME NEW w \in Workers, Drop(w) PROVE IInv'
  <2> USE DEF Drop
  <2>1. TypeOK' BY <1>1 DEF graph, TypeOK, IsRows
  <2>2. TasksValid' BY <1>1 DEF graph, TasksValid
  <2>3. EdgesInHand' BY <1>1 DEF graph, EdgesInHand, Row, tgt, newDist
  <2>4. NoImprovementLost'
    BY <1>1 DEF graph, NoImprovementLost, Row, Relaxed, Announced, InHand, tgt, newDist
  <2>5. FromEdges' BY <1>1 DEF graph, FromEdges, Row
  <2> QED BY <2>1, <2>2, <2>3, <2>4, <2>5
<1>2. ASSUME NEW w \in Workers, Take(w) PROVE IInv'
  <2>0. PICK t \in pool :
          /\ t.dist \in Loaded(t.vertex)
          /\ pool' = pool \ {t}
          /\ val' = [val EXCEPT ![w] = t]
          /\ index' = [index EXCEPT ![w] = sourcePointers[t.vertex]]
    BY <1>2 DEF Take
  <2> DEFINE v0 == t.vertex
  <2>a. /\ pc[w] = "idle" /\ pc' = [pc EXCEPT ![w] = "edges"]
        /\ UNCHANGED <<graph, distance, currDist>>
    BY <1>2 DEF Take
  <2>b. /\ t \in [dist : 0 .. Infinity - 1, vertex : Vertices] /\ v0 \in Vertices
        /\ t = [dist |-> t.dist, vertex |-> v0]
        /\ sourcePointers[v0] \in 0 .. NumEdges
    BY <2>0, RowsAreEdges DEF TypeOK
  <2>1. TypeOK' BY <2>0, <2>a, <2>b DEF graph, TypeOK, IsRows
  <2>2. TasksValid' BY <2>0, <2>a, <2>b DEF graph, TasksValid, TypeOK
  <2>3. EdgesInHand' BY <2>0, <2>a, <2>b, SMTT(40) DEF graph, EdgesInHand, Row, tgt, newDist, TypeOK
  <2>4. NoImprovementLost'
    <3> SUFFICES ASSUME NEW v \in Vertices, distance[v] < Infinity, NEW e \in Row(v),
                        ~ Relaxed(v, e)
                 PROVE  Announced(v)' \/ \E x \in Workers : InHand(x, v)' /\ index'[x] <= e
      BY <2>a DEF NoImprovementLost, graph, Row, Relaxed
    <3>1. CASE t = [dist |-> distance[v], vertex |-> v]
      <4>1. InHand(w, v)' BY <3>1, <2>0, <2>a DEF InHand, TypeOK
      <4>2. index'[w] <= e BY <3>1, <2>0, <2>b, RowsAreEdges DEF TypeOK, Row
      <4> QED BY <4>1, <4>2
    <3>2. CASE t # [dist |-> distance[v], vertex |-> v]
      <4>1. CASE Announced(v)
        BY <4>1, <3>2, <2>0, <2>a DEF Announced, TypeOK, tgt, newDist, graph
      <4>2. ASSUME NEW x \in Workers, InHand(x, v), index[x] <= e
            PROVE  InHand(x, v)' /\ index'[x] <= e
        BY <4>2, <2>0, <2>a DEF InHand, TypeOK
      <4> QED BY <4>1, <4>2 DEF NoImprovementLost
    <3> QED BY <3>1, <3>2
  <2>5. FromEdges' BY <2>a DEF graph, FromEdges, Row
  <2> QED BY <2>1, <2>2, <2>3, <2>4, <2>5
<1>3. ASSUME NEW w \in Workers, Load(w) PROVE IInv'
  <2>0. PICK d \in Loaded(tgt(w)) : currDist' = [currDist EXCEPT ![w] = d]
    BY <1>3 DEF Load
  <2>a. /\ pc[w] = "edges" /\ pc' = [pc EXCEPT ![w] = "update"]
        /\ index[w] < sourcePointers[val[w].vertex + 1]
        /\ UNCHANGED <<graph, distance, pool, val, index>>
    BY <1>3 DEF Load
  <2>b. val[w].vertex \in Vertices
    BY DEF TypeOK
  <2>c. index[w] \in Row(val[w].vertex)
    <3>1. sourcePointers[val[w].vertex] <= index[w] BY <2>a DEF EdgesInHand
    <3>2. /\ sourcePointers[val[w].vertex] \in 0 .. NumEdges
          /\ sourcePointers[val[w].vertex + 1] \in 0 .. NumEdges
      BY <2>b, RowsAreEdges
    <3>3. index[w] \in 0 .. NumEdges BY DEF TypeOK
    <3> QED BY <2>a, <3>1, <3>2, <3>3 DEF Row
  <2>d. index[w] \in Edges /\ tgt(w) \in Vertices
    BY <2>c, <2>b, RowsAreEdges DEF TypeOK, tgt
  <2>e. d \in 0 .. Infinity /\ distance[tgt(w)] <= d
    BY <2>0, <2>d DEF TypeOK, Loaded
  <2>1. TypeOK' BY <2>0, <2>a, <2>d, <2>e DEF graph, TypeOK, IsRows
  <2>2. TasksValid' BY <2>a DEF graph, TasksValid, TypeOK
  <2>3. EdgesInHand'
    BY <2>0, <2>a, <2>c, <2>e DEF graph, EdgesInHand, Row, tgt, newDist, TypeOK
  <2>4. NoImprovementLost'
    <3>1. \A v \in Vertices : Announced(v) => Announced(v)'
      BY <2>a DEF Announced, graph, tgt, newDist, TypeOK
    <3>2. \A v \in Vertices, x \in Workers : InHand(x, v) => InHand(x, v)'
      BY <2>a DEF InHand, TypeOK
    <3> QED BY <3>1, <3>2, <2>a DEF NoImprovementLost, graph, Row, Relaxed
  <2>5. FromEdges' BY <2>a DEF graph, FromEdges, Row
  <2> QED BY <2>1, <2>2, <2>3, <2>4, <2>5
<1>4. ASSUME NEW w \in Workers, NotNearer(w) PROVE IInv'
  <2>a. /\ pc[w] = "update" /\ pc' = [pc EXCEPT ![w] = "edges"]
        /\ newDist(w) >= currDist[w]
        /\ index' = [index EXCEPT ![w] = @ + 1]
        /\ UNCHANGED <<graph, distance, pool, val, currDist>>
    BY <1>4 DEF NotNearer, NextEdge
  <2>b. /\ val[w].vertex \in Vertices /\ index[w] \in Edges /\ tgt(w) \in Vertices
        /\ val[w].dist \in 0 .. Infinity - 1
        /\ currDist[w] \in 0 .. Infinity
        /\ val[w] = [dist |-> val[w].dist, vertex |-> val[w].vertex]
    BY <2>a, InRange
  <2>1. TypeOK'
    <3>1. index' \in [Workers -> 0 .. NumEdges]
      <4>1. index[w] + 1 \in 0 .. NumEdges BY <2>b DEF Edges
      <4> QED BY <4>1, <2>a DEF TypeOK
    <3>2. /\ pc' \in [Workers -> {"idle", "edges", "update", "enqueue"}]
          /\ \A x \in Workers : pc'[x] \in {"update", "enqueue"} => index'[x] \in Edges
      BY <2>a DEF TypeOK
    <3> QED BY <3>1, <3>2, <2>a DEF graph, TypeOK, IsRows
  <2>2. TasksValid' BY <2>a DEF graph, TasksValid, TypeOK
  <2>3. EdgesInHand'
    <3> SUFFICES ASSUME NEW x \in Workers PROVE EdgesInHand!(x)'
      BY DEF EdgesInHand
    <3>0. sourcePointers[val[x].vertex] \in 0 .. NumEdges
      BY RowsAreEdges DEF TypeOK
    <3>1. CASE x = w
      <4>1. sourcePointers[val[w].vertex] <= index[w]
        BY <2>a DEF EdgesInHand
      <4>2. /\ pc'[w] = "edges" /\ index'[w] = index[w] + 1
            /\ val' = val /\ sourcePointers' = sourcePointers
        BY <2>a, <2>b DEF TypeOK, graph
      <4>3. sourcePointers'[val'[w].vertex] <= index'[w]
        BY <4>1, <4>2, <3>0, <3>1, <2>b DEF Edges
      <4> QED BY <4>2, <4>3, <3>1
    <3>2. CASE x # w
      BY <3>2, <2>a DEF graph, EdgesInHand, Row, tgt, newDist, TypeOK
    <3> QED BY <3>1, <3>2
  <2>4. NoImprovementLost'
    <3> SUFFICES ASSUME NEW v \in Vertices, distance[v] < Infinity, NEW e \in Row(v),
                        ~ Relaxed(v, e)
                 PROVE  Announced(v)' \/ \E x \in Workers : InHand(x, v)' /\ index'[x] <= e
      BY <2>a DEF NoImprovementLost, graph, Row, Relaxed
    <3>0. e \in Int /\ distance[v] \in Nat
      <4>1. e \in Edges BY RowsAreEdges
      <4> QED BY <4>1 DEF Edges, TypeOK
    <3>1. CASE Announced(v)
      BY <3>1, <2>a DEF Announced, TypeOK, tgt, newDist, graph
    <3>2. ASSUME NEW x \in Workers, InHand(x, v), index[x] <= e
          PROVE  InHand(x, v)' /\ index'[x] <= e
      <4>1. InHand(x, v)' BY <3>2, <2>a DEF InHand, TypeOK
      <4>2. CASE x # w BY <4>1, <4>2, <3>2, <2>a DEF TypeOK
      <4>3. CASE x = w
        <5>1. val[w].dist = distance[v] /\ val[w].vertex = v
          BY <3>2, <4>3 DEF InHand
        <5>2. distance[tgt(w)] <= distance[v] + 1
          <6>1. distance[tgt(w)] <= currDist[w] BY <2>a DEF EdgesInHand
          <6>2. newDist(w) = distance[v] + 1 BY <5>1, InRange
          <6>3. distance[tgt(w)] \in Nat BY <2>b, DistanceRange
          <6> QED BY <6>1, <6>2, <6>3, <2>a, <2>b, <3>0
        <5>3. index[w] # e
          BY <5>2 DEF Relaxed, tgt
        <5>4. index'[w] = index[w] + 1 /\ index[w] \in Int
          BY <2>a, <2>b DEF TypeOK, Edges
        <5>5. index'[w] <= e
          BY <5>3, <5>4, <4>3, <3>2, <3>0
        <5> QED BY <5>5, <4>1, <4>3
      <4> QED BY <4>1, <4>2, <4>3
    <3> QED BY <3>1, <3>2 DEF NoImprovementLost
  <2>5. FromEdges' BY <2>a DEF graph, FromEdges, Row
  <2> QED BY <2>1, <2>2, <2>3, <2>4, <2>5
<1>5. ASSUME NEW w \in Workers, Exchange(w) PROVE IInv'
  <2> DEFINE x0 == tgt(w)  n0 == newDist(w)  u0 == val[w].vertex
  <2>a. /\ pc[w] = "update" /\ pc' = [pc EXCEPT ![w] = "enqueue"]
        /\ n0 < currDist[w] /\ distance[x0] = currDist[w]
        /\ distance' = [distance EXCEPT ![x0] = n0]
        /\ UNCHANGED <<graph, pool, val, index, currDist>>
    BY <1>5 DEF Exchange
  <2>b. /\ u0 \in Vertices /\ index[w] \in Edges /\ x0 \in Vertices
        /\ val[w].dist \in 0 .. Infinity - 1 /\ n0 = val[w].dist + 1
        /\ currDist[w] \in 0 .. Infinity
        /\ index[w] \in Row(u0) /\ edgeTargets[index[w]] = x0
    BY <2>a DEF TypeOK, tgt, newDist, EdgesInHand
  <2>c. n0 \in 0 .. Infinity - 1 /\ n0 < distance[x0]
    BY <2>a, <2>b
  <2>d. /\ \A v \in Vertices : distance[v] \in Nat /\ distance'[v] \in Nat
        /\ \A v \in Vertices : distance'[v] <= distance[v]
        /\ \A v \in Vertices : v # x0 => distance'[v] = distance[v]
        /\ distance'[x0] = n0
    <3>1. distance \in [Vertices -> 0 .. Infinity] BY DEF TypeOK
    <3> HIDE DEF x0, n0
    <3>2. /\ \A v \in Vertices : v # x0 => distance'[v] = distance[v]
          /\ distance'[x0] = n0
      BY <3>1, <2>a, <2>b
    <3>3. \A v \in Vertices : distance[v] \in Nat BY <3>1
    <3> QED BY <3>2, <3>3, <2>b, <2>c
  <2>e. \A x \in Workers : tgt(x)' = tgt(x) /\ newDist(x)' = newDist(x)
    BY <2>a DEF tgt, newDist, graph
  <2> HIDE DEF x0, n0, u0
  <2>1. TypeOK'
    <3>1. distance' \in [Vertices -> 0 .. Infinity]
      <4>1. n0 \in 0 .. Infinity BY <2>c
      <4> QED BY <4>1, <2>a DEF TypeOK
    <3>2. /\ pc' \in [Workers -> {"idle", "edges", "update", "enqueue"}]
          /\ \A x \in Workers : pc'[x] \in {"update", "enqueue"} => index[x] \in Edges
      BY <2>a, <2>b DEF TypeOK
    <3> QED BY <3>1, <3>2, <2>a DEF graph, TypeOK, IsRows
  <2>2. TasksValid'
    <3>1. \A t \in pool : t.dist \in Nat /\ t.vertex \in Vertices BY DEF TypeOK
    <3>2. \A x \in Workers : val[x].dist \in Nat /\ val[x].vertex \in Vertices BY InRange
    <3>3. \A x \in Workers : pc'[x] # "idle" => pc[x] # "idle" BY <2>a DEF TypeOK
    <3>4. ASSUME NEW t \in pool PROVE distance'[t.vertex] <= t.dist
      <4>1. distance[t.vertex] <= t.dist BY DEF TasksValid
      <4> QED BY <4>1, <3>1, <2>d
    <3>5. ASSUME NEW x \in Workers, pc'[x] # "idle"
          PROVE  distance'[val[x].vertex] <= val[x].dist
      <4>1. distance[val[x].vertex] <= val[x].dist BY <3>3, <3>5 DEF TasksValid
      <4> QED BY <4>1, <3>2, <2>d
    <3> QED BY <3>4, <3>5, <2>a DEF TasksValid
  <2>3. EdgesInHand'
    <3> SUFFICES ASSUME NEW x \in Workers PROVE EdgesInHand!(x)'
      BY DEF EdgesInHand
    <3>1. pc'[x] # "idle" => pc[x] # "idle"
      BY <2>a DEF TypeOK
    <3>2. pc[x] \in {"update", "enqueue"} =>
            tgt(x) \in Vertices /\ newDist(x) \in Nat /\ currDist[x] \in Nat
      BY InRange
    <3>3. CASE x = w
      <4>1. tgt(w)' = x0 /\ newDist(w)' = n0 BY <2>e DEF x0, n0
      <4>2. /\ pc'[w] = "enqueue" /\ val' = val /\ index' = index
            /\ sourcePointers' = sourcePointers
        BY <2>a DEF TypeOK, graph
      <4>3. /\ sourcePointers[u0] <= index[w] /\ index[w] \in Row(u0)
        BY <2>a, <2>b DEF EdgesInHand, u0
      <4>4. distance'[x0] <= n0 /\ n0 < Infinity BY <2>c, <2>d
      <4> QED BY <4>1, <4>2, <4>3, <4>4, <3>3 DEF Row, u0
    <3>4. CASE x # w
      <4>1. pc'[x] = pc[x] BY <3>4, <2>a DEF TypeOK
      <4> QED BY <4>1, <3>2, <2>a, <2>d, <2>e DEF graph, EdgesInHand, Row
    <3> QED BY <3>3, <3>4
  <2>4. NoImprovementLost'
    <3> SUFFICES ASSUME NEW v \in Vertices, distance'[v] < Infinity, NEW e \in Row(v)
                 PROVE  \/ Relaxed(v, e)' \/ Announced(v)'
                        \/ \E x \in Workers : InHand(x, v)' /\ index'[x] <= e
      BY <2>a DEF NoImprovementLost, graph, Row
    <3>0. edgeTargets[e] \in Vertices BY RowsAreEdges DEF TypeOK
    <3>1. CASE v = x0
      BY <3>1, <2>a, <2>d, <2>e DEF Announced, TypeOK, x0, n0
    <3>2. CASE v # x0
      <4>1. distance'[v] = distance[v] BY <3>2, <2>d
      <4>2. CASE Relaxed(v, e)
        BY <4>1, <4>2, <3>0, <2>a, <2>d DEF Relaxed, graph
      <4>3. CASE Announced(v)
        <5>1. \A x \in Workers : pc[x] = "enqueue" => pc'[x] = "enqueue"
          BY <2>a DEF TypeOK
        <5> QED BY <5>1, <4>1, <4>3, <2>a, <2>e DEF Announced
      <4>4. ASSUME NEW x \in Workers, InHand(x, v), index[x] <= e
            PROVE  InHand(x, v)' /\ index'[x] <= e
        BY <4>1, <4>4, <2>a DEF InHand, TypeOK
      <4> QED BY <4>1, <4>2, <4>3, <4>4 DEF NoImprovementLost
    <3> QED BY <3>1, <3>2
  <2>5. FromEdges'
    <3>1. distance'[Source] = 0
      <4>1. Source \in Vertices /\ distance[Source] = 0 BY DEF FromEdges, Source, Vertices
      <4> QED BY <4>1, <2>c, <2>d
    <3>2. ASSUME NEW v \in Vertices, v # Source, distance'[v] < Infinity
          PROVE \E u \in Vertices : \E e \in Row(u) :
                  edgeTargets[e] = v /\ distance'[u] + 1 <= distance'[v]
      <4>1. CASE v = x0
        <5>1. distance[u0] <= val[w].dist BY <2>a DEF TasksValid, u0
        <5>2. distance'[u0] + 1 <= n0 BY <5>1, <2>b, <2>d
        <5> QED BY <5>2, <4>1, <2>b, <2>d
      <4>2. CASE v # x0
        <5>1. PICK u \in Vertices : \E e \in Row(u) :
                edgeTargets[e] = v /\ distance[u] + 1 <= distance[v]
          BY <4>2, <3>2, <2>d DEF FromEdges
        <5>2. distance'[u] <= distance[u] BY <2>d
        <5>3. distance'[u] + 1 <= distance'[v] BY <5>1, <5>2, <4>2, <2>d
        <5> QED BY <5>1, <5>3
      <4> QED BY <4>1, <4>2
    <3> QED BY <3>1, <3>2, <2>a DEF FromEdges, graph, Row
  <2> QED BY <2>1, <2>2, <2>3, <2>4, <2>5
<1>6. ASSUME NEW w \in Workers, ExchangeFails(w) PROVE IInv'
  <2>a. /\ pc[w] = "update"
        /\ currDist' = [currDist EXCEPT ![w] = distance[tgt(w)]]
        /\ UNCHANGED <<graph, distance, pool, pc, val, index>>
    BY <1>6 DEF ExchangeFails
  <2>b. distance[tgt(w)] \in 0 .. Infinity
    BY <2>a DEF TypeOK, tgt
  <2>1. TypeOK' BY <2>a, <2>b DEF graph, TypeOK, IsRows
  <2>2. TasksValid' BY <2>a DEF graph, TasksValid
  <2>3. EdgesInHand'
    <3> SUFFICES ASSUME NEW x \in Workers PROVE EdgesInHand!(x)'
      BY DEF EdgesInHand
    <3>1. pc'[x] = "update" => distance'[tgt(x)'] <= currDist'[x]
      <4>1. CASE x = w
        <5>1. currDist'[w] = distance[tgt(w)] /\ tgt(w)' = tgt(w) /\ distance' = distance
          BY <2>a DEF TypeOK, tgt, graph
        <5> QED BY <5>1, <4>1, <2>b
      <4>2. CASE x # w
        <5>1. currDist'[x] = currDist[x] /\ tgt(x)' = tgt(x) BY <4>2, <2>a DEF TypeOK, tgt, graph
        <5> QED BY <5>1, <2>a DEF EdgesInHand
      <4> QED BY <4>1, <4>2
    <3> QED BY <3>1, <2>a DEF graph, EdgesInHand, Row, tgt, newDist
  <2>4. NoImprovementLost'
    BY <2>a DEF graph, NoImprovementLost, Row, Relaxed, Announced, InHand, tgt, newDist
  <2>5. FromEdges' BY <2>a DEF graph, FromEdges, Row
  <2> QED BY <2>1, <2>2, <2>3, <2>4, <2>5
<1>7. ASSUME NEW w \in Workers, Enqueue(w) PROVE IInv'
  <2> DEFINE task == [dist |-> newDist(w), vertex |-> tgt(w)]
  <2>a. /\ pc[w] = "enqueue" /\ pc' = [pc EXCEPT ![w] = "edges"]
        /\ pool' = pool \cup {task}
        /\ index' = [index EXCEPT ![w] = @ + 1]
        /\ UNCHANGED <<graph, distance, val, currDist>>
    BY <1>7 DEF Enqueue, NextEdge
  <2>b. /\ val[w].vertex \in Vertices /\ index[w] \in Edges /\ tgt(w) \in Vertices
        /\ val[w].dist \in 0 .. Infinity - 1 /\ newDist(w) = val[w].dist + 1
        /\ newDist(w) < Infinity /\ distance[tgt(w)] <= newDist(w)
    <3>1. newDist(w) < Infinity /\ distance[tgt(w)] <= newDist(w) BY <2>a DEF EdgesInHand
    <3> QED BY <3>1, <2>a, InRange
  <2>1. TypeOK'
    <3>1. task \in [dist : 0 .. Infinity - 1, vertex : Vertices]
      BY <2>b
    <3>2. index[w] + 1 \in 0 .. NumEdges
      BY <2>b DEF Edges
    <3>3. pool' \subseteq [dist : 0 .. Infinity - 1, vertex : Vertices]
      BY <3>1, <2>a DEF TypeOK
    <3> HIDE DEF task
    <3> QED BY <3>2, <3>3, <2>a DEF graph, TypeOK, IsRows
  <2>2. TasksValid'
    <3>1. task.vertex = tgt(w) /\ task.dist = newDist(w) OBVIOUS
    <3>2. \A x \in Workers : pc'[x] # "idle" => pc[x] # "idle" BY <2>a DEF TypeOK
    <3> HIDE DEF task
    <3> QED BY <3>1, <3>2, <2>a, <2>b DEF TasksValid
  <2>3. EdgesInHand'
    <3> SUFFICES ASSUME NEW x \in Workers PROVE EdgesInHand!(x)'
      BY DEF EdgesInHand
    <3>0. sourcePointers[val[x].vertex] \in 0 .. NumEdges
      BY RowsAreEdges DEF TypeOK
    <3>1. CASE x = w
      <4>1. sourcePointers[val[w].vertex] <= index[w]
        BY <2>a DEF EdgesInHand
      <4>2. /\ pc'[w] = "edges" /\ index'[w] = index[w] + 1
            /\ val' = val /\ sourcePointers' = sourcePointers
        BY <2>a, <2>b DEF TypeOK, graph
      <4>3. sourcePointers'[val'[w].vertex] <= index'[w]
        BY <4>1, <4>2, <3>0, <3>1, <2>b DEF Edges
      <4> QED BY <4>2, <4>3, <3>1
    <3>2. CASE x # w
      BY <3>2, <2>a DEF graph, EdgesInHand, Row, tgt, newDist, TypeOK
    <3> QED BY <3>1, <3>2
  <2>4. NoImprovementLost'
    <3> SUFFICES ASSUME NEW v \in Vertices, distance[v] < Infinity, NEW e \in Row(v),
                        ~ Relaxed(v, e)
                 PROVE  Announced(v)' \/ \E x \in Workers : InHand(x, v)' /\ index'[x] <= e
      BY <2>a DEF NoImprovementLost, graph, Row, Relaxed
    <3>0. e \in Int /\ distance[v] \in Nat
      <4>1. e \in Edges BY RowsAreEdges
      <4> QED BY <4>1 DEF Edges, TypeOK
    <3>1. CASE Announced(v)
      <4>1. CASE tgt(w) = v /\ newDist(w) = distance[v]
        BY <4>1, <2>a DEF Announced, graph
      <4>2. CASE [dist |-> distance[v], vertex |-> v] \in pool
        BY <4>2, <2>a DEF Announced, graph
      <4>3. ASSUME NEW x \in Workers, x # w, pc[x] = "enqueue", tgt(x) = v,
                   newDist(x) = distance[v]
            PROVE  Announced(v)'
        <5>1. pc'[x] = "enqueue" /\ tgt(x)' = v /\ newDist(x)' = distance'[v]
          BY <4>3, <2>a DEF TypeOK, tgt, newDist, graph
        <5> QED BY <5>1 DEF Announced
      <4> QED BY <3>1, <4>1, <4>2, <4>3 DEF Announced
    <3>2. ASSUME NEW x \in Workers, InHand(x, v), index[x] <= e
          PROVE  InHand(x, v)' /\ index'[x] <= e
      <4>1. InHand(x, v)' BY <3>2, <2>a DEF InHand, TypeOK
      <4>2. CASE x # w BY <4>1, <4>2, <3>2, <2>a DEF TypeOK
      <4>3. CASE x = w
        <5>1. val[w].dist = distance[v] /\ val[w].vertex = v
          BY <3>2, <4>3 DEF InHand
        <5>2. distance[tgt(w)] <= distance[v] + 1
          BY <5>1, <2>b
        <5>3. index[w] # e
          BY <5>2 DEF Relaxed, tgt
        <5>4. index'[w] = index[w] + 1 /\ index[w] \in Int
          BY <2>a, <2>b DEF TypeOK, Edges
        <5>5. index'[w] <= e
          BY <5>3, <5>4, <4>3, <3>2, <3>0
        <5> QED BY <5>5, <4>1, <4>3
      <4> QED BY <4>1, <4>2, <4>3
    <3> QED BY <3>1, <3>2 DEF NoImprovementLost
  <2>5. FromEdges' BY <2>a DEF graph, FromEdges, Row
  <2> QED BY <2>1, <2>2, <2>3, <2>4, <2>5
<1>8. ASSUME NEW w \in Workers, Finish(w) PROVE IInv'
  <2>a. /\ pc[w] = "edges" /\ pc' = [pc EXCEPT ![w] = "idle"]
        /\ index[w] >= sourcePointers[val[w].vertex + 1]
        /\ UNCHANGED <<graph, distance, pool, val, index, currDist>>
    BY <1>8 DEF Finish
  <2>1. TypeOK' BY <2>a DEF graph, TypeOK, IsRows
  <2>2. TasksValid' BY <2>a DEF graph, TasksValid, TypeOK
  <2>3. EdgesInHand' BY <2>a DEF graph, EdgesInHand, Row, tgt, newDist, TypeOK
  <2>4. NoImprovementLost'
    <3>1. \A v \in Vertices : Announced(v) => Announced(v)'
      BY <2>a DEF Announced, graph, tgt, newDist, TypeOK
    <3>2. ASSUME NEW v \in Vertices, NEW e \in Row(v), NEW x \in Workers,
                 InHand(x, v), index[x] <= e
          PROVE  InHand(x, v)'
      <4>1. x # w
        <5>1. SUFFICES ASSUME x = w PROVE FALSE OBVIOUS
        <5>2. val[w].vertex = v BY <5>1, <3>2 DEF InHand
        <5>3. e < sourcePointers[v + 1] BY RowsAreEdges DEF Row
        <5>4. /\ index[w] \in Int /\ sourcePointers[v + 1] \in Int /\ e \in Int
          <6>1. e \in Edges BY RowsAreEdges
          <6>2. index[w] \in 0 .. NumEdges BY InRange
          <6>3. sourcePointers[v + 1] \in 0 .. NumEdges BY RowsAreEdges
          <6> QED BY <6>1, <6>2, <6>3 DEF Edges
        <5> QED BY <5>1, <5>2, <5>3, <5>4, <3>2, <2>a
      <4> QED BY <4>1, <3>2, <2>a DEF InHand, TypeOK
    <3> QED BY <3>1, <3>2, <2>a DEF NoImprovementLost, graph, Row, Relaxed
  <2>5. FromEdges' BY <2>a DEF graph, FromEdges, Row
  <2> QED BY <2>1, <2>2, <2>3, <2>4, <2>5
<1> QED
  BY <1>0, <1>1, <1>2, <1>3, <1>4, <1>5, <1>6, <1>7, <1>8 DEF Next, Step

(* The invariant holds in every reachable state. *)
THEOREM Invariance == Spec => []IInv
<1>1. Init => IInv BY InitInv
<1>2. IInv /\ [Next]_vars => IInv' BY StepInv
<1> QED BY <1>1, <1>2, PTL DEF Spec

(* Types, and that indices of edges stay within the arrays. *)
THEOREM TypeCorrect == Spec => []TypeOK
<1>1. IInv => TypeOK BY DEF IInv
<1> QED BY <1>1, Invariance, PTL

(* No improvement of a distance is lost, in whatever order the workers      *)
(* process the tasks and however their loads and exchanges interleave.      *)
THEOREM NothingLost == Spec => []NoImprovementLost
<1>1. IInv => NoImprovementLost BY DEF IInv
<1> QED BY <1>1, Invariance, PTL

(* When nothing is left, nothing can improve.                               *)
LEMMA FinishedFixpoint == IInv /\ Finished => IsFixpoint
<1> SUFFICES ASSUME IInv, Finished PROVE IsFixpoint
  OBVIOUS
<1>1. ASSUME NEW v \in Vertices, distance[v] < Infinity, NEW e \in Row(v)
      PROVE  Relaxed(v, e)
  BY <1>1 DEF IInv, NoImprovementLost, Finished, Announced, InHand
<1>2. ASSUME NEW v \in Vertices, v # Source, distance[v] < Infinity
      PROVE  \E u \in Vertices : \E e \in Row(u) :
               edgeTargets[e] = v /\ distance[v] = distance[u] + 1
  <2>0. PICK u \in Vertices : \E e \in Row(u) :
          edgeTargets[e] = v /\ distance[u] + 1 <= distance[v]
    BY <1>2 DEF IInv, FromEdges
  <2>1. PICK e \in Row(u) : edgeTargets[e] = v /\ distance[u] + 1 <= distance[v]
    BY <2>0
  <2>2. distance[u] \in Nat /\ distance[v] \in Nat
    BY DistanceRange DEF IInv
  <2>3. Relaxed(u, e)
    BY <1>1, <1>2, <2>1, <2>2
  <2> QED BY <2>1, <2>2, <2>3 DEF Relaxed
<1> QED BY <1>1, <1>2 DEF IInv, FromEdges, IsFixpoint

(* When the queue has finished, no edge improves on the distances, and      *)
(* each distance but that of the source comes from an edge.                 *)
THEOREM FixpointCorrect == Spec => []FinishedAtFixpoint
<1>1. IInv => FinishedAtFixpoint BY FinishedFixpoint DEF FinishedAtFixpoint
<1> QED BY <1>1, Invariance, PTL

-----------------------------------------------------------------------------
(* From the fixpoint to paths *)

(* The vertices to which an edge leads from one in S *)
Targets(S) == {edgeTargets[e] : e \in UNION {Row(v) : v \in S}}

(* r says for each number of steps up to n which vertices are reached.      *)
IsReached(r, n) ==
  r = [k \in 0 .. n |-> IF k = 0 THEN {Source} ELSE r[k - 1] \cup Targets(r[k - 1])]

(* Such a function exists, for every number of steps.                       *)
LEMMA ReachedExists ==
  ASSUME NEW n \in Nat
  PROVE  \E r : IsReached(r, n)
<1> DEFINE Bad == {k \in 0 .. n : ~ \E r : IsReached(r, k)}
<1>1. SUFFICES ASSUME Bad # {} PROVE FALSE
  <2>1. n \in 0 .. n
    OBVIOUS
  <2> QED BY <2>1
<1>2. PICK m \in Bad : \A k \in Bad : m <= k
  <2>1. Bad \subseteq Nat
    OBVIOUS
  <2> HIDE DEF Bad
  <2> QED BY <1>1, <2>1, LeastNat
<1>3. CASE m = 0
  <2> DEFINE z == [k \in 0 .. 0 |-> {Source}]
  <2>1. IsReached(z, 0)
    BY DEF IsReached
  <2> QED BY <2>1, <1>3
<1>4. CASE m # 0
  <2>1. m - 1 \in 0 .. n /\ m - 1 \notin Bad
    BY <1>2, <1>4
  <2>2. PICK r : IsReached(r, m - 1)
    BY <2>1
  <2> DEFINE t == [k \in 0 .. m |->
                     IF k = m THEN r[m - 1] \cup Targets(r[m - 1]) ELSE r[k]]
  <2>3. ASSUME NEW k \in 0 .. m
        PROVE  t[k] = IF k = 0 THEN {Source} ELSE t[k - 1] \cup Targets(t[k - 1])
    <3>1. CASE k = m
      BY <3>1, <1>4
    <3>2. CASE k # m
      <4>0. k \in 0 .. m - 1
        BY <1>2, <3>2
      <4>1. r[k] = IF k = 0 THEN {Source} ELSE r[k - 1] \cup Targets(r[k - 1])
        BY <4>0, <2>2, Zenon DEF IsReached
      <4>2. k # 0 => t[k - 1] = r[k - 1]
        BY <3>2
      <4> QED BY <4>1, <4>2, <3>2
    <3> QED BY <3>1, <3>2
  <2>4. IsReached(t, m)
    BY <2>3 DEF IsReached
  <2> QED BY <2>4
<1> QED BY <1>3, <1>4

(* The recursive definition means what it says.                             *)
LEMMA ReachedRec ==
  /\ Reached[0] = {Source}
  /\ \A n \in 1 .. NumVertices : Reached[n] = Reached[n - 1] \cup Targets(Reached[n - 1])
<1>1. PICK r : IsReached(r, NumVertices)
  BY ReachedExists
<1>2. Reached = CHOOSE t : IsReached(t, NumVertices)
  BY DEF Reached, IsReached, Targets
<1>3. IsReached(Reached, NumVertices)
  BY <1>1, <1>2
<1>4. /\ Reached[0] = {Source}
      /\ \A n \in 1 .. NumVertices : Reached[n] = Reached[n - 1] \cup Targets(Reached[n - 1])
  <2> DEFINE t == Reached
  <2>1. IsReached(t, NumVertices)
    BY <1>3
  <2> HIDE DEF t
  <2>2. t[0] = {Source}
    BY <2>1 DEF IsReached
  <2>3. ASSUME NEW n \in 1 .. NumVertices PROVE t[n] = t[n - 1] \cup Targets(t[n - 1])
    <3>1. n \in 0 .. NumVertices /\ n # 0
      OBVIOUS
    <3>2. t[n] = IF n = 0 THEN {Source} ELSE t[n - 1] \cup Targets(t[n - 1])
      BY <3>1, <2>1, Zenon DEF IsReached
    <3> QED BY <3>1, <3>2
  <2> QED BY <2>2, <2>3 DEF t
<1> QED BY <1>4

(* What is reached later comes from an edge.                                *)
LEMMA ReachedByEdge ==
  ASSUME NEW n \in 1 .. NumVertices, NEW v \in Reached[n], v \notin Reached[n - 1]
  PROVE  \E u \in Reached[n - 1] : \E e \in Row(u) : edgeTargets[e] = v
<1>1. v \in Targets(Reached[n - 1])
  BY ReachedRec
<1> QED BY <1>1 DEF Targets

(* A vertex reached in n steps has at most the distance n: the edges on the *)
(* way are relaxed.                                                         *)
LEMMA ReachedBound ==
  ASSUME TypeOK, IsFixpoint, NEW n \in 0 .. NumVertices
  PROVE  \A v \in Reached[n] : v \in Vertices /\ distance[v] <= n
<1> DEFINE Good(k) == \A v \in Reached[k] : v \in Vertices /\ distance[v] <= k
           Bad == {k \in 0 .. NumVertices : ~ Good(k)}
<1>1. SUFFICES ASSUME Bad # {} PROVE FALSE
  OBVIOUS
<1>2. PICK m \in Bad : \A k \in Bad : m <= k
  <2>1. Bad \subseteq Nat
    OBVIOUS
  <2> HIDE DEF Bad
  <2> QED BY <1>1, <2>1, LeastNat
<1>3. PICK v \in Reached[m] : ~ (v \in Vertices /\ distance[v] <= m)
  BY <1>2
<1>4. m # 0
  <2>1. Source \in Vertices /\ distance[Source] = 0
    BY DEF Source, Vertices, IsFixpoint
  <2> QED BY <2>1, <1>3, ReachedRec
<1>5. m \in 1 .. NumVertices /\ m - 1 \in 0 .. NumVertices /\ Good(m - 1)
  BY <1>2, <1>4
<1>6. v \notin Reached[m - 1]
  <2>1. v \in Reached[m - 1] => v \in Vertices /\ distance[v] <= m - 1
    BY <1>5
  <2>2. v \in Vertices => distance[v] \in Nat
    BY DistanceRange
  <2> QED BY <2>1, <2>2, <1>3, <1>5
<1>7. PICK u \in Reached[m - 1] : \E e \in Row(u) : edgeTargets[e] = v
  BY <1>3, <1>5, <1>6, ReachedByEdge
<1>8. u \in Vertices /\ distance[u] <= m - 1
  BY <1>5
<1>9. PICK e \in Row(u) : edgeTargets[e] = v
  BY <1>7
<1>10. v \in Vertices
  <2>1. e \in Edges BY <1>8, RowsAreEdges
  <2> QED BY <2>1, <1>9 DEF TypeOK
<1>11. distance[u] \in Nat /\ distance[v] \in Nat
  BY <1>8, <1>10, DistanceRange
<1>12. distance[u] < Infinity
  BY <1>5, <1>8, <1>11
<1>13. distance[v] <= distance[u] + 1
  BY <1>8, <1>9, <1>12 DEF IsFixpoint, Relaxed
<1> QED BY <1>3, <1>5, <1>8, <1>10, <1>11, <1>13

(* A vertex at distance d is reached in d steps: each distance comes from a *)
(* distance that is smaller by one.                                         *)
LEMMA DistanceReached ==
  ASSUME TypeOK, IsFixpoint, NEW d \in 0 .. NumVertices, d < Infinity
  PROVE  \A v \in Vertices : distance[v] = d => v \in Reached[d]
<1> DEFINE Good(k) == \A v \in Vertices : distance[v] = k => v \in Reached[k]
           Bad == {k \in 0 .. d : ~ Good(k)}
<1>1. SUFFICES ASSUME Bad # {} PROVE FALSE
  <2>1. d \in 0 .. d OBVIOUS
  <2> QED BY <2>1
<1>2. PICK m \in Bad : \A k \in Bad : m <= k
  <2>1. Bad \subseteq Nat
    OBVIOUS
  <2> HIDE DEF Bad
  <2> QED BY <1>1, <2>1, LeastNat
<1>3. PICK v \in Vertices : distance[v] = m /\ v \notin Reached[m]
  BY <1>2
<1>4. m < Infinity /\ m \in Nat
  BY <1>2
<1>5. v # Source
  <2>1. v = Source => m = 0 BY <1>3 DEF IsFixpoint
  <2> QED BY <2>1, <1>3, ReachedRec
<1>6. PICK u \in Vertices : \E e \in Row(u) : edgeTargets[e] = v /\ distance[v] = distance[u] + 1
  BY <1>3, <1>4, <1>5 DEF IsFixpoint
<1>7. PICK e \in Row(u) : edgeTargets[e] = v /\ distance[v] = distance[u] + 1
  BY <1>6
<1>8. distance[u] \in Nat
  BY DistanceRange
<1>9. m \in 1 .. NumVertices /\ distance[u] = m - 1 /\ m - 1 \in 0 .. d
  BY <1>2, <1>3, <1>7, <1>8
<1>10. u \in Reached[m - 1]
  <2>1. m - 1 \notin Bad BY <1>2, <1>9
  <2> QED BY <2>1, <1>9
<1>11. v \in Targets(Reached[m - 1])
  BY <1>7, <1>10 DEF Targets
<1> QED BY <1>3, <1>9, <1>11, ReachedRec

(* Whatever is below the distance of a vertex is a distance too.            *)
LEMMA LowerDistances ==
  ASSUME TypeOK, IsFixpoint, NEW v \in Vertices, distance[v] < Infinity,
         NEW d \in 0 .. distance[v]
  PROVE  \E u \in Vertices : distance[u] = d
<1> DEFINE D == distance[v]
           Bad == {k \in 0 .. D : ~ \E u \in Vertices : distance[u] = D - k}
<1>0. D \in Nat /\ D < Infinity
  BY DistanceRange
<1>1. SUFFICES ASSUME Bad # {} PROVE FALSE
  <2>1. D - d \in 0 .. D /\ D - (D - d) = d BY <1>0
  <2> QED BY <2>1
<1>2. PICK m \in Bad : \A k \in Bad : m <= k
  <2>1. Bad \subseteq Nat
    BY <1>0
  <2> HIDE DEF Bad
  <2> QED BY <1>1, <2>1, LeastNat
<1>3. m \in 0 .. D /\ ~ \E u \in Vertices : distance[u] = D - m
  BY <1>2
<1>4. m # 0
  BY <1>0, <1>3
<1> HIDE DEF D
<1>5. m - 1 \in 0 .. D /\ m - 1 \notin Bad /\ D - (m - 1) = D - m + 1
  BY <1>0, <1>2, <1>3, <1>4
<1>6. PICK u \in Vertices : distance[u] = D - m + 1
  BY <1>5
<1>7. u # Source /\ distance[u] < Infinity
  BY <1>0, <1>3, <1>4, <1>6 DEF IsFixpoint
<1>8. PICK x \in Vertices : \E e \in Row(x) : edgeTargets[e] = u /\ distance[u] = distance[x] + 1
  BY <1>7 DEF IsFixpoint
<1>9. distance[x] \in Nat
  BY DistanceRange
<1>10. distance[x] = D - m
  BY <1>0, <1>3, <1>6, <1>8, <1>9
<1> QED BY <1>3, <1>10

(* So a vertex that is reached has as many others below it as its distance  *)
(* says: its distance is less than the number of vertices in any set that   *)
(* has all those that are reached.                                          *)
LEMMA DistanceBelow ==
  ASSUME TypeOK, IsFixpoint, NEW S, S \subseteq Vertices,
         \A u \in Vertices : distance[u] < Infinity => u \in S,
         NEW v \in Vertices, distance[v] < Infinity
  PROVE  distance[v] < Cardinality(S)
<1> DEFINE D == distance[v]
           L == {u \in S : distance[u] <= D}
           f == [u \in L |-> distance[u]]
<1>0. D \in Nat
  BY DistanceRange
<1>1. f \in Surjection(L, 0 .. D)
  <2>1. f \in [L -> 0 .. D]
    <3>1. \A u \in L : distance[u] \in 0 .. D
      BY <1>0, DistanceRange
    <3> HIDE DEF L, D
    <3> QED BY <3>1
  <2>2. ASSUME NEW d \in 0 .. D PROVE \E u \in L : f[u] = d
    <3>1. PICK u \in Vertices : distance[u] = d BY LowerDistances
    <3>2. u \in L BY <3>1, <1>0
    <3> QED BY <3>1, <3>2
  <2> HIDE DEF f
  <2> QED BY <2>1, <2>2 DEF Surjection
<1>2. IsFiniteSet(S)
  <2>1. IsFiniteSet(Vertices) BY FS_Interval DEF Vertices
  <2> QED BY <2>1, FS_Subset
<1>3. IsFiniteSet(L) /\ Cardinality(L) <= Cardinality(S)
  BY <1>2, FS_Subset
<1>4. Cardinality(0 .. D) = D + 1
  BY <1>0, FS_Interval
<1> HIDE DEF f, L
<1>5. Cardinality(0 .. D) <= Cardinality(L)
  BY <1>1, <1>3, FS_Surjection
<1>6. Cardinality(L) \in Nat /\ Cardinality(S) \in Nat
  BY <1>2, <1>3, FS_CardinalityType
<1> QED BY <1>0, <1>3, <1>4, <1>5, <1>6

(* An improvement is possible as long as a vertex that has been reached has *)
(* an edge to one that has not; so in a fixpoint the vertices without a     *)
(* distance are those to which no path leads.                               *)
LEMMA UnreachedHaveNone ==
  ASSUME TypeOK, IsFixpoint, NEW v \in Vertices, distance[v] = Infinity
  PROVE  v \notin Reached[NumVertices]
<1> DEFINE T == {n \in 0 .. NumVertices : v \in Reached[n]}
<1>1. SUFFICES ASSUME v \in Reached[NumVertices] PROVE FALSE
  OBVIOUS
<1>2. PICK m \in T : \A k \in T : m <= k
  <2>1. NumVertices \in T /\ T \subseteq Nat
    BY <1>1
  <2> HIDE DEF T
  <2> QED BY <2>1, LeastNat
<1>3. m # 0
  <2>1. m = 0 => v = Source BY <1>2, ReachedRec
  <2> QED BY <2>1 DEF IsFixpoint
<1>4. m \in 1 .. NumVertices /\ m - 1 \in 0 .. NumVertices /\ v \in Reached[m] /\ v \notin Reached[m - 1]
  BY <1>2, <1>3
<1>5. PICK u \in Reached[m - 1] : \E e \in Row(u) : edgeTargets[e] = v
  BY <1>4, ReachedByEdge
<1>6. u \in Vertices /\ distance[u] <= m - 1
  BY <1>4, ReachedBound
<1>7. distance[u] \in Nat /\ distance[u] < Infinity
  BY <1>4, <1>6, DistanceRange
<1>8. distance[v] <= distance[u] + 1
  BY <1>5, <1>6, <1>7 DEF IsFixpoint, Relaxed
<1>9. distance[u] < NumVertices - 1
  <2>1. \A x \in Vertices : distance[x] < Infinity => x \in Vertices \ {v}
    OBVIOUS
  <2>2. distance[u] < Cardinality(Vertices \ {v})
    BY <2>1, <1>6, <1>7, DistanceBelow
  <2>3. IsFiniteSet(Vertices) /\ Cardinality(Vertices) = NumVertices
    BY FS_Interval DEF Vertices
  <2>4. Cardinality(Vertices \ {v}) = NumVertices - 1
    BY <2>3, FS_RemoveElement
  <2> QED BY <2>2, <2>4
<1> QED BY <1>7, <1>8, <1>9

(* When the queue has finished, each vertex has its distance from the       *)
(* source, as a breadth-first search finds it, whatever order the workers   *)
(* processed the tasks in; one to which no path leads has none.             *)
THEOREM AnswerIsCorrect == Spec => []AnswerCorrect
<1>1. ASSUME IInv, Finished, NEW v \in Vertices
      PROVE  \/ distance[v] = Infinity /\ v \notin Reached[NumVertices]
             \/ /\ distance[v] \in 0 .. NumVertices
                /\ v \in Reached[distance[v]]
                /\ distance[v] > 0 => v \notin Reached[distance[v] - 1]
  <2>1. TypeOK /\ IsFixpoint
    BY <1>1, FinishedFixpoint DEF IInv
  <2>2. distance[v] \in Nat /\ distance[v] <= Infinity
    BY <2>1, DistanceRange
  <2>3. CASE distance[v] = Infinity
    BY <2>1, <2>3, UnreachedHaveNone
  <2>4. CASE distance[v] < Infinity
    <3>1. distance[v] < NumVertices
      <4>1. IsFiniteSet(Vertices) /\ Cardinality(Vertices) = NumVertices
        BY FS_Interval DEF Vertices
      <4> QED BY <4>1, <2>1, <2>4, DistanceBelow
    <3>2. distance[v] \in 0 .. NumVertices
      BY <3>1, <2>2
    <3>3. v \in Reached[distance[v]]
      BY <3>2, <2>1, <2>4, DistanceReached
    <3>4. ASSUME distance[v] > 0, v \in Reached[distance[v] - 1] PROVE FALSE
      <4>1. distance[v] - 1 \in 0 .. NumVertices BY <3>2, <3>4
      <4>2. distance[v] <= distance[v] - 1 BY <4>1, <3>4, <2>1, ReachedBound
      <4> QED BY <4>2, <2>2
    <3> QED BY <3>2, <3>3, <3>4
  <2> QED BY <2>2, <2>3, <2>4
<1>2. IInv => AnswerCorrect BY <1>1 DEF AnswerCorrect
<1> QED BY <1>2, Invariance, PTL

-----------------------------------------------------------------------------
(* The queue as a pool                                                      *)

(* The task that a worker has won the exchange for *)
NewTask(w) == [dist |-> newDist(w), vertex |-> tgt(w)]

(* It is not in the queue, and no other worker is about to put it there.    *)
AnnouncedOnce ==
  /\ IsFiniteSet(pool)
  /\ \A w \in Workers : pc[w] = "enqueue" => NewTask(w) \notin pool
  /\ \A w, x \in Workers :
       w # x /\ pc[w] = "enqueue" /\ pc[x] = "enqueue" => NewTask(w) # NewTask(x)

(* An exchange succeeds only at a smaller distance than any before.         *)
LEMMA AnnouncedByExchange ==
  ASSUME IInv, AnnouncedOnce, NEW w \in Workers, Exchange(w)
  PROVE  AnnouncedOnce'
<1>0. TypeOK /\ TasksValid /\ EdgesInHand
  BY DEF IInv
<1>1. /\ pc[w] = "update" /\ newDist(w) < currDist[w] /\ distance[tgt(w)] = currDist[w]
      /\ pc' = [pc EXCEPT ![w] = "enqueue"]
      /\ pool' = pool /\ val' = val /\ index' = index /\ edgeTargets' = edgeTargets
  BY DEF Exchange, graph
<1>2. \A x : NewTask(x)' = NewTask(x)
  BY <1>1 DEF NewTask, newDist, tgt
<1>3. newDist(w) \in Nat /\ distance[tgt(w)] \in Nat /\ newDist(w) < distance[tgt(w)]
  BY <1>0, <1>1, InRange, DistanceRange
<1>4. NewTask(w) \notin pool
  <2> SUFFICES ASSUME NewTask(w) \in pool PROVE FALSE
    OBVIOUS
  <2>1. distance[NewTask(w).vertex] <= NewTask(w).dist
    BY <1>0 DEF TasksValid
  <2>2. distance[tgt(w)] <= newDist(w)
    BY <2>1 DEF NewTask
  <2> QED BY <1>3, <2>2
<1>5. ASSUME NEW x \in Workers, x # w, pc[x] = "enqueue" PROVE NewTask(w) # NewTask(x)
  <2> SUFFICES ASSUME tgt(w) = tgt(x), newDist(w) = newDist(x) PROVE FALSE
    BY DEF NewTask
  <2>1. distance[tgt(x)] <= newDist(x)
    BY <1>0, <1>5 DEF EdgesInHand
  <2> QED BY <1>3, <2>1
<1>6. \A x \in Workers : pc'[x] = "enqueue" => x = w \/ pc[x] = "enqueue"
  BY <1>0, <1>1 DEF TypeOK
<1>7. \A x \in Workers : pc'[x] = "enqueue" => NewTask(x) \notin pool
  BY <1>4, <1>6 DEF AnnouncedOnce
<1>8. \A x, y \in Workers :
        x # y /\ pc'[x] = "enqueue" /\ pc'[y] = "enqueue" => NewTask(x) # NewTask(y)
  BY <1>5, <1>6 DEF AnnouncedOnce
<1> QED BY <1>1, <1>2, <1>7, <1>8 DEF AnnouncedOnce

(* Every step keeps it. *)
LEMMA AnnouncedStep ==
  ASSUME IInv, AnnouncedOnce, [Next]_vars
  PROVE  AnnouncedOnce'
<1>0. pc \in [Workers -> {"idle", "edges", "update", "enqueue"}]
  BY DEF IInv, TypeOK
<1>1. ASSUME pool' \subseteq pool,
             \A x \in Workers : pc'[x] = "enqueue" =>
               pc[x] = "enqueue" /\ val'[x] = val[x] /\ index'[x] = index[x],
             edgeTargets' = edgeTargets
      PROVE  AnnouncedOnce'
  <2>1. IsFiniteSet(pool')
    BY <1>1, FS_Subset DEF AnnouncedOnce
  <2>2. \A x \in Workers : pc'[x] = "enqueue" => pc[x] = "enqueue" /\ NewTask(x)' = NewTask(x)
    BY <1>1 DEF NewTask, newDist, tgt
  <2> QED BY <1>1, <2>1, <2>2 DEF AnnouncedOnce
<1>2. ASSUME NEW w \in Workers, Step(w) PROVE AnnouncedOnce'
  <2>1. CASE Exchange(w)
    BY <2>1, AnnouncedByExchange
  <2>2. CASE Enqueue(w)
    <3>1. /\ pc[w] = "enqueue" /\ pool' = pool \cup {NewTask(w)}
          /\ pc' = [pc EXCEPT ![w] = "edges"] /\ index' = [index EXCEPT ![w] = @ + 1]
          /\ val' = val /\ edgeTargets' = edgeTargets
      BY <2>2 DEF Enqueue, NextEdge, NewTask, graph
    <3>2. ASSUME NEW x \in Workers, pc'[x] = "enqueue"
          PROVE  x # w /\ pc[x] = "enqueue" /\ NewTask(x)' = NewTask(x)
      <4>1. x # w /\ pc[x] = "enqueue"
        BY <1>0, <3>1, <3>2
      <4>2. index'[x] = index[x]
        BY <3>1, <4>1 DEF IInv, TypeOK
      <4> QED BY <3>1, <4>1, <4>2 DEF NewTask, newDist, tgt
    <3>3. IsFiniteSet(pool')
      BY <3>1, FS_AddElement DEF AnnouncedOnce
    <3>4. \A x \in Workers : pc'[x] = "enqueue" => NewTask(x)' \notin pool'
      BY <3>1, <3>2 DEF AnnouncedOnce
    <3>5. \A x, y \in Workers :
            x # y /\ pc'[x] = "enqueue" /\ pc'[y] = "enqueue" => NewTask(x)' # NewTask(y)'
      BY <3>2 DEF AnnouncedOnce
    <3> QED BY <3>3, <3>4, <3>5 DEF AnnouncedOnce
  <2>3. CASE Drop(w)
    BY <1>1, <2>3 DEF Drop, graph
  <2>4. CASE Take(w)
    <3>1. /\ pool' \subseteq pool /\ pc' = [pc EXCEPT ![w] = "edges"] /\ edgeTargets' = edgeTargets
      BY <2>4 DEF Take, graph
    <3>2. PICK t : /\ val' = [val EXCEPT ![w] = t]
                   /\ index' = [index EXCEPT ![w] = sourcePointers[t.vertex]]
      BY <2>4 DEF Take
    <3>3. ASSUME NEW x \in Workers, pc'[x] = "enqueue"
          PROVE  pc[x] = "enqueue" /\ val'[x] = val[x] /\ index'[x] = index[x]
      <4>1. x # w /\ pc[x] = "enqueue"
        BY <1>0, <3>1, <3>3
      <4> QED BY <3>2, <4>1 DEF IInv, TypeOK
    <3> QED BY <1>1, <3>1, <3>3
  <2>5. CASE Load(w) \/ NotNearer(w) \/ Finish(w)
    <3>1. pool' = pool /\ val' = val /\ edgeTargets' = edgeTargets
      BY <2>5 DEF Load, NotNearer, Finish, graph
    <3>2. \E p \in {"edges", "update", "idle"} : pc' = [pc EXCEPT ![w] = p]
      BY <2>5 DEF Load, NotNearer, NextEdge, Finish
    <3>3. index' = index \/ index' = [index EXCEPT ![w] = @ + 1]
      BY <2>5 DEF Load, NotNearer, NextEdge, Finish
    <3>4. ASSUME NEW x \in Workers, pc'[x] = "enqueue"
          PROVE  pc[x] = "enqueue" /\ index'[x] = index[x]
      <4>1. x # w /\ pc[x] = "enqueue"
        BY <1>0, <3>2, <3>4
      <4> QED BY <3>3, <4>1 DEF IInv, TypeOK
    <3> QED BY <1>1, <3>1, <3>4
  <2>6. CASE ExchangeFails(w)
    BY <1>1, <2>6 DEF ExchangeFails, graph
  <2> QED BY <1>2, <2>1, <2>2, <2>3, <2>4, <2>5, <2>6 DEF Step
<1>3. CASE UNCHANGED vars
  BY <1>1, <1>3 DEF vars, graph
<1> QED BY <1>2, <1>3 DEF Next

(* The workers that have a task in hand *)
Busy == {w \in Workers : pc[w] # "idle"}

LEMMA BusyFinite == IsFiniteSet(Busy) /\ Cardinality(Busy) \in Nat
<1>1. Busy \subseteq Workers
  BY DEF Busy
<1>2. IsFiniteSet(Busy)
  BY <1>1, FS_Subset
<1> QED BY <1>2, FS_CardinalityType

(* What each step does to the number of tasks *)
LEMMA LiveStep ==
  ASSUME IInv, AnnouncedOnce, NEW w \in Workers
  PROVE  /\ Enqueue(w) => LiveTasks > 0 /\ LiveTasks' = LiveTasks + 1
         /\ Drop(w) \/ Finish(w) => LiveTasks > 0 /\ LiveTasks' = LiveTasks - 1
         /\ Take(w) \/ Load(w) \/ NotNearer(w) \/ Exchange(w) \/ ExchangeFails(w)
              => LiveTasks' = LiveTasks
<1> DEFINE p == Cardinality(pool)
           b == Cardinality(Busy)
<1>0. /\ pc \in [Workers -> {"idle", "edges", "update", "enqueue"}]
      /\ IsFiniteSet(pool) /\ IsFiniteSet(Busy) /\ p \in Nat /\ b \in Nat
  BY BusyFinite, FS_CardinalityType DEF IInv, TypeOK, AnnouncedOnce
<1>1. LiveTasks = p + b /\ LiveTasks' = Cardinality(pool') + Cardinality(Busy')
  BY DEF LiveTasks, Busy
<1>2. ASSUME NEW q, pc[w] # "idle", q # "idle", pc' = [pc EXCEPT ![w] = q] PROVE Busy' = Busy
  BY <1>0, <1>2 DEF Busy
<1>3. pc[w] # "idle" => b > 0
  <2> SUFFICES ASSUME pc[w] # "idle" PROVE b > 0
    OBVIOUS
  <2>1. w \in Busy
    BY DEF Busy
  <2>2. b # 0
    BY <1>0, <2>1, FS_EmptySet
  <2> QED BY <1>0, <2>2
<1>4. ASSUME NEW t \in pool, pool' = pool \ {t}
      PROVE  p > 0 /\ Cardinality(pool') = p - 1
  <2>1. Cardinality(pool') = p - 1
    BY <1>0, <1>4, FS_RemoveElement
  <2>2. p # 0
    BY <1>0, FS_EmptySet
  <2> QED BY <1>0, <2>1, <2>2
<1>5. Enqueue(w) => LiveTasks > 0 /\ LiveTasks' = LiveTasks + 1
  <2> SUFFICES ASSUME Enqueue(w) PROVE LiveTasks > 0 /\ LiveTasks' = LiveTasks + 1
    OBVIOUS
  <2>1. /\ pc[w] = "enqueue" /\ pool' = pool \cup {NewTask(w)}
        /\ pc' = [pc EXCEPT ![w] = "edges"]
    BY DEF Enqueue, NextEdge, NewTask
  <2>2. NewTask(w) \notin pool
    BY <2>1 DEF AnnouncedOnce
  <2>3. Cardinality(pool') = p + 1
    BY <1>0, <2>1, <2>2, FS_AddElement
  <2>4. Busy' = Busy
    BY <1>2, <2>1
  <2> HIDE DEF p, b
  <2>5. LiveTasks' = p + 1 + b
    BY <1>1, <2>3, <2>4 DEF b
  <2> QED BY <1>0, <1>1, <1>3, <2>1, <2>5
<1>6. Drop(w) => LiveTasks > 0 /\ LiveTasks' = LiveTasks - 1
  <2> SUFFICES ASSUME Drop(w) PROVE LiveTasks > 0 /\ LiveTasks' = LiveTasks - 1
    OBVIOUS
  <2>1. PICK t \in pool : pool' = pool \ {t}
    BY DEF Drop
  <2>2. Busy' = Busy
    BY DEF Drop, Busy
  <2>3. p > 0 /\ Cardinality(pool') = p - 1
    BY <1>4, <2>1
  <2> QED BY <1>0, <1>1, <2>2, <2>3
<1>7. Finish(w) => LiveTasks > 0 /\ LiveTasks' = LiveTasks - 1
  <2> SUFFICES ASSUME Finish(w) PROVE LiveTasks > 0 /\ LiveTasks' = LiveTasks - 1
    OBVIOUS
  <2>1. pc[w] = "edges" /\ pool' = pool /\ pc' = [pc EXCEPT ![w] = "idle"]
    BY DEF Finish
  <2>2. Busy' = Busy \ {w} /\ w \in Busy
    BY <1>0, <2>1 DEF Busy
  <2>3. Cardinality(Busy') = b - 1
    BY <1>0, <2>2, FS_RemoveElement
  <2> QED BY <1>0, <1>1, <1>3, <2>1, <2>3
<1>8. Take(w) => LiveTasks' = LiveTasks
  <2> SUFFICES ASSUME Take(w) PROVE LiveTasks' = LiveTasks
    OBVIOUS
  <2>1. pc[w] = "idle" /\ pc' = [pc EXCEPT ![w] = "edges"]
    BY DEF Take
  <2>2. PICK t \in pool : pool' = pool \ {t}
    BY DEF Take
  <2>3. Busy' = Busy \cup {w} /\ w \notin Busy
    BY <1>0, <2>1 DEF Busy
  <2>4. Cardinality(Busy') = b + 1
    BY <1>0, <2>3, FS_AddElement
  <2>5. Cardinality(pool') = p - 1
    BY <1>4, <2>2
  <2> HIDE DEF p, b
  <2> QED BY <1>0, <1>1, <2>4, <2>5
<1>9. Load(w) \/ NotNearer(w) \/ Exchange(w) \/ ExchangeFails(w) => LiveTasks' = LiveTasks
  <2> SUFFICES ASSUME Load(w) \/ NotNearer(w) \/ Exchange(w) \/ ExchangeFails(w)
               PROVE  LiveTasks' = LiveTasks
    OBVIOUS
  <2>1. pool' = pool
    BY DEF Load, NotNearer, Exchange, ExchangeFails
  <2>2. pc[w] # "idle" /\ \E q \in {"edges", "update", "enqueue"} : pc' = [pc EXCEPT ![w] = q]
    <3>1. ASSUME ExchangeFails(w) PROVE pc[w] = "update" /\ pc' = [pc EXCEPT ![w] = "update"]
      BY <1>0, <3>1 DEF ExchangeFails
    <3> QED BY <3>1 DEF Load, NotNearer, NextEdge, Exchange
  <2>3. Busy' = Busy
    BY <1>2, <2>2
  <2> QED BY <1>1, <2>1, <2>3
<1> QED BY <1>5, <1>6, <1>7, <1>8, <1>9

(* The set of tasks of the model counts what the queue counts: every call   *)
(* of the workers changes the number of live tasks as TaskPool says, for    *)
(* every graph and any number of workers.                                   *)
THEOREM PoolUsed == Spec => CallsPool
<1>1. Init => AnnouncedOnce
  <2>1. \A t : IsFiniteSet({t})
    BY FS_Singleton
  <2> QED BY <2>1, ZenonT(60) DEF Init, AnnouncedOnce
<1>2. IInv /\ AnnouncedOnce /\ [Next]_vars => AnnouncedOnce'
  BY AnnouncedStep
<1>3. IInv /\ AnnouncedOnce /\ [Next]_vars =>
        [IF \E w \in Workers : Enqueue(w) THEN Pool!Add
         ELSE IF \E w \in Workers : Drop(w) \/ Finish(w) THEN Pool!Complete
         ELSE UNCHANGED LiveTasks]_vars
  <2> SUFFICES ASSUME IInv, AnnouncedOnce, Next
               PROVE  IF \E w \in Workers : Enqueue(w) THEN Pool!Add
                      ELSE IF \E w \in Workers : Drop(w) \/ Finish(w) THEN Pool!Complete
                      ELSE UNCHANGED LiveTasks
    OBVIOUS
  <2>1. CASE \E w \in Workers : Enqueue(w)
    BY <2>1, LiveStep DEF Pool!Add
  <2>2. CASE ~ (\E w \in Workers : Enqueue(w)) /\ \E w \in Workers : Drop(w) \/ Finish(w)
    BY <2>2, LiveStep DEF Pool!Complete
  <2>3. CASE ~ (\E w \in Workers : Enqueue(w)) /\ ~ \E w \in Workers : Drop(w) \/ Finish(w)
    <3>1. CASE \E w \in Workers : Step(w)
      <4>1. PICK w \in Workers :
              Take(w) \/ Load(w) \/ NotNearer(w) \/ Exchange(w) \/ ExchangeFails(w)
        BY <2>3, <3>1 DEF Step
      <4>2. LiveTasks' = LiveTasks
        BY <4>1, LiveStep
      <4> QED BY <2>3, <4>2
    <3>2. CASE UNCHANGED vars
      <4>1. LiveTasks' = LiveTasks
        BY <3>2 DEF vars, LiveTasks
      <4> QED BY <2>3, <4>1
    <3> QED BY <3>1, <3>2 DEF Next
  <2> QED BY <2>1, <2>2, <2>3
<1> QED BY <1>1, <1>2, <1>3, Invariance, PTL DEF Spec, CallsPool
=============================================================================
