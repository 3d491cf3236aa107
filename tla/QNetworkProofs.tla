---------------------------- MODULE QNetworkProofs ----------------------------
(***************************************************************************)
(* Theorems about QNetwork for networks of every size: each port has one    *)
(* producer, relabelling changes no target, the search for paths finds      *)
(* exactly the workers that can be reached, a network is valid exactly when *)
(* it can be used, and one that is valid is what the queue relies on.  The  *)
(* line graph of every network is the line graph and preserves all of that. *)
(* The predefined networks are valid and connected.                         *)
(***************************************************************************)
EXTENDS GraphExamples, LineGraph, SumTheorems

-----------------------------------------------------------------------------
(* Rows *)

(* Every channel is in the row of a worker, which std::upper_bound finds:   *)
(* the one before the first row that begins beyond the channel.             *)
LEMMA SourceRow ==
  ASSUME IsRows(vertexPointer), NEW c \in Channels
  PROVE  Source(c) \in Workers /\ c \in Out(Source(c))
<1> USE SizeAssumption
<1> DEFINE Beyond == {j \in 0 .. NumWorkers : vertexPointer[j] > c}
<1>0. vertexPointer \in [0 .. NumWorkers -> 0 .. NumChannels]
  BY DEF IsRows
<1>1. NumWorkers \in Beyond /\ 0 \notin Beyond
  BY DEF IsRows, Channels
<1>2. PICK m \in Beyond : \A k \in Beyond : m <= k
  <2>1. Beyond \subseteq Nat
    OBVIOUS
  <2> HIDE DEF Beyond
  <2> QED BY <1>1, <2>1, LeastNat
<1>3. \A k \in 0 .. m - 1 : vertexPointer[k] <= c
  BY <1>0, <1>2 DEF Channels
<1>4. PICK j \in 0 .. NumWorkers :
        /\ j = (CHOOSE i \in 0 .. NumWorkers :
                  /\ vertexPointer[i] > c
                  /\ \A k \in 0 .. i - 1 : vertexPointer[k] <= c)
        /\ vertexPointer[j] > c
        /\ \A k \in 0 .. j - 1 : vertexPointer[k] <= c
  BY <1>2, <1>3
<1>5. j # 0
  BY <1>1, <1>4
<1>6. Source(c) = j - 1
  BY <1>4 DEF Source
<1>7. j - 1 \in 0 .. j - 1 /\ j - 1 \in Workers /\ j - 1 + 1 = j
  BY <1>5 DEF Workers
<1>8. vertexPointer[j - 1] <= c
  BY <1>4, <1>7
<1>9. c \in vertexPointer[j - 1] .. vertexPointer[j] - 1
  BY <1>0, <1>4, <1>7, <1>8, SMTT(40) DEF Channels, Workers
<1> QED BY <1>6, <1>7, <1>9 DEF Out

(* No channel is in two rows. *)
LEMMA RowsDisjoint ==
  ASSUME IsRows(vertexPointer), NEW v \in Workers, NEW w \in Workers,
         NEW c, c \in Out(v), c \in Out(w)
  PROVE  v = w
<1>1. v + 1 <= w => vertexPointer[v + 1] <= vertexPointer[w]
  BY SizeAssumption DEF IsRows, Workers
<1>2. w + 1 <= v => vertexPointer[w + 1] <= vertexPointer[v]
  BY SizeAssumption DEF IsRows, Workers
<1>3. /\ vertexPointer[v] \in Int /\ vertexPointer[v + 1] \in Int
      /\ vertexPointer[w] \in Int /\ vertexPointer[w + 1] \in Int
  BY SizeAssumption DEF IsRows, Workers
<1> QED BY <1>1, <1>2, <1>3, SizeAssumption DEF Out, Workers

(* The owner is the worker whose row has the channel. *)
LEMMA OwnerRow ==
  ASSUME IsRows(vertexPointer), NEW c \in Channels
  PROVE  /\ Owner(c) \in Workers
         /\ c \in Out(Owner(c))
         /\ Source(c) = Owner(c)
         /\ \A w \in Workers : c \in Out(w) => Owner(c) = w
<1>1. Source(c) \in Workers /\ c \in Out(Source(c))
  BY SourceRow
<1>2. Owner(c) \in Workers /\ c \in Out(Owner(c))
  BY <1>1 DEF Owner
<1>3. \A w \in Workers : c \in Out(w) => Owner(c) = w
  BY <1>2, RowsDisjoint
<1> QED BY <1>1, <1>2, <1>3

(* A row has channels only. *)
LEMMA RowChannels ==
  ASSUME IsRows(vertexPointer), NEW w \in Workers, NEW c \in Out(w)
  PROVE  c \in Channels
<1>1. vertexPointer[w] \in 0 .. NumChannels /\ vertexPointer[w + 1] \in 0 .. NumChannels
  BY SizeAssumption DEF IsRows, Workers
<1> QED BY <1>1, SizeAssumption DEF Out, Channels

-----------------------------------------------------------------------------
(* The inductive invariant *)

(* The loops over the rows are inside a row, or at its end. *)
InRow ==
  pc \in {"ports", "labels"} =>
    /\ worker < NumWorkers =>
         vertexPointer[worker] <= edge /\ edge <= vertexPointer[worker + 1]
    /\ worker = NumWorkers => edge = NumChannels

(* The labels of the channels below edge, and of all in the end, are those  *)
(* of changeToSelfPushLabels.                                               *)
Labels ==
  /\ \A c \in Channels :
       \/ edgeTargets[c] = given[c]
       \/ edgeTargets[c] = NumWorkers /\ given[c] = Owner(c)
  /\ \A c \in Channels :
       IsConstructed \/ (pc = "labels" /\ c < edge) => edgeTargets[c] # Owner(c)

(* Nothing has been found that a path does not lead to; the targets of the  *)
(* worker have been found; and unless this pass has found something new,    *)
(* the channels of the workers it has visited lead nowhere new.             *)
Found ==
  pc = "search" =>
    /\ worker \in Workers
    /\ \A S \in SUBSET Workers :
         IsClosed(S) /\ (\A c \in Channels : Owner(c) = worker => Intended(c) \in S)
           => reachable \subseteq S
    /\ \A c \in Channels : Owner(c) = worker => Intended(c) \in reachable
    /\ ~ hasChanged =>
         \A c \in Channels :
           Owner(c) \in reachable /\ Owner(c) < visit => Intended(c) \in reachable

(* The workers before this one reach all. *)
EarlierReachAll ==
  pc = "search" => \A w \in Workers : w < worker => ReachableFrom(w) = Workers

IInv ==
  /\ GraphType
  /\ InRow
  /\ OneProducerPerPort
  /\ Labels
  /\ Found
  /\ EarlierReachAll
  /\ ConnectedCorrect

-----------------------------------------------------------------------------
(* One lemma for each action *)

(* What channel c of row w leads to is what it was meant to lead to. *)
LEMMA EndIntended ==
  ASSUME IsRows(vertexPointer), Labels, NEW c \in Channels,
         given \in [Channels -> 0 .. NumWorkers], NEW w \in Workers, Owner(c) = w
  PROVE  End(w, c) = Intended(c)
<1>1. edgeTargets[c] = given[c] \/ (edgeTargets[c] = NumWorkers /\ given[c] = Owner(c))
  BY DEF Labels
<1>2. Owner(c) # NumWorkers
  BY SizeAssumption DEF Workers
<1> QED BY <1>1, <1>2 DEF End, Intended

(* Channels lead to workers. *)
LEMMA IntendedWorker ==
  ASSUME IsRows(vertexPointer), NEW c \in Channels,
         given \in [Channels -> 0 .. NumWorkers]
  PROVE  Intended(c) \in Workers
<1>1. Owner(c) \in Workers
  BY OwnerRow
<1>2. given[c] \in 0 .. NumWorkers
  OBVIOUS
<1> QED BY <1>1, <1>2, SizeAssumption DEF Intended, Workers

(* The arrays as the constructor is called with them *)
LEMMA InitInv == Init => IInv
<1> SUFFICES ASSUME Init PROVE IInv
  OBVIOUS
<1> USE SizeAssumption
<1>1. DOMAIN targetPort = {}
  BY DEF Init, Begin
<1>2. GraphType
  <2>1. targetPort \in [{} -> Nat]
    BY DEF Init, Begin
  <2>2. Assigned = {} /\ targetPort \in [Assigned -> Nat]
    BY <1>1, <2>1 DEF Assigned
  <2>3. numPorts \in [Workers -> Nat]
    BY DEF Init, Begin
  <2>4. 0 \in 0 .. NumWorkers /\ 0 \in 0 .. NumChannels
    OBVIOUS
  <2> QED BY <2>2, <2>3, <2>4 DEF Init, Begin, GraphType
<1>3. OneProducerPerPort
  <2>1. \A w \in Workers : 0 .. numPorts[w] - 1 = {}
    BY DEF Init, Begin
  <2> QED BY <1>1, <2>1 DEF OneProducerPerPort, Assigned
<1>4. InRow /\ Found /\ EarlierReachAll /\ ConnectedCorrect
  BY DEF Init, Begin, InRow, Found, EarlierReachAll, ConnectedCorrect
<1>5. Labels
  BY DEF Init, Begin, Labels, IsConstructed
<1> QED BY <1>2, <1>3, <1>4, <1>5 DEF IInv

(* The constructors differ in what they do with the numbers. *)
LEMMA ConstructInv ==
  ASSUME IInv, pc = "construct", BeginPorts
  PROVE  IInv'
<1> USE SizeAssumption
<1>0. /\ vertexPointer' = vertexPointer /\ given' = given /\ edgeTargets' = edgeTargets
      /\ pc' = "ports" /\ worker' = 0 /\ edge' = 0
      /\ UNCHANGED search
  BY DEF BeginPorts, graph, IInv, GraphType, IsRows
<1>1. DOMAIN targetPort' = {} /\ targetPort' \in [{} -> Nat]
  BY DEF BeginPorts
<1>2. GraphType'
  <2>1. Assigned' = 0 .. edge' - 1
    BY <1>0, <1>1 DEF Assigned
  <2>2. numPorts' \in [Workers -> Nat]
    BY DEF BeginPorts
  <2>3. targetPort' \in [Assigned' -> Nat]
    BY <1>1 DEF Assigned
  <2> QED BY <1>0, <2>1, <2>2, <2>3 DEF IInv, GraphType, search, IsRows
<1>3. InRow'
  BY <1>0 DEF IInv, GraphType, IsRows, InRow, Workers
<1>4. OneProducerPerPort'
  <2>1. \A w \in Workers : 0 .. numPorts'[w] - 1 = {}
    BY DEF BeginPorts
  <2> QED BY <1>1, <2>1 DEF OneProducerPerPort, Assigned
<1>5. Labels'
  <2>1. \A c : Owner(c)' = Owner(c)
    BY <1>0 DEF Owner, Out
  <2> QED BY <1>0, <2>1 DEF IInv, Labels, IsConstructed
<1>6. Found' /\ EarlierReachAll' /\ ConnectedCorrect'
  BY <1>0 DEF Found, EarlierReachAll, ConnectedCorrect
<1> QED BY <1>2, <1>3, <1>4, <1>5, <1>6 DEF IInv
(* Owners and intended targets are facts of the graph, which never changes. *)
LEMMA GraphFixed ==
  ASSUME UNCHANGED graph
  PROVE  /\ vertexPointer' = vertexPointer /\ given' = given
         /\ \A w : Out(w)' = Out(w)
         /\ \A c : Owner(c)' = Owner(c)
         /\ \A c : Intended(c)' = Intended(c)
         /\ \A S : IsClosed(S)' = IsClosed(S)
         /\ \A w : ReachableFrom(w)' = ReachableFrom(w)
<1>1. vertexPointer' = vertexPointer /\ given' = given
  BY DEF graph
<1>2. \A w : Out(w)' = Out(w)
  BY <1>1 DEF Out
<1>3. \A c : Owner(c)' = Owner(c)
  BY <1>2 DEF Owner
<1>4. \A c : Intended(c)' = Intended(c)
  BY <1>1, <1>3 DEF Intended
<1>5. \A S : IsClosed(S)' = IsClosed(S)
  BY <1>3, <1>4 DEF IsClosed
<1>6. \A w : ReachableFrom(w)' = ReachableFrom(w)
  BY <1>3, <1>4, <1>5 DEF ReachableFrom
<1> QED BY <1>1, <1>2, <1>3, <1>4, <1>5, <1>6

(* In the middle of a row, the edge belongs to the worker of the row. *)
LEMMA EdgeOfRow ==
  ASSUME GraphType, InRow, pc \in {"ports", "labels"}, worker < NumWorkers,
         edge < vertexPointer[worker + 1]
  PROVE  worker \in Workers /\ edge \in Channels /\ Owner(edge) = worker
<1> USE SizeAssumption
<1>1. worker \in Workers
  BY DEF GraphType, Workers
<1>2. edge \in Out(worker)
  <2>1. vertexPointer[worker + 1] \in Int /\ vertexPointer[worker] \in Int
    BY <1>1 DEF GraphType, IsRows, Workers
  <2>2. vertexPointer[worker] <= edge
    BY DEF InRow
  <2> QED BY <2>1, <2>2 DEF Out, GraphType
<1>3. IsRows(vertexPointer)
  BY DEF GraphType
<1>4. edge \in Channels
  BY <1>1, <1>2, <1>3, RowChannels
<1> QED BY <1>1, <1>2, <1>3, <1>4, OwnerRow

(* A channel gets the next port of its target, which no other channel has. *)
LEMMA AssignPortInv ==
  ASSUME IInv, AssignPort
  PROVE  IInv'
<1> USE SizeAssumption
<1> DEFINE tgt == End(worker, edge)
<1>0. /\ UNCHANGED graph /\ UNCHANGED <<edgeTargets, pc, worker, search>>
      /\ pc = "ports" /\ edge' = edge + 1
      /\ worker < NumWorkers /\ edge < vertexPointer[worker + 1]
      /\ targetPort' = [c \in Assigned \cup {edge} |->
                          IF c = edge THEN numPorts[tgt] ELSE targetPort[c]]
      /\ numPorts' = [numPorts EXCEPT ![tgt] = @ + 1]
  BY DEF AssignPort, Assigned
<1>1. GraphType /\ InRow /\ OneProducerPerPort /\ Labels
  BY DEF IInv
<1>2. worker \in Workers /\ edge \in Channels /\ Owner(edge) = worker
  BY <1>0, <1>1, EdgeOfRow
<1>3. tgt = Intended(edge) /\ tgt \in Workers
  BY <1>1, <1>2, EndIntended, IntendedWorker DEF GraphType
<1>4. /\ edge \in Nat /\ Assigned = 0 .. edge - 1 /\ edge \notin Assigned
      /\ numPorts \in [Workers -> Nat] /\ targetPort \in [Assigned -> Nat]
  BY <1>0, <1>1 DEF GraphType
<1> HIDE DEF tgt
<1>5. Assigned' = Assigned \cup {edge} /\ Assigned' = 0 .. edge' - 1
  BY <1>0, <1>4 DEF Assigned
<1>6. numPorts' \in [Workers -> Nat] /\ targetPort' \in [Assigned' -> Nat]
  BY <1>0, <1>3, <1>4, <1>5
<1>7. GraphType'
  <2>1. /\ vertexPointer' = vertexPointer /\ given' = given
        /\ edgeTargets' = edgeTargets /\ pc' = pc /\ worker' = worker
        /\ reachable' = reachable /\ hasChanged' = hasChanged
        /\ visit' = visit /\ connected' = connected
    BY <1>0 DEF graph, search
  <2>2. edge' \in 0 .. NumChannels
    BY <1>0, <1>2 DEF Channels
  <2>3. IsRows(vertexPointer)'
    BY <1>1, <2>1 DEF GraphType, IsRows
  <2> QED BY <1>0, <1>1, <1>5, <1>6, <2>1, <2>2, <2>3 DEF GraphType
<1>8. InRow'
  <2>1. vertexPointer[worker] \in Int /\ vertexPointer[worker + 1] \in Int
    BY <1>1, <1>2 DEF GraphType, IsRows, Workers
  <2> QED BY <1>0, <1>1, <1>4, <2>1 DEF InRow, graph
<1>9. OneProducerPerPort'
  <2>1. /\ targetPort'[edge] = numPorts[tgt]
        /\ \A c \in Assigned : targetPort'[c] = targetPort[c]
        /\ numPorts'[tgt] = numPorts[tgt] + 1
        /\ \A w \in Workers : w # tgt => numPorts'[w] = numPorts[w]
    BY <1>0, <1>3, <1>4
  <2>2. \A c \in Assigned : c \in Channels /\ Intended(c) \in Workers
    <3>1. \A c \in Assigned : c \in Channels
      BY <1>2, <1>4 DEF Channels
    <3> QED BY <3>1, <1>1, IntendedWorker DEF GraphType
  <2>3. \A c \in Assigned :
          targetPort[c] \in Nat /\ targetPort[c] < numPorts[Intended(c)]
    BY <1>1, <1>4 DEF OneProducerPerPort
  <2>4. \A c, d \in Assigned' :
          c # d /\ Intended(c) = Intended(d) => targetPort'[c] # targetPort'[d]
    <3>1. \A c \in Assigned : Intended(c) = tgt => targetPort[c] # numPorts[tgt]
      BY <2>3, <1>3, <1>4
    <3>2. \A c, d \in Assigned :
            c # d /\ Intended(c) = Intended(d) => targetPort[c] # targetPort[d]
      BY <1>1 DEF OneProducerPerPort
    <3> QED BY <1>3, <1>5, <2>1, <3>1, <3>2
  <2>5. ASSUME NEW w \in Workers, NEW p \in 0 .. numPorts'[w] - 1
        PROVE  \E c \in Assigned' : Intended(c) = w /\ targetPort'[c] = p
    <3>1. CASE p \in 0 .. numPorts[w] - 1
      <4>1. PICK c \in Assigned : Intended(c) = w /\ targetPort[c] = p
        BY <3>1, <1>1 DEF OneProducerPerPort
      <4> QED BY <4>1, <2>1, <1>5
    <3>2. CASE p \notin 0 .. numPorts[w] - 1
      <4>1. w = tgt /\ p = numPorts[tgt]
        BY <3>2, <2>1, <2>5, <1>3, <1>4
      <4> QED BY <4>1, <2>1, <1>3, <1>5
    <3> QED BY <3>1, <3>2
  <2>6. \A c \in Assigned' : targetPort'[c] < numPorts'[Intended(c)]
    <3>1. ASSUME NEW c \in Assigned
          PROVE  targetPort'[c] < numPorts'[Intended(c)]
      <4>1. targetPort'[c] = targetPort[c] /\ targetPort[c] \in Nat
            /\ targetPort[c] < numPorts[Intended(c)] /\ Intended(c) \in Workers
        BY <2>1, <2>2, <2>3
      <4>2. numPorts[Intended(c)] \in Nat
        BY <4>1, <1>4
      <4> QED BY <4>1, <4>2, <2>1
    <3>2. targetPort'[edge] < numPorts'[Intended(edge)]
      BY <2>1, <1>3, <1>4
    <3> QED BY <3>1, <3>2, <1>5
  <2>7. \A c : Intended(c)' = Intended(c)
    BY <1>0, GraphFixed
  <2> QED BY <2>4, <2>5, <2>6, <2>7 DEF OneProducerPerPort
<1>10. Labels'
  BY <1>0, <1>1, GraphFixed DEF Labels, IsConstructed
<1>11. Found' /\ EarlierReachAll' /\ ConnectedCorrect'
  BY <1>0 DEF Found, EarlierReachAll, ConnectedCorrect
<1> QED BY <1>7, <1>8, <1>9, <1>10, <1>11 DEF IInv

(* Without a change of ports or of the graph, the ports stay right. *)
LEMMA PortsFixed ==
  ASSUME OneProducerPerPort, UNCHANGED <<graph, ports>>
  PROVE  OneProducerPerPort'
<1>1. targetPort' = targetPort /\ numPorts' = numPorts /\ Assigned' = Assigned
  BY DEF ports, Assigned
<1> QED BY <1>1, GraphFixed DEF OneProducerPerPort

(* A channel to its own worker is relabelled and leads where it led. *)
LEMMA ChangeLabelInv ==
  ASSUME IInv, ChangeLabel
  PROVE  IInv'
<1> USE SizeAssumption
<1>0. /\ UNCHANGED graph /\ UNCHANGED ports
      /\ pc = "labels" /\ pc' = pc /\ worker' = worker /\ edge' = edge + 1
      /\ reachable' = reachable /\ hasChanged' = hasChanged
      /\ visit' = visit /\ connected' = connected
      /\ worker < NumWorkers /\ edge < vertexPointer[worker + 1]
      /\ edgeTargets' = IF edgeTargets[edge] = worker
                        THEN [edgeTargets EXCEPT ![edge] = NumWorkers] ELSE edgeTargets
  BY DEF ChangeLabel, search
<1>1. GraphType /\ InRow /\ OneProducerPerPort /\ Labels
  BY DEF IInv
<1>2. worker \in Workers /\ edge \in Channels /\ Owner(edge) = worker
  BY <1>0, <1>1, EdgeOfRow
<1>3. vertexPointer' = vertexPointer /\ given' = given /\ numPorts' = numPorts
      /\ targetPort' = targetPort /\ Assigned' = Assigned
  BY <1>0 DEF graph, ports, Assigned
<1>4. edgeTargets \in [Channels -> 0 .. NumWorkers]
  BY <1>1 DEF GraphType
<1>5. edge \in Nat /\ edge' \in 0 .. NumChannels
  BY <1>0, <1>2 DEF Channels
<1>6. GraphType'
  <2>1. IsRows(vertexPointer)'
    BY <1>1, <1>3 DEF GraphType, IsRows
  <2>2. edgeTargets' \in [Channels -> 0 .. NumWorkers]
    <3>1. NumWorkers \in 0 .. NumWorkers
      OBVIOUS
    <3>2. [edgeTargets EXCEPT ![edge] = NumWorkers] \in [Channels -> 0 .. NumWorkers]
      BY <3>1, <1>4
    <3> QED BY <3>2, <1>0, <1>4
  <2> QED BY <1>0, <1>1, <1>3, <1>5, <2>1, <2>2 DEF GraphType
<1>7. InRow'
  <2>1. vertexPointer[worker] \in Int /\ vertexPointer[worker + 1] \in Int
    BY <1>1, <1>2 DEF GraphType, IsRows, Workers
  <2> QED BY <1>0, <1>1, <1>3, <1>5, <2>1 DEF InRow
<1>8. OneProducerPerPort'
  BY <1>0, <1>1, PortsFixed
<1>9. Labels'
  <2>1. \A c \in Channels : Owner(c)' = Owner(c)
    BY <1>0, GraphFixed
  <2>2. \A c \in Channels : c # edge => edgeTargets'[c] = edgeTargets[c]
    BY <1>0, <1>4
  <2>3. edgeTargets'[edge] = IF edgeTargets[edge] = worker THEN NumWorkers ELSE edgeTargets[edge]
    BY <1>0, <1>2, <1>4
  <2>4. ASSUME NEW c \in Channels
        PROVE  \/ edgeTargets'[c] = given[c]
               \/ edgeTargets'[c] = NumWorkers /\ given[c] = Owner(c)
    <3>1. \/ edgeTargets[c] = given[c]
          \/ edgeTargets[c] = NumWorkers /\ given[c] = Owner(c)
      BY <1>1 DEF Labels
    <3>2. worker # NumWorkers
      BY <1>2 DEF Workers
    <3> QED BY <1>2, <2>2, <2>3, <3>1, <3>2
  <2>5. ASSUME NEW c \in Channels, c < edge'
        PROVE  edgeTargets'[c] # Owner(c)
    <3>1. CASE c = edge
      BY <1>2, <2>3, <3>1 DEF Workers
    <3>2. CASE c # edge
      <4>1. c < edge
        BY <3>2, <2>5, <1>0, <1>5 DEF Channels
      <4> QED BY <4>1, <3>2, <2>2, <1>0, <1>1 DEF Labels
    <3> QED BY <3>1, <3>2
  <2>6. ~ IsConstructed'
    BY <1>0 DEF IsConstructed
  <2> QED BY <1>3, <2>1, <2>4, <2>5, <2>6 DEF Labels
<1>10. Found' /\ EarlierReachAll' /\ ConnectedCorrect'
  BY <1>0 DEF Found, EarlierReachAll, ConnectedCorrect
<1> QED BY <1>6, <1>7, <1>8, <1>9, <1>10 DEF IInv

(* The loops go on with the next row, which begins where this one ends. *)
LEMMA NextRowInv ==
  ASSUME IInv, NextRow
  PROVE  IInv'
<1> USE SizeAssumption
<1>0. /\ UNCHANGED graph /\ UNCHANGED ports /\ edgeTargets' = edgeTargets
      /\ pc \in {"ports", "labels"} /\ pc' = pc
      /\ reachable' = reachable /\ hasChanged' = hasChanged
      /\ visit' = visit /\ connected' = connected
      /\ worker < NumWorkers /\ edge >= vertexPointer[worker + 1]
      /\ worker' = worker + 1 /\ edge' = vertexPointer[worker + 1]
  BY DEF NextRow, search
<1>1. GraphType /\ InRow /\ OneProducerPerPort /\ Labels
  BY DEF IInv
<1>2. worker \in Workers /\ vertexPointer[worker + 1] \in 0 .. NumChannels
  BY <1>0, <1>1 DEF GraphType, IsRows, Workers
<1>3. edge' = edge
  BY <1>0, <1>1, <1>2 DEF InRow, GraphType
<1>4. vertexPointer' = vertexPointer /\ given' = given /\ numPorts' = numPorts
      /\ targetPort' = targetPort /\ Assigned' = Assigned
  BY <1>0 DEF graph, ports, Assigned
<1>5. worker' \in 0 .. NumWorkers
  BY <1>0, <1>2 DEF Workers
<1>6. GraphType'
  <2>1. IsRows(vertexPointer)'
    BY <1>1, <1>4 DEF GraphType, IsRows
  <2> QED BY <1>0, <1>1, <1>3, <1>4, <1>5, <2>1 DEF GraphType
<1>7. InRow'
  <2>1. worker' < NumWorkers =>
          /\ vertexPointer[worker'] \in Int /\ vertexPointer[worker' + 1] \in Int
          /\ vertexPointer[worker'] <= vertexPointer[worker' + 1]
    <3>1. \A w \in 0 .. NumWorkers :
            w < NumWorkers => w + 1 \in 0 .. NumWorkers /\ w <= w + 1
      OBVIOUS
    <3>2. vertexPointer \in [0 .. NumWorkers -> 0 .. NumChannels]
      BY <1>1 DEF GraphType, IsRows
    <3>3. \A v, w \in 0 .. NumWorkers : v <= w => vertexPointer[v] <= vertexPointer[w]
      BY <1>1 DEF GraphType, IsRows
    <3>4. \A v \in 0 .. NumWorkers : vertexPointer[v] \in Int
      BY <3>2
    <3> QED BY <1>5, <3>1, <3>3, <3>4
  <2>2. worker' = NumWorkers => edge' = NumChannels
    BY <1>0, <1>1 DEF GraphType, IsRows
  <2> QED BY <1>0, <1>4, <2>1, <2>2 DEF InRow
<1>8. OneProducerPerPort'
  BY <1>0, <1>1, PortsFixed
<1>9. Labels'
  <2>1. \A c \in Channels : Owner(c)' = Owner(c)
    BY <1>0, GraphFixed
  <2> QED BY <1>0, <1>1, <1>3, <1>4, <2>1 DEF Labels, IsConstructed
<1>10. Found' /\ EarlierReachAll' /\ ConnectedCorrect'
  BY <1>0 DEF Found, EarlierReachAll, ConnectedCorrect
<1> QED BY <1>6, <1>7, <1>8, <1>9, <1>10 DEF IInv

(* When the ports are assigned, all channels have one. *)
LEMMA BeginLabelsInv ==
  ASSUME IInv, BeginLabels
  PROVE  IInv'
<1> USE SizeAssumption
<1>0. /\ UNCHANGED graph /\ UNCHANGED ports /\ edgeTargets' = edgeTargets
      /\ pc = "ports" /\ pc' = "labels"
      /\ reachable' = reachable /\ hasChanged' = hasChanged
      /\ visit' = visit /\ connected' = connected
      /\ worker = NumWorkers /\ worker' = 0 /\ edge' = vertexPointer[0]
  BY DEF BeginLabels, search
<1>1. GraphType /\ InRow /\ OneProducerPerPort /\ Labels
  BY DEF IInv
<1>2. edge' = 0
  BY <1>0, <1>1 DEF GraphType, IsRows
<1>3. vertexPointer' = vertexPointer /\ given' = given /\ numPorts' = numPorts
      /\ targetPort' = targetPort /\ Assigned' = Assigned
  BY <1>0 DEF graph, ports, Assigned
<1>4. Assigned' = Channels
  BY <1>0, <1>1, <1>3 DEF GraphType, InRow, Channels
<1>5. GraphType'
  <2>1. IsRows(vertexPointer)'
    BY <1>1, <1>3 DEF GraphType, IsRows
  <2> QED BY <1>0, <1>1, <1>2, <1>3, <1>4, <2>1 DEF GraphType
<1>6. InRow'
  BY <1>0, <1>1, <1>2, <1>3 DEF InRow, GraphType, IsRows
<1>7. OneProducerPerPort'
  BY <1>0, <1>1, PortsFixed
<1>8. Labels'
  <2>1. \A c \in Channels : Owner(c)' = Owner(c)
    BY <1>0, GraphFixed
  <2>2. \A c \in Channels : ~ c < edge'
    BY <1>2 DEF Channels
  <2> QED BY <1>0, <1>1, <1>3, <2>1, <2>2 DEF Labels, IsConstructed
<1>9. Found' /\ EarlierReachAll' /\ ConnectedCorrect'
  BY <1>0 DEF Found, EarlierReachAll, ConnectedCorrect
<1> QED BY <1>5, <1>6, <1>7, <1>8, <1>9 DEF IInv
(* A search that has begun or goes on keeps everything but Found and        *)
(* EarlierReachAll by leaving it alone.                                     *)
LEMMA SearchFrame ==
  ASSUME IInv, UNCHANGED <<graph, edgeTargets, ports>>,
         pc \in {"labels", "search"}, pc' \in {"search", "done"},
         pc = "labels" => worker = NumWorkers,
         worker' \in Workers, edge' = edge, reachable' \subseteq Workers,
         hasChanged' \in BOOLEAN, visit' \in 0 .. NumWorkers, connected' \in BOOLEAN
  PROVE  GraphType' /\ InRow' /\ OneProducerPerPort' /\ Labels'
<1> USE SizeAssumption
<1>1. GraphType /\ InRow /\ OneProducerPerPort /\ Labels
  BY DEF IInv
<1>2. vertexPointer' = vertexPointer /\ given' = given /\ numPorts' = numPorts
      /\ targetPort' = targetPort /\ Assigned' = Assigned /\ edgeTargets' = edgeTargets
  BY DEF graph, ports, Assigned
<1>3. GraphType'
  <2>1. IsRows(vertexPointer)'
    BY <1>1, <1>2 DEF GraphType, IsRows
  <2>2. worker' \in 0 .. NumWorkers
    BY DEF Workers
  <2> QED BY <1>1, <1>2, <2>1, <2>2 DEF GraphType
<1>4. OneProducerPerPort'
  BY <1>1, PortsFixed
<1>5. InRow'
  BY DEF InRow
<1>6. Labels'
  <2>1. \A c \in Channels : Owner(c)' = Owner(c)
    BY GraphFixed
  <2>2. \A c \in Channels : edgeTargets[c] # Owner(c)
    <3>1. CASE pc = "labels"
      BY <3>1, <1>1 DEF Labels, InRow, Channels
    <3>2. CASE pc = "search"
      BY <3>2, <1>1 DEF Labels, IsConstructed
    <3> QED BY <3>1, <3>2
  <2> QED BY <1>1, <1>2, <2>1, <2>2 DEF Labels
<1> QED BY <1>3, <1>4, <1>5, <1>6

(* What the workers' rows lead to *)
LEMMA RowEnds ==
  ASSUME GraphType, Labels, NEW w \in Workers
  PROVE  /\ {End(w, c) : c \in Out(w)} \subseteq Workers
         /\ \A c \in Channels : Owner(c) = w => Intended(c) \in {End(w, d) : d \in Out(w)}
         /\ \A v \in {End(w, c) : c \in Out(w)} :
              \E c \in Channels : Owner(c) = w /\ v = Intended(c)
<1>1. IsRows(vertexPointer) /\ given \in [Channels -> 0 .. NumWorkers]
  BY DEF GraphType
<1>2. \A c \in Out(w) : c \in Channels /\ Owner(c) = w
  BY <1>1, RowChannels, OwnerRow
<1>3. \A c \in Channels : Owner(c) = w => c \in Out(w) /\ End(w, c) = Intended(c)
  BY <1>1, OwnerRow, EndIntended
<1>4. \A c \in Channels : Intended(c) \in Workers
  BY <1>1, IntendedWorker
<1> QED BY <1>2, <1>3, <1>4

(* The search begins with what the worker itself leads to. *)
LEMMA BeginSearchInv ==
  ASSUME IInv, NEW w \in Workers, BeginSearch(w),
         (pc = "labels" /\ worker = NumWorkers) \/ pc = "search",
         \A v \in Workers : v < w => ReachableFrom(v) = Workers
  PROVE  IInv'
<1> USE SizeAssumption
<1>0. /\ UNCHANGED graph /\ UNCHANGED <<graph, edgeTargets, ports>>
      /\ pc' = "search" /\ worker' = w /\ edge' = edge
      /\ hasChanged' = FALSE /\ visit' = 0 /\ connected' = connected
      /\ reachable' = {End(w, c) : c \in Out(w)}
  BY DEF BeginSearch
<1>1. GraphType /\ Labels
  BY DEF IInv
<1>2. /\ reachable' \subseteq Workers
      /\ \A c \in Channels : Owner(c) = w => Intended(c) \in reachable'
      /\ \A v \in reachable' : \E c \in Channels : Owner(c) = w /\ v = Intended(c)
  BY <1>0, <1>1, RowEnds
<1>3. GraphType' /\ InRow' /\ OneProducerPerPort' /\ Labels'
  <2>1. connected' \in BOOLEAN /\ 0 \in 0 .. NumWorkers
    BY <1>0, <1>1 DEF GraphType
  <2> QED BY <1>0, <1>2, <2>1, SearchFrame
<1>4. /\ \A c : Owner(c)' = Owner(c)
      /\ \A c : Intended(c)' = Intended(c)
      /\ \A S : IsClosed(S)' = IsClosed(S)
      /\ \A v : ReachableFrom(v)' = ReachableFrom(v)
  BY <1>0, GraphFixed
<1>5. Found'
  <2>1. \A v \in Workers : ~ v < 0
    BY DEF Workers
  <2>2. \A c \in Channels : Owner(c) \in reachable' => ~ Owner(c) < 0
    BY <2>1, <1>2
  <2>3. \A S \in SUBSET Workers :
          (\A c \in Channels : Owner(c) = w => Intended(c) \in S) => reachable' \subseteq S
    BY <1>2
  <2> QED BY <1>0, <1>2, <1>4, <2>2, <2>3 DEF Found
<1>6. EarlierReachAll' /\ ConnectedCorrect'
  BY <1>0, <1>4 DEF EarlierReachAll, ConnectedCorrect
<1> QED BY <1>3, <1>5, <1>6 DEF IInv

(* A visited worker adds what its channels lead to, all of it reachable. *)
LEMMA VisitInv ==
  ASSUME IInv, Visit
  PROVE  IInv'
<1> USE SizeAssumption
<1> DEFINE found == IF visit \in reachable THEN {End(visit, c) : c \in Out(visit)} ELSE {}
<1>0. /\ UNCHANGED graph /\ UNCHANGED <<graph, edgeTargets, ports>>
      /\ pc = "search" /\ pc' = "search" /\ worker' = worker /\ edge' = edge
      /\ visit < NumWorkers /\ visit' = visit + 1 /\ connected' = connected
      /\ reachable' = reachable \cup found
      /\ hasChanged' = (hasChanged \/ ~ found \subseteq reachable)
  BY DEF Visit
<1>1. GraphType /\ Labels /\ Found /\ EarlierReachAll
  BY DEF IInv
<1>2. visit \in Workers /\ visit' \in 0 .. NumWorkers /\ worker \in Workers
  BY <1>0, <1>1 DEF GraphType, Workers, Found
<1>3. /\ found \subseteq Workers
      /\ visit \in reachable =>
           \A c \in Channels : Owner(c) = visit => Intended(c) \in found
      /\ \A v \in found :
           visit \in reachable /\ \E c \in Channels : Owner(c) = visit /\ v = Intended(c)
  <2>1. CASE visit \in reachable
    BY <2>1, <1>1, <1>2, RowEnds
  <2>2. CASE visit \notin reachable
    BY <2>2
  <2> QED BY <2>1, <2>2
<1> HIDE DEF found
<1>4. reachable' \subseteq Workers
  BY <1>0, <1>1, <1>3 DEF GraphType
<1>5. GraphType' /\ InRow' /\ OneProducerPerPort' /\ Labels'
  <2>1. connected' \in BOOLEAN
    BY <1>0, <1>1 DEF GraphType
  <2>2. hasChanged' \in BOOLEAN
    BY <1>0
  <2> QED BY <1>0, <1>2, <1>4, <2>1, <2>2, SearchFrame
<1>6. /\ \A c : Owner(c)' = Owner(c)
      /\ \A c : Intended(c)' = Intended(c)
      /\ \A S : IsClosed(S)' = IsClosed(S)
      /\ \A v : ReachableFrom(v)' = ReachableFrom(v)
  BY <1>0, GraphFixed
<1>7. Found'
  <2>1. ASSUME NEW S \in SUBSET Workers, IsClosed(S),
               \A c \in Channels : Owner(c) = worker => Intended(c) \in S
        PROVE  reachable' \subseteq S
    <3>1. reachable \subseteq S
      BY <2>1, <1>0, <1>1 DEF Found
    <3>2. found \subseteq S
      BY <3>1, <2>1, <1>3 DEF IsClosed
    <3> QED BY <3>1, <3>2, <1>0
  <2>2. \A c \in Channels : Owner(c) = worker => Intended(c) \in reachable'
    BY <1>0, <1>1 DEF Found
  <2>3. ASSUME ~ hasChanged', NEW c \in Channels,
               Owner(c) \in reachable', Owner(c) < visit'
        PROVE  Intended(c) \in reachable'
    <3>1. found \subseteq reachable /\ reachable' = reachable /\ ~ hasChanged
      BY <2>3, <1>0
    <3>2. CASE Owner(c) = visit
      BY <3>1, <3>2, <2>3, <1>3
    <3>3. CASE Owner(c) # visit
      <4>1. Owner(c) \in Workers
        BY <3>1, <2>3, <1>1 DEF GraphType
      <4>2. Owner(c) < visit
        BY <4>1, <3>3, <2>3, <1>0, <1>2 DEF Workers
      <4> QED BY <4>2, <3>1, <2>3, <1>0, <1>1 DEF Found
    <3> QED BY <3>2, <3>3
  <2> QED BY <1>0, <1>2, <1>6, <2>1, <2>2, <2>3 DEF Found
<1>8. EarlierReachAll' /\ ConnectedCorrect'
  BY <1>0, <1>1, <1>6 DEF EarlierReachAll, ConnectedCorrect
<1> QED BY <1>5, <1>7, <1>8 DEF IInv

(* Another pass, when this one has found something new *)
LEMMA NextPassInv ==
  ASSUME IInv, NextPass
  PROVE  IInv'
<1> USE SizeAssumption
<1>0. /\ UNCHANGED graph /\ UNCHANGED <<graph, edgeTargets, ports>>
      /\ pc = "search" /\ pc' = "search" /\ worker' = worker /\ edge' = edge
      /\ visit' = 0 /\ hasChanged' = FALSE
      /\ reachable' = reachable /\ connected' = connected
      /\ hasChanged
  BY DEF NextPass
<1>1. GraphType /\ Found /\ EarlierReachAll
  BY DEF IInv
<1>2. GraphType' /\ InRow' /\ OneProducerPerPort' /\ Labels'
  <2>1. worker \in Workers /\ reachable \subseteq Workers /\ connected \in BOOLEAN
    BY <1>0, <1>1 DEF GraphType, Found
  <2>2. 0 \in 0 .. NumWorkers
    OBVIOUS
  <2> QED BY <1>0, <2>1, <2>2, SearchFrame
<1>3. /\ \A c : Owner(c)' = Owner(c)
      /\ \A c : Intended(c)' = Intended(c)
      /\ \A S : IsClosed(S)' = IsClosed(S)
      /\ \A v : ReachableFrom(v)' = ReachableFrom(v)
  BY <1>0, GraphFixed
<1>4. Found'
  <2>1. \A v \in Workers : ~ v < 0
    BY DEF Workers
  <2>2. \A c \in Channels : Owner(c) \in reachable => ~ Owner(c) < 0
    BY <2>1, <1>1 DEF GraphType
  <2> QED BY <1>0, <1>1, <1>3, <2>2 DEF Found
<1>5. EarlierReachAll' /\ ConnectedCorrect'
  BY <1>0, <1>1, <1>3 DEF EarlierReachAll, ConnectedCorrect
<1> QED BY <1>2, <1>4, <1>5 DEF IInv

(* A finished search has found the least closed set with the targets of the *)
(* worker.                                                                  *)
LEMMA FoundReachable ==
  ASSUME IInv
  PROVE  SearchCorrect
<1> USE SizeAssumption
<1> SUFFICES ASSUME SearchDone
             PROVE  reachable = ReachableFrom(worker)
  BY DEF SearchCorrect
<1>0. pc = "search" /\ visit = NumWorkers /\ ~ hasChanged
  BY DEF SearchDone
<1>1. reachable \subseteq Workers
  BY DEF IInv, GraphType
<1>2. IsClosed(reachable)
  <2>1. \A v \in Workers : v < NumWorkers
    BY DEF Workers
  <2>2. \A c \in Channels : Owner(c) \in reachable => Owner(c) < visit
    BY <1>0, <1>1, <2>1
  <2> QED BY <1>0, <2>2 DEF IInv, Found, IsClosed
<1>3. \A c \in Channels : Owner(c) = worker => Intended(c) \in reachable
  BY <1>0 DEF IInv, Found
<1>4. ReachableFrom(worker) \subseteq reachable
  BY <1>1, <1>2, <1>3 DEF ReachableFrom
<1>5. reachable \subseteq ReachableFrom(worker)
  BY <1>0, <1>1 DEF IInv, Found, ReachableFrom
<1> QED BY <1>4, <1>5

(* The search from the next worker, when this one reaches all *)
LEMMA NextSearchInv ==
  ASSUME IInv, NextSearch
  PROVE  IInv'
<1> USE SizeAssumption
<1>1. /\ SearchDone /\ pc = "search" /\ reachable = Workers
      /\ worker < NumWorkers - 1 /\ BeginSearch(worker + 1)
  BY DEF NextSearch, SearchDone
<1>2. worker \in Workers /\ worker + 1 \in Workers
  BY <1>1 DEF IInv, Found, Workers
<1>3. ReachableFrom(worker) = Workers
  BY <1>1, FoundReachable DEF SearchCorrect
<1>4. \A v \in Workers : v < worker + 1 => ReachableFrom(v) = Workers
  <2>1. \A v \in Workers : v < worker + 1 => v < worker \/ v = worker
    BY <1>2 DEF Workers
  <2> QED BY <2>1, <1>1, <1>3 DEF IInv, EarlierReachAll
<1> QED BY <1>1, <1>2, <1>4, BeginSearchInv

(* The answer: a worker that is not reached, or all reach all *)
LEMMA ReturnConnectedInv ==
  ASSUME IInv, ReturnConnected
  PROVE  IInv'
<1> USE SizeAssumption
<1>0. /\ UNCHANGED graph /\ UNCHANGED <<graph, edgeTargets, ports>>
      /\ SearchDone /\ pc = "search" /\ pc' = "done" /\ worker' = worker /\ edge' = edge
      /\ visit' = visit /\ hasChanged' = hasChanged /\ reachable' = reachable
      /\ reachable # Workers \/ worker = NumWorkers - 1
      /\ connected' = (reachable = Workers)
  BY DEF ReturnConnected, SearchDone
<1>1. GraphType /\ Found /\ EarlierReachAll
  BY DEF IInv
<1>2. worker \in Workers
  BY <1>0, <1>1 DEF Found
<1>3. GraphType' /\ InRow' /\ OneProducerPerPort' /\ Labels'
  <2>1. connected' \in BOOLEAN
    BY <1>0
  <2>2. reachable \subseteq Workers /\ hasChanged \in BOOLEAN /\ visit \in 0 .. NumWorkers
    BY <1>1 DEF GraphType
  <2> QED BY <1>0, <1>2, <2>1, <2>2, SearchFrame
<1>4. reachable = ReachableFrom(worker)
  BY <1>0, FoundReachable DEF SearchCorrect
<1>5. connected' <=> \A w \in Workers : ReachableFrom(w) = Workers
  <2>1. CASE reachable = Workers
    <3>1. \A w \in Workers : w < worker \/ w = worker
      BY <2>1, <1>0, <1>2 DEF Workers
    <3> QED BY <2>1, <3>1, <1>0, <1>1, <1>4 DEF EarlierReachAll
  <2>2. CASE reachable # Workers
    BY <2>2, <1>0, <1>2, <1>4
  <2> QED BY <2>1, <2>2
<1>6. ConnectedCorrect'
  <2>1. \A w : ReachableFrom(w)' = ReachableFrom(w)
    BY <1>0, GraphFixed
  <2> QED BY <1>5, <2>1 DEF ConnectedCorrect
<1>7. Found' /\ EarlierReachAll'
  BY <1>0 DEF Found, EarlierReachAll
<1> QED BY <1>3, <1>6, <1>7 DEF IInv

(* What is done changes nothing. *)
LEMMA StutterInv ==
  ASSUME IInv, UNCHANGED vars
  PROVE  IInv'
<1>0. /\ UNCHANGED <<graph, ports>> /\ UNCHANGED graph
      /\ vertexPointer' = vertexPointer /\ given' = given /\ edgeTargets' = edgeTargets
      /\ numPorts' = numPorts /\ targetPort' = targetPort /\ Assigned' = Assigned
      /\ pc' = pc /\ worker' = worker /\ edge' = edge
      /\ reachable' = reachable /\ hasChanged' = hasChanged
      /\ visit' = visit /\ connected' = connected
  BY DEF vars, graph, ports, search, Assigned
<1>1. /\ \A c : Owner(c)' = Owner(c)
      /\ \A c : Intended(c)' = Intended(c)
      /\ \A S : IsClosed(S)' = IsClosed(S)
      /\ \A v : ReachableFrom(v)' = ReachableFrom(v)
  BY <1>0, GraphFixed
<1>2. GraphType'
  BY <1>0 DEF IInv, GraphType, IsRows
<1>3. OneProducerPerPort'
  BY <1>0, PortsFixed DEF IInv
<1>4. InRow'
  BY <1>0 DEF IInv, InRow
<1>5. Labels'
  BY <1>0, <1>1 DEF IInv, Labels, IsConstructed
<1>6. Found'
  BY <1>0, <1>1 DEF IInv, Found
<1>7. EarlierReachAll' /\ ConnectedCorrect'
  BY <1>0, <1>1 DEF IInv, EarlierReachAll, ConnectedCorrect
<1> QED BY <1>2, <1>3, <1>4, <1>5, <1>6, <1>7 DEF IInv

(* Every step keeps the invariant. *)
LEMMA NextInv ==
  ASSUME IInv, [Next]_vars
  PROVE  IInv'
<1>1. CASE ConstructFully
  BY <1>1, ConstructInv DEF ConstructFully
<1>2. CASE ConstructWithWeights
  BY <1>2, ConstructInv DEF ConstructWithWeights
<1>3. CASE ConstructPlainly
  BY <1>3, ConstructInv DEF ConstructPlainly
<1>4. CASE AssignPort
  BY <1>4, AssignPortInv
<1>5. CASE BeginLabels
  BY <1>5, BeginLabelsInv
<1>6. CASE ChangeLabel
  BY <1>6, ChangeLabelInv
<1>7. CASE NextRow
  BY <1>7, NextRowInv
<1>8. CASE Constructed
  <2>1. 0 \in Workers /\ \A v \in Workers : ~ v < 0
    BY SizeAssumption DEF Workers
  <2> QED BY <1>8, <2>1, BeginSearchInv DEF Constructed
<1>9. CASE Visit
  BY <1>9, VisitInv
<1>10. CASE NextPass
  BY <1>10, NextPassInv
<1>11. CASE NextSearch
  BY <1>11, NextSearchInv
<1>12. CASE ReturnConnected
  BY <1>12, ReturnConnectedInv
<1>13. CASE Done
  BY <1>13, StutterInv DEF Done
<1>14. CASE UNCHANGED vars
  BY <1>14, StutterInv
<1> QED BY <1>1, <1>2, <1>3, <1>4, <1>5, <1>6, <1>7, <1>8, <1>9, <1>10, <1>11,
           <1>12, <1>13, <1>14 DEF Next

-----------------------------------------------------------------------------
(* The theorems *)

(* The inductive invariant holds in every reachable state. *)
THEOREM Invariance == Spec => []IInv
<1>1. Init => IInv
  BY InitInv
<1>2. IInv /\ [Next]_vars => IInv'
  BY NextInv
<1> QED BY <1>1, <1>2, PTL DEF Spec

(* assignTargetPorts gives every ring buffer of every network one producer, *)
(* and leaves no port of a worker without one.                              *)
THEOREM PortsCorrect == Spec => []OneProducerPerPort
<1>1. IInv => OneProducerPerPort
  BY DEF IInv
<1> QED BY <1>1, Invariance, PTL

(* source() and target() find the ends of every channel, changing labels    *)
(* changes no target, and it finds every channel from a worker to itself.   *)
THEOREM TargetsCorrect == Spec => []TargetsKept
<1>1. IInv => TargetsKept
  <2> SUFFICES ASSUME IInv PROVE TargetsKept
    OBVIOUS
  <2>1. IsRows(vertexPointer) /\ given \in [Channels -> 0 .. NumWorkers] /\ Labels
    BY DEF IInv, GraphType
  <2>2. \A c \in Channels :
          Source(c) = Owner(c) /\ Owner(c) \in Workers /\ Target(c) = Intended(c)
    BY <2>1, OwnerRow, EndIntended DEF Target
  <2>3. ASSUME IsConstructed, NEW c \in Channels
        PROVE  edgeTargets[c] = NumWorkers <=> Intended(c) = Owner(c)
    <3>1. edgeTargets[c] # Owner(c)
      BY <2>3 DEF IInv, Labels
    <3>2. Intended(c) = IF edgeTargets[c] = NumWorkers THEN Owner(c) ELSE edgeTargets[c]
      BY <2>2 DEF Target, End
    <3> QED BY <3>1, <3>2
  <2> QED BY <2>2, <2>3 DEF TargetsKept
<1> QED BY <1>1, Invariance, PTL

(* hasPathToAllWorkers finds the workers that can be reached, in every      *)
(* network.                                                                 *)
THEOREM SearchIsCorrect == Spec => []SearchCorrect
<1>1. IInv => SearchCorrect
  BY FoundReachable
<1> QED BY <1>1, Invariance, PTL

(* isStronglyConnected decides strong connectivity, in every network.       *)
THEOREM ConnectedIsCorrect == Spec => []ConnectedCorrect
<1>1. IInv => ConnectedCorrect
  BY DEF IInv
<1> QED BY <1>1, Invariance, PTL

-----------------------------------------------------------------------------
(* The numbers the constructor fills in *)

AvgChannelNum == (NumChannels + NumWorkers - 1) \div NumWorkers

(* There is a channel for the average worker, and there are not more than   *)
(* there are channels.                                                      *)
LEMMA AvgIs == AvgChannelNum \in Int /\ 1 <= AvgChannelNum /\ AvgChannelNum <= NumChannels
<1> DEFINE q == AvgChannelNum
           C == NumChannels
           W == NumWorkers
<1>1. C \in Int /\ W \in Int /\ C >= 1 /\ W >= 1
  BY SizeAssumption
<1>2. q \in Int /\ W * q <= C + W - 1 /\ C + W - 1 < W * q + W
  <2>1. W \in Nat /\ W > 0 /\ C + W - 1 \in Int
    BY <1>1
  <2> HIDE DEF C, W
  <2>2. /\ (C + W - 1) \div W \in Int
        /\ W * ((C + W - 1) \div W) <= C + W - 1
        /\ C + W - 1 < W * ((C + W - 1) \div W) + W
    BY <2>1, SMTT(40)
  <2> QED BY <2>2 DEF C, W, AvgChannelNum
<1> HIDE DEF q, C, W
<1>3. 1 <= q
  <2>1. q <= 0 => W * q <= 0
    BY <1>1, <1>2, SMTT(40)
  <2>2. W * q \in Int
    BY <1>1, <1>2
  <2> QED BY <1>1, <1>2, <2>1, <2>2
<1>4. q <= C
  <2> SUFFICES ASSUME q >= C + 1 PROVE FALSE
    BY <1>1, <1>2
  <2>1. W * q >= W * (C + 1)
    BY <1>1, <1>2, SMTT(40)
  <2>2. W * (C + 1) >= C + W
    <3>1. (W - 1) * C >= 0
      BY <1>1, SMTT(40)
    <3>2. W * (C + 1) = (W - 1) * C + C + W
      BY <1>1, SMTT(40)
    <3>3. (W - 1) * C \in Int
      BY <1>1
    <3> QED BY <1>1, <3>1, <3>2, <3>3
  <2>3. W * q \in Int /\ W * (C + 1) \in Int
    BY <1>1, <1>2
  <2> QED BY <1>1, <1>2, <2>1, <2>2, <2>3
<1> QED BY <1>2, <1>3, <1>4 DEF q, C

(* g says for each number from a on where doubling it ends. *)
IsDoubling(g, a) ==
  g = [pow2 \in a .. 2 * NumChannels |-> IF pow2 < AvgChannelNum THEN g[2 * pow2] ELSE pow2]

(* Such a function exists: one starts from the numbers that are not doubled. *)
LEMMA DoublingExists == \E g : IsDoubling(g, 1)
<1> DEFINE C == NumChannels
           Bad == {k \in 0 .. 2 * C - 1 : ~ \E g : IsDoubling(g, 2 * C - k)}
<1>1. C \in Int /\ C >= 1
  BY SizeAssumption
<1>2. AvgChannelNum \in Int /\ AvgChannelNum <= C
  BY AvgIs
<1>3. SUFFICES ASSUME Bad # {} PROVE FALSE
  <2>1. 2 * C - 1 \in 0 .. 2 * C - 1 /\ 2 * C - (2 * C - 1) = 1
    BY <1>1
  <2>2. 2 * C - 1 \notin Bad
    BY <1>3
  <2> QED BY <2>1, <2>2
<1>4. PICK m \in Bad : \A k \in Bad : m <= k
  <2>1. Bad \subseteq Nat
    BY <1>1
  <2> HIDE DEF Bad
  <2> QED BY <1>3, <2>1, LeastNat
<1>5. m \in Int /\ 0 <= m /\ m <= 2 * C - 1 /\ ~ \E g : IsDoubling(g, 2 * C - m)
  BY <1>1, <1>4
<1>6. CASE m = 0
  <2> DEFINE g == [pow2 \in 2 * C .. 2 * C |-> pow2]
  <2>1. ASSUME NEW pow2 \in 2 * C .. 2 * C
        PROVE  g[pow2] = IF pow2 < AvgChannelNum THEN g[2 * pow2] ELSE pow2
    BY <1>1, <1>2
  <2>2. IsDoubling(g, 2 * C)
    BY <2>1 DEF IsDoubling
  <2>3. 2 * C - m = 2 * C
    BY <1>1, <1>6
  <2> QED BY <1>5, <2>2, <2>3
<1>7. CASE m # 0
  <2> DEFINE a == 2 * C - m
  <2>1. m - 1 \in 0 .. 2 * C - 1 /\ m - 1 \notin Bad
    BY <1>1, <1>4, <1>5, <1>7
  <2>2. 2 * C - (m - 1) = a + 1 /\ a \in Int /\ 1 <= a /\ a < 2 * C
    BY <1>1, <1>5, <1>7
  <2>3. PICK g : IsDoubling(g, a + 1)
    BY <2>1, <2>2
  <2> HIDE DEF a, Bad
  <2> DEFINE h == [pow2 \in a .. 2 * C |->
                     IF pow2 = a THEN IF a < AvgChannelNum THEN g[2 * a] ELSE a ELSE g[pow2]]
  <2>4. ASSUME NEW pow2 \in a .. 2 * C
        PROVE  h[pow2] = IF pow2 < AvgChannelNum THEN h[2 * pow2] ELSE pow2
    <3>1. pow2 < AvgChannelNum => 2 * pow2 \in a .. 2 * C /\ 2 * pow2 # a
      BY <1>1, <1>2, <2>2
    <3>2. CASE pow2 = a
      <4>1. h[pow2] = IF a < AvgChannelNum THEN g[2 * a] ELSE a
        BY <3>2
      <4>2. a < AvgChannelNum => h[2 * a] = g[2 * a]
        BY <3>1, <3>2
      <4> QED BY <3>2, <4>1, <4>2
    <3>3. CASE pow2 # a
      <4>1. pow2 \in a + 1 .. 2 * C
        BY <1>1, <2>2, <3>3
      <4>2. g[pow2] = IF pow2 < AvgChannelNum THEN g[2 * pow2] ELSE pow2
        BY <2>3, <4>1 DEF IsDoubling
      <4>3. pow2 < AvgChannelNum => h[2 * pow2] = g[2 * pow2]
        BY <3>1
      <4> QED BY <3>3, <4>2, <4>3
    <3> QED BY <3>2, <3>3
  <2>5. IsDoubling(h, a)
    BY <2>4 DEF IsDoubling
  <2> QED BY <1>5, <2>5 DEF a
<1> QED BY <1>6, <1>7

(* It maps numbers to numbers. *)
LEMMA DoublingType ==
  ASSUME NEW g, IsDoubling(g, 1)
  PROVE  g[1] \in Nat
<1> DEFINE C == NumChannels
           Bad == {k \in 0 .. 2 * C - 1 : g[2 * C - k] \notin Nat}
<1>1. C \in Int /\ C >= 1
  BY SizeAssumption
<1>2. AvgChannelNum \in Int /\ AvgChannelNum <= C
  BY AvgIs
<1>3. SUFFICES ASSUME Bad # {} PROVE FALSE
  <2>1. 2 * C - 1 \in 0 .. 2 * C - 1 /\ 2 * C - (2 * C - 1) = 1
    BY <1>1
  <2>2. 2 * C - 1 \notin Bad
    BY <1>3
  <2> QED BY <2>1, <2>2
<1>4. PICK m \in Bad : \A k \in Bad : m <= k
  <2>1. Bad \subseteq Nat
    BY <1>1
  <2> HIDE DEF Bad
  <2> QED BY <1>3, <2>1, LeastNat
<1> DEFINE x == 2 * C - m
<1>5. m \in Int /\ x \in 1 .. 2 * C /\ x \in Nat /\ g[x] \notin Nat
  BY <1>1, <1>4
<1>6. g[x] = IF x < AvgChannelNum THEN g[2 * x] ELSE x
  <2> HIDE DEF x
  <2> QED BY <1>5 DEF IsDoubling
<1>7. x < AvgChannelNum /\ g[2 * x] \notin Nat
  BY <1>5, <1>6
<1>8. 2 * C - 2 * x \in 0 .. 2 * C - 1 /\ 2 * C - (2 * C - 2 * x) = 2 * x /\ 2 * C - 2 * x < m
  BY <1>1, <1>2, <1>5, <1>7
<1>9. 2 * C - 2 * x \in Bad
  BY <1>7, <1>8
<1> QED BY <1>4, <1>5, <1>8, <1>9

(* The default of enqueueFrequency_ is a number, and at least 16. *)
LEMMA DefaultFrequencyType == DefaultEnqueueFrequency \in Nat /\ DefaultEnqueueFrequency >= 16
<1> DEFINE d == CHOOSE g : IsDoubling(g, 1)
<1>1. IsDoubling(d, 1)
  BY DoublingExists
<1>2. d[1] \in Nat
  BY <1>1, DoublingType
<1>3. DefaultEnqueueFrequency = Larger(16, 2 * d[1])
  BY DEF DefaultEnqueueFrequency, IsDoubling, AvgChannelNum
<1> HIDE DEF d
<1> QED BY <1>2, <1>3 DEF Larger

(* The largest value is one, and none is larger. *)
LEMMA LargestOf ==
  ASSUME NEW n \in Nat, NEW f \in [0 .. n - 1 -> Nat]
  PROVE  /\ Largest(f) \in Nat
         /\ Largest(f) = 0 \/ \E c \in 0 .. n - 1 : Largest(f) = f[c]
         /\ \A c \in 0 .. n - 1 : f[c] <= Largest(f)
<1> DEFINE IsMax(m, k) ==
             /\ m \in {0} \cup {f[c] : c \in 0 .. k - 1}
             /\ \A c \in 0 .. k - 1 : m >= f[c]
           Bad == {k \in 0 .. n : ~ \E m : IsMax(m, k)}
<1>1. n \in Nat /\ DOMAIN f = 0 .. n - 1
  OBVIOUS
<1>2. \E m : IsMax(m, n)
  <2> SUFFICES ASSUME Bad # {} PROVE FALSE
    <3>1. n \in 0 .. n
      OBVIOUS
    <3> QED BY <3>1
  <2>1. PICK k \in Bad : \A j \in Bad : k <= j
    <3>1. Bad \subseteq Nat
      BY <1>1
    <3> HIDE DEF Bad
    <3> QED BY <3>1, LeastNat
  <2>2. CASE k = 0
    <3>1. IsMax(0, 0)
      OBVIOUS
    <3> QED BY <2>1, <2>2, <3>1
  <2>3. CASE k # 0
    <3>1. k - 1 \in 0 .. n /\ k - 1 \in 0 .. n - 1 /\ k \in Int
      BY <1>1, <2>1, <2>3
    <3>2. PICK m : IsMax(m, k - 1)
      <4>1. k - 1 \notin Bad
        <5> HIDE DEF Bad
        <5> QED BY <2>1, <3>1
      <4> HIDE DEF IsMax
      <4> QED BY <3>1, <4>1
    <3>3. m \in Nat /\ f[k - 1] \in Nat /\ \A c \in 0 .. k - 1 : f[c] \in Nat
      BY <1>1, <3>1, <3>2
    <3>4. CASE m >= f[k - 1]
      <4>1. IsMax(m, k)
        BY <3>1, <3>2, <3>3, <3>4, SMTT(40)
      <4> QED BY <2>1, <4>1
    <3>5. CASE m < f[k - 1]
      <4>1. IsMax(f[k - 1], k)
        BY <3>1, <3>2, <3>3, <3>5
      <4> QED BY <2>1, <4>1
    <3> QED BY <3>3, <3>4, <3>5
  <2> QED BY <2>2, <2>3
<1>3. /\ Largest(f) \in {0} \cup {f[c] : c \in 0 .. n - 1}
      /\ \A c \in 0 .. n - 1 : Largest(f) >= f[c]
  <2>1. \E m \in {0} \cup {f[c] : c \in DOMAIN f} : \A c \in DOMAIN f : m >= f[c]
    BY <1>1, <1>2
  <2> HIDE DEF IsMax, Bad
  <2> QED BY <1>1, <2>1 DEF Largest
<1>4. Largest(f) \in Nat
  BY <1>3
<1> QED BY <1>3, <1>4

LEMMA LargestIs ==
  ASSUME NEW f \in [Channels -> Nat]
  PROVE  /\ Largest(f) \in Nat
         /\ Largest(f) = 0 \/ \E c \in Channels : Largest(f) = f[c]
         /\ \A c \in Channels : f[c] <= Largest(f)
<1>1. NumChannels \in Nat /\ f \in [0 .. NumChannels - 1 -> Nat]
  BY SizeAssumption DEF Channels
<1> QED BY <1>1, LargestOf DEF Channels

(* The default of channelBufferSize_ is a number. *)
LEMMA DefaultBufferType ==
  ASSUME NEW batches \in [Channels -> Nat], NEW frequency \in Nat
  PROVE  DefaultChannelBufferSize(batches, frequency) \in Nat
<1>1. Largest(batches) \in Nat
  BY LargestIs
<1> QED BY <1>1 DEF DefaultChannelBufferSize, Larger

(* The numbers stay numbers. *)
LEMMA NumbersStep ==
  ASSUME NumbersType, [Next]_vars
  PROVE  NumbersType'
<1> USE DEF NumbersType
<1>1. CASE ConstructFully
  BY <1>1, SizeAssumption DEF ConstructFully, weights
<1>2. CASE ConstructWithWeights
  <2>1. /\ multiplicities' = multiplicities /\ batchSize' = batchSize
        /\ enqueueFrequency' = DefaultEnqueueFrequency
        /\ channelBufferSize' = DefaultChannelBufferSize(batchSize, enqueueFrequency')
        /\ maxPushAttempts' = 4
    BY <1>2 DEF ConstructWithWeights, weights, DefaultMaxPushAttempts
  <2>2. enqueueFrequency' \in Nat
    BY <2>1, DefaultFrequencyType
  <2>3. channelBufferSize' \in Nat
    BY <2>1, <2>2, DefaultBufferType
  <2> QED BY <2>1, <2>2, <2>3
<1>3. CASE ConstructPlainly
  <2>1. /\ multiplicities' \in {multiplicities, [c \in Channels |-> 1]}
        /\ batchSize' = [c \in Channels |-> 1]
        /\ enqueueFrequency' = DefaultEnqueueFrequency
        /\ channelBufferSize' = DefaultChannelBufferSize(batchSize', enqueueFrequency')
        /\ maxPushAttempts' = 4
    BY <1>3 DEF ConstructPlainly, DefaultMaxPushAttempts
  <2>2. enqueueFrequency' \in Nat
    BY <2>1, DefaultFrequencyType
  <2>3. batchSize' \in [Channels -> Nat] /\ multiplicities' \in [Channels -> Nat]
    BY <2>1
  <2>4. channelBufferSize' \in Nat
    BY <2>1, <2>2, <2>3, DefaultBufferType
  <2> QED BY <2>1, <2>2, <2>3, <2>4
<1>4. CASE UNCHANGED <<weights, params>>
  BY <1>4 DEF weights, params
<1> QED BY <1>1, <1>2, <1>3, <1>4
        DEF Next, AssignPort, BeginLabels, ChangeLabel, NextRow, Constructed, BeginSearch, Visit,
            NextPass, NextSearch, ReturnConnected, Done, vars

(* Types, for every network, whichever constructor is called.               *)
THEOREM TypeCorrect == Spec => []TypeOK
<1>1. Init => NumbersType
  <2> SUFFICES ASSUME Init PROVE NumbersType
    OBVIOUS
  <2>1. enqueueFrequency = 0 /\ channelBufferSize = 0 /\ maxPushAttempts = 0
    BY DEF Init, Begin
  <2>2. multiplicities \in [Channels -> Nat] /\ batchSize \in [Channels -> Nat]
    BY SizeAssumption DEF Init
  <2> QED BY <2>1, <2>2 DEF NumbersType
<1>2. NumbersType /\ [Next]_vars => NumbersType'
  BY NumbersStep
<1>3. IInv /\ NumbersType => TypeOK
  BY DEF IInv, TypeOK
<1> QED BY <1>1, <1>2, <1>3, Invariance, PTL DEF Spec

(* The constructor never makes a network invalid.                           *)
THEOREM ValidityCorrect == Spec => []ValidIffUsable
<1>1. IInv /\ TypeOK => ValidIffUsable
  <2> SUFFICES ASSUME IInv, NumbersType, IsConstructed
               PROVE  IsValidQNetwork <=>
                        /\ \A c \in Channels :
                             multiplicities[c] > 0 /\ batchSize[c] \in 1 .. channelBufferSize
                        /\ maxPushAttempts > 0 /\ enqueueFrequency > 0
                        /\ \A w \in Workers : \E c, d \in Channels :
                             Owner(c) = w /\ Intended(d) = w
    BY DEF ValidIffUsable, TypeOK
  <2>1. /\ IsRows(vertexPointer) /\ given \in [Channels -> 0 .. NumWorkers] /\ Labels
        /\ edgeTargets \in [Channels -> 0 .. NumWorkers] /\ OneProducerPerPort
        /\ numPorts \in [Workers -> Nat] /\ Assigned = Channels
    BY DEF IInv, GraphType, IsConstructed
  <2>2. /\ multiplicities \in [Channels -> Nat] /\ batchSize \in [Channels -> Nat]
        /\ enqueueFrequency \in Nat /\ channelBufferSize \in Nat /\ maxPushAttempts \in Nat
    BY DEF NumbersType
  <2>3. \A c \in Channels : edgeTargets[c] <= NumWorkers
    BY <2>1, SizeAssumption
  <2>4. (\A c \in Channels : batchSize[c] > 0) /\ channelBufferSize >= Largest(batchSize)
          <=> \A c \in Channels : batchSize[c] \in 1 .. channelBufferSize
    <3>1. /\ Largest(batchSize) \in Nat
          /\ Largest(batchSize) = 0 \/ \E c \in Channels : Largest(batchSize) = batchSize[c]
          /\ \A c \in Channels : batchSize[c] <= Largest(batchSize)
      BY <2>2, LargestIs
    <3> QED BY <2>2, <3>1
  <2>5. \A w \in Workers : \A c \in Out(w) :
          c \in Channels /\ Owner(c) = w /\ End(w, c) = Intended(c)
    BY <2>1, RowChannels, OwnerRow, EndIntended
  <2>6. \A w \in Workers : numPorts[w] > 0 <=> \E d \in Channels : Intended(d) = w
    <3> SUFFICES ASSUME NEW w \in Workers
                 PROVE  numPorts[w] > 0 <=> \E d \in Channels : Intended(d) = w
      OBVIOUS
    <3>1. numPorts[w] \in Nat
      BY <2>1
    <3>2. numPorts[w] > 0 => \E d \in Channels : Intended(d) = w
      <4>1. numPorts[w] > 0 => 0 \in 0 .. numPorts[w] - 1
        BY <3>1
      <4> QED BY <2>1, <4>1 DEF OneProducerPerPort
    <3>3. ASSUME NEW d \in Channels, Intended(d) = w PROVE numPorts[w] > 0
      <4>1. targetPort[d] < numPorts[w] /\ targetPort[d] \in Nat
        BY <2>1, <3>3 DEF OneProducerPerPort, IInv, GraphType
      <4> QED BY <3>1, <4>1
    <3> QED BY <3>2, <3>3
  <2>7. \A w \in Workers :
          vertexPointer[w] # vertexPointer[w + 1] <=> \E c \in Channels : Owner(c) = w
    <3> SUFFICES ASSUME NEW w \in Workers
                 PROVE  vertexPointer[w] # vertexPointer[w + 1]
                          <=> \E c \in Channels : Owner(c) = w
      OBVIOUS
    <3>1. /\ vertexPointer[w] \in Int /\ vertexPointer[w + 1] \in Int
          /\ vertexPointer[w] <= vertexPointer[w + 1]
      BY <2>1, SizeAssumption DEF IsRows, Workers
    <3>2. ASSUME vertexPointer[w] # vertexPointer[w + 1]
          PROVE  \E c \in Channels : Owner(c) = w
      <4>1. vertexPointer[w] \in Out(w)
        BY <3>1, <3>2 DEF Out
      <4> QED BY <2>5, <4>1
    <3>3. ASSUME NEW c \in Channels, Owner(c) = w
          PROVE  vertexPointer[w] # vertexPointer[w + 1]
      <4>1. c \in Out(w)
        BY <2>1, <3>3, OwnerRow
      <4> QED BY <3>1, <4>1 DEF Out
    <3> QED BY <3>2, <3>3
  <2>8. \A w \in Workers : \A c \in Out(w) : targetPort[c] < numPorts[End(w, c)]
    BY <2>1, <2>5 DEF OneProducerPerPort
  <2>9. \A v, w \in Workers : \A c \in Out(v), d \in Out(w) :
          c # d /\ End(v, c) = End(w, d) => targetPort[c] # targetPort[d]
    BY <2>1, <2>5 DEF OneProducerPerPort
  <2> QED BY <2>2, <2>3, <2>4, <2>6, <2>7, <2>8, <2>9 DEF IsValidQNetwork
<1> QED BY <1>1, Invariance, TypeCorrect, PTL

-----------------------------------------------------------------------------
(* The fully connected network                                              *)

(* Multiples grow with the factor. *)
LEMMA Monotone ==
  ASSUME NEW n \in Nat, NEW a \in Int, NEW b \in Int, a <= b
  PROVE  n * a <= n * b
<1>1. n * (b - a) >= 0
  BY SMTT(30)
<1>2. n * (b - a) = n * b - n * a
  BY SMTT(30)
<1> QED BY <1>1, <1>2

(* What quotient and remainder are *)
LEMMA Division ==
  ASSUME NEW n \in Nat \ {0}, NEW a \in Int
  PROVE  a \div n \in Int /\ a % n \in 0 .. n - 1 /\ a = n * (a \div n) + (a % n)
<1> DEFINE q == a \div n
           r == a % n
<1>1. q \in Int /\ r \in 0 .. n - 1 /\ a = n * q + r
  BY SMTT(30)
<1> QED BY <1>1

(* The k-th channel of row v, with n channels to a row: its row ... *)
LEMMA Quotient ==
  ASSUME NEW n \in Nat \ {0}, NEW v \in Int, NEW k \in 0 .. n - 1
  PROVE  (n * v + k) \div n = v
<1> DEFINE a == n * v + k
           q == a \div n
           r == a % n
<1>1. a \in Int
  OBVIOUS
<1> HIDE DEF a
<1>2. q \in Int /\ r \in 0 .. n - 1 /\ a = n * q + r
  BY <1>1, Division
<1> HIDE DEF q, r
<1>3. n * q + r = n * v + k
  BY <1>2 DEF a
<1>4. ~ (q >= v + 1)
  <2>1. SUFFICES ASSUME q >= v + 1 PROVE FALSE
    OBVIOUS
  <2>2. n * (v + 1) <= n * q
    BY <1>2, <2>1, Monotone
  <2>3. n * (v + 1) = n * v + n
    OBVIOUS
  <2> DEFINE x == n * q
             y == n * v
             z == n * (v + 1)
  <2>4. x \in Int /\ y \in Int /\ z \in Int /\ z <= x /\ z = y + n /\ x + r = y + k
    BY <1>2, <1>3, <2>2, <2>3
  <2> HIDE DEF x, y, z
  <2> QED BY <1>2, <2>4
<1>5. ~ (v >= q + 1)
  <2>1. SUFFICES ASSUME v >= q + 1 PROVE FALSE
    OBVIOUS
  <2>2. n * (q + 1) <= n * v
    BY <1>2, <2>1, Monotone
  <2>3. n * (q + 1) = n * q + n
    BY <1>2
  <2> DEFINE x == n * q
             y == n * v
             z == n * (q + 1)
  <2>4. x \in Int /\ y \in Int /\ z \in Int /\ z <= y /\ z = x + n /\ x + r = y + k
    BY <1>2, <1>3, <2>2, <2>3
  <2> HIDE DEF x, y, z
  <2> QED BY <1>2, <2>4
<1>6. q = v
  BY <1>2, <1>4, <1>5
<1> QED BY <1>6 DEF q, a

(* ... and its place *)
LEMMA Remainder ==
  ASSUME NEW n \in Nat \ {0}, NEW v \in Int, NEW k \in 0 .. n - 1
  PROVE  (n * v + k) % n = k
<1> DEFINE a == n * v + k
<1>1. a \in Int /\ a \div n = v
  BY Quotient
<1> HIDE DEF a
<1>2. a \div n \in Int /\ a % n \in 0 .. n - 1 /\ a = n * (a \div n) + (a % n)
  BY <1>1, Division
<1>3. a = n * v + (a % n)
  BY <1>1, <1>2
<1>4. a % n = k
  <2> DEFINE x == n * v
  <2>1. x \in Int /\ a = x + k /\ a = x + (a % n)
    BY <1>3 DEF a
  <2> HIDE DEF x
  <2> QED BY <1>2, <2>1
<1> QED BY <1>4 DEF a

(* FULLY_CONNECTED_GRAPH is what it is called, for every number of workers: *)
(* its arrays are fit for the constructor, and each worker has exactly one  *)
(* channel to each, itself included.                                        *)
THEOREM FullyConnectedCorrect ==
  IsFullyConnectedSize =>
    /\ IsRows(FullyConnectedPointer)
    /\ FullyConnectedTargets \in [Channels -> Workers]
    /\ \A v, w \in Workers :
         \E c \in FullyConnectedPointer[v] .. FullyConnectedPointer[v + 1] - 1 :
           /\ FullyConnectedTargets[c] = w
           /\ \A d \in FullyConnectedPointer[v] .. FullyConnectedPointer[v + 1] - 1 :
                FullyConnectedTargets[d] = w => d = c
<1> SUFFICES ASSUME IsFullyConnectedSize
             PROVE  /\ IsRows(FullyConnectedPointer)
                    /\ FullyConnectedTargets \in [Channels -> Workers]
                    /\ \A v, w \in Workers :
                         \E c \in FullyConnectedPointer[v] .. FullyConnectedPointer[v + 1] - 1 :
                           /\ FullyConnectedTargets[c] = w
                           /\ \A d \in FullyConnectedPointer[v] .. FullyConnectedPointer[v + 1] - 1 :
                                FullyConnectedTargets[d] = w => d = c
  OBVIOUS
<1> DEFINE n == NumWorkers
<1>1. n \in Nat \ {0} /\ NumChannels = n * n
  BY SizeAssumption DEF IsFullyConnectedSize
<1>2. /\ \A v \in 0 .. n : FullyConnectedPointer[v] = n * v
      /\ \A c \in Channels : FullyConnectedTargets[c] = (c + c \div n) % n
      /\ DOMAIN FullyConnectedPointer = 0 .. n
      /\ FullyConnectedPointer = [w \in 0 .. n |-> n * w]
      /\ FullyConnectedTargets = [c \in Channels |-> (c + c \div n) % n]
  BY DEF FullyConnectedPointer, FullyConnectedTargets
<1> HIDE DEF n
<1>3. \A v, w \in 0 .. n : v <= w => n * v <= n * w
  BY <1>1, Monotone
<1>4. IsRows(FullyConnectedPointer)
  <2>1. n * 0 = 0
    BY <1>1
  <2>2. \A v \in 0 .. n : n * v \in 0 .. NumChannels
    <3> SUFFICES ASSUME NEW v \in 0 .. n PROVE n * v \in 0 .. NumChannels
      OBVIOUS
    <3>1. 0 <= n * v /\ n * v <= n * n /\ n * v \in Int
      BY <1>1, <1>3, <2>1
    <3> QED BY <1>1, <3>1
  <2>3. FullyConnectedPointer \in [0 .. n -> 0 .. NumChannels]
    BY <1>2, <2>2
  <2>4. FullyConnectedPointer[0] = 0 /\ FullyConnectedPointer[n] = NumChannels
    BY <1>1, <1>2, <2>1
  <2>5. \A v, w \in 0 .. n : v <= w => FullyConnectedPointer[v] <= FullyConnectedPointer[w]
    BY <1>2, <1>3
  <2> QED BY <2>3, <2>4, <2>5 DEF IsRows, n
<1>5. FullyConnectedTargets \in [Channels -> Workers]
  <2>1. \A c \in Channels : c \div n \in Int
    BY <1>1, SMTT(30) DEF Channels
  <2>2. \A a \in Int : a % n \in 0 .. n - 1
    BY <1>1, SMTT(30)
  <2>3. \A c \in Channels : (c + c \div n) % n \in 0 .. n - 1
    BY <2>1, <2>2 DEF Channels
  <2> QED BY <1>2, <2>3 DEF Workers, n
<1>6. ASSUME NEW v \in Workers, NEW w \in Workers
      PROVE  \E c \in FullyConnectedPointer[v] .. FullyConnectedPointer[v + 1] - 1 :
               /\ FullyConnectedTargets[c] = w
               /\ \A d \in FullyConnectedPointer[v] .. FullyConnectedPointer[v + 1] - 1 :
                    FullyConnectedTargets[d] = w => d = c
  <2> DEFINE m == n * v
  <2>1. v \in 0 .. n - 1 /\ w \in 0 .. n - 1 /\ v + 1 \in 0 .. n
    BY <1>1 DEF Workers, n
  <2>2. n * (v + 1) = m + n /\ m \in Nat
    BY <1>1, <2>1, SMTT(30)
  <2>3. /\ FullyConnectedPointer[v] = m
        /\ FullyConnectedPointer[v + 1] - 1 = m + n - 1
    BY <1>1, <1>2, <2>1, <2>2
  <2>4. m + n <= n * n
    BY <1>3, <2>1, <2>2, <1>1
  <2>5. ASSUME NEW k \in 0 .. n - 1
        PROVE  FullyConnectedTargets[m + k] = IF k + v < n THEN k + v ELSE k + v - n
    <3>1. m + k \in Channels
      <4> DEFINE s == n * n
      <4>1. s \in Int /\ m + n <= s /\ NumChannels = s
        BY <1>1, <2>4
      <4> HIDE DEF s, m
      <4> QED BY <1>1, <2>2, <4>1 DEF Channels
    <3>2. FullyConnectedTargets[m + k] = (m + k + (m + k) \div n) % n
      BY <1>2, <3>1
    <3>3. (m + k) \div n = v
      BY <1>1, <2>1, Quotient
    <3>4. CASE k + v < n
      <4>1. k + v \in 0 .. n - 1 /\ m + k + v = m + (k + v)
        BY <1>1, <2>1, <2>2, <3>4
      <4>2. (m + (k + v)) % n = k + v
        BY <1>1, <2>1, <4>1, Remainder
      <4> HIDE DEF m
      <4> QED BY <3>2, <3>3, <3>4, <4>1, <4>2
    <3>5. CASE ~ (k + v < n)
      <4>1. k + v - n \in 0 .. n - 1
        BY <1>1, <2>1, <3>5
      <4>2. (n * (v + 1) + (k + v - n)) % n = k + v - n
        <5>1. v + 1 \in Int
          BY <2>1
        <5> QED BY <1>1, <4>1, <5>1, Remainder
      <4> DEFINE z == n * (v + 1)
      <4>3. z = m + n
        BY <2>2
      <4> HIDE DEF m, z
      <4>4. m + k + v = z + (k + v - n)
        BY <1>1, <2>1, <2>2, <4>3
      <4>5. (z + (k + v - n)) % n = k + v - n
        BY <4>2 DEF z
      <4> QED BY <3>2, <3>3, <3>5, <4>4, <4>5
    <3> QED BY <3>4, <3>5
  <2> HIDE DEF m
  <2> DEFINE k == IF w >= v THEN w - v ELSE w - v + n
  <2>6. k \in 0 .. n - 1 /\ (IF k + v < n THEN k + v ELSE k + v - n) = w
    BY <1>1, <2>1
  <2>7. FullyConnectedTargets[m + k] = w
    <3> HIDE DEF k
    <3> QED BY <2>5, <2>6
  <2>8. ASSUME NEW d \in m .. m + n - 1, FullyConnectedTargets[d] = w PROVE d = m + k
    <3>1. d - m \in 0 .. n - 1 /\ m + (d - m) = d
      BY <1>1, <2>2
    <3> DEFINE j == d - m
    <3>2. (IF j + v < n THEN j + v ELSE j + v - n) = w
      <4>1. j \in 0 .. n - 1 /\ m + j = d
        BY <3>1
      <4> HIDE DEF j
      <4> QED BY <2>5, <2>8, <4>1
    <3>3. j = k
      BY <1>1, <2>1, <3>1, <3>2
    <3> QED BY <1>1, <2>2, <3>3, <2>6
  <2>9. m + k \in m .. m + n - 1
    <3> HIDE DEF k
    <3> QED BY <1>1, <2>2, <2>6
  <2> HIDE DEF k
  <2> QED BY <2>3, <2>7, <2>8, <2>9
<1> QED BY <1>4, <1>5, <1>6

-----------------------------------------------------------------------------
(* The line graph *)

(* Row sizes are natural numbers. *)
LEMMA OutDegreeType ==
  ASSUME IsRows(vertexPointer), NEW w \in Workers
  PROVE  /\ OutDegree(w) \in Nat
         /\ vertexPointer[w] \in Nat /\ vertexPointer[w + 1] \in Nat
<1> QED BY SizeAssumption DEF IsRows, Workers, OutDegree

(* A worker's product: for each port, one channel of the line graph for     *)
(* each channel that leaves.  A channel's degree: the channels that follow. *)
PortProducts == [w \in Workers |-> numPorts[w] * OutDegree(w)]
FollowDegrees == [c \in Channels |-> OutDegree(Intended(c))]

LEMMA DegreesType ==
  ASSUME GraphType
  PROVE  PortProducts \in [Workers -> Nat] /\ FollowDegrees \in [Channels -> Nat]
<1>1. IsRows(vertexPointer) /\ given \in [Channels -> 0 .. NumWorkers]
      /\ numPorts \in [Workers -> Nat]
  BY DEF GraphType
<1>2. \A w \in Workers : numPorts[w] * OutDegree(w) \in Nat
  <2>1. ASSUME NEW w \in Workers PROVE numPorts[w] * OutDegree(w) \in Nat
    <3>1. numPorts[w] \in Nat /\ OutDegree(w) \in Nat
      BY <1>1, OutDegreeType
    <3> DEFINE p == numPorts[w]
               q == OutDegree(w)
    <3>2. p \in Nat /\ q \in Nat
      BY <3>1
    <3> HIDE DEF p, q
    <3>3. p * q \in Nat
      BY <3>2, SMTT(30)
    <3> QED BY <3>3 DEF p, q
  <2> QED BY <2>1
<1>3. \A c \in Channels : OutDegree(Intended(c)) \in Nat
  BY <1>1, IntendedWorker, OutDegreeType
<1> QED BY <1>2, <1>3 DEF PortProducts, FollowDegrees

(* What lineGraphNumEdges adds up over the ports is what the loops add up   *)
(* over the channels whose port has been assigned.                          *)
PortsCounted ==
  pc # "construct" =>
    SumTo(PortProducts, NumWorkers)
      = SumTo(FollowDegrees, IF pc = "ports" THEN edge ELSE NumChannels)

(* Assigning a port adds the degree of the worker it leads to on both sides. *)
LEMMA CountedByPort ==
  ASSUME IInv, PortsCounted, AssignPort
  PROVE  PortsCounted'
<1> USE SizeAssumption
<1> DEFINE tgt == End(worker, edge)
<1>0. /\ UNCHANGED graph /\ pc = "ports" /\ pc' = "ports" /\ edge' = edge + 1
      /\ worker < NumWorkers /\ edge < vertexPointer[worker + 1]
      /\ numPorts' = [numPorts EXCEPT ![tgt] = @ + 1]
  BY DEF AssignPort
<1>1. GraphType /\ InRow /\ Labels /\ IsRows(vertexPointer) /\ numPorts \in [Workers -> Nat]
  BY DEF IInv, GraphType
<1>2. worker \in Workers /\ edge \in Channels /\ Owner(edge) = worker
  BY <1>0, <1>1, EdgeOfRow
<1>3. tgt = Intended(edge) /\ tgt \in Workers
  BY <1>1, <1>2, EndIntended, IntendedWorker DEF GraphType
<1> HIDE DEF tgt
<1>4. (\A w : OutDegree(w)' = OutDegree(w)) /\ FollowDegrees' = FollowDegrees
  <2>1. vertexPointer' = vertexPointer /\ \A c : Intended(c)' = Intended(c)
    BY <1>0, GraphFixed
  <2>2. \A w : OutDegree(w)' = OutDegree(w)
    BY <2>1 DEF OutDegree
  <2> QED BY <2>1, <2>2 DEF FollowDegrees
<1>5. PortProducts \in [0 .. NumWorkers - 1 -> Int] /\ FollowDegrees \in [0 .. NumChannels - 1 -> Int]
  BY <1>1, DegreesType DEF Workers, Channels
<1>6. OutDegree(tgt) \in Nat /\ numPorts[tgt] \in Nat
  BY <1>1, <1>3, OutDegreeType
<1>7. /\ PortProducts'[tgt] = PortProducts[tgt] + OutDegree(tgt)
      /\ \A w \in Workers : w # tgt => PortProducts'[w] = PortProducts[w]
      /\ PortProducts' \in [Workers -> Int]
  <2>1. PortProducts' = [w \in Workers |-> numPorts'[w] * OutDegree(w)]
    BY <1>4 DEF PortProducts
  <2>2. (numPorts[tgt] + 1) * OutDegree(tgt) = numPorts[tgt] * OutDegree(tgt) + OutDegree(tgt)
    <3> DEFINE p == numPorts[tgt]
               q == OutDegree(tgt)
    <3>1. p \in Nat /\ q \in Nat
      BY <1>6
    <3> HIDE DEF p, q
    <3>2. (p + 1) * q = p * q + q
      BY <3>1, SMTT(30)
    <3> QED BY <3>2 DEF p, q
  <2>3. numPorts'[tgt] = numPorts[tgt] + 1
    BY <1>0, <1>1, <1>3
  <2>4. PortProducts'[tgt] = PortProducts[tgt] + OutDegree(tgt)
    BY <1>3, <2>1, <2>2, <2>3 DEF PortProducts
  <2>5. ASSUME NEW w \in Workers, w # tgt PROVE PortProducts'[w] = PortProducts[w]
    <3>1. numPorts'[w] = numPorts[w]
      BY <1>0, <1>1, <1>3, <2>5
    <3> QED BY <2>1, <3>1 DEF PortProducts
  <2>6. \A w \in Workers : PortProducts'[w] \in Int
    <3>1. \A w \in Workers : PortProducts[w] \in Int
      BY <1>5 DEF Workers
    <3> QED BY <1>3, <1>6, <2>4, <2>5, <3>1
  <2> QED BY <2>1, <2>4, <2>5, <2>6
<1>8. SumTo(PortProducts', NumWorkers) = SumTo(PortProducts, NumWorkers) + OutDegree(tgt)
  <2>1. PortProducts' \in [0 .. NumWorkers - 1 -> Int] /\ tgt \in 0 .. NumWorkers - 1
    BY <1>3, <1>7 DEF Workers
  <2>2. \A w \in 0 .. NumWorkers - 1 : w # tgt => PortProducts'[w] = PortProducts[w]
    BY <1>7 DEF Workers
  <2>3. OutDegree(tgt) \in Int
    BY <1>6
  <2> DEFINE f == PortProducts
             g == PortProducts'
             d == OutDegree(tgt)
  <2>4. /\ f \in [0 .. NumWorkers - 1 -> Int] /\ g \in [0 .. NumWorkers - 1 -> Int]
        /\ tgt \in 0 .. NumWorkers - 1 /\ d \in Int /\ g[tgt] = f[tgt] + d
        /\ \A w \in 0 .. NumWorkers - 1 : w # tgt => g[w] = f[w]
    BY <1>5, <1>7, <2>1, <2>2, <2>3
  <2> HIDE DEF f, g, d
  <2>5. SumTo(g, NumWorkers) = SumTo(f, NumWorkers) + d
    BY <2>4, SumUpdate, ZenonT(60)
  <2> QED BY <2>5 DEF f, g, d
<1>9. SumTo(FollowDegrees, edge + 1) = SumTo(FollowDegrees, edge) + OutDegree(tgt)
  <2>1. edge \in 0 .. NumChannels - 1 /\ NumChannels \in Nat
    BY <1>2 DEF Channels
  <2>2. FollowDegrees[edge] = OutDegree(tgt)
    BY <1>2, <1>3 DEF FollowDegrees
  <2> QED BY <1>5, <2>1, <2>2, SumNext
<1> QED BY <1>0, <1>4, <1>8, <1>9 DEF PortsCounted

(* The other steps leave the sums alone, or begin with empty ones.          *)
LEMMA CountedStep ==
  ASSUME IInv, PortsCounted, [Next]_vars
  PROVE  PortsCounted'
<1> USE SizeAssumption
<1>0. GraphType /\ InRow
  BY DEF IInv
<1>1. ASSUME pc = "construct", BeginPorts PROVE PortsCounted'
  <2>1. /\ pc' = "ports" /\ edge' = 0 /\ \A w \in Workers : numPorts'[w] = 0
        /\ UNCHANGED graph /\ IsRows(vertexPointer)
    BY <1>0, <1>1 DEF BeginPorts, GraphType, IsRows
  <2>2. (\A w : OutDegree(w)' = OutDegree(w)) /\ (\A c : Intended(c)' = Intended(c))
    <3>1. \A w : OutDegree(w)' = OutDegree(w)
      BY <2>1 DEF graph, OutDegree
    <3> QED BY <2>1, <3>1, GraphFixed
  <2>3. PortProducts' = [w \in Workers |-> 0] /\ FollowDegrees' = FollowDegrees
    <3>1. ASSUME NEW w \in Workers PROVE numPorts'[w] * OutDegree(w)' = 0
      <4>1. OutDegree(w)' \in Nat
        BY <2>1, <2>2, OutDegreeType
      <4> QED BY <2>1, <4>1
    <3> QED BY <2>2, <3>1 DEF PortProducts, FollowDegrees
  <2> DEFINE f == PortProducts'
             g == FollowDegrees'
  <2>4. f \in [0 .. NumWorkers - 1 -> Int] /\ g \in [0 .. NumChannels - 1 -> Int]
        /\ \A w \in 0 .. NumWorkers - 1 : f[w] = 0
    <3>1. FollowDegrees \in [Channels -> Nat]
      BY <1>0, DegreesType
    <3> QED BY <2>3, <3>1 DEF Workers, Channels
  <2> HIDE DEF f, g
  <2>5. SumTo(f, NumWorkers) = 0 /\ SumTo(g, 0) = 0
    BY <2>4, SumZero, SumNext
  <2> QED BY <2>1, <2>5 DEF PortsCounted, f, g
<1>2. ASSUME UNCHANGED <<graph, ports>>, pc # "construct",
             (IF pc' = "ports" THEN edge' ELSE NumChannels)
               = (IF pc = "ports" THEN edge ELSE NumChannels)
      PROVE  PortsCounted'
  <2>1. UNCHANGED graph /\ numPorts' = numPorts
    BY <1>2 DEF ports
  <2>2. \A w : OutDegree(w)' = OutDegree(w)
    BY <2>1 DEF graph, OutDegree
  <2>3. \A c : Intended(c)' = Intended(c)
    BY <2>1, GraphFixed
  <2>4. PortProducts' = PortProducts /\ FollowDegrees' = FollowDegrees
    BY <2>1, <2>2, <2>3 DEF PortProducts, FollowDegrees
  <2> QED BY <1>2, <2>4 DEF PortsCounted
<1>3. CASE ConstructFully \/ ConstructWithWeights \/ ConstructPlainly
  BY <1>1, <1>3 DEF ConstructFully, ConstructWithWeights, ConstructPlainly
<1>4. CASE AssignPort
  BY <1>4, CountedByPort
<1>5. CASE BeginLabels
  <2>1. pc = "ports" /\ pc' = "labels" /\ edge = NumChannels /\ UNCHANGED <<graph, ports>>
    BY <1>0, <1>5 DEF BeginLabels, InRow
  <2> QED BY <1>2, <2>1
<1>6. CASE NextRow
  <2>1. /\ pc \in {"ports", "labels"} /\ pc' = pc /\ UNCHANGED <<graph, ports>>
        /\ edge' = vertexPointer[worker + 1] /\ edge >= vertexPointer[worker + 1]
        /\ worker < NumWorkers
    BY <1>6 DEF NextRow
  <2>2. vertexPointer[worker + 1] \in Int /\ edge \in Int
    BY <1>0, <2>1 DEF GraphType, IsRows
  <2>3. edge' = edge
    BY <1>0, <2>1, <2>2 DEF InRow
  <2> QED BY <1>2, <2>1, <2>3
<1>7. CASE ChangeLabel
  BY <1>2, <1>7 DEF ChangeLabel
<1>8. CASE Constructed \/ NextSearch
  BY <1>2, <1>8 DEF Constructed, NextSearch, SearchDone, BeginSearch
<1>9. CASE Visit \/ NextPass \/ ReturnConnected
  BY <1>2, <1>9 DEF Visit, NextPass, ReturnConnected, SearchDone
<1>10. CASE Done \/ UNCHANGED vars
  <2>1. UNCHANGED <<graph, ports>> /\ pc' = pc /\ edge' = edge
    BY <1>10 DEF Done, vars
  <2>2. CASE pc = "construct"
    BY <2>1, <2>2 DEF PortsCounted
  <2>3. CASE pc # "construct"
    BY <1>2, <2>1, <2>3
  <2> QED BY <2>2, <2>3
<1> QED BY <1>3, <1>4, <1>5, <1>6, <1>7, <1>8, <1>9, <1>10 DEF Next

LEMMA Counted == Spec => []PortsCounted
<1>1. Init => PortsCounted
  BY DEF Init, Begin, PortsCounted
<1>2. IInv /\ PortsCounted /\ [Next]_vars => PortsCounted'
  BY CountedStep
<1> QED BY <1>1, <1>2, Invariance, PTL DEF Spec

(* The rows of the line graph: where each begins, and that it runs through   *)
(* the channels that leave the joint.                                       *)
LEMMA LineRows ==
  ASSUME IInv, NEW c \in Channels
  PROVE  /\ Joint(c) = Intended(c) /\ Joint(c) \in Workers
         /\ LinePointer(c) \in Nat
         /\ LinePointer(c + 1) = LinePointer(c) + OutDegree(Joint(c))
         /\ \A k \in LineOut(c) : LineTarget(c, k) \in Out(Joint(c))
         /\ \A d \in Out(Joint(c)) :
              LET k == LinePointer(c) + (d - vertexPointer[Joint(c)])
              IN  {j \in LineOut(c) : LineTarget(c, j) = d} = {k}
<1> USE SizeAssumption
<1> DEFINE w == Joint(c)
<1>0. GraphType /\ IsRows(vertexPointer) /\ Labels /\ given \in [Channels -> 0 .. NumWorkers]
  BY DEF IInv, GraphType
<1>1. \A d \in Channels : Joint(d) = Intended(d)
  BY <1>0, OwnerRow, EndIntended DEF Joint, Target
<1>2. w = Intended(c) /\ w \in Workers
  BY <1>0, <1>1, IntendedWorker
<1>3. \A e : LinePointer(e) = SumTo(FollowDegrees, e)
  <2>1. [d \in Channels |-> OutDegree(Joint(d))] = FollowDegrees
    BY <1>1 DEF FollowDegrees
  <2> QED BY <2>1 DEF LinePointer
<1>4. FollowDegrees \in [0 .. NumChannels - 1 -> Nat] /\ c \in 0 .. NumChannels - 1
  BY <1>0, DegreesType DEF Channels
<1>5. /\ SumTo(FollowDegrees, 0) = 0 /\ SumTo(FollowDegrees, c) \in Int
      /\ SumTo(FollowDegrees, c + 1) = SumTo(FollowDegrees, c) + FollowDegrees[c]
      /\ SumTo(FollowDegrees, 0) <= SumTo(FollowDegrees, c)
  <2>1. /\ NumChannels \in Nat /\ FollowDegrees \in [0 .. NumChannels - 1 -> Int]
        /\ c \in 0 .. NumChannels /\ 0 \in 0 .. NumChannels
    BY <1>4
  <2>2. /\ SumTo(FollowDegrees, 0) = 0 /\ SumTo(FollowDegrees, c) \in Int
        /\ SumTo(FollowDegrees, c + 1) = SumTo(FollowDegrees, c) + FollowDegrees[c]
    BY <1>4, <2>1, SumNext
  <2>3. SumTo(FollowDegrees, 0) <= SumTo(FollowDegrees, c)
    BY <1>4, <2>1, SumsAscend
  <2> QED BY <2>2, <2>3
<1> DEFINE p == LinePointer(c)
           a == vertexPointer[w]
           b == vertexPointer[w + 1]
<1>6. p \in Nat /\ LinePointer(c + 1) = p + OutDegree(w)
  BY <1>2, <1>3, <1>5 DEF FollowDegrees
<1>7. a \in Nat /\ b \in Nat /\ OutDegree(w) = b - a
  BY <1>0, <1>2, OutDegreeType DEF OutDegree
<1>8. LineOut(c) = p .. p + (b - a) - 1 /\ \A k : LineTarget(c, k) = a + (k - p)
  BY <1>6, <1>7 DEF LineOut, LineTarget
<1>9. Out(w) = a .. b - 1
  BY DEF Out
<1> HIDE DEF w, p, a, b
<1>10. \A k \in LineOut(c) : LineTarget(c, k) \in Out(w)
  BY <1>6, <1>7, <1>8, <1>9
<1>11. ASSUME NEW d \in Out(w)
       PROVE  {j \in LineOut(c) : LineTarget(c, j) = d} = {p + (d - a)}
  <2>1. d \in a .. b - 1 /\ p + (d - a) \in p .. p + (b - a) - 1 /\ a + ((p + (d - a)) - p) = d
    BY <1>6, <1>7, <1>9
  <2>2. p + (d - a) \in LineOut(c) /\ LineTarget(c, p + (d - a)) = d
    BY <1>8, <2>1
  <2>3. ASSUME NEW j \in LineOut(c), LineTarget(c, j) = d PROVE j = p + (d - a)
    <3>1. j \in Int /\ a + (j - p) = d
      BY <1>6, <1>7, <1>8, <2>3
    <3> QED BY <1>6, <1>7, <2>1, <3>1
  <2> QED BY <2>2, <2>3
<1> QED BY <1>2, <1>6, <1>10, <1>11 DEF w, p, a

(* The workers that follow c in the line graph are the channels that leave  *)
(* its joint.                                                               *)
LEMMA LineFollowsIs ==
  ASSUME IInv, NEW c \in Channels
  PROVE  LineFollows(c) = Out(Intended(c)) /\ LineFollows(c) \subseteq Channels
<1>0. Joint(c) = Intended(c) /\ Joint(c) \in Workers
  BY LineRows
<1>1. LineFollows(c) \subseteq Out(Joint(c))
  BY LineRows DEF LineFollows
<1>2. ASSUME NEW d \in Out(Joint(c)) PROVE d \in LineFollows(c)
  <2>1. PICK k : {j \in LineOut(c) : LineTarget(c, j) = d} = {k}
    BY LineRows, ZenonT(60)
  <2> QED BY <2>1 DEF LineFollows
<1>3. IsRows(vertexPointer)
  BY DEF IInv, GraphType
<1> QED BY <1>0, <1>1, <1>2, <1>3, RowChannels

(* lineGraph builds the line graph of every network: the number of channels *)
(* computed from the ports is the number of channels that the loops write,  *)
(* and there is one channel for each pair of channels that meet.            *)
THEOREM LineCorrect == Spec => []LineIsLine
<1>1. IInv /\ PortsCounted => LineIsLine
  <2> SUFFICES ASSUME IInv, PortsCounted, pc = "done" PROVE LineIsLine
    BY DEF LineIsLine
  <2>1. LinePointer(NumChannels) = LineNumEdges
    <3>1. [c \in Channels |-> OutDegree(Joint(c))] = FollowDegrees
      BY LineRows DEF FollowDegrees
    <3>2. SumTo(PortProducts, NumWorkers) = SumTo(FollowDegrees, NumChannels)
      BY DEF PortsCounted
    <3> QED BY <3>1, <3>2 DEF LinePointer, LineNumEdges, PortProducts
  <2>2. ASSUME NEW c \in Channels, NEW d \in Channels
        PROVE  Cardinality({k \in LineOut(c) : LineTarget(c, k) = d})
                 = IF Target(c) = Source(d) THEN 1 ELSE 0
    <3> DEFINE K == {k \in LineOut(c) : LineTarget(c, k) = d}
    <3>0. IsRows(vertexPointer) /\ Joint(c) \in Workers
      BY LineRows DEF IInv, GraphType
    <3>1. Target(c) = Joint(c) /\ Source(d) = Owner(d)
      BY <3>0, OwnerRow DEF Joint
    <3>2. CASE Target(c) = Source(d)
      <4>1. d \in Out(Joint(c))
        BY <3>0, <3>1, <3>2, OwnerRow
      <4>2. PICK k : K = {k}
        BY <4>1, LineRows
      <4> HIDE DEF K
      <4>3. Cardinality(K) = 1
        BY <4>2, FS_Singleton
      <4> QED BY <3>2, <4>3 DEF K
    <3>3. CASE Target(c) # Source(d)
      <4>1. d \notin Out(Joint(c))
        BY <3>0, <3>1, <3>3, OwnerRow
      <4>2. K = {}
        BY <4>1, LineRows
      <4> HIDE DEF K
      <4>3. Cardinality(K) = 0
        BY <4>2, FS_EmptySet
      <4> QED BY <3>3, <4>3 DEF K
    <3> QED BY <3>2, <3>3
  <2> QED BY <2>1, <2>2 DEF LineIsLine
<1> QED BY <1>1, Invariance, Counted, PTL

(* If all workers reach all, then so do all channels: the workers whose     *)
(* channels are all in a set that nothing leaves make up such a set.        *)
LEMMA LineConnected ==
  ASSUME IInv, \A w \in Workers : ReachableFrom(w) = Workers, NEW c \in Channels
  PROVE  LineReachableFrom(c) = Channels
<1> SUFFICES ASSUME NEW d \in Channels, NEW S \in SUBSET Channels,
                    LineFollows(c) \subseteq S,
                    \A b \in S : LineFollows(b) \subseteq S
             PROVE  d \in S
  BY DEF LineReachableFrom
<1> DEFINE R == {w \in Workers : Out(w) \subseteq S}
<1>0. IsRows(vertexPointer) /\ given \in [Channels -> 0 .. NumWorkers]
  BY DEF IInv, GraphType
<1>1. ASSUME NEW e \in Channels, Owner(e) \in R PROVE Intended(e) \in R
  <2>1. e \in S
    BY <1>0, <1>1, OwnerRow
  <2>2. Out(Intended(e)) \subseteq S
    BY <1>1, <2>1, LineFollowsIs
  <2> QED BY <1>0, <2>2, IntendedWorker
<1>2. Intended(c) \in R /\ Intended(c) \in Workers
  BY <1>0, LineFollowsIs, IntendedWorker
<1>3. IsClosed(R) /\ \A e \in Channels : Owner(e) = Intended(c) => Intended(e) \in R
  BY <1>1, <1>2 DEF IsClosed
<1>4. Owner(d) \in ReachableFrom(Intended(c)) /\ d \in Out(Owner(d))
  BY <1>0, <1>2, OwnerRow
<1>5. R \in SUBSET Workers
  OBVIOUS
<1> HIDE DEF R
<1>6. Owner(d) \in R
  BY <1>3, <1>4, <1>5 DEF ReachableFrom
<1> QED BY <1>4, <1>6 DEF R

(* Multiplying the cores leaves room for as many as there are ports, so two *)
(* channels share a core only if they share joint and port.                 *)
LEMMA LineCoresSeparate ==
  ASSUME IInv, pc = "done", \A w \in Workers : numPorts[w] > 0,
         NEW core \in [Workers -> 0 .. NumWorkers], HasSeparateLogicalCores(core)
  PROVE  HasSeparateLogicalCores(LineCores(core))
<1> USE SizeAssumption
<1> DEFINE m == maxPortNum
<1>0. /\ GraphType /\ OneProducerPerPort /\ Assigned = Channels
      /\ numPorts \in [Workers -> Nat] /\ targetPort \in [Channels -> Nat]
  BY DEF IInv, GraphType
<1>1. m \in Nat /\ \A w \in Workers : numPorts[w] <= m
  BY <1>0, LargestOf DEF maxPortNum, Workers
<1>2. m \in Nat \ {0}
  <2>1. 0 \in Workers
    BY DEF Workers
  <2>2. numPorts[0] > 0 /\ numPorts[0] <= m /\ numPorts[0] \in Nat
    BY <1>0, <1>1, <2>1
  <2> QED BY <1>1, <2>2
<1>3. ASSUME NEW c \in Channels
      PROVE  /\ Joint(c) = Intended(c) /\ Joint(c) \in Workers
             /\ core[Joint(c)] \in Int
             /\ targetPort[c] \in 0 .. m - 1
             /\ LineCores(core)[c] = m * core[Joint(c)] + targetPort[c]
  <2>1. Joint(c) = Intended(c) /\ Joint(c) \in Workers
    BY LineRows
  <2>2. /\ targetPort[c] \in Nat /\ targetPort[c] < numPorts[Joint(c)]
        /\ numPorts[Joint(c)] \in Nat /\ numPorts[Joint(c)] <= m
    BY <1>0, <1>1, <2>1 DEF OneProducerPerPort
  <2>3. targetPort[c] \in 0 .. m - 1
    BY <1>1, <2>2
  <2>4. LineCores(core)[c] = m * core[Joint(c)] + targetPort[c]
    BY DEF LineCores
  <2>5. core[Joint(c)] \in Int
    BY <2>1
  <2> QED BY <2>1, <2>3, <2>4, <2>5
<1> HIDE DEF m
<1>4. ASSUME NEW c \in Channels, NEW d \in Channels, c # d,
             LineCores(core)[c] = LineCores(core)[d]
      PROVE  FALSE
  <2> DEFINE x == LineCores(core)[c]
  <2>1. x \div m = core[Joint(c)] /\ x % m = targetPort[c]
    BY <1>2, <1>3, Quotient, Remainder, ZenonT(60)
  <2>2. x \div m = core[Joint(d)] /\ x % m = targetPort[d]
    <3>1. x = m * core[Joint(d)] + targetPort[d]
      BY <1>3, <1>4
    <3> HIDE DEF x
    <3> QED BY <1>2, <1>3, <3>1, Quotient, Remainder
  <2> HIDE DEF x
  <2>3. Joint(c) = Joint(d)
    <3>1. Joint(c) \in Workers /\ Joint(d) \in Workers /\ DOMAIN core = Workers
      BY <1>3
    <3> QED BY <2>1, <2>2, <3>1 DEF HasSeparateLogicalCores
  <2>4. Intended(c) = Intended(d)
    BY <1>3, <2>3
  <2>5. targetPort[c] # targetPort[d]
    BY <1>0, <1>4, <2>4 DEF OneProducerPerPort
  <2> QED BY <2>1, <2>2, <2>5
<1>5. DOMAIN LineCores(core) = Channels
  BY DEF LineCores
<1> QED BY <1>4, <1>5 DEF HasSeparateLogicalCores

(* A queue that could run on a network can run on its line graph: weights,  *)
(* channels into and out of each worker, connections and separate cores are *)
(* preserved, for every network and every assignment of cores.              *)
THEOREM LineUsable == Spec => []LinePreservesUse
<1>1. IInv /\ TypeOK => LinePreservesUse
  <2> SUFFICES ASSUME IInv, NumbersType, pc = "done", IsValidQNetwork PROVE LinePreservesUse
    BY DEF LinePreservesUse, TypeOK
  <2>0. /\ IsRows(vertexPointer) /\ given \in [Channels -> 0 .. NumWorkers]
        /\ OneProducerPerPort /\ Assigned = Channels /\ numPorts \in [Workers -> Nat]
    BY DEF IInv, GraphType
  <2>1. /\ \A c \in Channels : multiplicities[c] \in Nat \ {0} /\ batchSize[c] \in Nat \ {0}
        /\ \A w \in Workers : numPorts[w] > 0 /\ vertexPointer[w] # vertexPointer[w + 1]
        /\ channelBufferSize >= Largest(batchSize) /\ channelBufferSize \in Nat
    BY DEF IsValidQNetwork, NumbersType
  <2>2. ASSUME NEW c \in Channels PROVE LineBatchSize(c) \in 1 .. channelBufferSize
    <3>1. Largest(batchSize) \in Nat /\ batchSize[c] <= Largest(batchSize)
      BY LargestIs DEF NumbersType
    <3> QED BY <2>1, <3>1 DEF LineBatchSize
  <2>3. ASSUME NEW w \in Workers PROVE vertexPointer[w] \in Out(w)
    <3>1. /\ vertexPointer[w] \in Nat /\ vertexPointer[w + 1] \in Nat
          /\ OutDegree(w) \in Nat /\ OutDegree(w) = vertexPointer[w + 1] - vertexPointer[w]
      BY <2>0, OutDegreeType DEF OutDegree
    <3> QED BY <2>1, <3>1 DEF Out
  <2>4. ASSUME NEW c \in Channels PROVE LineOut(c) # {}
    <3>1. Joint(c) \in Workers
      BY LineRows
    <3>2. vertexPointer[Joint(c)] \in Out(Joint(c))
      BY <2>3, <3>1
    <3>3. PICK k : {j \in LineOut(c) : LineTarget(c, j) = vertexPointer[Joint(c)]} = {k}
      BY <3>2, LineRows, ZenonT(60)
    <3> QED BY <3>3
  <2>5. ASSUME NEW c \in Channels, NEW k \in LineOut(c) PROVE LineMultiplicity(c, k) > 0
    <3>1. LineTarget(c, k) \in Channels
      BY <2>0, LineRows, RowChannels
    <3> DEFINE x == multiplicities[c]
               y == multiplicities[LineTarget(c, k)]
    <3>2. x \in Nat \ {0} /\ y \in Nat \ {0}
      BY <2>1, <3>1
    <3> HIDE DEF x, y
    <3>3. x * y > 0
      BY <3>2, SMTT(30)
    <3> QED BY <3>3 DEF x, y, LineMultiplicity
  <2>6. ASSUME NEW c \in Channels PROVE \E b \in Channels : c \in LineFollows(b)
    <3>1. Owner(c) \in Workers /\ c \in Out(Owner(c))
      BY <2>0, OwnerRow
    <3>2. 0 \in 0 .. numPorts[Owner(c)] - 1
      BY <2>0, <2>1, <3>1
    <3>3. PICK b \in Channels : Intended(b) = Owner(c)
      BY <2>0, <3>1, <3>2 DEF OneProducerPerPort
    <3> QED BY <3>1, <3>3, LineFollowsIs
  <2>7. connected => \A c \in Channels : LineReachableFrom(c) = Channels
    <3>1. connected => \A w \in Workers : ReachableFrom(w) = Workers
      BY DEF IInv, ConnectedCorrect
    <3> QED BY <3>1, LineConnected
  <2>8. \A core \in [Workers -> 0 .. NumWorkers] :
          HasSeparateLogicalCores(core) => HasSeparateLogicalCores(LineCores(core))
    BY <2>1, LineCoresSeparate
  <2> QED BY <2>2, <2>4, <2>5, <2>6, <2>7, <2>8 DEF LinePreservesUse
<1> QED BY <1>1, Invariance, TypeCorrect, PTL

(* What lineGraph hands to the constructor is what QNetwork starts from:    *)
(* rows in order, from 0 to the number of channels, and targets that are    *)
(* workers of the line graph.                                               *)
THEOREM LineIsNetwork ==
  Spec => [](pc = "done" =>
               /\ LinePointer(0) = 0 /\ LinePointer(NumChannels) = LineNumEdges
               /\ \A c, d \in 0 .. NumChannels : c <= d => LinePointer(c) <= LinePointer(d)
               /\ \A c \in Channels : \A k \in LineOut(c) : LineTarget(c, k) \in Channels)
<1> DEFINE Fits ==
      pc = "done" =>
        /\ LinePointer(0) = 0 /\ LinePointer(NumChannels) = LineNumEdges
        /\ \A c, d \in 0 .. NumChannels : c <= d => LinePointer(c) <= LinePointer(d)
        /\ \A c \in Channels : \A k \in LineOut(c) : LineTarget(c, k) \in Channels
<1>1. IInv /\ LineIsLine => Fits
  <2> SUFFICES ASSUME IInv, LineIsLine, pc = "done"
               PROVE  /\ LinePointer(0) = 0 /\ LinePointer(NumChannels) = LineNumEdges
                      /\ \A c, d \in 0 .. NumChannels :
                           c <= d => LinePointer(c) <= LinePointer(d)
                      /\ \A c \in Channels : \A k \in LineOut(c) : LineTarget(c, k) \in Channels
    OBVIOUS
  <2>1. \A e : LinePointer(e) = SumTo(FollowDegrees, e)
    <3>1. [d \in Channels |-> OutDegree(Joint(d))] = FollowDegrees
      BY LineRows DEF FollowDegrees
    <3> QED BY <3>1 DEF LinePointer
  <2>2. NumChannels \in Nat /\ FollowDegrees \in [0 .. NumChannels - 1 -> Nat]
    BY DegreesType, SizeAssumption DEF IInv, Channels
  <2>3. LinePointer(0) = 0
    <3>1. FollowDegrees \in [0 .. NumChannels - 1 -> Int]
      BY <2>2
    <3> QED BY <2>1, <2>2, <3>1, SumNext
  <2>4. \A c, d \in 0 .. NumChannels : c <= d => LinePointer(c) <= LinePointer(d)
    BY <2>1, <2>2, SumsAscend
  <2>5. \A c \in Channels : \A k \in LineOut(c) : LineTarget(c, k) \in Channels
    BY LineRows, RowChannels DEF IInv, GraphType
  <2> QED BY <2>3, <2>4, <2>5 DEF LineIsLine
<1> QED BY <1>1, Invariance, LineCorrect, PTL

-----------------------------------------------------------------------------
(* What the queue relies on                                                 *)

(* The receiver that the queue computes from the labels is the worker the   *)
(* channel was meant to lead to.                                            *)
LEMMA ReceiverIntended ==
  ASSUME IInv, NEW c \in Channels
  PROVE  ReceiverOf(NumWorkers, [d \in Channels |-> Source(d)], edgeTargets, c) = Intended(c)
<1>1. IsRows(vertexPointer) /\ Labels /\ given \in [Channels -> 0 .. NumWorkers]
  BY DEF IInv, GraphType
<1>2. Source(c) = Owner(c) /\ Owner(c) \in Workers
  BY <1>1, OwnerRow
<1>3. End(Owner(c), c) = Intended(c)
  BY <1>1, <1>2, EndIntended
<1> QED BY <1>2, <1>3 DEF ReceiverOf, End

(* At each port of a worker is the one channel that leads there.            *)
LEMMA PortChannelsAre ==
  ASSUME IInv, Assigned = Channels, NEW w \in Workers
  PROVE  /\ PortChannels(w) \in Seq(Channels) /\ Len(PortChannels(w)) = numPorts[w]
         /\ \A p \in 1 .. numPorts[w] : Intended(PortChannels(w)[p]) = w
         /\ \A c \in Channels : Intended(c) = w =>
              /\ targetPort[c] + 1 \in 1 .. numPorts[w]
              /\ PortChannels(w)[targetPort[c] + 1] = c
<1>1. OneProducerPerPort /\ numPorts[w] \in Nat /\ targetPort \in [Channels -> Nat]
  BY DEF IInv, GraphType
<1>2. ASSUME NEW p \in 1 .. numPorts[w]
      PROVE  \E c \in Channels : Intended(c) = w /\ targetPort[c] = p - 1
  <2>1. p - 1 \in 0 .. numPorts[w] - 1
    BY <1>1
  <2> QED BY <1>1, <2>1 DEF OneProducerPerPort
<1>3. ASSUME NEW p \in 1 .. numPorts[w]
      PROVE  /\ PortChannels(w)[p] \in Channels
             /\ Intended(PortChannels(w)[p]) = w
             /\ targetPort[PortChannels(w)[p]] = p - 1
  <2> DEFINE Fits(c) == Intended(c) = w /\ targetPort[c] = p - 1
  <2>1. \E c \in Channels : Fits(c)
    BY <1>2
  <2>2. PortChannels(w)[p] = CHOOSE c \in Channels : Fits(c)
    BY <2>1 DEF PortChannels
  <2> HIDE DEF Fits
  <2>3. PortChannels(w)[p] \in Channels /\ Fits(PortChannels(w)[p])
    BY <2>1, <2>2
  <2> QED BY <2>3 DEF Fits
<1>4. PortChannels(w) \in Seq(Channels) /\ Len(PortChannels(w)) = numPorts[w]
  <2>1. DOMAIN PortChannels(w) = 1 .. numPorts[w]
    BY DEF PortChannels
  <2>2. PortChannels(w) = [p \in 1 .. numPorts[w] |-> PortChannels(w)[p]]
    BY DEF PortChannels
  <2>3. PortChannels(w) \in [1 .. numPorts[w] -> Channels]
    BY <1>3, <2>2
  <2> QED BY <1>1, <2>1, <2>3
<1>5. ASSUME NEW c \in Channels, Intended(c) = w
      PROVE  targetPort[c] + 1 \in 1 .. numPorts[w] /\ PortChannels(w)[targetPort[c] + 1] = c
  <2>1. targetPort[c] \in Nat /\ targetPort[c] < numPorts[w]
    BY <1>1, <1>5 DEF OneProducerPerPort
  <2>2. targetPort[c] + 1 \in 1 .. numPorts[w] /\ (targetPort[c] + 1) - 1 = targetPort[c]
    BY <1>1, <2>1
  <2> DEFINE d == PortChannels(w)[targetPort[c] + 1]
  <2>3. d \in Channels /\ Intended(d) = w /\ targetPort[d] = targetPort[c]
    BY <1>3, <2>2
  <2> HIDE DEF d
  <2>4. d = c
    BY <1>1, <1>5, <2>3 DEF OneProducerPerPort
  <2> QED BY <2>2, <2>4 DEF d
<1> QED BY <1>3, <1>4, <1>5

(* SpapQueue may assume of its network and its ports what it does: every    *)
(* network that is constructed and valid provides it.                       *)
THEOREM NetworkFits == Spec => []FitForQueue
<1>1. IInv /\ TypeOK => FitForQueue
  <2> DEFINE source == [c \in Channels |-> Source(c)]
             inPorts == [w \in Workers |-> PortChannels(w)]
  <2> SUFFICES ASSUME IInv, NumbersType, pc = "done", IsValidQNetwork
               PROVE  /\ IsNetwork(NumWorkers, NumChannels, source, edgeTargets, batchSize,
                                   Largest(batchSize), channelBufferSize)
                      /\ ArePorts(NumWorkers, NumChannels, source, edgeTargets, inPorts)
    BY DEF FitForQueue, TypeOK
  <2>1. /\ IsRows(vertexPointer) /\ given \in [Channels -> 0 .. NumWorkers]
        /\ edgeTargets \in [Channels -> 0 .. NumWorkers] /\ Assigned = Channels
    BY DEF IInv, GraphType
  <2>2. source \in [Channels -> Workers]
    BY <2>1, SourceRow
  <2>3. IsNetwork(NumWorkers, NumChannels, source, edgeTargets, batchSize,
                  Largest(batchSize), channelBufferSize)
    <3>1. Largest(batchSize) \in Nat /\ \A c \in Channels : batchSize[c] <= Largest(batchSize)
      BY LargestIs DEF NumbersType
    <3>2. batchSize \in [Channels -> 1 .. Largest(batchSize)]
      <4>1. \A c \in Channels : batchSize[c] \in Nat /\ batchSize[c] > 0
        BY DEF NumbersType, IsValidQNetwork
      <4>2. \A c \in Channels : batchSize[c] \in 1 .. Largest(batchSize)
        BY <3>1, <4>1
      <4> QED BY <4>2 DEF NumbersType
    <3>3. channelBufferSize \in Nat /\ Largest(batchSize) <= channelBufferSize
      BY <3>1 DEF NumbersType, IsValidQNetwork
    <3> HIDE DEF source
    <3> QED BY <2>1, <2>2, <3>1, <3>2, <3>3, SizeAssumption DEF IsNetwork, Channels, Workers
  <2>4. ASSUME NEW w \in Workers
        PROVE  /\ inPorts[w] \in Seq(Channels) /\ Len(inPorts[w]) > 0
               /\ \A p \in 1 .. Len(inPorts[w]) :
                    ReceiverOf(NumWorkers, source, edgeTargets, inPorts[w][p]) = w
    <3>1. /\ inPorts[w] \in Seq(Channels) /\ Len(inPorts[w]) = numPorts[w]
          /\ \A p \in 1 .. numPorts[w] : Intended(inPorts[w][p]) = w
      BY <2>1, PortChannelsAre
    <3>2. numPorts[w] > 0
      BY DEF IsValidQNetwork
    <3> HIDE DEF inPorts
    <3>3. ASSUME NEW p \in 1 .. Len(inPorts[w])
          PROVE  ReceiverOf(NumWorkers, source, edgeTargets, inPorts[w][p]) = w
      <4>1. inPorts[w][p] \in Channels
        BY <3>1
      <4> QED BY <3>1, <4>1, ReceiverIntended
    <3> QED BY <3>1, <3>2, <3>3
  <2>5. ASSUME NEW c \in Channels
        PROVE  LET w == ReceiverOf(NumWorkers, source, edgeTargets, c)
               IN  \E p \in 1 .. Len(inPorts[w]) : inPorts[w][p] = c
    <3>1. /\ ReceiverOf(NumWorkers, source, edgeTargets, c) = Intended(c)
          /\ Intended(c) \in Workers
      BY <2>1, ReceiverIntended, IntendedWorker
    <3>2. /\ Len(inPorts[Intended(c)]) = numPorts[Intended(c)]
          /\ targetPort[c] + 1 \in 1 .. numPorts[Intended(c)]
          /\ inPorts[Intended(c)][targetPort[c] + 1] = c
      BY <2>1, <3>1, PortChannelsAre
    <3> HIDE DEF inPorts, source
    <3> QED BY <3>1, <3>2
  <2>6. ArePorts(NumWorkers, NumChannels, source, edgeTargets, inPorts)
    <3>1. DOMAIN inPorts = Workers
      OBVIOUS
    <3> HIDE DEF inPorts, source
    <3> QED BY <2>4, <2>5, <3>1 DEF ArePorts, Channels, Workers
  <2> QED BY <2>3, <2>6
<1> QED BY <1>1, Invariance, TypeCorrect, PTL

(* Tables that send over the channels in the workers' own rows are what the *)
(* queue assumes of its tables; those of qNetworkTable are, by TableInRow   *)
(* in EarliestDeadlineFirstProofs, with vertexPointer[w] as the first       *)
(* channel and OutDegree(w) as the number of symbols.                       *)
THEOREM TablesFit ==
  Spec => [](\A tables :
               /\ DOMAIN tables = Workers
               /\ \A w \in Workers : tables[w] \in Seq(Out(w)) /\ Len(tables[w]) > 0
               => AreTables(NumWorkers, NumChannels, [c \in Channels |-> Source(c)], tables))
<1>1. IInv => \A tables :
               /\ DOMAIN tables = Workers
               /\ \A w \in Workers : tables[w] \in Seq(Out(w)) /\ Len(tables[w]) > 0
               => AreTables(NumWorkers, NumChannels, [c \in Channels |-> Source(c)], tables)
  <2> SUFFICES ASSUME IInv, NEW tables, DOMAIN tables = Workers,
                      \A w \in Workers : tables[w] \in Seq(Out(w)) /\ Len(tables[w]) > 0
               PROVE  AreTables(NumWorkers, NumChannels, [c \in Channels |-> Source(c)], tables)
    OBVIOUS
  <2>1. IsRows(vertexPointer)
    BY DEF IInv, GraphType
  <2>2. ASSUME NEW w \in Workers, NEW k \in 1 .. Len(tables[w])
        PROVE  tables[w][k] \in Channels /\ Source(tables[w][k]) = w
    <3>1. tables[w][k] \in Out(w)
      OBVIOUS
    <3>2. tables[w][k] \in Channels
      BY <2>1, <3>1, RowChannels
    <3> QED BY <2>1, <3>1, <3>2, OwnerRow
  <2>3. \A w \in Workers : tables[w] \in Seq(Channels)
    <3> SUFFICES ASSUME NEW w \in Workers PROVE tables[w] \in Seq(Channels)
      OBVIOUS
    <3>1. tables[w] \in [1 .. Len(tables[w]) -> Channels] /\ Len(tables[w]) \in Nat
      BY <2>2
    <3> QED BY <3>1
  <2> QED BY <2>2, <2>3 DEF AreTables, Channels, Workers
<1> QED BY <1>1, Invariance, PTL

-----------------------------------------------------------------------------
(* The predefined networks as inputs of the constructor                     *)

(* An element of a sequence *)
LEMMA ElementType ==
  ASSUME NEW S, NEW q \in Seq(S)
  PROVE  \A k \in 1 .. Len(q) : q[k] \in S
OBVIOUS

(* PETERSEN_GRAPH has rows in order, and its targets are workers.           *)
LEMMA PetersenRows ==
  IsPetersenSize => IsRows(PetersenPointer) /\ PetersenTargets \in [Channels -> Workers]
<1> SUFFICES ASSUME IsPetersenSize
             PROVE  IsRows(PetersenPointer) /\ PetersenTargets \in [Channels -> Workers]
  OBVIOUS
<1>1. NumWorkers = 10 /\ NumChannels = 30 /\ Channels = 0 .. 29 /\ Workers = 0 .. 9
  BY DEF IsPetersenSize, Channels, Workers
<1>2. IsRows(PetersenPointer)
  BY <1>1 DEF IsRows, PetersenPointer
<1> DEFINE t == <<1, 5, 4,  2, 6, 0,  3, 7, 1,  4, 8, 2,  0, 9, 3,
                  6, 0, 9,  7, 1, 5,  8, 2, 6,  9, 3, 7,  5, 4, 8>>
<1>3. \A k \in 1 .. 30 : t[k] \in 0 .. 9
  <2>1. t \in Seq(0 .. 9) /\ Len(t) = 30
    OBVIOUS
  <2> HIDE DEF t
  <2> QED BY <2>1, ElementType
<1>4. PetersenTargets = [c \in Channels |-> t[c + 1]]
  BY <1>1 DEF PetersenTargets
<1> HIDE DEF t
<1>5. \A c \in Channels : t[c + 1] \in Workers
  BY <1>1, <1>3
<1> QED BY <1>2, <1>4, <1>5

(* The predefined networks are among those the theorems are about.          *)
THEOREM ExamplesAreNetworks ==
  ASSUME 1 \in Multiplicities, 1 \in BatchSizes
  PROVE  ExampleSpec => Spec
<1>1. ExampleInit => Init
  <2> SUFFICES ASSUME ExampleInit PROVE Init
    OBVIOUS
  <2>1. IsRows(vertexPointer) /\ given \in [Channels -> Workers]
    BY PetersenRows, FullyConnectedCorrect DEF ExampleInit
  <2>2. given \in [Channels -> 0 .. NumWorkers]
    <3>1. Workers \subseteq 0 .. NumWorkers
      BY SizeAssumption DEF Workers
    <3> QED BY <2>1, <3>1
  <2>3. /\ multiplicities \in [Channels -> Multiplicities]
        /\ batchSize \in [Channels -> BatchSizes]
    BY DEF ExampleInit
  <2> QED BY <2>1, <2>2, <2>3 DEF Init, ExampleInit, IsRows
<1>2. [ExampleNext]_vars => [Next]_vars
  BY DEF ExampleNext, Next
<1> QED BY <1>1, <1>2, PTL DEF ExampleSpec, Spec

(* What ConstructPlainly has made of the arrays of a predefined network *)
Plain(pointers, targets) ==
  /\ vertexPointer = pointers /\ given = targets
  /\ multiplicities = [c \in Channels |-> 1]
  /\ batchSize = [c \in Channels |-> 1]
  /\ pc # "construct" =>
       /\ enqueueFrequency = DefaultEnqueueFrequency
       /\ channelBufferSize = DefaultChannelBufferSize(batchSize, enqueueFrequency)
       /\ maxPushAttempts = DefaultMaxPushAttempts

FullyConnectedState == Plain(FullyConnectedPointer, FullyConnectedTargets)

PetersenState == Plain(PetersenPointer, PetersenTargets)

(* Nothing that follows changes it. *)
LEMMA PlainStep ==
  ASSUME NEW pointers, NEW targets, Plain(pointers, targets), [ExampleNext]_vars
  PROVE  Plain(pointers, targets)'
<1>1. CASE ConstructPlainly
  BY <1>1 DEF ConstructPlainly, BeginPorts, graph, Plain
<1>2. CASE UNCHANGED <<graph, weights, params>> /\ (pc' # "construct" => pc # "construct")
  BY <1>2 DEF graph, weights, params, Plain
<1> QED BY <1>1, <1>2 DEF ExampleNext, AssignPort, BeginLabels, ChangeLabel, NextRow,
      Constructed, BeginSearch, Visit, NextPass, NextSearch, SearchDone, ReturnConnected,
      Done, vars

LEMMA FullyConnectedStays ==
  ASSUME IsFullyConnectedSize
  PROVE  ExampleSpec => []FullyConnectedState
<1>1. ExampleInit => FullyConnectedState
  <2> SUFFICES ASSUME ExampleInit PROVE FullyConnectedState
    OBVIOUS
  <2>1. ~ IsPetersenSize
    BY DEF IsPetersenSize, IsFullyConnectedSize
  <2> QED BY <2>1 DEF ExampleInit, Begin, FullyConnectedState, Plain
<1>2. FullyConnectedState /\ [ExampleNext]_vars => FullyConnectedState'
  BY PlainStep DEF FullyConnectedState
<1> QED BY <1>1, <1>2, PTL DEF ExampleSpec

LEMMA PetersenStays ==
  ASSUME IsPetersenSize
  PROVE  ExampleSpec => []PetersenState
<1>1. ExampleInit => PetersenState
  <2> SUFFICES ASSUME ExampleInit PROVE PetersenState
    OBVIOUS
  <2>1. ~ IsFullyConnectedSize
    BY DEF IsPetersenSize, IsFullyConnectedSize
  <2> QED BY <2>1 DEF ExampleInit, Begin, PetersenState, Plain
<1>2. PetersenState /\ [ExampleNext]_vars => PetersenState'
  BY PlainStep DEF PetersenState
<1> QED BY <1>1, <1>2, PTL DEF ExampleSpec

(* What the constructor fills in makes a predefined network valid, if each  *)
(* of its workers is somewhere at the beginning and somewhere at the end of *)
(* a channel.                                                               *)
LEMMA PlainValid ==
  ASSUME NEW pointers, NEW targets, Plain(pointers, targets),
         ValidIffUsable, pc = "done",
         \A w \in Workers : \E c, d \in Channels : Owner(c) = w /\ Intended(d) = w
  PROVE  IsValidQNetwork
<1>1. enqueueFrequency \in Nat /\ enqueueFrequency >= 16
  BY DefaultFrequencyType DEF Plain
<1>2. batchSize \in [Channels -> Nat]
  BY DEF Plain
<1>3. Largest(batchSize) \in Nat
  BY <1>2, LargestIs
<1>4. channelBufferSize = Larger(8 * Largest(batchSize), 4 * enqueueFrequency)
  BY DEF Plain, DefaultChannelBufferSize
<1>5. channelBufferSize \in Nat /\ channelBufferSize >= 1
  BY <1>1, <1>3, <1>4 DEF Larger
<1>6. maxPushAttempts = 4
  BY DEF Plain, DefaultMaxPushAttempts
<1>7. \A c \in Channels : multiplicities[c] = 1 /\ batchSize[c] = 1
  BY DEF Plain
<1>8. \A c \in Channels : multiplicities[c] > 0 /\ batchSize[c] \in 1 .. channelBufferSize
  BY <1>5, <1>7
<1>9. enqueueFrequency > 0 /\ maxPushAttempts > 0
  BY <1>1, <1>6
<1> QED BY <1>8, <1>9 DEF ValidIffUsable, IsConstructed

(* A queue of any number of workers can be run on FULLY_CONNECTED_GRAPH:    *)
(* the constructor makes a valid network of it, whose ports are complete,   *)
(* and isStronglyConnected says so.                                         *)
THEOREM FullyConnectedUsable ==
  ASSUME IsFullyConnectedSize, 1 \in Multiplicities, 1 \in BatchSizes
  PROVE  ExampleSpec => [](pc = "done" => IsValidQNetwork /\ connected)
<1>1. IInv /\ ValidIffUsable /\ FullyConnectedState =>
        (pc = "done" => IsValidQNetwork /\ connected)
  <2> SUFFICES ASSUME IInv, ValidIffUsable, FullyConnectedState, pc = "done"
               PROVE  IsValidQNetwork /\ connected
    OBVIOUS
  <2>1. IsRows(vertexPointer) /\ ConnectedCorrect
    BY DEF IInv, GraphType
  <2>2. ASSUME NEW v \in Workers, NEW w \in Workers
        PROVE  \E c \in Channels : Owner(c) = v /\ Intended(c) = w
    <3>1. PICK c \in Out(v) : given[c] = w
      BY FullyConnectedCorrect DEF FullyConnectedState, Plain, Out
    <3>2. c \in Channels /\ Owner(c) = v
      BY <2>1, RowChannels, OwnerRow
    <3>3. w # NumWorkers
      BY SizeAssumption DEF Workers
    <3> QED BY <3>1, <3>2, <3>3 DEF Intended
  <2>3. connected
    <3>1. ASSUME NEW w \in Workers PROVE ReachableFrom(w) = Workers
      BY <2>2 DEF ReachableFrom
    <3> QED BY <2>1, <3>1 DEF ConnectedCorrect
  <2>4. \A w \in Workers : \E c, d \in Channels : Owner(c) = w /\ Intended(d) = w
    BY <2>2
  <2>5. IsValidQNetwork
    BY <2>4, PlainValid DEF FullyConnectedState
  <2> QED BY <2>3, <2>5
<1>2. ExampleSpec => Spec
  BY ExamplesAreNetworks
<1>3. ExampleSpec => []FullyConnectedState
  BY FullyConnectedStays
<1> QED BY <1>1, <1>2, <1>3, Invariance, ValidityCorrect, PTL

(* A queue can be run on PETERSEN_GRAPH, although it is another graph: the  *)
(* constructor makes a valid network of it, and isStronglyConnected says    *)
(* that it is connected, as a round trip to all workers shows.              *)
THEOREM PetersenUsable ==
  ASSUME IsPetersenSize, 1 \in Multiplicities, 1 \in BatchSizes
  PROVE  ExampleSpec => [](pc = "done" => IsValidQNetwork /\ connected)
<1>1. IInv /\ ValidIffUsable /\ PetersenState =>
        (pc = "done" => IsValidQNetwork /\ connected)
  <2> SUFFICES ASSUME IInv, ValidIffUsable, PetersenState, pc = "done"
               PROVE  IsValidQNetwork /\ connected
    OBVIOUS
  <2>1. IsRows(vertexPointer) /\ ConnectedCorrect
    BY DEF IInv, GraphType
  <2>2. NumWorkers = 10 /\ Channels = 0 .. 29 /\ Workers = 0 .. 9
    BY DEF IsPetersenSize, Channels, Workers
  <2> DEFINE Joins(v, w) == \E c \in Channels : Owner(c) = v /\ Intended(c) = w
  <2>3. ASSUME NEW c \in Channels, NEW v \in Workers, c \in 3 * v .. 3 * v + 2
        PROVE  Owner(c) = v /\ Intended(c) = PetersenTargets[c]
    <3>1. c \in Out(v)
      <4>1. vertexPointer = [w \in 0 .. 10 |-> 3 * w]
        BY DEF PetersenState, Plain, PetersenPointer
      <4>2. v \in 0 .. 10 /\ v + 1 \in 0 .. 10
        BY <2>2
      <4>3. vertexPointer[v] = 3 * v /\ vertexPointer[v + 1] = 3 * v + 3
        BY <4>1, <4>2
      <4> QED BY <2>3, <4>2, <4>3 DEF Out
    <3>2. Owner(c) = v
      BY <2>1, <3>1, OwnerRow, RowChannels
    <3>3. given[c] \in Workers
      BY PetersenRows DEF PetersenState, Plain
    <3> QED BY <2>2, <3>2, <3>3 DEF Intended, PetersenState, Plain
  <2>4. /\ PetersenTargets[0] = 1 /\ PetersenTargets[3] = 2 /\ PetersenTargets[6] = 3
        /\ PetersenTargets[9] = 4 /\ PetersenTargets[13] = 9 /\ PetersenTargets[29] = 8
        /\ PetersenTargets[26] = 7 /\ PetersenTargets[23] = 6 /\ PetersenTargets[20] = 5
        /\ PetersenTargets[16] = 0
    BY DEF PetersenTargets
  <2>5. /\ Joins(0, 1) /\ Joins(1, 2) /\ Joins(2, 3) /\ Joins(3, 4) /\ Joins(4, 9)
        /\ Joins(9, 8) /\ Joins(8, 7) /\ Joins(7, 6) /\ Joins(6, 5) /\ Joins(5, 0)
    <3>1. Joins(0, 1) /\ Joins(1, 2) /\ Joins(2, 3) /\ Joins(3, 4) /\ Joins(4, 9)
      <4>1. Owner(0) = 0 /\ Intended(0) = 1
        BY <2>2, <2>3, <2>4
      <4>2. Owner(3) = 1 /\ Intended(3) = 2
        BY <2>2, <2>3, <2>4
      <4>3. Owner(6) = 2 /\ Intended(6) = 3
        BY <2>2, <2>3, <2>4
      <4>4. Owner(9) = 3 /\ Intended(9) = 4
        BY <2>2, <2>3, <2>4
      <4>5. Owner(13) = 4 /\ Intended(13) = 9
        BY <2>2, <2>3, <2>4
      <4> QED BY <2>2, <4>1, <4>2, <4>3, <4>4, <4>5
    <3>2. Joins(9, 8) /\ Joins(8, 7) /\ Joins(7, 6) /\ Joins(6, 5) /\ Joins(5, 0)
      <4>1. Owner(29) = 9 /\ Intended(29) = 8
        BY <2>2, <2>3, <2>4
      <4>2. Owner(26) = 8 /\ Intended(26) = 7
        BY <2>2, <2>3, <2>4
      <4>3. Owner(23) = 7 /\ Intended(23) = 6
        BY <2>2, <2>3, <2>4
      <4>4. Owner(20) = 6 /\ Intended(20) = 5
        BY <2>2, <2>3, <2>4
      <4>5. Owner(16) = 5 /\ Intended(16) = 0
        BY <2>2, <2>3, <2>4
      <4> QED BY <2>2, <4>1, <4>2, <4>3, <4>4, <4>5
    <3> QED BY <3>1, <3>2
  <2>6. \A v, w \in Workers : \A R \in SUBSET Workers :
          Joins(v, w) /\ v \in R
          /\ (\A c \in Channels : Owner(c) \in R => Intended(c) \in R) => w \in R
    OBVIOUS
  <2> HIDE DEF Joins
  <2>7. ASSUME NEW R \in SUBSET Workers, NEW v \in R,
               \A c \in Channels : Owner(c) \in R => Intended(c) \in R
        PROVE  R = Workers
    <3>1. /\ 0 \in R => 1 \in R
          /\ 1 \in R => 2 \in R
          /\ 2 \in R => 3 \in R
          /\ 3 \in R => 4 \in R
          /\ 4 \in R => 9 \in R
          /\ 9 \in R => 8 \in R
          /\ 8 \in R => 7 \in R
          /\ 7 \in R => 6 \in R
          /\ 6 \in R => 5 \in R
          /\ 5 \in R => 0 \in R
      BY <2>2, <2>5, <2>6, <2>7
    <3>2. v \in 0 .. 9
      BY <2>2
    <3>3. \/ v = 0 \/ v = 1 \/ v = 2 \/ v = 3 \/ v = 4
          \/ v = 5 \/ v = 6 \/ v = 7 \/ v = 8 \/ v = 9
      BY <3>2
    <3>4. 0 \in R
      BY <3>1, <3>3
    <3>5. /\ 0 \in R /\ 1 \in R /\ 2 \in R /\ 3 \in R /\ 4 \in R
          /\ 5 \in R /\ 6 \in R /\ 7 \in R /\ 8 \in R /\ 9 \in R
      BY <3>1, <3>4
    <3>6. \A x \in 0 .. 9 : \/ x = 0 \/ x = 1 \/ x = 2 \/ x = 3 \/ x = 4
                             \/ x = 5 \/ x = 6 \/ x = 7 \/ x = 8 \/ x = 9
      OBVIOUS
    <3> QED BY <2>2, <3>5, <3>6
  <2>8. \A w \in Workers : \E c, d \in Channels : Owner(c) = w /\ Intended(d) = w
    BY <2>2, <2>5 DEF Joins
  <2>9. connected
    <3>1. ASSUME NEW w \in Workers PROVE ReachableFrom(w) = Workers
      <4>1. PICK c \in Channels : Owner(c) = w
        BY <2>8
      <4>2. \A S \in SUBSET Workers :
              IsClosed(S) /\ (\A d \in Channels : Owner(d) = w => Intended(d) \in S)
              => S = Workers
        BY <2>7, <4>1 DEF IsClosed
      <4> QED BY <4>2 DEF ReachableFrom
    <3> QED BY <2>1, <3>1 DEF ConnectedCorrect
  <2>10. IsValidQNetwork
    BY <2>8, PlainValid DEF PetersenState
  <2> QED BY <2>9, <2>10
<1>2. ExampleSpec => Spec
  BY ExamplesAreNetworks
<1>3. ExampleSpec => []PetersenState
  BY PetersenStays
<1> QED BY <1>1, <1>2, <1>3, Invariance, ValidityCorrect, PTL
=============================================================================
