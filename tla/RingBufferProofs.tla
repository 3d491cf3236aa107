--------------------------- MODULE RingBufferProofs ---------------------------
(***************************************************************************)
(* That the ring buffer never reads and writes a slot at the same time and *)
(* that it implements the bounded queue SpscChannel, for every capacity,   *)
(* every width of the counters and every sequence of batches; with narrow  *)
(* counters, of batches that are not longer than the buffer.               *)
(*                                                                         *)
(* The counters are followed round the circle of Modulus numbers by how    *)
(* far one is ahead of the other; slots are numbers modulo N, which a      *)
(* counter's wrap-around does not disturb because N divides Modulus or     *)
(* because there is none.                                                  *)
(***************************************************************************)
EXTENDS RingBuffer, SequenceTheorems, TLAPS

(* What the narrow branch takes for granted: see OversizedRefused. *)
BatchesFit == Wide \/ \A n \in Batches : n <= N

(* A wide counter does not wrap around, so the order is that of numbers.    *)
Straight ==
  Wide => /\ N <= cachedTailCounter /\ cachedTailCounter <= producerSeen
          /\ producerSeen <= tailCounter /\ tailCounter <= cachedHeadCounter
          /\ cachedHeadCounter <= consumerSeen /\ consumerSeen <= headCounter

(* What the producer and the consumer have in hand. *)
Producing ==
  /\ producer = "idle" => batch = <<>>
  /\ producer # "idle" =>
       /\ batch \in BatchSeqs /\ Len(batch) >= 1 /\ (Wide \/ Len(batch) <= N)
       /\ single => Len(batch) = 1
       /\ Wide => headCounter + Len(batch) < Modulus
  /\ producer # "write" => unwritten = {}
  /\ producer = "write" => Ahead(headCounter, cachedTailCounter) + Len(batch) <= N

Consuming == consumer \in {"read", "advance"} => cachedHeadCounter # tailCounter

(* What has been written stays until it is published, and what has been     *)
(* read stays until it is handed back.                                      *)
InPlace ==
  /\ producer = "write" =>
       \A i \in 1 .. Len(batch) : i \notin unwritten => data[Slot(i)] = batch[i]
  /\ consumer = "advance" => val = data[tailCounter % N]

(* What full() and empty() have promised *)
Promises ==
  /\ sawRoom => Ahead(headCounter, producerSeen) < N
  /\ sawData => consumerSeen # tailCounter

Control == TypeOK /\ CountersOrdered /\ Straight /\ Producing /\ Consuming
IInv == Control /\ InPlace /\ Promises

-----------------------------------------------------------------------------
(* The sizes as the SMT solver wants them *)
LEMMA Sizes ==
  /\ N \in Int /\ N >= 1 /\ Modulus \in Int /\ N + 1 < Modulus
  /\ N \in Counter
BY CapacityAssumption DEF Counter

(* Numbers modulo m *)
LEMMA ModIs ==
  ASSUME NEW m \in Int, m > 0, NEW a \in Int
  PROVE  /\ a % m \in Int /\ 0 <= a % m /\ a % m < m
         /\ 0 <= a /\ a < m => a % m = a
         /\ m <= a /\ a < 2 * m => a % m = a - m
         /\ -m <= a /\ a < 0 => a % m = a + m
<1>1. m \in Nat BY SMT
<1>2. a % m \in Int /\ 0 <= a % m /\ a % m < m
  BY <1>1, SMTT(40)
<1>3. 0 <= a /\ a < m => a % m = a
  BY <1>1, SMTT(40)
<1>4. m <= a /\ a < 2 * m => a % m = a - m
  BY <1>1, SMTT(40)
<1>5. -m <= a /\ a < 0 => a % m = a + m
  BY <1>1, SMTT(40)
<1> QED BY <1>2, <1>3, <1>4, <1>5

(* A number of times round the slots, ... *)
Turns(q) == N * q

(* ... which the provers need not multiply out *)
LEMMA TurnsAre ==
  ASSUME NEW q \in Int
  PROVE  Turns(q) \in Int /\ Turns(q + 1) = Turns(q) + N
BY Sizes DEF Turns

(* ... and which adds up *)
LEMMA TurnsAdd ==
  ASSUME NEW q \in Int, NEW p \in Int
  PROVE  Turns(q + p) = Turns(q) + Turns(p)
BY Sizes DEF Turns

(* A quotient and a remainder are the only ones, ... *)
LEMMA SlotUnique ==
  ASSUME NEW q \in Int, NEW a \in Int, NEW r \in Int, 0 <= r, r < N, a = Turns(q) + r
  PROVE  a % N = r
<1>1. N \in Nat /\ N > 0 BY Sizes
<1> QED BY <1>1, SMTT(40) DEF Turns

(* ... and every number has them. *)
LEMMA SlotExists ==
  ASSUME NEW a \in Int
  PROVE  \E q \in Int : a = Turns(q) + (a % N)
<1>1. N \in Nat /\ N > 0 BY Sizes
<1>2. a \div N \in Int /\ a = N * (a \div N) + (a % N)
  BY <1>1, SMTT(40)
<1> QED BY <1>2 DEF Turns

(* How far a is ahead of b *)
LEMMA AheadIs ==
  ASSUME NEW a \in Counter, NEW b \in Counter
  PROVE  /\ Ahead(a, b) = IF a >= b THEN a - b ELSE a - b + Modulus
         /\ Ahead(a, b) \in Int /\ a \in Int /\ b \in Int
         /\ 0 <= a /\ a < Modulus /\ 0 <= b /\ b < Modulus
<1>1. a \in Int /\ b \in Int /\ 0 <= a /\ a < Modulus /\ 0 <= b /\ b < Modulus
  BY Sizes DEF Counter
<1>2. a - b \in Int /\ -Modulus <= a - b /\ a - b < Modulus /\ Modulus > 0
  BY <1>1, Sizes
<1>3. /\ 0 <= a - b => (a - b) % Modulus = a - b
      /\ a - b < 0 => (a - b) % Modulus = a - b + Modulus
  BY <1>2, ModIs, Sizes
<1> QED BY <1>1, <1>3, Sizes DEF Ahead

(* What a load returns lies between what has been seen and the present. *)
LEMMA LoadsBetween ==
  ASSUME NEW counter \in Counter, NEW seen \in Counter, NEW t \in Loads(counter, seen)
  PROVE  t \in Counter /\ Ahead(t, seen) <= Ahead(counter, seen)
<1>1. CASE ~ OldViews
  BY <1>1, AheadIs DEF Loads
<1>2. CASE OldViews
  <2>1. PICK k \in 0 .. Ahead(counter, seen) : t = (seen + k) % Modulus
    BY <1>2 DEF Loads
  <2>2. /\ Ahead(counter, seen) \in Int /\ Ahead(counter, seen) < Modulus
        /\ seen \in Int /\ 0 <= seen /\ seen < Modulus
    BY AheadIs, Sizes
  <2>3. k \in Int /\ 0 <= k /\ k <= Ahead(counter, seen)
    BY <2>1, <2>2
  <2>4. t = IF seen + k < Modulus THEN seen + k ELSE seen + k - Modulus
    BY <2>1, <2>2, <2>3, ModIs, Sizes
  <2>5. t \in Counter
    BY <2>2, <2>3, <2>4, Sizes DEF Counter
  <2>6. Ahead(t, seen) = k
    BY <2>2, <2>3, <2>4, <2>5, AheadIs, Sizes
  <2> QED BY <2>3, <2>5, <2>6
<1> QED BY <1>1, <1>2

(* A batch passes the test if and only if it fits. *)
LEMMA FitsRoom ==
  ASSUME TypeOK, NEW t \in Counter, Ahead(headCounter, t) <= N,
         Wide => N <= t /\ t <= headCounter,
         NEW b, NEW isSingle \in BOOLEAN, Len(b) \in Int, Len(b) >= 1,
         Wide \/ Len(b) <= N, isSingle => Len(b) = 1,
         Wide => headCounter + Len(b) < Modulus
  PROVE  Fits(t, b, isSingle) <=> Ahead(headCounter, t) + Len(b) <= N
<1> DEFINE n == Len(b)
<1>1. headCounter \in Counter /\ n \in Int /\ n >= 1 /\ Wide \in BOOLEAN
  BY CapacityAssumption DEF TypeOK
<1> HIDE DEF n
<1>2. /\ Ahead(headCounter, t) = IF headCounter >= t THEN headCounter - t
                                 ELSE headCounter - t + Modulus
      /\ Ahead(headCounter, N) = IF headCounter >= N THEN headCounter - N
                                 ELSE headCounter - N + Modulus
      /\ headCounter \in Int /\ 0 <= headCounter /\ headCounter < Modulus
      /\ t \in Int /\ 0 <= t /\ t < Modulus
  BY <1>1, AheadIs, Sizes
<1>3. CASE isSingle
  <2>1. n = 1 /\ (Fits(t, b, isSingle) <=> t # Ahead(headCounter, N))
    BY <1>3 DEF Fits, SingleFits, n
  <2>2. t = Ahead(headCounter, N) <=> Ahead(headCounter, t) = N
    BY <1>2, Sizes
  <2>3. Fits(t, b, isSingle) <=> Ahead(headCounter, t) + n <= N
    BY <1>2, <2>1, <2>2, Sizes
  <2> QED BY <2>3 DEF n
<1>4. CASE ~ isSingle /\ Wide
  <2>1. /\ headCounter >= N /\ Ahead(headCounter, N) = headCounter - N
        /\ headCounter + n < Modulus
    BY <1>2, <1>4, Sizes DEF n
  <2>2. (Ahead(headCounter, N) + n) % Modulus = headCounter - N + n
    <3>1. /\ headCounter - N + n \in Int /\ 0 <= headCounter - N + n
          /\ headCounter - N + n < Modulus /\ Modulus > 0 /\ Modulus \in Int
      BY <1>1, <1>2, <2>1, Sizes
    <3>2. (headCounter - N + n) % Modulus = headCounter - N + n
      BY <3>1, ModIs
    <3> QED BY <2>1, <3>2
  <2>3. Fits(t, b, isSingle) <=> t >= headCounter - N + n
    BY <1>4, <2>2 DEF Fits, BatchFits, n
  <2>4. t >= headCounter - N + n <=> Ahead(headCounter, t) + n <= N
    BY <1>1, <1>2, <1>4, Sizes
  <2> QED BY <2>3, <2>4 DEF n
<1>5. CASE ~ isSingle /\ ~ Wide
  <2>1. n <= N /\ (Fits(t, b, isSingle) <=> Ahead(headCounter, t) <= Ahead(N, n))
    BY <1>5 DEF Fits, BatchFits, n
  <2>2. n \in Counter
    BY <1>1, <2>1, Sizes DEF Counter
  <2>3. Ahead(N, n) = N - n
    BY <1>1, <2>1, <2>2, AheadIs, Sizes
  <2>4. Ahead(headCounter, t) <= N - n <=> Ahead(headCounter, t) + n <= N
    BY <1>1, <1>2, Sizes
  <2> QED BY <2>1, <2>3, <2>4 DEF n
<1> QED BY <1>1, <1>3, <1>4, <1>5

(* Batches are sequences, and as long as they say. *)
LEMMA BatchLengths ==
  ASSUME BatchesFit, NEW b \in BatchSeqs
  PROVE  /\ b \in Seq(Values) /\ Len(b) \in Int /\ Len(b) >= 1 /\ (Wide \/ Len(b) <= N)
         /\ b \in [1 .. Len(b) -> Values]
<1>1. PICK n \in Batches \cup {1} : b \in [1 .. n -> Values]
  BY DEF BatchSeqs
<1>2. n \in Nat /\ n >= 1 /\ (Wide \/ n <= N)
  BY Sizes, CapacityAssumption DEF BatchesFit
<1>3. b \in Seq(Values)
  BY <1>1, <1>2, SeqDef
<1>4. Len(b) = n
  <2>1. DOMAIN b = 1 .. n /\ DOMAIN b = 1 .. Len(b) /\ Len(b) \in Nat
    BY <1>1, <1>3, LenProperties
  <2>2. 1 .. n = 1 .. Len(b) /\ n \in 1 .. n
    BY <2>1, <1>2
  <2>3. n <= Len(b) /\ (Len(b) >= 1 => Len(b) \in 1 .. n)
    BY <2>1, <2>2, <1>2
  <2> QED BY <2>1, <2>3, <1>2
<1> QED BY <1>1, <1>2, <1>3, <1>4

-----------------------------------------------------------------------------
(* The invariant, but for the contents of the slots *)

(* It holds initially. *)
LEMMA InitInv == Init => IInv
<1> SUFFICES ASSUME Init PROVE IInv
  OBVIOUS
<1>1. TypeOK
  <2>1. data \in [0 .. N - 1 -> Values \cup {NoValue}] /\ Len(<<>>) = 0
    BY EmptySeq DEF Init
  <2> QED BY <2>1, Sizes DEF Init, TypeOK
<1>2. Ahead(N, N) = 0
  BY Sizes, AheadIs
<1>3. CountersOrdered /\ Straight
  BY <1>2, Sizes DEF Init, CountersOrdered, Straight
<1>4. Producing /\ Consuming /\ InPlace /\ Promises
  BY DEF Init, Producing, Consuming, InPlace, Promises
<1> QED BY <1>1, <1>3, <1>4 DEF IInv, Control

(* A push begins. *)
LEMMA PushBeginControl ==
  ASSUME BatchesFit, Control, NEW b \in BatchSeqs, NEW isSingle \in BOOLEAN,
         PushBegin(b, isSingle)
  PROVE  Control'
<1> USE DEF Control
<1>1. b \in Seq(Values) /\ Len(b) \in Int /\ Len(b) >= 1 /\ (Wide \/ Len(b) <= N)
  BY BatchLengths
<1>2. UNCHANGED <<data, counters, cachedTailCounter, producerSeen, sawRoom, consumerVars>>
  BY DEF PushBegin
<1>3. /\ batch' = b /\ single' = isSingle /\ (isSingle => Len(b) = 1)
      /\ Wide => headCounter + Len(b) < Modulus
      /\ \/ /\ Fits(cachedTailCounter, b, isSingle)
            /\ producer' = "write" /\ unwritten' = 1 .. Len(b)
         \/ producer' = "reload" /\ unwritten' = {}
  BY DEF PushBegin
<1>4. TypeOK'
  BY <1>2, <1>3 DEF TypeOK, counters, consumerVars
<1>5. CountersOrdered' /\ Straight' /\ Consuming'
  BY <1>2 DEF CountersOrdered, Straight, Consuming, counters, consumerVars
<1>6. Fits(cachedTailCounter, b, isSingle) =>
        Ahead(headCounter, cachedTailCounter) + Len(b) <= N
  <2>1. cachedTailCounter \in Counter /\ headCounter \in Counter /\ producerSeen \in Counter
        /\ tailCounter \in Counter /\ cachedHeadCounter \in Counter /\ consumerSeen \in Counter
    BY DEF TypeOK
  <2>2. Wide => N <= cachedTailCounter /\ cachedTailCounter <= headCounter
    BY <2>1, AheadIs DEF Straight
  <2>3. Ahead(headCounter, cachedTailCounter) <= N
    BY DEF CountersOrdered
  <2> QED BY <1>1, <1>3, <2>1, <2>2, <2>3, FitsRoom
<1>7. Producing'
  BY <1>1, <1>2, <1>3, <1>6 DEF Producing, counters
<1> QED BY <1>4, <1>5, <1>7

(* What the producer loads lies between what it has seen and the tail. *)
LEMMA ProducerLoads ==
  ASSUME Control, NEW t \in Loads(tailCounter, producerSeen)
  PROVE  /\ t \in Counter /\ Ahead(headCounter, t) \in Int
         /\ Ahead(headCounter, tailCounter) <= Ahead(headCounter, t)
         /\ Ahead(headCounter, t) <= Ahead(headCounter, producerSeen)
         /\ Ahead(headCounter, t) <= Ahead(headCounter, cachedTailCounter)
         /\ Ahead(headCounter, t) <= N
         /\ Wide => /\ N <= t /\ cachedTailCounter <= t
                    /\ t <= tailCounter /\ t <= headCounter
<1> USE DEF Control
<1>1. /\ cachedTailCounter \in Counter /\ headCounter \in Counter /\ producerSeen \in Counter
      /\ tailCounter \in Counter /\ cachedHeadCounter \in Counter /\ consumerSeen \in Counter
  BY DEF TypeOK
<1>2. t \in Counter /\ Ahead(t, producerSeen) <= Ahead(tailCounter, producerSeen)
  BY <1>1, LoadsBetween
<1>3. /\ Ahead(headCounter, producerSeen) <= Ahead(headCounter, cachedTailCounter)
      /\ Ahead(headCounter, cachedTailCounter) <= N
      /\ Ahead(headCounter, tailCounter) <= Ahead(headCounter, producerSeen)
      /\ Wide => /\ N <= cachedTailCounter /\ cachedTailCounter <= producerSeen
                 /\ producerSeen <= tailCounter /\ tailCounter <= headCounter
  <2>1. /\ cachedHeadCounter \in Int /\ consumerSeen \in Int /\ tailCounter \in Int
        /\ headCounter \in Int
    BY <1>1, AheadIs
  <2> QED BY <2>1 DEF CountersOrdered, Straight
<1>4. /\ Ahead(headCounter, t) \in Int /\ t \in Int /\ tailCounter \in Int
      /\ headCounter \in Int /\ cachedTailCounter \in Int /\ producerSeen \in Int
      /\ Ahead(headCounter, producerSeen) \in Int
      /\ Ahead(headCounter, cachedTailCounter) \in Int
  BY <1>1, <1>2, AheadIs
<1>5. /\ Ahead(headCounter, tailCounter) <= Ahead(headCounter, t)
      /\ Ahead(headCounter, t) <= Ahead(headCounter, producerSeen)
      /\ Wide => producerSeen <= t /\ t <= tailCounter
  BY <1>1, <1>2, <1>3, AheadIs, Sizes, SMTT(40)
<1> QED BY <1>2, <1>3, <1>4, <1>5, Sizes

(* The tail counter is loaded again. *)
LEMMA PushReloadControl ==
  ASSUME BatchesFit, Control, PushReload
  PROVE  Control'
<1> USE DEF Control
<1>1. UNCHANGED <<data, counters, single, consumerVars>> /\ producer = "reload"
  BY DEF PushReload
<1>2. PICK t \in Loads(tailCounter, producerSeen) :
        /\ cachedTailCounter' = t /\ producerSeen' = t
        /\ \/ /\ Fits(t, batch, single)
              /\ producer' = "write" /\ unwritten' = 1 .. Len(batch) /\ UNCHANGED <<batch, sawRoom>>
           \/ producer' = "idle" /\ batch' = <<>> /\ sawRoom' = FALSE /\ UNCHANGED unwritten
  BY DEF PushReload
<1>3. /\ cachedTailCounter \in Counter /\ headCounter \in Counter /\ producerSeen \in Counter
      /\ tailCounter \in Counter /\ cachedHeadCounter \in Counter /\ consumerSeen \in Counter
  BY DEF TypeOK
<1>4. t \in Counter
  BY <1>2, ProducerLoads
<1>5. /\ Ahead(headCounter, t) <= N
      /\ Ahead(headCounter, tailCounter) <= Ahead(headCounter, t)
      /\ Wide => N <= t /\ t <= tailCounter /\ t <= headCounter
  BY <1>2, ProducerLoads
<1>6. TypeOK'
  <2>1. unwritten' \subseteq 1 .. Len(batch')
    BY <1>1, <1>2 DEF Producing, TypeOK
  <2> QED BY <1>1, <1>2, <1>4, <2>1, ZenonT(60) DEF TypeOK, counters, consumerVars
<1>7. CountersOrdered' /\ Straight' /\ Consuming'
  <2>1. Ahead(headCounter, t) \in Int
    BY <1>3, <1>4, AheadIs
  <2>2. CountersOrdered'
    BY <1>1, <1>2, <1>5, <2>1 DEF CountersOrdered, counters, consumerVars
  <2>3. Straight'
    BY <1>1, <1>2, <1>3, <1>4, <1>5, Sizes DEF Straight, counters, consumerVars, Counter
  <2>4. Consuming'
    BY <1>1 DEF Consuming, counters, consumerVars
  <2> QED BY <2>2, <2>3, <2>4
<1>8. Fits(t, batch, single) => Ahead(headCounter, t) + Len(batch) <= N
  <2>1. /\ batch \in BatchSeqs /\ Len(batch) >= 1 /\ (Wide \/ Len(batch) <= N)
        /\ single \in BOOLEAN /\ (single => Len(batch) = 1)
        /\ Wide => headCounter + Len(batch) < Modulus
    BY <1>1 DEF Producing, TypeOK
  <2>2. Len(batch) \in Int
    BY <2>1, BatchLengths
  <2> QED BY <1>4, <1>5, <2>1, <2>2, FitsRoom
<1>9. Producing'
  BY <1>1, <1>2, <1>8 DEF Producing, counters
<1> QED BY <1>6, <1>7, <1>9

(* An element is written. *)
LEMMA WriteElementControl ==
  ASSUME Control, WriteElement
  PROVE  Control'
<1> USE DEF Control
<1>1. UNCHANGED <<counters, cachedTailCounter, producerSeen, producer, batch, single, sawRoom,
                  consumerVars>> /\ producer = "write"
  BY DEF WriteElement
<1>2. PICK i \in unwritten :
        data' = [data EXCEPT ![Slot(i)] = batch[i]] /\ unwritten' = unwritten \ {i}
  BY DEF WriteElement
<1>3. batch[i] \in Values
  BY <1>1, <1>2, CapacityAssumption DEF Producing, TypeOK, BatchSeqs
<1>4. TypeOK'
  BY <1>1, <1>2, <1>3, ZenonT(60) DEF TypeOK, counters, consumerVars
<1>5. CountersOrdered' /\ Straight' /\ Consuming' /\ Producing'
  BY <1>1 DEF CountersOrdered, Straight, Consuming, Producing, counters, consumerVars
<1> QED BY <1>4, <1>5

(* A batch is published. *)
LEMMA AdvanceHeadControl ==
  ASSUME BatchesFit, Control, AdvanceHead
  PROVE  /\ Control'
         /\ Ahead(headCounter', tailCounter) = Ahead(headCounter, tailCounter) + Len(batch)
<1> USE DEF Control
<1>1. /\ UNCHANGED <<data, tailCounter, cachedTailCounter, producerSeen, single, unwritten,
                     consumerVars>>
      /\ producer = "write" /\ producer' = "idle" /\ batch' = <<>> /\ sawRoom' = FALSE
      /\ unwritten = {} /\ headCounter' = (headCounter + Len(batch)) % Modulus
  BY DEF AdvanceHead
<1>2. /\ cachedTailCounter \in Counter /\ headCounter \in Counter /\ producerSeen \in Counter
      /\ tailCounter \in Counter /\ cachedHeadCounter \in Counter /\ consumerSeen \in Counter
  BY DEF TypeOK
<1> DEFINE n == Len(batch)
<1>3. /\ n \in Int /\ n >= 1 /\ Ahead(headCounter, cachedTailCounter) + n <= N
      /\ Wide => headCounter + n < Modulus
  BY <1>1, BatchLengths DEF Producing
<1>4. headCounter' = (headCounter + n) % Modulus
  BY <1>1
<1> HIDE DEF n
<1>5. /\ headCounter \in Int /\ 0 <= headCounter /\ headCounter < Modulus /\ n < Modulus
  BY <1>2, <1>3, AheadIs, Sizes
<1>6. headCounter' = IF headCounter + n < Modulus THEN headCounter + n
                     ELSE headCounter + n - Modulus
  BY <1>3, <1>4, <1>5, ModIs, Sizes
<1>7. headCounter' \in Counter
  BY <1>3, <1>5, <1>6, Sizes DEF Counter
<1>8. ASSUME NEW c \in Counter, Ahead(headCounter, c) <= Ahead(headCounter, cachedTailCounter)
      PROVE  Ahead(headCounter', c) = Ahead(headCounter, c) + n
  BY <1>2, <1>3, <1>5, <1>6, <1>7, <1>8, AheadIs, Sizes
<1>9. /\ Ahead(headCounter, cachedTailCounter) \in Int /\ Ahead(headCounter, tailCounter) \in Int
      /\ Ahead(headCounter, producerSeen) \in Int /\ Ahead(consumerSeen, tailCounter) \in Int
      /\ Ahead(cachedHeadCounter, tailCounter) \in Int
  BY <1>2, AheadIs
<1>10. /\ Ahead(headCounter', cachedTailCounter) = Ahead(headCounter, cachedTailCounter) + n
       /\ Ahead(headCounter', producerSeen) = Ahead(headCounter, producerSeen) + n
       /\ Ahead(headCounter', tailCounter) = Ahead(headCounter, tailCounter) + n
  BY <1>2, <1>8, <1>9 DEF CountersOrdered
<1>11. TypeOK'
  <2>1. Len(<<>>) = 0 BY EmptySeq
  <2> QED BY <1>1, <1>7, <2>1 DEF TypeOK, consumerVars
<1>12. CountersOrdered'
  <2>1. /\ UNCHANGED <<tailCounter, cachedTailCounter, producerSeen, cachedHeadCounter,
                       consumerSeen>>
    BY <1>1 DEF consumerVars
  <2> QED BY <2>1, <1>3, <1>9, <1>10, Sizes DEF CountersOrdered
<1>13. Straight'
  <2>1. /\ UNCHANGED <<tailCounter, cachedTailCounter, producerSeen, cachedHeadCounter,
                       consumerSeen>>
    BY <1>1 DEF consumerVars
  <2>2. Wide => headCounter' >= headCounter
    BY <1>3, <1>5, <1>6
  <2>3. consumerSeen \in Int /\ headCounter' \in Int
    BY <1>2, <1>7, AheadIs
  <2> QED BY <2>1, <2>2, <2>3, <1>5 DEF Straight
<1>14. Producing' /\ Consuming'
  BY <1>1 DEF Producing, Consuming, consumerVars
<1> QED BY <1>10, <1>11, <1>12, <1>13, <1>14 DEF n

(* full() is called. *)
LEMMA FullControl ==
  ASSUME Control, Full
  PROVE  Control'
<1> USE DEF Control
<1>1. UNCHANGED <<data, counters, cachedTailCounter, producer, batch, single, unwritten,
                  consumerVars>>
  BY DEF Full
<1>2. PICK t \in Loads(tailCounter, producerSeen) :
        producerSeen' = t /\ sawRoom' = ((t + N) % Modulus # headCounter)
  BY DEF Full
<1>3. /\ t \in Counter
      /\ Ahead(headCounter, t) <= Ahead(headCounter, cachedTailCounter)
      /\ Ahead(headCounter, tailCounter) <= Ahead(headCounter, t)
      /\ Wide => cachedTailCounter <= t /\ t <= tailCounter
  BY <1>2, ProducerLoads
<1>4. TypeOK'
  BY <1>1, <1>2, <1>3 DEF TypeOK, counters, consumerVars
<1>5. CountersOrdered' /\ Straight'
  <2>1. UNCHANGED <<headCounter, tailCounter, cachedTailCounter, cachedHeadCounter, consumerSeen>>
    BY <1>1 DEF counters, consumerVars
  <2> QED BY <2>1, <1>2, <1>3 DEF CountersOrdered, Straight
<1>6. Producing' /\ Consuming'
  BY <1>1 DEF Producing, Consuming, counters, consumerVars
<1> QED BY <1>4, <1>5, <1>6

(* A pop begins. *)
LEMMA PopBeginControl ==
  ASSUME Control, PopBegin
  PROVE  Control'
<1> USE DEF Control
<1>1. /\ UNCHANGED <<data, counters, producerVars, cachedHeadCounter, consumerSeen, val,
                     delivered, sawData>>
      /\ consumer' = IF cachedHeadCounter # tailCounter THEN "read" ELSE "reload"
  BY DEF PopBegin
<1>2. TypeOK' /\ CountersOrdered' /\ Straight' /\ Producing' /\ Consuming'
  BY <1>1 DEF TypeOK, CountersOrdered, Straight, Producing, Consuming, counters, producerVars
<1> QED BY <1>2

(* What the consumer loads lies between what it has seen and the head. *)
LEMMA ConsumerLoads ==
  ASSUME Control, NEW h \in Loads(headCounter, consumerSeen)
  PROVE  /\ h \in Counter
         /\ Ahead(cachedHeadCounter, tailCounter) <= Ahead(h, tailCounter)
         /\ Ahead(consumerSeen, tailCounter) <= Ahead(h, tailCounter)
         /\ Ahead(h, tailCounter) <= Ahead(headCounter, tailCounter)
         /\ Ahead(h, tailCounter) \in Int
         /\ Wide => tailCounter <= h /\ cachedHeadCounter <= h /\ h <= headCounter
<1> USE DEF Control
<1>1. /\ headCounter \in Counter /\ tailCounter \in Counter
      /\ cachedHeadCounter \in Counter /\ consumerSeen \in Counter
  BY DEF TypeOK
<1>2. h \in Counter /\ Ahead(h, consumerSeen) <= Ahead(headCounter, consumerSeen)
  BY <1>1, LoadsBetween
<1>3. /\ Ahead(cachedHeadCounter, tailCounter) <= Ahead(consumerSeen, tailCounter)
      /\ Ahead(consumerSeen, tailCounter) <= Ahead(headCounter, tailCounter)
      /\ Ahead(headCounter, tailCounter) <= N
      /\ Wide => tailCounter <= cachedHeadCounter /\ cachedHeadCounter <= consumerSeen
                 /\ consumerSeen <= headCounter
  BY DEF CountersOrdered, Straight
<1>4. /\ Ahead(consumerSeen, tailCounter) <= Ahead(h, tailCounter)
      /\ Ahead(h, tailCounter) <= Ahead(headCounter, tailCounter)
      /\ Wide => consumerSeen <= h /\ h <= headCounter
  BY <1>1, <1>2, <1>3, AheadIs, Sizes, SMTT(40)
<1>5. /\ Ahead(cachedHeadCounter, tailCounter) \in Int /\ Ahead(consumerSeen, tailCounter) \in Int
      /\ Ahead(h, tailCounter) \in Int /\ tailCounter \in Int /\ cachedHeadCounter \in Int
      /\ consumerSeen \in Int /\ h \in Int
  BY <1>1, <1>2, AheadIs
<1> QED BY <1>2, <1>3, <1>4, <1>5

(* The head counter is loaded again. *)
LEMMA PopReloadControl ==
  ASSUME Control, PopReload
  PROVE  Control'
<1> USE DEF Control
<1>1. UNCHANGED <<data, counters, producerVars, val, delivered>>
  BY DEF PopReload
<1>2. PICK h \in Loads(headCounter, consumerSeen) :
        /\ cachedHeadCounter' = h /\ consumerSeen' = h
        /\ \/ h # tailCounter /\ consumer' = "read" /\ UNCHANGED sawData
           \/ consumer' = "idle" /\ sawData' = FALSE
  BY DEF PopReload
<1>3. /\ h \in Counter /\ Ahead(h, tailCounter) \in Int
      /\ Ahead(h, tailCounter) <= Ahead(headCounter, tailCounter)
      /\ Wide => tailCounter <= h /\ h <= headCounter /\ h <= h
  BY <1>2, ConsumerLoads, AheadIs
<1>4. TypeOK'
  BY <1>1, <1>2, <1>3, ZenonT(60) DEF TypeOK, counters, producerVars
<1>5. CountersOrdered' /\ Straight'
  <2>1. UNCHANGED <<headCounter, tailCounter, cachedTailCounter, producerSeen>>
    BY <1>1 DEF counters, producerVars
  <2> QED BY <2>1, <1>2, <1>3 DEF CountersOrdered, Straight
<1>6. Producing' /\ Consuming'
  BY <1>1, <1>2 DEF Producing, Consuming, counters, producerVars
<1> QED BY <1>4, <1>5, <1>6

(* An element is read. *)
LEMMA ReadElementControl ==
  ASSUME Control, ReadElement
  PROVE  Control'
<1> USE DEF Control
<1>1. /\ UNCHANGED <<data, counters, producerVars, cachedHeadCounter, consumerSeen, delivered,
                     sawData>>
      /\ val' = data[tailCounter % N] /\ consumer = "read" /\ consumer' = "advance"
  BY DEF ReadElement
<1>2. data[tailCounter % N] \in Values \cup {NoValue}
  <2>1. tailCounter \in Int /\ N \in Int /\ N > 0
    BY Sizes, AheadIs DEF TypeOK
  <2>2. tailCounter % N \in 0 .. N - 1
    BY <2>1, ModIs
  <2> QED BY <2>2 DEF TypeOK
<1>3. TypeOK' /\ CountersOrdered' /\ Straight' /\ Producing' /\ Consuming'
  BY <1>1, <1>2 DEF TypeOK, CountersOrdered, Straight, Producing, Consuming, counters, producerVars
<1> QED BY <1>3

(* A slot is handed back. *)
LEMMA AdvanceTailControl ==
  ASSUME Control, AdvanceTail
  PROVE  /\ Control'
         /\ Ahead(headCounter, tailCounter') = Ahead(headCounter, tailCounter) - 1
         /\ Ahead(headCounter, tailCounter) >= 1
<1> USE DEF Control
<1>1. /\ UNCHANGED <<data, headCounter, producerVars, cachedHeadCounter, consumerSeen>>
      /\ consumer = "advance" /\ consumer' = "idle" /\ tailCounter' = (tailCounter + 1) % Modulus
      /\ delivered' = val /\ val' = NoValue /\ sawData' = FALSE
  BY DEF AdvanceTail
<1>2. /\ cachedTailCounter \in Counter /\ headCounter \in Counter /\ producerSeen \in Counter
      /\ tailCounter \in Counter /\ cachedHeadCounter \in Counter /\ consumerSeen \in Counter
  BY DEF TypeOK
<1>3. cachedHeadCounter # tailCounter
  BY <1>1 DEF Consuming
<1>4. tailCounter \in Int /\ 0 <= tailCounter /\ tailCounter < Modulus
  BY <1>2, AheadIs
<1>5. tailCounter' = IF tailCounter + 1 < Modulus THEN tailCounter + 1 ELSE 0
  BY <1>1, <1>4, ModIs, Sizes
<1>6. tailCounter' \in Counter
  BY <1>4, <1>5, Sizes DEF Counter
<1>7. ASSUME NEW c \in Counter,
             Ahead(cachedHeadCounter, tailCounter) <= Ahead(c, tailCounter)
      PROVE  Ahead(c, tailCounter') = Ahead(c, tailCounter) - 1 /\ Ahead(c, tailCounter) >= 1
  <2>1. Ahead(cachedHeadCounter, tailCounter) \in Int
        /\ Ahead(cachedHeadCounter, tailCounter) >= 1
    BY <1>2, <1>3, AheadIs, Sizes
  <2>2. /\ c \in Int /\ 0 <= c /\ c < Modulus
        /\ Ahead(c, tailCounter) = IF c >= tailCounter THEN c - tailCounter
                                   ELSE c - tailCounter + Modulus
    BY <1>2, AheadIs
  <2>3. Ahead(c, tailCounter') = IF c >= tailCounter' THEN c - tailCounter'
                                 ELSE c - tailCounter' + Modulus
    BY <1>6, AheadIs
  <2>4. Ahead(c, tailCounter) >= 1
    BY <1>4, <1>7, <2>1, <2>2, Sizes
  <2> QED BY <1>4, <1>5, <2>2, <2>3, <2>4, Sizes
<1>8. /\ Ahead(cachedHeadCounter, tailCounter) \in Int /\ Ahead(headCounter, tailCounter) \in Int
      /\ Ahead(consumerSeen, tailCounter) \in Int
  BY <1>2, AheadIs
<1>9. /\ Ahead(cachedHeadCounter, tailCounter') = Ahead(cachedHeadCounter, tailCounter) - 1
      /\ Ahead(consumerSeen, tailCounter') = Ahead(consumerSeen, tailCounter) - 1
      /\ Ahead(headCounter, tailCounter') = Ahead(headCounter, tailCounter) - 1
      /\ Ahead(headCounter, tailCounter) >= 1
  BY <1>2, <1>7, <1>8 DEF CountersOrdered
<1>10. TypeOK'
  BY <1>1, <1>6 DEF TypeOK, producerVars
<1>11. UNCHANGED <<headCounter, cachedTailCounter, producerSeen, cachedHeadCounter, consumerSeen>>
  BY <1>1 DEF producerVars
<1>12. CountersOrdered'
  <2>1. Ahead(headCounter, producerSeen) \in Int
    BY <1>2, AheadIs
  <2> QED BY <2>1, <1>8, <1>9, <1>11, Sizes DEF CountersOrdered
<1>13. Straight'
  <2>1. Wide => tailCounter' <= cachedHeadCounter /\ tailCounter' >= tailCounter
    <3>1. cachedHeadCounter \in Int /\ cachedHeadCounter < Modulus
      BY <1>2, AheadIs
    <3> QED BY <3>1, <1>3, <1>4, <1>5, Sizes DEF Straight
  <2>2. producerSeen \in Int /\ tailCounter' \in Int
    BY <1>2, <1>6, AheadIs
  <2> QED BY <2>1, <2>2, <1>4, <1>11 DEF Straight
<1>14. Producing' /\ Consuming'
  BY <1>1 DEF Producing, Consuming, producerVars
<1> QED BY <1>9, <1>10, <1>12, <1>13, <1>14

(* empty() is called. *)
LEMMA EmptyControl ==
  ASSUME Control, Empty
  PROVE  Control'
<1> USE DEF Control
<1>1. UNCHANGED <<data, counters, producerVars, cachedHeadCounter, consumer, val, delivered>>
  BY DEF Empty
<1>2. PICK h \in Loads(headCounter, consumerSeen) :
        consumerSeen' = h /\ sawData' = (tailCounter # h)
  BY DEF Empty
<1>3. /\ h \in Counter
      /\ Ahead(cachedHeadCounter, tailCounter) <= Ahead(h, tailCounter)
      /\ Ahead(h, tailCounter) <= Ahead(headCounter, tailCounter)
      /\ Wide => cachedHeadCounter <= h /\ h <= headCounter
  BY <1>2, ConsumerLoads
<1>4. TypeOK'
  BY <1>1, <1>2, <1>3 DEF TypeOK, counters, producerVars
<1>5. CountersOrdered' /\ Straight'
  <2>1. UNCHANGED <<headCounter, tailCounter, cachedTailCounter, producerSeen, cachedHeadCounter>>
    BY <1>1 DEF counters, producerVars
  <2> QED BY <2>1, <1>2, <1>3 DEF CountersOrdered, Straight
<1>6. Producing' /\ Consuming'
  BY <1>1 DEF Producing, Consuming, counters, producerVars
<1> QED BY <1>4, <1>5, <1>6

-----------------------------------------------------------------------------
(* Slots *)

(* Fewer than N places apart are different slots. *)
LEMMA SlotsDiffer ==
  ASSUME NEW x \in Int, NEW y \in Int, x < y, y < x + N
  PROVE  x % N # y % N
<1>1. PICK q \in Int : x = Turns(q) + (x % N)
  BY SlotExists
<1> DEFINE r == x % N
           d == r + (y - x)
<1>2. r \in Int /\ 0 <= r /\ r < N
  BY ModIs, Sizes
<1>3. x = Turns(q) + r
  BY <1>1
<1> HIDE DEF r
<1>4. d \in Int /\ r < d /\ d < r + N /\ y = Turns(q) + d /\ y = Turns(q + 1) + (d - N)
  <2>1. Turns(q) \in Int /\ Turns(q + 1) = Turns(q) + N
    BY TurnsAre
  <2> QED BY <1>2, <1>3, <2>1, Sizes
<1> HIDE DEF d
<1>5. CASE d < N
  <2>1. 0 <= d BY <1>2, <1>4
  <2>2. y % N = d BY <1>4, <1>5, <2>1, SlotUnique
  <2> QED BY <1>2, <1>4, <2>2 DEF r
<1>6. CASE d >= N
  <2>1. d - N \in Int /\ 0 <= d - N /\ d - N < N /\ d - N # r /\ q + 1 \in Int
    BY <1>2, <1>4, <1>6, Sizes
  <2>2. y % N = d - N BY <1>4, <2>1, SlotUnique
  <2> QED BY <2>1, <2>2 DEF r
<1> QED BY <1>4, <1>5, <1>6, Sizes

(* Once round the counters is a whole number of times round the slots. *)
LEMMA RoundIsRounds ==
  ASSUME ~ Wide, NEW a \in Int
  PROVE  (a + Modulus) % N = a % N
<1>1. PICK p \in Int : Modulus = Turns(p)
  <2>1. Modulus % N = 0 BY CapacityAssumption
  <2>2. PICK p \in Int : Modulus = Turns(p) + (Modulus % N)
    BY SlotExists, Sizes
  <2>3. Turns(p) \in Int
    BY TurnsAre
  <2>4. Modulus = Turns(p)
    BY <2>1, <2>2, <2>3
  <2> QED BY <2>4
<1>2. PICK q \in Int : a = Turns(q) + (a % N)
  BY SlotExists
<1> DEFINE r == a % N
<1>3. r \in Int /\ 0 <= r /\ r < N /\ a = Turns(q) + r
  BY <1>2, ModIs, Sizes
<1> HIDE DEF r
<1>4. q + p \in Int /\ a + Modulus \in Int /\ a + Modulus = Turns(q + p) + r
  <2>1. Turns(q) \in Int /\ Turns(p) \in Int /\ Turns(q + p) = Turns(q) + Turns(p)
    BY TurnsAre, TurnsAdd
  <2> QED BY <1>1, <1>3, <2>1, Sizes
<1>5. (a + Modulus) % N = r
  BY <1>3, <1>4, SlotUnique
<1> QED BY <1>5 DEF r

(* Where the i-th element of a batch goes *)
LEMMA SlotIs ==
  ASSUME BatchesFit, Control, producer = "write", NEW i \in 1 .. Len(batch)
  PROVE  /\ Slot(i) = (headCounter + (i - 1)) % N
         /\ Slot(i) \in 0 .. N - 1
         /\ i \in Int /\ 1 <= i /\ i <= Len(batch) /\ headCounter \in Int
         /\ Len(batch) \in Int /\ Len(batch) <= N
<1> USE DEF Control
<1> DEFINE h == headCounter % N
           n == Len(batch)
<1>1. headCounter \in Counter /\ cachedTailCounter \in Counter
  BY DEF TypeOK
<1>2. n \in Int /\ n >= 1 /\ n <= N
  <2>1. batch \in BatchSeqs /\ n >= 1 /\ Ahead(headCounter, cachedTailCounter) + n <= N
    BY DEF Producing
  <2>2. n \in Int
    BY <2>1, BatchLengths
  <2>3. Ahead(headCounter, cachedTailCounter) >= 0
        /\ Ahead(headCounter, cachedTailCounter) \in Int
    BY <1>1, AheadIs, Sizes, SMTT(40)
  <2> HIDE DEF n
  <2> QED BY <2>1, <2>2, <2>3, Sizes
<1>3. i \in Int /\ 1 <= i /\ i <= n
  BY <1>2
<1>4. headCounter \in Int
  BY <1>1, AheadIs
<1>5. PICK q \in Int : headCounter = Turns(q) + h
  BY <1>4, SlotExists
<1>6. h \in Int /\ 0 <= h /\ h < N /\ Turns(q) \in Int /\ Turns(q + 1) = Turns(q) + N
  <2>1. h \in Int /\ 0 <= h /\ h < N
    BY <1>4, ModIs, Sizes
  <2> QED BY <2>1, TurnsAre
<1>7. Slot(i) = IF i <= (IF N - h < n THEN N - h ELSE n) THEN h + i - 1
                ELSE i - (IF N - h < n THEN N - h ELSE n) - 1
  BY DEF Slot
<1> HIDE DEF h, n
<1>8. CASE h + i - 1 < N
  <2>1. Slot(i) = h + i - 1
    BY <1>2, <1>3, <1>6, <1>7, <1>8, Sizes
  <2>2. /\ h + i - 1 \in Int /\ 0 <= h + i - 1 /\ headCounter + (i - 1) \in Int
        /\ headCounter + (i - 1) = Turns(q) + (h + i - 1)
    BY <1>3, <1>4, <1>5, <1>6, SMTT(40)
  <2>3. (headCounter + (i - 1)) % N = h + i - 1
    BY <1>8, <2>2, SlotUnique
  <2> QED BY <1>2, <1>3, <1>4, <1>8, <2>1, <2>2, <2>3, Sizes DEF n
<1>9. CASE h + i - 1 >= N
  <2>1. Slot(i) = h + i - 1 - N
    BY <1>2, <1>3, <1>6, <1>7, <1>9, Sizes
  <2>2. /\ h + i - 1 - N \in Int /\ 0 <= h + i - 1 - N /\ h + i - 1 - N < N /\ q + 1 \in Int
        /\ headCounter + (i - 1) \in Int
        /\ headCounter + (i - 1) = Turns(q + 1) + (h + i - 1 - N)
    BY <1>2, <1>3, <1>4, <1>5, <1>6, <1>9, Sizes, SMTT(40)
  <2>3. (headCounter + (i - 1)) % N = h + i - 1 - N
    BY <2>2, SlotUnique
  <2> QED BY <1>2, <1>3, <1>4, <2>1, <2>2, <2>3, Sizes DEF n
<1> QED BY <1>3, <1>6, <1>8, <1>9, Sizes

(* Counted from the tail, it is behind everything the buffer holds. *)
LEMMA SlotBehind ==
  ASSUME BatchesFit, Control, producer = "write", NEW i \in 1 .. Len(batch)
  PROVE  /\ Slot(i) = (tailCounter + Ahead(headCounter, tailCounter) + (i - 1)) % N
         /\ \A k \in Int : 1 <= k /\ k <= Ahead(headCounter, tailCounter) =>
              Slot(i) # (tailCounter + (k - 1)) % N
<1> USE DEF Control
<1> DEFINE occ == Ahead(headCounter, tailCounter)
           n == Len(batch)
<1>1. /\ headCounter \in Counter /\ tailCounter \in Counter /\ cachedTailCounter \in Counter
      /\ producerSeen \in Counter
  BY DEF TypeOK
<1>2. /\ Slot(i) = (headCounter + (i - 1)) % N
      /\ i \in Int /\ 1 <= i /\ i <= n /\ headCounter \in Int /\ n \in Int
  BY SlotIs
<1>3. /\ occ = IF headCounter >= tailCounter THEN headCounter - tailCounter
               ELSE headCounter - tailCounter + Modulus
      /\ occ \in Int /\ tailCounter \in Int
  BY <1>1, AheadIs
<1>4. Wide => headCounter >= tailCounter
  <2>1. cachedHeadCounter \in Int /\ consumerSeen \in Int
    BY AheadIs DEF TypeOK
  <2> QED BY <1>2, <1>3, <2>1 DEF Straight
<1>5. occ + n <= N
  <2>1. /\ Ahead(headCounter, cachedTailCounter) + n <= N
        /\ occ <= Ahead(headCounter, producerSeen)
        /\ Ahead(headCounter, producerSeen) <= Ahead(headCounter, cachedTailCounter)
    BY DEF Producing, CountersOrdered
  <2>2. Ahead(headCounter, cachedTailCounter) \in Int /\ Ahead(headCounter, producerSeen) \in Int
    BY <1>1, AheadIs
  <2> HIDE DEF occ, n
  <2> QED BY <1>2, <1>3, <2>1, <2>2, Sizes, SMTT(40)
<1> HIDE DEF occ, n
<1>6. (tailCounter + occ + (i - 1)) % N = (headCounter + (i - 1)) % N
  <2>1. CASE headCounter >= tailCounter
    <3>1. tailCounter + occ + (i - 1) = headCounter + (i - 1)
      BY <1>2, <1>3, <2>1
    <3> QED BY <3>1
  <2>2. CASE headCounter < tailCounter
    <3>1. tailCounter + occ + (i - 1) = (headCounter + (i - 1)) + Modulus
      BY <1>2, <1>3, <2>2, Sizes
    <3>2. ~ Wide /\ headCounter + (i - 1) \in Int
      BY <1>2, <1>3, <1>4, <2>2
    <3> QED BY <3>1, <3>2, RoundIsRounds
  <2> QED BY <1>2, <1>3, <2>1, <2>2
<1>7. ASSUME NEW k \in Int, 1 <= k, k <= occ
      PROVE  Slot(i) # (tailCounter + (k - 1)) % N
  <2> DEFINE x == tailCounter + (k - 1)
             y == tailCounter + occ + (i - 1)
  <2>1. x \in Int /\ y \in Int /\ x < y /\ y < x + N
    BY <1>2, <1>3, <1>5, <1>7, Sizes
  <2>2. x % N # y % N
    BY <2>1, SlotsDiffer
  <2> QED BY <1>2, <1>6, <2>2
<1> QED BY <1>2, <1>6, <1>7 DEF occ
(* The slot at the tail *)
LEMMA TailSlot ==
  ASSUME Control
  PROVE  tailCounter \in Int /\ tailCounter % N \in 0 .. N - 1
<1>1. tailCounter \in Int /\ N \in Int /\ N > 0
  BY Sizes, AheadIs DEF Control, TypeOK
<1>2. tailCounter % N \in Int /\ 0 <= tailCounter % N /\ tailCounter % N < N
  BY <1>1, ModIs
<1> QED BY <1>1, <1>2

(* No element is written to the slot that is being read. *)
LEMMA ReadsElsewhere ==
  ASSUME BatchesFit, Control, producer = "write", consumer \in {"read", "advance"},
         NEW i \in 1 .. Len(batch)
  PROVE  Slot(i) # tailCounter % N
<1>1. /\ cachedHeadCounter # tailCounter
      /\ Ahead(cachedHeadCounter, tailCounter) <= Ahead(consumerSeen, tailCounter)
      /\ Ahead(consumerSeen, tailCounter) <= Ahead(headCounter, tailCounter)
      /\ cachedHeadCounter \in Counter /\ tailCounter \in Counter /\ consumerSeen \in Counter
      /\ headCounter \in Counter
  BY DEF Control, Consuming, CountersOrdered, TypeOK
<1>2. 1 <= Ahead(headCounter, tailCounter)
  <2>1. Ahead(cachedHeadCounter, tailCounter) >= 1
    <3>1. /\ Ahead(cachedHeadCounter, tailCounter) =
               IF cachedHeadCounter >= tailCounter THEN cachedHeadCounter - tailCounter
               ELSE cachedHeadCounter - tailCounter + Modulus
          /\ cachedHeadCounter \in Int /\ tailCounter \in Int
          /\ 0 <= cachedHeadCounter /\ tailCounter < Modulus
      BY <1>1, AheadIs
    <3> QED BY <1>1, <3>1, Sizes
  <2>2. /\ Ahead(cachedHeadCounter, tailCounter) \in Int
        /\ Ahead(consumerSeen, tailCounter) \in Int /\ Ahead(headCounter, tailCounter) \in Int
    BY <1>1, AheadIs
  <2> QED BY <1>1, <2>1, <2>2
<1>3. Slot(i) # (tailCounter + (1 - 1)) % N
  BY <1>2, SlotBehind
<1>4. tailCounter + (1 - 1) = tailCounter
  BY TailSlot
<1> QED BY <1>3, <1>4

-----------------------------------------------------------------------------
(* The contents of the slots, and the promises *)

(* Writing an element of the batch disturbs neither the other elements nor  *)
(* the one that is being read.                                              *)
LEMMA WriteElementInPlace ==
  ASSUME BatchesFit, IInv, WriteElement
  PROVE  InPlace'
<1> USE DEF IInv
<1>1. /\ UNCHANGED <<headCounter, tailCounter, batch, consumer, val, producer>>
      /\ producer = "write"
  BY DEF WriteElement, counters, consumerVars
<1>2. PICK i \in unwritten :
        data' = [data EXCEPT ![Slot(i)] = batch[i]] /\ unwritten' = unwritten \ {i}
  BY DEF WriteElement
<1>3. i \in 1 .. Len(batch) /\ unwritten \subseteq 1 .. Len(batch)
  BY <1>2 DEF Control, TypeOK
<1>4. Slot(i) \in 0 .. N - 1 /\ data \in [0 .. N - 1 -> Values \cup {NoValue}]
  BY <1>1, <1>3, SlotIs DEF Control, TypeOK
<1>5. ASSUME NEW j \in 1 .. Len(batch), j \notin unwritten'
      PROVE  data'[Slot(j)'] = batch'[j]
  <2>1. Slot(j)' = Slot(j)
    BY <1>1 DEF Slot
  <2>2. CASE j = i
    BY <1>1, <1>2, <1>4, <2>1, <2>2
  <2>3. CASE j # i
    <3>1. data[Slot(j)] = batch[j]
      BY <1>1, <1>2, <1>5, <2>3 DEF InPlace
    <3>2. Slot(j) # Slot(i)
      <4>1. /\ Slot(i) = (headCounter + (i - 1)) % N /\ Slot(j) = (headCounter + (j - 1)) % N
            /\ headCounter \in Int /\ i \in Int /\ j \in Int /\ Len(batch) \in Int
            /\ 1 <= i /\ i <= Len(batch) /\ 1 <= j /\ j <= Len(batch) /\ Len(batch) <= N
        BY <1>1, <1>3, SlotIs
      <4> DEFINE x == headCounter + (i - 1)
                 y == headCounter + (j - 1)
      <4>2. x \in Int /\ y \in Int /\ ((x < y /\ y < x + N) \/ (y < x /\ x < y + N))
        BY <4>1, <2>3, Sizes
      <4>3. x % N # y % N
        <5> HIDE DEF x, y
        <5> QED BY <4>2, SlotsDiffer
      <4> QED BY <4>1, <4>3
    <3>3. Slot(j) \in 0 .. N - 1
      BY <1>1, <1>5, SlotIs
    <3> QED BY <1>1, <1>2, <1>4, <2>1, <3>1, <3>2, <3>3
  <2> QED BY <2>2, <2>3
<1>6. consumer = "advance" => data'[tailCounter % N] = data[tailCounter % N]
  <2> SUFFICES ASSUME consumer = "advance" PROVE data'[tailCounter % N] = data[tailCounter % N]
    OBVIOUS
  <2>1. Slot(i) # tailCounter % N
    BY <1>1, <1>3, ReadsElsewhere
  <2>2. tailCounter % N \in 0 .. N - 1
    BY TailSlot
  <2> QED BY <1>2, <1>4, <2>1, <2>2
<1>7. producer' = "write" =>
        \A j \in 1 .. Len(batch') : j \notin unwritten' => data'[Slot(j)'] = batch'[j]
  BY <1>1, <1>5
<1>8. consumer' = "advance" => val' = data'[tailCounter' % N]
  BY <1>1, <1>6 DEF InPlace
<1> QED BY <1>7, <1>8 DEF InPlace

(* The other actions keep the contents in place. *)
LEMMA OthersInPlace ==
  ASSUME IInv, Next, ~ WriteElement
  PROVE  InPlace'
<1> USE DEF IInv
<1>1. CASE \E b \in BatchSeqs, isSingle \in BOOLEAN : PushBegin(b, isSingle)
  <2>1. PICK b \in BatchSeqs, isSingle \in BOOLEAN : PushBegin(b, isSingle)
    BY <1>1
  <2>2. /\ UNCHANGED <<data, tailCounter, consumer, val>>
        /\ producer' = "write" => unwritten' = 1 .. Len(batch')
    BY <2>1 DEF PushBegin, counters, consumerVars
  <2> QED BY <2>2 DEF InPlace
<1>2. CASE PushReload
  <2>1. /\ UNCHANGED <<data, tailCounter, consumer, val>>
        /\ producer' = "write" => unwritten' = 1 .. Len(batch')
    BY <1>2 DEF PushReload, counters, consumerVars
  <2> QED BY <2>1 DEF InPlace
<1>3. CASE AdvanceHead
  BY <1>3 DEF AdvanceHead, InPlace, consumerVars
<1>4. CASE Full
  BY <1>4 DEF Full, InPlace, Slot, counters, consumerVars
<1>5. CASE PopBegin \/ PopReload \/ Empty
  <2>1. /\ UNCHANGED <<data, counters, producer, batch, unwritten, val>>
        /\ consumer' = consumer \/ consumer' # "advance"
    BY <1>5 DEF PopBegin, PopReload, Empty, producerVars
  <2> QED BY <2>1 DEF InPlace, Slot, counters
<1>6. CASE ReadElement \/ AdvanceTail
  <2>1. /\ UNCHANGED <<data, headCounter, producer, batch, unwritten>>
        /\ consumer' = "advance" => val' = data[tailCounter % N] /\ tailCounter' = tailCounter
    BY <1>6 DEF ReadElement, AdvanceTail, producerVars, counters
  <2> QED BY <2>1 DEF InPlace, Slot
<1> QED BY <1>1, <1>2, <1>3, <1>4, <1>5, <1>6 DEF Next, ProducerNext, ConsumerNext

(* The promises are kept until they are used up. *)
LEMMA NextPromises ==
  ASSUME IInv, Next
  PROVE  Promises'
<1> USE DEF IInv
<1>1. CASE (\E b \in BatchSeqs, isSingle \in BOOLEAN : PushBegin(b, isSingle)) \/ WriteElement
           \/ PopBegin \/ ReadElement
  <2>1. UNCHANGED <<counters, producerSeen, consumerSeen, sawRoom, sawData>>
    BY <1>1 DEF PushBegin, WriteElement, PopBegin, ReadElement, consumerVars, producerVars
  <2> QED BY <2>1 DEF Promises, counters
<1>2. CASE PushReload
  <2>1. UNCHANGED <<headCounter, tailCounter, consumerSeen, sawData>>
    BY <1>2 DEF PushReload, consumerVars, counters
  <2>2. PICK t \in Loads(tailCounter, producerSeen) :
          producerSeen' = t /\ (sawRoom' = FALSE \/ sawRoom' = sawRoom)
    BY <1>2 DEF PushReload
  <2>3. /\ Ahead(headCounter, t) <= Ahead(headCounter, producerSeen)
        /\ Ahead(headCounter, t) \in Int /\ Ahead(headCounter, producerSeen) \in Int
    BY ProducerLoads, AheadIs DEF Control, TypeOK
  <2> QED BY <2>1, <2>2, <2>3, Sizes DEF Promises
<1>3. CASE AdvanceHead
  BY <1>3 DEF AdvanceHead, Promises, consumerVars
<1>4. CASE Full
  <2>1. UNCHANGED <<headCounter, tailCounter, consumerSeen, sawData>>
    BY <1>4 DEF Full, consumerVars, counters
  <2>2. PICK t \in Loads(tailCounter, producerSeen) :
          producerSeen' = t /\ sawRoom' = ((t + N) % Modulus # headCounter)
    BY <1>4 DEF Full
  <2>3. t \in Counter /\ Ahead(headCounter, t) <= N /\ headCounter \in Counter
    BY ProducerLoads DEF Control, TypeOK
  <2>4. /\ t \in Int /\ 0 <= t /\ t < Modulus /\ headCounter \in Int
        /\ Ahead(headCounter, t) \in Int
        /\ Ahead(headCounter, t) = IF headCounter >= t THEN headCounter - t
                                   ELSE headCounter - t + Modulus
        /\ 0 <= headCounter /\ headCounter < Modulus
    BY <2>3, AheadIs
  <2>5. (t + N) % Modulus = IF t + N < Modulus THEN t + N ELSE t + N - Modulus
    BY <2>4, ModIs, Sizes
  <2>6. (t + N) % Modulus # headCounter => Ahead(headCounter, t) < N
    BY <2>3, <2>4, <2>5, Sizes
  <2> QED BY <2>1, <2>2, <2>6 DEF Promises
<1>5. CASE PopReload \/ Empty
  <2>1. UNCHANGED <<headCounter, tailCounter, producerSeen, sawRoom>>
    BY <1>5 DEF PopReload, Empty, producerVars, counters
  <2>2. sawData' => consumerSeen' # tailCounter
    BY <1>5 DEF PopReload, Empty
  <2> QED BY <2>1, <2>2 DEF Promises
<1>6. CASE AdvanceTail
  BY <1>6 DEF AdvanceTail, Promises, producerVars
<1> QED BY <1>1, <1>2, <1>3, <1>4, <1>5, <1>6 DEF Next, ProducerNext, ConsumerNext

(* Every step keeps the invariant. *)
LEMMA StepInv ==
  ASSUME BatchesFit, IInv, [Next]_vars
  PROVE  IInv'
<1>1. CASE Next
  <2>1. Control'
    BY <1>1, PushBeginControl, PushReloadControl, WriteElementControl, AdvanceHeadControl,
       FullControl, PopBeginControl, PopReloadControl, ReadElementControl, AdvanceTailControl,
       EmptyControl
       DEF IInv, Next, ProducerNext, ConsumerNext
  <2>2. InPlace'
    BY <1>1, WriteElementInPlace, OthersInPlace
  <2>3. Promises'
    BY <1>1, NextPromises
  <2> QED BY <2>1, <2>2, <2>3 DEF IInv
<1>2. CASE UNCHANGED vars
  BY <1>2 DEF IInv, Control, TypeOK, CountersOrdered, Straight, Producing, Consuming, InPlace,
              Promises, Slot, vars, counters, producerVars, consumerVars
<1> QED BY <1>1, <1>2

(* What push does with the tail counter it has loaded *)
LEMMA ReloadFits ==
  ASSUME BatchesFit, Control, producer = "reload", NEW t \in Loads(tailCounter, producerSeen)
  PROVE  Fits(t, batch, single) <=> Ahead(headCounter, t) + Len(batch) <= N
<1> USE DEF Control
<1>1. /\ batch \in BatchSeqs /\ Len(batch) >= 1 /\ (Wide \/ Len(batch) <= N)
      /\ single \in BOOLEAN /\ (single => Len(batch) = 1)
      /\ Wide => headCounter + Len(batch) < Modulus
  BY DEF Producing, TypeOK
<1>2. Len(batch) \in Int
  BY <1>1, BatchLengths
<1>3. t \in Counter /\ Ahead(headCounter, t) <= N /\ (Wide => N <= t /\ t <= headCounter)
  BY ProducerLoads
<1> QED BY <1>1, <1>2, <1>3, FitsRoom

-----------------------------------------------------------------------------
(* The properties of the runs *)

(* The condition on the batches does not change. *)
LEMMA FitAlways == BatchesFit => []BatchesFit
<1>1. BatchesFit => BatchesFit'
  BY DEF BatchesFit
<1> QED BY <1>1, PTL

(* Every run of the ring buffer satisfies the invariant. *)
THEOREM Invariance == BatchesFit /\ Spec => []IInv
<1>1. Init => IInv
  BY InitInv
<1>2. BatchesFit /\ IInv /\ [Next]_vars => IInv'
  BY StepInv
<1> QED BY <1>1, <1>2, FitAlways, PTL DEF Spec

(* The counters keep their types. *)
THEOREM TypeCorrect == BatchesFit /\ Spec => []TypeOK
<1>1. IInv => TypeOK
  BY DEF IInv, Control
<1> QED BY <1>1, Invariance, PTL

(* Tail, cached head, head and the producer's room are in this order.       *)
THEOREM OrderCorrect == BatchesFit /\ Spec => []CountersOrdered
<1>1. IInv => CountersOrdered
  BY DEF IInv, Control
<1> QED BY <1>1, Invariance, PTL

(* No slot is written while it is read, or read before it is published.     *)
THEOREM RaceFree == BatchesFit /\ Spec => []NoDataRace
<1>1. BatchesFit /\ IInv => NoDataRace
  <2> SUFFICES ASSUME BatchesFit, Control PROVE NoDataRace
    BY DEF IInv
  <2>1. producer = "write" => Ahead(headCounter, cachedTailCounter) + Len(batch) <= N
    BY DEF Control, Producing
  <2>2. consumer \in {"read", "advance"} => Ahead(cachedHeadCounter, tailCounter) > 0
    <3>1. cachedHeadCounter \in Counter /\ tailCounter \in Counter
      BY DEF Control, TypeOK
    <3>2. /\ Ahead(cachedHeadCounter, tailCounter) =
               IF cachedHeadCounter >= tailCounter THEN cachedHeadCounter - tailCounter
               ELSE cachedHeadCounter - tailCounter + Modulus
          /\ cachedHeadCounter \in Int /\ tailCounter \in Int
          /\ 0 <= cachedHeadCounter /\ tailCounter < Modulus
      BY <3>1, AheadIs
    <3>3. cachedHeadCounter # tailCounter => Ahead(cachedHeadCounter, tailCounter) > 0
      BY <3>2, Sizes
    <3> QED BY <3>3 DEF Control, Consuming
  <2>3. producer = "write" /\ consumer = "read" =>
          \A i \in unwritten : Slot(i) # tailCounter % N
    BY ReadsElsewhere DEF Control, TypeOK
  <2> QED BY <2>1, <2>2, <2>3 DEF NoDataRace
<1> QED BY <1>1, FitAlways, Invariance, PTL

(* occupancy() does not wrap for either of its callers.                     *)
THEOREM OccupancyCorrect == BatchesFit /\ Spec => []OccupancyInRange
<1>1. IInv => OccupancyInRange
  <2> SUFFICES ASSUME Control PROVE OccupancyInRange
    BY DEF IInv
  <2>1. ASSUME NEW t \in Loads(tailCounter, producerSeen)
        PROVE  Ahead(headCounter, t) <= N
    BY ProducerLoads
  <2>2. ASSUME NEW h \in Loads(headCounter, consumerSeen)
        PROVE  Ahead(h, tailCounter) <= N
    <3>1. /\ Ahead(h, tailCounter) <= Ahead(headCounter, tailCounter)
          /\ Ahead(h, tailCounter) \in Int
      BY ConsumerLoads
    <3>2. Ahead(headCounter, tailCounter) <= N /\ Ahead(headCounter, tailCounter) \in Int
      BY AheadIs DEF Control, TypeOK, CountersOrdered
    <3> QED BY <3>1, <3>2, Sizes
  <2> QED BY <2>1, <2>2 DEF OccupancyInRange
<1> QED BY <1>1, Invariance, PTL

(* With wide counters a batch longer than the buffer is refused.            *)
THEOREM OversizedCorrect == Wide /\ Spec => []OversizedRefused
<1>1. BatchesFit /\ IInv => OversizedRefused
  <2> SUFFICES ASSUME BatchesFit, Control, producer = "write" PROVE Len(batch) <= N
    BY DEF IInv, OversizedRefused
  <2>1. /\ batch \in BatchSeqs /\ Ahead(headCounter, cachedTailCounter) + Len(batch) <= N
        /\ headCounter \in Counter /\ cachedTailCounter \in Counter
    BY DEF Control, Producing, TypeOK
  <2>2. Len(batch) \in Int
    BY <2>1, BatchLengths
  <2>3. /\ Ahead(headCounter, cachedTailCounter)
             = IF headCounter >= cachedTailCounter THEN headCounter - cachedTailCounter
               ELSE headCounter - cachedTailCounter + Modulus
        /\ headCounter \in Int /\ cachedTailCounter \in Int
        /\ 0 <= headCounter /\ cachedTailCounter < Modulus
    BY <2>1, AheadIs
  <2>4. /\ Ahead(headCounter, cachedTailCounter) \in Int
        /\ Ahead(headCounter, cachedTailCounter) >= 0
    BY <2>3, Sizes
  <2> QED BY <2>1, <2>2, <2>4, Sizes
<1>2. Wide => BatchesFit
  BY DEF BatchesFit
<1> QED BY <1>1, <1>2, FitAlways, Invariance, PTL

(* What full() and empty() promise, the next push and pop keep.             *)
THEOREM PromisesKept == BatchesFit /\ Spec => SawIsKept
<1> DEFINE Step ==
      /\ sawRoom /\ single /\ producer = "reload" => producer' = "write" \/ UNCHANGED producer
      /\ sawData /\ consumer = "reload" => consumer' = "read" \/ UNCHANGED consumer
<1>1. BatchesFit /\ IInv /\ [Next]_vars => [Step]_vars
  <2> SUFFICES ASSUME BatchesFit, IInv, Next PROVE Step
    OBVIOUS
  <2> USE DEF IInv
  <2>1. CASE PushReload
    <3>1. PICK t \in Loads(tailCounter, producerSeen) :
            producer' = IF Fits(t, batch, single) THEN "write" ELSE "idle"
      BY <2>1 DEF PushReload
    <3>2. sawRoom /\ single => Fits(t, batch, single)
      <4> SUFFICES ASSUME sawRoom, single PROVE Fits(t, batch, single)
        OBVIOUS
      <4>1. Len(batch) = 1 /\ Ahead(headCounter, producerSeen) < N
        BY <2>1 DEF PushReload, Control, Producing, Promises
      <4>2. /\ Ahead(headCounter, t) <= Ahead(headCounter, producerSeen)
            /\ Ahead(headCounter, t) \in Int /\ Ahead(headCounter, producerSeen) \in Int
        BY ProducerLoads, AheadIs DEF Control, TypeOK
      <4>3. Ahead(headCounter, t) + Len(batch) <= N
        BY <4>1, <4>2, Sizes
      <4>4. producer = "reload" /\ Control
        BY <2>1 DEF PushReload
      <4> QED BY <4>3, <4>4, ReloadFits
    <3>3. consumer' = consumer
      BY <2>1 DEF PushReload, consumerVars
    <3> QED BY <3>1, <3>2, <3>3
  <2>2. CASE PopReload
    <3>1. PICK h \in Loads(headCounter, consumerSeen) :
            consumer' = IF h # tailCounter THEN "read" ELSE "idle"
      BY <2>2 DEF PopReload
    <3>2. consumerSeen # tailCounter => h # tailCounter
      <4>1. /\ Ahead(consumerSeen, tailCounter) <= Ahead(h, tailCounter)
            /\ h \in Counter /\ consumerSeen \in Counter /\ tailCounter \in Counter
        BY ConsumerLoads DEF Control, TypeOK
      <4>2. h = tailCounter => Ahead(h, tailCounter) = 0
        BY <4>1, AheadIs
      <4>3. consumerSeen # tailCounter => Ahead(consumerSeen, tailCounter) >= 1
        <5>1. /\ Ahead(consumerSeen, tailCounter) =
                   IF consumerSeen >= tailCounter THEN consumerSeen - tailCounter
                   ELSE consumerSeen - tailCounter + Modulus
              /\ consumerSeen \in Int /\ tailCounter \in Int
              /\ 0 <= consumerSeen /\ tailCounter < Modulus
          BY <4>1, AheadIs
        <5> QED BY <5>1, Sizes
      <4>4. Ahead(consumerSeen, tailCounter) \in Int
        BY <4>1, AheadIs
      <4> QED BY <4>1, <4>2, <4>3, <4>4
    <3>3. producer' = producer
      BY <2>2 DEF PopReload, producerVars
    <3> QED BY <3>1, <3>2, <3>3 DEF Promises
  <2>3. CASE ~ PushReload /\ ~ PopReload
    <3>1. producer = "reload" => producer' = producer
      BY <2>3 DEF Next, ProducerNext, ConsumerNext, PushBegin, WriteElement, AdvanceHead, Full,
                  PopBegin, ReadElement, AdvanceTail, Empty, producerVars
    <3>2. consumer = "reload" => consumer' = consumer
      BY <2>3 DEF Next, ProducerNext, ConsumerNext, PushBegin, WriteElement, AdvanceHead, Full,
                  PopBegin, ReadElement, AdvanceTail, Empty, consumerVars
    <3> QED BY <3>1, <3>2
  <2> QED BY <2>1, <2>2, <2>3
<1> QED BY <1>1, FitAlways, Invariance, PTL DEF Spec, SawIsKept

(* When push and pop have loaded the current counter, they return false     *)
(* only if the batch does not fit, or there is nothing to pop.              *)
THEOREM RefusalCorrect == BatchesFit /\ Spec => RefusedOnlyIfFull
<1> DEFINE Step ==
      /\ producer = "reload" /\ producer' = "idle" /\ producerSeen' = tailCounter =>
           Ahead(headCounter, tailCounter) + Len(batch) > N
      /\ consumer = "reload" /\ consumer' = "idle" /\ consumerSeen' = headCounter =>
           headCounter = tailCounter
<1>1. BatchesFit /\ IInv /\ [Next]_vars => [Step]_vars
  <2> SUFFICES ASSUME BatchesFit, IInv, Next PROVE Step
    OBVIOUS
  <2> USE DEF IInv
  <2>1. CASE PushReload
    <3>1. PICK t \in Loads(tailCounter, producerSeen) :
            producerSeen' = t /\ producer' = IF Fits(t, batch, single) THEN "write" ELSE "idle"
      BY <2>1 DEF PushReload
    <3>2. producer = "reload" /\ consumer' = consumer
      BY <2>1 DEF PushReload, consumerVars
    <3>3. Fits(t, batch, single) <=> Ahead(headCounter, t) + Len(batch) <= N
      BY <3>2, ReloadFits
    <3>4. Ahead(headCounter, t) \in Int /\ Len(batch) \in Int
      BY <3>2, ProducerLoads, BatchLengths DEF Control, Producing
    <3>5. ~ Fits(t, batch, single) => Ahead(headCounter, t) + Len(batch) > N
      BY <3>3, <3>4, Sizes
    <3> QED BY <3>1, <3>2, <3>5
  <2>2. CASE PopReload
    <3>1. PICK h \in Loads(headCounter, consumerSeen) :
            consumerSeen' = h /\ consumer' = IF h # tailCounter THEN "read" ELSE "idle"
      BY <2>2 DEF PopReload
    <3>2. producer' = producer
      BY <2>2 DEF PopReload, producerVars
    <3> QED BY <3>1, <3>2
  <2>3. CASE ~ PushReload /\ ~ PopReload
    <3>1. producer = "reload" => producer' = producer
      BY <2>3 DEF Next, ProducerNext, ConsumerNext, PushBegin, WriteElement, AdvanceHead, Full,
                  PopBegin, ReadElement, AdvanceTail, Empty, producerVars
    <3>2. consumer = "reload" => consumer' = consumer
      BY <2>3 DEF Next, ProducerNext, ConsumerNext, PushBegin, WriteElement, AdvanceHead, Full,
                  PopBegin, ReadElement, AdvanceTail, Empty, consumerVars
    <3> QED BY <3>1, <3>2
  <2> QED BY <2>1, <2>2, <2>3
<1> QED BY <1>1, FitAlways, Invariance, PTL DEF Spec, RefusedOnlyIfFull

-----------------------------------------------------------------------------
(* The refinement *)

Elements == Values \cup {NoValue}

(* n elements from the tail counter tl on, in the slots d *)
Items(d, tl, n) == [i \in 1 .. n |-> d[((tl + i - 1) % Modulus) % N]]

(* Intervals from 1 are as long as they say. *)
LEMMA IntervalsEqual ==
  ASSUME NEW m \in Nat, NEW n \in Nat, 1 .. m = 1 .. n
  PROVE  m = n
<1>1. (m >= 1 => m \in 1 .. n) /\ (n >= 1 => n \in 1 .. m)
  OBVIOUS
<1> QED BY <1>1

(* The i-th of them is in the slot i - 1 after the tail's, also when the    *)
(* counter wraps around.                                                    *)
LEMMA SlotAfter ==
  ASSUME NEW tl \in Counter, NEW n \in Int, n <= N, Wide => tl + n <= Modulus,
         NEW i \in 1 .. n
  PROVE  /\ ((tl + i - 1) % Modulus) % N = (tl + (i - 1)) % N
         /\ (tl + (i - 1)) % N \in 0 .. N - 1
<1>1. tl \in Int /\ 0 <= tl /\ tl < Modulus
  BY AheadIs
<1>2. i \in Int /\ 1 <= i /\ i <= n
  OBVIOUS
<1> DEFINE x == tl + (i - 1)
<1>3. x \in Int /\ 0 <= x /\ x < 2 * Modulus /\ x = tl + i - 1 /\ (Wide => x < Modulus)
  BY <1>1, <1>2, Sizes
<1> HIDE DEF x
<1>4. x % N \in 0 .. N - 1
  <2>1. x % N \in Int /\ 0 <= x % N /\ x % N < N
    BY <1>3, ModIs, Sizes
  <2> QED BY <2>1, Sizes
<1>5. CASE x < Modulus
  <2>1. x % Modulus = x
    BY <1>3, <1>5, ModIs, Sizes
  <2> QED BY <1>3, <1>4, <2>1 DEF x
<1>6. CASE x >= Modulus
  <2>1. x % Modulus = x - Modulus /\ x - Modulus \in Int /\ ~ Wide
    BY <1>3, <1>6, ModIs, Sizes
  <2>2. (x - Modulus + Modulus) % N = (x - Modulus) % N
    BY <2>1, RoundIsRounds
  <2>3. x - Modulus + Modulus = x
    BY <1>3, Sizes
  <2> QED BY <1>3, <1>4, <2>1, <2>2, <2>3 DEF x
<1> QED BY <1>3, <1>5, <1>6, Sizes

(* So they are a sequence. *)
LEMMA ItemsAre ==
  ASSUME NEW d \in [0 .. N - 1 -> Elements], NEW tl \in Counter,
         NEW n \in Int, 0 <= n, n <= N, Wide => tl + n <= Modulus
  PROVE  /\ Items(d, tl, n) \in Seq(Elements)
         /\ Len(Items(d, tl, n)) = n
         /\ \A i \in 1 .. n : Items(d, tl, n)[i] = d[(tl + (i - 1)) % N]
<1>1. tl \in Int /\ 0 <= tl /\ tl < Modulus
  BY AheadIs
<1>2. ASSUME NEW i \in 1 .. n
      PROVE  /\ ((tl + i - 1) % Modulus) % N = (tl + (i - 1)) % N
             /\ (tl + (i - 1)) % N \in 0 .. N - 1
  BY SlotAfter
<1>3. Items(d, tl, n) \in [1 .. n -> Elements]
  BY <1>2 DEF Items
<1>4. n \in Nat
  OBVIOUS
<1>5. Items(d, tl, n) \in Seq(Elements)
  BY <1>3, <1>4, SeqDef
<1>6. Len(Items(d, tl, n)) = n
  <2>1. /\ DOMAIN Items(d, tl, n) = 1 .. n /\ Len(Items(d, tl, n)) \in Nat
        /\ DOMAIN Items(d, tl, n) = 1 .. Len(Items(d, tl, n))
    BY <1>3, <1>5, LenProperties
  <2> QED BY <1>4, <2>1, IntervalsEqual
<1>7. ASSUME NEW i \in 1 .. n
      PROVE  Items(d, tl, n)[i] = d[(tl + (i - 1)) % N]
  BY <1>2 DEF Items
<1> QED BY <1>5, <1>6, <1>7

(* A wide head counter is as far ahead as the number of elements. *)
LEMMA Occupied ==
  ASSUME Control
  PROVE  /\ Ahead(headCounter, tailCounter) \in Int
         /\ 0 <= Ahead(headCounter, tailCounter) /\ Ahead(headCounter, tailCounter) <= N
         /\ Wide => tailCounter + Ahead(headCounter, tailCounter) = headCounter
         /\ tailCounter \in Int /\ headCounter \in Int /\ headCounter < Modulus
         /\ 0 <= tailCounter /\ tailCounter < Modulus
<1>1. /\ headCounter \in Counter /\ tailCounter \in Counter /\ cachedHeadCounter \in Counter
      /\ consumerSeen \in Counter
  BY DEF Control, TypeOK
<1>2. /\ Ahead(headCounter, tailCounter) = IF headCounter >= tailCounter
                                          THEN headCounter - tailCounter
                                          ELSE headCounter - tailCounter + Modulus
      /\ headCounter \in Int /\ tailCounter \in Int /\ cachedHeadCounter \in Int
      /\ consumerSeen \in Int /\ 0 <= headCounter /\ headCounter < Modulus
      /\ 0 <= tailCounter /\ tailCounter < Modulus
  BY <1>1, AheadIs
<1>3. Wide => tailCounter <= headCounter
  BY <1>2 DEF Control, Straight
<1>4. Ahead(headCounter, tailCounter) <= N
  BY DEF Control, CountersOrdered
<1> QED BY <1>2, <1>3, <1>4, Sizes

(* What the buffer holds *)
LEMMA ContentsAre ==
  ASSUME Control
  PROVE  /\ Contents \in Seq(Elements)
         /\ Len(Contents) = Ahead(headCounter, tailCounter)
         /\ \A i \in 1 .. Ahead(headCounter, tailCounter) :
              Contents[i] = data[(tailCounter + (i - 1)) % N]
<1>1. Contents = Items(data, tailCounter, Ahead(headCounter, tailCounter))
  BY DEF Contents, Items
<1>2. data \in [0 .. N - 1 -> Elements] /\ tailCounter \in Counter
  BY DEF Control, TypeOK, Elements
<1>3. Wide => tailCounter + Ahead(headCounter, tailCounter) <= Modulus
  BY Occupied, Sizes
<1> QED BY <1>1, <1>2, <1>3, Occupied, ItemsAre

(* Writing an element of the batch changes nothing for the consumer. *)
LEMMA WriteElementStutters ==
  ASSUME BatchesFit, Control, WriteElement
  PROVE  Contents' = Contents
<1> DEFINE occ == Ahead(headCounter, tailCounter)
<1>1. UNCHANGED <<headCounter, tailCounter>> /\ producer = "write"
  BY DEF WriteElement, counters
<1>2. PICK i \in 1 .. Len(batch) : data' = [data EXCEPT ![Slot(i)] = batch[i]]
  BY DEF WriteElement, Control, TypeOK
<1>3. data \in [0 .. N - 1 -> Elements] /\ tailCounter \in Int
  BY Occupied DEF Control, TypeOK, Elements
<1>4. tailCounter \in Counter /\ (Wide => tailCounter + occ <= Modulus)
  BY Occupied, Sizes, SMTT(40) DEF Control, TypeOK
<1>5. ASSUME NEW k \in 1 .. occ
      PROVE  data'[((tailCounter + k - 1) % Modulus) % N]
               = data[((tailCounter + k - 1) % Modulus) % N]
  <2>1. k \in Int /\ 1 <= k /\ k <= occ
    BY Occupied
  <2>2. Slot(i) # (tailCounter + (k - 1)) % N
    BY <1>1, <2>1, SlotBehind
  <2>3. /\ ((tailCounter + k - 1) % Modulus) % N = (tailCounter + (k - 1)) % N
        /\ (tailCounter + (k - 1)) % N \in 0 .. N - 1
    BY <1>4, Occupied, SlotAfter
  <2> QED BY <1>2, <1>3, <2>2, <2>3
<1> QED BY <1>1, <1>5 DEF Contents

(* Publishing a batch adds it to what the buffer holds. *)
LEMMA AdvanceHeadPushes ==
  ASSUME BatchesFit, Control, InPlace, AdvanceHead
  PROVE  /\ Contents' = Contents \o batch
         /\ Len(Contents) + Len(batch) <= N
         /\ batch # <<>>
<1> DEFINE occ == Ahead(headCounter, tailCounter)
           n == Len(batch)
<1>1. /\ UNCHANGED <<data, tailCounter>>
      /\ producer = "write" /\ unwritten = {}
  BY DEF AdvanceHead
<1>2. /\ batch \in Seq(Values) /\ n \in Int /\ n >= 1
      /\ Wide => headCounter + n < Modulus
  BY <1>1, BatchLengths DEF Control, Producing
<1>3. Ahead(headCounter', tailCounter) = occ + n
  BY AdvanceHeadControl
<1>4. occ \in Int /\ 0 <= occ /\ (Wide => tailCounter + occ = headCounter)
      /\ tailCounter \in Int
  BY Occupied
<1>5. occ + n <= N
  <2>1. /\ headCounter' \in Counter /\ Ahead(headCounter', tailCounter') <= N
    BY AdvanceHeadControl DEF Control, CountersOrdered, TypeOK
  <2> QED BY <1>1, <1>3, <2>1
<1>6. /\ Contents \in Seq(Elements) /\ Len(Contents) = occ
      /\ \A i \in 1 .. occ : Contents[i] = data[(tailCounter + (i - 1)) % N]
  BY ContentsAre
<1>7. batch \in Seq(Elements)
  BY <1>2, SeqMonotonic DEF Elements
<1>8. Contents' = Items(data, tailCounter, occ + n)
  BY <1>1, <1>3 DEF Contents, Items
<1>9. /\ Items(data, tailCounter, occ + n) \in Seq(Elements)
      /\ Len(Items(data, tailCounter, occ + n)) = occ + n
      /\ \A i \in 1 .. occ + n :
           Items(data, tailCounter, occ + n)[i] = data[(tailCounter + (i - 1)) % N]
  <2>1. data \in [0 .. N - 1 -> Elements] /\ tailCounter \in Counter
    BY DEF Control, TypeOK, Elements
  <2>2. occ + n \in Int /\ 0 <= occ + n /\ (Wide => tailCounter + (occ + n) <= Modulus)
    BY <1>2, <1>4, Sizes
  <2> HIDE DEF occ, n
  <2> QED BY <1>5, <2>1, <2>2, ItemsAre
<1>10. /\ Contents \o batch \in Seq(Elements)
       /\ Len(Contents \o batch) = occ + n
       /\ \A i \in 1 .. occ + n :
            (Contents \o batch)[i] = IF i <= occ THEN Contents[i] ELSE batch[i - occ]
  <2>1. /\ Contents \o batch \in Seq(Elements)
        /\ Len(Contents \o batch) = Len(Contents) + Len(batch)
        /\ \A i \in 1 .. Len(Contents) + Len(batch) :
             (Contents \o batch)[i]
               = IF i <= Len(Contents) THEN Contents[i] ELSE batch[i - Len(Contents)]
    <3>1. Contents \in Seq(Elements) /\ batch \in Seq(Elements)
      BY <1>6, <1>7
    <3> QED BY ONLY <3>1, ConcatProperties
  <2> QED BY <1>6, <2>1
<1>11. ASSUME NEW i \in 1 .. occ + n
       PROVE  data[(tailCounter + (i - 1)) % N] = IF i <= occ THEN Contents[i] ELSE batch[i - occ]
  <2>1. i \in Int /\ 1 <= i /\ i <= occ + n
    BY <1>2, <1>4
  <2>2. CASE i <= occ
    <3>1. i \in 1 .. occ
      BY <1>4, <2>1, <2>2
    <3> QED BY <1>6, <2>2, <3>1
  <2>3. CASE i > occ
    <3> DEFINE j == i - occ
    <3>1. j \in 1 .. n /\ tailCounter + occ + (j - 1) = tailCounter + (i - 1) /\ ~ (i <= occ)
      BY <1>2, <1>4, <2>1, <2>3
    <3> HIDE DEF j
    <3>2. data[Slot(j)] = batch[j]
      BY <1>1, <3>1 DEF InPlace
    <3>3. Slot(j) = (tailCounter + occ + (j - 1)) % N
      BY <1>1, <3>1, SlotBehind
    <3> QED BY <3>1, <3>2, <3>3 DEF j
  <2> QED BY <1>4, <2>1, <2>2, <2>3
<1>12. Items(data, tailCounter, occ + n) = Contents \o batch
  <2> DEFINE s == Items(data, tailCounter, occ + n)
             t == Contents \o batch
  <2>1. s \in Seq(Elements) /\ t \in Seq(Elements) /\ Len(s) = Len(t)
    BY <1>9, <1>10
  <2>2. \A i \in 1 .. Len(s) : s[i] = t[i]
    BY <1>9, <1>10, <1>11
  <2> HIDE DEF s, t
  <2>3. s = t
    BY <2>1, <2>2, SeqEqual
  <2> QED BY <2>3 DEF s, t
<1>13. batch # <<>>
  BY <1>2, EmptySeq
<1> QED BY <1>5, <1>6, <1>8, <1>12, <1>13

(* Handing back a slot removes the oldest element, the one that was read. *)
LEMMA AdvanceTailPops ==
  ASSUME BatchesFit, Control, InPlace, AdvanceTail
  PROVE  /\ Contents # <<>>
         /\ delivered' = Head(Contents)
         /\ Contents' = Tail(Contents)
<1> DEFINE occ == Ahead(headCounter, tailCounter)
<1>1. /\ UNCHANGED <<data, headCounter>> /\ consumer = "advance"
      /\ tailCounter' = (tailCounter + 1) % Modulus /\ delivered' = val
  BY DEF AdvanceTail
<1>2. Ahead(headCounter, tailCounter') = occ - 1 /\ occ >= 1 /\ tailCounter' \in Counter
  BY AdvanceTailControl DEF Control, TypeOK
<1>3. /\ occ \in Int /\ occ <= N /\ (Wide => tailCounter + occ = headCounter)
      /\ tailCounter \in Int /\ headCounter \in Int /\ headCounter < Modulus
      /\ 0 <= tailCounter /\ tailCounter < Modulus
  BY Occupied
<1>4. /\ Contents \in Seq(Elements) /\ Len(Contents) = occ
      /\ \A i \in 1 .. occ : Contents[i] = data[(tailCounter + (i - 1)) % N]
  BY ContentsAre
<1>5. Contents # <<>>
  BY <1>2, <1>4, EmptySeq
<1>6. Contents[1] = data[tailCounter % N]
  <2>1. 1 \in 1 .. occ /\ tailCounter + (1 - 1) = tailCounter
    BY <1>2, <1>3
  <2> QED BY <1>4, <2>1
<1>7. delivered' = Head(Contents)
  <2>1. val = data[tailCounter % N]
    BY <1>1 DEF InPlace
  <2>2. Head(Contents) = Contents[1]
    BY <1>4, <1>5
  <2> QED BY <1>1, <1>6, <2>1, <2>2
<1>8. tailCounter' = IF tailCounter + 1 < Modulus THEN tailCounter + 1 ELSE 0
  BY <1>1, <1>3, ModIs, Sizes
<1>9. Contents' = Items(data, tailCounter', occ - 1)
  BY <1>1, <1>2 DEF Contents, Items
<1>10. /\ Items(data, tailCounter', occ - 1) \in Seq(Elements)
       /\ Len(Items(data, tailCounter', occ - 1)) = occ - 1
       /\ \A i \in 1 .. occ - 1 :
            Items(data, tailCounter', occ - 1)[i] = data[(tailCounter' + (i - 1)) % N]
  <2>1. data \in [0 .. N - 1 -> Elements]
    BY DEF Control, TypeOK, Elements
  <2>2. /\ occ - 1 \in Int /\ 0 <= occ - 1 /\ occ - 1 <= N
        /\ Wide => tailCounter' + (occ - 1) <= Modulus
    BY <1>2, <1>3, <1>8, Sizes
  <2> HIDE DEF occ
  <2> QED BY <1>2, <2>1, <2>2, ItemsAre
<1>11. /\ Tail(Contents) \in Seq(Elements) /\ Len(Tail(Contents)) = occ - 1
       /\ \A i \in 1 .. occ - 1 : Tail(Contents)[i] = Contents[i + 1]
  BY <1>4, <1>5, HeadTailProperties
<1>12. ASSUME NEW i \in 1 .. occ - 1
       PROVE  data[(tailCounter' + (i - 1)) % N] = Contents[i + 1]
  <2>1. i \in Int /\ i + 1 \in 1 .. occ /\ (i + 1) - 1 = i /\ i - 1 \in Int
    BY <1>3
  <2>2. Contents[i + 1] = data[(tailCounter + i) % N]
    BY <1>4, <2>1
  <2>3. (tailCounter' + (i - 1)) % N = (tailCounter + i) % N
    <3>1. CASE tailCounter + 1 < Modulus
      <4>1. tailCounter' + (i - 1) = tailCounter + i
        BY <1>3, <1>8, <2>1, <3>1
      <4> QED BY <4>1
    <3>2. CASE tailCounter + 1 >= Modulus
      <4>1. tailCounter' + (i - 1) = i - 1 /\ tailCounter + i = (i - 1) + Modulus
        BY <1>3, <1>8, <2>1, <3>2, Sizes
      <4>2. ~ Wide
        BY <1>2, <1>3, <3>2, Sizes
      <4> QED BY <2>1, <4>1, <4>2, RoundIsRounds
    <3> QED BY <1>3, <3>1, <3>2, Sizes
  <2> QED BY <2>2, <2>3
<1>13. Items(data, tailCounter', occ - 1) = Tail(Contents)
  <2> DEFINE s == Items(data, tailCounter', occ - 1)
             t == Tail(Contents)
  <2>1. s \in Seq(Elements) /\ t \in Seq(Elements) /\ Len(s) = Len(t)
    BY <1>10, <1>11
  <2>2. \A i \in 1 .. Len(s) : s[i] = t[i]
    BY <1>10, <1>11, <1>12
  <2> HIDE DEF s, t
  <2>3. s = t
    BY <2>1, <2>2, SeqEqual
  <2> QED BY <2>3 DEF s, t
<1> QED BY <1>5, <1>7, <1>9, <1>13

(* Every step is a step of the channel, or changes nothing for its users. *)
LEMMA StepRefines ==
  ASSUME BatchesFit, IInv, [Next]_vars
  PROVE  [Channel!Next]_(Channel!vars)
<1> USE DEF IInv
<1>1. ASSUME NEW b \in BatchSeqs, NEW isSingle \in BOOLEAN, PushBegin(b, isSingle)
      PROVE  Channel!Next
  <2>1. /\ batch = <<>> /\ batch' = b /\ UNCHANGED delivered
        /\ UNCHANGED <<data, headCounter, tailCounter>>
    BY <1>1 DEF PushBegin, Control, Producing, counters, consumerVars
  <2>2. Contents' = Contents
    BY <2>1 DEF Contents
  <2>3. Channel!Request(b)
    BY <2>1, <2>2 DEF Channel!Request
  <2>4. \E n \in Batches \cup {1} : b \in [1 .. n -> Values]
    BY DEF BatchSeqs
  <2> QED BY <2>3, <2>4 DEF Channel!Next
<1>2. CASE PushReload
  <2>1. /\ UNCHANGED <<data, headCounter, tailCounter, delivered>> /\ producer = "reload"
        /\ batch' = <<>> \/ UNCHANGED batch
    BY <1>2 DEF PushReload, counters, consumerVars
  <2>2. Contents' = Contents
    BY <2>1 DEF Contents
  <2>3. batch # <<>>
    <3>1. batch \in BatchSeqs
      BY <2>1 DEF Control, Producing
    <3>2. Len(batch) \in Int /\ Len(batch) >= 1
      BY <3>1, BatchLengths
    <3> QED BY <3>2, EmptySeq
  <2> QED BY <2>1, <2>2, <2>3 DEF Channel!Next, Channel!Refuse, Channel!vars
<1>3. CASE WriteElement
  <2>1. Contents' = Contents /\ UNCHANGED <<batch, delivered>>
    BY <1>3, WriteElementStutters DEF WriteElement, consumerVars
  <2> QED BY <2>1 DEF Channel!vars
<1>4. CASE AdvanceHead
  <2>1. batch' = <<>> /\ UNCHANGED delivered
    BY <1>4 DEF AdvanceHead, consumerVars
  <2> QED BY <1>4, <2>1, AdvanceHeadPushes DEF Channel!Next, Channel!Push
<1>5. CASE AdvanceTail
  <2>1. UNCHANGED batch
    BY <1>5 DEF AdvanceTail, producerVars
  <2> QED BY <1>5, <2>1, AdvanceTailPops DEF Channel!Next, Channel!Pop
<1>6. CASE Full \/ PopBegin \/ PopReload \/ ReadElement \/ Empty \/ UNCHANGED vars
  <2>1. UNCHANGED <<data, headCounter, tailCounter, batch, delivered>>
    BY <1>6 DEF Full, PopBegin, PopReload, ReadElement, Empty, vars, counters, producerVars,
                consumerVars
  <2>2. Contents' = Contents
    BY <2>1 DEF Contents
  <2> QED BY <2>1, <2>2 DEF Channel!vars
<1> QED BY <1>1, <1>2, <1>3, <1>4, <1>5, <1>6 DEF Next, ProducerNext, ConsumerNext

(* The ring buffer implements the bounded queue.                            *)
THEOREM Refinement == BatchesFit /\ Spec => IsChannel
<1>1. Init => Channel!Init
  <2> SUFFICES ASSUME Init PROVE Channel!Init
    OBVIOUS
  <2>1. Control /\ headCounter = N /\ tailCounter = N /\ batch = <<>> /\ delivered = NoValue
    BY InitInv DEF IInv, Init
  <2>2. Len(Contents) = 0 /\ Contents \in Seq(Elements)
    BY <2>1, ContentsAre, AheadIs, Sizes
  <2>3. Contents = <<>>
    BY <2>2, EmptySeq
  <2> QED BY <2>1, <2>3, CapacityAssumption DEF Channel!Init
<1>2. BatchesFit /\ IInv /\ [Next]_vars => [Channel!Next]_(Channel!vars)
  BY StepRefines
<1> QED BY <1>1, <1>2, FitAlways, Invariance, PTL DEF Spec, IsChannel, Channel!Spec
=============================================================================
