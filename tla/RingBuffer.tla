----------------------------- MODULE RingBuffer -----------------------------
(***************************************************************************)
(* The single-producer single-consumer ring buffer that is the channel      *)
(* between two workers (RingBuffer/RingBuffer.hpp).                         *)
(*                                                                         *)
(* The two counters start at N and only grow, modulo 2^w = Modulus.  Each   *)
(* side keeps a cached copy of the other side's counter and reloads it only *)
(* when the copy does not suffice.  A batch is written element by element,  *)
(* in any order (std::execution::unseq), and published by one addition to   *)
(* headCounter_.                                                            *)
(*                                                                         *)
(* An acquire load may return an old value of the counter, but never one    *)
(* that is older than what the thread has read before: producerSeen and     *)
(* consumerSeen are the newest values read so far.                          *)
(***************************************************************************)
EXTENDS Integers, Sequences, FiniteSets

CONSTANTS
  N,          \* the capacity
  Modulus,    \* 2^w, the number of values of std::size_t
  Wide,       \* the branch of the constexpr if: sizeof(std::size_t) >= 8
  Values,     \* the elements
  NoValue,    \* what a slot holds before the first write, and a pop before the first success
  Batches,    \* bound: the lengths of batches pushed
  OldViews    \* loads may return old values

(* The static_asserts; a wide counter is taken not to wrap around.          *)
ASSUME CapacityAssumption ==
  /\ N \in Nat \ {0} /\ Modulus \in Nat /\ N < Modulus - 1
  /\ Wide \in BOOLEAN /\ OldViews \in BOOLEAN
  /\ Wide \/ Modulus % N = 0
  /\ Batches \subseteq Nat \ {0}
  /\ NoValue \notin Values

VARIABLES
  data,               \* data_
  tailCounter,        \* tailCounter_: next index to pop
  headCounter,        \* headCounter_: next index to push
  cachedTailCounter,  \* cachedTailCounter_, the producer's
  cachedHeadCounter,  \* cachedHeadCounter_, the consumer's
  producerSeen,       \* the newest tailCounter_ the producer has read
  consumerSeen,       \* the newest headCounter_ the consumer has read
  producer,           \* where the producer is
  batch,              \* the elements it pushes
  single,             \* it called push(value), not push(first, last)
  unwritten,          \* positions in batch it has still to write
  consumer,           \* where the consumer is
  val,                \* the element it has read
  delivered,          \* what its latest successful pop returned
  sawRoom,            \* full() has returned false since the last push
  sawData             \* empty() has returned false since the last pop

counters == <<tailCounter, headCounter>>
producerVars == <<cachedTailCounter, producerSeen, producer, batch, single, unwritten, sawRoom>>
consumerVars == <<cachedHeadCounter, consumerSeen, consumer, val, delivered, sawData>>
vars == <<data, counters, producerVars, consumerVars>>

Counter == 0 .. Modulus - 1

(* How far counter a is ahead of counter b.                                 *)
Ahead(a, b) == (a - b) % Modulus

BatchSeqs == UNION {[1 .. n -> Values] : n \in Batches \cup {1}}

TypeOK ==
  /\ data \in [0 .. N - 1 -> Values \cup {NoValue}]
  /\ tailCounter \in Counter /\ headCounter \in Counter
  /\ cachedTailCounter \in Counter /\ cachedHeadCounter \in Counter
  /\ producerSeen \in Counter /\ consumerSeen \in Counter
  /\ producer \in {"idle", "reload", "write"}
  /\ consumer \in {"idle", "reload", "read", "advance"}
  /\ batch \in BatchSeqs \cup {<<>>}
  /\ single \in BOOLEAN
  /\ unwritten \subseteq 1 .. Len(batch)
  /\ val \in Values \cup {NoValue} /\ delivered \in Values \cup {NoValue}
  /\ sawRoom \in BOOLEAN /\ sawData \in BOOLEAN

Init ==
  /\ data = [i \in 0 .. N - 1 |-> NoValue]
  /\ tailCounter = N /\ headCounter = N
  /\ cachedTailCounter = N /\ cachedHeadCounter = N
  /\ producerSeen = N /\ consumerSeen = N
  /\ producer = "idle" /\ consumer = "idle"
  /\ batch = <<>> /\ single = FALSE /\ unwritten = {}
  /\ val = NoValue /\ delivered = NoValue
  /\ sawRoom = FALSE /\ sawData = FALSE

(* What an acquire load of a counter can return to a thread that has        *)
(* already seen the value seen.                                             *)
Loads(counter, seen) ==
  IF OldViews THEN {(seen + k) % Modulus : k \in 0 .. Ahead(counter, seen)}
              ELSE {counter}

-----------------------------------------------------------------------------
(* Mistakes that the properties below exclude: the test for a single        *)
(* element off by one, ...                                                  *)
SingleFitsOffByOne(t) == t # Ahead(headCounter, N + 1)

(* The test for room, with the tail counter t.  push(value) compares with   *)
(* head - N; push(first, last) has two versions, one for each branch of the *)
(* constexpr if.  All arithmetic is that of std::size_t.                    *)
SingleFits(t) == t # Ahead(headCounter, N)

(* ... a batch that must leave a free slot, ...                             *)
BatchFitsStrictly(t, n) == Ahead(headCounter, t) < Ahead(N, n)

(* ... and a batch with an element too many.                                *)
BatchFitsOffByOne(t, n) == t + 1 >= (Ahead(headCounter, N) + n) % Modulus

BatchFits(t, n) ==
  IF Wide THEN t >= (Ahead(headCounter, N) + n) % Modulus
          ELSE Ahead(headCounter, t) <= Ahead(N, n)

Fits(t, b, isSingle) == IF isSingle THEN SingleFits(t) ELSE BatchFits(t, Len(b))

(* The head of push: the cached tail may suffice.                           *)
PushBegin(b, isSingle) ==
  /\ producer = "idle"
  /\ isSingle => Len(b) = 1
  /\ Wide => headCounter + Len(b) < Modulus
  /\ batch' = b
  /\ single' = isSingle
  /\ IF Fits(cachedTailCounter, b, isSingle)
     THEN producer' = "write" /\ unwritten' = 1 .. Len(b)
     ELSE producer' = "reload" /\ unwritten' = {}
  /\ UNCHANGED <<data, counters, cachedTailCounter, producerSeen, sawRoom, consumerVars>>

(* A mistake: the copy runs one element too far.                            *)
PushReloadCopiesMore ==
  /\ producer = "reload"
  /\ \E t \in Loads(tailCounter, producerSeen) :
       /\ cachedTailCounter' = t
       /\ producerSeen' = t
       /\ IF Fits(t, batch, single)
          THEN /\ producer' = "write" /\ unwritten' = 1 .. Len(batch) + 1
               /\ UNCHANGED <<batch, sawRoom>>
          ELSE producer' = "idle" /\ batch' = <<>> /\ sawRoom' = FALSE /\ UNCHANGED unwritten
  /\ UNCHANGED <<data, counters, single, consumerVars>>

(* ... or it is loaded again, and push may return false.                    *)
PushReload ==
  /\ producer = "reload"
  /\ \E t \in Loads(tailCounter, producerSeen) :
       /\ cachedTailCounter' = t
       /\ producerSeen' = t
       /\ IF Fits(t, batch, single)
          THEN producer' = "write" /\ unwritten' = 1 .. Len(batch) /\ UNCHANGED <<batch, sawRoom>>
          ELSE producer' = "idle" /\ batch' = <<>> /\ sawRoom' = FALSE /\ UNCHANGED unwritten
  /\ UNCHANGED <<data, counters, single, consumerVars>>

(* A mistake: the second copy begins one slot late.                         *)
SlotLate(i) ==
  LET headIndx == headCounter % N
      firstPush == IF N - headIndx < Len(batch) THEN N - headIndx ELSE Len(batch)
  IN  IF i <= firstPush THEN headIndx + i - 1 ELSE i - firstPush

(* Where the i-th element of the batch goes: up to the end of data_ in the  *)
(* first copy, the rest from its beginning in the second.                   *)
Slot(i) ==
  LET headIndx == headCounter % N
      firstPush == IF N - headIndx < Len(batch) THEN N - headIndx ELSE Len(batch)
  IN  IF i <= firstPush THEN headIndx + i - 1 ELSE i - firstPush - 1

WriteElement ==
  /\ producer = "write"
  /\ \E i \in unwritten :
       /\ data' = [data EXCEPT ![Slot(i)] = batch[i]]
       /\ unwritten' = unwritten \ {i}
  /\ UNCHANGED <<counters, cachedTailCounter, producerSeen, producer, batch, single, sawRoom,
                 consumerVars>>

(* A mistake: advanceHead with its default argument after a batch.          *)
AdvanceHeadByOne ==
  /\ producer = "write"
  /\ unwritten = {}
  /\ headCounter' = (headCounter + 1) % Modulus
  /\ producer' = "idle"
  /\ batch' = <<>>
  /\ sawRoom' = FALSE
  /\ UNCHANGED <<data, tailCounter, cachedTailCounter, producerSeen, single, unwritten,
                 consumerVars>>

(* advanceHead publishes the batch; push returns true.                      *)
AdvanceHead ==
  /\ producer = "write"
  /\ unwritten = {}
  /\ headCounter' = (headCounter + Len(batch)) % Modulus
  /\ producer' = "idle"
  /\ batch' = <<>>
  /\ sawRoom' = FALSE
  /\ UNCHANGED <<data, tailCounter, cachedTailCounter, producerSeen, single, unwritten,
                 consumerVars>>

(* A mistake: full() tests for empty.                                       *)
FullIsEmpty ==
  /\ producer = "idle"
  /\ \E t \in Loads(tailCounter, producerSeen) :
       /\ producerSeen' = t
       /\ sawRoom' = (t # headCounter)
  /\ UNCHANGED <<data, counters, cachedTailCounter, producer, batch, single, unwritten,
                 consumerVars>>

(* full, called by the producer.                                            *)
Full ==
  /\ producer = "idle"
  /\ \E t \in Loads(tailCounter, producerSeen) :
       /\ producerSeen' = t
       /\ sawRoom' = ((t + N) % Modulus # headCounter)
  /\ UNCHANGED <<data, counters, cachedTailCounter, producer, batch, single, unwritten,
                 consumerVars>>

-----------------------------------------------------------------------------
(* Both versions of pop.                                                    *)
PopBegin ==
  /\ consumer = "idle"
  /\ consumer' = IF cachedHeadCounter # tailCounter THEN "read" ELSE "reload"
  /\ UNCHANGED <<data, counters, producerVars, cachedHeadCounter, consumerSeen, val, delivered,
                 sawData>>

PopReload ==
  /\ consumer = "reload"
  /\ \E h \in Loads(headCounter, consumerSeen) :
       /\ cachedHeadCounter' = h
       /\ consumerSeen' = h
       /\ IF h # tailCounter
          THEN consumer' = "read" /\ UNCHANGED sawData
          ELSE consumer' = "idle" /\ sawData' = FALSE
  /\ UNCHANGED <<data, counters, producerVars, val, delivered>>

ReadElement ==
  /\ consumer = "read"
  /\ val' = data[tailCounter % N]
  /\ consumer' = "advance"
  /\ UNCHANGED <<data, counters, producerVars, cachedHeadCounter, consumerSeen, delivered,
                 sawData>>

(* advanceTail frees the slot; pop returns the element.                     *)
AdvanceTail ==
  /\ consumer = "advance"
  /\ tailCounter' = (tailCounter + 1) % Modulus
  /\ delivered' = val
  /\ val' = NoValue
  /\ consumer' = "idle"
  /\ sawData' = FALSE
  /\ UNCHANGED <<data, headCounter, producerVars, cachedHeadCounter, consumerSeen>>

(* empty, called by the consumer.                                           *)
Empty ==
  /\ consumer = "idle"
  /\ \E h \in Loads(headCounter, consumerSeen) :
       /\ consumerSeen' = h
       /\ sawData' = (tailCounter # h)
  /\ UNCHANGED <<data, counters, producerVars, cachedHeadCounter, consumer, val, delivered>>

-----------------------------------------------------------------------------
ProducerNext ==
  \/ \E b \in BatchSeqs, isSingle \in BOOLEAN : PushBegin(b, isSingle)
  \/ PushReload \/ WriteElement \/ AdvanceHead \/ Full

ConsumerNext == PopBegin \/ PopReload \/ ReadElement \/ AdvanceTail \/ Empty

Next == ProducerNext \/ ConsumerNext

Spec == Init /\ [][Next]_vars

-----------------------------------------------------------------------------
(* Going round the counters: tail, what the consumer believes to be the     *)
(* head, the head, and the end of the room the producer believes to have.   *)
(* Everything else rests on this order; it is what allows the tests for     *)
(* room and for data to be tests for equality.                              *)
CountersOrdered ==
  LET occupied == Ahead(headCounter, tailCounter)
  IN  /\ occupied <= N
      /\ Ahead(cachedHeadCounter, tailCounter) <= Ahead(consumerSeen, tailCounter)
      /\ Ahead(consumerSeen, tailCounter) <= occupied
      /\ Ahead(headCounter, producerSeen) <= Ahead(headCounter, cachedTailCounter)
      /\ Ahead(headCounter, cachedTailCounter) <= N
      /\ occupied <= Ahead(headCounter, producerSeen)

(* A batch is only written over slots whose elements the consumer has       *)
(* handed back, by an advance of the tail that the producer has acquired;   *)
(* and the consumer reads only what the producer has published by an        *)
(* advance of the head that the consumer has acquired.  So no slot is read  *)
(* and written at the same time, and none is read before its write is       *)
(* visible.                                                                 *)
NoDataRace ==
  /\ producer = "write" => Ahead(headCounter, cachedTailCounter) + Len(batch) <= N
  /\ consumer \in {"read", "advance"} => Ahead(cachedHeadCounter, tailCounter) > 0
  /\ producer = "write" /\ consumer = "read" =>
       \A i \in unwritten : Slot(i) # tailCounter % N

(* The number occupancy() computes is between 0 and N when the producer or  *)
(* the consumer calls it, whichever values its two loads return: the        *)
(* difference does not wrap (the tests assert this).                        *)
OccupancyInRange ==
  /\ \A t \in Loads(tailCounter, producerSeen) : Ahead(headCounter, t) <= N
  /\ \A h \in Loads(headCounter, consumerSeen) : Ahead(h, tailCounter) <= N

(* full() returning false promises the producer that its next push(value)   *)
(* succeeds, and empty() returning false promises the consumer that its     *)
(* next pop does (as the tests use them).                                   *)
SawIsKept ==
  [][ /\ sawRoom /\ single /\ producer = "reload" => producer' = "write" \/ UNCHANGED producer
      /\ sawData /\ consumer = "reload" => consumer' = "read" \/ UNCHANGED consumer ]_vars

(* The cached counters never cause a refusal: when push has loaded the      *)
(* current tail, and pop the current head, it returns false only if the     *)
(* batch does not fit, or the buffer is empty.                              *)
RefusedOnlyIfFull ==
  [][ /\ producer = "reload" /\ producer' = "idle" /\ producerSeen' = tailCounter =>
           Ahead(headCounter, tailCounter) + Len(batch) > N
      /\ consumer = "reload" /\ consumer' = "idle" /\ consumerSeen' = headCounter =>
           headCounter = tailCounter ]_vars

(* A batch longer than the buffer is refused (as the tests assert).         *)
OversizedRefused == producer = "write" => Len(batch) <= N

(* The elements between the counters.                                       *)
Contents ==
  [i \in 1 .. Ahead(headCounter, tailCounter) |-> data[((tailCounter + i - 1) % Modulus) % N]]

Channel == INSTANCE SpscChannel WITH
             Capacity <- N, Batches <- Batches \cup {1},
             queue <- Contents, request <- batch

(* The ring buffer is a bounded queue: what is pushed is what arrives,      *)
(* nothing is lost, duplicated, reordered or torn, and a batch appears at   *)
(* once.                                                                    *)
IsChannel == Channel!Spec
=============================================================================
