---------------------- MODULE EarliestDeadlineFirstProofs ----------------------
(***************************************************************************)
(* Theorems about EarliestDeadlineFirst for any number of symbols and any   *)
(* frequencies: the table stays within one entry of the ideal distribution  *)
(* at every length, and the generator never runs out of eligible symbols.   *)
(* With the frequencies of ChannelTable the work is shared as the           *)
(* multiplicities say.                                                      *)
(*                                                                         *)
(* The argument is the usual one for serving the earliest deadline first,  *)
(* turned into an invariant. For a time d in the future, the occurrences   *)
(* that are due by d and have not been placed must fit into the entries i  *)
(* .. d - 1 (InTime). Placing one of them uses one entry. If instead the   *)
(* entry goes to a symbol that is due later, then no eligible symbol has   *)
(* an occurrence due by d, and the others, which are ahead of their share, *)
(* have together less than the remaining entries to ask for.               *)
(***************************************************************************)
EXTENDS ChannelTable, SumTheorems, Sequences

-----------------------------------------------------------------------------
(* Arithmetic *)

(* Division rounds down. *)
LEMMA DivBounds ==
  ASSUME NEW x \in Nat, NEW n \in Nat \ {0}
  PROVE  /\ x \div n \in Nat
         /\ (x \div n) * n <= x
         /\ x < (x \div n) * n + n
OBVIOUS

(* A product is monotone, strictly in a factor whose partner is positive.   *)
LEMMA ProductOrder ==
  ASSUME NEW a \in Int, NEW b \in Int, NEW n \in Nat
  PROVE  /\ a <= b => n * a <= n * b
         /\ a < b /\ n > 0 => n * a < n * b
         /\ n * a < n * b => a < b
         /\ n * a <= n * b /\ n > 0 => a <= b
OBVIOUS

FrequenciesType == frequencies \in [Symbols -> Nat \ {0}]

(* The table has as many entries as the frequencies say, and at least one.  *)
LEMMA TableSizeType ==
  ASSUME FrequenciesType
  PROVE  /\ TableSize \in Nat \ {0} /\ Limit \in Nat /\ TableSize < Limit
         /\ \A c \in Symbols : frequencies[c] \in Nat \ {0} /\ frequencies[c] <= TableSize
<1> USE BoundsAssumption
<1>1. frequencies \in [0 .. M - 1 -> Int] /\ \A c \in 0 .. M - 1 : frequencies[c] >= 1
  BY DEF FrequenciesType, Symbols
<1>2. TableSize \in Int /\ \A c \in 0 .. M - 1 : frequencies[c] <= TableSize
  BY <1>1, SumType, SumBounds, SMTT(40) DEF TableSize
<1>3. 0 \in 0 .. M - 1
  OBVIOUS
<1>4. TableSize >= 1
  BY <1>1, <1>2, <1>3
<1> QED BY <1>1, <1>2, <1>4 DEF Limit, Symbols

(* A share is what the symbol's frequency and the length say, rounded down. *)
LEMMA ShareBounds ==
  ASSUME FrequenciesType, NEW c \in Symbols, NEW n \in Nat
  PROVE  /\ Share(c, n) \in Nat
         /\ Share(c, n) * TableSize <= frequencies[c] * n
         /\ frequencies[c] * n < Share(c, n) * TableSize + TableSize
<1>1. TableSize \in Nat \ {0} /\ frequencies[c] \in Nat
  BY TableSizeType
<1>2. frequencies[c] * n \in Nat
  BY <1>1
<1> QED BY <1>1, <1>2, DivBounds DEF Share

(* Shares grow with the length. *)
LEMMA ShareOrder ==
  ASSUME FrequenciesType, NEW c \in Symbols, NEW n \in Nat, NEW k \in Nat, n <= k
  PROVE  Share(c, n) <= Share(c, k)
<1> DEFINE T == TableSize
           f == frequencies[c]
           p == Share(c, n)
           q == Share(c, k)
<1>1. T \in Nat \ {0} /\ f \in Nat
  BY TableSizeType
<1>2. p \in Nat /\ q \in Nat /\ p * T <= f * n /\ f * k < q * T + T
  BY ShareBounds
<1> HIDE DEF T, f, p, q
<1>3. f * n <= f * k
  BY <1>1, ProductOrder
<1>4. f * n \in Int /\ f * k \in Int /\ p * T \in Int /\ q * T \in Int
  BY <1>1, <1>2
<1>5. T * p < T * (q + 1)
  BY <1>1, <1>2, <1>3, <1>4
<1>6. p < q + 1
  BY <1>1, <1>2, <1>5, ProductOrder
<1>7. p <= q
  BY <1>2, <1>6
<1> QED BY <1>7 DEF p, q

(* Over the whole table a symbol is owed its frequency, and less before. *)
LEMMA ShareWhole ==
  ASSUME FrequenciesType, NEW c \in Symbols
  PROVE  /\ Share(c, TableSize) = frequencies[c]
         /\ \A n \in Nat : n < TableSize => Share(c, n) < frequencies[c]
<1> DEFINE T == TableSize
           f == frequencies[c]
<1>1. T \in Nat \ {0} /\ f \in Nat \ {0}
  BY TableSizeType
<1>2. Share(c, T) \in Nat /\ Share(c, T) * T <= f * T /\ f * T < Share(c, T) * T + T
  BY <1>1, ShareBounds
<1>3. ASSUME NEW n \in Nat, n < T
      PROVE  Share(c, n) < f
  <2> DEFINE p == Share(c, n)
  <2>1. p \in Nat /\ p * T <= f * n
    BY ShareBounds
  <2> HIDE DEF T, f, p
  <2>2. f * n < f * T
    BY <1>1, <1>3, ProductOrder
  <2>3. T * p < T * f
    <3>1. f * n \in Int /\ f * T \in Int /\ p * T \in Int
      BY <1>1, <2>1
    <3> QED BY <1>1, <2>1, <2>2, <3>1
  <2>4. p < f
    BY <1>1, <2>1, <2>3, ProductOrder
  <2> QED BY <2>4 DEF p
<1>4. Share(c, T) = f
  <2> DEFINE p == Share(c, T)
  <2>1. p \in Nat /\ p * T <= f * T /\ f * T < p * T + T
    BY <1>2
  <2> HIDE DEF T, f, p
  <2>2. T * p <= T * f /\ T * f < T * (p + 1)
    <3>1. p * T \in Int /\ f * T \in Int
      BY <1>1, <2>1
    <3> QED BY <1>1, <2>1, <3>1
  <2>3. p <= f /\ f < p + 1
    BY <1>1, <2>1, <2>2, ProductOrder
  <2>4. p = f
    BY <1>1, <2>1, <2>3
  <2> QED BY <2>4 DEF p
<1> QED BY <1>3, <1>4
-----------------------------------------------------------------------------
(* The inductive invariant *)

(* Types, with the counts taken as what they count. *)
Types ==
  /\ FrequenciesType
  /\ i \in 0 .. TableSize
  /\ s \in 0 .. M
  /\ u \in 0 .. Limit
  /\ searching \in BOOLEAN
  /\ lower \in 0 .. Limit /\ upper \in 0 .. Limit
  /\ DOMAIN table \in {0 .. i - 1, 0 .. i}
  /\ \A n \in DOMAIN table : table[n] \in Symbols
  /\ numAllocs \in [Symbols -> Nat]

(* The entries below i are settled; i of them have been counted. *)
Counted ==
  /\ \A c \in Symbols : numAllocs[c] = Occurrences(c)
  /\ SumTo(numAllocs, M) = i

(* No symbol is an entry ahead. *)
NotAhead == \A c \in Symbols : (numAllocs[c] - 1) * TableSize < frequencies[c] * i

(* What symbol c still has to be given before entry d *)
Due(c, d) ==
  IF Share(c, d) > numAllocs[c] THEN Share(c, d) - numAllocs[c] ELSE 0
Dues(d) == [c \in Symbols |-> Due(c, d)]

(* What is due by any time fits into the entries before it. *)
InTime == \A d \in Nat : d >= i => SumTo(Dues(d), M) <= d - i

(* Symbol c is not due before its deadline n. *)
NotDueBefore(c, n) == \A k \in Nat : k < n => Share(c, k) < numAllocs[c] + 1

(* Of the symbols looked at so far, none may have the entry if u is still   *)
(* Limit; otherwise the one that has it may have it and is due at u, and    *)
(* none of the others that may have it is due before u.                     *)
Scanned ==
  /\ u = Limit => \A c \in Symbols : c < s => ~ Eligible(c)
  /\ u # Limit =>
       /\ u <= TableSize
       /\ i \in DOMAIN table /\ Eligible(table[i])
       /\ Share(table[i], u) >= numAllocs[table[i]] + 1
       /\ \A c \in Symbols : c < s /\ Eligible(c) => NotDueBefore(c, u)

(* The deadline is between the ends of the interval. *)
Narrowing ==
  searching =>
    /\ i < TableSize /\ s \in Symbols /\ Eligible(s)
    /\ lower <= upper /\ upper <= u
    /\ Share(s, upper) >= numAllocs[s] + 1
    /\ NotDueBefore(s, lower)

IInv == Types /\ Counted /\ NotAhead /\ InTime /\ Scanned /\ Narrowing

-----------------------------------------------------------------------------
(* Consequences of the invariant *)

LEMMA DuesType ==
  ASSUME Types, NEW d \in Nat
  PROVE  /\ Dues(d) \in [0 .. M - 1 -> Int]
         /\ \A c \in Symbols : Dues(d)[c] = Due(c, d) /\ Due(c, d) \in Nat
<1>1. ASSUME NEW c \in Symbols PROVE Due(c, d) \in Nat
  <2>1. Share(c, d) \in Nat /\ numAllocs[c] \in Nat
    BY ShareBounds DEF Types
  <2> QED BY <2>1 DEF Due
<1> QED BY <1>1 DEF Dues, Symbols

(* What is due by now has been given. *)
LEMMA NobodyLate ==
  ASSUME Types, InTime, NEW c \in Symbols
  PROVE  numAllocs[c] >= Share(c, i)
<1> USE BoundsAssumption
<1>1. i \in Nat /\ M \in Nat
  BY DEF Types
<1>2. /\ Dues(i) \in [0 .. M - 1 -> Int]
      /\ \A b \in Symbols : Dues(i)[b] = Due(b, i) /\ Due(b, i) \in Nat
  BY <1>1, DuesType
<1>3. SumTo(Dues(i), M) \in Int /\ SumTo(Dues(i), M) <= i - i
  BY <1>1, <1>2, SumType DEF InTime
<1>4. Due(c, i) <= SumTo(Dues(i), M)
  <2>1. \A b \in 0 .. M - 1 : Dues(i)[b] >= 0
    BY <1>2 DEF Symbols
  <2> HIDE DEF Dues
  <2>2. \A b \in 0 .. M - 1 : SumTo(Dues(i), M) >= Dues(i)[b]
    BY <1>1, <1>2, <2>1, SumBounds
  <2> QED BY <1>2, <2>2 DEF Symbols
<1>5. Share(c, i) \in Nat /\ numAllocs[c] \in Nat
  BY <1>1, ShareBounds DEF Types
<1>6. Due(c, i) <= 0
  BY <1>1, <1>2, <1>3, <1>4
<1> QED BY <1>5, <1>6 DEF Due

(* A symbol that may not have the entry is ahead of its share. *)
LEMMA IneligibleAhead ==
  ASSUME Types, InTime, NEW c \in Symbols, ~ Eligible(c)
  PROVE  /\ numAllocs[c] >= Share(c, i) + 1
         /\ frequencies[c] * i < numAllocs[c] * TableSize
<1> DEFINE T == TableSize
           f == frequencies[c]
           p == Share(c, i)
           a == numAllocs[c]
           n == i
<1>1. T \in Nat \ {0} /\ f \in Nat /\ a \in Nat /\ n \in Nat
  BY TableSizeType DEF Types
<1>2. p \in Nat /\ f * n < p * T + T
  BY <1>1, ShareBounds DEF Types
<1>3. a >= p + 1
  BY <1>1, <1>2, NobodyLate DEF Eligible
<1> HIDE DEF T, f, p, a, n
<1>4. T * (p + 1) <= T * a
  BY <1>1, <1>2, <1>3, ProductOrder
<1>5. f * n \in Int /\ T * p \in Int /\ T * a \in Int /\ T * (p + 1) = T * p + T
      /\ p * T = T * p /\ a * T = T * a
  BY <1>1, <1>2
<1>6. f * n < a * T
  BY <1>1, <1>2, <1>4, <1>5
<1> QED BY <1>3, <1>6 DEF T, f, p, a, n

(* A symbol that may have the entry has not had all its occurrences. *)
LEMMA EligibleNotFull ==
  ASSUME Types, i < TableSize, NEW c \in Symbols, Eligible(c)
  PROVE  Share(c, TableSize) >= numAllocs[c] + 1
<1>1. Share(c, TableSize) = frequencies[c] /\ Share(c, i) < frequencies[c]
  BY ShareWhole, TableSizeType DEF Types
<1>2. frequencies[c] \in Nat /\ numAllocs[c] \in Nat
  BY TableSizeType DEF Types
<1> QED BY <1>1, <1>2 DEF Eligible

(* Some symbol may have the next entry: if all were ahead of their share,   *)
(* more entries would have been settled than there are.                     *)
LEMMA SomeEligible ==
  ASSUME Types, Counted, InTime
  PROVE  \E c \in Symbols : Eligible(c)
<1> USE BoundsAssumption
<1> SUFFICES ASSUME \A c \in Symbols : ~ Eligible(c)
             PROVE  FALSE
  OBVIOUS
<1>1. /\ TableSize \in Nat \ {0} /\ i \in Nat
      /\ \A c \in Symbols : frequencies[c] \in Nat /\ numAllocs[c] \in Nat
  BY TableSizeType DEF Types
<1>2. numAllocs \in [0 .. M - 1 -> Int] /\ frequencies \in [0 .. M - 1 -> Int]
  BY DEF Types, FrequenciesType, Symbols
<1>3. \A c \in 0 .. M - 1 : i * frequencies[c] < TableSize * numAllocs[c]
  <2>1. ASSUME NEW c \in Symbols PROVE i * frequencies[c] < TableSize * numAllocs[c]
    <3>1. frequencies[c] * i < numAllocs[c] * TableSize
      BY IneligibleAhead
    <3>2. frequencies[c] * i = i * frequencies[c] /\ numAllocs[c] * TableSize = TableSize * numAllocs[c]
      BY <1>1
    <3> QED BY <3>1, <3>2
  <2> QED BY <2>1 DEF Symbols
<1>4. i * SumTo(frequencies, M) < TableSize * SumTo(numAllocs, M)
  <2>1. M \in Nat \ {0} /\ i \in Int /\ TableSize \in Int
    BY <1>1
  <2> QED BY <2>1, <1>2, <1>3, SumWeighted
<1>5. i * TableSize < TableSize * i
  BY <1>4 DEF Counted, TableSize
<1> QED BY <1>1, <1>5

-----------------------------------------------------------------------------
(* The invariant holds initially: over any length the shares sum to no more *)
(* than the length.                                                         *)
LEMMA StartInv == FrequenciesType /\ Start => IInv
<1> USE BoundsAssumption
<1> SUFFICES ASSUME FrequenciesType, Start PROVE IInv
  OBVIOUS
<1>1. FrequenciesType /\ Start
  OBVIOUS
<1>2. /\ TableSize \in Nat \ {0} /\ Limit \in Nat
      /\ \A c \in Symbols : frequencies[c] \in Nat \ {0}
  BY <1>1, TableSizeType
<1>3. i = 0 /\ s = 0 /\ u = Limit /\ searching = FALSE /\ lower = 0 /\ upper = 0
  BY <1>1 DEF Start
<1>4. numAllocs = [c \in Symbols |-> 0] /\ table = [n \in {} |-> 0]
  BY <1>1 DEF Start
<1>5. Types
  <2>1. DOMAIN table = {} /\ 0 .. i - 1 = {}
    BY <1>3, <1>4
  <2>2. numAllocs \in [Symbols -> Nat]
    BY <1>4
  <2>3. /\ i \in 0 .. TableSize /\ s \in 0 .. M /\ u \in 0 .. Limit
        /\ lower \in 0 .. Limit /\ upper \in 0 .. Limit
    <3> HIDE DEF TableSize, Limit
    <3> QED BY <1>2, <1>3
  <2>4. searching \in BOOLEAN
    BY <1>3
  <2> QED BY <1>1, <2>1, <2>2, <2>3, <2>4 DEF Types
<1>6. Counted
  <2>1. \A c \in Symbols : Occurrences(c) = 0
    <3>1. \A c : {n \in 0 .. i - 1 : table[n] = c} = {}
      BY <1>3
    <3> QED BY <3>1, FS_EmptySet DEF Occurrences
  <2>2. numAllocs \in [0 .. M - 1 -> Int] /\ \A c \in 0 .. M - 1 : numAllocs[c] = 0
    BY <1>4 DEF Symbols
  <2>3. SumTo(numAllocs, M) = 0
    BY <2>2, SumZero
  <2> QED BY <1>3, <1>4, <2>1, <2>3 DEF Counted
<1>7. NotAhead
  BY <1>2, <1>3, <1>4 DEF NotAhead
<1>8. InTime
  <2> SUFFICES ASSUME NEW d \in Nat PROVE SumTo(Dues(d), M) <= d
    BY <1>3 DEF InTime
  <2>1. Dues(d) \in [0 .. M - 1 -> Int] /\ frequencies \in [0 .. M - 1 -> Int]
    <3>1. Dues(d) \in [0 .. M - 1 -> Int]
      BY <1>5, DuesType
    <3>2. frequencies \in [0 .. M - 1 -> Int]
      BY <1>1 DEF FrequenciesType, Symbols
    <3> QED BY <3>1, <3>2
  <2>2. \A c \in 0 .. M - 1 : TableSize * Dues(d)[c] <= d * frequencies[c]
    <3>1. ASSUME NEW c \in Symbols PROVE TableSize * Dues(d)[c] <= d * frequencies[c]
      <4>1. /\ Dues(d)[c] = Due(c, d) /\ Due(c, d) = Share(c, d) /\ Share(c, d) \in Nat
            /\ Share(c, d) * TableSize <= frequencies[c] * d
        <5>1. Share(c, d) \in Nat /\ Share(c, d) * TableSize <= frequencies[c] * d
          BY <1>1, ShareBounds
        <5>2. Due(c, d) = Share(c, d)
          BY <5>1, <1>4 DEF Due
        <5> QED BY <5>1, <5>2 DEF Dues
      <4>2. Share(c, d) * TableSize = TableSize * Share(c, d) /\ frequencies[c] * d = d * frequencies[c]
        BY <4>1, <1>2
      <4> QED BY <4>1, <4>2
    <3> QED BY <3>1 DEF Symbols
  <2>3. TableSize * SumTo(Dues(d), M) <= d * SumTo(frequencies, M)
    <3>1. TableSize \in Int /\ d \in Int
      BY <1>2
    <3> HIDE DEF Dues
    <3> QED BY <3>1, <2>1, <2>2, SumWeighted
  <2>4. TableSize * SumTo(Dues(d), M) <= TableSize * d
    <3>1. d * TableSize = TableSize * d
      BY <1>2
    <3> QED BY <3>1, <2>3 DEF TableSize
  <2>5. SumTo(Dues(d), M) \in Int
    BY <2>1, SumType
  <2> QED BY <1>2, <2>4, <2>5, ProductOrder
<1>9. Scanned /\ Narrowing
  BY <1>3 DEF Scanned, Narrowing, Symbols
<1> QED BY <1>5, <1>6, <1>7, <1>8, <1>9 DEF IInv

(* A step that settles no entry leaves what concerns settled entries alone. *)
LEMMA SettledUnchanged ==
  ASSUME IInv, UNCHANGED <<frequencies, numAllocs, i>>,
         \A n \in 0 .. i - 1 : table'[n] = table[n]
  PROVE  /\ TableSize' = TableSize /\ Limit' = Limit
         /\ \A c, n : Share(c, n)' = Share(c, n)
         /\ \A c : Eligible(c)' = Eligible(c)
         /\ \A c, n : NotDueBefore(c, n)' = NotDueBefore(c, n)
         /\ Counted' /\ NotAhead' /\ InTime'
<1>1. TableSize' = TableSize
  BY DEF TableSize
<1>2. \A c, n : Share(c, n)' = Share(c, n)
  BY <1>1 DEF Share
<1>3. \A c : Eligible(c)' = Eligible(c)
  BY <1>2 DEF Eligible
<1>4. \A c, n : NotDueBefore(c, n)' = NotDueBefore(c, n)
  BY <1>2 DEF NotDueBefore
<1>5. Counted'
  <2>1. \A c : {n \in 0 .. i - 1 : table[n] = c}' = {n \in 0 .. i - 1 : table[n] = c}
    OBVIOUS
  <2>2. \A c \in Symbols : Occurrences(c)' = Occurrences(c)
    BY <2>1 DEF Occurrences
  <2> QED BY <2>2 DEF IInv, Counted
<1>6. NotAhead'
  BY <1>1 DEF IInv, NotAhead
<1>7. InTime'
  <2>1. \A c, d : Due(c, d)' = Due(c, d)
    BY <1>2 DEF Due
  <2>2. \A d : Dues(d)' = Dues(d)
    BY <2>1 DEF Dues
  <2> QED BY <2>2 DEF IInv, InTime
<1>8. Limit' = Limit
  BY <1>1 DEF Limit
<1> QED BY <1>1, <1>2, <1>3, <1>4, <1>5, <1>6, <1>7, <1>8

(* A symbol's deadline is not before n if its share at n is not enough.     *)
LEMMA NotYetDue ==
  ASSUME Types, NEW c \in Symbols, NEW n \in Nat, Share(c, n) <= numAllocs[c]
  PROVE  NotDueBefore(c, n + 1)
<1> SUFFICES ASSUME NEW k \in Nat, k < n + 1 PROVE Share(c, k) < numAllocs[c] + 1
  BY DEF NotDueBefore
<1>1. Share(c, k) <= Share(c, n)
  BY ShareOrder DEF Types
<1>2. Share(c, k) \in Nat /\ Share(c, n) \in Nat /\ numAllocs[c] \in Nat
  BY ShareBounds DEF Types
<1> QED BY <1>1, <1>2

LEMMA SkipInv == IInv /\ Skip => IInv'
<1> USE BoundsAssumption
<1> SUFFICES ASSUME IInv, Skip PROVE IInv'
  OBVIOUS
<1>1. /\ s' = s + 1 /\ i < TableSize /\ s \in Symbols /\ ~ searching
      /\ ~ (Eligible(s) /\ NotLater(s))
      /\ UNCHANGED <<frequencies, table, numAllocs, i, u, searching, lower, upper>>
  BY DEF Skip, Scanning, interval
<1>2. /\ TableSize' = TableSize /\ Limit' = Limit
      /\ \A c, n : Share(c, n)' = Share(c, n)
      /\ \A c : Eligible(c)' = Eligible(c)
      /\ \A c, n : NotDueBefore(c, n)' = NotDueBefore(c, n)
      /\ Counted' /\ NotAhead' /\ InTime'
  BY <1>1, SettledUnchanged
<1>3. Types /\ Scanned
  BY DEF IInv
<1>4. Types'
  <2>1. s' \in 0 .. M
    BY <1>1 DEF Symbols
  <2> QED BY <1>1, <1>2, <1>3, <2>1 DEF Types, FrequenciesType
<1>5. Scanned'
  <2>1. \A c \in Symbols : c < s' => c < s \/ c = s
    BY <1>1 DEF Symbols
  <2>2. CASE u = Limit
    <3>1. ~ Eligible(s)
      BY <1>1, <2>2 DEF NotLater
    <3>2. \A c \in Symbols : c < s' => ~ Eligible(c)
      BY <1>3, <2>1, <2>2, <3>1 DEF Scanned
    <3> QED BY <1>1, <1>2, <2>2, <3>2 DEF Scanned
  <2>3. CASE u # Limit
    <3>1. u \in Nat /\ numAllocs[s] \in Nat /\ Share(s, u) \in Nat
      <4>1. u \in Nat
        BY <1>3, TableSizeType DEF Types
      <4> QED BY <1>1, <1>3, <4>1, ShareBounds DEF Types
    <3>2. Eligible(s) => NotDueBefore(s, u)
      <4>1. Eligible(s) => Share(s, u) <= numAllocs[s]
        BY <1>1, <3>1 DEF NotLater
      <4>2. Share(s, u) <= numAllocs[s] => NotDueBefore(s, u + 1)
        BY <1>1, <1>3, <3>1, NotYetDue
      <4>3. NotDueBefore(s, u + 1) => NotDueBefore(s, u)
        BY <3>1 DEF NotDueBefore
      <4> QED BY <4>1, <4>2, <4>3
    <3>3. \A c \in Symbols : c < s' /\ Eligible(c) => NotDueBefore(c, u)
      BY <1>3, <2>1, <2>3, <3>2 DEF Scanned
    <3>4. /\ u <= TableSize /\ i \in DOMAIN table /\ Eligible(table[i])
          /\ Share(table[i], u) >= numAllocs[table[i]] + 1
      BY <1>3, <2>3 DEF Scanned
    <3> QED BY <1>1, <1>2, <2>3, <3>3, <3>4 DEF Scanned
  <2> QED BY <2>2, <2>3
<1>6. Narrowing'
  BY <1>1 DEF Narrowing
<1> QED BY <1>2, <1>4, <1>5, <1>6 DEF IInv

LEMMA BeginSearchInv == IInv /\ BeginSearch => IInv'
<1> USE BoundsAssumption
<1> SUFFICES ASSUME IInv, BeginSearch PROVE IInv'
  OBVIOUS
<1>1. /\ i < TableSize /\ s \in Symbols /\ Eligible(s) /\ NotLater(s)
      /\ searching' = TRUE /\ lower' = i /\ upper' = u
      /\ UNCHANGED <<frequencies, table, numAllocs, i, s, u>>
  BY DEF BeginSearch, Scanning, scan
<1>2. /\ TableSize' = TableSize /\ Limit' = Limit
      /\ \A c, n : Share(c, n)' = Share(c, n)
      /\ \A c : Eligible(c)' = Eligible(c)
      /\ \A c, n : NotDueBefore(c, n)' = NotDueBefore(c, n)
      /\ Counted' /\ NotAhead' /\ InTime'
  BY <1>1, SettledUnchanged
<1>3. Types /\ Scanned
  BY DEF IInv
<1>4. TableSize \in Nat /\ Limit \in Nat /\ TableSize < Limit /\ i \in Nat /\ u \in Nat
  BY <1>3, TableSizeType DEF Types
<1>5. Types'
  <2>1. i \in 0 .. Limit
    BY <1>1, <1>4
  <2> QED BY <1>1, <1>2, <1>3, <2>1 DEF Types, FrequenciesType
<1>6. Scanned'
  BY <1>1, <1>2, <1>3 DEF Scanned
<1>7. i <= u
  <2>1. CASE u = Limit
    BY <2>1, <1>1, <1>4
  <2>2. CASE u # Limit
    <3> DEFINE b == table[i]
    <3>1. b \in Symbols /\ numAllocs[b] = Share(b, i) /\ Share(b, u) >= numAllocs[b] + 1
      BY <1>3, <2>2 DEF Scanned, Types, Eligible
    <3>2. u < i => Share(b, u) <= Share(b, i)
      BY <3>1, <1>3, <1>4, ShareOrder DEF Types
    <3>3. Share(b, u) \in Nat /\ Share(b, i) \in Nat
      BY <3>1, <1>3, <1>4, ShareBounds DEF Types
    <3> QED BY <3>1, <3>2, <3>3, <1>4
  <2> QED BY <2>1, <2>2
<1>8. Share(s, u) >= numAllocs[s] + 1
  <2>1. CASE u = Limit
    <3>1. Share(s, TableSize) >= numAllocs[s] + 1
      BY <1>1, <1>3, EligibleNotFull
    <3>2. Share(s, TableSize) <= Share(s, Limit)
      BY <1>1, <1>3, <1>4, ShareOrder DEF Types
    <3>3. Share(s, TableSize) \in Nat /\ Share(s, Limit) \in Nat /\ numAllocs[s] \in Nat
      BY <1>1, <1>3, <1>4, ShareBounds DEF Types
    <3> QED BY <2>1, <3>1, <3>2, <3>3
  <2>2. CASE u # Limit
    BY <2>2, <1>1 DEF NotLater
  <2> QED BY <2>1, <2>2
<1>9. NotDueBefore(s, i)
  <2>1. Share(s, i) <= numAllocs[s] /\ numAllocs[s] \in Nat
    BY <1>1, <1>3 DEF Eligible, Types
  <2>2. NotDueBefore(s, i + 1)
    BY <2>1, <1>1, <1>3, <1>4, NotYetDue
  <2> QED BY <2>2, <1>4 DEF NotDueBefore
<1>10. Narrowing'
  <2>1. /\ i < TableSize /\ s \in Symbols /\ Eligible(s) /\ i <= u /\ u <= u
        /\ Share(s, u) >= numAllocs[s] + 1 /\ NotDueBefore(s, i)
    BY <1>1, <1>4, <1>7, <1>8, <1>9
  <2>2. /\ (i < TableSize)' /\ (s \in Symbols)' /\ Eligible(s)'
        /\ lower' <= upper' /\ upper' <= u'
        /\ (Share(s, upper) >= numAllocs[s] + 1)' /\ NotDueBefore(s, lower)'
    BY <1>1, <1>2, <2>1 DEF Symbols, Share, Eligible, NotDueBefore
  <2> QED BY <2>2 DEF Narrowing
<1> QED BY <1>2, <1>5, <1>6, <1>10 DEF IInv

LEMMA HalveInv == IInv /\ Halve => IInv'
<1> USE BoundsAssumption
<1> SUFFICES ASSUME IInv, Halve PROVE IInv'
  OBVIOUS
<1>1. /\ searching /\ lower < upper
      /\ UNCHANGED <<frequencies, table, numAllocs, i, s, u, searching>>
  BY DEF Halve, scan
<1>2. /\ TableSize' = TableSize /\ Limit' = Limit
      /\ \A c, n : Share(c, n)' = Share(c, n)
      /\ \A c : Eligible(c)' = Eligible(c)
      /\ \A c, n : NotDueBefore(c, n)' = NotDueBefore(c, n)
      /\ Counted' /\ NotAhead' /\ InTime'
  BY <1>1, SettledUnchanged
<1>3. Types /\ Scanned
  BY DEF IInv
<1>4. /\ i < TableSize /\ s \in Symbols /\ Eligible(s)
      /\ lower <= upper /\ upper <= u
      /\ Share(s, upper) >= numAllocs[s] + 1
      /\ NotDueBefore(s, lower)
  BY <1>1 DEF IInv, Narrowing
<1>5. Limit \in Nat /\ lower \in Nat /\ upper \in Nat /\ u \in Nat /\ upper <= Limit
  BY <1>3, TableSizeType DEF Types
<1>6. Mid \in Nat /\ lower <= Mid /\ Mid < upper
  BY <1>1, <1>5 DEF Mid
<1>7. /\ lower' \in Nat /\ upper' \in Nat /\ lower' <= upper' /\ upper' <= upper
      /\ Share(s, upper') >= numAllocs[s] + 1
      /\ NotDueBefore(s, lower')
  <2>1. CASE Share(s, Mid) >= numAllocs[s] + 1
    <3>1. upper' = Mid /\ lower' = lower
      BY <2>1 DEF Halve
    <3> QED BY <3>1, <2>1, <1>4, <1>5, <1>6
  <2>2. CASE ~ Share(s, Mid) >= numAllocs[s] + 1
    <3>1. upper' = upper /\ lower' = Mid + 1
      BY <2>2 DEF Halve
    <3>2. Share(s, Mid) <= numAllocs[s]
      <4>1. Share(s, Mid) \in Nat /\ numAllocs[s] \in Nat
        BY <1>3, <1>4, <1>6, ShareBounds DEF Types
      <4> QED BY <4>1, <2>2
    <3>3. NotDueBefore(s, Mid + 1)
      BY <1>3, <1>4, <1>6, <3>2, NotYetDue
    <3> QED BY <3>1, <3>3, <1>4, <1>5, <1>6
  <2> QED BY <2>1, <2>2
<1>8. Types'
  <2>1. lower' \in 0 .. Limit /\ upper' \in 0 .. Limit
    BY <1>5, <1>7
  <2> QED BY <1>1, <1>2, <1>3, <2>1 DEF Types, FrequenciesType
<1>9. Scanned'
  BY <1>1, <1>2, <1>3 DEF Scanned
<1>10. Narrowing'
  <2>1. upper' <= u
    BY <1>4, <1>5, <1>7
  <2>2. /\ Eligible(s)' /\ (Share(s, upper) >= numAllocs[s] + 1)' /\ NotDueBefore(s, lower)'
    BY <1>1, <1>2, <1>4, <1>7 DEF Eligible, Share, NotDueBefore
  <2>3. (i < TableSize)' /\ (s \in Symbols)' /\ lower' <= upper' /\ upper' <= u'
    BY <1>1, <1>2, <1>4, <1>7, <2>1 DEF Symbols
  <2> QED BY <2>2, <2>3 DEF Narrowing
<1> QED BY <1>2, <1>8, <1>9, <1>10 DEF IInv

LEMMA EndSearchInv == IInv /\ EndSearch => IInv'
<1> USE BoundsAssumption
<1> SUFFICES ASSUME IInv, EndSearch PROVE IInv'
  OBVIOUS
<1>1. /\ searching /\ lower >= upper /\ searching' = FALSE /\ s' = s + 1
      /\ UNCHANGED <<frequencies, numAllocs, i, lower, upper>>
  BY DEF EndSearch, interval
<1>2. Types /\ Scanned
  BY DEF IInv
<1>3. /\ i < TableSize /\ s \in Symbols /\ Eligible(s)
      /\ lower <= upper /\ upper <= u
      /\ Share(s, upper) >= numAllocs[s] + 1
      /\ NotDueBefore(s, lower)
  BY <1>1 DEF IInv, Narrowing
<1>4. /\ Limit \in Nat /\ TableSize \in Nat /\ TableSize < Limit
      /\ lower \in Nat /\ upper \in Nat /\ u \in Nat /\ i \in Nat
  BY <1>2, TableSizeType DEF Types
<1>5. NotDueBefore(s, upper)
  <2>1. lower = upper
    BY <1>1, <1>3, <1>4
  <2> QED BY <2>1, <1>3
<1>6. upper <= TableSize
  <2>1. Share(s, TableSize) >= numAllocs[s] + 1
    BY <1>2, <1>3, EligibleNotFull
  <2>2. Share(s, TableSize) \in Nat /\ numAllocs[s] \in Nat
    BY <1>2, <1>3, <1>4, ShareBounds DEF Types
  <2>3. TableSize < upper => Share(s, TableSize) < numAllocs[s] + 1
    BY <1>4, <1>5 DEF NotDueBefore
  <2> QED BY <2>1, <2>2, <2>3, <1>4
<1>7. /\ table' = [n \in DOMAIN table \cup {i} |-> IF n = i THEN s ELSE table[n]]
      /\ u' = upper
  BY <1>3 DEF EndSearch
<1>8. /\ DOMAIN table' = 0 .. i /\ table'[i] = s
      /\ \A n \in DOMAIN table' : table'[n] \in Symbols
      /\ \A n \in 0 .. i - 1 : table'[n] = table[n]
  <2>1. DOMAIN table \in {0 .. i - 1, 0 .. i} /\ \A n \in DOMAIN table : table[n] \in Symbols
    BY <1>2 DEF Types
  <2>2. DOMAIN table \cup {i} = 0 .. i
    BY <2>1, <1>4
  <2>3. DOMAIN table' = 0 .. i /\ table'[i] = s
    BY <1>7, <2>2, <1>4
  <2>4. \A n \in 0 .. i : table'[n] = IF n = i THEN s ELSE table[n]
    BY <1>7, <2>2
  <2>5. \A n \in 0 .. i - 1 : n \in 0 .. i /\ n # i /\ n \in DOMAIN table
    BY <2>1, <1>4
  <2>6. \A n \in 0 .. i : n # i => n \in 0 .. i - 1
    BY <1>4
  <2>7. \A n \in 0 .. i : table'[n] \in Symbols
    BY <2>1, <2>4, <2>5, <2>6, <1>3
  <2> QED BY <2>3, <2>4, <2>5, <2>7
<1>9. /\ TableSize' = TableSize /\ Limit' = Limit
      /\ \A c, n : Share(c, n)' = Share(c, n)
      /\ \A c : Eligible(c)' = Eligible(c)
      /\ \A c, n : NotDueBefore(c, n)' = NotDueBefore(c, n)
      /\ Counted' /\ NotAhead' /\ InTime'
  BY <1>1, <1>8, SettledUnchanged
<1>10. Types'
  <2>1. s' \in 0 .. M /\ u' \in 0 .. Limit
    BY <1>1, <1>3, <1>4, <1>6, <1>7 DEF Symbols
  <2> QED BY <1>1, <1>2, <1>8, <1>9, <2>1 DEF Types, FrequenciesType
<1>11. Scanned'
  <2>1. \A c \in Symbols : c < s' => c < s \/ c = s
    BY <1>1, <1>3 DEF Symbols
  <2>2. \A c \in Symbols : c < s /\ Eligible(c) => NotDueBefore(c, upper)
    <3>1. \A c \in Symbols : c < s /\ Eligible(c) => NotDueBefore(c, u)
      BY <1>2 DEF Scanned
    <3>2. \A c : NotDueBefore(c, u) => NotDueBefore(c, upper)
      BY <1>3, <1>4 DEF NotDueBefore
    <3> QED BY <3>1, <3>2
  <2>3. \A c \in Symbols : c < s' /\ Eligible(c) => NotDueBefore(c, upper)
    BY <2>1, <2>2, <1>5
  <2>4. u' # Limit /\ u' <= TableSize /\ i \in DOMAIN table'
    BY <1>4, <1>6, <1>7, <1>8
  <2>5. Eligible(table[i])' /\ (Share(table[i], u) >= numAllocs[table[i]] + 1)'
    BY <1>1, <1>3, <1>7, <1>8, <1>9 DEF Eligible, Share
  <2>6. (\A c \in Symbols : c < s /\ Eligible(c) => NotDueBefore(c, u))'
    BY <2>3, <1>7, <1>9 DEF Symbols, Eligible, NotDueBefore
  <2>7. i' = i
    BY <1>1
  <2> QED BY <2>4, <2>5, <2>6, <2>7, <1>9 DEF Scanned
<1>12. Narrowing'
  BY <1>1 DEF Narrowing
<1> QED BY <1>9, <1>10, <1>11, <1>12 DEF IInv

(* When the entry has been offered to all symbols, one of them has it.      *)
LEMMA EntryChosen ==
  ASSUME IInv, i < TableSize, s = M
  PROVE  /\ ~ searching
         /\ u \in Nat /\ u # Limit
         /\ i \in DOMAIN table /\ table[i] \in Symbols /\ Eligible(table[i])
         /\ Share(table[i], u) >= numAllocs[table[i]] + 1
         /\ \A c \in Symbols : Eligible(c) => NotDueBefore(c, u)
<1> USE BoundsAssumption
<1>1. Types /\ Counted /\ InTime /\ Scanned /\ Narrowing
  BY DEF IInv
<1>2. \A c \in Symbols : c < s
  BY DEF Symbols
<1>3. u # Limit
  BY <1>1, <1>2, SomeEligible DEF Scanned
<1>4. s \notin Symbols
  BY DEF Symbols
<1>5. ~ searching
  BY <1>1, <1>4 DEF Narrowing
<1>6. u \in Nat
  BY <1>1, TableSizeType DEF Types
<1> QED BY <1>1, <1>2, <1>3, <1>5, <1>6 DEF Scanned, Types

(* The counts follow the entry that is settled. *)
LEMMA CountedNext ==
  ASSUME IInv, NextEntry
  PROVE  Counted' /\ Types'
<1> USE BoundsAssumption
<1> DEFINE b == table[i]
<1>1. /\ i < TableSize /\ s = M /\ i \in DOMAIN table
      /\ numAllocs' = [numAllocs EXCEPT ![b] = @ + 1]
      /\ i' = i + 1 /\ s' = 0 /\ u' = Limit
      /\ UNCHANGED <<frequencies, table, searching, lower, upper>>
  BY DEF NextEntry, interval
<1>2. Types /\ Counted
  BY DEF IInv
<1>3. b \in Symbols /\ i \in Nat /\ TableSize \in Nat /\ Limit \in Nat
  BY <1>1, <1>2, TableSizeType DEF Types
<1>4. /\ numAllocs \in [Symbols -> Nat] /\ numAllocs' \in [Symbols -> Nat]
      /\ numAllocs'[b] = numAllocs[b] + 1
      /\ \A c \in Symbols : c # b => numAllocs'[c] = numAllocs[c]
  <2>1. numAllocs \in [Symbols -> Nat]
    BY <1>2 DEF Types
  <2> HIDE DEF b
  <2> QED BY <2>1, <1>1, <1>3
<1>5. TableSize' = TableSize /\ Limit' = Limit
  BY <1>1 DEF TableSize, Limit
<1>6. Types'
  <2>1. DOMAIN table = 0 .. i
    BY <1>1, <1>2, <1>3 DEF Types
  <2>2. DOMAIN table' = 0 .. i' - 1
    BY <2>1, <1>1, <1>3
  <2>3. i' \in 0 .. TableSize /\ s' \in 0 .. M /\ u' \in 0 .. Limit
    <3> HIDE DEF TableSize, Limit
    <3> QED BY <1>1, <1>3
  <2> QED BY <1>1, <1>2, <1>4, <1>5, <2>2, <2>3 DEF Types, FrequenciesType
<1>7. ASSUME NEW c \in Symbols PROVE (numAllocs[c] = Occurrences(c))'
  <2> DEFINE old == {n \in 0 .. i - 1 : table[n] = c}
             new == {n \in 0 .. i : table[n] = c}
  <2>1. /\ IsFiniteSet(old) /\ i \notin old
        /\ new = IF c = b THEN old \cup {i} ELSE old
    <3>1. IsFiniteSet(0 .. i - 1)
      BY <1>3, FS_Interval
    <3>2. IsFiniteSet(old)
      <4>1. old \subseteq 0 .. i - 1
        OBVIOUS
      <4> HIDE DEF old
      <4> QED BY <3>1, <4>1, FS_Subset
    <3>3. 0 .. i = (0 .. i - 1) \cup {i} /\ i \notin 0 .. i - 1
      BY <1>3
    <3> QED BY <3>2, <3>3
  <2>2. Occurrences(c) = Cardinality(old) /\ Occurrences(c)' = Cardinality(new)
    <3>1. i' - 1 = i /\ table' = table
      BY <1>1, <1>3
    <3> QED BY <3>1 DEF Occurrences
  <2>3. numAllocs[c] = Cardinality(old)
    BY <1>2, <2>2 DEF Counted
  <2> HIDE DEF old, new
  <2>4. c = b => Cardinality(new) = Cardinality(old) + 1
    BY <2>1, FS_AddElement
  <2>5. c # b => Cardinality(new) = Cardinality(old)
    BY <2>1
  <2> QED BY <2>2, <2>3, <2>4, <2>5, <1>4
<1>8. SumTo(numAllocs', M) = i'
  <2>1. numAllocs \in [0 .. M - 1 -> Int] /\ numAllocs' \in [0 .. M - 1 -> Int]
    BY <1>4 DEF Symbols
  <2>2. b \in 0 .. M - 1 /\ \A c \in 0 .. M - 1 : c # b => numAllocs'[c] = numAllocs[c]
    BY <1>3, <1>4 DEF Symbols
  <2>3. SumTo(numAllocs', M) = SumTo(numAllocs, M) + 1
    <3>1. M \in Nat /\ 1 \in Int /\ numAllocs'[b] = numAllocs[b] + 1
      BY <1>4
    <3> HIDE DEF b
    <3> QED BY <2>1, <2>2, <3>1, SumUpdate, ZenonT(60)
  <2> QED BY <2>3, <1>1, <1>2 DEF Counted
<1> QED BY <1>6, <1>7, <1>8 DEF Counted, Symbols

(* A symbol that may have an entry has not had more than its share of the   *)
(* entries before it; the others only grow further behind.                  *)
LEMMA NotAheadNext ==
  ASSUME IInv, NextEntry
  PROVE  NotAhead'
<1> USE BoundsAssumption
<1>1. /\ i < TableSize /\ s = M /\ i' = i + 1
      /\ numAllocs' = [numAllocs EXCEPT ![table[i]] = @ + 1]
      /\ frequencies' = frequencies
  BY DEF NextEntry
<1>2. Types /\ NotAhead /\ table[i] \in Symbols /\ Eligible(table[i])
  BY <1>1, EntryChosen DEF IInv
<1> SUFFICES ASSUME NEW c \in Symbols
             PROVE  (numAllocs'[c] - 1) * TableSize < frequencies[c] * (i + 1)
  <2>1. TableSize' = TableSize
    BY <1>1 DEF TableSize
  <2> QED BY <2>1, <1>1 DEF NotAhead, Symbols
<1> DEFINE T == TableSize
           f == frequencies[c]
           a == numAllocs[c]
           n == i
<1>3. T \in Nat \ {0} /\ f \in Nat \ {0} /\ a \in Nat /\ n \in Nat
  BY <1>2, TableSizeType DEF Types
<1>4. f * n < f * (n + 1) /\ f * n \in Int /\ f * (n + 1) \in Int
  <2> HIDE DEF T, f, a, n
  <2>1. f * (n + 1) = f * n + f /\ f * n \in Int
    BY <1>3
  <2> QED BY <2>1, <1>3
<1>5. CASE c = table[i]
  <2>1. numAllocs'[c] = a + 1
    BY <1>1, <1>2, <1>5 DEF Types
  <2>2. a * T <= f * n
    BY <1>2, <1>3, <1>5, ShareBounds DEF Eligible, Types
  <2> HIDE DEF T, f, a, n
  <2>3. (a + 1) - 1 = a /\ a * T \in Int
    BY <1>3
  <2>4. a * T < f * (n + 1)
    BY <2>2, <2>3, <1>4
  <2> QED BY <2>1, <2>3, <2>4 DEF T, f, n
<1>6. CASE c # table[i]
  <2>1. numAllocs'[c] = a
    BY <1>1, <1>2, <1>6 DEF Types
  <2>2. (a - 1) * T < f * n
    BY <1>2 DEF NotAhead
  <2> HIDE DEF T, f, a, n
  <2>3. (a - 1) * T \in Int
    BY <1>3
  <2>4. (a - 1) * T < f * (n + 1)
    BY <2>2, <2>3, <1>4
  <2> QED BY <2>1, <2>4 DEF T, f, n
<1> QED BY <1>5, <1>6

(* What is due by a later time still fits.                                  *)
LEMMA InTimeNext ==
  ASSUME IInv, NextEntry
  PROVE  InTime'
<1> USE BoundsAssumption
<1>0. PICK b \in Symbols : b = table[i]
  BY EntryChosen DEF NextEntry
<1>1. /\ i < TableSize /\ s = M /\ i' = i + 1
      /\ numAllocs' = [numAllocs EXCEPT ![b] = @ + 1]
      /\ frequencies' = frequencies
  BY <1>0 DEF NextEntry
<1>2. Types /\ InTime
  BY DEF IInv
<1>3. /\ Types' /\ TableSize' = TableSize
      /\ numAllocs \in [Symbols -> Nat] /\ i \in Nat /\ TableSize \in Nat \ {0}
      /\ \A c, n : Share(c, n)' = Share(c, n)
  <2>1. TableSize' = TableSize
    BY <1>1 DEF TableSize
  <2>2. \A c, n : Share(c, n)' = Share(c, n)
    BY <1>1, <2>1 DEF Share
  <2>3. TableSize \in Nat \ {0}
    BY <1>2, TableSizeType DEF Types
  <2>4. Types'
    BY CountedNext
  <2> QED BY <1>2, <2>1, <2>2, <2>3, <2>4, SMTT(40) DEF Types
<1> SUFFICES ASSUME NEW d \in Nat, d >= i + 1
             PROVE  SumTo(Dues(d)', M) <= d - (i + 1)
  BY <1>1 DEF InTime
<1>4. /\ Dues(d) \in [0 .. M - 1 -> Int] /\ Dues(d)' \in [0 .. M - 1 -> Int]
      /\ \A c \in Symbols : Dues(d)[c] = Due(c, d) /\ Due(c, d) \in Nat
      /\ \A c \in Symbols : Dues(d)'[c] = Due(c, d)'
  <2>1. /\ Dues(d) \in [0 .. M - 1 -> Int]
        /\ \A c \in Symbols : Dues(d)[c] = Due(c, d) /\ Due(c, d) \in Nat
    BY <1>2, DuesType
  <2>2. \A c \in Symbols : Dues(d)'[c] = Due(c, d)'
    BY DEF Dues, Symbols
  <2>3. \A c \in Symbols : Due(c, d)' \in Nat
    <3> SUFFICES ASSUME NEW c \in Symbols PROVE Due(c, d)' \in Nat
      OBVIOUS
    <3>1. Share(c, d)' \in Nat /\ numAllocs'[c] \in Nat
      BY <1>2, <1>3, ShareBounds DEF Types, Symbols
    <3> QED BY <3>1 DEF Due
  <2>4. Dues(d)' \in [0 .. M - 1 -> Int]
    <3>1. Dues(d)' = [c \in 0 .. M - 1 |-> Due(c, d)']
      BY DEF Dues, Symbols
    <3>2. \A c \in 0 .. M - 1 : Due(c, d)' \in Int
      BY <2>3 DEF Symbols
    <3> QED BY <3>1, <3>2
  <2> QED BY <2>1, <2>2, <2>4
<1>5. /\ \A c \in Symbols : c # b => Due(c, d)' = Due(c, d)
      /\ Due(b, d)' = IF Share(b, d) > numAllocs[b] + 1 THEN Share(b, d) - (numAllocs[b] + 1) ELSE 0
  <2>1. /\ numAllocs'[b] = numAllocs[b] + 1
        /\ \A c \in Symbols : c # b => numAllocs'[c] = numAllocs[c]
    BY <1>1, <1>3
  <2>2. ASSUME NEW c \in Symbols, c # b PROVE Due(c, d)' = Due(c, d)
    BY <2>1, <2>2, <1>3 DEF Due
  <2>3. Due(b, d)' = IF Share(b, d)' > numAllocs'[b] THEN Share(b, d)' - numAllocs'[b] ELSE 0
    BY DEF Due
  <2> QED BY <2>1, <2>2, <2>3, <1>3
<1>6. SumTo(Dues(d), M) \in Int /\ SumTo(Dues(d)', M) \in Int
  BY <1>4, SumType
<1>7. Share(b, d) \in Nat /\ numAllocs[b] \in Nat
  BY <1>2, <1>3, ShareBounds DEF Types
<1>8. CASE Share(b, d) >= numAllocs[b] + 1
  <2>1. Due(b, d)' = Due(b, d) + (-1)
    BY <1>5, <1>7, <1>8 DEF Due
  <2>2. /\ b \in 0 .. M - 1 /\ -1 \in Int
        /\ Dues(d)'[b] = Dues(d)[b] + (-1)
        /\ \A c \in 0 .. M - 1 : c # b => Dues(d)'[c] = Dues(d)[c]
    <3>1. Dues(d)'[b] = Dues(d)[b] + (-1)
      BY <1>2, <1>4, <2>1
    <3>2. \A c \in Symbols : c # b => Dues(d)'[c] = Dues(d)[c]
      BY <1>4, <1>5
    <3> QED BY <1>2, <3>1, <3>2 DEF Symbols
  <2>3. SumTo(Dues(d)', M) = SumTo(Dues(d), M) + (-1)
    BY <1>4, <2>2, SumUpdate
  <2>4. SumTo(Dues(d), M) <= d - i
    BY <1>2, <1>3 DEF InTime
  <2> QED BY <2>3, <2>4, <1>3, <1>6
<1>9. CASE ~ Share(b, d) >= numAllocs[b] + 1
  <2>1. ASSUME NEW c \in Symbols, Eligible(c)
        PROVE  Share(c, d) <= numAllocs[c]
    <3>1. /\ Share(b, u) >= numAllocs[b] + 1 /\ u \in Nat
          /\ NotDueBefore(c, u)
      BY <1>0, <1>1, <2>1, EntryChosen
    <3>2. u <= d => Share(b, u) <= Share(b, d)
      BY <1>2, <3>1, ShareOrder DEF Types
    <3>3. Share(b, u) \in Nat
      BY <1>2, <3>1, ShareBounds DEF Types
    <3>4. d < u
      BY <1>7, <1>9, <3>1, <3>2, <3>3
    <3>5. Share(c, d) < numAllocs[c] + 1
      BY <3>1, <3>4 DEF NotDueBefore
    <3>6. Share(c, d) \in Nat /\ numAllocs[c] \in Nat
      BY <1>2, <1>3, ShareBounds DEF Types
    <3> QED BY <3>5, <3>6
  <2>2. ASSUME NEW c \in Symbols
        PROVE  TableSize * Due(c, d) < (d - i) * frequencies[c]
    <3> DEFINE T == TableSize
               f == frequencies[c]
               a == numAllocs[c]
               p == Share(c, d)
               n == i
    <3>1. /\ T \in Nat \ {0} /\ f \in Nat \ {0} /\ a \in Nat /\ n \in Nat
          /\ p \in Nat /\ p * T <= f * d /\ d - n \in Nat \ {0}
      <4>1. FrequenciesType /\ TableSize \in Nat \ {0} /\ numAllocs[c] \in Nat /\ i \in Nat
        BY <1>2, <1>3 DEF Types
      <4>2. frequencies[c] \in Nat \ {0}
        BY <4>1, TableSizeType
      <4>3. Share(c, d) \in Nat /\ Share(c, d) * TableSize <= frequencies[c] * d
        BY <4>1, ShareBounds
      <4>4. d - i \in Nat \ {0}
        BY <4>1
      <4> QED BY <4>1, <4>2, <4>3, <4>4
    <3>2. Due(c, d) = IF p > a THEN p - a ELSE 0
      BY DEF Due
    <3>3. ~ Eligible(c) => f * n < a * T
      BY <1>2, IneligibleAhead
    <3>4. Eligible(c) => p <= a
      BY <2>1
    <3> HIDE DEF T, f, a, p, n
    <3>5. 0 < (d - n) * f
      BY <3>1
    <3>6. CASE p > a
      <4>1. f * n < a * T
        BY <3>1, <3>3, <3>4, <3>6
      <4>2. /\ T * (p - a) = p * T - a * T /\ (d - n) * f = f * d - f * n
            /\ p * T \in Int /\ a * T \in Int /\ f * d \in Int /\ f * n \in Int
        BY <3>1
      <4>3. T * (p - a) < (d - n) * f
        BY <3>1, <4>1, <4>2
      <4> QED BY <3>2, <3>6, <4>3 DEF T, f, n
    <3>7. CASE ~ p > a
      <4>1. T * 0 = 0 /\ Due(c, d) = 0
        BY <3>1, <3>2, <3>7
      <4> QED BY <3>5, <4>1 DEF T, f, n
    <3> QED BY <3>6, <3>7
  <2>3. TableSize * SumTo(Dues(d), M) < (d - i) * SumTo(frequencies, M)
    <3>1. \A c \in 0 .. M - 1 : TableSize * Dues(d)[c] < (d - i) * frequencies[c]
      BY <1>4, <2>2 DEF Symbols
    <3>2. M \in Nat \ {0} /\ TableSize \in Int /\ d - i \in Int /\ frequencies \in [0 .. M - 1 -> Int]
      BY <1>2, <1>3 DEF Types, FrequenciesType, Symbols
    <3> QED BY <1>4, <3>1, <3>2, SumWeighted
  <2>4. SumTo(Dues(d), M) < d - i
    <3>1. (d - i) * TableSize = TableSize * (d - i) /\ d - i \in Int
      BY <1>3
    <3>2. TableSize * SumTo(Dues(d), M) < TableSize * (d - i)
      BY <2>3, <3>1 DEF TableSize
    <3> QED BY <3>1, <3>2, <1>3, <1>6, ProductOrder
  <2>5. SumTo(Dues(d)', M) <= SumTo(Dues(d), M)
    <3>1. \A c \in Symbols : Due(c, d)' <= Due(c, d)
      <4>1. Due(b, d)' = 0 /\ Due(b, d) \in Nat
        BY <1>2, <1>4, <1>5, <1>7, <1>9, SMTT(40)
      <4> SUFFICES ASSUME NEW c \in Symbols PROVE Due(c, d)' <= Due(c, d)
        OBVIOUS
      <4>2. Due(c, d) \in Nat
        BY <1>4
      <4>3. c # b => Due(c, d)' = Due(c, d)
        BY <1>5
      <4>4. c = b => Due(c, d)' = 0
        BY <4>1
      <4> QED BY <4>2, <4>3, <4>4
    <3>2. \A c \in 0 .. M - 1 : Dues(d)'[c] <= Dues(d)[c]
      BY <3>1, <1>4 DEF Symbols
    <3> QED BY <1>4, <3>2, SumOrder
  <2> QED BY <2>4, <2>5, <1>3, <1>6
<1> QED BY <1>8, <1>9

LEMMA NextEntryInv == IInv /\ NextEntry => IInv'
<1> SUFFICES ASSUME IInv, NextEntry PROVE IInv'
  OBVIOUS
<1>1. i < TableSize /\ s = M /\ s' = 0 /\ u' = Limit /\ searching' = searching
      /\ frequencies' = frequencies
  BY DEF NextEntry
<1>2. ~ searching'
  BY <1>1, EntryChosen
<1>3. Limit' = Limit
  BY <1>1 DEF Limit, TableSize
<1>4. Scanned'
  <2>1. \A c \in Symbols : ~ c < 0
    BY DEF Symbols
  <2> QED BY <2>1, <1>1, <1>3 DEF Scanned, Symbols
<1> QED BY <1>2, <1>4, CountedNext, NotAheadNext, InTimeNext DEF IInv, Narrowing

-----------------------------------------------------------------------------
(* The theorems *)

(* Every step keeps the invariant. *)
LEMMA StepInv == IInv /\ [Next]_vars => IInv'
<1> SUFFICES ASSUME IInv, [Next]_vars PROVE IInv'
  OBVIOUS
<1>1. CASE Skip
  BY <1>1, SkipInv
<1>2. CASE BeginSearch
  BY <1>2, BeginSearchInv
<1>3. CASE Halve
  BY <1>3, HalveInv
<1>4. CASE EndSearch
  BY <1>4, EndSearchInv
<1>5. CASE NextEntry
  BY <1>5, NextEntryInv
<1>6. CASE UNCHANGED vars
  <2>1. UNCHANGED <<frequencies, table, numAllocs, i, s, u, searching, lower, upper>>
    BY <1>6 DEF vars, scan, interval
  <2>2. /\ TableSize' = TableSize /\ Limit' = Limit
        /\ \A c, n : Share(c, n)' = Share(c, n)
        /\ \A c : Eligible(c)' = Eligible(c)
        /\ \A c, n : NotDueBefore(c, n)' = NotDueBefore(c, n)
        /\ Counted' /\ NotAhead' /\ InTime'
    BY <2>1, SettledUnchanged
  <2>3. Types'
    BY <2>1, <2>2 DEF IInv, Types, FrequenciesType
  <2>4. Scanned'
    BY <2>1, <2>2 DEF IInv, Scanned
  <2>5. Narrowing'
    BY <2>1, <2>2 DEF IInv, Narrowing, Symbols
  <2> QED BY <2>2, <2>3, <2>4, <2>5 DEF IInv
<1> QED BY <1>1, <1>2, <1>3, <1>4, <1>5, <1>6 DEF Next, Return

(* The generator keeps the invariant, whatever the frequencies are.         *)
THEOREM Invariance == Spec => []IInv
<1>1. Init => IInv
  BY StartInv DEF Init, FrequenciesType
<1> QED BY <1>1, StepInv, PTL DEF Spec

(* The table grows entry by entry and holds nothing but symbols, and the    *)
(* counts of earliestDeadlineFirstTable are those of its table.             *)
THEOREM TypesCorrect == Spec => []TypeOK
<1>1. IInv => TypeOK
  BY DEF IInv, Types, Counted, TypeOK
<1> QED BY <1>1, Invariance, PTL

(* findEarliestdeadline is called for some symbol at every entry: line 117  *)
(* never leaves an entry without a value.                                   *)
THEOREM EntriesAssigned == Spec => []EntryAssigned
<1>1. IInv => EntryAssigned
  BY EntryChosen DEF EntryAssigned
<1> QED BY <1>1, Invariance, PTL

(* Serving the earliest deadline first meets every deadline: no symbol has  *)
(* had less than its share, rounded down, at any length of the table.       *)
THEOREM DeadlinesMet == Spec => []NoMissedDeadline
<1>1. IInv => NoMissedDeadline
  <2> SUFFICES ASSUME IInv, NEW c \in Symbols PROVE Occurrences(c) >= Share(c, i)
    BY DEF NoMissedDeadline
  <2>1. Types /\ InTime /\ numAllocs[c] = Occurrences(c)
    BY DEF IInv, Counted
  <2> QED BY <2>1, NobodyLate
<1> QED BY <1>1, Invariance, PTL

(* No symbol is a full entry or more ahead of its share either.             *)
THEOREM NobodyEarly == Spec => []NeverTooEarly
<1>1. IInv => NeverTooEarly
  BY DEF IInv, Counted, NotAhead, NeverTooEarly
<1> QED BY <1>1, Invariance, PTL

(* The assertions at the head of findEarliestdeadline hold throughout it.   *)
THEOREM SearchBrackets == Spec => []DeadlineBetween
<1>1. IInv => DeadlineBetween
  <2> SUFFICES ASSUME IInv, searching, lower # 0
               PROVE  Share(s, lower - 1) < numAllocs[s] + 1
    BY DEF IInv, Narrowing, DeadlineBetween
  <2>1. NotDueBefore(s, lower) /\ lower - 1 \in Nat /\ lower - 1 < lower
    BY TableSizeType DEF IInv, Narrowing, Types
  <2> QED BY <2>1 DEF NotDueBefore
<1> QED BY <1>1, Invariance, PTL

(* Every entry is settled on a symbol that may have it and that no other    *)
(* such symbol precedes.                                                    *)
THEOREM EarliestFirst == Spec => DeadlineOrder
<1> DEFINE InTurn ==
             i' # i => /\ Eligible(table[i])
                       /\ \A c \in Symbols, n \in 0 .. TableSize :
                            Eligible(c) /\ Share(c, n) >= numAllocs[c] + 1
                              => Share(table[i], n) >= numAllocs[table[i]] + 1
<1>1. IInv /\ [Next]_vars => [InTurn]_vars
  <2> SUFFICES ASSUME IInv, Next, i' # i
               PROVE  /\ Eligible(table[i])
                      /\ \A c \in Symbols, n \in 0 .. TableSize :
                           Eligible(c) /\ Share(c, n) >= numAllocs[c] + 1
                             => Share(table[i], n) >= numAllocs[table[i]] + 1
    BY DEF vars, scan
  <2>1. i < TableSize /\ s = M
    BY DEF Next, Skip, BeginSearch, Halve, EndSearch, NextEntry, Return, vars, scan
  <2>2. Types /\ table[i] \in Symbols /\ Eligible(table[i])
    BY <2>1, EntryChosen DEF IInv
  <2>3. ASSUME NEW c \in Symbols, NEW n \in 0 .. TableSize, Eligible(c),
               Share(c, n) >= numAllocs[c] + 1
        PROVE  Share(table[i], n) >= numAllocs[table[i]] + 1
    <3>1. /\ u \in Nat /\ n \in Nat /\ NotDueBefore(c, u)
          /\ Share(table[i], u) >= numAllocs[table[i]] + 1
      BY <2>1, <2>3, EntryChosen
    <3>2. Share(c, n) \in Nat /\ numAllocs[c] \in Nat
      BY <2>2, <3>1, ShareBounds DEF Types
    <3>3. u <= n
      BY <2>3, <3>1, <3>2 DEF NotDueBefore
    <3>4. Share(table[i], u) <= Share(table[i], n)
      BY <2>2, <3>1, <3>3, ShareOrder DEF Types
    <3>5. /\ Share(table[i], u) \in Nat /\ Share(table[i], n) \in Nat
          /\ numAllocs[table[i]] \in Nat
      BY <2>2, <3>1, ShareBounds DEF Types
    <3> QED BY <3>1, <3>4, <3>5
  <2> QED BY <2>2, <2>3
<1>2. [][IInv /\ [Next]_vars]_vars => [][InTurn]_vars
  BY <1>1, PTL
<1> QED BY <1>1, Invariance, PTL DEF Spec, DeadlineOrder

-----------------------------------------------------------------------------
(* The tables of a worker's channels: divisors and multiples *)

Divides(d, n) == \E k \in Nat : n = k * d

(* A product is divided by its factors. *)
LEMMA DivCancel ==
  ASSUME NEW z \in Nat, NEW g \in Nat \ {0}
  PROVE  (z * g) \div g = z
<1> DEFINE p == (z * g) \div g
<1>1. p \in Nat /\ p * g <= z * g /\ z * g < p * g + g
  <2>1. z * g \in Nat
    OBVIOUS
  <2> HIDE DEF p
  <2> QED BY <2>1, DivBounds DEF p
<1> HIDE DEF p
<1>2. g * p <= g * z /\ g * z < g * (p + 1)
  BY <1>1
<1>3. p <= z /\ z < p + 1
  BY <1>1, <1>2, ProductOrder
<1> QED BY <1>1, <1>3 DEF p

(* A factor of a positive number is positive. *)
LEMMA PositiveFactor ==
  ASSUME NEW k \in Nat, NEW d \in Nat, NEW n \in Nat \ {0}, n = k * d
  PROVE  k # 0 /\ d # 0
OBVIOUS

(* What divides a divisor divides. *)
LEMMA DividesFurther ==
  ASSUME NEW d \in Nat, NEW e \in Nat, NEW n \in Nat, Divides(d, e), Divides(e, n)
  PROVE  Divides(d, n)
<1>1. PICK k \in Nat : e = k * d
  BY DEF Divides
<1>2. PICK l \in Nat : n = l * e
  BY DEF Divides
<1>3. n = (l * k) * d /\ l * k \in Nat
  BY <1>1, <1>2
<1> QED BY <1>3 DEF Divides

(* The greatest common divisor divides both numbers. *)
LEMMA GcdDivides ==
  ASSUME NEW a \in Nat \ {0}, NEW b \in Nat
  PROVE  Gcd(a, b) \in Nat \ {0} /\ Divides(Gcd(a, b), a) /\ Divides(Gcd(a, b), b)
<1> DEFINE D == {d \in 1 .. a : a % d = 0 /\ b % d = 0}
           T == {a - d : d \in D}
<1>1. 1 \in D
  OBVIOUS
<1>2. PICK m \in T : \A k \in T : m <= k
  <2>1. T \subseteq Nat /\ T # {}
    BY <1>1
  <2> HIDE DEF T
  <2> QED BY <2>1, LeastNat
<1>3. PICK g \in D : m = a - g
  BY <1>2
<1>4. \A d \in D : g >= d
  <2> SUFFICES ASSUME NEW d \in D PROVE g >= d
    OBVIOUS
  <2>1. a - g <= a - d
    BY <1>2, <1>3
  <2> QED BY <2>1
<1>5. Max(D) \in D
  <2> HIDE DEF D
  <2> QED BY <1>4 DEF Max
<1>6. Gcd(a, b) = Max(D)
  BY DEF Gcd
<1> DEFINE h == Gcd(a, b)
<1>7. h \in Nat \ {0} /\ a % h = 0 /\ b % h = 0
  BY <1>5, <1>6
<1> HIDE DEF h
<1>8. /\ a \div h \in Nat /\ a = (a \div h) * h
      /\ b \div h \in Nat /\ b = (b \div h) * h
  BY <1>7
<1>9. Divides(h, a) /\ Divides(h, b)
  BY <1>8 DEF Divides
<1> QED BY <1>7, <1>9 DEF h

(* The least common multiple is a multiple of both. *)
LEMMA LcmMultiple ==
  ASSUME NEW a \in Nat \ {0}, NEW b \in Nat \ {0}
  PROVE  Lcm(a, b) \in Nat \ {0} /\ Divides(a, Lcm(a, b)) /\ Divides(b, Lcm(a, b))
<1> DEFINE g == Gcd(a, b)
<1>1. g \in Nat \ {0} /\ Divides(g, a) /\ Divides(g, b)
  BY GcdDivides
<1> HIDE DEF g
<1>2. PICK x \in Nat : a = x * g
  BY <1>1 DEF Divides
<1>3. PICK y \in Nat : b = y * g
  BY <1>1 DEF Divides
<1>4. x # 0 /\ y # 0
  BY <1>1, <1>2, <1>3, PositiveFactor
<1>5. a * b = (x * b) * g /\ x * b \in Nat
  BY <1>1, <1>2, <1>3
<1>6. Lcm(a, b) = x * b
  BY <1>1, <1>5, DivCancel DEF Lcm, g
<1>7. x * b = y * a
  BY <1>1, <1>2, <1>3
<1>8. x * b # 0
  BY <1>4
<1> QED BY <1>5, <1>6, <1>7, <1>8 DEF Divides

(* The symbols are finitely many, and there is one.                         *)
LEMMA SymbolsFinite == IsFiniteSet(Symbols) /\ Symbols # {}
<1>1. M \in Nat /\ 0 \in Symbols
  BY BoundsAssumption DEF Symbols
<1>2. IsFiniteSet(Symbols)
  BY <1>1, FS_Interval DEF Symbols
<1> QED BY <1>1, <1>2

(* Folding Lcm over an array gives a positive multiple of its elements. *)
LEMMA FoldLcm ==
  ASSUME NEW arr \in [Symbols -> Nat \ {0}]
  PROVE  /\ FoldFunction(Lcm, 1, arr) \in Nat \ {0}
         /\ \A c \in Symbols : Divides(arr[c], FoldFunction(Lcm, 1, arr))
<1> DEFINE Step(r, q) == IF q = {} THEN 1 ELSE Lcm(arr[Chosen(q)], r[q \ {Chosen(q)}])
           Positive(n) == IF n = 0 THEN 1 ELSE n
           F == [z \in (SUBSET Symbols) \X Nat |->
                   IF z[1] = {} THEN 1 ELSE Lcm(arr[Chosen(z[1])], Positive(z[2]))]
<1>0. IsFiniteSet(Symbols)
  BY BoundsAssumption, FS_Interval DEF Symbols
<1>1. FoldFunction(Lcm, 1, arr) = (CHOOSE r : r = [q \in SUBSET Symbols |-> Step(r, q)])[Symbols]
  <2>1. DOMAIN arr = Symbols
    OBVIOUS
  <2> QED BY <2>1 DEF FoldFunction, FoldFunctionOnSet, MapThenFoldSet, Chosen
<1>2. \E r : r = [q \in SUBSET Symbols |-> Step(r, q)]
  <2>1. F \in [(SUBSET Symbols) \X Nat -> Nat]
    <3>1. ASSUME NEW q \in SUBSET Symbols, NEW n \in Nat, q # {}
          PROVE  Lcm(arr[Chosen(q)], Positive(n)) \in Nat
      <4>1. arr[Chosen(q)] \in Nat \ {0}
        BY <3>1 DEF Chosen
      <4>2. Positive(n) \in Nat \ {0}
        OBVIOUS
      <4> HIDE DEF Positive
      <4> QED BY <4>1, <4>2, LcmMultiple
    <3> HIDE DEF Positive
    <3> QED BY <3>1
  <2>2. PICK r \in [SUBSET Symbols -> Nat] : IsFold(r, SUBSET Symbols, F, 1)
    <3> HIDE DEF F
    <3> QED BY <1>0, <2>1, FoldExists
  <2>3. ASSUME NEW q \in SUBSET Symbols PROVE r[q] = Step(r, q) /\ r[q] # 0
    <3> DEFINE B == {p \in SUBSET Symbols : ~ (r[p] = Step(r, p) /\ r[p] # 0)}
    <3>1. SUFFICES ASSUME B # {} PROVE FALSE
      OBVIOUS
    <3>2. PICK p \in B : \A o \in B : ~ (o \subseteq p /\ o # p)
      <4>1. B \subseteq SUBSET Symbols
        OBVIOUS
      <4> HIDE DEF B
      <4> QED BY <1>0, <3>1, <4>1, SmallestSet
    <3>3. p \in SUBSET Symbols /\ ~ (r[p] = Step(r, p) /\ r[p] # 0)
      BY <3>2
    <3>4. r[p] = IF p = {} THEN 1 ELSE F[<<p, r[p \ {Chosen(p)}]>>]
      BY <2>2, <3>3 DEF IsFold
    <3>5. p # {}
      BY <3>3, <3>4
    <3> DEFINE x == Chosen(p)  o == p \ {x}
    <3>6. x \in p /\ o \in SUBSET Symbols /\ o \subseteq p /\ o # p
      BY <3>3, <3>5 DEF Chosen
    <3>7. o \notin B
      <4> HIDE DEF B, o
      <4> QED BY <3>2, <3>6
    <3>8. r[o] \in Nat \ {0}
      BY <2>2, <3>6, <3>7
    <3> HIDE DEF x, o
    <3>9. F[<<p, r[o]>>] = Lcm(arr[x], r[o])
      BY <3>3, <3>5, <3>8 DEF x
    <3>10. Lcm(arr[x], r[o]) \in Nat \ {0}
      BY <3>3, <3>6, <3>8, LcmMultiple
    <3> QED BY <3>3, <3>4, <3>5, <3>9, <3>10 DEF x, o
  <2> QED BY <2>2, <2>3
<1>3. PICK r : /\ r = (CHOOSE t : t = [q \in SUBSET Symbols |-> Step(t, q)])
               /\ r = [q \in SUBSET Symbols |-> Step(r, q)]
  BY <1>2
<1> DEFINE Good(q) == r[q] \in Nat \ {0} /\ \A c \in q : Divides(arr[c], r[q])
           B == {q \in SUBSET Symbols : ~ Good(q)}
<1>4. B = {}
  <2> SUFFICES ASSUME B # {} PROVE FALSE
    OBVIOUS
  <2>1. PICK p \in B : \A o \in B : ~ (o \subseteq p /\ o # p)
    <3>1. B \subseteq SUBSET Symbols
      OBVIOUS
    <3> HIDE DEF B
    <3> QED BY <1>0, <3>1, SmallestSet
  <2>2. p \in SUBSET Symbols /\ ~ Good(p) /\ r[p] = Step(r, p)
    BY <1>3, <2>1
  <2>3. p # {}
    BY <2>2
  <2> DEFINE x == Chosen(p)  o == p \ {x}
  <2>4. x \in p /\ o \in SUBSET Symbols /\ o \subseteq p /\ o # p /\ arr[x] \in Nat \ {0}
    BY <2>2, <2>3 DEF Chosen
  <2>5. Good(o)
    <3>1. o \notin B
      <4> HIDE DEF B, o
      <4> QED BY <2>1, <2>4
    <3> HIDE DEF Good, o
    <3> QED BY <2>4, <3>1
  <2>6. r[p] = Lcm(arr[x], r[o])
    BY <2>2, <2>3
  <2> HIDE DEF x, o
  <2>7. r[p] \in Nat \ {0} /\ Divides(arr[x], r[p]) /\ Divides(r[o], r[p])
    BY <2>4, <2>5, <2>6, LcmMultiple
  <2>8. ASSUME NEW c \in p PROVE Divides(arr[c], r[p])
    <3>1. CASE c = x
      BY <2>7, <3>1
    <3>2. CASE c # x
      <4>1. c \in o /\ arr[c] \in Nat
        BY <2>2, <3>2 DEF o
      <4> QED BY <2>5, <2>7, <4>1, DividesFurther
    <3> QED BY <3>1, <3>2
  <2> QED BY <2>2, <2>7, <2>8
<1>5. Good(Symbols)
  <2> HIDE DEF Good
  <2> QED BY <1>4
<1> QED BY <1>1, <1>3, <1>5

(* Folding Gcd over an array gives a positive divisor of its elements. *)
LEMMA FoldGcd ==
  ASSUME NEW arr \in [Symbols -> Nat \ {0}]
  PROVE  /\ FoldFunction(Gcd, 0, arr) \in Nat \ {0}
         /\ \A c \in Symbols : Divides(FoldFunction(Gcd, 0, arr), arr[c])
<1> DEFINE Step(r, q) == IF q = {} THEN 0 ELSE Gcd(arr[Chosen(q)], r[q \ {Chosen(q)}])
           F == [z \in (SUBSET Symbols) \X Nat |->
                   IF z[1] = {} THEN 0 ELSE Gcd(arr[Chosen(z[1])], z[2])]
<1>0. IsFiniteSet(Symbols) /\ Symbols # {}
  BY SymbolsFinite
<1>1. FoldFunction(Gcd, 0, arr) = (CHOOSE r : r = [q \in SUBSET Symbols |-> Step(r, q)])[Symbols]
  <2>1. DOMAIN arr = Symbols
    OBVIOUS
  <2> QED BY <2>1 DEF FoldFunction, FoldFunctionOnSet, MapThenFoldSet, Chosen
<1>2. \E r : r = [q \in SUBSET Symbols |-> Step(r, q)]
  <2>1. F \in [(SUBSET Symbols) \X Nat -> Nat]
    <3>1. ASSUME NEW q \in SUBSET Symbols, NEW n \in Nat, q # {}
          PROVE  Gcd(arr[Chosen(q)], n) \in Nat
      <4>1. arr[Chosen(q)] \in Nat \ {0}
        BY <3>1 DEF Chosen
      <4> QED BY <4>1, GcdDivides
    <3> QED BY <3>1
  <2>2. PICK r \in [SUBSET Symbols -> Nat] : IsFold(r, SUBSET Symbols, F, 0)
    <3> HIDE DEF F
    <3> QED BY <1>0, <2>1, FoldExists
  <2>3. ASSUME NEW q \in SUBSET Symbols PROVE r[q] = Step(r, q)
    <3>1. r[q] = IF q = {} THEN 0 ELSE F[<<q, r[q \ {Chosen(q)}]>>]
      BY <2>2 DEF IsFold
    <3>2. r[q \ {Chosen(q)}] \in Nat
      BY <2>2
    <3> QED BY <3>1, <3>2
  <2> QED BY <2>2, <2>3
<1>3. PICK r : /\ r = (CHOOSE t : t = [q \in SUBSET Symbols |-> Step(t, q)])
               /\ r = [q \in SUBSET Symbols |-> Step(r, q)]
  BY <1>2
<1> DEFINE Good(q) == /\ r[q] \in Nat /\ (q # {} => r[q] # 0)
                      /\ \A c \in q : Divides(r[q], arr[c])
           B == {q \in SUBSET Symbols : ~ Good(q)}
<1>4. B = {}
  <2> SUFFICES ASSUME B # {} PROVE FALSE
    OBVIOUS
  <2>1. PICK p \in B : \A o \in B : ~ (o \subseteq p /\ o # p)
    <3>1. B \subseteq SUBSET Symbols
      OBVIOUS
    <3> HIDE DEF B
    <3> QED BY <1>0, <3>1, SmallestSet
  <2>2. p \in SUBSET Symbols /\ ~ Good(p) /\ r[p] = Step(r, p)
    BY <1>3, <2>1
  <2>3. p # {}
    BY <2>2
  <2> DEFINE x == Chosen(p)  o == p \ {x}
  <2>4. x \in p /\ o \in SUBSET Symbols /\ o \subseteq p /\ o # p /\ arr[x] \in Nat \ {0}
    BY <2>2, <2>3 DEF Chosen
  <2>5. Good(o)
    <3>1. o \notin B
      <4> HIDE DEF B, o
      <4> QED BY <2>1, <2>4
    <3> HIDE DEF Good, o
    <3> QED BY <2>4, <3>1
  <2>6. r[p] = Gcd(arr[x], r[o])
    BY <2>2, <2>3
  <2> HIDE DEF x, o
  <2>7. r[p] \in Nat \ {0} /\ Divides(r[p], arr[x]) /\ Divides(r[p], r[o])
    BY <2>4, <2>5, <2>6, GcdDivides
  <2>8. ASSUME NEW c \in p PROVE Divides(r[p], arr[c])
    <3>1. CASE c = x
      BY <2>7, <3>1
    <3>2. CASE c # x
      <4>1. c \in o /\ arr[c] \in Nat
        BY <2>2, <3>2 DEF o
      <4> QED BY <2>5, <2>7, <4>1, DividesFurther
    <3> QED BY <3>1, <3>2
  <2> QED BY <2>2, <2>7, <2>8
<1>5. Good(Symbols)
  <2> HIDE DEF Good
  <2> QED BY <1>4
<1> QED BY <1>0, <1>1, <1>3, <1>5

-----------------------------------------------------------------------------
(* The frequencies *)

(* reducedIntegerArray divides all elements by the same number, exactly.    *)
LEMMA ReducedProportional ==
  ASSUME NEW arr \in [Symbols -> Nat \ {0}]
  PROVE  /\ ReducedIntegerArray(arr) \in [Symbols -> Nat \ {0}]
         /\ \E g \in Nat \ {0} : \A c \in Symbols : arr[c] = g * ReducedIntegerArray(arr)[c]
<1> DEFINE g == FoldFunction(Gcd, 0, arr)
           R == ReducedIntegerArray(arr)
<1>1. g \in Nat \ {0} /\ \A c \in Symbols : Divides(g, arr[c])
  BY FoldGcd
<1>2. R = [c \in Symbols |-> arr[c] \div g]
  BY <1>1 DEF ReducedIntegerArray
<1> HIDE DEF g, R
<1>3. ASSUME NEW c \in Symbols PROVE R[c] \in Nat \ {0} /\ arr[c] = g * R[c]
  <2>1. PICK k \in Nat : arr[c] = k * g
    BY <1>1 DEF Divides
  <2>2. k # 0
    BY <1>1, <2>1, PositiveFactor
  <2>3. R[c] = k
    BY <1>1, <1>2, <2>1, DivCancel
  <2> QED BY <1>1, <2>1, <2>2, <2>3
<1>4. R \in [Symbols -> Nat \ {0}]
  BY <1>2, <1>3
<1> QED BY <1>1, <1>3, <1>4 DEF R

(* The frequencies are positive, and each times its batch size is in the    *)
(* proportion of the multiplicities: the divisions of                       *)
(* qNetworkTableFrequencies leave no remainder.                             *)
LEMMA FrequenciesProportional ==
  ASSUME NEW mult \in [Symbols -> Nat \ {0}], NEW batch \in [Symbols -> Nat \ {0}]
  PROVE  LET f == QNetworkTableFrequencies(mult, batch)
         IN  /\ f \in [Symbols -> Nat \ {0}]
             /\ \A c, d \in Symbols : mult[d] * batch[c] * f[c] = mult[c] * batch[d] * f[d]
<1> DEFINE L == FoldFunction(Lcm, 1, batch)
           arr == [c \in Symbols |-> mult[c] * (L \div batch[c])]
           f == QNetworkTableFrequencies(mult, batch)
<1>1. L \in Nat \ {0} /\ \A c \in Symbols : Divides(batch[c], L)
  BY FoldLcm
<1>2. f = ReducedIntegerArray(arr)
  BY DEF QNetworkTableFrequencies
<1> HIDE DEF L
<1>3. ASSUME NEW c \in Symbols
      PROVE  arr[c] \in Nat \ {0} /\ arr[c] * batch[c] = mult[c] * L
  <2>1. PICK k \in Nat : L = k * batch[c]
    BY <1>1 DEF Divides
  <2>2. k # 0
    BY <1>1, <2>1, PositiveFactor
  <2>3. L \div batch[c] = k
    BY <2>1, DivCancel
  <2>4. arr[c] = mult[c] * k
    BY <2>3
  <2>5. mult[c] * k # 0
    BY <2>2
  <2> QED BY <2>1, <2>4, <2>5
<1>4. arr \in [Symbols -> Nat \ {0}]
  BY <1>3
<1> HIDE DEF f, arr
<1>5. PICK g \in Nat \ {0} : \A c \in Symbols : arr[c] = g * f[c]
  BY <1>2, <1>4, ReducedProportional
<1>6. f \in [Symbols -> Nat \ {0}]
  BY <1>2, <1>4, ReducedProportional
<1>7. ASSUME NEW c \in Symbols, NEW d \in Symbols
      PROVE  mult[d] * batch[c] * f[c] = mult[c] * batch[d] * f[d]
  <2> DEFINE a == mult[d] * batch[c] * f[c]  b == mult[c] * batch[d] * f[d]
  <2>1. a \in Nat /\ b \in Nat
    BY <1>6
  <2>2. g * a = mult[d] * (batch[c] * arr[c])
    <3>1. arr[c] = g * f[c] BY <1>5
    <3>2. f[c] \in Nat BY <1>6
    <3> QED BY <3>1, <3>2
  <2>3. g * b = mult[c] * (batch[d] * arr[d])
    <3>1. arr[d] = g * f[d] BY <1>5
    <3>2. f[d] \in Nat BY <1>6
    <3> QED BY <3>1, <3>2
  <2>4. batch[c] * arr[c] = mult[c] * L /\ batch[d] * arr[d] = mult[d] * L
    <3>1. arr[c] \in Nat /\ arr[d] \in Nat BY <1>3
    <3> QED BY <1>3, <3>1
  <2>5. g * a = g * b
    BY <1>1, <2>2, <2>3, <2>4
  <2> HIDE DEF a, b
  <2>6. a <= b /\ b <= a
    BY <2>1, <2>5, ProductOrder
  <2> QED BY <2>1, <2>6 DEF a, b
<1> QED BY <1>6, <1>7 DEF f

-----------------------------------------------------------------------------
(* The theorems about a worker's channels *)

(* The multiplicities and batch sizes are the ones the table is made for.   *)
ChannelsType ==
  /\ multiplicities \in [Symbols -> Nat \ {0}]
  /\ batchSize \in [Symbols -> Nat \ {0}]
  /\ frequencies = QNetworkTableFrequencies(multiplicities, batchSize)

(* They are fit for the generator, which leaves them alone.                 *)
THEOREM ChannelInvariance == ChannelSpec => [](IInv /\ ChannelsType)
<1>1. ChannelInit => IInv /\ ChannelsType
  <2> SUFFICES ASSUME ChannelInit PROVE IInv /\ ChannelsType
    OBVIOUS
  <2>1. ChannelsType
    BY ChannelAssumption DEF ChannelInit, ChannelsType
  <2>2. FrequenciesType /\ Start
    BY <2>1, FrequenciesProportional DEF ChannelsType, FrequenciesType, ChannelInit
  <2> QED BY <2>1, <2>2, StartInv
<1>2. IInv /\ ChannelsType /\ [ChannelNext]_tableVars => (IInv /\ ChannelsType)'
  <2> SUFFICES ASSUME IInv, ChannelsType, [ChannelNext]_tableVars
               PROVE  (IInv /\ ChannelsType)'
    OBVIOUS
  <2>1. [Next]_vars /\ UNCHANGED <<multiplicities, batchSize>>
    BY DEF ChannelNext, tableVars
  <2>2. UNCHANGED frequencies
    BY <2>1 DEF Next, Skip, BeginSearch, Halve, EndSearch, NextEntry, Return, vars
  <2>3. ChannelsType'
    BY <2>1, <2>2 DEF ChannelsType
  <2> QED BY <2>1, <2>3, StepInv
<1> QED BY <1>1, <1>2, PTL DEF ChannelSpec

(* Over a round of the complete table each channel carries tasks in         *)
(* proportion to its multiplicity, whatever the batch sizes are.            *)
THEOREM WorkIsShared == ChannelSpec => []WorkShared
<1>1. ASSUME IInv, ChannelsType, i = TableSize, NEW c \in Symbols, NEW d \in Symbols
      PROVE  multiplicities[d] * batchSize[c] * Occurrences(c)
               = multiplicities[c] * batchSize[d] * Occurrences(d)
  <2>1. ASSUME NEW e \in Symbols PROVE Occurrences(e) = frequencies[e]
    <3>1. TableSize \in Nat \ {0} /\ frequencies[e] \in Nat \ {0} /\ numAllocs[e] \in Nat
      BY <1>1, TableSizeType DEF IInv, Types
    <3>2. numAllocs[e] = Occurrences(e)
      BY <1>1 DEF IInv, Counted
    <3>3. numAllocs[e] >= Share(e, TableSize)
      BY <1>1, NobodyLate DEF IInv
    <3>4. Share(e, TableSize) = frequencies[e]
      BY <1>1, ShareWhole DEF IInv, Types
    <3>5. (numAllocs[e] - 1) * TableSize < frequencies[e] * TableSize
      BY <1>1 DEF IInv, NotAhead
    <3>6. numAllocs[e] - 1 < frequencies[e]
      <4> DEFINE T == TableSize  x == numAllocs[e] - 1  f == frequencies[e]
      <4>1. T \in Nat \ {0} /\ x \in Int /\ f \in Int /\ x * T < f * T
        BY <3>1, <3>5
      <4> HIDE DEF T, x, f
      <4>2. T * x < T * f
        BY <4>1
      <4>3. x < f
        BY <4>1, <4>2, ProductOrder
      <4> QED BY <4>3 DEF x, f
    <3> QED BY <3>1, <3>2, <3>3, <3>4, <3>6
  <2>2. multiplicities[d] * batchSize[c] * frequencies[c]
          = multiplicities[c] * batchSize[d] * frequencies[d]
    BY <1>1, FrequenciesProportional DEF ChannelsType
  <2> QED BY <2>1, <2>2
<1>2. IInv /\ ChannelsType => WorkShared
  BY <1>1 DEF WorkShared
<1> QED BY <1>2, ChannelInvariance, PTL

(* The generator is called as its assertion asks: with positive             *)
(* frequencies, for all multiplicities and batch sizes.  The bound on them  *)
(* is that of the inputs tried when it is checked by itself.                *)
THEOREM GeneratorCalledCorrectly ==
  ChannelSpec /\ (\A c \in Symbols : frequencies[c] <= MaxFrequency) => Spec
<1>1. ChannelInit /\ (\A c \in Symbols : frequencies[c] <= MaxFrequency) => Init
  <2> SUFFICES ASSUME ChannelInit, \A c \in Symbols : frequencies[c] <= MaxFrequency
               PROVE  Init
    OBVIOUS
  <2>1. multiplicities \in [Symbols -> Nat \ {0}] /\ batchSize \in [Symbols -> Nat \ {0}]
    BY ChannelAssumption DEF ChannelInit
  <2>2. frequencies \in [Symbols -> Nat \ {0}]
    BY <2>1, FrequenciesProportional DEF ChannelInit
  <2>3. frequencies \in [Symbols -> 1 .. MaxFrequency]
    BY <2>2, BoundsAssumption
  <2> QED BY <2>3 DEF Init, ChannelInit
<1>2. [ChannelNext]_tableVars => [Next]_vars
  BY DEF ChannelNext, tableVars
<1> QED BY <1>1, <1>2, PTL DEF ChannelSpec, Spec

(* What qNetworkTable makes of a complete table, by adding the number of    *)
(* the worker's first channel to each entry, sends over the worker's        *)
(* channels only, and over at least one.                                    *)
THEOREM TableInRow ==
  ChannelSpec =>
    [](i = TableSize =>
         \A first \in Nat :
           LET channels == [k \in 1 .. TableSize |-> first + table[k - 1]]
           IN  channels \in Seq(first .. first + M - 1) /\ Len(channels) > 0)
<1>1. IInv => (i = TableSize =>
                 \A first \in Nat :
                   LET channels == [k \in 1 .. TableSize |-> first + table[k - 1]]
                   IN  channels \in Seq(first .. first + M - 1) /\ Len(channels) > 0)
  <2> SUFFICES ASSUME IInv, i = TableSize, NEW first \in Nat
               PROVE  LET channels == [k \in 1 .. TableSize |-> first + table[k - 1]]
                      IN  channels \in Seq(first .. first + M - 1) /\ Len(channels) > 0
    OBVIOUS
  <2>1. TableSize \in Nat \ {0}
    BY TableSizeType DEF IInv, Types
  <2>2. (\A n \in DOMAIN table : table[n] \in Symbols) /\ 0 .. TableSize - 1 \subseteq DOMAIN table
    BY <2>1 DEF IInv, Types
  <2>3. ASSUME NEW k \in 1 .. TableSize
        PROVE  first + table[k - 1] \in first .. first + M - 1
    <3>1. k - 1 \in 0 .. TableSize - 1
      BY <2>1
    <3>2. table[k - 1] \in 0 .. M - 1
      BY <2>2, <3>1 DEF Symbols
    <3> QED BY <3>2, BoundsAssumption
  <2> QED BY <2>1, <2>3
<1> QED BY <1>1, ChannelInvariance, PTL
=============================================================================
