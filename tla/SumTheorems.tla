----------------------------- MODULE SumTheorems -----------------------------
(***************************************************************************)
(* What the proofs need to know about SumTo: it is an integer, it follows   *)
(* the change of one summand, and a sum of naturals bounds each of them.    *)
(*                                                                         *)
(* Induction over the length is by a least counterexample, which exists     *)
(* because strict inclusion is well founded on the finite sets 0 .. k - 1.  *)
(***************************************************************************)
EXTENDS Sums, FiniteSets, FiniteSetTheorems, WellFoundedInduction, TLAPS

(* Every non-empty set of naturals has a least element.                     *)
LEMMA LeastNat ==
  ASSUME NEW T, T \subseteq Nat, T # {}
  PROVE  \E m \in T : \A k \in T : m <= k
<1> DEFINE R == StrictSubsetOrdering(Nat)
           F == FiniteSubsetsOf(Nat)
           Below == {0 .. (k - 1) : k \in T}
<1>1. IsWellFoundedOn(R, F)
  BY FS_StrictSubsetOrderingWellFounded
<1>2. Below \subseteq F /\ Below # {}
  <2>1. \A k \in T : IsFiniteSet(0 .. (k - 1))
    BY FS_Interval
  <2>2. \A k \in T : 0 .. (k - 1) \in F
    BY <2>1 DEF FiniteSubsetsOf
  <2> QED BY <2>2
<1>3. PICK X \in Below : \A Y \in Below : <<Y, X>> \notin R
  <2> HIDE DEF R, F, Below
  <2> QED BY <1>1, <1>2, WFMin
<1>4. PICK m \in T : X = 0 .. (m - 1)
  OBVIOUS
<1>5. ASSUME NEW k \in T, k < m
      PROVE  FALSE
  <2>1. 0 .. (k - 1) \subseteq X /\ 0 .. (k - 1) # X
    BY <1>4, <1>5
  <2>2. <<0 .. (k - 1), X>> \in R
    BY <2>1, <1>4, SMTT(40) DEF StrictSubsetOrdering
  <2> QED BY <2>2, <1>3
<1> QED BY <1>5

(* s is the function of partial sums of f up to n.                          *)
IsPrefixes(s, f, n) ==
  s = [k \in 0 .. n |-> IF k = 0 THEN 0 ELSE s[k - 1] + f[k - 1]]

(* Such a function exists, for every length n: the step that a recursive    *)
(* definition leaves to induction.                                          *)
LEMMA PrefixesExist ==
  ASSUME NEW n \in Nat, NEW f \in [0 .. n - 1 -> Int]
  PROVE  \E s \in [0 .. n -> Int] : IsPrefixes(s, f, n)
<1> DEFINE Bad == {k \in 0 .. n : ~ \E s \in [0 .. k -> Int] : IsPrefixes(s, f, k)}
<1>1. SUFFICES ASSUME Bad # {} PROVE FALSE
  <2>1. n \in 0 .. n
    OBVIOUS
  <2> QED BY <2>1
<1>2. PICK m \in Bad : \A k \in Bad : m <= k
  <2>1. Bad \subseteq Nat
    OBVIOUS
  <2> HIDE DEF Bad
  <2> QED BY <1>1, <2>1, LeastNat
<1>3. CASE m = 0
  <2> DEFINE z == [k \in 0 .. 0 |-> 0]
  <2>1. z \in [0 .. 0 -> Int] /\ IsPrefixes(z, f, 0)
    BY DEF IsPrefixes
  <2> QED BY <2>1, <1>3
<1>4. CASE m # 0
  <2>1. m - 1 \in 0 .. n /\ m - 1 \notin Bad
    BY <1>2, <1>4
  <2>2. PICK s \in [0 .. m - 1 -> Int] : IsPrefixes(s, f, m - 1)
    BY <2>1
  <2> DEFINE t == [k \in 0 .. m |-> IF k = m THEN s[m - 1] + f[m - 1] ELSE s[k]]
  <2>3. t \in [0 .. m -> Int]
    BY <1>4
  <2>4. ASSUME NEW k \in 0 .. m
        PROVE  t[k] = IF k = 0 THEN 0 ELSE t[k - 1] + f[k - 1]
    <3>1. CASE k = m
      BY <3>1, <1>4
    <3>2. CASE k # m
      <4>1. s[k] = IF k = 0 THEN 0 ELSE s[k - 1] + f[k - 1]
        BY <3>2, <2>2 DEF IsPrefixes
      <4> QED BY <4>1, <3>2
    <3> QED BY <3>1, <3>2
  <2>5. IsPrefixes(t, f, m)
    BY <2>3, <2>4 DEF IsPrefixes
  <2> QED BY <2>3, <2>5
<1> QED BY <1>3, <1>4

(* The recursive definition means what it says.                             *)
LEMMA PrefixesDef ==
  ASSUME NEW n \in Nat, NEW f \in [0 .. n - 1 -> Int]
  PROVE  IsPrefixes(Prefixes(f, n), f, n)
<1>1. PICK s : IsPrefixes(s, f, n)
  BY PrefixesExist
<1>2. Prefixes(f, n) = CHOOSE t : IsPrefixes(t, f, n)
  BY DEF Prefixes, IsPrefixes
<1> QED BY <1>1, <1>2

(* The form the other lemmas use.                                           *)
LEMMA PrefixesRec ==
  ASSUME NEW n \in Nat, NEW f \in [0 .. n - 1 -> Int]
  PROVE  /\ Prefixes(f, n)[0] = 0
         /\ \A k \in 1 .. n : Prefixes(f, n)[k] = Prefixes(f, n)[k - 1] + f[k - 1]
<1> DEFINE s == Prefixes(f, n)
<1>1. s = [k \in 0 .. n |-> IF k = 0 THEN 0 ELSE s[k - 1] + f[k - 1]]
  BY PrefixesDef DEF IsPrefixes
<1> HIDE DEF s
<1>2. s[0] = 0
  BY <1>1
<1>3. ASSUME NEW k \in 1 .. n PROVE s[k] = s[k - 1] + f[k - 1]
  BY <1>1
<1> QED BY <1>2, <1>3 DEF s

(* Partial sums of integers are integers.                                   *)
LEMMA PrefixesType ==
  ASSUME NEW n \in Nat, NEW f \in [0 .. n - 1 -> Int]
  PROVE  \A k \in 0 .. n : Prefixes(f, n)[k] \in Int
<1> DEFINE s == Prefixes(f, n)
           Bad == {k \in 0 .. n : s[k] \notin Int}
<1>1. s[0] = 0 /\ \A k \in 1 .. n : s[k] = s[k - 1] + f[k - 1]
  BY PrefixesRec
<1> HIDE DEF s
<1>2. SUFFICES ASSUME Bad # {} PROVE FALSE
  BY DEF s
<1>3. PICK m \in Bad : \A k \in Bad : m <= k
  <2>1. Bad \subseteq Nat
    OBVIOUS
  <2> HIDE DEF Bad
  <2> QED BY <1>2, <2>1, LeastNat
<1>4. m # 0
  BY <1>1
<1>5. m - 1 \in 0 .. n /\ m - 1 \notin Bad
  BY <1>3, <1>4
<1>6. s[m - 1] \in Int /\ m \in 1 .. n
  BY <1>4, <1>5
<1> QED BY <1>1, <1>6

(* A sum of integers is an integer.                                         *)
LEMMA SumType ==
  ASSUME NEW n \in Nat, NEW f \in [0 .. n - 1 -> Int]
  PROVE  SumTo(f, n) \in Int
BY PrefixesType DEF SumTo

(* The sum of the first k elements of a longer array is the k-th of its     *)
(* partial sums.                                                            *)
LEMMA SumOfFirst ==
  ASSUME NEW n \in Nat, NEW f \in [0 .. n - 1 -> Int], NEW k \in 0 .. n
  PROVE  SumTo(f, k) = Prefixes(f, n)[k]
<1> DEFINE s == Prefixes(f, n)
           t == Prefixes(f, k)
           r == [j \in 0 .. k |-> s[j]]
           Bad == {j \in 0 .. k : t[j] # s[j]}
<1>1. s[0] = 0 /\ \A j \in 1 .. n : s[j] = s[j - 1] + f[j - 1]
  BY PrefixesRec
<1>2. IsPrefixes(t, f, k)
  <2>1. IsPrefixes(r, f, k)
    <3>1. ASSUME NEW j \in 0 .. k
          PROVE  r[j] = IF j = 0 THEN 0 ELSE r[j - 1] + f[j - 1]
      BY <1>1
    <3> QED BY <3>1 DEF IsPrefixes
  <2>2. t = CHOOSE u : IsPrefixes(u, f, k)
    BY DEF Prefixes, IsPrefixes
  <2> HIDE DEF t, r
  <2> QED BY <2>1, <2>2
<1>3. t[0] = 0 /\ \A j \in 1 .. k : t[j] = t[j - 1] + f[j - 1]
  <2> HIDE DEF t, s
  <2>1. t = [j \in 0 .. k |-> IF j = 0 THEN 0 ELSE t[j - 1] + f[j - 1]]
    BY <1>2 DEF IsPrefixes
  <2>2. t[0] = 0
    BY <2>1
  <2>3. ASSUME NEW j \in 1 .. k PROVE t[j] = t[j - 1] + f[j - 1]
    BY <2>1
  <2> QED BY <2>2, <2>3
<1> HIDE DEF s, t
<1>4. Bad = {}
  <2>1. SUFFICES ASSUME Bad # {} PROVE FALSE
    OBVIOUS
  <2>2. PICK m \in Bad : \A j \in Bad : m <= j
    <3>1. Bad \subseteq Nat
      OBVIOUS
    <3> HIDE DEF Bad
    <3> QED BY <2>1, <3>1, LeastNat
  <2>3. m # 0
    BY <1>1, <1>3, <2>2
  <2>4. m - 1 \in 0 .. k /\ m - 1 \notin Bad /\ m \in 1 .. k /\ m \in 1 .. n
    BY <2>2, <2>3
  <2>5. t[m - 1] = s[m - 1]
    BY <2>4
  <2> QED BY <1>1, <1>3, <2>2, <2>4, <2>5
<1>5. t[k] = s[k]
  BY <1>4
<1> QED BY <1>5 DEF s, t, SumTo

(* One more element adds its value.                                         *)
LEMMA SumNext ==
  ASSUME NEW n \in Nat, NEW f \in [0 .. n - 1 -> Int]
  PROVE  /\ SumTo(f, 0) = 0
         /\ \A k \in 0 .. n : SumTo(f, k) \in Int
         /\ \A k \in 0 .. n - 1 : SumTo(f, k + 1) = SumTo(f, k) + f[k]
<1> DEFINE s == Prefixes(f, n)
<1>1. s[0] = 0 /\ \A j \in 1 .. n : s[j] = s[j - 1] + f[j - 1]
  BY PrefixesRec
<1>2. \A k \in 0 .. n : s[k] \in Int
  BY PrefixesType
<1>3. \A k \in 0 .. n : SumTo(f, k) = s[k]
  BY SumOfFirst
<1> HIDE DEF s
<1>4. ASSUME NEW k \in 0 .. n - 1 PROVE SumTo(f, k + 1) = SumTo(f, k) + f[k]
  <2>1. k + 1 \in 1 .. n /\ k + 1 \in 0 .. n /\ k \in 0 .. n /\ (k + 1) - 1 = k
    OBVIOUS
  <2>2. s[k + 1] = s[k] + f[k]
    <3>1. s[k + 1] = s[(k + 1) - 1] + f[(k + 1) - 1]
      BY <1>1, <2>1
    <3> QED BY <2>1, <3>1
  <2>3. SumTo(f, k + 1) = s[k + 1] /\ SumTo(f, k) = s[k]
    BY <1>3, <2>1
  <2> QED BY <2>2, <2>3
<1>5. SumTo(f, 0) = 0
  <2>1. 0 \in 0 .. n
    OBVIOUS
  <2> QED BY <1>1, <1>3, <2>1
<1>6. \A k \in 0 .. n : SumTo(f, k) \in Int
  BY <1>2, <1>3
<1> QED BY <1>4, <1>5, <1>6

(* Partial sums of naturals do not decrease.                                *)
LEMMA SumsAscend ==
  ASSUME NEW n \in Nat, NEW f \in [0 .. n - 1 -> Nat], NEW i \in 0 .. n, NEW j \in 0 .. n,
         i <= j
  PROVE  SumTo(f, i) <= SumTo(f, j)
<1> DEFINE Bad == {k \in i .. n : ~ SumTo(f, i) <= SumTo(f, k)}
<1>1. f \in [0 .. n - 1 -> Int]
  OBVIOUS
<1>2. /\ \A k \in 0 .. n : SumTo(f, k) \in Int
      /\ \A k \in 0 .. n - 1 : SumTo(f, k + 1) = SumTo(f, k) + f[k]
  BY <1>1, SumNext
<1>3. Bad = {}
  <2>1. SUFFICES ASSUME Bad # {} PROVE FALSE
    OBVIOUS
  <2>2. PICK m \in Bad : \A k \in Bad : m <= k
    <3>1. Bad \subseteq Nat
      OBVIOUS
    <3> HIDE DEF Bad
    <3> QED BY <2>1, <3>1, LeastNat
  <2>3. m # i
    BY <1>2, <2>2
  <2>4. m - 1 \in i .. n /\ m - 1 \in 0 .. n - 1 /\ m - 1 \notin Bad /\ m \in 0 .. n
    BY <2>2, <2>3
  <2>5. SumTo(f, i) <= SumTo(f, m - 1)
    BY <2>4
  <2>6. SumTo(f, m) = SumTo(f, m - 1) + f[m - 1]
    <3>1. m - 1 + 1 = m
      BY <2>4
    <3> QED BY <1>2, <2>4, <3>1
  <2> QED BY <1>2, <2>2, <2>4, <2>5, <2>6
<1> QED BY <1>3

(* When one summand changes by d, so does the sum.                          *)
LEMMA SumUpdate ==
  ASSUME NEW n \in Nat, NEW f \in [0 .. n - 1 -> Int], NEW g \in [0 .. n - 1 -> Int],
         NEW i \in 0 .. n - 1, NEW d \in Int,
         g[i] = f[i] + d,
         \A j \in 0 .. n - 1 : j # i => g[j] = f[j]
  PROVE  SumTo(g, n) = SumTo(f, n) + d
<1> DEFINE s == Prefixes(f, n)
           t == Prefixes(g, n)
           Diff(k) == IF k <= i THEN 0 ELSE d
           Bad == {k \in 0 .. n : t[k] # s[k] + Diff(k)}
<1>1. s[0] = 0 /\ \A k \in 1 .. n : s[k] = s[k - 1] + f[k - 1]
  BY PrefixesRec
<1>2. t[0] = 0 /\ \A k \in 1 .. n : t[k] = t[k - 1] + g[k - 1]
  BY PrefixesRec
<1>3. \A k \in 0 .. n : s[k] \in Int /\ t[k] \in Int
  BY PrefixesType
<1> HIDE DEF s, t
<1>4. SUFFICES ASSUME Bad # {} PROVE FALSE
  BY SMTT(40) DEF s, t, SumTo
<1>5. PICK m \in Bad : \A k \in Bad : m <= k
  <2>1. Bad \subseteq Nat
    OBVIOUS
  <2> HIDE DEF Bad
  <2> QED BY <1>4, <2>1, LeastNat
<1>6. m # 0
  BY <1>1, <1>2
<1>7. m - 1 \in 0 .. n /\ m - 1 \notin Bad
  BY <1>5, <1>6
<1>8. m \in 1 .. n /\ t[m - 1] = s[m - 1] + Diff(m - 1)
  BY <1>6, <1>7
<1>9. t[m] = t[m - 1] + g[m - 1] /\ s[m] = s[m - 1] + f[m - 1]
  BY <1>1, <1>2, <1>8
<1>10. t[m] = s[m] + Diff(m)
  <2>1. /\ m - 1 \in 0 .. n - 1 /\ s[m - 1] \in Int /\ s[m] \in Int
        /\ f[m - 1] \in Int /\ f[i] \in Int
    BY <1>3, <1>8
  <2>2. CASE m - 1 = i
    BY <2>1, <2>2, <1>8, <1>9
  <2>3. CASE m - 1 # i
    <3>1. g[m - 1] = f[m - 1] /\ Diff(m) = Diff(m - 1)
      BY <2>1, <2>3
    <3> HIDE DEF Diff
    <3>2. Diff(m) \in Int
      BY DEF Diff
    <3> QED BY <2>1, <3>1, <3>2, <1>8, <1>9, SMTT(40)
  <2> QED BY <2>2, <2>3
<1> QED BY <1>10, <1>5

(* Equal summands, equal sums.                                              *)
LEMMA SumSame ==
  ASSUME NEW n \in Nat \ {0}, NEW f \in [0 .. n - 1 -> Int], NEW g \in [0 .. n - 1 -> Int],
         \A j \in 0 .. n - 1 : g[j] = f[j]
  PROVE  SumTo(g, n) = SumTo(f, n)
<1>1. g = f
  OBVIOUS
<1> QED BY <1>1

(* A sum of naturals is at least each of its summands.                      *)
LEMMA SumBounds ==
  ASSUME NEW n \in Nat, NEW f \in [0 .. n - 1 -> Int],
         \A j \in 0 .. n - 1 : f[j] >= 0
  PROVE  /\ SumTo(f, n) >= 0
         /\ \A i \in 0 .. n - 1 : SumTo(f, n) >= f[i]
<1> DEFINE s == Prefixes(f, n)
           Bad == {k \in 0 .. n : ~ /\ s[k] >= 0
                                    /\ \A i \in 0 .. k - 1 : s[k] >= f[i]}
<1>1. s[0] = 0 /\ \A k \in 1 .. n : s[k] = s[k - 1] + f[k - 1]
  BY PrefixesRec
<1>2. \A k \in 0 .. n : s[k] \in Int
  BY PrefixesType
<1> HIDE DEF s
<1>3. SUFFICES ASSUME Bad # {} PROVE FALSE
  BY DEF s, SumTo
<1>4. PICK m \in Bad : \A k \in Bad : m <= k
  <2>1. Bad \subseteq Nat
    OBVIOUS
  <2> HIDE DEF Bad
  <2> QED BY <1>3, <2>1, LeastNat
<1>5. m # 0
  BY <1>1
<1>6. m - 1 \in 0 .. n /\ m - 1 \notin Bad
  BY <1>4, <1>5
<1>7. /\ s[m - 1] >= 0 /\ s[m - 1] \in Int
      /\ \A i \in 0 .. (m - 1) - 1 : s[m - 1] >= f[i]
  BY <1>2, <1>6
<1>8. s[m] = s[m - 1] + f[m - 1] /\ f[m - 1] >= 0 /\ f[m - 1] \in Int
  BY <1>1, <1>5
<1>9. s[m] >= 0
  BY <1>7, <1>8
<1>10. ASSUME NEW i \in 0 .. m - 1 PROVE s[m] >= f[i]
  <2>1. CASE i = m - 1
    BY <2>1, <1>7, <1>8
  <2>2. CASE i # m - 1
    <3>1. i \in 0 .. (m - 1) - 1 /\ f[i] \in Int
      BY <2>2
    <3> QED BY <3>1, <1>7, <1>8
  <2> QED BY <2>1, <2>2
<1> QED BY <1>4, <1>9, <1>10

(* Only zeros sum to zero, if nothing is negative; zeros do sum to zero.    *)
LEMMA SumZero ==
  ASSUME NEW n \in Nat, NEW f \in [0 .. n - 1 -> Int],
         \A j \in 0 .. n - 1 : f[j] = 0
  PROVE  SumTo(f, n) = 0
<1> DEFINE s == Prefixes(f, n)
           Bad == {k \in 0 .. n : s[k] # 0}
<1>1. s[0] = 0 /\ \A k \in 1 .. n : s[k] = s[k - 1] + f[k - 1]
  BY PrefixesRec
<1> HIDE DEF s
<1>2. SUFFICES ASSUME Bad # {} PROVE FALSE
  BY DEF s, SumTo
<1>3. PICK m \in Bad : \A k \in Bad : m <= k
  <2>1. Bad \subseteq Nat
    OBVIOUS
  <2> HIDE DEF Bad
  <2> QED BY <1>2, <2>1, LeastNat
<1>4. m # 0
  BY <1>1
<1>5. m - 1 \in 0 .. n /\ m - 1 \notin Bad
  BY <1>3, <1>4
<1> QED BY <1>1, <1>3, <1>4, <1>5

(* A constant factor can be taken out of a sum.                             *)
LEMMA SumScale ==
  ASSUME NEW n \in Nat, NEW f \in [0 .. n - 1 -> Int], NEW a \in Int
  PROVE  SumTo([j \in 0 .. n - 1 |-> a * f[j]], n) = a * SumTo(f, n)
<1> DEFINE g == [j \in 0 .. n - 1 |-> a * f[j]]
<1>0. g \in [0 .. n - 1 -> Int] /\ \A j \in 0 .. n - 1 : g[j] = a * f[j]
  OBVIOUS
<1> HIDE DEF g
<1> DEFINE s == Prefixes(f, n)
           t == Prefixes(g, n)
           Bad == {k \in 0 .. n : t[k] # a * s[k]}
<1>1. s[0] = 0 /\ \A k \in 1 .. n : s[k] = s[k - 1] + f[k - 1]
  BY PrefixesRec
<1>2. t[0] = 0 /\ \A k \in 1 .. n : t[k] = t[k - 1] + g[k - 1]
  BY <1>0, PrefixesRec
<1>3. \A k \in 0 .. n : s[k] \in Int /\ t[k] \in Int
  BY <1>0, PrefixesType
<1> HIDE DEF s, t
<1>4. SUFFICES ASSUME Bad # {} PROVE FALSE
  <2>1. n \in 0 .. n
    OBVIOUS
  <2>2. Bad = {} => t[n] = a * s[n]
    BY <2>1, Zenon
  <2> QED BY <2>2 DEF s, t, g, SumTo
<1>5. PICK m \in Bad : \A k \in Bad : m <= k
  <2>1. Bad \subseteq Nat
    OBVIOUS
  <2> HIDE DEF Bad
  <2> QED BY <1>4, <2>1, LeastNat
<1>6. m # 0
  BY <1>1, <1>2
<1>7. m - 1 \in 0 .. n /\ m - 1 \notin Bad /\ m \in 1 .. n /\ m - 1 \in 0 .. n - 1
  BY <1>5, <1>6
<1>8. t[m - 1] = a * s[m - 1] /\ t[m] # a * s[m]
  BY <1>7
<1>9. \A x, y \in Int : a * (x + y) = a * x + a * y
  OBVIOUS
<1>10. a * s[m] = a * s[m - 1] + a * f[m - 1]
  BY <1>1, <1>3, <1>7, <1>9, SMTT(40)
<1> QED BY <1>0, <1>2, <1>7, <1>8, <1>10

(* A sum follows the order of its summands.                                 *)
LEMMA SumOrder ==
  ASSUME NEW n \in Nat, NEW f \in [0 .. n - 1 -> Int], NEW g \in [0 .. n - 1 -> Int],
         \A j \in 0 .. n - 1 : f[j] <= g[j]
  PROVE  SumTo(f, n) <= SumTo(g, n)
<1> DEFINE s == Prefixes(f, n)
           t == Prefixes(g, n)
           Bad == {k \in 0 .. n : ~ s[k] <= t[k]}
<1>1. s[0] = 0 /\ \A k \in 1 .. n : s[k] = s[k - 1] + f[k - 1]
  BY PrefixesRec
<1>2. t[0] = 0 /\ \A k \in 1 .. n : t[k] = t[k - 1] + g[k - 1]
  BY PrefixesRec
<1>3. \A k \in 0 .. n : s[k] \in Int /\ t[k] \in Int
  BY PrefixesType
<1> HIDE DEF s, t
<1>4. SUFFICES ASSUME Bad # {} PROVE FALSE
  BY DEF s, t, SumTo
<1>5. PICK m \in Bad : \A k \in Bad : m <= k
  <2>1. Bad \subseteq Nat
    OBVIOUS
  <2> HIDE DEF Bad
  <2> QED BY <1>4, <2>1, LeastNat
<1>6. m # 0
  BY <1>1, <1>2
<1>7. m - 1 \in 0 .. n /\ m - 1 \notin Bad /\ m \in 1 .. n /\ m - 1 \in 0 .. n - 1
  BY <1>5, <1>6
<1>8. s[m - 1] <= t[m - 1] /\ f[m - 1] <= g[m - 1]
  BY <1>7
<1>9. s[m] = s[m - 1] + f[m - 1] /\ t[m] = t[m - 1] + g[m - 1]
  BY <1>1, <1>2, <1>7
<1> QED BY <1>3, <1>7, <1>8, <1>9

(* It does so strictly if all summands differ, and there are any.           *)
LEMMA SumStrictOrder ==
  ASSUME NEW n \in Nat \ {0}, NEW f \in [0 .. n - 1 -> Int], NEW g \in [0 .. n - 1 -> Int],
         \A j \in 0 .. n - 1 : f[j] < g[j]
  PROVE  SumTo(f, n) < SumTo(g, n)
<1> DEFINE h == [g EXCEPT ![0] = f[0]]
<1>1. 0 \in 0 .. n - 1 /\ f[0] \in Int /\ g[0] \in Int /\ f[0] < g[0]
  OBVIOUS
<1>2. h \in [0 .. n - 1 -> Int] /\ h[0] = f[0] /\ \A j \in 0 .. n - 1 : j # 0 => h[j] = g[j]
  BY <1>1
<1> HIDE DEF h
<1>3. \A j \in 0 .. n - 1 : f[j] <= h[j]
  BY <1>2
<1>4. SumTo(f, n) <= SumTo(h, n)
  BY <1>2, <1>3, SumOrder
<1>5. SumTo(h, n) = SumTo(g, n) + (f[0] - g[0])
  <2>1. f[0] - g[0] \in Int /\ h[0] = g[0] + (f[0] - g[0])
    BY <1>1, <1>2
  <2> QED BY <1>1, <1>2, <2>1, SumUpdate, ZenonT(60)
<1>6. SumTo(f, n) \in Int /\ SumTo(g, n) \in Int /\ SumTo(h, n) \in Int
  BY <1>2, SumType
<1> QED BY <1>1, <1>4, <1>5, <1>6

(* Two sums weighted by different factors compare as their summands do.     *)
LEMMA SumWeighted ==
  ASSUME NEW n \in Nat \ {0}, NEW f \in [0 .. n - 1 -> Int], NEW g \in [0 .. n - 1 -> Int],
         NEW a \in Int, NEW b \in Int
  PROVE  /\ (\A j \in 0 .. n - 1 : a * f[j] <= b * g[j])
              => a * SumTo(f, n) <= b * SumTo(g, n)
         /\ (\A j \in 0 .. n - 1 : a * f[j] < b * g[j])
              => a * SumTo(f, n) < b * SumTo(g, n)
<1> DEFINE p == [j \in 0 .. n - 1 |-> a * f[j]]
           q == [j \in 0 .. n - 1 |-> b * g[j]]
<1>1. p \in [0 .. n - 1 -> Int] /\ q \in [0 .. n - 1 -> Int]
  BY SMTT(40)
<1>2. \A j \in 0 .. n - 1 : p[j] = a * f[j] /\ q[j] = b * g[j]
  OBVIOUS
<1>3. SumTo(p, n) = a * SumTo(f, n) /\ SumTo(q, n) = b * SumTo(g, n)
  BY SumScale
<1> HIDE DEF p, q
<1>4. ASSUME \A j \in 0 .. n - 1 : a * f[j] <= b * g[j]
      PROVE  SumTo(p, n) <= SumTo(q, n)
  BY <1>1, <1>2, <1>4, SumOrder
<1>5. ASSUME \A j \in 0 .. n - 1 : a * f[j] < b * g[j]
      PROVE  SumTo(p, n) < SumTo(q, n)
  BY <1>1, <1>2, <1>5, SumStrictOrder
<1> QED BY <1>3, <1>4, <1>5

-----------------------------------------------------------------------------
(* Folds over finite sets *)

(* Among the subsets of a finite set that have a property there is a        *)
(* smallest one.                                                            *)
LEMMA SmallestSet ==
  ASSUME NEW S, IsFiniteSet(S), NEW B, B \subseteq SUBSET S, B # {}
  PROVE  \E p \in B : \A q \in B : ~ (q \subseteq p /\ q # p)
<1> DEFINE T == {Cardinality(p) : p \in B}
<1>1. \A p \in B : IsFiniteSet(p) /\ Cardinality(p) \in Nat
  BY FS_Subset, FS_CardinalityType
<1>2. PICK n \in T : \A k \in T : n <= k
  <2>1. T \subseteq Nat /\ T # {}
    BY <1>1
  <2> HIDE DEF T
  <2> QED BY <2>1, LeastNat
<1>3. PICK p \in B : n = Cardinality(p)
  BY <1>2
<1>4. ASSUME NEW q \in B, q \subseteq p, q # p PROVE FALSE
  <2>1. Cardinality(q) <= Cardinality(p) /\ Cardinality(q) # Cardinality(p)
    BY <1>1, <1>4, FS_Subset
  <2>2. Cardinality(p) <= Cardinality(q)
    BY <1>2, <1>3
  <2> QED BY <1>1, <2>1, <2>2
<1> QED BY <1>4

(* The element that a fold takes from a set next                            *)
Chosen(q) == CHOOSE y \in q : TRUE

(* r is the function of folds over the sets in D, by a step F from base.    *)
IsFold(r, D, F, base) ==
  \A q \in D : r[q] = IF q = {} THEN base ELSE F[<<q, r[q \ {Chosen(q)}]>>]

(* The recursive function of a fold exists, for every finite set: one goes  *)
(* from the sets with n elements to those with one more.                    *)
LEMMA FoldExists ==
  ASSUME NEW S, IsFiniteSet(S), NEW base \in Nat,
         NEW F \in [(SUBSET S) \X Nat -> Nat]
  PROVE  \E r \in [SUBSET S -> Nat] : IsFold(r, SUBSET S, F, base)
<1> DEFINE Sets(n) == {q \in SUBSET S : Cardinality(q) <= n}
           Good(n) == \E r \in [Sets(n) -> Nat] : IsFold(r, Sets(n), F, base)
           N == Cardinality(S)
           Bad == {n \in 0 .. N : ~ Good(n)}
<1>0. /\ N \in Nat
      /\ \A q \in SUBSET S : IsFiniteSet(q) /\ Cardinality(q) \in Nat /\ Cardinality(q) <= N
  BY FS_Subset, FS_CardinalityType
<1>1. SUFFICES ASSUME Bad # {} PROVE FALSE
  <2>1. N \in 0 .. N
    BY <1>0
  <2>2. Good(N)
    BY <1>1, <2>1
  <2>3. Sets(N) = SUBSET S
    BY <1>0
  <2> QED BY <2>2, <2>3
<1>2. PICK m \in Bad : \A k \in Bad : m <= k
  <2>1. Bad \subseteq Nat
    OBVIOUS
  <2> HIDE DEF Bad
  <2> QED BY <1>1, <2>1, LeastNat
<1>3. m \in 0 .. N /\ ~ Good(m)
  BY <1>2
<1>4. \A q \in SUBSET S : q # {} =>
        /\ Chosen(q) \in q /\ q \ {Chosen(q)} \in SUBSET S
        /\ Cardinality(q \ {Chosen(q)}) = Cardinality(q) - 1
  <2> SUFFICES ASSUME NEW q \in SUBSET S, q # {}
               PROVE  /\ Chosen(q) \in q /\ q \ {Chosen(q)} \in SUBSET S
                      /\ Cardinality(q \ {Chosen(q)}) = Cardinality(q) - 1
    OBVIOUS
  <2>1. Chosen(q) \in q
    BY DEF Chosen
  <2>2. IsFiniteSet(q)
    BY <1>0
  <2> QED BY <2>1, <2>2, FS_RemoveElement
<1>5. CASE m = 0
  <2> DEFINE z == [q \in Sets(0) |-> base]
  <2>1. \A q \in Sets(0) : q = {}
    BY <1>0, FS_EmptySet
  <2>2. z \in [Sets(0) -> Nat] /\ IsFold(z, Sets(0), F, base)
    BY <2>1 DEF IsFold
  <2> QED BY <2>2, <1>3, <1>5
<1>6. CASE m # 0
  <2>0. m - 1 \in 0 .. N /\ ~ m <= m - 1
    <3> HIDE DEF Good
    <3> QED BY <1>0, <1>3, <1>6
  <2>1. m - 1 \in 0 .. N /\ Good(m - 1)
    <3>1. m - 1 \notin Bad
      <4> HIDE DEF Bad
      <4> QED BY <2>0, <1>2
    <3> HIDE DEF Good
    <3> QED BY <2>0, <3>1
  <2>2. PICK r \in [Sets(m - 1) -> Nat] : IsFold(r, Sets(m - 1), F, base)
    BY <2>1
  <2> DEFINE t == [q \in Sets(m) |->
                     IF q \in Sets(m - 1) THEN r[q] ELSE F[<<q, r[q \ {Chosen(q)}]>>]]
  <2>3. ASSUME NEW q \in Sets(m), q # {}
        PROVE  q \ {Chosen(q)} \in Sets(m - 1) /\ q \ {Chosen(q)} \in Sets(m)
    BY <2>3, <1>0, <1>3, <1>4, SMTT(40)
  <2>4. {} \in Sets(m - 1)
    <3>1. Cardinality({}) = 0
      BY FS_EmptySet
    <3> QED BY <3>1, <2>1
  <2> HIDE DEF Bad, Good, Sets
  <2>5. t \in [Sets(m) -> Nat]
    <3>1. ASSUME NEW q \in Sets(m), q \notin Sets(m - 1)
          PROVE  F[<<q, r[q \ {Chosen(q)}]>>] \in Nat
      <4>1. r[q \ {Chosen(q)}] \in Nat
        BY <2>3, <2>4, <3>1
      <4>2. <<q, r[q \ {Chosen(q)}]>> \in (SUBSET S) \X Nat
        BY <4>1 DEF Sets
      <4> QED BY <4>2
    <3> QED BY <3>1
  <2>6. ASSUME NEW q \in Sets(m)
        PROVE  t[q] = IF q = {} THEN base ELSE F[<<q, t[q \ {Chosen(q)}]>>]
    <3>1. q # {} => t[q \ {Chosen(q)}] = r[q \ {Chosen(q)}]
      BY <2>3
    <3>2. CASE q \in Sets(m - 1)
      <4>1. t[q] = r[q] BY <3>2
      <4>2. r[q] = IF q = {} THEN base ELSE F[<<q, r[q \ {Chosen(q)}]>>]
        BY <2>2, <3>2 DEF IsFold
      <4> QED BY <3>1, <4>1, <4>2
    <3>3. CASE q \notin Sets(m - 1)
      <4>1. t[q] = F[<<q, r[q \ {Chosen(q)}]>>] /\ q # {}
        BY <3>3, <2>4
      <4> QED BY <3>1, <4>1
    <3> QED BY <3>2, <3>3
  <2>7. IsFold(t, Sets(m), F, base)
    BY <2>6 DEF IsFold
  <2> QED BY <2>5, <2>7, <1>3 DEF Good
<1> QED BY <1>5, <1>6
=============================================================================
