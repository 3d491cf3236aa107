------------------------- MODULE EarliestDeadlineFirst -------------------------
(***************************************************************************)
(* The generator of balanced tables (Discrepancy/TableGenerator.hpp,       *)
(* earliestDeadlineFirstTable and findEarliestdeadline).                   *)
(*                                                                         *)
(* Given how often each symbol is to occur, it spreads the occurrences as  *)
(* evenly as it can: the k-th occurrence of a symbol is due (its deadline) *)
(* when the symbol's share of the entries so far reaches k, and may not    *)
(* come before its share has reached k - 1.  Each entry goes to the symbol *)
(* that may have it and is due first.  All of it is integer arithmetic,    *)
(* evaluated at compile time.                                              *)
(*                                                                         *)
(* A step is one iteration of the loop over symbols, of the binary search  *)
(* inside it, or of the loop over entries around it.                       *)
(***************************************************************************)
EXTENDS Integers, FiniteSets, Sums

CONSTANTS
  M,             \* the number of symbols
  MaxFrequency   \* bound: frequencies that are tried

ASSUME BoundsAssumption == M \in Nat \ {0} /\ MaxFrequency \in Nat

VARIABLES
  frequencies,  \* how often each symbol is to occur
  table,        \* the entries that have been written, indexed from 0
  numAllocs,    \* numAllocs: the entries settled for each symbol
  i,            \* the entry being filled
  s,            \* the symbol being looked at
  u,            \* the earliest deadline seen for this entry, or Limit
  searching,    \* findEarliestdeadline is running
  lower, upper  \* its variables

scan == <<i, s, u>>
interval == <<lower, upper>>
vars == <<frequencies, table, numAllocs, scan, searching, interval>>

Symbols == 0 .. M - 1
TableSize == SumTo(frequencies, M)
Limit == 2 * TableSize

(* How many of the first n entries symbol c is owed, rounded down *)
Share(c, n) == (frequencies[c] * n) \div TableSize

Start ==
  /\ table = [n \in {} |-> 0]
  /\ numAllocs = [c \in Symbols |-> 0]
  /\ i = 0 /\ s = 0 /\ u = Limit
  /\ searching = FALSE /\ lower = 0 /\ upper = 0

Init == frequencies \in [Symbols -> 1 .. MaxFrequency] /\ Start

(* A mistake: the share is rounded up.                                         *)
EligibleRoundedUp(c) ==
  numAllocs[c] = (frequencies[c] * i + TableSize - 1) \div TableSize

(* A mistake: symbols may run ahead of their share.                            *)
EligibleAlways(c) == numAllocs[c] >= Share(c, i)

(* The symbol has not had more than its share so far. *)
Eligible(c) == numAllocs[c] = Share(c, i)

(* A mistake: the deadline of the symbol's previous entry is compared.         *)
NotLaterOffByOne(c) == u = Limit \/ Share(c, u) >= numAllocs[c]

(* A mistake: the first symbol that is seen keeps the entry.                   *)
FirstCome(c) == u = Limit

(* No deadline has been seen yet, or this symbol's is not later. *)
NotLater(c) == u = Limit \/ Share(c, u) >= numAllocs[c] + 1

Scanning == i < TableSize /\ s \in Symbols /\ ~ searching

Skip ==
  /\ Scanning
  /\ ~ (Eligible(s) /\ NotLater(s))
  /\ s' = s + 1
  /\ UNCHANGED <<frequencies, table, numAllocs, i, u, searching, interval>>

(* findEarliestdeadline(i, u, frequencies[s], tableSize, numAllocs[s] + 1) *)
BeginSearch ==
  /\ Scanning
  /\ Eligible(s) /\ NotLater(s)
  /\ searching' = TRUE
  /\ lower' = i /\ upper' = u
  /\ UNCHANGED <<frequencies, table, numAllocs, scan>>

Mid == lower + ((upper - lower) \div 2)

Halve ==
  /\ searching /\ lower < upper
  /\ IF Share(s, Mid) >= numAllocs[s] + 1
     THEN upper' = Mid /\ lower' = lower
     ELSE lower' = Mid + 1 /\ upper' = upper
  /\ UNCHANGED <<frequencies, table, numAllocs, scan, searching>>

(* It returns upper: the symbol takes the entry, for now. *)
EndSearch ==
  /\ searching /\ lower >= upper
  /\ IF upper <= u
     THEN /\ table' = [n \in DOMAIN table \cup {i} |-> IF n = i THEN s ELSE table[n]]
          /\ u' = upper
     ELSE UNCHANGED <<table, u>>
  /\ searching' = FALSE
  /\ s' = s + 1
  /\ UNCHANGED <<frequencies, numAllocs, i, interval>>

(* An entry that no symbol has taken would be read here without a value,    *)
(* which a compiler rejects.                                                *)
NextEntry ==
  /\ i < TableSize /\ s = M
  /\ i \in DOMAIN table
  /\ numAllocs' = [numAllocs EXCEPT ![table[i]] = @ + 1]
  /\ i' = i + 1
  /\ s' = 0
  /\ u' = Limit
  /\ UNCHANGED <<frequencies, table, searching, interval>>

(* The table is complete. *)
Return == i = TableSize /\ UNCHANGED vars

Next == Skip \/ BeginSearch \/ Halve \/ EndSearch \/ NextEntry \/ Return

(* The generator as it may be called: with frequencies that are positive,   *)
(* as the assertion of line 98 asks.                                        *)
Spec == Init /\ [][Next]_vars

-----------------------------------------------------------------------------
(* How often symbol c occurs in the entries that have been settled *)
Occurrences(c) == Cardinality({n \in 0 .. i - 1 : table[n] = c})

(* Types: the entries are symbols, and there is no gap between them; the    *)
(* counts are those of the table.                                           *)
TypeOK ==
  /\ i \in 0 .. TableSize
  /\ s \in 0 .. M
  /\ u \in 0 .. Limit
  /\ searching \in BOOLEAN
  /\ lower \in 0 .. Limit /\ upper \in 0 .. Limit
  /\ DOMAIN table \in {0 .. i - 1, 0 .. i}
  /\ \A n \in DOMAIN table : table[n] \in Symbols
  /\ numAllocs = [c \in Symbols |-> Occurrences(c)]

(* Every entry finds a symbol that may have it.  With divisions rounded     *)
(* down on one side of the test of line 111 this is not obvious, and        *)
(* otherwise an indeterminate value would index the array.                  *)
EntryAssigned == (i < TableSize /\ s = M) => i \in DOMAIN table

(* No symbol ever falls behind its share: when several symbols are due,     *)
(* serving the earliest deadline first leaves time for the others.  The     *)
(* test for equality in line 111 would pass over a late symbol for good.    *)
NoMissedDeadline == \A c \in Symbols : Occurrences(c) >= Share(c, i)

(* No symbol is ever a full entry or more ahead of its share.  Together     *)
(* with the previous one this is what the comment before the generator      *)
(* (lines 82-85) promises of every prefix of the table.                     *)
NeverTooEarly ==
  \A c \in Symbols : (Occurrences(c) - 1) * TableSize < frequencies[c] * i

(* Whenever an entry is settled it goes to a symbol that may have it, and   *)
(* no other such symbol is due earlier; the binary search and the shortcut  *)
(* of line 112 that avoids it must agree with this definition.              *)
DeadlineOrder ==
  [][i' # i => /\ Eligible(table[i])
               /\ \A c \in Symbols, n \in 0 .. TableSize :
                    Eligible(c) /\ Share(c, n) >= numAllocs[c] + 1
                      => Share(table[i], n) >= numAllocs[table[i]] + 1]_vars

(* The assertions of lines 66 and 67 hold in every iteration of the search, *)
(* not only when it begins: the deadline stays between the two ends.        *)
DeadlineBetween ==
  searching =>
    /\ lower <= upper
    /\ Share(s, upper) >= numAllocs[s] + 1
    /\ lower = 0 \/ Share(s, lower - 1) < numAllocs[s] + 1
=============================================================================
