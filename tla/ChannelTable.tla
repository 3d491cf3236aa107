----------------------------- MODULE ChannelTable -----------------------------
(***************************************************************************)
(* The table that tells a worker over which of its outgoing channels to    *)
(* send next (Discrepancy/QNetworkTables.hpp): the earliest deadline first *)
(* table for frequencies that follow from the multiplicities and batch     *)
(* sizes of the channels.                                                  *)
(***************************************************************************)
EXTENDS EarliestDeadlineFirst, Functions, FiniteSetsExt

CONSTANTS
  MaxMultiplicity,  \* bound: multiplicities of the channels
  MaxBatch          \* bound: batch sizes of the channels

ASSUME ChannelAssumption == MaxMultiplicity \in Nat /\ MaxBatch \in Nat

VARIABLES
  multiplicities,   \* multiplicities_ of the worker's channels
  batchSize         \* batchSize_ of the worker's channels

tableVars == <<vars, multiplicities, batchSize>>

(* std::gcd and std::lcm *)
Gcd(a, b) == IF a = 0 THEN b ELSE Max({d \in 1 .. a : a % d = 0 /\ b % d = 0})
Lcm(a, b) == (a * b) \div Gcd(a, b)

ReducedIntegerArray(arr) ==
  LET commonGCD == FoldFunction(Gcd, 0, arr)
  IN  IF commonGCD = 0 THEN arr ELSE [c \in DOMAIN arr |-> arr[c] \div commonGCD]

(* A mistake: the batch sizes multiply the frequencies instead of dividing.   *)
FrequenciesTimesBatch(mult, batch) ==
  ReducedIntegerArray([c \in DOMAIN mult |-> mult[c] * batch[c]])

(* A mistake: each multiplicity is divided by its batch size, and rounded.     *)
FrequenciesRounded(mult, batch) ==
  ReducedIntegerArray([c \in DOMAIN mult |-> mult[c] \div batch[c]])

(* A channel with larger batches is to be used less often. *)
QNetworkTableFrequencies(mult, batch) ==
  LET batchSizeLCM == FoldFunction(Lcm, 1, batch)
  IN  ReducedIntegerArray([c \in DOMAIN mult |-> mult[c] * (batchSizeLCM \div batch[c])])

ChannelInit ==
  /\ multiplicities \in [Symbols -> 1 .. MaxMultiplicity]
  /\ batchSize \in [Symbols -> 1 .. MaxBatch]
  /\ frequencies = QNetworkTableFrequencies(multiplicities, batchSize)
  /\ Start

ChannelNext == Next /\ UNCHANGED <<multiplicities, batchSize>>

ChannelSpec == ChannelInit /\ [][ChannelNext]_tableVars

(* Over one round of the complete table the tasks sent over two channels    *)
(* are in the proportion of the channels' multiplicities, whatever the      *)
(* batch sizes they are sent in.                                            *)
WorkShared ==
  i = TableSize =>
    \A c, d \in Symbols :
      multiplicities[d] * batchSize[c] * Occurrences(c)
        = multiplicities[c] * batchSize[d] * Occurrences(d)
=============================================================================
