---------------------------- MODULE QueueContract ----------------------------
(***************************************************************************)
(* What the queue relies on and the network and the tables provide, as     *)
(* facts about constant arrays.  SpapQueue assumes them; QNetwork states   *)
(* them of every network it constructs.  Workers are 0 .. n - 1, channels  *)
(* 0 .. m - 1, and n as a target marks a channel to the own worker.        *)
(***************************************************************************)
EXTENDS Integers, Sequences

(* The worker that receives from channel c *)
ReceiverOf(n, source, targets, c) == IF targets[c] = n THEN source[c] ELSE targets[c]

(* The channels join workers, and a batch fits into a buffer.               *)
IsNetwork(n, m, source, targets, batch, maxBatch, bufferSize) ==
  /\ n \in Nat \ {0}
  /\ m \in Nat \ {0}
  /\ source \in [0 .. m - 1 -> 0 .. n - 1]
  /\ targets \in [0 .. m - 1 -> 0 .. n]
  /\ batch \in [0 .. m - 1 -> 1 .. maxBatch]
  /\ maxBatch \in Nat /\ bufferSize \in Nat
  /\ maxBatch <= bufferSize

(* inPorts[w] lists the channels whose ring buffers w polls: at least one,  *)
(* all of them lead to w, and none that does is missing.                    *)
ArePorts(n, m, source, targets, inPorts) ==
  /\ DOMAIN inPorts = 0 .. n - 1
  /\ \A w \in 0 .. n - 1 :
       /\ inPorts[w] \in Seq(0 .. m - 1) /\ Len(inPorts[w]) > 0
       /\ \A p \in 1 .. Len(inPorts[w]) : ReceiverOf(n, source, targets, inPorts[w][p]) = w
  /\ \A c \in 0 .. m - 1 :
       LET w == ReceiverOf(n, source, targets, c)
       IN  \E p \in 1 .. Len(inPorts[w]) : inPorts[w][p] = c

(* tables[w] says over which of its channels w is to send, in turn.         *)
AreTables(n, m, source, tables) ==
  /\ DOMAIN tables = 0 .. n - 1
  /\ \A w \in 0 .. n - 1 :
       /\ tables[w] \in Seq(0 .. m - 1) /\ Len(tables[w]) > 0
       /\ \A k \in 1 .. Len(tables[w]) : source[tables[w][k]] = w
=============================================================================
