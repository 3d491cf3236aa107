----------------------------- MODULE SpscChannel -----------------------------
(***************************************************************************)
(* What a RingBuffer promises its one producer and its one consumer: a      *)
(* first-in-first-out queue of at most Capacity elements, to which the      *)
(* batch the producer asks to push is added as a whole or not at all.       *)
(***************************************************************************)
EXTENDS Integers, Sequences

CONSTANTS Capacity, Values, Batches   \* Batches: the lengths of batches

VARIABLES
  queue,      \* the elements, oldest first
  request,    \* the elements of the push in progress, empty if there is none
  delivered   \* what the latest successful pop returned

vars == <<queue, request, delivered>>

Init ==
  /\ queue = <<>>
  /\ request = <<>>
  /\ delivered \notin Values

Request(batch) ==
  /\ request = <<>>
  /\ request' = batch
  /\ UNCHANGED <<queue, delivered>>

(* push returns true ...                                                    *)
Push ==
  /\ request # <<>>
  /\ Len(queue) + Len(request) <= Capacity
  /\ queue' = queue \o request
  /\ request' = <<>>
  /\ UNCHANGED delivered

(* ... or false, and nothing has happened.                                  *)
Refuse ==
  /\ request # <<>>
  /\ request' = <<>>
  /\ UNCHANGED <<queue, delivered>>

Pop ==
  /\ queue # <<>>
  /\ delivered' = Head(queue)
  /\ queue' = Tail(queue)
  /\ UNCHANGED request

Next ==
  \/ \E n \in Batches : \E batch \in [1 .. n -> Values] : Request(batch)
  \/ Push \/ Refuse \/ Pop

Spec == Init /\ [][Next]_vars
=============================================================================
