------------------------------ MODULE TaskPool ------------------------------
(***************************************************************************)
(* What a SpapQueue promises about its tasks: members work on a pool, tasks *)
(* beget tasks, outsiders may add to a pool that is not empty, and a member *)
(* leaves when the pool is empty or when it was asked to stop.  The pool    *)
(* knows how many tasks are live; the queue has to find that out.           *)
(***************************************************************************)
EXTENDS Integers

CONSTANT Members

VARIABLES
  live,       \* the number of tasks that have been added and not been completed
  started,    \* the members work
  stopping,   \* a stop has been requested
  left        \* the members that have gone

vars == <<live, started, stopping, left>>

Init ==
  /\ live = 0
  /\ started = FALSE
  /\ stopping = FALSE
  /\ left = {}

(* Populating the pool, before it is started.                               *)
Load ==
  /\ ~started
  /\ live' = live + 1
  /\ UNCHANGED <<started, stopping, left>>

Start ==
  /\ ~started
  /\ started' = TRUE
  /\ UNCHANGED <<live, stopping, left>>

(* Only a pool that has tasks gets more.                                    *)
Add ==
  /\ started
  /\ live > 0
  /\ live' = live + 1
  /\ UNCHANGED <<started, stopping, left>>

(* A task is completed, or an announced one withdrawn.                      *)
Complete ==
  /\ started
  /\ live > 0
  /\ live' = live - 1
  /\ UNCHANGED <<started, stopping, left>>

RequestStop ==
  /\ stopping' = TRUE
  /\ UNCHANGED <<live, started, left>>

Leave(m) ==
  /\ started
  /\ live = 0 \/ stopping
  /\ left' = left \cup {m}
  /\ UNCHANGED <<live, started, stopping>>

Next == Load \/ Start \/ Add \/ Complete \/ RequestStop \/ \E m \in Members : Leave(m)

Spec == Init /\ [][Next]_vars
=============================================================================
