----------------------------- MODULE MCSpapQueue -----------------------------
(* Networks on which TLC checks SpapQueue.                                  *)
EXTENDS SpapQueue, TLC

(* The heterogeneous two-worker network of the tests (vertex pointers       *)
(* {0, 1, 3}, edge targets {1, 0, 1}): worker 1 has a self-push channel.    *)
TwoSource == 0 :> 0 @@ 1 :> 1 @@ 2 :> 1
TwoEdgeTargets == 0 :> 1 @@ 1 :> 0 @@ 2 :> 2
TwoInPorts == 0 :> <<1>> @@ 1 :> <<0, 2>>
TwoBatchSize == 0 :> 2 @@ 1 :> 1 @@ 2 :> 2
TwoTable == 0 :> <<0>> @@ 1 :> <<1, 2>>

(* The same graph with the batches exchanged, so that worker 0 soon finds   *)
(* its channel full.                                                        *)
LiveBatchSize == 0 :> 1 @@ 1 :> 2 @@ 2 :> 1
=============================================================================
