---------------------------- MODULE MCConsumers ----------------------------
(* Instances of Consumers for TLC.                                         *)
EXTENDS Consumers, TLC

CONSTANTS c1, c2

\* The detector looks at c2 first, about which its statements may fail.
TwoOrder == (c2 :> 1) @@ (c1 :> 2)
JobsOfEach == (c1 :> 4) @@ (c2 :> 1)
=============================================================================
