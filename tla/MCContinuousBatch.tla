------------------------- MODULE MCContinuousBatch --------------------------
(* Three requests; "a" and "b" belong to one session. *)
EXTENDS ContinuousBatch, TLC

Mixed == [r \in Batched |-> IF r = "a" THEN 2 ELSE 1]
Shared == [r \in Batched |-> IF r \in {"a", "b"} THEN "k" ELSE NoKey]
=============================================================================
