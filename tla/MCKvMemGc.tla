----------------------------- MODULE MCKvMemGc -----------------------------
(* Small instances of KvMemGc. *)
EXTENDS KvMemGc, TLC

CONSTANTS store_view, io_view, window

LowHigh == {[i \in Ids |-> IF i = 0 THEN "low" ELSE "high"]}
WorkBound == [shadowMode \in BOOLEAN |-> IF shadowMode THEN 5 ELSE 6]
============================================================================
