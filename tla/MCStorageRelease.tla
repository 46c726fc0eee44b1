-------------------------- MODULE MCStorageRelease --------------------------
(* Small instances of StorageRelease. *)
EXTENDS StorageRelease, TLC

BothTiers == {"raw", "values"}
=============================================================================
