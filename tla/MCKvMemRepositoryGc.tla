------------------------ MODULE MCKvMemRepositoryGc ------------------------
(* The policy worker and its foreground on small repositories.             *)
EXTENDS KvMemRepositoryGc
=============================================================================
