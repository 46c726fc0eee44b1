--------------------------- MODULE MCNvmeOverlay ----------------------------
(* Two segment writers, a full-slot writer and one or two readers. *)
EXTENDS NvmeOverlay, TLC

Ranges == "w1" :> {"main"} @@ "w2" :> {"mtp"} @@ "w3" :> {"main", "mtp"}
=============================================================================
