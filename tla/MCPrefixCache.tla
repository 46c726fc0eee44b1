--------------------------- MODULE MCPrefixCache ----------------------------
(* Prompts that extend one another, that branch and that are equal. *)
EXTENDS PrefixCache

Prompts == [r \in Requests |->
  CASE r = 1 -> <<"a", "b">> [] r = 2 -> <<"a", "b", "c">> [] r = 3 -> <<"a", "b", "d">>
    [] r = 4 -> <<"a", "b", "c", "e">> [] OTHER -> <<"f", "g">>]
=============================================================================
