--------------------------- MODULE MCKvMemArchive ---------------------------
(* Three inputs of three units, which share prefixes.                      *)
EXTENDS KvMemArchive

aba == <<"a", "b", "a">>
Surroundings ==
  { [corpora |-> {aba, <<"a", "a", "a">>, <<"b", "b", "a">>}, targets |-> {2, 3}, torn |-> FALSE],
    [corpora |-> {aba}, targets |-> {2, 3}, torn |-> TRUE],
    [corpora |-> {aba}, targets |-> {3}, torn |-> FALSE] }
=============================================================================
