------------------------ MODULE MCCooperativeRequest ------------------------
(* Three controllers; they are interchangeable but for the first value of `of'. *)
EXTENDS CooperativeRequest
=============================================================================
