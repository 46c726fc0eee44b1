----------------------- MODULE MCControlledScheduler ------------------------
(* Three requests on two rows; requests 1 and 3 share a session. *)
EXTENDS ControlledScheduler

Sessions == [r \in Requests |-> IF r = 2 THEN "m" ELSE "k"]
Prompts == [r \in Requests |-> IF r = 2 THEN 2 ELSE 1]
Brief == [r \in Requests |-> 1]
Mode(i, a, o, d, q) ==
  [independent |-> i, admission |-> a, oldest |-> o, drafts |-> d, query |-> q]
\* Joint prefill; independent prefill, oldest first and in round robin: every switch both ways.
SomeModes == {Mode(FALSE, FALSE, FALSE, TRUE, FALSE), Mode(TRUE, FALSE, TRUE, FALSE, TRUE),
              Mode(TRUE, TRUE, FALSE, TRUE, FALSE)}
=============================================================================
