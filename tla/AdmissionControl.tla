-------------------------- MODULE AdmissionControl --------------------------
(***************************************************************************)
(* What the continuous route promises about admission: it is a bank that   *)
(* lends its token budget and its session keys.  A request is admitted     *)
(* once, beside those whose reservations still fit and whose session is    *)
(* not its own, and gives everything back when it ends.  There is no       *)
(* queue, no worker and no counter that could be wrong.                    *)
(***************************************************************************)
EXTENDS Integers, FiniteSetsExt

CONSTANTS Requests, Reserve, Key, NoKey, MaxTotal

VARIABLES admitted,   \* requests that hold a reservation
          ended       \* requests whose answer is there

Init == admitted = {} /\ ended = {}

\* A set of requests that can be served together.
Fits(S) ==
  /\ MapThenSumSet(LAMBDA r : Reserve[r], S) <= MaxTotal
  /\ \A r, s \in S : r # s /\ Key[r] = Key[s] => Key[r] = NoKey

Admit(r) ==
  /\ r \notin admitted \cup ended /\ Fits(admitted \cup {r})
  /\ admitted' = admitted \cup {r} /\ UNCHANGED ended

\* The last token, an error, a cancellation or the end of the worker.
End(S) == admitted' = admitted \ S /\ ended' = ended \cup S

Next == \/ \E r \in Requests : Admit(r)
        \/ \E S \in (SUBSET admitted) \ {{}} : End(S)
Spec == Init /\ [][Next]_<<admitted, ended>>
=============================================================================
