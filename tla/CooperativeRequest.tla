------------------------- MODULE CooperativeRequest -------------------------
(***************************************************************************)
(* cooperative_request.hpp: request controllers that each run on a thread  *)
(* of their own and hand control back and forth with one scheduler thread. *)
(* resume() wakes a controller and waits until it yields or ends; yield()  *)
(* publishes an event on the controller's own stack and waits; the         *)
(* destructor stops a controller wherever it is and joins it.  Every       *)
(* critical section under a controller's mutex_ is one step.  The bodies   *)
(* are arbitrary: they yield or end, and while they unwind they may still  *)
(* call yield.                                                             *)
(***************************************************************************)
EXTENDS Naturals, FiniteSets

CONSTANT Controllers
ASSUME SomeController == Controllers # {}

VARIABLES op, of,     \* what the scheduler thread is doing, and to which controller
          held,       \* controllers whose event pointer the scheduler holds
          state,      \* state_ : Ready, Running, Yielded, Done
          stopping,   \* stopping_
          event,      \* event_ is not null
          pc          \* place of a controller's thread; "gone" once joinable and over
handoverVars == <<op, of, held, state, stopping, event, pc>>

HandoverInit ==
  /\ op = "free" /\ of \in Controllers /\ held = {}
  /\ state = [c \in Controllers |-> "Ready"] /\ stopping = [c \in Controllers |-> FALSE]
  /\ event = [c \in Controllers |-> FALSE] /\ pc = [c \in Controllers |-> "start"]

\* resume() throws for a running or a stopped controller, and returns null for one
\* that is done.
Resumable(c) == state[c] \in {"Ready", "Yielded"} /\ ~stopping[c]

\* Mutant: the pointer of the previous event is kept.
LetGo_Kept(c) == held
\* The scheduler forgets the event before the controller moves on.
LetGo(c) == held \ {c}

Resume(c) ==
  /\ op = "free" /\ Resumable(c) /\ op' = "resume" /\ of' = c /\ held' = LetGo(c)
  /\ state' = [state EXCEPT ![c] = "Running"] /\ UNCHANGED <<stopping, event, pc>>

\* Mutant: resume returns as soon as it has woken the controller.
Returns_AtOnce(c) == TRUE
\* resume() waits until its controller no longer runs.
Returns(c) == state[c] # "Running"

ResumeReturns ==
  /\ op = "resume" /\ Returns(of) /\ op' = "free"
  /\ held' = IF event[of] THEN held \cup {of} ELSE held
  /\ UNCHANGED <<of, state, stopping, event, pc>>

\* The destructor: finish() forgets the event, stopping_ is set, the thread joined.
Destroy(c) ==
  /\ op = "free" /\ ~stopping[c] /\ op' = "join" /\ of' = c /\ held' = LetGo(c)
  /\ stopping' = [stopping EXCEPT ![c] = TRUE] /\ UNCHANGED <<state, event, pc>>

Joined ==
  /\ op = "join" /\ pc[of] = "gone" /\ op' = "free"
  /\ UNCHANGED <<of, held, state, stopping, event, pc>>

\* What follows a wait: the body, or for a stopped controller the exception, which
\* leaves a body that never began with nothing to unwind.
AfterWait(c) ==
  IF ~stopping[c] THEN "body" ELSE IF pc[c] = "start" THEN "exit" ELSE "unwind"

\* The first wait of the thread, or the wait of a yield, is over.
Wake(c) ==
  /\ pc[c] \in {"start", "yielded"} /\ (state[c] = "Running" \/ stopping[c])
  /\ pc' = [pc EXCEPT ![c] = AfterWait(c)] /\ event' = [event EXCEPT ![c] = FALSE]
  /\ UNCHANGED <<op, of, held, state, stopping>>

\* Mutant: yield does not insist on being called by the running controller.
MayYield_Anyone(c) == TRUE
MayYield(c) == state[c] = "Running"

\* yield() from the body, or from a destructor of a stopped one, which throws.
Yield(c) ==
  /\ pc[c] \in {"body", "unwind"} /\ MayYield(c)
  /\ event' = [event EXCEPT ![c] = TRUE] /\ state' = [state EXCEPT ![c] = "Yielded"]
  /\ pc' = [pc EXCEPT ![c] = "yielded"] /\ UNCHANGED <<op, of, held, stopping>>

\* The body returned or threw, or its unwinding is over.
BodyEnds(c) ==
  /\ pc[c] \in {"body", "unwind"} /\ pc' = [pc EXCEPT ![c] = "exit"]
  /\ UNCHANGED <<op, of, held, state, stopping, event>>

Exit(c) ==
  /\ pc[c] = "exit" /\ pc' = [pc EXCEPT ![c] = "gone"]
  /\ state' = [state EXCEPT ![c] = "Done"] /\ event' = [event EXCEPT ![c] = FALSE]
  /\ UNCHANGED <<op, of, held, stopping>>

Thread(c) == Wake(c) \/ Yield(c) \/ BodyEnds(c) \/ Exit(c)
HandoverNext ==
  \/ \E c \in Controllers : Resume(c) \/ Destroy(c) \/ Thread(c)
  \/ ResumeReturns \/ Joined
HandoverSpec == HandoverInit /\ [][HandoverNext]_handoverVars
\* Threads are scheduled and a running body comes to its next yield or its end.
FairHandover ==
  /\ HandoverSpec /\ WF_handoverVars(ResumeReturns) /\ WF_handoverVars(Joined)
  /\ \A c \in Controllers : WF_handoverVars(Thread(c))

-----------------------------------------------------------------------------
(* Properties. *)

\* Every variable has its type.
HandoverTypes ==
  /\ op \in {"free", "resume", "join"} /\ of \in Controllers /\ held \subseteq Controllers
  /\ state \in [Controllers -> {"Ready", "Running", "Yielded", "Done"}]
  /\ stopping \in [Controllers -> BOOLEAN] /\ event \in [Controllers -> BOOLEAN]
  /\ pc \in [Controllers -> {"start", "body", "yielded", "unwind", "exit", "gone"}]

\* Request code, which uses the shared backend.
UsesBackend(c) == pc[c] \in {"body", "unwind"}

\* The backend is used by one thread at a time: at most one controller runs its body or
\* unwinds it, and only while the scheduler waits for that very controller.
OneRuns == \A c \in Controllers : UsesBackend(c) => op # "free" /\ of = c

\* An event the scheduler still holds lives on the stack of a controller that waits in
\* the yield that published it.
EventLive == \A c \in held : event[c] /\ pc[c] = "yielded"

\* The handshake of one controller: state_ runs ahead of the thread when the scheduler
\* wakes it and behind it when it stops it, and nobody else is being waited for.
Handshake(c) ==
  /\ state[c] = "Running" => op = "resume" /\ of = c
  /\ stopping[c] /\ pc[c] # "gone" => op = "join" /\ of = c
  /\ pc[c] = "start" => state[c] \in {"Ready", "Running"}
  /\ pc[c] = "body" => state[c] = "Running"
  /\ pc[c] = "yielded" => state[c] \in {"Yielded", "Running"}
  /\ pc[c] = "unwind" => stopping[c] /\ state[c] = "Yielded"
  /\ pc[c] = "exit" => stopping[c] \/ state[c] = "Running"
  /\ pc[c] = "gone" => state[c] = "Done"
  /\ event[c] <=> pc[c] = "yielded"
  /\ c \in held => event[c] /\ state[c] = "Yielded" /\ ~stopping[c]

\* What the scheduler and the threads rely on at every handover, for all controllers.
HandshakeOK == HandoverTypes /\ \A c \in Controllers : Handshake(c)

\* A stopped controller never gets back into its body: one that never started runs none
\* of it, a suspended one only unwinds.
StopIsFinal ==
  [][\A c \in Controllers : stopping[c] /\ pc[c] # "body" => pc'[c] # "body"]_handoverVars

\* resume() and the destructor return, whatever the controller was doing.
SchedulerReturns == op # "free" ~> op = "free"
=============================================================================
