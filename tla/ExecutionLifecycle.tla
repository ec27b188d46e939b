------------------------- MODULE ExecutionLifecycle -------------------------
(***************************************************************************)
(* What the engine promises of executions: the state machine of the        *)
(* handbook (docs/handbook/agreement-workflow.md, "Execution state         *)
(* machine"), read off the guards of the repository methods, and the one   *)
(* state that the handbook does not have.  Cancelling an execution does    *)
(* not stop the pool thread that works on it: the execution is overtaken   *)
(* until that thread, and whoever retried it meanwhile, are done.          *)
(* WorkflowEngine implements it.                                           *)
(***************************************************************************)
CONSTANTS
    Executions,
    Threads      \* pool threads: without them nothing is overtaken

VARIABLES
    state,  \* what an execution is seen to be doing
    loop    \* the execution that the event loop works on, if any

Settled == {"waiting", "orphaned", "succeeded", "failed", "cancelled"}
States  == Settled \cup {"none", "working", "overtaken", "deleted"}

Among(e, S) == state[e] \in S
Enter(e, s) == state' = [state EXCEPT ![e] = s]

(* The event loop works on one execution at a time. *)
Idle     == loop = {}
Take(e)  == Idle /\ loop' = {e}
Leave(e) == loop' = loop \ {e}

(* By the event loop, or by a pool thread. *)
Begin(e) ==
    /\ Among(e, {"none"}) /\ Enter(e, "working")
    /\ Take(e) \/ (Threads # {} /\ UNCHANGED loop)

Wait(e)   == Among(e, {"working"}) /\ Enter(e, "waiting") /\ Leave(e)
End(e)    == Among(e, {"working"}) /\ (\E s \in {"succeeded", "failed"} : Enter(e, s)) /\ Leave(e)
Answer(e) == Among(e, {"waiting"}) /\ Enter(e, "working") /\ Take(e)
Retry(e)  == Among(e, {"failed", "cancelled"}) /\ Enter(e, "working") /\ Take(e)

(* Whatever a pool thread works on while the event loop is free. *)
Cancel(e) ==
    /\ Idle /\ UNCHANGED loop
    /\ \/ Among(e, {"waiting", "orphaned"}) /\ Enter(e, "cancelled")
       \/ Among(e, {"working"}) /\ Enter(e, "overtaken")

(* An overtaken execution is retried, or what its thread made of it is     *)
(* answered ...                                                            *)
Renew(e) == Among(e, {"overtaken"}) /\ UNCHANGED state /\ Take(e)

(* ... and the thread leaves it to the event loop, or this to the thread.  *)
Yield(e) ==
    /\ Among(e, {"overtaken"})
    /\ \/ e \in loop /\ Enter(e, "working") /\ UNCHANGED loop
       \/ UNCHANGED state /\ Leave(e)

(* The last of them leaves it in whatever state they wrote.  A worker that *)
(* is alone leaves in the middle when a crash or an edit stops it: a first *)
(* run is orphaned, a resumed one waits for an answer again.  A crash does *)
(* this to all.                                                            *)
Abandon(S) ==
    /\ S # {} /\ \A e \in S : state[e] \in {"working", "overtaken"}
    /\ \E to \in [S -> Settled] :
          /\ \A e \in S : state[e] = "working" => to[e] \in {"orphaned", "waiting"}
          /\ state' = [e \in Executions |-> IF e \in S THEN to[e] ELSE state[e]]
    /\ loop' = loop \ S

(* Ended executions are deleted by choice, any with their workflow. *)
Delete(S) ==
    /\ Idle /\ UNCHANGED loop
    /\ S # {} /\ \A e \in S : state[e] \notin {"none", "deleted"}
    /\ state' = [e \in Executions |-> IF e \in S THEN "deleted" ELSE state[e]]

Init == state = [e \in Executions |-> "none"] /\ loop = {}

Next ==
    \/ \E e \in Executions :
          \/ Begin(e) \/ Wait(e) \/ End(e) \/ Answer(e) \/ Retry(e)
          \/ Cancel(e) \/ Renew(e) \/ Yield(e)
    \/ \E S \in SUBSET Executions : Abandon(S) \/ Delete(S)

Spec == Init /\ [][Next]_<<state, loop>>
=============================================================================
