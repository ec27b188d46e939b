-------------------------- MODULE ProductLifecycle --------------------------
(***************************************************************************)
(* Status, publication and certification of data products                  *)
(* (controller/data_products_manager.py, routes/data_product_routes.py),   *)
(* the before_status_change gate (common/workflow_triggers.py) and what    *)
(* workflows write to a product (common/workflow_executor.py).             *)
(*                                                                         *)
(* The endpoints run to their end on the event loop.  The handlers that    *)
(* commit more than once are split at their commits, with `loop' holding   *)
(* where the running one is: a crash may come in between, and so may the   *)
(* workflow steps that pool threads run.  The execution of a review        *)
(* (module WorkflowEngine) is seen here as waiting, decided, stopped (it   *)
(* failed without an answer, or was cancelled) or ended.                   *)
(***************************************************************************)
EXTENDS Database, Naturals

CONSTANTS
    Products,   \* ids of data_products rows
    Reviews,    \* ids of ON_REQUEST_REVIEW executions
    MaxFaults   \* bound on crashes

ASSUME NullAssumption == NULL \notin Products \cup Reviews

ASSUME BoundAssumption == MaxFaults \in Nat

VARIABLES
    status,     \* data_products.status
    published,  \* publication_scope is not "none"
    certified,  \* certification_level is not null
    ready,      \* every output port has an approved or active contract
    review,     \* the review executions
    gate,       \* outcomes of the gate executions of the last transition
    loop,       \* the handler that is between two commits
    forced,     \* products that a workflow or an update wrote to
    faults      \* crashes so far

vars == <<status, published, certified, ready, review, gate, loop, forced, faults>>

-----------------------------------------------------------------------------
Statuses == {"draft", "sandbox", "proposed", "under_review", "approved",
             "active", "deprecated", "retired"}

(* DATA_PRODUCT_TRANSITIONS. *)
Transitions ==
    [draft        |-> {"sandbox", "proposed", "deprecated"},
     sandbox      |-> {"draft", "proposed", "deprecated"},
     proposed     |-> {"draft", "under_review", "deprecated"},
     under_review |-> {"draft", "approved", "deprecated"},
     approved     |-> {"active", "draft", "deprecated"},
     active       |-> {"deprecated"},
     deprecated   |-> {"retired", "active"},
     retired      |-> {}]

(* An execution of a gate workflow; `lost' when it raised and fire_trigger *)
(* left it out.                                                            *)
GateOutcomes == {"succeeded", "failed", "paused", "lost"}

AllPassed(outcomes) == outcomes \subseteq {"succeeded", "lost"}

(* How the gate's code ends.  The text of the refusal is put together from *)
(* `e.step_results', a field that executions do not have.                  *)
GateEnd(outcomes) == IF AllPassed(outcomes) THEN "passed" ELSE "AttributeError"

(* Anything raised but ValueError is logged as non-fatal. *)
GateStops(outcomes) == GateEnd(outcomes) = "ValueError"

NoReview == [state |-> "none", product |-> NULL]

Idle == [at |-> "idle", product |-> NULL, review |-> NULL]

(* Mutant: endpoints on the thread pool instead of the event loop. *)
LoopNeverBusy == TRUE

LoopFree == loop.at = "idle"

Suspend(at, p) == loop' = [at |-> at, product |-> p, review |-> NULL]

(* transition_status, up to its commit.  Its on_status_change trigger runs *)
(* steps that only EntityAction would show here.                           *)
Transition(p, s) ==
    /\ s \in Transitions[status[p]]
    /\ \E outcomes \in SUBSET GateOutcomes :
         /\ ~GateStops(outcomes)
         /\ gate' = [gate EXCEPT ![p] = outcomes]
    /\ status' = [status EXCEPT ![p] = s]

(* change-status, handle-status-change and the named transitions.          *)
ChangeStatus(p, s) ==
    /\ LoopFree
    /\ Transition(p, s)
    /\ UNCHANGED <<published, certified, ready, review, loop, forced, faults>>

(* request_review: three steps, each ending in a commit. *)
RequestReview(p) ==
    /\ LoopFree
    /\ status[p] \in {"draft", "sandbox"}
    /\ Transition(p, "proposed")
    /\ Suspend("start_review", p)
    /\ UNCHANGED <<published, certified, ready, review, forced, faults>>

StartReview ==
    /\ loop.at = "start_review"
    /\ Transition(loop.product, "under_review")
    /\ Suspend("fire_review", loop.product)
    /\ UNCHANGED <<published, certified, ready, review, forced, faults>>

(* What execute_workflow leaves of a review: it waits for its reviewer, or *)
(* it ends or fails without a pause, after which nothing completes it.     *)
Executed == {"waiting", "ended", "stopped"}

(* fire_trigger runs the review's workflow, if there is one.               *)
FireReview ==
    /\ loop.at = "fire_review"
    /\ \/ \E v \in Reviews, state \in Executed :
            /\ review[v].state = "none"
            /\ review' = [review EXCEPT ![v] =
                            [state |-> state, product |-> loop.product]]
       \/ UNCHANGED review
    /\ loop' = Idle
    /\ UNCHANGED <<status, published, certified, ready, gate, forced, faults>>

(* POST workflows/{id}/execute runs it on any product in any status.       *)
ExecuteReview(v, p) ==
    /\ LoopFree
    /\ review[v].state = "none"
    /\ \E state \in Executed :
         review' = [review EXCEPT ![v] = [state |-> state, product |-> p]]
    /\ UNCHANGED <<status, published, certified, ready, gate, loop, forced, faults>>

(* Mutant: the product is updated before the execution has ended. *)
AnswerReviewLater(v, decision) ==
    /\ LoopFree
    /\ review[v].state = "waiting"
    /\ loop' = [at |-> "complete", product |-> review[v].product, review |-> v]
    /\ UNCHANGED <<status, published, certified, ready, review, gate, forced, faults>>

(* resume_workflow commits the end of the execution, ... *)
AnswerReview(v, decision) ==
    /\ LoopFree
    /\ review[v].state = "waiting"
    /\ review' = [review EXCEPT ![v] = [@ EXCEPT !.state = decision]]
    /\ loop' = [at |-> "complete", product |-> review[v].product, review |-> v]
    /\ UNCHANGED <<status, published, certified, ready, gate, forced, faults>>

(* ... and _handle_workflow_completion then sets the status, whatever the  *)
(* product has become in the meantime.                                     *)
CompleteReview ==
    /\ loop.at = "complete"
    /\ status' = [status EXCEPT ![loop.product] =
                    IF review[loop.review].state = "approved" THEN "active" ELSE "draft"]
    /\ forced' = forced \cup {loop.product}
    /\ loop' = Idle
    /\ UNCHANGED <<published, certified, ready, review, gate, faults>>

(* cancel, of an execution that waits. *)
CancelReview(v) ==
    /\ LoopFree
    /\ review[v].state = "waiting"
    /\ review' = [review EXCEPT ![v] = [@ EXCEPT !.state = "stopped"]]
    /\ UNCHANGED <<status, published, certified, ready, gate, loop, forced, faults>>

(* retry_execution: the workflow runs again from its first step, whatever  *)
(* the product has become.                                                 *)
RetryReview(v) ==
    /\ LoopFree
    /\ review[v].state \in {"rejected", "stopped"}
    /\ \E state \in Executed : review' = [review EXCEPT ![v] = [@ EXCEPT !.state = state]]
    /\ UNCHANGED <<status, published, certified, ready, gate, loop, forced, faults>>

(* publish_product: one commit for the status, one for the scope. *)
PublishProduct(p) ==
    /\ LoopFree
    /\ p \in ready
    /\ Transition(p, "active")
    /\ Suspend("set_scope", p)
    /\ UNCHANGED <<published, certified, ready, review, forced, faults>>

FinishPublish ==
    /\ loop.at = "set_scope"
    /\ published' = published \cup {loop.product}
    /\ loop' = Idle
    /\ UNCHANGED <<status, certified, ready, review, gate, forced, faults>>

(* Mutant: a product that was only approved may be certified. *)
MayCertifyApproved(p) == status[p] \in {"approved", "active"}

MayPublish(p) == status[p] = "active"

MayCertify(p) == status[p] = "active"

(* set-publication-scope, handle-publish. *)
SetScope(p) ==
    /\ LoopFree
    /\ MayPublish(p)
    /\ published' = published \cup {p}
    /\ UNCHANGED <<status, certified, ready, review, gate, loop, forced, faults>>

Unpublish(p) ==
    /\ LoopFree
    /\ published' = published \ {p}
    /\ UNCHANGED <<status, certified, ready, review, gate, loop, forced, faults>>

(* certify, handle-certify. *)
Certify(p) ==
    /\ LoopFree
    /\ MayCertify(p)
    /\ certified' = certified \cup {p}
    /\ UNCHANGED <<status, published, ready, review, gate, loop, forced, faults>>

Decertify(p) ==
    /\ LoopFree
    /\ certified' = certified \ {p}
    /\ UNCHANGED <<status, published, ready, review, gate, loop, forced, faults>>

(* PUT /data-products/{id} with a status. *)
UpdateProduct(p, s) ==
    /\ LoopFree
    /\ status' = [status EXCEPT ![p] = s]
    /\ forced' = forced \cup {p}
    /\ UNCHANGED <<published, certified, ready, review, gate, loop, faults>>

(* PUT with other ports, or a contract that changes its status. *)
ChangePorts(p) ==
    /\ LoopFree
    /\ ready' = IF p \in ready THEN ready \ {p} ELSE ready \cup {p}
    /\ UNCHANGED <<status, published, certified, review, gate, loop, forced, faults>>

(* The entity_action step of any workflow, on any thread: it does not look *)
(* at the status.                                                          *)
EntityAction(p) ==
    /\ \/ published' \in {published \cup {p}, published \ {p}} /\ UNCHANGED certified
       \/ certified' \in {certified \cup {p}, certified \ {p}} /\ UNCHANGED published
    /\ forced' = forced \cup {p}
    /\ UNCHANGED <<status, ready, review, gate, loop, faults>>

(* The process stops, or the database fails: the handler ends where it is. *)
Crash ==
    /\ ~LoopFree
    /\ faults < MaxFaults
    /\ faults' = faults + 1
    /\ loop' = Idle
    /\ UNCHANGED <<status, published, certified, ready, review, gate, forced>>

Init ==
    /\ status = [p \in Products |-> "draft"]
    /\ published = {} /\ certified = {} /\ ready = {} /\ forced = {}
    /\ review = [v \in Reviews |-> NoReview]
    /\ gate = [p \in Products |-> {}]
    /\ loop = Idle
    /\ faults = 0

Next ==
    \/ \E p \in Products, s \in Statuses : ChangeStatus(p, s) \/ UpdateProduct(p, s)
    \/ \E p \in Products : RequestReview(p)
    \/ StartReview
    \/ FireReview
    \/ \E v \in Reviews, decision \in {"approved", "rejected"} : AnswerReview(v, decision)
    \/ CompleteReview
    \/ \E v \in Reviews : CancelReview(v) \/ RetryReview(v)
    \/ \E v \in Reviews, p \in Products : ExecuteReview(v, p)
    \/ \E p \in Products : PublishProduct(p)
    \/ FinishPublish
    \/ \E p \in Products : SetScope(p) \/ Unpublish(p)
    \/ \E p \in Products : Certify(p) \/ Decertify(p)
    \/ \E p \in Products : ChangePorts(p)
    \/ \E p \in Products : EntityAction(p)
    \/ Crash

Spec == Init /\ [][Next]_vars

-----------------------------------------------------------------------------
(* Properties.                                                             *)

(* The state is well formed: a handler between two commits knows its       *)
(* product, and one that completes a review a decided one of that product. *)
TypeOK ==
    /\ status \in [Products -> Statuses]
    /\ published \subseteq Products /\ certified \subseteq Products
    /\ ready \subseteq Products /\ forced \subseteq Products
    /\ review \in [Reviews -> [state   : {"none", "approved", "rejected"} \cup Executed,
                               product : Products \cup {NULL}]]
    /\ \A v \in Reviews : review[v].state # "none" => review[v].product \in Products
    /\ gate \in [Products -> SUBSET GateOutcomes]
    /\ \/ loop = Idle
       \/ /\ loop.at \in {"start_review", "fire_review", "set_scope"}
          /\ loop \in [at : {"start_review", "fire_review", "set_scope"},
                       product : Products, review : {NULL}]
       \/ /\ loop \in [at : {"complete"}, product : Products, review : Reviews]
          /\ review[loop.review].state \in {"approved", "rejected"}
          /\ review[loop.review].product = loop.product
    /\ faults \in 0..MaxFaults

(* A product that the marketplace shows or that carries a certification    *)
(* has been activated: whatever the order of transitions, publications,    *)
(* certifications and crashes, it is active, deprecated or retired, unless *)
(* a workflow or an update wrote to it.  publish_product looks at the      *)
(* status in one transaction and sets the scope in the next.               *)
Activated == {"active", "deprecated", "retired"}

ShownIsActivated ==
    \A p \in (published \cup certified) \ forced : status[p] \in Activated

(* A handler that continues after a commit finds what it committed: no     *)
(* other endpoint comes in between, and the steps that other threads run   *)
(* do not touch what it goes on to rely on.                                *)
HandlerSeesItsWrite ==
    /\ loop.at = "start_review" => status[loop.product] = "proposed"
    /\ loop.at = "fire_review" => status[loop.product] = "under_review"
    /\ loop.at = "set_scope" => status[loop.product] = "active" /\ loop.product \in ready

(* "Returns (all_passed, executions) so the caller can block the           *)
(* transition when any workflow fails." (before_status_change): a status   *)
(* is not written when a gate execution failed.  It fails: no outcome of   *)
(* the gate stops transition_status (run doc_gate).                        *)
GateHolds == \A p \in Products : "failed" \notin gate[p]
=============================================================================
