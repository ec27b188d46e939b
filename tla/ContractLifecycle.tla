------------------------- MODULE ContractLifecycle -------------------------
(***************************************************************************)
(* Status and publication of data contracts: the endpoints that move a     *)
(* contract (controller/data_contracts_manager.py, routes/                 *)
(* data_contracts_routes.py) and what workflows write to it                *)
(* (common/workflow_executor.py).  There are three ways to change a        *)
(* status, with two different transition maps and one without any.  Each   *)
(* action is one request on the event loop, or one commit of a workflow.   *)
(* Notifications, the change log and the before_status_change gate, which  *)
(* can only refuse (module ProductLifecycle), are left out; whether a      *)
(* contract has a schema, which a review asks for, is not modelled.        *)
(***************************************************************************)
EXTENDS Governance

CONSTANTS
    Contracts,  \* ids of data_contracts rows
    MaxOpen     \* bound on executions of one contract that are not over

ASSUME MaxOpenAssumption == MaxOpen \in Nat

VARIABLES
    contract,     \* data_contracts.status, or that there is no row
    public,       \* publication_scope is not "none"
    open,         \* ON_REQUEST_PUBLISH executions that wait or run
    stopped,      \* and those that failed or were cancelled
    was,          \* history: the statuses a contract has had
    written,      \* history: created elsewhere than in draft, updated, or
                  \* published by a workflow
    deployAsked,  \* history: a deployment was requested
    byHand,       \* history: such a workflow ran on it without a request
    openAtEnd     \* history: executions were not over when it was retired

executionVars == <<open, stopped>>
historyVars   == <<written, deployAsked, byHand>>
lifecycleVars == <<contract, public, executionVars, was, historyVars, openAtEnd>>

-----------------------------------------------------------------------------
(* DATA_CONTRACT_TRANSITIONS; statuses that are no keys of it may go       *)
(* anywhere.                                                               *)
ContractTransitions ==
    [draft        |-> {"proposed", "deprecated"},
     proposed     |-> {"draft", "under_review", "approved", "deprecated"},
     under_review |-> {"draft", "approved", "deprecated"},
     approved     |-> {"active", "draft", "deprecated"},
     active       |-> {"deprecated"},
     deprecated   |-> {"retired", "active"},
     retired      |-> {}]

(* Mutant: a status without transitions counts as unknown. *)
MayMoveIfListed(from, to) ==
    from \in DOMAIN ContractTransitions /\ ContractTransitions[from] # {} =>
        to \in ContractTransitions[from]

MayMove(from, to) == from \in DOMAIN ContractTransitions => to \in ContractTransitions[from]

(* _get_allowed_status_transitions, for changes that are asked for. *)
AskedTransitions ==
    [draft        |-> {"proposed", "deprecated"},
     proposed     |-> {"draft", "under_review", "deprecated"},
     under_review |-> {"draft", "approved", "deprecated"},
     approved     |-> {"active", "deprecated"},
     active       |-> {"certified", "deprecated"},
     certified    |-> {"deprecated"},
     deprecated   |-> {"retired"},
     retired      |-> {}]

Exists(c) == contract[c] \in ContractStatuses

(* Executions that may still complete: by an answer, or after a retry. *)
Unfinished(c) == open[c] + stopped[c]

Become(c, s) ==
    /\ contract' = [contract EXCEPT ![c] = s]
    /\ was' = [was EXCEPT ![c] = @ \cup {s}]
    /\ openAtEnd' = IF s = "retired" /\ Unfinished(c) > 0 THEN openAtEnd \cup {c}
                    ELSE openAtEnd

-----------------------------------------------------------------------------
(* A created or imported contract has the status its document says. *)
CreateContract(c, s) ==
    /\ contract[c] = "unused"
    /\ Become(c, s)
    /\ written' = IF s = "draft" THEN written ELSE written \cup {c}
    /\ UNCHANGED <<public, executionVars, deployAsked, byHand>>

(* approve, reject and change-status end in transition_status. *)
TransitionStatus(c, s) ==
    /\ Exists(c)
    /\ MayMove(contract[c], s)
    /\ Become(c, s)
    /\ UNCHANGED <<public, executionVars, historyVars>>

RequestStewardReview(c) ==
    /\ contract[c] = "draft"
    /\ Become(c, "proposed")
    /\ UNCHANGED <<public, executionVars, historyVars>>

(* Mutant: the decision is applied whatever the status is. *)
ReviewAnything(c, s) ==
    /\ Exists(c)
    /\ Become(c, s)
    /\ UNCHANGED <<public, executionVars, historyVars>>

HandleReview(c, s) ==
    /\ contract[c] \in {"proposed", "under_review"}
    /\ Become(c, s)
    /\ UNCHANGED <<public, executionVars, historyVars>>

(* A status change that was asked for; that it was is not looked up. *)
HandleStatusChange(c, s) ==
    /\ contract[c] \in DOMAIN AskedTransitions
    /\ s \in AskedTransitions[contract[c]]
    /\ Become(c, s)
    /\ UNCHANGED <<public, executionVars, historyVars>>

(* The workflow that is fired waits for an approval, fails before it gets  *)
(* there, or runs to its end; or there is none.  Only a resumed execution  *)
(* completes.                                                              *)
Fire(c) ==
    \/ /\ Unfinished(c) < MaxOpen
       /\ \/ open' = [open EXCEPT ![c] = @ + 1] /\ UNCHANGED stopped
          \/ stopped' = [stopped EXCEPT ![c] = @ + 1] /\ UNCHANGED open
    \/ UNCHANGED executionVars

RequestPublish(c) ==
    /\ contract[c] = "approved" /\ ~public[c]
    /\ Fire(c)
    /\ UNCHANGED <<contract, public, was, historyVars, openAtEnd>>

(* Asked for in any status, with the trigger of a publication. *)
RequestDeploy(c) ==
    /\ Exists(c)
    /\ Fire(c)
    /\ deployAsked' = deployAsked \cup {c}
    /\ UNCHANGED <<contract, public, was, written, byHand, openAtEnd>>

(* POST workflows/{id}/execute takes any entity, whatever its status is.   *)
(* So does an edit of the trigger, which turns what waits for another      *)
(* reason into an execution that publishes.                                *)
ExecuteWorkflow(c) ==
    /\ contract[c] # "unused"
    /\ Fire(c)
    /\ byHand' = byHand \cup {c}
    /\ UNCHANGED <<contract, public, was, written, deployAsked, openAtEnd>>

HandlePublish(c) ==
    /\ contract[c] = "approved"
    /\ public' = [public EXCEPT ![c] = TRUE]
    /\ UNCHANGED <<contract, executionVars, was, historyVars, openAtEnd>>

SetPublicationScope(c, on) ==
    /\ Exists(c)
    /\ on => contract[c] \in {"active", "approved"}
    /\ public' = [public EXCEPT ![c] = on]
    /\ UNCHANGED <<contract, executionVars, was, historyVars, openAtEnd>>

(* PUT writes the status it is given. *)
UpdateContract(c, s) ==
    /\ Exists(c)
    /\ Become(c, s)
    /\ written' = written \cup {c}
    /\ UNCHANGED <<public, executionVars, deployAsked, byHand>>

DeleteContract(c) ==
    /\ Exists(c)
    /\ contract' = [contract EXCEPT ![c] = "deleted"]
    /\ public' = [public EXCEPT ![c] = FALSE]
    /\ UNCHANGED <<executionVars, was, historyVars, openAtEnd>>

(* An execution that waits or runs fails, or is cancelled. *)
Stop(c) ==
    /\ open[c] > 0
    /\ open' = [open EXCEPT ![c] = @ - 1]
    /\ stopped' = [stopped EXCEPT ![c] = @ + 1]

(* _handle_workflow_completion goes by the trigger of the workflow,        *)
(* whatever became of the contract, and of the execution: a thread whose   *)
(* execution was cancelled, or has a second thread, completes it all the   *)
(* same (module WorkflowEngine).                                           *)
CompleteExecution(c, approved) ==
    /\ Unfinished(c) > 0
    /\ \/ UNCHANGED executionVars
       \/ approved /\ open[c] > 0 /\ open' = [open EXCEPT ![c] = @ - 1] /\ UNCHANGED stopped
       \/ ~approved /\ Stop(c)
    /\ IF Exists(c) THEN Become(c, IF approved THEN "deployed" ELSE "draft")
       ELSE UNCHANGED <<contract, was, openAtEnd>>
    /\ UNCHANGED <<public, historyVars>>

CancelExecution(c) ==
    /\ Stop(c)
    /\ UNCHANGED <<contract, public, was, historyVars, openAtEnd>>

(* A failed or cancelled execution starts over: it waits, fails again      *)
(* (which changes nothing here), or runs to its end.                       *)
RetryExecution(c) ==
    /\ stopped[c] > 0
    /\ stopped' = [stopped EXCEPT ![c] = @ - 1]
    /\ open' = [open EXCEPT ![c] = @ + 1] \/ UNCHANGED open
    /\ UNCHANGED <<contract, public, was, historyVars, openAtEnd>>

(* An entity_action step of some workflow. *)
WorkflowPublishes(c, on) ==
    /\ Exists(c)
    /\ public' = [public EXCEPT ![c] = on]
    /\ written' = IF on THEN written \cup {c} ELSE written
    /\ UNCHANGED <<contract, executionVars, was, deployAsked, byHand, openAtEnd>>

-----------------------------------------------------------------------------
LifecycleInit ==
    /\ contract = [c \in Contracts |-> "unused"]
    /\ public = [c \in Contracts |-> FALSE]
    /\ open = [c \in Contracts |-> 0] /\ stopped = [c \in Contracts |-> 0]
    /\ was = [c \in Contracts |-> {}]
    /\ written = {} /\ deployAsked = {} /\ byHand = {} /\ openAtEnd = {}

LifecycleNext ==
    \E c \in Contracts :
        \/ \E s \in ContractStatuses :
              CreateContract(c, s) \/ TransitionStatus(c, s)
              \/ HandleStatusChange(c, s) \/ UpdateContract(c, s)
        \/ RequestStewardReview(c)
        \/ \E s \in {"approved", "draft"} : HandleReview(c, s)
        \/ RequestPublish(c) \/ RequestDeploy(c) \/ HandlePublish(c)
        \/ ExecuteWorkflow(c) \/ CancelExecution(c) \/ RetryExecution(c)
        \/ \E b \in BOOLEAN :
              SetPublicationScope(c, b) \/ CompleteExecution(c, b) \/ WorkflowPublishes(c, b)
        \/ DeleteContract(c)

LifecycleSpec == LifecycleInit /\ [][LifecycleNext]_lifecycleVars

-----------------------------------------------------------------------------
(* The state is well formed.                                               *)
LifecycleTypeOK ==
    /\ contract \in [Contracts -> ContractStatuses \cup {"unused", "deleted"}]
    /\ public \in [Contracts -> BOOLEAN]
    /\ open \in [Contracts -> Nat] /\ stopped \in [Contracts -> Nat]
    /\ was \in [Contracts -> SUBSET ContractStatuses]
    /\ written \subseteq Contracts /\ deployAsked \subseteq Contracts
    /\ byHand \subseteq Contracts /\ openAtEnd \subseteq Contracts

(* What the marketplace shows, and what counts as deployed, was proposed   *)
(* and approved on its way, or took the way around the review that the     *)
(* maps leave open (deprecated, then active): no sequence of reviews,      *)
(* requests, answers, cancels, retries and status changes by two maps gets *)
(* around it.  Not promised of contracts that an update or a workflow step *)
(* wrote to, whose deployment was asked for, or on which a publication     *)
(* workflow ran without a request: none of those looks at the status, and  *)
(* the answer to such a workflow deploys a draft.                          *)
ShownWasReviewed ==
    \A c \in Contracts :
        public[c] \/ contract[c] = "deployed" =>
            \/ {"proposed", "approved"} \subseteq was[c]
            \/ {"deprecated", "active"} \subseteq was[c]
            \/ c \in written \cup deployAsked \cup byHand

(* "retired" is terminal, with three exceptions that the code makes: an    *)
(* update; an execution that was not over when the contract was retired,   *)
(* which an answer, a late thread or a retry after a rejection or a cancel *)
(* may complete; and one that was started in any status, by a deployment   *)
(* request or without any.  Nothing else brings a retired contract back.   *)
RetiredForGood ==
    \A c \in Contracts :
        "retired" \in was[c] /\ Exists(c) /\ contract[c] # "retired" =>
            c \in written \cup deployAsked \cup byHand \cup openAtEnd
=============================================================================
