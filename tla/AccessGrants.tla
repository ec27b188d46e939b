---------------------------- MODULE AccessGrants ----------------------------
(***************************************************************************)
(* Time-limited access to an asset: requests, grants and the process       *)
(* workflow that a request starts (controller/access_grants_manager.py,    *)
(* repositories/access_grants_repository.py, and the shipped definition    *)
(* "Access Grant Request" of data/default_workflows.yaml).                 *)
(*                                                                         *)
(* The endpoints are `async def' without an await between their queries    *)
(* and their commit, so each is one step of the event loop; create_request *)
(* commits before it fires its trigger, so it is two.  The execution of    *)
(* the workflow (module WorkflowEngine) is seen here as waiting for its    *)
(* answer or ended.                                                        *)
(***************************************************************************)
EXTENDS Governance, Integers

CONSTANTS
    Targets,      \* the assets that access is asked for
    Requests,     \* ids of access_grant_requests rows
    Grants,       \* ids of access_grants rows
    Durations,    \* days a request may ask for, or an admin may grant
    MaxTime,      \* bound on the clock
    MaxFaults     \* bound on crashes

ASSUME DurationsAssumption == Durations \subseteq Nat \ {0}

ASSUME NullAssumption == NULL \notin Requests

ASSUME BoundsAssumption == MaxTime \in Nat /\ MaxFaults \in Nat

VARIABLES
    accessRequest,  \* access_grant_requests rows
    grant,    \* access_grants rows
    review,   \* the ON_REQUEST_ACCESS execution of each request
    told,     \* decisions the requester was notified of
    firing,   \* the request whose create_request is about to fire the trigger
    now,      \* the clock, in days
    faults    \* crashes so far

vars == <<accessRequest, grant, review, told, firing, now, faults>>

-----------------------------------------------------------------------------
Request == [status: {"none", "pending", "approved", "denied", "cancelled"},
            user: Users \cup {NULL}, asset: Targets \cup {NULL}]

NoAccessRequest == [status |-> "none", user |-> NULL, asset |-> NULL]

Grant == [status: {"none", "active", "revoked"}, request: Requests \cup {NULL},
          user: Users \cup {NULL}, asset: Targets \cup {NULL}, expires: Nat]

NoGrant == [status |-> "none", request |-> NULL, user |-> NULL, asset |-> NULL,
            expires |-> 0]

LoopIdle == firing = NULL

(* check_existing_pending *)
Pending(r, u, x) ==
    accessRequest[r].status = "pending" /\ accessRequest[r].user = u /\ accessRequest[r].asset = x

(* check_active_grant: nothing marks a grant as expired, its date does. *)
Active(g, u, x) ==
    /\ grant[g].status = "active" /\ grant[g].expires > now
    /\ grant[g].user = u /\ grant[g].asset = x

(* Mutant: create_request forgets the active grants. *)
MayRequestUnlessPending(u, x) == \A r \in Requests : ~Pending(r, u, x)

MayRequest(u, x) ==
    /\ \A r \in Requests : ~Pending(r, u, x)
    /\ \A g \in Grants : ~Active(g, u, x)

(* create_request, up to its commit. *)
CreateRequest(r, u, x) ==
    /\ LoopIdle
    /\ accessRequest[r].status = "none"
    /\ MayRequest(u, x)
    /\ accessRequest' = [accessRequest EXCEPT
                            ![r] = [status |-> "pending", user |-> u, asset |-> x]]
    /\ firing' = r
    /\ UNCHANGED <<grant, review, told, now, faults>>

(* The rest of create_request.  The workflow waits for an approver; or its *)
(* approval step reaches nobody and takes the on_fail branch, which tells  *)
(* the requester of a denial; or it raises or is inactive (`none'), and    *)
(* the administrators are notified directly instead.                       *)
FireTrigger ==
    /\ firing # NULL
    /\ \/ /\ review' = [review EXCEPT ![firing] = "waiting"]
          /\ UNCHANGED told
       \/ /\ review' = [review EXCEPT ![firing] = "ended"]
          /\ told' = [told EXCEPT ![firing] = @ \cup {"denied"}]
       \/ UNCHANGED <<review, told>>
    /\ firing' = NULL
    /\ UNCHANGED <<accessRequest, grant, now, faults>>

(* POST /workflows/handle-approval for that execution, with the steps that *)
(* follow the approval in the shipped definition: the requester is told.   *)
(* Neither they nor _handle_workflow_completion touch the request.         *)
AnswerReview(r) ==
    /\ LoopIdle
    /\ review[r] = "waiting"
    /\ review' = [review EXCEPT ![r] = "ended"]
    /\ \E d \in {"approved", "denied"} : told' = [told EXCEPT ![r] = @ \cup {d}]
    /\ UNCHANGED <<accessRequest, grant, firing, now, faults>>

(* Mutant: the status is not looked at again when the request is handled. *)
HandleableExisting(r) == accessRequest[r].status # "none"

Handleable(r) == accessRequest[r].status = "pending"

(* handle_request. *)
ApproveRequest(r, g) ==
    /\ LoopIdle
    /\ Handleable(r)
    /\ grant[g].status = "none"
    /\ \E d \in Durations :
         grant' = [grant EXCEPT ![g] =
                     [status |-> "active", request |-> r, user |-> accessRequest[r].user,
                      asset |-> accessRequest[r].asset, expires |-> now + d]]
    /\ accessRequest' = [accessRequest EXCEPT ![r] = [@ EXCEPT !.status = "approved"]]
    /\ told' = [told EXCEPT ![r] = @ \cup {"approved"}]
    /\ UNCHANGED <<review, firing, now, faults>>

DenyRequest(r) ==
    /\ LoopIdle
    /\ Handleable(r)
    /\ accessRequest' = [accessRequest EXCEPT ![r] = [@ EXCEPT !.status = "denied"]]
    /\ told' = [told EXCEPT ![r] = @ \cup {"denied"}]
    /\ UNCHANGED <<grant, review, firing, now, faults>>

(* Mutant: the row is deleted instead. *)
CancelByDeletion(r) ==
    /\ LoopIdle
    /\ accessRequest[r].status = "pending"
    /\ accessRequest' = [accessRequest EXCEPT ![r] = NoAccessRequest]
    /\ UNCHANGED <<grant, review, told, firing, now, faults>>

(* cancel_request, by the requester; the execution is left alone. *)
CancelRequest(r) ==
    /\ LoopIdle
    /\ accessRequest[r].status = "pending"
    /\ accessRequest' = [accessRequest EXCEPT ![r] = [@ EXCEPT !.status = "cancelled"]]
    /\ UNCHANGED <<grant, review, told, firing, now, faults>>

(* revoke_grant: whatever the status of the grant. *)
RevokeGrant(g) ==
    /\ LoopIdle
    /\ grant[g].status # "none"
    /\ grant' = [grant EXCEPT ![g] = [@ EXCEPT !.status = "revoked"]]
    /\ UNCHANGED <<accessRequest, review, told, firing, now, faults>>

Tick ==
    /\ now < MaxTime
    /\ now' = now + 1
    /\ UNCHANGED <<accessRequest, grant, review, told, firing, faults>>

(* The process stops: a trigger about to be fired is never fired. *)
Crash ==
    /\ ~LoopIdle
    /\ faults < MaxFaults
    /\ faults' = faults + 1
    /\ firing' = NULL
    /\ UNCHANGED <<accessRequest, grant, review, told, now>>

Init ==
    /\ accessRequest = [r \in Requests |-> NoAccessRequest]
    /\ grant = [g \in Grants |-> NoGrant]
    /\ review = [r \in Requests |-> "none"]
    /\ told = [r \in Requests |-> {}]
    /\ firing = NULL
    /\ now = 0
    /\ faults = 0

Next ==
    \/ \E r \in Requests, u \in Users, x \in Targets : CreateRequest(r, u, x)
    \/ FireTrigger
    \/ \E r \in Requests : AnswerReview(r)
    \/ \E r \in Requests, g \in Grants : ApproveRequest(r, g)
    \/ \E r \in Requests : DenyRequest(r)
    \/ \E r \in Requests : CancelRequest(r)
    \/ \E g \in Grants : RevokeGrant(g)
    \/ Tick
    \/ Crash

Spec == Init /\ [][Next]_vars

-----------------------------------------------------------------------------
(* Properties.                                                             *)

(* The state is well formed: what executions, notifications and grants     *)
(* refer to is there, whatever became of the request meanwhile.            *)
Requested(r) ==
    /\ accessRequest[r].status # "none"
    /\ accessRequest[r].user \in Users /\ accessRequest[r].asset \in Targets

TypeOK ==
    /\ accessRequest \in [Requests -> Request]
    /\ grant \in [Grants -> Grant]
    /\ review \in [Requests -> {"none", "waiting", "ended"}]
    /\ told \in [Requests -> SUBSET {"approved", "denied"}]
    /\ firing \in Requests \cup {NULL}
    /\ now \in 0..MaxTime
    /\ faults \in 0..MaxFaults
    /\ \A r \in Requests :
          accessRequest[r].status # "none" \/ review[r] # "none" \/ told[r] # {} \/ firing = r
            => Requested(r)
    /\ \A g \in Grants : grant[g].status # "none" =>
          grant[g].request \in Requests /\ Requested(grant[g].request)

(* A user never has two live claims on one asset: neither two pending      *)
(* requests, nor two grants in force, nor a pending request besides a      *)
(* grant in force.  handle_request does not look for a grant: it relies on *)
(* create_request having looked, however long ago, and on nothing else     *)
(* creating grants.                                                        *)
OnePending ==
    \A q, r \in Requests, u \in Users, x \in Targets :
        Pending(q, u, x) /\ Pending(r, u, x) => q = r

OneActive ==
    \A g, h \in Grants, u \in Users, x \in Targets :
        Active(g, u, x) /\ Active(h, u, x) => g = h

NoPendingWhileActive ==
    \A r \in Requests, g \in Grants, u \in Users, x \in Targets :
        ~(Pending(r, u, x) /\ Active(g, u, x))

OneClaim == OnePending /\ OneActive /\ NoPendingWhileActive

(* Grants and approvals correspond: a grant belongs to an approved request *)
(* of its grantee for its asset, and no request has two grants, however    *)
(* often and by whomever it is handled.                                    *)
GrantsMatchApprovals ==
    /\ \A g \in Grants : grant[g].status # "none" =>
          accessRequest[grant[g].request] =
              [status |-> "approved", user |-> grant[g].user, asset |-> grant[g].asset]
    /\ \A g, h \in Grants :
          grant[g].status # "none" /\ grant[h].status # "none"
            /\ grant[g].request = grant[h].request => g = h

(* "Your access request has been approved. You now have access to the      *)
(* requested resource." (data/default_workflows.yaml): a requester who is  *)
(* told so was given a grant.  It fails: approving the workflow's request  *)
(* creates none (run doc_access).                                          *)
ToldApprovedIsGranted ==
    \A r \in Requests :
        "approved" \in told[r] => \E g \in Grants : grant[g].request = r
=============================================================================
