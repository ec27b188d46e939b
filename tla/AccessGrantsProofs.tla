------------------------- MODULE AccessGrantsProofs -------------------------
(***************************************************************************)
(* The invariants of AccessGrants, for every number of users, assets,      *)
(* requests and grants and every length of the clock.                      *)
(***************************************************************************)
EXTENDS AccessGrants, TLAPS

(* Every variable is as the type invariant says, after every operation:    *)
(* one step per operation of the manager.                                  *)
LEMMA TypeStep == TypeOK /\ [Next]_vars => TypeOK'
<1> SUFFICES ASSUME TypeOK, [Next]_vars PROVE TypeOK'
  OBVIOUS
<1> USE DurationsAssumption, NullAssumption, BoundsAssumption
<1>1. ASSUME NEW r \in Requests, NEW u \in Users, NEW x \in Targets, CreateRequest(r, u, x)
      PROVE  TypeOK'
  BY <1>1 DEF TypeOK, CreateRequest, LoopIdle, Request, Grant, NoAccessRequest, NoGrant, Requested
<1>2. CASE FireTrigger
  <2>1. accessRequest' = accessRequest /\ grant' = grant /\ now' = now /\ faults' = faults
    BY <1>2 DEF FireTrigger
  <2>2. firing \in Requests /\ Requested(firing)
    BY <1>2 DEF FireTrigger, TypeOK
  <2>3. /\ review' \in [Requests -> {"none", "waiting", "ended"}]
        /\ told' \in [Requests -> SUBSET {"approved", "denied"}]
        /\ firing' = NULL
    BY <1>2, <2>2 DEF FireTrigger, TypeOK
  <2>4. \A r \in Requests : r # firing => review'[r] = review[r] /\ told'[r] = told[r]
    BY <1>2, <2>2 DEF FireTrigger, TypeOK
  <2> QED BY <2>1, <2>2, <2>3, <2>4 DEF TypeOK, Requested
<1>3. ASSUME NEW r \in Requests, AnswerReview(r) PROVE TypeOK'
  <2>1. review[r] # "none" /\ Requested(r)
    BY <1>3 DEF AnswerReview, TypeOK
  <2>2. PICK d \in {"approved", "denied"} : told' = [told EXCEPT ![r] = @ \cup {d}]
    BY <1>3 DEF AnswerReview
  <2> QED BY <1>3, <2>1, <2>2 DEF AnswerReview, TypeOK, Requested
<1>4. ASSUME NEW r \in Requests, NEW g \in Grants, ApproveRequest(r, g) PROVE TypeOK'
  <2>1. accessRequest[r].status = "pending" /\ Requested(r)
    BY <1>4 DEF ApproveRequest, Handleable, TypeOK
  <2>2. PICK d \in Durations :
          grant' = [grant EXCEPT ![g] =
                      [status |-> "active", request |-> r, user |-> accessRequest[r].user,
                       asset |-> accessRequest[r].asset, expires |-> now + d]]
    BY <1>4 DEF ApproveRequest
  <2>3. now + d \in Nat
    BY DEF TypeOK
  <2>4. grant' \in [Grants -> Grant]
    BY <2>1, <2>2, <2>3 DEF TypeOK, Grant, Requested
  <2>5. accessRequest' \in [Requests -> Request]
    BY <1>4 DEF ApproveRequest, TypeOK, Request
  <2>6. \A q \in Requests : Requested(q) => Requested(q)'
    BY <1>4, <2>1 DEF ApproveRequest, Requested, TypeOK, Request
  <2>7. \A h \in Grants : grant'[h].status # "none" =>
            \E q \in Requests : grant'[h].request = q /\ Requested(q)'
    <3>1. grant'[g].request = r
      BY <2>2 DEF TypeOK
    <3>2. \A h \in Grants : h # g => grant'[h] = grant[h]
      BY <2>2 DEF TypeOK
    <3>3. Requested(r)'
      BY <2>1, <2>6
    <3>4. \A h \in Grants : grant[h].status # "none" =>
            grant[h].request \in Requests /\ Requested(grant[h].request)
      BY DEF TypeOK
    <3> QED BY <2>6, <3>1, <3>2, <3>3, <3>4
  <2>8. told' \in [Requests -> SUBSET {"approved", "denied"}]
    BY <1>4 DEF ApproveRequest, TypeOK
  <2>9. \A q \in Requests :
          accessRequest'[q].status # "none" \/ review'[q] # "none" \/ told'[q] # {} \/ firing' = q
            => Requested(q)
    BY <1>4, <2>1 DEF ApproveRequest, TypeOK
  <2> QED BY <1>4, <2>4, <2>5, <2>6, <2>7, <2>8, <2>9 DEF ApproveRequest, TypeOK
<1>5. ASSUME NEW r \in Requests, DenyRequest(r) \/ CancelRequest(r) PROVE TypeOK'
  <2>1. accessRequest[r].status = "pending" /\ Requested(r)
    BY <1>5 DEF DenyRequest, CancelRequest, Handleable, TypeOK
  <2>2. accessRequest' \in [Requests -> Request]
    BY <1>5 DEF DenyRequest, CancelRequest, TypeOK, Request
  <2>3. \A q \in Requests : Requested(q) => Requested(q)'
    BY <1>5, <2>1 DEF DenyRequest, CancelRequest, Requested, TypeOK, Request
  <2> QED BY <1>5, <2>1, <2>2, <2>3 DEF DenyRequest, CancelRequest, TypeOK, Requested
<1>6. ASSUME NEW g \in Grants, RevokeGrant(g) PROVE TypeOK'
  BY <1>6 DEF RevokeGrant, TypeOK, Grant, Requested
<1>7. CASE Tick
  BY <1>7 DEF Tick, TypeOK, Requested
<1>8. CASE Crash
  BY <1>8 DEF Crash, TypeOK, Requested
<1>9. CASE UNCHANGED vars
  BY <1>9 DEF vars, TypeOK, Requested
<1> QED BY <1>1, <1>2, <1>3, <1>4, <1>5, <1>6, <1>7, <1>8, <1>9 DEF Next

(* Type correctness: what executions, notifications and grants refer to is *)
(* there.                                                                  *)
THEOREM GrantsTypeCorrect == Spec => []TypeOK
<1>1. Init => TypeOK
  BY NullAssumption, BoundsAssumption
  DEF Init, TypeOK, Request, NoAccessRequest, Grant, NoGrant, Requested
<1> QED BY <1>1, TypeStep, PTL DEF Spec

-----------------------------------------------------------------------------
(* Grants correspond to approvals one to one: an approval takes a pending  *)
(* accessRequest, and no grant refers to a pending request.                      *)
LEMMA MatchStep == TypeOK /\ GrantsMatchApprovals /\ [Next]_vars => GrantsMatchApprovals'
<1> SUFFICES ASSUME TypeOK, GrantsMatchApprovals, [Next]_vars PROVE GrantsMatchApprovals'
  OBVIOUS
<1>1. ASSUME NEW r \in Requests, accessRequest[r].status \in {"none", "pending"},
             \A q \in Requests : q # r => accessRequest'[q] = accessRequest[q],
             grant' = grant
      PROVE  GrantsMatchApprovals'
  BY <1>1 DEF GrantsMatchApprovals, TypeOK
<1>2. ASSUME NEW r \in Requests, NEW u \in Users, NEW x \in Targets, CreateRequest(r, u, x)
      PROVE  GrantsMatchApprovals'
  BY <1>1, <1>2 DEF CreateRequest, TypeOK
<1>3. ASSUME NEW r \in Requests, DenyRequest(r) \/ CancelRequest(r)
      PROVE  GrantsMatchApprovals'
  BY <1>1, <1>3 DEF DenyRequest, CancelRequest, Handleable, TypeOK
<1>4. ASSUME NEW r \in Requests, NEW g \in Grants, ApproveRequest(r, g)
      PROVE  GrantsMatchApprovals'
  <2>1. accessRequest[r].status = "pending" /\ grant[g].status = "none"
    BY <1>4 DEF ApproveRequest, Handleable
  <2>2. accessRequest'[r] = [status |-> "approved", user |-> accessRequest[r].user,
                       asset |-> accessRequest[r].asset]
    BY <1>4 DEF ApproveRequest, TypeOK, Request
  <2>3. \A q \in Requests : q # r => accessRequest'[q] = accessRequest[q]
    BY <1>4 DEF ApproveRequest, TypeOK
  <2>4. /\ grant'[g].request = r
        /\ grant'[g].user = accessRequest[r].user
        /\ grant'[g].asset = accessRequest[r].asset
    BY <1>4 DEF ApproveRequest, TypeOK
  <2>5. \A h \in Grants : h # g => grant'[h] = grant[h]
    BY <1>4 DEF ApproveRequest, TypeOK
  <2>6. ASSUME NEW h \in Grants, grant[h].status # "none"
        PROVE  grant[h].request \in Requests /\ grant[h].request # r
    <3>1. accessRequest[grant[h].request] =
            [status |-> "approved", user |-> grant[h].user, asset |-> grant[h].asset]
      BY <2>6 DEF GrantsMatchApprovals
    <3>2. accessRequest[grant[h].request].status = "approved"
      BY ONLY <3>1
    <3> QED BY <2>1, <2>6, <3>2 DEF TypeOK
  <2>7. ASSUME NEW h \in Grants, grant'[h].status # "none"
        PROVE  accessRequest'[grant'[h].request] =
                 [status |-> "approved", user |-> grant'[h].user, asset |-> grant'[h].asset]
    <3>1. CASE h = g
      BY <2>2, <2>4, <3>1
    <3>2. CASE h # g
      BY <2>3, <2>5, <2>6, <2>7, <3>2 DEF GrantsMatchApprovals
    <3> QED BY <3>1, <3>2
  <2>8. ASSUME NEW h \in Grants, NEW k \in Grants,
               grant'[h].status # "none", grant'[k].status # "none",
               grant'[h].request = grant'[k].request
        PROVE  h = k
    BY <2>4, <2>5, <2>6, <2>8 DEF GrantsMatchApprovals
  <2> QED BY <2>7, <2>8 DEF GrantsMatchApprovals
<1>5. ASSUME NEW g \in Grants, RevokeGrant(g) PROVE GrantsMatchApprovals'
  <2>1. accessRequest' = accessRequest /\ grant[g].status # "none"
    BY <1>5 DEF RevokeGrant
  <2>2. \A h \in Grants :
          /\ grant'[h].status # "none" => grant[h].status # "none"
          /\ grant'[h].request = grant[h].request
          /\ grant'[h].user = grant[h].user
          /\ grant'[h].asset = grant[h].asset
    BY <1>5 DEF RevokeGrant, TypeOK, Grant
  <2> QED BY <2>1, <2>2 DEF GrantsMatchApprovals
<1>6. CASE accessRequest' = accessRequest /\ grant' = grant
  BY <1>6 DEF GrantsMatchApprovals
<1> QED
  BY <1>2, <1>3, <1>4, <1>5, <1>6
  DEF Next, FireTrigger, AnswerReview, Tick, Crash, vars

(* No request has two grants and no grant lacks its approval, however      *)
(* often and by whomever a request is handled.                             *)
THEOREM GrantsMatch == Spec => []GrantsMatchApprovals
<1>1. Init => GrantsMatchApprovals
  BY DEF Init, GrantsMatchApprovals, NoGrant
<1> QED BY <1>1, MatchStep, GrantsTypeCorrect, PTL DEF Spec

-----------------------------------------------------------------------------
(* What an operation may do to the claims of users on assets: only a new   *)
(* request adds a pending one, only an approval adds one in force.         *)
LEMMA ClaimsShrink ==
    ASSUME TypeOK, OneClaim,
           \A r \in Requests, u \in Users, x \in Targets :
               Pending(r, u, x)' => Pending(r, u, x),
           \A g \in Grants, u \in Users, x \in Targets :
               Active(g, u, x)' => Active(g, u, x)
    PROVE  OneClaim'
BY DEF OneClaim, OnePending, OneActive, NoPendingWhileActive

LEMMA ClaimStep == TypeOK /\ OneClaim /\ [Next]_vars => OneClaim'
<1> SUFFICES ASSUME TypeOK, OneClaim, [Next]_vars PROVE OneClaim'
  OBVIOUS
<1>1. ASSUME NEW r \in Requests, NEW u \in Users, NEW x \in Targets, CreateRequest(r, u, x)
      PROVE  OneClaim'
  <2>1. MayRequest(u, x) /\ grant' = grant /\ now' = now
    BY <1>1 DEF CreateRequest
  <2>2. \A q \in Requests, v \in Users, y \in Targets :
          Pending(q, v, y)' => \/ Pending(q, v, y)
                               \/ q = r /\ v = u /\ y = x
    BY <1>1 DEF CreateRequest, Pending, TypeOK
  <2>3. \A g \in Grants, v \in Users, y \in Targets : Active(g, v, y)' => Active(g, v, y)
    BY <2>1 DEF Active
  <2>4. ASSUME NEW v \in Users, NEW y \in Targets, NEW q \in Requests, NEW s \in Requests,
               Pending(q, v, y)', Pending(s, v, y)'
        PROVE  q = s
    BY <2>1, <2>2, <2>4 DEF MayRequest, OneClaim, OnePending
  <2>5. ASSUME NEW v \in Users, NEW y \in Targets, NEW q \in Requests, NEW g \in Grants,
               Pending(q, v, y)', Active(g, v, y)'
        PROVE  FALSE
    BY <2>1, <2>2, <2>3, <2>5 DEF MayRequest, OneClaim, NoPendingWhileActive
  <2>6. OneActive'
    BY <2>3 DEF OneClaim, OneActive
  <2> QED BY <2>4, <2>5, <2>6 DEF OneClaim, OnePending, NoPendingWhileActive
<1>2. ASSUME NEW r \in Requests, NEW g \in Grants, ApproveRequest(r, g) PROVE OneClaim'
  <2> DEFINE v == accessRequest[r].user
             y == accessRequest[r].asset
  <2>1. v \in Users /\ y \in Targets /\ Pending(r, v, y) /\ now' = now
    BY <1>2 DEF ApproveRequest, Handleable, Pending, TypeOK, Requested
  <2>2. \A q \in Requests, u \in Users, x \in Targets :
          Pending(q, u, x)' => Pending(q, u, x) /\ q # r
    BY <1>2 DEF ApproveRequest, Pending, TypeOK, Request
  <2>3. grant'[g].user = v /\ grant'[g].asset = y
    BY <1>2 DEF ApproveRequest, TypeOK
  <2>4. \A h \in Grants : h # g => grant'[h] = grant[h]
    BY <1>2 DEF ApproveRequest, TypeOK
  <2>5. \A h \in Grants, u \in Users, x \in Targets :
          Active(h, u, x)' => \/ Active(h, u, x)
                              \/ h = g /\ u = v /\ x = y
    BY <2>1, <2>3, <2>4 DEF Active
  <2>6. \A h \in Grants : ~Active(h, v, y)
    BY <2>1 DEF OneClaim, NoPendingWhileActive
  <2>7. \A q \in Requests : Pending(q, v, y) => q = r
    BY <2>1 DEF OneClaim, OnePending
  <2> HIDE DEF v, y
  <2>8. OnePending'
    BY <2>2 DEF OneClaim, OnePending
  <2>9. OneActive'
    BY <2>5, <2>6 DEF OneClaim, OneActive
  <2>10. NoPendingWhileActive'
    BY <2>2, <2>5, <2>7 DEF OneClaim, NoPendingWhileActive
  <2> QED BY <2>8, <2>9, <2>10 DEF OneClaim
<1>3. ASSUME NEW r \in Requests, DenyRequest(r) \/ CancelRequest(r) PROVE OneClaim'
  <2>1. \A q \in Requests, u \in Users, x \in Targets : Pending(q, u, x)' => Pending(q, u, x)
    <3>1. PICK c \in {"denied", "cancelled"} :
             accessRequest' = [accessRequest EXCEPT ![r] = [accessRequest[r] EXCEPT !.status = c]]
      BY <1>3 DEF DenyRequest, CancelRequest
    <3>2. \A q \in Requests :
             /\ accessRequest'[q].user = accessRequest[q].user
             /\ accessRequest'[q].asset = accessRequest[q].asset
             /\ accessRequest'[q].status = "pending" => accessRequest[q].status = "pending"
      BY <3>1 DEF TypeOK, Request
    <3> QED BY <3>2 DEF Pending
  <2>2. grant' = grant /\ now' = now
    BY <1>3 DEF DenyRequest, CancelRequest
  <2> QED BY <2>1, <2>2, ClaimsShrink DEF Active
<1>4. ASSUME NEW g \in Grants, RevokeGrant(g) PROVE OneClaim'
  <2>1. \A h \in Grants, u \in Users, x \in Targets : Active(h, u, x)' => Active(h, u, x)
    BY <1>4 DEF RevokeGrant, Active, TypeOK, Grant
  <2>2. accessRequest' = accessRequest
    BY <1>4 DEF RevokeGrant
  <2> QED BY <2>1, <2>2, ClaimsShrink DEF Pending
<1>5. CASE Tick
  <2>1. accessRequest' = accessRequest /\ grant' = grant /\ now' = now + 1
    BY <1>5 DEF Tick
  <2>2. \A g \in Grants : grant[g].expires \in Nat /\ now \in Nat
    BY BoundsAssumption DEF TypeOK, Grant
  <2>3. \A h \in Grants, u \in Users, x \in Targets : Active(h, u, x)' => Active(h, u, x)
    BY <2>1, <2>2 DEF Active
  <2> QED BY <2>1, <2>3, ClaimsShrink DEF Pending
<1>6. CASE UNCHANGED <<accessRequest, grant, now>>
  BY <1>6 DEF OneClaim, OnePending, OneActive, NoPendingWhileActive, Pending, Active
<1> QED
  BY <1>1, <1>2, <1>3, <1>4, <1>5, <1>6
  DEF Next, FireTrigger, AnswerReview, Crash, vars

(* A user never has two live claims on one asset, although handle_request  *)
(* looks for no grant and a grant's expiry is only a date.                 *)
THEOREM OneClaimHolds == Spec => []OneClaim
<1>1. Init => OneClaim
  BY DEF Init, OneClaim, OnePending, OneActive, NoPendingWhileActive, Pending, Active,
         NoAccessRequest, NoGrant
<1> QED BY <1>1, ClaimStep, GrantsTypeCorrect, PTL DEF Spec
=============================================================================
