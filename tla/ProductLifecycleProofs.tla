----------------------- MODULE ProductLifecycleProofs -----------------------
(***************************************************************************)
(* Theorems about ProductLifecycle.  TypeOK is inductive by itself.        *)
(* ShownIsActivated needs that a handler sees its write: publish_product   *)
(* sets the scope without looking at the status again.                     *)
(***************************************************************************)
EXTENDS ProductLifecycle, TLAPS

(* What the transition map says about activated products. *)
LEMMA ActivatedIsClosed ==
    ASSUME NEW s \in Activated, NEW t \in Transitions[s]
    PROVE  t \in Activated
<1>1. Transitions[s] \subseteq Activated
  BY DEF Transitions, Activated
<1> QED BY <1>1

LEMMA TransitionTypes ==
    ASSUME TypeOK, NEW p \in Products, NEW s, Transition(p, s)
    PROVE  /\ s \in Statuses
           /\ status' \in [Products -> Statuses]
           /\ gate' \in [Products -> SUBSET GateOutcomes]
           /\ status'[p] = s
<1>1. status[p] \in Statuses
  BY DEF TypeOK
<1>2. \A a \in Statuses : Transitions[a] \subseteq Statuses
  BY DEF Transitions, Statuses
<1>3. s \in Statuses
  BY <1>1, <1>2 DEF Transition
<1>4. PICK outcomes \in SUBSET GateOutcomes : gate' = [gate EXCEPT ![p] = outcomes]
  BY DEF Transition
<1> QED BY <1>3, <1>4 DEF Transition, TypeOK

LEMMA TypeStep == ASSUME TypeOK, [Next]_vars PROVE TypeOK'
<1> USE NullAssumption, BoundAssumption
<1>1. ASSUME NEW p \in Products, NEW s \in Statuses, ChangeStatus(p, s) PROVE TypeOK'
  BY <1>1, TransitionTypes DEF ChangeStatus, TypeOK, Idle
<1>2. ASSUME NEW p \in Products, NEW s \in Statuses, UpdateProduct(p, s) PROVE TypeOK'
  BY <1>2 DEF UpdateProduct, TypeOK, Idle
<1>3. ASSUME NEW p \in Products, RequestReview(p) PROVE TypeOK'
  BY <1>3, TransitionTypes DEF RequestReview, Suspend, TypeOK, Idle
<1>4. ASSUME StartReview PROVE TypeOK'
  <2>1. loop.product \in Products
    BY <1>4 DEF StartReview, TypeOK, Idle
  <2> QED BY <1>4, <2>1, TransitionTypes DEF StartReview, Suspend, TypeOK, Idle
<1>5. ASSUME FireReview PROVE TypeOK'
  <2>1. loop.product \in Products
    BY <1>5 DEF FireReview, TypeOK, Idle
  <2>2. CASE UNCHANGED review
    BY <1>5, <2>2 DEF FireReview, TypeOK, Idle
  <2>3. ASSUME NEW v \in Reviews, NEW state \in Executed,
               review' = [review EXCEPT ![v] = [state |-> state, product |-> loop.product]]
        PROVE  TypeOK'
    BY <1>5, <2>1, <2>3 DEF FireReview, TypeOK, Idle
  <2> QED BY <1>5, <2>2, <2>3 DEF FireReview
<1>6. ASSUME NEW v \in Reviews, NEW decision \in {"approved", "rejected"},
             AnswerReview(v, decision)
      PROVE  TypeOK'
  <2>1. review[v].product \in Products
    BY <1>6 DEF AnswerReview, TypeOK
  <2>2. review'[v] = [state |-> decision, product |-> review[v].product]
    BY <1>6 DEF AnswerReview, TypeOK
  <2>3. \A w \in Reviews : w # v => review'[w] = review[w]
    BY <1>6 DEF AnswerReview, TypeOK
  <2>4. DOMAIN review' = Reviews /\ review' = [w \in Reviews |-> review'[w]]
    BY <1>6 DEF AnswerReview, TypeOK
  <2> QED BY <1>6, <2>1, <2>2, <2>3, <2>4 DEF AnswerReview, TypeOK, Idle
<1>7. ASSUME CompleteReview PROVE TypeOK'
  <2>1. loop.product \in Products
    BY <1>7 DEF CompleteReview, TypeOK, Idle
  <2>2. status' \in [Products -> Statuses]
    BY <1>7, <2>1 DEF CompleteReview, TypeOK, Statuses
  <2> QED BY <1>7, <2>1, <2>2 DEF CompleteReview, TypeOK, Idle
<1>8. ASSUME NEW p \in Products, PublishProduct(p) PROVE TypeOK'
  BY <1>8, TransitionTypes DEF PublishProduct, Suspend, TypeOK, Idle
<1>9. ASSUME FinishPublish PROVE TypeOK'
  BY <1>9 DEF FinishPublish, TypeOK, Idle
<1>10. ASSUME NEW p \in Products,
              SetScope(p) \/ Unpublish(p) \/ Certify(p) \/ Decertify(p) \/ ChangePorts(p)
       PROVE  TypeOK'
  BY <1>10 DEF SetScope, Unpublish, Certify, Decertify, ChangePorts, TypeOK, Idle
<1>11. ASSUME NEW p \in Products, EntityAction(p) PROVE TypeOK'
  BY <1>11 DEF EntityAction, TypeOK, Idle
<1>12. ASSUME Crash PROVE TypeOK'
  BY <1>12 DEF Crash, TypeOK, Idle
<1>13. ASSUME NEW v \in Reviews, CancelReview(v) \/ RetryReview(v) PROVE TypeOK'
  <2>1. PICK state \in Executed : review' = [review EXCEPT ![v] = [@ EXCEPT !.state = state]]
    BY <1>13 DEF CancelReview, RetryReview, Executed
  <2>2. LoopFree /\ review[v].state # "none"
    BY <1>13 DEF CancelReview, RetryReview
  <2>3. review'[v] = [state |-> state, product |-> review[v].product]
    BY <2>1 DEF TypeOK
  <2>4. \A w \in Reviews : w # v => review'[w] = review[w]
    BY <2>1 DEF TypeOK
  <2>5. DOMAIN review' = Reviews /\ review' = [w \in Reviews |-> review'[w]]
    BY <2>1 DEF TypeOK
  <2>6. review[v].product \in Products /\ loop = Idle
    BY <2>2 DEF TypeOK, LoopFree
  <2> QED BY <1>13, <2>3, <2>4, <2>5, <2>6 DEF CancelReview, RetryReview, TypeOK
<1>14. CASE UNCHANGED vars
  BY <1>14 DEF vars, TypeOK, Idle
<1>15. ASSUME NEW v \in Reviews, NEW p \in Products, ExecuteReview(v, p) PROVE TypeOK'
  <2>1. PICK state \in Executed :
           review' = [review EXCEPT ![v] = [state |-> state, product |-> p]]
    BY <1>15 DEF ExecuteReview
  <2>2. loop = Idle
    BY <1>15 DEF ExecuteReview, LoopFree, TypeOK
  <2> QED BY <1>15, <2>1, <2>2 DEF ExecuteReview, TypeOK
<1> QED
  BY <1>1, <1>2, <1>3, <1>4, <1>5, <1>6, <1>7, <1>8, <1>9, <1>10, <1>11, <1>12, <1>13, <1>14,
     <1>15
  DEF Next

(* The state is well formed, for any number of products and reviews. *)
THEOREM ProductTypeCorrect == Spec => []TypeOK
<1>1. Init => TypeOK
  BY NullAssumption, BoundAssumption DEF Init, TypeOK, Statuses, NoReview, GateOutcomes
<1>2. TypeOK /\ [Next]_vars => TypeOK'
  BY TypeStep
<1> QED BY <1>1, <1>2, PTL DEF Spec

LEMMA HandlerStep ==
    ASSUME TypeOK, HandlerSeesItsWrite, [Next]_vars
    PROVE  HandlerSeesItsWrite'
<1>1. ASSUME NEW p \in Products, NEW s \in Statuses, ChangeStatus(p, s) \/ UpdateProduct(p, s)
      PROVE  HandlerSeesItsWrite'
  BY <1>1 DEF ChangeStatus, UpdateProduct, LoopFree, HandlerSeesItsWrite
<1>2. ASSUME NEW p \in Products, RequestReview(p) PROVE HandlerSeesItsWrite'
  BY <1>2, TransitionTypes DEF RequestReview, Suspend, HandlerSeesItsWrite
<1>3. ASSUME StartReview PROVE HandlerSeesItsWrite'
  <2>1. loop.product \in Products
    BY <1>3 DEF StartReview, TypeOK, Idle
  <2> QED BY <1>3, <2>1, TransitionTypes DEF StartReview, Suspend, HandlerSeesItsWrite
<1>4. ASSUME FireReview \/ CompleteReview \/ FinishPublish \/ Crash PROVE HandlerSeesItsWrite'
  BY <1>4 DEF FireReview, CompleteReview, FinishPublish, Crash, Idle, HandlerSeesItsWrite
<1>5. ASSUME NEW v \in Reviews, NEW decision, AnswerReview(v, decision)
      PROVE  HandlerSeesItsWrite'
  BY <1>5 DEF AnswerReview, HandlerSeesItsWrite
<1>6. ASSUME NEW p \in Products, PublishProduct(p) PROVE HandlerSeesItsWrite'
  BY <1>6, TransitionTypes DEF PublishProduct, Suspend, HandlerSeesItsWrite
<1>7. ASSUME NEW p \in Products,
             SetScope(p) \/ Unpublish(p) \/ Certify(p) \/ Decertify(p) \/ ChangePorts(p)
      PROVE  HandlerSeesItsWrite'
  BY <1>7 DEF SetScope, Unpublish, Certify, Decertify, ChangePorts, LoopFree, HandlerSeesItsWrite
<1>8. ASSUME NEW p \in Products, EntityAction(p) PROVE HandlerSeesItsWrite'
  BY <1>8 DEF EntityAction, HandlerSeesItsWrite
<1>9. ASSUME NEW v \in Reviews,
             CancelReview(v) \/ RetryReview(v) \/ \E p \in Products : ExecuteReview(v, p)
      PROVE  HandlerSeesItsWrite'
  BY <1>9 DEF CancelReview, RetryReview, ExecuteReview, HandlerSeesItsWrite
<1>10. CASE UNCHANGED vars
  BY <1>10 DEF vars, HandlerSeesItsWrite
<1> QED BY <1>1, <1>2, <1>3, <1>4, <1>5, <1>6, <1>7, <1>8, <1>9, <1>10 DEF Next

(* Between its commits a handler finds what it committed, for any number   *)
(* of products, reviews and pool threads.                                  *)
THEOREM HandlersSeeTheirWrites == Spec => []HandlerSeesItsWrite
<1>1. Init => HandlerSeesItsWrite
  BY DEF Init, Idle, HandlerSeesItsWrite
<1>2. TypeOK /\ HandlerSeesItsWrite /\ [Next]_vars => HandlerSeesItsWrite'
  BY HandlerStep
<1> QED BY <1>1, <1>2, ProductTypeCorrect, PTL DEF Spec

(* A transition keeps activated products activated. *)
LEMMA TransitionKeepsActivated ==
    ASSUME TypeOK, ShownIsActivated, NEW p \in Products, NEW s, Transition(p, s),
           UNCHANGED <<published, certified, forced>>
    PROVE  ShownIsActivated'
<1> SUFFICES ASSUME NEW q \in (published \cup certified) \ forced
             PROVE  status'[q] \in Activated
  BY DEF ShownIsActivated
<1>1. q \in Products /\ status[q] \in Activated
  BY DEF ShownIsActivated, TypeOK
<1>2. CASE q = p
  BY <1>1, <1>2, ActivatedIsClosed, TransitionTypes DEF Transition
<1>3. CASE q # p
  BY <1>1, <1>3 DEF Transition, TypeOK
<1> QED BY <1>2, <1>3

LEMMA ShownStep ==
    ASSUME TypeOK, HandlerSeesItsWrite, ShownIsActivated, [Next]_vars
    PROVE  ShownIsActivated'
<1>1. ASSUME NEW p \in Products, NEW s \in Statuses, ChangeStatus(p, s)
      PROVE  ShownIsActivated'
  BY <1>1, TransitionKeepsActivated DEF ChangeStatus
<1>2. ASSUME NEW p \in Products, NEW s \in Statuses, UpdateProduct(p, s)
      PROVE  ShownIsActivated'
  BY <1>2 DEF UpdateProduct, ShownIsActivated, TypeOK
<1>3. ASSUME NEW p \in Products, RequestReview(p) \/ PublishProduct(p)
      PROVE  ShownIsActivated'
  BY <1>3, TransitionKeepsActivated DEF RequestReview, PublishProduct
<1>4. ASSUME StartReview PROVE ShownIsActivated'
  <2>1. loop.product \in Products
    BY <1>4 DEF StartReview, TypeOK, Idle
  <2> QED BY <1>4, <2>1, TransitionKeepsActivated DEF StartReview
<1>5. ASSUME FireReview \/ Crash PROVE ShownIsActivated'
  BY <1>5 DEF FireReview, Crash, ShownIsActivated
<1>6. ASSUME NEW v \in Reviews, NEW decision, AnswerReview(v, decision)
      PROVE  ShownIsActivated'
  BY <1>6 DEF AnswerReview, ShownIsActivated
<1>7. ASSUME CompleteReview PROVE ShownIsActivated'
  BY <1>7 DEF CompleteReview, ShownIsActivated, TypeOK
<1>8. ASSUME FinishPublish PROVE ShownIsActivated'
  BY <1>8 DEF FinishPublish, HandlerSeesItsWrite, ShownIsActivated, Activated
<1>9. ASSUME NEW p \in Products, SetScope(p) \/ Certify(p) PROVE ShownIsActivated'
  BY <1>9 DEF SetScope, Certify, MayPublish, MayCertify, ShownIsActivated, Activated
<1>10. ASSUME NEW p \in Products, Unpublish(p) \/ Decertify(p) \/ ChangePorts(p)
       PROVE  ShownIsActivated'
  BY <1>10 DEF Unpublish, Decertify, ChangePorts, ShownIsActivated
<1>11. ASSUME NEW p \in Products, EntityAction(p) PROVE ShownIsActivated'
  BY <1>11 DEF EntityAction, ShownIsActivated
<1>12. ASSUME NEW v \in Reviews,
              CancelReview(v) \/ RetryReview(v) \/ \E p \in Products : ExecuteReview(v, p)
       PROVE  ShownIsActivated'
  BY <1>12 DEF CancelReview, RetryReview, ExecuteReview, ShownIsActivated
<1>13. CASE UNCHANGED vars
  BY <1>13 DEF vars, ShownIsActivated
<1> QED
  BY <1>1, <1>2, <1>3, <1>4, <1>5, <1>6, <1>7, <1>8, <1>9, <1>10, <1>11, <1>12, <1>13 DEF Next

(* What the marketplace shows or a certification marks has been activated, *)
(* unless a workflow or an update wrote to it.                             *)
THEOREM ShownProductsAreActivated == Spec => []ShownIsActivated
<1>1. Init => ShownIsActivated
  BY DEF Init, ShownIsActivated
<1>2. TypeOK /\ HandlerSeesItsWrite /\ ShownIsActivated /\ [Next]_vars => ShownIsActivated'
  BY ShownStep
<1> QED BY <1>1, <1>2, ProductTypeCorrect, HandlersSeeTheirWrites, PTL DEF Spec
=============================================================================
