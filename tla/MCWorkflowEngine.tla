-------------------------- MODULE MCWorkflowEngine --------------------------
(***************************************************************************)
(* Small instances of WorkflowEngine for TLC.  The definitions have the    *)
(* shapes of the shipped workflows (src/backend/src/data) and of the ones  *)
(* the designer lets a user draw: a single approval, two approvals in a    *)
(* row, an approval whose branches are the end of the workflow, and a      *)
(* definition with a branch to an unknown step, which must be refused.     *)
(***************************************************************************)
EXTENDS WorkflowEngine, TLC

MCSteps == {"notify", "approve", "second", "ok", "no"}

MCKind == [s \in MCSteps |-> CASE s = "notify" -> "auto"
                               [] s = "ok"     -> "pass"
                               [] s = "no"     -> "fail"
                               [] OTHER        -> "approval"]

(* `edges' maps the steps in use to their two branches. *)
Draw(first, edges, approvers) ==
    [steps |-> DOMAIN edges, first |-> first, kind |-> MCKind,
     onPass |-> [s \in MCSteps |-> IF s \in DOMAIN edges THEN edges[s][1] ELSE NULL],
     onFail |-> [s \in MCSteps |-> IF s \in DOMAIN edges THEN edges[s][2] ELSE NULL],
     approvers |-> approvers, review |-> TRUE]

Everyone == [s \in MCSteps |-> Approvers]

End(s) == s :> <<NULL, NULL>>

(* Notify the reviewers, ask for an approval, end with a pass or a fail. *)
SingleStage ==
    Draw("notify", "notify" :> <<"approve", "no">> @@ "approve" :> <<"ok", "no">>
                     @@ End("ok") @@ End("no"), Everyone)

(* Two approvals in a row, the second one after a notification. *)
TwoStage ==
    Draw("approve", "approve" :> <<"notify", "no">> @@ "notify" :> <<"second", "second">>
                      @@ "second" :> <<"ok", "no">> @@ End("ok") @@ End("no"), Everyone)

(* The approval is the last step on both branches. *)
ApprovalEnds ==
    Draw("approve", End("approve"), Everyone)

(* One approval, which ends the workflow when it is refused. *)
ApprovalFirst ==
    Draw("approve", "approve" :> <<"ok", NULL>> @@ End("ok"), Everyone)

(* No approval: runs to its end at once. *)
NoApproval ==
    Draw("notify", "notify" :> <<"ok", "no">> @@ End("ok") @@ End("no"), Everyone)

(* A branch names a step that the definition does not have. *)
UnknownBranch ==
    Draw("approve", "approve" :> <<"ok", "no">> @@ End("ok"), Everyone)

AllStages    == {SingleStage, TwoStage, UnknownBranch}
Checked      == {SingleStage, UnknownBranch}
Edited       == {SingleStage, NoApproval}
TwoStages    == {TwoStage}
Shortest     == {ApprovalFirst}
Terminal     == {ApprovalEnds}

(* DATA_PRODUCT_TRANSITIONS, models/lifecycle.py. *)
ProductNext ==
    "draft"        :> {"sandbox", "proposed", "deprecated"} @@
    "sandbox"      :> {"draft", "proposed", "deprecated"} @@
    "proposed"     :> {"draft", "under_review", "deprecated"} @@
    "under_review" :> {"draft", "approved", "deprecated"} @@
    "approved"     :> {"active", "draft", "deprecated"} @@
    "active"       :> {"deprecated"} @@
    "deprecated"   :> {"retired", "active"} @@
    "retired"      :> {}

ProductStatuses    == DOMAIN ProductNext
ProductTransitions == {<<a, b>> \in ProductStatuses \X ProductStatuses : b \in ProductNext[a]}

(* Runs that are not about entities leave their status alone. *)
NoTransitions == {}

(* Bound: of two executions only one is retried. *)
OneRetried == \A e, f \in Executions : exec[e].attempt > 1 /\ exec[f].attempt > 1 => e = f
OneRetrySpec == Init /\ [][Next /\ OneRetried']_vars

Sym == Permutations(Executions) \cup Permutations(Approvers)
=============================================================================
