--------------------------- MODULE WorkflowEngine ---------------------------
(***************************************************************************)
(* The process-workflow engine: workflow definitions, their executions,    *)
(* the step log, the approval notifications and the workers that drive     *)
(* executions (common/workflow_executor.py, the two repositories of        *)
(* repositories/process_workflows_repository.py and the endpoints of       *)
(* routes/workflows_routes.py).                                            *)
(*                                                                         *)
(* One action is one database commit of the code.  A worker is a thread    *)
(* that runs handler code: Loop is the event-loop thread, which runs the   *)
(* `async def' endpoints one after the other without giving up control in  *)
(* between, so every endpoint action asks that Loop is idle; Threads are   *)
(* the pool threads of the `def' endpoints and the job poller, which fire  *)
(* triggers and interleave with everything.                                *)
(***************************************************************************)
EXTENDS Integers, Sequences, FiniteSets

CONSTANTS
    Workflows,         \* ids of process_workflows rows
    DefaultWorkflows,  \* those with is_default
    Executions,        \* ids of workflow_executions rows
    Entities,          \* governed entities (products, contracts, assets)
    Approvers,         \* users a notification can be addressed to
    Steps,             \* step slugs
    Definitions,       \* the workflow definitions clients submit
    Loop,              \* the event-loop thread
    Threads,           \* pool threads and the job poller
    EntityStatuses, Transitions,          \* models/lifecycle.py
    InitialStatus, OnSuccess, OnFailure,
    NULL,
    MaxRevision, MaxAttempts, MaxFaults   \* bounds on edits, retries, faults

Workers == {Loop} \cup Threads

StepKinds == {"auto", "approval", "pass", "fail"}
Branch    == Steps \cup {NULL}

(* The resolved approvers and the entity kind are part of the definition:  *)
(* `review' says that _handle_workflow_completion knows its trigger.       *)
Definition ==
    [steps: SUBSET Steps, first: Steps, kind: [Steps -> StepKinds],
     onPass: [Steps -> Branch], onFail: [Steps -> Branch],
     approvers: [Steps -> SUBSET Approvers], review: BOOLEAN]

ASSUME DefinitionsAssumption ==
    Definitions \subseteq Definition /\ NULL \notin Definitions

ASSUME WorkersAssumption == Loop \notin Threads

ASSUME NullAssumption == NULL \notin Steps \cup Executions \cup Workflows

ASSUME StatusAssumption ==
    /\ {InitialStatus, OnSuccess, OnFailure} \subseteq EntityStatuses
    /\ Transitions \subseteq EntityStatuses \X EntityStatuses

ASSUME BoundsAssumption ==
    MaxRevision \in Nat \ {0} /\ MaxAttempts \in Nat /\ MaxFaults \in Nat

VARIABLES
    workflow,  \* definition and revision of each workflow
    exec,      \* workflow_executions rows
    log,       \* workflow_step_executions rows of each execution, in order
    notes,     \* workflow_approval notifications
    driver,    \* what each worker is executing
    entity,    \* lifecycle status of each entity
    faults     \* crashes and database errors so far

vars == <<workflow, exec, log, notes, driver, entity, faults>>

-----------------------------------------------------------------------------
(* Rows.  `attempt' and `rev' are history variables: the number of times   *)
(* the execution was (re)started and the revision it was started with.     *)

Finals    == {"succeeded", "failed", "cancelled"}
Statuses  == {"none", "running", "paused", "deleted"} \cup Finals

Row == [status: Statuses, workflow: Workflows \cup {NULL},
        entity: Entities \cup {NULL}, cur: Branch, ok: Nat, bad: Nat,
        finished: BOOLEAN, attempt: Nat, rev: Nat]

NoRow == [status |-> "none", workflow |-> NULL, entity |-> NULL,
          cur |-> NULL, ok |-> 0, bad |-> 0, finished |-> FALSE,
          attempt |-> 0, rev |-> 0]

LogEntry == [step: Steps, kind: {"run", "ask", "answer"}, passed: BOOLEAN]

Note == [exec: Executions, step: Steps, user: Approvers,
         state: {"unread", "handled"}]

(* A worker inside execute_workflow or resume_workflow: the definition it  *)
(* loaded, the next step, the counters it keeps in local variables, and    *)
(* whether it resumed a paused execution (`resumed') on behalf of          *)
(* POST /handle-approval (`marks').                                        *)
Driver == [pc: {"idle", "run", "pause", "finish", "complete", "mark"},
           exec: Executions \cup {NULL}, attempt: Nat,
           def: Definitions \cup {NULL}, rev: Nat, step: Branch,
           ok: Nat, bad: Nat, outcome: {"running", "succeeded", "failed"},
           resumed: BOOLEAN, marks: BOOLEAN]

IdleDriver == [pc |-> "idle", exec |-> NULL, attempt |-> 0, def |-> NULL,
               rev |-> 0, step |-> NULL, ok |-> 0, bad |-> 0,
               outcome |-> "running", resumed |-> FALSE, marks |-> FALSE]

Exists(e) == exec[e].status \notin {"none", "deleted"}
Busy(p)   == driver[p].pc # "idle"
LoopIdle  == ~Busy(Loop)
One(b)    == IF b THEN 1 ELSE 0

-----------------------------------------------------------------------------
(* Definitions: the create, update and delete endpoints.                   *)

(* Mutant: the check of the branches is forgotten. *)
ValidFirstStep(d) == d.first \in d.steps

(* validate_workflow: a first step, and branches that name known steps. *)
ValidWorkflow(d) ==
    /\ d.first \in d.steps
    /\ \A s \in d.steps : {d.onPass[s], d.onFail[s]} \subseteq d.steps \cup {NULL}

CreateWorkflow(w, d) ==
    /\ LoopIdle
    /\ workflow[w].def = NULL
    /\ ValidWorkflow(d)
    /\ workflow[w].rev < MaxRevision
    /\ workflow' = [workflow EXCEPT ![w] = [def |-> d, rev |-> @.rev + 1]]
    /\ UNCHANGED <<exec, log, notes, driver, entity, faults>>

(* Replacing the steps deletes the old step rows, and with them, by the    *)
(* foreign key's ON DELETE CASCADE, the log of every execution.            *)
UpdateWorkflow(w, d) ==
    /\ LoopIdle
    /\ workflow[w].def # NULL
    /\ ValidWorkflow(d)
    /\ workflow[w].rev < MaxRevision
    /\ workflow' = [workflow EXCEPT ![w] = [def |-> d, rev |-> @.rev + 1]]
    /\ log' = [e \in Executions |-> IF exec[e].workflow = w THEN <<>> ELSE log[e]]
    /\ UNCHANGED <<exec, notes, driver, entity, faults>>

DeleteWorkflow(w) ==
    /\ LoopIdle
    /\ w \notin DefaultWorkflows
    /\ workflow[w].def # NULL
    /\ workflow[w].rev < MaxRevision
    /\ workflow' = [workflow EXCEPT ![w] = [def |-> NULL, rev |-> @.rev + 1]]
    /\ exec' = [e \in Executions |-> IF exec[e].workflow = w
                                     THEN [exec[e] EXCEPT !.status = "deleted"]
                                     ELSE exec[e]]
    /\ log' = [e \in Executions |-> IF exec[e].workflow = w THEN <<>> ELSE log[e]]
    /\ UNCHANGED <<notes, driver, entity, faults>>

-----------------------------------------------------------------------------
(* execute_workflow.                                                       *)

Driving(e, n, wf) ==
    [IdleDriver EXCEPT !.pc = "run", !.exec = e, !.attempt = n,
                       !.def = wf.def, !.rev = wf.rev, !.step = wf.def.first]

(* A trigger fired by a handler that p runs, or the execute endpoint. *)
StartExecution(p, e, w, x) ==
    /\ ~Busy(p)
    /\ exec[e].status = "none"
    /\ workflow[w].def # NULL
    /\ exec' = [exec EXCEPT ![e] =
                  [NoRow EXCEPT !.status = "running", !.workflow = w, !.entity = x,
                                !.attempt = 1, !.rev = workflow[w].rev]]
    /\ driver' = [driver EXCEPT ![p] = Driving(e, 1, workflow[w])]
    /\ UNCHANGED <<workflow, log, notes, entity, faults>>

(* What a step handler may answer.  An approval step that reaches nobody   *)
(* (or raises) fails; a notification that cannot be created is skipped.    *)
StepResults(d, s) ==
    {r \in [passed: BOOLEAN, asks: SUBSET d.approvers[s]] :
        /\ d.kind[s] = "approval" => r.passed = (r.asks # {})
        /\ d.kind[s] # "approval" => r.asks = {}
        /\ d.kind[s] = "pass" => r.passed
        /\ d.kind[s] = "fail" => ~r.passed}

Outcome(next, passed) ==
    IF next # NULL THEN "running" ELSE IF passed THEN "succeeded" ELSE "failed"

(* The loop body after a non-blocking step: counters, branch, end. *)
AfterStep(d, passed) ==
    LET next == IF passed THEN d.def.onPass[d.step] ELSE d.def.onFail[d.step]
    IN  [d EXCEPT !.ok = @ + One(passed), !.bad = @ + One(~passed),
                  !.step = next,
                  !.pc = IF next = NULL THEN "finish" ELSE "run",
                  !.outcome = Outcome(next, passed)]

(* The row that add_step_execution inserts refers to the execution and to  *)
(* the step row of the definition the worker loaded: both must exist.      *)
Recordable(d) ==
    /\ Exists(d.exec)
    /\ workflow[exec[d.exec].workflow].rev = d.rev

(* One turn of the loop: run the handler, then commit the step's row       *)
(* together with the notifications the handler created.                    *)
ExecuteStep(p) ==
    LET d == driver[p] IN
    /\ d.pc = "run"
    /\ Recordable(d)
    /\ \E r \in StepResults(d.def, d.step) :
         /\ log' = [log EXCEPT ![d.exec] =
                      Append(@, [step |-> d.step, passed |-> r.passed,
                                 kind |-> IF r.asks = {} THEN "run" ELSE "ask"])]
         /\ notes' = notes \cup
                {[exec |-> d.exec, step |-> d.step, user |-> u, state |-> "unread"] :
                    u \in r.asks}
         /\ driver' = [driver EXCEPT ![p] =
                         IF r.asks = {} THEN AfterStep(d, r.passed)
                         ELSE [d EXCEPT !.pc = "pause", !.ok = @ + 1]]
    /\ UNCHANGED <<workflow, exec, entity, faults>>

(* The insert violates a foreign key: the exception leaves the executor    *)
(* (fire_trigger logs it) and the execution row stays as it is.            *)
StepLost(p) ==
    /\ driver[p].pc = "run"
    /\ ~Recordable(driver[p])
    /\ driver' = [driver EXCEPT ![p] = IdleDriver]
    /\ UNCHANGED <<workflow, exec, log, notes, entity, faults>>

(* update_status finds no row when the execution was deleted meanwhile. *)
UpdateRow(e, row) == exec' = IF Exists(e) THEN [exec EXCEPT ![e] = row] ELSE exec

Leave(d) == IF d.marks THEN [d EXCEPT !.pc = "mark"] ELSE IdleDriver

(* Mutants of the pause: one field is not written. *)
PausedRowSameStatus(row, d) ==
    [row EXCEPT !.cur = d.step, !.ok = d.ok, !.bad = d.bad]

PausedRowSameStep(row, d) ==
    [row EXCEPT !.status = "paused", !.ok = d.ok, !.bad = d.bad]

PausedRow(row, d) ==
    [row EXCEPT !.status = "paused", !.cur = d.step, !.ok = d.ok, !.bad = d.bad]

(* Mutant: no `break' after the pause, the loop goes on. *)
PauseWithoutBreak(p) ==
    LET d == driver[p] IN
    /\ d.pc = "pause"
    /\ UpdateRow(d.exec, PausedRow(exec[d.exec], d))
    /\ driver' = [driver EXCEPT ![p] = IF d.def.onPass[d.step] = NULL THEN Leave(d)
                     ELSE [d EXCEPT !.pc = "run", !.step = d.def.onPass[d.step]]]
    /\ UNCHANGED <<workflow, log, notes, entity, faults>>

PauseExecution(p) ==
    LET d == driver[p] IN
    /\ d.pc = "pause"
    /\ UpdateRow(d.exec, PausedRow(exec[d.exec], d))
    /\ driver' = [driver EXCEPT ![p] = Leave(d)]
    /\ UNCHANGED <<workflow, log, notes, entity, faults>>

(* Mutant: the final status is not written. *)
FinishedRowSameStatus(row, d) ==
    [row EXCEPT !.ok = d.ok, !.bad = d.bad, !.finished = TRUE]

(* current_step_id=None leaves the column as it was. *)
FinishedRow(row, d) ==
    [row EXCEPT !.status = d.outcome, !.ok = d.ok, !.bad = d.bad, !.finished = TRUE]

FinishExecution(p) ==
    LET d == driver[p] IN
    /\ d.pc = "finish"
    /\ UpdateRow(d.exec, FinishedRow(exec[d.exec], d))
    /\ driver' = [driver EXCEPT ![p] = IF d.resumed THEN [d EXCEPT !.pc = "complete"]
                                       ELSE IdleDriver]
    /\ UNCHANGED <<workflow, log, notes, entity, faults>>

-----------------------------------------------------------------------------
(* resume_workflow, and the two endpoints that call it.                    *)

Answered(e, approved, marks, next) ==
    LET wf == workflow[exec[e].workflow]
    IN  [IdleDriver EXCEPT
           !.pc = IF next = NULL THEN "finish" ELSE "run",
           !.exec = e, !.attempt = exec[e].attempt,
           !.def = wf.def, !.rev = wf.rev, !.step = next,
           !.ok = exec[e].ok + One(approved), !.bad = exec[e].bad + One(~approved),
           !.resumed = TRUE, !.marks = marks]

(* Mutants: the branches are swapped; the counters start again from zero. *)
AnsweredOtherBranch(e, approved, marks) ==
    LET d == workflow[exec[e].workflow].def
    IN  Answered(e, approved, marks,
                 IF approved THEN d.onFail[exec[e].cur] ELSE d.onPass[exec[e].cur])

AnsweredFreshCounters(e, approved, marks) ==
    LET d == workflow[exec[e].workflow].def
    IN  [Answered(e, approved, marks,
                  IF approved THEN d.onPass[exec[e].cur] ELSE d.onFail[exec[e].cur])
           EXCEPT !.ok = One(approved), !.bad = One(~approved)]

AnsweredDriver(e, approved, marks) ==
    LET d == workflow[exec[e].workflow].def
    IN  Answered(e, approved, marks,
                 IF approved THEN d.onPass[exec[e].cur] ELSE d.onFail[exec[e].cur])

(* Mutant: any execution that has a current step can be resumed. *)
ResumableAnyStatus(e) ==
    /\ Exists(e)
    /\ workflow[exec[e].workflow].def # NULL
    /\ exec[e].cur \in workflow[exec[e].workflow].def.steps

Resumable(e) ==
    /\ exec[e].status = "paused"
    /\ workflow[exec[e].workflow].def # NULL
    /\ exec[e].cur \in workflow[exec[e].workflow].def.steps

ResumeWorkflow(e, approved, marks) ==
    /\ LoopIdle
    /\ Resumable(e)
    /\ log' = [log EXCEPT ![e] =
                 Append(@, [step |-> exec[e].cur, kind |-> "answer", passed |-> approved])]
    /\ driver' = [driver EXCEPT ![Loop] = AnsweredDriver(e, approved, marks)]
    /\ UNCHANGED <<workflow, exec, notes, entity, faults>>

(* POST /executions/{id}/resume, for holders of settings-workflows. *)
ResumeExecution(e) == \E approved \in BOOLEAN : ResumeWorkflow(e, approved, FALSE)

(* POST /handle-approval, for whoever was notified about the execution. *)
HandleApproval(e, u) ==
    /\ \E n \in notes : n.exec = e /\ n.user = u
    /\ \E approved \in BOOLEAN : ResumeWorkflow(e, approved, TRUE)

(* Mutant: success is read off the failure counter. *)
CompleteEntityByCounter(p) ==
    LET d == driver[p] IN
    /\ d.pc = "complete"
    /\ entity' = IF d.def.review
                 THEN [entity EXCEPT ![exec[d.exec].entity] =
                         IF d.bad = 0 THEN OnSuccess ELSE OnFailure]
                 ELSE entity
    /\ driver' = [driver EXCEPT ![p] = Leave(d)]
    /\ UNCHANGED <<workflow, exec, log, notes, faults>>

(* _handle_workflow_completion, in a commit of its own. *)
CompleteEntity(p) ==
    LET d == driver[p] IN
    /\ d.pc = "complete"
    /\ entity' = IF d.def.review
                 THEN [entity EXCEPT ![exec[d.exec].entity] =
                         IF d.outcome = "succeeded" THEN OnSuccess ELSE OnFailure]
                 ELSE entity
    /\ driver' = [driver EXCEPT ![p] = Leave(d)]
    /\ UNCHANGED <<workflow, exec, log, notes, faults>>

(* Mutant: the notifications are not filtered by execution. *)
HandledAll(n, e) ==
    IF n.state = "unread" THEN [n EXCEPT !.state = "handled"] ELSE n

(* The tail of POST /handle-approval: every unread workflow_approval       *)
(* notification of the execution is marked read and handled.               *)
Handled(n, e) ==
    IF n.exec = e /\ n.state = "unread" THEN [n EXCEPT !.state = "handled"] ELSE n

MarkHandled(p) ==
    /\ driver[p].pc = "mark"
    /\ notes' = {Handled(n, driver[p].exec) : n \in notes}
    /\ driver' = [driver EXCEPT ![p] = IdleDriver]
    /\ UNCHANGED <<workflow, exec, log, entity, faults>>

-----------------------------------------------------------------------------
(* Administration of executions.                                           *)

CancelExecution(e) ==
    /\ LoopIdle
    /\ exec[e].status \in {"running", "paused"}
    /\ exec' = [exec EXCEPT ![e] = [@ EXCEPT !.status = "cancelled", !.finished = TRUE]]
    /\ UNCHANGED <<workflow, log, notes, driver, entity, faults>>

Retryable(e) == exec[e].status \in {"failed", "cancelled"}

RetriedRow(row, wf) ==
    [row EXCEPT !.status = "running", !.cur = NULL, !.ok = 0, !.bad = 0,
                !.finished = FALSE, !.attempt = @ + 1, !.rev = wf.rev]

(* reset_for_retry, then execute_workflow on the same row. *)
RetryExecution(e) ==
    LET wf == workflow[exec[e].workflow] IN
    /\ LoopIdle
    /\ Retryable(e)
    /\ exec[e].attempt < MaxAttempts
    /\ log' = [log EXCEPT ![e] = <<>>]
    /\ exec' = [exec EXCEPT ![e] = RetriedRow(exec[e], wf)]
    /\ driver' = [driver EXCEPT ![Loop] = Driving(e, exec[e].attempt + 1, wf)]
    /\ UNCHANGED <<workflow, notes, entity, faults>>

Deletable(e) == exec[e].status \in Finals

(* DELETE /executions and DELETE /executions/{id}: any set of ended ones. *)
DeleteExecutions(S) ==
    /\ LoopIdle
    /\ S # {} /\ \A e \in S : Deletable(e)
    /\ exec' = [e \in Executions |-> IF e \in S THEN [exec[e] EXCEPT !.status = "deleted"]
                                     ELSE exec[e]]
    /\ log' = [e \in Executions |-> IF e \in S THEN <<>> ELSE log[e]]
    /\ UNCHANGED <<workflow, notes, driver, entity, faults>>

(* The other managers move an entity along the lifecycle map. *)
ChangeEntityStatus(x, s) ==
    /\ LoopIdle
    /\ <<entity[x], s>> \in Transitions
    /\ entity' = [entity EXCEPT ![x] = s]
    /\ UNCHANGED <<workflow, exec, log, notes, driver, faults>>

-----------------------------------------------------------------------------
(* Faults: the workers in P stop between two commits.  What was committed  *)
(* stays; nothing in the code looks for it again.                          *)
Interrupt(P) ==
    /\ \E p \in P : Busy(p)
    /\ faults < MaxFaults
    /\ faults' = faults + 1
    /\ driver' = [p \in Workers |-> IF p \in P THEN IdleDriver ELSE driver[p]]
    /\ UNCHANGED <<workflow, exec, log, notes, entity>>

Crash            == Interrupt(Workers)
DatabaseError(p) == Interrupt({p})

-----------------------------------------------------------------------------
Advance(p) ==
    \/ ExecuteStep(p) \/ StepLost(p)
    \/ PauseExecution(p) \/ FinishExecution(p)
    \/ CompleteEntity(p) \/ MarkHandled(p)

Init ==
    /\ workflow \in [Workflows -> [def: {d \in Definitions : ValidWorkflow(d)}, rev: {1}]]
    /\ exec = [e \in Executions |-> NoRow]
    /\ log = [e \in Executions |-> <<>>]
    /\ notes = {}
    /\ driver = [p \in Workers |-> IdleDriver]
    /\ entity = [x \in Entities |-> InitialStatus]
    /\ faults = 0

Next ==
    \/ \E p \in Workers : Advance(p)
    \/ \E p \in Workers, e \in Executions, w \in Workflows, x \in Entities :
           StartExecution(p, e, w, x)
    \/ \E e \in Executions : ResumeExecution(e)
    \/ \E e \in Executions, u \in Approvers : HandleApproval(e, u)
    \/ \E e \in Executions : CancelExecution(e)
    \/ \E e \in Executions : RetryExecution(e)
    \/ \E S \in SUBSET Executions : DeleteExecutions(S)
    \/ \E w \in Workflows, d \in Definitions : CreateWorkflow(w, d)
    \/ \E w \in Workflows, d \in Definitions : UpdateWorkflow(w, d)
    \/ \E w \in Workflows : DeleteWorkflow(w)
    \/ \E x \in Entities, s \in EntityStatuses : ChangeEntityStatus(x, s)
    \/ \E p \in Workers : DatabaseError(p)
    \/ Crash

Spec == Init /\ [][Next]_vars

(* A worker inside a handler keeps going: the code waits for nothing. *)
FairSpec == Spec /\ \A p \in Workers : WF_vars(Advance(p))

-----------------------------------------------------------------------------
(* Properties.                                                             *)

(* An execution is settled when no worker drives it. *)
Settled(e) == \A p \in Workers : driver[p].exec # e

(* Neither a fault nor an edit of its definition touched the execution. *)
Undisturbed(e) ==
    /\ faults = 0
    /\ exec[e].workflow \in Workflows
    /\ workflow[exec[e].workflow].rev = exec[e].rev

(* Whoever drives it is on its current attempt: the retry of a cancelled   *)
(* execution may find a pool thread that is still on the earlier one.      *)
SingleHanded(e) == Undisturbed(e) /\ (Threads = {} \/ exec[e].attempt = 1)

Entries(e, K) == {i \in DOMAIN log[e] : log[e][i].kind \in K}
Passed(e)     == {i \in DOMAIN log[e] : log[e][i].passed}

(* The state is well formed, and a worker about to run a step finds it in  *)
(* the definition it loaded: "Step not found" (workflow_executor.py) is    *)
(* unreachable for validated definitions.                                  *)
DriverOK(d) ==
    /\ d.pc # "idle" => d.exec # NULL /\ d.def # NULL /\ ValidWorkflow(d.def)
    /\ d.pc \in {"run", "pause"} => d.step \in d.def.steps

TypeOK ==
    /\ workflow \in [Workflows -> [def: Definitions \cup {NULL}, rev: 0..MaxRevision]]
    /\ exec \in [Executions -> Row]
    /\ log \in [Executions -> Seq(LogEntry)]
    /\ notes \subseteq Note
    /\ driver \in [Workers -> Driver]
    /\ entity \in [Entities -> EntityStatuses]
    /\ faults \in 0..MaxFaults
    /\ \A p \in Workers : DriverOK(driver[p])

(* Two workers never drive the same attempt of an execution: a paused      *)
(* execution is left by the worker that paused it before anybody can       *)
(* resume it.  (A retry of a cancelled execution may find the old worker   *)
(* still running: those are different attempts.)                           *)
OneDriverPerAttempt ==
    \A p, q \in Workers :
        p # q /\ Busy(p) /\ Busy(q) /\ driver[p].exec = driver[q].exec
            => driver[p].attempt # driver[q].attempt

(* A row that says `running' is being driven by a worker on the current    *)
(* attempt, unless a crash or an edit of the definition orphaned it:       *)
(* nothing in the code looks for such rows again.                          *)
RunningIsDriven ==
    \A e \in Executions :
        exec[e].status = "running" /\ ~exec[e].finished =>
            \/ \E p \in Workers : /\ driver[p].pc \in {"run", "pause", "finish"}
                                  /\ driver[p].exec = e
                                  /\ driver[p].attempt = exec[e].attempt
            \/ faults > 0
            \/ workflow[exec[e].workflow].rev > exec[e].rev

(* The counters of a settled execution agree with its step log, across     *)
(* pauses, answers and retries.                                            *)
CountersMatchLog ==
    \A e \in Executions :
        Exists(e) /\ Settled(e) /\ SingleHanded(e) =>
            /\ exec[e].ok  = Cardinality(Passed(e))
            /\ exec[e].bad = Cardinality(DOMAIN log[e] \ Passed(e))

(* Every request for approval is answered exactly once before the          *)
(* execution ends, and exactly one is open while it is paused.             *)
AnswersMatchAsks ==
    \A e \in Executions :
        Exists(e) /\ Settled(e) /\ SingleHanded(e) =>
            LET open == Cardinality(Entries(e, {"ask"}))
                          - Cardinality(Entries(e, {"answer"}))
            IN  /\ exec[e].status = "paused" => open = 1
                /\ exec[e].status \in {"succeeded", "failed"} => open = 0

(* A paused execution can be answered: resume_workflow accepts it, and     *)
(* somebody was asked about the step it waits at.  (After an edit of its   *)
(* definition it may be stranded: the step is looked up by its slug.)      *)
PausedIsAnswerable ==
    \A e \in Executions :
        exec[e].status = "paused" /\ Settled(e) /\ SingleHanded(e) =>
            /\ Resumable(e)
            /\ \E n \in notes : n.exec = e /\ n.step = exec[e].cur

(* "Notification sent to approvers ... Approver makes decision via         *)
(* notification" (USER-GUIDE.md): while an execution waits, an approver of *)
(* the step it waits at has the request unread.  It fails when a first     *)
(* answer leads to a second approval (run doc_inbox) ...                   *)
WaitingIsSeen(e) ==
    \E n \in notes : n.exec = e /\ n.step = exec[e].cur /\ n.state = "unread"

AskedApproverSeesIt ==
    \A e \in Executions :
        exec[e].status = "paused" /\ Settled(e) => WaitingIsSeen(e)

(* ... and holds for definitions in which no answer leads to an approval   *)
(* step, also when other executions are answered meanwhile or this one is  *)
(* retried.                                                                *)
Branches(d, s) == {d.onPass[s], d.onFail[s]} \ {NULL}

SingleApproval(d) ==
    \E after \in SUBSET {s \in d.steps : d.kind[s] # "approval"} :
        \A s \in d.steps : s \in after \/ d.kind[s] = "approval" => Branches(d, s) \subseteq after

SoleApproverSeesIt ==
    \A e \in Executions :
        exec[e].status = "paused" /\ Settled(e) /\ SingleHanded(e)
          /\ SingleApproval(workflow[exec[e].workflow].def) => WaitingIsSeen(e)

(* "Execution cancelled successfully": a cancelled execution changes again *)
(* only when an administrator retries or deletes it.                       *)
CancelSticks ==
    [][\A e \in Executions :
          exec[e].status = "cancelled" =>
              \/ exec'[e].status \in {"cancelled", "deleted"}
              \/ exec'[e].attempt > exec[e].attempt]_vars

(* An entity is moved outside the lifecycle map only by an execution that  *)
(* ended, and to the status of its committed outcome.                      *)
EntityFollowsOutcome ==
    [][\A x \in Entities :
          entity'[x] # entity[x] /\ <<entity[x], entity'[x]>> \notin Transitions =>
              \E e \in Executions :
                  /\ exec[e].entity = x /\ exec[e].finished
                  /\ entity'[x] = IF exec[e].status = "succeeded"
                                  THEN OnSuccess ELSE OnFailure]_vars

(* Where rejections are final, a review never activates an entity against  *)
(* its last answer: the latest decision in the log of the execution that   *)
(* does it is an approval.  (A definition may succeed after a rejection:   *)
(* what decides is the last step, whatever was answered before.)           *)
CanPass(d, s) == d.kind[s] # "fail"
CanFail(d, s) == d.kind[s] # "pass"

RejectionIsFinal(d) ==
    \E rejected \in SUBSET d.steps :
        \A s \in d.steps :
            /\ CanFail(d, s) /\ (s \in rejected \/ d.kind[s] = "approval") =>
                  d.onFail[s] \in rejected \cup {NULL}
            /\ CanPass(d, s) /\ s \in rejected /\ d.kind[s] # "approval" =>
                  d.onPass[s] \in rejected

LastAnswerApproves(e) ==
    \E i \in Entries(e, {"answer"}) :
        log[e][i].passed /\ \A j \in Entries(e, {"answer"}) : j <= i

ApprovedBeforeActive ==
    [][\A p \in Workers :
          driver[p].pc = "complete" /\ driver'[p].pc # "complete"
            /\ faults' = faults /\ SingleHanded(driver[p].exec)
            /\ driver[p].def.review /\ RejectionIsFinal(driver[p].def)
            /\ driver[p].outcome = "succeeded"
              => LastAnswerApproves(driver[p].exec)]_vars

(* A started execution does not stay `running', and an answered one        *)
(* ends, or pauses again at a step that was asked after the answer, with   *)
(* the event loop free, unless a fault or an edit gets in the way. After a *)
(* retry a thread of the cancelled attempt may still write the row, so the *)
(* second claim is about executions that were not retried.                 *)
RunningTerminates ==
    \A e \in Executions :
        exec[e].status = "running" ~> (exec[e].status = "running" => ~Undisturbed(e))

AnswersSettle ==
    \A e \in Executions :
        driver[Loop].resumed /\ driver[Loop].exec = e ~>
            /\ LoopIdle
            /\ \/ exec[e].status \in Finals
               \/ exec[e].status = "paused" /\ Len(log[e]) \in Entries(e, {"ask"})
               \/ exec[e].attempt > 1 \/ ~Undisturbed(e)

(* What a reader of the row and of the workers sees of an execution.  It   *)
(* works as planned while everybody inside it is on its current attempt    *)
(* and its row says nothing else, and is overtaken otherwise.              *)
Drives(p, e) == driver[p].exec = e /\ driver[p].pc \in {"run", "pause", "finish"}

AsPlanned(e) ==
    /\ exec[e].status \in {"running", "paused"}
    /\ \A p \in Workers : Drives(p, e) => driver[p].attempt = exec[e].attempt

Seen(e) ==
    IF Exists(e) /\ \E p \in Workers : Drives(p, e)
    THEN IF AsPlanned(e) THEN "working" ELSE "overtaken"
    ELSE CASE exec[e].status = "running" -> "orphaned"
           [] exec[e].status = "paused"  -> "waiting"
           [] OTHER                      -> exec[e].status

Lifecycle == INSTANCE ExecutionLifecycle
             WITH state <- [e \in Executions |-> Seen(e)],
                  loop  <- {e \in Executions : Drives(Loop, e)}

(* Executions follow the handbook's state machine, except that a pool      *)
(* thread may overtake a cancellation: every commit of the code is a step  *)
(* of it or invisible, and what nobody works on stays as it is until       *)
(* somebody answers, retries, cancels or deletes it.                       *)
RefinesLifecycle == Lifecycle!Spec

(* "null for terminal" (models/process_workflows.py, on_pass and on_fail)  *)
(* and "running -- actively executing a step" (handbook): an execution     *)
(* that finished has a final status, whichever step was its last.  It does *)
(* not when an approval step has a null branch (run doc_terminal).         *)
FinishedIsFinal ==
    \A e \in Executions :
        Exists(e) /\ Settled(e) /\ exec[e].finished => exec[e].status \in Finals
=============================================================================
