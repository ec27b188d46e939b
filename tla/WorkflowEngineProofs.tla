------------------------ MODULE WorkflowEngineProofs ------------------------
(***************************************************************************)
(* Theorems about WorkflowEngine, for every number of workflows,           *)
(* definitions, executions and pool threads.                               *)
(*                                                                         *)
(* Engine says who drives an execution: it is what the guards of the       *)
(* endpoints rely on.  Books says what has been done to it: the row, the   *)
(* log, the requests and the frame of its worker agree.  From these follow *)
(* the invariants about counters, requests and pauses, what a review gives *)
(* to its entity, how long a cancellation lasts, and, step by step, the    *)
(* refinement of ExecutionLifecycle.                                       *)
(***************************************************************************)
EXTENDS WorkflowEngine, FiniteSetTheorems, SequenceTheorems, TLAPS

(* Stored definitions are valid: the endpoints validate them. *)
StoredValid ==
    \A w \in Workflows : workflow[w].def # NULL => ValidWorkflow(workflow[w].def)

(* A row belongs to a workflow, which exists as long as the row does. *)
RowsOwned ==
    \A e \in Executions :
        /\ exec[e].status = "none" => exec[e].workflow = NULL
        /\ exec[e].status # "none" =>
              /\ exec[e].workflow \in Workflows
              /\ exec[e].rev <= workflow[exec[e].workflow].rev
              /\ exec[e].attempt >= 1
              /\ exec[e].status # "deleted" => workflow[exec[e].workflow].def # NULL

(* A worker drives a row that was created, at its current attempt or an    *)
(* earlier one, with a revision that the workflow has reached.             *)
DriversOwn ==
    \A p \in Workers :
        Busy(p) =>
            /\ driver[p].exec \in Executions
            /\ exec[driver[p].exec].status # "none"
            /\ driver[p].attempt <= exec[driver[p].exec].attempt
            /\ driver[p].rev <= workflow[exec[driver[p].exec].workflow].rev
            /\ driver[p].attempt = exec[driver[p].exec].attempt
                 => exec[driver[p].exec].rev <= driver[p].rev

(* Pool threads only run first attempts up to their first pause or end.    *)
ThreadsStart ==
    \A t \in Threads :
        Busy(t) => /\ driver[t].attempt = 1
                   /\ ~driver[t].resumed /\ ~driver[t].marks
                   /\ driver[t].pc \in {"run", "pause", "finish"}

ThreadsApart ==
    \A s, t \in Threads :
        s # t /\ Busy(s) /\ Busy(t) => driver[s].exec # driver[t].exec

(* While a thread is on the first attempt, nobody finds it paused.         *)
ThreadsUnpaused ==
    \A t \in Threads :
        Busy(t) /\ exec[driver[t].exec].attempt = 1
            => exec[driver[t].exec].status \in {"running", "cancelled", "deleted"}

(* The event loop is on the current attempt of the row it drives.          *)
LoopCurrent ==
    Busy(Loop) => /\ driver[Loop].attempt = exec[driver[Loop].exec].attempt
                  /\ driver[Loop].attempt = 1
                       => \A t \in Threads : Busy(t) => driver[t].exec # driver[Loop].exec

-----------------------------------------------------------------------------
(* What the helpers return.                                                *)

(* A step handler answers with a verdict and a set of notified approvers.  *)
LEMMA StepResultsType ==
    ASSUME NEW d \in Definitions, NEW s \in Steps, NEW r \in StepResults(d, s)
    PROVE  /\ r.passed \in BOOLEAN
           /\ r.asks \in SUBSET Approvers
           /\ r.asks # {} => d.kind[s] = "approval" /\ r.passed
<1>1. d.approvers[s] \subseteq Approvers /\ d.kind[s] \in StepKinds
  BY DefinitionsAssumption DEF Definition
<1>2. QED
  BY <1>1 DEF StepResults

(* The branches of a valid definition lead to its own steps or to the end. *)
LEMMA BranchType ==
    ASSUME NEW d \in Definitions, ValidWorkflow(d), NEW s \in d.steps
    PROVE  /\ s \in Steps /\ d.first \in d.steps /\ d.first \in Steps
           /\ d.onPass[s] \in Branch /\ d.onFail[s] \in Branch
           /\ d.onPass[s] # NULL => d.onPass[s] \in d.steps
           /\ d.onFail[s] # NULL => d.onFail[s] \in d.steps
BY DefinitionsAssumption DEF Definition, ValidWorkflow, Branch

(* The loop body leaves a worker that runs a known step, or that is done.  *)
LEMMA AfterStepType ==
    ASSUME NEW d \in Driver, d.pc = "run", DriverOK(d), NEW b \in BOOLEAN
    PROVE  /\ AfterStep(d, b) \in Driver
           /\ DriverOK(AfterStep(d, b))
           /\ AfterStep(d, b).pc \in {"run", "finish"}
           /\ AfterStep(d, b).exec = d.exec /\ AfterStep(d, b).attempt = d.attempt
           /\ AfterStep(d, b).rev = d.rev /\ AfterStep(d, b).resumed = d.resumed
           /\ AfterStep(d, b).marks = d.marks
<1> DEFINE next == IF b THEN d.def.onPass[d.step] ELSE d.def.onFail[d.step]
<1> DEFINE pc == IF next = NULL THEN "finish" ELSE "run"
<1> DEFINE ok == d.ok + One(b)
<1> DEFINE bad == d.bad + One(~b)
<1> DEFINE outcome == Outcome(next, b)
<1>1. d.def \in Definitions /\ ValidWorkflow(d.def) /\ d.step \in d.def.steps
  BY DEF DriverOK, Driver
<1>2. next \in Branch /\ (next # NULL => next \in d.def.steps)
  BY <1>1, BranchType
<1>3. /\ ok \in Nat /\ bad \in Nat
      /\ outcome \in {"running", "succeeded", "failed"}
      /\ pc \in {"run", "finish"} /\ (pc = "run" => next # NULL)
  BY DEF One, Outcome, Driver
<1>4. AfterStep(d, b) = [d EXCEPT !.ok = ok, !.bad = bad, !.step = next,
                                  !.pc = pc, !.outcome = outcome]
  BY DEF AfterStep
<1> HIDE DEF next, pc, ok, bad, outcome
<1>5. AfterStep(d, b) \in Driver
  BY <1>2, <1>3, <1>4 DEF Driver
<1>6. /\ AfterStep(d, b).def = d.def /\ AfterStep(d, b).step = next
      /\ AfterStep(d, b).pc = pc
      /\ AfterStep(d, b).exec = d.exec /\ AfterStep(d, b).attempt = d.attempt
      /\ AfterStep(d, b).rev = d.rev /\ AfterStep(d, b).resumed = d.resumed
      /\ AfterStep(d, b).marks = d.marks
  BY <1>4 DEF Driver
<1>7. DriverOK(AfterStep(d, b))
  BY <1>1, <1>2, <1>3, <1>6 DEF DriverOK
<1>8. QED
  BY <1>3, <1>5, <1>6, <1>7

(* A worker that has asked for an approval. *)
LEMMA AskingType ==
    ASSUME NEW d \in Driver, d.pc = "run", DriverOK(d)
    PROVE  /\ [d EXCEPT !.pc = "pause", !.ok = @ + 1] \in Driver
           /\ DriverOK([d EXCEPT !.pc = "pause", !.ok = @ + 1])
<1> DEFINE n == d.ok + 1
<1> DEFINE a == [d EXCEPT !.pc = "pause", !.ok = n]
<1>1. n \in Nat
  BY DEF Driver
<1> HIDE DEF n
<1>2. a \in Driver
  BY <1>1 DEF Driver
<1>3. a.pc = "pause" /\ a.exec = d.exec /\ a.def = d.def /\ a.step = d.step
  BY DEF Driver
<1> HIDE DEF a
<1>4. DriverOK(a)
  BY <1>3 DEF DriverOK
<1>5. QED
  BY <1>2, <1>4 DEF a, n

(* A worker that starts an execution. *)
LEMMA DrivingType ==
    ASSUME NEW e \in Executions, NEW n \in Nat, NEW wf,
           wf.def \in Definitions, wf.rev \in Nat, ValidWorkflow(wf.def)
    PROVE  /\ Driving(e, n, wf) \in Driver
           /\ DriverOK(Driving(e, n, wf))
           /\ Driving(e, n, wf).pc = "run" /\ Driving(e, n, wf).exec = e
           /\ Driving(e, n, wf).attempt = n /\ Driving(e, n, wf).rev = wf.rev
           /\ ~Driving(e, n, wf).resumed /\ ~Driving(e, n, wf).marks
<1>1. wf.def.first \in wf.def.steps /\ wf.def.first \in Steps
  BY DefinitionsAssumption DEF ValidWorkflow, Definition
<1>2. wf.def # NULL
  BY DefinitionsAssumption
<1>3. QED
  BY <1>1, <1>2, NullAssumption DEF Driving, IdleDriver, Driver, DriverOK, Branch

(* The workflow of a row that exists: a stored, valid definition. *)
LEMMA OwnedWorkflow ==
    ASSUME TypeOK, StoredValid, RowsOwned, NEW e \in Executions, Exists(e)
    PROVE  /\ exec[e].workflow \in Workflows
           /\ workflow[exec[e].workflow].def \in Definitions
           /\ workflow[exec[e].workflow].def # NULL
           /\ ValidWorkflow(workflow[exec[e].workflow].def)
           /\ workflow[exec[e].workflow].rev \in Nat
BY BoundsAssumption DEF TypeOK, StoredValid, RowsOwned, Exists

(* A worker that resumes an execution: on the branch of the answer. *)
LEMMA AnsweredType ==
    ASSUME TypeOK, StoredValid, RowsOwned, NEW e \in Executions, Resumable(e),
           NEW a \in BOOLEAN, NEW m \in BOOLEAN
    PROVE  /\ AnsweredDriver(e, a, m) \in Driver
           /\ DriverOK(AnsweredDriver(e, a, m))
           /\ AnsweredDriver(e, a, m).pc \in {"run", "finish"}
           /\ AnsweredDriver(e, a, m).exec = e
           /\ AnsweredDriver(e, a, m).attempt = exec[e].attempt
           /\ AnsweredDriver(e, a, m).rev = workflow[exec[e].workflow].rev
           /\ exec[e].cur \in Steps
<1> DEFINE wf == workflow[exec[e].workflow]
<1> DEFINE next == IF a THEN wf.def.onPass[exec[e].cur] ELSE wf.def.onFail[exec[e].cur]
<1> DEFINE pc == IF next = NULL THEN "finish" ELSE "run"
<1> DEFINE ok == exec[e].ok + One(a)
<1> DEFINE bad == exec[e].bad + One(~a)
<1>1. /\ wf.def \in Definitions /\ ValidWorkflow(wf.def) /\ wf.def # NULL
      /\ wf.rev \in Nat /\ exec[e].cur \in wf.def.steps
  BY OwnedWorkflow DEF Resumable, Exists
<1>2. /\ next \in Branch /\ (next # NULL => next \in wf.def.steps)
      /\ exec[e].cur \in Steps
  BY <1>1, BranchType
<1>3. /\ ok \in Nat /\ bad \in Nat /\ exec[e].attempt \in Nat
      /\ pc \in {"run", "finish"} /\ (pc = "run" => next # NULL)
  <2>1. exec[e].ok \in Nat /\ exec[e].bad \in Nat /\ exec[e].attempt \in Nat
    BY DEF TypeOK, Row
  <2>2. One(a) \in Nat /\ One(~a) \in Nat
    BY DEF One
  <2>3. ok \in Nat /\ bad \in Nat
    BY <2>1, <2>2
  <2>4. pc \in {"run", "finish"} /\ (pc = "run" => next # NULL)
    OBVIOUS
  <2> HIDE DEF ok, bad, pc, next
  <2> QED BY <2>1, <2>3, <2>4
<1>4. AnsweredDriver(e, a, m) =
        [IdleDriver EXCEPT !.pc = pc, !.exec = e, !.attempt = exec[e].attempt,
                           !.def = wf.def, !.rev = wf.rev, !.step = next,
                           !.ok = ok, !.bad = bad, !.resumed = TRUE, !.marks = m]
  BY DEF AnsweredDriver, Answered
<1> HIDE DEF wf, next, pc, ok, bad
<1>a. AnsweredDriver(e, a, m) =
        [pc |-> pc, exec |-> e, attempt |-> exec[e].attempt, def |-> wf.def, rev |-> wf.rev,
         step |-> next, ok |-> ok, bad |-> bad, outcome |-> "running", resumed |-> TRUE,
         marks |-> m]
  BY <1>4 DEF IdleDriver
<1>5. AnsweredDriver(e, a, m) \in Driver
  BY <1>1, <1>2, <1>3, <1>a DEF Driver
<1>6. /\ AnsweredDriver(e, a, m).pc = pc /\ AnsweredDriver(e, a, m).exec = e
      /\ AnsweredDriver(e, a, m).attempt = exec[e].attempt
      /\ AnsweredDriver(e, a, m).rev = wf.rev
      /\ AnsweredDriver(e, a, m).def = wf.def
      /\ AnsweredDriver(e, a, m).step = next
  BY <1>a
<1>7. DriverOK(AnsweredDriver(e, a, m))
  BY <1>1, <1>2, <1>3, <1>6, NullAssumption DEF DriverOK
<1>8. QED
  BY <1>2, <1>3, <1>5, <1>6, <1>7 DEF wf

(* A worker that leaves the executor. *)
LEMMA LeaveType ==
    ASSUME NEW d \in Driver, DriverOK(d), d.pc # "idle"
    PROVE  /\ Leave(d) \in Driver /\ DriverOK(Leave(d))
           /\ IdleDriver \in Driver /\ DriverOK(IdleDriver)
           /\ Leave(d).pc \in {"idle", "mark"}
           /\ Leave(d).pc = "mark" => /\ d.marks /\ Leave(d) = [d EXCEPT !.pc = "mark"]
<1>1. IdleDriver \in Driver /\ DriverOK(IdleDriver) /\ IdleDriver.pc = "idle"
  BY DEF Driver, DriverOK, IdleDriver, Branch
<1>2. CASE d.marks
  <2>1. Leave(d) = [d EXCEPT !.pc = "mark"] /\ [d EXCEPT !.pc = "mark"] \in Driver
    BY <1>2 DEF Leave, Driver
  <2>2. Leave(d).exec = d.exec /\ Leave(d).def = d.def /\ Leave(d).pc = "mark"
    BY <2>1 DEF Driver
  <2>3. QED
    BY <1>1, <1>2, <2>1, <2>2 DEF DriverOK
<1>3. CASE ~d.marks
  BY <1>1, <1>3 DEF Leave
<1>4. QED
  BY <1>2, <1>3

(* Replacing what one worker does. *)
LEMMA DriverReplaced ==
    ASSUME TypeOK, NEW p \in Workers, NEW d \in Driver, DriverOK(d)
    PROVE  /\ [driver EXCEPT ![p] = d] \in [Workers -> Driver]
           /\ \A q \in Workers : DriverOK([driver EXCEPT ![p] = d][q])
<1>1. driver \in [Workers -> Driver] /\ \A q \in Workers : DriverOK(driver[q])
  BY DEF TypeOK
<1>2. [driver EXCEPT ![p] = d] \in [Workers -> Driver]
  BY <1>1
<1>3. ASSUME NEW q \in Workers PROVE DriverOK([driver EXCEPT ![p] = d][q])
  <2>1. CASE q = p
    BY <1>1, <2>1
  <2>2. CASE q # p
    BY <1>1, <2>2
  <2>3. QED
    BY <2>1, <2>2
<1>4. QED
  BY <1>2, <1>3

-----------------------------------------------------------------------------
(* Type correctness.                                                       *)

LEMMA TypeInit == Init => TypeOK
<1> SUFFICES ASSUME Init PROVE TypeOK
  OBVIOUS
<1>1. workflow \in [Workflows -> [def: Definitions \cup {NULL}, rev: 0..MaxRevision]]
  BY BoundsAssumption DEF Init
<1>2. NoRow \in Row /\ IdleDriver \in Driver /\ DriverOK(IdleDriver)
  BY DEF NoRow, Row, Statuses, Branch, IdleDriver, Driver, DriverOK
<1>3. <<>> \in Seq(LogEntry)
  OBVIOUS
<1>4. QED
  BY <1>1, <1>2, <1>3, StatusAssumption, BoundsAssumption DEF Init, TypeOK

(* The rows that the executor and the endpoints write. *)
LEMMA RowTypes ==
    ASSUME NEW r \in Row, NEW d \in Driver
    PROVE  /\ PausedRow(r, d) \in Row /\ FinishedRow(r, d) \in Row
           /\ PausedRow(r, d).status = "paused"
           /\ FinishedRow(r, d).finished
           /\ \A f \in {PausedRow(r, d), FinishedRow(r, d)} :
                 /\ f.workflow = r.workflow /\ f.rev = r.rev
                 /\ f.attempt = r.attempt /\ f.entity = r.entity
                 /\ f.status \notin {"none", "deleted"}
           /\ FinishedRow(r, d).status \in {"running", "succeeded", "failed"}
<1>1. /\ d.step \in Branch /\ d.ok \in Nat /\ d.bad \in Nat
      /\ d.outcome \in {"running", "succeeded", "failed"}
  BY DEF Driver
<1>2. {"paused", "running", "succeeded", "failed"} \subseteq Statuses \ {"none", "deleted"}
  BY DEF Statuses, Finals
<1> DEFINE f == PausedRow(r, d)
<1>3. /\ f \in Row /\ f.status = "paused" /\ f.workflow = r.workflow /\ f.rev = r.rev
      /\ f.attempt = r.attempt /\ f.entity = r.entity
  BY <1>1, <1>2 DEF Row, PausedRow
<1> DEFINE g == FinishedRow(r, d)
<1>4. /\ g \in Row /\ g.status = d.outcome /\ g.finished /\ g.workflow = r.workflow
      /\ g.rev = r.rev /\ g.attempt = r.attempt /\ g.entity = r.entity
  BY <1>1, <1>2 DEF Row, FinishedRow
<1> HIDE DEF f, g
<1>5. /\ f.status \notin {"none", "deleted"} /\ g.status \notin {"none", "deleted"}
      /\ g.status \in {"running", "succeeded", "failed"}
  BY <1>1, <1>3, <1>4
<1> QED BY <1>3, <1>4, <1>5 DEF f, g

LEMMA RetriedType ==
    ASSUME NEW r \in Row, NEW wf, wf.rev \in Nat
    PROVE  /\ RetriedRow(r, wf) \in Row
           /\ RetriedRow(r, wf).status = "running"
           /\ RetriedRow(r, wf).workflow = r.workflow
           /\ RetriedRow(r, wf).attempt = r.attempt + 1
           /\ RetriedRow(r, wf).rev = wf.rev
<1> DEFINE n == r.attempt + 1
<1> DEFINE x == [r EXCEPT !.status = "running", !.cur = NULL, !.ok = 0, !.bad = 0,
                          !.finished = FALSE, !.attempt = n, !.rev = wf.rev]
<1>1. n \in Nat
  BY DEF Row
<1>2. RetriedRow(r, wf) = x
  BY DEF RetriedRow
<1> HIDE DEF n
<1>3. x \in Row
  BY <1>1 DEF Row, Statuses, Branch
<1>4. x.status = "running" /\ x.workflow = r.workflow /\ x.attempt = n /\ x.rev = wf.rev
  BY DEF Row
<1>5. QED
  BY <1>2, <1>3, <1>4 DEF n

(* update_status changes the row it is given, if it is still there. *)
LEMMA UpdateRowType ==
    ASSUME TypeOK, NEW e \in Executions, NEW r \in Row, UpdateRow(e, r)
    PROVE  /\ exec' \in [Executions -> Row]
           /\ exec' = IF Exists(e) THEN [exec EXCEPT ![e] = r] ELSE exec
           /\ \A f \in Executions : f # e => exec'[f] = exec[f]
           /\ exec'[e] = IF Exists(e) THEN r ELSE exec[e]
BY DEF TypeOK, UpdateRow

(* Deleting rows keeps everything but their status. *)
LEMMA DeletedRows ==
    ASSUME TypeOK, NEW S,
           exec' = [e \in Executions |-> IF e \in S THEN [exec[e] EXCEPT !.status = "deleted"]
                                         ELSE exec[e]],
           log' = [e \in Executions |-> IF e \in S THEN <<>> ELSE log[e]]
    PROVE  /\ exec' \in [Executions -> Row]
           /\ log' \in [Executions -> Seq(LogEntry)]
           /\ \A e \in Executions :
                 /\ exec'[e].workflow = exec[e].workflow /\ exec'[e].rev = exec[e].rev
                 /\ exec'[e].attempt = exec[e].attempt
                 /\ exec'[e].finished = exec[e].finished
                 /\ exec'[e].status = IF e \in S THEN "deleted" ELSE exec[e].status
<1>1. exec \in [Executions -> Row] /\ log \in [Executions -> Seq(LogEntry)]
  BY DEF TypeOK
<1>2. \A e \in Executions : [exec[e] EXCEPT !.status = "deleted"] \in Row
  BY <1>1 DEF Row, Statuses
<1>3. <<>> \in Seq(LogEntry)
  OBVIOUS
<1>4. QED
  BY <1>1, <1>2, <1>3 DEF Row

(* Every action keeps the types.  The executor's: *)
LEMMA TypeAdvance ==
    ASSUME TypeOK, NEW p \in Workers, Advance(p)
    PROVE  TypeOK'
<1> DEFINE d == driver[p]
<1>1. d \in Driver /\ DriverOK(d)
  BY DEF TypeOK
<1>2. CASE ExecuteStep(p)
  <2>1. /\ d.pc = "run" /\ d.exec \in Executions /\ Exists(d.exec)
        /\ UNCHANGED <<workflow, exec, entity, faults>>
    BY <1>1, <1>2 DEF ExecuteStep, Recordable, Driver, DriverOK
  <2>2. d.def \in Definitions /\ d.step \in d.def.steps /\ d.step \in Steps
    BY <1>1, <2>1, BranchType DEF Driver, DriverOK
  <2>3. PICK r \in StepResults(d.def, d.step) :
         /\ log' = [log EXCEPT ![d.exec] =
                      Append(@, [step |-> d.step, passed |-> r.passed,
                                 kind |-> IF r.asks = {} THEN "run" ELSE "ask"])]
         /\ notes' = notes \cup
                {[exec |-> d.exec, step |-> d.step, user |-> u, state |-> "unread"] :
                    u \in r.asks}
         /\ driver' = [driver EXCEPT ![p] =
                         IF r.asks = {} THEN AfterStep(d, r.passed)
                         ELSE [d EXCEPT !.pc = "pause", !.ok = @ + 1]]
    BY <1>2 DEF ExecuteStep
  <2>4. r.passed \in BOOLEAN /\ r.asks \in SUBSET Approvers
    BY <2>2, StepResultsType
  <2>5. [step |-> d.step, passed |-> r.passed,
         kind |-> IF r.asks = {} THEN "run" ELSE "ask"] \in LogEntry
    BY <2>2, <2>4 DEF LogEntry
  <2>6. log' \in [Executions -> Seq(LogEntry)]
    <3> DEFINE x == [step |-> d.step, passed |-> r.passed,
                     kind |-> IF r.asks = {} THEN "run" ELSE "ask"]
    <3>1. log \in [Executions -> Seq(LogEntry)] /\ log' = [log EXCEPT ![d.exec] = Append(@, x)]
      BY <2>3 DEF TypeOK
    <3>2. x \in LogEntry
      BY <2>5
    <3> HIDE DEF x
    <3>3. QED
      BY <2>1, <3>1, <3>2
  <2>7. notes' \subseteq Note
    BY <2>1, <2>2, <2>3, <2>4 DEF TypeOK, Note
  <2>8. /\ AfterStep(d, r.passed) \in Driver /\ DriverOK(AfterStep(d, r.passed))
    BY <1>1, <2>1, <2>4, AfterStepType
  <2>9. /\ [d EXCEPT !.pc = "pause", !.ok = @ + 1] \in Driver
        /\ DriverOK([d EXCEPT !.pc = "pause", !.ok = @ + 1])
    BY <1>1, <2>1, AskingType
  <2>10. driver' \in [Workers -> Driver] /\ \A q \in Workers : DriverOK(driver'[q])
    BY <2>3, <2>8, <2>9, DriverReplaced
  <2>11. QED
    BY <2>1, <2>6, <2>7, <2>10 DEF TypeOK
<1>3. CASE StepLost(p)
  <2>1. driver' = [driver EXCEPT ![p] = IdleDriver]
        /\ UNCHANGED <<workflow, exec, log, notes, entity, faults>>
    BY <1>3 DEF StepLost
  <2>2. IdleDriver \in Driver /\ DriverOK(IdleDriver)
    BY DEF Driver, DriverOK, IdleDriver, Branch
  <2>3. driver' \in [Workers -> Driver] /\ \A q \in Workers : DriverOK(driver'[q])
    BY <2>1, <2>2, DriverReplaced
  <2>4. QED
    BY <2>1, <2>3 DEF TypeOK
<1>4. CASE PauseExecution(p)
  <2>1. /\ d.pc = "pause" /\ d.exec \in Executions
        /\ UpdateRow(d.exec, PausedRow(exec[d.exec], d))
        /\ driver' = [driver EXCEPT ![p] = Leave(d)]
        /\ UNCHANGED <<workflow, log, notes, entity, faults>>
    BY <1>1, <1>4 DEF PauseExecution, Driver, DriverOK
  <2>2. PausedRow(exec[d.exec], d) \in Row
    BY <1>1, <2>1, RowTypes DEF TypeOK
  <2>3. exec' \in [Executions -> Row]
    BY <2>1, <2>2, UpdateRowType
  <2>4. driver' \in [Workers -> Driver] /\ \A q \in Workers : DriverOK(driver'[q])
    BY <1>1, <2>1, LeaveType, DriverReplaced
  <2>5. QED
    BY <2>1, <2>3, <2>4 DEF TypeOK
<1>5. CASE FinishExecution(p)
  <2>1. /\ d.pc = "finish" /\ d.exec \in Executions
        /\ UpdateRow(d.exec, FinishedRow(exec[d.exec], d))
        /\ driver' = [driver EXCEPT ![p] = IF d.resumed THEN [d EXCEPT !.pc = "complete"]
                                           ELSE IdleDriver]
        /\ UNCHANGED <<workflow, log, notes, entity, faults>>
    BY <1>1, <1>5 DEF FinishExecution, Driver, DriverOK
  <2>2. FinishedRow(exec[d.exec], d) \in Row
    BY <1>1, <2>1, RowTypes DEF TypeOK
  <2>3. exec' \in [Executions -> Row]
    BY <2>1, <2>2, UpdateRowType
  <2>4. /\ [d EXCEPT !.pc = "complete"] \in Driver
        /\ DriverOK([d EXCEPT !.pc = "complete"])
        /\ IdleDriver \in Driver /\ DriverOK(IdleDriver)
    BY <1>1, <2>1, LeaveType DEF Driver, DriverOK
  <2>5. driver' \in [Workers -> Driver] /\ \A q \in Workers : DriverOK(driver'[q])
    BY <2>1, <2>4, DriverReplaced
  <2>6. QED
    BY <2>1, <2>3, <2>5 DEF TypeOK
<1>6. CASE CompleteEntity(p)
  <2>1. /\ d.pc = "complete" /\ driver' = [driver EXCEPT ![p] = Leave(d)]
        /\ UNCHANGED <<workflow, exec, log, notes, faults>>
    BY <1>6 DEF CompleteEntity
  <2>2. entity' \in [Entities -> EntityStatuses]
    BY <1>6, StatusAssumption DEF CompleteEntity, TypeOK
  <2>3. driver' \in [Workers -> Driver] /\ \A q \in Workers : DriverOK(driver'[q])
    BY <1>1, <2>1, LeaveType, DriverReplaced
  <2>4. QED
    BY <2>1, <2>2, <2>3 DEF TypeOK
<1>7. CASE MarkHandled(p)
  <2>1. /\ d.pc = "mark" /\ driver' = [driver EXCEPT ![p] = IdleDriver]
        /\ notes' = {Handled(n, d.exec) : n \in notes}
        /\ UNCHANGED <<workflow, exec, log, entity, faults>>
    BY <1>7 DEF MarkHandled
  <2>2. \A n \in Note : Handled(n, d.exec) \in Note
    BY DEF Handled, Note
  <2>3. notes' \subseteq Note
    BY <2>1, <2>2 DEF TypeOK
  <2>4. driver' \in [Workers -> Driver] /\ \A q \in Workers : DriverOK(driver'[q])
    BY <1>1, <2>1, LeaveType, DriverReplaced
  <2>5. QED
    BY <2>1, <2>3, <2>4 DEF TypeOK
<1>8. QED
  BY <1>2, <1>3, <1>4, <1>5, <1>6, <1>7 DEF Advance

(* The endpoints': *)
LEMMA TypeStart ==
    ASSUME TypeOK, StoredValid, NEW p \in Workers, NEW e \in Executions,
           NEW w \in Workflows, NEW x \in Entities, StartExecution(p, e, w, x)
    PROVE  TypeOK'
<1>1. /\ workflow[w].def \in Definitions /\ workflow[w].rev \in Nat
      /\ ValidWorkflow(workflow[w].def)
  BY BoundsAssumption DEF StartExecution, TypeOK, StoredValid
<1>2. [NoRow EXCEPT !.status = "running", !.workflow = w, !.entity = x,
                    !.attempt = 1, !.rev = workflow[w].rev] \in Row
  BY <1>1 DEF NoRow, Row, Statuses, Branch
<1>3. exec' \in [Executions -> Row]
  BY <1>2 DEF StartExecution, TypeOK
<1>4. Driving(e, 1, workflow[w]) \in Driver /\ DriverOK(Driving(e, 1, workflow[w]))
  BY <1>1, DrivingType
<1>5. driver' \in [Workers -> Driver] /\ \A q \in Workers : DriverOK(driver'[q])
  BY <1>4, DriverReplaced DEF StartExecution
<1>6. QED
  BY <1>3, <1>5 DEF StartExecution, TypeOK

LEMMA TypeResume ==
    ASSUME TypeOK, StoredValid, RowsOwned, NEW e \in Executions,
           NEW a \in BOOLEAN, NEW m \in BOOLEAN, ResumeWorkflow(e, a, m)
    PROVE  TypeOK'
<1> DEFINE x == [step |-> exec[e].cur, kind |-> "answer", passed |-> a]
<1>1. /\ AnsweredDriver(e, a, m) \in Driver /\ DriverOK(AnsweredDriver(e, a, m))
      /\ exec[e].cur \in Steps
  BY AnsweredType DEF ResumeWorkflow
<1>2. x \in LogEntry
  BY <1>1 DEF LogEntry
<1>3. log \in [Executions -> Seq(LogEntry)] /\ log' = [log EXCEPT ![e] = Append(@, x)]
  BY DEF TypeOK, ResumeWorkflow
<1> HIDE DEF x
<1>4. log' \in [Executions -> Seq(LogEntry)]
  BY <1>2, <1>3
<1>5. driver' \in [Workers -> Driver] /\ \A q \in Workers : DriverOK(driver'[q])
  BY <1>1, DriverReplaced DEF ResumeWorkflow, Workers
<1>6. QED
  BY <1>4, <1>5 DEF ResumeWorkflow, TypeOK

LEMMA TypeRetry ==
    ASSUME TypeOK, StoredValid, RowsOwned, NEW e \in Executions, RetryExecution(e)
    PROVE  TypeOK'
<1> DEFINE wf == workflow[exec[e].workflow]
<1> DEFINE n == exec[e].attempt + 1
<1>1. wf.def \in Definitions /\ wf.rev \in Nat /\ ValidWorkflow(wf.def)
  BY OwnedWorkflow DEF RetryExecution, Retryable, Exists
<1>2. n \in Nat /\ exec[e] \in Row
  BY DEF TypeOK, Row
<1>3. /\ exec' = [exec EXCEPT ![e] = RetriedRow(exec[e], wf)]
      /\ log' = [log EXCEPT ![e] = <<>>]
      /\ driver' = [driver EXCEPT ![Loop] = Driving(e, n, wf)]
      /\ UNCHANGED <<workflow, notes, entity, faults>>
  BY DEF RetryExecution
<1> HIDE DEF n, wf
<1>4. exec' \in [Executions -> Row]
  BY <1>1, <1>2, <1>3, RetriedType DEF TypeOK
<1>5. log' \in [Executions -> Seq(LogEntry)]
  <2>1. log \in [Executions -> Seq(LogEntry)] /\ <<>> \in Seq(LogEntry)
    BY DEF TypeOK
  <2>2. QED
    BY <1>3, <2>1
<1>6. driver' \in [Workers -> Driver] /\ \A q \in Workers : DriverOK(driver'[q])
  <2>1. Driving(e, n, wf) \in Driver /\ DriverOK(Driving(e, n, wf))
    BY <1>1, <1>2, DrivingType
  <2>2. Loop \in Workers
    BY DEF Workers
  <2> QED BY <1>3, <2>1, <2>2, DriverReplaced
<1>7. QED
  BY <1>3, <1>4, <1>5, <1>6 DEF TypeOK

LEMMA TypeDefine ==
    ASSUME TypeOK, NEW w \in Workflows, NEW d \in Definitions,
           CreateWorkflow(w, d) \/ UpdateWorkflow(w, d)
    PROVE  TypeOK'
<1> DEFINE r == workflow[w].rev + 1
<1>1. r \in 0..MaxRevision
  BY BoundsAssumption DEF TypeOK, CreateWorkflow, UpdateWorkflow
<1>2. workflow' = [workflow EXCEPT ![w] = [def |-> d, rev |-> r]]
  BY DEF CreateWorkflow, UpdateWorkflow
<1> HIDE DEF r
<1>3. workflow' \in [Workflows -> [def: Definitions \cup {NULL}, rev: 0..MaxRevision]]
  BY <1>1, <1>2 DEF TypeOK
<1>4. log' \in [Executions -> Seq(LogEntry)]
  <2>1. log \in [Executions -> Seq(LogEntry)] /\ <<>> \in Seq(LogEntry)
    BY DEF TypeOK
  <2>2. \/ log' = log
        \/ log' = [e \in Executions |-> IF exec[e].workflow = w THEN <<>> ELSE log[e]]
    BY DEF CreateWorkflow, UpdateWorkflow
  <2>3. QED
    BY <2>1, <2>2
<1>5. QED
  BY <1>3, <1>4 DEF TypeOK, CreateWorkflow, UpdateWorkflow

(* Deleting a workflow deletes the rows of its executions. *)
Owned(w) == {e \in Executions : exec[e].workflow = w}

LEMMA DeleteWorkflowRows ==
    ASSUME TypeOK, NEW w \in Workflows, DeleteWorkflow(w)
    PROVE  /\ exec' = [e \in Executions |-> IF e \in Owned(w)
                                            THEN [exec[e] EXCEPT !.status = "deleted"]
                                            ELSE exec[e]]
           /\ log' = [e \in Executions |-> IF e \in Owned(w) THEN <<>> ELSE log[e]]
           /\ workflow' = [workflow EXCEPT ![w] = [def |-> NULL, rev |-> workflow[w].rev + 1]]
           /\ UNCHANGED <<notes, driver, entity, faults>>
BY DEF DeleteWorkflow, Owned

LEMMA TypeDelete ==
    ASSUME TypeOK, NEW w \in Workflows, DeleteWorkflow(w)
    PROVE  TypeOK'
<1> DEFINE r == workflow[w].rev + 1
<1>1. r \in 0..MaxRevision
  BY BoundsAssumption DEF TypeOK, DeleteWorkflow
<1>2. workflow' = [workflow EXCEPT ![w] = [def |-> NULL, rev |-> r]]
  BY DeleteWorkflowRows
<1> HIDE DEF r
<1>3. workflow' \in [Workflows -> [def: Definitions \cup {NULL}, rev: 0..MaxRevision]]
  BY <1>1, <1>2 DEF TypeOK
<1>4. exec' \in [Executions -> Row] /\ log' \in [Executions -> Seq(LogEntry)]
  BY DeleteWorkflowRows, DeletedRows
<1>5. QED
  BY <1>3, <1>4, DeleteWorkflowRows DEF TypeOK

LEMMA TypeDeleteExecutions ==
    ASSUME TypeOK, NEW S \in SUBSET Executions, DeleteExecutions(S)
    PROVE  TypeOK'
<1>1. exec' \in [Executions -> Row] /\ log' \in [Executions -> Seq(LogEntry)]
  BY DeletedRows DEF DeleteExecutions
<1>2. QED
  BY <1>1 DEF DeleteExecutions, TypeOK

LEMMA TypeCancel ==
    ASSUME TypeOK, NEW e \in Executions, CancelExecution(e)
    PROVE  TypeOK'
<1>1. [exec[e] EXCEPT !.status = "cancelled", !.finished = TRUE] \in Row
  <2>1. exec[e] \in Row
    BY DEF TypeOK
  <2>2. "cancelled" \in Statuses
    BY DEF Statuses, Finals
  <2> QED BY <2>1, <2>2 DEF Row
<1>2. QED
  BY <1>1 DEF CancelExecution, TypeOK

LEMMA TypeInterrupt ==
    ASSUME TypeOK, NEW P, Interrupt(P)
    PROVE  TypeOK'
<1>1. IdleDriver \in Driver /\ DriverOK(IdleDriver)
  BY DEF Driver, DriverOK, IdleDriver, Branch
<1>2. faults' \in 0..MaxFaults
  BY BoundsAssumption DEF Interrupt, TypeOK
<1>3. driver' \in [Workers -> Driver] /\ \A q \in Workers : DriverOK(driver'[q])
  BY <1>1 DEF Interrupt, TypeOK
<1>4. QED
  BY <1>2, <1>3 DEF Interrupt, TypeOK

LEMMA TypeStep ==
    ASSUME TypeOK, StoredValid, RowsOwned, [Next]_vars
    PROVE  TypeOK'
<1>1. CASE \E p \in Workers : Advance(p)
  BY <1>1, TypeAdvance
<1>2. CASE \E p \in Workers, e \in Executions, w \in Workflows, x \in Entities :
               StartExecution(p, e, w, x)
  BY <1>2, TypeStart
<1>3. CASE \E e \in Executions : ResumeExecution(e)
  BY <1>3, TypeResume DEF ResumeExecution
<1>4. CASE \E e \in Executions, u \in Approvers : HandleApproval(e, u)
  BY <1>4, TypeResume DEF HandleApproval
<1>5. CASE \E e \in Executions : CancelExecution(e)
  BY <1>5, TypeCancel
<1>6. CASE \E e \in Executions : RetryExecution(e)
  BY <1>6, TypeRetry
<1>7. CASE \E S \in SUBSET Executions : DeleteExecutions(S)
  BY <1>7, TypeDeleteExecutions
<1>8. CASE \E w \in Workflows, d \in Definitions : CreateWorkflow(w, d) \/ UpdateWorkflow(w, d)
  BY <1>8, TypeDefine
<1>9. CASE \E w \in Workflows : DeleteWorkflow(w)
  BY <1>9, TypeDelete
<1>10. CASE \E x \in Entities, t \in EntityStatuses : ChangeEntityStatus(x, t)
  BY <1>10 DEF ChangeEntityStatus, TypeOK
<1>11. CASE Crash \/ \E p \in Workers : DatabaseError(p)
  BY <1>11, TypeInterrupt DEF Crash, DatabaseError
<1>12. CASE UNCHANGED vars
  BY <1>12 DEF vars, TypeOK
<1>13. QED
  BY <1>1, <1>2, <1>3, <1>4, <1>5, <1>6, <1>7, <1>8, <1>9, <1>10, <1>11, <1>12 DEF Next

-----------------------------------------------------------------------------
(* Who drives what.                                                        *)

Driven ==
    /\ StoredValid /\ RowsOwned /\ DriversOwn
    /\ ThreadsStart /\ ThreadsApart /\ ThreadsUnpaused /\ LoopCurrent

(* A worker that moves on keeps its execution, its attempt and its         *)
(* revision, and changes nothing but the status of its own row.            *)
LEMMA DrivenAdvance ==
    ASSUME TypeOK, Driven, NEW p \in Workers, Busy(p), NEW n \in Driver,
           driver' = [driver EXCEPT ![p] = n],
           n.pc # "idle" =>
              /\ n.exec = driver[p].exec /\ n.attempt = driver[p].attempt
              /\ n.rev = driver[p].rev
              /\ n.resumed = driver[p].resumed /\ n.marks = driver[p].marks
              /\ ~n.resumed => n.pc \in {"run", "pause", "finish", "mark"}
              /\ n.pc = "mark" => n.marks
              /\ exec' = exec \/ n.resumed \/ n.marks,
           UNCHANGED workflow,
           \A f \in Executions :
              /\ exec'[f].workflow = exec[f].workflow /\ exec'[f].rev = exec[f].rev
              /\ exec'[f].attempt = exec[f].attempt
              /\ exec'[f].status = "none" <=> exec[f].status = "none"
              /\ exec'[f].status = "deleted" <=> exec[f].status = "deleted"
              /\ f # driver[p].exec => exec'[f] = exec[f]
    PROVE  Driven'
<1> DEFINE d == driver[p]
<1>1. driver \in [Workers -> Driver]
  BY DEF TypeOK
<1>2. \A q \in Workers : driver'[q] = IF q = p THEN n ELSE driver[q]
  BY <1>1
<1>3. StoredValid' /\ RowsOwned'
  BY DEF Driven, StoredValid, RowsOwned, ValidWorkflow
<1>4. \A q \in Workers : Busy(q)' => /\ Busy(q) /\ driver'[q].exec = driver[q].exec
                                     /\ driver'[q].attempt = driver[q].attempt
                                     /\ driver'[q].rev = driver[q].rev
  BY <1>2 DEF Busy
<1>5. DriversOwn'
  BY <1>4 DEF Driven, DriversOwn
<1>6. ThreadsStart'
  BY <1>2, <1>4 DEF Driven, ThreadsStart, Busy, Workers
<1>7. ThreadsApart'
  BY <1>4 DEF Driven, ThreadsApart, Workers
<1>8. LoopCurrent'
  BY <1>4 DEF Driven, LoopCurrent, Workers, DriversOwn
<1>9. ThreadsUnpaused'
  <2> SUFFICES ASSUME NEW t \in Threads, Busy(t)', exec'[driver'[t].exec].attempt = 1
               PROVE  exec'[driver'[t].exec].status \in {"running", "cancelled", "deleted"}
    BY DEF ThreadsUnpaused
  <2>1. /\ Busy(t) /\ driver'[t].exec = driver[t].exec /\ driver[t].exec \in Executions
        /\ exec[driver[t].exec].attempt = 1 /\ d.exec \in Executions
        /\ exec[driver[t].exec].status \in {"running", "cancelled", "deleted"}
    BY <1>4 DEF Driven, DriversOwn, ThreadsUnpaused, Workers
  <2>2. CASE driver[t].exec # d.exec
    BY <2>1, <2>2
  <2>3. CASE t = p
    BY <1>2, <2>1, <2>3 DEF Driven, ThreadsStart, Busy
  <2>4. CASE t # p /\ driver[t].exec = d.exec
    <3>1. p = Loop
      BY <2>1, <2>4 DEF Driven, ThreadsApart, Workers
    <3>2. QED
      BY <2>1, <2>4, <3>1 DEF Driven, LoopCurrent, DriversOwn
  <2>5. QED
    BY <2>2, <2>3, <2>4
<1>10. QED
  BY <1>3, <1>5, <1>6, <1>7, <1>8, <1>9 DEF Driven

(* Rows that differ only in what the executor writes. *)
SameRows ==
    \A f \in Executions :
        /\ exec'[f].workflow = exec[f].workflow /\ exec'[f].rev = exec[f].rev
        /\ exec'[f].attempt = exec[f].attempt
        /\ exec'[f].status = "none" <=> exec[f].status = "none"
        /\ exec'[f].status = "deleted" <=> exec[f].status = "deleted"

LEMMA UpdateRowSame ==
    ASSUME TypeOK, NEW d \in Driver, d.exec \in Executions,
           NEW r \in {PausedRow(exec[d.exec], d), FinishedRow(exec[d.exec], d)},
           UpdateRow(d.exec, r)
    PROVE  /\ SameRows
           /\ \A f \in Executions : f # d.exec => exec'[f] = exec[f]
           /\ exec'[d.exec] = IF Exists(d.exec) THEN r ELSE exec[d.exec]
<1>1. exec[d.exec] \in Row
  BY DEF TypeOK
<1>2. /\ r \in Row /\ r.workflow = exec[d.exec].workflow /\ r.rev = exec[d.exec].rev
      /\ r.attempt = exec[d.exec].attempt /\ r.status \notin {"none", "deleted"}
  BY <1>1, RowTypes
<1>3. /\ \A f \in Executions : f # d.exec => exec'[f] = exec[f]
      /\ exec'[d.exec] = IF Exists(d.exec) THEN r ELSE exec[d.exec]
  BY <1>2, UpdateRowType
<1>4. ASSUME NEW f \in Executions
      PROVE  /\ exec'[f].workflow = exec[f].workflow /\ exec'[f].rev = exec[f].rev
             /\ exec'[f].attempt = exec[f].attempt
             /\ exec'[f].status = "none" <=> exec[f].status = "none"
             /\ exec'[f].status = "deleted" <=> exec[f].status = "deleted"
  <2>1. CASE f # d.exec
    BY <1>3, <2>1
  <2>2. CASE f = d.exec /\ Exists(d.exec)
    BY <1>2, <1>3, <2>2 DEF Exists
  <2>3. CASE f = d.exec /\ ~Exists(d.exec)
    BY <1>3, <2>3
  <2>4. QED
    BY <2>1, <2>2, <2>3
<1>5. QED
  BY <1>3, <1>4 DEF SameRows

(* A running row keeps its driver when the worker that moves on still      *)
(* drives, or did not drive the row on its current attempt.                *)
LEMMA RunningAdvance ==
    ASSUME TypeOK, RunningIsDriven, NEW p \in Workers, NEW n \in Driver,
           driver' = [driver EXCEPT ![p] = n],
           UNCHANGED <<workflow, faults>>, SameRows,
           \A f \in Executions : f # driver[p].exec => exec'[f] = exec[f],
           \/ /\ exec' = exec
              /\ n.pc \in {"run", "pause", "finish"} \/ driver[p].pc \in {"complete", "mark"}
              /\ n.exec = driver[p].exec \/ driver[p].pc \in {"complete", "mark"}
              /\ n.attempt = driver[p].attempt \/ driver[p].pc \in {"complete", "mark"}
           \/ /\ driver[p].exec \in Executions
              /\ exec'[driver[p].exec].status # "running" \/ exec'[driver[p].exec].finished
           \/ /\ exec' = exec /\ driver[p].exec \in Executions
              /\ \/ driver[p].attempt # exec[driver[p].exec].attempt
                 \/ workflow[exec[driver[p].exec].workflow].rev > exec[driver[p].exec].rev
    PROVE  RunningIsDriven'
<1>1. \A q \in Workers : driver'[q] = IF q = p THEN n ELSE driver[q]
  BY DEF TypeOK
<1> SUFFICES ASSUME NEW e \in Executions, exec'[e].status = "running", ~exec'[e].finished,
                    ~(faults > 0), ~(workflow[exec[e].workflow].rev > exec[e].rev)
             PROVE  \E q \in Workers : /\ driver'[q].pc \in {"run", "pause", "finish"}
                                       /\ driver'[q].exec = e
                                       /\ driver'[q].attempt = exec'[e].attempt
  BY DEF RunningIsDriven, SameRows
<1>2. exec'[e] = exec[e]
  OBVIOUS
<1>3. PICK q \in Workers : /\ driver[q].pc \in {"run", "pause", "finish"}
                           /\ driver[q].exec = e /\ driver[q].attempt = exec[e].attempt
  BY <1>2 DEF RunningIsDriven
<1>4. CASE q # p
  BY <1>1, <1>2, <1>3, <1>4
<1>5. CASE q = p
  BY <1>1, <1>2, <1>3, <1>5
<1>6. QED
  BY <1>4, <1>5

Engine == TypeOK /\ Driven /\ RunningIsDriven

LEMMA EngineAdvance ==
    ASSUME Engine, NEW p \in Workers, Advance(p)
    PROVE  Driven' /\ RunningIsDriven'
<1> DEFINE d == driver[p]
<1>1. d \in Driver /\ DriverOK(d) /\ TypeOK /\ Driven /\ RunningIsDriven
  BY DEF Engine, TypeOK
<1>2. Busy(p) /\ d.exec \in Executions
  BY <1>1 DEF Advance, ExecuteStep, StepLost, PauseExecution, FinishExecution,
              CompleteEntity, MarkHandled, Busy, Driver, DriverOK
<1>4. IdleDriver \in Driver /\ IdleDriver.pc = "idle"
  BY DEF Driver, IdleDriver, Branch
<1>5. CASE ExecuteStep(p)
  <2>1. PICK r \in StepResults(d.def, d.step) :
          driver' = [driver EXCEPT ![p] = IF r.asks = {} THEN AfterStep(d, r.passed)
                                          ELSE [d EXCEPT !.pc = "pause", !.ok = @ + 1]]
    BY <1>5 DEF ExecuteStep
  <2>2. d.pc = "run" /\ UNCHANGED <<workflow, exec, faults>>
    BY <1>5 DEF ExecuteStep
  <2>3. r.passed \in BOOLEAN
    BY <1>1, <2>2, BranchType, StepResultsType DEF DriverOK, Driver
  <2>4. PICK n \in Driver :
          /\ driver' = [driver EXCEPT ![p] = n]
          /\ n.pc \in {"run", "pause", "finish"} /\ n.exec = d.exec /\ n.attempt = d.attempt
          /\ n.rev = d.rev /\ n.resumed = d.resumed /\ n.marks = d.marks
    <3>1. CASE r.asks = {}
      BY <1>1, <2>1, <2>2, <2>3, <3>1, AfterStepType
    <3>2. CASE r.asks # {}
      <4>1. [d EXCEPT !.pc = "pause", !.ok = @ + 1] \in Driver
        BY <1>1, <2>2, AskingType
      <4>2. QED
        BY <1>1, <2>1, <3>2, <4>1 DEF Driver
    <3>3. QED
      BY <3>1, <3>2
  <2>5. Driven'
    BY <1>1, <1>2, <2>2, <2>4, DrivenAdvance
  <2>6. RunningIsDriven'
    BY <1>1, <2>2, <2>4, RunningAdvance DEF SameRows
  <2>7. QED
    BY <2>5, <2>6
<1>6. CASE StepLost(p)
  <2>1. /\ driver' = [driver EXCEPT ![p] = IdleDriver] /\ UNCHANGED <<workflow, exec, faults>>
        /\ ~Recordable(d)
    BY <1>6 DEF StepLost
  <2>2. Driven'
    BY <1>1, <1>2, <1>4, <2>1, DrivenAdvance
  <2>3. \/ exec[d.exec].status # "running"
        \/ d.attempt # exec[d.exec].attempt
        \/ workflow[exec[d.exec].workflow].rev > exec[d.exec].rev
    <3>1. SUFFICES ASSUME exec[d.exec].status = "running", d.attempt = exec[d.exec].attempt
                   PROVE  workflow[exec[d.exec].workflow].rev > exec[d.exec].rev
      OBVIOUS
    <3>2. workflow[exec[d.exec].workflow].rev # d.rev
      BY <2>1, <3>1 DEF Recordable, Exists
    <3>3. exec[d.exec].rev <= d.rev /\ d.rev <= workflow[exec[d.exec].workflow].rev
      BY <1>1, <1>2, <3>1 DEF Driven, DriversOwn
    <3>4. /\ exec[d.exec].workflow \in Workflows /\ exec[d.exec].rev \in Nat /\ d.rev \in Nat
      BY <1>1, <1>2, <3>1 DEF Driven, RowsOwned, TypeOK, Row, Driver
    <3>5. workflow[exec[d.exec].workflow].rev \in Nat
      BY <1>1, <3>4, BoundsAssumption DEF TypeOK
    <3>6. QED
      BY <3>2, <3>3, <3>4, <3>5
  <2>4. RunningIsDriven'
    BY <1>1, <1>2, <1>4, <2>1, <2>3, RunningAdvance DEF SameRows
  <2>5. QED
    BY <2>2, <2>4
<1>7. CASE PauseExecution(p)
  <2>1. /\ UpdateRow(d.exec, PausedRow(exec[d.exec], d))
        /\ driver' = [driver EXCEPT ![p] = Leave(d)] /\ UNCHANGED <<workflow, faults>>
    BY <1>7 DEF PauseExecution
  <2>2. /\ SameRows /\ \A f \in Executions : f # d.exec => exec'[f] = exec[f]
        /\ exec'[d.exec].status # "running"
    <3> DEFINE r == PausedRow(exec[d.exec], d)
    <3>1. exec[d.exec] \in Row
      BY <1>1, <1>2 DEF TypeOK
    <3>2. r.status = "paused"
      BY <1>1, <3>1, RowTypes
    <3>3. /\ SameRows /\ \A f \in Executions : f # d.exec => exec'[f] = exec[f]
          /\ exec'[d.exec] = IF Exists(d.exec) THEN r ELSE exec[d.exec]
      BY <1>1, <1>2, <2>1, UpdateRowSame
    <3> HIDE DEF r
    <3>4. QED
      BY <3>2, <3>3 DEF Exists
  <2>3. Leave(d) \in Driver /\ Leave(d).pc \in {"idle", "mark"}
    BY <1>1, <1>2, LeaveType DEF Busy
  <2>4. Leave(d).pc # "idle" =>
              /\ Leave(d).exec = d.exec /\ Leave(d).attempt = d.attempt
              /\ Leave(d).rev = d.rev /\ Leave(d).pc = "mark"
              /\ Leave(d).resumed = d.resumed /\ Leave(d).marks = d.marks /\ Leave(d).marks
    BY <1>1, <1>2, LeaveType DEF Busy, Driver
  <2>5. Driven'
    BY <1>1, <1>2, <2>1, <2>2, <2>3, <2>4, DrivenAdvance DEF SameRows
  <2>6. RunningIsDriven'
    BY <1>1, <1>2, <2>1, <2>2, <2>3, RunningAdvance
  <2>7. QED
    BY <2>5, <2>6
<1>8. CASE FinishExecution(p)
  <2> DEFINE n == IF d.resumed THEN [d EXCEPT !.pc = "complete"] ELSE IdleDriver
  <2>1. /\ UpdateRow(d.exec, FinishedRow(exec[d.exec], d))
        /\ driver' = [driver EXCEPT ![p] = n] /\ UNCHANGED <<workflow, faults>>
    BY <1>8 DEF FinishExecution
  <2>2. /\ SameRows /\ \A f \in Executions : f # d.exec => exec'[f] = exec[f]
        /\ exec'[d.exec].status # "running" \/ exec'[d.exec].finished
    <3> DEFINE r == FinishedRow(exec[d.exec], d)
    <3>1. exec[d.exec] \in Row
      BY <1>1, <1>2 DEF TypeOK
    <3>2. r.finished
      BY <1>1, <3>1, RowTypes
    <3>3. /\ SameRows /\ \A f \in Executions : f # d.exec => exec'[f] = exec[f]
          /\ exec'[d.exec] = IF Exists(d.exec) THEN r ELSE exec[d.exec]
      BY <1>1, <1>2, <2>1, UpdateRowSame
    <3> HIDE DEF r
    <3>4. QED
      BY <3>2, <3>3 DEF Exists
  <2>3. n \in Driver
    BY <1>1, <1>4 DEF Driver
  <2>4. n.pc # "idle" =>
              /\ n.exec = d.exec /\ n.attempt = d.attempt /\ n.rev = d.rev
              /\ n.resumed /\ d.resumed /\ n.marks = d.marks /\ n.pc # "mark"
    BY <1>1, <1>4 DEF Driver
  <2> HIDE DEF n
  <2>5. Driven'
    BY <1>1, <1>2, <2>1, <2>2, <2>3, <2>4, DrivenAdvance DEF SameRows
  <2>6. RunningIsDriven'
    BY <1>1, <1>2, <2>1, <2>2, <2>3, RunningAdvance
  <2>7. QED
    BY <2>5, <2>6
<1>9. CASE CompleteEntity(p)
  <2>1. /\ d.pc = "complete" /\ driver' = [driver EXCEPT ![p] = Leave(d)]
        /\ UNCHANGED <<workflow, exec, faults>>
    BY <1>9 DEF CompleteEntity
  <2>2. Leave(d) \in Driver /\ Leave(d).pc \in {"idle", "mark"}
    BY <1>1, <1>2, LeaveType DEF Busy
  <2>3. Leave(d).pc # "idle" =>
              /\ Leave(d).exec = d.exec /\ Leave(d).attempt = d.attempt
              /\ Leave(d).rev = d.rev /\ Leave(d).pc = "mark"
              /\ Leave(d).resumed = d.resumed /\ Leave(d).marks = d.marks /\ Leave(d).marks
    BY <1>1, <1>2, LeaveType DEF Busy, Driver
  <2>4. Driven'
    BY <1>1, <1>2, <2>1, <2>2, <2>3, DrivenAdvance
  <2>5. RunningIsDriven'
    BY <1>1, <2>1, <2>2, RunningAdvance DEF SameRows
  <2>6. QED
    BY <2>4, <2>5
<1>10. CASE MarkHandled(p)
  <2>1. /\ d.pc = "mark" /\ driver' = [driver EXCEPT ![p] = IdleDriver]
        /\ UNCHANGED <<workflow, exec, faults>>
    BY <1>10 DEF MarkHandled
  <2>2. Driven'
    BY <1>1, <1>2, <1>4, <2>1, DrivenAdvance
  <2>3. RunningIsDriven'
    BY <1>1, <1>4, <2>1, RunningAdvance DEF SameRows
  <2>4. QED
    BY <2>2, <2>3
<1>11. QED
  BY <1>5, <1>6, <1>7, <1>8, <1>9, <1>10 DEF Advance

(* Starting, resuming and retrying put an idle worker on a row. *)
LEMMA EngineStart ==
    ASSUME Engine, NEW p \in Workers, NEW e \in Executions,
           NEW w \in Workflows, NEW x \in Entities, StartExecution(p, e, w, x)
    PROVE  Driven' /\ RunningIsDriven'
<1> DEFINE n == Driving(e, 1, workflow[w])
<1> DEFINE r == [NoRow EXCEPT !.status = "running", !.workflow = w, !.entity = x,
                              !.attempt = 1, !.rev = workflow[w].rev]
<1>1. TypeOK /\ Driven /\ RunningIsDriven
  BY DEF Engine
<1>2. /\ workflow[w].def \in Definitions /\ workflow[w].rev \in Nat
      /\ ValidWorkflow(workflow[w].def) /\ workflow[w].def # NULL
  BY <1>1, BoundsAssumption DEF StartExecution, TypeOK, Driven, StoredValid
<1>3. /\ n \in Driver /\ n.pc = "run" /\ n.exec = e /\ n.attempt = 1
      /\ n.rev = workflow[w].rev /\ ~n.resumed /\ ~n.marks
  BY <1>2, DrivingType
<1>4. /\ r.status = "running" /\ r.workflow = w /\ r.attempt = 1
      /\ r.rev = workflow[w].rev
  BY DEF NoRow
<1>5. /\ ~Busy(p) /\ exec[e].status = "none"
      /\ exec' = [exec EXCEPT ![e] = r] /\ driver' = [driver EXCEPT ![p] = n]
      /\ UNCHANGED <<workflow, faults>>
  BY DEF StartExecution
<1> HIDE DEF n, r
<1>6. /\ \A f \in Executions : exec'[f] = IF f = e THEN r ELSE exec[f]
      /\ \A q \in Workers : driver'[q] = IF q = p THEN n ELSE driver[q]
  BY <1>1, <1>5 DEF TypeOK
<1>7. \A q \in Workers : Busy(q) => /\ q # p /\ driver[q].exec \in Executions
                                    /\ driver[q].exec # e
  BY <1>1, <1>5 DEF Driven, DriversOwn
<1>8. \A q \in Workers : Busy(q)' <=> (q = p \/ Busy(q))
  BY <1>3, <1>5, <1>6 DEF Busy
<1>9. StoredValid'
  BY <1>1, <1>5 DEF Driven, StoredValid, ValidWorkflow
<1>10. RowsOwned'
  BY <1>1, <1>2, <1>4, <1>5, <1>6 DEF Driven, RowsOwned
<1>11. DriversOwn'
  BY <1>1, <1>2, <1>3, <1>4, <1>5, <1>6, <1>7, <1>8 DEF Driven, DriversOwn
<1>12. ThreadsStart'
  BY <1>1, <1>3, <1>6, <1>7, <1>8 DEF Driven, ThreadsStart, Workers
<1>13. ThreadsApart'
  BY <1>1, <1>3, <1>6, <1>7, <1>8 DEF Driven, ThreadsApart, Workers
<1>14. ThreadsUnpaused'
  BY <1>1, <1>3, <1>4, <1>6, <1>7, <1>8 DEF Driven, ThreadsUnpaused, Workers
<1>15. LoopCurrent'
  BY <1>1, <1>3, <1>4, <1>6, <1>7, <1>8, WorkersAssumption DEF Driven, LoopCurrent, Workers
<1>16. RunningIsDriven'
  BY <1>1, <1>3, <1>4, <1>5, <1>6 DEF RunningIsDriven, Busy
<1>17. QED
  BY <1>9, <1>10, <1>11, <1>12, <1>13, <1>14, <1>15, <1>16 DEF Driven

LEMMA EngineResume ==
    ASSUME Engine, NEW e \in Executions, NEW a \in BOOLEAN, NEW m \in BOOLEAN,
           ResumeWorkflow(e, a, m)
    PROVE  Driven' /\ RunningIsDriven'
<1> DEFINE n == AnsweredDriver(e, a, m)
<1>1. TypeOK /\ Driven /\ RunningIsDriven /\ StoredValid /\ RowsOwned /\ Loop \in Workers
  BY DEF Engine, Driven, Workers
<1>2. /\ n \in Driver /\ n.pc \in {"run", "finish"} /\ n.exec = e
      /\ n.attempt = exec[e].attempt /\ n.rev = workflow[exec[e].workflow].rev
  BY <1>1, AnsweredType DEF ResumeWorkflow
<1>3. /\ ~Busy(Loop) /\ exec[e].status = "paused"
      /\ driver' = [driver EXCEPT ![Loop] = n] /\ UNCHANGED <<workflow, exec, faults>>
  BY DEF ResumeWorkflow, Resumable, LoopIdle
<1> HIDE DEF n
<1>4. \A q \in Workers : driver'[q] = IF q = Loop THEN n ELSE driver[q]
  BY <1>1, <1>3 DEF TypeOK
<1>5. \A q \in Workers : Busy(q)' <=> (q = Loop \/ Busy(q))
  BY <1>2, <1>3, <1>4 DEF Busy
<1>6. \A t \in Threads : t \in Workers /\ t # Loop
  BY WorkersAssumption DEF Workers
<1>7. /\ exec[e].workflow \in Workflows /\ exec[e].rev <= workflow[exec[e].workflow].rev
      /\ exec[e].rev \in Nat /\ workflow[exec[e].workflow].rev \in Nat
      /\ exec[e].attempt \in Nat
  BY <1>1, <1>3, BoundsAssumption DEF RowsOwned, TypeOK, Row
<1>8. StoredValid' /\ RowsOwned'
  BY <1>1, <1>3 DEF StoredValid, RowsOwned, ValidWorkflow
<1>9. DriversOwn'
  BY <1>1, <1>2, <1>3, <1>4, <1>5, <1>7 DEF Driven, DriversOwn
<1>10. ThreadsStart' /\ ThreadsApart' /\ ThreadsUnpaused'
  BY <1>1, <1>3, <1>4, <1>5, <1>6 DEF Driven, ThreadsStart, ThreadsApart, ThreadsUnpaused
<1>11. exec[e].attempt = 1 => \A t \in Threads : Busy(t) => driver[t].exec # e
  BY <1>1, <1>3 DEF Driven, ThreadsUnpaused
<1>12. LoopCurrent'
  BY <1>2, <1>3, <1>4, <1>5, <1>6, <1>11, <1>1 DEF LoopCurrent
<1>13. RunningIsDriven'
  BY <1>1, <1>2, <1>3, <1>4 DEF RunningIsDriven, Busy
<1>14. QED
  BY <1>8, <1>9, <1>10, <1>12, <1>13 DEF Driven

LEMMA EngineRetry ==
    ASSUME Engine, NEW e \in Executions, RetryExecution(e)
    PROVE  Driven' /\ RunningIsDriven'
<1> DEFINE wf == workflow[exec[e].workflow]
<1> DEFINE k == exec[e].attempt + 1
<1> DEFINE n == Driving(e, k, wf)
<1> DEFINE r == RetriedRow(exec[e], wf)
<1>1. TypeOK /\ Driven /\ RunningIsDriven /\ StoredValid /\ RowsOwned /\ Loop \in Workers
  BY DEF Engine, Driven, Workers
<1>2. Exists(e) /\ ~Busy(Loop)
  BY DEF RetryExecution, Retryable, Exists, LoopIdle
<1>3. /\ exec[e].workflow \in Workflows /\ wf.def \in Definitions /\ wf.def # NULL
      /\ ValidWorkflow(wf.def) /\ wf.rev \in Nat
  BY <1>1, <1>2, OwnedWorkflow
<1>4. exec[e] \in Row /\ exec[e].attempt \in Nat /\ exec[e].attempt >= 1 /\ k \in Nat /\ k # 1
  BY <1>1, <1>2 DEF TypeOK, Row, RowsOwned, Exists
<1>5. /\ n \in Driver /\ n.pc = "run" /\ n.exec = e /\ n.attempt = k /\ n.rev = wf.rev
  BY <1>3, <1>4, DrivingType
<1>6. /\ r.status = "running" /\ r.workflow = exec[e].workflow
      /\ r.attempt = k /\ r.rev = wf.rev
  BY <1>3, <1>4, RetriedType
<1>7. /\ exec' = [exec EXCEPT ![e] = r] /\ driver' = [driver EXCEPT ![Loop] = n]
      /\ UNCHANGED <<workflow, faults>>
  BY DEF RetryExecution
<1>8. k = exec[e].attempt + 1 /\ wf = workflow[exec[e].workflow]
  OBVIOUS
<1> HIDE DEF n, r, k, wf
<1>9. /\ \A f \in Executions : exec'[f] = IF f = e THEN r ELSE exec[f]
      /\ \A q \in Workers : driver'[q] = IF q = Loop THEN n ELSE driver[q]
  BY <1>1, <1>7 DEF TypeOK
<1>10. \A q \in Workers : Busy(q)' <=> (q = Loop \/ Busy(q))
  BY <1>2, <1>5, <1>9 DEF Busy
<1>11. \A t \in Threads : t \in Workers /\ t # Loop
  BY WorkersAssumption DEF Workers
<1>12. \A q \in Workers : driver[q].attempt \in Nat
  BY <1>1 DEF TypeOK, Driver
<1>13. StoredValid'
  BY <1>1, <1>7 DEF StoredValid, ValidWorkflow
<1>14. RowsOwned'
  BY <1>1, <1>3, <1>4, <1>6, <1>7, <1>8, <1>9 DEF RowsOwned
<1>15. DriversOwn'
  <2>1. ASSUME NEW q \in Workers, Busy(q)'
        PROVE  /\ driver'[q].exec \in Executions
               /\ exec'[driver'[q].exec].status # "none"
               /\ driver'[q].attempt <= exec'[driver'[q].exec].attempt
               /\ driver'[q].rev <= workflow'[exec'[driver'[q].exec].workflow].rev
               /\ driver'[q].attempt = exec'[driver'[q].exec].attempt
                    => exec'[driver'[q].exec].rev <= driver'[q].rev
    <3>1. CASE q = Loop
      BY <1>3, <1>4, <1>5, <1>6, <1>7, <1>8, <1>9, <3>1
    <3>2. CASE q # Loop /\ driver[q].exec # e
      BY <1>1, <1>7, <1>9, <1>10, <2>1, <3>2 DEF Driven, DriversOwn
    <3>3. CASE q # Loop /\ driver[q].exec = e
      <4>1. Busy(q) /\ driver'[q] = driver[q] /\ exec'[e] = r
        BY <1>9, <1>10, <2>1, <3>3
      <4>2. driver[q].attempt <= exec[e].attempt /\ driver[q].rev <= wf.rev
        BY <1>1, <1>8, <3>3, <4>1 DEF Driven, DriversOwn
      <4>3. driver[q].attempt < k
        BY <1>4, <1>8, <1>12, <4>2
      <4>4. QED
        BY <1>4, <1>6, <1>7, <1>8, <1>12, <3>3, <4>1, <4>2, <4>3
    <3>4. QED
      BY <3>1, <3>2, <3>3
  <2>2. QED
    BY <2>1 DEF DriversOwn
<1>16. ThreadsStart' /\ ThreadsApart'
  BY <1>1, <1>9, <1>10, <1>11 DEF Driven, ThreadsStart, ThreadsApart
<1>17. ThreadsUnpaused'
  BY <1>1, <1>4, <1>6, <1>9, <1>10, <1>11 DEF Driven, ThreadsUnpaused, DriversOwn
<1>18. LoopCurrent'
  BY <1>1, <1>4, <1>5, <1>6, <1>9 DEF LoopCurrent
<1>19. RunningIsDriven'
  BY <1>1, <1>2, <1>5, <1>6, <1>7, <1>9 DEF RunningIsDriven, Busy
<1>20. QED
  BY <1>13, <1>14, <1>15, <1>16, <1>17, <1>18, <1>19 DEF Driven

(* Administration changes no driver. *)
LEMMA EngineRows ==
    ASSUME Engine, UNCHANGED <<driver, faults>>, StoredValid',
           \A e \in Executions :
              /\ exec'[e].workflow = exec[e].workflow /\ exec'[e].rev = exec[e].rev
              /\ exec'[e].attempt = exec[e].attempt
              /\ exec'[e].finished = exec[e].finished \/ exec'[e].finished
              /\ \/ exec'[e].status = exec[e].status
                 \/ /\ exec[e].status # "none"
                    /\ exec'[e].status \in {"cancelled", "deleted"}
              /\ exec[e].status = "deleted" => exec'[e].status = "deleted"
              /\ exec[e].workflow \in Workflows /\ exec'[e].status \notin {"none", "deleted"}
                   => workflow'[exec[e].workflow].def # NULL,
           \A w \in Workflows :
              /\ workflow[w].rev \in Nat /\ workflow'[w].rev \in Nat
              /\ workflow[w].rev <= workflow'[w].rev
    PROVE  Driven' /\ RunningIsDriven'
<1>1. TypeOK /\ Driven /\ RunningIsDriven
  BY DEF Engine
<1>2. \A e \in Executions : exec[e].rev \in Nat
  BY <1>1 DEF TypeOK, Row
<1>3. \A p \in Workers : driver[p].rev \in Nat
  BY <1>1 DEF TypeOK, Driver
<1>4. RowsOwned'
  BY <1>1, <1>2 DEF Driven, RowsOwned
<1>5. DriversOwn'
  <2>1. ASSUME NEW p \in Workers, Busy(p)
        PROVE  /\ driver[p].exec \in Executions
               /\ exec'[driver[p].exec].status # "none"
               /\ driver[p].attempt <= exec'[driver[p].exec].attempt
               /\ driver[p].rev <= workflow'[exec'[driver[p].exec].workflow].rev
               /\ driver[p].attempt = exec'[driver[p].exec].attempt
                    => exec'[driver[p].exec].rev <= driver[p].rev
    <3>1. /\ driver[p].exec \in Executions /\ exec[driver[p].exec].status # "none"
          /\ driver[p].rev <= workflow[exec[driver[p].exec].workflow].rev
          /\ exec[driver[p].exec].workflow \in Workflows
      BY <1>1, <2>1 DEF Driven, DriversOwn, RowsOwned
    <3>2. driver[p].rev <= workflow'[exec[driver[p].exec].workflow].rev
      BY <1>3, <3>1
    <3>3. QED
      BY <1>1, <2>1, <3>1, <3>2 DEF Driven, DriversOwn
  <2>2. QED
    BY <2>1 DEF DriversOwn, Busy
<1>6. ThreadsStart' /\ ThreadsApart'
  BY <1>1 DEF Driven, ThreadsStart, ThreadsApart, Busy
<1>7. ThreadsUnpaused'
  BY <1>1 DEF Driven, ThreadsUnpaused, DriversOwn, Busy, Workers
<1>8. LoopCurrent'
  BY <1>1 DEF Driven, LoopCurrent, DriversOwn, Busy, Workers
<1>9. RunningIsDriven'
  <2> SUFFICES ASSUME NEW e \in Executions, exec'[e].status = "running", ~exec'[e].finished
               PROVE  \/ \E p \in Workers : /\ driver[p].pc \in {"run", "pause", "finish"}
                                            /\ driver[p].exec = e
                                            /\ driver[p].attempt = exec'[e].attempt
                      \/ faults > 0
                      \/ workflow'[exec'[e].workflow].rev > exec'[e].rev
    BY DEF RunningIsDriven
  <2>1. exec[e].status = "running" /\ ~exec[e].finished /\ exec[e].workflow \in Workflows
    BY <1>1 DEF Driven, RowsOwned
  <2>2. CASE workflow[exec[e].workflow].rev > exec[e].rev
    BY <1>2, <2>1, <2>2
  <2>3. CASE ~(workflow[exec[e].workflow].rev > exec[e].rev)
    BY <1>1, <2>1, <2>3 DEF RunningIsDriven
  <2>4. QED
    BY <2>2, <2>3
<1>10. QED
  BY <1>4, <1>5, <1>6, <1>7, <1>8, <1>9 DEF Driven

LEMMA EngineCancel ==
    ASSUME Engine, NEW e \in Executions, CancelExecution(e)
    PROVE  Driven' /\ RunningIsDriven'
<1>1. TypeOK /\ StoredValid /\ RowsOwned /\ exec \in [Executions -> Row]
  BY DEF Engine, Driven, TypeOK
<1>2. /\ exec[e].status \in {"running", "paused"} /\ UNCHANGED <<workflow, driver, faults>>
      /\ exec' = [exec EXCEPT ![e] = [exec[e] EXCEPT !.status = "cancelled", !.finished = TRUE]]
  BY DEF CancelExecution
<1>3. \A f \in Executions :
        /\ exec'[f].workflow = exec[f].workflow /\ exec'[f].rev = exec[f].rev
        /\ exec'[f].attempt = exec[f].attempt
        /\ f # e => exec'[f] = exec[f]
        /\ exec'[e].status = "cancelled" /\ exec'[e].finished
  BY <1>1, <1>2 DEF Row
<1>4. \A w \in Workflows : workflow[w].rev \in Nat
  BY <1>1, BoundsAssumption DEF TypeOK
<1>5. StoredValid'
  BY <1>1, <1>2 DEF StoredValid, ValidWorkflow
<1>6. \A f \in Executions :
        /\ exec'[f].finished = exec[f].finished \/ exec'[f].finished
        /\ \/ exec'[f].status = exec[f].status
           \/ exec[f].status # "none" /\ exec'[f].status \in {"cancelled", "deleted"}
        /\ exec[f].status = "deleted" => exec'[f].status = "deleted"
        /\ exec'[f].status \notin {"none", "deleted"}
             => workflow'[exec[f].workflow].def # NULL
  <2>1. ASSUME NEW f \in Executions, f # e
        PROVE  /\ exec'[f] = exec[f]
               /\ exec'[f].status \notin {"none", "deleted"}
                    => workflow'[exec[f].workflow].def # NULL
    BY <1>1, <1>2, <1>3, <2>1 DEF RowsOwned
  <2>2. workflow'[exec[e].workflow].def # NULL
    BY <1>1, <1>2 DEF RowsOwned
  <2>3. QED
    BY <1>2, <1>3, <2>1, <2>2
<1>7. \A f \in Executions :
        /\ exec'[f].workflow = exec[f].workflow /\ exec'[f].rev = exec[f].rev
        /\ exec'[f].attempt = exec[f].attempt
  BY <1>3
<1>8. \A w \in Workflows :
         workflow[w].rev \in Nat /\ workflow'[w].rev \in Nat /\ workflow[w].rev <= workflow'[w].rev
  BY <1>2, <1>4
<1>9. QED
  BY <1>2, <1>5, <1>6, <1>7, <1>8, EngineRows

LEMMA EngineDeleteExecutions ==
    ASSUME Engine, NEW S \in SUBSET Executions, DeleteExecutions(S)
    PROVE  Driven' /\ RunningIsDriven'
<1>1. TypeOK /\ StoredValid /\ RowsOwned
  BY DEF Engine, Driven
<1>2. /\ \A e \in S : exec[e].status \in Finals /\ UNCHANGED <<workflow, driver, faults>>
      /\ UNCHANGED <<workflow, driver, faults>>
  BY DEF DeleteExecutions, Deletable
<1>3. \A e \in Executions :
         /\ exec'[e].workflow = exec[e].workflow /\ exec'[e].rev = exec[e].rev
         /\ exec'[e].attempt = exec[e].attempt /\ exec'[e].finished = exec[e].finished
         /\ exec'[e].status = IF e \in S THEN "deleted" ELSE exec[e].status
  BY <1>1, DeletedRows DEF DeleteExecutions
<1>4. \A w \in Workflows : workflow[w].rev \in Nat
  BY <1>1, BoundsAssumption DEF TypeOK
<1>5. StoredValid'
  BY <1>1, <1>2 DEF StoredValid, ValidWorkflow
<1>6. QED
  BY <1>1, <1>2, <1>3, <1>4, <1>5, EngineRows DEF RowsOwned, Finals

LEMMA EngineDeleteWorkflow ==
    ASSUME Engine, NEW w \in Workflows, DeleteWorkflow(w)
    PROVE  Driven' /\ RunningIsDriven'
<1>1. TypeOK /\ StoredValid /\ RowsOwned
  BY DEF Engine, Driven
<1>2. \A e \in Executions :
         /\ exec'[e].workflow = exec[e].workflow /\ exec'[e].rev = exec[e].rev
         /\ exec'[e].attempt = exec[e].attempt /\ exec'[e].finished = exec[e].finished
         /\ exec'[e].status = IF e \in Owned(w) THEN "deleted" ELSE exec[e].status
  BY <1>1, DeleteWorkflowRows, DeletedRows
<1>3. /\ workflow' = [workflow EXCEPT ![w] = [def |-> NULL, rev |-> workflow[w].rev + 1]]
      /\ UNCHANGED <<driver, faults>>
  BY <1>1, DeleteWorkflowRows
<1>4. \A v \in Workflows : workflow[v].rev \in Nat
  BY <1>1, BoundsAssumption DEF TypeOK
<1>5. \A v \in Workflows :
         /\ v # w => workflow'[v] = workflow[v]
         /\ workflow'[v].rev = IF v = w THEN workflow[w].rev + 1 ELSE workflow[v].rev
         /\ v = w => workflow'[v].def = NULL
  BY <1>1, <1>3 DEF TypeOK
<1>6. StoredValid'
  BY <1>1, <1>5 DEF StoredValid, ValidWorkflow
<1>7. \A e \in Owned(w) : exec[e].status # "none"
  BY <1>1, NullAssumption DEF RowsOwned, Owned
<1>8. \A e \in Executions : exec[e].workflow \in Workflows
                              /\ exec'[e].status \notin {"none", "deleted"}
                   => workflow'[exec[e].workflow].def # NULL
  BY <1>1, <1>2, <1>5 DEF RowsOwned, Owned
<1>9. \A v \in Workflows :
         workflow'[v].rev \in Nat /\ workflow[v].rev <= workflow'[v].rev
  BY <1>4, <1>5
<1>10. QED
  BY <1>1, <1>2, <1>3, <1>4, <1>6, <1>7, <1>8, <1>9, EngineRows

LEMMA EngineDefine ==
    ASSUME Engine, NEW w \in Workflows, NEW d \in Definitions,
           CreateWorkflow(w, d) \/ UpdateWorkflow(w, d)
    PROVE  Driven' /\ RunningIsDriven'
<1>1. TypeOK /\ StoredValid /\ RowsOwned
  BY DEF Engine, Driven
<1>2. /\ ValidWorkflow(d) /\ UNCHANGED <<exec, driver, faults>>
      /\ workflow' = [workflow EXCEPT ![w] = [def |-> d, rev |-> workflow[w].rev + 1]]
  BY DEF CreateWorkflow, UpdateWorkflow
<1>3. \A v \in Workflows : workflow[v].rev \in Nat
  BY <1>1, BoundsAssumption DEF TypeOK
<1>4. \A v \in Workflows :
         /\ workflow'[v].rev = IF v = w THEN workflow[w].rev + 1 ELSE workflow[v].rev
         /\ workflow'[v].def = IF v = w THEN d ELSE workflow[v].def
  BY <1>1, <1>2 DEF TypeOK
<1>5. StoredValid'
  BY <1>1, <1>2, <1>4 DEF StoredValid, ValidWorkflow
<1>6. \A e \in Executions : exec[e].workflow \in Workflows
                              /\ exec'[e].status \notin {"none", "deleted"}
                   => workflow'[exec[e].workflow].def # NULL
  BY <1>1, <1>2, <1>4, DefinitionsAssumption DEF RowsOwned
<1>7. \A v \in Workflows :
         workflow'[v].rev \in Nat /\ workflow[v].rev <= workflow'[v].rev
  BY <1>3, <1>4
<1>8. QED
  BY <1>2, <1>3, <1>5, <1>6, <1>7, EngineRows

(* A fault leaves some workers idle; what is orphaned is excused.          *)
LEMMA EngineInterrupt ==
    ASSUME Engine, NEW P \in SUBSET Workers, Interrupt(P)
    PROVE  Driven' /\ RunningIsDriven'
<1>1. TypeOK /\ Driven
  BY DEF Engine
<1>2. /\ faults' = faults + 1 /\ UNCHANGED <<workflow, exec>> /\ faults \in Nat
      /\ \A p \in Workers : driver'[p] = IF p \in P THEN IdleDriver ELSE driver[p]
  BY <1>1, BoundsAssumption DEF Interrupt, TypeOK
<1>3. \A p \in Workers : Busy(p)' => Busy(p) /\ driver'[p] = driver[p]
  BY <1>2 DEF Busy, IdleDriver
<1>4. StoredValid' /\ RowsOwned'
  BY <1>1, <1>2 DEF Driven, StoredValid, RowsOwned, ValidWorkflow
<1>5. DriversOwn' /\ ThreadsStart' /\ ThreadsApart'
  BY <1>1, <1>2, <1>3 DEF Driven, DriversOwn, ThreadsStart, ThreadsApart, Workers
<1>6. ThreadsUnpaused' /\ LoopCurrent'
  BY <1>1, <1>2, <1>3 DEF Driven, ThreadsUnpaused, LoopCurrent, Workers
<1>7. RunningIsDriven'
  BY <1>2 DEF RunningIsDriven
<1>8. QED
  BY <1>4, <1>5, <1>6, <1>7 DEF Driven

LEMMA EngineSame ==
    ASSUME Engine, UNCHANGED <<workflow, exec, driver, faults>>
    PROVE  Driven' /\ RunningIsDriven'
BY DEF Engine, Driven, StoredValid, RowsOwned, DriversOwn, ThreadsStart, ThreadsApart,
       ThreadsUnpaused, LoopCurrent, RunningIsDriven, Busy, ValidWorkflow

LEMMA EngineInit == Init => Engine
<1> SUFFICES ASSUME Init PROVE Engine
  OBVIOUS
<1>1. TypeOK
  BY TypeInit
<1>2. /\ \A e \in Executions : exec[e] = NoRow
      /\ \A p \in Workers : driver[p] = IdleDriver
  BY DEF Init
<1>3. StoredValid
  BY DEF Init, StoredValid
<1>4. RowsOwned /\ RunningIsDriven
  BY <1>2 DEF RowsOwned, RunningIsDriven, NoRow
<1>5. DriversOwn /\ ThreadsStart /\ ThreadsApart /\ ThreadsUnpaused /\ LoopCurrent
  BY <1>2 DEF DriversOwn, ThreadsStart, ThreadsApart, ThreadsUnpaused, LoopCurrent,
              Busy, IdleDriver, Workers
<1>6. QED
  BY <1>1, <1>3, <1>4, <1>5 DEF Engine, Driven

LEMMA EngineStep == Engine /\ [Next]_vars => Engine'
<1> SUFFICES ASSUME Engine, [Next]_vars PROVE Engine'
  OBVIOUS
<1>1. TypeOK'
  BY TypeStep DEF Engine, Driven
<1>2. Driven' /\ RunningIsDriven'
  <2>1. CASE \E p \in Workers : Advance(p)
    BY <2>1, EngineAdvance
  <2>2. CASE \E p \in Workers, e \in Executions, w \in Workflows, x \in Entities :
                 StartExecution(p, e, w, x)
    BY <2>2, EngineStart
  <2>3. CASE \E e \in Executions : ResumeExecution(e)
    BY <2>3, EngineResume DEF ResumeExecution
  <2>4. CASE \E e \in Executions, u \in Approvers : HandleApproval(e, u)
    BY <2>4, EngineResume DEF HandleApproval
  <2>5. CASE \E e \in Executions : CancelExecution(e)
    BY <2>5, EngineCancel
  <2>6. CASE \E e \in Executions : RetryExecution(e)
    BY <2>6, EngineRetry
  <2>7. CASE \E S \in SUBSET Executions : DeleteExecutions(S)
    BY <2>7, EngineDeleteExecutions
  <2>8. CASE \E w \in Workflows, d \in Definitions : CreateWorkflow(w, d) \/ UpdateWorkflow(w, d)
    BY <2>8, EngineDefine
  <2>9. CASE \E w \in Workflows : DeleteWorkflow(w)
    BY <2>9, EngineDeleteWorkflow
  <2>10. CASE \E x \in Entities, t \in EntityStatuses : ChangeEntityStatus(x, t)
    BY <2>10, EngineSame DEF ChangeEntityStatus
  <2>11. CASE Crash \/ \E p \in Workers : DatabaseError(p)
    BY <2>11, EngineInterrupt DEF Crash, DatabaseError
  <2>12. CASE UNCHANGED vars
    BY <2>12, EngineSame DEF vars
  <2>13. QED
    BY <2>1, <2>2, <2>3, <2>4, <2>5, <2>6, <2>7, <2>8, <2>9, <2>10, <2>11, <2>12 DEF Next
<1>3. QED
  BY <1>1, <1>2 DEF Engine

(* Two workers on one attempt contradict the invariant: two threads are    *)
(* apart, and the event loop on a first attempt is alone with its row.     *)
LEMMA EngineOneDriver == Engine => OneDriverPerAttempt
<1> SUFFICES ASSUME Engine, NEW p \in Workers, NEW q \in Workers, p # q,
                    Busy(p), Busy(q), driver[p].exec = driver[q].exec,
                    driver[p].attempt = driver[q].attempt
             PROVE  FALSE
  BY DEF OneDriverPerAttempt
<1>1. CASE p \in Threads /\ q \in Threads
  BY <1>1 DEF Engine, Driven, ThreadsApart
<1>2. CASE p = Loop /\ q \in Threads
  BY <1>2 DEF Engine, Driven, LoopCurrent, ThreadsStart
<1>3. CASE q = Loop /\ p \in Threads
  BY <1>3 DEF Engine, Driven, LoopCurrent, ThreadsStart
<1>4. QED
  BY <1>1, <1>2, <1>3 DEF Workers

(* Rows and the workers that drive them agree, whatever the interleaving:  *)
(* the inductive invariant that the theorems below follow from.            *)
THEOREM EngineInvariant == Spec => []Engine
BY EngineInit, EngineStep, PTL DEF Spec

-----------------------------------------------------------------------------
(* Every reachable state is well formed, and no worker meets a step that   *)
(* its definition does not have ("Step not found", execute_workflow).      *)
THEOREM TypeCorrect == Spec => []TypeOK
<1>1. Engine => TypeOK
  BY DEF Engine
<1>2. QED
  BY <1>1, EngineInvariant, PTL

(* No two workers ever drive the same attempt of an execution, however     *)
(* many pool threads fire triggers and whatever administrators do.         *)
THEOREM OneDriver == Spec => []OneDriverPerAttempt
BY EngineOneDriver, EngineInvariant, PTL

(* A row that says `running' has a driver unless a fault or an edit of its *)
(* workflow orphaned it: the executor has no other way to forget one.      *)
THEOREM RunningHasDriver == Spec => []RunningIsDriven
<1>1. Engine => RunningIsDriven
  BY DEF Engine
<1>2. QED
  BY <1>1, EngineInvariant, PTL

-----------------------------------------------------------------------------
(* The books of an execution that one worker at a time drives.             *)

(* A worker that drives nothing holds no execution; a row that was not     *)
(* created has no log.                                                     *)
Idlers == \A p \in Workers : ~Busy(p) => driver[p].exec = NULL

Unstarted == \A e \in Executions : exec[e].status = "none" => log[e] = <<>>

(* A worker whose revision is still the current one has its definition.    *)
Holds(p) ==
    Busy(p) /\ driver[p].rev = workflow[exec[driver[p].exec].workflow].rev =>
        driver[p].def = workflow[exec[driver[p].exec].workflow].def

DefinitionsHeld == \A p \in Workers : Holds(p)

(* What the event loop drives is there, and nobody cancels it meanwhile.   *)
LoopHolds ==
    Busy(Loop) => Exists(driver[Loop].exec) /\ exec[driver[Loop].exec].status # "cancelled"

(* How many entries of a log are in Q.                                     *)
Tally(L, Q) == Cardinality({i \in DOMAIN L : L[i] \in Q})
PassedEntries == {y \in LogEntry : y.passed}
FailedEntries == {y \in LogEntry : ~y.passed}
Asks          == {y \in LogEntry : y.kind = "ask"}
Answers       == {y \in LogEntry : y.kind = "answer"}

(* A log with so many passed and failed entries and open requests.         *)
Balance(L, ok, bad, open) ==
    /\ Tally(L, PassedEntries) = ok /\ Tally(L, FailedEntries) = bad
    /\ Tally(L, Asks) = Tally(L, Answers) + open

(* Where the answers and the rejections of a definition lead.              *)
AfterAnswers(d, after) ==
    \A s \in d.steps : s \in after \/ d.kind[s] = "approval" => Branches(d, s) \subseteq after

AfterApproval(d) ==
    CHOOSE after \in SUBSET {s \in d.steps : d.kind[s] # "approval"} : AfterAnswers(d, after)

AfterRejections(d, rejected) ==
    \A s \in d.steps :
        /\ CanFail(d, s) /\ (s \in rejected \/ d.kind[s] = "approval") =>
              d.onFail[s] \in rejected \cup {NULL}
        /\ CanPass(d, s) /\ s \in rejected /\ d.kind[s] # "approval" =>
              d.onPass[s] \in rejected

AfterRejection(d) == CHOOSE rejected \in SUBSET d.steps : AfterRejections(d, rejected)

Asked(e, s)  == \E n \in notes : n.exec = e /\ n.step = s
Unread(e, s) == \E n \in notes : n.exec = e /\ n.step = s /\ n.state = "unread"

(* What the row says when nobody is between the log and the row.           *)
RowBook(e) ==
    LET d == workflow[exec[e].workflow].def IN
    /\ \E open \in {0, 1} :
          /\ Balance(log[e], exec[e].ok, exec[e].bad, open)
          /\ exec[e].status = "paused" => open = 1
          /\ exec[e].status \in {"running", "succeeded", "failed"} => open = 0
    /\ exec[e].status = "paused" =>
          /\ exec[e].cur \in d.steps /\ d.kind[exec[e].cur] = "approval"
          /\ Asked(e, exec[e].cur)

RowSeen(e) ==
    exec[e].status = "paused" /\ SingleApproval(workflow[exec[e].workflow].def) =>
        Unread(e, exec[e].cur)

(* What the worker that drives it holds meanwhile.                         *)
DriverBook(d, e) ==
    /\ d.pc \in {"run", "finish"} => Balance(log[e], d.ok, d.bad, 0)
    /\ d.pc = "pause" => /\ Balance(log[e], d.ok, d.bad, 1)
                         /\ Unread(e, d.step) /\ d.def.kind[d.step] = "approval"
    /\ d.pc \in {"complete", "mark"} => RowBook(e)

DriverSeen(d, e) ==
    SingleApproval(d.def) =>
        /\ d.marks => /\ d.pc # "pause"
                      /\ d.pc = "run" => d.step \in AfterApproval(d.def)
        /\ d.pc \in {"complete", "mark"} => exec[e].status # "paused"

(* The last answer in the log of a resumed execution, and where it led.    *)
LastAnswer(L, k) == k \in DOMAIN L /\ L[k].kind = "answer"
                    /\ \A j \in DOMAIN L : L[j].kind = "answer" => j <= k

DriverLed(d, e) ==
    d.pc = "complete" \/ (d.resumed /\ d.pc \in {"run", "finish"}) =>
        \E k \in DOMAIN log[e] :
            /\ LastAnswer(log[e], k)
            /\ ~log[e][k].passed /\ RejectionIsFinal(d.def) =>
                  /\ d.pc = "run" => d.step \in AfterRejection(d.def)
                  /\ d.pc # "run" => d.outcome # "succeeded"

(* The books are kept while the execution is undisturbed, and, once it was *)
(* retried, where no thread may still be on an earlier attempt.            *)
Book(e) ==
    Exists(e) /\ SingleHanded(e) =>
        /\ Settled(e) => RowBook(e) /\ RowSeen(e)
        /\ \A p \in Workers : \A d \in {driver[p]} :
              d.exec = e => DriverBook(d, e) /\ DriverSeen(d, e) /\ DriverLed(d, e)

Books ==
    /\ Idlers /\ Unstarted /\ DefinitionsHeld /\ LoopHolds
    /\ \A e \in Executions : Book(e)

-----------------------------------------------------------------------------
(* Counting the entries of a log.                                          *)

LEMMA TallyType ==
    ASSUME NEW L \in Seq(LogEntry), NEW Q
    PROVE  /\ IsFiniteSet({i \in DOMAIN L : L[i] \in Q}) /\ Tally(L, Q) \in Nat
<1>1. DOMAIN L = 1 .. Len(L) /\ Len(L) \in Nat
  BY LenProperties
<1>2. 1 \in Int /\ Len(L) \in Int
  BY <1>1
<1>3. IsFiniteSet(1 .. Len(L))
  BY <1>2, FS_Interval
<1>4. {i \in DOMAIN L : L[i] \in Q} \subseteq 1 .. Len(L)
  BY <1>1
<1>5. IsFiniteSet({i \in DOMAIN L : L[i] \in Q})
  BY <1>3, <1>4, FS_Subset
<1> QED BY <1>5, FS_CardinalityType DEF Tally

LEMMA TallyAppend ==
    ASSUME NEW L \in Seq(LogEntry), NEW x \in LogEntry, NEW Q
    PROVE  Tally(Append(L, x), Q) = Tally(L, Q) + (IF x \in Q THEN 1 ELSE 0)
<1> DEFINE M == Append(L, x)
           n == Len(L) + 1
           A == {i \in DOMAIN L : L[i] \in Q}
           B == {i \in DOMAIN M : M[i] \in Q}
<1>1. /\ DOMAIN L = 1 .. Len(L) /\ Len(L) \in Nat /\ M \in Seq(LogEntry)
      /\ Len(M) = n /\ M[n] = x /\ \A i \in 1 .. Len(L) : M[i] = L[i]
  BY LenProperties, AppendProperties
<1>2. DOMAIN M = 1 .. n
  BY <1>1, LenProperties
<1>n. n \notin A
  BY <1>1
<1>3. IsFiniteSet(A) /\ n \notin A /\ Tally(L, Q) \in Nat
  BY <1>n, TallyType
<1> HIDE DEF M
<1>4. CASE x \in Q
  <2>1. B = A \cup {n}
    BY <1>1, <1>2, <1>4
  <2>2. Cardinality(A \cup {n}) = Cardinality(A) + 1
    BY <1>3, FS_AddElement
  <2> QED BY <1>4, <2>1, <2>2 DEF Tally, M
<1>5. CASE x \notin Q
  <2>1. B = A
    BY <1>1, <1>2, <1>5
  <2>2. Tally(M, Q) = Tally(L, Q)
    BY <2>1 DEF Tally
  <2> QED BY <1>3, <1>5, <2>2 DEF M
<1> QED BY <1>4, <1>5

LEMMA BalanceEmpty == Balance(<<>>, 0, 0, 0)
<1>1. ASSUME NEW Q PROVE Tally(<<>>, Q) = 0
  <2>1. {i \in DOMAIN <<>> : <<>>[i] \in Q} = {}
    OBVIOUS
  <2> QED BY <2>1, FS_EmptySet DEF Tally
<1> QED BY <1>1 DEF Balance

(* An entry counts as passed or as failed, and may open or close a request.*)
LEMMA BalanceAppend ==
    ASSUME NEW L \in Seq(LogEntry), NEW x \in LogEntry, NEW ok \in Nat, NEW bad \in Nat,
           NEW open \in Nat, NEW open2 \in Nat, Balance(L, ok, bad, open),
           open2 + (IF x.kind = "answer" THEN 1 ELSE 0) = open + (IF x.kind = "ask" THEN 1 ELSE 0)
    PROVE  Balance(Append(L, x), ok + One(x.passed), bad + One(~x.passed), open2)
<1>1. x.passed \in BOOLEAN
  BY DEF LogEntry
<1>2. /\ x \in PassedEntries <=> x.passed
      /\ x \in FailedEntries <=> ~x.passed
      /\ x \in Asks <=> x.kind = "ask"
      /\ x \in Answers <=> x.kind = "answer"
  BY DEF PassedEntries, FailedEntries, Asks, Answers
<1>3. \A Q : Tally(L, Q) \in Nat
             /\ Tally(Append(L, x), Q) = Tally(L, Q) + (IF x \in Q THEN 1 ELSE 0)
  BY TallyType, TallyAppend
<1>4. Tally(Append(L, x), PassedEntries) = ok + One(x.passed)
  BY <1>1, <1>2, <1>3 DEF Balance, One
<1>5. Tally(Append(L, x), FailedEntries) = bad + One(~x.passed)
  BY <1>1, <1>2, <1>3 DEF Balance, One
<1>6. Tally(Append(L, x), Asks) = Tally(Append(L, x), Answers) + open2
  <2>1. /\ Tally(L, Asks) = Tally(L, Answers) + open
        /\ Tally(L, Asks) \in Nat /\ Tally(L, Answers) \in Nat
    BY <1>3 DEF Balance
  <2>2. /\ Tally(Append(L, x), Asks) = Tally(L, Asks) + (IF x.kind = "ask" THEN 1 ELSE 0)
        /\ Tally(Append(L, x), Answers) = Tally(L, Answers) + (IF x.kind = "answer" THEN 1 ELSE 0)
    BY <1>2, <1>3
  <2> QED BY <2>1, <2>2
<1> QED BY <1>4, <1>5, <1>6 DEF Balance

-----------------------------------------------------------------------------
(* One hand at a time.                                                     *)

LEMMA OneHand ==
    ASSUME Engine, NEW e \in Executions, SingleHanded(e), NEW p \in Workers,
           Busy(p), driver[p].exec = e
    PROVE  /\ driver[p].attempt = exec[e].attempt
           /\ \A q \in Workers : Busy(q) /\ driver[q].exec = e => q = p
<1>1. ASSUME NEW q \in Workers, Busy(q), driver[q].exec = e
      PROVE  driver[q].attempt = exec[e].attempt
  <2>1. CASE q = Loop
    BY <1>1, <2>1 DEF Engine, Driven, LoopCurrent
  <2>2. CASE q \in Threads
    BY <1>1, <2>2 DEF Engine, Driven, ThreadsStart, SingleHanded
  <2> QED BY <2>1, <2>2 DEF Workers
<1>2. ASSUME NEW q \in Workers, Busy(q), driver[q].exec = e PROVE q = p
  BY <1>1, <1>2, EngineOneDriver DEF OneDriverPerAttempt
<1> QED BY <1>1, <1>2

(* Its worker has the current definition, so that the log accepts its rows.*)
LEMMA HandCurrent ==
    ASSUME Engine, Books, NEW e \in Executions, SingleHanded(e), Exists(e), NEW p \in Workers,
           Busy(p), driver[p].exec = e
    PROVE  /\ driver[p].def = workflow[exec[e].workflow].def
           /\ driver[p].rev = workflow[exec[e].workflow].rev
           /\ Recordable(driver[p])
<1>1. driver[p].attempt = exec[e].attempt
  BY OneHand
<1>2. /\ driver[p].rev <= workflow[exec[e].workflow].rev /\ exec[e].rev <= driver[p].rev
      /\ workflow[exec[e].workflow].rev = exec[e].rev
  BY <1>1 DEF Engine, Driven, DriversOwn, SingleHanded, Undisturbed
<1>3. driver[p].rev \in Nat /\ exec[e].rev \in Nat
  BY DEF Engine, TypeOK, Driver, Row
<1>4. driver[p].rev = workflow[exec[e].workflow].rev
  BY <1>2, <1>3
<1>5. driver[p].def = workflow[exec[e].workflow].def
  BY <1>4 DEF Books, DefinitionsHeld, Holds
<1> QED BY <1>4, <1>5 DEF Recordable

(* What a step leaves alone keeps its books.                               *)
LEMMA BookFrame ==
    ASSUME Books, NEW e \in Executions,
           exec'[e] = exec[e], log'[e] = log[e], faults' = 0 => faults = 0,
           Exists(e) => workflow'[exec[e].workflow] = workflow[exec[e].workflow],
           \A p \in Workers : driver'[p].exec = e \/ driver[p].exec = e => driver'[p] = driver[p],
           \A n \in notes : n.exec = e => n \in notes'
    PROVE  Book(e)'
<1> SUFFICES ASSUME Exists(e)', SingleHanded(e)'
             PROVE  /\ Settled(e)' => RowBook(e)' /\ RowSeen(e)'
                    /\ \A p \in Workers : \A d \in {driver'[p]} :
                          d.exec = e => DriverBook(d, e)' /\ DriverSeen(d, e)' /\ DriverLed(d, e)'
  BY DEF Book
<1>1. Exists(e) /\ workflow'[exec[e].workflow] = workflow[exec[e].workflow]
  BY DEF Exists
<1>2. SingleHanded(e)
  BY <1>1 DEF SingleHanded, Undisturbed
<1>3. Book(e)
  BY DEF Books
<1>4. /\ \A s : Unread(e, s) => Unread(e, s)'
      /\ \A s : Asked(e, s) => Asked(e, s)'
  BY DEF Unread, Asked
<1>5. RowBook(e) => RowBook(e)'
  <2> SUFFICES ASSUME RowBook(e) PROVE RowBook(e)'
    OBVIOUS
  <2>1. exec[e].status = "paused" => Asked(e, exec[e].cur)
    BY DEF RowBook
  <2>2. exec[e].status = "paused" => Asked(e, exec[e].cur)'
    BY <2>1 DEF Asked
  <2> QED BY <1>1, <2>2 DEF RowBook
<1>6. RowSeen(e) => RowSeen(e)'
  <2> SUFFICES ASSUME RowSeen(e), exec[e].status = "paused",
                      SingleApproval(workflow[exec[e].workflow].def)
               PROVE  Unread(e, exec[e].cur)'
    BY <1>1 DEF RowSeen
  <2>1. Unread(e, exec[e].cur)
    BY DEF RowSeen
  <2> QED BY <2>1 DEF Unread
<1>7. Settled(e)' => Settled(e)
  BY DEF Settled
<1>8. ASSUME NEW p \in Workers, NEW d \in {driver'[p]}, d.exec = e
      PROVE  DriverBook(d, e)' /\ DriverSeen(d, e)' /\ DriverLed(d, e)'
  <2>1. d = driver[p]
    BY <1>8
  <2>2. DriverBook(d, e) /\ DriverSeen(d, e) /\ DriverLed(d, e)
    BY <1>1, <1>2, <1>3, <1>8, <2>1 DEF Book
  <2>3. DriverBook(d, e)'
    BY <1>4, <1>5, <2>2 DEF DriverBook
  <2>4. DriverSeen(d, e)'
    BY <2>2 DEF DriverSeen
  <2>5. DriverLed(d, e)'
    BY <2>2 DEF DriverLed
  <2> QED BY <2>3, <2>4, <2>5
<1> QED BY <1>1, <1>2, <1>3, <1>5, <1>6, <1>7, <1>8 DEF Book

(* A worker that moves on changes the books of its execution only: they    *)
(* are the worker's or, when it leaves, the row's.                         *)
LEMMA BooksMove ==
    ASSUME Engine, Books, NEW p \in Workers, Busy(p), NEW e \in Executions, driver[p].exec = e,
           NEW n \in Driver, driver' = [driver EXCEPT ![p] = n],
           IF n.pc = "idle" THEN n.exec = NULL
           ELSE n.exec = e /\ n.def = driver[p].def /\ n.rev = driver[p].rev,
           UNCHANGED <<workflow, faults>>, SameRows,
           \A f \in Executions : exec'[f].status = "cancelled" => exec[f].status = "cancelled",
           \A f \in Executions : f # e => exec'[f] = exec[f] /\ log'[f] = log[f],
           \A m \in notes : m.exec # e => m \in notes',
           Exists(e) /\ SingleHanded(e) =>
               IF n.pc = "idle" THEN RowBook(e)' /\ RowSeen(e)'
               ELSE DriverBook(n, e)' /\ DriverSeen(n, e)' /\ DriverLed(n, e)'
    PROVE  Books'
<1>1. driver \in [Workers -> Driver] /\ Driven /\ e # NULL
  BY NullAssumption DEF Engine, TypeOK
<1>2. \A q \in Workers : driver'[q] = IF q = p THEN n ELSE driver[q]
  BY <1>1
<1>3. /\ exec[e].status # "none"
      /\ \A f \in Executions : Exists(f)' <=> Exists(f)
      /\ \A f \in Executions : SingleHanded(f)' => SingleHanded(f)
  BY <1>1 DEF SameRows, Exists, SingleHanded, Undisturbed, Driven, DriversOwn
<1>4. Idlers'
  BY <1>2 DEF Books, Idlers, Busy
<1>5. Unstarted'
  BY <1>3 DEF Books, Unstarted, SameRows
<1>6. DefinitionsHeld'
  <2> SUFFICES ASSUME NEW q \in Workers PROVE Holds(q)'
    BY DEF DefinitionsHeld
  <2> SUFFICES ASSUME Busy(q)',
                      driver'[q].rev = workflow[exec'[driver'[q].exec].workflow].rev
               PROVE  driver'[q].def = workflow[exec'[driver'[q].exec].workflow].def
    BY DEF Holds
  <2>1. /\ Busy(q) /\ driver'[q].exec = driver[q].exec /\ driver'[q].rev = driver[q].rev
        /\ driver'[q].def = driver[q].def
    BY <1>2 DEF Busy
  <2>2. exec'[driver[q].exec].workflow = exec[driver[q].exec].workflow
    BY <1>1, <2>1 DEF SameRows, Driven, DriversOwn
  <2>3. driver[q].rev = workflow[exec[driver[q].exec].workflow].rev
    BY <2>1, <2>2
  <2>4. driver[q].def = workflow[exec[driver[q].exec].workflow].def
    BY <2>1, <2>3 DEF Books, DefinitionsHeld, Holds
  <2> QED BY <2>1, <2>2, <2>4
<1>7. LoopHolds'
  <2> SUFFICES ASSUME Busy(Loop)'
               PROVE  exec'[driver'[Loop].exec].status \notin {"none", "deleted", "cancelled"}
    BY DEF LoopHolds, Exists
  <2>1. /\ Loop \in Workers /\ Busy(Loop) /\ driver'[Loop].exec = driver[Loop].exec
    BY <1>2 DEF Busy, Workers
  <2>2. driver[Loop].exec \in Executions
    BY <1>1, <2>1 DEF Driven, DriversOwn
  <2>3. Exists(driver[Loop].exec) /\ exec[driver[Loop].exec].status # "cancelled"
    BY <2>1 DEF Books, LoopHolds
  <2> QED BY <2>1, <2>2, <2>3 DEF SameRows, Exists
<1>8. ASSUME NEW f \in Executions, f # e PROVE Book(f)'
  <2>1. \A q \in Workers : driver'[q].exec = f \/ driver[q].exec = f => driver'[q] = driver[q]
    BY <1>2, <1>8, NullAssumption
  <2>2. /\ exec'[f] = exec[f] /\ log'[f] = log[f] /\ faults' = faults /\ workflow' = workflow
        /\ \A m \in notes : m.exec = f => m \in notes'
    BY <1>8
  <2> QED BY <2>1, <2>2, BookFrame
<1>9. Book(e)'
  <2> SUFFICES ASSUME Exists(e), SingleHanded(e)
               PROVE  /\ Settled(e)' => RowBook(e)' /\ RowSeen(e)'
                      /\ \A q \in Workers : \A d \in {driver'[q]} :
                            d.exec = e => DriverBook(d, e)' /\ DriverSeen(d, e)' /\ DriverLed(d, e)'
    BY <1>3 DEF Book
  <2>1. \A q \in Workers : q # p => driver[q].exec # e
    BY <1>1, OneHand DEF Books, Idlers
  <2>2. Settled(e)' => n.pc = "idle"
    BY <1>2 DEF Settled
  <2> QED BY <1>1, <1>2, <2>1, <2>2
<1> QED BY <1>4, <1>5, <1>6, <1>7, <1>8, <1>9 DEF Books

(* The sets that the analysis of a definition chooses are the ones it asks *)
(* for.                                                                    *)
LEMMA AfterApprovalChosen ==
    ASSUME NEW d, SingleApproval(d)
    PROVE  /\ AfterApproval(d) \subseteq {s \in d.steps : d.kind[s] # "approval"}
           /\ AfterAnswers(d, AfterApproval(d))
<1>1. \E after \in SUBSET {s \in d.steps : d.kind[s] # "approval"} : AfterAnswers(d, after)
  BY DEF SingleApproval, AfterAnswers
<1> QED BY <1>1 DEF AfterApproval

LEMMA AfterRejectionChosen ==
    ASSUME NEW d, RejectionIsFinal(d)
    PROVE  AfterRejection(d) \subseteq d.steps /\ AfterRejections(d, AfterRejection(d))
<1>1. \E rejected \in SUBSET d.steps : AfterRejections(d, rejected)
  BY DEF RejectionIsFinal, AfterRejections
<1> QED BY <1>1 DEF AfterRejection

-----------------------------------------------------------------------------
(* The books through each step of the executor.                            *)

(* A worker that moves on is busy with an execution that was started.      *)
LEMMA AtWork ==
    ASSUME Engine, NEW p \in Workers, driver[p].pc # "idle"
    PROVE  /\ Busy(p) /\ driver[p] \in Driver /\ driver[p].exec \in Executions
           /\ exec[driver[p].exec].status # "none"
           /\ exec[driver[p].exec].workflow \in Workflows
           /\ driver[p].def \in Definitions /\ ValidWorkflow(driver[p].def)
           /\ driver[p].pc \in {"run", "pause"} => driver[p].step \in driver[p].def.steps
<1>1. Busy(p) /\ driver[p] \in Driver /\ DriverOK(driver[p]) /\ Driven
  BY DEF Busy, Engine, TypeOK
<1>2. /\ driver[p].exec \in Executions /\ exec[driver[p].exec].status # "none"
      /\ exec[driver[p].exec].workflow \in Workflows
  BY <1>1 DEF Driven, DriversOwn, RowsOwned
<1>3. driver[p].def \in Definitions
  BY <1>1 DEF DriverOK, Driver
<1> QED BY <1>1, <1>2, <1>3 DEF DriverOK

LEMMA BooksExecute ==
    ASSUME Engine, Books, NEW p \in Workers, NEW d \in {driver[p]}, NEW e \in {d.exec},
           ExecuteStep(p)
    PROVE  Books'
<1>1. /\ d.pc = "run" /\ Recordable(d) /\ UNCHANGED <<workflow, exec, faults>>
  BY DEF ExecuteStep
<1>2. /\ Busy(p) /\ d \in Driver /\ e \in Executions /\ d.def \in Definitions
      /\ ValidWorkflow(d.def) /\ d.step \in d.def.steps
  BY <1>1, AtWork
<1>a. d = driver[p] /\ e = driver[p].exec
  OBVIOUS
<1>b. PICK r \in StepResults(driver[p].def, driver[p].step) :
         /\ log' = [log EXCEPT ![driver[p].exec] =
                      Append(@, [step |-> driver[p].step, passed |-> r.passed,
                                 kind |-> IF r.asks = {} THEN "run" ELSE "ask"])]
         /\ notes' = notes \cup
                {[exec |-> driver[p].exec, step |-> driver[p].step, user |-> u,
                  state |-> "unread"] : u \in r.asks}
         /\ driver' = [driver EXCEPT ![p] =
                         IF r.asks = {} THEN AfterStep(driver[p], r.passed)
                         ELSE [driver[p] EXCEPT !.pc = "pause", !.ok = @ + 1]]
  BY DEF ExecuteStep
<1>3. /\ r \in StepResults(d.def, d.step)
      /\ log' = [log EXCEPT ![e] =
                   Append(@, [step |-> d.step, passed |-> r.passed,
                              kind |-> IF r.asks = {} THEN "run" ELSE "ask"])]
      /\ notes' = notes \cup
             {[exec |-> e, step |-> d.step, user |-> u, state |-> "unread"] : u \in r.asks}
      /\ driver' = [driver EXCEPT ![p] =
                      IF r.asks = {} THEN AfterStep(d, r.passed)
                      ELSE [d EXCEPT !.pc = "pause", !.ok = @ + 1]]
  BY <1>a, <1>b
<1>4. /\ d.step \in Steps /\ d.ok \in Nat /\ d.bad \in Nat
      /\ d.def.kind[d.step] \in StepKinds /\ d.def.steps \subseteq Steps
      /\ log \in [Executions -> Seq(LogEntry)]
  BY <1>2, DefinitionsAssumption DEF Definition, Engine, TypeOK, Driver
<1>5. /\ r.passed \in BOOLEAN /\ r.asks \subseteq Approvers
      /\ r.asks # {} => d.def.kind[d.step] = "approval" /\ r.passed
      /\ d.def.kind[d.step] = "approval" => r.passed = (r.asks # {})
      /\ d.def.kind[d.step] = "pass" => r.passed
      /\ d.def.kind[d.step] = "fail" => ~r.passed
  BY <1>2, <1>3, <1>4, StepResultsType DEF StepResults
<1> DEFINE x == [step |-> d.step, passed |-> r.passed,
                 kind |-> IF r.asks = {} THEN "run" ELSE "ask"]
           next == IF r.passed THEN d.def.onPass[d.step] ELSE d.def.onFail[d.step]
<1>6. /\ x \in LogEntry /\ x.passed = r.passed /\ x.kind = IF r.asks = {} THEN "run" ELSE "ask"
      /\ log[e] \in Seq(LogEntry) /\ log'[e] = Append(log[e], x)
      /\ \A f \in Executions : f # e => log'[f] = log[f]
  BY <1>2, <1>3, <1>4, <1>5 DEF LogEntry
<1> HIDE DEF x
<1>7. PICK n \in Driver :
        /\ driver' = [driver EXCEPT ![p] = n]
        /\ n.exec = e /\ n.def = d.def /\ n.rev = d.rev
        /\ n.resumed = d.resumed /\ n.marks = d.marks
        /\ n.ok = d.ok + One(r.passed) /\ n.bad = d.bad + One(~r.passed)
        /\ r.asks # {} => n.pc = "pause" /\ n.step = d.step
        /\ r.asks = {} => /\ n.pc = IF next = NULL THEN "finish" ELSE "run"
                          /\ n.step = next /\ n.outcome = Outcome(next, r.passed)
  <2>1. CASE r.asks = {}
    <3> DEFINE m == AfterStep(d, r.passed)
    <3>1. m \in Driver
      BY <1>1, <1>2, <1>5, AfterStepType DEF Engine, TypeOK
    <3>2. /\ m.exec = e /\ m.def = d.def /\ m.rev = d.rev
          /\ m.resumed = d.resumed /\ m.marks = d.marks
          /\ m.ok = d.ok + One(r.passed) /\ m.bad = d.bad + One(~r.passed)
          /\ m.pc = IF next = NULL THEN "finish" ELSE "run"
          /\ m.step = next /\ m.outcome = Outcome(next, r.passed)
      BY <1>2 DEF AfterStep, Driver
    <3> HIDE DEF m
    <3>3. driver' = [driver EXCEPT ![p] = m]
      BY <1>3, <2>1 DEF m
    <3> QED BY <2>1, <3>1, <3>2, <3>3
  <2>2. CASE r.asks # {}
    <3> DEFINE m == [d EXCEPT !.pc = "pause", !.ok = @ + 1]
    <3>1. m \in Driver
      BY <1>1, <1>2, AskingType DEF Engine, TypeOK
    <3>2. /\ m.exec = e /\ m.def = d.def /\ m.rev = d.rev
          /\ m.resumed = d.resumed /\ m.marks = d.marks
          /\ m.ok = d.ok + 1 /\ m.bad = d.bad /\ m.pc = "pause" /\ m.step = d.step
      BY <1>2 DEF Driver
    <3>3. d.ok + 1 = d.ok + One(r.passed) /\ d.bad = d.bad + One(~r.passed)
      BY <1>4, <1>5, <2>2 DEF One
    <3> HIDE DEF m
    <3>4. driver' = [driver EXCEPT ![p] = m]
      BY <1>3, <2>2 DEF m
    <3>5. m.ok = d.ok + One(r.passed) /\ m.bad = d.bad + One(~r.passed)
      BY <3>2, <3>3
    <3> HIDE DEF next
    <3> QED BY <2>2, <3>1, <3>2, <3>4, <3>5
  <2> QED BY <2>1, <2>2
<1>8. n.pc # "idle" /\ n.pc \notin {"complete", "mark"}
  BY <1>7
<1>9. ASSUME Exists(e), SingleHanded(e)
      PROVE  DriverBook(n, e)' /\ DriverSeen(n, e)' /\ DriverLed(n, e)'
  <2>1. DriverBook(d, e) /\ DriverSeen(d, e) /\ DriverLed(d, e)
    BY <1>2, <1>9 DEF Books, Book
  <2>2. Balance(log[e], d.ok, d.bad, 0)
    BY <1>1, <2>1 DEF DriverBook
  <2>3. DriverBook(n, e)'
    <3>1. CASE r.asks = {}
      <4>0. 0 + (IF x.kind = "answer" THEN 1 ELSE 0) = 0 + (IF x.kind = "ask" THEN 1 ELSE 0)
        BY <1>6, <3>1
      <4>a. log[e] \in Seq(LogEntry) /\ x \in LogEntry /\ d.ok \in Nat /\ d.bad \in Nat
        BY <1>4, <1>6
      <4>b. Balance(Append(log[e], x), d.ok + One(x.passed), d.bad + One(~x.passed), 0)
        BY <2>2, <4>0, <4>a, BalanceAppend
      <4>1. Balance(log'[e], n.ok, n.bad, 0)
        BY <1>6, <1>7, <4>b
      <4> QED BY <1>7, <3>1, <4>1 DEF DriverBook
    <3>2. CASE r.asks # {}
      <4>0. 1 + (IF x.kind = "answer" THEN 1 ELSE 0) = 0 + (IF x.kind = "ask" THEN 1 ELSE 0)
        BY <1>6, <3>2
      <4>1. Balance(log'[e], n.ok, n.bad, 1)
        BY <1>4, <1>6, <1>7, <2>2, <4>0, BalanceAppend
      <4>2. PICK u \in r.asks : TRUE
        BY <3>2
      <4>3. [exec |-> e, step |-> d.step, user |-> u, state |-> "unread"] \in notes'
        BY <1>3
      <4>4. Unread(e, n.step)'
        BY <1>7, <3>2, <4>3 DEF Unread
      <4>5. n.def.kind[n.step] = "approval"
        BY <1>5, <1>7, <3>2
      <4> QED BY <1>7, <3>2, <4>1, <4>4, <4>5 DEF DriverBook
    <3> QED BY <3>1, <3>2
  <2>4. DriverSeen(n, e)'
    <3> SUFFICES ASSUME SingleApproval(d.def), d.marks
                 PROVE  n.pc # "pause" /\ (n.pc = "run" => n.step \in AfterApproval(d.def))
      BY <1>7, <1>8 DEF DriverSeen
    <3>1. d.step \in AfterApproval(d.def)
      BY <1>1, <2>1 DEF DriverSeen
    <3>2. r.asks = {} /\ Branches(d.def, d.step) \subseteq AfterApproval(d.def)
      BY <1>2, <1>5, <3>1, AfterApprovalChosen DEF AfterAnswers
    <3> QED BY <1>7, <3>2 DEF Branches
  <2>5. DriverLed(n, e)'
    <3> SUFFICES ASSUME n.resumed, n.pc \in {"run", "finish"}
                 PROVE  \E k \in DOMAIN log'[e] :
                           /\ LastAnswer(log'[e], k)
                           /\ ~log'[e][k].passed /\ RejectionIsFinal(n.def) =>
                                 /\ n.pc = "run" => n.step \in AfterRejection(n.def)
                                 /\ n.pc # "run" => n.outcome # "succeeded"
      BY <1>8 DEF DriverLed
    <3>1. PICK k \in DOMAIN log[e] :
             /\ LastAnswer(log[e], k)
             /\ ~log[e][k].passed /\ RejectionIsFinal(d.def) => d.step \in AfterRejection(d.def)
      BY <1>1, <1>7, <2>1 DEF DriverLed
    <3>2. r.asks = {}
      BY <1>7
    <3>3. /\ DOMAIN log[e] = 1 .. Len(log[e]) /\ Len(log[e]) \in Nat
          /\ DOMAIN log'[e] = 1 .. (Len(log[e]) + 1)
          /\ \A i \in 1 .. Len(log[e]) : log'[e][i] = log[e][i]
          /\ log'[e][Len(log[e]) + 1] = x
      BY <1>6, LenProperties, AppendProperties
    <3>4. k \in DOMAIN log'[e] /\ log'[e][k] = log[e][k]
      BY <3>3
    <3>5. LastAnswer(log'[e], k)
      BY <1>6, <3>1, <3>2, <3>3 DEF LastAnswer
    <3>6. ASSUME ~log[e][k].passed, RejectionIsFinal(d.def)
          PROVE  /\ n.pc = "run" => n.step \in AfterRejection(d.def)
                 /\ n.pc # "run" => n.outcome # "succeeded"
      <4>1. d.step \in AfterRejection(d.def)
        BY <3>1, <3>6
      <4>2. /\ AfterRejection(d.def) \subseteq d.def.steps
            /\ AfterRejections(d.def, AfterRejection(d.def))
        BY <3>6, AfterRejectionChosen
      <4>3. NULL \notin AfterRejection(d.def)
        BY <1>4, <4>2, NullAssumption
      <4>4. CASE r.passed
        <5>1. d.def.kind[d.step] # "approval" /\ CanPass(d.def, d.step)
          BY <1>5, <3>2, <4>4 DEF CanPass
        <5>2. next \in AfterRejection(d.def)
          BY <1>2, <4>1, <4>2, <4>4, <5>1 DEF AfterRejections
        <5> QED BY <1>7, <3>2, <4>3, <5>2
      <4>5. CASE ~r.passed
        <5>1. CanFail(d.def, d.step)
          BY <1>5, <4>5 DEF CanFail
        <5>2. next \in AfterRejection(d.def) \cup {NULL}
          BY <1>2, <4>1, <4>2, <4>5, <5>1 DEF AfterRejections
        <5> QED BY <1>7, <3>2, <4>5, <5>2 DEF Outcome
      <4> QED BY <4>4, <4>5
    <3> QED BY <1>7, <3>4, <3>5, <3>6
  <2> QED BY <2>3, <2>4, <2>5
<1>10. \A m \in notes : m \in notes'
  BY <1>3
<1>11. SameRows /\ \A f \in Executions : exec'[f].status = "cancelled" => exec[f].status = "cancelled"
  BY <1>1 DEF SameRows
<1> HIDE DEF next
<1>12. /\ e \in Executions /\ driver[p].exec = e /\ Busy(p)
       /\ n \in Driver /\ driver' = [driver EXCEPT ![p] = n]
  BY <1>1, <1>2, <1>7
<1>13. IF n.pc = "idle" THEN n.exec = NULL
       ELSE n.exec = e /\ n.def = driver[p].def /\ n.rev = driver[p].rev
  BY <1>2, <1>7, <1>8
<1>14. /\ UNCHANGED <<workflow, faults>>
       /\ \A f \in Executions : f # e => exec'[f] = exec[f] /\ log'[f] = log[f]
       /\ \A m \in notes : m.exec # e => m \in notes'
  BY <1>1, <1>6, <1>10
<1>15. Exists(e) /\ SingleHanded(e) =>
          IF n.pc = "idle" THEN RowBook(e)' /\ RowSeen(e)'
          ELSE DriverBook(n, e)' /\ DriverSeen(n, e)' /\ DriverLed(n, e)'
  BY <1>8, <1>9
<1> QED BY <1>11, <1>12, <1>13, <1>14, <1>15, BooksMove

(* The one hand of an execution never loses a step. *)
LEMMA BooksLost ==
    ASSUME Engine, Books, NEW p \in Workers, NEW d \in {driver[p]}, NEW e \in {d.exec},
           StepLost(p)
    PROVE  Books'
<1>1. /\ d = driver[p] /\ e = driver[p].exec /\ d.pc = "run" /\ ~Recordable(d)
      /\ driver' = [driver EXCEPT ![p] = IdleDriver]
      /\ UNCHANGED <<workflow, exec, log, notes, faults>>
  BY DEF StepLost
<1>2. Busy(p) /\ d \in Driver /\ e \in Executions
  BY <1>1, AtWork
<1>3. /\ IdleDriver \in Driver /\ IdleDriver.pc = "idle" /\ IdleDriver.exec = NULL
  BY DEF Driver, IdleDriver, Branch
<1>4. ~(Exists(e) /\ SingleHanded(e))
  BY <1>1, <1>2, HandCurrent
<1>5. SameRows /\ \A f \in Executions : exec'[f].status = "cancelled" => exec[f].status = "cancelled"
  BY <1>1 DEF SameRows
<1> QED BY <1>1, <1>2, <1>3, <1>4, <1>5, BooksMove

(* What the rows of a pause and of an end say.                             *)
LEMMA WrittenRows ==
    ASSUME NEW r \in Row, NEW d \in Driver
    PROVE  /\ PausedRow(r, d).status = "paused" /\ PausedRow(r, d).cur = d.step
           /\ PausedRow(r, d).ok = d.ok /\ PausedRow(r, d).bad = d.bad
           /\ PausedRow(r, d).workflow = r.workflow
           /\ FinishedRow(r, d).status = d.outcome /\ FinishedRow(r, d).finished
           /\ FinishedRow(r, d).ok = d.ok /\ FinishedRow(r, d).bad = d.bad
           /\ FinishedRow(r, d).workflow = r.workflow
BY DEF Row, PausedRow, FinishedRow

LEMMA LeaveMarks ==
    ASSUME NEW d \in Driver, d.pc # "idle"
    PROVE  /\ ~d.marks => Leave(d) = IdleDriver
           /\ d.marks => /\ Leave(d).pc = "mark" /\ Leave(d).exec = d.exec
                         /\ Leave(d).def = d.def /\ Leave(d).rev = d.rev
                         /\ Leave(d).marks
           /\ IdleDriver.pc = "idle" /\ IdleDriver.exec = NULL
BY DEF Driver, Leave, IdleDriver

LEMMA BooksPause ==
    ASSUME Engine, Books, NEW p \in Workers, NEW d \in {driver[p]}, NEW e \in {d.exec},
           PauseExecution(p)
    PROVE  Books'
<1>1. /\ d = driver[p] /\ e = driver[p].exec /\ d.pc = "pause"
      /\ UpdateRow(e, PausedRow(exec[e], d))
      /\ driver' = [driver EXCEPT ![p] = Leave(d)]
      /\ UNCHANGED <<workflow, log, notes, faults>>
  BY DEF PauseExecution
<1>2. /\ Busy(p) /\ d \in Driver /\ e \in Executions /\ d.step \in d.def.steps
      /\ exec[e] \in Row /\ TypeOK
  BY <1>1, AtWork DEF Engine, TypeOK
<1>3. Leave(d) \in Driver /\ Leave(d).pc \in {"idle", "mark"}
  BY <1>1, <1>2, LeaveType DEF Engine, TypeOK
<1>4. IF Leave(d).pc = "idle" THEN Leave(d).exec = NULL
      ELSE Leave(d).exec = e /\ Leave(d).def = driver[p].def /\ Leave(d).rev = driver[p].rev
  BY <1>1, <1>2, LeaveMarks
<1>5. /\ SameRows
      /\ \A f \in Executions : f # e => exec'[f] = exec[f]
      /\ exec'[e] = IF Exists(e) THEN PausedRow(exec[e], d) ELSE exec[e]
  BY <1>1, <1>2, UpdateRowSame
<1>6. \A f \in Executions : exec'[f].status = "cancelled" => exec[f].status = "cancelled"
  BY <1>2, <1>5, WrittenRows
<1>7. ASSUME Exists(e), SingleHanded(e)
      PROVE  IF Leave(d).pc = "idle" THEN RowBook(e)' /\ RowSeen(e)'
             ELSE DriverBook(Leave(d), e)' /\ DriverSeen(Leave(d), e)' /\ DriverLed(Leave(d), e)'
  <2>1. DriverBook(d, e) /\ DriverSeen(d, e)
    BY <1>1, <1>2, <1>7 DEF Books, Book
  <2>2. /\ Balance(log[e], d.ok, d.bad, 1) /\ Unread(e, d.step)
        /\ d.def.kind[d.step] = "approval"
        /\ SingleApproval(d.def) => ~d.marks
    BY <1>1, <2>1 DEF DriverBook, DriverSeen
  <2>3. /\ exec'[e].status = "paused" /\ exec'[e].cur = d.step
        /\ exec'[e].ok = d.ok /\ exec'[e].bad = d.bad
        /\ workflow'[exec'[e].workflow].def = d.def
    BY <1>1, <1>2, <1>5, <1>7, WrittenRows, HandCurrent
  <2>4. Unread(e, d.step)' /\ Asked(e, d.step)'
    BY <1>1, <2>2 DEF Unread, Asked
  <2>5. RowBook(e)'
    <3>1. Balance(log'[e], exec'[e].ok, exec'[e].bad, 1)
      BY <1>1, <2>2, <2>3
    <3>2. Asked(e, exec[e].cur)'
      BY <2>3, <2>4 DEF Asked
    <3> QED BY <1>2, <2>2, <2>3, <3>1, <3>2 DEF RowBook
  <2>6. RowSeen(e)'
    BY <2>3, <2>4 DEF RowSeen, Unread
  <2>7. CASE d.marks
    <3>1. /\ Leave(d).pc = "mark" /\ Leave(d).def = d.def
      BY <1>1, <1>2, <2>7, LeaveMarks
    <3>2. ~SingleApproval(d.def)
      BY <2>2, <2>7
    <3> QED BY <2>5, <3>1, <3>2 DEF DriverBook, DriverSeen, DriverLed
  <2>8. CASE ~d.marks
    BY <1>1, <1>2, <2>5, <2>6, <2>8, LeaveMarks
  <2> QED BY <2>7, <2>8
<1> QED BY <1>1, <1>2, <1>3, <1>4, <1>5, <1>6, <1>7, BooksMove

LEMMA BooksFinish ==
    ASSUME Engine, Books, NEW p \in Workers, NEW d \in {driver[p]}, NEW e \in {d.exec},
           FinishExecution(p)
    PROVE  Books'
<1>1. /\ d = driver[p] /\ e = driver[p].exec /\ d.pc = "finish"
      /\ UpdateRow(e, FinishedRow(exec[e], d))
      /\ driver' = [driver EXCEPT ![p] = IF d.resumed THEN [d EXCEPT !.pc = "complete"]
                                         ELSE IdleDriver]
      /\ UNCHANGED <<workflow, log, notes, faults>>
  BY DEF FinishExecution
<1>2. /\ Busy(p) /\ d \in Driver /\ e \in Executions /\ exec[e] \in Row /\ TypeOK
      /\ d.outcome \in {"running", "succeeded", "failed"}
  BY <1>1, AtWork DEF Engine, TypeOK, Driver
<1>3. PICK n \in Driver :
        /\ driver' = [driver EXCEPT ![p] = n]
        /\ d.resumed => /\ n.pc = "complete" /\ n.exec = e /\ n.def = d.def /\ n.rev = d.rev
                        /\ n.outcome = d.outcome
        /\ ~d.resumed => n.pc = "idle" /\ n.exec = NULL
  <2>1. CASE d.resumed
    <3> DEFINE m == [d EXCEPT !.pc = "complete"]
    <3>1. /\ m \in Driver /\ m.pc = "complete" /\ m.exec = e /\ m.def = d.def
          /\ m.rev = d.rev /\ m.outcome = d.outcome
      BY <1>2 DEF Driver
    <3>2. driver' = [driver EXCEPT ![p] = m]
      BY <1>1, <2>1
    <3> HIDE DEF m
    <3> QED BY <2>1, <3>1, <3>2
  <2>2. CASE ~d.resumed
    <3>1. IdleDriver \in Driver /\ IdleDriver.pc = "idle" /\ IdleDriver.exec = NULL
      BY DEF Driver, IdleDriver, Branch
    <3>2. driver' = [driver EXCEPT ![p] = IdleDriver]
      BY <1>1, <2>2
    <3> QED BY <2>2, <3>1, <3>2
  <2> QED BY <2>1, <2>2
<1>4. /\ SameRows
      /\ \A f \in Executions : f # e => exec'[f] = exec[f]
      /\ exec'[e] = IF Exists(e) THEN FinishedRow(exec[e], d) ELSE exec[e]
  BY <1>1, <1>2, UpdateRowSame
<1>5. \A f \in Executions : exec'[f].status = "cancelled" => exec[f].status = "cancelled"
  BY <1>2, <1>4, WrittenRows
<1>6. ASSUME Exists(e), SingleHanded(e)
      PROVE  IF n.pc = "idle" THEN RowBook(e)' /\ RowSeen(e)'
             ELSE DriverBook(n, e)' /\ DriverSeen(n, e)' /\ DriverLed(n, e)'
  <2>1. DriverBook(d, e) /\ DriverLed(d, e)
    BY <1>1, <1>2, <1>6 DEF Books, Book
  <2>2. Balance(log[e], d.ok, d.bad, 0)
    BY <1>1, <2>1 DEF DriverBook
  <2>3. /\ exec'[e].status = d.outcome /\ exec'[e].ok = d.ok /\ exec'[e].bad = d.bad
    BY <1>1, <1>2, <1>4, <1>6, WrittenRows
  <2>4. exec'[e].status \notin {"paused", "cancelled"}
    BY <1>2, <2>3
  <2>5. RowBook(e)' /\ RowSeen(e)'
    <3>1. Balance(log'[e], exec'[e].ok, exec'[e].bad, 0)
      BY <1>1, <2>2, <2>3
    <3> QED BY <2>4, <3>1 DEF RowBook, RowSeen
  <2>6. CASE d.resumed
    <3>1. n.pc = "complete" /\ n.def = d.def /\ n.outcome = d.outcome
      BY <1>3, <2>6
    <3>2. PICK k \in DOMAIN log[e] :
             /\ LastAnswer(log[e], k)
             /\ ~log[e][k].passed /\ RejectionIsFinal(d.def) => d.outcome # "succeeded"
      BY <1>1, <2>1, <2>6 DEF DriverLed
    <3>3. DriverLed(n, e)'
      BY <1>1, <3>1, <3>2 DEF DriverLed
    <3> QED BY <2>4, <2>5, <3>1, <3>3 DEF DriverBook, DriverSeen
  <2> QED BY <1>3, <2>5, <2>6
<1>7. IF n.pc = "idle" THEN n.exec = NULL
      ELSE n.exec = e /\ n.def = driver[p].def /\ n.rev = driver[p].rev
  BY <1>1, <1>3
<1>8. /\ driver[p].exec = e /\ driver' = [driver EXCEPT ![p] = n]
      /\ UNCHANGED <<workflow, faults>>
      /\ \A f \in Executions : f # e => exec'[f] = exec[f] /\ log'[f] = log[f]
      /\ \A m \in notes : m.exec # e => m \in notes'
  BY <1>1, <1>3, <1>4
<1> QED BY <1>2, <1>4, <1>5, <1>6, <1>7, <1>8, BooksMove

LEMMA BooksComplete ==
    ASSUME Engine, Books, NEW p \in Workers, NEW d \in {driver[p]}, NEW e \in {d.exec},
           CompleteEntity(p)
    PROVE  Books'
<1>1. /\ d = driver[p] /\ e = driver[p].exec /\ d.pc = "complete"
      /\ driver' = [driver EXCEPT ![p] = Leave(d)]
      /\ UNCHANGED <<workflow, exec, log, notes, faults>>
  BY DEF CompleteEntity
<1>2. Busy(p) /\ d \in Driver /\ e \in Executions
  BY <1>1, AtWork
<1>3. Leave(d) \in Driver /\ Leave(d).pc \in {"idle", "mark"}
  BY <1>1, <1>2, LeaveType DEF Engine, TypeOK
<1>4. IF Leave(d).pc = "idle" THEN Leave(d).exec = NULL
      ELSE Leave(d).exec = e /\ Leave(d).def = driver[p].def /\ Leave(d).rev = driver[p].rev
  BY <1>1, <1>2, LeaveMarks
<1>5. SameRows /\ \A f \in Executions : exec'[f].status = "cancelled" => exec[f].status = "cancelled"
  BY <1>1 DEF SameRows
<1>6. ASSUME Exists(e), SingleHanded(e)
      PROVE  IF Leave(d).pc = "idle" THEN RowBook(e)' /\ RowSeen(e)'
             ELSE DriverBook(Leave(d), e)' /\ DriverSeen(Leave(d), e)' /\ DriverLed(Leave(d), e)'
  <2>1. DriverBook(d, e) /\ DriverSeen(d, e)
    BY <1>1, <1>2, <1>6 DEF Books, Book
  <2>2. /\ RowBook(e)
        /\ SingleApproval(d.def) => exec[e].status # "paused"
        /\ d.def = workflow[exec[e].workflow].def
    BY <1>1, <1>2, <1>6, <2>1, HandCurrent DEF DriverBook, DriverSeen
  <2>3. RowBook(e)'
    BY <1>1, <2>2 DEF RowBook, Asked
  <2>4. RowSeen(e)'
    BY <1>1, <2>2 DEF RowSeen
  <2>5. CASE d.marks
    <3>1. Leave(d).pc = "mark" /\ Leave(d).def = d.def
      BY <1>1, <1>2, <2>5, LeaveMarks
    <3> QED BY <1>1, <2>2, <2>3, <3>1 DEF DriverBook, DriverSeen, DriverLed
  <2>6. CASE ~d.marks
    BY <1>1, <1>2, <2>3, <2>4, <2>6, LeaveMarks
  <2> QED BY <2>5, <2>6
<1> QED BY <1>1, <1>2, <1>3, <1>4, <1>5, <1>6, BooksMove

LEMMA BooksMark ==
    ASSUME Engine, Books, NEW p \in Workers, NEW d \in {driver[p]}, NEW e \in {d.exec},
           MarkHandled(p)
    PROVE  Books'
<1>1. /\ d = driver[p] /\ e = driver[p].exec /\ d.pc = "mark"
      /\ notes' = {Handled(n, e) : n \in notes}
      /\ driver' = [driver EXCEPT ![p] = IdleDriver]
      /\ UNCHANGED <<workflow, exec, log, faults>>
  BY DEF MarkHandled
<1>2. Busy(p) /\ d \in Driver /\ e \in Executions /\ notes \subseteq Note
  BY <1>1, AtWork DEF Engine, TypeOK
<1>3. /\ IdleDriver \in Driver /\ IdleDriver.pc = "idle" /\ IdleDriver.exec = NULL
  BY DEF Driver, IdleDriver, Branch
<1>4. /\ \A n \in notes : Handled(n, e) \in notes'
      /\ \A n \in notes : n.exec # e => Handled(n, e) = n
      /\ \A n \in notes : Handled(n, e).exec = n.exec /\ Handled(n, e).step = n.step
  BY <1>1, <1>2 DEF Handled, Note
<1>5. \A n \in notes : n.exec # e => n \in notes'
  BY <1>4
<1>6. ASSUME Exists(e), SingleHanded(e)
      PROVE  RowBook(e)' /\ RowSeen(e)'
  <2>1. DriverBook(d, e) /\ DriverSeen(d, e) /\ d.def = workflow[exec[e].workflow].def
    BY <1>1, <1>2, <1>6, HandCurrent DEF Books, Book
  <2>2. /\ RowBook(e)
        /\ SingleApproval(d.def) => exec[e].status # "paused"
    BY <1>1, <2>1 DEF DriverBook, DriverSeen
  <2>3. Asked(e, exec[e].cur) => Asked(e, exec[e].cur)'
    <3>1. ASSUME NEW n \in notes, n.exec = e, n.step = exec[e].cur
          PROVE  \E m \in notes' : m.exec = e /\ m.step = exec'[e].cur
      BY <1>1, <1>4, <3>1
    <3> QED BY <3>1 DEF Asked
  <2>4. RowBook(e)'
    BY <1>1, <2>2, <2>3 DEF RowBook
  <2> QED BY <1>1, <2>1, <2>2, <2>4 DEF RowSeen
<1>7. SameRows /\ \A f \in Executions : exec'[f].status = "cancelled" => exec[f].status = "cancelled"
  BY <1>1 DEF SameRows
<1> QED BY <1>1, <1>2, <1>3, <1>5, <1>6, <1>7, BooksMove

LEMMA BooksAdvance ==
    ASSUME Engine, Books, NEW p \in Workers, Advance(p)
    PROVE  Books'
<1> PICK d \in {driver[p]} : TRUE
  OBVIOUS
<1> PICK e \in {d.exec} : TRUE
  OBVIOUS
<1> QED BY BooksExecute, BooksLost, BooksPause, BooksFinish, BooksComplete, BooksMark DEF Advance

-----------------------------------------------------------------------------
(* The books when a worker takes up an execution.                          *)

LEMMA BooksTaken ==
    ASSUME Engine, Books, NEW p \in Workers, ~Busy(p), NEW e \in Executions,
           NEW n \in Driver, driver' = [driver EXCEPT ![p] = n],
           n.pc # "idle", n.exec = e,
           n.def = workflow[exec'[e].workflow].def,
           UNCHANGED <<workflow, notes, faults>>,
           \A f \in Executions : f # e => exec'[f] = exec[f] /\ log'[f] = log[f],
           exec[e].status = "none" \/ exec'[e].workflow = exec[e].workflow,
           exec'[e].status \notin {"none", "deleted", "cancelled"},
           p = Loop \/ exec[e].status = "none",
           SingleHanded(e)' =>
              /\ \A q \in Workers : q # p => driver[q].exec # e
              /\ DriverBook(n, e)' /\ DriverSeen(n, e)' /\ DriverLed(n, e)'
    PROVE  Books'
<1>1. driver \in [Workers -> Driver] /\ Driven /\ e # NULL
  BY NullAssumption DEF Engine, TypeOK
<1>2. \A q \in Workers : driver'[q] = IF q = p THEN n ELSE driver[q]
  BY <1>1
<1>3. Idlers'
  BY <1>2 DEF Books, Idlers, Busy
<1>4. Unstarted'
  BY DEF Books, Unstarted
<1>5. DefinitionsHeld'
  <2> SUFFICES ASSUME NEW q \in Workers PROVE Holds(q)'
    BY DEF DefinitionsHeld
  <2> SUFFICES ASSUME Busy(q)',
                      driver'[q].rev = workflow[exec'[driver'[q].exec].workflow].rev
               PROVE  driver'[q].def = workflow[exec'[driver'[q].exec].workflow].def
    BY DEF Holds
  <2>1. CASE q = p
    BY <1>2, <2>1
  <2>2. CASE q # p
    <3>1. driver'[q] = driver[q] /\ Busy(q) /\ driver[q].exec \in Executions
          /\ exec[driver[q].exec].status # "none"
      BY <1>1, <1>2, <2>2 DEF Busy, Driven, DriversOwn
    <3>2. exec'[driver[q].exec].workflow = exec[driver[q].exec].workflow
      BY <3>1
    <3>3. driver[q].rev = workflow[exec[driver[q].exec].workflow].rev
      BY <3>1, <3>2
    <3>4. driver[q].def = workflow[exec[driver[q].exec].workflow].def
      BY <3>1, <3>3 DEF Books, DefinitionsHeld, Holds
    <3> QED BY <3>1, <3>2, <3>4
  <2> QED BY <2>1, <2>2
<1>6. LoopHolds'
  <2> SUFFICES ASSUME Busy(Loop)'
               PROVE  exec'[driver'[Loop].exec].status \notin {"none", "deleted", "cancelled"}
    BY DEF LoopHolds, Exists
  <2>1. CASE p = Loop
    BY <1>2, <2>1
  <2>2. CASE p # Loop
    <3>1. driver'[Loop] = driver[Loop] /\ Busy(Loop) /\ driver[Loop].exec \in Executions
      BY <1>1, <1>2, <2>2 DEF Busy, Driven, DriversOwn, Workers
    <3>2. exec[driver[Loop].exec].status \notin {"none", "deleted", "cancelled"}
      BY <3>1 DEF Books, LoopHolds, Exists
    <3> QED BY <2>2, <3>1, <3>2
  <2> QED BY <2>1, <2>2
<1>7. ASSUME NEW f \in Executions, f # e PROVE Book(f)'
  <2>1. driver[p].exec = NULL
    BY DEF Books, Idlers
  <2>2. \A q \in Workers : driver'[q].exec = f \/ driver[q].exec = f => driver'[q] = driver[q]
    BY <1>2, <1>7, <2>1, NullAssumption
  <2>3. /\ exec'[f] = exec[f] /\ log'[f] = log[f] /\ faults' = faults /\ workflow' = workflow
        /\ \A m \in notes : m.exec = f => m \in notes'
    BY <1>7
  <2> QED BY <2>2, <2>3, BookFrame
<1>8. Book(e)'
  <2> SUFFICES ASSUME SingleHanded(e)'
               PROVE  /\ ~Settled(e)'
                      /\ \A q \in Workers : \A d \in {driver'[q]} :
                            d.exec = e => DriverBook(d, e)' /\ DriverSeen(d, e)' /\ DriverLed(d, e)'
    BY DEF Book
  <2>1. ~Settled(e)'
    BY <1>2 DEF Settled
  <2> QED BY <1>2, <2>1
<1> QED BY <1>3, <1>4, <1>5, <1>6, <1>7, <1>8 DEF Books

(* A fresh or emptied log with a worker that starts.                       *)
LEMMA StartedBook ==
    ASSUME NEW e, NEW k \in Nat, NEW wf, wf.def \in Definitions, wf.rev \in Nat, log'[e] = <<>>,
           NEW n \in {Driving(e, k, wf)}
    PROVE  DriverBook(n, e)' /\ DriverSeen(n, e)' /\ DriverLed(n, e)'
<1>1. /\ n.pc = "run" /\ n.ok = 0 /\ n.bad = 0 /\ ~n.marks /\ ~n.resumed
  BY DEF Driving, IdleDriver
<1>2. Balance(log'[e], n.ok, n.bad, 0)
  BY <1>1, BalanceEmpty
<1> QED BY <1>1, <1>2 DEF DriverBook, DriverSeen, DriverLed

LEMMA BooksStart ==
    ASSUME Engine, Books, NEW p \in Workers, NEW e \in Executions,
           NEW w \in Workflows, NEW x \in Entities, StartExecution(p, e, w, x)
    PROVE  Books'
<1>1. /\ ~Busy(p) /\ exec[e].status = "none"
      /\ exec' = [exec EXCEPT ![e] =
                  [NoRow EXCEPT !.status = "running", !.workflow = w, !.entity = x,
                                !.attempt = 1, !.rev = workflow[w].rev]]
      /\ driver' = [driver EXCEPT ![p] = Driving(e, 1, workflow[w])]
      /\ UNCHANGED <<workflow, log, notes, faults>>
  BY DEF StartExecution
<1>2. /\ workflow[w].def \in Definitions /\ workflow[w].rev \in Nat
      /\ ValidWorkflow(workflow[w].def) /\ TypeOK /\ Driven
  BY BoundsAssumption DEF StartExecution, Engine, TypeOK, Driven, StoredValid
<1>3. PICK n \in Driver : /\ n = Driving(e, 1, workflow[w]) /\ n.pc # "idle" /\ n.exec = e
                          /\ n.def = workflow[w].def
  <2>1. 1 \in Nat
    OBVIOUS
  <2>2. /\ Driving(e, 1, workflow[w]) \in Driver /\ Driving(e, 1, workflow[w]).pc = "run"
        /\ Driving(e, 1, workflow[w]).exec = e
    BY <1>2, <2>1, DrivingType
  <2>3. Driving(e, 1, workflow[w]).def = workflow[w].def
    BY DEF Driving, IdleDriver
  <2> QED BY <2>2, <2>3
<1>4. /\ \A f \in Executions : f # e => exec'[f] = exec[f]
      /\ exec'[e].status = "running" /\ exec'[e].workflow = w
  BY <1>1, <1>2 DEF TypeOK, NoRow
<1>5. \A q \in Workers : driver[q].exec # e
  BY <1>1, <1>2, NullAssumption DEF Driven, DriversOwn, Books, Idlers
<1>6. DriverBook(n, e)' /\ DriverSeen(n, e)' /\ DriverLed(n, e)'
  <2>1. log'[e] = <<>>
    BY <1>1 DEF Books, Unstarted
  <2>2. PICK wf : wf = workflow[w]
    OBVIOUS
  <2> QED BY <1>2, <1>3, <2>1, <2>2, StartedBook
<1>7. /\ driver' = [driver EXCEPT ![p] = n] /\ n.def = workflow[exec'[e].workflow].def
      /\ \A f \in Executions : f # e => exec'[f] = exec[f] /\ log'[f] = log[f]
  BY <1>1, <1>3, <1>4
<1>8. /\ UNCHANGED <<workflow, notes, faults>> /\ ~Busy(p) /\ exec[e].status = "none"
      /\ exec'[e].status \notin {"none", "deleted", "cancelled"}
  BY <1>1, <1>4
<1>9. n \in Driver /\ n.pc # "idle" /\ n.exec = e
  BY <1>3
<1> QED BY <1>5, <1>6, <1>7, <1>8, <1>9, BooksTaken

LEMMA BooksRetry ==
    ASSUME Engine, Books, NEW e \in Executions, RetryExecution(e)
    PROVE  Books'
<1> PICK wf : wf = workflow[exec[e].workflow]
  OBVIOUS
<1> PICK k : k = exec[e].attempt + 1
  OBVIOUS
<1>1. /\ ~Busy(Loop) /\ Exists(e)
      /\ log' = [log EXCEPT ![e] = <<>>]
      /\ exec' = [exec EXCEPT ![e] = RetriedRow(exec[e], wf)]
      /\ driver' = [driver EXCEPT ![Loop] = Driving(e, k, wf)]
      /\ UNCHANGED <<workflow, notes, faults>>
  BY DEF RetryExecution, LoopIdle, Retryable, Exists
<1>2. /\ exec[e].workflow \in Workflows /\ wf.def \in Definitions
      /\ ValidWorkflow(wf.def) /\ wf.rev \in Nat /\ TypeOK
  BY <1>1, OwnedWorkflow DEF Engine, Driven
<1>3. exec[e] \in Row /\ exec[e].attempt \in Nat /\ exec[e].attempt >= 1 /\ k \in Nat /\ k # 1
  BY <1>1, <1>2 DEF Engine, Driven, TypeOK, Row, RowsOwned, Exists
<1>4. PICK n \in Driver : n = Driving(e, k, wf) /\ n.pc # "idle" /\ n.exec = e /\ n.def = wf.def
  <2>1. Driving(e, k, wf) \in Driver /\ Driving(e, k, wf).pc = "run" /\ Driving(e, k, wf).exec = e
    BY <1>2, <1>3, DrivingType
  <2>2. Driving(e, k, wf).def = wf.def
    BY DEF Driving, IdleDriver
  <2> QED BY <2>1, <2>2
<1>5. /\ RetriedRow(exec[e], wf).status = "running"
      /\ RetriedRow(exec[e], wf).workflow = exec[e].workflow
      /\ RetriedRow(exec[e], wf).attempt = k
  BY <1>2, <1>3, RetriedType
<1>6. /\ \A f \in Executions : f # e => exec'[f] = exec[f] /\ log'[f] = log[f]
      /\ exec'[e].status = "running" /\ exec'[e].workflow = exec[e].workflow
      /\ exec'[e].attempt = k /\ log'[e] = <<>>
  BY <1>1, <1>2, <1>5 DEF TypeOK
<1>7. DriverBook(n, e)' /\ DriverSeen(n, e)' /\ DriverLed(n, e)'
  BY <1>2, <1>3, <1>4, <1>6, StartedBook
<1>8. SingleHanded(e)' => Threads = {}
  BY <1>3, <1>6 DEF SingleHanded
<1>9. SingleHanded(e)' => \A q \in Workers : q # Loop => driver[q].exec # e
  BY <1>8 DEF Workers
<1>10. /\ Loop \in Workers /\ UNCHANGED <<workflow, notes, faults>>
       /\ driver' = [driver EXCEPT ![Loop] = n]
       /\ n.def = workflow[exec'[e].workflow].def
  BY <1>1, <1>4, <1>6 DEF Workers
<1>11. /\ exec'[e].status \notin {"none", "deleted", "cancelled"}
       /\ exec'[e].workflow = exec[e].workflow
       /\ \A f \in Executions : f # e => exec'[f] = exec[f] /\ log'[f] = log[f]
  BY <1>6
<1>12. n \in Driver /\ n.pc # "idle" /\ n.exec = e /\ ~Busy(Loop)
  BY <1>1, <1>4
<1>13. SingleHanded(e)' =>
          /\ \A q \in Workers : q # Loop => driver[q].exec # e
          /\ DriverBook(n, e)' /\ DriverSeen(n, e)' /\ DriverLed(n, e)'
  BY <1>7, <1>9
<1> QED BY <1>10, <1>11, <1>12, <1>13, BooksTaken

(* The answer closes the request, and leads where answers lead.            *)
LEMMA BooksResume ==
    ASSUME Engine, Books, NEW e \in Executions, NEW a \in BOOLEAN, NEW m \in BOOLEAN,
           ResumeWorkflow(e, a, m)
    PROVE  Books'
<1> PICK def : def = workflow[exec[e].workflow].def
  OBVIOUS
<1> PICK cur : cur = exec[e].cur
  OBVIOUS
<1> DEFINE x == [step |-> cur, kind |-> "answer", passed |-> a]
           next == IF a THEN def.onPass[cur] ELSE def.onFail[cur]
<1>1. /\ ~Busy(Loop) /\ exec[e].status = "paused" /\ cur \in def.steps /\ Exists(e)
      /\ log' = [log EXCEPT ![e] = Append(@, x)]
      /\ driver' = [driver EXCEPT ![Loop] = AnsweredDriver(e, a, m)]
      /\ UNCHANGED <<workflow, exec, notes, faults>>
  BY DEF ResumeWorkflow, Resumable, LoopIdle, Exists
<1>2. /\ def \in Definitions /\ ValidWorkflow(def) /\ TypeOK /\ RowsOwned /\ StoredValid
  BY <1>1, OwnedWorkflow DEF Engine, Driven
<1>3. /\ cur \in Steps /\ exec[e].ok \in Nat /\ exec[e].bad \in Nat
      /\ def.kind[cur] \in StepKinds /\ def.steps \subseteq Steps
      /\ log[e] \in Seq(LogEntry)
  BY <1>1, <1>2, DefinitionsAssumption DEF Definition, TypeOK, Row
<1>4. /\ x \in LogEntry /\ x.kind = "answer" /\ x.passed = a
      /\ log'[e] = Append(log[e], x)
      /\ \A f \in Executions : f # e => log'[f] = log[f]
  BY <1>1, <1>2, <1>3 DEF LogEntry, TypeOK
<1> HIDE DEF x
<1>5. PICK n \in Driver :
        /\ driver' = [driver EXCEPT ![Loop] = n]
        /\ n.exec = e /\ n.def = def /\ n.step = next
        /\ n.pc = IF next = NULL THEN "finish" ELSE "run"
        /\ n.ok = exec[e].ok + One(a) /\ n.bad = exec[e].bad + One(~a)
        /\ n.outcome = "running" /\ n.resumed
  <2>1. AnsweredDriver(e, a, m) \in Driver
    BY <1>1, <1>2, AnsweredType DEF ResumeWorkflow
  <2>2. /\ AnsweredDriver(e, a, m).exec = e /\ AnsweredDriver(e, a, m).def = def
        /\ AnsweredDriver(e, a, m).step = next
        /\ AnsweredDriver(e, a, m).pc = IF next = NULL THEN "finish" ELSE "run"
        /\ AnsweredDriver(e, a, m).ok = exec[e].ok + One(a)
        /\ AnsweredDriver(e, a, m).bad = exec[e].bad + One(~a)
        /\ AnsweredDriver(e, a, m).outcome = "running" /\ AnsweredDriver(e, a, m).resumed
    BY DEF AnsweredDriver, Answered, IdleDriver
  <2> HIDE DEF next
  <2> QED BY <1>1, <2>1, <2>2
<1>6. ASSUME SingleHanded(e)
      PROVE  /\ \A q \in Workers : driver[q].exec # e
             /\ DriverBook(n, e)' /\ DriverSeen(n, e)' /\ DriverLed(n, e)'
  <2>1. \A q \in Workers : driver[q].exec # e
    <3>1. ASSUME NEW q \in Workers, Busy(q), driver[q].exec = e PROVE FALSE
      <4>1. q \in Threads
        BY <1>1, <3>1 DEF Workers
      <4>2. exec[e].attempt = 1
        BY <1>6, <4>1 DEF SingleHanded
      <4> QED BY <1>1, <3>1, <4>1, <4>2 DEF Engine, Driven, ThreadsUnpaused
    <3> QED BY <3>1, NullAssumption DEF Books, Idlers
  <2>2. RowBook(e)
    BY <1>1, <1>6, <2>1 DEF Books, Book, Settled
  <2>3. Balance(log[e], exec[e].ok, exec[e].bad, 1) /\ def.kind[cur] = "approval"
    BY <1>1, <2>2 DEF RowBook
  <2>4. DriverBook(n, e)'
    <3>1. 0 + (IF x.kind = "answer" THEN 1 ELSE 0) = 1 + (IF x.kind = "ask" THEN 1 ELSE 0)
      BY <1>4
    <3>2. Balance(Append(log[e], x), exec[e].ok + One(x.passed), exec[e].bad + One(~x.passed), 0)
      BY <1>3, <1>4, <2>3, <3>1, BalanceAppend
    <3>3. Balance(log'[e], n.ok, n.bad, 0)
      BY <1>4, <1>5, <3>2
    <3> QED BY <1>5, <3>3 DEF DriverBook
  <2>5. DriverSeen(n, e)'
    <3>1. ASSUME SingleApproval(def), next # NULL PROVE next \in AfterApproval(def)
      <4>1. Branches(def, cur) \subseteq AfterApproval(def)
        BY <1>1, <2>3, <3>1, AfterApprovalChosen DEF AfterAnswers
      <4> QED BY <3>1, <4>1 DEF Branches
    <3> HIDE DEF next
    <3> QED BY <1>5, <3>1 DEF DriverSeen
  <2>6. DriverLed(n, e)'
    <3> DEFINE k == Len(log[e]) + 1
    <3>1. /\ DOMAIN log'[e] = 1 .. k /\ k \in Nat \ {0} /\ log'[e][k] = x
      BY <1>3, <1>4, LenProperties, AppendProperties
    <3>2. LastAnswer(log'[e], k)
      BY <1>4, <3>1 DEF LastAnswer
    <3>3. ASSUME ~a, RejectionIsFinal(def), next # NULL PROVE next \in AfterRejection(def)
      <4>1. CanFail(def, cur)
        BY <2>3 DEF CanFail
      <4>2. AfterRejections(def, AfterRejection(def))
        BY <3>3, AfterRejectionChosen
      <4> QED BY <1>1, <2>3, <3>3, <4>1, <4>2 DEF AfterRejections
    <3> HIDE DEF next
    <3>4. /\ ~log'[e][k].passed /\ RejectionIsFinal(n.def) =>
                /\ n.pc = "run" => n.step \in AfterRejection(n.def)
                /\ n.pc # "run" => n.outcome # "succeeded"
      BY <1>4, <1>5, <3>1, <3>3
    <3>5. k \in DOMAIN log'[e]
      BY <3>1
    <3> HIDE DEF k
    <3> QED BY <3>2, <3>4, <3>5 DEF DriverLed
  <2> QED BY <2>1, <2>4, <2>5, <2>6
<1>7. /\ Loop \in Workers /\ n.pc # "idle" /\ n.def = workflow[exec'[e].workflow].def
      /\ \A f \in Executions : f # e => exec'[f] = exec[f] /\ log'[f] = log[f]
      /\ exec'[e].workflow = exec[e].workflow
      /\ exec'[e].status \notin {"none", "deleted", "cancelled"}
  BY <1>1, <1>4, <1>5 DEF Workers
<1>8. SingleHanded(e)' => SingleHanded(e)
  BY <1>1 DEF SingleHanded, Undisturbed
<1>9. n.exec = e /\ driver' = [driver EXCEPT ![Loop] = n]
  BY <1>5
<1>10. UNCHANGED <<workflow, notes, faults>> /\ ~Busy(Loop)
  BY <1>1
<1> QED BY <1>6, <1>7, <1>8, <1>9, <1>10, BooksTaken

-----------------------------------------------------------------------------
(* The books under administration: no driver changes.                      *)

LEMMA BooksKept ==
    ASSUME Engine, Books, LoopIdle, UNCHANGED <<notes, driver, faults>>,
           \A f \in Executions :
              /\ exec'[f].workflow = exec[f].workflow
              /\ exec'[f].status = "none" => exec[f].status = "none" /\ log'[f] = log[f]
              /\ \/ exec'[f] = exec[f] /\ log'[f] = log[f]
                    /\ (Exists(f) => workflow'[exec[f].workflow] = workflow[exec[f].workflow])
                 \/ Book(f)',
           \A w \in Workflows :
              \/ workflow'[w] = workflow[w]
              \/ workflow[w].rev \in Nat /\ workflow'[w].rev = workflow[w].rev + 1
    PROVE  Books'
<1>1. TypeOK /\ Driven
  BY DEF Engine
<1>2. Idlers' /\ Unstarted' /\ LoopHolds'
  BY DEF Books, Idlers, Unstarted, LoopHolds, LoopIdle, Busy
<1>3. DefinitionsHeld'
  <2> SUFFICES ASSUME NEW q \in Workers, Busy(q),
                      driver[q].rev = workflow'[exec'[driver[q].exec].workflow].rev
               PROVE  driver[q].def = workflow'[exec'[driver[q].exec].workflow].def
    BY DEF DefinitionsHeld, Holds, Busy
  <2>1. /\ driver[q].exec \in Executions /\ driver[q].rev \in Nat
        /\ exec[driver[q].exec].workflow \in Workflows
        /\ driver[q].rev <= workflow[exec[driver[q].exec].workflow].rev
    BY <1>1 DEF Driven, DriversOwn, RowsOwned, TypeOK, Driver
  <2>2. exec'[driver[q].exec].workflow = exec[driver[q].exec].workflow
    BY <2>1
  <2>3. workflow'[exec[driver[q].exec].workflow] = workflow[exec[driver[q].exec].workflow]
    BY <2>1, <2>2
  <2>4. driver[q].def = workflow[exec[driver[q].exec].workflow].def
    BY <2>2, <2>3 DEF Books, DefinitionsHeld, Holds
  <2> QED BY <2>2, <2>3, <2>4
<1>4. ASSUME NEW f \in Executions PROVE Book(f)'
  <2>1. CASE /\ exec'[f] = exec[f] /\ log'[f] = log[f]
             /\ (Exists(f) => workflow'[exec[f].workflow] = workflow[exec[f].workflow])
    BY <2>1, BookFrame
  <2> QED BY <2>1
<1> QED BY <1>2, <1>3, <1>4 DEF Books

LEMMA BooksCancel ==
    ASSUME Engine, Books, NEW e \in Executions, CancelExecution(e)
    PROVE  Books'
<1> DEFINE r == [exec[e] EXCEPT !.status = "cancelled", !.finished = TRUE]
<1>1. /\ LoopIdle /\ exec[e].status \in {"running", "paused"}
      /\ exec' = [exec EXCEPT ![e] = r]
      /\ UNCHANGED <<workflow, log, notes, driver, faults>>
  BY DEF CancelExecution
<1>2. exec[e] \in Row /\ exec \in [Executions -> Row]
  BY DEF Engine, TypeOK
<1>3. /\ r.status = "cancelled" /\ r.workflow = exec[e].workflow /\ r.ok = exec[e].ok
      /\ r.bad = exec[e].bad /\ r.attempt = exec[e].attempt /\ r.rev = exec[e].rev
  BY <1>2 DEF Row
<1> HIDE DEF r
<1>4. /\ \A f \in Executions : f # e => exec'[f] = exec[f]
      /\ exec'[e] = r
  BY <1>1, <1>2
<1>5. Book(e)'
  <2> SUFFICES ASSUME SingleHanded(e)'
               PROVE  /\ Settled(e)' => RowBook(e)' /\ RowSeen(e)'
                      /\ \A q \in Workers : \A d \in {driver'[q]} :
                            d.exec = e => DriverBook(d, e)' /\ DriverSeen(d, e)' /\ DriverLed(d, e)'
    BY DEF Book
  <2>1. SingleHanded(e) /\ Exists(e)
    BY <1>1, <1>3, <1>4 DEF SingleHanded, Undisturbed, Exists
  <2>2. RowBook(e) => RowBook(e)'
    BY <1>1, <1>3, <1>4 DEF RowBook
  <2>3. RowSeen(e)'
    BY <1>3, <1>4 DEF RowSeen
  <2>4. Settled(e)' => Settled(e)
    BY <1>1 DEF Settled
  <2>5. ASSUME NEW q \in Workers, NEW d \in {driver'[q]}, d.exec = e
        PROVE  DriverBook(d, e)' /\ DriverSeen(d, e)' /\ DriverLed(d, e)'
    <3>1. DriverBook(d, e) /\ DriverSeen(d, e) /\ DriverLed(d, e)
      BY <1>1, <2>1, <2>5 DEF Books, Book
    <3>2. DriverBook(d, e)'
      BY <1>1, <2>2, <3>1 DEF DriverBook, Unread
    <3>3. DriverSeen(d, e)'
      BY <1>3, <1>4, <3>1 DEF DriverSeen
    <3>4. DriverLed(d, e)'
      BY <1>1, <3>1 DEF DriverLed
    <3> QED BY <3>2, <3>3, <3>4
  <2> QED BY <2>1, <2>2, <2>3, <2>4, <2>5 DEF Books, Book
<1>6. \A f \in Executions : f # e => exec'[f] = exec[f] /\ log'[f] = log[f]
  BY <1>1, <1>4
<1> QED BY <1>1, <1>3, <1>4, <1>5, <1>6, BooksKept

LEMMA BooksDeleteExecutions ==
    ASSUME Engine, Books, NEW S \in SUBSET Executions, DeleteExecutions(S)
    PROVE  Books'
<1>1. /\ LoopIdle /\ UNCHANGED <<workflow, notes, driver, faults>>
      /\ exec' = [e \in Executions |-> IF e \in S THEN [exec[e] EXCEPT !.status = "deleted"]
                                       ELSE exec[e]]
      /\ log' = [e \in Executions |-> IF e \in S THEN <<>> ELSE log[e]]
  BY DEF DeleteExecutions
<1>2. exec \in [Executions -> Row]
  BY DEF Engine, TypeOK
<1>3. ASSUME NEW f \in Executions, f \in S
      PROVE  exec'[f].status = "deleted" /\ exec'[f].workflow = exec[f].workflow /\ Book(f)'
  <2>1. exec'[f].status = "deleted" /\ exec'[f].workflow = exec[f].workflow
    BY <1>1, <1>2, <1>3 DEF Row
  <2> QED BY <2>1 DEF Book, Exists
<1>4. ASSUME NEW f \in Executions, f \notin S
      PROVE  exec'[f] = exec[f] /\ log'[f] = log[f]
  BY <1>1, <1>4
<1> QED BY <1>1, <1>3, <1>4, BooksKept

LEMMA BooksDeleteWorkflow ==
    ASSUME Engine, Books, NEW w \in Workflows, DeleteWorkflow(w)
    PROVE  Books'
<1>1. /\ LoopIdle /\ UNCHANGED <<notes, driver, faults>>
      /\ workflow' = [workflow EXCEPT ![w] = [def |-> NULL, rev |-> @.rev + 1]]
      /\ exec' = [e \in Executions |-> IF exec[e].workflow = w
                                       THEN [exec[e] EXCEPT !.status = "deleted"]
                                       ELSE exec[e]]
      /\ log' = [e \in Executions |-> IF exec[e].workflow = w THEN <<>> ELSE log[e]]
  BY DEF DeleteWorkflow
<1>2. /\ exec \in [Executions -> Row] /\ RowsOwned /\ workflow[w].rev \in Nat
      /\ workflow \in [Workflows -> [def: Definitions \cup {NULL}, rev: 0..MaxRevision]]
  BY BoundsAssumption DEF Engine, Driven, TypeOK
<1>3. ASSUME NEW f \in Executions, exec[f].workflow = w
      PROVE  exec'[f].status = "deleted" /\ exec'[f].workflow = exec[f].workflow /\ Book(f)'
  <2>1. exec'[f].status = "deleted" /\ exec'[f].workflow = exec[f].workflow
    BY <1>1, <1>2, <1>3 DEF Row
  <2> QED BY <2>1 DEF Book, Exists
<1>4. ASSUME NEW f \in Executions, exec[f].workflow # w
      PROVE  /\ exec'[f] = exec[f] /\ log'[f] = log[f]
             /\ Exists(f) => workflow'[exec[f].workflow] = workflow[exec[f].workflow]
  BY <1>1, <1>2, <1>4 DEF Exists, RowsOwned
<1>5. \A v \in Workflows :
         \/ workflow'[v] = workflow[v]
         \/ workflow[v].rev \in Nat /\ workflow'[v].rev = workflow[v].rev + 1
  BY <1>1, <1>2
<1> QED BY <1>1, <1>3, <1>4, <1>5, BooksKept

LEMMA BooksDefine ==
    ASSUME Engine, Books, NEW w \in Workflows, NEW d \in Definitions,
           CreateWorkflow(w, d) \/ UpdateWorkflow(w, d)
    PROVE  Books'
<1>1. /\ LoopIdle /\ UNCHANGED <<exec, notes, driver, faults>>
      /\ workflow' = [workflow EXCEPT ![w] = [def |-> d, rev |-> @.rev + 1]]
      /\ \A e \in Executions : exec[e].workflow # w => log'[e] = log[e]
  BY DEF CreateWorkflow, UpdateWorkflow
<1>2. /\ RowsOwned /\ workflow[w].rev \in Nat /\ w # NULL
      /\ workflow \in [Workflows -> [def: Definitions \cup {NULL}, rev: 0..MaxRevision]]
      /\ \A f \in Executions : exec[f].rev \in Nat
  BY BoundsAssumption, NullAssumption DEF Engine, Driven, TypeOK, Row
<1>3. /\ workflow'[w].rev = workflow[w].rev + 1
      /\ \A v \in Workflows : v # w => workflow'[v] = workflow[v]
  BY <1>1, <1>2
<1>4. ASSUME NEW f \in Executions, exec[f].workflow = w PROVE exec[f].status # "none" /\ Book(f)'
  <2>1. exec[f].status # "none" /\ exec[f].rev <= workflow[w].rev
    BY <1>2, <1>4 DEF RowsOwned
  <2>2. workflow'[w].rev # exec[f].rev
    BY <1>2, <1>3, <2>1
  <2>3. ~SingleHanded(f)'
    BY <1>1, <1>4, <2>2 DEF SingleHanded, Undisturbed
  <2> QED BY <2>1, <2>3 DEF Book
<1>5. ASSUME NEW f \in Executions, exec[f].workflow # w
      PROVE  /\ exec'[f] = exec[f] /\ log'[f] = log[f]
             /\ Exists(f) => workflow'[exec[f].workflow] = workflow[exec[f].workflow]
  BY <1>1, <1>2, <1>3, <1>5 DEF Exists, RowsOwned
<1> QED BY <1>1, <1>2, <1>3, <1>4, <1>5, BooksKept

LEMMA BooksInterrupt ==
    ASSUME Engine, Books, NEW P \in SUBSET Workers, Interrupt(P)
    PROVE  Books'
<1>1. /\ faults' = faults + 1 /\ UNCHANGED <<workflow, exec, log, notes>> /\ faults \in Nat
      /\ \A p \in Workers : driver'[p] = IF p \in P THEN IdleDriver ELSE driver[p]
  BY BoundsAssumption DEF Interrupt, Engine, TypeOK
<1>2. \A p \in Workers : Busy(p)' => Busy(p) /\ driver'[p] = driver[p]
  BY <1>1 DEF Busy, IdleDriver
<1>3. Idlers'
  BY <1>1 DEF Books, Idlers, Busy, IdleDriver
<1>4. Unstarted' /\ DefinitionsHeld'
  BY <1>1, <1>2 DEF Books, Unstarted, DefinitionsHeld, Holds
<1>5. LoopHolds'
  BY <1>1, <1>2 DEF Books, LoopHolds, Exists, Workers
<1>6. \A e \in Executions : ~SingleHanded(e)'
  BY <1>1 DEF SingleHanded, Undisturbed
<1> QED BY <1>3, <1>4, <1>5, <1>6 DEF Books, Book

LEMMA BooksSame ==
    ASSUME Engine, Books, UNCHANGED <<workflow, exec, log, notes, driver, faults>>
    PROVE  Books'
<1>1. Idlers' /\ Unstarted' /\ DefinitionsHeld' /\ LoopHolds'
  BY DEF Books, Idlers, Unstarted, DefinitionsHeld, Holds, LoopHolds, Busy, Exists
<1>2. \A e \in Executions : Book(e)'
  BY BookFrame
<1> QED BY <1>1, <1>2 DEF Books

LEMMA BooksInit == Init => Books
<1> SUFFICES ASSUME Init PROVE Books
  OBVIOUS
<1>1. /\ \A e \in Executions : exec[e].status = "none" /\ log[e] = <<>>
      /\ \A p \in Workers : driver[p].pc = "idle" /\ driver[p].exec = NULL
      /\ Loop \in Workers
  BY DEF Init, NoRow, IdleDriver, Workers
<1> QED BY <1>1 DEF Books, Idlers, Unstarted, DefinitionsHeld, Holds, LoopHolds, Book, Busy, Exists

LEMMA BooksStep == Engine /\ Books /\ [Next]_vars => Books'
<1> SUFFICES ASSUME Engine, Books, [Next]_vars PROVE Books'
  OBVIOUS
<1>1. CASE \E p \in Workers : Advance(p)
  BY <1>1, BooksAdvance
<1>2. CASE \E p \in Workers, e \in Executions, w \in Workflows, x \in Entities :
               StartExecution(p, e, w, x)
  BY <1>2, BooksStart
<1>3. CASE \E e \in Executions : ResumeExecution(e)
  BY <1>3, BooksResume DEF ResumeExecution
<1>4. CASE \E e \in Executions, u \in Approvers : HandleApproval(e, u)
  BY <1>4, BooksResume DEF HandleApproval
<1>5. CASE \E e \in Executions : CancelExecution(e)
  BY <1>5, BooksCancel
<1>6. CASE \E e \in Executions : RetryExecution(e)
  BY <1>6, BooksRetry
<1>7. CASE \E S \in SUBSET Executions : DeleteExecutions(S)
  BY <1>7, BooksDeleteExecutions
<1>8. CASE \E w \in Workflows, d \in Definitions : CreateWorkflow(w, d) \/ UpdateWorkflow(w, d)
  BY <1>8, BooksDefine
<1>9. CASE \E w \in Workflows : DeleteWorkflow(w)
  BY <1>9, BooksDeleteWorkflow
<1>10. CASE \E x \in Entities, t \in EntityStatuses : ChangeEntityStatus(x, t)
  BY <1>10, BooksSame DEF ChangeEntityStatus
<1>11. CASE Crash \/ \E p \in Workers : DatabaseError(p)
  BY <1>11, BooksInterrupt DEF Crash, DatabaseError
<1>12. CASE UNCHANGED vars
  BY <1>12, BooksSame DEF vars
<1> QED BY <1>1, <1>2, <1>3, <1>4, <1>5, <1>6, <1>7, <1>8, <1>9, <1>10, <1>11, <1>12 DEF Next

(* The rows, the log, the requests and the workers agree about every       *)
(* execution that one worker at a time has driven, faults and edits apart. *)
THEOREM BooksInvariant == Spec => []Books
<1>1. Init => Engine /\ Books
  BY EngineInit, BooksInit
<1>2. Engine /\ Books /\ [Next]_vars => (Engine /\ Books)'
  BY EngineStep, BooksStep
<1> QED BY <1>1, <1>2, PTL DEF Spec

-----------------------------------------------------------------------------
(* What the books say of a settled execution.                              *)

LEMMA SettledBook ==
    ASSUME Engine, Books, NEW e \in Executions, Exists(e), Settled(e), SingleHanded(e)
    PROVE  RowBook(e) /\ RowSeen(e) /\ exec[e] \in Row /\ log[e] \in Seq(LogEntry)
BY DEF Engine, TypeOK, Books, Book

LEMMA EntriesTallied ==
    ASSUME NEW e \in Executions, log[e] \in Seq(LogEntry)
    PROVE  /\ Cardinality(Passed(e)) = Tally(log[e], PassedEntries)
           /\ Cardinality(DOMAIN log[e] \ Passed(e)) = Tally(log[e], FailedEntries)
           /\ Cardinality(Entries(e, {"ask"})) = Tally(log[e], Asks)
           /\ Cardinality(Entries(e, {"answer"})) = Tally(log[e], Answers)
           /\ Tally(log[e], Asks) \in Nat /\ Tally(log[e], Answers) \in Nat
<1>1. \A i \in DOMAIN log[e] : log[e][i] \in LogEntry
  BY LenProperties
<1>2. Passed(e) = {i \in DOMAIN log[e] : log[e][i] \in PassedEntries}
  BY <1>1 DEF Passed, PassedEntries
<1>3. DOMAIN log[e] \ Passed(e) = {i \in DOMAIN log[e] : log[e][i] \in FailedEntries}
  BY <1>1 DEF Passed, FailedEntries
<1>4. Entries(e, {"ask"}) = {i \in DOMAIN log[e] : log[e][i] \in Asks}
  BY <1>1 DEF Entries, Asks
<1>5. Entries(e, {"answer"}) = {i \in DOMAIN log[e] : log[e][i] \in Answers}
  BY <1>1 DEF Entries, Answers
<1> QED BY <1>2, <1>3, <1>4, <1>5, TallyType DEF Tally

LEMMA BooksCount == Engine /\ Books => CountersMatchLog
<1> SUFFICES ASSUME Engine, Books, NEW e \in Executions, Exists(e), Settled(e), SingleHanded(e)
             PROVE  /\ exec[e].ok  = Cardinality(Passed(e))
                    /\ exec[e].bad = Cardinality(DOMAIN log[e] \ Passed(e))
  BY DEF CountersMatchLog
<1>1. RowBook(e) /\ log[e] \in Seq(LogEntry)
  BY SettledBook
<1>2. Tally(log[e], PassedEntries) = exec[e].ok /\ Tally(log[e], FailedEntries) = exec[e].bad
  BY <1>1 DEF RowBook, Balance
<1> QED BY <1>1, <1>2, EntriesTallied

LEMMA BooksAnswer == Engine /\ Books => AnswersMatchAsks
<1> SUFFICES ASSUME Engine, Books, NEW e \in Executions, Exists(e), Settled(e), SingleHanded(e)
             PROVE  LET open == Cardinality(Entries(e, {"ask"}))
                                  - Cardinality(Entries(e, {"answer"}))
                    IN  /\ exec[e].status = "paused" => open = 1
                        /\ exec[e].status \in {"succeeded", "failed"} => open = 0
  BY DEF AnswersMatchAsks
<1>1. RowBook(e) /\ log[e] \in Seq(LogEntry)
  BY SettledBook
<1>2. PICK open \in {0, 1} :
         /\ Tally(log[e], Asks) = Tally(log[e], Answers) + open
         /\ exec[e].status = "paused" => open = 1
         /\ exec[e].status \in {"succeeded", "failed"} => open = 0
  BY <1>1 DEF RowBook, Balance
<1>3. /\ Cardinality(Entries(e, {"ask"})) = Tally(log[e], Asks)
      /\ Cardinality(Entries(e, {"answer"})) = Tally(log[e], Answers)
      /\ Tally(log[e], Asks) \in Nat /\ Tally(log[e], Answers) \in Nat
  BY <1>1, EntriesTallied
<1>4. \A i, j, k \in Int : i = j + k => i - j = k
  OBVIOUS
<1>5. Tally(log[e], Asks) - Tally(log[e], Answers) = open
  BY <1>2, <1>3, <1>4
<1> QED BY <1>2, <1>3, <1>5

LEMMA BooksAnswerable == Engine /\ Books => PausedIsAnswerable
<1> SUFFICES ASSUME Engine, Books, NEW e \in Executions, exec[e].status = "paused",
                    Settled(e), SingleHanded(e)
             PROVE  /\ Resumable(e)
                    /\ \E n \in notes : n.exec = e /\ n.step = exec[e].cur
  BY DEF PausedIsAnswerable
<1>1. RowBook(e) /\ workflow[exec[e].workflow].def # NULL
  BY SettledBook DEF Exists, Engine, Driven, RowsOwned
<1> QED BY <1>1 DEF RowBook, Asked, Resumable

LEMMA BooksSeen == Engine /\ Books => SoleApproverSeesIt
<1> SUFFICES ASSUME Engine, Books, NEW e \in Executions, exec[e].status = "paused",
                    Settled(e), SingleHanded(e),
                    SingleApproval(workflow[exec[e].workflow].def)
             PROVE  WaitingIsSeen(e)
  BY DEF SoleApproverSeesIt
<1>1. RowSeen(e)
  BY SettledBook DEF Exists
<1> QED BY <1>1 DEF RowSeen, Unread, WaitingIsSeen

(* Only the event loop completes an entity, after an answer that, where    *)
(* rejections are final, was an approval.                                  *)
LEMMA BooksApproved ==
    ASSUME Engine, Books, NEW p \in Workers, driver[p].pc = "complete",
           SingleHanded(driver[p].exec), RejectionIsFinal(driver[p].def),
           driver[p].outcome = "succeeded"
    PROVE  LastAnswerApproves(driver[p].exec)
<1> PICK d : d = driver[p]
  OBVIOUS
<1> PICK e : e = d.exec
  OBVIOUS
<1>1. /\ Busy(p) /\ e \in Executions
  BY AtWork
<1>2. p = Loop
  BY <1>1 DEF Engine, Driven, ThreadsStart, Workers
<1>3. Exists(e)
  BY <1>1, <1>2 DEF Books, LoopHolds
<1>4. DriverLed(d, e)
  BY <1>1, <1>3 DEF Books, Book
<1>5. PICK k \in DOMAIN log[e] :
         /\ LastAnswer(log[e], k)
         /\ ~log[e][k].passed /\ RejectionIsFinal(d.def) => d.outcome # "succeeded"
  BY <1>4 DEF DriverLed
<1>6. log[e][k].passed
  BY <1>5
<1>7. /\ k \in Entries(e, {"answer"})
      /\ \A j \in Entries(e, {"answer"}) : j <= k
  BY <1>5 DEF LastAnswer, Entries
<1> QED BY <1>6, <1>7 DEF LastAnswerApproves

-----------------------------------------------------------------------------
(* The counters of every settled execution agree with its log, for every   *)
(* set of definitions, whatever is paused, answered, cancelled and retried.*)
THEOREM CountersAreTrue == Spec => []CountersMatchLog
BY BooksCount, EngineInvariant, BooksInvariant, PTL

(* Every request for approval is answered exactly once before the          *)
(* execution ends, and exactly one is open while it is paused.             *)
THEOREM RequestsAreAnswered == Spec => []AnswersMatchAsks
BY BooksAnswer, EngineInvariant, BooksInvariant, PTL

(* A paused execution never strands: resume_workflow accepts it, and       *)
(* somebody was asked about the step it waits at.                          *)
THEOREM PausedCanBeAnswered == Spec => []PausedIsAnswerable
BY BooksAnswerable, EngineInvariant, BooksInvariant, PTL

(* Where no answer leads to an approval step, a waiting execution has an   *)
(* unread request: _handle_approval never marks one that is still open.    *)
THEOREM WaitingRequestIsSeen == Spec => []SoleApproverSeesIt
BY BooksSeen, EngineInvariant, BooksInvariant, PTL

(* A review never activates an entity against its last answer, in any      *)
(* definition whose rejections are final.                                  *)
THEOREM ActivationWasApproved == Spec => ApprovedBeforeActive
<1>1. Engine /\ Books /\ [Next]_vars =>
        [\A p \in Workers :
            driver[p].pc = "complete" /\ driver'[p].pc # "complete"
              /\ faults' = faults /\ SingleHanded(driver[p].exec)
              /\ driver[p].def.review /\ RejectionIsFinal(driver[p].def)
              /\ driver[p].outcome = "succeeded"
                => LastAnswerApproves(driver[p].exec)]_vars
  BY BooksApproved
<1> QED BY <1>1, EngineInvariant, BooksInvariant, PTL DEF Spec, ApprovedBeforeActive

-----------------------------------------------------------------------------
(* Cancellation, and the outcome an entity is given.                       *)

(* Only a pool thread that is still on its way overwrites `cancelled'.     *)
LEMMA CancelledStep ==
    ASSUME Engine, Books, [Next]_vars, NEW e \in Executions, exec[e].status = "cancelled",
           \A t \in Threads : driver[t].exec # e
    PROVE  \/ exec'[e].status \in {"cancelled", "deleted"}
           \/ exec'[e].attempt > exec[e].attempt
<1>1. exec \in [Executions -> Row] /\ exec[e] \in Row /\ exec[e].attempt \in Nat
  BY DEF Engine, TypeOK, Row
<1>2. CASE \E p \in Workers : Advance(p)
  <2>1. PICK p \in Workers : Advance(p)
    BY <1>2
  <2>2. CASE exec' = exec
    BY <2>2
  <2>3. CASE PauseExecution(p) \/ FinishExecution(p)
    <3>1. /\ driver[p].pc # "idle"
          /\ \/ UpdateRow(driver[p].exec, PausedRow(exec[driver[p].exec], driver[p]))
             \/ UpdateRow(driver[p].exec, FinishedRow(exec[driver[p].exec], driver[p]))
      BY <2>3 DEF PauseExecution, FinishExecution
    <3>2. Busy(p) /\ driver[p] \in Driver /\ driver[p].exec \in Executions /\ TypeOK
      BY <3>1, AtWork DEF Engine
    <3>3. driver[p].exec # e
      BY <3>2 DEF Books, LoopHolds, Workers
    <3>4. exec'[e] = exec[e]
      BY <3>1, <3>2, <3>3, UpdateRowSame
    <3> QED BY <3>4
  <2> QED BY <2>1, <2>2, <2>3 DEF Advance, ExecuteStep, StepLost, CompleteEntity, MarkHandled
<1>3. CASE \E p \in Workers, f \in Executions, w \in Workflows, x \in Entities :
               StartExecution(p, f, w, x)
  BY <1>1, <1>3 DEF StartExecution
<1>4. CASE \E f \in Executions : ResumeExecution(f) \/ \E u \in Approvers : HandleApproval(f, u)
  BY <1>4 DEF ResumeExecution, HandleApproval, ResumeWorkflow
<1>5. CASE \E f \in Executions : CancelExecution(f)
  BY <1>1, <1>5 DEF CancelExecution
<1>6. CASE \E f \in Executions : RetryExecution(f)
  <2>1. PICK f \in Executions : RetryExecution(f)
    BY <1>6
  <2> PICK wf : wf = workflow[exec[f].workflow]
    OBVIOUS
  <2>2. exec' = [exec EXCEPT ![f] = RetriedRow(exec[f], wf)]
    BY <2>1 DEF RetryExecution
  <2>3. CASE f = e
    <3>1. exec'[e].attempt = exec[e].attempt + 1
      BY <1>1, <2>2, <2>3 DEF RetriedRow, Row
    <3> QED BY <1>1, <3>1
  <2>4. CASE f # e
    BY <1>1, <2>2, <2>4
  <2> QED BY <2>3, <2>4
<1>7. CASE \E S \in SUBSET Executions : DeleteExecutions(S)
  BY <1>1, <1>7 DEF DeleteExecutions, Row
<1>8. CASE \E w \in Workflows : DeleteWorkflow(w)
  BY <1>1, <1>8 DEF DeleteWorkflow, Row
<1>9. CASE exec' = exec
  BY <1>9
<1> QED BY <1>2, <1>3, <1>4, <1>5, <1>6, <1>7, <1>8, <1>9
        DEF Next, vars, CreateWorkflow, UpdateWorkflow, ChangeEntityStatus,
            DatabaseError, Crash, Interrupt

(* The outcome that the event loop gives to an entity is the one in the    *)
(* row, unless a thread is on an earlier attempt.                          *)
Committed ==
    driver[Loop].pc = "complete" /\ (Threads = {} \/ driver[Loop].attempt = 1) =>
        /\ exec[driver[Loop].exec].finished
        /\ exec[driver[Loop].exec].status = driver[Loop].outcome

LEMMA CommittedStep == Engine /\ Books /\ Committed /\ [Next]_vars => Committed'
<1> SUFFICES ASSUME Engine, Books, Committed, [Next]_vars,
                    driver'[Loop].pc = "complete",
                    Threads = {} \/ driver'[Loop].attempt = 1
             PROVE  /\ exec'[driver'[Loop].exec].finished
                    /\ exec'[driver'[Loop].exec].status = driver'[Loop].outcome
  BY DEF Committed
<1>1. /\ TypeOK /\ Driven /\ driver \in [Workers -> Driver] /\ Loop \in Workers
      /\ exec \in [Executions -> Row]
  BY DEF Engine, TypeOK, Workers
<1>2. CASE FinishExecution(Loop)
  <2> PICK d : d = driver[Loop]
    OBVIOUS
  <2>1. /\ d.pc = "finish" /\ UpdateRow(d.exec, FinishedRow(exec[d.exec], d))
        /\ driver' = [driver EXCEPT ![Loop] = IF d.resumed THEN [d EXCEPT !.pc = "complete"]
                                              ELSE IdleDriver]
    BY <1>2 DEF FinishExecution
  <2>2. /\ Busy(Loop) /\ d \in Driver /\ d.exec \in Executions
    BY <1>1, <2>1, AtWork
  <2>3. exec[d.exec] \in Row /\ Exists(d.exec)
    BY <1>1, <2>2 DEF Books, LoopHolds
  <2>4. exec'[d.exec] = FinishedRow(exec[d.exec], d)
    BY <1>1, <2>1, <2>2, <2>3, UpdateRowSame
  <2>5. d.resumed
    BY <1>1, <2>1 DEF IdleDriver
  <2>6. driver'[Loop].exec = d.exec /\ driver'[Loop].outcome = d.outcome
    BY <1>1, <2>1, <2>2, <2>5 DEF Driver
  <2> QED BY <2>2, <2>3, <2>4, <2>6, WrittenRows
<1>3. CASE driver'[Loop] = driver[Loop] /\ Busy(Loop)
  <2> PICK e : e = driver[Loop].exec
    OBVIOUS
  <2>1. /\ e \in Executions /\ exec[e].status # "none"
        /\ exec[e].finished /\ exec[e].status = driver[Loop].outcome
    BY <1>1, <1>3 DEF Committed, Driven, DriversOwn
  <2>2. exec'[e] = exec[e]
    <3>1. CASE \E p \in Workers : PauseExecution(p) \/ FinishExecution(p)
      <4>1. PICK p \in Workers : PauseExecution(p) \/ FinishExecution(p)
        BY <3>1
      <4>2. /\ driver[p].pc \in {"pause", "finish"}
            /\ \/ UpdateRow(driver[p].exec, PausedRow(exec[driver[p].exec], driver[p]))
               \/ UpdateRow(driver[p].exec, FinishedRow(exec[driver[p].exec], driver[p]))
        BY <4>1 DEF PauseExecution, FinishExecution
      <4>3. Busy(p) /\ driver[p] \in Driver /\ driver[p].exec \in Executions
        BY <4>2, AtWork
      <4>4. p # Loop
        BY <1>3, <4>2
      <4>5. driver[p].exec # e
        BY <1>1, <1>3, <4>3, <4>4 DEF Driven, LoopCurrent, Workers
      <4> QED BY <1>1, <2>1, <4>2, <4>3, <4>5, UpdateRowSame
    <3>2. CASE \E p \in Workers, f \in Executions, w \in Workflows, x \in Entities :
                   StartExecution(p, f, w, x)
      BY <1>1, <2>1, <3>2 DEF StartExecution
    <3>3. CASE exec' = exec
      BY <3>3
    <3> QED BY <1>3, <3>1, <3>2, <3>3
        DEF Next, vars, Advance, ExecuteStep, StepLost, CompleteEntity, MarkHandled,
            ResumeExecution, HandleApproval, ResumeWorkflow, CancelExecution, RetryExecution,
            DeleteExecutions, CreateWorkflow, UpdateWorkflow, DeleteWorkflow,
            ChangeEntityStatus, DatabaseError, Crash, Interrupt, LoopIdle
  <2> QED BY <1>3, <2>1, <2>2
<1>4. CASE driver'[Loop] = driver[Loop]
  BY <1>3, <1>4 DEF Busy
<1>5. CASE \E p \in Workers : Advance(p)
  <2>1. PICK p \in Workers : Advance(p)
    BY <1>5
  <2>2. CASE p # Loop
    BY <1>1, <1>4, <2>1, <2>2
       DEF Advance, ExecuteStep, StepLost, PauseExecution, FinishExecution, CompleteEntity, MarkHandled
  <2>3. CASE p = Loop /\ ExecuteStep(Loop)
    <3>1. PICK r \in StepResults(driver[Loop].def, driver[Loop].step) :
             driver' = [driver EXCEPT ![Loop] = IF r.asks = {} THEN AfterStep(driver[Loop], r.passed)
                           ELSE [driver[Loop] EXCEPT !.pc = "pause", !.ok = @ + 1]]
      BY <2>3 DEF ExecuteStep
    <3>2. AfterStep(driver[Loop], r.passed).pc # "complete"
      BY <1>1 DEF AfterStep, Driver
    <3>3. [driver[Loop] EXCEPT !.pc = "pause", !.ok = @ + 1].pc # "complete"
      BY <1>1 DEF Driver
    <3> QED BY <1>1, <3>1, <3>2, <3>3
  <2>4. CASE p = Loop /\ (StepLost(Loop) \/ MarkHandled(Loop))
    BY <1>1, <2>4 DEF StepLost, MarkHandled, IdleDriver
  <2>5. CASE p = Loop /\ (PauseExecution(Loop) \/ CompleteEntity(Loop))
    <3>1. driver' = [driver EXCEPT ![Loop] = Leave(driver[Loop])] /\ driver[Loop].pc # "idle"
      BY <2>5 DEF PauseExecution, CompleteEntity
    <3>2. Leave(driver[Loop]).pc # "complete"
      BY <1>1, <3>1, LeaveType DEF TypeOK
    <3> QED BY <1>1, <3>1, <3>2
  <2> QED BY <1>2, <2>1, <2>2, <2>3, <2>4, <2>5 DEF Advance
<1>6. CASE \E p \in Workers, f \in Executions, w \in Workflows, x \in Entities :
               StartExecution(p, f, w, x)
  BY <1>1, <1>4, <1>6 DEF StartExecution, Driving, IdleDriver
<1>7. CASE \E f \in Executions : ResumeExecution(f) \/ \E u \in Approvers : HandleApproval(f, u)
  <2>1. PICK f \in Executions, a \in BOOLEAN, m \in BOOLEAN : ResumeWorkflow(f, a, m)
    BY <1>7 DEF ResumeExecution, HandleApproval
  <2>2. driver' = [driver EXCEPT ![Loop] = AnsweredDriver(f, a, m)]
    BY <2>1 DEF ResumeWorkflow
  <2>3. AnsweredDriver(f, a, m).pc # "complete"
    BY DEF AnsweredDriver, Answered, IdleDriver
  <2> QED BY <1>1, <2>2, <2>3
<1>8. CASE \E f \in Executions : RetryExecution(f)
  BY <1>1, <1>8 DEF RetryExecution, Driving, IdleDriver
<1>9. CASE \E P \in SUBSET Workers : Interrupt(P)
  BY <1>1, <1>4, <1>9 DEF Interrupt, IdleDriver
<1> QED BY <1>4, <1>5, <1>6, <1>7, <1>8, <1>9
        DEF Next, vars, CancelExecution, DeleteExecutions, CreateWorkflow, UpdateWorkflow,
            DeleteWorkflow, ChangeEntityStatus, DatabaseError, Crash

LEMMA FollowsOutcome ==
    ASSUME Engine, Books, Committed, [Next]_vars, Threads = {}, NEW x \in Entities,
           entity'[x] # entity[x], <<entity[x], entity'[x]>> \notin Transitions
    PROVE  \E e \in Executions :
              /\ exec[e].entity = x /\ exec[e].finished
              /\ entity'[x] = IF exec[e].status = "succeeded" THEN OnSuccess ELSE OnFailure
<1>1. CASE \E p \in Workers : CompleteEntity(p)
  <2>1. /\ driver[Loop].pc = "complete"
        /\ entity' = IF driver[Loop].def.review
                     THEN [entity EXCEPT ![exec[driver[Loop].exec].entity] =
                             IF driver[Loop].outcome = "succeeded" THEN OnSuccess ELSE OnFailure]
                     ELSE entity
    BY <1>1 DEF CompleteEntity, Workers
  <2>2. Loop \in Workers /\ entity \in [Entities -> EntityStatuses]
    BY DEF Engine, TypeOK, Workers
  <2>3. driver[Loop].exec \in Executions
    BY <2>1, <2>2, AtWork
  <2>4. /\ exec[driver[Loop].exec].finished
        /\ exec[driver[Loop].exec].status = driver[Loop].outcome
    BY <2>1 DEF Committed
  <2>5. /\ x = exec[driver[Loop].exec].entity
        /\ entity'[x] = IF driver[Loop].outcome = "succeeded" THEN OnSuccess ELSE OnFailure
    BY <2>1, <2>2
  <2> QED BY <2>3, <2>4, <2>5
<1>2. CASE \E y \in Entities, s \in EntityStatuses : ChangeEntityStatus(y, s)
  <2>1. PICK y \in Entities, s \in EntityStatuses : ChangeEntityStatus(y, s)
    BY <1>2
  <2>2. <<entity[y], s>> \in Transitions /\ entity' = [entity EXCEPT ![y] = s]
    BY <2>1 DEF ChangeEntityStatus
  <2>3. entity \in [Entities -> EntityStatuses]
    BY DEF Engine, TypeOK
  <2> QED BY <2>2, <2>3
<1>3. CASE entity' = entity
  BY <1>3
<1> QED BY <1>1, <1>2, <1>3
        DEF Next, vars, Advance, ExecuteStep, StepLost, PauseExecution, FinishExecution,
            MarkHandled, StartExecution, ResumeExecution, HandleApproval, ResumeWorkflow,
            CancelExecution, RetryExecution, DeleteExecutions, CreateWorkflow, UpdateWorkflow,
            DeleteWorkflow, DatabaseError, Crash, Interrupt

-----------------------------------------------------------------------------
(* A cancelled execution that no pool thread is still driving is changed   *)
(* only by a retry or a delete, with any number of threads on others.      *)
CancelHolds ==
    [][\A e \in Executions :
          exec[e].status = "cancelled" /\ (\A t \in Threads : driver[t].exec # e) =>
              \/ exec'[e].status \in {"cancelled", "deleted"}
              \/ exec'[e].attempt > exec[e].attempt]_vars

(* No interleaving of the event loop, administrators and threads that are  *)
(* busy elsewhere touches a cancelled row (update_status, cancel).         *)
THEOREM CancelledStays == Spec => CancelHolds
<1>1. Engine /\ Books /\ [Next]_vars =>
        [\A e \in Executions :
            exec[e].status = "cancelled" /\ (\A t \in Threads : driver[t].exec # e) =>
                \/ exec'[e].status \in {"cancelled", "deleted"}
                \/ exec'[e].attempt > exec[e].attempt]_vars
  BY CancelledStep
<1> QED BY <1>1, EngineInvariant, BooksInvariant, PTL DEF Spec, CancelHolds

(* "Execution cancelled successfully" is kept when the event loop drives   *)
(* every execution.                                                        *)
THEOREM CancelIsKept ==
    ASSUME Threads = {}
    PROVE  Spec => CancelSticks
<1>1. Engine /\ Books /\ [Next]_vars =>
        [\A e \in Executions :
            exec[e].status = "cancelled" =>
                \/ exec'[e].status \in {"cancelled", "deleted"}
                \/ exec'[e].attempt > exec[e].attempt]_vars
  BY CancelledStep
<1> QED BY <1>1, EngineInvariant, BooksInvariant, PTL DEF Spec, CancelSticks

(* What a completed review is about to give to its entity is what its row  *)
(* says, with any number of threads on other executions.                   *)
THEOREM OutcomeIsCommitted == Spec => []Committed
<1>1. Init => Committed
  BY DEF Init, Committed, IdleDriver, Workers
<1> QED BY <1>1, CommittedStep, EngineInvariant, BooksInvariant, PTL DEF Spec

(* An entity leaves the lifecycle map only for the outcome of an execution *)
(* about it that ended, when the event loop drives every execution.        *)
THEOREM EntityGetsOutcome ==
    ASSUME Threads = {}
    PROVE  Spec => EntityFollowsOutcome
<1>1. Engine /\ Books /\ Committed /\ [Next]_vars =>
        [\A x \in Entities :
            entity'[x] # entity[x] /\ <<entity[x], entity'[x]>> \notin Transitions =>
                \E e \in Executions :
                    /\ exec[e].entity = x /\ exec[e].finished
                    /\ entity'[x] = IF exec[e].status = "succeeded"
                                    THEN OnSuccess ELSE OnFailure]_vars
  BY FollowsOutcome
<1> QED BY <1>1, EngineInvariant, BooksInvariant, OutcomeIsCommitted, PTL DEF Spec, EntityFollowsOutcome

-----------------------------------------------------------------------------
(* WorkflowEngine implements ExecutionLifecycle.                           *)

(* Somebody works on e. *)
Inside(e) == \E p \in Workers : Drives(p, e)

RowSays(s) == IF s = "running" THEN "orphaned" ELSE IF s = "paused" THEN "waiting" ELSE s

LEMMA SeenIs ==
    \A e \in Executions :
        Seen(e) = IF Exists(e) /\ Inside(e)
                  THEN IF AsPlanned(e) THEN "working" ELSE "overtaken"
                  ELSE RowSays(exec[e].status)
<1> SUFFICES ASSUME NEW e \in Executions
             PROVE  Seen(e) = IF Exists(e) /\ Inside(e)
                              THEN IF AsPlanned(e) THEN "working" ELSE "overtaken"
                              ELSE RowSays(exec[e].status)
  OBVIOUS
<1>1. CASE Exists(e) /\ Inside(e)
  BY <1>1 DEF Seen, Inside
<1>2. CASE ~(Exists(e) /\ Inside(e))
  <2>1. Seen(e) = CASE exec[e].status = "running" -> "orphaned"
                    [] exec[e].status = "paused"  -> "waiting"
                    [] OTHER                      -> exec[e].status
    BY <1>2 DEF Seen, Inside
  <2>2. CASE exec[e].status = "running"
    BY <1>2, <2>1, <2>2 DEF RowSays
  <2>3. CASE exec[e].status = "paused"
    BY <1>2, <2>1, <2>3 DEF RowSays
  <2>4. CASE exec[e].status \notin {"running", "paused"}
    BY <1>2, <2>1, <2>4 DEF RowSays
  <2> QED BY <2>2, <2>3, <2>4
<1> QED BY <1>1, <1>2

LEMMA SeenNext ==
    \A e \in Executions :
        (Seen(e))' = IF Exists(e)' /\ Inside(e)'
                     THEN IF AsPlanned(e)' THEN "working" ELSE "overtaken"
                     ELSE RowSays(exec'[e].status)
<1>1. (\A e \in Executions :
        Seen(e) = IF Exists(e) /\ Inside(e)
                  THEN IF AsPlanned(e) THEN "working" ELSE "overtaken"
                  ELSE RowSays(exec[e].status))'
  BY SeenIs, PTL
<1> QED BY <1>1 DEF RowSays

(* Same row, same workers: seen as before. *)
LEMMA SeenSame ==
    ASSUME NEW e \in Executions, exec'[e] = exec[e],
           \A p \in Workers : Drives(p, e)' <=> Drives(p, e),
           \A p \in Workers : Drives(p, e) => driver'[p].attempt = driver[p].attempt
    PROVE  (Seen(e))' = Seen(e)
<1>1. Exists(e)' <=> Exists(e)
  BY DEF Exists
<1>2. Inside(e)' <=> Inside(e)
  BY DEF Inside
<1>3. AsPlanned(e)' <=> AsPlanned(e)
  BY DEF AsPlanned
<1> QED BY <1>1, <1>2, <1>3, SeenIs, SeenNext

(* The steps of the lifecycle, in terms of Seen and Drives. *)
LEMMA Enters ==
    ASSUME NEW e \in Executions, NEW s, (Seen(e))' = s,
           \A f \in Executions : f # e => (Seen(f))' = Seen(f)
    PROVE  Lifecycle!Enter(e, s)
BY DEF Lifecycle!Enter

LEMMA Frees ==
    ASSUME \A f \in Executions : ~Drives(Loop, f)
    PROVE  Lifecycle!Idle
BY DEF Lifecycle!Idle

LEMMA Takes ==
    ASSUME NEW e \in Executions, \A f \in Executions : ~Drives(Loop, f),
           \A f \in Executions : Drives(Loop, f)' <=> f = e
    PROVE  Lifecycle!Take(e)
<1>1. {f \in Executions : Drives(Loop, f)'} = {e}
  OBVIOUS
<1> QED BY <1>1, Frees DEF Lifecycle!Take

LEMMA Leaves ==
    ASSUME NEW e \in Executions,
           \A f \in Executions : Drives(Loop, f)' <=> Drives(Loop, f) /\ f # e
    PROVE  Lifecycle!Leave(e)
<1>1. {f \in Executions : Drives(Loop, f)'} = {f \in Executions : Drives(Loop, f)} \ {e}
  OBVIOUS
<1> QED BY <1>1 DEF Lifecycle!Leave

LEMMA LoopStays ==
    ASSUME \A f \in Executions : Drives(Loop, f)' <=> Drives(Loop, f)
    PROVE  UNCHANGED {f \in Executions : Drives(Loop, f)}
OBVIOUS

LEMMA SeenStays ==
    ASSUME \A f \in Executions : (Seen(f))' = Seen(f)
    PROVE  UNCHANGED [f \in Executions |-> Seen(f)]
OBVIOUS

(* No commit that leaves the rows and the workers alone is seen. *)
LEMMA Stutters ==
    ASSUME UNCHANGED <<exec, driver>>
    PROVE  UNCHANGED <<[f \in Executions |-> Seen(f)], {f \in Executions : Drives(Loop, f)}>>
<1>1. \A p \in Workers, f \in Executions : Drives(p, f)' <=> Drives(p, f)
  BY DEF Drives
<1>2. \A f \in Executions : (Seen(f))' = Seen(f)
  BY <1>1, SeenSame
<1>3. \A f \in Executions : Drives(Loop, f)' <=> Drives(Loop, f)
  BY <1>1 DEF Workers
<1> QED BY <1>2, <1>3, SeenStays, LoopStays

-----------------------------------------------------------------------------
(* Who is inside an execution.                                             *)

LEMMA OnTheJob ==
    ASSUME Engine, Books, NEW p \in Workers, NEW e \in Executions, Drives(p, e)
    PROVE  /\ Busy(p) /\ driver[p].exec = e /\ exec[e].status # "none"
           /\ exec[e].attempt \in Nat /\ driver[p].attempt \in Nat
           /\ driver[p].attempt <= exec[e].attempt
           /\ p \in Threads => driver[p].attempt = 1
           /\ p = Loop => Exists(e) /\ driver[p].attempt = exec[e].attempt
           /\ \A q \in Workers : q # p /\ Drives(q, e) => driver[q].attempt # driver[p].attempt
           /\ \A f \in Executions : f # e => ~Drives(p, f)
<1>1. Busy(p) /\ driver[p].exec = e
  BY DEF Drives, Busy
<1>2. exec[e].attempt \in Nat /\ driver[p].attempt \in Nat
  BY DEF Engine, TypeOK, Row, Driver
<1>3. exec[e].status # "none" /\ driver[p].attempt <= exec[e].attempt
  BY <1>1 DEF Engine, Driven, DriversOwn
<1>4. p \in Threads => driver[p].attempt = 1
  BY <1>1 DEF Engine, Driven, ThreadsStart
<1>5. p = Loop => Exists(e) /\ driver[p].attempt = exec[e].attempt
  BY <1>1 DEF Engine, Driven, LoopCurrent, Books, LoopHolds
<1>6. ASSUME NEW q \in Workers, q # p, Drives(q, e)
      PROVE  driver[q].attempt # driver[p].attempt
  <2>1. Busy(q) /\ driver[q].exec = e
    BY <1>6 DEF Drives, Busy
  <2> QED BY <1>1, <1>6, <2>1, EngineOneDriver DEF OneDriverPerAttempt
<1>7. \A f \in Executions : f # e => ~Drives(p, f)
  BY <1>1 DEF Drives
<1> QED BY <1>1, <1>2, <1>3, <1>4, <1>5, <1>6, <1>7

(* Two pool threads are never inside the same execution. *)
LEMMA OneThread ==
    ASSUME Engine, Books, NEW e \in Executions, NEW s \in Threads, NEW t \in Threads,
           Drives(s, e), Drives(t, e)
    PROVE  s = t
BY OnTheJob DEF Workers

(* A worker that executes a step stays inside; in every other step of the  *)
(* executor it leaves, or had left before.                                 *)
LEMMA StepStays ==
    ASSUME Engine, NEW p \in Workers, ExecuteStep(p)
    PROVE  /\ driver[p].pc = "run" /\ driver'[p].pc \in {"run", "pause", "finish"}
           /\ driver'[p].exec = driver[p].exec /\ driver'[p].attempt = driver[p].attempt
           /\ \A q \in Workers : q # p => driver'[q] = driver[q]
<1>1. driver \in [Workers -> Driver] /\ driver[p] \in Driver
  BY DEF Engine, TypeOK
<1>2. PICK r \in StepResults(driver[p].def, driver[p].step) :
         driver' = [driver EXCEPT ![p] = IF r.asks = {} THEN AfterStep(driver[p], r.passed)
                       ELSE [driver[p] EXCEPT !.pc = "pause", !.ok = @ + 1]]
  BY DEF ExecuteStep
<1>3. /\ AfterStep(driver[p], r.passed).pc \in {"run", "finish"}
      /\ AfterStep(driver[p], r.passed).exec = driver[p].exec
      /\ AfterStep(driver[p], r.passed).attempt = driver[p].attempt
  BY <1>1 DEF AfterStep, Driver
<1>4. /\ [driver[p] EXCEPT !.pc = "pause", !.ok = @ + 1].pc = "pause"
      /\ [driver[p] EXCEPT !.pc = "pause", !.ok = @ + 1].exec = driver[p].exec
      /\ [driver[p] EXCEPT !.pc = "pause", !.ok = @ + 1].attempt = driver[p].attempt
  BY <1>1 DEF Driver
<1>5. driver[p].pc = "run"
  BY DEF ExecuteStep
<1> QED BY <1>1, <1>2, <1>3, <1>4, <1>5

LEMMA StepLeaves ==
    ASSUME Engine, NEW p \in Workers,
           \/ StepLost(p) \/ PauseExecution(p) \/ FinishExecution(p)
           \/ CompleteEntity(p) \/ MarkHandled(p)
    PROVE  /\ driver'[p].pc \notin {"run", "pause", "finish"}
           /\ \A q \in Workers : q # p => driver'[q] = driver[q]
<1>1. driver \in [Workers -> Driver] /\ driver[p] \in Driver
  BY DEF Engine, TypeOK
<1>2. CASE StepLost(p) \/ MarkHandled(p)
  BY <1>1, <1>2 DEF StepLost, MarkHandled, IdleDriver
<1>3. CASE PauseExecution(p) \/ CompleteEntity(p)
  <2>1. driver' = [driver EXCEPT ![p] = Leave(driver[p])] /\ driver[p].pc # "idle"
    BY <1>3 DEF PauseExecution, CompleteEntity
  <2>2. Leave(driver[p]).pc \in {"idle", "mark"}
    BY <1>1, <2>1, LeaveType DEF Engine, TypeOK
  <2> QED BY <1>1, <2>1, <2>2
<1>4. CASE FinishExecution(p)
  <2>1. driver' = [driver EXCEPT ![p] = IF driver[p].resumed
                                        THEN [driver[p] EXCEPT !.pc = "complete"]
                                        ELSE IdleDriver]
    BY <1>4 DEF FinishExecution
  <2>2. [driver[p] EXCEPT !.pc = "complete"].pc = "complete" /\ IdleDriver.pc = "idle"
    BY <1>1 DEF Driver, IdleDriver
  <2> QED BY <1>1, <2>1, <2>2
<1> QED BY <1>2, <1>3, <1>4

LEMMA LoopFree ==
    ASSUME ~Busy(Loop)
    PROVE  \A f \in Executions : ~Drives(Loop, f)
BY DEF Busy, Drives

(* What a worker does elsewhere is not seen of f. *)
LEMMA SeenElsewhere ==
    ASSUME Engine, NEW p \in Workers, NEW f \in Executions,
           \A q \in Workers : q # p => driver'[q] = driver[q],
           ~Drives(p, f), ~Drives(p, f)', exec'[f] = exec[f]
    PROVE  (Seen(f))' = Seen(f)
<1>1. \A q \in Workers : Drives(q, f)' <=> Drives(q, f)
  BY DEF Drives
<1>2. \A q \in Workers : Drives(q, f) => driver'[q].attempt = driver[q].attempt
  OBVIOUS
<1> QED BY <1>1, <1>2, SeenSame

(* A worker takes up e on its current attempt: it works as planned, unless *)
(* a thread is still inside.                                               *)
LEMMA SeesJoined ==
    ASSUME Engine, Books, NEW p \in Workers, ~Busy(p), NEW e \in Executions,
           \A f \in Executions : f # e => exec'[f] = exec[f],
           \A q \in Workers : q # p => driver'[q] = driver[q],
           driver'[p].pc \in {"run", "finish"}, driver'[p].exec = e,
           driver'[p].attempt = exec'[e].attempt,
           exec'[e].status \in {"running", "paused"},
           \A q \in Workers : Drives(q, e) => driver[q].attempt # exec'[e].attempt
    PROVE  /\ (Seen(e))' = IF Inside(e) THEN "overtaken" ELSE "working"
           /\ \A f \in Executions : f # e => (Seen(f))' = Seen(f)
           /\ \A f \in Executions : ~Drives(p, f) /\ (Drives(p, f)' <=> f = e)
           /\ \A q \in Workers, f \in Executions : q # p => (Drives(q, f)' <=> Drives(q, f))
<1>1. \A f \in Executions : ~Drives(p, f) /\ (Drives(p, f)' <=> f = e)
  BY DEF Drives, Busy
<1>2. \A q \in Workers, f \in Executions : q # p => (Drives(q, f)' <=> Drives(q, f))
  BY DEF Drives
<1>3. \A f \in Executions : f # e => (Seen(f))' = Seen(f)
  BY <1>1, SeenElsewhere
<1>4. Exists(e)' /\ Inside(e)'
  BY <1>1 DEF Exists, Inside
<1>5. CASE Inside(e)
  <2>1. PICK q \in Workers : Drives(q, e)
    BY <1>5 DEF Inside
  <2>2. q # p /\ Drives(q, e)' /\ driver'[q].attempt # exec'[e].attempt
    BY <1>1, <1>2, <2>1
  <2>3. ~AsPlanned(e)'
    BY <2>2 DEF AsPlanned
  <2>4. (Seen(e))' = "overtaken"
    BY <1>4, <2>3, SeenNext
  <2> QED BY <1>1, <1>2, <1>3, <1>5, <2>4
<1>6. CASE ~Inside(e)
  <2>1. \A q \in Workers : Drives(q, e)' => q = p
    BY <1>2, <1>6 DEF Inside
  <2>2. AsPlanned(e)'
    BY <2>1 DEF AsPlanned
  <2>3. (Seen(e))' = "working"
    BY <1>4, <2>2, SeenNext
  <2> QED BY <1>1, <1>2, <1>3, <1>6, <2>3
<1> QED BY <1>5, <1>6

(* The event loop answers or retries e: Answer, Retry or Renew. *)
LEMMA SeesTaken ==
    ASSUME Engine, Books, ~Busy(Loop), NEW e \in Executions, Exists(e),
           \A f \in Executions : f # e => exec'[f] = exec[f],
           \A q \in Workers : q # Loop => driver'[q] = driver[q],
           driver'[Loop].pc \in {"run", "finish"}, driver'[Loop].exec = e,
           driver'[Loop].attempt = exec'[e].attempt,
           exec'[e].status \in {"running", "paused"},
           \A q \in Workers : Drives(q, e) => driver[q].attempt # exec'[e].attempt,
           Inside(e) => ~AsPlanned(e),
           exec[e].status \in {"paused", "failed", "cancelled"}
    PROVE  Lifecycle!Next
<1>1. Loop \in Workers
  BY DEF Workers
<1>2. /\ (Seen(e))' = IF Inside(e) THEN "overtaken" ELSE "working"
      /\ \A f \in Executions : f # e => (Seen(f))' = Seen(f)
      /\ \A f \in Executions : ~Drives(Loop, f) /\ (Drives(Loop, f)' <=> f = e)
  BY <1>1, SeesJoined
<1>3. Lifecycle!Take(e)
  BY <1>2, Takes
<1>4. CASE Inside(e)
  <2>1. Seen(e) = "overtaken"
    BY <1>4, SeenIs
  <2>2. UNCHANGED [f \in Executions |-> Seen(f)]
    BY <1>2, <1>4, <2>1, SeenStays
  <2>3. Lifecycle!Among(e, {"overtaken"})
    BY <2>1 DEF Lifecycle!Among
  <2>4. Lifecycle!Renew(e)
    BY <1>3, <2>2, <2>3 DEF Lifecycle!Renew
  <2> QED BY <2>4 DEF Lifecycle!Next
<1>5. CASE ~Inside(e)
  <2>1. Lifecycle!Enter(e, "working")
    BY <1>2, <1>5, Enters
  <2>2. Seen(e) \in {"waiting", "failed", "cancelled"}
    BY <1>5, SeenIs DEF RowSays
  <2>3. Lifecycle!Among(e, {"waiting"}) \/ Lifecycle!Among(e, {"failed", "cancelled"})
    BY <2>2 DEF Lifecycle!Among
  <2>4. Lifecycle!Answer(e) \/ Lifecycle!Retry(e)
    BY <1>3, <2>1, <2>3 DEF Lifecycle!Answer, Lifecycle!Retry
  <2> QED BY <2>4 DEF Lifecycle!Next
<1> QED BY <1>4, <1>5

LEMMA SeesResumed ==
    ASSUME Engine, Books, NEW e \in Executions, NEW a \in BOOLEAN, NEW m \in BOOLEAN,
           ResumeWorkflow(e, a, m)
    PROVE  Lifecycle!Next
<1>1. driver \in [Workers -> Driver] /\ Loop \in Workers
  BY DEF Engine, TypeOK, Workers
<1>2. /\ ~Busy(Loop) /\ exec[e].status = "paused" /\ exec' = exec
      /\ driver' = [driver EXCEPT ![Loop] = AnsweredDriver(e, a, m)]
  BY DEF ResumeWorkflow, Resumable, LoopIdle
<1>3. /\ AnsweredDriver(e, a, m).pc \in {"run", "finish"}
      /\ AnsweredDriver(e, a, m).exec = e
      /\ AnsweredDriver(e, a, m).attempt = exec[e].attempt
  BY DEF AnsweredDriver, Answered, IdleDriver
<1>4. /\ driver'[Loop].pc \in {"run", "finish"} /\ driver'[Loop].exec = e
      /\ driver'[Loop].attempt = exec'[e].attempt
      /\ \A q \in Workers : q # Loop => driver'[q] = driver[q]
  BY <1>1, <1>2, <1>3
<1>5. ASSUME NEW q \in Workers, Drives(q, e)
      PROVE  driver[q].attempt # exec[e].attempt
  <2>1. q \in Threads /\ Busy(q) /\ driver[q].exec = e /\ driver[q].attempt = 1
    BY <1>2, <1>5, LoopFree, OnTheJob DEF Workers
  <2>2. exec[e].attempt # 1
    BY <1>2, <2>1 DEF Engine, Driven, ThreadsUnpaused
  <2> QED BY <2>1, <2>2
<1>6. Inside(e) => ~AsPlanned(e)
  BY <1>5 DEF Inside, AsPlanned
<1>7. /\ \A q \in Workers : Drives(q, e) => driver[q].attempt # exec'[e].attempt
      /\ \A f \in Executions : f # e => exec'[f] = exec[f]
      /\ exec'[e].status \in {"running", "paused"}
      /\ exec[e].status \in {"paused", "failed", "cancelled"}
  BY <1>2, <1>5
<1>8. Exists(e) /\ ~Busy(Loop)
  BY <1>2 DEF Exists
<1> QED BY <1>4, <1>6, <1>7, <1>8, SeesTaken

LEMMA SeesRetried ==
    ASSUME Engine, Books, NEW e \in Executions, RetryExecution(e)
    PROVE  Lifecycle!Next
<1> PICK wf : wf = workflow[exec[e].workflow]
  OBVIOUS
<1> PICK k : k = exec[e].attempt + 1
  OBVIOUS
<1>1. /\ driver \in [Workers -> Driver] /\ Loop \in Workers /\ exec \in [Executions -> Row]
      /\ exec[e] \in Row /\ exec[e].attempt \in Nat
  BY DEF Engine, TypeOK, Workers, Row
<1>2. /\ ~Busy(Loop) /\ exec[e].status \in {"failed", "cancelled"}
      /\ exec' = [exec EXCEPT ![e] = RetriedRow(exec[e], wf)]
      /\ driver' = [driver EXCEPT ![Loop] = Driving(e, k, wf)]
  BY DEF RetryExecution, Retryable, LoopIdle
<1>3. Driving(e, k, wf).pc = "run" /\ Driving(e, k, wf).exec = e /\ Driving(e, k, wf).attempt = k
  BY DEF Driving, IdleDriver
<1>4. RetriedRow(exec[e], wf).status = "running" /\ RetriedRow(exec[e], wf).attempt = k
  BY <1>1 DEF RetriedRow, Row
<1>5. /\ driver'[Loop].pc \in {"run", "finish"} /\ driver'[Loop].exec = e
      /\ driver'[Loop].attempt = k
      /\ \A q \in Workers : q # Loop => driver'[q] = driver[q]
  BY <1>1, <1>2, <1>3
<1>6. /\ exec'[e].attempt = k /\ exec'[e].status = "running"
      /\ \A f \in Executions : f # e => exec'[f] = exec[f]
  BY <1>1, <1>2, <1>4
<1>7. \A q \in Workers : Drives(q, e) => driver[q].attempt # k
  BY <1>1, OnTheJob
<1>8. /\ Exists(e) /\ ~AsPlanned(e) /\ ~Busy(Loop)
      /\ exec[e].status \in {"paused", "failed", "cancelled"}
  BY <1>2 DEF Exists, AsPlanned
<1>9. /\ driver'[Loop].attempt = exec'[e].attempt
      /\ exec'[e].status \in {"running", "paused"}
      /\ \A q \in Workers : Drives(q, e) => driver[q].attempt # exec'[e].attempt
  BY <1>5, <1>6, <1>7
<1> QED BY <1>5, <1>6, <1>8, <1>9, SeesTaken

LEMMA SeesStarted ==
    ASSUME Engine, Books, NEW p \in Workers, NEW e \in Executions,
           NEW w \in Workflows, NEW x \in Entities, StartExecution(p, e, w, x)
    PROVE  Lifecycle!Next
<1>1. /\ driver \in [Workers -> Driver] /\ exec \in [Executions -> Row]
  BY DEF Engine, TypeOK
<1>2. /\ ~Busy(p) /\ exec[e].status = "none"
      /\ exec' = [exec EXCEPT ![e] =
                  [NoRow EXCEPT !.status = "running", !.workflow = w, !.entity = x,
                                !.attempt = 1, !.rev = workflow[w].rev]]
      /\ driver' = [driver EXCEPT ![p] = Driving(e, 1, workflow[w])]
  BY DEF StartExecution
<1>3. /\ Driving(e, 1, workflow[w]).pc = "run" /\ Driving(e, 1, workflow[w]).exec = e
      /\ Driving(e, 1, workflow[w]).attempt = 1
  BY DEF Driving, IdleDriver
<1>4. exec'[e].status = "running" /\ exec'[e].attempt = 1
  BY <1>1, <1>2 DEF NoRow
<1>5. /\ driver'[p].pc \in {"run", "finish"} /\ driver'[p].exec = e
      /\ driver'[p].attempt = exec'[e].attempt
      /\ \A q \in Workers : q # p => driver'[q] = driver[q]
      /\ \A f \in Executions : f # e => exec'[f] = exec[f]
  BY <1>1, <1>2, <1>3, <1>4
<1>6. \A q \in Workers : ~Drives(q, e)
  BY <1>2, OnTheJob
<1>7. ~Inside(e) /\ Seen(e) = "none"
  BY <1>2, <1>6, SeenIs DEF Inside, RowSays
<1>8. /\ (Seen(e))' = "working"
      /\ \A f \in Executions : f # e => (Seen(f))' = Seen(f)
      /\ \A f \in Executions : ~Drives(p, f) /\ (Drives(p, f)' <=> f = e)
      /\ \A q \in Workers, f \in Executions : q # p => (Drives(q, f)' <=> Drives(q, f))
  BY <1>2, <1>4, <1>5, <1>6, <1>7, SeesJoined
<1>9. Lifecycle!Among(e, {"none"}) /\ Lifecycle!Enter(e, "working")
  BY <1>7, <1>8, Enters DEF Lifecycle!Among
<1>10. CASE p = Loop
  <2>1. Lifecycle!Take(e)
    BY <1>8, <1>10, Takes
  <2>2. Lifecycle!Begin(e)
    BY <1>9, <2>1 DEF Lifecycle!Begin
  <2> QED BY <2>2 DEF Lifecycle!Next
<1>11. CASE p # Loop
  <2>1. Threads # {}
    BY <1>11 DEF Workers
  <2>2. UNCHANGED {f \in Executions : Drives(Loop, f)}
    BY <1>8, <1>11, LoopStays DEF Workers
  <2>3. Lifecycle!Begin(e)
    BY <1>9, <2>1, <2>2 DEF Lifecycle!Begin
  <2> QED BY <2>3 DEF Lifecycle!Next
<1> QED BY <1>10, <1>11

LEMMA SeesAbandoned ==
    ASSUME NEW e \in Executions, NEW s \in {"waiting", "orphaned", "succeeded", "failed", "cancelled"},
           Seen(e) \in {"working", "overtaken"},
           Seen(e) = "working" => s \in {"orphaned", "waiting"},
           (Seen(e))' = s, \A f \in Executions : f # e => (Seen(f))' = Seen(f),
           Lifecycle!Leave(e)
    PROVE  Lifecycle!Next
<1> DEFINE to == [f \in {e} |-> s]
<1>1. to \in [{e} -> Lifecycle!Settled]
  BY DEF Lifecycle!Settled
<1>2. [f \in Executions |-> Seen(f)]' =
         [f \in Executions |-> IF f \in {e} THEN to[f] ELSE [g \in Executions |-> Seen(g)][f]]
  OBVIOUS
<1>3. Lifecycle!Abandon({e})
  BY <1>1, <1>2 DEF Lifecycle!Abandon, Lifecycle!Leave
<1> QED BY <1>3 DEF Lifecycle!Next

(* A worker leaves e, having written its row or been interrupted: Wait,    *)
(* End, Abandon or Yield, or the loop stays in an overtaken execution.     *)
LEMMA SeesLeft ==
    ASSUME Engine, Books, NEW p \in Workers, NEW e \in Executions, Drives(p, e), Exists(e),
           driver'[p].pc \notin {"run", "pause", "finish"},
           \A q \in Workers : q # p => driver'[q] = driver[q],
           \A f \in Executions : f # e => exec'[f] = exec[f],
           exec'[e].attempt = exec[e].attempt,
           \/ exec'[e].status = exec[e].status
           \/ exec'[e].status \in {"running", "paused", "succeeded", "failed"}
    PROVE  \/ Lifecycle!Next
           \/ UNCHANGED <<[f \in Executions |-> Seen(f)], {f \in Executions : Drives(Loop, f)}>>
<1>1. \A f \in Executions : ~Drives(p, f)' /\ (f # e => ~Drives(p, f))
  BY OnTheJob DEF Drives
<1>2. \A q \in Workers, f \in Executions : q # p => (Drives(q, f)' <=> Drives(q, f))
  BY DEF Drives
<1>3. \A f \in Executions : f # e => (Seen(f))' = Seen(f)
  BY <1>1, SeenElsewhere
<1>4. Exists(e)' /\ Loop \in Workers /\ Inside(e)
  BY DEF Exists, Workers, Inside
<1>5. Seen(e) = IF AsPlanned(e) THEN "working" ELSE "overtaken"
  BY <1>4, SeenIs
<1>6. CASE p = Loop /\ Inside(e)'
  <2>1. PICK q \in Workers : Drives(q, e)'
    BY <1>6 DEF Inside
  <2>2. q # Loop /\ Drives(q, e)
    BY <1>1, <1>2, <1>6, <2>1
  <2>3. driver[q].attempt # exec[e].attempt
    BY <1>6, <2>2, OnTheJob
  <2>4. ~AsPlanned(e) /\ ~AsPlanned(e)'
    BY <1>6, <2>1, <2>2, <2>3 DEF AsPlanned
  <2>5. Seen(e) = "overtaken" /\ (Seen(e))' = "overtaken"
    BY <1>4, <1>5, <1>6, <2>4, SeenNext
  <2>6. UNCHANGED [f \in Executions |-> Seen(f)]
    BY <1>3, <2>5, SeenStays
  <2>7. Lifecycle!Leave(e)
    BY <1>1, <1>6, Leaves
  <2>8. Lifecycle!Yield(e)
    BY <2>5, <2>6, <2>7 DEF Lifecycle!Yield, Lifecycle!Among
  <2> QED BY <2>8 DEF Lifecycle!Next
<1>7. CASE p # Loop /\ Inside(e)'
  <2>1. PICK q \in Workers : Drives(q, e)'
    BY <1>7 DEF Inside
  <2>2. q # p /\ Drives(q, e)
    BY <1>1, <1>2, <2>1
  <2>3. q = Loop
    BY <1>7, <2>2, OneThread DEF Workers
  <2>4. ~AsPlanned(e)
    <3>1. driver[q].attempt # driver[p].attempt
      BY <2>2, OnTheJob
    <3> QED BY <2>2, <3>1 DEF AsPlanned
  <2>5. Seen(e) = "overtaken" /\ (Seen(e))' \in {"working", "overtaken"}
    BY <1>4, <1>5, <1>7, <2>4, SeenNext
  <2>6. UNCHANGED {f \in Executions : Drives(Loop, f)}
    BY <1>2, <1>4, <1>7, LoopStays
  <2>7. CASE (Seen(e))' = "overtaken"
    <3>1. \A f \in Executions : (Seen(f))' = Seen(f)
      BY <1>3, <2>5, <2>7
    <3> QED BY <2>6, <3>1, SeenStays
  <2>8. CASE (Seen(e))' = "working"
    <3>1. Lifecycle!Enter(e, "working")
      BY <1>3, <2>8, Enters
    <3>2. e \in {f \in Executions : Drives(Loop, f)}
      BY <2>2, <2>3
    <3>3. Lifecycle!Yield(e)
      BY <2>5, <2>6, <3>1, <3>2 DEF Lifecycle!Yield, Lifecycle!Among
    <3> QED BY <3>3 DEF Lifecycle!Next
  <2> QED BY <2>5, <2>7, <2>8
<1>8. CASE ~Inside(e)'
  <2>1. \A q \in Workers : q # p => ~Drives(q, e)
    BY <1>2, <1>8 DEF Inside
  <2>2. \A f \in Executions : Drives(Loop, f)' <=> Drives(Loop, f) /\ f # e
    BY <1>1, <1>2, <1>4, <2>1
  <2>3. Lifecycle!Leave(e)
    BY <2>2, Leaves
  <2>4. (Seen(e))' = RowSays(exec'[e].status)
    BY <1>8, SeenNext
  <2>5. exec'[e].status \in {"running", "paused", "succeeded", "failed", "cancelled"}
    <3>1. exec[e].status \in {"running", "paused", "succeeded", "failed", "cancelled"}
      BY DEF Exists, Engine, TypeOK, Row, Statuses, Finals
    <3> QED BY <3>1
  <2>6. CASE Seen(e) = "overtaken"
    <3>1. RowSays(exec'[e].status) \in {"waiting", "orphaned", "succeeded", "failed", "cancelled"}
      BY <2>5 DEF RowSays
    <3> QED BY <1>3, <2>3, <2>4, <2>6, <3>1, SeesAbandoned
  <2>7. CASE Seen(e) = "working"
    <3>1. exec'[e].status \in {"running", "paused", "succeeded", "failed"}
      BY <1>5, <2>7 DEF AsPlanned
    <3>2. CASE exec'[e].status \in {"running", "paused"}
      <4>1. RowSays(exec'[e].status) \in {"orphaned", "waiting"}
        BY <3>2 DEF RowSays
      <4> QED BY <1>3, <2>3, <2>4, <2>7, <4>1, SeesAbandoned
    <3>3. CASE exec'[e].status \in {"succeeded", "failed"}
      <4>1. (Seen(e))' \in {"succeeded", "failed"}
        BY <2>4, <3>3 DEF RowSays
      <4>2. \E s \in {"succeeded", "failed"} : Lifecycle!Enter(e, s)
        BY <1>3, <4>1, Enters
      <4>3. Lifecycle!End(e)
        BY <2>3, <2>7, <4>2 DEF Lifecycle!End, Lifecycle!Among
      <4> QED BY <4>3 DEF Lifecycle!Next
    <3> QED BY <3>1, <3>2, <3>3
  <2> QED BY <1>5, <2>6, <2>7
<1> QED BY <1>6, <1>7, <1>8

(* A worker leaves an execution that was deleted behind its back. *)
LEMMA SeesGone ==
    ASSUME Engine, Books, NEW p \in Workers, NEW e \in Executions, Drives(p, e), ~Exists(e),
           driver'[p].pc \notin {"run", "pause", "finish"},
           \A q \in Workers : q # p => driver'[q] = driver[q],
           \A f \in Executions : exec'[f] = exec[f]
    PROVE  UNCHANGED <<[f \in Executions |-> Seen(f)], {f \in Executions : Drives(Loop, f)}>>
<1>1. p # Loop /\ Loop \in Workers
  BY OnTheJob DEF Workers
<1>2. \A f \in Executions : ~Drives(p, f)' /\ (f # e => ~Drives(p, f))
  BY OnTheJob DEF Drives
<1>3. \A f \in Executions : f # e => (Seen(f))' = Seen(f)
  BY <1>2, SeenElsewhere
<1>4. ~Exists(e)'
  BY DEF Exists
<1>5. (Seen(e))' = Seen(e)
  BY <1>4, SeenIs, SeenNext
<1>6. \A f \in Executions : Drives(Loop, f)' <=> Drives(Loop, f)
  BY <1>1 DEF Drives
<1> QED BY <1>3, <1>5, <1>6, SeenStays, LoopStays

LEMMA SeesAdvance ==
    ASSUME Engine, Books, NEW p \in Workers, Advance(p)
    PROVE  \/ Lifecycle!Next
           \/ UNCHANGED <<[f \in Executions |-> Seen(f)], {f \in Executions : Drives(Loop, f)}>>
<1> PICK e : e = driver[p].exec
  OBVIOUS
<1>1. driver[p].pc # "idle"
  BY DEF Advance, ExecuteStep, StepLost, PauseExecution, FinishExecution, CompleteEntity, MarkHandled
<1>2. /\ e \in Executions /\ driver[p] \in Driver /\ TypeOK /\ Loop \in Workers
      /\ exec[e] \in Row
  BY <1>1, AtWork DEF Engine, TypeOK, Workers
<1>3. CASE ExecuteStep(p)
  <2>1. exec' = exec
    BY <1>3 DEF ExecuteStep
  <2>2. \A q \in Workers, f \in Executions : Drives(q, f)' <=> Drives(q, f)
    BY <1>3, StepStays DEF Drives
  <2>3. \A q \in Workers : driver'[q].attempt = driver[q].attempt
    BY <1>3, StepStays
  <2>4. \A f \in Executions : (Seen(f))' = Seen(f)
    BY <2>1, <2>2, <2>3, SeenSame
  <2> QED BY <1>2, <2>2, <2>4, SeenStays, LoopStays
<1>4. CASE CompleteEntity(p) \/ MarkHandled(p)
  <2>1. exec' = exec /\ driver[p].pc \in {"complete", "mark"}
    BY <1>4 DEF CompleteEntity, MarkHandled
  <2>2. /\ \A f \in Executions : ~Drives(p, f)' /\ ~Drives(p, f)
        /\ \A q \in Workers : q # p => driver'[q] = driver[q]
    BY <1>4, <2>1, StepLeaves DEF Drives
  <2>3. \A f \in Executions : (Seen(f))' = Seen(f)
    BY <2>1, <2>2, SeenElsewhere
  <2>4. \A f \in Executions : Drives(Loop, f)' <=> Drives(Loop, f)
    BY <1>2, <2>2 DEF Drives
  <2> QED BY <2>3, <2>4, SeenStays, LoopStays
<1>5. CASE StepLost(p) \/ PauseExecution(p) \/ FinishExecution(p)
  <2>1. /\ Drives(p, e) /\ driver'[p].pc \notin {"run", "pause", "finish"}
        /\ \A q \in Workers : q # p => driver'[q] = driver[q]
    BY <1>5, StepLeaves DEF Drives, StepLost, PauseExecution, FinishExecution
  <2>2. /\ \A f \in Executions : f # e => exec'[f] = exec[f]
        /\ exec'[e].attempt = exec[e].attempt
        /\ \/ exec'[e].status = exec[e].status
           \/ exec'[e].status \in {"running", "paused", "succeeded", "failed"}
        /\ ~Exists(e) => exec'[e] = exec[e]
    <3>1. CASE StepLost(p)
      <4>1. exec' = exec
        BY <3>1 DEF StepLost
      <4> QED BY <4>1
    <3>2. CASE PauseExecution(p) \/ FinishExecution(p)
      <4>1. \/ UpdateRow(e, PausedRow(exec[e], driver[p]))
            \/ UpdateRow(e, FinishedRow(exec[e], driver[p]))
        BY <3>2 DEF PauseExecution, FinishExecution
      <4>2. /\ SameRows /\ \A f \in Executions : f # e => exec'[f] = exec[f]
            /\ ~Exists(e) => exec'[e] = exec[e]
            /\ Exists(e) => exec'[e] \in {PausedRow(exec[e], driver[p]),
                                          FinishedRow(exec[e], driver[p])}
        BY <1>2, <4>1, UpdateRowSame
      <4>3. /\ PausedRow(exec[e], driver[p]).status = "paused"
            /\ FinishedRow(exec[e], driver[p]).status \in {"running", "succeeded", "failed"}
        BY <1>2, WrittenRows DEF Driver
      <4>4. exec'[e].attempt = exec[e].attempt
        BY <1>2, <4>2 DEF SameRows
      <4> QED BY <4>2, <4>3, <4>4
    <3> QED BY <1>5, <3>1, <3>2
  <2>3. CASE Exists(e)
    BY <1>2, <2>1, <2>2, <2>3, SeesLeft
  <2>4. CASE ~Exists(e)
    <3>1. \A f \in Executions : exec'[f] = exec[f]
      BY <2>2, <2>4
    <3> QED BY <1>2, <2>1, <2>4, <3>1, SeesGone
  <2> QED BY <2>3, <2>4
<1> QED BY <1>3, <1>4, <1>5 DEF Advance

LEMMA SeesCancelled ==
    ASSUME Engine, Books, NEW e \in Executions, CancelExecution(e)
    PROVE  \/ Lifecycle!Next
           \/ UNCHANGED <<[f \in Executions |-> Seen(f)], {f \in Executions : Drives(Loop, f)}>>
<1>1. exec \in [Executions -> Row] /\ exec[e] \in Row /\ Loop \in Workers
  BY DEF Engine, TypeOK, Workers
<1>2. /\ ~Busy(Loop) /\ exec[e].status \in {"running", "paused"} /\ UNCHANGED driver
      /\ exec' = [exec EXCEPT ![e] = [@ EXCEPT !.status = "cancelled", !.finished = TRUE]]
  BY DEF CancelExecution, LoopIdle
<1>3. exec'[e].status = "cancelled" /\ \A f \in Executions : f # e => exec'[f] = exec[f]
  BY <1>1, <1>2 DEF Row
<1>4. \A q \in Workers, f \in Executions : Drives(q, f)' <=> Drives(q, f)
  BY <1>2 DEF Drives
<1>5. \A f \in Executions : f # e => (Seen(f))' = Seen(f)
  BY <1>2, <1>3, <1>4, SeenSame
<1>6. Lifecycle!Idle /\ UNCHANGED {f \in Executions : Drives(Loop, f)}
  BY <1>1, <1>2, <1>4, LoopFree, Frees, LoopStays
<1>7. Exists(e) /\ Exists(e)' /\ ~AsPlanned(e)' /\ (Inside(e)' <=> Inside(e))
  BY <1>2, <1>3, <1>4 DEF Exists, AsPlanned, Inside
<1>8. CASE Inside(e)
  <2>1. (Seen(e))' = "overtaken" /\ Seen(e) \in {"working", "overtaken"}
    BY <1>7, <1>8, SeenIs, SeenNext
  <2>2. CASE Seen(e) = "overtaken"
    <3>1. \A f \in Executions : (Seen(f))' = Seen(f)
      BY <1>5, <2>1, <2>2
    <3> QED BY <1>6, <3>1, SeenStays
  <2>3. CASE Seen(e) = "working"
    <3>1. Lifecycle!Enter(e, "overtaken")
      BY <1>5, <2>1, Enters
    <3>2. Lifecycle!Cancel(e)
      BY <1>6, <2>3, <3>1 DEF Lifecycle!Cancel, Lifecycle!Among
    <3> QED BY <3>2 DEF Lifecycle!Next
  <2> QED BY <2>1, <2>2, <2>3
<1>9. CASE ~Inside(e)
  <2>1. (Seen(e))' = "cancelled" /\ Seen(e) \in {"waiting", "orphaned"}
    BY <1>2, <1>3, <1>7, <1>9, SeenIs, SeenNext DEF RowSays
  <2>2. Lifecycle!Enter(e, "cancelled")
    BY <1>5, <2>1, Enters
  <2>3. Lifecycle!Cancel(e)
    BY <1>6, <2>1, <2>2 DEF Lifecycle!Cancel, Lifecycle!Among
  <2> QED BY <2>3 DEF Lifecycle!Next
<1> QED BY <1>8, <1>9

(* Rows are deleted, and perhaps found deleted already: Delete or nothing. *)
LEMMA SeesDeleted ==
    ASSUME Engine, ~Busy(Loop), UNCHANGED driver, NEW S \in SUBSET Executions,
           \A f \in S : exec[f].status # "none" /\ exec'[f].status = "deleted",
           \A f \in Executions \ S : exec'[f] = exec[f]
    PROVE  \/ Lifecycle!Next
           \/ UNCHANGED <<[f \in Executions |-> Seen(f)], {f \in Executions : Drives(Loop, f)}>>
<1>1. \A q \in Workers, f \in Executions : Drives(q, f)' <=> Drives(q, f)
  BY DEF Drives
<1>2. \A f \in Executions \ S : (Seen(f))' = Seen(f)
  BY <1>1, SeenSame
<1>3. \A f \in S : (Seen(f))' = "deleted"
  <2> SUFFICES ASSUME NEW f \in S PROVE (Seen(f))' = "deleted"
    OBVIOUS
  <2>1. ~Exists(f)' /\ RowSays(exec'[f].status) = "deleted"
    BY DEF Exists, RowSays
  <2> QED BY <2>1, SeenNext
<1>4. Lifecycle!Idle /\ UNCHANGED {f \in Executions : Drives(Loop, f)}
  BY <1>1, LoopFree, Frees, LoopStays DEF Workers
<1> DEFINE D == {f \in S : exec[f].status # "deleted"}
<1>5. \A f \in S \ D : Seen(f) = "deleted"
  BY SeenIs DEF Exists, RowSays
<1>6. \A f \in Executions : (Seen(f))' = IF f \in D THEN "deleted" ELSE Seen(f)
  BY <1>2, <1>3, <1>5
<1>7. \A f \in D : Seen(f) \notin {"none", "deleted"}
  <2> SUFFICES ASSUME NEW f \in D PROVE Seen(f) \notin {"none", "deleted"}
    OBVIOUS
  <2>1. exec[f].status \notin {"none", "deleted"}
    OBVIOUS
  <2> QED BY <2>1, SeenIs DEF RowSays
<1> HIDE DEF D
<1>8. D \in SUBSET Executions
  BY DEF D
<1>9. CASE D = {}
  <2>1. \A f \in Executions : (Seen(f))' = Seen(f)
    BY <1>6, <1>9
  <2> QED BY <1>4, <2>1, SeenStays
<1>10. CASE D # {}
  <2>1. [f \in Executions |-> Seen(f)]' =
           [f \in Executions |-> IF f \in D THEN "deleted" ELSE [g \in Executions |-> Seen(g)][f]]
    BY <1>6
  <2>2. Lifecycle!Delete(D)
    BY <1>4, <1>7, <1>8, <1>10, <2>1 DEF Lifecycle!Delete
  <2> QED BY <1>8, <2>2 DEF Lifecycle!Next
<1> QED BY <1>9, <1>10

LEMMA SeesError ==
    ASSUME Engine, Books, NEW p \in Workers, DatabaseError(p)
    PROVE  \/ Lifecycle!Next
           \/ UNCHANGED <<[f \in Executions |-> Seen(f)], {f \in Executions : Drives(Loop, f)}>>
<1>1. /\ exec' = exec /\ driver'[p] = IdleDriver /\ Loop \in Workers
      /\ \A q \in Workers : q # p => driver'[q] = driver[q]
  BY DEF DatabaseError, Interrupt, Workers
<1>2. driver'[p].pc \notin {"run", "pause", "finish"}
  BY <1>1 DEF IdleDriver
<1>3. CASE \E e \in Executions : Drives(p, e)
  <2>1. PICK e \in Executions : Drives(p, e)
    BY <1>3
  <2>2. CASE Exists(e)
    BY <1>1, <1>2, <2>1, <2>2, SeesLeft
  <2>3. CASE ~Exists(e)
    BY <1>1, <1>2, <2>1, <2>3, SeesGone
  <2> QED BY <2>2, <2>3
<1>4. CASE \A e \in Executions : ~Drives(p, e)
  <2>1. \A f \in Executions : ~Drives(p, f)' /\ ~Drives(p, f)
    BY <1>2, <1>4 DEF Drives
  <2>2. \A f \in Executions : (Seen(f))' = Seen(f)
    BY <1>1, <2>1, SeenElsewhere
  <2>3. \A f \in Executions : Drives(Loop, f)' <=> Drives(Loop, f)
    BY <1>1, <2>1 DEF Drives
  <2> QED BY <2>2, <2>3, SeenStays, LoopStays
<1> QED BY <1>3, <1>4

(* A crash abandons everything that somebody is inside of. *)
LEMMA SeesCrash ==
    ASSUME Engine, Books, Crash
    PROVE  \/ Lifecycle!Next
           \/ UNCHANGED <<[f \in Executions |-> Seen(f)], {f \in Executions : Drives(Loop, f)}>>
<1>1. exec' = exec /\ (\A q \in Workers : driver'[q] = IdleDriver) /\ Loop \in Workers
  BY DEF Crash, Interrupt, Workers
<1>2. \A q \in Workers, f \in Executions : ~Drives(q, f)'
  BY <1>1 DEF Drives, IdleDriver
<1>3. \A f \in Executions : (Seen(f))' = RowSays(exec[f].status)
  BY <1>1, <1>2, SeenNext DEF Inside
<1> DEFINE S == {f \in Executions : Exists(f) /\ Inside(f)}
<1>4. \A f \in Executions \ S : (Seen(f))' = Seen(f)
  BY <1>3, SeenIs
<1>5. ASSUME NEW f \in S
      PROVE  /\ Seen(f) \in {"working", "overtaken"}
             /\ RowSays(exec[f].status) \in Lifecycle!Settled
             /\ Seen(f) = "working" => RowSays(exec[f].status) \in {"orphaned", "waiting"}
  <2>1. Seen(f) = IF AsPlanned(f) THEN "working" ELSE "overtaken"
    BY SeenIs
  <2>2. exec[f].status \in {"running", "paused", "succeeded", "failed", "cancelled"}
    BY DEF Exists, Engine, TypeOK, Row, Statuses, Finals
  <2>3. RowSays(exec[f].status) \in Lifecycle!Settled
    BY <2>2 DEF RowSays, Lifecycle!Settled
  <2>4. AsPlanned(f) => RowSays(exec[f].status) \in {"orphaned", "waiting"}
    BY DEF AsPlanned, RowSays
  <2> QED BY <2>1, <2>3, <2>4
<1>6. \A f \in Executions : Drives(Loop, f) => f \in S
  BY <1>1, OnTheJob DEF Inside
<1>7. {f \in Executions : Drives(Loop, f)'} = {f \in Executions : Drives(Loop, f)} \ S
  BY <1>1, <1>2, <1>6
<1>8. S \in SUBSET Executions
  OBVIOUS
<1> HIDE DEF S
<1>9. CASE S = {}
  <2>1. \A f \in Executions : (Seen(f))' = Seen(f)
    BY <1>4, <1>9
  <2>2. \A f \in Executions : Drives(Loop, f)' <=> Drives(Loop, f)
    BY <1>1, <1>2, <1>6, <1>9
  <2> QED BY <2>1, <2>2, SeenStays, LoopStays
<1>10. CASE S # {}
  <2> DEFINE to == [f \in S |-> RowSays(exec[f].status)]
  <2>1. to \in [S -> Lifecycle!Settled]
    BY <1>5
  <2>2. \A f \in S : Seen(f) = "working" => to[f] \in {"orphaned", "waiting"}
    BY <1>5
  <2>3. \A f \in Executions : (Seen(f))' = IF f \in S THEN to[f] ELSE Seen(f)
    BY <1>3, <1>4
  <2> HIDE DEF to
  <2>4. [f \in Executions |-> Seen(f)]' =
           [f \in Executions |-> IF f \in S THEN to[f] ELSE [g \in Executions |-> Seen(g)][f]]
    BY <2>3
  <2>5. \A f \in S : [g \in Executions |-> Seen(g)][f] = Seen(f)
    BY <1>8
  <2>6. Lifecycle!Abandon(S)
    BY <1>5, <1>7, <1>10, <2>1, <2>2, <2>4, <2>5 DEF Lifecycle!Abandon
  <2> QED BY <1>8, <2>6 DEF Lifecycle!Next
<1> QED BY <1>9, <1>10

LEMMA LifecycleStep ==
    ASSUME Engine, Books, [Next]_vars
    PROVE  \/ Lifecycle!Next
           \/ UNCHANGED <<[f \in Executions |-> Seen(f)], {f \in Executions : Drives(Loop, f)}>>
<1>1. exec \in [Executions -> Row]
  BY DEF Engine, TypeOK
<1>2. CASE UNCHANGED <<exec, driver>>
  BY <1>2, Stutters
<1>3. CASE \E p \in Workers : Advance(p)
  BY <1>3, SeesAdvance
<1>4. CASE \E p \in Workers, e \in Executions, w \in Workflows, x \in Entities :
               StartExecution(p, e, w, x)
  BY <1>4, SeesStarted
<1>5. CASE \E e \in Executions : ResumeExecution(e) \/ \E u \in Approvers : HandleApproval(e, u)
  <2>1. PICK e \in Executions, a \in BOOLEAN, m \in BOOLEAN : ResumeWorkflow(e, a, m)
    BY <1>5 DEF ResumeExecution, HandleApproval
  <2> QED BY <2>1, SeesResumed
<1>6. CASE \E e \in Executions : RetryExecution(e)
  BY <1>6, SeesRetried
<1>7. CASE \E e \in Executions : CancelExecution(e)
  BY <1>7, SeesCancelled
<1>8. CASE \E S \in SUBSET Executions : DeleteExecutions(S)
  <2>1. PICK S \in SUBSET Executions : DeleteExecutions(S)
    BY <1>8
  <2>2. /\ ~Busy(Loop) /\ UNCHANGED driver
        /\ \A f \in S : exec[f].status # "none" /\ exec'[f].status = "deleted"
        /\ \A f \in Executions \ S : exec'[f] = exec[f]
    BY <1>1, <2>1 DEF DeleteExecutions, LoopIdle, Deletable, Finals, Row
  <2> QED BY <2>2, SeesDeleted
<1>9. CASE \E w \in Workflows : DeleteWorkflow(w)
  <2>1. PICK w \in Workflows : DeleteWorkflow(w)
    BY <1>9
  <2>2. \A f \in Owned(w) : exec[f].status # "none"
    BY <2>1, NullAssumption DEF Engine, Driven, RowsOwned, Owned
  <2>3. /\ ~Busy(Loop) /\ UNCHANGED driver
        /\ \A f \in Owned(w) : exec'[f].status = "deleted"
        /\ \A f \in Executions \ Owned(w) : exec'[f] = exec[f]
    BY <1>1, <2>1 DEF DeleteWorkflow, LoopIdle, Owned, Row
  <2>4. Owned(w) \in SUBSET Executions
    BY DEF Owned
  <2> QED BY <2>2, <2>3, <2>4, SeesDeleted
<1>10. CASE (\E p \in Workers : DatabaseError(p)) \/ Crash
  BY <1>10, SeesError, SeesCrash
<1> QED BY <1>2, <1>3, <1>4, <1>5, <1>6, <1>7, <1>8, <1>9, <1>10
        DEF Next, vars, CreateWorkflow, UpdateWorkflow, ChangeEntityStatus

(* Every commit is a step of the handbook's state machine, extended by     *)
(* what a pool thread does to an execution cancelled under it, or does not *)
(* show, for any number of executions, threads, workflows, definitions,    *)
(* edits and crashes.                                                      *)
THEOREM LifecycleIsKept == Spec => RefinesLifecycle
<1>1. Init => Lifecycle!Init
  <2> SUFFICES ASSUME Init PROVE Lifecycle!Init
    OBVIOUS
  <2>1. /\ \A e \in Executions : exec[e].status = "none"
        /\ \A p \in Workers, e \in Executions : ~Drives(p, e)
    BY DEF Init, NoRow, IdleDriver, Drives
  <2>2. \A e \in Executions : Seen(e) = "none"
    BY <2>1, SeenIs DEF RowSays, Inside
  <2>3. {e \in Executions : Drives(Loop, e)} = {}
    BY <2>1 DEF Workers
  <2> QED BY <2>2, <2>3 DEF Lifecycle!Init
<1>2. Engine /\ Books /\ [Next]_vars =>
        [Lifecycle!Next]_<<[e \in Executions |-> Seen(e)], {e \in Executions : Drives(Loop, e)}>>
  BY LifecycleStep
<1> QED BY <1>1, <1>2, EngineInvariant, BooksInvariant, PTL
        DEF Spec, RefinesLifecycle, Lifecycle!Spec

-----------------------------------------------------------------------------
(* What the refinement says when there are no pool threads.                *)

(* Only the event loop works on executions, and each works as planned.     *)
Planned ==
    \A e \in Executions :
        /\ Seen(e) # "overtaken"
        /\ Seen(e) = "working" => Drives(Loop, e)

LEMMA EnteredSeen ==
    ASSUME NEW e \in Executions, NEW s, Lifecycle!Enter(e, s)
    PROVE  (Seen(e))' = s /\ \A f \in Executions : f # e => (Seen(f))' = Seen(f)
<1>1. [f \in Executions |-> (Seen(f))'] = [[f \in Executions |-> Seen(f)] EXCEPT ![e] = s]
  BY DEF Lifecycle!Enter
<1>2. \A g \in Executions : [f \in Executions |-> (Seen(f))'][g] =
                               IF g = e THEN s ELSE Seen(g)
  BY <1>1
<1> QED BY <1>2

LEMMA TakenLeft ==
    ASSUME NEW e \in Executions
    PROVE  /\ Lifecycle!Idle => \A f \in Executions : ~Drives(Loop, f)
           /\ Lifecycle!Take(e) => Drives(Loop, e)' /\ \A f \in Executions : ~Drives(Loop, f)
           /\ Lifecycle!Leave(e) => \A f \in Executions :
                                       f # e /\ Drives(Loop, f) => Drives(Loop, f)'
<1>1. Lifecycle!Idle => \A f \in Executions : ~Drives(Loop, f)
  BY DEF Lifecycle!Idle
<1>2. ASSUME Lifecycle!Take(e) PROVE Drives(Loop, e)'
  <2>1. {f \in Executions : Drives(Loop, f)'} = {e}
    BY <1>2 DEF Lifecycle!Take
  <2> QED BY <2>1
<1>3. ASSUME Lifecycle!Leave(e), NEW f \in Executions, f # e, Drives(Loop, f)
      PROVE  Drives(Loop, f)'
  <2>1. {g \in Executions : Drives(Loop, g)'} = {g \in Executions : Drives(Loop, g)} \ {e}
    BY <1>3 DEF Lifecycle!Leave
  <2> QED BY <1>3, <2>1
<1> QED BY <1>1, <1>2, <1>3 DEF Lifecycle!Take

LEMMA LoopSame ==
    ASSUME UNCHANGED {f \in Executions : Drives(Loop, f)}, NEW f \in Executions
    PROVE  Drives(Loop, f)' <=> Drives(Loop, f)
<1>1. {g \in Executions : Drives(Loop, g)'} = {g \in Executions : Drives(Loop, g)}
  OBVIOUS
<1> QED BY <1>1

LEMMA SeenUnchanged ==
    ASSUME UNCHANGED [f \in Executions |-> Seen(f)], NEW f \in Executions
    PROVE  (Seen(f))' = Seen(f)
<1>1. [g \in Executions |-> (Seen(g))'][f] = [g \in Executions |-> Seen(g)][f]
  OBVIOUS
<1> QED BY <1>1

LEMMA PlannedStep ==
    ASSUME Threads = {}, Planned,
           \/ Lifecycle!Next
           \/ UNCHANGED <<[f \in Executions |-> Seen(f)], {f \in Executions : Drives(Loop, f)}>>
    PROVE  Planned'
<1>0. SUFFICES \A f \in Executions : /\ (Seen(f))' # "overtaken"
                                     /\ (Seen(f))' = "working" => Drives(Loop, f)'
  BY DEF Planned
<1>1. CASE UNCHANGED <<[f \in Executions |-> Seen(f)], {f \in Executions : Drives(Loop, f)}>>
  BY <1>1, SeenUnchanged, LoopSame DEF Planned
<1>2. ASSUME NEW e \in Executions,
             Lifecycle!Begin(e) \/ Lifecycle!Answer(e) \/ Lifecycle!Retry(e)
      PROVE  \A f \in Executions : /\ (Seen(f))' # "overtaken"
                                   /\ (Seen(f))' = "working" => Drives(Loop, f)'
  <2>1. Lifecycle!Enter(e, "working") /\ Lifecycle!Take(e)
    BY <1>2 DEF Lifecycle!Begin, Lifecycle!Answer, Lifecycle!Retry
  <2> QED BY <2>1, EnteredSeen, TakenLeft DEF Planned
<1>3. ASSUME NEW e \in Executions, Lifecycle!Wait(e) \/ Lifecycle!End(e)
      PROVE  \A f \in Executions : /\ (Seen(f))' # "overtaken"
                                   /\ (Seen(f))' = "working" => Drives(Loop, f)'
  <2>1. PICK s \in {"waiting", "succeeded", "failed"} :
           Lifecycle!Enter(e, s) /\ Lifecycle!Leave(e)
    BY <1>3 DEF Lifecycle!Wait, Lifecycle!End
  <2> QED BY <2>1, EnteredSeen, TakenLeft DEF Planned
<1>4. ASSUME NEW e \in Executions, Lifecycle!Cancel(e)
      PROVE  \A f \in Executions : /\ (Seen(f))' # "overtaken"
                                   /\ (Seen(f))' = "working" => Drives(Loop, f)'
  <2>1. \A f \in Executions : ~Drives(Loop, f) /\ Seen(f) # "working"
    BY <1>4, TakenLeft DEF Lifecycle!Cancel, Planned
  <2>2. Lifecycle!Enter(e, "cancelled")
    BY <1>4, <2>1 DEF Lifecycle!Cancel, Lifecycle!Among
  <2> QED BY <2>1, <2>2, EnteredSeen DEF Planned
<1>5. ASSUME NEW e \in Executions, Lifecycle!Renew(e) \/ Lifecycle!Yield(e)
      PROVE  FALSE
  BY <1>5 DEF Lifecycle!Renew, Lifecycle!Yield, Lifecycle!Among, Planned
<1>6. ASSUME NEW S \in SUBSET Executions, Lifecycle!Abandon(S)
      PROVE  \A f \in Executions : /\ (Seen(f))' # "overtaken"
                                   /\ (Seen(f))' = "working" => Drives(Loop, f)'
  <2>1. PICK to \in [S -> Lifecycle!Settled] :
           [f \in Executions |-> (Seen(f))'] =
              [f \in Executions |-> IF f \in S THEN to[f] ELSE [g \in Executions |-> Seen(g)][f]]
    BY <1>6 DEF Lifecycle!Abandon
  <2>2. {f \in Executions : Drives(Loop, f)'} = {f \in Executions : Drives(Loop, f)} \ S
    BY <1>6 DEF Lifecycle!Abandon
  <2>3. SUFFICES ASSUME NEW f \in Executions
                 PROVE  /\ (Seen(f))' # "overtaken"
                        /\ (Seen(f))' = "working" => Drives(Loop, f)'
    OBVIOUS
  <2>4. [g \in Executions |-> (Seen(g))'][f] = (Seen(f))'
    OBVIOUS
  <2>5. (Seen(f))' = IF f \in S THEN to[f] ELSE Seen(f)
    BY <2>1, <2>4
  <2>6. CASE f \in S
    <3>1. to[f] \in Lifecycle!Settled
      BY <2>6
    <3> QED BY <2>5, <2>6, <3>1 DEF Lifecycle!Settled
  <2>7. CASE f \notin S
    <3>1. Drives(Loop, f) => Drives(Loop, f)'
      BY <2>2, <2>7
    <3> QED BY <2>5, <2>7, <3>1 DEF Planned
  <2> QED BY <2>6, <2>7
<1>7. ASSUME NEW S \in SUBSET Executions, Lifecycle!Delete(S)
      PROVE  \A f \in Executions : /\ (Seen(f))' # "overtaken"
                                   /\ (Seen(f))' = "working" => Drives(Loop, f)'
  <2>1. [f \in Executions |-> (Seen(f))'] =
           [f \in Executions |-> IF f \in S THEN "deleted" ELSE [g \in Executions |-> Seen(g)][f]]
    BY <1>7 DEF Lifecycle!Delete
  <2>2. UNCHANGED {f \in Executions : Drives(Loop, f)}
    BY <1>7 DEF Lifecycle!Delete
  <2>3. SUFFICES ASSUME NEW f \in Executions
                 PROVE  /\ (Seen(f))' # "overtaken"
                        /\ (Seen(f))' = "working" => Drives(Loop, f)'
    OBVIOUS
  <2>4. [g \in Executions |-> (Seen(g))'][f] = (Seen(f))'
    OBVIOUS
  <2>5. (Seen(f))' = IF f \in S THEN "deleted" ELSE Seen(f)
    BY <2>1, <2>4
  <2> QED BY <2>2, <2>5, LoopSame DEF Planned
<1> QED BY <1>1, <1>2, <1>3, <1>4, <1>5, <1>6, <1>7 DEF Lifecycle!Next

(* Without pool threads nothing is ever overtaken: executions follow the   *)
(* handbook's state machine as it is written, one at a time on the event   *)
(* loop.                                                                   *)
THEOREM LoopIsPlanned ==
    ASSUME Threads = {}
    PROVE  Spec => []Planned
<1>1. Lifecycle!Init => Planned
  <2> SUFFICES ASSUME Lifecycle!Init, NEW e \in Executions PROVE Seen(e) = "none"
    BY DEF Planned
  <2>1. [f \in Executions |-> Seen(f)][e] = [f \in Executions |-> "none"][e]
    BY DEF Lifecycle!Init
  <2> QED BY <2>1
<1>2. Planned /\ [Lifecycle!Next]_<<[e \in Executions |-> Seen(e)],
                                   {e \in Executions : Drives(Loop, e)}>> => Planned'
  BY PlannedStep
<1> QED BY <1>1, <1>2, LifecycleIsKept, PTL DEF RefinesLifecycle, Lifecycle!Spec

=============================================================================
