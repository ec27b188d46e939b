# A formal model of Ontos / Builder Hub

TLA+ models of the backend in `src/src/backend/src` (written `B/` below): a
FastAPI service in which teams govern data products, data contracts and assets.
The models cover the part of it whose correctness depends on the order in which
things happen: process workflows and their approvals, the lifecycle of data
products with its gates and publication, time-limited access, the life, versions
and certification of data contracts, the agreement wizard, background jobs with
their poller, and the review and merge of master data matches.

Contents

1. The system and its components
2. How the backend runs, and what that means for the models
3. Modules and their correspondence to the code
4. What the runs check and show
5. Bounds, symmetry and fairness
6. What is proved, and how
7. Disagreements between code and documentation
8. What is not modelled
9. Plan

## 1. The system and its components

| Component | State it keeps | Operations | Hard part | What makes it correct |
|---|---|---|---|---|
| Workflow engine, `B/common/workflow_executor.py`, `B/repositories/process_workflows_repository.py`, `B/routes/workflows_routes.py` | definitions and their steps, executions, step log, approval notifications | create/update/delete a definition; execute, pause, answer, resume, cancel, retry, delete an execution | pool threads and the event loop drive executions concurrently; an execution sleeps for days between request and answer while its definition and its entity change; crashes between commits | one driver per attempt, a request answered once, a cancellation final, the entity follows the answer |
| Triggers and gates, `B/common/workflow_triggers.py` | none | `fire_trigger`, `before_status_change`, ... | a workflow that raises, fails or pauses inside a caller's transition | a failed gate blocks the transition |
| Data products, `B/controller/data_products_manager.py`, `B/routes/data_product_routes.py`, `B/models/lifecycle.py` | status, publication scope, certification, ports | transitions, request review, publish, scope, certify, update | handlers with several commits; writes by workflows that do not look at the status | what is shown has been activated |
| Access grants, `B/controller/access_grants_manager.py`, `B/repositories/access_grants_repository.py` | requests, grants, duration options | request, approve, deny, cancel, revoke; the clock | two ways to approve (endpoint and workflow); expiry by date | one live claim per user and asset; grants match approvals |
| Data contracts: lifecycle, `B/controller/data_contracts_manager.py`, `B/routes/data_contracts_routes.py` | status, publication scope | transitions, steward review, status change, publish and deploy requests, update, delete | three maps of transitions; requests that are answered without being looked up; workflows executed by hand, cancelled and retried; completions that write `deployed` or `draft` over anything | every way around the review and out of `retired` is one that can be named |
| Data contracts: versions, `data_contracts_manager.py`, `B/utils/contract_cloner.py`, `B/common/version_visibility.py` | rows with parent, family and draft owner | create, clone, commit, discard, submit, delete; latest of a family | members deleted between others; drafts that only one user may see | families hold together; submitted versions stay where the owner is cleared; the latest version is fit to be shown |
| Agreement wizard, `B/controller/agreement_wizard_manager.py` and its repositories | sessions with a snapshot of the workflow, agreements | start, submit step, abort, complete | four or more commits in one request; edits of the workflow while sessions are open; agreements persisted before the session is complete | consent is to what was shown; completed sessions are on record; no step signs twice |
| Jobs, `B/controller/jobs_manager.py`, `B/controller/settings_manager.py` | installations, runs, the polling window, a cached flag | install, remove, reconcile, run, poll, notify | a poller thread with a window and a backoff beside the event loop; jobs that vanish in Databricks | every result is recorded and told of once; no job is lost |
| Certification propagation, `B/controller/certification_propagator.py` | inherited levels | certify, decertify, propagate over relationships | several ways to one entity, cycles, writers on other threads, two commits | a walk reaches everything below its source, and levels come from above |
| Master data management, `B/controller/mdm_manager.py`, and asset reviews, `data_asset_reviews_manager.py` | match candidates with merged data, reviewed assets | detect, decide, create review, sync, merge, dry run | two tables that follow each other with errors between; merged data that outlives its decision | a decision reaches the review and the merge |
| Asset hub, `B/routes/assets_routes.py`, `B/controller/assets_manager.py` | assets, versions, install events, promotions, wishes and their links | publish a version, record an install, request and review a promotion, match and unmatch a wish | SQL from `def` endpoints on the thread pool: transactions of several statements interleave and deadlock | columns that sum up other tables agree with them; one latest version; a matched wish has its link |
| Notifications | messages per user or role | create, mark read or handled | marked by several components | a request is visible until it is answered |
| Delivery, git, grant manager | none of their own | push to Unity Catalog or git | remote failures | failures are reported |
| Authorization, settings | roles, overrides | per-request checks | none over time | a matrix |
| Compliance DSL, maturity, deployment policy | none | pure evaluation | grammar, boundaries | equality with a reference |
| Semantic models, term mapping, schema import, relationships, tags, domains, teams, projects, search, assistants, MCP, audit, comments | rows or caches | CRUD, import, search | none that orders matter for | database constraints |
| Web client, `src/src/frontend` | view state | calls of the endpoints | none of the server's | out of scope |

How they interact: an endpoint changes rows and calls `fire_trigger`; matching
definitions are executed in the same call and write notifications and
entities; an approval step leaves the execution paused; a later
`POST /api/workflows/handle-approval` resumes it and, when it ends, sets the
status of the entity that started it: a product (`ProductLifecycle`) or a
contract (`ContractLifecycle`). The agreement wizard walks a definition of the
same engine, but with its own sessions, and ends in `subscribe` of the products.
The jobs whose runs the poller watches are what fills, among others, the match
candidates of `MatchReview`. Handlers share the database and, for several
managers, one session that lives as long as the process.

`PROJECT.json` lists every component with its status and every hazard with its
line.

## 2. How the backend runs, and what that means for the models

- One uvicorn process. An `async def` endpoint whose body has no `await`
  between its queries runs to its end on the event loop, so two of them do not
  interleave. In the models such an endpoint is one action if it commits once,
  and otherwise a sequence of actions that keeps the loop busy: `driver[Loop]`
  in `WorkflowEngine`, `loop` in `ProductLifecycle` and `JobPoller`, `firing` in
  `AccessGrants`, `request` in `AgreementWizard`, `walk` in
  `CertificationPropagation`. While the loop is busy no other endpoint action is enabled.
- `def` endpoints run on a thread pool and jobs have a poller thread. Both fire
  triggers, so both may be inside `execute_workflow` while the event loop does
  anything. They are the constant `Threads` of `WorkflowEngine`, the poller's
  frame `poller` of `JobPoller`, and the actions of workflow steps in the other
  modules, which no guard on the loop restricts (`EntityAction`,
  `WorkflowPublishes`, `WorkflowDecertifies`, `ProductChanges`). The hub's
  endpoints are all of this kind: `call[u]` of `AssetHub` is a thread.
- PostgreSQL at READ COMMITTED, one transaction per commit. The unit of
  interleaving in the models is the commit: **one action, one commit**, except in
  `AssetHub`, where it is the statement and the rows a transaction has written
  stay locked until its commit. What a
  handler holds in local variables across a commit is state (`driver[p].ok`,
  `driver[p].def`, `loop.product`).
- A crash ends every handler between two of its commits and changes no row
  (`Interrupt(Workers)`, `Crash`). Nothing in the code recovers at start-up.
  A database error ends the handler of one worker.

## 3. Modules and their correspondence to the code

### WorkflowEngine

`exec`, `log`, `notes` and `workflow` are the tables `workflow_executions`,
`workflow_step_executions`, the notifications of type `workflow_approval`, and
`process_workflows` with its steps. `driver[p]` is the stack frame of worker
`p` inside `execute_workflow` or `resume_workflow`: the definition it loaded,
the next step, its counters and the final status it has computed. `entity` is
the status column of the entities. `attempt` and `rev` of a row are history:
how often it was started and with which revision of its definition.

| Action | Code |
|---|---|
| `CreateWorkflow`, `UpdateWorkflow`, `DeleteWorkflow` | the endpoints with `validate_workflow`; an update replaces the step rows, and the foreign keys delete the log with them |
| `StartExecution(p, ...)` | a trigger or `POST /execute` on worker `p`: the row is created `running` |
| `ExecuteStep(p)` | one turn of the loop of `execute_workflow` / `resume_workflow`: handler, step row, branch |
| `StepLost(p)` | the step row violates its foreign key because the definition was edited meanwhile: the call raises and leaves the row as it is |
| `PauseExecution(p)`, `FinishExecution(p)` | the `update_status` calls; both write without looking at the row |
| `HandleApproval(e, u)`, `ResumeExecution(e)` | the two endpoints that call `resume_workflow` |
| `CompleteEntity(p)` | `_handle_workflow_completion`, of resumed executions only |
| `MarkHandled(p)` | the loop over unread notifications at the end of `handle_workflow_approval` |
| `CancelExecution`, `RetryExecution`, `DeleteExecutions` | the admin endpoints |
| `ChangeEntityStatus` | every other writer of the entity's status, within the transition map |
| `Interrupt(Workers)`, `DatabaseError(p)` | environment |

Step types are seen as `auto` (runs, and passes or fails), `approval` (asks its
approvers and pauses, or fails if they resolve to nobody), `pass` and `fail`.
The two dozen step handlers differ in what they do outside the engine.

### ExecutionLifecycle

What an execution promises to whoever looks at its row: it works, waits, is
answered, ends, is cancelled, is retried, is deleted, or is orphaned by a
crash. To the states of the handbook it adds one, `overtaken`: cancelling an
execution does not stop the pool thread that is inside it, and until that thread
has gone the row says what whoever wrote last has said. The second variable,
`loop`, is the execution that the event loop works on: it takes one at a time,
and cancels, answers, retries and deletes only between two.

`WorkflowEngine` is shown to implement it through the refinement mapping `Seen`,
which joins the row's status with who is inside the execution (property
`RefinesLifecycle`). While a worker is, the execution is seen as working although
its row may say `paused`, because `resume_workflow` leaves that until it ends or
pauses again; it is seen as overtaken when the row says that it has ended, or when
one of the workers inside is on an earlier attempt (`AsPlanned`). Only an overtaken
execution may turn into anything; what nobody works on stays as it is until
somebody answers, retries, cancels or deletes it.

### ProductLifecycle

`status`, `published`, `certified` and `ready` are columns of `data_products`
(the scope and the level reduced to whether there is one; `ready` to whether
every port has an approved contract). `review` holds the executions that
`request_review` starts. `gate[p]` is history: the outcomes of the
`before_status_change` executions of the last transition. `forced` is history:
products that a workflow or `PUT` wrote to without looking at the status.

| Action | Code |
|---|---|
| `ChangeStatus` | `change-status`, `handle-status-change` and the named transitions, all through `transition_status` (`Transition`) |
| `RequestReview`, `StartReview`, `FireReview` | the three commits of `request_review` |
| `AnswerReview`, `CompleteReview` | the end of `resume_workflow` and `_handle_workflow_completion` |
| `ExecuteReview` | `POST /workflows/{id}/execute` of a review workflow on any product, in any status |
| `CancelReview`, `RetryReview` | `cancel_execution` and `retry_execution` of a review: a rejected or a cancelled one runs again, whatever the product has become |
| `PublishProduct`, `FinishPublish` | the two commits of `publish_product` |
| `SetScope`, `Unpublish`, `Certify`, `Decertify` | the endpoints, with their `handle-...` twins |
| `UpdateProduct`, `ChangePorts` | `PUT /data-products/{id}`; contracts that change |
| `EntityAction` | the `entity_action` step on any thread |

`GateStops` is FALSE for every outcome. This is what the code does, not a
shortcut of the model: see section 7.

### AccessGrants

`accessRequest` and `grant` are the two tables, `now` the clock in days, `review` the
execution of the shipped "Access Grant Request" workflow, `told` what the
requester was notified of. `create_request` is two actions because it commits
before it fires its trigger. A grant is in force while it is `active` and its
date lies ahead, as `check_active_grant` has it: nothing ever sets `expired`,
because `check_and_process_expirations` has no caller.

### JobPoller

`row` is `workflow_installations`, `record` is `workflow_job_runs`; `cloud` and
`run` are the jobs and runs in Databricks, which the poller sees only through
calls that may fail. `flag` is `_has_installations`, `poller` the local
variables of `_poll_job_states`, `loop` those of an install or removal on the
event loop. Times are ages in polling intervals.

| Action | Code |
|---|---|
| `CheckFlag`, `ReadInstallations`, `CacheFlag` | the top of a cycle: park or read the installations, then cache whether there are any |
| `CleanUp` | `jobs.get` raises, for whatever reason: the installation goes, and its records with it |
| `ListRuns`, `ProcessRun` | the window, then one run at a time: `upsert_run` and the decision to announce |
| `Tell`, `TellFails`, `MarkNotified` | the announcement, whose failure is swallowed, and its mark: two commits |
| `FinishInstallation`, `FinishCycle` | `update_last_polled`, and the backoff |
| `InstallationGone`, `PollFails`, `Abort` | rows that vanish under the poller and errors, which end one installation or the cycle |
| `InstallWorkflow`, `ResetFlag`, `RemoveWorkflow`, `DeleteRow`, `Reconcile` | `install_workflow`, `remove_workflow`, the loops of `update_settings` |
| `StartRun` | the scheduler of Databricks, or `run_job` |
| `EndRun`, `DeleteJob`, `Tick`, `Crash`, `StartPolling` | environment |

`Latest` is always NULL: `list_runs` returns an iterator, the loop over runs has
used it up, and so `last_polled_at` is never set and the window is always the
whole backfill. `PollSeesAll` holds for that reason; with a list
(`LatestInList`) runs slip through, since the window overlaps by two intervals
and the backoff waits four.

### ContractLifecycle

`contract` is the status column (with `unused` and `deleted`), `public` whether
the scope is not `none`, `open` how many executions of publication workflows on
the contract wait or run, and `stopped` how many failed, were rejected or were
cancelled and may be retried. `was`, `written`, `deployAsked`, `byHand` and
`openAtEnd` are history. `ContractTransitions` and `AskedTransitions` are the two
maps of the code;
`MayMove` is the check of `transition_status`, which lets a status outside the
map go anywhere. An action is an endpoint with one commit. Whether a request was
made before it is answered is not part of any guard, as the code does not look.

| Action | Code |
|---|---|
| `TransitionStatus`, `RequestStewardReview`, `HandleReview`, `HandleStatusChange`, `UpdateContract` | the writers of the status, each with its map or without one |
| `RequestPublish`, `RequestDeploy`, `ExecuteWorkflow` | what starts a publication workflow (`Fire`): the request of an approved contract, the deploy request in any status, and `POST /workflows/{id}/execute`, which looks at no status; an edit of the trigger of a workflow that waits counts with the last |
| `CancelExecution`, `RetryExecution` | the admin endpoints on those executions; a retry is possible whatever the contract has become |
| `CompleteExecution` | `_handle_workflow_completion`, which goes by the trigger of the workflow only; also of executions that a cancel did not stop |
| `HandlePublish`, `SetPublicationScope`, `WorkflowPublishes` | the writers of the scope |
| `CreateContract`, `DeleteContract` | creation with the status of the document; deletion |

### ContractVersions

`version[r]` is the r-th row ever created with its status, draft owner, parent
and family. The listener of the table gives a root its own id as family
(`Insert`), the foreign key of children is set to null on deletion (`DropRow`).
`Latest` translates the endpoint `families/{family_id}/latest` with
`get_family_versions`, the elevation rule and `collapse_by_family`, and `Listed`
the list of contracts, which elevates by other rules (`ListElevated`) and filters
no drafts. `submitted`, `held` and `discarded` are history: what was committed or
put to review, what went there with its drafter still its owner, and what its
owner discarded.

### CertificationPropagation

`own` and `inherited` are the two columns (0 for null), `walk` the breadth-first
search of `propagate_certification` with its queue and what it has written but
not committed. The order of the children of an entity is arbitrary. `Below`, which the
properties compare the walk with, is the least set of entities closed under
children (`Closed`, `Reach`), so it owes nothing to the order or the visited set of
the walk.
`CertifyOnly` stands for the two writers that set a level and propagate nothing.
`propagate_all` has no caller and is left out.

### AgreementWizard

`session` and `agreement` are the tables, `request` the local variables of the
submission that is under way, `flow` and `edition` the current steps and version
of the workflow. `SubmitStep`, `AppendResult`, `Advance`, `Agree`, `Subscribe`
and `Close` are the commits of `submit_step` and `_complete_session` in their
order; `CrashInRequest` ends a request between any two of them. `Subscribe` may fail at
any time, as `subscribe` does for a product that is off sale or gone, for a group or
service principal nobody knows, and on a database error: the wizard logs it and goes
on.

### MatchReview

`match` is `mdm_match_candidates` (status, merged data, link to an asset of a
review), `asset` the statuses of `reviewed_assets`. `UpdateMatch` writes both and
may fail in between, `SyncReview` repairs one page, `MergeApproved(dryRun)` is
`process_approved_matches`. `DetectMatch` is the insertion by the job
`mdm_match_detect`.

### AssetHub

`stock`, `release`, `installed`, `promotion`, `wish` and `link` are the tables
`assets` (three of its columns), `asset_versions`, `install_events`,
`promotion_requests`, `demands` and `asset_demand_links`; only what is committed
is in them. `call[u]` is the transaction of a request: `todo` are the statements
left (`Program` gives those of each endpoint in their order), `held` the rows it
has written, `seen` the rows that the UPDATE of `create_version` has found, which
it then locks one by one (`ClearRow`). A statement waits while its row is held
(`Free`), the `Commit...` actions write everything at once, and `Rollback` stands
for an error, a crash, or being chosen as the victim of a deadlock.
`HubAssumption` and `HubRowsAssumption` say that rows of different tables are
different things to lock. Calls of one
statement are one action (`RequestPromotion`, `ClaimWish`, `ReopenWish`,
`UpdateWish`).

### Database, Governance, MC modules

`Database` declares `NULL`; `Governance` adds what most of the smaller modules
share: users and the statuses of a contract. `MCCatalog` checks the three modules
of what the marketplace shows (`ProductLifecycle`, `ContractLifecycle`,
`ContractVersions`) in one run, `MCGovernance` the other five of them
(`CertificationPropagation`, `AgreementWizard`, `MatchReview`, `AssetHub`,
`AccessGrants`) in another. Modules that are checked together share no variables,
so a behaviour belongs to one of them: the variable `part` says which, and the
others stay in their initial states. `MCWorkflowEngine` and `MCJobPoller` give the
values that a `.cfg` cannot express: workflow shapes, symmetry sets.

### Proof modules

`WorkflowEngineProofs`, `ProductLifecycleProofs`, `AccessGrantsProofs`,
`JobPollerProofs`, `ContractProofs` (lifecycle and versions),
`CertificationProofs`, `AgreementWizardProofs` and `AssetProofs` (matches and
hub). Section 6 has their theorems and arguments.

## 4. What the runs check and show

| Run | Question | Properties |
|---|---|---|
| `engine_serial` | Two executions reviewing one entity, driven by the event loop alone, with one- and two-stage approvals, retries, cancellations and deletions: does the book-keeping hold? | `CountersMatchLog`, `AnswersMatchAsks`, `PausedIsAnswerable`, `SoleApproverSeesIt`, `CancelSticks`, `ApprovedBeforeActive`, `EntityFollowsOutcome` |
| `engine_threads` | One execution, a pool thread and the event loop, edits, a retry, one crash or database error, fair workers: is every running row driven by exactly one worker, and does it get somewhere? | `TypeOK`, `OneDriverPerAttempt`, `RunningIsDriven`, `RunningTerminates`, `AnswersSettle` |
| `engine_lifecycle` | Two executions, the event loop and a pool thread, edits and deletion of definitions, a retry, one crash or database error: does the engine implement the abstract lifecycle? | `RefinesLifecycle` |
| `jobs` | Two workflows, two jobs, one run, a crash and an error in one behaviour, unbounded time: does the poller see, record and tell of every result while the event loop installs and removes? | `PollSeesAll`, `AnnouncedOnce`, `JobsAreTracked`, `InstalledIsNoticed` |
| `catalog`, part `products` | A product with two reviews, every endpoint that writes it, workflow steps on threads, a crash | `ShownIsActivated`, `HandlerSeesItsWrite` |
| part `contracts` | A contract with a publication workflow that is requested, executed by hand, answered, cancelled, retried and late, and every endpoint, in any order: which ways lead around the review, and out of `retired`? | `ShownWasReviewed`, `RetiredForGood` |
| part `versions` | Three rows of any parentage, two users: who loses a version, who is shown what? | `FamiliesHoldTogether`, `SubmittedIsKept`, `LatestIsFit` (and `CatalogTypeOK` of all parts) |
| `governance`, part `certification` | Four graphs (a chain, two ways, a cycle, two sources), two levels, two certifications, a crash | `InheritedIsExplained`, `WalkIsComplete`, `TreesInheritTheHighest` |
| part `wizard` | Two sessions of two users, two workflows, an edit, a crash per session, subscriptions that fail | `ConsentIsExplained`, `OneAgreementPerSession`, `CompletedIsOnRecord`, `SubscribedByCompletion` |
| part `matches` | Two matches, two assets, two rules, a page of one | `DecisionsCarryThrough` |
| part `hub` | Two users, two assets, three versions, a promotion, a wish, any four calls statement by statement: which interleavings do the row locks leave? | `SummariesAgree`, `OneLatestUnlessRaced`, `MatchedIsLinked` |
| part `access` | Two users, three requests, two grants, a clock, a crash | `OneClaim`, `GrantsMatchApprovals` (and `GovernanceTypeOK` of all parts) |
| `doc_cancel`, `doc_inbox`, `doc_terminal`, `doc_gate`, `doc_access`, `doc_draft` | One sentence of the documentation each, which the code violates (section 7) | `CancelSticks`, `AskedApproverSeesIt`, `FinishedIsFinal`, `GateHolds`, `ToldApprovedIsGranted`, `SubmittedIsReleased` |

What the passing runs show, and why it was not obvious:

- `AnswersMatchAsks` and `PausedIsAnswerable`: a second click on "Approve", or a
  second approver, may answer the *next* stage of the same execution (the
  endpoint authorises per execution, not per step), but it never answers a
  request that was not made, and a pause can always be left.
- `CancelSticks` holds when the event loop is the only worker and fails with a
  pool thread (`doc_cancel`): the difference is exactly the interleaving.
- `SoleApproverSeesIt` holds for workflows in which no answer leads to an approval
  step (`SingleApproval`), and its general form fails (`doc_inbox`).
- `EntityFollowsOutcome` and `ApprovedBeforeActive`: with two reviews of one
  entity in flight and other operations between, an entity leaves its lifecycle
  map only to the outcome of a finished execution whose last answer agrees.
  "Agrees" needs `RejectionIsFinal`: what decides is whether the last step passed,
  so a definition whose reject branch ends in a step that passes (a notification,
  say) activates what was rejected. `RejectionIsFinal` says that after a rejection
  every step that may fail stays among the rejected ones or ends there, and a
  passing one never ends the workflow.
- The invariants about the book-keeping are about executions that are
  `Undisturbed` (no edit, crash or database error hit them) and `SingleHanded`: not
  retried, or without pool threads. A thread of a cancelled first attempt goes on
  writing to the log and the row that the retry has reset.
- `HandlerSeesItsWrite` and `ShownIsActivated`: `publish_product` sets the scope
  in a second transaction without looking at the status again; that is safe
  because the endpoints are on the event loop. It would not be with `def`
  endpoints: the mutant of `LoopFree` shows it.
- `OneClaim`: `handle_request` does not look for an active grant; it can rely on
  `create_request` having looked, because nothing else creates grants or
  revives requests, and time only ends claims.

- `PollSeesAll`: see `Latest` above; the property holds because of a slip, and the
  obvious repair of the slip breaks it unless the overlap grows with the backoff.
- `InstalledIsNoticed` names the one race that parks the poller for good: an
  install that commits and resets the flag between the poller's read and its
  write of the flag. There is no second way, with any number of installations.
- `AnnouncedOnce` counts: one announcement, plus one for each crash or error between
  an announcement and its mark (`ToldOnce`), and no mark without an announcement
  but for an error (`NotifiedWasTold`). `TypeOK` of this module is proved and
  needs no run.
- `ShownWasReviewed`: however requests, reviews, cancels, retries, status changes
  and the two maps combine, an unreviewed contract is shown or deployed only by a
  write that does not look at the status, by the completion of a deploy request or
  of a publication workflow that ran without a request, or through `deprecated`,
  from which the map leads to `active`. That these are all is the point: the guard
  of `request_publish` holds through any later retry of what it started.
- `RetiredForGood`: the map has no way out of `retired`. Updates do, executions
  that were not over when the contract was retired do (late answers, and retries of
  what was rejected or cancelled), and so do those started in any status.
- `SubmittedIsKept`: of the three ways to submit a version two clear its owner.
  The third, a change of the status, does not (`doc_draft`).
- `FamiliesHoldTogether` survives every deletion, although the family's root may
  be gone; the mutant that names the source instead of its family does not.
- `LatestIsFit`: `GET .../latest` sends nobody to a draft of somebody else; it and
  the list send nobody to a retired version, and nobody gets nothing who could see
  something published. What the two do differently is not promised: members of an
  owning team are elevated in the list (`ours`) and not in `GET .../latest`, and the
  list shows drafts of others (section 7).
- `TreesInheritTheHighest` needs its premises: with two ways to an entity the
  walk takes the level of the way it came first, which may be the lower one.
- `ConsentIsExplained`: what counts as having signed the current version was
  shown, or the workflow changed under an open session.
- `OneAgreementPerSession`, `CompletedIsOnRecord`, `SubscribedByCompletion`: the
  order of the commits in `_complete_session` matters; each mutant is one other
  order, and each loses something after a crash. A subscription that fails is lost
  all the same: `SubscribedByCompletion` says that a completed session has tried.
- `DecisionsCarryThrough` joins an invariant about two tables with an action
  property about what a merge writes.
- `SummariesAgree`: `install_count = install_count + 1` in SQL is safe where a read
  and a write would lose installs, and a transaction that is rolled back after
  some of its statements leaves no trace in the counts.
- `OneLatestUnlessRaced`: two publications of one asset that overlap leave two
  versions flagged as the latest; nothing else does, and the next undisturbed
  publication mends it.
- `MatchedIsLinked`: matching locks the wish before it looks for the link. In the
  other order (the mutant) an unmatch in between deletes the link that the match
  relies on.

Every property of a passing run has a mutant in `PROJECT.json`: a plausible slip
in the code (a forgotten guard, counters that start at zero, a swapped branch, a
row that keeps its status) under which TLC finds the property violated. The
mutated forms stand next to the definitions they replace, marked `Mutant`.

## 5. Bounds, symmetry and fairness

- `MaxRevision`, `MaxAttempts`, `MaxFaults`, `MaxTime` bound edits, retries,
  crashes and the clock; each is a guard of one action. `MaxOpen` bounds the
  executions of one contract that are not over: one can be requested, stopped,
  retried and late, and a second one would do what the first does. One crash suffices for
  what a crash can do here, as no recovery code runs that a second one could
  interrupt. Two attempts are needed for an old driver to meet a new one. Three
  revisions allow create, edit and delete-and-create. A clock of two days
  lets grants of one and two days overlap and one expire; ids of requests and grants
  are given out upwards (`IdsUpwards` of `MCGovernance`), as they are alike.
- Two executions are the least with which one can disturb the other's
  notifications or entity; in `engine_lifecycle` one of them is retried
  (`OneRetried` of `MCWorkflowEngine`) and the entity's status is left alone, as
  the lifecycle does not show it; one thread is enough for a thread to race with the
  loop, since threads do not share anything but rows. Two reviews of one product
  are the least for a stale one. Products share nothing but the event loop.
- Two workflows and two jobs let an installation vanish while the poller is at
  work on another, a run outlive its job and a workflow be reinstalled under
  another job while the poller holds the old one; runs share nothing but the
  cycle, so one is enough. Ages stop at the backfill window, so time is unbounded. Three rows
  are the least with a version between a root and a grandchild; two sessions let
  one be overtaken by an edit and another start after it (`FirstSubscribes` of
  `MCGovernance` lets the first subscribe and the second not); two certifications
  let one be replaced or met by another; two matches and a page of one leave a
  match outside the page. The backfill window is four polling intervals, twice the
  overlap, which is what a slip in the window needs. The proofs lift all bounds
  but those of the liveness properties.
- Four calls let two publications race and a third mend it, and a match, an
  unmatch and another match overlap. Each of these races is between two
  transactions, so there are two users.
- Symmetry is used over executions, approvers, users, workflows, jobs, products
  and reviews, in runs without liveness properties only.
- Deadlock is not checked: with the bounds used up the system may stop.
- `FairSpec` asks for weak fairness of each worker's `Advance`: a thread that is
  inside a handler is scheduled again. The operating system and the event loop
  provide it. No fairness is assumed of users, clocks or crashes, so nobody is
  ever made to answer an approval. `RunningTerminates` and `AnswersSettle` are
  about acyclic definitions: the validation does not refuse cycles, and with one
  the loop of the code does not end. `AnswersSettle` excludes executions that were
  retried: a pool thread of the cancelled attempt may overwrite the row of the new
  one and leave it `paused` with `finished_at` set (the hazard of `doc_cancel`).

## 6. What is proved, and how

TLAPS checks the following for all values of the constants that satisfy the
named assumptions in the modules (definitions are records of the right shape,
`NULL` and `Loop` are distinct from the ids, bounds are natural numbers, the
entities of the certification graphs are finitely many, rows of different tables
are distinct).

| Module | Theorem | Statement |
|---|---|---|
| `WorkflowEngineProofs` | `TypeCorrect`, `OneDriver`, `RunningHasDriver` | `Spec => []P` for `TypeOK`, `OneDriverPerAttempt`, `RunningIsDriven` |
| | `CountersAreTrue`, `RequestsAreAnswered`, `PausedCanBeAnswered`, `WaitingRequestIsSeen` | `Spec => []P` for `CountersMatchLog`, `AnswersMatchAsks`, `PausedIsAnswerable`, `SoleApproverSeesIt` |
| | `ActivationWasApproved` | `Spec => ApprovedBeforeActive` |
| | `CancelledStays`, `OutcomeIsCommitted` | `Spec => CancelHolds` and `Spec => []Committed`, for any number of threads |
| | `LifecycleIsKept`, `LoopIsPlanned` | `Spec => RefinesLifecycle`, for any number of threads, and `Spec => []Planned` where `Threads = {}` |
| | `CancelIsKept`, `EntityGetsOutcome` | `Spec => P` for `CancelSticks`, `EntityFollowsOutcome`, where `Threads = {}` |
| `ProductLifecycleProofs` | `ProductTypeCorrect`, `HandlersSeeTheirWrites`, `ShownProductsAreActivated` | `Spec => []P` for `TypeOK`, `HandlerSeesItsWrite`, `ShownIsActivated` |
| `AccessGrantsProofs` | `GrantsTypeCorrect`, `GrantsMatch`, `OneClaimHolds` | `Spec => []P` for `TypeOK`, `GrantsMatchApprovals`, `OneClaim` |
| `JobPollerProofs` | `JobTypeCorrect`, `AnnouncedAtMostOnce`, `MarksAreEarned`, `TellsThenMarks`, `NoOrphanJobs`, `ParkedMeansEmpty`, `NoResultSlipsThrough` | `Spec => []P` for `TypeOK`, `ToldOnce`, `NotifiedWasTold`, `AnnouncedOnce`, `JobsAreTracked`, `InstalledIsNoticed`, `PollSeesAll` |
| `ContractProofs` | `LifecycleTypeCorrect`, `ShownContractsWereReviewed`, `RetiredContractsStay` | `LifecycleSpec => []P` for `LifecycleTypeOK`, `ShownWasReviewed`, `RetiredForGood` |
| | `FamiliesAgree`, `SubmissionsStay`, `LatestSuits` | `VersionsSpec => []P` for `FamiliesHoldTogether`, `SubmittedIsKept`, `LatestIsFit` |
| `CertificationProofs` | `InheritedLevelsAreExplained`, `WalksAreComplete`, `TreesPassTheHighest` | `CertSpec => []P` for `InheritedIsExplained`, `WalkIsComplete`, `TreesInheritTheHighest` |
| `AgreementWizardProofs` | `ConsentIsTraceable`, `CompletionIsRecorded`, `CompletionSubscribes`, `AgreementsAreCounted` | `WizardSpec => []P` for `ConsentIsExplained`, `CompletedIsOnRecord`, `SubscribedByCompletion`, `OneAgreementPerSession` |
| `AssetProofs` | `DecisionsReachTheMerge` | `MatchSpec => DecisionsCarryThrough` |
| | `HubTypeCorrect`, `SummariesTellTheTruth`, `OneLatest`, `MatchesAreLinked` | `HubSpec => []P` for `HubTypeOK`, `SummariesAgree`, `OneLatestUnlessRaced`, `MatchedIsLinked` |

**Engine.** `OneDriverPerAttempt` is not inductive: nothing in it says why the
worker of an execution that is being resumed has gone. The strengthening
`Engine == TypeOK /\ Driven /\ RunningIsDriven` adds, in `Driven`, that stored
definitions are valid (`StoredValid`), that rows and drivers agree on attempts
(`RowsOwned`, `DriversOwn`), that a pool thread has only started and not resumed
its execution (`ThreadsStart`), that two workers on one execution are on
different attempts (`ThreadsApart`), that a paused row has no thread on its
attempt (`ThreadsUnpaused`), and that the event loop works on the current one
(`LoopCurrent`). `EngineInvariant` shows it inductive, with one lemma per
action; the first three theorems are corollaries.

The next four need to know what has been done to an execution, and that is spread
over its row, its log, its notifications and the frame of the worker that drives
it. `Books` says how they agree, as long as the execution is `Undisturbed` and
`SingleHanded` (section 4):

- while nobody drives it, the row's counters are the numbers of passed and failed
  entries of the log, one request is open if it is paused and none if it ended,
  and the step of a paused one is an approval that somebody was asked about
  (`RowBook`); without a second approval that request is unread (`RowSeen`);
- while a worker drives it, the same holds of the worker's counters, which the row
  gets only at the end or the pause (`DriverBook`); the requests that
  `handle_workflow_approval` is going to mark are not those of a new approval
  (`DriverSeen`); and the last answer, if it was a rejection, has led where
  rejections lead (`DriverLed`).

Around them stand facts that hold always: idle workers hold no execution
(`Idlers`), rows that were not created have no log (`Unstarted`), a worker whose
revision is current has the stored definition (`DefinitionsHeld`), and nobody
cancels or deletes what the event loop is driving (`LoopHolds`). `Tally` counts
entries; `TallyAppend` is the only place where cardinalities are computed.
`BooksInvariant` has again one lemma per action; the theorems about settled
executions follow from `RowBook` and `RowSeen`, `ActivationWasApproved` from
`DriverLed`.

`EntityGetsOutcome` rests on `Committed`: between `FinishExecution` and
`CompleteEntity` the row still says what the event loop is about to give to the
entity. `CancelHolds` is `CancelSticks` for executions that no thread drives, with
any number of threads on others; with a thread on the execution itself
`doc_cancel` refutes it, which is why `CancelIsKept` asks for `Threads = {}`. So does
`EntityGetsOutcome`: a thread of a cancelled attempt overwrites what a retry has
written.

`LifecycleIsKept` needs no invariant beyond `Engine` and `LoopHolds`. `OnTheJob`
collects what they say of a worker inside an execution (its attempt, that the event
loop is on the current one of a row that is there, that no two share one), and the
`Sees...` lemmas go through the actions: a worker that joins is alone and on the
current attempt, or meets a thread that is not (`SeesJoined`); a worker that leaves
was alone, or leaves the other one behind (`SeesLeft`), or finds the row deleted
(`SeesGone`); a cancellation overtakes whom it finds inside; a crash abandons
everything. `LoopIsPlanned` is then proved of the abstract lifecycle alone:
without threads only the event loop works, hence nothing is cancelled while it is
worked on, and nothing is overtaken.

**Products.** `ShownIsActivated` alone is not inductive: `FinishPublish` makes a
product visible without looking at its status. `HandlerSeesItsWrite` supplies
the fact, and is itself inductive because every action that writes a status asks
for a free loop. `ActivatedIsClosed` is the property of the transition map that
carries the rest: no transition leads from an activated status to another one.

**Grants.** `ClaimStep` splits the actions into those that only end claims
(`ClaimsShrink`), the request, which looked for claims in the same step, and
the approval, which turns the only pending claim of its user and asset into a
grant. `MatchStep` is independent of it.

**Jobs.** `Core` says that the poller's frame fits its place in the cycle
(`Framed`), that no two installations share a job (`JobsOwned`) and that a record
has an installation (`RecordsOwned`). On it rest four invariants of their own:
`Announced` (an announcement is covered by its mark, by the poller that is about
to set it, or by the end of the installation), `MarkedWasTold`, `Noticed` (what
the flag and the poller's list say of the installations), and `Sighted`: every
result that was due when the cycle began is recorded, listed, in hand (`InHand`)
or still to be listed. `Sighted` uses that `polled` is always NULL, so the window
is the backfill.

**Contracts.** `LifecycleInv` adds to the two properties by which statuses a
contract must have passed to be where it is, or to have an execution that is not
over (`Path`, `Reviewed`), and that a retired contract has such an execution only
through one of the named exceptions (`Retirement`).
They are about one contract: `ContractStepKeeps` is about a request for it,
`Elsewhere` about requests for others. `VersionsInv` adds that rows are numbered in the
order of creation and that a submitted row that its drafter did not keep (`held`) has no draft
owner (`Released`): a draft is discarded by its owner only, hence never after that.
`LatestIsFit` needs no more than the types: it is about one state, and follows from
what the ranks prefer and from there being exactly one best version among finitely
many (`CollapseIsOne`); `CollapseFits` says it of any set of rows of a family, so of
both views.

**Certification.** `CertInv` says of everything the walk has visited or queued
that it lies below the source (`Met`), that its level was given to something
upstream (`Sourced`) and that the source or a visited parent handed it on
(`Handed`), and that the children of what was visited are visited or queued. When
the queue is empty the visited set is closed, hence all of `Below`, which is the
least closed set (`BelowIsLeast`). For `TreesInheritTheHighest` the entities whose
level is at least that of everything above them, and those whose level comes from
something above them, are shown to be everything visited by the same argument,
using that each has one parent (`OneParent`).

**Wizard.** `WizardInv` has an invariant for each session (`SessionInv`: the steps
before the current one are recorded, recorded agreements exist and are of the
session), for each agreement (`AgreementInv`: its version is not older than what
its session showed, and newer only if the session was overtaken), for the
request under way (`RequestInv`: what its place in the code implies) and for
subscribers. A crash clears the request and nothing else, so what remains true
without `RequestInv` is what a crash leaves. `MoveStep` and `QuietStep` carry the
actions that touch one session and those that touch none. `OneAgreementPerSession`
has an invariant of its own, `CountInv`: the agreements of a session are at most
the steps that persist and have been passed, the one under way, and one for each
crash that ended a request of it (`Bounded`).

**Matches.** `MatchInv` adds `AssetsFollow` and that stored merge data is of the
current rules or accounted for (`Inherited`); the injectivity of links in
`MatchTypeOK` is what makes writing one asset safe for the other matches.

**Hub.** The tables alone say nothing inductive, as a transaction is halfway
between them. `HubInv` says that no row is held by two transactions (`Locked`) and,
by the statements a transaction has left, what it may rely on (`Fits`): a count
that it computed is still right because it holds the asset, a version that it
inserts is still missing, and a link that it found or inserted is still there
because it holds the wish. `Summaries` and `SummariesFollow` reduce
`SummariesAgree` to the asset that a commit writes.

Only model-checked:

- liveness under fairness, which is out of the prover's reach: `RunningTerminates`
  and `AnswersSettle`;
- `CatalogTypeOK` and `GovernanceTypeOK`, which belong to the instances: they join
  the type invariants of the parts, each of which is proved with its part.

The properties of the runs named `doc_...` are refuted, not proved.

What the proofs changed in the models:

- `Seen` was a `CASE` whose conditions overlapped (a paused row that the event loop
  drives), so that its value was not determined; it is an `IF` now.
- `SoleApproverSeesIt` was about definitions with one approval step. A branch that
  leads back to it is a second request, and `SingleApproval` says so.
- `ApprovedBeforeActive` does not hold of every definition, as section 4 says;
  `RejectionIsFinal` names the ones it holds of, loops included.
- Reachability in `CertificationPropagation` was a recursive operator, and no proof
  can use one; as the least closed set it is simpler and independent of the walk.

## 7. Disagreements between code and documentation

Shown by runs:

- `doc_cancel`: a cancelled execution is overwritten by the pool thread that
  still runs it.
- `doc_inbox`: answering the first of two approvals marks the second one's
  notifications as handled.
- `doc_terminal`: an approval step with a null branch leaves the finished
  execution `running`.
- `doc_gate`: a failed `before_status_change` workflow does not block the
  transition. The code that words the refusal reads `e.step_results`, which
  executions do not have; the `AttributeError` is caught as non-fatal. A paused
  gate passes the same way, and one that raises is left out of the list.
- `doc_access`: approving the shipped access workflow tells the requester "You
  now have access" and creates no grant; the request stays pending.
- `doc_draft`: `change-status` and the answer to a status change propose a personal
  draft and leave it with its drafter, who may discard it while it is under review
  or active; the comment at `data_contracts_manager.py` 2347 says that the owner
  "is cleared again on the draft->proposed transition".

Met while modelling, not stated as runs:

- Editing a definition strands the executions paused on it (`resume_workflow`
  finds no step and returns None) and deletes the step log of finished ones.
- An execution that ends without a pause never calls
  `_handle_workflow_completion`.
- Completion writes statuses outside the transition map: `deployed` is unknown to
  the contracts' map, and a retired product is revived by a late answer although
  the handbook calls `retired` terminal.
- `draft -> deprecated -> active` activates a product without a review.
- `request_status_change` offers `certified`, which `transition_status` refuses.
- A crash between the two commits of `publish_product` leaves an active,
  unpublished product that `publish` refuses from then on (`set-publication-scope`
  still works); one inside `request_review` leaves a product that cannot be
  submitted again without being reset.
- The docstring of `check_and_process_expirations` expects a background job that
  does not exist.

Contracts:

- The request flow offers `certified`, the other map does not know it; `deployed`
  is set by the completion of a workflow for publish and deploy requests alike, in
  any status.
- `handle_publish_response` needs no open request. Rejecting or deprecating a
  published contract does not unpublish it.
- A publication workflow that is executed by hand on a draft, and a rejected or
  cancelled one that is retried after the contract was retired, deploy it when they
  are answered: completion goes by the trigger alone.
- `handle-certify` checks neither status nor level and propagates nothing,
  unlike `certify`.
- Nothing keeps two versions of a family from having the same version number.
- `GET families/{id}/latest` and the list disagree. The docstring of
  `version_visibility.py` (lines 5-10) and the comment in
  `data_contracts_routes.py` (3698) count members of an owning team as elevated, who
  see drafts first; `get_contract_family_latest` looks at personal drafts only, so
  it sends them to the published version while the list shows them the draft.
  `LatestIsFit` asks for a published version only of users for whom neither says
  otherwise.
- The docstring of `version_visibility.py` says lists filter personal drafts, and
  `models/data_contracts_api.py` (576) that "only owner can see" one;
  `_query_contracts` filters none, so of two users who draft the same contract both
  are shown the newest draft. That of `get_family_versions` says of admins both
  that they see and that they do not see the drafts of others; they do.

Jobs:

- `last_polled_at` is never set (see `Latest`), so "incremental polling" never
  happens.
- Any exception of `jobs.get`, a timeout included, removes the installation and
  with it the records of its runs.
- A notification that failed is marked as sent, against the comment "Mark this run
  as notified only after notification succeeds": the helper swallows its errors.
- Runs that end as `INTERNAL_ERROR` or `SKIPPED` are not announced and keep the
  poller at its base interval; the monitor thread spins without a pause while a
  run is `QUEUED` or `TERMINATING`.
- When the row of a new installation cannot be stored the job stays in Databricks.
- The progress of a run started from the application is written through the session
  opened at start-up, which flushes and does not commit; its failure is logged, so
  the notification may stay behind its run. It is not modelled.

Agreement wizard:

- The agreement carries the version the workflow has when it is signed, not the
  one the session showed: who saw version 1 may count as having accepted
  version 2. Switching the workflow off and on counts as a new version.
- Aborting leaves a persisted agreement, which counts as consent.
- A subscription that fails after the wizard is logged, and the session completes
  without it.

Master data:

- A dry run stores merged data (the end of the request commits) and freezes it for
  the merge that follows. `merged` can be set by an update without a merge.
- `sync_review_asset_statuses` sees the first hundred candidates only.
- `create_review_for_matches` pairs assets with matches by their position in a list
  read without an order.
- Two endpoints of `routes/data_asset_reviews_routes.py` (lines 216 and 268) pass
  `status_update` and `asset_update` to methods whose parameter is `update_data`,
  and fail.

Asset hub:

- No domain event is ever stored, and `POST /wishlist` fails: both write
  `:name::jsonb`, and SQLAlchemy's `text()` does not bind a name that a colon
  follows directly. `_emit_domain_event` swallows the error, so the activity feed
  stays empty. The model has no events for this reason, and its wishes are those
  that the start-up and the leadership import store.
- `review_promotion` does not look at the status: what was rejected can be
  approved, and rejecting what was approved leaves the maturity raised. It does
  not compare `from_maturity` with the asset either.
- A rematch keeps the link of the earlier asset, and `get_asset_wishes` ("wishes
  that this asset addresses") goes on listing the wish there.
- `record_install` accepts a version of another asset.
- `record_install` and `create_version` lock assets and versions in opposite order.

## 8. What is not modelled

- Authorisation: an action's caller is taken to be allowed to call it.
- The read before the commit inside `cancel` (its window is a few statements) and
  stale rows of the process-wide session: every read sees the committed row.
- `toggle_active`, bulk import and duplication of definitions; they add or hide
  definitions and touch no execution.
- The contents of notifications, payloads, webhooks and scripts; timeouts
  configured on approval steps (`timeout_days` is stored and never acted upon).
- Creation, versions, personal drafts and deletion of products; certification
  levels of products within `ProductLifecycle` (`CertificationPropagation` has
  them) and their expiry.
- The ODCS document of a contract, comparison of versions, quality profiling.
- Wizard steps other than persisting, branching workflows, unsubscribing; the fields
  of a form are stored as they are sent, so a form could carry the mark
  `persisted_at_step` of a persisted agreement, and the model's forms do not.
- Filters of the list of contracts by project, domain and status, and its limit.
- Types of entities that `ENTITY_TABLE_MAP` of the propagation does not know, to
  which it writes no level: all entities of the graphs are of known types.
- In `MatchReview` the two commits of one update of a match are one action, which
  may end after the first: nothing runs between them on the event loop.
- Schedules, pausing and cancelling of jobs; the poller's status text; the progress
  notification of a run and the thread that updates it, which nothing else reads.
- Starting a match run, source links, the survivorship rules as functions.
- Reviews created or deleted by hand.
- CRUD of assets and asset types, capabilities, upvotes (one atomic UPDATE),
  followers, signals and seeding of the hub; `asset_demand_links` and
  `linked_asset_id` of assets that are deleted.
- The components that `PROJECT.json` lists as `not_modelled`, each with its reason.

## 9. Plan

Done: the modules of section 3 and the proofs of section 6.

Worth doing next:

1. The composition of `ProductLifecycle` and `ContractLifecycle` with
   `WorkflowEngine` in place of their abstract reviews.
2. Creation, versions and drafts of data products, after `ContractVersions`.
