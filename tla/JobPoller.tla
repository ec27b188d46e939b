----------------------------- MODULE JobPoller -----------------------------
(***************************************************************************)
(* Background jobs: which of them are installed, their runs in Databricks, *)
(* and the thread that polls the runs, records them and tells of their     *)
(* results (controller/jobs_manager.py).  Two threads write: the event     *)
(* loop installs and removes jobs, the poller records runs and removes     *)
(* installations whose job is gone.  An action is one commit or one call   *)
(* of Databricks.  Times are ages, counted in polling intervals; what is   *)
(* older than the backfill window is equally old.  Time passes only while  *)
(* the poller sleeps or is down: a cycle is short against the interval.    *)
(***************************************************************************)
EXTENDS Integers, FiniteSets

CONSTANTS
    Workflows,  \* workflow definitions that can be installed
    Jobs,       \* identifiers Databricks gives to jobs it creates
    Runs,       \* run identifiers
    Backfill,   \* JOB_POLLING_BACKFILL_DAYS, in polling intervals
    NULL,
    MaxCrashes, MaxErrors

ASSUME NullIsNone == NULL \notin Workflows \cup Jobs \cup Runs
ASSUME BackfillAssumption == Backfill \in Nat
ASSUME BoundsAssumption == MaxCrashes \in Nat /\ MaxErrors \in Nat

VARIABLES
    row,       \* workflow_installations
    record,    \* workflow_job_runs
    cloud,     \* jobs in Databricks
    run,       \* runs in Databricks
    flag,      \* JobsManager._has_installations
    poller,    \* the frame of _poll_job_states
    loop,      \* the event loop inside install_workflow or remove_workflow
    told,      \* history: how often a result was announced
    crashes, errors

vars == <<row, record, cloud, run, flag, poller, loop, told, crashes, errors>>

installs == <<row, record>>
faults   == <<crashes, errors>>

-----------------------------------------------------------------------------
(* TERMINATED runs have a result; `error' stands for the other states a    *)
(* run ends in (SKIPPED, INTERNAL_ERROR).                                  *)
Results   == {"success", "failed"}
RunStates == {"active", "error"} \cup Results
Ended(s)  == s \in RunStates \ {"active"}

Overlap == 2   \* of the incremental window
MaxWait == 4   \* of the backoff

Absent    == [job |-> NULL, polled |-> NULL, last |-> NULL]
NoRun     == [job |-> NULL, age |-> 0, state |-> "none"]
NoRecord  == [state |-> "none", notified |-> FALSE]
IdleLoop  == [pc |-> "idle", wf |-> NULL, job |-> NULL]

Items    == Workflows \X Jobs
Sightings == Runs \X RunStates

(* due, cut and raced are history: the results this cycle has to find,     *)
(* whether an exception kept it from visiting every installation, and      *)
(* whether the flag was reset between its read and its write of the flag.  *)
Down == [pc |-> "down", todo |-> {}, item |-> NULL, left |-> {}, latest |-> NULL,
         at |-> NULL, busy |-> FALSE, fresh |-> FALSE, wait |-> 1, sleep |-> 0,
         due |-> {}, cut |-> FALSE, raced |-> FALSE]

Started == [Down EXCEPT !.pc = "wait"]

Installed(w) == row[w].job # NULL
Tracked(j)   == \E w \in Workflows : row[w].job = j
RunsOf(j)    == {r \in Runs : run[r].job = j}

(* The job runs of an installation are deleted with it. *)
Uninstall(w) ==
    /\ row' = [row EXCEPT ![w] = Absent]
    /\ record' = [r \in Runs |-> IF run[r].job = row[w].job THEN NoRecord ELSE record[r]]

Fails == errors < MaxErrors /\ errors' = errors + 1

-----------------------------------------------------------------------------
(* The poller.                                                             *)

(* The top of the loop: a parked poller goes on sleeping. *)
CheckFlag ==
    /\ poller.pc = "wait" /\ poller.sleep = 0
    /\ poller' = IF flag = "none"
                 THEN [poller EXCEPT !.wait = MaxWait,
                                     !.sleep = MaxWait, !.due = {}]
                 ELSE [poller EXCEPT !.pc = "read", !.busy = FALSE, !.fresh = TRUE,
                                     !.cut = FALSE]
    /\ UNCHANGED <<installs, cloud, run, flag, loop, told, faults>>

ReadInstallations ==
    /\ poller.pc = "read"
    /\ poller' = [poller EXCEPT
                    !.pc = "flag", !.raced = FALSE,
                    !.todo = {<<w, row[w].job>> : w \in {w \in Workflows : Installed(w)}},
                    !.due = {r \in Runs : /\ Tracked(run[r].job)
                                          /\ run[r].state \in Results
                                          /\ run[r].age <= Backfill}]
    /\ UNCHANGED <<installs, cloud, run, flag, loop, told, faults>>

CacheFlag ==
    /\ poller.pc = "flag"
    /\ flag' = IF poller.todo = {} THEN "none" ELSE "some"
    /\ poller' = [poller EXCEPT !.pc = "next"]
    /\ UNCHANGED <<installs, cloud, run, loop, told, faults>>

(* Leave the loop over the installations early. *)
Abort(p) == [p EXCEPT !.pc = "next", !.todo = {}, !.item = NULL, !.left = {},
                      !.latest = NULL, !.at = NULL, !.cut = TRUE]

(* After a commit the attributes of an installation are read again; if its *)
(* row is gone, that raises, and so does the line that logs it.            *)
InstallationGone ==
    /\ poller.pc = "next" /\ ~poller.fresh
    /\ \E i \in poller.todo :
          /\ row[i[1]].job # i[2]
          /\ poller' = Abort(poller)
    /\ UNCHANGED <<installs, cloud, run, flag, loop, told, faults>>

Readable(i) == poller.fresh \/ row[i[1]].job = i[2]

(* jobs.get raises: the job was deleted, or Databricks was not reachable.  *)
(* The code does not distinguish the two.                                  *)
CleanUp ==
    /\ poller.pc = "next"
    /\ \E i \in poller.todo :
          /\ Readable(i)
          /\ \/ cloud[i[2]] # "live" /\ UNCHANGED errors
             \/ cloud[i[2]] = "live" /\ Fails
          /\ IF row[i[1]].job = i[2] THEN Uninstall(i[1]) ELSE UNCHANGED installs
          /\ poller' = [poller EXCEPT !.todo = @ \ {i}, !.fresh = FALSE]
    /\ UNCHANGED <<cloud, run, flag, loop, told, crashes>>

(* The greatest age that is asked for. *)
LookBack(i) ==
    LET polled == row[i[1]].polled
    IN  IF row[i[1]].job # i[2] \/ polled = NULL \/ polled + Overlap > Backfill THEN Backfill
        ELSE polled + Overlap

(* Mutant: list_runs returns a list, which can be read twice. *)
LatestInList(listed) ==
    IF listed = {} THEN NULL
    ELSE CHOOSE l \in listed : \A k \in listed : run[k[1]].age >= run[l[1]].age

(* next(iter(runs)) after the loop over runs: list_runs returns an         *)
(* iterator, which the loop has used up.                                   *)
Latest(listed) == NULL

ListRuns ==
    /\ poller.pc = "next"
    /\ \E i \in poller.todo :
          LET listed == {<<r, run[r].state>> :
                            r \in {r \in RunsOf(i[2]) : run[r].age <= LookBack(i)}}
          IN  /\ Readable(i)
              /\ cloud[i[2]] = "live"
              /\ poller' = [poller EXCEPT !.pc = "runs", !.todo = @ \ {i}, !.item = i,
                                          !.left = listed, !.latest = Latest(listed)]
    /\ UNCHANGED <<installs, cloud, run, flag, loop, told, faults>>

(* upsert_run writes if something changed; a foreign key refers to the     *)
(* installation.                                                           *)
Upsert(r, s) ==
    record' = [record EXCEPT ![r] = [state |-> s, notified |-> @.notified]]

(* Mutant: a run is announced whenever it is seen to have ended. *)
TellWheneverSeen(r, s) == s \in Results

MustTell(r, s) == s \in Results /\ ~record[r].notified

ProcessRun ==
    /\ poller.pc = "runs"
    /\ \E l \in poller.left :
          LET r == l[1]
              s == l[2]
              seen == [poller EXCEPT !.left = @ \ {l},
                                     !.busy = @ \/ s \notin Results]
          IN  IF record[r].state = s
              THEN /\ poller' = IF MustTell(r, s) THEN [seen EXCEPT !.pc = "tell", !.at = r]
                                ELSE seen
                   /\ UNCHANGED record
              ELSE IF row[poller.item[1]].job = poller.item[2]
              THEN /\ Upsert(r, s)
                   /\ poller' = IF MustTell(r, s)
                                THEN [seen EXCEPT !.pc = "tell", !.at = r, !.fresh = FALSE]
                                ELSE [seen EXCEPT !.fresh = FALSE]
              ELSE /\ poller' = Abort(seen)
                   /\ UNCHANGED record
    /\ UNCHANGED <<row, cloud, run, flag, loop, told, faults>>

(* on_job_failure / on_job_success, or the direct notification. *)
Tell ==
    /\ poller.pc = "tell"
    /\ told' = [told EXCEPT ![poller.at] = @ + 1]
    /\ poller' = [poller EXCEPT !.pc = "mark", !.fresh = FALSE]
    /\ UNCHANGED <<installs, cloud, run, flag, loop, faults>>

(* _create_job_failure_notification swallows its exceptions. *)
TellFails ==
    /\ poller.pc = "tell"
    /\ Fails
    /\ poller' = [poller EXCEPT !.pc = "mark"]
    /\ UNCHANGED <<installs, cloud, run, flag, loop, told, crashes>>

(* mark_as_notified finds no row when the installation was removed. *)
MarkNotified ==
    /\ poller.pc = "mark"
    /\ record' = IF record[poller.at].state = "none" THEN record
                 ELSE [record EXCEPT ![poller.at].notified = TRUE]
    /\ poller' = [poller EXCEPT !.pc = "runs", !.at = NULL, !.fresh = FALSE]
    /\ UNCHANGED <<row, cloud, run, flag, loop, told, faults>>

(* update_last_polled, only if the latest run's state has changed. *)
FinishInstallation ==
    /\ poller.pc = "runs" /\ poller.left = {}
    /\ LET w == poller.item[1] IN
       row' = IF poller.latest # NULL /\ Installed(w) /\ row[w].last # poller.latest
              THEN [row EXCEPT ![w].polled = 0, ![w].last = poller.latest]
              ELSE row
    /\ poller' = [poller EXCEPT !.pc = "next", !.item = NULL, !.latest = NULL]
    /\ UNCHANGED <<record, cloud, run, flag, loop, told, faults>>

NextWait == IF poller.busy THEN 1
            ELSE IF poller.wait * 2 < MaxWait THEN poller.wait * 2 ELSE MaxWait

FinishCycle ==
    /\ poller.pc = "next" /\ poller.todo = {}
    /\ poller' = [poller EXCEPT !.pc = "wait", !.wait = NextWait, !.sleep = NextWait]
    /\ UNCHANGED <<installs, cloud, run, flag, loop, told, faults>>

(* Databricks or the database raises inside the cycle.  The exception ends *)
(* the work on one installation; when it leaves the session unusable, it   *)
(* ends the cycle.                                                         *)
PollFails ==
    /\ poller.pc \in {"read", "next", "runs", "mark"}
    /\ Fails
    /\ \/ poller' = Abort(poller)
       \/ /\ poller.pc \in {"runs", "mark"}
          /\ poller' = [Abort(poller) EXCEPT !.todo = poller.todo]
       \/ /\ poller.pc = "mark"
          /\ poller' = [poller EXCEPT !.pc = "runs", !.at = NULL, !.cut = TRUE]
    /\ UNCHANGED <<installs, cloud, run, flag, loop, told, crashes>>

-----------------------------------------------------------------------------
(* The event loop: PUT /settings with the workflows to enable.             *)

LoopIdle == loop.pc = "idle"

(* The job is created in Databricks, then the row is committed. *)
InstallWorkflow(w) ==
    /\ LoopIdle \/ loop = [pc |-> "install", wf |-> w, job |-> NULL]
    /\ ~Installed(w)
    /\ \E j \in Jobs :
          /\ cloud[j] = "unused"
          /\ cloud' = [cloud EXCEPT ![j] = "live"]
          /\ \/ /\ row' = [row EXCEPT ![w] = [Absent EXCEPT !.job = j]]
                /\ loop' = [pc |-> "reset", wf |-> w, job |-> j]
                /\ UNCHANGED errors
             \/ /\ Fails                    \* logged; the job stays
                /\ loop' = IdleLoop
                /\ UNCHANGED row
    /\ UNCHANGED <<record, run, flag, poller, told, crashes>>

(* Mutant: the cached flag is forgotten. *)
KeepFlag ==
    /\ loop.pc = "reset"
    /\ loop' = IdleLoop
    /\ UNCHANGED <<installs, cloud, run, flag, poller, told, faults>>

ResetFlag ==
    /\ loop.pc = "reset"
    /\ flag' = "unknown"
    /\ poller' = [poller EXCEPT !.raced = @ \/ poller.pc = "flag"]
    /\ loop' = IdleLoop
    /\ UNCHANGED <<installs, cloud, run, told, faults>>

(* Mutant: the row goes and the job stays. *)
RemoveRowOnly(w) ==
    /\ LoopIdle /\ Installed(w)
    /\ \A r \in RunsOf(row[w].job) : run[r].state # "active"
    /\ loop' = [pc |-> "delete", wf |-> w, job |-> row[w].job]
    /\ UNCHANGED <<installs, cloud, run, flag, poller, told, faults>>

RemoveWorkflow(w) ==
    /\ LoopIdle /\ Installed(w)
    /\ \A r \in RunsOf(row[w].job) : run[r].state # "active"
    /\ cloud' = [cloud EXCEPT ![row[w].job] = "deleted"]
    /\ loop' = [pc |-> "delete", wf |-> w, job |-> row[w].job]
    /\ UNCHANGED <<installs, run, flag, poller, told, faults>>

DeleteRow ==
    /\ loop.pc = "delete"
    /\ IF row[loop.wf].job = loop.job THEN Uninstall(loop.wf) ELSE UNCHANGED installs
    /\ loop' = IdleLoop
    /\ UNCHANGED <<cloud, run, flag, poller, told, faults>>

(* An enabled workflow whose job is missing is uninstalled and installed   *)
(* again; as in CleanUp any exception counts as missing.                   *)
Reconcile(w) ==
    /\ LoopIdle /\ Installed(w)
    /\ \/ cloud[row[w].job] # "live" /\ UNCHANGED errors
       \/ cloud[row[w].job] = "live" /\ Fails
    /\ Uninstall(w)
    /\ loop' = [pc |-> "install", wf |-> w, job |-> NULL]
    /\ UNCHANGED <<cloud, run, flag, poller, told, crashes>>

-----------------------------------------------------------------------------
(* Databricks, time and the process.                                       *)

(* By the scheduler, or by run_job; the notification of the progress of a *)
(* run started from the application is left out.                          *)
StartRun(j) ==
    /\ cloud[j] = "live"
    /\ \E r \in Runs :
          /\ run[r] = NoRun
          /\ run' = [run EXCEPT ![r] = [job |-> j, age |-> 0, state |-> "active"]]
    /\ UNCHANGED <<installs, cloud, flag, poller, loop, told, faults>>

EndRun(r) ==
    /\ run[r].state = "active"
    /\ \E s \in RunStates \ {"active"} : run' = [run EXCEPT ![r].state = s]
    /\ UNCHANGED <<installs, cloud, flag, poller, loop, told, faults>>

DeleteJob(j) ==
    /\ cloud[j] = "live"
    /\ cloud' = [cloud EXCEPT ![j] = "deleted"]
    /\ UNCHANGED <<installs, run, flag, poller, loop, told, faults>>

Older(a) == IF a > Backfill THEN a ELSE a + 1

Tick ==
    /\ LoopIdle
    /\ poller.pc = "down" \/ (poller.pc = "wait" /\ poller.sleep > 0)
    /\ run' = [r \in Runs |-> IF run[r] = NoRun THEN NoRun
                              ELSE [run[r] EXCEPT !.age = Older(@)]]
    /\ row' = [w \in Workflows |-> IF row[w].polled = NULL THEN row[w]
                                   ELSE [row[w] EXCEPT !.polled = Older(@)]]
    /\ poller' = IF poller.pc = "down" THEN poller ELSE [poller EXCEPT !.sleep = @ - 1]
    /\ UNCHANGED <<record, cloud, flag, loop, told, faults>>

Crash ==
    /\ crashes < MaxCrashes /\ poller.pc # "down"
    /\ crashes' = crashes + 1
    /\ poller' = Down /\ loop' = IdleLoop
    /\ flag' = "unknown"
    /\ UNCHANGED <<installs, cloud, run, told, errors>>

StartPolling ==
    /\ poller.pc = "down"
    /\ poller' = Started
    /\ UNCHANGED <<installs, cloud, run, flag, loop, told, faults>>

-----------------------------------------------------------------------------
Init ==
    /\ row = [w \in Workflows |-> Absent]
    /\ record = [r \in Runs |-> NoRecord]
    /\ cloud = [j \in Jobs |-> "unused"]
    /\ run = [r \in Runs |-> NoRun]
    /\ flag = "unknown"
    /\ poller = Down
    /\ loop = IdleLoop
    /\ told = [r \in Runs |-> 0]
    /\ crashes = 0 /\ errors = 0

Poll ==
    \/ CheckFlag \/ ReadInstallations \/ CacheFlag
    \/ InstallationGone \/ CleanUp \/ ListRuns
    \/ ProcessRun \/ Tell \/ TellFails \/ MarkNotified
    \/ FinishInstallation \/ FinishCycle \/ PollFails

Next ==
    \/ Poll \/ StartPolling
    \/ \E w \in Workflows :
          InstallWorkflow(w) \/ RemoveWorkflow(w) \/ Reconcile(w)
    \/ ResetFlag \/ DeleteRow
    \/ \E j \in Jobs : StartRun(j) \/ DeleteJob(j)
    \/ \E r \in Runs : EndRun(r)
    \/ Tick \/ Crash

Spec == Init /\ [][Next]_vars

-----------------------------------------------------------------------------
Frames ==
    [pc: {"down", "read", "flag", "next", "runs", "tell", "mark", "wait"},
     todo: SUBSET Items, item: Items \cup {NULL}, left: SUBSET Sightings,
     latest: Sightings \cup {NULL}, at: Runs \cup {NULL}, busy: BOOLEAN, fresh: BOOLEAN,
     wait: {1, 2, 4}, sleep: 0 .. MaxWait, due: SUBSET Runs, cut: BOOLEAN, raced: BOOLEAN]

(* The state is well formed.                                               *)
TypeOK ==
    /\ row \in [Workflows -> [job: Jobs \cup {NULL}, polled: Nat \cup {NULL},
                              last: Sightings \cup {NULL}]]
    /\ record \in [Runs -> [state: RunStates \cup {"none"}, notified: BOOLEAN]]
    /\ cloud \in [Jobs -> {"unused", "live", "deleted"}]
    /\ run \in [Runs -> [job: Jobs \cup {NULL}, age: Nat, state: RunStates \cup {"none"}]]
    /\ flag \in {"unknown", "none", "some"}
    /\ poller \in Frames
    /\ loop \in [pc: {"idle", "reset", "delete", "install"}, wf: Workflows \cup {NULL},
                 job: Jobs \cup {NULL}]
    /\ told \in [Runs -> Nat]
    /\ crashes \in Nat /\ errors \in Nat

(* A cycle that was not cut short has recorded every result that was there *)
(* when it began, and has seen to its announcement, unless the run started *)
(* before the backfill window: no run slips through the window, however    *)
(* long the poller slept, was down, or the run lasted.                     *)
PollSeesAll ==
    poller.pc = "wait" /\ ~poller.cut =>
        \A r \in poller.due :
            Tracked(run[r].job) => record[r] = [state |-> run[r].state, notified |-> TRUE]

(* A result is announced once; only a crash or an error between the        *)
(* announcement and its mark makes the poller announce it again.           *)
ToldOnce == \A r \in Runs : told[r] <= 1 + crashes + errors

(* A run is marked as notified only after somebody was told.               *)
NotifiedWasTold == errors = 0 => \A r \in Runs : record[r].notified => told[r] > 0

(* Both together: whoever waits for a result hears of it once.             *)
AnnouncedOnce == ToldOnce /\ NotifiedWasTold

(* Every job the application created and that still exists has a row, or   *)
(* is being removed: nothing keeps running that nobody can switch off.     *)
JobsAreTracked == errors = 0 => \A j \in Jobs : cloud[j] = "live" => Tracked(j)

(* "a freshly installed workflow is picked up next cycle": the poller does *)
(* not park itself while something is installed, unless the installation   *)
(* and its reset of the flag both fell between the poller's read of the    *)
(* installations and its write of the flag; then it sleeps until another   *)
(* installation or a restart.                                              *)
InstalledIsNoticed ==
    poller.pc = "wait" /\ LoopIdle /\ flag = "none" /\ ~poller.raced =>
        \A w \in Workflows : ~Installed(w)
=============================================================================
