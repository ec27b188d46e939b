--------------------------- MODULE JobPollerProofs ---------------------------
(***************************************************************************)
(* Theorems about JobPoller.  Core holds what ties the poller's frame, the *)
(* rows and Databricks together; it is inductive and every other invariant *)
(* rests on it.  Announced, Noticed and Sighted strengthen ToldOnce,       *)
(* InstalledIsNoticed and PollSeesAll.                                     *)
(***************************************************************************)
EXTENDS JobPoller, TLAPS

(* The frame: what it works on, and that it works on nothing in between.   *)
Framed ==
    /\ IF poller.pc \in {"runs", "tell", "mark"}
       THEN /\ poller.item \in Items
            /\ \A l \in poller.left : run[l[1]].job = poller.item[2]
       ELSE poller.item = NULL /\ poller.left = {}
    /\ poller.pc \in {"tell", "mark"} =>
          poller.at \in Runs /\ run[poller.at].job = poller.item[2]
    /\ poller.pc \in {"down", "wait", "read"} => poller.todo = {}
    /\ poller.latest = NULL

(* Jobs are created once and belong to one installation.                   *)
JobsOwned ==
    /\ \A r \in Runs : run[r].job # NULL =>
          run[r].state # "none" /\ cloud[run[r].job] # "unused"
    /\ \A w \in Workflows : row[w].job # NULL => cloud[row[w].job] # "unused"
    /\ \A w, x \in Workflows : row[w].job # NULL /\ row[w].job = row[x].job => w = x
    /\ \A w \in Workflows : row[w].polled = NULL
    /\ loop.pc = "delete" => loop.job \in Jobs /\ loop.wf \in Workflows
                             /\ cloud[loop.job] = "deleted"
    /\ loop.pc = "install" => loop.wf \in Workflows

(* A record has an installation.                                           *)
RecordsOwned ==
    \A r \in Runs :
        /\ record[r].state # "none" => run[r].job # NULL /\ Tracked(run[r].job)
        /\ record[r].notified => record[r].state # "none"

Core == TypeOK /\ Framed /\ JobsOwned /\ RecordsOwned

(* An announcement is covered by its mark, by the poller that is about to  *)
(* set it, or by the end of the installation; what is about to be          *)
(* announced has not been.                                                 *)
Announced ==
    /\ \A r \in Runs :
          /\ told[r] <= 1 + crashes + errors
          /\ \/ told[r] <= crashes + errors
             \/ record[r].notified
             \/ poller.pc = "mark" /\ poller.at = r
             \/ ~Tracked(run[r].job)
          /\ told[r] > 0 => run[r].job # NULL
    /\ poller.pc = "tell" => told[poller.at] <= crashes + errors
    /\ poller.pc \in {"tell", "mark"} =>
          record[poller.at].state # "none" \/ ~Tracked(run[poller.at].job)

MarkedWasTold ==
    errors = 0 =>
        /\ \A r \in Runs : record[r].notified => told[r] > 0
        /\ poller.pc = "mark" => told[poller.at] > 0

Unseen == (\A w \in Workflows : ~Installed(w)) \/ loop.pc = "reset" \/ poller.raced

Noticed ==
    /\ flag = "none" => Unseen
    /\ poller.pc \in {"down", "read", "flag"} => flag # "none"
    /\ poller.pc = "flag" /\ poller.todo = {} => Unseen

Recorded(r) == record[r] = [state |-> run[r].state, notified |-> TRUE]

(* A result of this cycle is recorded, in the hands of the poller, or      *)
(* still to come.                                                          *)
InHand(r) ==
    \/ ~Tracked(run[r].job)
    \/ Recorded(r)
    \/ \E i \in poller.todo : i[2] = run[r].job
    \/ <<r, run[r].state>> \in poller.left
    \/ /\ poller.pc \in {"tell", "mark"} /\ poller.at = r
       /\ record[r].state = run[r].state

Sighted ==
    /\ \A r \in Runs : run[r].state # "none" => run[r].job # NULL
    /\ \A i \in poller.todo :
          cloud[i[2]] # "unused" /\ \A w \in Workflows : row[w].job = i[2] => w = i[1]
    /\ \A r \in poller.due : run[r].state \in Results
    /\ poller.pc = "down" => poller.due = {}
    /\ poller.pc \notin {"down", "wait", "read"} /\ ~poller.cut =>
          \A r \in poller.due : run[r].age <= Backfill
    /\ poller.pc \notin {"down", "read"} =>
          \A l \in poller.left : l[1] \in poller.due => l[2] = run[l[1]].state
    /\ poller.pc \notin {"down", "read"} /\ ~poller.cut => \A r \in poller.due : InHand(r)

-----------------------------------------------------------------------------
(* What deleting an installation does to the rows.                         *)
LEMMA Uninstalled ==
    ASSUME Core, NEW w \in Workflows, row[w].job # NULL, Uninstall(w)
    PROVE  /\ row' \in [Workflows -> [job: Jobs \cup {NULL}, polled: Nat \cup {NULL},
                                     last: Sightings \cup {NULL}]]
           /\ record' \in [Runs -> [state: RunStates \cup {"none"}, notified: BOOLEAN]]
           /\ row'[w] = Absent /\ \A x \in Workflows \ {w} : row'[x] = row[x]
           /\ ~\E x \in Workflows : row'[x].job = row[w].job
           /\ \A j \in Jobs : j # row[w].job =>
                 ((\E x \in Workflows : row'[x].job = j) <=> Tracked(j))
           /\ \A r \in Runs : record'[r] = IF run[r].job = row[w].job THEN NoRecord
                                         ELSE record[r]
<1>1. row'[w] = Absent /\ \A x \in Workflows \ {w} : row'[x] = row[x]
  BY DEF Core, TypeOK, Uninstall
<1>2. \A r \in Runs : record'[r] = IF run[r].job = row[w].job THEN NoRecord ELSE record[r]
  BY DEF Uninstall
<1>3. row' \in [Workflows -> [job: Jobs \cup {NULL}, polled: Nat \cup {NULL},
                             last: Sightings \cup {NULL}]]
  BY DEF Core, TypeOK, Uninstall, Absent
<1>4. record' \in [Runs -> [state: RunStates \cup {"none"}, notified: BOOLEAN]]
  BY DEF Core, TypeOK, Uninstall, NoRecord
<1>5. ~\E x \in Workflows : row'[x].job = row[w].job
  BY <1>1 DEF Core, JobsOwned, Absent
<1>6. \A j \in Jobs : j # row[w].job =>
         ((\E x \in Workflows : row'[x].job = j) <=> Tracked(j))
  BY <1>1, NullIsNone DEF Tracked, Absent
<1> QED BY <1>1, <1>2, <1>3, <1>4, <1>5, <1>6
LEMMA MarkTypes ==
    ASSUME NEW S, NEW R, NEW r \in R, NEW f \in [R -> [state: S, notified: BOOLEAN]]
    PROVE  [f EXCEPT ![r].notified = TRUE] \in [R -> [state: S, notified: BOOLEAN]]
OBVIOUS

LEMMA MarkValue ==
    ASSUME NEW S, NEW R, NEW r \in R, NEW f \in [R -> [state: S, notified: BOOLEAN]]
    PROVE  [f EXCEPT ![r].notified = TRUE][r] = [state |-> f[r].state, notified |-> TRUE]
OBVIOUS

(* The frame after a run was taken from the list; with a run to announce;  *)
(* and after a commit, whose attributes are read again.                    *)
Taken(l)      == [poller EXCEPT !.left = @ \ {l}, !.busy = @ \/ l[2] \notin Results]
Telling(p, r) == [p EXCEPT !.pc = "tell", !.at = r]
Stale(p)      == [p EXCEPT !.fresh = FALSE]

LEMMA TakenIs ==
    ASSUME poller \in Frames, NEW l
    PROVE  /\ Taken(l) \in Frames
           /\ Taken(l).left = poller.left \ {l} /\ Taken(l).pc = poller.pc
           /\ Taken(l).todo = poller.todo /\ Taken(l).item = poller.item
           /\ Taken(l).latest = poller.latest /\ Taken(l).at = poller.at
           /\ Taken(l).due = poller.due /\ Taken(l).cut = poller.cut
           /\ Taken(l).raced = poller.raced
BY DEF Taken, Frames

LEMMA AbortIs ==
    ASSUME NEW p \in Frames
    PROVE  /\ Abort(p) \in Frames
           /\ Abort(p).pc = "next" /\ Abort(p).todo = {} /\ Abort(p).item = NULL
           /\ Abort(p).left = {} /\ Abort(p).latest = NULL /\ Abort(p).cut
           /\ Abort(p).due = p.due /\ Abort(p).raced = p.raced
BY DEF Abort, Frames

LEMMA TellingIs ==
    ASSUME NEW p \in Frames, NEW r \in Runs
    PROVE  /\ Telling(p, r) \in Frames
           /\ Telling(p, r).pc = "tell" /\ Telling(p, r).at = r
           /\ Telling(p, r).left = p.left /\ Telling(p, r).todo = p.todo
           /\ Telling(p, r).item = p.item /\ Telling(p, r).latest = p.latest
           /\ Telling(p, r).due = p.due /\ Telling(p, r).cut = p.cut
           /\ Telling(p, r).raced = p.raced
BY DEF Telling, Frames

LEMMA StaleIs ==
    ASSUME NEW p \in Frames
    PROVE  /\ Stale(p) \in Frames /\ Stale(p).pc = p.pc /\ Stale(p).at = p.at
           /\ Stale(p).left = p.left /\ Stale(p).todo = p.todo
           /\ Stale(p).item = p.item /\ Stale(p).latest = p.latest
           /\ Stale(p).due = p.due /\ Stale(p).cut = p.cut /\ Stale(p).raced = p.raced
BY DEF Stale, Frames

LEMMA FailedIs ==
    ASSUME poller \in Frames, PollFails
    PROVE  /\ poller' \in Frames /\ poller'.pc \in {"next", "runs"}
           /\ poller'.due = poller.due /\ poller'.raced = poller.raced
<1>1. /\ poller.todo \subseteq Items
      /\ Abort(poller) \in Frames /\ Abort(poller).pc = "next"
      /\ Abort(poller).due = poller.due /\ Abort(poller).raced = poller.raced
  BY AbortIs DEF Frames
<1>2. \A p \in Frames, t \in SUBSET Items :
         /\ [p EXCEPT !.todo = t] \in Frames /\ [p EXCEPT !.todo = t].pc = p.pc
         /\ [p EXCEPT !.todo = t].due = p.due /\ [p EXCEPT !.todo = t].raced = p.raced
  BY DEF Frames
<1> DEFINE q == [poller EXCEPT !.pc = "runs", !.at = NULL, !.cut = TRUE]
<1>3. q \in Frames /\ q.pc = "runs" /\ q.due = poller.due /\ q.raced = poller.raced
  BY DEF Frames
<1>4. CASE poller' = Abort(poller)
  BY <1>1, <1>4
<1>5. CASE poller' = [Abort(poller) EXCEPT !.todo = poller.todo]
  BY <1>1, <1>2, <1>5
<1>6. CASE poller' = q
  BY <1>3, <1>6
<1> QED BY <1>4, <1>5, <1>6 DEF PollFails

LEMMA RacedIs ==
    ASSUME poller \in Frames, ResetFlag
    PROVE  /\ poller' \in Frames
           /\ poller'.todo = poller.todo /\ poller'.due = poller.due /\ poller'.pc = poller.pc
           /\ poller'.cut = poller.cut /\ poller'.left = poller.left /\ poller'.at = poller.at
<1>1. poller' = [poller EXCEPT !.raced = poller.raced \/ poller.pc = "flag"]
  BY DEF ResetFlag
<1>2. (poller.raced \/ poller.pc = "flag") \in BOOLEAN
  OBVIOUS
<1> QED BY <1>1, <1>2 DEF Frames

LEMMA UpsertTypes ==
    ASSUME NEW r \in Runs, NEW s \in RunStates,
           record \in [Runs -> [state: RunStates \cup {"none"}, notified: BOOLEAN]],
           Upsert(r, s)
    PROVE  record' \in [Runs -> [state: RunStates \cup {"none"}, notified: BOOLEAN]]
BY DEF Upsert

(* One run of the list: the installation is gone and the frame is left, or *)
(* the run is recorded and, if need be, is about to be announced.          *)
LEMMA ProcessRunChanges ==
    ASSUME poller \in Frames, ProcessRun
    PROVE  \E l \in poller.left :
              /\ l[1] \in Runs /\ l[2] \in RunStates
              /\ poller' \in Frames /\ poller'.due = poller.due /\ poller'.raced = poller.raced
              /\ \/ /\ record' = record
                    /\ poller'.pc = "next" /\ poller'.todo = {} /\ poller'.item = NULL
                    /\ poller'.left = {} /\ poller'.latest = NULL /\ poller'.cut
                 \/ /\ \/ record' = record /\ record[l[1]].state = l[2]
                       \/ row[poller.item[1]].job = poller.item[2] /\ Upsert(l[1], l[2])
                    /\ IF MustTell(l[1], l[2])
                       THEN poller'.pc = "tell" /\ poller'.at = l[1]
                       ELSE poller'.pc = "runs"
                    /\ poller'.left = poller.left \ {l} /\ poller'.todo = poller.todo
                    /\ poller'.item = poller.item /\ poller'.latest = poller.latest
                    /\ poller'.cut = poller.cut
<1>1. PICK l \in poller.left :
         \/ record' = record /\ poller' = Abort(Taken(l))
         \/ /\ record' = record /\ record[l[1]].state = l[2]
            /\ poller' = IF MustTell(l[1], l[2]) THEN Telling(Taken(l), l[1]) ELSE Taken(l)
         \/ /\ row[poller.item[1]].job = poller.item[2] /\ Upsert(l[1], l[2])
            /\ poller' = IF MustTell(l[1], l[2]) THEN Stale(Telling(Taken(l), l[1]))
                         ELSE Stale(Taken(l))
  BY DEF ProcessRun, Taken, Telling, Stale
<1>2. l[1] \in Runs /\ l[2] \in RunStates
  BY DEF Frames, Sightings
<1>3. poller.pc = "runs"
  BY DEF ProcessRun
<1>4. CASE record' = record /\ poller' = Abort(Taken(l))
  BY <1>2, <1>4, TakenIs, AbortIs
<1> DEFINE written == \/ record' = record /\ record[l[1]].state = l[2]
                      \/ row[poller.item[1]].job = poller.item[2] /\ Upsert(l[1], l[2])
<1>5. CASE /\ written /\ MustTell(l[1], l[2])
           /\ poller' \in {Telling(Taken(l), l[1]), Stale(Telling(Taken(l), l[1]))}
  BY <1>2, <1>5, TakenIs, TellingIs, StaleIs
<1>6. CASE /\ written /\ ~MustTell(l[1], l[2])
           /\ poller' \in {Taken(l), Stale(Taken(l))}
  BY <1>2, <1>3, <1>6, TakenIs, StaleIs
<1> QED BY <1>1, <1>4, <1>5, <1>6

(* Types are kept. *)
LEMMA TypeStep == ASSUME Core, [Next]_vars PROVE TypeOK'
<1> USE NullIsNone DEF installs, faults
<1>a. /\ TypeOK
      /\ poller.pc \in {"tell", "mark"} => poller.at \in Runs
      /\ poller.pc \in {"runs", "tell", "mark"} => poller.item \in Items
  BY DEF Core, Framed
<1>1. ASSUME CheckFlag PROVE TypeOK'
  <2>1. CASE flag = "none"
    <3>1. MaxWait \in {1, 2, 4} /\ MaxWait \in 0 .. MaxWait
      BY DEF MaxWait
    <3>2. poller' \in Frames
      <4>1. poller \in Frames
        BY <1>a DEF TypeOK
      <4>2. poller' = [poller EXCEPT !.wait = MaxWait, !.sleep = MaxWait, !.due = {}]
        BY <1>1, <2>1 DEF CheckFlag
      <4> QED BY <3>1, <4>1, <4>2 DEF Frames
    <3> QED BY <1>1, <1>a, <3>2 DEF CheckFlag, TypeOK
  <2>2. CASE flag # "none"
    <3>1. poller' \in Frames
      <4>1. poller \in Frames
        BY <1>a DEF TypeOK
      <4>2. poller' = [poller EXCEPT !.pc = "read", !.busy = FALSE, !.fresh = TRUE, !.cut = FALSE]
        BY <1>1, <2>2 DEF CheckFlag
      <4> QED BY <4>1, <4>2 DEF Frames
    <3> QED BY <1>1, <1>a, <3>1 DEF CheckFlag, TypeOK
  <2> QED BY <2>1, <2>2
<1>2. ASSUME ReadInstallations PROVE TypeOK'
  <2>1. {<<w, row[w].job>> : w \in {w \in Workflows : Installed(w)}} \subseteq Items
    BY <1>a DEF TypeOK, Items, Installed
  <2>2. poller' \in Frames
    BY <1>2, <1>a, <2>1 DEF ReadInstallations, TypeOK, Frames
  <2> QED BY <1>2, <1>a, <2>2 DEF ReadInstallations, TypeOK
<1>3. ASSUME CacheFlag PROVE TypeOK'
  <2>1. poller' \in Frames
    BY <1>3, <1>a DEF CacheFlag, TypeOK, Frames
  <2> QED BY <1>3, <1>a, <2>1 DEF CacheFlag, TypeOK
<1>4. ASSUME InstallationGone PROVE TypeOK'
  <2>1. poller' \in Frames
    BY <1>4, <1>a DEF InstallationGone, Abort, TypeOK, Frames
  <2> QED BY <1>4, <1>a, <2>1 DEF InstallationGone, Abort, TypeOK
<1>5. ASSUME ListRuns PROVE TypeOK'
  <2>1. PICK i \in poller.todo :
           poller' = [poller EXCEPT !.pc = "runs", !.todo = @ \ {i}, !.item = i,
                        !.left = {<<r, run[r].state>> :
                                     r \in {r \in RunsOf(i[2]) : run[r].age <= LookBack(i)}},
                        !.latest = NULL]
    BY <1>5 DEF ListRuns, Latest
  <2>2. i \in Items /\ i[2] \in Jobs
    BY <1>a, <2>1 DEF TypeOK, Frames, Items
  <2>3. {<<r, run[r].state>> : r \in {r \in RunsOf(i[2]) : run[r].age <= LookBack(i)}}
           \subseteq Sightings
    BY <1>a, <2>2 DEF RunsOf, Sightings, TypeOK, Core, JobsOwned
  <2>4. poller' \in Frames
    BY <1>a, <2>1, <2>2, <2>3 DEF TypeOK, Frames
  <2> QED BY <1>5, <1>a, <2>4 DEF ListRuns, TypeOK
<1>6. ASSUME ProcessRun PROVE TypeOK'
  <2>1. PICK l \in poller.left :
           /\ l[1] \in Runs /\ l[2] \in RunStates /\ poller' \in Frames
           /\ record' = record \/ Upsert(l[1], l[2])
    BY <1>6, <1>a, ProcessRunChanges DEF TypeOK
  <2>2. record' \in [Runs -> [state: RunStates \cup {"none"}, notified: BOOLEAN]]
    BY <1>a, <2>1, UpsertTypes DEF TypeOK
  <2> QED BY <1>6, <1>a, <2>1, <2>2 DEF ProcessRun, TypeOK
<1>7. ASSUME Tell PROVE TypeOK'
  <2>1. poller' \in Frames
    BY <1>7, <1>a DEF Tell, TypeOK, Frames
  <2> QED BY <1>7, <1>a, <2>1 DEF Tell, TypeOK
<1>8. ASSUME TellFails PROVE TypeOK'
  <2>1. poller' \in Frames
    BY <1>8, <1>a DEF TellFails, Fails, TypeOK, Frames
  <2> QED BY <1>8, <1>a, <2>1 DEF TellFails, Fails, TypeOK
<1>9. ASSUME MarkNotified PROVE TypeOK'
  <2>1. poller' \in Frames
    BY <1>9, <1>a DEF MarkNotified, TypeOK, Frames
  <2>2. record' \in [Runs -> [state: RunStates \cup {"none"}, notified: BOOLEAN]]
    <3>1. CASE record' = record
      BY <1>a, <3>1 DEF TypeOK
    <3>2. CASE record' = [record EXCEPT ![poller.at].notified = TRUE]
      <4>1. poller.at \in Runs
        BY <1>9, <1>a DEF MarkNotified
      <4>2. record \in [Runs -> [state: RunStates \cup {"none"}, notified: BOOLEAN]]
        BY <1>a DEF TypeOK
      <4> QED BY <3>2, <4>1, <4>2, MarkTypes
    <3> QED BY <1>9, <3>1, <3>2 DEF MarkNotified
  <2> QED BY <1>9, <1>a, <2>1, <2>2 DEF MarkNotified, TypeOK
<1>10. ASSUME FinishInstallation PROVE TypeOK'
  <2>1. poller' \in Frames
    BY <1>10, <1>a DEF FinishInstallation, Items, TypeOK, Frames
  <2> QED BY <1>10, <1>a, <2>1 DEF FinishInstallation, Items, TypeOK
<1>11. ASSUME FinishCycle PROVE TypeOK'
  <2>1. NextWait \in {1, 2, 4} /\ NextWait \in 0 .. MaxWait
    BY <1>a DEF NextWait, MaxWait, TypeOK, Frames
  <2>2. poller' \in Frames
    BY <1>11, <1>a, <2>1 DEF FinishCycle, TypeOK, Frames
  <2> QED BY <1>11, <1>a, <2>2 DEF FinishCycle, TypeOK
<1>12. ASSUME PollFails PROVE TypeOK'
  <2>1. poller' \in Frames
    BY <1>12, <1>a, FailedIs DEF TypeOK
  <2> QED BY <1>12, <1>a, <2>1 DEF PollFails, Fails, TypeOK
<1>13. ASSUME StartPolling PROVE TypeOK'
  <2>1. Down \in Frames
    BY DEF Down, Frames, MaxWait
  <2>2. Started \in Frames
    BY <2>1 DEF Started, Frames
  <2> QED BY <1>13, <1>a, <2>2 DEF StartPolling, TypeOK
<1>14. ASSUME ResetFlag PROVE TypeOK'
  <2>1. poller' \in Frames
    BY <1>14, <1>a, RacedIs DEF TypeOK
  <2> QED BY <1>14, <1>a, <2>1 DEF ResetFlag, IdleLoop, TypeOK
<1>15. ASSUME Tick PROVE TypeOK'
  <2>1. poller' \in Frames
    <3>1. CASE poller.pc = "down"
      BY <1>15, <1>a, <3>1 DEF Tick, TypeOK
    <3>2. CASE poller.pc # "down"
      <4>1. poller.sleep - 1 \in 0 .. MaxWait
        BY <1>15, <1>a, <3>2 DEF Tick, TypeOK, Frames, MaxWait
      <4> QED BY <1>15, <1>a, <3>2, <4>1 DEF Tick, TypeOK, Frames
    <3> QED BY <3>1, <3>2
  <2>2. run' \in [Runs -> [job: Jobs \cup {NULL}, age: Nat, state: RunStates \cup {"none"}]]
    <3>1. ASSUME NEW r \in Runs
          PROVE  run'[r] \in [job: Jobs \cup {NULL}, age: Nat, state: RunStates \cup {"none"}]
      <4>1. Older(run[r].age) \in Nat
        BY <1>a DEF Older, TypeOK
      <4>2. NoRun \in [job: Jobs \cup {NULL}, age: Nat, state: RunStates \cup {"none"}]
        BY DEF NoRun
      <4>3. [run[r] EXCEPT !.age = Older(@)]
               \in [job: Jobs \cup {NULL}, age: Nat, state: RunStates \cup {"none"}]
        BY <1>a, <4>1 DEF TypeOK
      <4> QED BY <1>15, <4>2, <4>3 DEF Tick
    <3> QED BY <1>15, <3>1 DEF Tick
  <2>3. row' = row
    BY <1>15, <1>a DEF Tick, Core, JobsOwned, TypeOK
  <2> QED BY <1>15, <1>a, <2>1, <2>2, <2>3 DEF Tick, TypeOK
<1>16. ASSUME Crash PROVE TypeOK'
  <2>1. poller' \in Frames
    BY <1>16, <1>a DEF Crash, Down, IdleLoop, MaxWait, TypeOK, Frames
  <2> QED BY <1>16, <1>a, <2>1 DEF Crash, Down, IdleLoop, MaxWait, TypeOK
<1>17. ASSUME NEW w \in Workflows, InstallWorkflow(w) PROVE TypeOK'
  <2>1. PICK j \in Jobs :
           /\ cloud' = [cloud EXCEPT ![j] = "live"]
           /\ \/ /\ row' = [row EXCEPT ![w] = [Absent EXCEPT !.job = j]]
                 /\ loop' = [pc |-> "reset", wf |-> w, job |-> j]
                 /\ UNCHANGED errors
              \/ Fails /\ loop' = IdleLoop /\ UNCHANGED row
    BY <1>17 DEF InstallWorkflow
  <2>2. [Absent EXCEPT !.job = j] \in [job: Jobs \cup {NULL}, polled: Nat \cup {NULL},
                                       last: Sightings \cup {NULL}]
    BY DEF Absent
  <2>3. row' \in [Workflows -> [job: Jobs \cup {NULL}, polled: Nat \cup {NULL},
                               last: Sightings \cup {NULL}]]
    <3> DEFINE R == [job: Jobs \cup {NULL}, polled: Nat \cup {NULL},
                     last: Sightings \cup {NULL}]
               new == [Absent EXCEPT !.job = j]
    <3>1. row \in [Workflows -> R] /\ new \in R
      BY <1>a, <2>2 DEF TypeOK
    <3>2. row' = [row EXCEPT ![w] = new] \/ row' = row
      BY <2>1
    <3> HIDE DEF R, new
    <3>3. row' \in [Workflows -> R]
      BY <3>1, <3>2
    <3> QED BY <3>3 DEF R
  <2>4. /\ cloud' \in [Jobs -> {"unused", "live", "deleted"}]
        /\ loop' \in [pc: {"idle", "reset", "delete", "install"}, wf: Workflows \cup {NULL},
                      job: Jobs \cup {NULL}]
    BY <1>a, <2>1 DEF TypeOK, IdleLoop
  <2>5. errors' \in Nat
    BY <1>a, <2>1 DEF TypeOK, Fails
  <2> QED BY <1>17, <1>a, <2>3, <2>4, <2>5 DEF InstallWorkflow, TypeOK
<1>18. ASSUME NEW w \in Workflows, RemoveWorkflow(w) PROVE TypeOK'
  BY <1>18, <1>a DEF RemoveWorkflow, LoopIdle, Installed, TypeOK
<1>19. ASSUME NEW j \in Jobs, StartRun(j) PROVE TypeOK'
  BY <1>19, <1>a DEF StartRun, NoRun, RunStates, Results, TypeOK
<1>20. ASSUME NEW j \in Jobs, DeleteJob(j) PROVE TypeOK'
  BY <1>20, <1>a DEF DeleteJob, TypeOK
<1>21. ASSUME NEW r \in Runs, EndRun(r) PROVE TypeOK'
  <2> DEFINE R == [job: Jobs \cup {NULL}, age: Nat, state: RunStates \cup {"none"}]
  <2>0. run \in [Runs -> R] /\ run[r] \in R
    BY <1>a DEF TypeOK
  <2>1. PICK s \in RunStates : run' = [run EXCEPT ![r] = [run[r] EXCEPT !.state = s]]
    BY <1>21 DEF EndRun
  <2>a. [run[r] EXCEPT !.state = s] \in R
    BY <2>0
  <2>2. run' \in [Runs -> R]
    <3> HIDE DEF R
    <3> QED BY <2>0, <2>1, <2>a
  <2> QED BY <1>21, <1>a, <2>2 DEF EndRun, TypeOK
<1>22. ASSUME CleanUp PROVE TypeOK'
  <2>1. PICK i \in poller.todo :
           /\ IF row[i[1]].job = i[2] THEN Uninstall(i[1]) ELSE UNCHANGED installs
           /\ poller' = [poller EXCEPT !.todo = @ \ {i}, !.fresh = FALSE]
    BY <1>22 DEF CleanUp
  <2>2. i[1] \in Workflows /\ i[2] \in Jobs
    BY <1>a, <2>1 DEF TypeOK, Frames, Items
  <2>3. poller' \in Frames
    BY <1>a, <2>1 DEF TypeOK, Frames
  <2>4. CASE UNCHANGED installs
    BY <1>22, <1>a, <2>3, <2>4 DEF CleanUp, Fails, TypeOK
  <2>5. CASE row[i[1]].job = i[2] /\ Uninstall(i[1])
    BY <1>22, <1>a, <2>2, <2>3, <2>5, Uninstalled DEF CleanUp, Fails, TypeOK
  <2> QED BY <2>1, <2>4, <2>5
<1>23. ASSUME DeleteRow PROVE TypeOK'
  <2>1. CASE UNCHANGED installs
    BY <1>23, <1>a, <2>1 DEF DeleteRow, IdleLoop, TypeOK
  <2>2. CASE row[loop.wf].job = loop.job /\ Uninstall(loop.wf)
    <3>1. loop.wf \in Workflows /\ loop.job \in Jobs
      BY <1>23 DEF DeleteRow, Core, JobsOwned
    <3> QED BY <1>23, <1>a, <2>2, <3>1, Uninstalled DEF DeleteRow, IdleLoop, TypeOK
  <2> QED BY <1>23, <2>1, <2>2 DEF DeleteRow
<1>24. ASSUME NEW w \in Workflows, Reconcile(w) PROVE TypeOK'
  BY <1>24, <1>a, Uninstalled DEF Reconcile, Installed, Fails, TypeOK
<1>25. CASE UNCHANGED vars
  BY <1>25, <1>a DEF vars, TypeOK
<1> QED
  BY <1>1, <1>2, <1>3, <1>4, <1>5, <1>6, <1>7, <1>8, <1>9, <1>10, <1>11, <1>12, <1>13, <1>14,
      <1>15, <1>16, <1>17, <1>18, <1>19, <1>20, <1>21, <1>22, <1>23, <1>24, <1>25 DEF Next, Poll

(* The frame stays in order. *)
LEMMA FramedStep == ASSUME Core, [Next]_vars PROVE Framed'
<1> USE NullIsNone DEF installs, faults
<1>a. TypeOK /\ Framed /\ poller \in Frames /\ run \in [Runs -> [job: Jobs \cup {NULL},
    age: Nat, state: RunStates \cup {"none"}]]
  BY DEF Core, TypeOK
<1>1. CASE UNCHANGED <<poller, run>>
  BY <1>1, <1>a DEF Framed
<1>2. ASSUME CheckFlag PROVE Framed'
  BY <1>2, <1>a DEF CheckFlag, MaxWait, Framed, Frames
<1>3. ASSUME ReadInstallations PROVE Framed'
  BY <1>3, <1>a DEF ReadInstallations, Items, Installed, Framed, Frames
<1>4. ASSUME CacheFlag PROVE Framed'
  BY <1>4, <1>a DEF CacheFlag, Framed, Frames
<1>5. ASSUME InstallationGone PROVE Framed'
  BY <1>5, <1>a DEF InstallationGone, Abort, Framed, Frames
<1>6. ASSUME CleanUp PROVE Framed'
  BY <1>6, <1>a DEF CleanUp, Fails, Items, Framed, Frames
<1>7. ASSUME ListRuns PROVE Framed'
  BY <1>7, <1>a DEF ListRuns, Latest, Items, Sightings, RunsOf, Framed, Frames
<1>8. ASSUME ProcessRun PROVE Framed'
  <2>1. PICK l \in poller.left :
           /\ l[1] \in Runs
           /\ \/ /\ poller'.pc = "next" /\ poller'.todo = {} /\ poller'.item = NULL
                 /\ poller'.left = {} /\ poller'.latest = NULL
              \/ /\ \/ poller'.pc = "tell" /\ poller'.at = l[1]
                    \/ poller'.pc = "runs"
                 /\ poller'.left = poller.left \ {l} /\ poller'.item = poller.item
                 /\ poller'.latest = poller.latest
    BY <1>8, <1>a, ProcessRunChanges
  <2>2. poller.pc = "runs" /\ run' = run
    BY <1>8 DEF ProcessRun
  <2>3. poller.item \in Items /\ run[l[1]].job = poller.item[2] /\ poller.latest = NULL
    BY <1>a, <2>2 DEF Framed
  <2> QED BY <1>a, <2>1, <2>2, <2>3 DEF Framed
<1>9. ASSUME Tell PROVE Framed'
  BY <1>9, <1>a DEF Tell, Framed, Frames
<1>10. ASSUME TellFails PROVE Framed'
  BY <1>10, <1>a DEF TellFails, Fails, Framed, Frames
<1>11. ASSUME MarkNotified PROVE Framed'
  BY <1>11, <1>a DEF MarkNotified, Framed, Frames
<1>12. ASSUME FinishInstallation PROVE Framed'
  BY <1>12, <1>a DEF FinishInstallation, Items, Framed, Frames
<1>13. ASSUME FinishCycle PROVE Framed'
  BY <1>13, <1>a DEF FinishCycle, NextWait, MaxWait, Framed, Frames
<1>14. ASSUME PollFails PROVE Framed'
  <2>1. run' = run
    BY <1>14 DEF PollFails
  <2>2. CASE poller' = Abort(poller)
    BY <1>a, <2>1, <2>2 DEF Abort, Framed, Frames
  <2>3. CASE poller' = [Abort(poller) EXCEPT !.todo = poller.todo]
    BY <1>a, <2>1, <2>3 DEF Abort, Framed, Frames
  <2>4. CASE poller.pc = "mark" /\ poller' = [poller EXCEPT !.pc = "runs", !.at = NULL,
      !.cut = TRUE]
    BY <1>a, <2>1, <2>4 DEF Framed, Frames
  <2> QED BY <1>14, <2>2, <2>3, <2>4 DEF PollFails
<1>15. ASSUME StartPolling PROVE Framed'
  BY <1>15, <1>a DEF StartPolling, Started, Down, MaxWait, Framed, Frames
<1>16. ASSUME ResetFlag PROVE Framed'
  BY <1>16, <1>a DEF ResetFlag, IdleLoop, Framed, Frames
<1>17. ASSUME Tick PROVE Framed'
  BY <1>17, <1>a DEF Tick, Older, NoRun, LoopIdle, Framed, Frames
<1>18. ASSUME Crash PROVE Framed'
  BY <1>18, <1>a DEF Crash, Down, IdleLoop, MaxWait, Framed, Frames
<1>19. ASSUME NEW j \in Jobs, StartRun(j) PROVE Framed'
  <2>1. \A x \in Runs : run[x].job # NULL => run'[x].job = run[x].job
    BY <1>19, <1>a DEF StartRun, NoRun
  <2>2. \A l \in poller.left : l[1] \in Runs
    BY <1>a DEF Frames, Sightings
  <2> QED BY <1>19, <1>a, <2>1, <2>2 DEF StartRun, Framed, Frames, Items
<1>20. ASSUME NEW r \in Runs, EndRun(r) PROVE Framed'
  BY <1>20, <1>a DEF EndRun, RunStates, Results, Framed, Frames
<1> QED
  BY <1>1, <1>2, <1>3, <1>4, <1>5, <1>6, <1>7, <1>8, <1>9, <1>10, <1>11, <1>12, <1>13, <1>14,
      <1>15, <1>16, <1>17, <1>18, <1>19, <1>20,
     <1>a DEF vars, Next, Poll, InstallWorkflow, RemoveWorkflow, DeleteJob, DeleteRow, Reconcile

(* Deleting an installation keeps everything owned.                        *)
LEMMA UninstallKeeps ==
    ASSUME Core, NEW w \in Workflows, row[w].job # NULL, Uninstall(w),
           UNCHANGED <<run, cloud>>,
           \/ UNCHANGED loop
           \/ loop' = IdleLoop
           \/ loop' = [pc |-> "install", wf |-> w, job |-> NULL]
    PROVE  JobsOwned' /\ RecordsOwned'
<1> DEFINE j == row[w].job
<1>1. /\ row'[w] = Absent /\ \A x \in Workflows \ {w} : row'[x] = row[x]
      /\ \A k \in Jobs : k # j => ((\E x \in Workflows : row'[x].job = k) <=> Tracked(k))
      /\ \A r \in Runs : record'[r] = IF run[r].job = j THEN NoRecord ELSE record[r]
  BY Uninstalled
<1>2. run \in [Runs -> [job: Jobs \cup {NULL}, age: Nat, state: RunStates \cup {"none"}]]
  BY DEF Core, TypeOK
<1>3. \A x \in Workflows : row'[x].job # NULL => x # w /\ row'[x] = row[x]
  BY <1>1 DEF Absent
<1>4. \A x \in Workflows : row'[x].polled = NULL
  BY <1>1 DEF Absent, Core, JobsOwned
<1>5. /\ loop'.pc = "delete" => loop'.job \in Jobs /\ loop'.wf \in Workflows
                                /\ cloud'[loop'.job] = "deleted"
      /\ loop'.pc = "install" => loop'.wf \in Workflows
  BY DEF IdleLoop, Core, JobsOwned
<1>6. JobsOwned'
  BY <1>3, <1>4, <1>5 DEF Core, JobsOwned
<1>7. ASSUME NEW r \in Runs
      PROVE  /\ record'[r].state # "none" => run[r].job # NULL /\ Tracked(run[r].job)'
             /\ record'[r].notified => record'[r].state # "none"
  BY <1>1, <1>2, <1>7 DEF Core, RecordsOwned, NoRecord, Tracked
<1> QED BY <1>6, <1>7 DEF RecordsOwned

(* Jobs stay owned. *)
LEMMA OwnedStep == ASSUME Core, [Next]_vars PROVE JobsOwned'
<1> USE NullIsNone DEF installs, faults
<1>a. TypeOK /\ Framed /\ JobsOwned /\ RecordsOwned
  BY DEF Core
<1>b. /\ row \in [Workflows -> [job: Jobs \cup {NULL}, polled: Nat \cup {NULL},
                             last: Sightings \cup {NULL}]]
      /\ cloud \in [Jobs -> {"unused", "live", "deleted"}]
      /\ run \in [Runs -> [job: Jobs \cup {NULL}, age: Nat, state: RunStates \cup {"none"}]]
      /\ record \in [Runs -> [state: RunStates \cup {"none"}, notified: BOOLEAN]]
      /\ loop \in [pc: {"idle", "reset", "delete", "install"}, wf: Workflows \cup {NULL},
                   job: Jobs \cup {NULL}]
  BY <1>a DEF TypeOK
<1>1. CASE UNCHANGED <<row, cloud, run, loop>>
  BY <1>1, <1>a DEF JobsOwned
<1>2. ASSUME FinishInstallation PROVE JobsOwned'
  <2>1. row' = row
    BY <1>2, <1>a DEF FinishInstallation, Framed
  <2>2. UNCHANGED <<cloud, run, loop>>
    BY <1>2 DEF FinishInstallation
  <2> QED BY <1>1, <2>1, <2>2
<1>3. ASSUME CleanUp PROVE JobsOwned'
  <2>1. PICK i \in poller.todo :
           /\ i[1] \in Workflows /\ i[2] \in Jobs
           /\ IF row[i[1]].job = i[2] THEN Uninstall(i[1]) ELSE UNCHANGED installs
    BY <1>3, <1>a DEF CleanUp, TypeOK, Frames, Items
  <2>2. CASE UNCHANGED installs
    BY <1>3, <1>a, <2>2 DEF CleanUp, JobsOwned
  <2>3. CASE row[i[1]].job = i[2] /\ Uninstall(i[1])
    <3>1. row[i[1]].job # NULL
      BY <2>1, <2>3, NullIsNone
    <3> QED BY <1>3, <2>1, <2>3, <3>1, UninstallKeeps DEF CleanUp
  <2> QED BY <2>1, <2>2, <2>3
<1>4. ASSUME DeleteRow PROVE JobsOwned'
  <2>1. CASE UNCHANGED installs
    BY <1>4, <1>a, <2>1 DEF DeleteRow, IdleLoop, JobsOwned
  <2>2. CASE row[loop.wf].job = loop.job /\ Uninstall(loop.wf)
    <3>1. loop.wf \in Workflows /\ loop.job \in Jobs
      BY <1>4, <1>a DEF DeleteRow, JobsOwned
    <3>2. row[loop.wf].job # NULL
      BY <2>2, <3>1, NullIsNone
    <3> QED BY <1>4, <2>2, <3>1, <3>2, UninstallKeeps DEF DeleteRow
  <2> QED BY <1>4, <2>1, <2>2 DEF DeleteRow
<1>5. ASSUME NEW w \in Workflows, Reconcile(w) PROVE JobsOwned'
  <2>1. /\ Uninstall(w) /\ row[w].job # NULL /\ UNCHANGED <<run, cloud>>
        /\ loop' = [pc |-> "install", wf |-> w, job |-> NULL]
    BY <1>5 DEF Reconcile, Installed
  <2> QED BY <2>1, UninstallKeeps
<1>6. ASSUME NEW w \in Workflows, InstallWorkflow(w) PROVE JobsOwned'
  <2>1. PICK j \in Jobs :
           /\ cloud[j] = "unused" /\ cloud' = [cloud EXCEPT ![j] = "live"]
           /\ row' = row \/ row' = [row EXCEPT ![w] = [Absent EXCEPT !.job = j]]
    BY <1>6 DEF InstallWorkflow
  <2>2. loop'.pc \in {"reset", "idle"} /\ run' = run
    BY <1>6 DEF InstallWorkflow, IdleLoop
  <2>3. \A k \in Jobs : cloud[k] # "unused" => cloud'[k] # "unused" /\ k # j
    BY <1>b, <2>1
  <2>4. ASSUME NEW x \in Workflows
        PROVE  \/ row'[x] = row[x]
               \/ x = w /\ row'[x].job = j /\ row'[x].polled = NULL
    BY <1>b, <2>1 DEF Absent
  <2>5. cloud'[j] # "unused" /\ \A x \in Workflows : row[x].job # j
    BY <1>a, <1>b, <2>1 DEF JobsOwned
  <2> QED BY <1>a, <1>b, <2>2, <2>3, <2>4, <2>5 DEF JobsOwned
<1>7. ASSUME ResetFlag PROVE JobsOwned'
  BY <1>7, <1>a, <1>b DEF ResetFlag, IdleLoop, JobsOwned
<1>8. ASSUME Tick PROVE JobsOwned'
  BY <1>8, <1>a, <1>b DEF Tick, Older, NoRun, LoopIdle, JobsOwned
<1>9. ASSUME Crash PROVE JobsOwned'
  BY <1>9, <1>a, <1>b DEF Crash, Down, IdleLoop, MaxWait, JobsOwned
<1>10. ASSUME NEW w \in Workflows, RemoveWorkflow(w) PROVE JobsOwned'
  BY <1>10, <1>a, <1>b DEF RemoveWorkflow, LoopIdle, Installed, JobsOwned
<1>11. ASSUME NEW j \in Jobs, StartRun(j) PROVE JobsOwned'
  BY <1>11, <1>a, <1>b DEF StartRun, NoRun, RunStates, Results, JobsOwned
<1>12. ASSUME NEW j \in Jobs, DeleteJob(j) PROVE JobsOwned'
  BY <1>12, <1>a, <1>b DEF DeleteJob, JobsOwned
<1>13. ASSUME NEW r \in Runs, EndRun(r) PROVE JobsOwned'
  BY <1>13, <1>a, <1>b DEF EndRun, RunStates, Results, JobsOwned
<1> QED
  BY <1>1, <1>2, <1>3, <1>4, <1>5, <1>6, <1>7, <1>8, <1>9, <1>10, <1>11, <1>12, <1>13,
     <1>a DEF vars, Next, Poll, CheckFlag, ReadInstallations, CacheFlag, InstallationGone,
         ListRuns, ProcessRun, Tell, TellFails, MarkNotified, PollFails, FinishCycle, StartPolling

(* Records stay owned. *)
LEMMA RecordsStep == ASSUME Core, [Next]_vars PROVE RecordsOwned'
<1> USE NullIsNone DEF installs, faults
<1>a. TypeOK /\ Framed /\ JobsOwned /\ RecordsOwned
  BY DEF Core
<1>b. /\ row \in [Workflows -> [job: Jobs \cup {NULL}, polled: Nat \cup {NULL},
                             last: Sightings \cup {NULL}]]
      /\ cloud \in [Jobs -> {"unused", "live", "deleted"}]
      /\ run \in [Runs -> [job: Jobs \cup {NULL}, age: Nat, state: RunStates \cup {"none"}]]
      /\ record \in [Runs -> [state: RunStates \cup {"none"}, notified: BOOLEAN]]
      /\ loop \in [pc: {"idle", "reset", "delete", "install"}, wf: Workflows \cup {NULL},
                   job: Jobs \cup {NULL}]
  BY <1>a DEF TypeOK
<1>1. CASE UNCHANGED <<row, record, run>>
  BY <1>1, <1>a DEF RecordsOwned, Tracked
<1>2. ASSUME FinishInstallation PROVE RecordsOwned'
  <2>1. row' = row
    BY <1>2, <1>a DEF FinishInstallation, Framed
  <2> QED BY <1>2, <1>a, <2>1 DEF FinishInstallation, RecordsOwned, Tracked
<1>3. ASSUME CleanUp PROVE RecordsOwned'
  <2>1. PICK i \in poller.todo :
           /\ i[1] \in Workflows /\ i[2] \in Jobs
           /\ IF row[i[1]].job = i[2] THEN Uninstall(i[1]) ELSE UNCHANGED installs
    BY <1>3, <1>a DEF CleanUp, TypeOK, Frames, Items
  <2>2. CASE UNCHANGED installs
    BY <1>3, <1>a, <2>2 DEF CleanUp, RecordsOwned, Tracked
  <2>3. CASE row[i[1]].job = i[2] /\ Uninstall(i[1])
    <3>1. row[i[1]].job # NULL
      BY <2>1, <2>3, NullIsNone
    <3> QED BY <1>3, <2>1, <2>3, <3>1, UninstallKeeps DEF CleanUp
  <2> QED BY <2>1, <2>2, <2>3
<1>4. ASSUME DeleteRow PROVE RecordsOwned'
  <2>1. CASE UNCHANGED installs
    BY <1>4, <1>a, <2>1 DEF DeleteRow, IdleLoop, RecordsOwned, Tracked
  <2>2. CASE row[loop.wf].job = loop.job /\ Uninstall(loop.wf)
    <3>1. loop.wf \in Workflows /\ loop.job \in Jobs
      BY <1>4, <1>a DEF DeleteRow, JobsOwned
    <3>2. row[loop.wf].job # NULL
      BY <2>2, <3>1, NullIsNone
    <3> QED BY <1>4, <2>2, <3>1, <3>2, UninstallKeeps DEF DeleteRow
  <2> QED BY <1>4, <2>1, <2>2 DEF DeleteRow
<1>5. ASSUME NEW w \in Workflows, Reconcile(w) PROVE RecordsOwned'
  <2>1. /\ Uninstall(w) /\ row[w].job # NULL /\ UNCHANGED <<run, cloud>>
        /\ loop' = [pc |-> "install", wf |-> w, job |-> NULL]
    BY <1>5 DEF Reconcile, Installed
  <2> QED BY <2>1, UninstallKeeps
<1>6. ASSUME ProcessRun PROVE RecordsOwned'
  <2>1. PICK l \in poller.left :
           \/ UNCHANGED record
           \/ row[poller.item[1]].job = poller.item[2] /\ Upsert(l[1], l[2])
    BY <1>6 DEF ProcessRun
  <2>2. l[1] \in Runs /\ l[2] \in RunStates /\ poller.item \in Items
        /\ run[l[1]].job = poller.item[2] /\ UNCHANGED <<row, run>>
    BY <1>6, <1>a DEF ProcessRun, Framed, TypeOK, Frames, Sightings
  <2>3. CASE UNCHANGED record
    BY <1>a, <2>2, <2>3 DEF RecordsOwned, Tracked
  <2>4. CASE row[poller.item[1]].job = poller.item[2] /\ Upsert(l[1], l[2])
    <3>1. Tracked(run[l[1]].job) /\ run[l[1]].job # NULL /\ l[2] # "none"
      BY <2>2, <2>4 DEF Tracked, Items, RunStates, Results
    <3>2. \A r \in Runs : IF r = l[1] THEN record'[r].state = l[2] ELSE record'[r] = record[r]
      BY <1>b, <2>4 DEF Upsert
    <3> QED BY <1>a, <2>2, <3>1, <3>2 DEF RecordsOwned, Tracked
  <2> QED BY <2>1, <2>3, <2>4
<1>7. ASSUME MarkNotified PROVE RecordsOwned'
  BY <1>7, <1>a, <1>b DEF MarkNotified, RecordsOwned, Tracked
<1>8. ASSUME Tick PROVE RecordsOwned'
  BY <1>8, <1>a, <1>b DEF Tick, Older, NoRun, LoopIdle, RecordsOwned, Tracked
<1>9. ASSUME NEW w \in Workflows, InstallWorkflow(w) PROVE RecordsOwned'
  BY <1>9, <1>a, <1>b DEF InstallWorkflow, Installed, Absent, IdleLoop, Fails, RecordsOwned, Tracked
<1>10. ASSUME NEW j \in Jobs, StartRun(j) PROVE RecordsOwned'
  BY <1>10, <1>a, <1>b DEF StartRun, NoRun, RunStates, Results, RecordsOwned, Tracked
<1>11. ASSUME NEW r \in Runs, EndRun(r) PROVE RecordsOwned'
  BY <1>11, <1>a, <1>b DEF EndRun, RunStates, Results, RecordsOwned, Tracked
<1> QED
  BY <1>1, <1>2, <1>3, <1>4, <1>5, <1>6, <1>7, <1>8, <1>9, <1>10, <1>11,
     <1>a DEF vars, Next, Poll, CheckFlag, ReadInstallations, CacheFlag, InstallationGone,
         ListRuns, Tell, TellFails, PollFails, FinishCycle, StartPolling, ResetFlag,
             RemoveWorkflow, DeleteJob, Crash

LEMMA CoreStep == ASSUME Core, [Next]_vars PROVE Core'
BY TypeStep, FramedStep, OwnedStep, RecordsStep DEF Core

(* The poller's frame fits its place in the cycle, no two installations    *)
(* share a job and no record lacks its installation: what all theorems     *)
(* below rest on.                                                          *)
THEOREM CoreInvariant == Spec => []Core
<1>1. Init => Core
  BY BoundsAssumption, NullIsNone
  DEF Init, Core, TypeOK, Frames, Framed, JobsOwned, RecordsOwned, Absent, NoRecord, NoRun,
      Down, IdleLoop, MaxWait
<1>2. Core /\ [Next]_vars => Core'
  BY CoreStep
<1> QED BY <1>1, <1>2, PTL DEF Spec

LEMMA UninstallAnnounced ==
    ASSUME Core, Announced, NEW w \in Workflows, row[w].job # NULL, Uninstall(w),
           UNCHANGED <<run, told, crashes>>, errors' \in {errors, errors + 1},
           poller'.pc = poller.pc, poller'.at = poller.at
    PROVE  Announced'
<1>0. PICK j \in Jobs : j = row[w].job
  BY DEF Core, TypeOK
<1>1a. ~Tracked(j)'
  BY <1>0, Uninstalled DEF Tracked
<1>1b. \A k \in Jobs : k # j => (Tracked(k)' <=> Tracked(k))
  <2>1. \A k \in Jobs : k # j => ((\E x \in Workflows : row'[x].job = k) <=> Tracked(k))
    BY <1>0, Uninstalled
  <2> QED BY <2>1 DEF Tracked
<1>1c. \A r \in Runs : run[r].job # j => record'[r] = record[r]
  BY <1>0, Uninstalled
<1>2. /\ told \in [Runs -> Nat] /\ crashes \in Nat /\ errors \in Nat
      /\ \A r \in Runs : run[r].job \in Jobs \cup {NULL}
  BY DEF Core, TypeOK
<1>3. ASSUME NEW r \in Runs
      PROVE  /\ told[r] <= 1 + crashes + errors'
             /\ \/ told[r] <= crashes + errors' \/ record'[r].notified
                \/ poller'.pc = "mark" /\ poller'.at = r
                \/ ~Tracked(run[r].job)'
             /\ told[r] > 0 => run[r].job # NULL
  <2>1. told[r] \in Nat
    BY <1>2
  <2>2. told[r] <= 1 + crashes + errors' /\ (told[r] > 0 => run[r].job # NULL)
    BY <1>2, <2>1 DEF Announced
  <2>3. CASE run[r].job = j
    <3>1. ~Tracked(run[r].job)'
      BY <1>1a, <2>3
    <3> QED BY <2>2, <3>1
  <2>4. CASE run[r].job \in Jobs /\ run[r].job # j
    <3>1. Tracked(run[r].job)' <=> Tracked(run[r].job)
      <4>1. PICK k \in Jobs : k = run[r].job
        BY <2>4
      <4> QED BY <1>1b, <2>4, <4>1
    <3>2. record'[r] = record[r]
      BY <1>1c, <2>4
    <3>3. \/ told[r] <= crashes + errors \/ record[r].notified
          \/ poller.pc = "mark" /\ poller.at = r
          \/ ~Tracked(run[r].job)
      BY DEF Announced
    <3>4. told[r] <= crashes + errors => told[r] <= crashes + errors'
      BY <1>2, <2>1
    <3> QED BY <2>2, <3>1, <3>2, <3>3, <3>4
  <2>5. CASE run[r].job = NULL
    <3>1. told[r] <= crashes + errors'
      BY <1>2, <2>1, <2>2, <2>5
    <3> QED BY <2>2, <3>1
  <2> QED BY <1>2, <2>3, <2>4, <2>5
<1>4. poller.pc = "tell" => told[poller.at] <= crashes + errors'
  <2> SUFFICES ASSUME poller.pc = "tell" PROVE told[poller.at] <= crashes + errors'
    OBVIOUS
  <2>1. poller.at \in Runs /\ told[poller.at] <= crashes + errors
    BY DEF Core, Framed, Announced
  <2> QED BY <1>2, <2>1
<1>5. poller.pc \in {"tell", "mark"} =>
         record'[poller.at].state # "none" \/ ~Tracked(run[poller.at].job)'
  <2> SUFFICES ASSUME poller.pc \in {"tell", "mark"}
               PROVE  record'[poller.at].state # "none" \/ ~Tracked(run[poller.at].job)'
    OBVIOUS
  <2>1. PICK k \in Jobs : k = run[poller.at].job
    BY DEF Core, Framed, Items
  <2>2. poller.at \in Runs
    BY DEF Core, Framed
  <2>3. CASE k = j
    <3>1. ~Tracked(run[poller.at].job)'
      BY <1>1a, <2>1, <2>3
    <3> QED BY <3>1
  <2>4. CASE k # j
    <3>1. Tracked(run[poller.at].job)' <=> Tracked(run[poller.at].job)
      BY <1>1b, <2>1, <2>4
    <3>2. record'[poller.at] = record[poller.at]
      BY <1>1c, <2>1, <2>2, <2>4
    <3> QED BY <3>1, <3>2 DEF Announced
  <2> QED BY <2>3, <2>4
<1>6. UNCHANGED <<run, told, crashes>> /\ poller'.pc = poller.pc /\ poller'.at = poller.at
  OBVIOUS
<1>7. /\ poller'.pc = "tell" => told'[poller'.at] <= crashes' + errors'
      /\ poller'.pc \in {"tell", "mark"} =>
            record'[poller'.at].state # "none" \/ ~Tracked(run[poller.at].job)'
  BY <1>4, <1>5, <1>6
<1>8. \A r \in Runs :
         /\ told'[r] <= 1 + crashes' + errors'
         /\ \/ told'[r] <= crashes' + errors' \/ record'[r].notified
            \/ poller'.pc = "mark" /\ poller'.at = r
            \/ ~Tracked(run[r].job)'
         /\ told'[r] > 0 => run'[r].job # NULL
  BY <1>3, <1>6
<1> QED BY <1>7, <1>8 DEF Announced

(* Announcements stay covered. *)
LEMMA AnnouncedStep == ASSUME Core, Announced, [Next]_vars PROVE Announced'
<1> USE NullIsNone DEF installs, faults
<1>a. /\ TypeOK /\ Framed /\ JobsOwned /\ RecordsOwned
      /\ poller \in Frames /\ told \in [Runs -> Nat] /\ crashes \in Nat /\ errors \in Nat
      /\ run \in [Runs -> [job: Jobs \cup {NULL}, age: Nat, state: RunStates \cup {"none"}]]
      /\ record \in [Runs -> [state: RunStates \cup {"none"}, notified: BOOLEAN]]
  BY DEF Core, TypeOK
<1>1. ASSUME CleanUp PROVE Announced'
  <2>0. PICK i \in poller.todo :
           /\ IF row[i[1]].job = i[2] THEN Uninstall(i[1]) ELSE UNCHANGED installs
           /\ poller' = [poller EXCEPT !.todo = @ \ {i}, !.fresh = FALSE]
    BY <1>1 DEF CleanUp
  <2>1. /\ i[1] \in Workflows /\ i[2] \in Jobs
        /\ IF row[i[1]].job = i[2] THEN Uninstall(i[1]) ELSE UNCHANGED installs
        /\ poller' = [poller EXCEPT !.todo = @ \ {i}, !.fresh = FALSE]
    BY <1>a, <2>0 DEF Frames, Items
  <2>2. /\ poller.pc = "next" /\ poller'.pc = "next" /\ poller'.at = poller.at
        /\ UNCHANGED <<run, told, crashes>> /\ errors' \in {errors, errors + 1}
    BY <1>1, <1>a, <2>1 DEF CleanUp, Fails, Frames
  <2>3. CASE UNCHANGED installs
    BY <1>a, <2>2, <2>3 DEF Announced, Tracked
  <2>4. CASE row[i[1]].job = i[2] /\ Uninstall(i[1])
    <3>1. row[i[1]].job # NULL
      BY <2>1, <2>4, NullIsNone
    <3> QED BY <2>1, <2>2, <2>4, <3>1, UninstallAnnounced
  <2> QED BY <2>1, <2>3, <2>4
<1>2. ASSUME DeleteRow PROVE Announced'
  <2>1. UNCHANGED <<run, told, crashes, errors, poller>>
    BY <1>2 DEF DeleteRow
  <2>2. CASE UNCHANGED installs
    BY <1>a, <2>1, <2>2 DEF Announced, Tracked
  <2>3. CASE row[loop.wf].job = loop.job /\ Uninstall(loop.wf)
    <3>1. loop.wf \in Workflows /\ row[loop.wf].job # NULL
      BY <1>2, <1>a, <2>3 DEF DeleteRow, JobsOwned
    <3> QED BY <2>1, <2>3, <3>1, UninstallAnnounced
  <2> QED BY <1>2, <2>2, <2>3 DEF DeleteRow
<1>3. ASSUME NEW w \in Workflows, Reconcile(w) PROVE Announced'
  <2>1. /\ Uninstall(w) /\ row[w].job # NULL /\ UNCHANGED <<run, told, crashes, poller>>
        /\ errors' \in {errors, errors + 1}
    BY <1>3 DEF Reconcile, Installed, Fails
  <2> QED BY <2>1, UninstallAnnounced
<1>4. ASSUME NEW j \in Jobs, StartRun(j) PROVE Announced'
  <2>1. \A x \in Runs : run[x].job # NULL => run'[x].job = run[x].job
    BY <1>4, <1>a DEF StartRun, NoRun
  <2>2. poller.pc \in {"tell", "mark"} => poller.at \in Runs /\ run'[poller.at].job = run[poller.at].job
    BY <1>a, <2>1 DEF Framed, Items
  <2>3. UNCHANGED <<row, record, told, crashes, errors, poller>>
    BY <1>4 DEF StartRun
  <2> QED BY <1>a, <2>1, <2>2, <2>3 DEF Announced, Tracked
<1>5. ASSUME NEW w \in Workflows, InstallWorkflow(w) PROVE Announced'
  <2>1. PICK j \in Jobs :
           /\ cloud[j] = "unused"
           /\ row' = row \/ row' = [row EXCEPT ![w] = [Absent EXCEPT !.job = j]]
    BY <1>5 DEF InstallWorkflow
  <2>2. \A r \in Runs : run[r].job # NULL => run[r].job # j
    <3>1. \A r \in Runs : run[r].job # NULL => cloud[run[r].job] # "unused"
      BY <1>a DEF JobsOwned
    <3>2. cloud[j] = "unused"
      BY <2>1
    <3> QED BY <3>1, <3>2
  <2>3. ASSUME NEW k \in Jobs, k # j, Tracked(k)' PROVE Tracked(k)
    <3>1. PICK x \in Workflows : row'[x].job = k
      BY <2>3 DEF Tracked
    <3>2. row[x].job = k
      <4>1. CASE row' = row
        BY <3>1, <4>1
      <4>2. CASE row' = [row EXCEPT ![w] = [Absent EXCEPT !.job = j]]
        <5>1. DOMAIN row = Workflows
          BY <1>a DEF TypeOK
        <5>2. x # w
          BY <2>3, <3>1, <4>2, <5>1 DEF Absent
        <5> QED BY <3>1, <4>2, <5>1, <5>2
      <4> QED BY <2>1, <4>1, <4>2
    <3> QED BY <3>2 DEF Tracked
  <2>4. /\ UNCHANGED <<run, record, told, crashes, poller>>
        /\ errors' \in {errors, errors + 1} /\ errors' \in Nat
    BY <1>5, <1>a DEF InstallWorkflow, Fails
  <2>5. ASSUME NEW r \in Runs, run[r].job # NULL, Tracked(run[r].job)' PROVE Tracked(run[r].job)
    <3>1. PICK k \in Jobs : k = run[r].job
      BY <1>a, <2>5
    <3> QED BY <2>2, <2>3, <2>4, <2>5, <3>1
  <2>6. poller.pc \in {"tell", "mark"} => poller.at \in Runs /\ run[poller.at].job # NULL
    BY <1>a DEF Framed, Items
  <2>7. ASSUME NEW r \in Runs
        PROVE  /\ told[r] <= 1 + crashes + errors'
               /\ \/ told[r] <= crashes + errors' \/ record[r].notified
                  \/ poller.pc = "mark" /\ poller.at = r
                  \/ ~Tracked(run[r].job)'
               /\ told[r] > 0 => run[r].job # NULL
    <3>1. told[r] \in Nat /\ told[r] <= 1 + crashes + errors /\ (told[r] > 0 => run[r].job # NULL)
      BY <1>a DEF Announced
    <3>2. told[r] <= crashes + errors => told[r] <= crashes + errors'
      BY <1>a, <2>4, <3>1
    <3>3. told[r] <= 1 + crashes + errors'
      BY <1>a, <2>4, <3>1
    <3>4. CASE told[r] = 0
      BY <1>a, <2>4, <3>3, <3>4
    <3>5. CASE told[r] > 0
      <4>1. \/ told[r] <= crashes + errors \/ record[r].notified
            \/ poller.pc = "mark" /\ poller.at = r
            \/ ~Tracked(run[r].job)
        BY DEF Announced
      <4> QED BY <2>5, <3>1, <3>2, <3>3, <3>5, <4>1
    <3> QED BY <3>1, <3>4, <3>5
  <2>8. poller.pc = "tell" => told[poller.at] <= crashes + errors'
    <3>1. poller.at \in Runs => told[poller.at] \in Nat
      BY <1>a
    <3> QED BY <1>a, <2>4, <2>6, <3>1 DEF Announced
  <2>9. poller.pc \in {"tell", "mark"} =>
           record[poller.at].state # "none" \/ ~Tracked(run[poller.at].job)'
    <3> SUFFICES ASSUME poller.pc \in {"tell", "mark"}, Tracked(run[poller.at].job)'
                 PROVE  record[poller.at].state # "none"
      OBVIOUS
    <3>1. PICK r \in Runs : r = poller.at
      BY <2>6
    <3>2. Tracked(run[r].job)
      BY <2>4, <2>5, <2>6, <3>1
    <3> QED BY <3>1, <3>2 DEF Announced
  <2> QED BY <2>4, <2>7, <2>8, <2>9 DEF Announced
<1>6. ASSUME ProcessRun PROVE Announced'
  <2>1. PICK l \in poller.left :
           /\ \/ poller'.pc \in {"runs", "next"}
              \/ /\ poller'.pc = "tell" /\ poller'.at = l[1] /\ MustTell(l[1], l[2])
                 /\ \/ record' = record /\ record[l[1]].state = l[2]
                    \/ row[poller.item[1]].job = poller.item[2] /\ Upsert(l[1], l[2])
           /\ record' = record \/ Upsert(l[1], l[2])
           /\ l[1] \in Runs /\ l[2] \in RunStates
    BY <1>6, <1>a, ProcessRunChanges
  <2>a. poller.pc = "runs" /\ UNCHANGED <<row, run, told, crashes, errors>>
    BY <1>6 DEF ProcessRun
  <2>2. /\ l[1] \in Runs /\ l[2] \in RunStates /\ poller.item \in Items
        /\ run[l[1]].job = poller.item[2] /\ UNCHANGED <<row, run, told, crashes, errors>>
        /\ poller.pc = "runs"
    BY <1>a, <2>1, <2>a DEF Framed
  <2>3. \A r \in Runs : record'[r].notified = record[r].notified
    BY <1>a, <2>1, <2>2 DEF Upsert
  <2>4. ASSUME poller'.pc = "tell"
        PROVE  /\ poller'.at = l[1] /\ ~record[l[1]].notified /\ Tracked(run[l[1]].job)
               /\ record'[l[1]].state # "none"
    <3>1. l[2] # "none"
      BY <2>2 DEF RunStates, Results
    <3>2. CASE record' = record /\ record[l[1]].state = l[2]
      BY <1>a, <2>1, <2>2, <2>4, <3>1, <3>2 DEF RecordsOwned, MustTell
    <3>3. CASE row[poller.item[1]].job = poller.item[2] /\ Upsert(l[1], l[2])
      BY <1>a, <2>1, <2>2, <2>4, <3>1, <3>3 DEF Tracked, Items, MustTell, Upsert
    <3> QED BY <2>1, <2>4, <3>2, <3>3
  <2>5. poller'.pc # "mark"
    BY <2>1
  <2>6. \A k : Tracked(k)' <=> Tracked(k)
    BY <2>2 DEF Tracked
  <2>7. \A r \in Runs : \/ told[r] <= crashes + errors \/ record[r].notified
                       \/ ~Tracked(run[r].job)
    BY <2>2 DEF Announced
  <2> QED BY <2>2, <2>3, <2>4, <2>5, <2>6, <2>7 DEF Announced
<1>7. ASSUME Tell PROVE Announced'
  <2>1. /\ poller.pc = "tell" /\ poller.at \in Runs /\ poller'.pc = "mark" /\ poller'.at = poller.at
        /\ told' = [told EXCEPT ![poller.at] = @ + 1]
        /\ UNCHANGED <<row, record, run, crashes, errors>>
    BY <1>7, <1>a DEF Tell, Framed, Frames
  <2>2. told[poller.at] <= crashes + errors /\ run[poller.at].job # NULL
    BY <1>a, <2>1 DEF Announced, Framed, Items
  <2>3. ASSUME NEW r \in Runs
        PROVE  /\ told'[r] <= 1 + crashes + errors
               /\ told'[r] <= crashes + errors \/ record[r].notified \/ r = poller.at
                                              \/ ~Tracked(run[r].job)
               /\ told'[r] > 0 => run[r].job # NULL
    BY <1>a, <2>1, <2>2 DEF Announced
  <2> QED BY <2>1, <2>3 DEF Announced, Tracked
<1>8. ASSUME MarkNotified PROVE Announced'
  <2>1. /\ poller.pc = "mark" /\ poller.at \in Runs /\ poller'.pc = "runs"
        /\ UNCHANGED <<row, run, told, crashes, errors>>
    BY <1>8, <1>a DEF MarkNotified, Framed, Frames
  <2>2. \A r \in Runs \ {poller.at} : record'[r] = record[r]
    BY <1>8, <1>a DEF MarkNotified
  <2>3. record'[poller.at].notified \/ ~Tracked(run[poller.at].job)
    BY <1>8, <1>a, <2>1 DEF MarkNotified, Announced
  <2> QED BY <2>1, <2>2, <2>3 DEF Announced, Tracked
<1>9. ASSUME PollFails PROVE Announced'
  <2>1. UNCHANGED <<row, record, run, told, crashes>> /\ errors' = errors + 1
    BY <1>9 DEF PollFails, Fails
  <2>2. poller'.pc \notin {"tell", "mark"}
    BY <1>9, <1>a, FailedIs
  <2>3. ASSUME NEW r \in Runs
        PROVE  told[r] <= crashes + errors' /\ (told[r] > 0 => run[r].job # NULL)
    BY <1>a, <2>1 DEF Announced
  <2> QED BY <1>a, <2>1, <2>2, <2>3 DEF Announced
<1>10. ASSUME TellFails PROVE Announced'
  <2>1. /\ poller.pc = "tell" /\ poller'.pc = "mark" /\ poller'.at = poller.at /\ errors' = errors + 1
        /\ UNCHANGED <<row, record, run, told, crashes>>
    BY <1>10, <1>a DEF TellFails, Fails, Frames
  <2>2. ASSUME NEW r \in Runs
        PROVE  told[r] <= crashes + errors' /\ (told[r] > 0 => run[r].job # NULL)
    BY <1>a, <2>1 DEF Announced
  <2> QED BY <1>a, <2>1, <2>2 DEF Announced, Tracked
<1>11. ASSUME Crash PROVE Announced'
  <2>1. /\ poller'.pc = "down" /\ crashes' = crashes + 1
        /\ UNCHANGED <<row, record, run, told, errors>>
    BY <1>11 DEF Crash, Down
  <2>2. ASSUME NEW r \in Runs
        PROVE  told[r] <= crashes' + errors /\ (told[r] > 0 => run[r].job # NULL)
    BY <1>a, <2>1 DEF Announced
  <2> QED BY <1>a, <2>1, <2>2 DEF Announced
<1>12. ASSUME Tick PROVE Announced'
  <2>1. /\ poller.pc \in {"down", "wait"} /\ poller'.pc = poller.pc
        /\ UNCHANGED <<record, told, crashes, errors>>
        /\ \A r \in Runs : run'[r].job = run[r].job
        /\ \A w \in Workflows : row'[w].job = row[w].job
    BY <1>12, <1>a DEF Tick, Frames, NoRun, TypeOK
  <2> QED BY <1>a, <2>1 DEF Announced, Tracked
<1>13. ASSUME CheckFlag PROVE Announced'
  BY <1>13, <1>a DEF CheckFlag, MaxWait, Announced, Tracked, Framed, Frames
<1>14. ASSUME ReadInstallations PROVE Announced'
  BY <1>14, <1>a DEF ReadInstallations, Items, Installed, Announced, Tracked, Framed, Frames
<1>15. ASSUME CacheFlag PROVE Announced'
  BY <1>15, <1>a DEF CacheFlag, Announced, Tracked, Framed, Frames
<1>16. ASSUME InstallationGone PROVE Announced'
  BY <1>16, <1>a DEF InstallationGone, Abort, Announced, Tracked, Framed, Frames
<1>17. ASSUME ListRuns PROVE Announced'
  BY <1>17, <1>a DEF ListRuns, Latest, Items, Sightings, RunsOf, Announced, Tracked, Framed, Frames
<1>18. ASSUME FinishInstallation PROVE Announced'
  BY <1>18, <1>a DEF FinishInstallation, Items, Announced, Tracked, Framed, Frames
<1>19. ASSUME FinishCycle PROVE Announced'
  BY <1>19, <1>a DEF FinishCycle, NextWait, MaxWait, Announced, Tracked, Framed, Frames
<1>20. ASSUME StartPolling PROVE Announced'
  BY <1>20, <1>a DEF StartPolling, Started, Down, MaxWait, Announced, Tracked, Framed, Frames
<1>21. ASSUME ResetFlag PROVE Announced'
  BY <1>21, <1>a DEF ResetFlag, IdleLoop, Announced, Tracked, Framed, Frames
<1>22. ASSUME NEW w \in Workflows, RemoveWorkflow(w) PROVE Announced'
  BY <1>22, <1>a DEF RemoveWorkflow, LoopIdle, Installed, Announced, Tracked, Framed, Frames
<1>23. ASSUME NEW j \in Jobs, DeleteJob(j) PROVE Announced'
  BY <1>23, <1>a DEF DeleteJob, Announced, Tracked, Framed, Frames
<1>24. ASSUME NEW r \in Runs, EndRun(r) PROVE Announced'
  BY <1>24, <1>a DEF EndRun, RunStates, Results, Announced, Tracked, Framed, Frames
<1>25. CASE UNCHANGED vars
  BY <1>25, <1>a DEF vars, Announced, Tracked
<1> QED
  BY <1>1, <1>2, <1>3, <1>4, <1>5, <1>6, <1>7, <1>8, <1>9, <1>10, <1>11, <1>12, <1>13, <1>14,
      <1>15, <1>16, <1>17, <1>18, <1>19, <1>20, <1>21, <1>22, <1>23, <1>24, <1>25 DEF Next, Poll

LEMMA AnnouncedInvariant == Spec => []Announced
<1>1. Init => Announced
  BY BoundsAssumption, NullIsNone DEF Init, Announced, Down, NoRun
<1>2. Core /\ Announced /\ [Next]_vars => Announced'
  BY AnnouncedStep
<1> QED BY <1>1, <1>2, CoreInvariant, PTL DEF Spec

-----------------------------------------------------------------------------
(* The installations, their records, the runs and the frame of the poller  *)
(* are always of their types: TypeOK.                                      *)
THEOREM JobTypeCorrect == Spec => []TypeOK
<1>1. Core => TypeOK
  BY DEF Core
<1> QED BY <1>1, CoreInvariant, PTL

(* A result is announced once, and once more at most for every crash and   *)
(* every error that came between an announcement and its mark              *)
(* (_poll_job_states, mark_as_notified): ToldOnce.                         *)
THEOREM AnnouncedAtMostOnce == Spec => []ToldOnce
<1>1. Announced => ToldOnce
  BY DEF Announced, ToldOnce
<1> QED BY <1>1, AnnouncedInvariant, PTL

-----------------------------------------------------------------------------
(* What deleting an installation does to the marks.                        *)
LEMMA UninstallUnmarks ==
    ASSUME Core, NEW w \in Workflows, row[w].job # NULL, Uninstall(w)
    PROVE  \A r \in Runs : record'[r].notified => record[r].notified
BY Uninstalled DEF NoRecord

LEMMA MarkedStep == ASSUME Core, MarkedWasTold, [Next]_vars PROVE MarkedWasTold'
<1> USE DEF installs, faults
<1>a. /\ TypeOK /\ Framed /\ poller \in Frames /\ told \in [Runs -> Nat] /\ errors \in Nat
      /\ record \in [Runs -> [state: RunStates \cup {"none"}, notified: BOOLEAN]]
      /\ loop.pc = "delete" => loop.wf \in Workflows /\ loop.job # NULL
  BY NullIsNone DEF Core, TypeOK, JobsOwned
<1>1. ASSUME UNCHANGED told, errors' \in Nat, errors' >= errors, poller'.pc # "mark",
             \A r \in Runs : record'[r].notified => record[r].notified
      PROVE  MarkedWasTold'
  BY <1>1, <1>a DEF MarkedWasTold
<1>2. ASSUME CleanUp PROVE MarkedWasTold'
  <2>1. PICK i \in poller.todo :
           /\ i[1] \in Workflows /\ i[2] \in Jobs
           /\ IF row[i[1]].job = i[2] THEN Uninstall(i[1]) ELSE UNCHANGED installs
    BY <1>2, <1>a DEF CleanUp, Frames, Items
  <2>2. UNCHANGED told /\ errors' \in Nat /\ errors' >= errors /\ poller'.pc # "mark"
    BY <1>2, <1>a DEF CleanUp, Fails, Frames
  <2>3. \A r \in Runs : record'[r].notified => record[r].notified
    <3>1. CASE UNCHANGED installs
      BY <3>1
    <3>2. CASE row[i[1]].job = i[2] /\ Uninstall(i[1])
      BY <2>1, <3>2, UninstallUnmarks, NullIsNone
    <3> QED BY <2>1, <3>1, <3>2
  <2> QED BY <1>1, <2>2, <2>3
<1>3. ASSUME DeleteRow PROVE MarkedWasTold'
  <2>1. \A r \in Runs : record'[r].notified => record[r].notified
    <3>1. CASE UNCHANGED installs
      BY <3>1
    <3>2. CASE row[loop.wf].job = loop.job /\ Uninstall(loop.wf)
      <4>1. loop.wf \in Workflows /\ row[loop.wf].job # NULL
        BY <1>3, <1>a, <3>2 DEF DeleteRow
      <4> QED BY <3>2, <4>1, UninstallUnmarks
    <3> QED BY <1>3, <3>1, <3>2 DEF DeleteRow
  <2> QED BY <1>3, <2>1 DEF DeleteRow, MarkedWasTold
<1>4. ASSUME NEW w \in Workflows, Reconcile(w) PROVE MarkedWasTold'
  <2>1. \A r \in Runs : record'[r].notified => record[r].notified
    BY <1>4, UninstallUnmarks DEF Reconcile, Installed
  <2> QED BY <1>4, <1>a, <2>1 DEF Reconcile, Fails, MarkedWasTold
<1>5. ASSUME ProcessRun PROVE MarkedWasTold'
  <2>1. PICK l \in poller.left :
           /\ record' = record \/ Upsert(l[1], l[2])
           /\ poller'.pc \in {"runs", "tell", "next"} /\ UNCHANGED <<told, errors>>
    <3>1. UNCHANGED <<told, errors>>
      BY <1>5 DEF ProcessRun
    <3> QED BY <1>5, <1>a, <3>1, ProcessRunChanges
  <2>2. \A r \in Runs : record'[r].notified = record[r].notified
    BY <1>a, <2>1 DEF Upsert
  <2> QED BY <1>1, <1>a, <2>1, <2>2
<1>6. ASSUME Tell PROVE MarkedWasTold'
  <2>1. poller.at \in Runs /\ poller'.at = poller.at /\ told' = [told EXCEPT ![poller.at] = @ + 1]
        /\ UNCHANGED <<record, errors>>
    BY <1>6, <1>a DEF Tell, Framed, Frames
  <2> QED BY <1>a, <2>1 DEF MarkedWasTold
<1>7. ASSUME MarkNotified PROVE MarkedWasTold'
  <2>1. poller.pc = "mark" /\ poller.at \in Runs /\ poller'.pc = "runs" /\ UNCHANGED <<told,
      errors>>
    BY <1>7, <1>a DEF MarkNotified, Framed, Frames
  <2>2. \A r \in Runs \ {poller.at} : record'[r] = record[r]
    BY <1>7, <1>a DEF MarkNotified
  <2> QED BY <2>1, <2>2 DEF MarkedWasTold
<1>8. ASSUME TellFails \/ PollFails PROVE MarkedWasTold'
  <2>1. errors' = errors + 1
    BY <1>8 DEF TellFails, PollFails, Fails
  <2> QED BY <1>a, <2>1 DEF MarkedWasTold
<1>9. ASSUME NEW w \in Workflows, InstallWorkflow(w) PROVE MarkedWasTold'
  BY <1>9, <1>a DEF InstallWorkflow, Fails, MarkedWasTold
<1>10. ASSUME Crash \/ StartPolling PROVE MarkedWasTold'
  BY <1>10, <1>1, <1>a DEF Crash, StartPolling, Down, Started
<1>11. ASSUME \/ CheckFlag \/ ReadInstallations \/ CacheFlag \/ InstallationGone \/ ListRuns
              \/ FinishInstallation \/ FinishCycle
       PROVE  MarkedWasTold'
  <2>1. UNCHANGED <<told, errors, record>> /\ poller'.pc # "mark"
    BY <1>11, <1>a DEF CheckFlag, ReadInstallations, CacheFlag, InstallationGone, ListRuns,
                     FinishInstallation, FinishCycle, Abort, Frames
  <2> QED BY <1>1, <1>a, <2>1
<1>12. ASSUME ResetFlag \/ Tick PROVE MarkedWasTold'
  <2>1. UNCHANGED <<told, errors, record>> /\ poller'.pc = poller.pc /\ poller'.at = poller.at
    BY <1>12, <1>a DEF ResetFlag, Tick, Frames
  <2> QED BY <2>1 DEF MarkedWasTold
<1> QED
  BY <1>2, <1>3, <1>4, <1>5, <1>6, <1>7, <1>8, <1>9, <1>10, <1>11, <1>12
  DEF vars, Next, Poll, RemoveWorkflow, StartRun, DeleteJob, EndRun, 
      MarkedWasTold

(* Without a swallowed error a run is marked as notified only after        *)
(* somebody was told of its result (_poll_job_states): NotifiedWasTold.    *)
THEOREM MarksAreEarned == Spec => []NotifiedWasTold
<1>1. Init => MarkedWasTold
  BY DEF Init, MarkedWasTold, NoRecord, Down
<1>2. Core /\ MarkedWasTold /\ [Next]_vars => MarkedWasTold'
  BY MarkedStep
<1>3. MarkedWasTold => NotifiedWasTold
  BY DEF MarkedWasTold, NotifiedWasTold
<1> QED BY <1>1, <1>2, <1>3, CoreInvariant, PTL DEF Spec

(* The poller tells of every result at most once but for crashes and       *)
(* errors, and marks only runs it told of: AnnouncedOnce.                  *)
THEOREM TellsThenMarks == Spec => []AnnouncedOnce
<1>1. ToldOnce /\ NotifiedWasTold => AnnouncedOnce
  BY DEF AnnouncedOnce
<1> QED BY <1>1, AnnouncedAtMostOnce, MarksAreEarned, PTL

-----------------------------------------------------------------------------
LEMMA TrackedStep == ASSUME Core, JobsAreTracked, [Next]_vars PROVE JobsAreTracked'
<1> USE NullIsNone DEF installs, faults
<1>a. /\ TypeOK /\ Framed /\ JobsOwned /\ poller \in Frames /\ errors \in Nat
      /\ cloud \in [Jobs -> {"unused", "live", "deleted"}]
      /\ loop.pc = "delete" => loop.wf \in Workflows /\ loop.job \in Jobs
                               /\ cloud[loop.job] = "deleted"
  BY DEF Core, TypeOK, JobsOwned
<1>1. ASSUME NEW w \in Workflows, row[w].job # NULL, Uninstall(w), UNCHANGED cloud,
             errors' \in {errors, errors + 1},
             errors' = errors => cloud[row[w].job] # "live"
      PROVE  JobsAreTracked'
  <2> SUFFICES ASSUME errors' = 0, NEW k \in Jobs, cloud[k] = "live" PROVE Tracked(k)'
    BY <1>1 DEF JobsAreTracked
  <2>1. errors = 0 /\ errors' = errors
    BY <1>1, <1>a
  <2>2. Tracked(k) /\ k # row[w].job
    BY <1>1, <2>1 DEF JobsAreTracked
  <2>3. \E x \in Workflows : row'[x].job = k
    BY <1>1, <2>2, Uninstalled
  <2> QED BY <2>3 DEF Tracked
<1>2. ASSUME CleanUp PROVE JobsAreTracked'
  <2>1. PICK i \in poller.todo :
           /\ i[1] \in Workflows /\ i[2] \in Jobs
           /\ IF row[i[1]].job = i[2] THEN Uninstall(i[1]) ELSE UNCHANGED installs
           /\ \/ cloud[i[2]] # "live" /\ UNCHANGED errors
              \/ errors' = errors + 1
    BY <1>2, <1>a DEF CleanUp, Frames, Items, Fails
  <2>2. UNCHANGED cloud
    BY <1>2 DEF CleanUp
  <2>3. CASE UNCHANGED installs
    BY <1>a, <2>1, <2>2, <2>3 DEF JobsAreTracked, Tracked
  <2>4. CASE row[i[1]].job = i[2] /\ Uninstall(i[1])
    BY <1>1, <1>a, <2>1, <2>2, <2>4
  <2> QED BY <2>1, <2>3, <2>4
<1>3. ASSUME DeleteRow PROVE JobsAreTracked'
  <2>1. CASE UNCHANGED installs
    BY <1>3, <2>1 DEF DeleteRow, JobsAreTracked, Tracked
  <2>2. CASE row[loop.wf].job = loop.job /\ Uninstall(loop.wf)
    BY <1>1, <1>3, <1>a, <2>2 DEF DeleteRow
  <2> QED BY <1>3, <2>1, <2>2 DEF DeleteRow
<1>4. ASSUME NEW w \in Workflows, Reconcile(w) PROVE JobsAreTracked'
  BY <1>1, <1>4, <1>a DEF Reconcile, Installed, Fails
<1>5. ASSUME NEW w \in Workflows, InstallWorkflow(w) PROVE JobsAreTracked'
  <2>1. PICK j \in Jobs :
           /\ cloud' = [cloud EXCEPT ![j] = "live"] /\ row[w].job = NULL
           /\ \/ row' = [row EXCEPT ![w] = [Absent EXCEPT !.job = j]] /\ UNCHANGED errors
              \/ errors' = errors + 1
    BY <1>5 DEF InstallWorkflow, Installed, Fails
  <2>2. CASE errors' = errors + 1
    BY <1>a, <2>2 DEF JobsAreTracked
  <2>3. CASE row' = [row EXCEPT ![w] = [Absent EXCEPT !.job = j]] /\ UNCHANGED errors
    <3> SUFFICES ASSUME errors = 0, NEW k \in Jobs, cloud'[k] = "live" PROVE Tracked(k)'
      BY <2>3 DEF JobsAreTracked
    <3>1. DOMAIN row = Workflows /\ row'[w].job = j /\ \A x \in Workflows \ {w} : row'[x] = row[x]
      BY <1>a, <2>3 DEF TypeOK, Absent
    <3>2. CASE k = j
      BY <3>1, <3>2 DEF Tracked
    <3>3. CASE k # j
      <4>1. PICK x \in Workflows : row[x].job = k
        BY <1>a, <2>1, <3>3 DEF JobsAreTracked, Tracked
      <4>2. row'[x].job = k
        BY <2>1, <3>1, <4>1
      <4> QED BY <4>2 DEF Tracked
    <3> QED BY <3>2, <3>3
  <2> QED BY <2>1, <2>2, <2>3
<1>6. ASSUME FinishInstallation PROVE JobsAreTracked'
  BY <1>6, <1>a DEF FinishInstallation, Framed, JobsAreTracked, Tracked
<1>7. ASSUME Tick PROVE JobsAreTracked'
  <2>1. UNCHANGED <<cloud, errors>> /\ \A w \in Workflows : row'[w].job = row[w].job
    BY <1>7, <1>a DEF Tick, TypeOK
  <2> QED BY <2>1 DEF JobsAreTracked, Tracked
<1>8. ASSUME NEW w \in Workflows, RemoveWorkflow(w) PROVE JobsAreTracked'
  BY <1>8, <1>a DEF RemoveWorkflow, JobsAreTracked, Tracked
<1>9. ASSUME NEW j \in Jobs, DeleteJob(j) PROVE JobsAreTracked'
  BY <1>9, <1>a DEF DeleteJob, JobsAreTracked, Tracked
<1>10. ASSUME TellFails \/ PollFails PROVE JobsAreTracked'
  <2>1. errors' = errors + 1
    BY <1>10 DEF TellFails, PollFails, Fails
  <2> QED BY <1>a, <2>1 DEF JobsAreTracked
<1>11. ASSUME UNCHANGED <<row, cloud, errors>> PROVE JobsAreTracked'
  BY <1>11 DEF JobsAreTracked, Tracked
<1> QED
  BY <1>2, <1>3, <1>4, <1>5, <1>6, <1>7, <1>8, <1>9, <1>10, <1>11
  DEF vars, Next, Poll, CheckFlag, ReadInstallations, CacheFlag, InstallationGone, ListRuns,
      ProcessRun, Tell, MarkNotified, FinishCycle, StartPolling, ResetFlag, StartRun,
      EndRun, Crash

(* Every job that exists has a row as long as no call failed               *)
(* (install_workflow, remove_workflow, the clean-up of the poller):        *)
(* JobsAreTracked.                                                         *)
THEOREM NoOrphanJobs == Spec => []JobsAreTracked
<1>1. Init => JobsAreTracked
  BY DEF Init, JobsAreTracked
<1>2. Core /\ JobsAreTracked /\ [Next]_vars => JobsAreTracked'
  BY TrackedStep
<1> QED BY <1>1, <1>2, CoreInvariant, PTL DEF Spec

-----------------------------------------------------------------------------
LEMMA NoticedStep == ASSUME Core, Noticed, [Next]_vars PROVE Noticed'
<1> USE NullIsNone DEF installs, faults
<1>a. /\ TypeOK /\ Framed /\ JobsOwned /\ poller \in Frames
      /\ loop.pc = "delete" => loop.wf \in Workflows
  BY DEF Core, TypeOK, JobsOwned
<1>b. Unseen => (\A w \in Workflows : row[w].job = NULL) \/ loop.pc = "reset" \/ poller.raced
  BY DEF Unseen, Installed
<1>1. ASSUME NEW w \in Workflows, row[w].job # NULL, Uninstall(w), UNCHANGED flag,
             poller'.pc = poller.pc, poller'.raced = poller.raced,
             poller.pc = "flag" => poller'.todo = poller.todo, loop.pc # "reset"
      PROVE  Noticed'
  <2>1. \A x \in Workflows : row'[x].job = NULL \/ row'[x].job = row[x].job
    BY <1>1, Uninstalled DEF Absent
  <2>2. Unseen => Unseen'
    BY <1>1, <2>1 DEF Unseen, Installed
  <2> QED BY <1>1, <2>2 DEF Noticed
<1>2. ASSUME CleanUp PROVE Noticed'
  <2>1. PICK i \in poller.todo :
           /\ i[1] \in Workflows /\ i[2] \in Jobs
           /\ IF row[i[1]].job = i[2] THEN Uninstall(i[1]) ELSE UNCHANGED installs
    BY <1>2, <1>a DEF CleanUp, Frames, Items
  <2>2. /\ poller.pc = "next" /\ poller'.pc = "next" /\ poller'.raced = poller.raced
        /\ UNCHANGED <<flag, loop>>
    BY <1>2, <1>a DEF CleanUp, Frames
  <2>3. CASE UNCHANGED installs
    BY <2>2, <2>3 DEF Noticed, Unseen, Installed
  <2>4. CASE row[i[1]].job = i[2] /\ Uninstall(i[1])
    <3>1. \A x \in Workflows : row'[x].job = NULL \/ row'[x].job = row[x].job
      BY <2>1, <2>4, Uninstalled DEF Absent
    <3>2. Unseen => Unseen'
      BY <2>2, <3>1 DEF Unseen, Installed
    <3> QED BY <2>2, <3>2 DEF Noticed
  <2> QED BY <2>1, <2>3, <2>4
<1>3. ASSUME DeleteRow PROVE Noticed'
  <2>1. \A x \in Workflows : row'[x].job = NULL \/ row'[x].job = row[x].job
    <3>1. CASE UNCHANGED installs
      BY <3>1
    <3>2. CASE row[loop.wf].job # NULL /\ Uninstall(loop.wf)
      BY <1>3, <1>a, <3>2, Uninstalled DEF DeleteRow, Absent
    <3>3. CASE row[loop.wf].job = NULL /\ Uninstall(loop.wf)
      BY <1>3, <1>a, <3>3 DEF DeleteRow, Uninstall, Absent, TypeOK
    <3> QED BY <1>3, <3>1, <3>2, <3>3 DEF DeleteRow
  <2>2. loop.pc = "delete" /\ UNCHANGED <<flag, poller>>
    BY <1>3 DEF DeleteRow
  <2>3. Unseen => Unseen'
    BY <2>1, <2>2 DEF Unseen, Installed
  <2> QED BY <2>2, <2>3 DEF Noticed
<1>4. ASSUME NEW w \in Workflows, Reconcile(w) PROVE Noticed'
  BY <1>1, <1>4 DEF Reconcile, Installed, LoopIdle
<1>5. ASSUME NEW w \in Workflows, InstallWorkflow(w) PROVE Noticed'
  <2>1. loop.pc # "reset" /\ UNCHANGED <<flag, poller>>
    BY <1>5 DEF InstallWorkflow, LoopIdle
  <2>2. loop'.pc = "reset" \/ UNCHANGED row
    BY <1>5 DEF InstallWorkflow
  <2>3. Unseen => Unseen'
    BY <2>1, <2>2 DEF Unseen, Installed
  <2> QED BY <2>1, <2>3 DEF Noticed
<1>6. ASSUME NEW w \in Workflows, RemoveWorkflow(w) PROVE Noticed'
  BY <1>6 DEF RemoveWorkflow, LoopIdle, Noticed, Unseen, Installed
<1>7. ASSUME CheckFlag PROVE Noticed'
  <2>1. /\ UNCHANGED <<row, flag, loop>> /\ poller'.raced = poller.raced
        /\ poller'.pc = "wait" \/ (poller'.pc = "read" /\ flag # "none")
    BY <1>7, <1>a DEF CheckFlag, Frames
  <2> QED BY <2>1 DEF Noticed, Unseen, Installed
<1>8. ASSUME ReadInstallations PROVE Noticed'
  <2>1. /\ UNCHANGED <<row, flag, loop>> /\ poller'.pc = "flag" /\ poller.pc = "read"
        /\ poller'.todo = {<<w, row[w].job>> : w \in {w \in Workflows : Installed(w)}}
    BY <1>8, <1>a DEF ReadInstallations, Frames
  <2>2. poller'.todo = {} => \A w \in Workflows : ~Installed(w)
    BY <2>1
  <2> QED BY <2>1, <2>2 DEF Noticed, Unseen, Installed
<1>9. ASSUME CacheFlag PROVE Noticed'
  <2>1. /\ UNCHANGED <<row, loop>> /\ poller.pc = "flag" /\ poller'.pc = "next"
        /\ poller'.raced = poller.raced /\ (flag' = "none" => poller.todo = {})
    BY <1>9, <1>a DEF CacheFlag, Frames
  <2> QED BY <2>1 DEF Noticed, Unseen, Installed
<1>10. ASSUME \/ InstallationGone \/ ListRuns \/ ProcessRun \/ Tell \/ TellFails \/ MarkNotified
              \/ FinishInstallation \/ FinishCycle \/ PollFails
       PROVE  Noticed'
  <2> DEFINE Kept == /\ UNCHANGED <<row, flag, loop>> /\ poller'.raced = poller.raced
                     /\ poller'.pc \in {"next", "runs", "tell", "mark", "wait"}
  <2>1. ASSUME InstallationGone PROVE Kept
    BY <1>a, <2>1 DEF InstallationGone, Abort, Frames
  <2>2. ASSUME ListRuns PROVE Kept
    BY <1>a, <2>2 DEF ListRuns, Frames
  <2>3. ASSUME ProcessRun PROVE Kept
    <3>1. poller'.raced = poller.raced /\ poller'.pc \in {"next", "runs", "tell"}
      BY <1>a, <2>3, ProcessRunChanges
    <3> QED BY <2>3, <3>1 DEF ProcessRun
  <2>4. ASSUME Tell \/ TellFails \/ MarkNotified PROVE Kept
    <3>1. UNCHANGED <<row, flag, loop>>
      BY <2>4 DEF Tell, TellFails, MarkNotified
    <3>2. CASE poller' = [poller EXCEPT !.pc = "mark", !.fresh = FALSE]
      BY <1>a, <3>1, <3>2 DEF Frames
    <3>3. CASE poller' = [poller EXCEPT !.pc = "mark"]
      BY <1>a, <3>1, <3>3 DEF Frames
    <3>4. CASE poller' = [poller EXCEPT !.pc = "runs", !.at = NULL, !.fresh = FALSE]
      BY <1>a, <3>1, <3>4 DEF Frames
    <3> QED BY <2>4, <3>2, <3>3, <3>4 DEF Tell, TellFails, MarkNotified
  <2>5. ASSUME FinishInstallation PROVE Kept
    BY <1>a, <2>5 DEF FinishInstallation, Framed, Frames
  <2>6. ASSUME FinishCycle PROVE Kept
    BY <1>a, <2>6 DEF FinishCycle, Frames
  <2>7. ASSUME PollFails PROVE Kept
    <3>1. UNCHANGED <<row, flag, loop>>
      BY <2>7 DEF PollFails
    <3> QED BY <1>a, <2>7, <3>1, FailedIs
  <2>8. Kept
    BY <1>10, <2>1, <2>2, <2>3, <2>4, <2>5, <2>6, <2>7
  <2> QED BY <2>8 DEF Noticed, Unseen, Installed
<1>11. ASSUME ResetFlag PROVE Noticed'
  <2>1. /\ flag' = "unknown" /\ poller'.pc = poller.pc
        /\ poller'.raced = (poller.raced \/ poller.pc = "flag")
    BY <1>11, <1>a DEF ResetFlag, Frames
  <2> QED BY <2>1 DEF Noticed, Unseen
<1>12. ASSUME Crash PROVE Noticed'
  BY <1>12 DEF Crash, Down, Noticed
<1>13. ASSUME StartPolling PROVE Noticed'
  BY <1>13 DEF StartPolling, Down, Started, Noticed
<1>14. ASSUME Tick PROVE Noticed'
  <2>1. /\ UNCHANGED <<flag, loop>> /\ poller'.raced = poller.raced
        /\ poller'.pc = poller.pc /\ poller'.todo = poller.todo
        /\ \A w \in Workflows : row'[w].job = row[w].job
    BY <1>14, <1>a DEF Tick, TypeOK, Frames
  <2> QED BY <2>1 DEF Noticed, Unseen, Installed
<1>15. ASSUME UNCHANGED <<row, flag, loop, poller>> PROVE Noticed'
  BY <1>15 DEF Noticed, Unseen, Installed
<1> QED
  BY <1>2, <1>3, <1>4, <1>5, <1>6, <1>7, <1>8, <1>9, <1>10, <1>11, <1>12, <1>13, <1>14, <1>15
  DEF vars, Next, Poll, StartRun, DeleteJob, EndRun

(* The poller does not park itself while something is installed, unless    *)
(* the installation and its reset of the flag fell between the poller's    *)
(* read and its write of the flag (_poll_job_states, install_workflow):    *)
(* InstalledIsNoticed.                                                     *)
THEOREM ParkedMeansEmpty == Spec => []InstalledIsNoticed
<1>1. Init => Noticed
  BY DEF Init, Noticed, Down
<1>2. Core /\ Noticed /\ [Next]_vars => Noticed'
  BY NoticedStep
<1>3. Noticed => InstalledIsNoticed
  BY DEF Noticed, Unseen, InstalledIsNoticed, LoopIdle
<1> QED BY <1>1, <1>2, <1>3, CoreInvariant, PTL DEF Spec

-----------------------------------------------------------------------------
LEMMA UninstallSighted ==
    ASSUME Core, Sighted, NEW w \in Workflows, row[w].job # NULL, Uninstall(w),
           UNCHANGED <<run, cloud>>,
           \/ poller' = poller
           \/ /\ poller' = [poller EXCEPT !.todo = @ \ {<<w, row[w].job>>}, !.fresh = FALSE]
              /\ poller.pc = "next"
    PROVE  Sighted'
<1> USE NullIsNone
<1>0. PICK j \in Jobs : j = row[w].job
  BY DEF Core, TypeOK
<1>1. ~Tracked(j)'
  BY <1>0, Uninstalled DEF Tracked
<1>2. \A r \in Runs : run[r].job # j => record'[r] = record[r]
  BY <1>0, Uninstalled
<1>3. \A x \in Workflows : row'[x].job = NULL \/ row'[x].job = row[x].job
  BY Uninstalled DEF Absent
<1>4. \A k : k # NULL /\ ~Tracked(k) => ~Tracked(k)'
  BY <1>3 DEF Tracked
<1>5. /\ poller \in Frames /\ poller.due \subseteq Runs /\ poller.todo \subseteq Items
      /\ \A r \in poller.due : run[r].job # NULL
  BY DEF Core, TypeOK, Frames, Sighted, RunStates, Results
<1>6. /\ poller'.todo \subseteq poller.todo /\ poller'.due = poller.due /\ poller'.pc = poller.pc
      /\ poller'.cut = poller.cut /\ poller'.left = poller.left /\ poller'.at = poller.at
      /\ \A i \in poller.todo : i[2] # j => i \in poller'.todo
  <2>1. CASE poller' = poller
    BY <2>1
  <2>2. CASE poller' = [poller EXCEPT !.todo = @ \ {<<w, j>>}, !.fresh = FALSE]
    <3>1. poller'.todo = poller.todo \ {<<w, j>>}
      BY <1>5, <2>2 DEF Frames
    <3>2. \A i \in poller.todo : i[2] # j => i \in poller'.todo
      BY <3>1
    <3> QED BY <1>5, <2>2, <3>1, <3>2 DEF Frames
  <2> QED BY <1>0, <2>1, <2>2
<1>7. ASSUME NEW r \in poller.due, InHand(r) PROVE InHand(r)'
  <2>1. CASE run[r].job = j
    BY <1>1, <2>1 DEF InHand
  <2>2. CASE run[r].job # j
    <3>1. record'[r] = record[r] /\ run' = run
      BY <1>2, <1>5, <2>2
    <3>2. CASE ~Tracked(run[r].job)
      <4>1. PICK k : k = run[r].job
        OBVIOUS
      <4> QED BY <1>4, <1>5, <3>1, <3>2, <4>1 DEF InHand
    <3>3. CASE \E i \in poller.todo : i[2] = run[r].job
      BY <1>6, <2>2, <3>1, <3>3 DEF InHand
    <3> QED BY <1>7, <1>6, <3>1, <3>2, <3>3 DEF InHand, Recorded
  <2> QED BY <2>1, <2>2
<1>8. \A i \in poller'.todo :
         cloud'[i[2]] # "unused" /\ \A x \in Workflows : row'[x].job = i[2] => x = i[1]
  BY <1>3, <1>5, <1>6 DEF Sighted, Items
<1>9. poller'.pc \notin {"down", "read"} /\ ~poller'.cut => \A r \in poller'.due : InHand(r)'
  BY <1>6, <1>7 DEF Sighted
<1> QED BY <1>6, <1>8, <1>9 DEF Sighted

(* Steps that touch neither the rows and records nor the work of the cycle. *)
LEMMA InHandKept ==
    ASSUME NEW r, InHand(r), run'[r].job = run[r].job, run'[r].state = run[r].state,
           \A w \in Workflows : row'[w].job = row[w].job,
           record' = record, poller.todo \subseteq poller'.todo, poller.left \subseteq poller'.left,
           poller.pc \in {"tell", "mark"} => poller'.pc \in {"tell", "mark"},
           poller'.at = poller.at
    PROVE  InHand(r)'
<1>1. Tracked(run[r].job)' => Tracked(run[r].job)
  BY DEF Tracked
<1>2. Recorded(r) => Recorded(r)'
  BY DEF Recorded
<1> QED BY <1>1, <1>2 DEF InHand

LEMMA SightedKept ==
    ASSUME Core, Sighted,
           \A w \in Workflows : row'[w].job = row[w].job,
           record' = record,
           \A r \in Runs : run[r].state \in Results => run'[r] = run[r],
           \A r \in Runs : run'[r].state # "none" => run'[r].job # NULL,
           \A j \in Jobs : cloud[j] # "unused" => cloud'[j] # "unused",
           poller'.todo = poller.todo, poller'.due = poller.due, poller'.pc = poller.pc,
           poller'.cut = poller.cut, poller'.left = poller.left, poller'.at = poller.at
    PROVE  Sighted'
<1>1. /\ poller'.todo = poller.todo /\ poller'.due = poller.due /\ poller'.pc = poller.pc
      /\ poller'.cut = poller.cut /\ poller'.left = poller.left /\ poller'.at = poller.at
  OBVIOUS
<1>2. poller.due \subseteq Runs /\ poller.todo \subseteq Items
  BY DEF Core, TypeOK, Frames
<1>3. \A r \in poller.due : run'[r] = run[r]
  BY <1>2 DEF Sighted
<1>4. \A r \in poller.due : InHand(r) => InHand(r)'
  BY <1>1, <1>3, InHandKept
<1>5. \A i \in poller'.todo :
         cloud'[i[2]] # "unused" /\ \A x \in Workflows : row'[x].job = i[2] => x = i[1]
  BY <1>1, <1>2 DEF Sighted, Items
<1>6. /\ \A r \in poller'.due : run'[r].state \in Results
      /\ poller'.pc = "down" => poller'.due = {}
      /\ poller'.pc \notin {"down", "wait", "read"} /\ ~poller'.cut =>
            \A r \in poller'.due : run'[r].age <= Backfill
      /\ poller'.pc \notin {"down", "read"} =>
            \A l \in poller'.left : l[1] \in poller'.due => l[2] = run'[l[1]].state
  BY <1>1, <1>3 DEF Sighted
<1>7. poller'.pc \notin {"down", "read"} /\ ~poller'.cut => \A r \in poller'.due : InHand(r)'
  BY <1>1, <1>4 DEF Sighted
<1> QED BY <1>5, <1>6, <1>7 DEF Sighted

(* Steps of the poller that leave the rows, the runs and the jobs alone:   *)
(* what they owe.                                                          *)
LEMMA SightedMoves ==
    ASSUME Core, Sighted, UNCHANGED <<row, run, cloud>>,
           poller' \in Frames, poller.pc # "down", poller'.pc # "down",
           poller'.todo \subseteq poller.todo,
           poller'.due = poller.due,
           poller'.pc \notin {"wait", "read"} /\ ~poller'.cut =>
               poller.pc \notin {"wait", "read"} /\ ~poller.cut,
           \A l \in poller'.left : l[1] \in Runs => l[2] = run[l[1]].state
                                   \/ (l \in poller.left /\ poller.pc # "read"),
           poller'.pc # "read" /\ ~poller'.cut => \A r \in poller.due : InHand(r)'
    PROVE  Sighted'
<1>1. poller.due \subseteq Runs
  BY DEF Core, TypeOK, Frames
<1>2. \A i \in poller'.todo :
         cloud'[i[2]] # "unused" /\ \A x \in Workflows : row'[x].job = i[2] => x = i[1]
  BY DEF Sighted
<1>3. /\ \A r \in poller'.due : run'[r].state \in Results
      /\ poller'.pc \notin {"down", "wait", "read"} /\ ~poller'.cut =>
            \A r \in poller'.due : run'[r].age <= Backfill
  BY DEF Sighted
<1>4. poller'.pc \notin {"down", "read"} =>
            \A l \in poller'.left : l[1] \in poller'.due => l[2] = run'[l[1]].state
  BY <1>1 DEF Sighted
<1>5. poller'.pc \notin {"down", "read"} /\ ~poller'.cut => \A r \in poller'.due : InHand(r)'
  OBVIOUS
<1>6. \A r \in Runs : run'[r].state # "none" => run'[r].job # NULL
  BY DEF Sighted
<1> QED BY <1>2, <1>3, <1>4, <1>5, <1>6 DEF Sighted

LEMMA SightedStep == ASSUME Core, Sighted, [Next]_vars PROVE Sighted'
<1> USE NullIsNone DEF installs, faults
<1>a. /\ TypeOK /\ Framed /\ JobsOwned /\ RecordsOwned /\ poller \in Frames
      /\ poller.due \subseteq Runs /\ poller.todo \subseteq Items /\ poller.left \subseteq Sightings
      /\ run \in [Runs -> [job: Jobs \cup {NULL}, age: Nat, state: RunStates \cup {"none"}]]
      /\ record \in [Runs -> [state: RunStates \cup {"none"}, notified: BOOLEAN]]
  BY DEF Core, TypeOK, Frames
<1>b. poller' \in Frames
  BY TypeStep DEF TypeOK
<1>c. poller.pc \in {"down", "wait", "read", "flag", "next"} => poller.left = {}
  BY <1>a DEF Framed
<1>1. ASSUME CheckFlag PROVE Sighted'
  <2>1. /\ UNCHANGED <<row, record, run, cloud>> /\ poller.pc = "wait"
        /\ poller'.todo = poller.todo /\ poller'.left = {}
        /\ \/ poller'.pc = "wait" /\ poller'.due = {}
           \/ poller'.pc = "read" /\ poller'.due = poller.due
    BY <1>1, <1>a, <1>c DEF CheckFlag, Frames
  <2> QED BY <2>1 DEF Sighted
<1>2. ASSUME ReadInstallations PROVE Sighted'
  <2>1. /\ UNCHANGED <<row, record, run, cloud>> /\ poller.pc = "read" /\ poller'.pc = "flag"
        /\ poller'.left = {}
        /\ poller'.todo = {<<w, row[w].job>> : w \in {w \in Workflows : Installed(w)}}
        /\ poller'.due = {r \in Runs : /\ Tracked(run[r].job) /\ run[r].state \in Results
                                       /\ run[r].age <= Backfill}
    BY <1>2, <1>a, <1>c DEF ReadInstallations, Frames
  <2>2. \A i \in poller'.todo :
           cloud'[i[2]] # "unused" /\ \A w \in Workflows : row'[w].job = i[2] => w = i[1]
    BY <1>a, <2>1 DEF JobsOwned, Installed
  <2>3. ASSUME NEW r \in poller'.due PROVE InHand(r)'
    <3>1. run[r].job # NULL
      BY <2>1, <2>3 DEF Sighted, Results
    <3>2. PICK w \in Workflows : row[w].job = run[r].job
      BY <2>1, <2>3 DEF Tracked
    <3>3. <<w, row[w].job>> \in poller'.todo
      BY <2>1, <3>1, <3>2 DEF Installed
    <3> QED BY <2>1, <3>2, <3>3 DEF InHand
  <2> QED BY <2>1, <2>2, <2>3 DEF Sighted
<1>3. ASSUME CacheFlag PROVE Sighted'
  <2>1. /\ UNCHANGED <<row, record, run, cloud>> /\ poller.pc = "flag" /\ poller'.pc = "next"
        /\ poller'.left = {} /\ poller.left = {} /\ poller'.todo = poller.todo
        /\ poller'.due = poller.due /\ poller'.cut = poller.cut
    BY <1>3, <1>a, <1>c DEF CacheFlag, Frames
  <2>2. \A r \in poller.due : InHand(r) => InHand(r)'
    BY <2>1 DEF InHand, Recorded, Tracked
  <2> QED BY <1>b, <2>1, <2>2, SightedMoves DEF Sighted
<1>4. ASSUME InstallationGone PROVE Sighted'
  <2>1. /\ UNCHANGED <<row, record, run, cloud>> /\ poller.pc = "next" /\ poller'.pc = "next"
        /\ poller'.left = {} /\ poller'.todo = {} /\ poller'.due = poller.due /\ poller'.cut
    BY <1>4, <1>a DEF InstallationGone, Abort, Frames
  <2> QED BY <1>b, <2>1, SightedMoves
<1>5. ASSUME CleanUp PROVE Sighted'
  <2>1. PICK i \in poller.todo :
           /\ IF row[i[1]].job = i[2] THEN Uninstall(i[1]) ELSE UNCHANGED installs
           /\ poller' = [poller EXCEPT !.todo = @ \ {i}, !.fresh = FALSE]
    BY <1>5 DEF CleanUp
  <2>2. /\ i \in Workflows \X Jobs /\ i[1] \in Workflows /\ i[2] \in Jobs /\ i = <<i[1], i[2]>>
        /\ poller.pc = "next" /\ UNCHANGED <<run, cloud>>
    BY <1>5, <1>a, <2>1 DEF CleanUp, Items
  <2>3. CASE row[i[1]].job = i[2] /\ Uninstall(i[1])
    <3>1. row[i[1]].job # NULL /\ i = <<i[1], row[i[1]].job>>
      BY <2>2, <2>3
    <3> QED BY <2>1, <2>2, <2>3, <3>1, UninstallSighted
  <2>4. CASE row[i[1]].job # i[2] /\ UNCHANGED installs
    <3>1. ~Tracked(i[2])
      BY <2>1, <2>4 DEF Sighted, Tracked
    <3>2. /\ poller'.pc = "next" /\ poller'.left = {} /\ poller.left = {}
          /\ poller'.todo = poller.todo \ {i} /\ poller'.due = poller.due /\ poller'.cut = poller.cut
      BY <1>a, <1>c, <2>1, <2>2 DEF Frames
    <3>3. ASSUME NEW r \in poller.due, InHand(r) PROVE InHand(r)'
      BY <2>2, <2>4, <3>1, <3>2, <3>3 DEF InHand, Recorded, Tracked
    <3> QED BY <1>b, <2>2, <2>4, <3>2, <3>3, SightedMoves DEF Sighted
  <2> QED BY <2>1, <2>3, <2>4
<1>6. ASSUME ListRuns PROVE Sighted'
  <2>1. PICK i \in poller.todo :
           poller' = [poller EXCEPT !.pc = "runs", !.todo = @ \ {i}, !.item = i,
                        !.left = {<<r, run[r].state>> :
                                     r \in {r \in RunsOf(i[2]) : run[r].age <= LookBack(i)}},
                        !.latest = NULL]
    BY <1>6 DEF ListRuns, Latest
  <2>2. /\ UNCHANGED <<row, record, run, cloud>> /\ poller.pc = "next" /\ i[1] \in Workflows
    BY <1>6, <1>a, <2>1 DEF ListRuns, Items
  <2>3. LookBack(i) = Backfill
    BY <1>a, <2>2 DEF LookBack, JobsOwned
  <2>4. /\ poller'.pc = "runs" /\ poller'.due = poller.due /\ poller'.cut = poller.cut
        /\ poller'.todo = poller.todo \ {i}
        /\ poller'.left = {<<r, run[r].state>> :
                              r \in {r \in RunsOf(i[2]) : run[r].age <= Backfill}}
    BY <1>a, <2>1, <2>3 DEF Frames
  <2>5. \A l \in poller'.left : l[2] = run[l[1]].state
    BY <2>4
  <2>6. ASSUME NEW r \in poller.due, InHand(r), run[r].age <= Backfill PROVE InHand(r)'
    <3>1. CASE run[r].job = i[2]
      <4>1. r \in {q \in RunsOf(i[2]) : run[q].age <= Backfill}
        BY <1>a, <2>6, <3>1 DEF RunsOf
      <4>2. <<r, run[r].state>> \in poller'.left
        BY <2>4, <4>1
      <4> QED BY <2>2, <4>2 DEF InHand
    <3>2. CASE run[r].job # i[2]
      <4>1. poller.left = {}
        BY <1>c, <2>2
      <4> QED BY <2>2, <2>4, <2>6, <3>2, <4>1 DEF InHand, Recorded, Tracked
    <3> QED BY <3>1, <3>2
  <2>7. ~poller.cut => \A r \in poller.due : InHand(r) /\ run[r].age <= Backfill
    BY <2>2 DEF Sighted
  <2> QED BY <1>b, <2>2, <2>4, <2>5, <2>6, <2>7, SightedMoves
<1>7. ASSUME Tell \/ TellFails PROVE Sighted'
  <2>1. /\ UNCHANGED <<row, record, run, cloud>> /\ poller.pc = "tell" /\ poller'.pc = "mark"
        /\ poller'.left = poller.left /\ poller'.todo = poller.todo /\ poller'.at = poller.at
        /\ poller'.due = poller.due /\ poller'.cut = poller.cut
    <3>1. UNCHANGED <<row, record, run, cloud>> /\ poller.pc = "tell"
      BY <1>7 DEF Tell, TellFails
    <3>2. \/ poller' = [poller EXCEPT !.pc = "mark", !.fresh = FALSE]
          \/ poller' = [poller EXCEPT !.pc = "mark"]
      BY <1>7 DEF Tell, TellFails
    <3>3. CASE poller' = [poller EXCEPT !.pc = "mark", !.fresh = FALSE]
      BY <1>a, <3>1, <3>3 DEF Frames
    <3>4. CASE poller' = [poller EXCEPT !.pc = "mark"]
      BY <1>a, <3>1, <3>4 DEF Frames
    <3> QED BY <3>2, <3>3, <3>4
  <2>2. \A r \in poller.due : InHand(r) => InHand(r)'
    BY <2>1, InHandKept
  <2> QED BY <1>b, <2>1, <2>2, SightedMoves DEF Sighted
<1>8. ASSUME MarkNotified PROVE Sighted'
  <2>1. /\ UNCHANGED <<row, run, cloud>> /\ poller.pc = "mark" /\ poller'.pc = "runs"
        /\ poller'.left = poller.left /\ poller'.todo = poller.todo /\ poller.at \in Runs
        /\ poller'.due = poller.due /\ poller'.cut = poller.cut
    BY <1>8, <1>a DEF MarkNotified, Framed, Frames
  <2>2. \A r \in Runs \ {poller.at} : record'[r] = record[r]
    BY <1>8, <1>a DEF MarkNotified
  <2>3. record[poller.at].state # "none" =>
           record'[poller.at] = [state |-> record[poller.at].state, notified |-> TRUE]
    BY <1>8, <1>a, <2>1, MarkValue DEF MarkNotified
  <2>4. ASSUME NEW r \in poller.due, InHand(r) PROVE InHand(r)'
    <3>1. run[r].state # "none" /\ r \in Runs
      BY <1>a DEF Sighted, Results
    <3>2. CASE r = poller.at
      <4>1. CASE Recorded(r) \/ record[r].state = run[r].state
        <5>1. record[r].state = run[r].state
          BY <4>1 DEF Recorded
        <5>2. record'[r] = [state |-> run[r].state, notified |-> TRUE]
          BY <2>3, <3>1, <3>2, <5>1
        <5> QED BY <2>1, <5>2 DEF InHand, Recorded
      <4>2. CASE ~Recorded(r) /\ record[r].state # run[r].state
        BY <2>1, <2>4, <3>2, <4>2 DEF InHand, Tracked
      <4> QED BY <4>1, <4>2
    <3>3. CASE r # poller.at
      BY <2>1, <2>2, <2>4, <3>1, <3>3 DEF InHand, Recorded, Tracked
    <3> QED BY <3>2, <3>3
  <2> QED BY <1>b, <2>1, <2>4, SightedMoves DEF Sighted
<1>9. ASSUME FinishInstallation PROVE Sighted'
  <2>1. /\ UNCHANGED <<row, record, run, cloud>> /\ poller.pc = "runs" /\ poller'.pc = "next"
        /\ poller.left = {} /\ poller'.left = {} /\ poller'.todo = poller.todo
        /\ poller'.due = poller.due /\ poller'.cut = poller.cut
    BY <1>9, <1>a DEF FinishInstallation, Framed, Frames
  <2>2. \A r \in poller.due : InHand(r) => InHand(r)'
    BY <2>1 DEF InHand, Recorded, Tracked
  <2> QED BY <1>b, <2>1, <2>2, SightedMoves DEF Sighted
<1>10. ASSUME FinishCycle PROVE Sighted'
  <2>1. /\ UNCHANGED <<row, record, run, cloud>> /\ poller.pc = "next" /\ poller'.pc = "wait"
        /\ poller.left = {} /\ poller'.left = {} /\ poller'.todo = poller.todo
        /\ poller'.due = poller.due /\ poller'.cut = poller.cut
    BY <1>10, <1>a, <1>c DEF FinishCycle, Frames
  <2>2. \A r \in poller.due : InHand(r) => InHand(r)'
    BY <2>1 DEF InHand, Recorded, Tracked
  <2> QED BY <1>b, <2>1, <2>2, SightedMoves DEF Sighted
<1>11. ASSUME PollFails PROVE Sighted'
  <2>1. /\ UNCHANGED <<row, record, run, cloud>> /\ poller.pc \in {"read", "next", "runs", "mark"}
        /\ poller'.pc \in {"next", "runs"} /\ poller'.due = poller.due /\ poller'.cut
        /\ poller'.left = {} \/ (poller'.left = poller.left /\ poller.pc = "mark")
        /\ poller'.todo \subseteq poller.todo
    <3>1. /\ Abort(poller).pc = "next" /\ Abort(poller).due = poller.due /\ Abort(poller).cut
          /\ Abort(poller).left = {} /\ Abort(poller).todo = {} /\ Abort(poller) \in Frames
      BY <1>a DEF Abort, Frames
    <3>2. CASE poller' = Abort(poller)
      BY <1>11, <3>1, <3>2 DEF PollFails
    <3>3. CASE poller' = [Abort(poller) EXCEPT !.todo = poller.todo]
      BY <1>11, <3>1, <3>3 DEF PollFails, Frames
    <3>4. CASE poller.pc = "mark" /\ poller' = [poller EXCEPT !.pc = "runs", !.at = NULL,
        !.cut = TRUE]
      BY <1>11, <1>a, <3>4 DEF PollFails, Frames
    <3> QED BY <1>11, <3>2, <3>3, <3>4 DEF PollFails
  <2> QED BY <1>b, <2>1, SightedMoves
<1>12. ASSUME StartPolling PROVE Sighted'
  <2>1. /\ UNCHANGED <<row, record, run, cloud>> /\ poller'.due = {} /\ poller'.left = {}
        /\ poller'.todo = {} /\ poller'.pc = "wait"
    BY <1>12 DEF StartPolling, Started, Down
  <2> QED BY <2>1 DEF Sighted
<1>13. ASSUME Crash PROVE Sighted'
  <2>1. /\ UNCHANGED <<row, record, run, cloud>> /\ poller'.due = {} /\ poller'.left = {}
        /\ poller'.todo = {} /\ poller'.pc = "down"
    BY <1>13 DEF Crash, Down
  <2> QED BY <2>1 DEF Sighted
<1>14. ASSUME DeleteRow PROVE Sighted'
  <2>1. UNCHANGED <<cloud, run, poller>>
    BY <1>14 DEF DeleteRow
  <2>2. CASE row[loop.wf].job = loop.job /\ Uninstall(loop.wf)
    <3>1. loop.wf \in Workflows /\ row[loop.wf].job # NULL
      BY <1>14, <1>a, <2>2 DEF DeleteRow, JobsOwned
    <3> QED BY <2>1, <2>2, <3>1, UninstallSighted
  <2>3. CASE UNCHANGED installs
    BY <2>1, <2>3, SightedKept DEF Sighted
  <2> QED BY <1>14, <2>2, <2>3 DEF DeleteRow
<1>15. ASSUME NEW w \in Workflows, Reconcile(w) PROVE Sighted'
  BY <1>15, UninstallSighted DEF Reconcile, Installed
<1>16. ASSUME ResetFlag PROVE Sighted'
  <2>1. UNCHANGED <<row, record, cloud, run>>
    BY <1>16 DEF ResetFlag
  <2>2. /\ poller'.todo = poller.todo /\ poller'.due = poller.due /\ poller'.pc = poller.pc
        /\ poller'.cut = poller.cut /\ poller'.left = poller.left /\ poller'.at = poller.at
    BY <1>16, <1>a, RacedIs
  <2> QED BY <2>1, <2>2, SightedKept DEF Sighted
<1>17. ASSUME NEW j \in Jobs, StartRun(j) PROVE Sighted'
  <2>1. /\ UNCHANGED <<row, record, cloud, poller>>
        /\ \A r \in Runs : run[r].state \in Results => run'[r] = run[r]
        /\ \A r \in Runs : run'[r].state # "none" => run'[r].job # NULL
    BY <1>17, <1>a DEF StartRun, NoRun, Results, Sighted
  <2> QED BY <2>1, SightedKept
<1>18. ASSUME NEW r \in Runs, EndRun(r) PROVE Sighted'
  <2>1. /\ UNCHANGED <<row, record, cloud, poller>>
        /\ \A x \in Runs : run[x].state \in Results => run'[x] = run[x]
        /\ \A x \in Runs : run'[x].state # "none" => run'[x].job # NULL
    BY <1>18, <1>a DEF EndRun, Results, Sighted
  <2> QED BY <2>1, SightedKept
<1>19. ASSUME NEW j \in Jobs, DeleteJob(j) PROVE Sighted'
  <2>1. /\ UNCHANGED <<row, record, run, poller>>
        /\ \A k \in Jobs : cloud[k] # "unused" => cloud'[k] # "unused"
    BY <1>19, <1>a DEF DeleteJob, TypeOK
  <2> QED BY <2>1, SightedKept DEF Sighted
<1>20. ASSUME NEW w \in Workflows, RemoveWorkflow(w) PROVE Sighted'
  <2>1. /\ UNCHANGED <<row, record, run, poller>>
        /\ \A k \in Jobs : cloud[k] # "unused" => cloud'[k] # "unused"
    BY <1>20, <1>a DEF RemoveWorkflow, TypeOK
  <2> QED BY <2>1, SightedKept DEF Sighted
<1>21. ASSUME UNCHANGED <<row, record, cloud, run, poller>> PROVE Sighted'
  BY <1>21, SightedKept DEF Sighted
<1>22. ASSUME Tick PROVE Sighted'
  <2>1. /\ UNCHANGED <<record, cloud>> /\ poller.pc \in {"down", "wait"} /\ poller'.pc = poller.pc
        /\ poller'.due = poller.due /\ poller'.left = {} /\ poller.left = {}
        /\ poller'.todo = poller.todo /\ poller'.cut = poller.cut
    BY <1>22, <1>a, <1>c DEF Tick, Frames
  <2>2. /\ \A r \in Runs : run'[r].state = run[r].state /\ run'[r].job = run[r].job
        /\ \A w \in Workflows : row'[w].job = row[w].job
    BY <1>22, <1>a DEF Tick, NoRun, TypeOK
  <2>3. \A r \in poller.due : InHand(r) => InHand(r)'
    <3> SUFFICES ASSUME NEW r \in poller.due, InHand(r) PROVE InHand(r)'
      OBVIOUS
    <3>1. r \in Runs
      BY <1>a DEF Frames
    <3>2. Tracked(run[r].job)' => Tracked(run[r].job)
      BY <2>2, <3>1 DEF Tracked
    <3>3. Recorded(r) => Recorded(r)'
      BY <2>1, <2>2, <3>1 DEF Recorded
    <3> QED BY <2>1, <2>2, <3>1, <3>2, <3>3 DEF InHand
  <2> QED BY <1>a, <2>1, <2>2, <2>3 DEF Sighted
<1>23. ASSUME NEW w \in Workflows, InstallWorkflow(w) PROVE Sighted'
  <2>1. PICK j \in Jobs :
           /\ cloud[j] = "unused" /\ cloud' = [cloud EXCEPT ![j] = "live"]
           /\ row' = row \/ row' = [row EXCEPT ![w] = [Absent EXCEPT !.job = j]]
    BY <1>23 DEF InstallWorkflow
  <2>2. UNCHANGED <<record, run, poller>>
    BY <1>23 DEF InstallWorkflow
  <2>3. \A k \in Jobs : cloud[k] # "unused" => cloud'[k] # "unused" /\ k # j
    BY <1>a, <2>1 DEF TypeOK
  <2>4. \A x \in Workflows : row'[x].job = row[x].job \/ row'[x].job = j
    <3>1. DOMAIN row = Workflows
      BY <1>a DEF TypeOK
    <3> QED BY <2>1, <3>1 DEF Absent
  <2>5. \A i \in poller.todo :
           cloud'[i[2]] # "unused" /\ \A x \in Workflows : row'[x].job = i[2] => x = i[1]
    BY <1>a, <2>3, <2>4 DEF Sighted, Items
  <2>6. ASSUME NEW r \in poller.due, InHand(r) PROVE InHand(r)'
    <3>1. run[r].job \in Jobs /\ run[r].job # j
      <4>1. run[r].job # NULL
        BY <1>a DEF Sighted, Results
      <4> QED BY <1>a, <2>3, <4>1 DEF JobsOwned
    <3>2. Tracked(run[r].job)' => Tracked(run[r].job)
      BY <2>2, <2>4, <3>1 DEF Tracked
    <3> QED BY <2>2, <2>6, <3>2 DEF InHand, Recorded
  <2> QED BY <2>2, <2>5, <2>6 DEF Sighted
<1>24. ASSUME ProcessRun PROVE Sighted'
  <2>0. poller.pc = "runs" /\ UNCHANGED <<row, run, cloud>>
    BY <1>24 DEF ProcessRun
  <2>1. PICK l \in poller.left :
           /\ l[1] \in Runs /\ l[2] \in RunStates
           /\ poller'.due = poller.due
           /\ \/ /\ poller'.pc = "next" /\ poller'.todo = {} /\ poller'.left = {}
                 /\ poller'.cut
              \/ /\ \/ record[l[1]].state = l[2] /\ record' = record
                    \/ Upsert(l[1], l[2])
                 /\ IF MustTell(l[1], l[2]) THEN poller'.pc = "tell" /\ poller'.at = l[1]
                                            ELSE poller'.pc = "runs"
                 /\ poller'.left = poller.left \ {l} /\ poller'.todo = poller.todo
                 /\ poller'.cut = poller.cut
    BY <1>24, <1>a, ProcessRunChanges
  <2>2. /\ l[1] \in Runs /\ l[2] \in RunStates /\ l = <<l[1], l[2]>> /\ poller.pc = "runs"
        /\ UNCHANGED <<row, run, cloud>>
    BY <1>a, <2>0, <2>1 DEF Frames, Sightings
  <2>4. /\ poller'.due = poller.due /\ poller'.todo \subseteq poller.todo
        /\ poller'.left \subseteq poller.left
        /\ poller'.pc \in {"runs", "tell", "next"}
    BY <2>1
  <2>5. CASE poller'.cut /\ ~poller.cut
    BY <1>b, <2>2, <2>4, <2>5, SightedMoves
  <2>6. CASE poller.cut
    <3>1. poller'.cut
      BY <2>1, <2>6
    <3> QED BY <1>b, <2>2, <2>4, <3>1, SightedMoves
  <2>7. CASE ~poller'.cut /\ ~poller.cut
    <3>1. /\ poller'.todo = poller.todo /\ poller'.left = poller.left \ {l}
          /\ IF MustTell(l[1], l[2]) THEN poller'.pc = "tell" /\ poller'.at = l[1]
                                     ELSE poller'.pc = "runs"
          /\ \/ record[l[1]].state = l[2] /\ record' = record
             \/ Upsert(l[1], l[2])
      BY <2>1, <2>7
    <3>2. /\ \A x \in Runs \ {l[1]} : record'[x] = record[x]
          /\ record'[l[1]] = [state |-> l[2], notified |-> record[l[1]].notified]
      BY <1>a, <2>2, <3>1 DEF Upsert
    <3>3. ASSUME NEW x \in poller.due, InHand(x) PROVE InHand(x)'
      <4>1. x \in Runs /\ run[x].state \in Results
        BY <1>a DEF Sighted
      <4>2. CASE x = l[1]
        <5>1. l[2] = run[x].state
          BY <2>2, <4>2 DEF Sighted
        <5>2. CASE MustTell(l[1], l[2])
          BY <2>2, <3>1, <3>2, <4>2, <5>1, <5>2 DEF InHand
        <5>3. CASE ~MustTell(l[1], l[2])
          <6>1. record[l[1]].notified
            BY <4>1, <5>1, <5>3 DEF MustTell
          <6>2. record[l[1]].notified = TRUE
            BY <1>a, <2>2, <6>1
          <6> QED BY <2>2, <3>2, <4>2, <5>1, <6>2 DEF InHand, Recorded
        <5> QED BY <5>2, <5>3
      <4>3. CASE x # l[1]
        <5>1. <<x, run[x].state>> # l
          BY <4>3
        <5> QED BY <2>2, <3>1, <3>2, <3>3, <4>1, <4>3, <5>1 DEF InHand, Recorded, Tracked
      <4> QED BY <4>2, <4>3
    <3>4. \A x \in poller.due : InHand(x)
      BY <2>2, <2>7 DEF Sighted
    <3> QED BY <1>b, <2>2, <2>4, <2>7, <3>3, <3>4, SightedMoves
  <2> QED BY <1>b, <2>5, <2>6, <2>7 DEF Frames
<1> QED
  BY <1>1, <1>2, <1>3, <1>4, <1>5, <1>6, <1>7, <1>8, <1>9, <1>10, <1>11, <1>12, <1>13, <1>14,
     <1>15, <1>16, <1>17, <1>18, <1>19, <1>20, <1>21, <1>22, <1>23, <1>24
  DEF vars, Next, Poll

(* A cycle that nothing cut short has recorded every result that was there *)
(* when it began, and has seen to its announcement, however long the       *)
(* poller slept or was down (_poll_job_states): PollSeesAll.               *)
THEOREM NoResultSlipsThrough == Spec => []PollSeesAll
<1>1. Init => Sighted
  BY DEF Init, Sighted, Down, NoRun
<1>2. Core /\ Sighted /\ [Next]_vars => Sighted'
  BY SightedStep
<1>3. Core /\ Sighted => PollSeesAll
  BY DEF Core, Framed, Sighted, InHand, Recorded, PollSeesAll
<1> QED BY <1>1, <1>2, <1>3, CoreInvariant, PTL DEF Spec
=============================================================================
