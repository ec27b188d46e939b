---------------------------- MODULE ContractProofs ----------------------------
(***************************************************************************)
(* Theorems about the contracts: their lifecycle (ContractLifecycle) and   *)
(* their versions (ContractVersions).                                      *)
(*                                                                         *)
(* ShownWasReviewed is not inductive: an answer to a workflow sets         *)
(* "deployed" without looking at the status.  Path adds what every status  *)
(* on the way to the marketplace says about the statuses before it, and    *)
(* that nothing waits for an answer that was not asked for on that way.    *)
(* Retirement does the same for retired contracts.  Both are statements    *)
(* about one contract; the actions of another leave them alone             *)
(* (Elsewhere).                                                            *)
(*                                                                         *)
(* Rows of versions are numbered upwards, so what a row refers to is older *)
(* than it is; Numbered says so of every row and is what makes             *)
(* FamiliesHoldTogether and SubmittedIsKept inductive.                     *)
(***************************************************************************)
EXTENDS ContractLifecycle, ContractVersions, FiniteSetTheorems, WellFoundedInduction, TLAPS

Reviewed(c) ==
    \/ {"proposed", "approved"} \subseteq was[c]
    \/ {"deprecated", "active"} \subseteq was[c]
    \/ c \in written \cup deployAsked \cup byHand

Path(c) ==
    /\ Exists(c) => contract[c] \in was[c]
    /\ contract[c] = "under_review" => "proposed" \in was[c] \/ Reviewed(c)
    /\ contract[c] \in {"approved", "active", "certified", "deployed"} => Reviewed(c)
    /\ public[c] \/ open[c] > 0 \/ stopped[c] > 0 => Reviewed(c)

Retirement(c) ==
    /\ contract[c] = "unused" => was[c] = {}
    /\ contract[c] = "retired" /\ (open[c] > 0 \/ stopped[c] > 0) =>
          c \in deployAsked \cup byHand \cup openAtEnd
    /\ "retired" \in was[c] /\ Exists(c) /\ contract[c] # "retired" =>
          c \in written \cup deployAsked \cup byHand \cup openAtEnd

LifecycleInv == LifecycleTypeOK /\ \A c \in Contracts : Path(c) /\ Retirement(c)

(* The requests and commits about one contract. *)
ContractStep(c) ==
    \/ \E s \in ContractStatuses :
          CreateContract(c, s) \/ TransitionStatus(c, s)
          \/ HandleStatusChange(c, s) \/ UpdateContract(c, s)
    \/ RequestStewardReview(c)
    \/ \E s \in {"approved", "draft"} : HandleReview(c, s)
    \/ RequestPublish(c) \/ RequestDeploy(c) \/ HandlePublish(c)
    \/ ExecuteWorkflow(c) \/ CancelExecution(c) \/ RetryExecution(c)
    \/ \E b \in BOOLEAN :
          SetPublicationScope(c, b) \/ CompleteExecution(c, b) \/ WorkflowPublishes(c, b)
    \/ DeleteContract(c)

-----------------------------------------------------------------------------
(* What a change of the status does.                                       *)
LEMMA BecomeTypes ==
    ASSUME LifecycleTypeOK, NEW c \in Contracts, NEW s \in ContractStatuses, Become(c, s)
    PROVE  /\ contract' \in [Contracts -> ContractStatuses \cup {"unused", "deleted"}]
           /\ was' \in [Contracts -> SUBSET ContractStatuses]
           /\ openAtEnd' \subseteq Contracts
           /\ contract'[c] = s /\ was'[c] = was[c] \cup {s}
           /\ openAtEnd \subseteq openAtEnd'
           /\ s = "retired" /\ (open[c] > 0 \/ stopped[c] > 0) => c \in openAtEnd'
<1>1. open[c] \in Nat /\ stopped[c] \in Nat
  BY DEF LifecycleTypeOK
<1>2. open[c] > 0 \/ stopped[c] > 0 <=> Unfinished(c) > 0
  BY <1>1 DEF Unfinished
<1> QED BY <1>2 DEF LifecycleTypeOK, Become

(* What happens to the executions of a contract leaves those of others.    *)
LEMMA ExecutionTypes ==
    ASSUME LifecycleTypeOK, NEW c \in Contracts,
           Fire(c) \/ Stop(c) \/ RetryExecution(c) \/ \E b \in BOOLEAN : CompleteExecution(c, b)
    PROVE  /\ open' \in [Contracts -> Nat] /\ stopped' \in [Contracts -> Nat]
           /\ \A d \in Contracts \ {c} : open'[d] = open[d] /\ stopped'[d] = stopped[d]
<1>1. open \in [Contracts -> Nat] /\ stopped \in [Contracts -> Nat]
  BY DEF LifecycleTypeOK
<1>2. CASE Fire(c)
  BY <1>1, <1>2 DEF Fire, executionVars
<1>3. CASE Stop(c)
  BY <1>1, <1>3 DEF Stop
<1>4. CASE RetryExecution(c)
  BY <1>1, <1>4 DEF RetryExecution
<1>5. ASSUME NEW b \in BOOLEAN, CompleteExecution(c, b), ~Stop(c)
      PROVE  /\ open' \in [Contracts -> Nat] /\ stopped' \in [Contracts -> Nat]
             /\ \A d \in Contracts \ {c} : open'[d] = open[d] /\ stopped'[d] = stopped[d]
  BY <1>1, <1>5 DEF CompleteExecution, executionVars
<1> QED BY <1>2, <1>3, <1>4, <1>5

LEMMA LifecycleTypeStep ==
    ASSUME LifecycleTypeOK, [LifecycleNext]_lifecycleVars PROVE LifecycleTypeOK'
<1>1. ASSUME NEW c \in Contracts, NEW s \in ContractStatuses,
             \/ CreateContract(c, s) \/ TransitionStatus(c, s)
             \/ HandleStatusChange(c, s) \/ UpdateContract(c, s)
      PROVE  LifecycleTypeOK'
  <2>1. Become(c, s)
    BY <1>1 DEF CreateContract, TransitionStatus, HandleStatusChange, UpdateContract
  <2> QED
    BY <1>1, <2>1, BecomeTypes
    DEF CreateContract, TransitionStatus, HandleStatusChange, UpdateContract, executionVars,
        historyVars, LifecycleTypeOK
<1>2. ASSUME NEW c \in Contracts, RequestStewardReview(c) PROVE LifecycleTypeOK'
  <2>1. "proposed" \in ContractStatuses
    BY DEF ContractStatuses
  <2> QED
    BY <1>2, <2>1, BecomeTypes
    DEF RequestStewardReview, executionVars, historyVars, LifecycleTypeOK
<1>3. ASSUME NEW c \in Contracts, NEW s \in {"approved", "draft"}, HandleReview(c, s)
      PROVE  LifecycleTypeOK'
  <2>1. s \in ContractStatuses
    BY DEF ContractStatuses
  <2> QED
    BY <1>3, <2>1, BecomeTypes DEF HandleReview, executionVars, historyVars, LifecycleTypeOK
<1>4. ASSUME NEW c \in Contracts,
             \/ RequestPublish(c) \/ RequestDeploy(c) \/ ExecuteWorkflow(c)
             \/ CancelExecution(c) \/ RetryExecution(c)
      PROVE  LifecycleTypeOK'
  <2>1. open' \in [Contracts -> Nat] /\ stopped' \in [Contracts -> Nat]
    BY <1>4, ExecutionTypes
    DEF RequestPublish, RequestDeploy, ExecuteWorkflow, CancelExecution
  <2> QED
    BY <1>4, <2>1
    DEF RequestPublish, RequestDeploy, ExecuteWorkflow, CancelExecution, RetryExecution,
        historyVars, LifecycleTypeOK
<1>5. ASSUME NEW c \in Contracts, HandlePublish(c) \/ DeleteContract(c)
      PROVE  LifecycleTypeOK'
  BY <1>5 DEF HandlePublish, DeleteContract, executionVars, historyVars, LifecycleTypeOK
<1>6. ASSUME NEW c \in Contracts, NEW b \in BOOLEAN,
             SetPublicationScope(c, b) \/ WorkflowPublishes(c, b)
      PROVE  LifecycleTypeOK'
  BY <1>6
  DEF SetPublicationScope, WorkflowPublishes, executionVars, historyVars, LifecycleTypeOK
<1>7. ASSUME NEW c \in Contracts, NEW b \in BOOLEAN, CompleteExecution(c, b)
      PROVE  LifecycleTypeOK'
  <2> DEFINE s == IF b THEN "deployed" ELSE "draft"
  <2>1. s \in ContractStatuses
    BY DEF ContractStatuses
  <2>2. open' \in [Contracts -> Nat] /\ stopped' \in [Contracts -> Nat]
    BY <1>7, ExecutionTypes
  <2>3. Become(c, s) \/ UNCHANGED <<contract, was, openAtEnd>>
    BY <1>7 DEF CompleteExecution
  <2> QED
    BY <1>7, <2>1, <2>2, <2>3, BecomeTypes DEF CompleteExecution, historyVars, LifecycleTypeOK
<1>8. CASE UNCHANGED lifecycleVars
  BY <1>8 DEF lifecycleVars, executionVars, historyVars, LifecycleTypeOK
<1> QED BY <1>1, <1>2, <1>3, <1>4, <1>5, <1>6, <1>7, <1>8 DEF LifecycleNext

(* A contract is left alone by what happens to another one.                *)
LEMMA Elsewhere ==
    ASSUME LifecycleTypeOK, NEW c \in Contracts, NEW d \in Contracts \ {c}, ContractStep(c),
           Path(d), Retirement(d)
    PROVE  Path(d)' /\ Retirement(d)'
<1>1. open'[d] = open[d] /\ stopped'[d] = stopped[d]
  <2>1. CASE \/ RequestPublish(c) \/ RequestDeploy(c) \/ ExecuteWorkflow(c)
             \/ CancelExecution(c) \/ RetryExecution(c) \/ \E b \in BOOLEAN : CompleteExecution(c, b)
    BY <2>1, ExecutionTypes
    DEF RequestPublish, RequestDeploy, ExecuteWorkflow, CancelExecution
  <2>2. CASE UNCHANGED executionVars
    BY <2>2 DEF executionVars
  <2> QED
    BY <2>1, <2>2
    DEF ContractStep, CreateContract, TransitionStatus, HandleStatusChange, UpdateContract,
        RequestStewardReview, HandleReview, HandlePublish, SetPublicationScope,
        WorkflowPublishes, DeleteContract
<1>2. /\ contract'[d] = contract[d] /\ was'[d] = was[d] /\ public'[d] = public[d]
      /\ written \subseteq written' /\ deployAsked \subseteq deployAsked'
      /\ byHand \subseteq byHand' /\ openAtEnd \subseteq openAtEnd'
  BY DEF LifecycleTypeOK, ContractStep, CreateContract, TransitionStatus,
         HandleStatusChange, UpdateContract, RequestStewardReview, HandleReview,
         RequestPublish, RequestDeploy, ExecuteWorkflow, HandlePublish, SetPublicationScope,
         CompleteExecution, CancelExecution, RetryExecution, WorkflowPublishes,
         DeleteContract, Become, executionVars, historyVars
<1> QED BY <1>1, <1>2 DEF Path, Retirement, Reviewed, Exists

-----------------------------------------------------------------------------
(* The maps of transitions: who comes to a status that needs a review.     *)
LEMMA MapsNeedReview ==
    ASSUME NEW from \in ContractStatuses, NEW to \in ContractStatuses,
           \/ MayMove(from, to)
           \/ from \in DOMAIN AskedTransitions /\ to \in AskedTransitions[from]
    PROVE  /\ to \in {"under_review", "approved"} =>
                 from \in {"proposed", "under_review", "certified", "deployed"}
           /\ to = "active" => from \in {"approved", "deprecated", "certified", "deployed"}
           /\ to \in {"certified", "deployed"} => from \in {"active", "certified", "deployed"}
           /\ from # "retired"
BY DEF MayMove, ContractTransitions, AskedTransitions, ContractStatuses

(* A status change along one of the maps keeps the contract on its path.   *)
LEMMA MoveKeepsPath ==
    ASSUME LifecycleTypeOK, NEW c \in Contracts, NEW s \in ContractStatuses, Exists(c),
           \/ MayMove(contract[c], s)
           \/ contract[c] \in DOMAIN AskedTransitions /\ s \in AskedTransitions[contract[c]],
           Become(c, s), UNCHANGED <<public, executionVars, historyVars>>,
           Path(c), Retirement(c)
    PROVE  Path(c)' /\ Retirement(c)'
<1>1. contract[c] \in ContractStatuses
  BY DEF Exists
<1>2. /\ contract'[c] = s /\ was'[c] = was[c] \cup {s}
      /\ openAtEnd \subseteq openAtEnd'
      /\ s = "retired" /\ (open[c] > 0 \/ stopped[c] > 0) => c \in openAtEnd'
  BY BecomeTypes
<1>3. Path(c)'
  BY <1>1, <1>2, MapsNeedReview
  DEF Path, Reviewed, Exists, ContractStatuses, executionVars, historyVars
<1>4. Retirement(c)'
  BY <1>1, <1>2, MapsNeedReview
  DEF Retirement, Exists, ContractStatuses, executionVars, historyVars
<1> QED BY <1>3, <1>4

LEMMA ContractStepKeeps ==
    ASSUME LifecycleTypeOK, NEW c \in Contracts, ContractStep(c), Path(c), Retirement(c)
    PROVE  Path(c)' /\ Retirement(c)'
<1>1. ASSUME NEW s \in ContractStatuses, TransitionStatus(c, s) \/ HandleStatusChange(c, s)
      PROVE  Path(c)' /\ Retirement(c)'
  <2>1. Exists(c)
    BY <1>1 DEF TransitionStatus, HandleStatusChange, Exists, AskedTransitions, ContractStatuses
  <2> QED BY <1>1, <2>1, MoveKeepsPath DEF TransitionStatus, HandleStatusChange
<1>2. ASSUME RequestStewardReview(c) PROVE Path(c)' /\ Retirement(c)'
  <2>1. Exists(c) /\ "proposed" \in ContractStatuses /\ MayMove(contract[c], "proposed")
    BY <1>2 DEF RequestStewardReview, Exists, ContractStatuses, MayMove, ContractTransitions
  <2> QED BY <1>2, <2>1, MoveKeepsPath DEF RequestStewardReview
<1>3. ASSUME NEW s \in {"approved", "draft"}, HandleReview(c, s)
      PROVE  Path(c)' /\ Retirement(c)'
  <2>1. Exists(c) /\ s \in ContractStatuses /\ MayMove(contract[c], s)
    BY <1>3 DEF HandleReview, Exists, ContractStatuses, MayMove, ContractTransitions
  <2> QED BY <1>3, <2>1, MoveKeepsPath DEF HandleReview
<1>4. ASSUME NEW s \in ContractStatuses, CreateContract(c, s) PROVE Path(c)' /\ Retirement(c)'
  <2>1. contract'[c] = s /\ was'[c] = {s} /\ openAtEnd \subseteq openAtEnd'
        /\ (s = "retired" /\ (open[c] > 0 \/ stopped[c] > 0) => c \in openAtEnd')
    BY <1>4, BecomeTypes DEF CreateContract, Retirement
  <2>2. s # "draft" => c \in written'
    BY <1>4 DEF CreateContract
  <2> QED
    BY <1>4, <2>1, <2>2
    DEF CreateContract, Path, Retirement, Reviewed, Exists, ContractStatuses, executionVars
<1>5. ASSUME NEW s \in ContractStatuses, UpdateContract(c, s) PROVE Path(c)' /\ Retirement(c)'
  <2>1. contract'[c] = s /\ s \in was'[c] /\ c \in written'
        /\ (s = "retired" /\ (open[c] > 0 \/ stopped[c] > 0) => c \in openAtEnd')
    BY <1>5, BecomeTypes DEF UpdateContract
  <2> QED
    BY <1>5, <2>1
    DEF UpdateContract, Path, Retirement, Reviewed, Exists, ContractStatuses, executionVars
<1>6. ASSUME RequestPublish(c) PROVE Path(c)' /\ Retirement(c)'
  BY <1>6 DEF RequestPublish, Path, Retirement, Reviewed, Exists, historyVars
<1>7. ASSUME RequestDeploy(c) \/ ExecuteWorkflow(c) PROVE Path(c)' /\ Retirement(c)'
  BY <1>7 DEF RequestDeploy, ExecuteWorkflow, Path, Retirement, Reviewed, Exists
<1>8. ASSUME NEW on \in BOOLEAN,
             HandlePublish(c) \/ SetPublicationScope(c, on) \/ WorkflowPublishes(c, on)
      PROVE  Path(c)' /\ Retirement(c)'
  BY <1>8
  DEF HandlePublish, SetPublicationScope, WorkflowPublishes, Path, Retirement, Reviewed,
      Exists, LifecycleTypeOK, executionVars, historyVars
<1>9. ASSUME NEW approved \in BOOLEAN, CompleteExecution(c, approved)
      PROVE  Path(c)' /\ Retirement(c)'
  <2> DEFINE s == IF approved THEN "deployed" ELSE "draft"
  <2>1. /\ open[c] > 0 \/ stopped[c] > 0
        /\ Reviewed(c) /\ UNCHANGED <<public, written, deployAsked, byHand>>
    <3>1. open[c] \in Nat /\ stopped[c] \in Nat
      BY DEF LifecycleTypeOK
    <3> QED BY <1>9, <3>1 DEF CompleteExecution, Unfinished, historyVars, Path
  <2>2. CASE Exists(c)
    <3>1. Become(c, s) /\ s \in ContractStatuses
      BY <1>9, <2>2 DEF CompleteExecution, ContractStatuses
    <3>2. contract'[c] = s /\ was'[c] = was[c] \cup {s} /\ openAtEnd \subseteq openAtEnd'
      BY <3>1, BecomeTypes
    <3>3. s \notin {"retired", "unused"}
      OBVIOUS
    <3>4. Path(c)'
      BY <2>1, <3>2 DEF Path, Reviewed, Exists
    <3>5. Retirement(c)'
      BY <2>1, <2>2, <3>2, <3>3 DEF Retirement, Exists
    <3> QED BY <3>4, <3>5
  <2>3. CASE ~Exists(c)
    <3>1. UNCHANGED <<contract, was, openAtEnd>>
      BY <1>9, <2>3 DEF CompleteExecution
    <3>2. contract[c] # "retired"
      BY <2>3 DEF Exists, ContractStatuses
    <3> QED BY <2>1, <3>1, <3>2 DEF Path, Retirement, Reviewed, Exists
  <2> QED BY <2>2, <2>3
<1>10. ASSUME DeleteContract(c) PROVE Path(c)' /\ Retirement(c)'
  <2>1. contract'[c] = "deleted" /\ ~public'[c]
    BY <1>10 DEF DeleteContract, LifecycleTypeOK
  <2>2. ~Exists(c)'
    BY <2>1 DEF Exists, ContractStatuses
  <2> QED
    BY <1>10, <2>1, <2>2
    DEF DeleteContract, Path, Retirement, Reviewed, executionVars, historyVars
<1>11. ASSUME CancelExecution(c) \/ RetryExecution(c) PROVE Path(c)' /\ Retirement(c)'
  <2>1. Reviewed(c) /\ (open[c] > 0 \/ stopped[c] > 0)
    BY <1>11 DEF CancelExecution, Stop, RetryExecution, Path
  <2>2. UNCHANGED <<contract, public, was, written, deployAsked, byHand, openAtEnd>>
    BY <1>11 DEF CancelExecution, RetryExecution, historyVars
  <2> QED BY <2>1, <2>2 DEF Path, Retirement, Reviewed, Exists
<1> QED
  BY <1>1, <1>2, <1>3, <1>4, <1>5, <1>6, <1>7, <1>8, <1>9, <1>10, <1>11 DEF ContractStep

-----------------------------------------------------------------------------
(* What every request, review, deployment and late answer preserves: the   *)
(* conjunction the theorems below follow from.                             *)
THEOREM LifecycleInvariant == LifecycleSpec => []LifecycleInv
<1>1. LifecycleInit => LifecycleInv
  BY DEF LifecycleInit, LifecycleInv, LifecycleTypeOK, Path, Retirement, Exists,
         ContractStatuses
<1>2. LifecycleInv /\ [LifecycleNext]_lifecycleVars => LifecycleInv'
  <2> SUFFICES ASSUME LifecycleInv, [LifecycleNext]_lifecycleVars PROVE LifecycleInv'
    OBVIOUS
  <2>1. LifecycleTypeOK'
    BY LifecycleTypeStep DEF LifecycleInv
  <2>2. ASSUME NEW d \in Contracts PROVE Path(d)' /\ Retirement(d)'
    <3>1. CASE UNCHANGED lifecycleVars
      BY <3>1
      DEF lifecycleVars, executionVars, historyVars, LifecycleInv, Path, Retirement, Reviewed,
          Exists
    <3>2. ASSUME NEW c \in Contracts, ContractStep(c) PROVE Path(d)' /\ Retirement(d)'
      <4>1. CASE d = c
        BY <3>2, <4>1, ContractStepKeeps DEF LifecycleInv
      <4>2. CASE d # c
        BY <3>2, <4>2, Elsewhere DEF LifecycleInv
      <4> QED BY <4>1, <4>2
    <3>3. LifecycleNext => \E c \in Contracts : ContractStep(c)
      BY DEF LifecycleNext, ContractStep
    <3> QED BY <3>1, <3>2, <3>3
  <2> QED BY <2>1, <2>2 DEF LifecycleInv
<1> QED BY <1>1, <1>2, PTL DEF LifecycleSpec

(* Contracts and the histories about them are well formed.                 *)
THEOREM LifecycleTypeCorrect == LifecycleSpec => []LifecycleTypeOK
<1>1. LifecycleInv => LifecycleTypeOK
  BY DEF LifecycleInv
<1> QED BY <1>1, LifecycleInvariant, PTL

(* What the marketplace shows or what is deployed has been reviewed, or    *)
(* went through deprecation, was written by an update or a workflow step,  *)
(* or had a publication workflow asked for or executed by hand: whatever   *)
(* number of contracts there is, and of workflows that wait, fail, are     *)
(* cancelled and retried.                                                  *)
THEOREM ShownContractsWereReviewed == LifecycleSpec => []ShownWasReviewed
<1>1. LifecycleInv => ShownWasReviewed
  BY DEF LifecycleInv, Path, Reviewed, ShownWasReviewed
<1> QED BY <1>1, LifecycleInvariant, PTL

(* Nothing brings back a retired contract but an update, an execution that *)
(* could still complete when it was retired, by an answer or after a       *)
(* retry, and one that was asked for, or started by hand, in any status.   *)
THEOREM RetiredContractsStay == LifecycleSpec => []RetiredForGood
<1>1. LifecycleInv => RetiredForGood
  BY DEF LifecycleInv, Retirement, RetiredForGood
<1> QED BY <1>1, LifecycleInvariant, PTL

-----------------------------------------------------------------------------
(* Versions. *)

(* No row has a number that was not given out yet. *)
Numbered ==
    /\ \A r \in Rows : r > created => version[r] = NoRow
    /\ submitted \cup discarded \subseteq 1 .. created

(* What was submitted belongs to nobody, unless its drafter kept it; what  *)
(* was discarded is gone.                                                  *)
Released ==
    /\ \A r \in Present \cap (submitted \ held) : version[r].owner = NULL
    /\ discarded \cap Present = {}
    /\ SubmittedIsKept

VersionsInv == VersionsTypeOK /\ Numbered /\ FamiliesHoldTogether /\ Released

RowType == [status: Stages \cup {"none"}, owner: Users \cup {NULL},
            parent: Rows \cup {NULL}, family: Rows \cup {NULL}]

-----------------------------------------------------------------------------
LEMMA InsertKeeps ==
    ASSUME VersionsInv, NEW s \in Stages, NEW o \in Users \cup {NULL},
           NEW p \in Rows \cup {NULL}, NEW f \in Rows \cup {NULL},
           p # NULL => p \in Present /\ f = version[p].family,
           p = NULL => f = NULL,
           Insert(s, o, p, f)
    PROVE  VersionsInv'
<1> USE MaxRowsAssumption
<1> DEFINE n == created + 1
           g == IF f = NULL THEN n ELSE f
           new == [status |-> s, owner |-> o, parent |-> p, family |-> g]
<1>1. /\ n \in Rows /\ created \in Nat /\ created' = n
      /\ version \in [Rows -> RowType] /\ UNCHANGED <<submitted, held, discarded>>
      /\ version' = [version EXCEPT ![n] = new]
  BY DEF VersionsInv, VersionsTypeOK, Insert, Rows, RowType
<1>2. version[n] = NoRow /\ n \notin Present
  BY <1>1 DEF VersionsInv, Numbered, Present, Rows
<1>3. g \in 1 .. n /\ g # NULL /\ g \in Rows
  <2>1. CASE f = NULL
    BY <1>1, <2>1 DEF Rows
  <2>2. CASE f # NULL
    <3>1. p \in Present /\ f \in 1 .. p /\ p \in 1 .. created
      BY <1>1, <2>2 DEF VersionsInv, FamiliesHoldTogether, Numbered, Present, Rows
    <3> QED BY <1>1, <2>2, <3>1 DEF Rows
  <2> QED BY <2>1, <2>2
<1>4. new \in RowType /\ new # NoRow
  BY <1>3 DEF RowType, NoRow
<1> HIDE DEF new
<1>5. version'[n] = new /\ \A x \in Rows \ {n} : version'[x] = version[x]
  BY <1>1
<1>6. Present' = Present \cup {n}
  BY <1>1, <1>2, <1>4, <1>5 DEF Present, Rows
<1>7. VersionsTypeOK'
  <2>1. version' \in [Rows -> RowType]
    BY <1>1, <1>4
  <2> QED BY <1>1, <2>1 DEF VersionsInv, VersionsTypeOK, RowType, Rows
<1>8. Numbered'
  BY <1>1, <1>5 DEF VersionsInv, Numbered, Rows
<1>9. ASSUME NEW r \in Present'
      PROVE  /\ version'[r].family \in 1 .. r
             /\ version'[r].parent # NULL =>
                   /\ version'[r].parent \in Present' /\ version'[r].parent < r
                   /\ version'[version'[r].parent].family = version'[r].family
             /\ version'[r].family \in Present' =>
                   version'[version'[r].family].family = version'[r].family
  <2>1. CASE r = n
    <3>1. version'[r].family = g /\ version'[r].parent = p
      BY <1>5, <2>1 DEF new
    <3>2. p # NULL => /\ p \in Present /\ p < n /\ p # n /\ f = g /\ version[p].family = f
                      /\ f \in 1 .. p
      BY <1>1, <1>3 DEF VersionsInv, FamiliesHoldTogether, Numbered, Present, Rows
    <3>3. p # NULL => version'[p].family = g /\ p \in Present'
      BY <1>5, <1>6, <3>2 DEF Present
    <3>4. g \in Present' => version'[g].family = g
      <4>1. CASE g = n
        BY <1>5, <4>1 DEF new
      <4>2. CASE g # n
        <5>1. p # NULL /\ g = f
          BY <4>2
        <5>2. f \in Present => version[f].family = f
          BY <3>2, <5>1 DEF VersionsInv, FamiliesHoldTogether
        <5> QED BY <1>3, <1>5, <1>6, <4>2, <5>1, <5>2
      <4> QED BY <4>1, <4>2
    <3> QED BY <1>3, <2>1, <3>1, <3>2, <3>3, <3>4
  <2>2. CASE r # n
    <3>1. r \in Present /\ r \in 1 .. created /\ version'[r] = version[r]
      BY <1>1, <1>5, <1>6, <2>2 DEF VersionsInv, Numbered, Present, Rows
    <3>2. /\ version[r].family \in 1 .. r
          /\ version[r].parent # NULL =>
                /\ version[r].parent \in Present /\ version[r].parent < r
                /\ version[version[r].parent].family = version[r].family
          /\ version[r].family \in Present => version[version[r].family].family = version[r].family
      BY <3>1 DEF VersionsInv, FamiliesHoldTogether
    <3>3. version[r].family # n /\ (version[r].parent # NULL => version[r].parent # n)
      BY <1>1, <1>2, <3>1, <3>2
    <3> QED BY <1>5, <1>6, <3>1, <3>2, <3>3 DEF Present
  <2> QED BY <2>1, <2>2
<1>10. Released'
  <2>1. n \notin submitted /\ n \notin discarded
    BY <1>1 DEF VersionsInv, Numbered
  <2> QED BY <1>1, <1>5, <1>6, <2>1 DEF VersionsInv, Released, SubmittedIsKept, Present
<1>11. FamiliesHoldTogether'
  BY <1>9 DEF FamiliesHoldTogether
<1> QED BY <1>7, <1>8, <1>10, <1>11 DEF VersionsInv

(* A row keeps its parent and its family whatever its status and owner.    *)
LEMMA EditKeeps ==
    ASSUME VersionsInv, NEW r \in Present,
           version' \in [Rows -> RowType],
           \A x \in Rows \ {r} : version'[x] = version[x],
           version'[r].parent = version[r].parent,
           version'[r].family = version[r].family,
           version'[r].owner \in {NULL, version[r].owner},
           UNCHANGED <<created, discarded>>,
           \/ UNCHANGED <<submitted, held>>
           \/ /\ submitted' = submitted \cup {r} /\ held' \in {held \ {r}, held \cup {r}}
              /\ r \in held' \/ version'[r].owner = NULL
    PROVE  VersionsInv'
<1> USE MaxRowsAssumption
<1>1. created \in Nat /\ r \in Rows /\ version[r].family \in 1 .. r /\ r \in 1 .. created
  BY DEF VersionsInv, VersionsTypeOK, Numbered, Rows, Present, FamiliesHoldTogether
<1>2. version'[r] # NoRow
  <2>1. version'[r].family # NULL
    BY <1>1 DEF Rows
  <2> QED BY <2>1 DEF NoRow
<1>3. Present' = Present
  BY <1>1, <1>2 DEF Present, Rows
<1>4. \A x \in Present : version'[x].parent = version[x].parent /\ version'[x].family = version[x].family
  BY DEF Present
<1>5. VersionsTypeOK'
  BY <1>1 DEF VersionsInv, VersionsTypeOK, RowType, Rows
<1>6. Numbered'
  BY <1>1 DEF VersionsInv, Numbered, Rows
<1>7. FamiliesHoldTogether'
  BY <1>3, <1>4 DEF VersionsInv, FamiliesHoldTogether
<1>8. Released'
  BY <1>3 DEF VersionsInv, Released, SubmittedIsKept, Present
<1> QED BY <1>5, <1>6, <1>7, <1>8 DEF VersionsInv

LEMMA DropKeeps ==
    ASSUME VersionsInv, NEW r \in Present, DropRow(r), UNCHANGED <<created, submitted, held>>,
           \/ discarded' = discarded
           \/ discarded' = discarded \cup {r} /\ r \notin submitted \ held
    PROVE  VersionsInv'
<1> USE MaxRowsAssumption
<1>1. created \in Nat /\ version \in [Rows -> RowType] /\ r \in Rows
  BY DEF VersionsInv, VersionsTypeOK, RowType, Present
<1>2. version'[r] = NoRow
  BY <1>1 DEF DropRow
<1>3. ASSUME NEW x \in Rows, x # r
      PROVE  /\ version'[x] \in RowType
             /\ version'[x].family = version[x].family /\ version'[x].owner = version[x].owner
             /\ version'[x].parent = IF version[x].parent = r THEN NULL ELSE version[x].parent
             /\ version[x] = NoRow => version'[x] = NoRow
             /\ version[x] # NoRow => version'[x] # NoRow
  <2>1. version[x] \in RowType
    BY <1>1
  <2>2. CASE version[x].parent # r
    BY <1>3, <2>1, <2>2 DEF DropRow
  <2>3. CASE version[x].parent = r
    <3>1. version'[x] = [version[x] EXCEPT !.parent = NULL]
      BY <1>3, <2>3 DEF DropRow
    <3>2. version[x] # NoRow
      BY <1>1, <2>3 DEF NoRow, Rows
    <3>3. version[x].family # NULL
      BY <3>2 DEF VersionsInv, FamiliesHoldTogether, Present, Rows
    <3> QED BY <1>1, <2>1, <2>3, <3>1, <3>2, <3>3 DEF RowType, NoRow, Rows
  <2> QED BY <2>2, <2>3
<1>4. Present' = Present \ {r}
  BY <1>1, <1>2, <1>3 DEF Present, Rows
<1>5. VersionsTypeOK'
  <2>1. NoRow \in RowType
    BY DEF NoRow, RowType
  <2>2. version' \in [Rows -> RowType]
    BY <1>2, <1>3, <2>1 DEF DropRow
  <2> QED BY <1>1, <2>2 DEF VersionsInv, VersionsTypeOK, RowType, Present, Rows
<1>6. Numbered'
  <2>1. r \in 1 .. created
    BY <1>1 DEF VersionsInv, Numbered, Present, Rows
  <2> QED BY <1>2, <1>3, <2>1 DEF VersionsInv, Numbered, Rows
<1>7. FamiliesHoldTogether'
  <2> SUFFICES ASSUME NEW x \in Present'
               PROVE  /\ version'[x].family \in 1 .. x
                      /\ version'[x].parent # NULL =>
                            /\ version'[x].parent \in Present' /\ version'[x].parent < x
                            /\ version'[version'[x].parent].family = version'[x].family
                      /\ version'[x].family \in Present' =>
                            version'[version'[x].family].family = version'[x].family
    BY DEF FamiliesHoldTogether
  <2>1. x \in Present /\ x # r /\ x \in Rows
    BY <1>4 DEF Present
  <2>2. /\ version[x].family \in 1 .. x
        /\ version[x].parent # NULL =>
              /\ version[x].parent \in Present /\ version[x].parent < x
              /\ version[version[x].parent].family = version[x].family
        /\ version[x].family \in Present => version[version[x].family].family = version[x].family
    BY <2>1 DEF VersionsInv, FamiliesHoldTogether
  <2> QED BY <1>3, <1>4, <2>1, <2>2 DEF Present
<1>8. Released'
  BY <1>3, <1>4 DEF VersionsInv, Released, SubmittedIsKept, Present
<1> QED BY <1>5, <1>6, <1>7, <1>8 DEF VersionsInv

-----------------------------------------------------------------------------
LEMMA VersionsStep == ASSUME VersionsInv, [VersionsNext]_versionVars PROVE VersionsInv'
<1> USE NoUserIsNull, StagesAssumption, MaxRowsAssumption
<1>a. ASSUME NEW r \in Present
      PROVE  /\ r \in Rows /\ version[r].family \in Rows /\ version[r] \in RowType
             /\ version[r] = [status |-> version[r].status, owner |-> version[r].owner,
                              parent |-> version[r].parent, family |-> version[r].family]
  <2>1. r \in Rows /\ version[r] \in RowType
    BY DEF VersionsInv, VersionsTypeOK, RowType, Present
  <2>2. version[r].family \in 1 .. r
    BY DEF VersionsInv, FamiliesHoldTogether
  <2> QED BY <2>1, <2>2 DEF RowType, Rows
<1>b. version \in [Rows -> RowType]
  BY DEF VersionsInv, VersionsTypeOK, RowType
<1>1. ASSUME NEW u \in Users, NEW s \in Stages, NEW team \in BOOLEAN, CreateRoot(u, s, team)
      PROVE  VersionsInv'
  BY <1>1, InsertKeeps DEF CreateRoot
<1>2. ASSUME NEW r \in Rows, NEW o \in Users \cup {NULL}, r \in Present,
             Insert("draft", o, r, version[r].family)
      PROVE  VersionsInv'
  <2>1. r # NULL /\ version[r].family \in Rows /\ "draft" \in Stages
    BY <1>a, <1>2 DEF Rows
  <2> QED BY <1>2, <2>1, InsertKeeps
<1>3. ASSUME NEW r \in Rows,
             CloneVersion(r) \/ \E u \in Users : CloneForEditing(u, r)
      PROVE  VersionsInv'
  BY <1>2, <1>3 DEF CloneVersion, CloneForEditing, FamilyOf
<1>4. ASSUME NEW r \in Rows, SubmitVersion(r) PROVE VersionsInv'
  <2>1. r \in Present /\ version[r] \in RowType
    BY <1>4, <1>a DEF SubmitVersion
  <2>2. /\ version' \in [Rows -> RowType]
        /\ \A x \in Rows \ {r} : version'[x] = version[x]
        /\ version'[r].parent = version[r].parent /\ version'[r].family = version[r].family
        /\ version'[r].owner = NULL
    BY <1>4, <1>b, <2>1 DEF SubmitVersion, RowType
  <2> QED BY <1>4, <2>1, <2>2, EditKeeps DEF SubmitVersion
<1>5. ASSUME NEW r \in Rows, NEW s \in Stages, ChangeVersionStatus(r, s) PROVE VersionsInv'
  <2>1. r \in Present /\ version[r] \in RowType
    BY <1>5, <1>a DEF ChangeVersionStatus
  <2>2. /\ version' \in [Rows -> RowType]
        /\ \A x \in Rows \ {r} : version'[x] = version[x]
        /\ version'[r].parent = version[r].parent /\ version'[r].family = version[r].family
        /\ version'[r].owner = version[r].owner
    BY <1>5, <1>b, <2>1 DEF ChangeVersionStatus, RowType
  <2>3. \/ UNCHANGED <<submitted, held>>
        \/ /\ submitted' = submitted \cup {r} /\ held' \in {held \ {r}, held \cup {r}}
           /\ r \in held' \/ version'[r].owner = NULL
    <3>1. held \in {held \ {r}, held \cup {r}}
      OBVIOUS
    <3> QED BY <1>5, <2>2, <3>1 DEF ChangeVersionStatus
  <2> QED BY <1>5, <2>1, <2>2, <2>3, EditKeeps DEF ChangeVersionStatus
<1>6. ASSUME NEW u \in Users, NEW r \in Rows, CommitDraft(u, r) PROVE VersionsInv'
  <2>1. r \in Present /\ version[r] \in RowType
    BY <1>6, <1>a DEF CommitDraft
  <2>2. /\ version' \in [Rows -> RowType]
        /\ \A x \in Rows \ {r} : version'[x] = version[x]
        /\ version'[r].parent = version[r].parent /\ version'[r].family = version[r].family
        /\ version'[r].owner = NULL
    BY <1>6, <1>b, <2>1 DEF CommitDraft, RowType
  <2> QED BY <1>6, <2>1, <2>2, EditKeeps DEF CommitDraft
<1>7. ASSUME NEW r \in Rows, DeleteVersion(r) PROVE VersionsInv'
  BY <1>7, DropKeeps DEF DeleteVersion
<1>8. ASSUME NEW u \in Users, NEW r \in Rows, DiscardDraft(u, r) PROVE VersionsInv'
  <2>1. r \notin submitted \ held
    BY <1>8 DEF DiscardDraft, VersionsInv, Released
  <2> QED BY <1>8, <2>1, DropKeeps DEF DiscardDraft
<1>9. CASE UNCHANGED versionVars
  BY <1>9 DEF versionVars, VersionsInv, VersionsTypeOK, Numbered, FamiliesHoldTogether, Released,
              SubmittedIsKept, Present
<1> QED BY <1>1, <1>2, <1>3, <1>4, <1>5, <1>6, <1>7, <1>8, <1>9 DEF VersionsNext

LEMMA VersionsInvariant == VersionsSpec => []VersionsInv
<1>1. VersionsInit => VersionsInv
  BY MaxRowsAssumption
  DEF VersionsInit, VersionsInv, VersionsTypeOK, Numbered, FamiliesHoldTogether, Released,
      SubmittedIsKept, Present, NoRow, Rows
<1>2. VersionsInv /\ [VersionsNext]_versionVars => VersionsInv'
  BY VersionsStep
<1> QED BY <1>1, <1>2, PTL DEF VersionsSpec

(* A row agrees with its parent and with the founder of its family on the  *)
(* family it belongs to (contract_cloner.py, create_new_version, the       *)
(* foreign key set to null by a deletion): FamiliesHoldTogether.           *)
THEOREM FamiliesAgree == VersionsSpec => []FamiliesHoldTogether
<1>1. VersionsInv => FamiliesHoldTogether
  BY DEF VersionsInv
<1> QED BY <1>1, VersionsInvariant, PTL

(* What was committed to the team, or put to review by whatever way, can   *)
(* be discarded only where a change of the status left it with its drafter *)
(* (request_steward_review, commit_personal_draft, transition_status,      *)
(* discard_personal_draft): SubmittedIsKept.                               *)
THEOREM SubmissionsStay == VersionsSpec => []SubmittedIsKept
<1>1. VersionsInv => SubmittedIsKept
  BY DEF VersionsInv, Released
<1> QED BY <1>1, VersionsInvariant, PTL

-----------------------------------------------------------------------------
(* A strict order on a finite set has a least element below which there is *)
(* nothing: the set of what is below it is least among those sets.         *)
LEMMA MinimalExists ==
    ASSUME NEW S, IsFiniteSet(S), S # {}, NEW R,
           \A x \in S : <<x, x>> \notin R,
           \A x, y, z \in S : <<x, y>> \in R /\ <<y, z>> \in R => <<x, z>> \in R
    PROVE  \E x \in S : \A y \in S : <<y, x>> \notin R
<1> DEFINE below(x) == {y \in S : <<y, x>> \in R}
           T == {{y \in S : <<y, x>> \in R} : x \in S}
           O == StrictSubsetOrdering(S)
<1>1. IsWellFoundedOn(O, SUBSET S)
  BY FS_StrictSubsetOrderingWellFounded, FS_FiniteSubsetsOfFinite
<1>2. T \subseteq SUBSET S /\ T # {}
  <2>1. PICK x \in S : TRUE
    OBVIOUS
  <2>2. below(x) \in T
    OBVIOUS
  <2>3. ASSUME NEW u \in T PROVE u \in SUBSET S
    <3>1. PICK z \in S : u = below(z)
      OBVIOUS
    <3> QED BY <3>1
  <2>4. T # {}
    BY <2>2
  <2> QED BY <2>3, <2>4
<1>3. PICK t \in T : \A u \in T : <<u, t>> \notin O
  <2> HIDE DEF T, O
  <2> QED BY <1>1, <1>2, WFMin
<1>4. PICK x \in S : t = below(x)
  OBVIOUS
<1>5. ASSUME NEW y \in S, <<y, x>> \in R PROVE FALSE
  <2>1. below(y) \subseteq below(x) /\ y \in below(x) /\ y \notin below(y)
    BY <1>5
  <2>2. <<below(y), below(x)>> \in O
    BY <2>1 DEF StrictSubsetOrdering
  <2> QED BY <1>3, <1>4, <2>2
<1> QED BY <1>5

LEMMA RankIsNat == \A r \in Rows, e \in BOOLEAN : Rank(r, e) \in Nat
BY DEF Rank, ElevatedRank, ConsumerRank

(* The rows that Collapse chooses from, and its order on them.             *)
Survivors(rows, elevated, admin) ==
    {r \in rows : /\ admin \/ version[r].status # "retired"
                  /\ elevated \/ version[r].status \in Published}

Better(x, y, elevated) ==
    \/ Rank(x, elevated) < Rank(y, elevated)
    \/ Rank(x, elevated) = Rank(y, elevated) /\ x > y

LEMMA CollapseIsBest ==
    ASSUME NEW rows, NEW e, NEW a
    PROVE  Collapse(rows, e, a) =
              {x \in Survivors(rows, e, a) : \A y \in Survivors(rows, e, a) \ {x} : Better(x, y, e)}
BY DEF Collapse, Survivors, Better

(* Among rows of which one survives, Collapse chooses exactly one.         *)
LEMMA CollapseIsOne ==
    ASSUME NEW rows \in SUBSET Rows, NEW e \in BOOLEAN, NEW a \in BOOLEAN,
           Survivors(rows, e, a) # {}
    PROVE  Cardinality(Collapse(rows, e, a)) = 1
<1> DEFINE S == Survivors(rows, e, a)
           R == {p \in S \X S : Better(p[1], p[2], e)}
<1>1. S \subseteq Rows /\ S \subseteq Nat
  <2>1. S \subseteq rows
    BY DEF Survivors
  <2> HIDE DEF S
  <2> QED BY <2>1, MaxRowsAssumption DEF Rows
<1>2. IsFiniteSet(S)
  <2>1. IsFiniteSet(Rows)
    BY MaxRowsAssumption, FS_Interval DEF Rows
  <2> HIDE DEF S
  <2> QED BY <1>1, <2>1, FS_Subset
<1>3. \A x \in S : Rank(x, e) \in Nat
  BY <1>1, RankIsNat
<1> HIDE DEF S
<1>4. \A x, y \in S : <<x, y>> \in R <=> Better(x, y, e)
  OBVIOUS
<1>5. /\ \A x \in S : ~Better(x, x, e)
      /\ \A x, y, z \in S : Better(x, y, e) /\ Better(y, z, e) => Better(x, z, e)
      /\ \A x, y \in S : x # y /\ ~Better(y, x, e) => Better(x, y, e)
      /\ \A x, y \in S : Better(x, y, e) => ~Better(y, x, e)
  BY <1>1, <1>3 DEF Better
<1>6. PICK x \in S : \A y \in S : ~Better(y, x, e)
  <2>1. S # {}
    BY DEF S
  <2>2. /\ \A x \in S : <<x, x>> \notin R
        /\ \A x, y, z \in S : <<x, y>> \in R /\ <<y, z>> \in R => <<x, z>> \in R
    BY <1>4, <1>5
  <2> HIDE DEF R
  <2>3. \E x \in S : \A y \in S : <<y, x>> \notin R
    BY <1>2, <2>1, <2>2, MinimalExists
  <2> QED BY <1>4, <2>3
<1>7. Collapse(rows, e, a) = {x}
  BY <1>5, <1>6, CollapseIsBest DEF S
<1> QED BY <1>7, FS_Singleton

(* What Collapse chooses from a set of rows: nothing retired; without      *)
(* elevation what is published, and what is active before what is          *)
(* deprecated; and one row if one is published.                            *)
LEMMA CollapseFits ==
    ASSUME NEW rows \in SUBSET Rows, NEW e \in BOOLEAN
    PROVE  /\ Collapse(rows, e, FALSE) \subseteq rows
           /\ \A r \in Collapse(rows, e, FALSE) :
                 /\ version[r].status # "retired"
                 /\ ~e => \/ version[r].status = "active"
                          \/ /\ version[r].status = "deprecated"
                             /\ \A x \in rows : version[x].status # "active"
           /\ (\E r \in rows : version[r].status \in Published) =>
                 Cardinality(Collapse(rows, e, FALSE)) = 1
<1> DEFINE S == Survivors(rows, e, FALSE)
<1>1. Collapse(rows, e, FALSE) = {x \in S : \A y \in S \ {x} : Better(x, y, e)}
  BY CollapseIsBest
<1>2. S \subseteq rows /\ \A r \in S : version[r].status # "retired"
  BY DEF Survivors
<1>3. ASSUME NEW r \in Collapse(rows, e, FALSE), ~e
      PROVE  \/ version[r].status = "active"
             \/ /\ version[r].status = "deprecated"
                /\ \A x \in rows : version[x].status # "active"
  <2>1. r \in S /\ version[r].status \in Published
    BY <1>1, <1>3 DEF Survivors
  <2>2. ASSUME NEW x \in rows, version[x].status = "active", version[r].status = "deprecated"
        PROVE  FALSE
    <3>1. x \in S /\ x # r
      BY <2>2 DEF Survivors, Published
    <3>2. Rank(x, e) = 0 /\ Rank(r, e) = 1
      BY <1>3, <2>2 DEF Rank, ConsumerRank
    <3>3. Better(r, x, e)
      BY <1>1, <3>1
    <3> QED BY <3>2, <3>3 DEF Better
  <2> QED BY <2>1, <2>2 DEF Published
<1>4. ASSUME NEW r \in rows, version[r].status \in Published
      PROVE  Cardinality(Collapse(rows, e, FALSE)) = 1
  <2>1. r \in S
    BY <1>4 DEF Survivors, Published
  <2> QED BY <2>1, CollapseIsOne
<1> HIDE DEF S
<1> QED BY <1>1, <1>2, <1>3, <1>4

(* Whatever versions, drafts, teams and statuses there are, the version a  *)
(* user is sent to, and the one of the list, suits them                    *)
(* (collapse_by_family, get_family_latest, _query_contracts): LatestIsFit. *)
THEOREM LatestSuits == VersionsSpec => []LatestIsFit
<1>1. ASSUME VersionsTypeOK PROVE LatestIsFit
  <2> SUFFICES ASSUME NEW u \in Users, NEW f \in Rows, NEW ours \in SUBSET Family(f)
      PROVE  LET latest == Latest(u, f, FALSE)
                 listed == Listed(u, f, ours, FALSE)
                 seen   == FamilyVersions(u, f, FALSE)
                 Fit(chosen, rows) ==
                     /\ \A r \in chosen : version[r].status # "retired"
                     /\ ours = {} /\ (\A x \in Present : version[x].owner # u) =>
                           \A r \in chosen :
                               \/ version[r].status = "active"
                               \/ /\ version[r].status = "deprecated"
                                  /\ \A x \in rows : version[x].status # "active"
                     /\ (\E r \in rows : version[r].status \in Published) =>
                           Cardinality(chosen) = 1
             IN  /\ \A r \in latest : version[r].owner \in {NULL, u}
                 /\ Fit(latest, seen) /\ Fit(listed, Family(f))
    BY DEF LatestIsFit
  <2> DEFINE latest == Latest(u, f, FALSE)
             listed == Listed(u, f, ours, FALSE)
             seen   == FamilyVersions(u, f, FALSE)
             Fit(chosen, rows) ==
                 /\ \A r \in chosen : version[r].status # "retired"
                 /\ ours = {} /\ (\A x \in Present : version[x].owner # u) =>
                       \A r \in chosen :
                           \/ version[r].status = "active"
                           \/ /\ version[r].status = "deprecated"
                              /\ \A x \in rows : version[x].status # "active"
                 /\ (\E r \in rows : version[r].status \in Published) => Cardinality(chosen) = 1
  <2>1. /\ seen \in SUBSET Family(f)
        /\ Elevated(u, f, FALSE) \in BOOLEAN /\ ListElevated(u, f, ours, FALSE) \in BOOLEAN
        /\ Elevated(u, f, FALSE) => \E x \in Present : version[x].owner = u
        /\ ListElevated(u, f, ours, FALSE) =>
              ours # {} \/ \E x \in Present : version[x].owner = u
    BY DEF FamilyVersions, Family, Elevated, ListElevated
  <2>2. \A r \in latest : version[r].owner \in {NULL, u}
    <3>1. seen \in SUBSET Rows
      BY <2>1 DEF Family, Present
    <3>2. latest \subseteq seen
      BY <2>1, <3>1, CollapseFits DEF Latest
    <3> QED BY <3>2 DEF FamilyVersions
  <2>3. ASSUME NEW rows \in SUBSET Family(f), NEW e \in BOOLEAN,
               e => ours # {} \/ \E x \in Present : version[x].owner = u
        PROVE  Fit(Collapse(rows, e, FALSE), rows)
    <3>1. rows \in SUBSET Rows
      BY DEF Family, Present
    <3>2. /\ \A r \in Collapse(rows, e, FALSE) :
                /\ version[r].status # "retired"
                /\ ~e => \/ version[r].status = "active"
                         \/ /\ version[r].status = "deprecated"
                            /\ \A x \in rows : version[x].status # "active"
          /\ (\E r \in rows : version[r].status \in Published) =>
                Cardinality(Collapse(rows, e, FALSE)) = 1
      BY <3>1, CollapseFits
    <3> QED BY <2>3, <3>2
  <2>4. Fit(latest, seen) /\ Fit(listed, Family(f))
    <3>1. /\ latest = Collapse(seen, Elevated(u, f, FALSE), FALSE)
          /\ listed = Collapse(Family(f), ListElevated(u, f, ours, FALSE), FALSE)
      BY DEF Latest, Listed
    <3> HIDE DEF latest, listed, seen, Fit
    <3> QED BY <2>1, <2>3, <3>1
  <2> QED BY <2>2, <2>4
<1>2. VersionsInv => VersionsTypeOK
  BY DEF VersionsInv
<1> QED BY <1>1, <1>2, VersionsInvariant, PTL
=============================================================================
