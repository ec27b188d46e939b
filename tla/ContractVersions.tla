-------------------------- MODULE ContractVersions --------------------------
(***************************************************************************)
(* Versions of data contracts: families, personal drafts, and which        *)
(* version of a family a user is shown (controller/                        *)
(* data_contracts_manager.py, repositories/data_contracts_repository.py,   *)
(* utils/contract_cloner.py, common/version_visibility.py).  Rows are      *)
(* numbered in the order of their creation.  A status may change to any    *)
(* other: module ContractLifecycle says when.  Contents, version numbers,  *)
(* the project filter and the number of rows that a list stops at are left *)
(* out.                                                                    *)
(***************************************************************************)
EXTENDS Governance

CONSTANTS
    MaxRows,  \* bound on rows ever created
    Stages    \* the statuses that rows take

ASSUME MaxRowsAssumption == MaxRows \in Nat /\ NULL \notin 1 .. MaxRows
ASSUME StagesAssumption == {"draft", "proposed"} \subseteq Stages

VARIABLES
    version,    \* data_contracts rows
    created,    \* how many were created
    submitted,  \* history: rows that went to review or were committed
    held,       \* history: those that went there with their drafter as owner
    discarded   \* history: rows that their owners discarded

versionVars == <<version, created, submitted, held, discarded>>

-----------------------------------------------------------------------------
Rows    == 1 .. MaxRows
NoRow   == [status |-> "none", owner |-> NULL, parent |-> NULL, family |-> NULL]
Present == {r \in Rows : version[r] # NoRow}

(* draft_owner_id and version_family_id of a new row; the listener gives a *)
(* row without a family its own id.                                        *)
Insert(status, owner, parent, family) ==
    /\ created < MaxRows
    /\ created' = created + 1
    /\ version' = [version EXCEPT ![created + 1] =
                     [status |-> status, owner |-> owner, parent |-> parent,
                      family |-> IF family = NULL THEN created + 1 ELSE family]]
    /\ UNCHANGED <<submitted, held, discarded>>

(* Without an owning team a draft belongs to its creator. *)
CreateRoot(u, s, team) ==
    Insert(s, IF s = "draft" /\ ~team THEN u ELSE NULL, NULL, NULL)

(* Mutant: the source, not its family, is the root of the new version. *)
FamilyOfParent(r) == r

FamilyOf(r) == version[r].family

(* clone_contract_for_new_version and create_new_version. *)
CloneVersion(r)     == r \in Present /\ Insert("draft", NULL, r, FamilyOf(r))
CloneForEditing(u, r) == r \in Present /\ Insert("draft", u, r, FamilyOf(r))

CommitDraft(u, r) ==
    /\ r \in Present /\ version[r].owner = u
    /\ version' = [version EXCEPT ![r].owner = NULL]
    /\ submitted' = submitted \cup {r} /\ held' = held \ {r}
    /\ UNCHANGED <<created, discarded>>

(* The foreign key of the children is set to null. *)
DropRow(r) ==
    version' = [x \in Rows |-> IF x = r THEN NoRow
                               ELSE IF version[x].parent = r
                               THEN [version[x] EXCEPT !.parent = NULL]
                               ELSE version[x]]

DiscardDraft(u, r) ==
    /\ r \in Present /\ version[r].owner = u
    /\ DropRow(r)
    /\ discarded' = discarded \cup {r}
    /\ UNCHANGED <<created, submitted, held>>

DeleteVersion(r) ==
    /\ r \in Present
    /\ DropRow(r)
    /\ UNCHANGED <<created, submitted, held, discarded>>

(* Mutant: the draft stays with its owner. *)
SubmitOnly(r) ==
    /\ r \in Present /\ version[r].status = "draft"
    /\ version' = [version EXCEPT ![r].status = "proposed"]
    /\ submitted' = submitted \cup {r} /\ held' = held \ {r}
    /\ UNCHANGED <<created, discarded>>

(* request_steward_review *)
SubmitVersion(r) ==
    /\ r \in Present /\ version[r].status = "draft"
    /\ version' = [version EXCEPT ![r].status = "proposed", ![r].owner = NULL]
    /\ submitted' = submitted \cup {r} /\ held' = held \ {r}
    /\ UNCHANGED <<created, discarded>>

(* No other change of the status looks at the owner: transition_status,    *)
(* handle_status_change_response and the update may propose a version too. *)
ChangeVersionStatus(r, s) ==
    /\ r \in Present
    /\ version' = [version EXCEPT ![r].status = s]
    /\ submitted' = IF s = "proposed" THEN submitted \cup {r} ELSE submitted
    /\ held' = IF s = "proposed" /\ version[r].owner # NULL THEN held \cup {r} ELSE held
    /\ UNCHANGED <<created, discarded>>

-----------------------------------------------------------------------------
(* What a user is shown.                                                   *)

Family(f) == {r \in Present : version[r].family = f}

(* Mutant: personal drafts are not filtered. *)
FamilyRows(u, f, admin) == Family(f)

(* get_family_versions *)
FamilyVersions(u, f, admin) ==
    {r \in Family(f) : admin \/ version[r].owner \in {NULL, u}}

Published == {"active", "deprecated"}

(* Lower is preferred. *)
ElevatedRank ==
    [draft |-> 0, proposed |-> 1, under_review |-> 2, approved |-> 3, active |-> 4,
     deprecated |-> 5]

ConsumerRank == [active |-> 0, deprecated |-> 1]

Rank(r, elevated) ==
    LET table == IF elevated THEN ElevatedRank ELSE ConsumerRank
        s     == version[r].status
    IN  IF s \in DOMAIN table THEN table[s] ELSE 999

(* collapse_by_family on the rows of one family: the best rank, and of     *)
(* those the newest.                                                       *)
Collapse(rows, elevated, admin) ==
    LET survivors == {r \in rows : /\ admin \/ version[r].status # "retired"
                                   /\ elevated \/ version[r].status \in Published}
        better(x, y) == \/ Rank(x, elevated) < Rank(y, elevated)
                        \/ Rank(x, elevated) = Rank(y, elevated) /\ x > y
    IN  {x \in survivors : \A y \in survivors \ {x} : better(x, y)}

(* The teams that own versions do not count here. *)
Elevated(u, f, admin) == admin \/ \E r \in FamilyVersions(u, f, admin) : version[r].owner = u

(* GET families/{family_id}/latest: one version, or none. *)
Latest(u, f, admin) ==
    Collapse(FamilyVersions(u, f, admin), Elevated(u, f, admin), admin)

(* GET data-contracts: of each family one version, or none.  Here they do: *)
(* `ours' are the rows that a team of the user owns.  Nobody's draft is    *)
(* left out.                                                               *)
ListElevated(u, f, ours, admin) ==
    admin \/ \E r \in Family(f) : version[r].owner = u \/ r \in ours

Listed(u, f, ours, admin) ==
    Collapse(Family(f), ListElevated(u, f, ours, admin), admin)

-----------------------------------------------------------------------------
VersionsInit ==
    /\ version = [r \in Rows |-> NoRow]
    /\ created = 0 /\ submitted = {} /\ held = {} /\ discarded = {}

VersionsNext ==
    \/ \E u \in Users, s \in Stages, team \in BOOLEAN : CreateRoot(u, s, team)
    \/ \E r \in Rows :
          \/ CloneVersion(r) \/ SubmitVersion(r) \/ DeleteVersion(r)
          \/ \E u \in Users : CloneForEditing(u, r) \/ CommitDraft(u, r) \/ DiscardDraft(u, r)
          \/ \E s \in Stages : ChangeVersionStatus(r, s)

VersionsSpec == VersionsInit /\ [][VersionsNext]_versionVars

-----------------------------------------------------------------------------
(* The state is well formed.                                               *)
VersionsTypeOK ==
    /\ version \in [Rows -> [status: Stages \cup {"none"}, owner: Users \cup {NULL},
                             parent: Rows \cup {NULL}, family: Rows \cup {NULL}]]
    /\ created \in 0 .. MaxRows
    /\ submitted \subseteq Rows /\ held \subseteq submitted /\ discarded \subseteq Rows

(* One lookup of version_family_id returns every version: a row, its       *)
(* parent and the row that founded the family agree on it, also when       *)
(* versions in between were deleted or discarded.                          *)
FamiliesHoldTogether ==
    \A r \in Present :
        /\ version[r].family \in 1 .. r
        /\ version[r].parent # NULL =>
              /\ version[r].parent \in Present /\ version[r].parent < r
              /\ version[version[r].parent].family = version[r].family
        /\ version[r].family \in Present => version[version[r].family].family = version[r].family

(* Whoever drafted a version cannot discard it any more once it was        *)
(* committed to the team or put to review, whatever happens to its status  *)
(* afterwards; unless it was proposed by a change of its status, which     *)
(* leaves it with its drafter (SubmittedIsReleased).                       *)
SubmittedIsKept == submitted \cap discarded \subseteq held

(* "The draft_owner_id is cleared again on the draft->proposed transition" *)
(* (data_contracts_manager.py): a version that was committed or put to     *)
(* review belongs to nobody.  It fails: only the steward request and the   *)
(* commit clear it, no change of the status does (run doc_draft).          *)
SubmittedIsReleased == \A r \in submitted \cap Present : version[r].owner = NULL

(* The version of a family that GET .../latest sends a user to is no other *)
(* user's personal draft.  There and in the list, nobody gets a retired    *)
(* one; users without drafts of their own, and of no team that owns a      *)
(* version, get a published one, and an active one before a deprecated     *)
(* one; and whoever can see a published version gets exactly one.  Owning  *)
(* teams count as elevated in the list only: of a version that a team owns *)
(* GET .../latest may send its members to a published one, the list to a   *)
(* draft; neither is promised here.                                        *)
LatestIsFit ==
    \A u \in Users, f \in Rows : \A ours \in SUBSET Family(f) :
        LET latest == Latest(u, f, FALSE)
            listed == Listed(u, f, ours, FALSE)
            seen   == FamilyVersions(u, f, FALSE)
            Fit(chosen, rows) ==
                /\ \A r \in chosen : version[r].status # "retired"
                /\ ours = {} /\ (\A x \in Present : version[x].owner # u) =>
                      \A r \in chosen :
                          \/ version[r].status = "active"
                          \/ /\ version[r].status = "deprecated"
                             /\ \A x \in rows : version[x].status # "active"
                /\ (\E r \in rows : version[r].status \in Published) => Cardinality(chosen) = 1
        IN  /\ \A r \in latest : version[r].owner \in {NULL, u}
            /\ Fit(latest, seen) /\ Fit(listed, Family(f))
=============================================================================
