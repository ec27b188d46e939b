----------------------------- MODULE Governance -----------------------------
(* What the smaller components have in common. *)
EXTENDS Database, Naturals, FiniteSets

CONSTANT Users  \* people, by their email

ASSUME NoUserIsNull == NULL \notin Users

(* The statuses of a contract in models/lifecycle.py, and the two that     *)
(* other code gives to one: `certified' in the transitions of a request,   *)
(* `deployed' in the completion of a workflow.                             *)
ContractStatuses == {"draft", "proposed", "under_review", "approved", "active",
                     "deprecated", "retired", "certified", "deployed"}
=============================================================================
