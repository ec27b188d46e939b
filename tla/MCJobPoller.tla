---------------------------- MODULE MCJobPoller ----------------------------
(* Small instances of JobPoller for TLC. *)
EXTENDS JobPoller, TLC

Sym == Permutations(Jobs) \cup Permutations(Workflows)

CONSTANT MaxFaults  \* bound on crashes and errors together

MCSpec == Init /\ [][Next /\ crashes' + errors' <= MaxFaults]_vars
=============================================================================
