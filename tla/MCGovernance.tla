----------------------------- MODULE MCGovernance -----------------------------
(* Small instances of the governance modules for TLC.  They share no state:  *)
(* a behaviour is one of one of them, while the others stay as they began.   *)
EXTENDS CertificationPropagation, AgreementWizard, MatchReview, AssetHub, AccessGrants

VARIABLE part  \* whose behaviour it is

Sym == Permutations(Users)

(* A chain, two ways to one asset, a cycle, and two sources. *)
MCGraphs ==
    {{<<"p", "c">>, <<"c", "a">>, <<"a", "b">>},
     {<<"p", "c">>, <<"p", "a">>, <<"c", "b">>, <<"a", "b">>},
     {<<"p", "c">>, <<"c", "a">>, <<"a", "c">>, <<"a", "b">>},
     {<<"p", "a">>, <<"c", "a">>, <<"a", "b">>}}

MCFlows == {<<"form">>, <<"persist", "form">>}

(* Grants of one and of two days on a clock of two  .                        *)
MCDurations == {1, 2}

(* Bound: of two sessions the first subscribes and the second does not.      *)
FirstSubscribes == \A s \in Sessions : session[s].subscribes = (s = 1)

(* Bound: ids of requests and grants, which are all alike, are given out     *)
(* upwards.                                                                  *)
IdsUpwards ==
    /\ \A r \in Requests \ {1} : accessRequest[r].status # "none" =>
          accessRequest[r - 1].status # "none"
    /\ \A g \in Grants \ {1} : grant[g].status # "none" => grant[g - 1].status # "none"

MCInit ==
    /\ part \in {"certification", "wizard", "matches", "hub", "access"}
    /\ CertInit /\ WizardInit /\ MatchInit /\ HubInit /\ Init
    /\ part # "certification" => edges = {<<"p", "a">>, <<"c", "a">>, <<"a", "b">>}
    /\ part # "wizard" => flow = <<"form">> /\ onSale
    /\ part # "matches" => rules = "most_recent"

MCNext ==
    /\ UNCHANGED part
    /\ \/ /\ part = "certification" /\ CertNext
          /\ UNCHANGED <<wizardVars, matchVars, hubVars, vars>>
       \/ /\ part = "wizard" /\ WizardNext /\ FirstSubscribes'
          /\ UNCHANGED <<certVars, matchVars, hubVars, vars>>
       \/ /\ part = "matches" /\ MatchNext
          /\ UNCHANGED <<certVars, wizardVars, hubVars, vars>>
       \/ /\ part = "hub" /\ HubNext
          /\ UNCHANGED <<certVars, wizardVars, matchVars, vars>>
       \/ /\ part = "access" /\ Next /\ IdsUpwards'
          /\ UNCHANGED <<certVars, wizardVars, matchVars, hubVars>>

MCSpec == MCInit /\ [][MCNext]_<<part, certVars, wizardVars, matchVars, hubVars, vars>>

(* The state of every part is well formed.                                   *)
GovernanceTypeOK == CertTypeOK /\ WizardTypeOK /\ MatchTypeOK /\ HubTypeOK /\ TypeOK
=============================================================================
