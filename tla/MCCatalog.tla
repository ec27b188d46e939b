------------------------------ MODULE MCCatalog ------------------------------
(* Small instances for TLC of what the marketplace shows: products,          *)
(* contracts and versions of contracts.  They share no state: a behaviour is *)
(* one of one of them, while the others stay as they began.                  *)
EXTENDS ProductLifecycle, ContractLifecycle, ContractVersions, TLC

VARIABLE part  \* whose behaviour it is

Sym == Permutations(Products) \cup Permutations(Reviews) \cup Permutations(Users)

MCInit ==
    /\ part \in {"products", "contracts", "versions"}
    /\ Init /\ LifecycleInit /\ VersionsInit

MCNext ==
    /\ UNCHANGED part
    /\ \/ /\ part = "products" /\ Next
          /\ UNCHANGED <<lifecycleVars, versionVars>>
       \/ /\ part = "contracts" /\ LifecycleNext
          /\ UNCHANGED <<vars, versionVars>>
       \/ /\ part = "versions" /\ VersionsNext
          /\ UNCHANGED <<vars, lifecycleVars>>

MCSpec == MCInit /\ [][MCNext]_<<part, vars, lifecycleVars, versionVars>>

(* The state of every part is well formed.                                   *)
CatalogTypeOK == TypeOK /\ LifecycleTypeOK /\ VersionsTypeOK
=============================================================================
