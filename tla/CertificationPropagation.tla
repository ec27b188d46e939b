---------------------- MODULE CertificationPropagation ----------------------
(***************************************************************************)
(* Certification levels and how they are inherited along relationships     *)
(* (controller/certification_propagator.py, its callers in                 *)
(* routes/data_product_routes.py and routes/data_contracts_routes.py, and  *)
(* the entity_action step of common/workflow_executor.py).  An endpoint    *)
(* commits the level, walks the relationships breadth first and commits    *)
(* again; pool threads run workflow steps in between.  Level 0 stands for  *)
(* null.  Relationships do not change.                                     *)
(***************************************************************************)
EXTENDS Governance, Sequences, SequencesExt

CONSTANTS
    Entities,   \* products, contracts, assets and what lies between them
    Graphs,     \* sets of relationships, each a set of pairs
    Levels,     \* the defined certification levels
    MaxCerts,   \* bound on certifications
    MaxCuts     \* bound on crashes

ASSUME LevelsAssumption == Levels \subseteq Nat \ {0}
ASSUME GraphsAssumption == \A g \in Graphs : g \subseteq Entities \X Entities
ASSUME EntitiesAssumption == IsFiniteSet(Entities)
ASSUME CertBoundsAssumption == MaxCerts \in Nat /\ MaxCuts \in Nat

VARIABLES
    edges,      \* entity_relationships that inherit
    own,        \* certification_level
    inherited,  \* inherited_certification_level
    walk,       \* the propagation under way
    certs,      \* history: which levels were given to which entities
    changed,    \* history: a level changed during the propagation
    cuts        \* crashes so far

certVars == <<edges, own, inherited, walk, certs, changed, cuts>>

-----------------------------------------------------------------------------
AnyLevel == Levels \cup {0}
Higher(a, b) == IF a > b THEN a ELSE b

ChildrenIn(g, e) == {f \in Entities : <<e, f>> \in g}
Children(e)      == ChildrenIn(edges, e)

(* What can be reached from an entity, over one relationship or more: the  *)
(* least set that holds its children and the children of its members.      *)
Closed(g) == {S \in SUBSET Entities : \A e \in S : ChildrenIn(g, e) \subseteq S}

Reach == [g \in Graphs |-> [e \in Entities |->
             {f \in Entities : \A S \in Closed(g) : ChildrenIn(g, e) \subseteq S => f \in S}]]

Below(e) == Reach[edges][e]

NoWalk == [on |-> FALSE, source |-> NULL, level |-> 0, queue |-> <<>>,
           found |-> [e \in {} |-> 0]]
Visited == DOMAIN walk.found

Loop == ~walk.on

(* The order in which the database returns the children is arbitrary. *)
Enqueue(queue, es, l) ==
    {queue \o [i \in DOMAIN order |-> <<order[i], l>>] : order \in SetToSeqs(es)}

-----------------------------------------------------------------------------
(* certify: the level is committed, the children of the source are queued. *)
Certify(e, l) ==
    /\ Loop /\ Cardinality(certs) < MaxCerts
    /\ own' = [own EXCEPT ![e] = l]
    /\ certs' = certs \cup {<<e, l>>}
    /\ \E q \in Enqueue(<<>>, Children(e), l) :
          walk' = [on |-> TRUE, source |-> e, level |-> l, queue |-> q, found |-> NoWalk.found]
    /\ changed' = FALSE
    /\ UNCHANGED <<edges, inherited, cuts>>

(* Mutant: an entity inherits its own level too. *)
InheritsOwn(e, l) == Higher(l, own[e])

Inherits(e, l) == l

(* Mutant: the level of the source is passed on. *)
PassesIncoming(e, l) == l

PassesOn(e, l) == Higher(l, own[e])

(* Mutant: the source's children are all. *)
UnseenNone(e, seen) == {}

Unseen(e, seen) == Children(e) \ seen

Visit ==
    /\ walk.on /\ walk.queue # <<>>
    /\ LET e == Head(walk.queue)[1]
           l == Head(walk.queue)[2]
       IN  IF e \in Visited
           THEN walk' = [walk EXCEPT !.queue = Tail(@)]
           ELSE LET found == [x \in Visited \cup {e} |->
                                IF x = e THEN Inherits(e, l) ELSE walk.found[x]]
                IN  \E q \in Enqueue(Tail(walk.queue), Unseen(e, DOMAIN found), PassesOn(e, l)) :
                       walk' = [walk EXCEPT !.queue = q, !.found = found]
    /\ UNCHANGED <<edges, own, inherited, certs, changed, cuts>>

Done == walk.on /\ walk.queue = <<>>

CommitWalk ==
    /\ Done
    /\ inherited' = [e \in Entities |-> IF e \in Visited THEN walk.found[e] ELSE inherited[e]]
    /\ walk' = NoWalk
    /\ UNCHANGED <<edges, own, certs, changed, cuts>>

Decertify(e) ==
    /\ Loop
    /\ own' = [own EXCEPT ![e] = 0]
    /\ UNCHANGED <<edges, inherited, walk, certs, changed, cuts>>

(* handle-certify of a contract and the entity_action step write a level   *)
(* and propagate nothing.                                                  *)
CertifyOnly(e, l) ==
    /\ Cardinality(certs) < MaxCerts
    /\ own' = [own EXCEPT ![e] = l]
    /\ certs' = certs \cup {<<e, l>>}
    /\ changed' = TRUE
    /\ UNCHANGED <<edges, inherited, walk, cuts>>

(* The step waits for the rows that a propagation has written. *)
WorkflowDecertifies(e) ==
    /\ e \notin Visited
    /\ own' = [own EXCEPT ![e] = 0]
    /\ inherited' = [inherited EXCEPT ![e] = 0]
    /\ changed' = TRUE
    /\ UNCHANGED <<edges, walk, certs, cuts>>

CrashInWalk ==
    /\ walk.on /\ cuts < MaxCuts
    /\ walk' = NoWalk
    /\ cuts' = cuts + 1
    /\ UNCHANGED <<edges, own, inherited, certs, changed>>

-----------------------------------------------------------------------------
CertInit ==
    /\ edges \in Graphs
    /\ own = [e \in Entities |-> 0] /\ inherited = [e \in Entities |-> 0]
    /\ walk = NoWalk
    /\ certs = {} /\ changed = FALSE /\ cuts = 0

CertNext ==
    \/ \E e \in Entities :
          \/ \E l \in Levels : Certify(e, l) \/ CertifyOnly(e, l)
          \/ Decertify(e) \/ WorkflowDecertifies(e)
    \/ Visit \/ CommitWalk \/ CrashInWalk

CertSpec == CertInit /\ [][CertNext]_certVars

-----------------------------------------------------------------------------
(* The state is well formed: what a propagation found lies below its       *)
(* source, and nothing is found while none is under way.                   *)
CertTypeOK ==
    /\ edges \in Graphs
    /\ own \in [Entities -> AnyLevel] /\ inherited \in [Entities -> AnyLevel]
    /\ certs \subseteq Entities \X Levels
    /\ changed \in BOOLEAN /\ cuts \in 0 .. MaxCuts
    /\ walk.on => /\ walk.source \in Entities /\ walk.level \in Levels
                  /\ walk.queue \in Seq(Below(walk.source) \X Levels)
                  /\ walk.found \in [Visited -> Levels]
                  /\ Visited \subseteq Below(walk.source)
    /\ ~walk.on => walk = NoWalk

(* An inherited level was given to something upstream: no level comes from *)
(* nowhere, or from the entity itself unless it lies on a cycle.           *)
InheritedIsExplained ==
    \A e \in Entities :
        inherited[e] # 0 => \E s \in Entities : <<s, inherited[e]>> \in certs /\ e \in Below(s)

(* A propagation reaches exactly what lies below its source, cycles and    *)
(* all, and gives each at least the level of the source.                   *)
WalkIsComplete ==
    Done => /\ Visited = Below(walk.source)
            /\ \A e \in Visited : walk.found[e] >= walk.level

(* Where every entity has one way up to the source, an entity inherits the *)
(* highest level on that way.  (With several ways it gets the level of one *)
(* of the shortest, not the highest.)                                      *)
TreesInheritTheHighest ==
    LET s     == walk.source
        tree  == Visited \cup {s}
        above(e) == {x \in tree \ {e} : e \in Below(x)}
        level(x) == IF x = s THEN walk.level ELSE own[x]
    IN  /\ Done /\ ~changed /\ s \notin Visited
        /\ \A e \in Visited : Cardinality({x \in tree : e \in Children(x)}) = 1
        => \A e \in Visited :
              /\ \A x \in above(e) : walk.found[e] >= level(x)
              /\ \E x \in above(e) : walk.found[e] = level(x)
=============================================================================
