-------------------------- MODULE CertificationProofs --------------------------
(***************************************************************************)
(* Theorems about CertificationPropagation.  The invariant CertInv says of *)
(* every pair of an entity and a level that the walk knows (Met) that it   *)
(* lies below the source, that its level was given to something upstream   *)
(* (Sourced), and that the source or a visited parent handed it on         *)
(* (Handed); and that the children of what was visited are visited or      *)
(* queued.  What lies below an entity is the least closed set              *)
(* (BelowIsLeast): to show a fact of all of it, one shows that the         *)
(* entities with the fact are such a set.                                  *)
(***************************************************************************)
EXTENDS CertificationPropagation, SequenceTheorems, FiniteSetTheorems, TLAPS

Items(q) == {q[i] : i \in DOMAIN q}

(* What the walk knows of: the pairs of an entity and a level that wait in *)
(* its queue, and those it has visited.                                    *)
Queued == Items(walk.queue)
Met    == Queued \cup {<<e, walk.found[e]>> : e \in Visited}

(* The level of a pair was given to something upstream.                    *)
Sourced(p) == \E s \in Entities : <<s, p[2]>> \in certs /\ p[1] \in Below(s)

(* The pair comes from the source, or from a visited parent.               *)
Handed(p) ==
    \/ p[1] \in Children(walk.source) /\ p[2] = walk.level
    \/ \E e \in Visited : p[1] \in Children(e) /\ p[2] = PassesOn(e, walk.found[e])

WalkTyped ==
    walk \in [on: BOOLEAN, source: Entities \cup {NULL}, level: AnyLevel,
              queue: Seq(Entities \X Levels),
              found: UNION {[X -> Levels] : X \in SUBSET Entities}]

WalkFacts ==
    /\ <<walk.source, walk.level>> \in certs
    /\ \A p \in Met : p[1] \in Below(walk.source) /\ p[2] >= walk.level /\ Sourced(p)
    /\ \A e \in Visited \cup {walk.source} : Children(e) \subseteq Visited \cup {p[1] : p \in Queued}
    /\ ~changed => \A p \in Met : Handed(p)

Given ==
    /\ \A e \in Entities : own[e] # 0 => <<e, own[e]>> \in certs
    /\ \A e \in Entities : inherited[e] # 0 => Sourced(<<e, inherited[e]>>)

CertInv == CertTypeOK /\ WalkTyped /\ Given /\ (walk.on => WalkFacts)

-----------------------------------------------------------------------------
(* Reachability.                                                           *)
LEMMA BelowIsClosed ==
    ASSUME edges \in Graphs, NEW e \in Entities
    PROVE  /\ Below(e) \subseteq Entities
           /\ Children(e) \subseteq Below(e)
           /\ \A f \in Below(e) : Children(f) \subseteq Below(e)
<1>1. Below(e) = {f \in Entities :
                    \A S \in Closed(edges) : ChildrenIn(edges, e) \subseteq S => f \in S}
  BY DEF Below, Reach
<1>2. ASSUME NEW f \in Below(e), NEW g \in Children(f) PROVE g \in Below(e)
  <2>1. ASSUME NEW S \in Closed(edges), ChildrenIn(edges, e) \subseteq S PROVE g \in S
    BY <1>1, <1>2, <2>1 DEF Closed, Children
  <2> QED BY <1>1, <1>2, <2>1 DEF Children, ChildrenIn
<1> QED BY <1>1, <1>2 DEF Children, ChildrenIn

(* What holds the children of an entity and the children of its members    *)
(* holds everything below the entity: induction along relationships.       *)
LEMMA BelowIsLeast ==
    ASSUME edges \in Graphs, NEW e \in Entities, NEW S \in SUBSET Entities,
           Children(e) \subseteq S, \A x \in S : Children(x) \subseteq S
    PROVE  Below(e) \subseteq S
BY DEF Below, Reach, Closed, Children

LEMMA BelowIsTransitive ==
    ASSUME edges \in Graphs, NEW e \in Entities, NEW f \in Below(e)
    PROVE  Below(f) \subseteq Below(e)
<1>1. f \in Entities /\ Below(e) \in SUBSET Entities
  BY BelowIsClosed
<1> QED BY <1>1, BelowIsClosed, BelowIsLeast

(* What is below an entity has a parent there, or the entity for a parent. *)
LEMMA BelowHasParent ==
    ASSUME edges \in Graphs, NEW e \in Entities, NEW f \in Below(e)
    PROVE  \E p \in Below(e) \cup {e} : f \in Children(p)
<1> DEFINE S == {g \in Below(e) : \E p \in Below(e) \cup {e} : g \in Children(p)}
<1>1. S \subseteq Below(e) /\ S \in SUBSET Entities
  BY BelowIsClosed
<1>2. Children(e) \subseteq S
  BY BelowIsClosed
<1>3. \A x \in S : Children(x) \subseteq S
  BY BelowIsClosed
<1> HIDE DEF S
<1>4. Below(e) \subseteq S
  BY <1>1, <1>2, <1>3, BelowIsLeast
<1> QED BY <1>4 DEF S

-----------------------------------------------------------------------------
(* The queue.                                                              *)
LEMMA OrderHasAll ==
    ASSUME NEW S, IsFiniteSet(S), NEW order \in SetToSeqs(S)
    PROVE  order \in Seq(S) /\ Items(order) = S
<1> DEFINE n == Cardinality(S)
           D == 1 .. n
<1>1. n \in Nat /\ order \in [D -> S] /\ \A i, j \in D : i # j => order[i] # order[j]
  BY FS_CardinalityType DEF SetToSeqs
<1>2. IsFiniteSet(D) /\ Cardinality(D) = n
  BY <1>1, FS_Interval
<1>3. order \in Injection(D, S)
  BY <1>1 DEF Injection, IsInjective
<1>4. order \in Surjection(D, S)
  BY <1>2, <1>3, FS_Injection
<1>5. \A x \in S : \E i \in D : order[i] = x
  BY <1>4 DEF Surjection
<1> QED BY <1>1, <1>5 DEF Items

LEMMA EnqueueAdds ==
    ASSUME NEW T, NEW queue \in Seq(T), NEW es \in SUBSET Entities, NEW l,
           es \X {l} \subseteq T, NEW q \in Enqueue(queue, es, l)
    PROVE  q \in Seq(T) /\ Items(q) = Items(queue) \cup es \X {l}
<1>1. PICK order \in SetToSeqs(es) : q = queue \o [i \in DOMAIN order |-> <<order[i], l>>]
  BY DEF Enqueue
<1> DEFINE new == [i \in DOMAIN order |-> <<order[i], l>>]
<1>2. order \in Seq(es) /\ Items(order) = es
  BY OrderHasAll, EntitiesAssumption, FS_Subset
<1>3. new \in Seq(T) /\ Items(new) = es \X {l}
  <2>1. DOMAIN order = 1 .. Len(order) /\ Len(order) \in Nat /\ \A i \in DOMAIN order : order[i] \in es
    BY <1>2
  <2>2. new \in Seq(T)
    BY <2>1
  <2>3. ASSUME NEW x PROVE x \in Items(new) <=> x \in es \X {l}
    <3>1. x \in Items(new) <=> \E i \in DOMAIN order : x = <<order[i], l>>
      BY DEF Items
    <3>2. \A y : y \in es <=> \E i \in DOMAIN order : y = order[i]
      BY <1>2 DEF Items
    <3> QED BY <3>1, <3>2
  <2> QED BY <2>2, <2>3
<1> HIDE DEF new
<1>4. Items(queue \o new) = Items(queue) \cup Items(new)
  <2>1. /\ queue \o new \in Seq(T) /\ Len(queue) \in Nat /\ Len(new) \in Nat
        /\ Len(queue \o new) = Len(queue) + Len(new)
        /\ \A i \in 1 .. Len(queue) + Len(new) :
              (queue \o new)[i] = IF i <= Len(queue) THEN queue[i] ELSE new[i - Len(queue)]
    BY <1>3, ConcatProperties, LenProperties
  <2>2. /\ DOMAIN queue = 1 .. Len(queue) /\ DOMAIN new = 1 .. Len(new)
        /\ DOMAIN (queue \o new) = 1 .. Len(queue) + Len(new)
    BY <1>3, <2>1, LenProperties
  <2>3. ASSUME NEW i \in DOMAIN (queue \o new)
        PROVE  (queue \o new)[i] \in Items(queue) \cup Items(new)
    <3>1. CASE i <= Len(queue)
      BY <2>1, <2>2, <3>1 DEF Items
    <3>2. CASE i > Len(queue)
      <4>1. i - Len(queue) \in DOMAIN new
        BY <2>1, <2>2, <3>2
      <4> QED BY <2>1, <2>2, <3>2, <4>1 DEF Items
    <3> QED BY <2>1, <2>2, <3>1, <3>2
  <2>4. \A i \in DOMAIN queue : queue[i] \in Items(queue \o new)
    BY <2>1, <2>2 DEF Items
  <2>5. ASSUME NEW i \in DOMAIN new PROVE new[i] \in Items(queue \o new)
    <3>1. /\ Len(queue) + i \in DOMAIN (queue \o new)
          /\ (queue \o new)[Len(queue) + i] = new[i]
      BY <2>1, <2>2
    <3> QED BY <3>1 DEF Items
  <2> QED BY <2>3, <2>4, <2>5 DEF Items
<1> QED BY <1>1, <1>3, <1>4, ConcatProperties DEF new

LEMMA TailDropsHead ==
    ASSUME NEW T, NEW q \in Seq(T), q # <<>>
    PROVE  /\ Head(q) \in Items(q) /\ Head(q) \in T /\ Tail(q) \in Seq(T)
           /\ Items(Tail(q)) \subseteq Items(q)
           /\ Items(q) \subseteq Items(Tail(q)) \cup {Head(q)}
<1>1. /\ Len(q) \in Nat \ {0} /\ DOMAIN q = 1 .. Len(q) /\ Head(q) = q[1]
      /\ Tail(q) \in Seq(T) /\ Len(Tail(q)) = Len(q) - 1
      /\ \A i \in 1 .. Len(Tail(q)) : Tail(q)[i] = q[i + 1]
  BY EmptySeq, LenProperties, HeadTailProperties
<1>2. DOMAIN Tail(q) = 1 .. Len(q) - 1
  BY <1>1
<1>3. \A i \in DOMAIN Tail(q) : Tail(q)[i] \in Items(q)
  BY <1>1, <1>2 DEF Items
<1>4. ASSUME NEW i \in DOMAIN q PROVE q[i] \in Items(Tail(q)) \cup {Head(q)}
  <2>1. CASE i = 1
    BY <1>1, <2>1
  <2>2. CASE i > 1
    <3>1. i - 1 \in DOMAIN Tail(q) /\ Tail(q)[i - 1] = q[i]
      BY <1>1, <1>2, <2>2
    <3> QED BY <3>1 DEF Items
  <2> QED BY <1>1, <2>1, <2>2
<1> QED BY <1>1, <1>3, <1>4 DEF Items

-----------------------------------------------------------------------------
(* The steps.                                                              *)

(* Relationships do not change and certifications are not forgotten.       *)
LEMMA SourcesStay ==
    ASSUME edges' = edges, certs \subseteq certs'
    PROVE  /\ \A e : Children(e)' = Children(e) /\ Below(e)' = Below(e)
           /\ \A p : Sourced(p) => Sourced(p)'
BY DEF Children, Below, Sourced

LEMMA TypesOfInv ==
    ASSUME CertInv
    PROVE  /\ edges \in Graphs /\ Levels \subseteq Nat \ {0} /\ AnyLevel \subseteq Nat
           /\ own \in [Entities -> AnyLevel] /\ inherited \in [Entities -> AnyLevel]
           /\ certs \subseteq Entities \X Levels
           /\ walk.queue \in Seq(Entities \X Levels)
           /\ walk.found \in [Visited -> Levels] /\ Visited \subseteq Entities
           /\ walk.on \in BOOLEAN
           /\ walk = [on |-> walk.on, source |-> walk.source, level |-> walk.level,
                      queue |-> walk.queue, found |-> walk.found]
<1>1. walk.found \in [Visited -> Levels] /\ Visited \subseteq Entities
  BY DEF CertInv, WalkTyped, Visited
<1>2. Levels \subseteq Nat \ {0} /\ AnyLevel \subseteq Nat
  BY LevelsAssumption DEF AnyLevel
<1> QED BY <1>1, <1>2 DEF CertInv, CertTypeOK, WalkTyped

(* Only one fact about the walk depends on what is outside of it: what is  *)
(* handed on depends on the levels of the entities, until one has changed. *)
LEMMA WalkUndisturbed ==
    ASSUME CertInv, walk' = walk, edges' = edges, certs \subseteq certs',
           changed' \in BOOLEAN, changed' \/ (changed' = changed /\ own' = own) \/ ~walk.on,
           certs' \subseteq Entities \X Levels, cuts' \in 0 .. MaxCuts,
           own' \in [Entities -> AnyLevel], inherited' \in [Entities -> AnyLevel],
           Given'
    PROVE  CertInv'
<1>1. CertTypeOK' /\ WalkTyped'
  BY SourcesStay DEF CertInv, CertTypeOK, WalkTyped, Visited
<1>2. ASSUME walk.on PROVE WalkFacts'
  <2>1. WalkFacts
    BY <1>2 DEF CertInv
  <2>2. Met' = Met /\ Queued' = Queued /\ Visited' = Visited
    BY DEF Met, Queued, Visited
  <2>3. ASSUME ~changed', NEW p \in Met PROVE Handed(p)'
    <3>1. Handed(p) /\ own' = own
      BY <1>2, <2>1, <2>3 DEF WalkFacts
    <3> QED BY <2>2, <3>1, SourcesStay DEF Handed, PassesOn
  <2> QED BY <2>1, <2>2, <2>3, SourcesStay DEF WalkFacts
<1> QED BY <1>1, <1>2 DEF CertInv

LEMMA GivenStep ==
    ASSUME CertInv, edges' = edges, certs \subseteq certs',
           \A e \in Entities : own'[e] \in {0, own[e]} \/ <<e, own'[e]>> \in certs',
           \A e \in Entities : inherited'[e] \in {0, inherited[e]}
    PROVE  Given'
BY SourcesStay DEF CertInv, Given, Sourced

LEMMA CertifyKeeps ==
    ASSUME CertInv, NEW e \in Entities, NEW l \in Levels, Certify(e, l)
    PROVE  CertInv'
<1>1. PICK q \in Enqueue(<<>>, Children(e), l) :
         walk' = [on |-> TRUE, source |-> e, level |-> l, queue |-> q, found |-> NoWalk.found]
  BY DEF Certify
<1>2. /\ edges' = edges /\ certs' = certs \cup {<<e, l>>} /\ changed' = FALSE
      /\ inherited' = inherited /\ cuts' = cuts /\ own' = [own EXCEPT ![e] = l]
  BY DEF Certify
<1>3. Children(e) \subseteq Below(e) /\ Below(e) \subseteq Entities
  BY BelowIsClosed, TypesOfInv
<1>4. q \in Seq(Entities \X Levels) /\ Items(q) = Children(e) \X {l}
  <2>1. Items(<<>>) = {}
    BY DEF Items
  <2>2. <<>> \in Seq(Entities \X Levels)
    OBVIOUS
  <2>3. Children(e) \in SUBSET Entities /\ Children(e) \X {l} \subseteq Entities \X Levels
    BY <1>3
  <2> DEFINE T    == Entities \X Levels
             none == <<>>
             cs   == Children(e)
  <2>4. none \in Seq(T) /\ cs \X {l} \subseteq T /\ cs \in SUBSET Entities /\ q \in Enqueue(none, cs, l)
    BY <1>1, <2>2, <2>3
  <2> HIDE DEF T, none, cs
  <2>5. q \in Seq(T) /\ Items(q) = Items(none) \cup cs \X {l}
    BY <2>4, EnqueueAdds
  <2> QED BY <2>1, <2>5 DEF T, none, cs
<1>5. /\ walk'.source = e /\ walk'.level = l /\ walk'.on = TRUE /\ walk'.queue = q
      /\ Visited' = {} /\ walk'.found \in [{} -> Levels]
      /\ Queued' = Children(e) \X {l} /\ Met' = Children(e) \X {l}
  BY <1>1, <1>4 DEF Visited, Queued, Met, NoWalk
<1>6. Children(e)' = Children(e) /\ Below(e)' = Below(e)
  BY <1>2, SourcesStay
<1>7. q \in Seq(Below(e) \X Levels)
  <2>1. \A i \in 1 .. Len(q) : q[i] \in Below(e) \X Levels
    BY <1>3, <1>4 DEF Items
  <2> QED BY <1>4, <2>1
<1>8. CertTypeOK' /\ WalkTyped'
  <2>1. own' \in [Entities -> AnyLevel] /\ certs' \subseteq Entities \X Levels
    BY <1>2, TypesOfInv DEF AnyLevel
  <2>2. CertTypeOK'
    BY <1>2, <1>5, <1>6, <1>7, <2>1 DEF CertInv, CertTypeOK
  <2>3. WalkTyped'
    BY <1>1, <1>4, <1>5 DEF WalkTyped, AnyLevel
  <2> QED BY <2>2, <2>3
<1>9. Given'
  <2>1. \A f \in Entities : own'[f] \in {0, own[f]} \/ <<f, own'[f]>> \in certs'
    BY <1>2, TypesOfInv
  <2> QED BY <1>2, <2>1, GivenStep
<1>10. WalkFacts'
  <2>1. \A p \in Met' : /\ p[1] \in Children(e) /\ p[2] = l
    BY <1>5
  <2>2. l >= l
    BY TypesOfInv
  <2>3. \A p \in Met' : Sourced(p)'
    BY <1>2, <1>3, <1>6, <2>1 DEF Sourced
  <2>4. \A p \in Met' : Handed(p)'
    BY <1>5, <1>6, <2>1 DEF Handed
  <2>5. Children(e) \subseteq {p[1] : p \in Queued'}
    <3> SUFFICES ASSUME NEW c \in Children(e) PROVE \E p \in Queued' : c = p[1]
      OBVIOUS
    <3>1. <<c, l>> \in Queued' /\ c = <<c, l>>[1]
      BY <1>5
    <3> QED BY <3>1, Zenon
  <2> QED BY <1>2, <1>3, <1>5, <1>6, <2>1, <2>2, <2>3, <2>4, <2>5 DEF WalkFacts
<1> QED BY <1>8, <1>9, <1>10 DEF CertInv

LEMMA ItemsType ==
    ASSUME NEW S, NEW T, NEW q \in Seq(S), Items(q) \subseteq T
    PROVE  q \in Seq(T)
<1>1. Len(q) \in Nat /\ DOMAIN q = 1 .. Len(q)
  BY LenProperties
<1>2. \A i \in 1 .. Len(q) : q[i] \in T
  BY <1>1 DEF Items
<1> QED BY <1>2

(* What a step of the walk has to establish. *)
LEMMA WalkStep ==
    ASSUME CertInv, walk.on, walk'.on = TRUE, UNCHANGED <<edges, own, inherited, certs, changed, cuts>>,
           walk'.source = walk.source, walk'.level = walk.level,
           walk' \in [on: BOOLEAN, source: Entities \cup {NULL}, level: AnyLevel,
                      queue: Seq(Entities \X Levels),
                      found: UNION {[X -> Levels] : X \in SUBSET Entities}],
           WalkFacts'
    PROVE  CertInv'
<1>1. CertTypeOK'
  <2>1. walk'.queue \in Seq(Entities \X Levels) /\ Visited' = DOMAIN walk'.found
        /\ walk'.found \in [Visited' -> Levels] /\ Visited' \subseteq Entities
    BY DEF Visited
  <2>2. \A p \in Met' : p[1] \in Below(walk.source)
    BY SourcesStay DEF WalkFacts
  <2>3. Visited' \subseteq Below(walk.source)
    <3> SUFFICES ASSUME NEW e \in Visited' PROVE e \in Below(walk.source)
      OBVIOUS
    <3>1. <<e, walk'.found[e]>> \in Met'
      BY DEF Met
    <3> QED BY <2>2, <3>1
  <2>4. Items(walk'.queue) \subseteq Below(walk.source) \X Levels
    <3> SUFFICES ASSUME NEW p \in Items(walk'.queue) PROVE p \in Below(walk.source) \X Levels
      OBVIOUS
    <3>1. p \in Met' /\ p \in Entities \X Levels
      BY <2>1 DEF Met, Queued, Items
    <3> QED BY <2>2, <3>1
  <2>5. walk'.queue \in Seq(Below(walk.source) \X Levels)
    BY <2>1, <2>4, ItemsType
  <2> QED BY <2>1, <2>3, <2>5, SourcesStay DEF CertInv, CertTypeOK
<1>2. Given'
  BY GivenStep DEF CertInv, Given
<1> QED BY <1>1, <1>2 DEF CertInv, WalkTyped

LEMMA VisitKeeps ==
    ASSUME CertInv, Visit
    PROVE  CertInv'
<1> DEFINE h == Head(walk.queue)
           e == h[1]
           l == h[2]
           rest == Tail(walk.queue)
           next == PassesOn(e, l)
           T == Entities \X Levels
<1>1. /\ walk.on /\ walk.queue # <<>> /\ walk.queue \in Seq(T) /\ WalkFacts
      /\ UNCHANGED <<edges, own, inherited, certs, changed, cuts>>
  BY TypesOfInv DEF Visit, CertInv
<1>2. /\ h \in Queued /\ h \in T /\ rest \in Seq(T)
      /\ Items(rest) \subseteq Queued /\ Queued \subseteq Items(rest) \cup {h}
  <2> HIDE DEF T
  <2> QED BY <1>1, TailDropsHead DEF Queued
<1>3. e \in Entities /\ l \in Levels /\ h = <<e, l>>
  BY <1>2
<1>4. /\ e \in Below(walk.source) /\ l >= walk.level /\ Sourced(h)
      /\ walk.source \in Entities /\ walk.level \in Levels
  BY <1>1, <1>2, TypesOfInv DEF WalkFacts, Met
<1>5. \A x : Children(x)' = Children(x) /\ Below(x)' = Below(x)
  BY <1>1, SourcesStay
<1>6. \A p : Sourced(p)' = Sourced(p)
  BY <1>1, <1>5 DEF Sourced
<1> HIDE DEF h, e, l, rest
<1>7. CASE e \in Visited
  <2>1. walk' = [walk EXCEPT !.queue = rest]
    BY <1>7 DEF Visit, e, h, rest
  <2>2. /\ Visited' = Visited /\ Queued' = Items(rest) /\ Met' \subseteq Met
        /\ walk'.source = walk.source /\ walk'.level = walk.level /\ walk'.on = TRUE
        /\ walk'.found = walk.found
    BY <1>1, <1>2, <2>1, TypesOfInv DEF Visited, Queued, Met
  <2>3. \A x \in Visited' \cup {walk'.source} :
           Children(x)' \subseteq Visited' \cup {p[1] : p \in Queued'}
    <3> SUFFICES ASSUME NEW x \in Visited \cup {walk.source}, NEW c \in Children(x), c \notin Visited
                 PROVE  \E p \in Items(rest) : c = p[1]
      BY <1>5, <2>2
    <3>1. PICK p \in Queued : c = p[1]
      BY <1>1 DEF WalkFacts
    <3>2. p # h
      BY <1>7, <3>1 DEF e
    <3> QED BY <1>2, <3>1, <3>2
  <2>4. \A p \in Met : ~changed => Handed(p)'
    BY <1>1, <1>5, <2>2 DEF WalkFacts, Handed, PassesOn
  <2>5. WalkFacts'
    BY <1>1, <1>5, <1>6, <2>2, <2>3, <2>4 DEF WalkFacts
  <2>6. WalkTyped'
    BY <1>2, <2>1 DEF CertInv, WalkTyped
  <2> QED BY <1>1, <2>2, <2>5, <2>6, WalkStep DEF WalkTyped
<1>8. CASE e \notin Visited
  <2> DEFINE found == [x \in Visited \cup {e} |-> IF x = e THEN Inherits(e, l) ELSE walk.found[x]]
             es == Unseen(e, DOMAIN found)
  <2>1. PICK q \in Enqueue(rest, es, next) : walk' = [walk EXCEPT !.queue = q, !.found = found]
    BY <1>8 DEF Visit, e, h, l, rest
  <2>2. /\ next \in Levels /\ next >= l /\ (next = l \/ (next = own[e] /\ own[e] # 0))
        /\ l >= walk.level /\ next >= walk.level
    <3>1. own[e] \in Levels \cup {0} /\ l \in Nat \ {0} /\ walk.level \in Nat
      BY <1>3, <1>4, TypesOfInv DEF AnyLevel
    <3>2. next = IF l > own[e] THEN l ELSE own[e]
      BY DEF PassesOn, Higher
    <3>3. own[e] \in Nat
      BY <3>1, TypesOfInv
    <3>4. CASE l > own[e]
      <4>1. next = l
        BY <3>2, <3>4
      <4>2. l \in Levels /\ l >= walk.level /\ l >= l
        BY <1>3, <1>4, <3>1
      <4> HIDE DEF next
      <4> QED BY <4>1, <4>2
    <3>5. CASE ~(l > own[e])
      <4>1. next = own[e] /\ own[e] # 0 /\ own[e] >= l
        BY <3>1, <3>2, <3>3, <3>5
      <4> HIDE DEF next
      <4> QED BY <1>4, <3>1, <3>3, <4>1
    <3> QED BY <3>4, <3>5
  <2>3. /\ es = Children(e) \ (Visited \cup {e}) /\ es \in SUBSET Entities
        /\ es \X {next} \subseteq T
    BY <2>2 DEF Unseen, Children, ChildrenIn
  <2>4. q \in Seq(T) /\ Items(q) = Items(rest) \cup es \X {next}
    <3> HIDE DEF T, es, next
    <3> QED BY <1>2, <2>1, <2>3, EnqueueAdds
  <2>5. found \in [Visited \cup {e} -> Levels] /\ found[e] = l
        /\ \A x \in Visited : found[x] = walk.found[x]
    BY <1>3, <1>8, TypesOfInv DEF Inherits
  <2> HIDE DEF found, es, next
  <2>6. /\ Visited' = Visited \cup {e} /\ walk'.found = found
        /\ Queued' = Items(rest) \cup es \X {next}
        /\ walk'.source = walk.source /\ walk'.level = walk.level /\ walk'.on = TRUE
    BY <1>1, <2>1, <2>4, <2>5, TypesOfInv DEF Visited, Queued
  <2>7. Met' \subseteq Met \cup es \X {next}
    <3>1. \A x \in Visited' : <<x, walk'.found[x]>> \in Met
      BY <1>2, <1>3, <2>5, <2>6 DEF Met
    <3> QED BY <1>2, <2>6, <3>1 DEF Met
  <2>8. ASSUME NEW p \in es \X {next}
        PROVE  p[1] \in Below(walk.source) /\ p[2] >= walk.level /\ Sourced(p)
    <3>1. p[1] \in Children(e) /\ p[2] = next
      BY <2>3
    <3>2. p[1] \in Below(walk.source) /\ p[1] \in Below(e)
      BY <1>3, <1>4, <3>1, TypesOfInv, BelowIsClosed
    <3>3. CASE next = l
      <4>1. PICK s \in Entities : <<s, l>> \in certs /\ e \in Below(s)
        BY <1>3, <1>4 DEF Sourced
      <4>2. p[1] \in Below(s)
        BY <3>1, <4>1, TypesOfInv, BelowIsClosed
      <4> QED BY <2>2, <3>1, <3>2, <3>3, <4>1, <4>2 DEF Sourced
    <3>4. CASE next = own[e] /\ own[e] # 0
      <4>1. <<e, next>> \in certs
        BY <1>3, <3>4 DEF CertInv, Given
      <4> QED BY <1>3, <2>2, <3>1, <3>2, <4>1 DEF Sourced
    <3> QED BY <2>2, <3>3, <3>4
  <2>9. \A x \in Visited' \cup {walk'.source} :
           Children(x)' \subseteq Visited' \cup {p[1] : p \in Queued'}
    <3> SUFFICES ASSUME NEW x \in Visited \cup {e, walk.source}, NEW c \in Children(x),
                        c \notin Visited \cup {e}
                 PROVE  \E p \in Queued' : c = p[1]
      BY <1>5, <2>6
    <3>1. CASE x = e
      <4>1. c \in es
        BY <2>3, <3>1
      <4>2. <<c, next>> \in Queued' /\ c = <<c, next>>[1]
        BY <2>6, <4>1
      <4> QED BY <4>2, Zenon
    <3>2. CASE x # e
      <4>1. PICK p \in Queued : c = p[1]
        BY <1>1, <3>2 DEF WalkFacts
      <4>2. p # h
        BY <4>1 DEF e
      <4> QED BY <1>2, <2>6, <4>1, <4>2
    <3> QED BY <3>1, <3>2
  <2>10. ASSUME ~changed, NEW p \in Met' PROVE Handed(p)'
    <3>1. CASE p \in Met
      <4>1. Handed(p)
        BY <1>1, <2>10, <3>1 DEF WalkFacts
      <4>2. CASE p[1] \in Children(walk.source) /\ p[2] = walk.level
        BY <1>5, <2>6, <4>2 DEF Handed
      <4>3. CASE \E x \in Visited : p[1] \in Children(x) /\ p[2] = PassesOn(x, walk.found[x])
        BY <1>1, <1>5, <2>5, <2>6, <4>3 DEF Handed, PassesOn
      <4> QED BY <4>1, <4>2, <4>3 DEF Handed
    <3>2. CASE p \in es \X {next}
      <4>1. p[1] \in Children(e) /\ p[2] = PassesOn(e, found[e])
        BY <2>3, <2>5, <3>2 DEF next
      <4> QED BY <1>1, <1>5, <2>6, <4>1 DEF Handed, PassesOn
    <3> QED BY <2>7, <3>1, <3>2
  <2>11. WalkFacts'
    <3>1. \A p \in Met' : p[1] \in Below(walk.source) /\ p[2] >= walk.level /\ Sourced(p)
      BY <1>1, <2>7, <2>8 DEF WalkFacts
    <3> QED BY <1>1, <1>5, <1>6, <2>6, <2>9, <2>10, <3>1 DEF WalkFacts
  <2>12. WalkTyped'
    <3>1. found \in UNION {[X -> Levels] : X \in SUBSET Entities}
      <4>1. PICK X \in SUBSET Entities : X = Visited \cup {e}
        BY <1>3, TypesOfInv
      <4>2. found \in [X -> Levels]
        BY <2>5, <4>1
      <4> QED BY ONLY <4>2, X \in SUBSET Entities
    <3> QED BY <2>1, <2>4, <3>1 DEF CertInv, WalkTyped
  <2> QED BY <1>1, <2>6, <2>11, <2>12, WalkStep DEF WalkTyped
<1> QED BY <1>7, <1>8

LEMMA NoWalkTyped ==
    NoWalk \in [on: BOOLEAN, source: Entities \cup {NULL}, level: AnyLevel,
               queue: Seq(Entities \X Levels),
               found: UNION {[X -> Levels] : X \in SUBSET Entities}]
<1>1. <<>> \in Seq(Entities \X Levels) /\ 0 \in AnyLevel
  BY DEF AnyLevel
<1>2. [e \in {} |-> 0] \in [{} -> Levels] /\ {} \in SUBSET Entities
  OBVIOUS
<1>3. [e \in {} |-> 0] \in UNION {[X -> Levels] : X \in SUBSET Entities}
  BY <1>2
<1> QED BY <1>1, <1>3 DEF NoWalk

(* A step that ends a propagation. *)
LEMMA EndKeeps ==
    ASSUME CertInv, walk' = NoWalk, UNCHANGED <<edges, own, certs, changed>>,
           inherited' \in [Entities -> AnyLevel], cuts' \in 0 .. MaxCuts, Given'
    PROVE  CertInv'
<1>1. WalkTyped'
  BY NoWalkTyped DEF WalkTyped
<1>2. ~(walk'.on)
  BY DEF NoWalk
<1>3. CertTypeOK'
  BY <1>2 DEF CertInv, CertTypeOK, NoWalk
<1> QED BY <1>1, <1>2, <1>3 DEF CertInv

LEMMA CommitKeeps ==
    ASSUME CertInv, CommitWalk
    PROVE  CertInv'
<1>1. /\ walk.on /\ walk' = NoWalk /\ UNCHANGED <<edges, own, certs, changed, cuts>>
      /\ inherited' = [e \in Entities |-> IF e \in Visited THEN walk.found[e] ELSE inherited[e]]
      /\ WalkFacts
  BY DEF CommitWalk, Done, CertInv
<1>2. inherited' \in [Entities -> AnyLevel]
  BY <1>1, TypesOfInv DEF AnyLevel
<1>3. cuts' \in 0 .. MaxCuts
  BY <1>1 DEF CertInv, CertTypeOK
<1>4. Given'
  <2>1. ASSUME NEW e \in Entities, inherited'[e] # 0 PROVE Sourced(<<e, inherited'[e]>>)
    <3>1. CASE e \in Visited
      <4>1. <<e, walk.found[e]>> \in Met
        BY <3>1 DEF Met
      <4> QED BY <1>1, <3>1, <4>1 DEF WalkFacts
    <3>2. CASE e \notin Visited
      BY <1>1, <2>1, <3>2 DEF CertInv, Given
    <3> QED BY <3>1, <3>2
  <2> QED BY <1>1, <2>1, SourcesStay DEF CertInv, Given
<1> QED BY <1>1, <1>2, <1>3, <1>4, EndKeeps

LEMMA CutKeeps ==
    ASSUME CertInv, CrashInWalk
    PROVE  CertInv'
<1>1. /\ walk' = NoWalk /\ UNCHANGED <<edges, own, inherited, certs, changed>>
      /\ cuts' \in 0 .. MaxCuts
  BY CertBoundsAssumption DEF CrashInWalk, CertInv, CertTypeOK
<1>2. Given'
  BY <1>1, GivenStep DEF CertInv, Given
<1> QED BY <1>1, <1>2, TypesOfInv, EndKeeps

(* The writes that are no part of a propagation. *)
LEMMA WriteKeeps ==
    ASSUME CertInv, NEW e \in Entities,
           \/ Decertify(e) \/ WorkflowDecertifies(e)
           \/ \E l \in Levels : CertifyOnly(e, l)
    PROVE  CertInv'
<1> DEFINE Writes(l) ==
         /\ own' = [own EXCEPT ![e] = l] /\ edges' = edges /\ walk' = walk /\ cuts' = cuts
         /\ inherited' = inherited \/ inherited' = [inherited EXCEPT ![e] = 0]
         /\ \/ certs' = certs /\ l = 0
            \/ certs' = certs \cup {<<e, l>>} /\ l \in Levels
         /\ changed' = TRUE \/ (changed' = changed /\ ~walk.on)
<1>1. PICK l \in AnyLevel : Writes(l)
  <2>1. CASE Decertify(e)
    <3>1. 0 \in AnyLevel
      BY DEF AnyLevel
    <3>2. Writes(0)
      BY <2>1 DEF Decertify, Loop
    <3> QED BY <3>1, <3>2
  <2>2. CASE WorkflowDecertifies(e)
    <3>1. 0 \in AnyLevel
      BY DEF AnyLevel
    <3>2. Writes(0)
      BY <2>2 DEF WorkflowDecertifies
    <3> QED BY <3>1, <3>2
  <2>3. CASE \E l \in Levels : CertifyOnly(e, l)
    <3>1. PICK l \in Levels : CertifyOnly(e, l)
      BY <2>3
    <3>2. l \in AnyLevel
      BY DEF AnyLevel
    <3>3. Writes(l)
      BY <3>1 DEF CertifyOnly
    <3> QED BY <3>2, <3>3
  <2> QED BY <2>1, <2>2, <2>3
<1>2. /\ own' \in [Entities -> AnyLevel] /\ inherited' \in [Entities -> AnyLevel]
      /\ certs' \subseteq Entities \X Levels /\ certs \subseteq certs'
      /\ changed' \in BOOLEAN /\ cuts' \in 0 .. MaxCuts
  <2>1. 0 \in AnyLevel
    BY DEF AnyLevel
  <2>2. own' \in [Entities -> AnyLevel] /\ inherited' \in [Entities -> AnyLevel]
    BY <1>1, <2>1, TypesOfInv
  <2>3. certs' \subseteq Entities \X Levels /\ certs \subseteq certs'
    BY <1>1, TypesOfInv
  <2>4. changed' \in BOOLEAN /\ cuts' \in 0 .. MaxCuts
    BY <1>1 DEF CertInv, CertTypeOK
  <2> QED BY <2>2, <2>3, <2>4
<1>3. Given'
  <2>1. \A f \in Entities : own'[f] \in {0, own[f]} \/ <<f, own'[f]>> \in certs'
    BY <1>1, TypesOfInv
  <2>2. \A f \in Entities : inherited'[f] \in {0, inherited[f]}
    BY <1>1, TypesOfInv
  <2> QED BY <1>1, <1>2, <2>1, <2>2, GivenStep
<1> QED BY <1>1, <1>2, <1>3, SourcesStay, WalkUndisturbed

(* Every level that the walk knows came down from its source, and nothing  *)
(* below what it visited is forgotten: what the theorems below rest on.    *)
THEOREM CertInvariant == CertSpec => []CertInv
<1>1. CertInit => CertInv
  <2> SUFFICES ASSUME CertInit PROVE CertInv
    OBVIOUS
  <2>1. /\ walk = NoWalk /\ edges \in Graphs /\ certs = {} /\ changed = FALSE /\ cuts = 0
        /\ own = [e \in Entities |-> 0] /\ inherited = [e \in Entities |-> 0]
    BY DEF CertInit
  <2>2. own \in [Entities -> AnyLevel] /\ inherited \in [Entities -> AnyLevel]
    BY <2>1 DEF AnyLevel
  <2>3. CertTypeOK /\ WalkTyped /\ ~walk.on
    <3>1. WalkTyped
      BY <2>1, NoWalkTyped DEF WalkTyped
    <3>2. ~walk.on /\ 0 \in 0 .. MaxCuts
      BY <2>1, CertBoundsAssumption DEF NoWalk
    <3>3. CertTypeOK
      BY <2>1, <2>2, <3>2 DEF CertTypeOK
    <3> QED BY <3>1, <3>2, <3>3
  <2>4. Given
    BY <2>1 DEF Given
  <2> QED BY <2>3, <2>4 DEF CertInv
<1>2. CertInv /\ [CertNext]_certVars => CertInv'
  <2> SUFFICES ASSUME CertInv, [CertNext]_certVars PROVE CertInv'
    OBVIOUS
  <2>1. CASE UNCHANGED certVars
    <3>1. UNCHANGED <<edges, own, inherited, walk, certs, changed, cuts>>
      BY <2>1 DEF certVars
    <3>2. Given'
      BY <3>1, GivenStep DEF CertInv, Given
    <3> QED BY <3>1, <3>2, WalkUndisturbed DEF CertInv, CertTypeOK
  <2>2. ASSUME NEW e \in Entities, NEW l \in Levels, Certify(e, l) PROVE CertInv'
    BY <2>2, CertifyKeeps
  <2> QED BY <2>1, <2>2, WriteKeeps, VisitKeeps, CommitKeeps, CutKeeps DEF CertNext
<1> QED BY <1>1, <1>2, PTL DEF CertSpec

(* An inherited level was given to something upstream, whatever            *)
(* propagations, decertifications, workflow steps and crashes came before  *)
(* (propagate_certification, handle-certify, entity_action):               *)
(* InheritedIsExplained.                                                   *)
THEOREM InheritedLevelsAreExplained == CertSpec => []InheritedIsExplained
<1>1. CertInv => InheritedIsExplained
  BY DEF CertInv, Given, Sourced, InheritedIsExplained
<1> QED BY <1>1, CertInvariant, PTL

LEMMA DoneHasAll ==
    ASSUME CertInv, Done
    PROVE  /\ Visited = Below(walk.source) /\ walk.source \in Entities
           /\ \A e \in Visited : walk.found[e] >= walk.level
           /\ \A e \in Visited \cup {walk.source} : Children(e) \subseteq Visited
           /\ ~changed => \A e \in Visited : Handed(<<e, walk.found[e]>>)
<1>1. WalkFacts /\ walk.source \in Entities /\ edges \in Graphs
  BY TypesOfInv DEF Done, CertInv, WalkFacts
<1>2. Queued = {}
  BY DEF Done, Queued, Items
<1>3. \A e \in Visited \cup {walk.source} : Children(e) \subseteq Visited
  BY <1>1, <1>2 DEF WalkFacts
<1>4. \A e \in Visited : <<e, walk.found[e]>> \in Met
  BY DEF Met
<1>5. Visited \subseteq Below(walk.source)
  BY <1>1, <1>4 DEF WalkFacts
<1>6. Below(walk.source) \subseteq Visited
  BY <1>1, <1>3, TypesOfInv, BelowIsLeast
<1> QED BY <1>1, <1>3, <1>4, <1>5, <1>6 DEF WalkFacts

(* A propagation ends, if it does, with everything that lies below its     *)
(* source and with nothing else, cycles and several ways included          *)
(* (the visited set and the queue of propagate_certification):             *)
(* WalkIsComplete.                                                         *)
THEOREM WalksAreComplete == CertSpec => []WalkIsComplete
<1>1. CertInv => WalkIsComplete
  BY DoneHasAll DEF WalkIsComplete
<1> QED BY <1>1, CertInvariant, PTL

-----------------------------------------------------------------------------
(* Propagation over a tree.                                                *)
Tree == Visited \cup {walk.source}

OneWayUp ==
    \A e \in Visited : \A x, y \in Tree : e \in Children(x) /\ e \in Children(y) => x = y

LEMMA OneParent ==
    ASSUME CertInv, Done,
           \A e \in Visited : Cardinality({x \in Tree : e \in Children(x)}) = 1
    PROVE  OneWayUp
<1> SUFFICES ASSUME NEW e \in Visited, NEW x \in Tree, NEW y \in Tree,
                    e \in Children(x), e \in Children(y)
             PROVE  x = y
  BY DEF OneWayUp
<1> DEFINE P == {z \in Tree : e \in Children(z)}
<1>1. P \in SUBSET Entities /\ Cardinality(P) = 1 /\ x \in P /\ y \in P
  BY DoneHasAll, TypesOfInv DEF Tree
<1> HIDE DEF P
<1>2. IsFiniteSet(P)
  BY <1>1, EntitiesAssumption, FS_Subset
<1>3. PICK z : P = {z}
  BY <1>1, <1>2, FS_Singleton
<1> QED BY <1>1, <1>3

(* Where every visited entity has one way up, nothing is below itself.     *)
LEMMA NoCycle ==
    ASSUME CertInv, Done, OneWayUp, walk.source \notin Visited, NEW c \in Visited
    PROVE  c \notin Below(c)
<1> DEFINE T == {y \in Visited : ~(y \in Below(c) /\ c \in Below(y))}
<1>1. /\ edges \in Graphs /\ walk.source \in Entities /\ Visited = Below(walk.source)
      /\ Visited \subseteq Entities
      /\ \A e \in Tree : Children(e) \subseteq Visited
  BY DoneHasAll, TypesOfInv DEF Tree
<1>2. Below(c) \subseteq Visited
  BY <1>1, BelowIsTransitive
<1>3. ASSUME NEW z \in Below(c), NEW y \in Tree, z \in Children(y)
      PROVE  y \in Below(c) \cup {c}
  <2>1. PICK p \in Below(c) \cup {c} : z \in Children(p)
    BY <1>1, BelowHasParent
  <2> QED BY <1>2, <1>3, <2>1 DEF OneWayUp, Tree
<1>4. Children(walk.source) \subseteq T
  <2> SUFFICES ASSUME NEW y \in Children(walk.source), y \in Below(c) PROVE FALSE
    BY <1>1 DEF Tree
  <2> QED BY <1>2, <1>3 DEF Tree
<1>5. ASSUME NEW y \in T, NEW z \in Children(y), z \in Below(c), c \in Below(z)
      PROVE  FALSE
  <2>1. y \in Visited /\ y \in Entities /\ z \in Below(y)
    BY <1>1, BelowIsClosed
  <2>2. c \in Below(y)
    BY <1>1, <1>5, <2>1, BelowIsTransitive
  <2>3. y \in Below(c) \cup {c}
    BY <1>3, <1>5, <2>1 DEF Tree
  <2> QED BY <2>2, <2>3
<1>6. \A y \in T : Children(y) \subseteq T
  BY <1>1, <1>5 DEF Tree
<1>7. T \in SUBSET Entities
  BY <1>1
<1> HIDE DEF T
<1>8. Below(walk.source) \subseteq T
  BY <1>1, <1>4, <1>6, <1>7, BelowIsLeast
<1> QED BY <1>1, <1>8 DEF T

LevelOf(x) == IF x = walk.source THEN walk.level ELSE own[x]

(* In a tree a child of the source inherits the source's level, and        *)
(* another one the higher of its parent's level and what that inherited.   *)
LEMMA TreeHands ==
    ASSUME CertInv, Done, ~changed, OneWayUp, walk.source \notin Visited,
           NEW x \in Tree, NEW c \in Children(x)
    PROVE  /\ c \in Visited
           /\ x = walk.source => walk.found[c] = walk.level
           /\ x # walk.source => walk.found[c] = Higher(walk.found[x], own[x])
<1>1. /\ c \in Visited /\ Handed(<<c, walk.found[c]>>)
  BY DoneHasAll DEF Tree
<1>2. CASE c \in Children(walk.source) /\ walk.found[c] = walk.level
  BY <1>1, <1>2 DEF OneWayUp, Tree
<1>3. CASE \E e \in Visited : c \in Children(e) /\ walk.found[c] = PassesOn(e, walk.found[e])
  BY <1>1, <1>3 DEF OneWayUp, Tree, PassesOn
<1> QED BY <1>1, <1>2, <1>3 DEF Handed

(* In a tree an entity inherits at least the level of whatever is above.   *)
LEMMA InheritsAtLeast ==
    ASSUME CertInv, Done, ~changed, OneWayUp, walk.source \notin Visited, NEW x \in Tree
    PROVE  \A e \in Below(x) : e \in Visited /\ walk.found[e] >= LevelOf(x)
<1> DEFINE S == {e \in Visited : walk.found[e] >= LevelOf(x)}
<1>1. /\ edges \in Graphs /\ walk.source \in Entities /\ Visited \subseteq Entities
      /\ walk.found \in [Visited -> Levels] /\ own \in [Entities -> AnyLevel]
      /\ Levels \subseteq Nat \ {0} /\ AnyLevel \subseteq Nat /\ walk.level \in Levels
      /\ x \in Entities
  BY DoneHasAll, TypesOfInv DEF Tree, CertInv, CertTypeOK, Done
<1>2. \A e \in Visited : walk.found[e] \in Nat /\ own[e] \in Nat
  BY <1>1
<1>3. ASSUME NEW c \in Children(x) PROVE c \in S
  <2>1. CASE x = walk.source
    <3>1. walk.level \in Nat /\ LevelOf(x) = walk.level
      BY <1>1, <2>1 DEF LevelOf
    <3>2. c \in Visited /\ walk.found[c] = walk.level
      BY <2>1, TreeHands
    <3> QED BY <3>1, <3>2
  <2>2. CASE x # walk.source
    BY <1>2, <2>2, TreeHands DEF LevelOf, Tree, Higher
  <2> QED BY <2>1, <2>2
<1>4. ASSUME NEW e \in S, NEW c \in Children(e) PROVE c \in S
  <2>1. e \in Visited /\ e \in Tree /\ e # walk.source /\ walk.found[e] >= LevelOf(x)
    BY DEF Tree
  <2>2. c \in Visited /\ walk.found[c] = Higher(walk.found[e], own[e])
    BY <2>1, TreeHands
  <2>3. LevelOf(x) \in Nat
    BY <1>1, <1>2 DEF LevelOf, Tree
  <2> QED BY <1>2, <2>1, <2>2, <2>3 DEF Higher
<1>5. S \in SUBSET Entities /\ Children(x) \subseteq S /\ \A e \in S : Children(e) \subseteq S
  BY <1>1, <1>3, <1>4
<1> HIDE DEF S
<1>6. Below(x) \subseteq S
  BY <1>1, <1>5, BelowIsLeast
<1> QED BY <1>6 DEF S

(* In a tree an entity inherits the level of something above it.           *)
LEMMA InheritsFromAbove ==
    ASSUME CertInv, Done, ~changed, OneWayUp, walk.source \notin Visited
    PROVE  \A e \in Visited :
              \E x \in Tree \ {e} : e \in Below(x) /\ walk.found[e] = LevelOf(x)
<1> DEFINE From(e, x) == x \in Tree \ {e} /\ e \in Below(x) /\ walk.found[e] = LevelOf(x)
           S == {e \in Visited : \E x : From(e, x)}
<1>1. /\ edges \in Graphs /\ walk.source \in Entities /\ Visited \subseteq Entities
      /\ Visited = Below(walk.source) /\ Tree \subseteq Entities
  BY DoneHasAll, TypesOfInv DEF Tree
<1>2. ASSUME NEW c \in Children(walk.source) PROVE c \in S
  <2>1. c \in Visited /\ walk.found[c] = walk.level /\ c # walk.source
    BY TreeHands DEF Tree
  <2>2. From(c, walk.source)
    BY <1>1, <2>1 DEF LevelOf, Tree
  <2> QED BY <2>1, <2>2
<1>3. ASSUME NEW e \in S, NEW c \in Children(e) PROVE c \in S
  <2>1. e \in Visited /\ e \in Tree /\ e \in Entities /\ e # walk.source
    BY <1>1 DEF Tree
  <2>2. c \in Visited /\ walk.found[c] = Higher(walk.found[e], own[e])
    BY <2>1, TreeHands
  <2>3. c \in Below(e) /\ c \notin Below(c)
    BY <1>1, <2>1, <2>2, BelowIsClosed, NoCycle
  <2>4. CASE walk.found[c] = own[e]
    <3>1. From(c, e)
      BY <2>1, <2>3, <2>4 DEF LevelOf
    <3> QED BY <2>2, <3>1
  <2>5. CASE walk.found[c] = walk.found[e]
    <3>1. PICK x : From(e, x)
      OBVIOUS
    <3>2. c \in Below(x)
      BY <1>1, <3>1, BelowIsClosed
    <3>3. From(c, x)
      BY <2>3, <2>5, <3>1, <3>2
    <3> QED BY <2>2, <3>3
  <2> QED BY <2>2, <2>4, <2>5 DEF Higher
<1>4. S \in SUBSET Entities /\ Children(walk.source) \subseteq S
      /\ \A e \in S : Children(e) \subseteq S
  BY <1>1, <1>2, <1>3
<1> HIDE DEF S
<1>5. Below(walk.source) \subseteq S
  BY <1>1, <1>4, BelowIsLeast
<1> QED BY <1>1, <1>5 DEF S

(* Over a tree every entity inherits the highest level on its one way up:  *)
(* the level that propagate_certification hands on is the higher of what   *)
(* it received and the entity's own, and the visited set never cuts a way  *)
(* off.                                                                    *)
THEOREM TreesPassTheHighest == CertSpec => []TreesInheritTheHighest
<1>1. CertInv => TreesInheritTheHighest
  <2> SUFFICES ASSUME CertInv, Done, ~changed, walk.source \notin Visited,
                      \A e \in Visited : Cardinality({x \in Tree : e \in Children(x)}) = 1,
                      NEW e \in Visited
               PROVE  /\ \A x \in Tree \ {e} : e \in Below(x) => walk.found[e] >= LevelOf(x)
                      /\ \E x \in Tree \ {e} : e \in Below(x) /\ walk.found[e] = LevelOf(x)
    BY Zenon DEF TreesInheritTheHighest, Tree, LevelOf
  <2>1. OneWayUp
    BY OneParent
  <2> QED BY <2>1, InheritsAtLeast, InheritsFromAbove
<1> QED BY <1>1, CertInvariant, PTL
=============================================================================
