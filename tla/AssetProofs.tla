------------------------------ MODULE AssetProofs ------------------------------
(***************************************************************************)
(* Theorems about the assets: their master data (MatchReview) and the      *)
(* hub's endpoints (AssetHub).                                             *)
(*                                                                         *)
(* Inherited says where computed data comes from before a merge; with it   *)
(* and the pairing of matches with assets in MatchTypeOK, AssetsFollow and *)
(* MergesFollow are inductive.                                             *)
(*                                                                         *)
(* Of the hub's transactions HubInv says that no two hold the same row,    *)
(* and Fits, by how far a transaction got, what it holds and has seen: a   *)
(* count that it computed is still the right one, a version that it        *)
(* inserts is still missing, and a link that it found or inserted is still *)
(* there.  This is what makes the agreement of the tables inductive        *)
(* although statements of different users interleave.                      *)
(***************************************************************************)
EXTENDS MatchReview, AssetHub, FiniteSetTheorems, SequenceTheorems, TLAPS

(* Data that rules computed stands in a match that is merged, or it was    *)
(* left behind.                                                            *)
Inherited ==
    \A m \in Matches : match[m].data \in Rules => match[m].status = "merged" \/ m \in kept

MatchInv == MatchTypeOK /\ AssetsFollow /\ Inherited

MatchType  == [status: {"none", "pending", "approved", "rejected", "merged"},
               data: Rules \cup {"none", "given"}, link: Nat]
AssetType  == Decided \cup {"pending"}

-----------------------------------------------------------------------------
LEMMA LinkedInside ==
    ASSUME MatchInv
    PROVE  /\ match \in [Matches -> MatchType] /\ asset \in Seq(AssetType)
           /\ DOMAIN asset = 1 .. Len(asset) /\ Len(asset) \in Nat
           /\ \A m \in Matches : match[m].link # 0 => match[m].link \in 1 .. Len(asset)
<1>1. match \in [Matches -> MatchType] /\ asset \in Seq(AssetType)
  BY DEF MatchInv, MatchTypeOK, MatchType, AssetType
<1>2. DOMAIN asset = 1 .. Len(asset) /\ Len(asset) \in Nat
  BY <1>1, LenProperties
<1> QED BY <1>1, <1>2 DEF MatchInv, MatchTypeOK

(* Steps that leave the assets and the links alone. *)
LEMMA UnlinkedStep ==
    ASSUME MatchInv, match' \in [Matches -> MatchType], UNCHANGED <<asset, unsynced>>,
           \A m \in Matches : match'[m].link = match[m].link,
           rules' \in Rules, direct' \subseteq Matches, kept' \subseteq Matches
    PROVE  MatchTypeOK'
<1>1. \A m \in Matches : match[m].link # 0 => match[m].link \in DOMAIN asset
  BY DEF MatchInv, MatchTypeOK
<1>2. \A m, n \in Matches : match[m].link # 0 /\ match[m].link = match[n].link => m = n
  BY DEF MatchInv, MatchTypeOK
<1>3. \A m \in Matches : match'[m].link # 0 => match'[m].link \in DOMAIN asset
  BY <1>1
<1>4. \A m, n \in Matches : match'[m].link # 0 /\ match'[m].link = match'[n].link => m = n
  BY <1>2
<1> QED BY <1>3, <1>4 DEF MatchInv, MatchTypeOK, MatchType

LEMMA DecideChanges ==
    ASSUME MatchInv, NEW m \in Matches, NEW s \in {"pending", "approved", "rejected", "merged"},
           NEW given \in BOOLEAN, Decide(m, s, given)
    PROVE  /\ match' \in [Matches -> MatchType]
           /\ \A n \in Matches : match'[n].link = match[n].link
           /\ \A n \in Matches \ {m} : match'[n] = match[n]
           /\ match'[m].status = s
           /\ match'[m].data = IF given THEN "given" ELSE match[m].data
           /\ direct' \subseteq Matches /\ kept' \subseteq Matches /\ rules' \in Rules
           /\ Inherited'
<1>1. match \in [Matches -> MatchType]
  BY LinkedInside
<1>2. match[m] \in MatchType
  BY <1>1
<1>3. match' = [match EXCEPT ![m] = [match[m] EXCEPT !.status = s,
                                        !.data = IF given THEN "given" ELSE match[m].data]]
  BY <1>1, <1>2 DEF Decide, MatchType
<1> DEFINE new == [match[m] EXCEPT !.status = s, !.data = IF given THEN "given" ELSE match[m].data]
<1>4. /\ new \in MatchType /\ new.status = s /\ new.link = match[m].link
      /\ new.data = IF given THEN "given" ELSE match[m].data
  BY <1>2 DEF MatchType
<1> HIDE DEF new
<1>5. match' = [match EXCEPT ![m] = new]
  BY <1>3 DEF new
<1>6. match'[m] = new /\ \A n \in Matches \ {m} : match'[n] = match[n]
  BY <1>1, <1>5
<1>7. match' \in [Matches -> MatchType]
  BY <1>1, <1>4, <1>5
<1>8. direct' \subseteq Matches /\ kept' \subseteq Matches /\ rules' \in Rules
  BY DEF Decide, MatchInv, MatchTypeOK
<1>9. Inherited'
  <2> SUFFICES ASSUME NEW n \in Matches, match'[n].data \in Rules
               PROVE  match'[n].status = "merged" \/ n \in kept'
    BY DEF Inherited
  <2>1. kept \subseteq kept'
    BY DEF Decide
  <2>2. CASE n # m
    BY <1>6, <2>1, <2>2 DEF MatchInv, Inherited
  <2>3. CASE n = m
    <3>1. ~given /\ match[m].data \in Rules
      BY <1>4, <1>6, <2>3, MatchAssumption
    <3>2. match[m].status = "merged" \/ m \in kept
      BY <3>1 DEF MatchInv, Inherited
    <3> QED BY <2>1, <2>3, <3>1, <3>2 DEF Decide
  <2> QED BY <2>2, <2>3
<1> QED BY <1>4, <1>6, <1>7, <1>8, <1>9

-----------------------------------------------------------------------------
LEMMA UpdateStep ==
    ASSUME MatchInv, NEW m \in Matches, NEW s \in {"pending", "approved", "rejected", "merged"},
           NEW given \in BOOLEAN, UpdateMatch(m, s, given)
    PROVE  MatchInv'
<1>1. Decide(m, s, given)
  BY DEF UpdateMatch
<1>2. /\ match' \in [Matches -> MatchType]
      /\ \A n \in Matches : match'[n].link = match[n].link
      /\ \A n \in Matches \ {m} : match'[n] = match[n]
      /\ match'[m].status = s
      /\ direct' \subseteq Matches /\ kept' \subseteq Matches /\ rules' \in Rules
      /\ Inherited'
  BY <1>1, DecideChanges
<1>3. /\ asset \in Seq(AssetType) /\ match \in [Matches -> MatchType]
      /\ \A n \in Matches : match[n].link # 0 => match[n].link \in 1 .. Len(asset)
      /\ \A n, x \in Matches : match[n].link # 0 /\ match[n].link = match[x].link => n = x
  BY LinkedInside DEF MatchInv, MatchTypeOK
<1>4. /\ s = "merged" => m \in direct'
      /\ \A n \in Matches \ {m} : n \in direct' <=> n \in direct
  BY <1>1 DEF Decide
<1>5. CASE match[m].link # 0 /\ s \in Decided /\ SetAsset(match[m].link, s) /\ unsynced' = unsynced \ {m}
  <2>1. /\ asset' \in Seq(AssetType) /\ Len(asset') = Len(asset)
        /\ \A j \in 1 .. Len(asset) : asset'[j] = IF j = match[m].link THEN s ELSE asset[j]
    <3>1. s \in AssetType /\ match[m].link \in 1 .. Len(asset)
      BY <1>3, <1>5 DEF AssetType
    <3> QED BY <1>3, <1>5, <3>1, ExceptSeq DEF SetAsset
  <2>2. DOMAIN asset' = 1 .. Len(asset)
    BY <2>1, LenProperties
  <2>3. \A n \in Matches : match'[n].link # 0 => match'[n].link \in DOMAIN asset'
    BY <1>2, <1>3, <2>2
  <2>4. \A n, x \in Matches : match'[n].link # 0 /\ match'[n].link = match'[x].link => n = x
    BY <1>2, <1>3
  <2>5. MatchTypeOK'
    BY <1>2, <1>5, <2>1, <2>3, <2>4 DEF MatchTypeOK, MatchInv, MatchType, AssetType
  <2>6. AssetsFollow'
    <3> SUFFICES ASSUME NEW n \in Matches \ unsynced', match'[n].link # 0
                 PROVE  /\ match'[n].status \in Decided => asset'[match'[n].link] = match'[n].status
                        /\ match'[n].status = "merged" /\ n \notin direct' =>
                              asset'[match'[n].link] = "approved"
      BY DEF AssetsFollow
    <3>1. CASE n = m
      BY <1>2, <1>3, <1>4, <2>1, <3>1
    <3>2. CASE n # m
      <4>1. match'[n] = match[n] /\ n \notin unsynced /\ (n \in direct' <=> n \in direct)
        BY <1>2, <1>4, <1>5, <3>2
      <4>2. match[n].link \in 1 .. Len(asset) /\ match[n].link # match[m].link
        BY <1>3, <3>2, <4>1
      <4> QED BY <2>1, <4>1, <4>2 DEF MatchInv, AssetsFollow
    <3> QED BY <3>1, <3>2
  <2> QED BY <1>2, <2>5, <2>6 DEF MatchInv
<1>6. CASE UNCHANGED asset /\ unsynced' = unsynced \cup {m}
  <2>1. MatchTypeOK'
    <3>1. \A n \in Matches : match'[n].link # 0 => match'[n].link \in DOMAIN asset
      BY <1>2 DEF MatchInv, MatchTypeOK
    <3>2. \A n, x \in Matches : match'[n].link # 0 /\ match'[n].link = match'[x].link => n = x
      BY <1>2, <1>3
    <3> QED BY <1>2, <1>6, <3>1, <3>2 DEF MatchTypeOK, MatchInv, MatchType
  <2>2. AssetsFollow'
    BY <1>2, <1>4, <1>6 DEF AssetsFollow, MatchInv
  <2> QED BY <1>2, <2>1, <2>2 DEF MatchInv
<1>7. CASE UNCHANGED <<asset, unsynced>> /\ (match[m].link = 0 \/ s \notin Decided)
  <2>1. MatchTypeOK'
    BY <1>2, <1>7, UnlinkedStep
  <2>2. AssetsFollow'
    <3> SUFFICES ASSUME NEW n \in Matches \ unsynced, match'[n].link # 0
                 PROVE  /\ match'[n].status \in Decided => asset[match'[n].link] = match'[n].status
                        /\ match'[n].status = "merged" /\ n \notin direct' =>
                              asset[match'[n].link] = "approved"
      BY <1>7 DEF AssetsFollow
    <3>1. CASE n = m
      BY <1>2, <1>4, <1>7, <3>1
    <3>2. CASE n # m
      BY <1>2, <1>4, <3>2 DEF AssetsFollow, MatchInv
    <3> QED BY <3>1, <3>2
  <2> QED BY <1>2, <2>1, <2>2 DEF MatchInv
<1> QED BY <1>5, <1>6, <1>7 DEF UpdateMatch

LEMMA SyncStep == ASSUME MatchInv, NEW e \in 0 .. MaxMatches, SyncReview(e) PROVE MatchInv'
<1> DEFINE synced == {m \in Matches : /\ e < m /\ m <= SyncLimit
                                      /\ match[m].link # 0 /\ match[m].status \in Decided}
           to(r) == IF \E m \in synced : match[m].link = r
                    THEN match[CHOOSE m \in synced : match[m].link = r].status ELSE asset[r]
<1>1. /\ asset \in Seq(AssetType) /\ match \in [Matches -> MatchType]
      /\ DOMAIN asset = 1 .. Len(asset) /\ Len(asset) \in Nat
      /\ \A n \in Matches : match[n].link # 0 => match[n].link \in 1 .. Len(asset)
      /\ \A n, x \in Matches : match[n].link # 0 /\ match[n].link = match[x].link => n = x
  BY LinkedInside DEF MatchInv, MatchTypeOK
<1>2. /\ asset' = [r \in 1 .. Len(asset) |-> to(r)] /\ unsynced' = unsynced \ synced
      /\ UNCHANGED <<match, rules, direct, kept>>
  BY <1>1 DEF SyncReview
<1>3. \A m \in synced : match[m].status \in Decided /\ match[m].link # 0 /\ m \in Matches
  OBVIOUS
<1>4. ASSUME NEW m \in synced PROVE to(match[m].link) = match[m].status
  <2>1. \E x \in synced : match[x].link = match[m].link
    BY <1>4
  <2>2. (CHOOSE x \in synced : match[x].link = match[m].link) = m
    BY <1>1, <1>3, <1>4
  <2> QED BY <2>1, <2>2
<1>5. ASSUME NEW n \in Matches \ synced, match[n].link # 0
      PROVE  to(match[n].link) = asset[match[n].link]
  BY <1>1, <1>3, <1>5
<1>6. \A r \in 1 .. Len(asset) : to(r) \in AssetType
  <2> SUFFICES ASSUME NEW r \in 1 .. Len(asset) PROVE to(r) \in AssetType
    OBVIOUS
  <2>1. CASE \E m \in synced : match[m].link = r
    BY <1>3, <1>4, <2>1 DEF AssetType
  <2>2. CASE ~\E m \in synced : match[m].link = r
    BY <1>1, <2>2, ElementOfSeq
  <2> QED BY <2>1, <2>2
<1> HIDE DEF synced, to
<1>7. asset' \in Seq(AssetType) /\ DOMAIN asset' = 1 .. Len(asset)
  BY <1>1, <1>2, <1>6
<1>8. MatchTypeOK'
  BY <1>1, <1>2, <1>7 DEF MatchInv, MatchTypeOK, MatchType, AssetType
<1>9. AssetsFollow'
  <2> SUFFICES ASSUME NEW n \in Matches \ unsynced', match[n].link # 0
               PROVE  /\ match[n].status \in Decided => asset'[match[n].link] = match[n].status
                      /\ match[n].status = "merged" /\ n \notin direct =>
                            asset'[match[n].link] = "approved"
    BY <1>2 DEF AssetsFollow
  <2>1. asset'[match[n].link] = to(match[n].link)
    BY <1>1, <1>2
  <2>2. CASE n \in synced
    BY <1>3, <1>4, <2>1, <2>2 DEF Decided
  <2>3. CASE n \notin synced
    BY <1>2, <1>5, <2>1, <2>3 DEF MatchInv, AssetsFollow
  <2> QED BY <2>2, <2>3
<1>10. Inherited'
  BY <1>2 DEF MatchInv, Inherited
<1> QED BY <1>8, <1>9, <1>10 DEF MatchInv

LEMMA MergeStep == ASSUME MatchInv, NEW dry \in BOOLEAN, MergeApproved(dry) PROVE MatchInv'
<1>1. match \in [Matches -> MatchType]
  BY LinkedInside
<1>2. PICK done \in SUBSET In("approved") :
         /\ match' = [m \in Matches |->
               IF m \in done
               THEN [match[m] EXCEPT !.data = MergedData(m),
                                     !.status = IF dry THEN @ ELSE "merged"]
               ELSE match[m]]
         /\ kept' = IF dry THEN kept \cup {m \in done : MergedData(m) \in Rules} ELSE kept
         /\ UNCHANGED <<asset, rules, unsynced, direct>>
  BY DEF MergeApproved
<1>3. \A m \in done : m \in Matches /\ match[m].status = "approved"
  BY DEF In
<1>4. ASSUME NEW m \in Matches
      PROVE  /\ match'[m] \in MatchType /\ match'[m].link = match[m].link
             /\ m \notin done => match'[m] = match[m]
             /\ m \in done => /\ match'[m].data = MergedData(m)
                              /\ match'[m].status = IF dry THEN "approved" ELSE "merged"
  <2>1. match[m] \in MatchType /\ MergedData(m) \in Rules \cup {"none", "given"}
    BY <1>1 DEF MergedData, MatchType, MatchInv, MatchTypeOK
  <2>2. CASE m \in done
    BY <1>2, <1>3, <2>1, <2>2 DEF MatchType
  <2>3. CASE m \notin done
    BY <1>2, <2>1, <2>3
  <2> QED BY <2>2, <2>3
<1>5. match' \in [Matches -> MatchType]
  <2>1. match' = [m \in Matches |-> match'[m]]
    BY <1>2
  <2> QED BY <1>4, <2>1
<1>6. kept' \subseteq Matches
  BY <1>2, <1>3 DEF MatchInv, MatchTypeOK
<1>7. MatchTypeOK'
  BY <1>2, <1>4, <1>5, <1>6, UnlinkedStep DEF MatchInv, MatchTypeOK
<1>8. AssetsFollow'
  <2> SUFFICES ASSUME NEW n \in Matches \ unsynced, match'[n].link # 0
               PROVE  /\ match'[n].status \in Decided => asset[match'[n].link] = match'[n].status
                      /\ match'[n].status = "merged" /\ n \notin direct =>
                            asset[match'[n].link] = "approved"
    BY <1>2 DEF AssetsFollow
  <2>1. CASE n \in done
    <3>1. asset[match[n].link] = "approved"
      BY <1>3, <1>4, <2>1 DEF MatchInv, AssetsFollow, Decided
    <3> QED BY <1>4, <2>1, <3>1 DEF Decided
  <2>2. CASE n \notin done
    BY <1>4, <2>2 DEF MatchInv, AssetsFollow
  <2> QED BY <2>1, <2>2
<1>9. Inherited'
  <2> SUFFICES ASSUME NEW n \in Matches, match'[n].data \in Rules
               PROVE  match'[n].status = "merged" \/ n \in kept'
    BY DEF Inherited
  <2>1. CASE n \in done
    BY <1>2, <1>4, <2>1
  <2>2. CASE n \notin done
    BY <1>2, <1>4, <2>2 DEF MatchInv, Inherited
  <2> QED BY <2>1, <2>2
<1> QED BY <1>7, <1>8, <1>9 DEF MatchInv

LEMMA RankProperties ==
    ASSUME NEW P \in SUBSET Matches
    PROVE  /\ Cardinality(P) \in Nat
           /\ \A m \in P : Cardinality({x \in P : x <= m}) \in 1 .. Cardinality(P)
           /\ \A m, n \in P : Cardinality({x \in P : x <= m}) = Cardinality({x \in P : x <= n})
                                 => m = n
<1> DEFINE upto(m) == {x \in P : x <= m}
<1>1. IsFiniteSet(P) /\ Cardinality(P) \in Nat
  <2>1. IsFiniteSet(Matches)
    BY FS_Interval, MatchAssumption DEF Matches
  <2> QED BY <2>1, FS_Subset, FS_CardinalityType
<1>2. ASSUME NEW m \in P
      PROVE  /\ IsFiniteSet(upto(m)) /\ Cardinality(upto(m)) \in 1 .. Cardinality(P)
             /\ m \in upto(m)
  <2>1. upto(m) \subseteq P /\ m \in upto(m)
    BY DEF Matches
  <2>2. IsFiniteSet(upto(m)) /\ Cardinality(upto(m)) <= Cardinality(P)
    BY <1>1, <2>1, FS_Subset
  <2>3. Cardinality(upto(m)) \in Nat /\ Cardinality(upto(m)) # 0
    BY <2>1, <2>2, FS_CardinalityType, FS_EmptySet
  <2> QED BY <1>1, <2>1, <2>2, <2>3
<1>3. ASSUME NEW m \in P, NEW n \in P, m < n PROVE Cardinality(upto(m)) # Cardinality(upto(n))
  <2>1. upto(m) \subseteq upto(n) /\ n \notin upto(m) /\ n \in upto(n)
    <3>1. \A x \in P : x \in Int
      BY MatchAssumption DEF Matches
    <3> QED BY <1>3, <3>1
  <2>2. upto(m) # upto(n)
    BY <2>1
  <2> QED BY <1>2, <2>1, <2>2, FS_Subset
<1>4. \A m, n \in P : m = n \/ m < n \/ n < m
  BY DEF Matches
<1> QED BY <1>1, <1>2, <1>3, <1>4

LEMMA ReviewStep == ASSUME MatchInv, CreateReview PROVE MatchInv'
<1> DEFINE pending == In("pending")
           rank(m) == Cardinality({x \in pending : x <= m})
           size == Cardinality(pending)
<1>1. /\ match \in [Matches -> MatchType] /\ asset \in Seq(AssetType)
      /\ DOMAIN asset = 1 .. Len(asset) /\ Len(asset) \in Nat
      /\ \A n \in Matches : match[n].link # 0 => match[n].link \in 1 .. Len(asset)
      /\ \A n, x \in Matches : match[n].link # 0 /\ match[n].link = match[x].link => n = x
  BY LinkedInside DEF MatchInv, MatchTypeOK
<1>2. pending \in SUBSET Matches /\ \A m \in pending : match[m].status = "pending"
  BY DEF In
<1>3. /\ size \in Nat
      /\ \A m \in pending : rank(m) \in 1 .. size
      /\ \A m, n \in pending : rank(m) = rank(n) => m = n
  BY <1>2, RankProperties
<1> DEFINE more == [i \in 1 .. size |-> "pending"]
<1>4. PICK order \in Pairings(size), links \in 1 .. size :
         /\ match' = [m \in Matches |->
               IF m \in pending /\ rank(m) <= links
               THEN [match[m] EXCEPT !.link = Len(asset) + order[rank(m)]]
               ELSE match[m]]
         /\ asset' = asset \o more
         /\ UNCHANGED <<rules, unsynced, direct, kept>>
  BY DEF CreateReview
<1> HIDE DEF size, rank, pending
<1>5. /\ order \in [1 .. size -> 1 .. size]
      /\ \A i, j \in 1 .. size : order[i] = order[j] => i = j
  BY DEF Pairings
<1>6. /\ more \in Seq(AssetType) /\ Len(more) = size
  BY <1>3 DEF AssetType
<1>7. /\ asset' \in Seq(AssetType) /\ Len(asset') = Len(asset) + size
      /\ \A j \in 1 .. Len(asset) : asset'[j] = asset[j]
      /\ DOMAIN asset' = 1 .. (Len(asset) + size)
  <2>1. /\ asset' \in Seq(AssetType) /\ Len(asset') = Len(asset) + Len(more)
        /\ \A i \in 1 .. Len(asset) + Len(more) :
              asset'[i] = IF i <= Len(asset) THEN asset[i] ELSE more[i - Len(asset)]
    BY <1>1, <1>4, <1>6, ConcatProperties
  <2>2. DOMAIN asset' = 1 .. Len(asset')
    BY <2>1, LenProperties
  <2> QED BY <1>1, <1>3, <1>6, <2>1, <2>2
<1> HIDE DEF more
<1> DEFINE linked == {m \in pending : rank(m) <= links}
<1>8. ASSUME NEW m \in Matches
      PROVE  /\ match'[m] \in MatchType
             /\ match'[m].status = match[m].status /\ match'[m].data = match[m].data
             /\ m \notin linked => match'[m].link = match[m].link
             /\ m \in linked => /\ match'[m].link = Len(asset) + order[rank(m)]
                                /\ rank(m) \in 1 .. size /\ order[rank(m)] \in 1 .. size
  <2>1. match[m] \in MatchType
    BY <1>1
  <2>2. CASE m \in linked
    <3>1. rank(m) \in 1 .. size /\ order[rank(m)] \in 1 .. size
      BY <1>3, <1>5, <2>2
    <3>2. Len(asset) + order[rank(m)] \in Nat
      BY <1>1, <1>3, <3>1
    <3> QED BY <1>4, <2>1, <2>2, <3>1, <3>2 DEF MatchType
  <2>3. CASE m \notin linked
    BY <1>4, <2>1, <2>3
  <2> QED BY <2>2, <2>3
<1>9. match' \in [Matches -> MatchType]
  <2>1. match' = [m \in Matches |-> match'[m]]
    BY <1>4
  <2> QED BY <1>8, <2>1
<1>10. \A m \in Matches : match'[m].link # 0 => match'[m].link \in DOMAIN asset'
  <2> SUFFICES ASSUME NEW m \in Matches, match'[m].link # 0 PROVE match'[m].link \in DOMAIN asset'
    OBVIOUS
  <2>1. CASE m \in linked
    BY <1>1, <1>3, <1>7, <1>8, <2>1
  <2>2. CASE m \notin linked
    <3>1. match[m].link \in 1 .. Len(asset)
      BY <1>1, <1>8, <2>2
    <3> QED BY <1>1, <1>3, <1>7, <1>8, <2>2, <3>1
  <2> QED BY <2>1, <2>2
<1>11. ASSUME NEW m \in Matches, NEW n \in Matches, match'[m].link # 0, match'[m].link = match'[n].link
       PROVE  m = n
  <2>1. CASE m \in linked /\ n \in linked
    <3>1. order[rank(m)] = order[rank(n)]
      BY <1>1, <1>8, <1>11, <2>1
    <3>2. rank(m) = rank(n)
      BY <1>5, <1>8, <2>1, <3>1
    <3> QED BY <1>3, <2>1, <3>2
  <2>2. CASE m \notin linked /\ n \notin linked
    BY <1>1, <1>8, <1>11, <2>2
  <2>3. CASE m \in linked /\ n \notin linked
    BY <1>1, <1>8, <1>11, <2>3
  <2>4. CASE m \notin linked /\ n \in linked
    BY <1>1, <1>8, <1>11, <2>4
  <2> QED BY <2>1, <2>2, <2>3, <2>4
<1>12. MatchTypeOK'
  BY <1>4, <1>7, <1>9, <1>10, <1>11 DEF MatchInv, MatchTypeOK, MatchType, AssetType
<1>13. \A m \in linked : match[m].status = "pending"
  BY <1>2
<1>14. AssetsFollow'
  <2> SUFFICES ASSUME NEW n \in Matches \ unsynced, match'[n].link # 0
               PROVE  /\ match'[n].status \in Decided => asset'[match'[n].link] = match'[n].status
                      /\ match'[n].status = "merged" /\ n \notin direct =>
                            asset'[match'[n].link] = "approved"
    BY <1>4 DEF AssetsFollow
  <2>1. CASE n \in linked
    BY <1>8, <1>13, <2>1 DEF Decided
  <2>2. CASE n \notin linked
    <3>1. match[n].link \in 1 .. Len(asset) /\ asset'[match[n].link] = asset[match[n].link]
      BY <1>1, <1>7, <1>8, <2>2
    <3> QED BY <1>8, <2>2, <3>1 DEF MatchInv, AssetsFollow
  <2> QED BY <2>1, <2>2
<1>15. Inherited'
  BY <1>4, <1>8 DEF MatchInv, Inherited
<1> QED BY <1>12, <1>14, <1>15 DEF MatchInv

-----------------------------------------------------------------------------
LEMMA MatchStep == ASSUME MatchInv, [MatchNext]_matchVars PROVE MatchInv'
<1>1. ASSUME NEW m \in Matches, DetectMatch(m) PROVE MatchInv'
  <2>1. /\ match \in [Matches -> MatchType] /\ match' = [match EXCEPT ![m].status = "pending"]
        /\ match[m] = NoMatch /\ UNCHANGED <<asset, rules, unsynced, direct, kept>>
    BY <1>1, LinkedInside DEF DetectMatch
  <2>2. /\ match' \in [Matches -> MatchType]
        /\ \A n \in Matches : match'[n].link = match[n].link /\ match'[n].data = match[n].data
        /\ \A n \in Matches \ {m} : match'[n] = match[n]
    BY <2>1 DEF MatchType
  <2>3. match'[m].link = 0 /\ match'[m].data = "none"
    BY <2>1, <2>2 DEF NoMatch
  <2>4. MatchTypeOK'
    BY <2>1, <2>2, UnlinkedStep DEF MatchInv, MatchTypeOK
  <2>5. AssetsFollow'
    BY <2>1, <2>2, <2>3 DEF MatchInv, AssetsFollow
  <2>6. Inherited'
    BY <2>1, <2>2, <2>3, MatchAssumption DEF MatchInv, Inherited
  <2> QED BY <2>4, <2>5, <2>6 DEF MatchInv
<1>2. ASSUME NEW r \in Rules, ChangeRules(r) PROVE MatchInv'
  BY <1>2 DEF ChangeRules, MatchInv, MatchTypeOK, AssetsFollow, Inherited
<1>3. CASE UNCHANGED matchVars
  BY <1>3 DEF matchVars, MatchInv, MatchTypeOK, AssetsFollow, Inherited
<1> QED BY <1>1, <1>2, <1>3, UpdateStep, ReviewStep, SyncStep, MergeStep DEF MatchNext

LEMMA MergesFollowStep == ASSUME MatchInv, [MatchNext]_matchVars PROVE [MergesFollow]_matchVars
<1> SUFFICES ASSUME MatchNext, NEW m \in In("approved"), match'[m].status = "merged", m \notin direct'
             PROVE  match'[m].data \in {"given", rules} \/ m \in kept
  BY DEF MergesFollow
<1>0. m \in Matches /\ match[m].status = "approved" /\ match \in [Matches -> MatchType]
  BY LinkedInside DEF In
<1>1. CASE UNCHANGED match
  BY <1>0, <1>1
<1>2. ASSUME NEW n \in Matches, DetectMatch(n) PROVE FALSE
  <2>1. match'[m].status \in {"approved", "pending"}
    BY <1>0, <1>2 DEF DetectMatch, MatchType
  <2> QED BY <2>1
<1>3. ASSUME NEW n \in Matches, NEW s \in {"pending", "approved", "rejected", "merged"},
             NEW b \in BOOLEAN, UpdateMatch(n, s, b)
      PROVE  FALSE
  <2>1. Decide(n, s, b)
    BY <1>3 DEF UpdateMatch
  <2>2. m # n => match'[m] = match[m]
    BY <1>0, <2>1, DecideChanges
  <2>3. m = n => match'[m].status = s
    BY <2>1, DecideChanges
  <2> QED BY <1>0, <2>1, <2>2, <2>3 DEF Decide
<1>4. ASSUME CreateReview PROVE FALSE
  <2>1. match'[m].status = match[m].status
    BY <1>0, <1>4 DEF CreateReview, MatchType, In
  <2> QED BY <1>0, <2>1
<1>5. ASSUME NEW b \in BOOLEAN, MergeApproved(b)
      PROVE  match'[m].data \in {"given", rules} \/ m \in kept
  <2>1. PICK done \in SUBSET In("approved") :
           /\ \A x \in In("approved") \ done : match[x].data = "none"
           /\ match' = [x \in Matches |->
                 IF x \in done
                 THEN [match[x] EXCEPT !.data = MergedData(x),
                                       !.status = IF b THEN @ ELSE "merged"]
                 ELSE match[x]]
    BY <1>5 DEF MergeApproved
  <2>2. m \in done
    BY <1>0, <2>1
  <2>3. match'[m].data = MergedData(m)
    BY <1>0, <2>1, <2>2 DEF MatchType
  <2>4. match[m].data \in Rules \cup {"none", "given"}
    BY <1>0 DEF MatchType
  <2> QED BY <1>0, <2>3, <2>4 DEF MergedData, MatchInv, Inherited
<1> QED BY <1>1, <1>2, <1>3, <1>4, <1>5 DEF MatchNext, SyncReview, ChangeRules

(* The asset of a review shows the decision on its match, and what a merge *)
(* makes of a match follows the rules of that time or what the user gave   *)
(* (update_match_candidate, sync_review_asset_statuses,                    *)
(* process_approved_matches), up to failed writes, dry runs and merges     *)
(* that were undone: DecisionsCarryThrough.                                *)
THEOREM DecisionsReachTheMerge == MatchSpec => DecisionsCarryThrough
<1>1. MatchInit => MatchInv
  <2> SUFFICES ASSUME MatchInit PROVE MatchInv
    OBVIOUS
  <2>1. match = [m \in Matches |-> NoMatch] /\ asset = <<>> /\ rules \in Rules
    BY DEF MatchInit
  <2>2. \A m \in Matches : match[m].link = 0 /\ match[m].data = "none"
    BY <2>1 DEF NoMatch
  <2>3. match \in [Matches -> MatchType]
    BY <2>1 DEF NoMatch, MatchType
  <2> QED BY <2>1, <2>2, <2>3, MatchAssumption
          DEF MatchInit, MatchInv, MatchTypeOK, AssetsFollow, Inherited, MatchType
<1>2. MatchInv /\ [MatchNext]_matchVars => MatchInv'
  BY MatchStep
<1>3. MatchInv /\ [MatchNext]_matchVars => [AssetsFollow' /\ MergesFollow]_matchVars
  <2>1. MatchInv /\ [MatchNext]_matchVars => AssetsFollow'
    BY <1>2 DEF MatchInv
  <2> QED BY <2>1, MergesFollowStep
<1> QED BY <1>1, <1>2, <1>3, PTL DEF MatchSpec, DecisionsCarryThrough

-----------------------------------------------------------------------------
(* The hub. *)

HubRows == Assets \cup Wishes \cup Promotions \cup Releases \cup (Assets \X Wishes)

Statements == {"clear", "insert", "name", "count", "download", "mark", "raise", "wish", "link",
               "look", "unlink"}

Ops == DOMAIN Program \cup {"none"}

CallType ==
    [op: Ops, todo: Seq(Statements), asset: Assets \cup {NULL},
     release: Releases \cup {NULL}, wish: Wishes \cup {NULL}, promotion: Promotions \cup {NULL},
     seen: SUBSET Releases, held: SUBSET HubRows, value: Nat]

(* What a transaction holds and has seen, by how far it got.  A count that *)
(* it computed is still the right one, a version that it inserts is still  *)
(* missing, and a link that it found or inserted is still there.           *)
Publishing(c) ==
    /\ c.op = "publish" /\ c.asset \in Assets /\ c.release \in {c.asset} \X Labels
    /\ c.seen \subseteq ReleasesOf(c.asset)
    /\ \/ c.todo = <<"clear", "insert", "name">>
       \/ c.todo = <<"insert", "name">>
       \/ c.todo \in {<<"name">>, <<>>} /\ c.release \in c.held /\ ~release[c.release].exists

HasCounted(c) == c.asset \in c.held /\ c.value = stock[c.asset].installs + 1

Installing(c) ==
    /\ c.op = "install" /\ c.asset \in Assets /\ c.release = NULL
    /\ \/ c.todo = <<"count">>
       \/ c.todo = <<>> /\ HasCounted(c)

Downloading(c) ==
    /\ c.op = "download" /\ c.asset \in Assets
    /\ c.release \in Releases /\ release[c.release].exists
    /\ \/ c.todo = <<"count", "download">>
       \/ c.todo \in {<<"download">>, <<>>} /\ HasCounted(c)

Reviewing(c) ==
    /\ c.op \in {"approve", "reject"} /\ c.promotion \in Promotions
    /\ promotion[c.promotion].status # "none" /\ c.asset = promotion[c.promotion].asset
    /\ c.todo \in {<<"mark", "raise">>, <<"mark">>, <<"raise">>, <<>>}

Matching(c) ==
    /\ c.op = "match" /\ c.asset \in Assets /\ c.wish \in Wishes
    /\ c.held \subseteq {c.wish, <<c.asset, c.wish>>}
    /\ \/ c.todo = <<"wish", "link">>
       \/ c.todo = <<"link">> /\ c.wish \in c.held
       \/ c.todo = <<>> /\ c.wish \in c.held /\ <<c.asset, c.wish>> \in link \cup c.held

Unmatching(c) ==
    /\ c.op = "unmatch" /\ c.wish \in Wishes
    /\ c.held \subseteq {c.wish, <<c.asset, c.wish>>}
    /\ \/ c.todo \in {<<"look", "unlink", "wish">>, <<"unlink", "wish">>} /\ c.held = {}
       \/ c.todo = <<"wish">>
       \/ c.todo = <<>> /\ c.wish \in c.held

Fits(c) ==
    \/ c = NoCall
    \/ Publishing(c) \/ Installing(c) \/ Downloading(c) \/ Reviewing(c) \/ Matching(c) \/ Unmatching(c)

Locked == \A u, v \in Users : u # v => call[u].held \cap call[v].held = {}

RowsFit ==
    /\ \A x \in Releases : release[x].exists \/ release[x] = NoRelease
    /\ \A p \in Promotions :
          promotion[p] = NoPromotion
            \/ (promotion[p].status # "none" /\ promotion[p].asset \in Assets
                  /\ promotion[p].to \in Maturities)

HubCalls == call \in [Users -> CallType] /\ Locked /\ \A u \in Users : Fits(call[u])

HubInv == HubTypeOK /\ RowsFit /\ HubCalls /\ SummariesAgree /\ OneLatestUnlessRaced /\ MatchedIsLinked

-----------------------------------------------------------------------------
LEMMA Tails ==
    /\ <<"clear", "insert", "name">> # <<>> /\ Head(<<"clear", "insert", "name">>) = "clear"
    /\ Tail(<<"clear", "insert", "name">>) = <<"insert", "name">>
    /\ <<"insert", "name">> # <<>> /\ Head(<<"insert", "name">>) = "insert"
    /\ Tail(<<"insert", "name">>) = <<"name">>
    /\ <<"name">> # <<>> /\ Head(<<"name">>) = "name" /\ Tail(<<"name">>) = <<>>
    /\ <<"count">> # <<>> /\ Head(<<"count">>) = "count" /\ Tail(<<"count">>) = <<>>
    /\ <<"count", "download">> # <<>> /\ Head(<<"count", "download">>) = "count"
    /\ Tail(<<"count", "download">>) = <<"download">>
    /\ <<"download">> # <<>> /\ Head(<<"download">>) = "download" /\ Tail(<<"download">>) = <<>>
    /\ <<"mark", "raise">> # <<>> /\ Head(<<"mark", "raise">>) = "mark"
    /\ Tail(<<"mark", "raise">>) = <<"raise">>
    /\ <<"mark">> # <<>> /\ Head(<<"mark">>) = "mark" /\ Tail(<<"mark">>) = <<>>
    /\ <<"raise">> # <<>> /\ Head(<<"raise">>) = "raise" /\ Tail(<<"raise">>) = <<>>
    /\ <<"wish", "link">> # <<>> /\ Head(<<"wish", "link">>) = "wish"
    /\ Tail(<<"wish", "link">>) = <<"link">>
    /\ <<"link">> # <<>> /\ Head(<<"link">>) = "link" /\ Tail(<<"link">>) = <<>>
    /\ <<"look", "unlink", "wish">> # <<>> /\ Head(<<"look", "unlink", "wish">>) = "look"
    /\ Tail(<<"look", "unlink", "wish">>) = <<"unlink", "wish">>
    /\ <<"unlink", "wish">> # <<>> /\ Head(<<"unlink", "wish">>) = "unlink"
    /\ Tail(<<"unlink", "wish">>) = <<"wish">>
    /\ <<"wish">> # <<>> /\ Head(<<"wish">>) = "wish" /\ Tail(<<"wish">>) = <<>>
OBVIOUS

(* Which transaction is at a statement, and what it holds by then.         *)
LEMMA AtStatement ==
    ASSUME HubInv, NEW u \in Users, call[u].todo # <<>>
    PROVE  LET c == call[u] IN
           /\ At(u, "clear") => Publishing(c) /\ c.todo = <<"clear", "insert", "name">>
           /\ At(u, "insert") => Publishing(c) /\ c.todo = <<"insert", "name">>
           /\ At(u, "name") => Publishing(c) /\ c.todo = <<"name">>
           /\ At(u, "count") => \/ Installing(c) /\ c.todo = <<"count">>
                                \/ Downloading(c) /\ c.todo = <<"count", "download">>
           /\ At(u, "download") => Downloading(c) /\ c.todo = <<"download">>
           /\ At(u, "mark") \/ At(u, "raise") =>
                 Reviewing(c) /\ c.todo \in {<<"mark", "raise">>, <<"mark">>, <<"raise">>}
           /\ At(u, "wish") => \/ Matching(c) /\ c.todo = <<"wish", "link">>
                               \/ Unmatching(c) /\ c.todo = <<"wish">>
           /\ At(u, "link") => Matching(c) /\ c.todo = <<"link">>
           /\ At(u, "look") => Unmatching(c) /\ c.todo = <<"look", "unlink", "wish">>
           /\ At(u, "unlink") => Unmatching(c) /\ c.todo = <<"unlink", "wish">>
<1>1. Fits(call[u])
  BY DEF HubInv, HubCalls
<1>2. CASE call[u] = NoCall
  BY <1>2 DEF NoCall
<1>3. CASE Publishing(call[u])
  BY <1>3, Tails DEF Publishing, At
<1>4. CASE Installing(call[u])
  BY <1>4, Tails DEF Installing, At
<1>5. CASE Downloading(call[u])
  BY <1>5, Tails DEF Downloading, At
<1>6. CASE Reviewing(call[u])
  BY <1>6, Tails DEF Reviewing, At
<1>7. CASE Matching(call[u])
  BY <1>7, Tails DEF Matching, At
<1>8. CASE Unmatching(call[u])
  BY <1>8, Tails DEF Unmatching, At
<1> QED BY <1>1, <1>2, <1>3, <1>4, <1>5, <1>6, <1>7, <1>8 DEF Fits

LEMMA HubTypes ==
    ASSUME HubInv
    PROVE  /\ call \in [Users -> CallType] /\ Locked /\ \A u \in Users : Fits(call[u])
           /\ stock \in [Assets -> [maturity: Maturities \cup {"idea"}, installs: Nat,
                                    latest: Labels \cup {NULL}]]
           /\ release \in [Releases -> [exists: BOOLEAN, latest: BOOLEAN, downloads: Nat]]
           /\ installed \in Seq([asset: Assets, release: Releases \cup {NULL}])
           /\ link \subseteq Assets \X Wishes
           /\ NULL \notin Assets /\ NULL \notin Labels /\ NULL \notin Releases
BY HubAssumption DEF HubInv, HubCalls, HubTypeOK, Releases

StockType == [maturity: Maturities \cup {"idea"}, installs: Nat, latest: Labels \cup {NULL}]

LEMMA NoCallTyped == NoCall \in CallType
<1>1. <<>> \in Seq(Statements) /\ 0 \in Nat
  OBVIOUS
<1> QED BY <1>1 DEF NoCall, CallType, Ops

LEMMA ExecutedIs ==
    ASSUME HubInv, NEW u \in Users, call[u].todo # <<>>, NEW rows \in SUBSET HubRows
    PROVE  LET c == Executed(u, rows)
               d == call[u]
           IN  /\ c \in CallType /\ d \in CallType
               /\ c.todo = Tail(d.todo) /\ c.held = d.held \cup rows
               /\ c.op = d.op /\ c.asset = d.asset /\ c.release = d.release /\ c.wish = d.wish
               /\ c.promotion = d.promotion /\ c.seen = d.seen /\ c.value = d.value
<1>1. call[u] \in CallType
  BY HubTypes
<1>2. call[u].todo \in Seq(Statements)
  BY <1>1 DEF CallType
<1>3. Tail(call[u].todo) \in Seq(Statements)
  BY <1>2, HeadTailProperties, EmptySeq
<1> DEFINE d == call[u]
           t == Tail(call[u].todo)
           h == call[u].held \cup rows
<1>4. Executed(u, rows) = [d EXCEPT !.todo = t, !.held = h]
  BY DEF Executed
<1>5. d \in CallType /\ t \in Seq(Statements) /\ h \in SUBSET HubRows
  BY <1>1, <1>3 DEF CallType
<1> HIDE DEF d, t, h
<1>6. LET c == [d EXCEPT !.todo = t, !.held = h]
      IN  /\ c \in CallType /\ c.todo = t /\ c.held = h
          /\ c.op = d.op /\ c.asset = d.asset /\ c.release = d.release /\ c.wish = d.wish
          /\ c.promotion = d.promotion /\ c.seen = d.seen /\ c.value = d.value
  BY <1>5 DEF CallType
<1> QED BY <1>4, <1>5, <1>6 DEF d, t, h

(* A statement changes its own transaction only. *)
LEMMA StatementKeeps ==
    ASSUME HubInv, NEW u \in Users, NEW c \in CallType,
           call' = [call EXCEPT ![u] = c], UNCHANGED <<tables, history>>,
           Fits(c), \A v \in Users \ {u} : (c.held \ call[u].held) \cap call[v].held = {}
    PROVE  HubInv'
<1>1. call \in [Users -> CallType] /\ Locked /\ \A v \in Users : Fits(call[v])
  BY HubTypes
<1>2. /\ call'[u] = c /\ \A v \in Users \ {u} : call'[v] = call[v]
      /\ call' \in [Users -> CallType]
  BY <1>1
<1>3. Locked'
  <2> SUFFICES ASSUME NEW v \in Users, NEW w \in Users, v # w
               PROVE  call'[v].held \cap call'[w].held = {}
    BY DEF Locked
  <2>1. call[v].held \cap call[w].held = {}
    BY <1>1 DEF Locked
  <2> QED BY <1>2, <2>1
<1>4. ASSUME NEW v \in Users PROVE Fits(call[v])'
  <2>1. Fits(call'[v])
    <3>1. CASE v = u
      BY <1>2, <3>1
    <3>2. CASE v # u
      <4>1. call'[v] = call[v]
        BY <1>2, <3>2
      <4> QED BY <1>1, <4>1
    <3> QED BY <3>1, <3>2
  <2>2. UNCHANGED <<stock, release, installed, promotion, wish, link>>
    BY DEF tables
  <2>3. Publishing(call'[v]) => Publishing(call[v])'
    BY <2>2 DEF Publishing, ReleasesOf
  <2>4. Installing(call'[v]) \/ Downloading(call'[v]) => Installing(call[v])' \/ Downloading(call[v])'
    BY <2>2 DEF Installing, Downloading, HasCounted
  <2>5. Reviewing(call'[v]) => Reviewing(call[v])'
    BY <2>2 DEF Reviewing
  <2>6. Matching(call'[v]) \/ Unmatching(call'[v]) => Matching(call[v])' \/ Unmatching(call[v])'
    BY <2>2 DEF Matching, Unmatching
  <2> QED BY <2>1, <2>3, <2>4, <2>5, <2>6 DEF Fits
<1>5. HubTypeOK'
  <2>1. \A v \in Users : call'[v].op \in DOMAIN Program \cup {"none"}
    BY <1>2 DEF CallType, Ops
  <2> QED BY <2>1 DEF HubInv, HubTypeOK, tables, history
<1>6. SummariesAgree' /\ OneLatestUnlessRaced' /\ MatchedIsLinked' /\ RowsFit'
  BY DEF HubInv, SummariesAgree, OneLatestUnlessRaced, MatchedIsLinked, RowsFit, tables, history,
         ReleasesOf
<1> QED BY <1>2, <1>3, <1>4, <1>5, <1>6 DEF HubInv, HubCalls

LEMMA Programs ==
    /\ DOMAIN Program = {"publish", "install", "download", "approve", "reject", "match", "unmatch"}
    /\ Program["publish"] = <<"clear", "insert", "name">>
    /\ Program["install"] = <<"count">>
    /\ Program["download"] = <<"count", "download">>
    /\ Program["approve"] = <<"mark", "raise">>
    /\ Program["reject"] = <<"mark">>
    /\ Program["match"] = <<"wish", "link">>
    /\ Program["unmatch"] = <<"look", "unlink", "wish">>
BY DEF Program

LEMMA ProgramTyped ==
    ASSUME NEW op \in DOMAIN Program
    PROVE  Program[op] \in Seq(Statements)
<1>1. \A x \in Statements : <<x>> \in Seq(Statements)
  OBVIOUS
<1>2. \A x, y \in Statements : <<x, y>> \in Seq(Statements)
  OBVIOUS
<1>3. \A x, y, z \in Statements : <<x, y, z>> \in Seq(Statements)
  OBVIOUS
<1>4. {"clear", "insert", "name", "count", "download", "mark", "raise", "wish", "link", "look",
       "unlink"} \subseteq Statements
  BY DEF Statements
<1>5. CASE op \in {"publish", "unmatch"}
  <2>1. /\ <<"clear", "insert", "name">> \in Seq(Statements)
        /\ <<"look", "unlink", "wish">> \in Seq(Statements)
    BY <1>3, <1>4
  <2> QED BY <1>5, <2>1, Programs
<1>6. CASE op \in {"install", "reject"}
  <2>1. <<"count">> \in Seq(Statements) /\ <<"mark">> \in Seq(Statements)
    BY <1>1, <1>4
  <2> QED BY <1>6, <2>1, Programs
<1>7. CASE op \in {"download", "approve", "match"}
  <2>1. /\ <<"count", "download">> \in Seq(Statements) /\ <<"mark", "raise">> \in Seq(Statements)
        /\ <<"wish", "link">> \in Seq(Statements)
    BY <1>2, <1>4
  <2> QED BY <1>7, <2>1, Programs
<1>8. op \in {"publish", "install", "download", "approve", "reject", "match", "unmatch"}
  BY Programs
<1> QED BY <1>5, <1>6, <1>7, <1>8

LEMMA CalledIs ==
    ASSUME NEW op \in DOMAIN Program
    PROVE  LET c == Called(op) IN
           /\ c \in CallType /\ c.op = op /\ c.todo = Program[op] /\ c.held = {} /\ c.seen = {}
           /\ c.asset = NULL /\ c.release = NULL /\ c.wish = NULL /\ c.promotion = NULL
<1>1. Program[op] \in Seq(Statements)
  BY ProgramTyped
<1> DEFINE d == NoCall
           t == Program[op]
<1>2. Called(op) = [d EXCEPT !.op = op, !.todo = t]
  BY DEF Called
<1>3. /\ d \in CallType /\ d.held = {} /\ d.seen = {} /\ d.asset = NULL /\ d.release = NULL
      /\ d.wish = NULL /\ d.promotion = NULL
  BY NoCallTyped DEF NoCall
<1>4. op \in Ops
  BY DEF Ops
<1> HIDE DEF d, t
<1>5. LET c == [d EXCEPT !.op = op, !.todo = t] IN
      /\ c \in CallType /\ c.op = op /\ c.todo = t /\ c.held = d.held /\ c.seen = d.seen
      /\ c.asset = d.asset /\ c.release = d.release /\ c.wish = d.wish
      /\ c.promotion = d.promotion
  BY <1>1, <1>3, <1>4 DEF CallType, t
<1> QED BY <1>2, <1>3, <1>5 DEF t

LEMMA CallsKeep ==
    ASSUME HubInv, NEW u \in Users, CallVersions(u) \/ CallReview(u) \/ CallMatch(u)
    PROVE  HubInv'
<1>1. ASSUME NEW c \in CallType, Accept(u, c), Fits(c), c.held = {} PROVE HubInv'
  BY <1>1, StatementKeeps DEF Accept
<1>3. ASSUME NEW a \in Assets, NEW l \in Labels,
             Accept(u, [Called("publish") EXCEPT !.asset = a, !.release = <<a, l>>])
      PROVE  HubInv'
  <2> DEFINE d == Called("publish")
             c == [d EXCEPT !.asset = a, !.release = <<a, l>>]
  <2>1. "publish" \in DOMAIN Program
    BY Programs
  <2>2. /\ d \in CallType /\ d.op = "publish" /\ d.todo = Program["publish"] /\ d.held = {}
        /\ d.release = NULL /\ d.seen = {}
    BY <2>1, CalledIs
  <2> HIDE DEF d
  <2>3. /\ c \in CallType /\ c.op = "publish" /\ c.todo = Program["publish"] /\ c.held = {} /\ c.seen = {}
        /\ c.asset = a /\ c.release = <<a, l>>
    BY <2>2 DEF CallType, Releases
  <2> HIDE DEF c
  <2>4. Publishing(c)
    BY <1>3, <2>3, Programs DEF Publishing
  <2> QED BY <1>1, <1>3, <2>3, <2>4 DEF c, d, Fits
<1>4. ASSUME NEW a \in Assets,
             Accept(u, [Called("install") EXCEPT !.asset = a])
      PROVE  HubInv'
  <2> DEFINE d == Called("install")
             c == [d EXCEPT !.asset = a]
  <2>1. "install" \in DOMAIN Program
    BY Programs
  <2>2. /\ d \in CallType /\ d.op = "install" /\ d.todo = Program["install"] /\ d.held = {}
        /\ d.release = NULL /\ d.seen = {}
    BY <2>1, CalledIs
  <2> HIDE DEF d
  <2>3. /\ c \in CallType /\ c.op = "install" /\ c.todo = Program["install"] /\ c.held = {} /\ c.seen = {}
        /\ c.asset = a /\ c.release = NULL
    BY <2>2 DEF CallType, Releases
  <2> HIDE DEF c
  <2>4. Installing(c)
    BY <1>4, <2>3, Programs DEF Installing
  <2> QED BY <1>1, <1>4, <2>3, <2>4 DEF c, d, Fits
<1>5. ASSUME NEW a \in Assets, NEW x \in Releases, release[x].exists,
             Accept(u, [Called("download") EXCEPT !.asset = a, !.release = x])
      PROVE  HubInv'
  <2> DEFINE d == Called("download")
             c == [d EXCEPT !.asset = a, !.release = x]
  <2>1. "download" \in DOMAIN Program
    BY Programs
  <2>2. /\ d \in CallType /\ d.op = "download" /\ d.todo = Program["download"] /\ d.held = {}
        /\ d.release = NULL /\ d.seen = {}
    BY <2>1, CalledIs
  <2> HIDE DEF d
  <2>3. /\ c \in CallType /\ c.op = "download" /\ c.todo = Program["download"] /\ c.held = {} /\ c.seen = {}
        /\ c.asset = a /\ c.release = x
    BY <2>2 DEF CallType, Releases
  <2> HIDE DEF c
  <2>4. Downloading(c)
    BY <1>5, <2>3, Programs DEF Downloading
  <2> QED BY <1>1, <1>5, <2>3, <2>4 DEF c, d, Fits
<1>6. ASSUME NEW p \in Promotions, NEW op \in {"approve", "reject"}, promotion[p] # NoPromotion,
             Accept(u, [Called(op) EXCEPT !.asset = promotion[p].asset, !.promotion = p])
      PROVE  HubInv'
  <2> DEFINE d == Called(op)
             c == [d EXCEPT !.asset = promotion[p].asset, !.promotion = p]
  <2>0. promotion[p].status # "none" /\ promotion[p].asset \in Assets
    BY <1>6 DEF HubInv, RowsFit
  <2>1. op \in DOMAIN Program
    BY Programs
  <2>2. /\ d \in CallType /\ d.op = op /\ d.todo = Program[op] /\ d.held = {}
        /\ d.release = NULL /\ d.seen = {}
    BY <2>1, CalledIs
  <2> HIDE DEF d
  <2>3. /\ c \in CallType /\ c.op = op /\ c.todo = Program[op] /\ c.held = {} /\ c.seen = {}
        /\ c.asset = promotion[p].asset /\ c.promotion = p
    BY <2>2, <2>0 DEF CallType, Releases
  <2> HIDE DEF c
  <2>4. Reviewing(c)
    BY <1>6, <2>3, <2>0, Programs DEF Reviewing
  <2> QED BY <1>1, <1>6, <2>3, <2>4 DEF c, d, Fits
<1>7. ASSUME NEW w \in Wishes, NEW a \in Assets,
             Accept(u, [Called("match") EXCEPT !.asset = a, !.wish = w])
      PROVE  HubInv'
  <2> DEFINE d == Called("match")
             c == [d EXCEPT !.asset = a, !.wish = w]
  <2>1. "match" \in DOMAIN Program
    BY Programs
  <2>2. /\ d \in CallType /\ d.op = "match" /\ d.todo = Program["match"] /\ d.held = {}
        /\ d.release = NULL /\ d.seen = {}
    BY <2>1, CalledIs
  <2> HIDE DEF d
  <2>3. /\ c \in CallType /\ c.op = "match" /\ c.todo = Program["match"] /\ c.held = {} /\ c.seen = {}
        /\ c.asset = a /\ c.wish = w
    BY <2>2 DEF CallType, Releases
  <2> HIDE DEF c
  <2>4. Matching(c)
    BY <1>7, <2>3, Programs DEF Matching
  <2> QED BY <1>1, <1>7, <2>3, <2>4 DEF c, d, Fits
<1>8. ASSUME NEW w \in Wishes,
             Accept(u, [Called("unmatch") EXCEPT !.wish = w])
      PROVE  HubInv'
  <2> DEFINE d == Called("unmatch")
             c == [d EXCEPT !.wish = w]
  <2>1. "unmatch" \in DOMAIN Program
    BY Programs
  <2>2. /\ d \in CallType /\ d.op = "unmatch" /\ d.todo = Program["unmatch"] /\ d.held = {}
        /\ d.release = NULL /\ d.seen = {}
    BY <2>1, CalledIs
  <2> HIDE DEF d
  <2>3. /\ c \in CallType /\ c.op = "unmatch" /\ c.todo = Program["unmatch"] /\ c.held = {} /\ c.seen = {}
        /\ c.wish = w
    BY <2>2 DEF CallType, Releases
  <2> HIDE DEF c
  <2>4. Unmatching(c)
    BY <1>8, <2>3, Programs DEF Unmatching
  <2> QED BY <1>1, <1>8, <2>3, <2>4 DEF c, d, Fits
<1>9. CASE CallVersions(u)
  BY <1>3, <1>4, <1>5, <1>9 DEF CallVersions
<1>10. CASE CallReview(u)
  BY <1>6, <1>10 DEF CallReview
<1>11. CASE CallMatch(u)
  BY <1>7, <1>8, <1>11 DEF CallMatch
<1> QED BY <1>9, <1>10, <1>11

LEMMA RunKeeps ==
    ASSUME HubInv, NEW u \in Users, NEW c \in CallType, Run(u, c), Fits(c),
           NEW rows, \A x \in rows : Free(u, x), c.held \subseteq call[u].held \cup rows
    PROVE  HubInv'
<1>1. \A v \in Users \ {u} : (c.held \ call[u].held) \cap call[v].held = {}
  BY DEF Free
<1> QED BY <1>1, StatementKeeps DEF Run

LEMMA LockOne ==
    ASSUME HubInv, NEW u \in Users, NEW c \in CallType, Run(u, c), Fits(c),
           NEW x, Free(u, x), c.held = call[u].held \cup {x}
    PROVE  HubInv'
<1>1. (\A y \in {x} : Free(u, y)) /\ c.held \subseteq call[u].held \cup {x}
  OBVIOUS
<1> QED BY <1>1, RunKeeps

LEMMA LockNothing ==
    ASSUME HubInv, NEW u \in Users, NEW c \in CallType, Run(u, c), Fits(c),
           c.held \subseteq call[u].held
    PROVE  HubInv'
BY StatementKeeps DEF Run

LEMMA RowsAre ==
    ASSUME HubInv, NEW u \in Users, call[u].todo # <<>>
    PROVE  LET c == call[u] IN
           /\ Publishing(c) => c.asset \in HubRows /\ c.release \in HubRows
           /\ Installing(c) \/ Downloading(c) => c.asset \in HubRows
           /\ Downloading(c) => c.release \in HubRows
           /\ Reviewing(c) => c.asset \in HubRows /\ c.promotion \in HubRows
           /\ Matching(c) \/ Unmatching(c) => c.wish \in HubRows
           /\ Matching(c) => <<c.asset, c.wish>> \in HubRows
           /\ link \subseteq HubRows
<1>1. Reviewing(call[u]) => call[u].asset \in Assets
  BY DEF HubInv, RowsFit, Reviewing, NoPromotion
<1> QED BY <1>1, HubTypes DEF HubRows, Publishing, Installing, Downloading, Reviewing, Matching, Unmatching, Releases

LEMMA PublishingKeeps ==
    ASSUME HubInv, NEW u \in Users,
           ClearLatest(u) \/ ClearRow(u) \/ InsertRelease(u) \/ NameLatest(u)
    PROVE  HubInv'
<1> DEFINE d == call[u]
<1>1. d \in CallType
  BY HubTypes
<1>2. CASE ClearLatest(u)
  <2> DEFINE e == Executed(u, {})
             c == [e EXCEPT !.seen = ReleasesOf(d.asset)]
  <2>1. At(u, "clear") /\ d.todo # <<>> /\ Run(u, c)
    BY <1>2 DEF ClearLatest, At
  <2>2. Publishing(d) /\ d.todo = <<"clear", "insert", "name">>
    BY <2>1, AtStatement
  <2>3. e \in CallType /\ e.todo = Tail(d.todo) /\ e.held = d.held /\ e.op = d.op
        /\ e.asset = d.asset /\ e.release = d.release
    <3>1. {} \in SUBSET HubRows /\ d.held \cup {} = d.held
      OBVIOUS
    <3> QED BY <2>1, <3>1, ExecutedIs
  <2>4. ReleasesOf(d.asset) \in SUBSET Releases
    BY DEF ReleasesOf
  <2> HIDE DEF e
  <2>5. c \in CallType /\ c.todo = e.todo /\ c.held = d.held /\ c.op = d.op
        /\ c.asset = d.asset /\ c.release = d.release /\ c.seen = ReleasesOf(d.asset)
    BY <2>3, <2>4 DEF CallType
  <2> HIDE DEF c, d
  <2>6. Publishing(c)
    BY <2>2, <2>3, <2>5, Tails DEF Publishing
  <2>7. c.held \subseteq call[u].held
    BY <2>1, <2>5, <2>6 DEF d
  <2>8. Fits(c)
    BY <2>6 DEF Fits
  <2>9. c \in CallType /\ Run(u, c)
    BY <2>1, <2>5, <2>7
  <2> QED BY <2>7, <2>8, <2>9, LockNothing
<1>3. CASE ClearRow(u)
  <2>1. PICK x \in d.seen \ d.held : Free(u, x) /\ Run(u, [d EXCEPT !.held = @ \cup {x}])
    BY <1>3 DEF ClearRow
  <2>2. At(u, "insert") /\ d.todo # <<>>
    BY <1>3 DEF ClearRow, At
  <2>3. Publishing(d) /\ d.todo = <<"insert", "name">>
    BY <2>2, AtStatement
  <2> DEFINE h == d.held \cup {x}
             c == [d EXCEPT !.held = h]
  <2>4. Run(u, c)
    BY <2>1
  <2>5. h \in SUBSET HubRows
    BY <1>1, <2>1 DEF CallType, HubRows
  <2> HIDE DEF d, h
  <2>6. c \in CallType /\ c.todo = d.todo /\ c.held = h /\ c.op = d.op
        /\ c.asset = d.asset /\ c.release = d.release /\ c.seen = d.seen
    BY <1>1, <2>5 DEF CallType
  <2> HIDE DEF c
  <2>7. Publishing(c)
    BY <2>3, <2>6 DEF Publishing
  <2>8. c.held \subseteq call[u].held \cup {x}
    BY <2>6 DEF h, d
  <2> QED BY <2>1, <2>4, <2>6, <2>7, <2>8, RunKeeps DEF Fits
<1>4. CASE InsertRelease(u)
  <2> DEFINE x == d.release
             c == Executed(u, {x})
  <2>1. /\ At(u, "insert") /\ d.todo # <<>> /\ Free(u, x)
        /\ Run(u, IF release[x].exists THEN NoCall ELSE c)
    BY <1>4 DEF InsertRelease, At
  <2>2. Publishing(d) /\ d.todo = <<"insert", "name">> /\ {x} \in SUBSET HubRows
    BY <2>1, AtStatement, RowsAre
  <2>3. CASE release[x].exists
    <3>1. NoCall.held = {}
      BY DEF NoCall
    <3> QED BY <2>1, <2>3, <3>1, NoCallTyped, RunKeeps DEF Fits
  <2>4. CASE ~release[x].exists
    <3>1. c \in CallType /\ c.todo = Tail(d.todo) /\ c.held = d.held \cup {x} /\ c.op = d.op
          /\ c.asset = d.asset /\ c.release = d.release /\ c.seen = d.seen
      BY <2>1, <2>2, ExecutedIs
    <3> HIDE DEF c
    <3>2. Publishing(c)
      BY <2>2, <2>4, <3>1, Tails DEF Publishing
    <3>3. (\A y \in {x} : Free(u, y)) /\ c.held \subseteq call[u].held \cup {x}
      BY <2>1, <2>4, <3>1, <3>2
    <3> QED BY <2>1, <2>4, <3>1, <3>2, <3>3, RunKeeps DEF Fits
  <2> QED BY <2>3, <2>4
<1>5. CASE NameLatest(u)
  <2> DEFINE x == d.asset
             c == Executed(u, {x})
  <2>1. At(u, "name") /\ d.todo # <<>> /\ Free(u, x) /\ Run(u, c)
    BY <1>5 DEF NameLatest, Write, At
  <2>2. Publishing(d) /\ d.todo = <<"name">> /\ {x} \in SUBSET HubRows
    BY <2>1, AtStatement, RowsAre
  <2>3. c \in CallType /\ c.todo = Tail(d.todo) /\ c.held = d.held \cup {x} /\ c.op = d.op
        /\ c.asset = d.asset /\ c.release = d.release /\ c.seen = d.seen
    BY <2>1, <2>2, ExecutedIs
  <2> HIDE DEF c
  <2>4. Publishing(c)
    BY <2>2, <2>3, Tails DEF Publishing
  <2>5. Fits(c)
    BY <2>4 DEF Fits
  <2> QED BY <2>1, <2>3, <2>5, LockOne
<1> QED BY <1>2, <1>3, <1>4, <1>5

LEMMA CountingKeeps ==
    ASSUME HubInv, NEW u \in Users, CountInstall(u) \/ CountDownload(u)
    PROVE  HubInv'
<1> DEFINE d == call[u]
<1>1. CASE CountInstall(u)
  <2> DEFINE x == d.asset
             e == Executed(u, {x})
             n == stock[x].installs + 1
             c == [e EXCEPT !.value = n]
  <2>1. At(u, "count") /\ d.todo # <<>> /\ Free(u, x) /\ Run(u, c)
    BY <1>1 DEF CountInstall, Counted, At
  <2>2. /\ \/ Installing(d) /\ d.todo = <<"count">>
           \/ Downloading(d) /\ d.todo = <<"count", "download">>
        /\ {x} \in SUBSET HubRows
    BY <2>1, AtStatement, RowsAre
  <2>3. n \in Nat
    BY <2>2, HubTypes DEF Installing, Downloading
  <2>4. e \in CallType /\ e.todo = Tail(d.todo) /\ e.held = d.held \cup {x} /\ e.op = d.op
        /\ e.asset = d.asset /\ e.release = d.release
    BY <2>1, <2>2, ExecutedIs
  <2> HIDE DEF e, n
  <2>5. c \in CallType /\ c.todo = e.todo /\ c.held = e.held /\ c.op = e.op
        /\ c.asset = e.asset /\ c.release = e.release /\ c.value = n
    BY <2>3, <2>4 DEF CallType
  <2> HIDE DEF c
  <2>6. HasCounted(c)
    BY <2>4, <2>5 DEF HasCounted, n
  <2>7. Installing(c) \/ Downloading(c)
    <3>1. /\ Tail(<<"count">>) = <<>> /\ Tail(<<"count", "download">>) = <<"download">>
      BY Tails
    <3>2. CASE Installing(d) /\ d.todo = <<"count">>
      BY <2>4, <2>5, <2>6, <3>1, <3>2 DEF Installing
    <3>3. CASE Downloading(d) /\ d.todo = <<"count", "download">>
      BY <2>4, <2>5, <2>6, <3>1, <3>3 DEF Downloading
    <3> QED BY <2>2, <3>2, <3>3
  <2>8. Fits(c)
    BY <2>7 DEF Fits
  <2> QED BY <2>1, <2>4, <2>5, <2>8, LockOne
<1>2. CASE CountDownload(u)
  <2> DEFINE x == d.release
             c == Executed(u, {x})
  <2>1. At(u, "download") /\ d.todo # <<>> /\ Free(u, x) /\ Run(u, c)
    BY <1>2 DEF CountDownload, Write, At
  <2>2. Downloading(d) /\ d.todo = <<"download">> /\ {x} \in SUBSET HubRows
    BY <2>1, AtStatement, RowsAre
  <2>3. c \in CallType /\ c.todo = Tail(d.todo) /\ c.held = d.held \cup {x} /\ c.op = d.op
        /\ c.asset = d.asset /\ c.release = d.release /\ c.value = d.value
    BY <2>1, <2>2, ExecutedIs
  <2> HIDE DEF c
  <2>4. HasCounted(d)
    BY <2>2, Tails DEF Downloading
  <2>5. Downloading(c)
    BY <2>2, <2>3, <2>4, Tails DEF Downloading, HasCounted
  <2>6. (\A y \in {x} : Free(u, y)) /\ c.held \subseteq call[u].held \cup {x}
    BY <2>1, <2>3, <2>5
  <2> QED BY <2>1, <2>3, <2>5, <2>6, RunKeeps DEF Fits
<1> QED BY <1>1, <1>2

LEMMA ReviewingKeeps ==
    ASSUME HubInv, NEW u \in Users, MarkReviewed(u) \/ RaiseMaturity(u)
    PROVE  HubInv'
<1> DEFINE d == call[u]
<1>1. PICK x \in {d.promotion, d.asset} :
         (At(u, "mark") \/ At(u, "raise")) /\ Free(u, x) /\ Run(u, Executed(u, {x}))
  BY DEF MarkReviewed, RaiseMaturity, Write
<1> DEFINE c == Executed(u, {x})
<1>2. d.todo # <<>>
  BY <1>1 DEF At
<1>3. /\ Reviewing(d) /\ d.todo \in {<<"mark", "raise">>, <<"mark">>, <<"raise">>}
      /\ {x} \in SUBSET HubRows
  BY <1>1, <1>2, AtStatement, RowsAre
<1>4. c \in CallType /\ c.todo = Tail(d.todo) /\ c.held = d.held \cup {x} /\ c.op = d.op
      /\ c.asset = d.asset /\ c.promotion = d.promotion
  BY <1>2, <1>3, ExecutedIs
<1>5. Run(u, c)
  BY <1>1
<1> HIDE DEF c
<1>6. Reviewing(c)
  <2>1. Tail(d.todo) \in {<<"raise">>, <<>>}
    BY <1>3, Tails
  <2> QED BY <1>3, <1>4, <2>1 DEF Reviewing
<1>7. Fits(c)
  BY <1>6 DEF Fits
<1> QED BY <1>1, <1>4, <1>5, <1>7, LockOne

LEMMA MatchingKeeps ==
    ASSUME HubInv, NEW u \in Users,
           WriteWish(u) \/ InsertLink(u) \/ LookUpMatch(u) \/ DeleteLink(u)
    PROVE  HubInv'
<1> DEFINE d == call[u]
           x == <<d.asset, d.wish>>
<1>1. CASE WriteWish(u)
  <2> DEFINE w == d.wish
             c == Executed(u, {w})
  <2>1. At(u, "wish") /\ d.todo # <<>> /\ Free(u, w) /\ Run(u, c)
    BY <1>1 DEF WriteWish, Write, At
  <2>2. /\ \/ Matching(d) /\ d.todo = <<"wish", "link">>
           \/ Unmatching(d) /\ d.todo = <<"wish">>
        /\ {w} \in SUBSET HubRows
    BY <2>1, AtStatement, RowsAre
  <2>3. c \in CallType /\ c.todo = Tail(d.todo) /\ c.held = d.held \cup {w} /\ c.op = d.op
        /\ c.asset = d.asset /\ c.wish = d.wish
    BY <2>1, <2>2, ExecutedIs
  <2> HIDE DEF c, d
  <2>4. Matching(c) \/ Unmatching(c)
    BY <2>2, <2>3, Tails DEF Matching, Unmatching
  <2>5. (\A y \in {w} : Free(u, y)) /\ c.held \subseteq call[u].held \cup {w}
    BY <2>1, <2>3, <2>4 DEF d
  <2>6. Fits(c)
    BY <2>4 DEF Fits
  <2>7. c \in CallType /\ Run(u, c)
    BY <2>1, <2>3, <2>5
  <2> QED BY <2>5, <2>6, <2>7, RunKeeps
<1>2. CASE InsertLink(u)
  <2> DEFINE c == Executed(u, {x} \ link)
  <2>1. At(u, "link") /\ d.todo # <<>> /\ Free(u, x) /\ Run(u, c)
    BY <1>2 DEF InsertLink, At
  <2>2. Matching(d) /\ d.todo = <<"link">> /\ {x} \ link \in SUBSET HubRows
    BY <2>1, AtStatement, RowsAre
  <2>3. c \in CallType /\ c.todo = Tail(d.todo) /\ c.held = d.held \cup ({x} \ link)
        /\ c.op = d.op /\ c.asset = d.asset /\ c.wish = d.wish
    BY <2>1, <2>2, ExecutedIs
  <2> HIDE DEF c, d
  <2>4. c.wish \in c.held /\ <<c.asset, c.wish>> \in link \cup c.held
        /\ c.held \subseteq {c.wish, <<c.asset, c.wish>>}
    BY <2>2, <2>3, Tails DEF Matching
  <2>5. Matching(c)
    BY <2>2, <2>3, <2>4, Tails DEF Matching
  <2>6. (\A y \in {x} : Free(u, y)) /\ c.held \subseteq call[u].held \cup {x}
    BY <2>1, <2>3, <2>5 DEF d
  <2> QED BY <2>1, <2>3, <2>5, <2>6, RunKeeps DEF Fits
<1>3. CASE LookUpMatch(u)
  <2> DEFINE e == Executed(u, {})
             a == wish[d.wish].asset
             c == [e EXCEPT !.asset = a]
  <2>1. At(u, "look") /\ d.todo # <<>> /\ Run(u, c)
    BY <1>3 DEF LookUpMatch, At
  <2>2. Unmatching(d) /\ d.todo = <<"look", "unlink", "wish">>
    BY <2>1, AtStatement
  <2>3. a \in Assets \cup {NULL}
    BY <2>2 DEF Unmatching, HubInv, HubTypeOK
  <2>4. e \in CallType /\ e.todo = Tail(d.todo) /\ e.held = d.held /\ e.op = d.op
        /\ e.wish = d.wish
    <3>1. {} \in SUBSET HubRows /\ d.held \cup {} = d.held
      OBVIOUS
    <3> QED BY <2>1, <3>1, ExecutedIs
  <2> HIDE DEF e, a
  <2>5. c \in CallType /\ c.todo = e.todo /\ c.held = e.held /\ c.op = e.op /\ c.wish = e.wish
    BY <2>3, <2>4 DEF CallType
  <2> HIDE DEF c, d
  <2>6. d.held = {}
    BY <2>2, Tails DEF Unmatching
  <2>7. Unmatching(c)
    BY <2>2, <2>4, <2>5, <2>6, Tails DEF Unmatching
  <2>8. c.held \subseteq call[u].held
    BY <2>1, <2>4, <2>5, <2>7 DEF d
  <2>9. Fits(c)
    BY <2>7 DEF Fits
  <2>10. c \in CallType /\ Run(u, c)
    BY <2>1, <2>5, <2>8
  <2> QED BY <2>8, <2>9, <2>10, LockNothing
<1>4. CASE DeleteLink(u)
  <2> DEFINE rows == {x} \cap link
             c == Executed(u, rows)
  <2>1. At(u, "unlink") /\ d.todo # <<>> /\ (\A y \in rows : Free(u, y)) /\ Run(u, c)
    BY <1>4 DEF DeleteLink, At
  <2>2. Unmatching(d) /\ d.todo = <<"unlink", "wish">> /\ rows \in SUBSET HubRows
    BY <2>1, AtStatement, RowsAre
  <2>3. c \in CallType /\ c.todo = Tail(d.todo) /\ c.held = d.held \cup rows /\ c.op = d.op
        /\ c.asset = d.asset /\ c.wish = d.wish
    BY <2>1, <2>2, ExecutedIs
  <2>4. rows \subseteq {<<d.asset, d.wish>>}
    OBVIOUS
  <2> HIDE DEF c, d, rows
  <2>5. Unmatching(c)
    BY <2>2, <2>3, <2>4, Tails DEF Unmatching
  <2>6. (\A y \in rows : Free(u, y)) /\ c.held \subseteq call[u].held \cup rows
    BY <2>1, <2>3, <2>5 DEF d
  <2> QED BY <2>1, <2>3, <2>5, <2>6, RunKeeps DEF Fits
<1> QED BY <1>1, <1>2, <1>3, <1>4

LEMMA RollbackKeeps ==
    ASSUME HubInv, NEW u \in Users, Rollback(u)
    PROVE  HubInv'
<1>1. NoCall.held = {} /\ Run(u, NoCall)
  BY DEF NoCall, Rollback
<1> QED BY <1>1, NoCallTyped, RunKeeps DEF Fits

-----------------------------------------------------------------------------
(* The commits.                                                            *)
LEMMA AtCommit ==
    ASSUME HubInv, NEW u \in Users, call[u].todo = <<>>
    PROVE  LET c == call[u] IN
           /\ c.op = "publish" =>
                 Publishing(c) /\ c.release \in c.held /\ ~release[c.release].exists
           /\ c.op = "install" => Installing(c) /\ HasCounted(c)
           /\ c.op = "download" => Downloading(c) /\ HasCounted(c)
           /\ c.op \in {"approve", "reject"} => Reviewing(c)
           /\ c.op = "match" =>
                 Matching(c) /\ c.wish \in c.held /\ <<c.asset, c.wish>> \in link \cup c.held
           /\ c.op = "unmatch" => Unmatching(c) /\ c.wish \in c.held
<1>1. Fits(call[u]) /\ NoCall.op = "none"
  BY HubTypes DEF NoCall
<1>2. CASE call[u] = NoCall
  BY <1>1, <1>2
<1>3. CASE Publishing(call[u])
  BY <1>3, Tails DEF Publishing
<1>4. CASE Installing(call[u])
  BY <1>4, Tails DEF Installing
<1>5. CASE Downloading(call[u])
  BY <1>5, Tails DEF Downloading
<1>6. CASE Reviewing(call[u])
  BY <1>6, Tails DEF Reviewing
<1>7. CASE Matching(call[u])
  BY <1>7, Tails DEF Matching
<1>8. CASE Unmatching(call[u])
  BY <1>8, Tails DEF Unmatching
<1> QED BY <1>1, <1>2, <1>3, <1>4, <1>5, <1>6, <1>7, <1>8 DEF Fits

(* What changes in rows that a transaction does not hold leaves it fit.    *)
LEMMA StillFits ==
    ASSUME HubInv, NEW v \in Users, call'[v] = call[v],
           NEW rows, call[v].held \cap rows = {},
           \A x \in Releases : release[x].exists => release'[x].exists,
           \A x \in Releases : release'[x].exists => release[x].exists \/ x \in rows,
           \A a \in Assets : stock'[a].installs = stock[a].installs \/ a \in rows,
           \A p \in Promotions : promotion[p].status # "none" =>
              promotion'[p].status # "none" /\ promotion'[p].asset = promotion[p].asset,
           \A x \in link : x \in link' \/ x[2] \in rows
    PROVE  Fits(call[v])'
<1> DEFINE c == call[v]
<1>1. Fits(c) /\ \A x : x \in c.held => x \notin rows
  BY HubTypes
<1>2. Publishing(c) => Publishing(call[v])'
  <2> SUFFICES ASSUME Publishing(c) PROVE Publishing(call[v])'
    OBVIOUS
  <2>1. ReleasesOf(c.asset) \subseteq ReleasesOf(c.asset)'
    BY DEF ReleasesOf
  <2>2. c.release \in Releases
    BY DEF Publishing, Releases
  <2>3. c.release \in c.held /\ ~release[c.release].exists => ~release'[c.release].exists
    BY <1>1, <2>2
  <2> QED BY <2>1, <2>3 DEF Publishing, ReleasesOf
<1>3. c.asset \in Assets /\ HasCounted(c) => HasCounted(call[v])'
  BY <1>1 DEF HasCounted
<1>4. Installing(c) => Installing(call[v])'
  BY <1>3 DEF Installing
<1>5. Downloading(c) => Downloading(call[v])'
  BY <1>3 DEF Downloading
<1>6. Reviewing(c) => Reviewing(call[v])'
  BY DEF Reviewing
<1>7. Matching(c) => Matching(call[v])'
  <2>1. c.wish \in c.held /\ <<c.asset, c.wish>> \in link => <<c.asset, c.wish>> \in link'
    BY <1>1
  <2> QED BY <2>1 DEF Matching
<1>8. Unmatching(c) => Unmatching(call[v])'
  BY DEF Unmatching
<1>9. c = NoCall => call'[v] = NoCall
  OBVIOUS
<1> QED BY <1>1, <1>2, <1>4, <1>5, <1>6, <1>7, <1>8, <1>9 DEF Fits

LEMMA OthersFit ==
    ASSUME HubInv, NEW u \in Users, call' = [call EXCEPT ![u] = NoCall],
           \A x \in Releases : release[x].exists => release'[x].exists,
           \A x \in Releases : release'[x].exists => release[x].exists \/ x \in call[u].held,
           \A a \in Assets : stock'[a].installs = stock[a].installs \/ a \in call[u].held,
           \A p \in Promotions : promotion[p].status # "none" =>
              promotion'[p].status # "none" /\ promotion'[p].asset = promotion[p].asset,
           \A x \in link : x \in link' \/ x[2] \in call[u].held
    PROVE  HubCalls' /\ \A v \in Users : call'[v].op \in DOMAIN Program \cup {"none"}
<1>1. call \in [Users -> CallType] /\ Locked /\ NoCall \in CallType
  BY HubTypes, NoCallTyped
<1>2. /\ call' \in [Users -> CallType] /\ call'[u] = NoCall
      /\ \A v \in Users \ {u} : call'[v] = call[v]
  BY <1>1
<1>3. NoCall.held = {}
  BY DEF NoCall
<1>4. Locked'
  BY <1>1, <1>2, <1>3 DEF Locked
<1>5. ASSUME NEW v \in Users PROVE Fits(call[v])'
  <2>1. CASE v = u
    BY <1>2, <2>1 DEF Fits
  <2>2. CASE v # u
    <3>1. call'[v] = call[v] /\ call[v].held \cap call[u].held = {}
      BY <1>1, <1>2, <2>2 DEF Locked
    <3> QED BY <3>1, StillFits
  <2> QED BY <2>1, <2>2
<1>6. \A v \in Users : call'[v].op \in DOMAIN Program \cup {"none"}
  BY <1>2 DEF CallType, Ops
<1> QED BY <1>2, <1>4, <1>5, <1>6 DEF HubCalls

(* The summaries, one by one.                                              *)
InstallsAgree(a) ==
    stock[a].installs = Cardinality({i \in DOMAIN installed : installed[i].asset = a})

DownloadsAgree(x) ==
    release[x].downloads = Cardinality({i \in DOMAIN installed : installed[i].release = x})

LatestAgrees(a) ==
    IF stock[a].latest = NULL THEN ReleasesOf(a) = {} ELSE release[<<a, stock[a].latest>>].latest

MaturityAgrees(a) ==
    stock[a].maturity # "idea" =>
        \E p \in Promotions :
            /\ promotion[p].asset = a /\ promotion[p].to = stock[a].maturity
            /\ promotion[p].status = "approve" \/ p \in reviewed

Flagged(a) == {x \in ReleasesOf(a) : release[x].latest}

LEMMA Summaries ==
    ASSUME HubInv
    PROVE  /\ \A a \in Assets : InstallsAgree(a) /\ LatestAgrees(a) /\ MaturityAgrees(a)
           /\ \A x \in Releases : DownloadsAgree(x)
BY DEF HubInv, SummariesAgree, InstallsAgree, LatestAgrees, MaturityAgrees, DownloadsAgree

LEMMA SummariesFollow ==
    ASSUME \A a \in Assets : InstallsAgree(a)' /\ LatestAgrees(a)' /\ MaturityAgrees(a)',
           \A x \in Releases : DownloadsAgree(x)'
    PROVE  SummariesAgree'
BY DEF SummariesAgree, InstallsAgree, LatestAgrees, MaturityAgrees, DownloadsAgree

LEMMA PublishKeeps ==
    ASSUME HubInv, NEW u \in Users, CommitPublish(u)
    PROVE  HubInv'
<1> DEFINE c == call[u]
<1>1. /\ call' = [call EXCEPT ![u] = NoCall] /\ c.todo = <<>> /\ c.op = "publish"
      /\ release' = Flags(u) /\ stock' = [stock EXCEPT ![c.asset].latest = c.release[2]]
      /\ raced' = IF Overlaps(u) THEN raced \cup {c.asset} ELSE raced \ {c.asset}
      /\ UNCHANGED <<installed, promotion, wish, link, reviewed, edited>>
  BY DEF CommitPublish, Commit
<1>2. Publishing(c) /\ c.release \in c.held /\ ~release[c.release].exists
  BY <1>1, AtCommit
<1>3. PICK a \in Assets, l \in Labels : c.asset = a /\ c.release = <<a, l>>
  BY <1>2 DEF Publishing
<1> DEFINE x == <<a, l>>
<1>4. x \in Releases /\ x[1] = a /\ c.seen \subseteq ReleasesOf(a) /\ release[x] = NoRelease
  BY <1>2, <1>3 DEF Publishing, Releases, HubInv, RowsFit
<1>5. release \in [Releases -> [exists: BOOLEAN, latest: BOOLEAN, downloads: Nat]]
  BY HubTypes
<1>6. /\ release'[x].exists = TRUE /\ release'[x].latest = TRUE /\ release'[x].downloads = 0
      /\ release[x].downloads = 0 /\ ~release[x].exists
      /\ \A y \in Releases \ {x} :
            /\ release'[y].exists = release[y].exists
            /\ release'[y].downloads = release[y].downloads
            /\ release'[y].latest = IF y \in c.seen THEN FALSE ELSE release[y].latest
            /\ y \notin c.seen => release'[y] = release[y]
      /\ release' \in [Releases -> [exists: BOOLEAN, latest: BOOLEAN, downloads: Nat]]
  <2> DEFINE new == [NoRelease EXCEPT !.exists = TRUE, !.latest = TRUE]
  <2>1. release' = [y \in Releases |-> IF y = x THEN new
                                       ELSE IF y \in c.seen THEN [release[y] EXCEPT !.latest = FALSE]
                                       ELSE release[y]]
    BY <1>1, <1>3 DEF Flags
  <2>2. /\ new \in [exists: BOOLEAN, latest: BOOLEAN, downloads: Nat]
        /\ new.exists = TRUE /\ new.latest = TRUE /\ new.downloads = 0
    <3> DEFINE old == NoRelease
    <3>1. old \in [exists: BOOLEAN, latest: BOOLEAN, downloads: Nat] /\ old.downloads = 0
      BY DEF NoRelease
    <3> HIDE DEF old
    <3>2. LET r == [old EXCEPT !.exists = TRUE, !.latest = TRUE]
          IN  /\ r \in [exists: BOOLEAN, latest: BOOLEAN, downloads: Nat]
              /\ r.exists = TRUE /\ r.latest = TRUE /\ r.downloads = old.downloads
      BY <3>1
    <3> QED BY <3>1, <3>2 DEF old
  <2> HIDE DEF x, c, new
  <2>3. release'[x] = new
    BY <1>4, <2>1
  <2>4. ASSUME NEW y \in Releases, y # x
        PROVE  /\ release'[y] \in [exists: BOOLEAN, latest: BOOLEAN, downloads: Nat]
               /\ release'[y].exists = release[y].exists
               /\ release'[y].downloads = release[y].downloads
               /\ release'[y].latest = IF y \in c.seen THEN FALSE ELSE release[y].latest
               /\ y \notin c.seen => release'[y] = release[y]
    <3>1. release[y] \in [exists: BOOLEAN, latest: BOOLEAN, downloads: Nat]
      BY <1>5
    <3>2. release'[y] = IF y \in c.seen THEN [release[y] EXCEPT !.latest = FALSE] ELSE release[y]
      BY <2>1, <2>4
    <3> QED BY <3>1, <3>2
  <2>5. release[x].downloads = 0 /\ ~release[x].exists
    BY <1>4 DEF NoRelease
  <2>6. release'[x] \in [exists: BOOLEAN, latest: BOOLEAN, downloads: Nat]
    BY <2>2, <2>3
  <2>7. \A y \in Releases : release'[y] \in [exists: BOOLEAN, latest: BOOLEAN, downloads: Nat]
    BY <2>4, <2>6
  <2>8. release' \in [Releases -> [exists: BOOLEAN, latest: BOOLEAN, downloads: Nat]]
    BY <2>1, <2>7
  <2> QED BY <2>2, <2>3, <2>4, <2>5, <2>8
<1>7. /\ stock' \in [Assets -> [maturity: Maturities \cup {"idea"}, installs: Nat,
                                latest: Labels \cup {NULL}]]
      /\ stock'[a].latest = l
      /\ \A b \in Assets : /\ stock'[b].installs = stock[b].installs
                           /\ stock'[b].maturity = stock[b].maturity
                           /\ b # a => stock'[b] = stock[b]
  <2>1. stock' = [stock EXCEPT ![a].latest = l]
    BY <1>1, <1>3
  <2>2. stock \in [Assets -> StockType]
    BY HubTypes DEF StockType
  <2>3. /\ stock' \in [Assets -> StockType] /\ stock'[a].latest = l
        /\ stock'[a].installs = stock[a].installs /\ stock'[a].maturity = stock[a].maturity
        /\ \A b \in Assets \ {a} : stock'[b] = stock[b]
    <3> DEFINE r == [stock[a] EXCEPT !.latest = l]
    <3>1. /\ r \in StockType /\ r.latest = l /\ r.installs = stock[a].installs
          /\ r.maturity = stock[a].maturity
      BY <2>2 DEF StockType
    <3>2. stock' = [stock EXCEPT ![a] = r]
      BY <2>1
    <3> HIDE DEF r
    <3> QED BY <2>2, <3>1, <3>2
  <2> QED BY <2>3 DEF StockType
<1>8. HubCalls' /\ \A v \in Users : call'[v].op \in DOMAIN Program \cup {"none"}
  <2>1. \A y \in Releases : release[y].exists => release'[y].exists
    BY <1>6
  <2>2. \A y \in Releases : release'[y].exists => release[y].exists \/ y \in call[u].held
    <3>1. x \in call[u].held
      BY <1>2, <1>3
    <3> HIDE DEF x
    <3> QED BY <1>6, <3>1
  <2>3. \A p \in Promotions : promotion'[p] = promotion[p]
    BY <1>1
  <2>4. \A y \in link : y \in link'
    BY <1>1
  <2> QED BY <1>1, <1>7, <2>1, <2>2, <2>3, <2>4, OthersFit
<1> HIDE DEF c
<1>9. raced' \subseteq Assets
  BY <1>1, <1>3 DEF HubInv, HubTypeOK
<1>10. HubTypeOK'
  BY <1>1, <1>6, <1>7, <1>8, <1>9 DEF HubInv, HubTypeOK
<1>11. RowsFit'
  <2>1. \A y \in Releases : release'[y].exists \/ release'[y] = NoRelease
    <3>1. \A y \in Releases \ {x} : y \in c.seen => release'[y].exists
      BY <1>4, <1>6 DEF ReleasesOf
    <3>2. release'[x].exists
      BY <1>6
    <3> HIDE DEF x
    <3>3. \A y \in Releases \ {x} : y \notin c.seen => release'[y] = release[y]
      BY <1>6
    <3>4. \A y \in Releases : release[y].exists \/ release[y] = NoRelease
      BY DEF HubInv, RowsFit
    <3> QED BY <3>1, <3>2, <3>3, <3>4
  <2> QED BY <1>1, <2>1 DEF HubInv, RowsFit
<1>12. ASSUME NEW b \in Assets, b # a
       PROVE  /\ \A y \in Releases : y[1] = b => release'[y] = release[y]
              /\ ReleasesOf(b)' = ReleasesOf(b) /\ Flagged(b)' = Flagged(b)
  <2>1. \A y \in Releases : y[1] = b => release'[y] = release[y]
    BY <1>4, <1>6, <1>12 DEF ReleasesOf
  <2> QED BY <2>1 DEF ReleasesOf, Flagged
<1>13. SummariesAgree'
  <2>1. ASSUME NEW b \in Assets PROVE InstallsAgree(b)' /\ MaturityAgrees(b)'
    <3>1. InstallsAgree(b) /\ MaturityAgrees(b)
      BY Summaries
    <3>2. /\ stock'[b].installs = stock[b].installs /\ stock'[b].maturity = stock[b].maturity
          /\ installed' = installed /\ promotion' = promotion /\ reviewed' = reviewed
      BY <1>1, <1>7
    <3> QED BY <3>1, <3>2 DEF InstallsAgree, MaturityAgrees
  <2>2. ASSUME NEW y \in Releases PROVE DownloadsAgree(y)'
    <3>1. release'[x].downloads = release[x].downloads
      BY <1>6
    <3> HIDE DEF x
    <3>2. release'[y].downloads = release[y].downloads
      BY <1>6, <3>1
    <3> QED BY <1>1, <3>2, Summaries DEF DownloadsAgree
  <2>3. ASSUME NEW b \in Assets PROVE LatestAgrees(b)'
    <3>1. CASE b = a
      <4>1. stock'[a].latest = l /\ l # NULL /\ release'[<<a, l>>].latest
        BY <1>6, <1>7, HubTypes
      <4> QED BY <3>1, <4>1 DEF LatestAgrees
    <3>2. CASE b # a
      <4>1. stock'[b] = stock[b] /\ LatestAgrees(b)
        BY <1>7, <3>2, Summaries
      <4>2. ReleasesOf(b)' = ReleasesOf(b)
        BY <1>12, <3>2
      <4>3. stock[b].latest # NULL =>
               /\ <<b, stock[b].latest>> \in Releases
               /\ release'[<<b, stock[b].latest>>] = release[<<b, stock[b].latest>>]
        BY <1>12, <3>2, HubTypes DEF Releases
      <4> QED BY <4>1, <4>2, <4>3 DEF LatestAgrees
    <3> QED BY <3>1, <3>2
  <2> QED BY <2>1, <2>2, <2>3, SummariesFollow
<1>14. OneLatestUnlessRaced'
  <2> SUFFICES ASSUME NEW b \in Assets, b \notin raced' PROVE ~(Cardinality(Flagged(b)') > 1)
    BY DEF OneLatestUnlessRaced, Flagged
  <2>1. CASE b = a
    <3>1. ReleasesOf(a) \subseteq c.seen
      BY <1>1, <1>3, <2>1 DEF Overlaps, c
    <3>2. ASSUME NEW y \in Flagged(a)' PROVE y = x
      <4>1. y \in Releases /\ y[1] = a /\ release'[y].exists /\ release'[y].latest
        BY DEF Flagged, ReleasesOf
      <4>2. y \in Releases \ {x} => y \in c.seen
        BY <1>6, <3>1, <4>1 DEF ReleasesOf
      <4> QED BY <1>6, <4>1, <4>2
    <3>3. Flagged(a)' \in {{}, {x}}
      BY <3>2
    <3>4. Cardinality({}) = 0 /\ Cardinality({x}) = 1
      BY FS_Singleton, FS_EmptySet
    <3>5. Cardinality(Flagged(a)') \in {0, 1}
      BY <3>3, <3>4
    <3> QED BY <2>1, <3>5
  <2>2. CASE b # a
    <3>1. b \notin raced
      BY <1>1, <1>3, <2>2
    <3> QED BY <1>12, <2>2, <3>1 DEF HubInv, OneLatestUnlessRaced, Flagged
  <2> QED BY <2>1, <2>2
<1>15. MatchedIsLinked'
  BY <1>1 DEF HubInv, MatchedIsLinked
<1> QED BY <1>8, <1>10, <1>11, <1>13, <1>14, <1>15 DEF HubInv

LEMMA AppendCounts ==
    ASSUME NEW T, NEW s \in Seq(T), NEW e \in T, NEW S
    PROVE  /\ Append(s, e) \in Seq(T)
           /\ Cardinality({i \in DOMAIN Append(s, e) : Append(s, e)[i] \in S}) =
                 Cardinality({i \in DOMAIN s : s[i] \in S}) + IF e \in S THEN 1 ELSE 0
<1> DEFINE n == Len(s)
           A == {i \in DOMAIN s : s[i] \in S}
           B == {i \in DOMAIN Append(s, e) : Append(s, e)[i] \in S}
<1>1. /\ n \in Nat /\ DOMAIN s = 1 .. n /\ DOMAIN Append(s, e) = 1 .. n + 1
      /\ Append(s, e) \in Seq(T) /\ Append(s, e)[n + 1] = e
      /\ \A i \in 1 .. n : Append(s, e)[i] = s[i]
  BY LenProperties, AppendProperties
<1>2. IsFiniteSet(A) /\ n + 1 \notin A
  <2>1. IsFiniteSet(1 .. n) /\ A \subseteq 1 .. n
    BY <1>1, FS_Interval
  <2> QED BY <1>1, <2>1, FS_Subset
<1>3. B = IF e \in S THEN A \cup {n + 1} ELSE A
  BY <1>1
<1> HIDE DEF A, B, n
<1>4. Cardinality(A \cup {n + 1}) = Cardinality(A) + 1 /\ Cardinality(A) \in Nat
  BY <1>2, FS_AddElement, FS_CardinalityType
<1>5. Cardinality(B) = Cardinality(A) + IF e \in S THEN 1 ELSE 0
  BY <1>3, <1>4
<1> QED BY <1>1, <1>5 DEF A, B

LEMMA InstallKeeps ==
    ASSUME HubInv, NEW u \in Users, CommitInstall(u)
    PROVE  HubInv'
<1> DEFINE c == call[u]
           e == [asset |-> c.asset, release |-> c.release]
           T == [asset: Assets, release: Releases \cup {NULL}]
<1>1. /\ call' = [call EXCEPT ![u] = NoCall] /\ c.todo = <<>> /\ c.op \in {"install", "download"}
      /\ installed' = Append(installed, e)
      /\ stock' = [stock EXCEPT ![c.asset].installs = c.value]
      /\ release' = IF c.op = "install" THEN release
                    ELSE [release EXCEPT ![c.release].downloads = @ + 1]
      /\ UNCHANGED <<promotion, wish, link, raced, reviewed, edited>>
  BY DEF CommitInstall, Commit, history
<1>2. /\ c.asset \in Assets /\ HasCounted(c)
      /\ \/ c.op = "install" /\ c.release = NULL
         \/ c.op = "download" /\ c.release \in Releases /\ release[c.release].exists
  BY <1>1, AtCommit DEF Installing, Downloading
<1>3. /\ release \in [Releases -> [exists: BOOLEAN, latest: BOOLEAN, downloads: Nat]]
      /\ installed \in Seq(T) /\ NULL \notin Releases
  BY HubTypes
<1>4. e \in T
  BY <1>2
<1> DEFINE a == c.asset
           x == c.release
           n == c.value
<1>15. /\ a \in Assets /\ n = stock[a].installs + 1 /\ a \in call[u].held
       /\ stock' = [stock EXCEPT ![a].installs = n]
       /\ \/ c.op = "install" /\ x = NULL /\ release' = release
          \/ x \in Releases /\ release[x].exists
             /\ release' = [release EXCEPT ![x].downloads = release[x].downloads + 1]
  BY <1>1, <1>2 DEF HasCounted
<1>16. e.asset = a /\ e.release = x
  OBVIOUS
<1> HIDE DEF a, x, n, c, e, T
<1>5. /\ stock' \in [Assets -> [maturity: Maturities \cup {"idea"}, installs: Nat,
                                latest: Labels \cup {NULL}]]
      /\ \A b \in Assets :
            /\ stock'[b].latest = stock[b].latest /\ stock'[b].maturity = stock[b].maturity
            /\ stock'[b].installs = stock[b].installs + IF b = a THEN 1 ELSE 0
  <2>1. stock[a].installs \in Nat /\ n \in Nat
    BY <1>15, HubTypes
  <2>2. stock[a] \in [maturity: Maturities \cup {"idea"}, installs: Nat, latest: Labels \cup {NULL}]
    BY <1>15, HubTypes
  <2> DEFINE r == [stock[a] EXCEPT !.installs = n]
  <2>3. /\ r \in [maturity: Maturities \cup {"idea"}, installs: Nat, latest: Labels \cup {NULL}]
        /\ r.installs = n /\ r.maturity = stock[a].maturity /\ r.latest = stock[a].latest
    BY <2>1, <2>2
  <2> HIDE DEF r
  <2>4. stock' = [stock EXCEPT ![a] = r]
    BY <1>15 DEF r
  <2>5. stock'[a] = r /\ \A b \in Assets \ {a} : stock'[b] = stock[b]
    BY <1>15, <2>4, HubTypes
  <2>6. \A b \in Assets : stock[b].installs \in Nat
    BY HubTypes
  <2>7. stock' \in [Assets -> [maturity: Maturities \cup {"idea"}, installs: Nat,
                              latest: Labels \cup {NULL}]]
    BY <2>3, <2>4, HubTypes
  <2> QED BY <1>15, <2>3, <2>5, <2>6, <2>7
<1>6. /\ release' \in [Releases -> [exists: BOOLEAN, latest: BOOLEAN, downloads: Nat]]
      /\ \A y \in Releases :
            /\ release'[y].exists = release[y].exists /\ release'[y].latest = release[y].latest
            /\ release'[y].downloads = release[y].downloads + IF y = x THEN 1 ELSE 0
            /\ ~release[y].exists => release'[y] = release[y]
  <2>1. CASE x = NULL /\ release' = release
    BY <1>3, <2>1
  <2>2. CASE x \in Releases /\ release[x].exists
             /\ release' = [release EXCEPT ![x].downloads = release[x].downloads + 1]
    BY <1>3, <2>2
  <2> QED BY <1>15, <2>1, <2>2
<1>7. HubCalls' /\ \A v \in Users : call'[v].op \in DOMAIN Program \cup {"none"}
  <2>1. \A b \in Assets : stock'[b].installs = stock[b].installs \/ b \in call[u].held
    <3>1. \A b \in Assets : stock[b].installs \in Nat
      BY HubTypes
    <3> QED BY <1>5, <1>15, <3>1
  <2>2. \A y \in Releases : release'[y].exists = release[y].exists
    BY <1>6
  <2>3. (\A p \in Promotions : promotion'[p] = promotion[p]) /\ link' = link
    BY <1>1
  <2> QED BY <1>1, <2>1, <2>2, <2>3, OthersFit
<1>8. /\ installed' \in Seq(T)
      /\ \A b \in Assets : InstallsAgree(b)'
      /\ \A y \in Releases : DownloadsAgree(y)'
  <2>1. installed' \in Seq(T)
    BY <1>1, <1>3, <1>4, AppendProperties
  <2>4. ASSUME NEW S
        PROVE  Cardinality({i \in DOMAIN installed' : installed'[i] \in S}) =
                  Cardinality({i \in DOMAIN installed : installed[i] \in S}) + IF e \in S THEN 1 ELSE 0
    <3>1. installed' = Append(installed, e)
      BY <1>1
    <3>2. Cardinality({i \in DOMAIN Append(installed, e) : Append(installed, e)[i] \in S}) =
            Cardinality({i \in DOMAIN installed : installed[i] \in S}) + IF e \in S THEN 1 ELSE 0
      BY <1>3, <1>4, AppendCounts
    <3> QED BY <3>1, <3>2, Zenon
  <2>2. ASSUME NEW b \in Assets PROVE InstallsAgree(b)'
    <3> DEFINE S == {y \in T : y.asset = b}
    <3>1. /\ {i \in DOMAIN installed : installed[i] \in S} =
                {i \in DOMAIN installed : installed[i].asset = b}
          /\ {i \in DOMAIN installed' : installed'[i] \in S} =
                {i \in DOMAIN installed' : installed'[i].asset = b}
      <4>1. \A i \in DOMAIN installed : installed[i] \in T
        BY <1>3, ElementOfSeq, LenProperties
      <4>2. \A i \in DOMAIN installed' : installed'[i] \in T
        BY <2>1, ElementOfSeq, LenProperties
      <4> QED BY <4>1, <4>2
    <3>2. e \in S <=> b = a
      BY <1>4, <1>16
    <3> HIDE DEF S
    <3>3. Cardinality({i \in DOMAIN installed' : installed'[i] \in S}) =
             Cardinality({i \in DOMAIN installed : installed[i] \in S}) + IF e \in S THEN 1 ELSE 0
      BY <2>4
    <3>4. InstallsAgree(b)
      BY Summaries
    <3> QED BY <1>5, <3>1, <3>2, <3>3, <3>4 DEF InstallsAgree
  <2>3. ASSUME NEW y \in Releases PROVE DownloadsAgree(y)'
    <3> DEFINE S == {z \in T : z.release = y}
    <3>1. /\ {i \in DOMAIN installed : installed[i] \in S} =
                {i \in DOMAIN installed : installed[i].release = y}
          /\ {i \in DOMAIN installed' : installed'[i] \in S} =
                {i \in DOMAIN installed' : installed'[i].release = y}
      <4>1. \A i \in DOMAIN installed : installed[i] \in T
        BY <1>3, ElementOfSeq, LenProperties
      <4>2. \A i \in DOMAIN installed' : installed'[i] \in T
        BY <2>1, ElementOfSeq, LenProperties
      <4> QED BY <4>1, <4>2
    <3>2. e \in S <=> y = x
      BY <1>4, <1>16
    <3> HIDE DEF S
    <3>3. Cardinality({i \in DOMAIN installed' : installed'[i] \in S}) =
             Cardinality({i \in DOMAIN installed : installed[i] \in S}) + IF e \in S THEN 1 ELSE 0
      BY <2>4
    <3>4. DownloadsAgree(y)
      BY Summaries
    <3>5. release'[y].downloads = release[y].downloads + IF y = x THEN 1 ELSE 0
      BY <1>6
    <3> QED BY <3>1, <3>2, <3>3, <3>4, <3>5 DEF DownloadsAgree
  <2> QED BY <2>1, <2>2, <2>3
<1>9. HubTypeOK'
  BY <1>1, <1>5, <1>6, <1>7, <1>8 DEF HubInv, HubTypeOK, T
<1>10. RowsFit'
  BY <1>1, <1>6 DEF HubInv, RowsFit
<1>11. \A b \in Assets : ReleasesOf(b)' = ReleasesOf(b) /\ Flagged(b)' = Flagged(b)
  BY <1>6 DEF ReleasesOf, Flagged
<1>12. SummariesAgree'
  <2>1. ASSUME NEW b \in Assets PROVE LatestAgrees(b)'
    <3>1. stock[b].latest # NULL => <<b, stock[b].latest>> \in Releases
      BY HubTypes DEF Releases
    <3>2. stock'[b].latest = stock[b].latest /\ ReleasesOf(b)' = ReleasesOf(b)
      BY <1>5, <1>11
    <3>3. stock[b].latest # NULL =>
             release'[<<b, stock[b].latest>>].latest = release[<<b, stock[b].latest>>].latest
      BY <1>6, <3>1
    <3>4. LatestAgrees(b)
      BY Summaries
    <3> QED BY <3>2, <3>3, <3>4 DEF LatestAgrees
  <2>2. ASSUME NEW b \in Assets PROVE MaturityAgrees(b)'
    BY <1>1, <1>5, Summaries DEF MaturityAgrees
  <2> QED BY <1>8, <2>1, <2>2, SummariesFollow
<1>13. OneLatestUnlessRaced'
  BY <1>1, <1>11 DEF HubInv, OneLatestUnlessRaced, Flagged
<1>14. MatchedIsLinked'
  BY <1>1 DEF HubInv, MatchedIsLinked
<1> QED BY <1>7, <1>9, <1>10, <1>12, <1>13, <1>14 DEF HubInv

(* Steps that leave versions, events and their counts alone. *)
LEMMA CountsStay ==
    ASSUME HubInv, UNCHANGED <<release, installed, raced>>,
           \A a \in Assets : stock'[a].installs = stock[a].installs /\ stock'[a].latest = stock[a].latest
    PROVE  /\ \A a \in Assets : InstallsAgree(a)' /\ LatestAgrees(a)'
           /\ \A x \in Releases : DownloadsAgree(x)'
           /\ OneLatestUnlessRaced'
<1>1. \A a \in Assets : ReleasesOf(a)' = ReleasesOf(a)
  BY DEF ReleasesOf
<1>2. ASSUME NEW a \in Assets PROVE InstallsAgree(a)' /\ LatestAgrees(a)'
  BY <1>1, Summaries DEF InstallsAgree, LatestAgrees
<1>3. ASSUME NEW x \in Releases PROVE DownloadsAgree(x)'
  BY Summaries DEF DownloadsAgree
<1>4. OneLatestUnlessRaced'
  BY <1>1 DEF HubInv, OneLatestUnlessRaced
<1> QED BY <1>2, <1>3, <1>4

LEMMA ReviewKeeps ==
    ASSUME HubInv, NEW u \in Users, CommitReview(u)
    PROVE  HubInv'
<1> DEFINE c == call[u]
           PromotionType == [asset: Assets \cup {NULL}, to: Maturities \cup {NULL},
                             status: {"none", "pending", "approve", "reject"}]
<1>1. PICK p : p = c.promotion
  OBVIOUS
<1>2. /\ call' = [call EXCEPT ![u] = NoCall] /\ c.todo = <<>> /\ c.op \in {"approve", "reject"}
      /\ promotion' = [promotion EXCEPT ![p].status = c.op]
      /\ stock' = IF c.op = "approve" THEN [stock EXCEPT ![c.asset].maturity = promotion[p].to]
                  ELSE stock
      /\ reviewed' = IF promotion[p].status = "pending" THEN reviewed ELSE reviewed \cup {p}
      /\ UNCHANGED <<release, installed, wish, link, raced, edited>>
  BY <1>1 DEF CommitReview, Commit
<1>3. p \in Promotions /\ promotion[p].status # "none" /\ c.asset = promotion[p].asset
  BY <1>1, <1>2, AtCommit DEF Reviewing
<1>4. promotion \in [Promotions -> PromotionType]
  BY DEF HubInv, HubTypeOK
<1>5. promotion[p].asset \in Assets /\ promotion[p].to \in Maturities
  BY <1>3 DEF HubInv, RowsFit, NoPromotion
<1>6. PICK a \in Assets, m \in Maturities, op \in {"approve", "reject"} :
         a = c.asset /\ promotion[p].asset = a /\ promotion[p].to = m /\ op = c.op
  BY <1>2, <1>3, <1>5
<1> HIDE DEF c
<1>7. /\ promotion' \in [Promotions -> PromotionType]
      /\ promotion'[p].asset = a /\ promotion'[p].to = m /\ promotion'[p].status = op
      /\ \A q \in Promotions \ {p} : promotion'[q] = promotion[q]
  BY <1>2, <1>3, <1>4, <1>6
<1>8. /\ stock' \in [Assets -> [maturity: Maturities \cup {"idea"}, installs: Nat,
                                latest: Labels \cup {NULL}]]
      /\ \A b \in Assets :
            /\ stock'[b].installs = stock[b].installs /\ stock'[b].latest = stock[b].latest
            /\ stock'[b].maturity = IF b = a /\ op = "approve" THEN m ELSE stock[b].maturity
  <2>1. CASE op = "approve"
    <3>1. stock' = [stock EXCEPT ![a].maturity = m]
      BY <1>2, <1>6, <2>1
    <3>2. stock \in [Assets -> StockType]
      BY HubTypes DEF StockType
    <3>3. m \in Maturities \cup {"idea"}
      BY <1>6
    <3>4. /\ stock' \in [Assets -> StockType] /\ stock'[a].maturity = m
          /\ stock'[a].installs = stock[a].installs /\ stock'[a].latest = stock[a].latest
          /\ \A b \in Assets \ {a} : stock'[b] = stock[b]
      <4> DEFINE r == [stock[a] EXCEPT !.maturity = m]
      <4>1. /\ r \in StockType /\ r.maturity = m /\ r.installs = stock[a].installs
            /\ r.latest = stock[a].latest
        BY <3>2, <3>3 DEF StockType
      <4>2. stock' = [stock EXCEPT ![a] = r]
        BY <3>1
      <4> HIDE DEF r
      <4> QED BY <3>2, <4>1, <4>2
    <3> QED BY <2>1, <3>4 DEF StockType
  <2>2. CASE op = "reject"
    BY <1>2, <1>6, <2>2, HubTypes
  <2> QED BY <2>1, <2>2
<1>9. HubCalls' /\ \A v \in Users : call'[v].op \in DOMAIN Program \cup {"none"}
  <2>1. \A q \in Promotions : promotion[q].status # "none" =>
           promotion'[q].status # "none" /\ promotion'[q].asset = promotion[q].asset
    BY <1>6, <1>7
  <2>2. link' = link /\ release' = release
    BY <1>2
  <2> QED BY <1>2, <1>8, <2>1, <2>2, OthersFit
<1>10. reviewed \subseteq reviewed' /\ reviewed' \subseteq Promotions
       /\ (promotion[p].status # "pending" => p \in reviewed')
  BY <1>2, <1>3 DEF HubInv, HubTypeOK
<1>11. HubTypeOK'
  BY <1>2, <1>7, <1>8, <1>9, <1>10 DEF HubInv, HubTypeOK
<1>12. RowsFit'
  <2>1. \A q \in Promotions :
           promotion'[q] = NoPromotion
             \/ (promotion'[q].status # "none" /\ promotion'[q].asset \in Assets
                   /\ promotion'[q].to \in Maturities)
    BY <1>7 DEF HubInv, RowsFit
  <2> QED BY <1>2, <2>1 DEF HubInv, RowsFit
<1>13. SummariesAgree' /\ OneLatestUnlessRaced'
  <2>1. ASSUME NEW b \in Assets PROVE MaturityAgrees(b)'
    <3>1. CASE b = a /\ op = "approve"
      BY <1>3, <1>7, <1>8, <3>1 DEF MaturityAgrees
    <3>2. CASE ~(b = a /\ op = "approve") /\ stock[b].maturity # "idea"
      <4>1. stock'[b].maturity = stock[b].maturity
        BY <1>8, <3>2
      <4>2. PICK q \in Promotions :
               /\ promotion[q].asset = b /\ promotion[q].to = stock[b].maturity
               /\ promotion[q].status = "approve" \/ q \in reviewed
        BY <3>2, Summaries DEF MaturityAgrees
      <4>3. /\ promotion'[q].asset = b /\ promotion'[q].to = stock[b].maturity
            /\ promotion'[q].status = "approve" \/ q \in reviewed'
        BY <1>6, <1>7, <1>10, <4>2
      <4> QED BY <4>1, <4>3 DEF MaturityAgrees
    <3>3. CASE ~(b = a /\ op = "approve") /\ stock[b].maturity = "idea"
      BY <1>8, <3>3 DEF MaturityAgrees
    <3> QED BY <3>1, <3>2, <3>3
  <2> QED BY <1>2, <1>8, <2>1, CountsStay, SummariesFollow
<1>14. MatchedIsLinked'
  BY <1>2 DEF HubInv, MatchedIsLinked
<1> QED BY <1>9, <1>11, <1>12, <1>13, <1>14 DEF HubInv

(* Steps that change nothing but wishes and their links. *)
LEMMA WishStep ==
    ASSUME HubInv, HubCalls', UNCHANGED <<stock, release, installed, promotion, raced, reviewed>>,
           wish' \in [Wishes -> [status: {"open", "claimed", "matched"}, asset: Assets \cup {NULL}]],
           link' \subseteq Assets \X Wishes, edited' \subseteq Wishes, MatchedIsLinked'
    PROVE  HubInv'
<1>1. \A v \in Users : call'[v].op \in DOMAIN Program \cup {"none"}
  BY DEF HubCalls, CallType, Ops
<1>2. HubTypeOK'
  BY <1>1 DEF HubInv, HubTypeOK
<1>3. RowsFit'
  BY DEF HubInv, RowsFit
<1>4. ASSUME NEW a \in Assets PROVE MaturityAgrees(a)'
  BY Summaries DEF MaturityAgrees
<1>5. SummariesAgree' /\ OneLatestUnlessRaced'
  BY <1>4, CountsStay, SummariesFollow
<1> QED BY <1>2, <1>3, <1>5 DEF HubInv

LEMMA MatchKeeps ==
    ASSUME HubInv, NEW u \in Users, CommitMatch(u)
    PROVE  HubInv'
<1> DEFINE c == call[u]
<1>1. /\ call' = [call EXCEPT ![u] = NoCall] /\ c.todo = <<>> /\ c.op = "match"
      /\ wish' = [wish EXCEPT ![c.wish] = [status |-> "matched", asset |-> c.asset]]
      /\ link' = link \cup ({<<c.asset, c.wish>>} \cap c.held)
      /\ edited' = edited \ {c.wish}
      /\ UNCHANGED <<stock, release, installed, promotion, raced, reviewed>>
  BY DEF CommitMatch, Commit
<1>2. /\ c.asset \in Assets /\ c.wish \in Wishes
      /\ <<c.asset, c.wish>> \in link \cup c.held
  BY <1>1, AtCommit DEF Matching
<1>3. HubCalls'
  <2>1. link \subseteq link'
    BY <1>1
  <2> QED BY <1>1, <2>1, OthersFit
<1> HIDE DEF c
<1>4. /\ wish' \in [Wishes -> [status: {"open", "claimed", "matched"}, asset: Assets \cup {NULL}]]
      /\ wish'[c.wish] = [status |-> "matched", asset |-> c.asset]
      /\ \A w \in Wishes \ {c.wish} : wish'[w] = wish[w]
  BY <1>1, <1>2 DEF HubInv, HubTypeOK
<1>5. link' \subseteq Assets \X Wishes /\ link \subseteq link' /\ <<c.asset, c.wish>> \in link'
  BY <1>1, <1>2, HubTypes
<1>6. MatchedIsLinked'
  <2> SUFFICES ASSUME NEW w \in Wishes \ edited'
               PROVE  /\ wish'[w].asset # NULL => <<wish'[w].asset, w>> \in link'
                      /\ wish'[w].status = "matched" => wish'[w].asset # NULL
    BY DEF MatchedIsLinked
  <2>1. CASE w = c.wish
    <3>1. wish'[w].asset = c.asset /\ c.asset # NULL
      BY <1>2, <1>4, <2>1, HubTypes
    <3> QED BY <1>5, <2>1, <3>1
  <2>2. CASE w # c.wish
    BY <1>1, <1>4, <1>5, <2>2 DEF HubInv, MatchedIsLinked
  <2> QED BY <2>1, <2>2
<1>7. edited' \subseteq Wishes
  BY <1>1 DEF HubInv, HubTypeOK
<1> QED BY <1>1, <1>3, <1>4, <1>5, <1>6, <1>7, WishStep

LEMMA UnmatchKeeps ==
    ASSUME HubInv, NEW u \in Users, CommitUnmatch(u)
    PROVE  HubInv'
<1> DEFINE c == call[u]
<1>1. /\ call' = [call EXCEPT ![u] = NoCall] /\ c.todo = <<>> /\ c.op = "unmatch"
      /\ wish' = [wish EXCEPT ![c.wish] = [status |-> "open", asset |-> NULL]]
      /\ link' = link \ c.held /\ edited' = edited \ {c.wish}
      /\ UNCHANGED <<stock, release, installed, promotion, raced, reviewed>>
  BY DEF CommitUnmatch, Commit
<1>2. /\ c.wish \in Wishes /\ c.wish \in c.held
      /\ c.held \subseteq {c.wish, <<c.asset, c.wish>>}
  BY <1>1, AtCommit DEF Unmatching
<1>3. \A x \in link : x \in link' \/ x[2] = c.wish
  <2>1. c.wish \notin link
    BY <1>2, HubTypes, HubRowsAssumption
  <2> QED BY <1>1, <1>2, <2>1
<1>4. HubCalls'
  BY <1>1, <1>2, <1>3, OthersFit
<1> HIDE DEF c
<1>5. /\ wish' \in [Wishes -> [status: {"open", "claimed", "matched"}, asset: Assets \cup {NULL}]]
      /\ wish'[c.wish] = [status |-> "open", asset |-> NULL]
      /\ \A w \in Wishes \ {c.wish} : wish'[w] = wish[w]
  BY <1>1, <1>2 DEF HubInv, HubTypeOK
<1>6. MatchedIsLinked'
  <2> SUFFICES ASSUME NEW w \in Wishes \ edited'
               PROVE  /\ wish'[w].asset # NULL => <<wish'[w].asset, w>> \in link'
                      /\ wish'[w].status = "matched" => wish'[w].asset # NULL
    BY DEF MatchedIsLinked
  <2>1. CASE w = c.wish
    BY <1>5, <2>1
  <2>2. CASE w # c.wish
    <3>1. w \in Wishes \ edited /\ wish'[w] = wish[w]
      BY <1>1, <1>5, <2>2
    <3>2. \A x : <<x, w>> \in link => <<x, w>> \in link'
      BY <1>3, <2>2
    <3> QED BY <3>1, <3>2 DEF HubInv, MatchedIsLinked
  <2> QED BY <2>1, <2>2
<1>7. link' \subseteq Assets \X Wishes /\ edited' \subseteq Wishes
  BY <1>1, HubTypes DEF HubInv, HubTypeOK
<1> QED BY <1>1, <1>4, <1>5, <1>6, <1>7, WishStep

(* Calls of a single statement. *)
LEMMA SinglesFit ==
    ASSUME HubInv, call' = call, UNCHANGED <<stock, release, link>>,
           \A p \in Promotions : promotion[p].status # "none" => promotion'[p] = promotion[p]
    PROVE  HubCalls'
<1>1. ASSUME NEW v \in Users PROVE Fits(call[v])'
  <2>1. call[v].held \cap {} = {} /\ call'[v] = call[v]
    OBVIOUS
  <2>2. /\ \A x \in Releases : release[x].exists => release'[x].exists
        /\ \A x \in Releases : release'[x].exists => release[x].exists \/ x \in {}
        /\ \A a \in Assets : stock'[a].installs = stock[a].installs \/ a \in {}
        /\ \A p \in Promotions : promotion[p].status # "none" =>
              promotion'[p].status # "none" /\ promotion'[p].asset = promotion[p].asset
        /\ \A x \in link : x \in link' \/ x[2] \in {}
    OBVIOUS
  <2> DEFINE none == {}
  <2> HIDE DEF none
  <2> QED BY <2>1, <2>2, StillFits
<1> QED BY <1>1, HubTypes DEF HubCalls, Locked

LEMMA RequestKeeps ==
    ASSUME HubInv, NEW a \in Assets, NEW m \in Maturities, RequestPromotion(a, m)
    PROVE  HubInv'
<1> DEFINE new == [asset |-> a, to |-> m, status |-> "pending"]
<1>1. PICK p \in Promotions : promotion[p] = NoPromotion /\ promotion' = [promotion EXCEPT ![p] = new]
  BY DEF RequestPromotion
<1>2. UNCHANGED <<stock, release, installed, wish, link, call, raced, reviewed, edited>>
  BY DEF RequestPromotion, Single, history
<1>3. /\ promotion' \in [Promotions -> [asset: Assets \cup {NULL}, to: Maturities \cup {NULL},
                                        status: {"none", "pending", "approve", "reject"}]]
      /\ promotion'[p] = new /\ \A q \in Promotions \ {p} : promotion'[q] = promotion[q]
  BY <1>1 DEF HubInv, HubTypeOK
<1>4. promotion[p].status = "none" /\ promotion[p].asset = NULL
  BY <1>1 DEF NoPromotion
<1>5. HubCalls'
  BY <1>2, <1>3, <1>4, SinglesFit
<1>6. HubTypeOK'
  BY <1>2, <1>3 DEF HubInv, HubTypeOK
<1>7. RowsFit'
  BY <1>2, <1>3 DEF HubInv, RowsFit
<1>8. ASSUME NEW b \in Assets PROVE MaturityAgrees(b)'
  <2>1. CASE stock[b].maturity = "idea"
    BY <1>2, <2>1 DEF MaturityAgrees
  <2>2. CASE stock[b].maturity # "idea"
    <3>1. PICK q \in Promotions :
             /\ promotion[q].asset = b /\ promotion[q].to = stock[b].maturity
             /\ promotion[q].status = "approve" \/ q \in reviewed
      BY <2>2, Summaries DEF MaturityAgrees
    <3>2. q # p
      BY <1>4, <3>1, HubTypes
    <3>3. promotion'[q] = promotion[q]
      BY <1>3, <3>2
    <3> QED BY <1>2, <3>1, <3>3 DEF MaturityAgrees
  <2> QED BY <2>1, <2>2
<1>9. SummariesAgree' /\ OneLatestUnlessRaced'
  BY <1>2, <1>8, CountsStay, SummariesFollow
<1>10. MatchedIsLinked'
  BY <1>2 DEF HubInv, MatchedIsLinked
<1> QED BY <1>5, <1>6, <1>7, <1>9, <1>10 DEF HubInv

LEMMA WishesKeep ==
    ASSUME HubInv, NEW w \in Wishes, ReopenWish(w) \/ ClaimWish(w) \/ UpdateWish(w)
    PROVE  HubInv'
<1> DEFINE WishType == [status: {"open", "claimed", "matched"}, asset: Assets \cup {NULL}]
<1>1. wish \in [Wishes -> WishType] /\ edited \subseteq Wishes
  BY DEF HubInv, HubTypeOK
<1>2. UNCHANGED <<stock, release, installed, promotion, link, call, raced, reviewed>>
  BY DEF ReopenWish, ClaimWish, UpdateWish, SetWishStatus, Single, history
<1>3. HubCalls'
  BY <1>2, SinglesFit
<1>4. /\ wish' \in [Wishes -> WishType] /\ edited' \subseteq Wishes
      /\ \A v \in Wishes \ {w} : wish'[v] = wish[v]
      /\ \/ w \in edited' /\ edited \subseteq edited'
         \/ /\ edited' = edited /\ wish'[w].asset = wish[w].asset /\ wish'[w].status # "matched"
  <2>1. CASE ReopenWish(w)
    BY <1>1, <2>1 DEF ReopenWish, SetWishStatus, history
  <2>2. CASE ClaimWish(w)
    BY <1>1, <2>2 DEF ClaimWish, SetWishStatus, history
  <2>3. CASE UpdateWish(w)
    BY <1>1, <2>3 DEF UpdateWish
  <2> QED BY <2>1, <2>2, <2>3
<1>5. MatchedIsLinked'
  BY <1>2, <1>4 DEF HubInv, MatchedIsLinked
<1> QED BY <1>2, <1>3, <1>4, <1>5, HubTypes, WishStep

-----------------------------------------------------------------------------
(* The row locks, and what each transaction under way relies on: what the  *)
(* theorems below rest on.                                                 *)
THEOREM HubInvariant == HubSpec => []HubInv
<1>1. HubInit => HubInv
  <2> SUFFICES ASSUME HubInit PROVE HubInv
    OBVIOUS
  <2>1. /\ stock = [a \in Assets |-> [maturity |-> "idea", installs |-> 0, latest |-> NULL]]
        /\ release = [x \in Releases |-> NoRelease] /\ installed = <<>>
        /\ promotion = [p \in Promotions |-> NoPromotion]
        /\ wish = [w \in Wishes |-> [status |-> "open", asset |-> NULL]]
        /\ link = {} /\ call = [u \in Users |-> NoCall]
        /\ raced = {} /\ reviewed = {} /\ edited = {}
    BY DEF HubInit
  <2>2. /\ NoRelease \in [exists: BOOLEAN, latest: BOOLEAN, downloads: Nat]
        /\ NoRelease.exists = FALSE /\ NoRelease.downloads = 0
        /\ NoPromotion \in [asset: Assets \cup {NULL}, to: Maturities \cup {NULL},
                            status: {"none", "pending", "approve", "reject"}]
        /\ NoCall.held = {} /\ NoCall.op = "none"
    BY DEF NoRelease, NoPromotion, NoCall
  <2>3. HubTypeOK
    <3>1. stock \in [Assets -> [maturity: Maturities \cup {"idea"}, installs: Nat,
                                latest: Labels \cup {NULL}]]
      BY <2>1
    <3>2. installed \in Seq([asset: Assets, release: Releases \cup {NULL}])
      BY <2>1
    <3> QED BY <2>1, <2>2, <3>1, <3>2 DEF HubTypeOK
  <2>4. RowsFit
    BY <2>1 DEF RowsFit
  <2>5. HubCalls
    BY <2>1, <2>2, NoCallTyped DEF HubCalls, Locked, Fits
  <2>6. SummariesAgree
    <3>1. DOMAIN installed = {}
      BY <2>1
    <3>2. /\ \A a : {i \in DOMAIN installed : installed[i].asset = a} = {}
          /\ \A x : {i \in DOMAIN installed : installed[i].release = x} = {}
      BY <3>1
    <3>3. \A a \in Assets : ReleasesOf(a) = {}
      BY <2>1, <2>2 DEF ReleasesOf
    <3>4. Cardinality({}) = 0
      BY FS_EmptySet
    <3>5. ASSUME NEW a \in Assets
          PROVE  /\ stock[a].installs = 0 /\ stock[a].latest = NULL
                 /\ stock[a].maturity = "idea"
      BY <2>1
    <3>6. ASSUME NEW x \in Releases PROVE release[x].downloads = 0
      BY <2>1, <2>2
    <3>7. \A a : Cardinality({i \in DOMAIN installed : installed[i].asset = a}) = 0
      BY <3>2, <3>4
    <3>8. \A x : Cardinality({i \in DOMAIN installed : installed[i].release = x}) = 0
      BY <3>2, <3>4
    <3> QED BY <3>3, <3>5, <3>6, <3>7, <3>8 DEF SummariesAgree
  <2>7. OneLatestUnlessRaced
    <3>1. \A a \in Assets : {x \in ReleasesOf(a) : release[x].latest} = {}
      BY <2>1, <2>2 DEF ReleasesOf
    <3> QED BY <3>1, FS_EmptySet DEF OneLatestUnlessRaced
  <2>8. MatchedIsLinked
    BY <2>1 DEF MatchedIsLinked
  <2> QED BY <2>3, <2>4, <2>5, <2>6, <2>7, <2>8 DEF HubInv
<1>2. HubInv /\ [HubNext]_hubVars => HubInv'
  <2> SUFFICES ASSUME HubInv, [HubNext]_hubVars PROVE HubInv'
    OBVIOUS
  <2>1. CASE UNCHANGED hubVars
    <3>1. UNCHANGED <<stock, release, installed, promotion, wish, link, call, raced, reviewed, edited>>
      BY <2>1 DEF hubVars, tables, history
    <3>2. MatchedIsLinked'
      BY <3>1 DEF HubInv, MatchedIsLinked
    <3>3. HubCalls'
      BY <3>1, SinglesFit
    <3> QED BY <3>1, <3>2, <3>3, WishStep DEF HubInv, HubTypeOK
  <2>2. ASSUME NEW u \in Users, CallVersions(u) \/ CallReview(u) \/ CallMatch(u) PROVE HubInv'
    BY <2>2, CallsKeep
  <2>3. ASSUME NEW u \in Users, Statement(u) PROVE HubInv'
    BY <2>3, PublishingKeeps, CountingKeeps, ReviewingKeeps, MatchingKeeps DEF Statement
  <2>4. ASSUME NEW u \in Users, Rollback(u) PROVE HubInv'
    BY <2>4, RollbackKeeps
  <2>5. ASSUME NEW u \in Users,
               \/ CommitPublish(u) \/ CommitInstall(u) \/ CommitReview(u)
               \/ CommitMatch(u) \/ CommitUnmatch(u)
        PROVE  HubInv'
    BY <2>5, PublishKeeps, InstallKeeps, ReviewKeeps, MatchKeeps, UnmatchKeeps
  <2>6. ASSUME NEW a \in Assets, NEW m \in Maturities, RequestPromotion(a, m) PROVE HubInv'
    BY <2>6, RequestKeeps
  <2>7. ASSUME NEW w \in Wishes, ReopenWish(w) \/ ClaimWish(w) \/ UpdateWish(w) PROVE HubInv'
    BY <2>7, WishesKeep
  <2> QED BY <2>1, <2>2, <2>3, <2>4, <2>5, <2>6, <2>7 DEF HubNext
<1> QED BY <1>1, <1>2, PTL DEF HubSpec

(* The hub's tables are well formed whatever transactions run at the same  *)
(* time (assets_routes.py): HubTypeOK.                                     *)
THEOREM HubTypeCorrect == HubSpec => []HubTypeOK
<1>1. HubInv => HubTypeOK
  BY DEF HubInv
<1> QED BY <1>1, HubInvariant, PTL

(* install_count, download_count, latest_version and maturity agree with   *)
(* the events, versions and promotions they sum up, for any number of      *)
(* users: record_install, create_version and review_promotion lose no      *)
(* update to each other.                                                   *)
THEOREM SummariesTellTheTruth == HubSpec => []SummariesAgree
<1>1. HubInv => SummariesAgree
  BY DEF HubInv
<1> QED BY <1>1, HubInvariant, PTL

(* Two versions of an asset are flagged as its latest only where two       *)
(* publications (create_version) did not see each other.                   *)
THEOREM OneLatest == HubSpec => []OneLatestUnlessRaced
<1>1. HubInv => OneLatestUnlessRaced
  BY DEF HubInv
<1> QED BY <1>1, HubInvariant, PTL

(* match_wish and unmatch_wish never undo half of each other: a wish that  *)
(* names an asset is linked to it, unless an update wrote it.              *)
THEOREM MatchesAreLinked == HubSpec => []MatchedIsLinked
<1>1. HubInv => MatchedIsLinked
  BY DEF HubInv
<1> QED BY <1>1, HubInvariant, PTL
=============================================================================
