----------------------------- MODULE MatchReview -----------------------------
(***************************************************************************)
(* Match candidates of a master data run, their review and their merge     *)
(* (controller/mdm_manager.py, repositories/mdm_repository.py and the      *)
(* parts of controller/data_asset_reviews_manager.py that they use).       *)
(* Requests run alone on the event loop, a crash or a database error may   *)
(* leave the commits made so far.  The endpoints with which a reviewer     *)
(* would decide on an asset of a review hand the manager a parameter it    *)
(* does not have and change nothing; they are left out.  Record 1 is the   *)
(* match with the highest confidence.                                      *)
(***************************************************************************)
EXTENDS Governance, Sequences

CONSTANTS
    MaxMatches,  \* matches of the run
    MaxAssets,   \* bound on reviewed_assets rows
    Rules,       \* survivorship rules of the configuration
    SyncLimit    \* get_by_run returns so many rows (100)

ASSUME MatchAssumption ==
    /\ MaxMatches \in Nat /\ MaxAssets \in Nat /\ SyncLimit \in Nat
    /\ Rules \cap {"none", "given"} = {}

VARIABLES
    match,     \* mdm_match_candidates: status, merged_record_data, link
    asset,     \* status of the reviewed_assets, in the order of creation
    rules,     \* the rules of the configuration
    unsynced,  \* history: decisions that did not reach the linked asset
    direct,    \* history: set to merged without a merge
    kept       \* history: computed data that outlived a dry run or a merge

matchVars == <<match, asset, rules, unsynced, direct, kept>>

-----------------------------------------------------------------------------
Matches  == 1 .. MaxMatches
NoMatch  == [status |-> "none", data |-> "none", link |-> 0]
Known    == {m \in Matches : match[m].status # "none"}
In(s)    == {m \in Matches : match[m].status = s}
Decided  == {"approved", "rejected"}

(* The matching job inserts what it found. *)
DetectMatch(m) ==
    /\ match[m] = NoMatch
    /\ match' = [match EXCEPT ![m].status = "pending"]
    /\ UNCHANGED <<asset, rules, unsynced, direct, kept>>

(* repo.update_status, with the data the user may give. *)
Decide(m, s, given) ==
    /\ m \in Known
    /\ match' = [match EXCEPT ![m].status = s, ![m].data = IF given THEN "given" ELSE @]
    /\ direct' = IF s = "merged" THEN direct \cup {m} ELSE direct \ {m}
    /\ kept' = IF match[m].status = "merged" /\ match[m].data \in Rules THEN kept \cup {m}
               ELSE kept
    /\ UNCHANGED rules

SetAsset(r, s) == asset' = [asset EXCEPT ![r] = s]

(* Mutant: the asset of the review is forgotten. *)
DecideOnly(m, s, given) ==
    /\ Decide(m, s, given)
    /\ UNCHANGED <<asset, unsynced>>

(* update_match_candidate: an error of the second write is only logged.    *)
UpdateMatch(m, s, given) ==
    /\ Decide(m, s, given)
    /\ IF match[m].link # 0 /\ s \in Decided
       THEN \/ SetAsset(match[m].link, s) /\ unsynced' = unsynced \ {m}
            \/ unsynced' = unsynced \cup {m} /\ UNCHANGED asset
       ELSE UNCHANGED <<asset, unsynced>>

(* Mutant: assets are given to matches more than once. *)
AnyPairing(n) == [1 .. n -> 1 .. n]

Pairings(n) ==
    {order \in [1 .. n -> 1 .. n] : \A i, j \in 1 .. n : order[i] = order[j] => i = j}

(* create_review_for_matches: the assets are read back in no given order   *)
(* and paired with the matches; each link is a commit, and the first one   *)
(* commits the assets.                                                     *)
CreateReview ==
    LET pending == In("pending")
        rank(m) == Cardinality({x \in pending : x <= m})
        size    == Cardinality(pending)
    IN  /\ pending # {} /\ Len(asset) + size <= MaxAssets
        /\ \E order \in Pairings(size), links \in 1 .. size :
              match' = [m \in Matches |->
                    IF m \in pending /\ rank(m) <= links
                    THEN [match[m] EXCEPT !.link = Len(asset) + order[rank(m)]]
                    ELSE match[m]]
        /\ asset' = asset \o [i \in 1 .. size |-> "pending"]
        /\ UNCHANGED <<rules, unsynced, direct, kept>>

(* sync_review_asset_statuses reads one page; an error rolls back what it  *)
(* wrote before.                                                           *)
SyncReview(lastError) ==
    LET synced == {m \in Matches : /\ lastError < m /\ m <= SyncLimit
                                   /\ match[m].link # 0 /\ match[m].status \in Decided}
    IN  /\ asset' = [r \in DOMAIN asset |->
                       IF \E m \in synced : match[m].link = r
                       THEN match[CHOOSE m \in synced : match[m].link = r].status
                       ELSE asset[r]]
        /\ unsynced' = unsynced \ synced
        /\ UNCHANGED <<match, rules, direct, kept>>

(* Rules are applied once: what is there is used. *)
MergedData(m) == IF match[m].data = "none" THEN rules ELSE match[m].data

(* process_approved_matches: a dry run writes the data too, since the end  *)
(* of the request commits; matches whose rules fail are left out.          *)
MergeApproved(dryRun) ==
    \E done \in SUBSET In("approved") :
        /\ \A m \in In("approved") \ done : match[m].data = "none"
        /\ match' = [m \in Matches |->
              IF m \in done
              THEN [match[m] EXCEPT !.data = MergedData(m),
                                    !.status = IF dryRun THEN @ ELSE "merged"]
              ELSE match[m]]
        /\ kept' = IF dryRun THEN kept \cup {m \in done : MergedData(m) \in Rules} ELSE kept
        /\ UNCHANGED <<asset, rules, unsynced, direct>>

(* update_config *)
ChangeRules(r) ==
    /\ rules' = r
    /\ UNCHANGED <<match, asset, unsynced, direct, kept>>

-----------------------------------------------------------------------------
MatchInit ==
    /\ match = [m \in Matches |-> NoMatch]
    /\ asset = <<>> /\ rules \in Rules
    /\ unsynced = {} /\ direct = {} /\ kept = {}

MatchNext ==
    \/ \E m \in Matches : DetectMatch(m)
    \/ \E m \in Matches, s \in {"pending", "approved", "rejected", "merged"}, b \in BOOLEAN :
          UpdateMatch(m, s, b)
    \/ CreateReview
    \/ \E e \in 0 .. MaxMatches : SyncReview(e)
    \/ \E b \in BOOLEAN : MergeApproved(b)
    \/ \E r \in Rules : ChangeRules(r)

MatchSpec == MatchInit /\ [][MatchNext]_matchVars

-----------------------------------------------------------------------------
(* The state is well formed: no two matches are linked to one asset.       *)
MatchTypeOK ==
    /\ match \in [Matches -> [status: {"none", "pending", "approved", "rejected", "merged"},
                              data: Rules \cup {"none", "given"}, link: Nat]]
    /\ asset \in Seq(Decided \cup {"pending"})
    /\ \A m \in Matches : match[m].link # 0 => match[m].link \in DOMAIN asset
    /\ \A m, n \in Matches : match[m].link # 0 /\ match[m].link = match[n].link => m = n
    /\ rules \in Rules
    /\ unsynced \subseteq Matches /\ direct \subseteq Matches /\ kept \subseteq Matches

(* The asset that a match is linked to shows the decision on the match,    *)
(* unless that write failed and was not repaired.                          *)
AssetsFollow ==
    \A m \in Matches \ unsynced :
        match[m].link # 0 =>
            /\ match[m].status \in Decided => asset[match[m].link] = match[m].status
            /\ match[m].status = "merged" /\ m \notin direct =>
                  asset[match[m].link] = "approved"

(* What a merge makes of a match follows the rules of that time, or is     *)
(* what the user gave, or what a dry run or an undone merge left behind.   *)
MergesFollow ==
    \A m \in In("approved") :
        match'[m].status = "merged" /\ m \notin direct' =>
            match'[m].data \in {"given", rules} \/ m \in kept

(* A decision on a match reaches its review and is what is merged.         *)
DecisionsCarryThrough == [][AssetsFollow' /\ MergesFollow]_matchVars
=============================================================================
