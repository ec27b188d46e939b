------------------------------ MODULE AssetHub ------------------------------
(***************************************************************************)
(* The hub's endpoints for assets and wishes (routes/assets_routes.py):    *)
(* versions, installs, promotions, and the matching of wishes to assets.   *)
(* They are plain functions that run SQL on the thread pool, so the        *)
(* transactions of two users interleave statement by statement.  Postgres  *)
(* runs them at READ COMMITTED: a statement sees what is committed, waits  *)
(* for a row that an open transaction has written, and keeps its own rows  *)
(* until the commit.  Writes are therefore applied at the commit here; the *)
(* rows that a transaction has written are `held' until then.              *)
(***************************************************************************)
EXTENDS Governance, Sequences

CONSTANTS
    Assets, Wishes, Promotions,
    Labels,      \* version strings
    Maturities,  \* what a promotion may ask for
    MaxCalls     \* bound on the calls that are made

ASSUME HubAssumption == MaxCalls \in Nat /\ NULL \notin Assets \cup Labels \cup (Assets \X Labels)

(* A row of demands is no row of asset_demand_links. *)
ASSUME HubRowsAssumption == Wishes \cap (Assets \X Wishes) = {}

VARIABLES
    stock,      \* assets: maturity, install_count, latest_version
    release,    \* asset_versions
    installed,  \* install_events, in the order of their commits
    promotion,  \* promotion_requests
    wish,       \* demands: status, linked_asset_id
    link,       \* asset_demand_links
    call,       \* the request each user has under way
    calls,      \* how many calls were made
    raced,      \* history: assets with publications that did not see each other
    reviewed,   \* history: promotions that were reviewed more than once
    edited      \* history: wishes that PUT changed since their last match

tables  == <<stock, release, installed, promotion, wish, link>>
history == <<raced, reviewed, edited>>
hubVars == <<tables, call, calls, history>>

-----------------------------------------------------------------------------
Releases     == Assets \X Labels
NoRelease    == [exists |-> FALSE, latest |-> FALSE, downloads |-> 0]
NoPromotion  == [asset |-> NULL, to |-> NULL, status |-> "none"]
ReleasesOf(a) == {x \in Releases : x[1] = a /\ release[x].exists}

(* Mutant: a match stores the link before it writes the wish. *)
ProgramLinkFirst ==
    [publish |-> <<"clear", "insert", "name">>,
     install |-> <<"count">>, download |-> <<"count", "download">>,
     approve |-> <<"mark", "raise">>, reject |-> <<"mark">>,
     match |-> <<"link", "wish">>, unmatch |-> <<"look", "unlink", "wish">>]

(* The statements of each transaction. *)
Program ==
    [publish |-> <<"clear", "insert", "name">>,
     install |-> <<"count">>, download |-> <<"count", "download">>,
     approve |-> <<"mark", "raise">>, reject |-> <<"mark">>,
     match |-> <<"wish", "link">>, unmatch |-> <<"look", "unlink", "wish">>]

(* seen: what the UPDATE that clears is_latest has found; value: the count *)
(* that an UPDATE has computed.                                            *)
NoCall == [op |-> "none", todo |-> <<>>, asset |-> NULL, release |-> NULL, wish |-> NULL,
           promotion |-> NULL, seen |-> {}, held |-> {}, value |-> 0]

Called(op) == [NoCall EXCEPT !.op = op, !.todo = Program[op]]

Accept(u, c) ==
    /\ call[u] = NoCall
    /\ calls < MaxCalls /\ calls' = calls + 1
    /\ call' = [call EXCEPT ![u] = c]
    /\ UNCHANGED <<tables, history>>

(* A version_id that does not exist fails on its foreign key; it need not  *)
(* be a version of the asset.                                              *)
CallVersions(u) ==
    \E a \in Assets :
        \/ \E l \in Labels :
              Accept(u, [Called("publish") EXCEPT !.asset = a, !.release = <<a, l>>])
        \/ Accept(u, [Called("install") EXCEPT !.asset = a])
        \/ \E x \in Releases :
              /\ release[x].exists
              /\ Accept(u, [Called("download") EXCEPT !.asset = a, !.release = x])

CallReview(u) ==
    \E p \in Promotions, op \in {"approve", "reject"} :
        /\ promotion[p] # NoPromotion
        /\ Accept(u, [Called(op) EXCEPT !.asset = promotion[p].asset, !.promotion = p])

CallMatch(u) ==
    \E w \in Wishes :
        \/ \E a \in Assets : Accept(u, [Called("match") EXCEPT !.asset = a, !.wish = w])
        \/ Accept(u, [Called("unmatch") EXCEPT !.wish = w])

-----------------------------------------------------------------------------
(* The statements.                                                         *)

At(u, s)   == call[u].todo # <<>> /\ Head(call[u].todo) = s
Free(u, x) == \A v \in Users \ {u} : x \notin call[v].held

Executed(u, rows) == [call[u] EXCEPT !.todo = Tail(@), !.held = @ \cup rows]

Run(u, c) == call' = [call EXCEPT ![u] = c] /\ UNCHANGED <<tables, calls, history>>

(* An UPDATE of one row. *)
Write(u, s, x) == At(u, s) /\ Free(u, x) /\ Run(u, Executed(u, {x}))

ClearLatest(u) ==
    At(u, "clear") /\ Run(u, [Executed(u, {}) EXCEPT !.seen = ReleasesOf(call[u].asset)])

(* It works on one row after the other, and waits for each. *)
ClearRow(u) ==
    /\ At(u, "insert")
    /\ \E x \in call[u].seen \ call[u].held :
          Free(u, x) /\ Run(u, [call[u] EXCEPT !.held = @ \cup {x}])

(* UNIQUE(asset_id, version) *)
InsertRelease(u) ==
    LET x == call[u].release IN
    /\ At(u, "insert") /\ call[u].seen \subseteq call[u].held /\ Free(u, x)
    /\ Run(u, IF release[x].exists THEN NoCall ELSE Executed(u, {x}))

NameLatest(u)    == Write(u, "name", call[u].asset)
CountDownload(u) == Write(u, "download", call[u].release)
MarkReviewed(u)  == Write(u, "mark", call[u].promotion)
RaiseMaturity(u) == Write(u, "raise", call[u].asset)
WriteWish(u)     == Write(u, "wish", call[u].wish)

Counted(u) == [Executed(u, {call[u].asset}) EXCEPT !.value = stock[call[u].asset].installs + 1]

(* Mutant: the count is read, and written later. *)
CountInstallLater(u) ==
    At(u, "count") /\ Run(u, [Counted(u) EXCEPT !.held = {}])

CountInstall(u) == At(u, "count") /\ Free(u, call[u].asset) /\ Run(u, Counted(u))

(* ON CONFLICT DO NOTHING leaves the row of another alone. *)
InsertLink(u) ==
    LET x == <<call[u].asset, call[u].wish>> IN
    At(u, "link") /\ Free(u, x) /\ Run(u, Executed(u, {x} \ link))

LookUpMatch(u) ==
    At(u, "look") /\ Run(u, [Executed(u, {}) EXCEPT !.asset = wish[call[u].wish].asset])

DeleteLink(u) ==
    LET x == <<call[u].asset, call[u].wish>> IN
    /\ At(u, "unlink") /\ (x \in link => Free(u, x))
    /\ Run(u, Executed(u, {x} \cap link))

(* An error, a crash, or the victim of a deadlock. *)
Rollback(u) == call[u] # NoCall /\ Run(u, NoCall)

-----------------------------------------------------------------------------
(* The commits.                                                            *)

Commit(u, ops) ==
    /\ call[u].op \in ops /\ call[u].todo = <<>>
    /\ call' = [call EXCEPT ![u] = NoCall]
    /\ UNCHANGED calls

(* Mutant: the flag of the earlier versions stays. *)
FlagsKept(u) ==
    [release EXCEPT ![call[u].release] = [NoRelease EXCEPT !.exists = TRUE, !.latest = TRUE]]

Flags(u) ==
    [x \in Releases |->
        IF x = call[u].release THEN [NoRelease EXCEPT !.exists = TRUE, !.latest = TRUE]
        ELSE IF x \in call[u].seen THEN [release[x] EXCEPT !.latest = FALSE] ELSE release[x]]

(* Somebody else publishes and will not see this version, or this one has  *)
(* not seen another.                                                       *)
Overlaps(u) ==
    LET a == call[u].asset IN
    \/ ~(ReleasesOf(a) \subseteq call[u].seen)
    \/ \E v \in Users \ {u} :
          call[v].op = "publish" /\ call[v].asset = a /\ ~At(v, "clear")

CommitPublish(u) ==
    LET a == call[u].asset IN
    /\ Commit(u, {"publish"})
    /\ release' = Flags(u)
    /\ stock' = [stock EXCEPT ![a].latest = call[u].release[2]]
    /\ raced' = IF Overlaps(u) THEN raced \cup {a} ELSE raced \ {a}
    /\ UNCHANGED <<installed, promotion, wish, link, reviewed, edited>>

CommitInstall(u) ==
    LET c == call[u] IN
    /\ Commit(u, {"install", "download"})
    /\ installed' = Append(installed, [asset |-> c.asset, release |-> c.release])
    /\ stock' = [stock EXCEPT ![c.asset].installs = c.value]
    /\ release' = IF c.op = "install" THEN release
                  ELSE [release EXCEPT ![c.release].downloads = @ + 1]
    /\ UNCHANGED <<promotion, wish, link, history>>

CommitReview(u) ==
    LET p == call[u].promotion IN
    /\ Commit(u, {"approve", "reject"})
    /\ promotion' = [promotion EXCEPT ![p].status = call[u].op]
    /\ stock' = IF call[u].op = "approve"
                THEN [stock EXCEPT ![call[u].asset].maturity = promotion[p].to] ELSE stock
    /\ reviewed' = IF promotion[p].status = "pending" THEN reviewed ELSE reviewed \cup {p}
    /\ UNCHANGED <<release, installed, wish, link, raced, edited>>

CommitMatch(u) ==
    LET c == call[u] IN
    /\ Commit(u, {"match"})
    /\ wish' = [wish EXCEPT ![c.wish] = [status |-> "matched", asset |-> c.asset]]
    /\ link' = link \cup ({<<c.asset, c.wish>>} \cap c.held)
    /\ edited' = edited \ {c.wish}
    /\ UNCHANGED <<stock, release, installed, promotion, raced, reviewed>>

CommitUnmatch(u) ==
    LET c == call[u] IN
    /\ Commit(u, {"unmatch"})
    /\ wish' = [wish EXCEPT ![c.wish] = [status |-> "open", asset |-> NULL]]
    /\ link' = link \ c.held
    /\ edited' = edited \ {c.wish}
    /\ UNCHANGED <<stock, release, installed, promotion, raced, reviewed>>

-----------------------------------------------------------------------------
(* Calls of a single statement.                                            *)

Single == calls < MaxCalls /\ calls' = calls + 1 /\ UNCHANGED call

Unlocked(x) == \A u \in Users : x \notin call[u].held

RequestPromotion(a, m) ==
    /\ Single
    /\ \E p \in Promotions :
          /\ promotion[p] = NoPromotion
          /\ promotion' = [promotion EXCEPT ![p] = [asset |-> a, to |-> m, status |-> "pending"]]
    /\ UNCHANGED <<stock, release, installed, wish, link, history>>

SetWishStatus(w, s) ==
    /\ Single /\ Unlocked(w)
    /\ wish' = [wish EXCEPT ![w].status = s]
    /\ UNCHANGED <<stock, release, installed, promotion, link, history>>

ReopenWish(w) == SetWishStatus(w, "open")
ClaimWish(w)  == SetWishStatus(w, "claimed")

(* PUT: any status, any linked asset. *)
UpdateWish(w) ==
    /\ Single /\ Unlocked(w)
    /\ \E s \in {"open", "claimed", "matched"}, a \in Assets \cup {NULL} :
          wish' = [wish EXCEPT ![w] = [status |-> s, asset |-> a]]
    /\ edited' = edited \cup {w}
    /\ UNCHANGED <<stock, release, installed, promotion, link, raced, reviewed>>

-----------------------------------------------------------------------------
HubInit ==
    /\ stock = [a \in Assets |-> [maturity |-> "idea", installs |-> 0, latest |-> NULL]]
    /\ release = [x \in Releases |-> NoRelease]
    /\ installed = <<>>
    /\ promotion = [p \in Promotions |-> NoPromotion]
    /\ wish = [w \in Wishes |-> [status |-> "open", asset |-> NULL]]
    /\ link = {}
    /\ call = [u \in Users |-> NoCall]
    /\ calls = 0
    /\ raced = {} /\ reviewed = {} /\ edited = {}

Statement(u) ==
    \/ ClearLatest(u) \/ ClearRow(u) \/ InsertRelease(u) \/ NameLatest(u)
    \/ CountInstall(u) \/ CountDownload(u)
    \/ MarkReviewed(u) \/ RaiseMaturity(u)
    \/ WriteWish(u) \/ InsertLink(u) \/ LookUpMatch(u) \/ DeleteLink(u)

HubNext ==
    \/ \E u \in Users :
          \/ CallVersions(u) \/ CallReview(u) \/ CallMatch(u)
          \/ Statement(u) \/ Rollback(u)
          \/ CommitPublish(u) \/ CommitInstall(u) \/ CommitReview(u)
          \/ CommitMatch(u) \/ CommitUnmatch(u)
    \/ \E a \in Assets, m \in Maturities : RequestPromotion(a, m)
    \/ \E w \in Wishes : ReopenWish(w) \/ ClaimWish(w) \/ UpdateWish(w)

HubSpec == HubInit /\ [][HubNext]_hubVars

-----------------------------------------------------------------------------
HubTypeOK ==
    /\ stock \in [Assets -> [maturity: Maturities \cup {"idea"}, installs: Nat,
                             latest: Labels \cup {NULL}]]
    /\ release \in [Releases -> [exists: BOOLEAN, latest: BOOLEAN, downloads: Nat]]
    /\ installed \in Seq([asset: Assets, release: Releases \cup {NULL}])
    /\ promotion \in [Promotions -> [asset: Assets \cup {NULL}, to: Maturities \cup {NULL},
                                     status: {"none", "pending", "approve", "reject"}]]
    /\ wish \in [Wishes -> [status: {"open", "claimed", "matched"}, asset: Assets \cup {NULL}]]
    /\ link \subseteq Assets \X Wishes
    /\ \A u \in Users : call[u].op \in DOMAIN Program \cup {"none"}
    /\ raced \subseteq Assets /\ reviewed \subseteq Promotions /\ edited \subseteq Wishes

(* The columns in which assets and asset_versions sum up other tables      *)
(* agree with them, whatever installs, publications and reviews run at the *)
(* same time: the counts with the install events, the latest version with  *)
(* a version that is flagged as such, and the maturity with a promotion    *)
(* that was approved, or was reviewed again since.                         *)
SummariesAgree ==
    /\ \A a \in Assets :
          /\ stock[a].installs = Cardinality({i \in DOMAIN installed : installed[i].asset = a})
          /\ IF stock[a].latest = NULL THEN ReleasesOf(a) = {}
             ELSE release[<<a, stock[a].latest>>].latest
          /\ stock[a].maturity # "idea" =>
                \E p \in Promotions :
                    /\ promotion[p].asset = a /\ promotion[p].to = stock[a].maturity
                    /\ promotion[p].status = "approve" \/ p \in reviewed
    /\ \A x \in Releases :
          release[x].downloads = Cardinality({i \in DOMAIN installed : installed[i].release = x})

(* Two versions of an asset are flagged as its latest only after two       *)
(* publications that did not see each other, and until the next one that   *)
(* saw both.                                                               *)
OneLatestUnlessRaced ==
    \A a \in Assets :
        Cardinality({x \in ReleasesOf(a) : release[x].latest}) > 1 => a \in raced

(* A wish that is linked to an asset is among the wishes of that asset,    *)
(* and a matched wish is linked, unless PUT wrote the link: the order in   *)
(* which matching and unmatching lock their rows leaves no interleaving in *)
(* which one of them undoes half of the other.                             *)
MatchedIsLinked ==
    \A w \in Wishes \ edited :
        /\ wish[w].asset # NULL => <<wish[w].asset, w>> \in link
        /\ wish[w].status = "matched" => wish[w].asset # NULL
=============================================================================
