------------------------- MODULE AgreementWizardProofs -------------------------
(***************************************************************************)
(* Theorems about AgreementWizard.  A session, an agreement and the        *)
(* request under way each have an invariant; together they are inductive.  *)
(* What a crash leaves behind is what they hold for every prefix of a      *)
(* request: the answers before the current step are recorded, the answer   *)
(* to the current step may be, and an agreement may be there unrecorded.   *)
(***************************************************************************)
EXTENDS AgreementWizard, FiniteSetTheorems, WellFoundedInduction, SequenceTheorems, TLAPS

SessionType ==
    [status: {"in_progress", "completed", "abandoned"}, flow: Flows, seen: Nat, at: Nat,
     results: Results, subscribes: BOOLEAN, by: Users]
AgreementType == [session: Nat, user: Users, version: Nat, results: Results]
RequestType ==
    [at: {"idle", "append", "advance", "agree", "subscribe", "close"},
     of: Nat, by: Users \cup {NULL}, agreed: Nat]

(* The steps that a session has an answer to. *)
Recorded(s) == {session[s].results[i].step : i \in DOMAIN session[s].results}

OnRecord(s) ==
    \E a \in DOMAIN agreement :
        agreement[a].session = s /\ agreement[a].results = session[s].results

Of(n, s) == n \in DOMAIN agreement /\ agreement[n].session = s

SessionInv(s) ==
    /\ session[s].at \in DOMAIN session[s].flow
    /\ Recorded(s) \subseteq DOMAIN session[s].flow
    /\ \A i \in DOMAIN session[s].flow : i < session[s].at => i \in Recorded(s)
    /\ \A i \in DOMAIN session[s].results :
          session[s].results[i].agreed # 0 => Of(session[s].results[i].agreed, s)
    /\ session[s].seen <= edition
    /\ session[s].status = "in_progress" /\ session[s].seen < edition => s \in overtaken
    /\ session[s].status = "completed" =>
          /\ Recorded(s) = DOMAIN session[s].flow /\ OnRecord(s)
          /\ session[s].subscribes => session[s].by \in subscribed \/ s \in refused

AgreementInv(a) ==
    LET s == agreement[a].session
    IN  /\ s \in Sessions
        /\ session[s].seen <= agreement[a].version /\ agreement[a].version <= edition
        /\ session[s].seen < agreement[a].version => s \in overtaken

RequestInv ==
    LET s == request.of
    IN  request.at # "idle" =>
          /\ InProgress(s) /\ session[s].by = request.by
          /\ request.agreed # 0 => Of(request.agreed, s)
          /\ request.at = "advance" =>
                session[s].at < Len(session[s].flow) /\ session[s].at \in Recorded(s)
          /\ request.at \in {"agree", "subscribe", "close"} =>
                Recorded(s) = DOMAIN session[s].flow
          /\ request.at \in {"subscribe", "close"} => OnRecord(s)
          /\ request.at = "subscribe" => session[s].subscribes
          /\ request.at = "close" /\ session[s].subscribes =>
                request.by \in subscribed \/ s \in refused

Subscribers ==
    \A u \in subscribed : \E s \in Sessions :
        session[s].subscribes /\ Recorded(s) = DOMAIN session[s].flow

WizardInv ==
    /\ WizardTypeOK
    /\ \A s \in Sessions : SessionInv(s)
    /\ \A a \in DOMAIN agreement : AgreementInv(a)
    /\ RequestInv
    /\ Subscribers

-----------------------------------------------------------------------------
LEMMA Typed ==
    ASSUME WizardInv
    PROVE  /\ session \in Seq(SessionType) /\ agreement \in Seq(AgreementType)
           /\ request \in RequestType /\ edition \in Nat
           /\ Len(session) \in Nat /\ Sessions = 1 .. Len(session)
           /\ Len(agreement) \in Nat /\ DOMAIN agreement = 1 .. Len(agreement)
           /\ \A s \in Sessions : session[s] \in SessionType
           /\ \A a \in DOMAIN agreement : agreement[a] \in AgreementType
<1>1. /\ session \in Seq(SessionType) /\ agreement \in Seq(AgreementType)
      /\ request \in RequestType /\ edition \in Nat
  BY DEF WizardInv, WizardTypeOK, SessionType, AgreementType, RequestType
<1>2. /\ Len(session) \in Nat /\ Sessions = 1 .. Len(session)
      /\ Len(agreement) \in Nat /\ DOMAIN agreement = 1 .. Len(agreement)
  BY <1>1, LenProperties DEF Sessions
<1>3. \A s \in Sessions : session[s] \in SessionType
  BY <1>1, <1>2, ElementOfSeq
<1>4. \A a \in DOMAIN agreement : agreement[a] \in AgreementType
  BY <1>1, <1>2, ElementOfSeq
<1> QED BY <1>1, <1>2, <1>3, <1>4

(* What a session keeps while another one moves, or the rest does. *)
LEMMA SessionKept ==
    ASSUME WizardInv, NEW s \in Sessions, s \in DOMAIN session',
           session'[s].status = session[s].status,
           session'[s].results = session[s].results,
           session'[s].flow = session[s].flow,
           session'[s].at = session[s].at,
           session'[s].seen = session[s].seen,
           session'[s].subscribes = session[s].subscribes,
           session'[s].by = session[s].by \/ session[s].status = "in_progress",
           \A a \in DOMAIN agreement :
              a \in DOMAIN agreement' /\ agreement'[a].session = agreement[a].session,
           \A a \in DOMAIN agreement :
              agreement[a].session = s =>
                 agreement'[a].results = agreement[a].results \/ session[s].status = "in_progress",
           overtaken \subseteq overtaken', subscribed \subseteq subscribed', refused \subseteq refused',
           edition' = edition \/ (edition' = edition + 1 /\
                                  (session[s].status = "in_progress" => s \in overtaken'))
    PROVE  SessionInv(s)' /\ Recorded(s)' = Recorded(s)
<1>1. SessionInv(s) /\ edition \in Nat /\ session[s].seen \in Nat
  BY Typed DEF WizardInv, SessionType
<1>2. Recorded(s)' = Recorded(s)
  BY DEF Recorded
<1>3. \A n : Of(n, s) => Of(n, s)'
  BY DEF Of
<1>4. session[s].status = "completed" => OnRecord(s)'
  BY <1>1 DEF SessionInv, OnRecord
<1>5. /\ session'[s].seen <= edition'
      /\ session'[s].status = "in_progress" /\ session'[s].seen < edition' => s \in overtaken'
  BY <1>1 DEF SessionInv
<1>6. \A i \in DOMAIN session'[s].results :
         session'[s].results[i].agreed # 0 => Of(session[s].results[i].agreed, s)'
  BY <1>1, <1>3 DEF SessionInv
<1>7. \A i \in DOMAIN session'[s].results :
         session'[s].results[i].agreed # 0 => Of(session[s].results[i].agreed, s)'
  BY <1>6
<1> QED BY <1>1, <1>2, <1>4, <1>5, <1>6 DEF SessionInv

LEMMA SessionEdited ==
    ASSUME WizardInv, NEW s \in Sessions, NEW new \in SessionType,
           session' = [session EXCEPT ![s] = new]
    PROVE  /\ session' \in Seq(SessionType) /\ DOMAIN session' = Sessions
           /\ Len(session') = Len(session) /\ session'[s] = new
           /\ \A x \in Sessions : x # s => session'[x] = session[x]
<1>1. session \in Seq(SessionType) /\ s \in 1 .. Len(session) /\ Sessions = 1 .. Len(session)
  BY Typed
<1>2. /\ session' \in Seq(SessionType) /\ Len(session') = Len(session)
      /\ \A j \in 1 .. Len(session) : session'[j] = IF j = s THEN new ELSE session[j]
  BY <1>1, ExceptSeq
<1>3. DOMAIN session' = 1 .. Len(session')
  BY <1>2, LenProperties
<1> QED BY <1>1, <1>2, <1>3

LEMMA AgreementAdded ==
    ASSUME WizardInv, NEW g \in AgreementType, agreement' = Append(agreement, g)
    PROVE  /\ agreement' \in Seq(AgreementType)
           /\ Len(agreement) + 1 \in Nat
           /\ DOMAIN agreement' = DOMAIN agreement \cup {Len(agreement) + 1}
           /\ \A a \in DOMAIN agreement : agreement'[a] = agreement[a]
           /\ agreement'[Len(agreement) + 1] = g
<1>1. /\ agreement \in Seq(AgreementType) /\ Len(agreement) \in Nat
      /\ DOMAIN agreement = 1 .. Len(agreement)
  BY Typed
<1>2. /\ agreement' \in Seq(AgreementType) /\ Len(agreement') = Len(agreement) + 1
      /\ \A i \in 1 .. Len(agreement) : agreement'[i] = agreement[i]
      /\ agreement'[Len(agreement) + 1] = g
  BY <1>1, AppendProperties
<1>3. DOMAIN agreement' = 1 .. Len(agreement')
  BY <1>2, LenProperties
<1> QED BY <1>1, <1>2, <1>3

LEMMA SignatureTyped ==
    ASSUME WizardInv, NEW s \in Sessions, NEW u \in Users
    PROVE  /\ Signature(s, u) \in AgreementType
           /\ Signature(s, u).session = s /\ Signature(s, u).version = edition
           /\ Signature(s, u).results = session[s].results
BY Typed DEF Signature, AgreementType, SessionType

(* Steps that change no session and no agreement. *)
LEMMA QuietStep ==
    ASSUME WizardInv, UNCHANGED <<session, agreement>>,
           broken' = broken \/ (broken' \in Seq(Nat) /\ Len(broken') = Len(broken)),
           flow' \in Flows, edition' \in Nat, onSale' \in BOOLEAN, request' \in RequestType,
           subscribed \subseteq subscribed', subscribed' \subseteq Users,
           overtaken \subseteq overtaken', overtaken' \subseteq Sessions,
           refused \subseteq refused', refused' \subseteq Sessions,
           edition' = edition \/ (edition' = edition + 1 /\
              \A s \in Sessions : session[s].status = "in_progress" => s \in overtaken'),
           RequestInv', Subscribers'
    PROVE  WizardInv'
<1>1. WizardTypeOK'
  BY DEF WizardInv, WizardTypeOK, RequestType, Sessions
<1>2. Sessions' = Sessions
  BY DEF Sessions
<1>3. ASSUME NEW s \in Sessions PROVE SessionInv(s)'
  BY <1>2, SessionKept DEF Sessions
<1>4. ASSUME NEW a \in DOMAIN agreement PROVE AgreementInv(a)'
  <2>1. AgreementInv(a) /\ edition \in Nat /\ agreement[a].version \in Nat
    BY Typed DEF WizardInv, AgreementType
  <2> QED BY <1>2, <2>1 DEF AgreementInv
<1> QED BY <1>1, <1>2, <1>3, <1>4 DEF WizardInv

-----------------------------------------------------------------------------
LEMMA StartStep ==
    ASSUME WizardInv, NEW u \in Users, NEW b \in BOOLEAN, StartSession(u, b)
    PROVE  WizardInv'
<1> DEFINE new == [status |-> "in_progress", flow |-> flow, seen |-> edition, at |-> 1,
                   results |-> <<>>, subscribes |-> b, by |-> u]
<1>1. /\ session \in Seq(SessionType) /\ Len(session) \in Nat /\ Sessions = 1 .. Len(session)
      /\ flow \in Flows /\ edition \in Nat
  BY Typed DEF WizardInv, WizardTypeOK
<1>n. PICK n \in Nat : n = Len(session) + 1
  BY <1>1
<1>2. new \in SessionType
  BY <1>1, EmptySeq DEF SessionType, Results
<1>3. /\ session' = Append(session, new) /\ request.at = "idle"
      /\ UNCHANGED <<flow, edition, agreement, onSale, subscribed, request, overtaken, refused>>
      /\ broken' = Append(broken, 0)
  BY DEF StartSession, Idle
<1>4. /\ new.flow = flow /\ new.at = 1 /\ new.results = <<>> /\ new.seen = edition
      /\ new.status = "in_progress"
  OBVIOUS
<1> HIDE DEF new
<1>5. /\ session' \in Seq(SessionType) /\ Len(session') = n /\ session'[n] = new
      /\ \A s \in Sessions : session'[s] = session[s]
  BY <1>1, <1>n, <1>2, <1>3, AppendProperties
<1>6. DOMAIN session' = Sessions \cup {n} /\ Sessions' = Sessions \cup {n}
  BY <1>1, <1>n, <1>5, LenProperties DEF Sessions
<1>7. broken' \in Seq(Nat) /\ Len(broken') = n
  <2>1. broken \in Seq(Nat) /\ Len(broken) = Len(session) /\ 0 \in Nat
    BY DEF WizardInv, WizardTypeOK
  <2> QED BY <1>3, <1>n, <2>1, AppendProperties
<1>8. WizardTypeOK'
  <2>1. overtaken \subseteq Sessions /\ refused \subseteq Sessions
    BY DEF WizardInv, WizardTypeOK
  <2>2. session' \in Seq([status: {"in_progress", "completed", "abandoned"}, flow: Flows,
                          seen: Nat, at: Nat, results: Results, subscribes: BOOLEAN, by: Users])
    BY <1>5 DEF SessionType
  <2> QED BY <1>3, <1>5, <1>6, <1>7, <2>1, <2>2 DEF WizardInv, WizardTypeOK
<1>9. ASSUME NEW s \in Sessions PROVE SessionInv(s)' /\ Recorded(s)' = Recorded(s)
  BY <1>3, <1>5, <1>6, <1>9, SessionKept
<1>10. SessionInv(n)'
  <2>1. DOMAIN new.results = {}
    BY <1>4
  <2>2. session'[n].results = new.results /\ session'[n].flow = flow /\ session'[n].at = 1
        /\ session'[n].seen = edition /\ session'[n].status = "in_progress"
    BY <1>4, <1>5
  <2>3. Recorded(n)' = {}
    BY <2>1, <2>2 DEF Recorded
  <2>4. flow \in Seq({"form", "persist"}) /\ flow # <<>>
    BY <1>1, WizardAssumption
  <2>5. 1 \in DOMAIN flow /\ DOMAIN flow \subseteq Nat \ {0}
    BY <2>4, LenProperties, EmptySeq
  <2> QED BY <1>1, <1>3, <2>1, <2>2, <2>3, <2>5 DEF SessionInv
<1>11. \A a \in DOMAIN agreement' : AgreementInv(a)'
  BY <1>3, <1>5, <1>6 DEF WizardInv, AgreementInv
<1>12. RequestInv'
  BY <1>3 DEF RequestInv
<1>13. Subscribers'
  BY <1>3, <1>5, <1>6, <1>9 DEF WizardInv, Subscribers
<1> QED BY <1>6, <1>8, <1>9, <1>10, <1>11, <1>12, <1>13 DEF WizardInv

(* A session moves; agreements and history only grow.                      *)
LEMMA MoveStep ==
    ASSUME WizardInv, NEW s \in Sessions, InProgress(s), NEW new \in SessionType,
           session' = [session EXCEPT ![s] = new],
           UNCHANGED <<flow, edition, onSale, subscribed, overtaken, refused, broken>>,
           agreement' \in Seq(AgreementType),
           \A a \in DOMAIN agreement :
              a \in DOMAIN agreement' /\ agreement'[a].session = agreement[a].session
              /\ (agreement[a].session # s => agreement'[a].results = agreement[a].results),
           \A a \in DOMAIN agreement' : AgreementInv(a)',
           request' \in RequestType,
           new.flow = session[s].flow, new.subscribes = session[s].subscribes,
           Recorded(s) \subseteq Recorded(s)',
           SessionInv(s)', RequestInv'
    PROVE  WizardInv'
<1>1. /\ session' \in Seq(SessionType) /\ DOMAIN session' = Sessions
      /\ Len(session') = Len(session) /\ session'[s] = new
      /\ \A x \in Sessions : x # s => session'[x] = session[x]
  BY SessionEdited
<1>2. Sessions' = Sessions
  BY <1>1 DEF Sessions
<1>3. WizardTypeOK'
  BY <1>1, <1>2 DEF WizardInv, WizardTypeOK, SessionType, AgreementType, RequestType
<1>4. ASSUME NEW x \in Sessions, x # s PROVE SessionInv(x)' /\ Recorded(x)' = Recorded(x)
  BY <1>1, <1>4, SessionKept
<1>5. Subscribers'
  <2> SUFFICES ASSUME NEW u \in subscribed
               PROVE  \E x \in Sessions : session'[x].subscribes
                                          /\ Recorded(x)' = DOMAIN session'[x].flow
    BY <1>2 DEF Subscribers
  <2>1. PICK x \in Sessions : session[x].subscribes /\ Recorded(x) = DOMAIN session[x].flow
    BY DEF WizardInv, Subscribers
  <2>2. CASE x = s
    <3>1. Recorded(s)' \subseteq DOMAIN session'[s].flow
      BY DEF SessionInv
    <3> QED BY <1>1, <2>1, <2>2, <3>1
  <2>3. CASE x # s
    BY <1>1, <1>4, <2>1, <2>3
  <2> QED BY <2>2, <2>3
<1> QED BY <1>2, <1>3, <1>4, <1>5 DEF WizardInv

(* A session moves and keeps what its agreements depend on: those there    *)
(* are stay explained, and a signature given while it is open is.          *)
LEMMA AgreementsKept ==
    ASSUME WizardInv, NEW s \in Sessions, NEW new \in SessionType,
           session' = [session EXCEPT ![s] = new], new.seen = session[s].seen,
           UNCHANGED <<edition, overtaken>>,
           \A a \in DOMAIN agreement :
              agreement'[a].session = agreement[a].session
              /\ agreement'[a].version = agreement[a].version
    PROVE  /\ \A a \in DOMAIN agreement : AgreementInv(a)'
           /\ \A a : agreement'[a].session = s /\ agreement'[a].version = edition
                    /\ session[s].status = "in_progress" => AgreementInv(a)'
<1>1. /\ Sessions' = Sessions /\ session'[s].seen = session[s].seen
      /\ \A x \in Sessions : x # s => session'[x] = session[x]
  BY SessionEdited DEF Sessions
<1>2. \A x \in Sessions : session'[x].seen = session[x].seen
  BY <1>1
<1>3. \A a \in DOMAIN agreement : AgreementInv(a)'
  BY <1>1, <1>2 DEF WizardInv, AgreementInv
<1>4. /\ session[s].seen <= edition /\ edition <= edition
      /\ session[s].status = "in_progress" /\ session[s].seen < edition => s \in overtaken
  BY Typed DEF WizardInv, SessionInv
<1> QED BY <1>1, <1>2, <1>3, <1>4 DEF AgreementInv

LEMMA SubmitKeeps ==
    ASSUME WizardInv, NEW u \in Users, NEW s \in Sessions, SubmitStep(u, s)
    PROVE  WizardInv'
<1> DEFINE new == [session[s] EXCEPT !.by = u]
<1>1. /\ InProgress(s) /\ session[s] \in SessionType /\ SessionInv(s)
      /\ session[s].status = "in_progress" /\ session \in Seq(SessionType)
      /\ agreement \in Seq(AgreementType) /\ Len(agreement) \in Nat
      /\ DOMAIN agreement = 1 .. Len(agreement)
  BY Typed DEF SubmitStep, InProgress, WizardInv
<1>2. /\ new \in SessionType /\ new.by = u /\ new.status = session[s].status
      /\ new.results = session[s].results /\ new.flow = session[s].flow
      /\ new.at = session[s].at /\ new.seen = session[s].seen
      /\ new.subscribes = session[s].subscribes
  BY <1>1 DEF SessionType
<1>3. /\ session' = [session EXCEPT ![s] = new]
      /\ UNCHANGED <<flow, edition, onSale, subscribed, overtaken, refused, broken>>
  BY DEF SubmitStep
<1>p. PICK g \in Nat : g = Len(agreement) + 1
  BY <1>1
<1>4. \/ agreement' = agreement /\ request' = [at |-> "append", of |-> s, by |-> u, agreed |-> 0]
      \/ /\ agreement' = Append(agreement, Signature(s, u))
         /\ request' = [at |-> "append", of |-> s, by |-> u, agreed |-> g]
  BY <1>p DEF SubmitStep
<1> HIDE DEF new
<1>5. session'[s] = new /\ Sessions' = Sessions
  BY <1>2, <1>3, SessionEdited DEF Sessions
<1>6. /\ agreement' \in Seq(AgreementType)
      /\ \A a \in DOMAIN agreement : a \in DOMAIN agreement' /\ agreement'[a] = agreement[a]
      /\ \A a \in DOMAIN agreement' : a \in DOMAIN agreement
            \/ (agreement'[a].session = s /\ agreement'[a].version = edition)
      /\ request'.agreed # 0 => request'.agreed \in DOMAIN agreement'
                                /\ agreement'[request'.agreed].session = s
      /\ request'.at = "append" /\ request'.of = s /\ request'.by = u /\ request' \in RequestType
  <2>1. CASE /\ agreement' = agreement
             /\ request' = [at |-> "append", of |-> s, by |-> u, agreed |-> 0]
    <3>1. request' \in RequestType
      BY <2>1, Typed DEF RequestType
    <3> QED BY <1>1, <2>1, <3>1
  <2>2. CASE /\ agreement' = Append(agreement, Signature(s, u))
             /\ request' = [at |-> "append", of |-> s, by |-> u, agreed |-> g]
    <3>1. /\ agreement' \in Seq(AgreementType)
          /\ DOMAIN agreement' = DOMAIN agreement \cup {g}
          /\ \A a \in DOMAIN agreement : agreement'[a] = agreement[a]
          /\ agreement'[g] = Signature(s, u)
      BY <1>p, <2>2, SignatureTyped, AgreementAdded
    <3>2. request' \in RequestType /\ s \in Nat
      BY <2>2, Typed DEF RequestType
    <3> QED BY <2>2, <3>1, <3>2, SignatureTyped
  <2> QED BY <1>4, <2>1, <2>2
<1>7. \A a \in DOMAIN agreement' : AgreementInv(a)'
  BY <1>1, <1>2, <1>3, <1>6, AgreementsKept
<1>8. Recorded(s)' = Recorded(s)
  BY <1>2, <1>5 DEF Recorded
<1>9. SessionInv(s)'
  BY <1>1, <1>2, <1>3, <1>5, <1>6, SessionKept DEF Sessions
<1>10. RequestInv'
  BY <1>1, <1>2, <1>5, <1>6 DEF RequestInv, InProgress, Of
<1> QED BY <1>1, <1>2, <1>3, <1>6, <1>7, <1>8, <1>9, <1>10, MoveStep

LEMMA AppendKeeps ==
    ASSUME WizardInv, AppendResult
    PROVE  WizardInv'
<1>s. PICK s : s = request.of
  OBVIOUS
<1>1. /\ request.at = "append" /\ InProgress(s) /\ s \in Sessions
      /\ request.agreed # 0 => Of(request.agreed, s)
      /\ session[s].by = request.by
  BY <1>s DEF AppendResult, WizardInv, RequestInv, InProgress
<1>2. /\ session[s] \in SessionType /\ SessionInv(s) /\ request \in RequestType
      /\ session[s].status = "in_progress" /\ session[s].flow \in Seq({"form", "persist"})
      /\ session[s].at \in Nat /\ session[s].results \in Results
      /\ DOMAIN session[s].flow = 1 .. Len(session[s].flow) /\ Len(session[s].flow) \in Nat
  <2>1. session[s] \in SessionType /\ SessionInv(s) /\ request \in RequestType
    BY <1>1, Typed DEF WizardInv
  <2>2. session[s].flow \in Seq({"form", "persist"})
    BY <2>1, WizardAssumption DEF SessionType
  <2> QED BY <1>1, <2>1, <2>2, LenProperties DEF SessionType, InProgress
<1>e. PICK e : e = [step |-> session[s].at, agreed |-> request.agreed]
  OBVIOUS
<1>3. e \in [step: Nat, agreed: Nat] /\ e.step = session[s].at /\ e.agreed = request.agreed
  BY <1>2, <1>e DEF RequestType
<1>r. PICK r : r = Append(session[s].results, e)
  OBVIOUS
<1>4. /\ r \in Results
      /\ DOMAIN r = DOMAIN session[s].results \cup {Len(session[s].results) + 1}
      /\ \A i \in DOMAIN session[s].results : r[i] = session[s].results[i]
      /\ r[Len(session[s].results) + 1] = e
  <2>1. /\ r \in Results /\ Len(r) = Len(session[s].results) + 1
        /\ \A i \in 1 .. Len(session[s].results) : r[i] = session[s].results[i]
        /\ r[Len(session[s].results) + 1] = e
    BY <1>2, <1>3, <1>r, AppendProperties DEF Results
  <2>2. /\ DOMAIN r = 1 .. Len(r) /\ DOMAIN session[s].results = 1 .. Len(session[s].results)
        /\ Len(session[s].results) \in Nat
    BY <1>2, <2>1, LenProperties DEF Results
  <2> QED BY <2>1, <2>2
<1> DEFINE new == [session[s] EXCEPT !.results = r]
<1>5. /\ new \in SessionType /\ new.by = session[s].by /\ new.status = session[s].status
      /\ new.results = r /\ new.flow = session[s].flow
      /\ new.at = session[s].at /\ new.seen = session[s].seen
      /\ new.subscribes = session[s].subscribes
  BY <1>2, <1>4 DEF SessionType
<1>6. /\ session' = [session EXCEPT ![s] = new]
      /\ UNCHANGED <<flow, edition, agreement, onSale, subscribed, overtaken, refused, broken>>
      /\ request' = [request EXCEPT !.at =
                        IF session[s].at < Len(session[s].flow) THEN "advance" ELSE "agree"]
  BY <1>s, <1>e, <1>r DEF AppendResult
<1> HIDE DEF new
<1>7. session'[s] = new /\ Sessions' = Sessions
  BY <1>1, <1>5, <1>6, SessionEdited DEF Sessions
<1>8. Recorded(s)' = Recorded(s) \cup {session[s].at}
  BY <1>3, <1>4, <1>5, <1>7 DEF Recorded
<1>9. SessionInv(s)'
  <2>1. Recorded(s)' \subseteq DOMAIN session[s].flow
    BY <1>2, <1>8 DEF SessionInv
  <2>2. \A i \in DOMAIN r : r[i].agreed # 0 => Of(r[i].agreed, s)'
    <3>1. \A n : Of(n, s) => Of(n, s)'
      BY <1>6 DEF Of
    <3> QED BY <1>1, <1>2, <1>3, <1>4, <3>1 DEF SessionInv
  <2>3. \A i \in DOMAIN session'[s].results :
           session'[s].results[i].agreed # 0 => Of(r[i].agreed, s)'
    BY <2>2, <1>5, <1>7
  <2> QED BY <1>2, <1>5, <1>6, <1>7, <1>8, <2>1, <2>3 DEF SessionInv
<1>v. PICK next \in {"advance", "agree"} :
         /\ request' = [request EXCEPT !.at = next]
         /\ next = "advance" => session[s].at < Len(session[s].flow)
         /\ next = "agree" => ~(session[s].at < Len(session[s].flow))
  BY <1>6
<1>10. /\ request'.of = s /\ request'.by = request.by /\ request'.agreed = request.agreed
       /\ request' \in RequestType /\ request'.at = next
  BY <1>2, <1>v, <1>s DEF RequestType
<1>11. RequestInv'
  <2>1. /\ s \in Sessions' /\ session'[s].status = "in_progress"
        /\ request'.agreed # 0 => /\ request'.agreed \in DOMAIN agreement'
                                  /\ agreement'[request'.agreed].session = s
    BY <1>1, <1>2, <1>5, <1>6, <1>7, <1>10 DEF Of
  <2>2. request'.at = "agree" => Recorded(s)' = DOMAIN session'[s].flow
    BY <1>2, <1>5, <1>7, <1>8, <1>10, <1>v DEF SessionInv
  <2>3. request'.at = "advance" => /\ session'[s].at < Len(session'[s].flow)
                                   /\ session'[s].at \in Recorded(s)'
    BY <1>5, <1>7, <1>8, <1>10, <1>v
  <2>4. request'.at \in {"advance", "agree"} /\ session'[s].by = request'.by
    BY <1>1, <1>5, <1>7, <1>10
  <2>5. RequestInv' <=> (request'.at # "idle" =>
          /\ InProgress(s)' /\ session'[s].by = request'.by
          /\ request'.agreed # 0 => /\ request'.agreed \in DOMAIN agreement'
                                    /\ agreement'[request'.agreed].session = s
          /\ request'.at = "advance" =>
                session'[s].at < Len(session'[s].flow) /\ session'[s].at \in Recorded(s)'
          /\ request'.at \in {"agree", "subscribe", "close"} =>
                Recorded(s)' = DOMAIN session'[s].flow
          /\ request'.at \in {"subscribe", "close"} => OnRecord(s)'
          /\ request'.at = "subscribe" => session'[s].subscribes
          /\ request'.at = "close" /\ session'[s].subscribes =>
                request'.by \in subscribed' \/ s \in refused')
    BY <1>10 DEF RequestInv, Of
  <2> QED BY <2>1, <2>2, <2>3, <2>4, <2>5 DEF InProgress
<1>12. \A a \in DOMAIN agreement' : AgreementInv(a)'
  BY <1>1, <1>5, <1>6, AgreementsKept
<1>13. agreement' \in Seq(AgreementType)
  BY <1>6, Typed
<1> QED BY <1>1, <1>5, <1>6, <1>8, <1>9, <1>10, <1>11, <1>12, <1>13, MoveStep

LEMMA AdvanceKeeps ==
    ASSUME WizardInv, Advance
    PROVE  WizardInv'
<1>s. PICK s : s = request.of
  OBVIOUS
<1>1. InProgress(s) /\ s \in Sessions /\ session[s].at < Len(session[s].flow)
      /\ session[s].at \in Recorded(s)
  BY <1>s DEF Advance, WizardInv, RequestInv, InProgress
<1>2. /\ session[s] \in SessionType /\ SessionInv(s)
      /\ session[s].at \in Nat
      /\ DOMAIN session[s].flow = 1 .. Len(session[s].flow) /\ Len(session[s].flow) \in Nat
  <2>1. session[s] \in SessionType /\ SessionInv(s)
    BY <1>1, Typed DEF WizardInv
  <2>2. session[s].flow \in Seq({"form", "persist"})
    BY <2>1, WizardAssumption DEF SessionType
  <2> QED BY <2>1, <2>2, LenProperties DEF SessionType
<1>a. PICK at \in Nat : at = session[s].at + 1
  BY <1>2
<1> DEFINE new == [session[s] EXCEPT !.at = at]
<1>5. /\ new \in SessionType /\ new.by = session[s].by /\ new.status = session[s].status
      /\ new.results = session[s].results /\ new.flow = session[s].flow
      /\ new.at = at /\ new.seen = session[s].seen
      /\ new.subscribes = session[s].subscribes
  BY <1>2 DEF SessionType
<1>6. /\ session' = [session EXCEPT ![s] = new] /\ request' = NoRequest
      /\ UNCHANGED <<flow, edition, agreement, onSale, subscribed, overtaken, refused, broken>>
  BY <1>s, <1>a DEF Advance
<1> HIDE DEF new
<1>7. session'[s] = new /\ Sessions' = Sessions
  BY <1>1, <1>5, <1>6, SessionEdited DEF Sessions
<1>8. Recorded(s)' = Recorded(s)
  BY <1>5, <1>7 DEF Recorded
<1>9. SessionInv(s)'
  <2>1. /\ session'[s].at \in DOMAIN session'[s].flow
        /\ \A i \in DOMAIN session'[s].flow : i < session'[s].at => i \in Recorded(s)'
    BY <1>1, <1>2, <1>a, <1>5, <1>7, <1>8 DEF SessionInv
  <2>2. \A n : Of(n, s) => Of(n, s)'
    BY <1>6 DEF Of
  <2>3. \A i \in DOMAIN session'[s].results :
           session'[s].results[i].agreed # 0 => Of(session[s].results[i].agreed, s)'
    BY <1>2, <1>5, <1>7, <2>2 DEF SessionInv
  <2> QED BY <1>1, <1>2, <1>5, <1>6, <1>7, <1>8, <2>1, <2>3 DEF SessionInv, InProgress
<1>10. RequestInv' /\ request' \in RequestType /\ agreement' \in Seq(AgreementType)
  BY <1>6, Typed DEF RequestInv, NoRequest, RequestType
<1>11. \A a \in DOMAIN agreement' : AgreementInv(a)'
  BY <1>1, <1>5, <1>6, AgreementsKept
<1> QED BY <1>1, <1>5, <1>6, <1>8, <1>9, <1>10, <1>11, MoveStep

LEMMA CloseKeeps ==
    ASSUME WizardInv, Close
    PROVE  WizardInv'
<1>s. PICK s : s = request.of
  OBVIOUS
<1>1. /\ InProgress(s) /\ s \in Sessions /\ Recorded(s) = DOMAIN session[s].flow
      /\ OnRecord(s) /\ session[s].by = request.by
      /\ session[s].subscribes => request.by \in subscribed \/ s \in refused
  BY <1>s DEF Close, WizardInv, RequestInv, InProgress
<1>2. session[s] \in SessionType /\ SessionInv(s)
  BY <1>1, Typed DEF WizardInv
<1> DEFINE new == [session[s] EXCEPT !.status = "completed"]
<1>5. /\ new \in SessionType /\ new.by = session[s].by /\ new.status = "completed"
      /\ new.results = session[s].results /\ new.flow = session[s].flow
      /\ new.at = session[s].at /\ new.seen = session[s].seen
      /\ new.subscribes = session[s].subscribes
  BY <1>2 DEF SessionType
<1>6. /\ session' = [session EXCEPT ![s] = new] /\ request' = NoRequest
      /\ UNCHANGED <<flow, edition, agreement, onSale, subscribed, overtaken, refused, broken>>
  BY <1>s DEF Close
<1> HIDE DEF new
<1>7. session'[s] = new /\ Sessions' = Sessions
  BY <1>1, <1>5, <1>6, SessionEdited DEF Sessions
<1>8. Recorded(s)' = Recorded(s)
  BY <1>5, <1>7 DEF Recorded
<1>9. SessionInv(s)'
  <2>1. OnRecord(s)'
    BY <1>1, <1>5, <1>6, <1>7 DEF OnRecord
  <2>2. \A n : Of(n, s) => Of(n, s)'
    BY <1>6 DEF Of
  <2>3. \A i \in DOMAIN session'[s].results :
           session'[s].results[i].agreed # 0 => Of(session[s].results[i].agreed, s)'
    BY <1>2, <1>5, <1>7, <2>2 DEF SessionInv
  <2> QED BY <1>1, <1>2, <1>5, <1>6, <1>7, <1>8, <2>1, <2>3 DEF SessionInv, InProgress
<1>10. RequestInv' /\ request' \in RequestType /\ agreement' \in Seq(AgreementType)
  BY <1>6, Typed DEF RequestInv, NoRequest, RequestType
<1>11. \A a \in DOMAIN agreement' : AgreementInv(a)'
  BY <1>1, <1>5, <1>6, AgreementsKept
<1> QED BY <1>1, <1>5, <1>6, <1>8, <1>9, <1>10, <1>11, MoveStep

LEMMA AbortKeeps ==
    ASSUME WizardInv, NEW s \in Sessions, AbortSession(s)
    PROVE  WizardInv'
<1>1. InProgress(s) /\ request.at = "idle"
  BY DEF AbortSession, Idle
<1>2. session[s] \in SessionType /\ SessionInv(s)
  BY Typed DEF WizardInv
<1> DEFINE new == [session[s] EXCEPT !.status = "abandoned"]
<1>5. /\ new \in SessionType /\ new.by = session[s].by /\ new.status = "abandoned"
      /\ new.results = session[s].results /\ new.flow = session[s].flow
      /\ new.at = session[s].at /\ new.seen = session[s].seen
      /\ new.subscribes = session[s].subscribes
  BY <1>2 DEF SessionType
<1>6. /\ session' = [session EXCEPT ![s] = new]
      /\ UNCHANGED <<flow, edition, agreement, onSale, subscribed, request, overtaken, refused,
                     broken>>
  BY DEF AbortSession
<1> HIDE DEF new
<1>7. session'[s] = new /\ Sessions' = Sessions
  BY <1>1, <1>5, <1>6, SessionEdited DEF Sessions
<1>8. Recorded(s)' = Recorded(s)
  BY <1>5, <1>7 DEF Recorded
<1>9. SessionInv(s)'
  <2>2. \A n : Of(n, s) => Of(n, s)'
    BY <1>6 DEF Of
  <2>3. \A i \in DOMAIN session'[s].results :
           session'[s].results[i].agreed # 0 => Of(session[s].results[i].agreed, s)'
    BY <1>2, <1>5, <1>7, <2>2 DEF SessionInv
  <2> QED BY <1>2, <1>5, <1>6, <1>7, <1>8, <2>3 DEF SessionInv
<1>10. RequestInv' /\ request' \in RequestType /\ agreement' \in Seq(AgreementType)
  BY <1>1, <1>6, Typed DEF RequestInv
<1>11. \A a \in DOMAIN agreement' : AgreementInv(a)'
  BY <1>1, <1>5, <1>6, AgreementsKept
<1> QED BY <1>1, <1>5, <1>6, <1>8, <1>9, <1>10, <1>11, MoveStep

LEMMA SubscribeKeeps ==
    ASSUME WizardInv, Subscribe
    PROVE  WizardInv'
<1>s. PICK s : s = request.of
  OBVIOUS
<1>1. /\ InProgress(s) /\ s \in Sessions /\ Recorded(s) = DOMAIN session[s].flow
      /\ OnRecord(s) /\ session[s].by = request.by /\ session[s].subscribes
      /\ request.agreed # 0 => Of(request.agreed, s)
  BY <1>s DEF Subscribe, WizardInv, RequestInv, InProgress
<1>2. /\ request.by \in Users /\ request \in RequestType
      /\ flow \in Flows /\ edition \in Nat /\ onSale \in BOOLEAN
      /\ subscribed \subseteq Users /\ overtaken \subseteq Sessions /\ refused \subseteq Sessions
  BY <1>1, Typed DEF SessionType, WizardInv, WizardTypeOK
<1>3. /\ UNCHANGED <<session, agreement, broken, flow, edition, onSale, overtaken>>
      /\ subscribed \subseteq subscribed' /\ subscribed' \subseteq subscribed \cup {request.by}
      /\ refused \subseteq refused' /\ refused' \subseteq refused \cup {s}
      /\ request.by \in subscribed' \/ s \in refused'
  BY <1>s DEF Subscribe
<1>4. /\ request' \in RequestType /\ request'.at = "close" /\ request'.of = s
      /\ request'.by = request.by /\ request'.agreed = request.agreed
  BY <1>2, <1>s DEF Subscribe, RequestType
<1>5. /\ Recorded(s)' = Recorded(s) /\ OnRecord(s)' /\ InProgress(s)' /\ Sessions' = Sessions
      /\ \A x : Recorded(x)' = Recorded(x)
  BY <1>1, <1>3 DEF Recorded, OnRecord, InProgress, Sessions
<1>6. RequestInv'
  BY <1>1, <1>3, <1>4, <1>5 DEF RequestInv, Of
<1>7. Subscribers'
  BY <1>1, <1>3, <1>5 DEF WizardInv, Subscribers
<1> QED BY <1>1, <1>2, <1>3, <1>4, <1>6, <1>7, QuietStep

LEMMA EditKeeps ==
    ASSUME WizardInv, NEW f \in Flows, EditWorkflow(f)
    PROVE  WizardInv'
<1>1. /\ request.at = "idle" /\ flow' = f /\ edition' = edition + 1
      /\ overtaken' = overtaken \cup {s \in Sessions : InProgress(s)}
      /\ UNCHANGED <<session, agreement, onSale, subscribed, request, refused, broken>>
  BY DEF EditWorkflow, Idle
<1>2. /\ request \in RequestType /\ edition \in Nat /\ onSale \in BOOLEAN
      /\ subscribed \subseteq Users /\ overtaken \subseteq Sessions /\ refused \subseteq Sessions
  BY Typed DEF WizardInv, WizardTypeOK
<1>3. RequestInv' /\ Subscribers'
  BY <1>1 DEF RequestInv, WizardInv, Subscribers, Sessions, Recorded
<1>4. \A s \in Sessions : session[s].status = "in_progress" => s \in overtaken'
  BY <1>1 DEF InProgress
<1> QED BY <1>1, <1>2, <1>3, <1>4, QuietStep

LEMMA ProductKeeps ==
    ASSUME WizardInv, ProductChanges
    PROVE  WizardInv'
<1>1. /\ onSale' \in BOOLEAN
      /\ UNCHANGED <<flow, edition, session, agreement, subscribed, request, overtaken,
                     refused, broken>>
  BY DEF ProductChanges
<1>2. /\ request \in RequestType /\ edition \in Nat /\ flow \in Flows
      /\ subscribed \subseteq Users /\ overtaken \subseteq Sessions /\ refused \subseteq Sessions
  BY Typed DEF WizardInv, WizardTypeOK
<1>3. RequestInv' /\ Subscribers'
  BY <1>1 DEF RequestInv, WizardInv, Subscribers, Sessions, Recorded, InProgress, Of, OnRecord
<1> QED BY <1>1, <1>2, <1>3, QuietStep

LEMMA CrashKeeps ==
    ASSUME WizardInv, CrashInRequest
    PROVE  WizardInv'
<1>1. /\ request.at # "idle" /\ request' = NoRequest
      /\ broken' = [broken EXCEPT ![request.of] = broken[request.of] + 1]
      /\ UNCHANGED <<flow, edition, session, agreement, onSale, subscribed, overtaken, refused>>
  BY DEF CrashInRequest, Idle
<1>2. /\ request.of \in 1 .. Len(session) /\ broken \in Seq(Nat) /\ Len(broken) = Len(session)
  BY <1>1, Typed DEF WizardInv, RequestInv, InProgress, WizardTypeOK
<1>3. broken[request.of] \in Nat
  BY <1>2, ElementOfSeq
<1>4. broken' \in Seq(Nat) /\ Len(broken') = Len(broken)
  BY <1>1, <1>2, <1>3, ExceptSeq
<1>5. /\ edition \in Nat /\ flow \in Flows /\ onSale \in BOOLEAN
      /\ subscribed \subseteq Users /\ overtaken \subseteq Sessions /\ refused \subseteq Sessions
  BY DEF WizardInv, WizardTypeOK
<1>6. request' \in RequestType /\ RequestInv'
  BY <1>1 DEF RequestType, RequestInv, NoRequest
<1>7. Subscribers'
  BY <1>1 DEF WizardInv, Subscribers, Sessions, Recorded
<1> QED BY <1>1, <1>4, <1>5, <1>6, <1>7, QuietStep

LEMMA AgreeKeeps ==
    ASSUME WizardInv, Agree
    PROVE  WizardInv'
<1>s. PICK s : s = request.of
  OBVIOUS
<1>1. /\ InProgress(s) /\ s \in Sessions /\ Recorded(s) = DOMAIN session[s].flow
      /\ session[s].by = request.by /\ session[s].status = "in_progress"
      /\ request.agreed # 0 => Of(request.agreed, s)
  BY <1>s DEF Agree, WizardInv, RequestInv, InProgress
<1>2. /\ session[s] \in SessionType /\ SessionInv(s) /\ request \in RequestType
      /\ request.by \in Users /\ session \in Seq(SessionType)
      /\ agreement \in Seq(AgreementType) /\ Len(agreement) \in Nat
      /\ DOMAIN agreement = 1 .. Len(agreement)
      /\ \A a \in DOMAIN agreement : agreement[a] \in AgreementType
  BY <1>1, Typed DEF WizardInv, SessionType
<1>P. PICK P : P = Persisted(s)
  OBVIOUS
<1>3. /\ UNCHANGED <<flow, edition, session, onSale, subscribed, overtaken, refused, broken>>
      /\ request' = [request EXCEPT !.at = AfterAgree(s)]
      /\ agreement' = IF P = {} THEN Append(agreement, Signature(s, request.by))
                      ELSE [a \in DOMAIN agreement |->
                              IF a \in P THEN [agreement[a] EXCEPT !.results = session[s].results]
                              ELSE agreement[a]]
  BY <1>s, <1>P DEF Agree
<1>4. \A a \in P : a \in DOMAIN agreement /\ agreement[a].session = s
  BY <1>2, <1>P DEF SessionInv, Persisted, Of
<1>5. /\ agreement' \in Seq(AgreementType)
      /\ \A a \in DOMAIN agreement :
            /\ a \in DOMAIN agreement' /\ agreement'[a].session = agreement[a].session
            /\ agreement'[a].version = agreement[a].version
            /\ agreement[a].session # s => agreement'[a].results = agreement[a].results
      /\ \A a \in DOMAIN agreement' : a \in DOMAIN agreement
            \/ (agreement'[a].session = s /\ agreement'[a].version = edition)
      /\ \E a \in DOMAIN agreement' :
            agreement'[a].session = s /\ agreement'[a].results = session[s].results
  <2>1. CASE P = {}
    <3>1. PICK g \in Nat : g = Len(agreement) + 1
      BY <1>2
    <3>2. agreement' = Append(agreement, Signature(s, request.by))
      BY <1>3, <2>1
    <3>3. /\ agreement' \in Seq(AgreementType)
          /\ DOMAIN agreement' = DOMAIN agreement \cup {g}
          /\ \A a \in DOMAIN agreement : agreement'[a] = agreement[a]
          /\ agreement'[g] = Signature(s, request.by)
      BY <1>1, <1>2, <3>1, <3>2, SignatureTyped, AgreementAdded
    <3> QED BY <1>1, <1>2, <3>3, SignatureTyped
  <2>2. CASE P # {}
    <3>1. /\ DOMAIN agreement' = DOMAIN agreement
          /\ \A a \in DOMAIN agreement :
                agreement'[a] = IF a \in P
                                THEN [agreement[a] EXCEPT !.results = session[s].results]
                                ELSE agreement[a]
      BY <1>3, <2>2
    <3>2. \A a \in DOMAIN agreement :
             /\ agreement'[a] \in AgreementType /\ agreement'[a].session = agreement[a].session
             /\ agreement'[a].version = agreement[a].version
             /\ a \notin P => agreement'[a] = agreement[a]
             /\ a \in P => agreement'[a].results = session[s].results
      <4> TAKE a \in DOMAIN agreement
      <4>1. agreement[a] \in AgreementType /\ session[s].results \in Results
        BY <1>2 DEF SessionType
      <4> QED BY <3>1, <4>1 DEF AgreementType
    <3>3. agreement' = [a \in 1 .. Len(agreement) |-> agreement'[a]]
      BY <1>2, <1>3, <2>2
    <3>4. agreement' \in Seq(AgreementType)
      BY <1>2, <3>2, <3>3, IsASeq
    <3> QED BY <1>4, <2>2, <3>1, <3>2, <3>4
  <2> QED BY <2>1, <2>2
<1>6. PICK new \in SessionType : new = session[s] /\ session' = [session EXCEPT ![s] = new]
  BY <1>2, <1>3
<1>7. \A a \in DOMAIN agreement' : AgreementInv(a)'
  <2>1. /\ new.seen = session[s].seen /\ session' = [session EXCEPT ![s] = new]
        /\ UNCHANGED <<edition, overtaken>>
    BY <1>3, <1>6
  <2>2. \A a \in DOMAIN agreement :
           agreement'[a].session = agreement[a].session
           /\ agreement'[a].version = agreement[a].version
    BY <1>5
  <2>3. /\ \A a \in DOMAIN agreement : AgreementInv(a)'
        /\ \A a : agreement'[a].session = s /\ agreement'[a].version = edition
                 /\ session[s].status = "in_progress" => AgreementInv(a)'
    BY <1>1, <2>1, <2>2, AgreementsKept
  <2> QED BY <1>1, <1>5, <2>3
<1>8. Recorded(s)' = Recorded(s)
  BY <1>3 DEF Recorded
<1>9. SessionInv(s)'
  BY <1>1, <1>2, <1>3, <1>5, SessionKept DEF Sessions
<1>v. PICK next \in {"subscribe", "close"} :
         /\ request' = [request EXCEPT !.at = next]
         /\ (next = "subscribe") = session[s].subscribes
  BY <1>2, <1>3 DEF AfterAgree, SessionType
<1>10. /\ request' \in RequestType /\ request'.at = next /\ request'.of = s
       /\ request'.by = request.by /\ request'.agreed = request.agreed
  BY <1>2, <1>v, <1>s DEF RequestType
<1>11. RequestInv'
  <2>0. InProgress(s)'
    BY <1>1, <1>3, <1>5 DEF InProgress, Sessions
  <2>a. PICK a \in DOMAIN agreement' :
           agreement'[a].session = s /\ agreement'[a].results = session[s].results
    BY <1>5
  <2>b. session' = session
    BY <1>3
  <2>1. OnRecord(s)'
    BY <2>a, <2>b DEF OnRecord
  <2>2. request'.agreed # 0 => /\ request'.agreed \in DOMAIN agreement'
                              /\ agreement'[request'.agreed].session = s
    BY <1>1, <1>5, <1>10 DEF Of
  <2>3. next = "close" => ~session[s].subscribes
    BY <1>v
  <2> QED BY <1>1, <1>3, <1>8, <1>10, <1>v, <2>0, <2>1, <2>2, <2>3 DEF RequestInv, Of
<1>12. /\ new.flow = session[s].flow /\ new.subscribes = session[s].subscribes
       /\ Recorded(s) \subseteq Recorded(s)'
  BY <1>6, <1>8
<1>13. /\ agreement' \in Seq(AgreementType)
       /\ \A a \in DOMAIN agreement :
             a \in DOMAIN agreement' /\ agreement'[a].session = agreement[a].session
             /\ (agreement[a].session # s => agreement'[a].results = agreement[a].results)
  BY <1>5
<1>14. /\ session' = [session EXCEPT ![s] = new]
       /\ UNCHANGED <<flow, edition, onSale, subscribed, overtaken, refused, broken>>
       /\ request' \in RequestType
  BY <1>3, <1>6, <1>10
<1> QED BY <1>1, <1>7, <1>9, <1>11, <1>12, <1>13, <1>14, MoveStep

-----------------------------------------------------------------------------
(* What every crash and every interleaving of requests preserves.          *)
THEOREM WizardInvariant == WizardSpec => []WizardInv
<1>1. WizardInit => WizardInv
  <2> SUFFICES ASSUME WizardInit PROVE WizardInv
    OBVIOUS
  <2>1. /\ flow \in Flows /\ edition = 1 /\ session = <<>> /\ agreement = <<>> /\ broken = <<>>
        /\ onSale \in BOOLEAN /\ subscribed = {} /\ request = NoRequest
        /\ overtaken = {} /\ refused = {}
    BY DEF WizardInit
  <2>2. Sessions = {} /\ DOMAIN agreement = {}
    BY <2>1 DEF Sessions
  <2>3. WizardTypeOK
    BY <2>1, EmptySeq DEF WizardTypeOK, NoRequest
  <2>4. RequestInv /\ Subscribers
    BY <2>1 DEF RequestInv, Subscribers, NoRequest
  <2> QED BY <2>2, <2>3, <2>4 DEF WizardInv
<1>2. WizardInv /\ [WizardNext]_wizardVars => WizardInv'
  <2> SUFFICES ASSUME WizardInv, [WizardNext]_wizardVars PROVE WizardInv'
    OBVIOUS
  <2>1. CASE \E u \in Users : \E b \in BOOLEAN : StartSession(u, b)
    BY <2>1, StartStep
  <2>2. CASE \E u \in Users : \E s \in Sessions : SubmitStep(u, s)
    BY <2>2, SubmitKeeps
  <2>3. CASE AppendResult
    BY <2>3, AppendKeeps
  <2>4. CASE Advance
    BY <2>4, AdvanceKeeps
  <2>5. CASE Agree
    BY <2>5, AgreeKeeps
  <2>6. CASE Subscribe
    BY <2>6, SubscribeKeeps
  <2>7. CASE Close
    BY <2>7, CloseKeeps
  <2>8. CASE \E s \in Sessions : AbortSession(s)
    BY <2>8, AbortKeeps
  <2>9. CASE \E f \in Flows : EditWorkflow(f)
    BY <2>9, EditKeeps
  <2>10. CASE ProductChanges
    BY <2>10, ProductKeeps
  <2>11. CASE CrashInRequest
    BY <2>11, CrashKeeps
  <2>12. CASE UNCHANGED wizardVars
    <3>1. UNCHANGED <<flow, edition, session, agreement, onSale, subscribed, request,
                      overtaken, refused, broken>>
      BY <2>12 DEF wizardVars
    <3>2. /\ request \in RequestType /\ edition \in Nat /\ flow \in Flows /\ onSale \in BOOLEAN
          /\ subscribed \subseteq Users /\ overtaken \subseteq Sessions
          /\ refused \subseteq Sessions
      BY Typed DEF WizardInv, WizardTypeOK
    <3>3. RequestInv' /\ Subscribers'
      BY <3>1 DEF RequestInv, WizardInv, Subscribers, Sessions, Recorded, InProgress, Of, OnRecord
    <3> QED BY <3>1, <3>2, <3>3, QuietStep
  <2> QED BY <2>1, <2>2, <2>3, <2>4, <2>5, <2>6, <2>7, <2>8, <2>9, <2>10, <2>11, <2>12
          DEF WizardNext
<1> QED BY <1>1, <1>2, PTL DEF WizardSpec

(* Nobody is spared the wizard by an agreement to a version that was never *)
(* current, or that no session showed and no edit explains.                *)
THEOREM ConsentIsTraceable == WizardSpec => []ConsentIsExplained
<1>1. WizardInv => ConsentIsExplained
  <2> SUFFICES ASSUME WizardInv, NEW u \in Users, HasSigned(u)
               PROVE  \E a \in Signed(u) :
                         /\ agreement[a].version = edition
                         /\ \/ session[agreement[a].session].seen = edition
                            \/ agreement[a].session \in overtaken
    BY DEF ConsentIsExplained
  <2>1. PICK a \in DOMAIN agreement : a \in Signed(u) /\ agreement[a].version >= edition
    BY DEF HasSigned, Signed
  <2>2. /\ AgreementInv(a) /\ edition \in Nat /\ agreement[a].version \in Nat
        /\ agreement[a].session \in Sessions
    BY Typed DEF WizardInv, AgreementInv, AgreementType
  <2>3. session[agreement[a].session].seen \in Nat
    BY <2>2, Typed DEF SessionType
  <2> QED BY <2>1, <2>2, <2>3 DEF AgreementInv
<1> QED BY <1>1, WizardInvariant, PTL

(* A completed session has answered every step of its workflow and an      *)
(* agreement holds the answers, wherever earlier requests of it crashed.   *)
THEOREM CompletionIsRecorded == WizardSpec => []CompletedIsOnRecord
<1>1. WizardInv => CompletedIsOnRecord
  BY DEF WizardInv, CompletedIsOnRecord, SessionInv, Recorded, OnRecord
<1> QED BY <1>1, WizardInvariant, PTL

(* A subscription follows a session answered to the end; a completed       *)
(* session that subscribes tried to, and its user is subscribed unless     *)
(* that failed (_complete_session, DataProductsManager.subscribe).         *)
THEOREM CompletionSubscribes == WizardSpec => []SubscribedByCompletion
<1>1. WizardInv => SubscribedByCompletion
  BY DEF WizardInv, SubscribedByCompletion, SessionInv, Subscribers, Recorded
<1> QED BY <1>1, WizardInvariant, PTL
-----------------------------------------------------------------------------
(* How many agreements a session may have so far: one for each step behind *)
(* it that persists one and for the one under way; without such a step,    *)
(* one once it was agreed.  A crash takes back at most the one under way.  *)
AgreementsOf(s) == {a \in DOMAIN agreement : agreement[a].session = s}
PersistSteps(s) == {i \in DOMAIN session[s].flow : session[s].flow[i] = "persist"}
UnderWay(s)     == request.at # "idle" /\ request.of = s
Agreed(s)       == session[s].status = "completed"
                   \/ (UnderWay(s) /\ request.at \in {"subscribe", "close"})
CalledFor(s) ==
    IF PersistSteps(s) = {} THEN {i \in {1} : Agreed(s)}
    ELSE {i \in PersistSteps(s) :
            \/ i < session[s].at
            \/ i = session[s].at /\ (UnderWay(s) \/ session[s].status = "completed")}

AnswersPersist(s) ==
    \A i \in DOMAIN session[s].results :
        session[s].results[i].step \in PersistSteps(s) => session[s].results[i].agreed # 0

Bounded(s) == Cardinality(AgreementsOf(s)) <= Cardinality(CalledFor(s)) + broken[s]

CountInv ==
    /\ \A s \in Sessions : Bounded(s) /\ AnswersPersist(s)
    /\ request.at = "append" /\ session[request.of].at \in PersistSteps(request.of) =>
          request.agreed # 0

SetsFinite ==
    \A s \in Sessions :
        /\ IsFiniteSet(AgreementsOf(s)) /\ IsFiniteSet(PersistSteps(s))
        /\ IsFiniteSet(CalledFor(s)) /\ broken[s] \in Nat
        /\ PersistSteps(s) \subseteq Nat

LEMMA CountsAreFinite == WizardInv => SetsFinite
<1> SUFFICES ASSUME WizardInv, NEW s \in Sessions
             PROVE  /\ IsFiniteSet(AgreementsOf(s)) /\ IsFiniteSet(PersistSteps(s))
                    /\ IsFiniteSet(CalledFor(s)) /\ broken[s] \in Nat
                    /\ PersistSteps(s) \subseteq Nat
  BY DEF SetsFinite
<1>1. session[s] \in SessionType /\ DOMAIN agreement = 1 .. Len(agreement) /\ Len(agreement) \in Nat
  BY Typed
<1>2. session[s].flow \in Seq({"form", "persist"})
  BY <1>1, WizardAssumption DEF SessionType
<1>3. DOMAIN session[s].flow = 1 .. Len(session[s].flow) /\ Len(session[s].flow) \in Nat
  BY <1>2, LenProperties
<1>4. IsFiniteSet(1 .. Len(agreement)) /\ IsFiniteSet(1 .. Len(session[s].flow)) /\ IsFiniteSet({1})
  <2>1. 1 \in Int /\ Len(agreement) \in Int /\ Len(session[s].flow) \in Int
    BY <1>1, <1>3
  <2>2. IsFiniteSet(1 .. Len(agreement)) /\ IsFiniteSet(1 .. Len(session[s].flow))
    BY <2>1, FS_Interval
  <2> QED BY <2>2, FS_Singleton
<1>5. PersistSteps(s) \subseteq 1 .. Len(session[s].flow) /\ AgreementsOf(s) \subseteq 1 .. Len(agreement)
  BY <1>1, <1>3 DEF PersistSteps, AgreementsOf
<1>6. IsFiniteSet(PersistSteps(s)) /\ IsFiniteSet(AgreementsOf(s))
  BY <1>4, <1>5, FS_Subset
<1>7. CalledFor(s) \subseteq {1} \/ CalledFor(s) \subseteq PersistSteps(s)
  BY DEF CalledFor
<1>8. IsFiniteSet(CalledFor(s))
  BY <1>4, <1>6, <1>7, FS_Subset
<1>9. broken \in Seq(Nat) /\ s \in 1 .. Len(broken)
  BY Typed DEF WizardInv, WizardTypeOK
<1>10. broken[s] \in Nat
  BY <1>9, ElementOfSeq
<1> QED BY <1>3, <1>5, <1>6, <1>8, <1>10

(* An agreement more needs one more called for, or a crash to pay for it.  *)
LEMMA CountMoves ==
    ASSUME NEW A, NEW A2, NEW C, NEW C2, NEW b \in Nat, NEW b2 \in Nat,
           IsFiniteSet(A), IsFiniteSet(C), IsFiniteSet(C2),
           Cardinality(A) <= Cardinality(C) + b,
           \/ A2 = A /\ C \subseteq C2 /\ b2 = b
           \/ \E x, y : A2 = A \cup {x} /\ y \notin C /\ C \cup {y} \subseteq C2 /\ b2 = b
           \/ \E y : A2 = A /\ C \subseteq C2 \cup {y} /\ b2 = b + 1
    PROVE  Cardinality(A2) <= Cardinality(C2) + b2
<1>1. Cardinality(A) \in Nat /\ Cardinality(C) \in Nat /\ Cardinality(C2) \in Nat
  BY FS_CardinalityType
<1>2. CASE A2 = A /\ C \subseteq C2 /\ b2 = b
  <2>1. Cardinality(C) <= Cardinality(C2)
    BY <1>2, FS_Subset
  <2> QED BY <1>1, <1>2, <2>1
<1>3. CASE \E x, y : A2 = A \cup {x} /\ y \notin C /\ C \cup {y} \subseteq C2 /\ b2 = b
  <2>1. PICK x, y : A2 = A \cup {x} /\ y \notin C /\ C \cup {y} \subseteq C2 /\ b2 = b
    BY <1>3
  <2>2. Cardinality(A2) <= Cardinality(A) + 1 /\ Cardinality(A2) \in Nat
    <3>1. /\ IsFiniteSet(A \cup {x})
          /\ Cardinality(A \cup {x}) = Cardinality(A) \/ Cardinality(A \cup {x}) = Cardinality(A) + 1
      BY FS_AddElement
    <3> QED BY <1>1, <2>1, <3>1
  <2>3. Cardinality(C \cup {y}) = Cardinality(C) + 1
    BY <2>1, FS_AddElement
  <2>4. Cardinality(C \cup {y}) <= Cardinality(C2)
    BY <2>1, FS_Subset
  <2> QED BY <1>1, <2>1, <2>2, <2>3, <2>4
<1>4. CASE \E y : A2 = A /\ C \subseteq C2 \cup {y} /\ b2 = b + 1
  <2>1. PICK y : A2 = A /\ C \subseteq C2 \cup {y} /\ b2 = b + 1
    BY <1>4
  <2>2. /\ IsFiniteSet(C2 \cup {y})
        /\ Cardinality(C2 \cup {y}) = Cardinality(C2) \/ Cardinality(C2 \cup {y}) = Cardinality(C2) + 1
    BY FS_AddElement
  <2>3. Cardinality(C) <= Cardinality(C2 \cup {y})
    BY <2>1, <2>2, FS_Subset
  <2> QED BY <1>1, <2>1, <2>2, <2>3
<1> QED BY <1>2, <1>3, <1>4

LEMMA BoundMoves ==
    ASSUME WizardInv, SetsFinite', CountInv, NEW s \in Sessions, s \in Sessions',
           \/ /\ AgreementsOf(s)' = AgreementsOf(s)
              /\ CalledFor(s) \subseteq CalledFor(s)' /\ broken'[s] = broken[s]
           \/ \E x, y : /\ AgreementsOf(s)' = AgreementsOf(s) \cup {x} /\ y \notin CalledFor(s)
                        /\ CalledFor(s) \cup {y} \subseteq CalledFor(s)' /\ broken'[s] = broken[s]
           \/ \E y : /\ AgreementsOf(s)' = AgreementsOf(s)
                     /\ CalledFor(s) \subseteq CalledFor(s)' \cup {y}
                     /\ broken'[s] = broken[s] + 1
    PROVE  Bounded(s)'
<1>1. /\ IsFiniteSet(AgreementsOf(s)) /\ IsFiniteSet(CalledFor(s)) /\ broken[s] \in Nat
      /\ IsFiniteSet(CalledFor(s)') /\ broken'[s] \in Nat
      /\ Cardinality(AgreementsOf(s)) <= Cardinality(CalledFor(s)) + broken[s]
  BY CountsAreFinite DEF SetsFinite, CountInv, Bounded
<1>2. Cardinality(AgreementsOf(s)') <= Cardinality(CalledFor(s)') + broken'[s]
  <2> HIDE DEF CountInv, SetsFinite, WizardInv
  <2> QED BY <1>1, CountMoves
<1> QED BY <1>2 DEF Bounded


(* A session that keeps its place, and loses no agreement called for.      *)
LEMMA Undisturbed ==
    ASSUME WizardInv, SetsFinite', CountInv, NEW s \in Sessions, s \in Sessions',
           session'[s].flow = session[s].flow, session'[s].at = session[s].at,
           session'[s].results = session[s].results,
           session[s].status = "completed" => session'[s].status = "completed",
           Agreed(s) => Agreed(s)',
           UnderWay(s) => UnderWay(s)' \/ session'[s].status = "completed",
           AgreementsOf(s)' = AgreementsOf(s), broken'[s] = broken[s]
    PROVE  Bounded(s)' /\ AnswersPersist(s)'
<1>1. PersistSteps(s)' = PersistSteps(s)
  BY DEF PersistSteps
<1>2. CalledFor(s) \subseteq CalledFor(s)'
  BY <1>1 DEF CalledFor
<1>3. AnswersPersist(s)'
  BY <1>1 DEF CountInv, AnswersPersist
<1> QED BY <1>2, <1>3, BoundMoves

(* Steps that leave sessions, agreements and the request alone.            *)
LEMMA QuietCount ==
    ASSUME WizardInv, SetsFinite', CountInv, UNCHANGED <<session, agreement, request, broken>>
    PROVE  CountInv'
<1>1. ASSUME NEW s \in Sessions PROVE Bounded(s)' /\ AnswersPersist(s)'
  BY Undisturbed DEF Agreed, UnderWay, AgreementsOf, Sessions
<1> QED BY <1>1 DEF CountInv, Sessions, PersistSteps

LEMMA StartCount ==
    ASSUME WizardInv, SetsFinite', CountInv, NEW u \in Users, NEW b \in BOOLEAN, StartSession(u, b)
    PROVE  CountInv'
<1> DEFINE new == [status |-> "in_progress", flow |-> flow, seen |-> edition, at |-> 1,
                   results |-> <<>>, subscribes |-> b, by |-> u]
<1>1. /\ session \in Seq(SessionType) /\ Len(session) \in Nat /\ Sessions = 1 .. Len(session)
      /\ flow \in Flows /\ edition \in Nat /\ broken \in Seq(Nat) /\ Len(broken) = Len(session)
  BY Typed DEF WizardInv, WizardTypeOK
<1>n. PICK n \in Nat : n = Len(session) + 1
  BY <1>1
<1>2. new \in SessionType /\ new.results = <<>>
  BY <1>1, EmptySeq DEF SessionType, Results
<1>3. /\ session' = Append(session, new) /\ request.at = "idle" /\ broken' = Append(broken, 0)
      /\ UNCHANGED <<agreement, request>>
  BY DEF StartSession, Idle
<1> HIDE DEF new
<1>4. /\ session' \in Seq(SessionType) /\ Len(session') = n /\ session'[n] = new
      /\ \A s \in Sessions : session'[s] = session[s]
  BY <1>1, <1>n, <1>2, <1>3, AppendProperties
<1>5. DOMAIN session' = Sessions \cup {n} /\ Sessions' = Sessions \cup {n}
  BY <1>1, <1>n, <1>4, LenProperties DEF Sessions
<1>6. broken'[n] = 0 /\ \A s \in Sessions : broken'[s] = broken[s]
  <2>1. 0 \in Nat
    OBVIOUS
  <2>2. broken'[Len(broken) + 1] = 0 /\ \A s \in 1 .. Len(broken) : broken'[s] = broken[s]
    BY <1>1, <1>3, <2>1, AppendProperties
  <2> QED BY <1>1, <1>n, <2>2
<1>7. ASSUME NEW s \in Sessions PROVE Bounded(s)' /\ AnswersPersist(s)'
  <2>1. AgreementsOf(s)' = AgreementsOf(s) /\ ~UnderWay(s) /\ ~UnderWay(s)'
    BY <1>3 DEF AgreementsOf, UnderWay
  <2>2. session'[s] = session[s] /\ s \in Sessions' /\ broken'[s] = broken[s]
    BY <1>4, <1>5, <1>6
  <2>3. Agreed(s) => Agreed(s)'
    BY <1>3, <2>2 DEF Agreed, UnderWay
  <2> QED BY <2>1, <2>2, <2>3, Undisturbed
<1>8. Bounded(n)' /\ AnswersPersist(n)'
  <2>1. \A a \in DOMAIN agreement : agreement[a].session # n
    BY <1>1, <1>n DEF WizardInv, AgreementInv
  <2>2. AgreementsOf(n)' = {}
    BY <1>3, <2>1 DEF AgreementsOf
  <2>3. Cardinality(AgreementsOf(n)') = 0
    BY <2>2, FS_EmptySet
  <2>4. IsFiniteSet(CalledFor(n)')
    BY <1>5 DEF SetsFinite
  <2>5. Cardinality(CalledFor(n)') \in Nat
    BY <2>4, FS_CardinalityType
  <2>6. DOMAIN session'[n].results = {}
    BY <1>2, <1>4
  <2> QED BY <1>6, <2>3, <2>5, <2>6 DEF Bounded, AnswersPersist
<1> QED BY <1>3, <1>5, <1>7, <1>8 DEF CountInv

LEMMA SubmitCount ==
    ASSUME WizardInv, SetsFinite', CountInv, NEW u \in Users, NEW t \in Sessions, SubmitStep(u, t)
    PROVE  CountInv'
<1>1. /\ session[t] \in SessionType /\ Len(agreement) \in Nat
      /\ DOMAIN agreement = 1 .. Len(agreement) /\ session[t].status = "in_progress"
      /\ session[t].at \in DOMAIN session[t].flow
  BY Typed DEF SubmitStep, InProgress, WizardInv, SessionInv
<1>2. session[t].at \in Nat
  BY <1>1 DEF SessionType
<1> DEFINE new == [session[t] EXCEPT !.by = u]
<1>3. /\ new \in SessionType /\ new.status = session[t].status /\ new.results = session[t].results
      /\ new.flow = session[t].flow /\ new.at = session[t].at
  BY <1>1 DEF SessionType
<1>4. /\ session' = [session EXCEPT ![t] = new] /\ UNCHANGED broken /\ request.at = "idle"
      /\ request'.at = "append" /\ request'.of = t
  BY DEF SubmitStep, Idle
<1> HIDE DEF new
<1>5. /\ DOMAIN session' = Sessions /\ Sessions' = Sessions /\ session'[t] = new
      /\ \A s \in Sessions : s # t => session'[s] = session[s]
  BY <1>3, <1>4, SessionEdited DEF Sessions
<1>6. \A s \in Sessions :
         /\ session'[s].flow = session[s].flow /\ session'[s].at = session[s].at
         /\ session'[s].results = session[s].results /\ session'[s].status = session[s].status
  BY <1>3, <1>5
<1>7. /\ \A s \in Sessions : ~UnderWay(s) /\ (Agreed(s) => Agreed(s)')
      /\ \A s \in Sessions : UnderWay(s)' <=> s = t
  BY <1>4, <1>6 DEF UnderWay, Agreed
<1>8. PersistSteps(t)' = PersistSteps(t)
  BY <1>6 DEF PersistSteps
<1>9. CASE session[t].flow[session[t].at] = "persist"
  <2>1. agreement' = Append(agreement, Signature(t, u)) /\ request'.agreed = Len(agreement) + 1
    BY <1>9 DEF SubmitStep
  <2>2. /\ DOMAIN agreement' = DOMAIN agreement \cup {Len(agreement) + 1}
        /\ \A a \in DOMAIN agreement : agreement'[a] = agreement[a]
        /\ agreement'[Len(agreement) + 1].session = t
    BY <2>1, SignatureTyped, AgreementAdded
  <2>3. /\ AgreementsOf(t)' = AgreementsOf(t) \cup {Len(agreement) + 1}
        /\ \A s \in Sessions : s # t => AgreementsOf(s)' = AgreementsOf(s)
    BY <2>2 DEF AgreementsOf
  <2>4. session[t].at \in PersistSteps(t)
    BY <1>1, <1>9 DEF PersistSteps
  <2>5. session[t].at \notin CalledFor(t) /\ CalledFor(t) \cup {session[t].at} \subseteq CalledFor(t)'
    BY <1>1, <1>2, <1>5, <1>6, <1>7, <1>8, <2>4 DEF CalledFor
  <2>6. Bounded(t)'
    BY <1>4, <1>5, <2>3, <2>5, BoundMoves
  <2>7. AnswersPersist(t)'
    BY <1>5, <1>6, <1>8 DEF AnswersPersist, CountInv
  <2>8. ASSUME NEW s \in Sessions, s # t PROVE Bounded(s)' /\ AnswersPersist(s)'
    BY <1>4, <1>5, <1>6, <1>7, <2>3, <2>8, Undisturbed
  <2> QED BY <1>1, <1>5, <2>1, <2>6, <2>7, <2>8 DEF CountInv
<1>10. CASE session[t].flow[session[t].at] # "persist"
  <2>1. \A s \in Sessions : AgreementsOf(s)' = AgreementsOf(s)
    BY <1>10 DEF SubmitStep, AgreementsOf
  <2>2. ASSUME NEW s \in Sessions PROVE Bounded(s)' /\ AnswersPersist(s)'
    BY <1>4, <1>5, <1>6, <1>7, <2>1, Undisturbed
  <2>3. ~(session[request.of].at \in PersistSteps(request.of))'
    BY <1>4, <1>6, <1>8, <1>10 DEF PersistSteps
  <2> QED BY <1>4, <1>5, <2>2, <2>3 DEF CountInv
<1> QED BY <1>9, <1>10

LEMMA AppendCount ==
    ASSUME WizardInv, SetsFinite', CountInv, AppendResult
    PROVE  CountInv'
<1>s. PICK t : t = request.of
  OBVIOUS
<1>1. /\ request.at = "append" /\ t \in Sessions /\ session[t] \in SessionType
      /\ request \in RequestType /\ session[t].results \in Results
  BY <1>s, Typed DEF AppendResult, WizardInv, RequestInv, InProgress, SessionType
<1>e. PICK e : e = [step |-> session[t].at, agreed |-> request.agreed]
  OBVIOUS
<1>2. e \in [step: Nat, agreed: Nat] /\ e.step = session[t].at /\ e.agreed = request.agreed
  BY <1>1, <1>e DEF RequestType, SessionType
<1>r. PICK r : r = Append(session[t].results, e)
  OBVIOUS
<1>3. /\ r \in Results
      /\ DOMAIN r = DOMAIN session[t].results \cup {Len(session[t].results) + 1}
      /\ \A i \in DOMAIN session[t].results : r[i] = session[t].results[i]
      /\ r[Len(session[t].results) + 1] = e
  <2>1. /\ r \in Results /\ Len(r) = Len(session[t].results) + 1
        /\ \A i \in 1 .. Len(session[t].results) : r[i] = session[t].results[i]
        /\ r[Len(session[t].results) + 1] = e
    BY <1>1, <1>2, <1>r, AppendProperties DEF Results
  <2>2. /\ DOMAIN r = 1 .. Len(r) /\ DOMAIN session[t].results = 1 .. Len(session[t].results)
        /\ Len(session[t].results) \in Nat
    BY <1>1, <2>1, LenProperties DEF Results
  <2> QED BY <2>1, <2>2
<1> DEFINE new == [session[t] EXCEPT !.results = r]
<1>4. /\ new \in SessionType /\ new.status = session[t].status /\ new.results = r
      /\ new.flow = session[t].flow /\ new.at = session[t].at
  BY <1>1, <1>3 DEF SessionType
<1>5. /\ session' = [session EXCEPT ![t] = new] /\ UNCHANGED <<agreement, broken>>
      /\ request'.of = t /\ request'.at \in {"advance", "agree"}
  BY <1>s, <1>e, <1>r, <1>1 DEF AppendResult, RequestType
<1> HIDE DEF new
<1>6. /\ DOMAIN session' = Sessions /\ Sessions' = Sessions /\ session'[t] = new
      /\ \A s \in Sessions : s # t => session'[s] = session[s]
  BY <1>1, <1>4, <1>5, SessionEdited DEF Sessions
<1>7. \A s \in Sessions :
         /\ session'[s].flow = session[s].flow /\ session'[s].at = session[s].at
         /\ session'[s].status = session[s].status
         /\ UnderWay(s)' = UnderWay(s) /\ (Agreed(s) => Agreed(s)')
         /\ AgreementsOf(s)' = AgreementsOf(s) /\ PersistSteps(s)' = PersistSteps(s)
  BY <1>s, <1>1, <1>4, <1>5, <1>6 DEF UnderWay, Agreed, AgreementsOf, PersistSteps
<1>8. Bounded(t)'
  <2>1. CalledFor(t) \subseteq CalledFor(t)'
    BY <1>1, <1>7 DEF CalledFor
  <2> QED BY <1>1, <1>5, <1>6, <1>7, <2>1, BoundMoves
<1>9. AnswersPersist(t)'
  <2>1. \A i \in DOMAIN r : r[i].step \in PersistSteps(t) => r[i].agreed # 0
    BY <1>s, <1>1, <1>2, <1>3 DEF CountInv, AnswersPersist
  <2> QED BY <1>1, <1>4, <1>6, <1>7, <2>1 DEF AnswersPersist
<1>10. ASSUME NEW s \in Sessions, s # t PROVE Bounded(s)' /\ AnswersPersist(s)'
  BY <1>5, <1>6, <1>7, <1>10, Undisturbed
<1> QED BY <1>5, <1>6, <1>8, <1>9, <1>10 DEF CountInv

LEMMA AdvanceCount ==
    ASSUME WizardInv, SetsFinite', CountInv, Advance
    PROVE  CountInv'
<1>s. PICK t : t = request.of
  OBVIOUS
<1>1. /\ request.at = "advance" /\ t \in Sessions /\ session[t] \in SessionType
      /\ session[t].at \in Nat /\ session[t].status = "in_progress"
      /\ PersistSteps(t) \subseteq Nat
  BY <1>s, Typed, CountsAreFinite
     DEF Advance, WizardInv, RequestInv, InProgress, SessionType, SetsFinite
<1>a. PICK at \in Nat : at = session[t].at + 1
  BY <1>1
<1> DEFINE new == [session[t] EXCEPT !.at = at]
<1>2. /\ new \in SessionType /\ new.status = session[t].status
      /\ new.results = session[t].results /\ new.flow = session[t].flow /\ new.at = at
  BY <1>1 DEF SessionType
<1>3. /\ session' = [session EXCEPT ![t] = new] /\ UNCHANGED <<agreement, broken>>
      /\ request'.at = "idle"
  BY <1>s, <1>a DEF Advance, NoRequest
<1> HIDE DEF new
<1>4. /\ DOMAIN session' = Sessions /\ Sessions' = Sessions /\ session'[t] = new
      /\ \A s \in Sessions : s # t => session'[s] = session[s]
  BY <1>1, <1>2, <1>3, SessionEdited DEF Sessions
<1>5. \A s \in Sessions : AgreementsOf(s)' = AgreementsOf(s)
  BY <1>3 DEF AgreementsOf
<1>6. PersistSteps(t)' = PersistSteps(t)
  BY <1>2, <1>4 DEF PersistSteps
<1>7. Bounded(t)'
  <2>1. ~Agreed(t)
    BY <1>1 DEF Agreed
  <2>2. CalledFor(t) \subseteq CalledFor(t)'
    BY <1>1, <1>2, <1>4, <1>6, <1>a, <2>1 DEF CalledFor
  <2> QED BY <1>1, <1>3, <1>4, <1>5, <2>2, BoundMoves
<1>8. AnswersPersist(t)'
  BY <1>1, <1>2, <1>4, <1>6 DEF CountInv, AnswersPersist
<1>9. ASSUME NEW s \in Sessions, s # t PROVE Bounded(s)' /\ AnswersPersist(s)'
  <2>1. ~UnderWay(s) /\ (Agreed(s) => Agreed(s)')
    <3>1. ~UnderWay(s)
      BY <1>s, <1>9 DEF UnderWay
    <3>2. session'[s] = session[s]
      BY <1>4, <1>9
    <3> QED BY <3>1, <3>2 DEF Agreed
  <2> QED BY <1>3, <1>4, <1>5, <1>9, <2>1, Undisturbed
<1> QED BY <1>3, <1>4, <1>7, <1>8, <1>9 DEF CountInv

(* When every step is answered and none stored an agreement, none had to.  *)
LEMMA NothingPersisted ==
    ASSUME WizardInv, CountInv, NEW s \in Sessions, Recorded(s) = DOMAIN session[s].flow,
           Persisted(s) = {}
    PROVE  PersistSteps(s) = {}
<1> DEFINE results == session[s].results
           signed  == {i \in DOMAIN results : results[i].agreed # 0}
<1>1. results \in Results
  BY Typed DEF SessionType
<1>2. DOMAIN results \subseteq Nat
  BY <1>1, LenProperties DEF Results
<1>3. ASSUME signed # {} PROVE FALSE
  <2>1. PICK n \in signed : \A m \in signed : n <= m
    <3>1. signed \subseteq Nat
      BY <1>2
    <3>2. PICK n \in signed : \A m \in signed : <<m, n>> \notin OpToRel(<, Nat)
      <4> HIDE DEF signed
      <4> QED BY <1>3, <3>1, NatLessThanWellFounded, WFMin
    <3>3. \A m \in signed : ~(m < n)
      BY <3>1, <3>2 DEF OpToRel
    <3> QED BY <3>1, <3>3
  <2>2. results[n].agreed \in Persisted(s)
    BY <2>1 DEF Persisted
  <2> QED BY <2>2
<1>4. ASSUME NEW i \in PersistSteps(s) PROVE FALSE
  <2>1. i \in Recorded(s)
    BY <1>4 DEF PersistSteps
  <2>2. PICK j \in DOMAIN results : results[j].step = i
    BY <2>1 DEF Recorded
  <2>3. j \in signed
    BY <1>4, <2>2 DEF CountInv, AnswersPersist
  <2> QED BY <1>3, <2>3
<1> QED BY <1>4

LEMMA AgreeCount ==
    ASSUME WizardInv, SetsFinite', CountInv, Agree
    PROVE  CountInv'
<1>s. PICK t : t = request.of
  OBVIOUS
<1>1. /\ request.at = "agree" /\ t \in Sessions /\ Recorded(t) = DOMAIN session[t].flow
      /\ session[t].status = "in_progress" /\ request \in RequestType
      /\ request.by \in Users /\ Len(agreement) \in Nat
      /\ \A a \in DOMAIN agreement : agreement[a] \in AgreementType
  <2>1. /\ request.at = "agree" /\ InProgress(t) /\ Recorded(t) = DOMAIN session[t].flow
        /\ session[t].by = request.by
    BY <1>s DEF Agree, WizardInv, RequestInv
  <2> QED BY <2>1, Typed DEF InProgress, SessionType
<1>2. /\ UNCHANGED <<session, broken>> /\ request'.of = t
      /\ request'.at \in {"subscribe", "close"}
  BY <1>s, <1>1 DEF Agree, AfterAgree, RequestType
<1>3. /\ Sessions' = Sessions
      /\ \A s \in Sessions : PersistSteps(s)' = PersistSteps(s) /\ UnderWay(s)' = UnderWay(s)
      /\ \A s \in Sessions : Agreed(s) => Agreed(s)'
      /\ Agreed(t)' /\ ~Agreed(t)
  BY <1>s, <1>1, <1>2 DEF Sessions, PersistSteps, UnderWay, Agreed
<1>4. CASE Persisted(t) = {}
  <2>1. agreement' = Append(agreement, Signature(t, request.by))
    BY <1>s, <1>4 DEF Agree
  <2>2. /\ DOMAIN agreement' = DOMAIN agreement \cup {Len(agreement) + 1}
        /\ \A a \in DOMAIN agreement : agreement'[a] = agreement[a]
        /\ agreement'[Len(agreement) + 1].session = t
    BY <1>1, <2>1, SignatureTyped, AgreementAdded
  <2>3. /\ AgreementsOf(t)' = AgreementsOf(t) \cup {Len(agreement) + 1}
        /\ \A s \in Sessions : s # t => AgreementsOf(s)' = AgreementsOf(s)
    BY <2>2 DEF AgreementsOf
  <2>4. PersistSteps(t) = {}
    BY <1>1, <1>4, NothingPersisted
  <2>5. 1 \notin CalledFor(t) /\ CalledFor(t) \cup {1} \subseteq CalledFor(t)'
    BY <1>1, <1>3, <2>4 DEF CalledFor
  <2>6. Bounded(t)'
    BY <1>1, <1>2, <1>3, <2>3, <2>5, BoundMoves
  <2>7. AnswersPersist(t)'
    BY <1>1, <1>2, <1>3 DEF AnswersPersist, CountInv
  <2>8. ASSUME NEW s \in Sessions, s # t PROVE Bounded(s)' /\ AnswersPersist(s)'
    BY <1>2, <1>3, <2>3, <2>8, Undisturbed
  <2> QED BY <1>2, <1>3, <2>6, <2>7, <2>8 DEF CountInv
<1>5. CASE Persisted(t) # {}
  <2>1. /\ DOMAIN agreement' = DOMAIN agreement
        /\ \A a \in DOMAIN agreement :
              agreement'[a] = IF a \in Persisted(t)
                              THEN [agreement[a] EXCEPT !.results = session[t].results]
                              ELSE agreement[a]
    BY <1>s, <1>5 DEF Agree
  <2>2. \A a \in DOMAIN agreement : agreement'[a].session = agreement[a].session
    <3> TAKE a \in DOMAIN agreement
    <3>1. agreement[a] \in AgreementType
      BY <1>1
    <3> QED BY <2>1, <3>1 DEF AgreementType
  <2>3. \A s \in Sessions : AgreementsOf(s)' = AgreementsOf(s)
    BY <2>1, <2>2 DEF AgreementsOf
  <2>4. ASSUME NEW s \in Sessions PROVE Bounded(s)' /\ AnswersPersist(s)'
    BY <1>2, <1>3, <2>3, Undisturbed
  <2> QED BY <1>2, <1>3, <2>4 DEF CountInv
<1> QED BY <1>4, <1>5

LEMMA SubscribeCount ==
    ASSUME WizardInv, SetsFinite', CountInv, Subscribe
    PROVE  CountInv'
<1>1. /\ UNCHANGED <<session, agreement, broken>> /\ request.at = "subscribe"
      /\ request'.of = request.of /\ request'.at = "close"
  BY Typed DEF Subscribe, RequestType
<1>2. Sessions' = Sessions
  BY <1>1 DEF Sessions
<1>3. ASSUME NEW s \in Sessions PROVE Bounded(s)' /\ AnswersPersist(s)'
  BY <1>1, <1>2, Undisturbed DEF UnderWay, Agreed, AgreementsOf
<1> QED BY <1>1, <1>2, <1>3 DEF CountInv

LEMMA EndCount ==
    ASSUME WizardInv, SetsFinite', CountInv, NEW t \in Sessions, NEW st \in {"completed", "abandoned"},
           session[t].status = "in_progress",
           session' = [session EXCEPT ![t].status = st],
           UNCHANGED <<agreement, broken>>, request'.at = "idle",
           request.at = "idle" \/ (request.of = t /\ st = "completed")
    PROVE  CountInv'
<1> DEFINE new == [session[t] EXCEPT !.status = st]
<1>1. session[t] \in SessionType
  BY Typed
<1>2. /\ new \in SessionType /\ new.status = st
      /\ new.results = session[t].results /\ new.flow = session[t].flow
      /\ new.at = session[t].at
  BY <1>1 DEF SessionType
<1>3. session' = [session EXCEPT ![t] = new]
  OBVIOUS
<1> HIDE DEF new
<1>4. /\ DOMAIN session' = Sessions /\ Sessions' = Sessions /\ session'[t] = new
      /\ \A s \in Sessions : s # t => session'[s] = session[s]
  BY <1>2, <1>3, SessionEdited DEF Sessions
<1>5. \A s \in Sessions :
         /\ session'[s].flow = session[s].flow /\ session'[s].at = session[s].at
         /\ session'[s].results = session[s].results
         /\ session[s].status = "completed" => session'[s].status = "completed"
         /\ AgreementsOf(s)' = AgreementsOf(s)
  BY <1>2, <1>4 DEF AgreementsOf
<1>6. \A s \in Sessions : UnderWay(s) => session'[s].status = "completed"
  BY <1>2, <1>4 DEF UnderWay
<1>7. \A s \in Sessions : Agreed(s) => Agreed(s)'
  BY <1>5, <1>6 DEF Agreed
<1>8. ASSUME NEW s \in Sessions PROVE Bounded(s)' /\ AnswersPersist(s)'
  BY <1>4, <1>5, <1>6, <1>7, Undisturbed
<1> QED BY <1>4, <1>8 DEF CountInv

LEMMA CrashCount ==
    ASSUME WizardInv, SetsFinite', CountInv, CrashInRequest
    PROVE  CountInv'
<1>s. PICK t : t = request.of
  OBVIOUS
<1>1. /\ t \in Sessions /\ UNCHANGED <<session, agreement>> /\ request'.at = "idle"
      /\ broken' = [broken EXCEPT ![t] = broken[t] + 1]
      /\ broken \in Seq(Nat) /\ Sessions = 1 .. Len(broken) /\ DOMAIN broken = 1 .. Len(broken)
      /\ session[t].status = "in_progress"
  <2>1. /\ t \in Sessions /\ UNCHANGED <<session, agreement>> /\ request'.at = "idle"
        /\ broken' = [broken EXCEPT ![t] = broken[t] + 1] /\ session[t].status = "in_progress"
    BY <1>s DEF CrashInRequest, Idle, WizardInv, RequestInv, InProgress, NoRequest
  <2>2. broken \in Seq(Nat) /\ Sessions = 1 .. Len(broken)
    BY Typed DEF WizardInv, WizardTypeOK
  <2> QED BY <2>1, <2>2, LenProperties
<1>2. /\ Sessions' = Sessions /\ broken'[t] = broken[t] + 1
      /\ \A s \in Sessions : s # t => broken'[s] = broken[s]
  BY <1>1 DEF Sessions
<1>3. \A s \in Sessions : /\ AgreementsOf(s)' = AgreementsOf(s)
                          /\ PersistSteps(s)' = PersistSteps(s)
  BY <1>1 DEF AgreementsOf, PersistSteps
<1>4. Bounded(t)'
  <2>1. CASE PersistSteps(t) = {}
    <3>1. CalledFor(t) \subseteq CalledFor(t)' \cup {1}
      BY <2>1 DEF CalledFor
    <3> QED BY <1>1, <1>2, <1>3, <3>1, BoundMoves
  <2>2. CASE PersistSteps(t) # {}
    <3>1. CalledFor(t) \subseteq CalledFor(t)' \cup {session[t].at}
      BY <1>1, <1>3, <2>2 DEF CalledFor
    <3> QED BY <1>1, <1>2, <1>3, <3>1, BoundMoves
  <2> QED BY <2>1, <2>2
<1>5. AnswersPersist(t)'
  BY <1>1, <1>3 DEF CountInv, AnswersPersist
<1>6. ASSUME NEW s \in Sessions, s # t PROVE Bounded(s)' /\ AnswersPersist(s)'
  <2>1. ~UnderWay(s)
    BY <1>s, <1>6 DEF UnderWay
  <2>2. Agreed(s) => Agreed(s)'
    BY <1>1, <2>1 DEF Agreed
  <2> QED BY <1>1, <1>2, <1>3, <1>6, <2>1, <2>2, Undisturbed
<1> QED BY <1>1, <1>2, <1>4, <1>5, <1>6 DEF CountInv

(* However often a user submits a step and wherever requests crash, a      *)
(* session has one agreement, or one per step that persists one, and at    *)
(* most one more for each crash.                                           *)
THEOREM AgreementsAreCounted == WizardSpec => []OneAgreementPerSession
<1>1. WizardInit => CountInv
  BY DEF WizardInit, CountInv, Sessions, NoRequest
<1>2. WizardInv /\ WizardInv' /\ CountInv /\ [WizardNext]_wizardVars => CountInv'
  <2> SUFFICES ASSUME WizardInv, WizardInv', CountInv, [WizardNext]_wizardVars PROVE CountInv'
    OBVIOUS
  <2>0. SetsFinite'
    BY CountsAreFinite, PTL
  <2>1. CASE \E u \in Users : \E b \in BOOLEAN : StartSession(u, b)
    BY <2>0, <2>1, StartCount
  <2>2. CASE \E u \in Users : \E s \in Sessions : SubmitStep(u, s)
    BY <2>0, <2>2, SubmitCount
  <2>3. CASE AppendResult
    BY <2>0, <2>3, AppendCount
  <2>4. CASE Advance
    BY <2>0, <2>4, AdvanceCount
  <2>5. CASE Agree
    BY <2>0, <2>5, AgreeCount
  <2>6. CASE Subscribe
    BY <2>0, <2>6, SubscribeCount
  <2>7. CASE Close
    <3>1. /\ request.of \in Sessions /\ session[request.of].status = "in_progress"
          /\ session' = [session EXCEPT ![request.of].status = "completed"]
          /\ UNCHANGED <<agreement, broken>> /\ request'.at = "idle"
      BY <2>7 DEF Close, WizardInv, RequestInv, InProgress, NoRequest
    <3> QED BY <2>0, <3>1, EndCount
  <2>8. CASE \E s \in Sessions : AbortSession(s)
    <3>1. PICK s \in Sessions : AbortSession(s)
      BY <2>8
    <3>2. /\ session[s].status = "in_progress" /\ request.at = "idle" /\ request'.at = "idle"
          /\ session' = [session EXCEPT ![s].status = "abandoned"]
          /\ UNCHANGED <<agreement, broken>>
      BY <3>1 DEF AbortSession, Idle, InProgress
    <3> QED BY <2>0, <3>2, EndCount
  <2>9. CASE \E f \in Flows : EditWorkflow(f)
    BY <2>0, <2>9, QuietCount DEF EditWorkflow
  <2>10. CASE ProductChanges
    BY <2>0, <2>10, QuietCount DEF ProductChanges
  <2>11. CASE CrashInRequest
    BY <2>0, <2>11, CrashCount
  <2>12. CASE UNCHANGED wizardVars
    BY <2>0, <2>12, QuietCount DEF wizardVars
  <2> QED BY <2>1, <2>2, <2>3, <2>4, <2>5, <2>6, <2>7, <2>8, <2>9, <2>10, <2>11, <2>12
          DEF WizardNext
<1>3. WizardInv /\ CountInv => OneAgreementPerSession
  <2> SUFFICES ASSUME WizardInv, CountInv, NEW s \in Sessions
               PROVE  Cardinality(AgreementsOf(s))
                         <= (IF PersistSteps(s) = {} THEN 1 ELSE Cardinality(PersistSteps(s)))
                            + broken[s]
    BY DEF OneAgreementPerSession, AgreementsOf, PersistSteps
  <2>1. /\ IsFiniteSet(AgreementsOf(s)) /\ IsFiniteSet(PersistSteps(s))
        /\ IsFiniteSet(CalledFor(s)) /\ broken[s] \in Nat
        /\ Cardinality(AgreementsOf(s)) <= Cardinality(CalledFor(s)) + broken[s]
    BY CountsAreFinite DEF SetsFinite, CountInv, Bounded
  <2>2. /\ Cardinality(AgreementsOf(s)) \in Nat /\ Cardinality(PersistSteps(s)) \in Nat
        /\ Cardinality(CalledFor(s)) \in Nat
    BY <2>1, FS_CardinalityType
  <2>3. CASE PersistSteps(s) = {}
    <3>1. CalledFor(s) \subseteq {1} /\ IsFiniteSet({1}) /\ Cardinality({1}) = 1
      BY <2>3, FS_Singleton DEF CalledFor
    <3>2. Cardinality(CalledFor(s)) <= 1
      BY <3>1, FS_Subset
    <3> QED BY <2>1, <2>2, <2>3, <3>2
  <2>4. CASE PersistSteps(s) # {}
    <3>1. CalledFor(s) \subseteq PersistSteps(s)
      BY <2>4 DEF CalledFor
    <3>2. Cardinality(CalledFor(s)) <= Cardinality(PersistSteps(s))
      BY <2>1, <3>1, FS_Subset
    <3> QED BY <2>1, <2>2, <2>4, <3>2
  <2> QED BY <2>3, <2>4
<1> QED BY <1>1, <1>2, <1>3, WizardInvariant, PTL DEF WizardSpec
=============================================================================
