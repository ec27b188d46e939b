--------------------------- MODULE AgreementWizard ---------------------------
(***************************************************************************)
(* The wizard in which users walk through an approval workflow and sign an *)
(* agreement (controller/agreement_wizard_manager.py and its two           *)
(* repositories).  A request runs alone on the event loop but commits      *)
(* several times on its way, so a crash may leave any prefix of it, and    *)
(* the user comes back and submits the step again.  A workflow is a list   *)
(* of steps in which each passes to the next; payloads, PDFs and           *)
(* deliveries are left out.  There is one workflow and one product.        *)
(***************************************************************************)
EXTENDS Governance, Sequences

CONSTANTS
    Flows,        \* lists of steps, each "form" or "persist"
    MaxSessions,  \* bound on wizard sessions
    MaxVersion,   \* bound on the version of the workflow
    MaxBreaks     \* no more crashes once a session had that many

ASSUME WizardAssumption ==
    /\ \A f \in Flows : f \in Seq({"form", "persist"}) /\ f # <<>>
    /\ MaxSessions \in Nat /\ MaxVersion \in Nat /\ MaxBreaks \in Nat

VARIABLES
    flow,        \* the steps of the workflow
    edition,     \* its version, which every change counts up
    session,     \* agreement_wizard_sessions, in the order of creation
    agreement,   \* agreements, in the order of creation
    onSale,      \* the product is active or certified
    subscribed,  \* who subscribed to it (unsubscribing is left out)
    request,     \* the submission under way
    overtaken,   \* history: sessions that were open when the workflow changed
    refused,     \* history: sessions whose subscription failed
    broken       \* crashes in each session

wizardVars == <<flow, edition, session, agreement, onSale, subscribed, request,
                overtaken, refused, broken>>

-----------------------------------------------------------------------------
NoRequest == [at |-> "idle", of |-> 0, by |-> NULL, agreed |-> 0]
Idle      == request.at = "idle"
Sessions  == DOMAIN session
InProgress(s) == s \in Sessions /\ session[s].status = "in_progress"

(* The session keeps the steps and the version of its workflow. *)
StartSession(u, subscribes) ==
    /\ Idle /\ Len(session) < MaxSessions
    /\ session' = Append(session,
          [status |-> "in_progress", flow |-> flow, seen |-> edition, at |-> 1,
           results |-> <<>>, subscribes |-> subscribes, by |-> u])
    /\ broken' = Append(broken, 0)
    /\ UNCHANGED <<flow, edition, agreement, onSale, subscribed, request, overtaken, refused>>

(* agreements_repo.create, with the version the workflow has now. *)
Signature(s, u) ==
    [session |-> s, user |-> u, version |-> edition, results |-> session[s].results]

(* submit_step: a persist_agreement step creates the agreement first. *)
SubmitStep(u, s) ==
    /\ Idle /\ InProgress(s)
    /\ session[s].at <= Len(session[s].flow)
    /\ session' = [session EXCEPT ![s].by = u]
    /\ IF session[s].flow[session[s].at] = "persist"
       THEN /\ agreement' = Append(agreement, Signature(s, u))
            /\ request' = [at |-> "append", of |-> s, by |-> u, agreed |-> Len(agreement) + 1]
       ELSE /\ request' = [at |-> "append", of |-> s, by |-> u, agreed |-> 0]
            /\ UNCHANGED agreement
    /\ UNCHANGED <<flow, edition, onSale, subscribed, overtaken, refused, broken>>

(* append_step_result; the last step completes the session. *)
AppendResult ==
    LET s == request.of IN
    /\ request.at = "append"
    /\ session' = [session EXCEPT ![s].results =
                      Append(@, [step |-> session[s].at, agreed |-> request.agreed])]
    /\ request' = [request EXCEPT !.at =
                      IF session[s].at < Len(session[s].flow) THEN "advance" ELSE "agree"]
    /\ UNCHANGED <<flow, edition, agreement, onSale, subscribed, overtaken, refused, broken>>

(* set_current_step_index ends the request. *)
Advance ==
    /\ request.at = "advance"
    /\ session' = [session EXCEPT ![request.of].at = @ + 1]
    /\ request' = NoRequest
    /\ UNCHANGED <<flow, edition, agreement, onSale, subscribed, overtaken, refused, broken>>

(* The agreement of the first persist_agreement step that was recorded. *)
Persisted(s) ==
    LET results == session[s].results
        signed  == {i \in DOMAIN results : results[i].agreed # 0}
    IN  {results[i].agreed : i \in {i \in signed : \A j \in signed : i <= j}}

AfterAgree(s) == IF session[s].subscribes THEN "subscribe" ELSE "close"

(* Mutant: the session counts as completed before its effects took place. *)
AgreeAndClose ==
    LET s == request.of IN
    /\ request.at = "agree"
    /\ agreement' = IF Persisted(s) = {} THEN Append(agreement, Signature(s, request.by))
                    ELSE agreement
    /\ session' = [session EXCEPT ![s].status = "completed"]
    /\ request' = [request EXCEPT !.at = AfterAgree(s)]
    /\ UNCHANGED <<flow, edition, onSale, subscribed, overtaken, refused, broken>>

(* Mutant: the agreement of the persist_agreement step is overlooked. *)
AgreeAnew ==
    LET s == request.of IN
    /\ request.at = "agree"
    /\ agreement' = Append(agreement, Signature(s, request.by))
    /\ request' = [request EXCEPT !.at = AfterAgree(s)]
    /\ UNCHANGED <<flow, edition, session, onSale, subscribed, overtaken, refused, broken>>

(* Mutant: an agreement that exists is left as it is. *)
AgreeOnce ==
    LET s == request.of IN
    /\ request.at = "agree"
    /\ agreement' = IF Persisted(s) = {} THEN Append(agreement, Signature(s, request.by))
                    ELSE agreement
    /\ request' = [request EXCEPT !.at = AfterAgree(s)]
    /\ UNCHANGED <<flow, edition, session, onSale, subscribed, overtaken, refused, broken>>

(* The first part of _complete_session. *)
Agree ==
    LET s == request.of IN
    /\ request.at = "agree"
    /\ agreement' = IF Persisted(s) = {} THEN Append(agreement, Signature(s, request.by))
                    ELSE [a \in DOMAIN agreement |->
                            IF a \in Persisted(s)
                            THEN [agreement[a] EXCEPT !.results = session[s].results]
                            ELSE agreement[a]]
    /\ request' = [request EXCEPT !.at = AfterAgree(s)]
    /\ UNCHANGED <<flow, edition, session, onSale, subscribed, overtaken, refused, broken>>

(* DataProductsManager.subscribe.  It fails for a product that is off sale *)
(* or gone, for a group or service principal nobody knows, and when the    *)
(* database fails; the wizard only logs that and goes on to complete.      *)
Subscribe ==
    /\ request.at = "subscribe"
    /\ \/ /\ onSale
          /\ subscribed' = subscribed \cup {request.by}
          /\ UNCHANGED refused
       \/ /\ refused' = refused \cup {request.of}
          /\ UNCHANGED subscribed
    /\ request' = [request EXCEPT !.at = "close"]
    /\ UNCHANGED <<flow, edition, session, agreement, onSale, overtaken, broken>>

(* set_completed *)
Close ==
    /\ request.at = "close"
    /\ session' = [session EXCEPT ![request.of].status = "completed"]
    /\ request' = NoRequest
    /\ UNCHANGED <<flow, edition, agreement, onSale, subscribed, overtaken, refused, broken>>

AbortSession(s) ==
    /\ Idle /\ InProgress(s)
    /\ session' = [session EXCEPT ![s].status = "abandoned"]
    /\ UNCHANGED <<flow, edition, agreement, onSale, subscribed, request, overtaken,
                   refused, broken>>

(* update and toggle_active of the workflow; the latter keeps the steps. *)
EditWorkflow(f) ==
    /\ Idle /\ edition < MaxVersion
    /\ flow' = f
    /\ edition' = edition + 1
    /\ overtaken' = overtaken \cup {s \in Sessions : InProgress(s)}
    /\ UNCHANGED <<session, agreement, onSale, subscribed, request, refused, broken>>

(* Workflow threads change the product at any time. *)
ProductChanges ==
    /\ onSale' = ~onSale
    /\ UNCHANGED <<flow, edition, session, agreement, subscribed, request, overtaken,
                   refused, broken>>

CrashInRequest ==
    /\ ~Idle /\ \A s \in Sessions : broken[s] < MaxBreaks
    /\ broken' = [broken EXCEPT ![request.of] = @ + 1]
    /\ request' = NoRequest
    /\ UNCHANGED <<flow, edition, session, agreement, onSale, subscribed, overtaken, refused>>

-----------------------------------------------------------------------------
Signed(u) == {a \in DOMAIN agreement : agreement[a].user = u}

(* Mutant: any agreement of the user will do. *)
SignedOnce(u) == Signed(u) # {}

(* has_user_signed_workflow_at_version, at the current version. *)
HasSigned(u) == \E a \in Signed(u) : agreement[a].version >= edition

-----------------------------------------------------------------------------
WizardInit ==
    /\ flow \in Flows /\ edition = 1
    /\ session = <<>> /\ agreement = <<>> /\ broken = <<>>
    /\ onSale \in BOOLEAN /\ subscribed = {}
    /\ request = NoRequest
    /\ overtaken = {} /\ refused = {}

WizardNext ==
    \/ \E u \in Users :
          \/ \E b \in BOOLEAN : StartSession(u, b)
          \/ \E s \in Sessions : SubmitStep(u, s)
    \/ AppendResult \/ Advance \/ Agree \/ Subscribe \/ Close
    \/ \E s \in Sessions : AbortSession(s)
    \/ \E f \in Flows : EditWorkflow(f)
    \/ ProductChanges \/ CrashInRequest

WizardSpec == WizardInit /\ [][WizardNext]_wizardVars

-----------------------------------------------------------------------------
Results == Seq([step: Nat, agreed: Nat])

(* The state is well formed.                                               *)
WizardTypeOK ==
    /\ flow \in Flows /\ edition \in Nat /\ onSale \in BOOLEAN
    /\ session \in Seq([status: {"in_progress", "completed", "abandoned"}, flow: Flows,
                        seen: Nat, at: Nat, results: Results, subscribes: BOOLEAN, by: Users])
    /\ agreement \in Seq([session: Nat, user: Users, version: Nat, results: Results])
    /\ request \in [at: {"idle", "append", "advance", "agree", "subscribe", "close"},
                    of: Nat, by: Users \cup {NULL}, agreed: Nat]
    /\ subscribed \subseteq Users /\ overtaken \subseteq Sessions /\ refused \subseteq Sessions
    /\ broken \in Seq(Nat) /\ Len(broken) = Len(session)

(* A user who is not asked again has signed the current version, in a      *)
(* session that showed it; or the workflow was changed while the session   *)
(* was open, whose agreement then carries a version nobody was shown.      *)
ConsentIsExplained ==
    \A u \in Users :
        HasSigned(u) =>
            \E a \in Signed(u) :
                /\ agreement[a].version = edition
                /\ \/ session[agreement[a].session].seen = edition
                   \/ agreement[a].session \in overtaken

(* A session has one agreement, or one for each step of it that persists   *)
(* one, however often its steps are submitted; each crash in the middle of *)
(* them may leave one more.                                                *)
OneAgreementPerSession ==
    \A s \in Sessions :
        LET persists == {i \in DOMAIN session[s].flow : session[s].flow[i] = "persist"}
        IN  Cardinality({a \in DOMAIN agreement : agreement[a].session = s})
               <= (IF persists = {} THEN 1 ELSE Cardinality(persists)) + broken[s]

(* What a completed session asked is on record in an agreement of it, with *)
(* every answer, those after the agreement was first stored included.      *)
CompletedIsOnRecord ==
    \A s \in Sessions :
        session[s].status = "completed" =>
            /\ {session[s].results[i].step : i \in DOMAIN session[s].results}
                  = DOMAIN session[s].flow
            /\ \E a \in DOMAIN agreement :
                  agreement[a].session = s /\ agreement[a].results = session[s].results

(* Whoever completed a session that subscribes is subscribed, unless the   *)
(* attempt to subscribe failed, for whatever reason: no crash or second    *)
(* submission completes a session that never tried.  And nobody is         *)
(* subscribed by a session that was not answered to the end.               *)
SubscribedByCompletion ==
    /\ \A s \in Sessions :
          session[s].status = "completed" /\ session[s].subscribes =>
              session[s].by \in subscribed \/ s \in refused
    /\ \A u \in subscribed :
          \E s \in Sessions :
              /\ session[s].subscribes
              /\ {session[s].results[i].step : i \in DOMAIN session[s].results}
                    = DOMAIN session[s].flow
=============================================================================
