--------------------------- MODULE SigningWorkflow ---------------------------
(***************************************************************************)
(* The signing page, apps/web/app/_components/signing-workflow.tsx: its    *)
(* React state, and its requests in flight.  A handler runs up to its      *)
(* first await when the user clicks; the rest runs when the answer comes,  *)
(* on the values the handler captured, which the record of the request     *)
(* holds, and writes the page's state whatever happened in between.  A     *)
(* handler that animates an amount goes on when the animation ends, which  *)
(* is an answer like the others.                                           *)
(*                                                                         *)
(* Around the page: the service publishes snapshots and answers from the   *)
(* one it serves (at any time between the request and its answer), the     *)
(* wallet answers, refuses or fails, a refresh brings the page another     *)
(* snapshot, and time passes.                                              *)
(***************************************************************************)
EXTENDS SigningGuard, Sequences

CONSTANTS
  Actions,           \* the actions the user tries: shield, withdraw
  MaxRequests,       \* bound: requests in one behaviour
  MaxInFlight,       \* bound: requests in flight together
  WaitsForWallet     \* the user leaves the page alone while the wallet connects
                     \* or simulates, and starts a simulation only when nothing
                     \* else is in flight

ASSUME WorkflowAssumption ==
  /\ Actions \subseteq {"shield", "withdraw"}
  /\ {MaxRequests, MaxInFlight} \subseteq Nat
  /\ WaitsForWallet \in BOOLEAN

VARIABLES
  (* the page *)
  state,          \* FlowState
  capability,     \* the connected account, or None
  form,           \* action, amount and permitted range on the form
  bootstrap,      \* the snapshot the page was rendered with, or None
  initial,        \* initialIntent and initialPreflight (an answer or None), or None
  selection,      \* selection or withdrawSelection: the amount chosen, or None
  plan,           \* GuardedDepositPlan, or None
  simulation,     \* SimulatedDepositPlan: the plan it holds, or None
  acknowledged,   \* warningAcknowledged
  artifact,       \* the last receipt artifact stored in the session, or None
  (* around it *)
  requests,       \* the requests in flight, one per slot
  issued,         \* requests so far
  published,      \* snapshots published so far; the last one is served
  now

decisionVars == <<initial, selection, plan, simulation, acknowledged>>
pageVars  == <<state, capability, form, bootstrap, decisionVars, artifact>>
worldVars == <<requests, issued, published, now>>
vars == <<pageVars, worldVars>>

Slots  == 1..MaxInFlight
Served == published[Len(published)]

(* "CONNECTING" and the other states in which a request is awaited *)
Awaiting == [connect |-> "CONNECTING", initial |-> "PREFLIGHT_LOADING",
             final |-> "FINAL_PREFLIGHT_LOADING", withdraw |-> "FINAL_PREFLIGHT_LOADING",
             simulate |-> "SIMULATING", submit |-> "SUBMITTING", receipt |-> "RECEIPT_VERIFYING"]

States == {Awaiting[k] : k \in DOMAIN Awaiting} \cup
  {"DISCONNECTED", "CONNECTED", "UNSUPPORTED_WALLET", "WRONG_NETWORK", "INVALID_INTENT",
   "PREFLIGHT_UNAVAILABLE", "PREFLIGHT_COMPLETE", "RECOMMENDATION_AVAILABLE", "FINAL_REVIEW",
   "WITHDRAW_ANALYSIS_COMPLETE", "SIMULATION_FAILED", "READY_FOR_CONFIRMATION",
   "USER_REJECTED", "SUBMISSION_FAILED", "RECEIPT_MISMATCH", "SUCCESS"}

Forms == [action : Actions, amount : Amounts \cup {None}, permitted : SUBSET Amounts]

Requested ==
  [kind : {"connect"}] \cup
  [kind : {"refresh"}, since : Hashes] \cup
  [kind : {"initial"}, intent : Intents, since : Hashes] \cup
  [kind : {"cell"}, intent : Intents] \cup       \* the animations
  [kind : {"flip"}, for : Requests] \cup
  [kind : {"final", "withdraw"}, for : Requests, since : Hashes] \cup
  [kind : {"simulate"}, plan : Plans] \cup
  [kind : {"submit", "receipt"}, account : Accounts, sent : Plans, plan : Plans]

ASSUME RequestAssumption == None \notin Requested

TypeOK ==
  /\ state \in States
  /\ capability \in Accounts \cup {None}
  /\ form \in Forms
  /\ bootstrap \in Snapshots \cup {None}
  /\ initial \in [intent : Intents, answer : Snapshots \cup {None}] \cup {None}
  /\ selection \in Amounts \cup {None}
  /\ plan \in Plans \cup {None}
  /\ simulation \in Plans \cup {None}
  /\ acknowledged \in BOOLEAN
  /\ artifact \in Plans \cup {None}
  /\ requests \in [Slots -> Requested \cup {None}]
  /\ issued \in 0..MaxRequests
  /\ published \in Seq(Snapshots) /\ Len(published) \in Hashes
  /\ now \in Times

(* The page is rendered by the server, with its snapshot or without one.     *)
Init ==
  /\ published = <<[hash |-> 1, block |-> 1, at |-> 0]>>
  /\ bootstrap \in {Served, None}
  /\ state = IF bootstrap = None THEN "PREFLIGHT_UNAVAILABLE" ELSE "DISCONNECTED"
  /\ capability = None
  /\ form \in {f \in Forms : f.amount = None /\ f.permitted = {}}
  /\ initial = None /\ selection = None /\ plan = None /\ simulation = None
  /\ acknowledged = FALSE
  /\ artifact = None
  /\ requests = [s \in Slots |-> None]
  /\ issued = 0
  /\ now = 0

---------------------------------------------------------------------------
(* Requests *)

InFlight(kinds) == \E s \in Slots : requests[s] # None /\ requests[s].kind \in kinds

(* The user acts on a page that has a snapshot. *)
UserActs ==
  /\ bootstrap # None
  /\ WaitsForWallet => ~InFlight({"connect", "simulate"})

Issue(r) ==
  /\ issued < MaxRequests
  /\ issued' = issued + 1
  /\ \E s \in Slots :
       /\ requests[s] = None
       /\ \A t \in 1..(s - 1) : requests[t] # None
       /\ requests' = [requests EXCEPT ![s] = r]

Answered(s) == requests' = [requests EXCEPT ![s] = None] /\ UNCHANGED issued

(* The handler goes on to its next await. *)
Continues(s, r) == requests' = [requests EXCEPT ![s] = r] /\ UNCHANGED issued

(* The snapshots the service served since a request was issued *)
ServedSince(hash) == {published[h] : h \in hash..Len(published)}

Idle == IF capability = None THEN "DISCONNECTED" ELSE "CONNECTED"

---------------------------------------------------------------------------
(* Form and snapshot *)

ClearDecision ==
  /\ initial' = None /\ selection' = None /\ plan' = None /\ simulation' = None
  /\ acknowledged' = FALSE
  /\ state' = Idle

(* Every change of the form drops the decision. *)
Edit ==
  /\ UserActs
  /\ form' \in {f \in Forms : IF f.amount = None THEN f.permitted = {}
                                 ELSE f.amount \in f.permitted}
  /\ ClearDecision
  /\ UNCHANGED <<capability, bootstrap, artifact, worldVars>>

(* refreshSnapshot; the button is there on a page without a snapshot too. *)
Refresh ==
  /\ bootstrap # None => UserActs
  /\ ~InFlight({"refresh"})
  /\ ClearDecision
  /\ Issue([kind |-> "refresh", since |-> Len(published)])
  /\ UNCHANGED <<capability, form, bootstrap, artifact, published, now>>

(* The page is rendered again; an effect resets the state of a page that had *)
(* no snapshot.                                                              *)
Refreshed(s) ==
  /\ requests[s] # None /\ requests[s].kind = "refresh"
  /\ bootstrap' \in ServedSince(requests[s].since) \cup {None}
  /\ state' = IF bootstrap = None /\ bootstrap' # None THEN Idle ELSE state
  /\ Answered(s)
  /\ UNCHANGED <<capability, form, decisionVars, artifact, published, now>>

---------------------------------------------------------------------------
(* connectWallet *)

Connect ==
  /\ UserActs
  /\ capability = None /\ state # "CONNECTING"
  /\ state' = "CONNECTING"
  /\ Issue([kind |-> "connect"])
  /\ UNCHANGED <<capability, form, bootstrap, decisionVars, artifact, published, now>>

(* Discovery can also throw, where wallet.ts has no try (a wallet that lists *)
(* no versions or connects to no account), and connectWallet has none        *)
(* either: the page stays as it is.                                          *)
Connected(s) ==
  /\ requests[s] # None /\ requests[s].kind = "connect"
  /\ \/ capability' \in Accounts /\ state' = "CONNECTED"
     \/ /\ state' \in {state, "WRONG_NETWORK", "UNSUPPORTED_WALLET", "PREFLIGHT_UNAVAILABLE"}
        /\ UNCHANGED capability
  /\ Answered(s)
  /\ UNCHANGED <<form, bootstrap, decisionVars, artifact, published, now>>

---------------------------------------------------------------------------
(* Initial preflight *)

InitialIntent(action, account, amount, permitted, block) ==
  [action |-> action, account |-> account, amount |-> amount, permitted |-> permitted,
   block |-> block, time |-> now]

(* submitProposal: runInitialPreflight with the intent of buildIntent *)
Check ==
  /\ UserActs
  /\ capability # None
  /\ state \notin {"PREFLIGHT_LOADING", "FINAL_PREFLIGHT_LOADING", "CONNECTING"}
  /\ IF form.amount = None
     THEN state' = "INVALID_INTENT" /\ UNCHANGED <<requests, issued>>
     ELSE /\ state' = "PREFLIGHT_LOADING"
          /\ Issue([kind |-> "initial", since |-> Len(published),
                    intent |-> InitialIntent(form.action, capability, form.amount,
                                             form.permitted, bootstrap.block)])
  /\ UNCHANGED <<capability, form, bootstrap, decisionVars, artifact, published, now>>

(* chooseCoverAmount: a cell of the cover fills the form at once ...         *)
PickCell ==
  /\ UserActs
  /\ \E amount \in Amounts :
       /\ form' = [form EXCEPT !.amount = amount, !.permitted = {amount}]
       /\ IF capability = None
          THEN UNCHANGED <<requests, issued>>
          ELSE Issue([kind |-> "cell",
                      intent |-> InitialIntent(form.action, capability, amount, {amount},
                                               bootstrap.block)])
  /\ ClearDecision
  /\ UNCHANGED <<capability, bootstrap, artifact, published, now>>

(* ... and runs the preflight of that cell when it has moved, whatever the   *)
(* form and the page are by then.                                            *)
CellMoved(s) ==
  /\ requests[s] # None /\ requests[s].kind = "cell"
  /\ state' = "PREFLIGHT_LOADING"
  /\ Continues(s, [kind |-> "initial", since |-> Len(published),
                   intent |-> [requests[s].intent EXCEPT !.time = now]])
  /\ UNCHANGED <<capability, form, bootstrap, decisionVars, artifact, published, now>>

(* No usable answer reached the page. *)
InitialLost(s) ==
  /\ requests[s] # None /\ requests[s].kind = "initial"
  /\ initial' = [intent |-> requests[s].intent, answer |-> None]
  /\ state' = "PREFLIGHT_UNAVAILABLE"
  /\ Answered(s)
  /\ UNCHANGED <<capability, form, bootstrap, selection, plan, simulation, acknowledged,
                 artifact, published, now>>

(* The service answered: with an evaluation, or without one. *)
InitialAnswered(s) ==
  /\ requests[s] # None /\ requests[s].kind = "initial"
  /\ LET r == requests[s]
     IN \E answer \in {x \in ServedSince(r.since) : Evaluates(x, r.intent.block, r.intent.time)} \cup {None} :
          /\ initial' = [intent |-> r.intent, answer |-> answer]
          /\ state' = IF answer = None THEN "PREFLIGHT_UNAVAILABLE"
                      ELSE IF Recommended(r.intent, answer) # None THEN "RECOMMENDATION_AVAILABLE"
                      ELSE "PREFLIGHT_COMPLETE"
  /\ selection' = None /\ plan' = None /\ simulation' = None
  /\ acknowledged' = FALSE
  /\ Answered(s)
  /\ UNCHANGED <<capability, form, bootstrap, artifact, published, now>>

---------------------------------------------------------------------------
(* Choice and final preflight *)

(* The amounts the evidence panel offers, whatever the state: the            *)
(* recommended and the proposed one, or the proposed one unless denied.      *)
Offered ==
  LET recommended == Recommended(initial.intent, initial.answer)
  IN IF recommended # None THEN {recommended, initial.intent.amount}
     ELSE IF Decision(initial.answer, initial.intent) = "DENY" THEN {}
     ELSE {initial.intent.amount}

MayChoose ==
  /\ UserActs
  /\ capability # None /\ initial # None /\ selection = None
  /\ initial.answer # None

(* What the handler of the click captures *)
Choice(amount) ==
  [intent |-> initial.intent, answer |-> initial.answer, selected |-> amount,
   reviewed |-> bootstrap, wallet |-> capability, time |-> now]

(* The request of chooseSelection or chooseWithdrawSelection, on its time    *)
FinalRequest(choice) ==
  [kind |-> IF choice.intent.action = "shield" THEN "final" ELSE "withdraw",
   since |-> Len(published), for |-> [choice EXCEPT !.time = now]]

(* chooseCheckedAmount, of the amount proposed *)
Choose ==
  /\ MayChoose
  /\ initial.intent.amount \in Offered
  /\ selection' = initial.intent.amount
  /\ Issue(FinalRequest(Choice(initial.intent.amount)))
  /\ state' = "FINAL_PREFLIGHT_LOADING"
  /\ UNCHANGED <<capability, form, bootstrap, initial, plan, simulation, acknowledged, artifact,
                 published, now>>

(* ... and of the recommended one: it is written into the form at once ...   *)
Follow ==
  /\ MayChoose
  /\ \E amount \in Offered \ {initial.intent.amount} :
       /\ form' = [form EXCEPT !.amount = amount]
       /\ Issue([kind |-> "flip", for |-> Choice(amount)])
  /\ UNCHANGED <<state, capability, bootstrap, decisionVars, artifact, published, now>>

(* ... and selected when it has moved, with what the click captured.         *)
AmountMoved(s) ==
  /\ requests[s] # None /\ requests[s].kind = "flip"
  /\ selection' = requests[s].for.selected
  /\ state' = "FINAL_PREFLIGHT_LOADING"
  /\ Continues(s, FinalRequest(requests[s].for))
  /\ UNCHANGED <<capability, form, bootstrap, initial, plan, simulation, acknowledged, artifact,
                 published, now>>

FinalEvaluations(r) ==
  {x \in ServedSince(r.since) : Evaluates(x, r.for.reviewed.block, r.for.time)}

(* Seeded fault: an unavailable answer goes on to the plan. *)
PlannedUnchecked(s) ==
  /\ requests[s] # None /\ requests[s].kind = "final"
  /\ LET r == requests[s]
     IN \E final \in FinalEvaluations(r) \cup {None} :
          /\ plan' = [PlanOf(r.for) EXCEPT !.snapshot = final]
          /\ simulation' = None
          /\ acknowledged' = FALSE
          /\ state' = "FINAL_REVIEW"
  /\ Answered(s)
  /\ UNCHANGED <<capability, form, bootstrap, initial, selection, artifact, published, now>>

(* Seeded fault: a new plan keeps the acknowledgement of the one before it. *)
PlannedAcknowledged(s) ==
  /\ requests[s] # None /\ requests[s].kind = "final"
  /\ \E final \in FinalEvaluations(requests[s]) : PlanAllowed(requests[s].for, final)
  /\ plan' = PlanOf(requests[s].for)
  /\ simulation' = None
  /\ state' = "FINAL_REVIEW"
  /\ Answered(s)
  /\ UNCHANGED <<capability, form, bootstrap, initial, selection, acknowledged, artifact,
                 published, now>>

(* The final answer allows a plan ... *)
Planned(s) ==
  /\ requests[s] # None /\ requests[s].kind = "final"
  /\ LET r == requests[s]
     IN /\ \E final \in FinalEvaluations(r) : PlanAllowed(r.for, final)
        /\ plan' = PlanOf(r.for)
  /\ simulation' = None
  /\ acknowledged' = FALSE
  /\ state' = "FINAL_REVIEW"
  /\ Answered(s)
  /\ UNCHANGED <<capability, form, bootstrap, initial, selection, artifact, published, now>>

(* Seeded fault: a guard error leaves the state alone. *)
NotPlannedSilently(s) ==
  /\ requests[s] # None /\ requests[s].kind \in {"final", "withdraw"}
  /\ Answered(s)
  /\ UNCHANGED <<pageVars, published, now>>

(* ... or there is none, or the guard refuses it. *)
NotPlanned(s) ==
  /\ requests[s] # None /\ requests[s].kind \in {"final", "withdraw"}
  /\ state' = "PREFLIGHT_UNAVAILABLE"
  /\ Answered(s)
  /\ UNCHANGED <<capability, form, bootstrap, decisionVars, artifact, published, now>>

WithdrawAnalyzed(s) ==
  /\ requests[s] # None /\ requests[s].kind = "withdraw"
  /\ FinalEvaluations(requests[s]) # {}
  /\ state' = "WITHDRAW_ANALYSIS_COMPLETE"
  /\ Answered(s)
  /\ UNCHANGED <<capability, form, bootstrap, decisionVars, artifact, published, now>>

---------------------------------------------------------------------------
(* Simulation *)

Simulate ==
  /\ UserActs
  /\ state = "FINAL_REVIEW" /\ plan # None /\ capability # None
  /\ WaitsForWallet => \A s \in Slots : requests[s] = None
  /\ IF PlanHolds(plan, now)
     THEN state' = "SIMULATING" /\ Issue([kind |-> "simulate", plan |-> plan])
     ELSE state' = "SIMULATION_FAILED" /\ UNCHANGED <<requests, issued>>
  /\ UNCHANGED <<capability, form, bootstrap, decisionVars, artifact, published, now>>

Simulated(s) ==
  /\ requests[s] # None /\ requests[s].kind = "simulate"
  /\ \/ simulation' = requests[s].plan /\ state' = "READY_FOR_CONFIRMATION"
     \/ state' = "SIMULATION_FAILED" /\ UNCHANGED simulation
  /\ Answered(s)
  /\ UNCHANGED <<capability, form, bootstrap, initial, selection, plan, acknowledged, artifact,
                 published, now>>

---------------------------------------------------------------------------
(* Submission and receipt *)

Confirming ==
  /\ UserActs
  /\ state = "READY_FOR_CONFIRMATION" /\ plan # None /\ simulation # None

Acknowledge ==
  /\ Confirming
  /\ MustAcknowledge(plan)
  /\ acknowledged' = ~acknowledged
  /\ UNCHANGED <<state, capability, form, bootstrap, initial, selection, plan, simulation,
                 artifact, worldVars>>

(* Seeded fault: the call is built from the form. *)
SubmitForm ==
  /\ Confirming
  /\ capability # None /\ form.amount # None
  /\ MustAcknowledge(plan) => acknowledged
  /\ Authorizes(simulation, acknowledged, now)
  /\ state' = "SUBMITTING"
  /\ Issue([kind |-> "submit", account |-> capability, plan |-> plan,
            sent |-> [simulation EXCEPT !.amount = form.amount]])
  /\ UNCHANGED <<capability, form, bootstrap, decisionVars, artifact, published, now>>

(* submit: it authorises the simulation, and the wallet of the moment        *)
(* executes it; the receipt will be compared with the plan on the screen.    *)
Submit ==
  /\ Confirming
  /\ capability # None
  /\ MustAcknowledge(plan) => acknowledged
  /\ IF Authorizes(simulation, acknowledged, now)
     THEN /\ state' = "SUBMITTING"
          /\ Issue([kind |-> "submit", account |-> capability, sent |-> simulation, plan |-> plan])
     ELSE state' = "RECEIPT_MISMATCH" /\ UNCHANGED <<requests, issued>>
  /\ UNCHANGED <<capability, form, bootstrap, decisionVars, artifact, published, now>>

(* The wallet submitted, or refused, or failed. *)
Submitted(s) ==
  /\ requests[s] # None /\ requests[s].kind = "submit"
  /\ \/ /\ state' = "RECEIPT_VERIFYING"
        /\ Continues(s, [requests[s] EXCEPT !.kind = "receipt"])
     \/ /\ state' \in {"USER_REJECTED", "SUBMISSION_FAILED"}
        /\ Answered(s)
  /\ UNCHANGED <<capability, form, bootstrap, decisionVars, artifact, published, now>>

Deposit(r) == [account |-> r.account, amount |-> r.sent.amount]

(* Seeded fault: the artifact names the snapshot of the page. *)
VerifiedAgainstPage(s) ==
  /\ requests[s] # None /\ requests[s].kind = "receipt"
  /\ bootstrap # None
  /\ ReceiptMatches(Deposit(requests[s]), requests[s].plan)
  /\ artifact' = [requests[s].plan EXCEPT !.snapshot = bootstrap]
  /\ state' = "SUCCESS"
  /\ Answered(s)
  /\ UNCHANGED <<capability, form, bootstrap, decisionVars, published, now>>

(* The receipt arrived and shows the deposit, or it is missing, reverted or  *)
(* another one.                                                              *)
ReceiptVerified(s) ==
  /\ requests[s] # None /\ requests[s].kind = "receipt"
  /\ \/ /\ ReceiptMatches(Deposit(requests[s]), requests[s].plan)
        /\ artifact' = requests[s].plan
        /\ state' = "SUCCESS"
     \/ state' = "RECEIPT_MISMATCH" /\ UNCHANGED artifact
  /\ Answered(s)
  /\ UNCHANGED <<capability, form, bootstrap, decisionVars, published, now>>

---------------------------------------------------------------------------
(* Service and time *)

(* The indexer publishes a newer block, or another one of the same height.   *)
Publish ==
  /\ Len(published) < MaxSnapshots
  /\ \E block \in {Served.block, Served.block + 1} :
       published' = Append(published, [hash |-> Len(published) + 1, block |-> block, at |-> now])
  /\ UNCHANGED <<pageVars, requests, issued, now>>

Tick ==
  /\ now < MaxTime
  /\ now' = now + 1
  /\ UNCHANGED <<pageVars, requests, issued, published>>

UserStep ==
  \/ Edit \/ Refresh \/ Connect
  \/ Check \/ PickCell
  \/ Choose \/ Follow
  \/ Simulate \/ Acknowledge \/ Submit

AnswerStep(s) ==
  \/ Refreshed(s)
  \/ Connected(s)
  \/ CellMoved(s) \/ InitialLost(s) \/ InitialAnswered(s)
  \/ AmountMoved(s)
  \/ Planned(s) \/ NotPlanned(s) \/ WithdrawAnalyzed(s)
  \/ Simulated(s)
  \/ Submitted(s) \/ ReceiptVerified(s)

Next ==
  \/ UserStep
  \/ \E s \in Slots : AnswerStep(s)
  \/ Publish
  \/ Tick

Spec == Init /\ [][Next]_vars

---------------------------------------------------------------------------
(* Properties *)

(* The request by which a step asks the wallet to execute, in slot s *)
Asks(s) ==
  /\ requests[s] = None /\ requests'[s] # None
  /\ requests'[s].kind = "submit"

(* What the wallet is asked to execute is what the confirmation panel        *)
(* shows: the same amount, on the evidence shown, from the account shown.    *)
WalletGetsWhatIsShown ==
  [][\A s \in Slots : Asks(s) =>
       /\ requests'[s].sent = plan
       /\ requests'[s].account = plan.account]_vars

(* Whatever overlaps, the wallet is asked only for an amount that the        *)
(* service does not deny on a snapshot it did publish and that is fresh at   *)
(* this moment, and a warned one only after an acknowledgement.              *)
NoUnbackedCall ==
  [][\A s \in Slots : Asks(s) =>
       LET sent == requests'[s].sent
       IN /\ \E h \in DOMAIN published : sent.snapshot = published[h]
          /\ now <= sent.snapshot.at + MaximumAge
          /\ \/ DecisionOf(sent) = "ALLOW"
             \/ DecisionOf(sent) = "WARN" /\ acknowledged]_vars

(* The artifact that a step stores *)
Stores(s) ==
  /\ requests[s] # None /\ requests[s].kind = "receipt" /\ requests'[s] = None
  /\ state' = "SUCCESS"

(* The artifact names the plan that was submitted, with the evidence it was  *)
(* authorised on, whatever the page shows when the receipt arrives.          *)
ArtifactBindsItsEvidence ==
  [][\A s \in Slots : Stores(s) => artifact' = requests[s].sent]_vars

(* A warning is acknowledged for the plan on the page and for no other:      *)
(* whatever answers replace or drop the plan, the acknowledgement does not   *)
(* outlive it, and there is none without a warning.                          *)
AcknowledgementIsOfThePlan ==
  [][/\ plan' # plan => ~acknowledged'
     /\ acknowledged' => plan' # None /\ MustAcknowledge(plan')]_vars

(* The page shows progress only while an answer is still to come, so it      *)
(* never stays in a state that only an answer would leave.  (All but         *)
(* CONNECTING, which a discovery that throws leaves behind: Connected.)      *)
ProgressHasARequest ==
  \A k \in DOMAIN Awaiting \ {"connect"} :
    state = Awaiting[k] => InFlight({j \in DOMAIN Awaiting : Awaiting[j] = Awaiting[k]})
=============================================================================
