---------------------------- MODULE SigningProofs ----------------------------
(***************************************************************************)
(* Safety of the signing page, for every verdict and advice of the engine, *)
(* every number of accounts, amounts, snapshots and requests in flight.    *)
(***************************************************************************)
EXTENDS SigningWorkflow, TLAPS

(* Facts about a request in flight, by the two ways requests change *)

LEMMA IssueType ==
  ASSUME TypeOK, NEW r \in Requested, Issue(r)
  PROVE  /\ requests' \in [Slots -> Requested \cup {None}]
         /\ issued' \in 0..MaxRequests
<1>1. requests' \in [Slots -> Requested \cup {None}]
  BY DEF Issue, TypeOK
<1>2. issued' \in 0..MaxRequests
  BY WorkflowAssumption DEF Issue, TypeOK
<1>. QED
  BY <1>1, <1>2

LEMMA AnsweredType ==
  ASSUME TypeOK, NEW s \in Slots, Answered(s)
  PROVE  /\ requests' \in [Slots -> Requested \cup {None}]
         /\ issued' \in 0..MaxRequests
BY DEF Answered, TypeOK

LEMMA ContinuesType ==
  ASSUME TypeOK, NEW s \in Slots, NEW r \in Requested, Continues(s, r)
  PROVE  /\ requests' \in [Slots -> Requested \cup {None}]
         /\ issued' \in 0..MaxRequests
BY DEF Continues, TypeOK

(* What the fields of a request in flight are, by its kind *)
LEMMA RequestFields ==
  ASSUME TypeOK, NEW s \in Slots, requests[s] # None
  PROVE  /\ requests[s].kind \in {"connect", "refresh", "initial", "final", "withdraw",
                                  "simulate", "submit", "receipt", "cell", "flip"}
         /\ requests[s].kind = "refresh" => requests[s].since \in Hashes
         /\ requests[s].kind = "initial" => requests[s].intent \in Intents
                                             /\ requests[s].since \in Hashes
         /\ requests[s].kind = "cell" => requests[s].intent \in Intents
         /\ requests[s].kind = "flip" => requests[s].for \in Requests
         /\ requests[s].kind \in {"final", "withdraw"} => requests[s].for \in Requests
                                                          /\ requests[s].since \in Hashes
         /\ requests[s].kind = "simulate" => requests[s].plan \in Plans
         /\ requests[s].kind \in {"submit", "receipt"} =>
              /\ requests[s].account \in Accounts
              /\ requests[s].sent \in Plans
              /\ requests[s].plan \in Plans
<1>1. requests[s] \in Requested
  BY DEF TypeOK
<1>. QED
  BY <1>1 DEF Requested

(* The service answers from snapshots it published. *)
LEMMA ServedArePublished ==
  ASSUME TypeOK, NEW hash \in Hashes, NEW x \in ServedSince(hash)
  PROVE  x \in Snapshots /\ \E h \in DOMAIN published : x = published[h]
<1>1. PICK h \in hash..Len(published) : x = published[h]
  BY DEF ServedSince
<1>2. h \in DOMAIN published
  BY <1>1 DEF TypeOK, Hashes
<1>. QED
  BY <1>1, <1>2 DEF TypeOK

LEMMA VerdictType ==
  ASSUME NEW snapshot \in Snapshots, NEW x, x.time \in Times, x.account \in Accounts,
         x.amount \in Amounts
  PROVE  /\ Decision(snapshot, x) \in Decisions
         /\ Advice[Case(snapshot, x)] \in Amounts \cup {None}
<1>1. snapshot.hash \in Hashes
  BY DEF Snapshots
<1>2. Case(snapshot, x) \in Cases
  BY <1>1 DEF Case, Cases
<1>. QED
  BY <1>2, GuardAssumption DEF Decision

(* What the page offers is an amount. *)
LEMMA OfferedType ==
  ASSUME TypeOK, initial # None, initial.answer # None, NEW amount \in Offered
  PROVE  amount \in Amounts
<1>1. initial.intent \in Intents /\ initial.answer \in Snapshots
  BY DEF TypeOK
<1>2. initial.intent.amount \in Amounts /\ initial.intent.permitted \subseteq Amounts
  BY <1>1 DEF Intents
<1>3. Recommended(initial.intent, initial.answer) \in Amounts \cup {None}
  BY <1>2 DEF Recommended
<1>. QED
  BY <1>2, <1>3 DEF Offered

LEMMA PlanOfType ==
  ASSUME NEW r \in Requests
  PROVE  /\ PlanOf(r) \in Plans
         /\ PlanOf(r).snapshot = r.reviewed
         /\ PlanOf(r).account = r.intent.account
<1>1. r.intent.account \in Accounts
  BY DEF Requests, Intents
<1>. QED
  BY <1>1 DEF PlanOf, Plans, Requests

---------------------------------------------------------------------------
(* Type correctness *)

LEMMA InitType == Init => TypeOK
<1>. SUFFICES ASSUME Init PROVE TypeOK
  OBVIOUS
<1>1. 1 \in Hashes /\ 0 \in Times
  BY GuardAssumption DEF Hashes, Times
<1>2. [hash |-> 1, block |-> 1, at |-> 0] \in Snapshots
  BY <1>1 DEF Snapshots
<1>3. published \in Seq(Snapshots) /\ Len(published) = 1 /\ Served \in Snapshots
  BY <1>2 DEF Init, Served
<1>4. state \in States
  BY DEF Init, States
<1>5. bootstrap \in Snapshots \cup {None}
  BY <1>3 DEF Init
<1>6. issued \in 0..MaxRequests
  BY WorkflowAssumption DEF Init
<1>7. form \in Forms /\ requests \in [Slots -> Requested \cup {None}]
  BY DEF Init
<1>. QED
  BY <1>1, <1>3, <1>4, <1>5, <1>6, <1>7 DEF Init, TypeOK

LEMMA AwaitingStates ==
  /\ Awaiting["connect"] = "CONNECTING"
  /\ Awaiting["initial"] = "PREFLIGHT_LOADING"
  /\ Awaiting["final"] = "FINAL_PREFLIGHT_LOADING"
  /\ Awaiting["withdraw"] = "FINAL_PREFLIGHT_LOADING"
  /\ Awaiting["simulate"] = "SIMULATING"
  /\ Awaiting["submit"] = "SUBMITTING"
  /\ Awaiting["receipt"] = "RECEIPT_VERIFYING"
  /\ DOMAIN Awaiting =
       {"connect", "initial", "final", "withdraw", "simulate", "submit", "receipt"}
BY DEF Awaiting

LEMMA StatesAre ==
  States = {"CONNECTING", "PREFLIGHT_LOADING", "FINAL_PREFLIGHT_LOADING", "SIMULATING",
            "SUBMITTING", "RECEIPT_VERIFYING",
            "DISCONNECTED", "CONNECTED", "UNSUPPORTED_WALLET", "WRONG_NETWORK",
            "INVALID_INTENT", "PREFLIGHT_UNAVAILABLE", "PREFLIGHT_COMPLETE",
            "RECOMMENDATION_AVAILABLE", "FINAL_REVIEW", "WITHDRAW_ANALYSIS_COMPLETE",
            "SIMULATION_FAILED", "READY_FOR_CONFIRMATION", "USER_REJECTED",
            "SUBMISSION_FAILED", "RECEIPT_MISMATCH", "SUCCESS"}
<1>1. {Awaiting[k] : k \in DOMAIN Awaiting} =
        {"CONNECTING", "PREFLIGHT_LOADING", "FINAL_PREFLIGHT_LOADING", "SIMULATING",
         "SUBMITTING", "RECEIPT_VERIFYING"}
  BY AwaitingStates
<1>. QED
  BY <1>1 DEF States

LEMMA IdleState == Idle \in States \cap {"DISCONNECTED", "CONNECTED"}
BY StatesAre DEF Idle

(* Conjuncts of TypeOK that most steps leave alone, whatever they do to the  *)
(* decision, to the state and to the requests *)
LEMMA KeepsType ==
  ASSUME TypeOK,
         state' \in States,
         UNCHANGED <<capability, form, bootstrap, decisionVars, artifact, published, now>>,
         requests' \in [Slots -> Requested \cup {None}],
         issued' \in 0..MaxRequests
  PROVE  TypeOK'
BY DEF TypeOK, decisionVars

LEMMA ClearedType ==
  ASSUME TypeOK, ClearDecision
  PROVE  /\ state' \in States
         /\ (initial = None /\ selection = None /\ plan = None /\ simulation = None
               /\ acknowledged = FALSE)'
<1>1. state' = Idle
  BY DEF ClearDecision
<1>. QED
  BY <1>1, IdleState DEF ClearDecision

(* A step that only issues a request, or none, and sets the state *)
LEMMA IssuingType ==
  ASSUME TypeOK, NEW r \in Requested,
         Issue(r) \/ UNCHANGED <<requests, issued>>,
         state' \in States,
         UNCHANGED <<capability, form, bootstrap, decisionVars, artifact, published, now>>
  PROVE  TypeOK'
<1>1. requests' \in [Slots -> Requested \cup {None}] /\ issued' \in 0..MaxRequests
  <2>1. CASE Issue(r)
    BY <2>1, IssueType
  <2>2. CASE UNCHANGED <<requests, issued>>
    BY <2>2 DEF TypeOK
  <2>. QED
    BY <2>1, <2>2
<1>. QED
  BY <1>1, KeepsType

LEMMA AnsweringType ==
  ASSUME TypeOK, NEW s \in Slots, Answered(s),
         state' \in States,
         UNCHANGED <<capability, form, bootstrap, decisionVars, artifact, published, now>>
  PROVE  TypeOK'
<1>1. requests' \in [Slots -> Requested \cup {None}] /\ issued' \in 0..MaxRequests
  BY AnsweredType
<1>. QED
  BY <1>1, KeepsType

LEMMA EditType == TypeOK /\ Edit => TypeOK'
<1>. SUFFICES ASSUME TypeOK, Edit PROVE TypeOK'
  OBVIOUS
<1>1. form' \in Forms /\ ClearDecision
  BY DEF Edit
<1>. QED
  BY <1>1, ClearedType DEF Edit, TypeOK, worldVars

LEMMA LenServed == TypeOK => Len(published) \in Hashes /\ Served \in Snapshots
<1>. SUFFICES ASSUME TypeOK PROVE Len(published) \in Hashes /\ Served \in Snapshots
  OBVIOUS
<1>1. Len(published) \in DOMAIN published
  BY DEF TypeOK, Hashes
<1>. QED
  BY <1>1 DEF TypeOK, Served

LEMMA RefreshType == TypeOK /\ Refresh => TypeOK'
<1>. SUFFICES ASSUME TypeOK, Refresh PROVE TypeOK'
  OBVIOUS
<1>1. ClearDecision /\ Issue([kind |-> "refresh", since |-> Len(published)])
  BY DEF Refresh
<1>2. [kind |-> "refresh", since |-> Len(published)] \in Requested
  BY LenServed DEF Requested
<1>3. requests' \in [Slots -> Requested \cup {None}] /\ issued' \in 0..MaxRequests
  BY <1>1, <1>2, IssueType
<1>. QED
  BY <1>1, <1>3, ClearedType DEF Refresh, TypeOK

LEMMA RefreshedType ==
  ASSUME TypeOK, NEW s \in Slots, Refreshed(s)
  PROVE  TypeOK'
<1>1. requests[s].since \in Hashes
  BY RequestFields DEF Refreshed
<1>2. bootstrap' \in Snapshots \cup {None}
  BY <1>1, ServedArePublished DEF Refreshed
<1>3. state' \in States
  BY IdleState DEF Refreshed, TypeOK
<1>4. requests' \in [Slots -> Requested \cup {None}] /\ issued' \in 0..MaxRequests
  BY AnsweredType DEF Refreshed
<1>. QED
  BY <1>2, <1>3, <1>4 DEF Refreshed, TypeOK, decisionVars

LEMMA ConnectType == TypeOK /\ Connect => TypeOK'
<1>. SUFFICES ASSUME TypeOK, Connect PROVE TypeOK'
  OBVIOUS
<1>1. [kind |-> "connect"] \in Requested
  BY DEF Requested
<1>2. state' \in States
  BY StatesAre DEF Connect
<1>. QED
  BY <1>1, <1>2, IssuingType DEF Connect

LEMMA ConnectedType ==
  ASSUME TypeOK, NEW s \in Slots, Connected(s)
  PROVE  TypeOK'
<1>1. requests' \in [Slots -> Requested \cup {None}] /\ issued' \in 0..MaxRequests
  BY AnsweredType DEF Connected
<1>2. state' \in States /\ capability' \in Accounts \cup {None}
  BY StatesAre DEF Connected, TypeOK
<1>. QED
  BY <1>1, <1>2 DEF Connected, TypeOK, decisionVars

(* A check of a filled form is a request about the connected account. *)
LEMMA CheckIssues ==
  ASSUME TypeOK, Check, form.amount # None
  PROVE  \E r \in Requested : Issue(r) /\ r.kind = "initial"
<1>. DEFINE intent == InitialIntent(form.action, capability, form.amount, form.permitted,
                                     bootstrap.block)
            r == [kind |-> "initial", since |-> Len(published), intent |-> intent]
<1>1. bootstrap \in Snapshots /\ capability \in Accounts /\ form \in Forms /\ now \in Times
  BY DEF Check, UserActs, TypeOK
<1>2. form.amount \in Amounts /\ form.permitted \in SUBSET Amounts
      /\ form.action \in {"shield", "withdraw"} /\ bootstrap.block \in Nat
  BY <1>1, WorkflowAssumption DEF Forms, Snapshots
<1>3. intent \in Intents
  BY <1>1, <1>2 DEF Intents, InitialIntent
<1>4. r \in Requested
  BY <1>3, LenServed DEF Requested
<1>5. Issue(r)
  BY DEF Check
<1>. QED
  BY <1>4, <1>5

LEMMA CheckType == TypeOK /\ Check => TypeOK'
<1>. SUFFICES ASSUME TypeOK, Check PROVE TypeOK'
  OBVIOUS
<1>1. state' \in States
  BY StatesAre DEF Check
<1>2. requests' \in [Slots -> Requested \cup {None}] /\ issued' \in 0..MaxRequests
  <2>1. CASE form.amount = None
    BY <2>1 DEF Check, TypeOK
  <2>2. CASE form.amount # None
    BY <2>2, CheckIssues, IssueType
  <2>. QED
    BY <2>1, <2>2
<1>. QED
  BY <1>1, <1>2, KeepsType DEF Check

(* A cell picked is a request about the connected account, if there is one.  *)
LEMMA PickIssues ==
  ASSUME TypeOK, PickCell
  PROVE  /\ form' \in Forms
         /\ \/ UNCHANGED <<requests, issued>>
            \/ \E r \in Requested : Issue(r) /\ r.kind = "cell" /\ r.intent.account = capability
<1>. DEFINE intent(amount) == InitialIntent(form.action, capability, amount, {amount},
                                            bootstrap.block)
            r(amount) == [kind |-> "cell", intent |-> intent(amount)]
<1>1. PICK amount \in Amounts :
        /\ form' = [form EXCEPT !.amount = amount, !.permitted = {amount}]
        /\ IF capability = None THEN UNCHANGED <<requests, issued>> ELSE Issue(r(amount))
  BY DEF PickCell
<1>2. form' \in Forms
  BY <1>1 DEF TypeOK, Forms
<1>3. CASE capability = None
  BY <1>1, <1>2, <1>3
<1>4. CASE capability # None
  <2>1. /\ bootstrap.block \in Nat /\ capability \in Accounts /\ now \in Times
        /\ form.action \in {"shield", "withdraw"}
    BY <1>4, WorkflowAssumption DEF PickCell, UserActs, TypeOK, Snapshots, Forms
  <2>2. intent(amount) \in Intents /\ intent(amount).account = capability
    BY <2>1 DEF Intents, InitialIntent
  <2>3. r(amount) \in Requested /\ r(amount).kind = "cell" /\ r(amount).intent.account = capability
    BY <2>2 DEF Requested
  <2>4. Issue(r(amount))
    BY <1>1, <1>4
  <2>. HIDE DEF r
  <2>. QED
    BY <1>2, <2>3, <2>4
<1>. QED
  BY <1>3, <1>4

LEMMA PickCellType == TypeOK /\ PickCell => TypeOK'
<1>. SUFFICES ASSUME TypeOK, PickCell PROVE TypeOK'
  OBVIOUS
<1>1. requests' \in [Slots -> Requested \cup {None}] /\ issued' \in 0..MaxRequests
  <2>1. CASE UNCHANGED <<requests, issued>>
    BY <2>1 DEF TypeOK
  <2>2. CASE \E r \in Requested : Issue(r)
    BY <2>2, IssueType
  <2>. QED
    BY <2>1, <2>2, PickIssues
<1>2. ClearDecision /\ form' \in Forms
  BY PickIssues DEF PickCell
<1>. QED
  BY <1>1, <1>2, ClearedType DEF PickCell, TypeOK

(* An animation that ends goes on with a request on what the click captured. *)
LEMMA CellGoesOn ==
  ASSUME TypeOK, NEW s \in Slots, CellMoved(s)
  PROVE  \E r \in Requested : /\ Continues(s, r) /\ r.kind = "initial"
                              /\ r.intent.account = requests[s].intent.account
<1>. DEFINE intent == [requests[s].intent EXCEPT !.time = now]
            r == [kind |-> "initial", since |-> Len(published), intent |-> intent]
<1>1. requests[s].intent \in Intents /\ now \in Times
  BY RequestFields DEF CellMoved, TypeOK
<1>2. intent \in Intents /\ intent.account = requests[s].intent.account
  BY <1>1 DEF Intents
<1>. HIDE DEF intent
<1>3. r \in Requested
  BY <1>2, LenServed DEF Requested
<1>4. Continues(s, r)
  BY DEF CellMoved, intent
<1>. QED
  BY <1>2, <1>3, <1>4

LEMMA CellMovedType ==
  ASSUME TypeOK, NEW s \in Slots, CellMoved(s)
  PROVE  TypeOK'
<1>1. requests' \in [Slots -> Requested \cup {None}] /\ issued' \in 0..MaxRequests
  BY CellGoesOn, ContinuesType
<1>2. state' \in States
  BY StatesAre DEF CellMoved
<1>. QED
  BY <1>1, <1>2, KeepsType DEF CellMoved

LEMMA InitialLostType ==
  ASSUME TypeOK, NEW s \in Slots, InitialLost(s)
  PROVE  TypeOK'
<1>1. requests' \in [Slots -> Requested \cup {None}] /\ issued' \in 0..MaxRequests
  BY AnsweredType DEF InitialLost
<1>2. requests[s].intent \in Intents
  BY RequestFields DEF InitialLost
<1>3. initial' \in [intent : Intents, answer : Snapshots \cup {None}] \cup {None}
  BY <1>2 DEF InitialLost
<1>4. state' \in States
  BY StatesAre DEF InitialLost
<1>. QED
  BY <1>1, <1>3, <1>4 DEF InitialLost, TypeOK

LEMMA InitialAnsweredType ==
  ASSUME TypeOK, NEW s \in Slots, InitialAnswered(s)
  PROVE  TypeOK'
<1>1. requests' \in [Slots -> Requested \cup {None}] /\ issued' \in 0..MaxRequests
  BY AnsweredType DEF InitialAnswered
<1>2. requests[s].intent \in Intents /\ requests[s].since \in Hashes
  BY RequestFields DEF InitialAnswered
<1>3. PICK answer \in {x \in ServedSince(requests[s].since) :
                         Evaluates(x, requests[s].intent.block, requests[s].intent.time)}
                      \cup {None} :
        /\ initial' = [intent |-> requests[s].intent, answer |-> answer]
        /\ state' \in {"PREFLIGHT_UNAVAILABLE", "RECOMMENDATION_AVAILABLE",
                       "PREFLIGHT_COMPLETE"}
  BY DEF InitialAnswered
<1>4. answer \in Snapshots \cup {None}
  BY <1>2, <1>3, ServedArePublished
<1>5. initial' \in [intent : Intents, answer : Snapshots \cup {None}] \cup {None}
  BY <1>2, <1>3, <1>4
<1>6. state' \in States
  BY <1>3, StatesAre
<1>. QED
  BY <1>1, <1>5, <1>6 DEF InitialAnswered, TypeOK

LEMMA ChoiceType ==
  ASSUME TypeOK, MayChoose, NEW amount \in Amounts
  PROVE  Choice(amount) \in Requests
<1>1. initial.intent \in Intents /\ initial.answer \in Snapshots /\ bootstrap \in Snapshots
      /\ capability \in Accounts /\ now \in Times
  BY DEF MayChoose, UserActs, TypeOK
<1>. QED
  BY <1>1 DEF Choice, Requests

(* The final request is about the choice, but for the time. *)
LEMMA FinalRequestType ==
  ASSUME TypeOK, NEW choice \in Requests
  PROVE  /\ FinalRequest(choice) \in Requested
         /\ FinalRequest(choice).kind \in {"final", "withdraw"}
         /\ FinalRequest(choice).for.intent = choice.intent
         /\ FinalRequest(choice).for.reviewed = choice.reviewed
<1>. DEFINE for == [choice EXCEPT !.time = now]
<1>1. for \in Requests /\ for.intent = choice.intent /\ for.reviewed = choice.reviewed
  BY DEF Requests, TypeOK
<1>2. /\ FinalRequest(choice).kind \in {"final", "withdraw"}
      /\ FinalRequest(choice).for = for
  BY DEF FinalRequest
<1>3. FinalRequest(choice) =
        [kind |-> FinalRequest(choice).kind, since |-> Len(published), for |-> for]
  BY DEF FinalRequest
<1>. HIDE DEF for
<1>4. FinalRequest(choice) \in Requested
  BY <1>1, <1>2, <1>3, LenServed DEF Requested
<1>. QED
  BY <1>1, <1>2, <1>4

(* A choice asks about the account of the initial intent, on the snapshot of *)
(* the page: at once, or after the animation.                                *)
LEMMA ChooseIssues ==
  ASSUME TypeOK, Choose
  PROVE  \E r \in Requested : /\ Issue(r) /\ r.kind \in {"final", "withdraw"}
                              /\ r.for.intent = initial.intent
                              /\ r.for.reviewed = bootstrap
<1>. DEFINE choice == Choice(initial.intent.amount)
<1>1. initial.intent.amount \in Amounts
  BY OfferedType DEF Choose, MayChoose
<1>2. choice \in Requests
  BY <1>1, ChoiceType DEF Choose
<1>3. choice.intent = initial.intent /\ choice.reviewed = bootstrap
  BY DEF Choice
<1>4. Issue(FinalRequest(choice))
  BY DEF Choose
<1>. HIDE DEF choice
<1>. QED
  BY <1>2, <1>3, <1>4, FinalRequestType

LEMMA FollowIssues ==
  ASSUME TypeOK, Follow
  PROVE  /\ form' \in Forms
         /\ \E r \in Requested : /\ Issue(r) /\ r.kind = "flip"
                                 /\ r.for.intent = initial.intent
                                 /\ r.for.reviewed = bootstrap
<1>. DEFINE r(amount) == [kind |-> "flip", for |-> Choice(amount)]
<1>1. PICK amount \in Offered : form' = [form EXCEPT !.amount = amount] /\ Issue(r(amount))
  BY DEF Follow
<1>2. amount \in Amounts
  BY <1>1, OfferedType DEF Follow, MayChoose
<1>3. form' \in Forms
  BY <1>1, <1>2 DEF TypeOK, Forms
<1>4. Choice(amount) \in Requests
  BY <1>2, ChoiceType DEF Follow
<1>5. r(amount) \in Requested
  BY <1>4 DEF Requested
<1>6. /\ r(amount).kind = "flip" /\ r(amount).for.intent = initial.intent
      /\ r(amount).for.reviewed = bootstrap
  BY DEF Choice
<1>. HIDE DEF r
<1>. QED
  BY <1>1, <1>3, <1>5, <1>6

LEMMA AmountGoesOn ==
  ASSUME TypeOK, NEW s \in Slots, AmountMoved(s)
  PROVE  \E r \in Requested : /\ Continues(s, r) /\ r.kind \in {"final", "withdraw"}
                              /\ r.for.intent = requests[s].for.intent
                              /\ r.for.reviewed = requests[s].for.reviewed
<1>1. requests[s].for \in Requests
  BY RequestFields DEF AmountMoved
<1>. QED
  BY <1>1, FinalRequestType DEF AmountMoved

LEMMA ChooseType == TypeOK /\ Choose => TypeOK'
<1>. SUFFICES ASSUME TypeOK, Choose PROVE TypeOK'
  OBVIOUS
<1>1. requests' \in [Slots -> Requested \cup {None}] /\ issued' \in 0..MaxRequests
  BY ChooseIssues, IssueType
<1>2. selection' \in Amounts
  BY OfferedType DEF Choose, MayChoose
<1>3. state' \in States
  BY StatesAre DEF Choose
<1>. QED
  BY <1>1, <1>2, <1>3 DEF Choose, TypeOK

LEMMA FollowType == TypeOK /\ Follow => TypeOK'
<1>. SUFFICES ASSUME TypeOK, Follow PROVE TypeOK'
  OBVIOUS
<1>1. requests' \in [Slots -> Requested \cup {None}] /\ issued' \in 0..MaxRequests
  BY FollowIssues, IssueType
<1>. QED
  BY <1>1, FollowIssues DEF Follow, TypeOK, decisionVars

LEMMA AmountMovedType ==
  ASSUME TypeOK, NEW s \in Slots, AmountMoved(s)
  PROVE  TypeOK'
<1>1. requests' \in [Slots -> Requested \cup {None}] /\ issued' \in 0..MaxRequests
  BY AmountGoesOn, ContinuesType
<1>2. requests[s].for \in Requests
  BY RequestFields DEF AmountMoved
<1>3. selection' \in Amounts
  BY <1>2 DEF AmountMoved, Requests
<1>4. state' \in States
  BY StatesAre DEF AmountMoved
<1>. QED
  BY <1>1, <1>3, <1>4 DEF AmountMoved, TypeOK

LEMMA PlannedType ==
  ASSUME TypeOK, NEW s \in Slots, Planned(s)
  PROVE  TypeOK'
<1>1. requests' \in [Slots -> Requested \cup {None}] /\ issued' \in 0..MaxRequests
  BY AnsweredType DEF Planned
<1>2. requests[s].for \in Requests
  BY RequestFields DEF Planned
<1>3. plan' \in Plans
  BY <1>2, PlanOfType DEF Planned
<1>4. state' \in States
  BY StatesAre DEF Planned
<1>. QED
  BY <1>1, <1>3, <1>4 DEF Planned, TypeOK

LEMMA SimulateIssues ==
  TypeOK /\ Simulate => [kind |-> "simulate", plan |-> plan] \in Requested
BY DEF Simulate, TypeOK, Requested

LEMMA SimulateType == TypeOK /\ Simulate => TypeOK'
<1>. SUFFICES ASSUME TypeOK, Simulate PROVE TypeOK'
  OBVIOUS
<1>1. [kind |-> "simulate", plan |-> plan] \in Requested
  BY SimulateIssues
<1>2. state' \in States
  BY StatesAre DEF Simulate
<1>. QED
  BY <1>1, <1>2, IssuingType DEF Simulate

LEMMA SimulatedType ==
  ASSUME TypeOK, NEW s \in Slots, Simulated(s)
  PROVE  TypeOK'
<1>1. requests' \in [Slots -> Requested \cup {None}] /\ issued' \in 0..MaxRequests
  BY AnsweredType DEF Simulated
<1>2. requests[s].plan \in Plans
  BY RequestFields DEF Simulated
<1>3. simulation' \in Plans \cup {None} /\ state' \in States
  BY <1>2, StatesAre DEF Simulated, TypeOK
<1>. QED
  BY <1>1, <1>3 DEF Simulated, TypeOK

LEMMA SubmitIssues ==
  TypeOK /\ Submit =>
    [kind |-> "submit", account |-> capability, sent |-> simulation, plan |-> plan] \in Requested
BY DEF Submit, Confirming, TypeOK, Requested

LEMMA SubmitType == TypeOK /\ Submit => TypeOK'
<1>. SUFFICES ASSUME TypeOK, Submit PROVE TypeOK'
  OBVIOUS
<1>1. [kind |-> "submit", account |-> capability, sent |-> simulation, plan |-> plan]
        \in Requested
  BY SubmitIssues
<1>2. state' \in States
  BY StatesAre DEF Submit
<1>. QED
  BY <1>1, <1>2, IssuingType DEF Submit

LEMMA SubmittedType ==
  ASSUME TypeOK, NEW s \in Slots, Submitted(s)
  PROVE  TypeOK'
<1>1. state' \in States
  BY StatesAre DEF Submitted
<1>2. UNCHANGED <<capability, form, bootstrap, decisionVars, artifact, published, now>>
  BY DEF Submitted
<1>3. CASE Answered(s)
  BY <1>1, <1>2, <1>3, AnsweringType
<1>4. CASE Continues(s, [requests[s] EXCEPT !.kind = "receipt"])
  <2>1. requests[s] \in [kind : {"submit", "receipt"}, account : Accounts, sent : Plans,
                         plan : Plans]
    BY DEF Submitted, TypeOK, Requested
  <2>2. [requests[s] EXCEPT !.kind = "receipt"] \in Requested
    BY <2>1 DEF Requested
  <2>3. requests' \in [Slots -> Requested \cup {None}] /\ issued' \in 0..MaxRequests
    BY <1>4, <2>2, ContinuesType
  <2>. QED
    BY <1>1, <1>2, <2>3, KeepsType
<1>. QED
  BY <1>3, <1>4 DEF Submitted

LEMMA ReceiptVerifiedType ==
  ASSUME TypeOK, NEW s \in Slots, ReceiptVerified(s)
  PROVE  TypeOK'
<1>1. requests' \in [Slots -> Requested \cup {None}] /\ issued' \in 0..MaxRequests
  BY AnsweredType DEF ReceiptVerified
<1>2. requests[s].plan \in Plans
  BY RequestFields DEF ReceiptVerified
<1>3. artifact' \in Plans \cup {None} /\ state' \in States
  BY <1>2, StatesAre DEF ReceiptVerified, TypeOK
<1>. QED
  BY <1>1, <1>3 DEF ReceiptVerified, TypeOK, decisionVars

LEMMA PublishType == TypeOK /\ Publish => TypeOK'
<1>. SUFFICES ASSUME TypeOK, Publish PROVE TypeOK'
  OBVIOUS
<1>1. PICK block \in {Served.block, Served.block + 1} :
        published' = Append(published, [hash |-> Len(published) + 1, block |-> block,
                                        at |-> now])
  BY DEF Publish
<1>2. block \in Nat
  BY LenServed DEF Snapshots
<1>3. Len(published) + 1 \in Hashes
  BY GuardAssumption DEF Publish, Hashes, TypeOK
<1>4. [hash |-> Len(published) + 1, block |-> block, at |-> now] \in Snapshots
  BY <1>2, <1>3 DEF Snapshots, TypeOK
<1>5. published' \in Seq(Snapshots) /\ Len(published') = Len(published) + 1
  BY <1>1, <1>4 DEF TypeOK
<1>. QED
  BY <1>3, <1>5 DEF Publish, TypeOK, pageVars, decisionVars

LEMMA NextType == TypeOK /\ [Next]_vars => TypeOK'
<1>. SUFFICES ASSUME TypeOK, [Next]_vars PROVE TypeOK'
  OBVIOUS
<1>1. CASE UserStep
  <2>1. CASE Acknowledge
    BY <2>1 DEF Acknowledge, TypeOK, worldVars
  <2>. QED
    BY <1>1, <2>1, EditType, RefreshType, ConnectType, CheckType, PickCellType, ChooseType,
       FollowType, SimulateType, SubmitType DEF UserStep
<1>2. ASSUME NEW s \in Slots, AnswerStep(s) PROVE TypeOK'
  <2>1. CASE NotPlanned(s)
    <3>1. state' \in States
      BY <2>1, StatesAre DEF NotPlanned
    <3>. QED
      BY <2>1, <3>1, AnsweringType DEF NotPlanned
  <2>2. CASE WithdrawAnalyzed(s)
    <3>1. state' \in States
      BY <2>2, StatesAre DEF WithdrawAnalyzed
    <3>. QED
      BY <2>2, <3>1, AnsweringType DEF WithdrawAnalyzed
  <2>. QED
    BY <1>2, <2>1, <2>2, RefreshedType, ConnectedType, CellMovedType, InitialLostType,
       InitialAnsweredType, AmountMovedType, PlannedType, SimulatedType, SubmittedType, ReceiptVerifiedType DEF AnswerStep
<1>3. CASE Publish
  BY <1>3, PublishType
<1>4. CASE Tick
  BY <1>4, GuardAssumption DEF Tick, TypeOK, Times, pageVars, decisionVars
<1>5. CASE UNCHANGED vars
  BY <1>5 DEF vars, pageVars, worldVars, decisionVars, TypeOK
<1>. QED
  BY <1>1, <1>2, <1>3, <1>4, <1>5 DEF Next

(* Every variable of the page, and every request in flight, keeps its type.  *)
THEOREM SigningTypes == Spec => []TypeOK
<1>1. Init => TypeOK
  BY InitType
<1>2. TypeOK /\ [Next]_vars => TypeOK'
  BY NextType
<1>. QED
  BY <1>1, <1>2, PTL DEF Spec

---------------------------------------------------------------------------
(* How requests change *)

LEMMA IssueEffect ==
  ASSUME TypeOK, NEW r, Issue(r)
  PROVE  /\ \A t \in Slots : requests'[t] \in {requests[t], r}
         /\ \A t \in Slots : requests[t] # None => requests'[t] = requests[t]
         /\ \E t \in Slots : requests[t] = None /\ requests'[t] = r
BY DEF Issue, TypeOK

LEMMA AnsweredEffect ==
  ASSUME TypeOK, NEW s \in Slots, Answered(s)
  PROVE  /\ requests'[s] = None
         /\ \A t \in Slots : t # s => requests'[t] = requests[t]
BY DEF Answered, TypeOK

LEMMA ContinuesEffect ==
  ASSUME TypeOK, NEW s \in Slots, NEW r, Continues(s, r)
  PROVE  /\ requests'[s] = r
         /\ \A t \in Slots : t # s => requests'[t] = requests[t]
BY DEF Continues, TypeOK

(* What a request becomes when its handler goes on *)
GoesOn(r, next) ==
  \/ /\ r.kind = "submit" /\ next.kind = "receipt"
     /\ next.sent = r.sent /\ next.plan = r.plan
  \/ /\ r.kind = "cell" /\ next.kind = "initial"
     /\ next.intent.account = r.intent.account
  \/ /\ r.kind = "flip" /\ next.kind \in {"final", "withdraw"}
     /\ next.for.intent = r.for.intent /\ next.for.reviewed = r.for.reviewed

(* An answer leaves the other requests alone; its own is gone, or goes on.   *)
LEMMA AnswerDoes ==
  ASSUME TypeOK, NEW s \in Slots, AnswerStep(s)
  PROVE  /\ requests[s] # None
         /\ \A t \in Slots : t # s => requests'[t] = requests[t]
         /\ requests'[s] = None \/ GoesOn(requests[s], requests'[s])
<1>1. requests[s] # None
  BY DEF AnswerStep, Refreshed, Connected, CellMoved, AmountMoved, InitialLost, InitialAnswered,
     Planned, NotPlanned, WithdrawAnalyzed, Simulated, Submitted, ReceiptVerified
<1>2. CASE Answered(s)
  BY <1>1, <1>2, AnsweredEffect
<1>3. CASE Submitted(s) /\ Continues(s, [requests[s] EXCEPT !.kind = "receipt"])
  <2>1. requests[s] \in [kind : {"submit", "receipt"}, account : Accounts, sent : Plans,
                         plan : Plans]
    BY <1>3 DEF Submitted, TypeOK, Requested
  <2>2. /\ \A t \in Slots : t # s => requests'[t] = requests[t]
        /\ requests'[s] = [requests[s] EXCEPT !.kind = "receipt"]
    BY <1>3, ContinuesEffect
  <2>3. /\ requests[s].kind = "submit" /\ requests'[s].kind = "receipt"
        /\ requests'[s].sent = requests[s].sent
        /\ requests'[s].plan = requests[s].plan
    BY <1>3, <2>1, <2>2 DEF Submitted
  <2>. QED
    BY <1>1, <2>2, <2>3 DEF GoesOn
<1>4. CASE CellMoved(s)
  <2>1. requests[s].kind = "cell"
    BY <1>4 DEF CellMoved
  <2>. QED
    BY <1>1, <1>4, <2>1, CellGoesOn, ContinuesEffect DEF GoesOn
<1>5. CASE AmountMoved(s)
  <2>1. requests[s].kind = "flip"
    BY <1>5 DEF AmountMoved
  <2>. QED
    BY <1>1, <1>5, <2>1, AmountGoesOn, ContinuesEffect DEF GoesOn
<1>. QED
  BY <1>2, <1>3, <1>4, <1>5 DEF AnswerStep, Refreshed, Connected, InitialLost, InitialAnswered,
     Planned, NotPlanned, WithdrawAnalyzed, Simulated, Submitted, ReceiptVerified

(* Asking the wallet to execute is submit, and only that. *)
LEMMA AskingIsSubmit ==
  ASSUME TypeOK, [Next]_vars, NEW s \in Slots, Asks(s)
  PROVE  /\ Submit
         /\ Authorizes(simulation, acknowledged, now)
         /\ requests'[s] = [kind |-> "submit", account |-> capability, sent |-> simulation,
                            plan |-> plan]
<1>. DEFINE submission == [kind |-> "submit", account |-> capability, sent |-> simulation,
                           plan |-> plan]
<1>1. requests[s] = None /\ requests'[s] # None /\ requests'[s].kind = "submit"
  BY DEF Asks
<1>3. \A r : Issue(r) => requests'[s] = r
  BY <1>1, IssueEffect
<1>4. requests' # requests
  BY <1>1
<1>5. CASE UserStep
  <2>1. ~Edit /\ ~Acknowledge
    BY <1>4 DEF Edit, Acknowledge, worldVars
  <2>2. ~Refresh /\ ~Connect
    BY <1>1, <1>3 DEF Refresh, Connect
  <2>3. ~Check /\ ~PickCell
    BY <1>1, <1>3, <1>4, PickIssues DEF Check
  <2>4. ~Choose /\ ~Follow
    BY <1>1, <1>3, ChooseIssues, FollowIssues
  <2>5. ~Simulate
    BY <1>1, <1>3, <1>4 DEF Simulate
  <2>6. Submit
    BY <1>5, <2>1, <2>2, <2>3, <2>4, <2>5 DEF UserStep
  <2>7. Authorizes(simulation, acknowledged, now) /\ Issue(submission)
    BY <1>4, <2>6 DEF Submit
  <2>. QED
    BY <1>3, <2>6, <2>7
<1>6. ASSUME NEW t \in Slots, AnswerStep(t) PROVE FALSE
  BY <1>1, <1>6, AnswerDoes
<1>7. ~Publish /\ ~Tick /\ ~UNCHANGED vars
  BY <1>4 DEF Publish, Tick, vars, worldVars
<1>. QED
  BY <1>5, <1>6, <1>7 DEF Next

---------------------------------------------------------------------------
(* No unbacked call *)

Published(x) == \E h \in DOMAIN published : x = published[h]

(* All evidence on the page and on its way comes from published snapshots.   *)
BackedRequest(r) ==
  /\ r.kind \in {"final", "withdraw", "flip"} => Published(r.for.reviewed)
  /\ r.kind = "simulate" => Published(r.plan.snapshot)

RequestsBacked == \A s \in Slots : requests[s] # None => BackedRequest(requests[s])

EvidenceInv ==
  /\ bootstrap # None => Published(bootstrap)
  /\ plan # None => Published(plan.snapshot)
  /\ simulation # None => Published(simulation.snapshot)
  /\ RequestsBacked

LEMMA InitEvidence == Init => EvidenceInv
BY DEF Init, EvidenceInv, RequestsBacked, Published, Served

LEMMA IssueEvidence ==
  ASSUME TypeOK, EvidenceInv, UNCHANGED published, NEW r, Issue(r), BackedRequest(r)
  PROVE  RequestsBacked'
BY IssueEffect DEF EvidenceInv, RequestsBacked, BackedRequest, Published

LEMMA UserEvidence ==
  ASSUME TypeOK, EvidenceInv, UserStep
  PROVE  EvidenceInv'
<1>1. UNCHANGED published /\ UNCHANGED bootstrap
  BY DEF UserStep, Edit, Refresh, Connect, Check, PickCell, Choose, Follow, Simulate, Acknowledge, Submit, worldVars
<1>2. plan' \in {plan, None} /\ simulation' \in {simulation, None}
  BY DEF UserStep, Edit, Refresh, Connect, Check, PickCell, Choose, Follow, Simulate, Acknowledge, Submit,
     ClearDecision, decisionVars
<1>3. RequestsBacked'
  <2>1. CASE UNCHANGED requests
    BY <1>1, <2>1 DEF EvidenceInv, RequestsBacked, BackedRequest, Published
  <2>2. CASE Refresh
    BY <1>1, <2>2, IssueEvidence DEF Refresh, BackedRequest
  <2>3. CASE Connect
    BY <1>1, <2>3, IssueEvidence DEF Connect, BackedRequest
  <2>4. CASE Check /\ requests' # requests
    BY <1>1, <2>4, IssueEvidence DEF Check, BackedRequest
  <2>5. CASE Choose \/ Follow
    <3>1. PICK r : /\ Issue(r) /\ r.kind \in {"final", "withdraw", "flip"}
                   /\ r.for.reviewed = bootstrap
      BY <2>5, ChooseIssues, FollowIssues
    <3>2. BackedRequest(r)
      BY <2>5, <3>1 DEF BackedRequest, EvidenceInv, Choose, Follow, MayChoose, UserActs
    <3>. QED
      BY <1>1, <3>1, <3>2, IssueEvidence
  <2>8. CASE PickCell /\ requests' # requests
    <3>1. PICK r : Issue(r) /\ r.kind = "cell"
      BY <2>8, PickIssues
    <3>. QED
      BY <1>1, <3>1, IssueEvidence DEF BackedRequest
  <2>6. CASE Simulate /\ requests' # requests
    <3>1. Issue([kind |-> "simulate", plan |-> plan]) /\ plan # None
      BY <2>6 DEF Simulate
    <3>2. BackedRequest([kind |-> "simulate", plan |-> plan])
      BY <3>1 DEF BackedRequest, EvidenceInv
    <3>. QED
      BY <1>1, <3>1, <3>2, IssueEvidence
  <2>7. CASE Submit /\ requests' # requests
    BY <1>1, <2>7, IssueEvidence DEF Submit, BackedRequest
  <2>. QED
    BY <2>1, <2>2, <2>3, <2>4, <2>5, <2>6, <2>7, <2>8 DEF UserStep, Edit, Acknowledge, worldVars
<1>. QED
  BY <1>1, <1>2, <1>3 DEF EvidenceInv, Published

LEMMA AnswerEvidence ==
  ASSUME TypeOK, EvidenceInv, NEW s \in Slots, AnswerStep(s)
  PROVE  EvidenceInv'
<1>1. UNCHANGED published
  BY DEF AnswerStep, Refreshed, Connected, CellMoved, AmountMoved, InitialLost, InitialAnswered, Planned, NotPlanned,
     WithdrawAnalyzed, Simulated, Submitted, ReceiptVerified
<1>2. RequestsBacked'
  <2>1. BackedRequest(requests[s])
    BY AnswerDoes DEF EvidenceInv, RequestsBacked
  <2>2. requests'[s] # None => BackedRequest(requests[s])'
    BY <1>1, <2>1, AnswerDoes DEF GoesOn, BackedRequest, Published
  <2>. QED
    BY <1>1, <2>2, AnswerDoes DEF EvidenceInv, RequestsBacked, BackedRequest, Published
<1>3. (bootstrap # None => Published(bootstrap))'
  <2>1. CASE Refreshed(s)
    <3>1. requests[s].since \in Hashes
      BY <2>1, RequestFields DEF Refreshed
    <3>. QED
      BY <1>1, <2>1, <3>1, ServedArePublished DEF Refreshed, Published
  <2>2. CASE UNCHANGED bootstrap
    BY <1>1, <2>2 DEF EvidenceInv, Published
  <2>. QED
    BY <2>1, <2>2 DEF AnswerStep, Connected, CellMoved, AmountMoved, InitialLost, InitialAnswered, Planned, NotPlanned,
       WithdrawAnalyzed, Simulated, Submitted, ReceiptVerified
<1>4. (plan # None => Published(plan.snapshot))'
  <2>1. CASE Planned(s)
    <3>1. requests[s].for \in Requests
      BY <2>1, RequestFields DEF Planned
    <3>2. plan'.snapshot = requests[s].for.reviewed
      BY <2>1, <3>1, PlanOfType DEF Planned
    <3>. QED
      BY <1>1, <2>1, <3>2 DEF Planned, EvidenceInv, RequestsBacked, BackedRequest, Published
  <2>2. CASE plan' \in {plan, None}
    BY <1>1, <2>2 DEF EvidenceInv, Published
  <2>. QED
    BY <2>1, <2>2 DEF AnswerStep, Refreshed, Connected, CellMoved, AmountMoved, InitialLost, InitialAnswered, NotPlanned,
       WithdrawAnalyzed, Simulated, Submitted, ReceiptVerified, decisionVars
<1>5. (simulation # None => Published(simulation.snapshot))'
  <2>1. CASE Simulated(s) /\ simulation' = requests[s].plan
    BY <1>1, <2>1 DEF Simulated, EvidenceInv, RequestsBacked, BackedRequest, Published
  <2>2. CASE simulation' \in {simulation, None}
    BY <1>1, <2>2 DEF EvidenceInv, Published
  <2>. QED
    BY <2>1, <2>2 DEF AnswerStep, Refreshed, Connected, CellMoved, AmountMoved, InitialLost, InitialAnswered, Planned,
       NotPlanned, WithdrawAnalyzed, Simulated, Submitted, ReceiptVerified, decisionVars
<1>. QED
  BY <1>2, <1>3, <1>4, <1>5 DEF EvidenceInv

LEMMA PublishEvidence ==
  ASSUME TypeOK, EvidenceInv, Publish
  PROVE  EvidenceInv'
<1>1. \A h \in DOMAIN published : h \in DOMAIN published' /\ published'[h] = published[h]
  BY DEF Publish, TypeOK
<1>2. \A x : Published(x) => Published(x)'
  BY <1>1 DEF Published
<1>3. \A r : BackedRequest(r) => BackedRequest(r)'
  BY <1>2 DEF BackedRequest
<1>4. UNCHANGED <<bootstrap, plan, simulation, requests>>
  BY DEF Publish, pageVars, decisionVars
<1>. QED
  BY <1>2, <1>3, <1>4 DEF EvidenceInv, RequestsBacked

LEMMA NextEvidence == TypeOK /\ EvidenceInv /\ [Next]_vars => EvidenceInv'
<1>. SUFFICES ASSUME TypeOK, EvidenceInv, [Next]_vars PROVE EvidenceInv'
  OBVIOUS
<1>1. CASE Tick \/ UNCHANGED vars
  BY <1>1 DEF Tick, vars, pageVars, worldVars, decisionVars, EvidenceInv, RequestsBacked,
     BackedRequest, Published
<1>. QED
  BY <1>1, UserEvidence, AnswerEvidence, PublishEvidence DEF Next

LEMMA BackedStep ==
  ASSUME TypeOK, EvidenceInv, [Next]_vars, NEW s \in Slots, Asks(s)
  PROVE  LET sent == requests'[s].sent
         IN /\ \E h \in DOMAIN published : sent.snapshot = published[h]
            /\ now <= sent.snapshot.at + MaximumAge
            /\ \/ DecisionOf(sent) = "ALLOW"
               \/ DecisionOf(sent) = "WARN" /\ acknowledged
<1>1. /\ Submit
      /\ Authorizes(simulation, acknowledged, now)
      /\ requests'[s].sent = simulation
  BY AskingIsSubmit
<1>2. simulation \in Plans /\ simulation # None
  BY <1>1 DEF Submit, Confirming, TypeOK
<1>3. simulation.snapshot \in Snapshots /\ simulation.time \in Times
      /\ simulation.account \in Accounts /\ simulation.amount \in Amounts
  BY <1>2 DEF Plans
<1>4. \E h \in DOMAIN published : simulation.snapshot = published[h]
  BY <1>2 DEF EvidenceInv, Published
<1>5. now <= simulation.snapshot.at + MaximumAge
  <2>1. now \in Nat /\ simulation.snapshot.at \in Nat /\ MaximumAge \in Nat
    BY <1>3, GuardAssumption DEF Snapshots, Times, TypeOK
  <2>2. now - simulation.snapshot.at \in 0..MaximumAge
    BY <1>1 DEF Authorizes, PlanHolds, Fresh
  <2>. QED
    BY <2>1, <2>2
<1>6. DecisionOf(simulation) \in Decisions
  BY <1>3, VerdictType DEF DecisionOf
<1>7. DecisionOf(simulation) # "DENY" /\ (DecisionOf(simulation) = "WARN" => acknowledged)
  BY <1>1 DEF Authorizes, PlanHolds, MustAcknowledge
<1>. QED
  BY <1>1, <1>4, <1>5, <1>6, <1>7 DEF Decisions

(* Whatever overlaps on the page, the wallet is never asked for an amount    *)
(* without published, fresh evidence that allows it.                         *)
THEOREM NoCallUnbacked == Spec => NoUnbackedCall
<1>1. Init => TypeOK /\ EvidenceInv
  BY InitType, InitEvidence
<1>2. TypeOK /\ EvidenceInv /\ [Next]_vars => (TypeOK /\ EvidenceInv)'
  BY NextType, NextEvidence
<1>3. TypeOK /\ EvidenceInv /\ [Next]_vars =>
        [\A s \in Slots : Asks(s) =>
           LET sent == requests'[s].sent
           IN /\ \E h \in DOMAIN published : sent.snapshot = published[h]
              /\ now <= sent.snapshot.at + MaximumAge
              /\ \/ DecisionOf(sent) = "ALLOW"
                 \/ DecisionOf(sent) = "WARN" /\ acknowledged]_vars
  BY BackedStep
<1>. QED
  BY <1>1, <1>2, <1>3, PTL DEF Spec, NoUnbackedCall

---------------------------------------------------------------------------
(* A user who waits for the wallet *)

(* An abandoned connection would replace the account later: there is at most *)
(* one, and none once an account is known.                                   *)
ConnectInv ==
  \A s \in Slots : (requests[s] # None /\ requests[s].kind = "connect") =>
    /\ capability = None
    /\ \A t \in Slots : (requests[t] # None /\ requests[t].kind = "connect") => s = t

(* All that is decided or being decided is for the connected account.        *)
AccountRequest(r) ==
  /\ r.kind \in {"initial", "cell"} => r.intent.account = capability
  /\ r.kind \in {"final", "withdraw", "flip"} => r.for.intent.account = capability

AccountInv ==
  /\ initial # None => initial.intent.account = capability
  /\ plan # None => plan.account = capability
  /\ \A s \in Slots : requests[s] # None => AccountRequest(requests[s])

(* A simulation runs alone, for the plan on the page.                        *)
SimulationInv ==
  \A s \in Slots : (requests[s] # None /\ requests[s].kind = "simulate") =>
    /\ requests[s].plan = plan
    /\ bootstrap # None
    /\ \A t \in Slots : t # s => requests[t] = None

ReadyInv == state = "READY_FOR_CONFIRMATION" => simulation = plan

(* What was sent is what its receipt will be compared with.                  *)
SentInv ==
  \A s \in Slots : (requests[s] # None /\ requests[s].kind \in {"submit", "receipt"}) =>
    requests[s].sent = requests[s].plan

WaitsInv == ConnectInv /\ AccountInv /\ SimulationInv /\ ReadyInv /\ SentInv

LEMMA InitWaits == Init => WaitsInv
BY DEF Init, WaitsInv, ConnectInv, AccountInv, SimulationInv, ReadyInv, SentInv

(* A user who waits acts only while neither the wallet connects nor          *)
(* simulates, and so is every request issued.                                *)
LEMMA WaitingUser ==
  ASSUME TypeOK, SimulationInv, WaitsForWallet,
         UserStep
  PROVE  /\ \A s \in Slots : requests[s] # None => requests[s].kind # "simulate"
         /\ ~Refresh => \A s \in Slots : requests[s] # None => requests[s].kind # "connect"
<1>1. CASE UserActs
  BY <1>1 DEF UserActs, InFlight
<1>2. CASE Refresh /\ bootstrap = None
  BY <1>2 DEF SimulationInv
<1>. QED
  BY <1>1, <1>2 DEF UserStep, Edit, Refresh, Connect, Check, PickCell, Choose, Follow, MayChoose,
     Simulate, Acknowledge, Submit, Confirming

(* The user's steps, by what they do to the decision and to the requests     *)
LEMMA UserDoes ==
  ASSUME TypeOK, UserStep
  PROVE  /\ UNCHANGED <<capability, bootstrap>>
         /\ initial' \in {initial, None} /\ plan' \in {plan, None}
         /\ state' # "READY_FOR_CONFIRMATION" \/ UNCHANGED <<state, plan, simulation>>
<1>1. UNCHANGED <<capability, bootstrap>>
  BY DEF UserStep, Edit, Refresh, Connect, Check, PickCell, Choose, Follow, Simulate, Acknowledge, Submit
<1>2. initial' \in {initial, None} /\ plan' \in {plan, None}
  BY DEF UserStep, Edit, Refresh, Connect, Check, PickCell, Choose, Follow, Simulate, Acknowledge, Submit,
     ClearDecision, decisionVars
<1>3. state' # "READY_FOR_CONFIRMATION" \/ UNCHANGED <<state, plan, simulation>>
  BY DEF UserStep, Edit, Refresh, Connect, Check, PickCell, Choose, Follow, Simulate, Acknowledge, Submit,
     ClearDecision, Idle, decisionVars
<1>. QED
  BY <1>1, <1>2, <1>3

LEMMA UserWaits ==
  ASSUME TypeOK, WaitsInv, WaitsForWallet, UserStep
  PROVE  WaitsInv'
<1>1. \A s \in Slots : requests[s] # None => requests[s].kind # "simulate"
  BY WaitingUser DEF WaitsInv, UserStep
<1>2. CASE UNCHANGED requests
  BY <1>1, <1>2, UserDoes DEF WaitsInv, ConnectInv, AccountInv, AccountRequest, SimulationInv,
     ReadyInv, SentInv
<1>3. ASSUME NEW r, Issue(r),
             r.kind = "connect" =>
               /\ capability = None
               /\ \A s \in Slots : requests[s] # None => requests[s].kind # "connect",
             AccountRequest(r),
             r.kind = "simulate" =>
               /\ r.plan = plan /\ plan' = plan /\ bootstrap # None
               /\ \A s \in Slots : requests[s] = None,
             r.kind \in {"submit", "receipt"} => r.sent = r.plan
      PROVE  WaitsInv'
  <2>1. PICK n \in Slots : /\ requests[n] = None /\ requests'[n] = r
                           /\ \A t \in Slots : t # n => requests'[t] = requests[t]
    BY <1>3 DEF Issue, TypeOK
  <2>2. ConnectInv'
    BY <1>3, <2>1, UserDoes DEF WaitsInv, ConnectInv
  <2>3. AccountInv'
    <3>1. AccountRequest(r)'
      BY <1>3, UserDoes DEF AccountRequest
    <3>2. \A t \in Slots : t # n => (requests[t] # None => AccountRequest(requests[t]))'
      BY <2>1, UserDoes DEF WaitsInv, AccountInv, AccountRequest
    <3>3. (requests[n] # None => AccountRequest(requests[n]))'
      BY <2>1, <3>1 DEF AccountRequest
    <3>. QED
      BY <3>2, <3>3, UserDoes DEF WaitsInv, AccountInv
  <2>4. SimulationInv'
    BY <1>1, <1>3, <2>1, UserDoes DEF SimulationInv
  <2>5. ReadyInv'
    BY UserDoes DEF WaitsInv, ReadyInv
  <2>6. SentInv'
    BY <1>3, <2>1 DEF WaitsInv, SentInv
  <2>. QED
    BY <2>2, <2>3, <2>4, <2>5, <2>6 DEF WaitsInv
<1>4. CASE Refresh
  BY <1>3, <1>4 DEF Refresh, AccountRequest
<1>5. CASE Connect
  BY <1>3, <1>5, WaitingUser DEF WaitsInv, Connect, AccountRequest, UserActs, InFlight
<1>6. CASE Check /\ requests' # requests
  <2>1. PICK r : /\ Issue(r) /\ r.kind = "initial" /\ r.intent.account = capability
    BY <1>6 DEF Check, InitialIntent
  <2>. QED
    BY <1>3, <2>1 DEF AccountRequest
<1>7. CASE Choose \/ Follow
  <2>1. PICK r : /\ Issue(r) /\ r.kind \in {"final", "withdraw", "flip"}
                 /\ r.for.intent = initial.intent
    BY <1>7, ChooseIssues, FollowIssues
  <2>2. initial.intent.account = capability
    BY <1>7 DEF Choose, Follow, MayChoose, WaitsInv, AccountInv
  <2>. QED
    BY <1>3, <2>1, <2>2 DEF AccountRequest
<1>10. CASE PickCell /\ requests' # requests
  <2>1. PICK r : Issue(r) /\ r.kind = "cell" /\ r.intent.account = capability
    BY <1>10, PickIssues
  <2>. QED
    BY <1>3, <2>1 DEF AccountRequest
<1>8. CASE Simulate /\ requests' # requests
  <2>1. /\ Issue([kind |-> "simulate", plan |-> plan]) /\ plan' = plan /\ bootstrap # None
        /\ \A s \in Slots : requests[s] = None
    BY <1>8 DEF Simulate, UserActs, decisionVars
  <2>. QED
    BY <1>3, <2>1 DEF AccountRequest
<1>9. CASE Submit /\ requests' # requests
  <2>1. Issue([kind |-> "submit", account |-> capability, sent |-> simulation, plan |-> plan])
    BY <1>9 DEF Submit
  <2>2. simulation = plan
    BY <1>9 DEF Submit, Confirming, WaitsInv, ReadyInv
  <2>. QED
    BY <1>3, <2>1, <2>2 DEF AccountRequest
<1>. QED
  BY <1>2, <1>4, <1>5, <1>6, <1>7, <1>8, <1>9, <1>10 DEF UserStep, Edit, Acknowledge, worldVars

LEMMA AnswerWaits ==
  ASSUME TypeOK, WaitsInv, NEW s \in Slots, AnswerStep(s)
  PROVE  WaitsInv'
<1>. USE AnswerDoes
<1>1. CASE Connected(s)
  <2>1. capability = None
    BY <1>1 DEF Connected, WaitsInv, ConnectInv
  <2>2. \A t \in Slots : t # s /\ requests[t] # None => requests[t].kind # "connect"
    BY <1>1 DEF Connected, WaitsInv, ConnectInv
  <2>3. requests'[s] = None /\ UNCHANGED <<initial, plan, bootstrap>>
    BY <1>1, AnsweredEffect DEF Connected, decisionVars
  <2>4. ConnectInv'
    BY <2>2, <2>3 DEF ConnectInv
  <2>5. initial = None /\ plan = None
    BY <2>1, GuardAssumption DEF WaitsInv, AccountInv, TypeOK, Intents, Plans
  <2>6. \A t \in Slots : requests[t] # None =>
          requests[t].kind \notin {"initial", "cell", "final", "withdraw", "flip"}
    <3>. SUFFICES ASSUME NEW t \in Slots, requests[t] # None,
                         requests[t].kind \in {"initial", "cell", "final", "withdraw", "flip"}
                  PROVE  FALSE
      OBVIOUS
    <3>1. AccountRequest(requests[t])
      BY DEF WaitsInv, AccountInv
    <3>2. CASE requests[t].kind \in {"initial", "cell"}
      BY <2>1, <3>1, <3>2, RequestFields, GuardAssumption DEF AccountRequest, Intents
    <3>3. CASE requests[t].kind \in {"final", "withdraw", "flip"}
      BY <2>1, <3>1, <3>3, RequestFields, GuardAssumption DEF AccountRequest, Requests, Intents
    <3>. QED
      BY <3>2, <3>3
  <2>7. AccountInv'
    BY <2>3, <2>5, <2>6 DEF AccountInv, AccountRequest
  <2>8. SimulationInv'
    BY <2>3 DEF WaitsInv, SimulationInv
  <2>9. ReadyInv' /\ SentInv'
    BY <1>1, <2>3 DEF Connected, WaitsInv, ReadyInv, SentInv, decisionVars
  <2>. QED
    BY <2>4, <2>7, <2>8, <2>9 DEF WaitsInv
<1>2. CASE ~Connected(s)
  <2>1. UNCHANGED capability
    BY <1>2 DEF AnswerStep, Refreshed, CellMoved, AmountMoved, InitialLost, InitialAnswered, Planned, NotPlanned,
       WithdrawAnalyzed, Simulated, Submitted, ReceiptVerified
  <2>2. ConnectInv'
    BY <2>1 DEF GoesOn, WaitsInv, ConnectInv
  <2>3. AccountInv'
    <3>1. \A t \in Slots : (requests[t] # None => AccountRequest(requests[t]))'
      <4>. SUFFICES ASSUME NEW t \in Slots, requests'[t] # None
                    PROVE  AccountRequest(requests[t])'
        OBVIOUS
      <4>1. CASE t = s
        <5>1. AccountRequest(requests[s])
          BY AnswerDoes DEF WaitsInv, AccountInv
        <5>. QED
          BY <2>1, <4>1, <5>1, AnswerDoes DEF GoesOn, AccountRequest
      <4>2. CASE t # s
        BY <2>1, <4>2 DEF WaitsInv, AccountInv, AccountRequest
      <4>. QED
        BY <4>1, <4>2
    <3>2. (initial # None => initial.intent.account = capability)'
      <4>1. CASE UNCHANGED initial
        BY <2>1, <4>1 DEF WaitsInv, AccountInv
      <4>2. CASE InitialLost(s) \/ InitialAnswered(s)
        <5>1. requests[s].intent.account = capability
          BY <4>2 DEF InitialLost, InitialAnswered, WaitsInv, AccountInv, AccountRequest
        <5>2. initial'.intent = requests[s].intent
          BY <4>2 DEF InitialLost, InitialAnswered
        <5>. QED
          BY <2>1, <5>1, <5>2
      <4>. QED
        BY <1>2, <4>1, <4>2 DEF AnswerStep, Refreshed, CellMoved, AmountMoved, Planned, NotPlanned,
           WithdrawAnalyzed, Simulated, Submitted, ReceiptVerified, decisionVars
    <3>3. (plan # None => plan.account = capability)'
      <4>1. CASE Planned(s)
        <5>1. requests[s].for \in Requests /\ requests[s].for.intent.account = capability
          BY <4>1, RequestFields DEF Planned, WaitsInv, AccountInv, AccountRequest
        <5>. QED
          BY <2>1, <4>1, <5>1, PlanOfType DEF Planned
      <4>2. CASE plan' \in {plan, None}
        BY <2>1, <4>2 DEF WaitsInv, AccountInv
      <4>. QED
        BY <1>2, <4>1, <4>2 DEF AnswerStep, Refreshed, CellMoved, AmountMoved, InitialLost, InitialAnswered, NotPlanned,
           WithdrawAnalyzed, Simulated, Submitted, ReceiptVerified, decisionVars
    <3>. QED
      BY <3>1, <3>2, <3>3 DEF AccountInv
  <2>4. SimulationInv'
    <3>. SUFFICES ASSUME NEW t \in Slots, requests'[t] # None, requests'[t].kind = "simulate"
                  PROVE  FALSE
      BY DEF SimulationInv
    <3>1. t # s /\ requests[t] # None /\ requests[t].kind = "simulate"
      BY DEF GoesOn
    <3>. QED
      BY <3>1 DEF WaitsInv, SimulationInv
  <2>5. ReadyInv'
    <3>1. CASE Simulated(s)
      BY <3>1 DEF Simulated, WaitsInv, SimulationInv, ReadyInv
    <3>2. CASE Refreshed(s)
      BY <3>2 DEF Refreshed, Idle, WaitsInv, ReadyInv, decisionVars
    <3>. QED
      BY <1>2, <3>1, <3>2 DEF AnswerStep, CellMoved, AmountMoved, InitialLost, InitialAnswered, Planned, NotPlanned,
         WithdrawAnalyzed, Submitted, ReceiptVerified, ReadyInv
  <2>6. SentInv'
    BY DEF GoesOn, WaitsInv, SentInv
  <2>. QED
    BY <2>2, <2>3, <2>4, <2>5, <2>6 DEF WaitsInv
<1>. QED
  BY <1>1, <1>2

LEMMA NextWaits == WaitsForWallet /\ TypeOK /\ WaitsInv /\ [Next]_vars => WaitsInv'
<1>. SUFFICES ASSUME WaitsForWallet, TypeOK, WaitsInv, [Next]_vars PROVE WaitsInv'
  OBVIOUS
<1>1. CASE Publish \/ Tick \/ UNCHANGED vars
  BY <1>1 DEF Publish, Tick, vars, pageVars, worldVars, decisionVars, WaitsInv, ConnectInv,
     AccountInv, AccountRequest, SimulationInv, ReadyInv, SentInv
<1>. QED
  BY <1>1, UserWaits, AnswerWaits DEF Next

LEMMA ShownStep ==
  ASSUME TypeOK, WaitsInv, [Next]_vars, NEW s \in Slots, Asks(s)
  PROVE  requests'[s].sent = plan /\ requests'[s].account = plan.account
<1>1. Submit
      /\ requests'[s].sent = simulation
      /\ requests'[s].account = capability
  BY AskingIsSubmit
<1>. QED
  BY <1>1 DEF Submit, Confirming, WaitsInv, ReadyInv, AccountInv

(* The user who leaves the page alone while the wallet connects or simulates *)
(* is never made to sign anything but what the confirmation panel shows.     *)
THEOREM WaitingUserGetsWhatIsShown == WaitsForWallet /\ Spec => WalletGetsWhatIsShown
<1>. SUFFICES ASSUME WaitsForWallet PROVE Spec => WalletGetsWhatIsShown
  OBVIOUS
<1>1. Init => TypeOK /\ WaitsInv
  BY InitType, InitWaits
<1>2. TypeOK /\ WaitsInv /\ [Next]_vars => (TypeOK /\ WaitsInv)'
  BY NextType, NextWaits
<1>3. TypeOK /\ WaitsInv /\ [Next]_vars =>
        [\A s \in Slots : Asks(s) =>
           /\ requests'[s].sent = plan
           /\ requests'[s].account = plan.account]_vars
  BY ShownStep
<1>. QED
  BY <1>1, <1>2, <1>3, PTL DEF Spec, WalletGetsWhatIsShown

---------------------------------------------------------------------------
(* What a receipt proves *)

(* A user's step takes no request away. *)
LEMMA UserKeepsRequests ==
  ASSUME TypeOK, UserStep, NEW t \in Slots, requests[t] # None
  PROVE  requests'[t] = requests[t]
<1>1. UNCHANGED requests \/ \E r : Issue(r)
  BY DEF UserStep, Edit, Refresh, Connect, Check, PickCell, Choose, Follow, Simulate, Acknowledge,
     Submit, worldVars
<1>. QED
  BY <1>1, IssueEffect

LEMMA StoringIsVerified ==
  ASSUME TypeOK, [Next]_vars, NEW s \in Slots, Stores(s)
  PROVE  artifact' = requests[s].plan
<1>1. requests[s] # None /\ requests[s].kind = "receipt" /\ requests'[s] = None
      /\ state' = "SUCCESS"
  BY DEF Stores
<1>2. ~UserStep
  BY <1>1, UserKeepsRequests
<1>3. ~Publish /\ ~Tick /\ ~UNCHANGED vars
  BY <1>1 DEF Publish, Tick, vars, worldVars
<1>4. PICK t \in Slots : AnswerStep(t)
  BY <1>2, <1>3 DEF Next
<1>5. t = s
  BY <1>1, <1>4, AnswerDoes
<1>6. ReceiptVerified(s)
  BY <1>1, <1>4, <1>5 DEF AnswerStep, Refreshed, Connected, CellMoved, AmountMoved, InitialLost,
     InitialAnswered, Planned, NotPlanned, WithdrawAnalyzed, Simulated, Submitted
<1>. QED
  BY <1>1, <1>6 DEF ReceiptVerified

(* For a user who waits, the artifact is the very plan that was submitted,   *)
(* with its evidence.                                                        *)
THEOREM WaitingUserArtifact == WaitsForWallet /\ Spec => ArtifactBindsItsEvidence
<1>. SUFFICES ASSUME WaitsForWallet PROVE Spec => ArtifactBindsItsEvidence
  OBVIOUS
<1>1. Init => TypeOK /\ WaitsInv
  BY InitType, InitWaits
<1>2. TypeOK /\ WaitsInv /\ [Next]_vars => (TypeOK /\ WaitsInv)'
  BY NextType, NextWaits
<1>3. TypeOK /\ WaitsInv /\ [Next]_vars =>
        [\A s \in Slots : Stores(s) => artifact' = requests[s].sent]_vars
  <2>. SUFFICES ASSUME TypeOK, WaitsInv, [Next]_vars, NEW s \in Slots, Stores(s)
                PROVE  artifact' = requests[s].sent
    OBVIOUS
  <2>1. artifact' = requests[s].plan
    BY StoringIsVerified
  <2>2. requests[s].sent = requests[s].plan
    BY DEF Stores, WaitsInv, SentInv
  <2>. QED
    BY <2>1, <2>2
<1>. QED
  BY <1>1, <1>2, <1>3, PTL DEF Spec, ArtifactBindsItsEvidence

---------------------------------------------------------------------------
(* Acknowledgements *)

AcknowledgedInv == acknowledged => plan # None /\ MustAcknowledge(plan)

(* Only Acknowledge acknowledges, on the plan of the page, and every step    *)
(* that changes the plan takes the acknowledgement back.                     *)
LEMMA AcknowledgeStep ==
  ASSUME TypeOK, [Next]_vars
  PROVE  \/ ~acknowledged'
         \/ UNCHANGED <<plan, acknowledged>>
         \/ UNCHANGED plan /\ plan # None /\ MustAcknowledge(plan)
<1>1. CASE UserStep
  BY <1>1 DEF UserStep, Edit, Refresh, Connect, Check, PickCell, Choose, Follow, Simulate,
     Acknowledge, Submit, Confirming, ClearDecision, decisionVars
<1>2. ASSUME NEW s \in Slots, AnswerStep(s)
      PROVE  ~acknowledged' \/ UNCHANGED <<plan, acknowledged>>
  BY <1>2 DEF AnswerStep, Refreshed, Connected, CellMoved, AmountMoved, InitialLost,
     InitialAnswered, Planned, NotPlanned, WithdrawAnalyzed, Simulated, Submitted,
     ReceiptVerified, decisionVars
<1>3. CASE Publish \/ Tick \/ UNCHANGED vars
  BY <1>3 DEF Publish, Tick, vars, pageVars, decisionVars
<1>. QED
  BY <1>1, <1>2, <1>3 DEF Next

(* Whatever overlaps, an acknowledgement is of the warning of the plan on    *)
(* the page, and of no plan before it.                                       *)
THEOREM AcknowledgedPlan == Spec => AcknowledgementIsOfThePlan
<1>1. Init => TypeOK /\ AcknowledgedInv
  BY InitType DEF Init, AcknowledgedInv
<1>2. TypeOK /\ AcknowledgedInv /\ [Next]_vars =>
        /\ plan' # plan => ~acknowledged'
        /\ acknowledged' => plan' # None /\ MustAcknowledge(plan')
  <2>. SUFFICES ASSUME TypeOK, AcknowledgedInv, [Next]_vars
                PROVE  /\ plan' # plan => ~acknowledged'
                       /\ acknowledged' => plan' # None /\ MustAcknowledge(plan')
    OBVIOUS
  <2>1. MustAcknowledge(plan) /\ plan' = plan => MustAcknowledge(plan')
    BY DEF MustAcknowledge
  <2>. QED
    BY <2>1, AcknowledgeStep DEF AcknowledgedInv
<1>3. TypeOK /\ AcknowledgedInv /\ [Next]_vars => (TypeOK /\ AcknowledgedInv)'
  BY <1>2, NextType DEF AcknowledgedInv, MustAcknowledge, DecisionOf, Decision, Case
<1>4. TypeOK /\ AcknowledgedInv /\ [Next]_vars =>
        [/\ plan' # plan => ~acknowledged'
         /\ acknowledged' => plan' # None /\ MustAcknowledge(plan')]_vars
  BY <1>2
<1>. QED
  BY <1>1, <1>3, <1>4, PTL DEF Spec, AcknowledgementIsOfThePlan

---------------------------------------------------------------------------
(* Progress *)

(* ProgressHasARequest, state by state *)
ProgressParts ==
  /\ state = "PREFLIGHT_LOADING" => InFlight({"initial"})
  /\ state = "FINAL_PREFLIGHT_LOADING" => InFlight({"final", "withdraw"})
  /\ state = "SIMULATING" => InFlight({"simulate"})
  /\ state = "SUBMITTING" => InFlight({"submit"})
  /\ state = "RECEIPT_VERIFYING" => InFlight({"receipt"})

LEMMA ProgressMeans == ProgressParts => ProgressHasARequest
<1>1. /\ {j \in DOMAIN Awaiting : Awaiting[j] = "PREFLIGHT_LOADING"} = {"initial"}
      /\ {j \in DOMAIN Awaiting : Awaiting[j] = "FINAL_PREFLIGHT_LOADING"}
           = {"final", "withdraw"}
      /\ {j \in DOMAIN Awaiting : Awaiting[j] = "SIMULATING"} = {"simulate"}
      /\ {j \in DOMAIN Awaiting : Awaiting[j] = "SUBMITTING"} = {"submit"}
      /\ {j \in DOMAIN Awaiting : Awaiting[j] = "RECEIPT_VERIFYING"} = {"receipt"}
  BY AwaitingStates
<1>. QED
  BY <1>1, AwaitingStates DEF ProgressHasARequest, ProgressParts

LEMMA NewInFlight ==
  ASSUME TypeOK, NEW r \in Requested, Issue(r), NEW kinds, r.kind \in kinds
  PROVE  InFlight(kinds)'
<1>1. r # None
  BY RequestAssumption
<1>. QED
  BY <1>1, IssueEffect DEF InFlight

LEMMA UserProgress ==
  ASSUME TypeOK, ProgressParts, UserStep
  PROVE  ProgressParts'
<1>1. CASE Edit \/ Refresh \/ PickCell
  <2>1. state' \in {"DISCONNECTED", "CONNECTED"}
    BY <1>1 DEF Edit, Refresh, PickCell, ClearDecision, Idle
  <2>. QED
    BY <2>1 DEF ProgressParts
<1>2. CASE Connect
  BY <1>2 DEF Connect, ProgressParts
<1>3. CASE Check
  <2>1. CASE form.amount = None
    BY <1>3, <2>1 DEF Check, ProgressParts
  <2>2. CASE form.amount # None
    <3>1. InFlight({"initial"})'
      BY <1>3, <2>2, CheckIssues, NewInFlight
    <3>. QED
      BY <1>3, <2>2, <3>1 DEF Check, ProgressParts
  <2>. QED
    BY <2>1, <2>2
<1>4. CASE Choose
  <2>1. InFlight({"final", "withdraw"})'
    BY <1>4, ChooseIssues, NewInFlight
  <2>2. state' = "FINAL_PREFLIGHT_LOADING"
    BY <1>4 DEF Choose
  <2>. QED
    BY <2>1, <2>2 DEF ProgressParts
<1>8. CASE Follow
  <2>1. PICK r : Issue(r)
    BY <1>8, FollowIssues
  <2>2. ASSUME NEW kinds, InFlight(kinds) PROVE InFlight(kinds)'
    BY <2>1, <2>2, IssueEffect DEF InFlight
  <2>3. state' = state
    BY <1>8 DEF Follow
  <2>. QED
    BY <2>2, <2>3 DEF ProgressParts
<1>5. CASE Simulate
  <2>1. CASE ~PlanHolds(plan, now)
    BY <1>5, <2>1 DEF Simulate, ProgressParts
  <2>2. CASE PlanHolds(plan, now)
    <3>1. state' = "SIMULATING" /\ Issue([kind |-> "simulate", plan |-> plan])
      BY <1>5, <2>2 DEF Simulate
    <3>2. InFlight({"simulate"})'
      BY <1>5, <3>1, SimulateIssues, NewInFlight
    <3>. QED
      BY <3>1, <3>2 DEF ProgressParts
  <2>. QED
    BY <2>1, <2>2
<1>6. CASE Acknowledge
  BY <1>6 DEF Acknowledge, worldVars, InFlight, ProgressParts
<1>7. CASE Submit
  <2>1. CASE ~Authorizes(simulation, acknowledged, now)
    BY <1>7, <2>1 DEF Submit, ProgressParts
  <2>2. CASE Authorizes(simulation, acknowledged, now)
    <3>1. /\ state' = "SUBMITTING"
          /\ Issue([kind |-> "submit", account |-> capability, sent |-> simulation,
                    plan |-> plan])
      BY <1>7, <2>2 DEF Submit
    <3>2. InFlight({"submit"})'
      BY <1>7, <3>1, SubmitIssues, NewInFlight
    <3>. QED
      BY <3>1, <3>2 DEF ProgressParts
  <2>. QED
    BY <2>1, <2>2
<1>. QED
  BY <1>1, <1>2, <1>3, <1>4, <1>5, <1>6, <1>7, <1>8 DEF UserStep

LEMMA AnswerProgress ==
  ASSUME TypeOK, ProgressParts, NEW s \in Slots, AnswerStep(s)
  PROVE  ProgressParts'
<1>1. CASE Refreshed(s)
  <2>1. ASSUME NEW kinds, "refresh" \notin kinds, InFlight(kinds) PROVE InFlight(kinds)'
    BY <1>1, <2>1, AnswerDoes DEF Refreshed, InFlight
  <2>2. state' \in {"DISCONNECTED", "CONNECTED", state}
    BY <1>1 DEF Refreshed, Idle
  <2>. QED
    BY <2>1, <2>2 DEF ProgressParts
<1>2. CASE Submitted(s)
  <2>1. CASE state' = "RECEIPT_VERIFYING"
    <3>1. Continues(s, [requests[s] EXCEPT !.kind = "receipt"])
      BY <1>2, <2>1 DEF Submitted
    <3>2. requests[s] \in [kind : {"submit", "receipt"}, account : Accounts, sent : Plans,
                           plan : Plans]
      BY <1>2 DEF Submitted, TypeOK, Requested
    <3>3. requests'[s] = [requests[s] EXCEPT !.kind = "receipt"]
      BY <3>1, ContinuesEffect
    <3>4. requests'[s] \in Requested /\ requests'[s].kind = "receipt"
      BY <3>2, <3>3 DEF Requested
    <3>5. InFlight({"receipt"})'
      BY <3>4, RequestAssumption DEF InFlight
    <3>. QED
      BY <2>1, <3>5 DEF ProgressParts
  <2>2. CASE state' # "RECEIPT_VERIFYING"
    BY <1>2, <2>2 DEF Submitted, ProgressParts
  <2>. QED
    BY <2>1, <2>2
<1>3. CASE InitialAnswered(s)
  <2>1. state' \in {"PREFLIGHT_UNAVAILABLE", "RECOMMENDATION_AVAILABLE", "PREFLIGHT_COMPLETE"}
    BY <1>3 DEF InitialAnswered
  <2>. QED
    BY <2>1 DEF ProgressParts
<1>5. CASE Connected(s) /\ state' = state
  <2>1. ASSUME NEW kinds, "connect" \notin kinds, InFlight(kinds) PROVE InFlight(kinds)'
    BY <1>5, <2>1, AnswerDoes DEF Connected, InFlight
  <2>. QED
    BY <1>5, <2>1 DEF ProgressParts
<1>6. CASE CellMoved(s)
  <2>1. InFlight({"initial"})'
    BY <1>6, CellGoesOn, ContinuesEffect, RequestAssumption DEF InFlight
  <2>. QED
    BY <1>6, <2>1 DEF CellMoved, ProgressParts
<1>7. CASE AmountMoved(s)
  <2>1. InFlight({"final", "withdraw"})'
    BY <1>7, AmountGoesOn, ContinuesEffect, RequestAssumption DEF InFlight
  <2>. QED
    BY <1>7, <2>1 DEF AmountMoved, ProgressParts
<1>4. CASE (Connected(s) /\ state' # state) \/ InitialLost(s) \/ Planned(s) \/ NotPlanned(s) \/ WithdrawAnalyzed(s)
             \/ Simulated(s) \/ ReceiptVerified(s)
  <2>1. state' \in {"CONNECTED", "WRONG_NETWORK", "UNSUPPORTED_WALLET", "PREFLIGHT_UNAVAILABLE",
                    "FINAL_REVIEW", "WITHDRAW_ANALYSIS_COMPLETE", "READY_FOR_CONFIRMATION",
                    "SIMULATION_FAILED", "SUCCESS", "RECEIPT_MISMATCH"}
    BY <1>4 DEF Connected, InitialLost, Planned, NotPlanned, WithdrawAnalyzed, Simulated,
       ReceiptVerified
  <2>. QED
    BY <2>1 DEF ProgressParts
<1>. QED
  BY <1>1, <1>2, <1>3, <1>4, <1>5, <1>6, <1>7 DEF AnswerStep

(* Whatever overlaps, the page never shows progress of a check, a simulation *)
(* or a submission with nothing to wait for.                                 *)
THEOREM ProgressIsAwaited == Spec => []ProgressHasARequest
<1>1. Init => TypeOK /\ ProgressParts
  BY InitType DEF Init, ProgressParts
<1>2. TypeOK /\ ProgressParts /\ [Next]_vars => (TypeOK /\ ProgressParts)'
  <2>. SUFFICES ASSUME TypeOK, ProgressParts, [Next]_vars PROVE ProgressParts'
    BY NextType
  <2>1. CASE Publish \/ Tick \/ UNCHANGED vars
    BY <2>1 DEF Publish, Tick, vars, pageVars, worldVars, ProgressParts, InFlight
  <2>. QED
    BY <2>1, UserProgress, AnswerProgress DEF Next
<1>. QED
  BY <1>1, <1>2, ProgressMeans, PTL DEF Spec
=============================================================================
