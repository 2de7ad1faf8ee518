--------------------------- MODULE PreflightSession ---------------------------
(***************************************************************************)
(* A user preparing one action while the pool goes on: events arrive, time *)
(* passes, and the user asks for a preflight (src/starknet/preflight.ts),  *)
(* follows what it recommends, or picks an amount from the public cover.   *)
(*                                                                         *)
(* The evidence is what the chain shows at the time of an evaluation; how  *)
(* a snapshot lags behind the chain is the subject of IncrementalIndexer   *)
(* and SigningWorkflow.  Block timestamps never decrease, and an event of  *)
(* the second in which an evaluation runs may still arrive after it.       *)
(***************************************************************************)
EXTENDS LinkageEngine

CONSTANTS
  Accounts,     \* the addresses that occur in events and intents
  Tokens,
  Actors,       \* accounts and recipients of the events that arrive
  User,         \* the account that asks
  Amounts,      \* amounts of pool events, in base units
  Sessions,     \* pairs of a snapshot to start from and an intent to start with,
                \* the intent's deadline relative to the time of the preflight
  PageDeadline, \* the 600 seconds that the page gives an exact intent
  StartTime,
  MaxTime,      \* bound: the last tick
  MaxArrivals   \* bound: events that arrive during the session

Observation == [timestamp : Nat, actor : Accounts, token : Tokens, amount : Nat]

Snapshot ==
  [engineVersion : {"CUTOUT-v1.3", "CUTOUT-v1.4"},
   deposits      : Seq(Observation),
   withdrawals   : Seq(Observation),
   registrations : Seq([timestamp : Nat, actor : Accounts])]

Intent ==
  [action : {"shield", "withdraw"}, account : Accounts, recipient : Accounts, token : Tokens,
   mode : {"exact", "flexible"}, amount : Nat, min : Nat, max : Nat, deadline : Nat]

ASSUME SessionAssumption ==
  /\ Actors \cup {User} \subseteq Accounts
  /\ Synthetic \notin Accounts
  /\ Amounts \subseteq Nat \ {0}
  /\ {PageDeadline, StartTime, MaxTime, MaxArrivals} \subseteq Nat
  /\ Sessions \subseteq Snapshot \X Intent
  /\ \A s \in Sessions : LET p == s[2] IN
                          /\ p.amount \in p.min..p.max
                          /\ p.mode = "exact" => p.min = p.amount /\ p.max = p.amount
                          /\ p.account = User /\ p.recipient = User

VARIABLES
  now,
  evidence,    \* the snapshot of the pool so far
  arrivals,    \* events that came during the session
  stage,       \* "PROPOSING", "RATED" (initial preflight) or "FINAL" (exact intent)
  intent,      \* the proposal, then the intent that was last answered
  result       \* the last answer, None before the first

vars == <<now, evidence, arrivals, stage, intent, result>>

None == [at |-> StartTime]

Init ==
  /\ now = StartTime
  /\ \E s \in Sessions : evidence = s[1] /\ intent = s[2]
  /\ arrivals = 0
  /\ stage = "PROPOSING"
  /\ result = None

Tick ==
  /\ now < MaxTime
  /\ now' = now + 1
  /\ UNCHANGED <<evidence, arrivals, stage, intent, result>>

---------------------------------------------------------------------------
(* The pool: a block with one event *)

Event(actor, amount) ==
  [timestamp |-> now, actor |-> actor, token |-> intent.token, amount |-> amount]

Arrive(e) ==
  /\ arrivals < MaxArrivals
  /\ arrivals' = arrivals + 1
  /\ evidence' = e
  /\ UNCHANGED <<now, stage, intent, result>>

Deposit(actor, amount) ==
  Arrive([evidence EXCEPT !.deposits = Append(@, Event(actor, amount))])

Withdraw(actor, amount) ==
  Arrive([evidence EXCEPT !.withdrawals = Append(@, Event(actor, amount))])

Register(actor) ==
  Arrive([evidence EXCEPT !.registrations = Append(@, [timestamp |-> now, actor |-> actor])])

---------------------------------------------------------------------------
(* The user *)

(* runSpikePreflight of a valid intent with a supported action *)
Answer(i) ==
  /\ Supported(i, evidence)
  /\ now <= i.deadline
  /\ intent' = i
  /\ result' = Evaluate(i, now, evidence)
  /\ UNCHANGED <<now, evidence, arrivals>>

(* Seeded fault: the selected amount keeps the range it came from. *)
StillFlexible(amount) == [intent EXCEPT !.amount = amount, !.deadline = now + PageDeadline]

(* makeFinalExactIntent *)
Exact(amount) ==
  [intent EXCEPT !.mode = "exact", !.amount = amount, !.min = amount, !.max = amount,
                 !.deadline = now + PageDeadline]

(* The initial preflight *)
Propose ==
  /\ stage = "PROPOSING"
  /\ stage' = "RATED"
  /\ Answer([intent EXCEPT !.deadline = now + @])

(* A cell of the cover ledger becomes an exact proposal, rated at once. *)
PickFromCover(amount) ==
  /\ stage = "PROPOSING"
  /\ amount \in DOMAIN CoverRows(intent.action, intent.token, now, evidence)
  /\ stage' = "RATED"
  /\ Answer(Exact(amount))

(* What WAIT suggests: the same preflight again, one cohort window later.    *)
Recheck ==
  /\ stage = "RATED"
  /\ result.recommendation.kind = "WAIT"
  /\ now >= result.at + WaitHorizon
  /\ UNCHANGED stage
  /\ Answer(intent)

(* The final preflight, of an exact intent: the recommended amount, or the   *)
(* proposed one unless that was denied and nothing is recommended instead.   *)
Choose(amount) ==
  /\ stage = "RATED"
  /\ IF result.recommendation.kind = "CHANGE_AMOUNT"
     THEN amount \in {result.recommendation.to, intent.amount}
     ELSE amount = intent.amount /\ result.decision # "DENY"
  /\ stage' = "FINAL"
  /\ Answer(Exact(amount))

Next ==
  \/ Tick
  \/ \E actor \in Actors, amount \in Amounts : Deposit(actor, amount) \/ Withdraw(actor, amount)
  \/ \E actor \in Actors \cup {User} : Register(actor)
  \/ Propose \/ Recheck
  \/ \E amount \in Amounts : PickFromCover(amount) \/ Choose(amount)

Spec == Init /\ [][Next]_vars

---------------------------------------------------------------------------
(* Properties *)

Kinds == {"NONE", "CHANGE_AMOUNT", "WAIT", "NO_SAFER_EXECUTION"}

(* Type correctness *)
TypeOK ==
  /\ now \in StartTime..Max({StartTime, MaxTime})
  /\ evidence \in Snapshot
  /\ arrivals \in 0..MaxArrivals
  /\ stage \in {"PROPOSING", "RATED", "FINAL"}
  /\ intent \in Intent
  /\ intent.amount \in intent.min..intent.max
  /\ stage = "PROPOSING" <=> result = None
  /\ stage # "PROPOSING" => /\ result.at \in StartTime..now
                            /\ result.decision = DecisionFor(result.band)
                            /\ result.recommendation.kind \in Kinds
  /\ stage = "FINAL" => intent.mode = "exact"

(* The burst scan finds the largest number of uses inside any interval of    *)
(* one cohort window, for every amount and both kinds of event.              *)
BurstIsTheBusiestWindow ==
  \A observations \in {evidence.deposits, evidence.withdrawals}, amount \in Amounts :
    LET times == TimesOf(observations, Matching(observations, intent.token, amount, now))
        inWindow(start) == {i \in DOMAIN times : times[i] \in start..(start + CohortSeconds)}
    IN MaximumBurst(times) = Max({0} \cup {Cardinality(inWindow(t)) : t \in 0..now})

(* Asking about the past gives the answer the past gave: what arrives at or  *)
(* after the moment of an evaluation never enters it (THREAT_MODEL 5.1).     *)
VerdictIsReplayable ==
  stage # "PROPOSING" => result = Evaluate(intent, result.at, evidence)

(* The answer does not depend on the order in which the snapshot lists the   *)
(* events, ties between recommended amounts included.                        *)
OrderIsIrrelevant ==
  stage # "PROPOSING" =>
    result = Evaluate(intent, result.at, [evidence EXCEPT !.deposits = Reverse(@),
                                          !.withdrawals = Reverse(@), !.registrations = Reverse(@)])

HealthyAt(amount, time) == Cohort(intent, amount, time, evidence).healthy

(* Of all amounts the user permits, not just of those the code considers,    *)
(* the recommended one is healthy and none that is healthy is closer to the  *)
(* proposal; and if one is healthy, one is recommended (THREAT_MODEL 8).     *)
RecommendationIsClosest ==
  (stage # "PROPOSING" /\ ~result.healthy) =>
    LET others == {a \in (intent.min..intent.max) \ {intent.amount} : HealthyAt(a, result.at)}
        to == result.recommendation.to
    IN IF others = {} THEN result.recommendation.kind # "CHANGE_AMOUNT"
       ELSE /\ result.recommendation.kind = "CHANGE_AMOUNT"
            /\ to \in others
            /\ \A a \in others : Deviation(to, intent.amount) <= Deviation(a, intent.amount)

(* A recommended deposit is allowed: changing the amount for the sake of its *)
(* cohort fires no other signal, so the final preflight on the same evidence *)
(* neither warns nor denies.                                                 *)
RecommendedDepositIsAllowed ==
  (stage = "RATED" /\ intent.action = "shield" /\ result.recommendation.kind = "CHANGE_AMOUNT") =>
    LET final == ExactIntent("shield", User, intent.token, result.recommendation.to, result.at)
    IN Evaluate(final, result.at, evidence).decision = "ALLOW"

(* Cover is never live traffic alone: a healthy amount was also used before  *)
(* the live window.                                                          *)
HealthyHasAPast ==
  \A amount \in Amounts :
    HealthyAt(amount, now) =>
      LET observations == ObservationsFor(intent, evidence)
      IN \E i \in Matching(observations, intent.token, amount, now) :
           observations[i].timestamp < now - CohortSeconds

(* Waiting as advised heals nothing by itself: when nobody used the amount   *)
(* meanwhile, the second answer still finds no cohort.                       *)
WaitingAloneDoesNotHeal ==
  [][Recheck /\ (\A o \in Range(ObservationsFor(intent, evidence)) :
                   o.amount = intent.amount => o.timestamp < result.at)
       => ~result'.healthy]_vars

(* The band of a cover cell, computed for nobody in particular, is the band  *)
(* that a user gets who is not among its live users and has not just         *)
(* registered.                                                               *)
CoverHoldsForNewcomers ==
  LET rows == CoverRows(intent.action, intent.token, now, evidence)
      observations == ObservationsFor(intent, evidence)
  IN \A amount \in DOMAIN rows :
       LET mine == ExactIntent(intent.action, User, intent.token, amount, now)
           live == {o \in Range(observations) : o.amount = amount /\ Within(o, now, CohortSeconds)}
       IN (User \notin {o.actor : o \in live} /\ ~RecentlyRegistered(mine, now, evidence))
            => Evaluate(mine, now, evidence).band = rows[amount].band
=============================================================================
