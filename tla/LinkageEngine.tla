---------------------------- MODULE LinkageEngine ----------------------------
(***************************************************************************)
(* The linkage engine (src/engine/evaluate.ts), both frozen models, and    *)
(* the public cover computed with it (src/cover.ts): functions of the      *)
(* decoded pool events, of an intent and of the evaluation time.           *)
(*                                                                         *)
(* Shares are compared as fractions.  The code divides doubles, which      *)
(* decides the same: the thresholds are the literals 0.5 and 0.6, and a    *)
(* quotient of two counts that is not exactly the threshold differs from   *)
(* it by far more than a rounding error.  Summaries, and the statistics    *)
(* that are only displayed, are left out.                                  *)
(***************************************************************************)
EXTENDS Integers, FiniteSets, SequencesExt

CONSTANTS
  ObservationSeconds, CohortSeconds, DaySeconds,    \* windows and calendar days
  ProximitySeconds, ChannelSeconds,
  ThinCohort, MinAddresses, MinActiveDays,          \* thresholds of S5
  RoundUnit,                                        \* 10^(decimals - 2) base units
  RowLimit, CoverDeadline,                          \* of the cover table
  Synthetic                                         \* the cover's account, 0x1

ASSUME EngineAssumption ==
  /\ {ObservationSeconds, CohortSeconds, DaySeconds, ProximitySeconds, ChannelSeconds,
      RoundUnit} \subseteq Nat \ {0}
  /\ {ThinCohort, MinAddresses, MinActiveDays, RowLimit, CoverDeadline} \subseteq Nat \ {0}
  /\ ProximitySeconds <= CohortSeconds /\ CohortSeconds < ObservationSeconds

(* An event: [timestamp, actor, token, amount]; a registration: [timestamp,  *)
(* actor].  A snapshot: [engineVersion, deposits, withdrawals,               *)
(* registrations], the last three in chain order.  An intent: [action,       *)
(* account, recipient, token, mode, amount, min, max, deadline], where mode  *)
(* is "exact" (then min = amount = max) or "flexible".                       *)

(* Seeded fault: an event of the evaluation's own second is in its window.   *)
WithinClosed(o, now, seconds) == now - seconds <= o.timestamp /\ o.timestamp <= now

Within(o, now, seconds) == now - seconds <= o.timestamp /\ o.timestamp < now

---------------------------------------------------------------------------
(* Cohort quality *)

(* Seeded fault: the window is open at its end. *)
AdvanceRightOpen(ordered, left, right) ==
  CHOOSE r \in right..(Len(ordered) + 1) :
    /\ \A i \in right..(r - 1) : i > left => ordered[i] - ordered[left] < CohortSeconds
    /\ r > Len(ordered) \/ ordered[r] - ordered[left] >= CohortSeconds

(* The index after the last timestamp that the inner loop admits when it     *)
(* starts at `right`.                                                        *)
AdvanceRight(ordered, left, right) ==
  CHOOSE r \in right..(Len(ordered) + 1) :
    /\ \A i \in right..(r - 1) : ordered[i] - ordered[left] <= CohortSeconds
    /\ r > Len(ordered) \/ ordered[r] - ordered[left] > CohortSeconds

UpTo(times, t) == {i \in DOMAIN times : times[i] <= t}

(* The timestamps in ascending order: the k-th is the first that at least k  *)
(* are not later than (a concatenation, so that TLC computes them once).     *)
Ordered(times) ==
  <<>> \o [k \in 1..Cardinality(DOMAIN times) |->
             Min({t \in Range(times) : k <= Cardinality(UpTo(times, t))})]

(* The two-pointer scan: where `right` stands and the maximum so far, after  *)
(* each turn of the outer loop.                                              *)
Scan(ordered) ==
  LET scan[left \in 0..Len(ordered)] ==
        IF left = 0 THEN [right |-> 1, maximum |-> 0]
        ELSE LET previous == scan[left - 1]
                 right == AdvanceRight(ordered, left, previous.right)
             IN [right   |-> right,
                 maximum |-> IF right - left > previous.maximum
                             THEN right - left ELSE previous.maximum]
  IN scan

(* maximumBurstShare; only the count, to be divided by the number of times.  *)
MaximumBurst(times) ==
  LET ordered == Ordered(times)
  IN Scan(ordered)[Len(ordered)].maximum

(* Uses of one amount of one token in the observation window; uses are a set *)
(* of positions in the list of events.                                       *)
Matching(observations, token, amount, now) ==
  {i \in DOMAIN observations : /\ Within(observations[i], now, ObservationSeconds)
                               /\ observations[i].token = token
                               /\ observations[i].amount = amount}

(* The proposed action joins those it would hide among, at position 0.       *)
Joined(observations, own) ==
  [i \in {0} \cup DOMAIN observations |-> IF i = 0 THEN own ELSE observations[i]]

ActorsOf(all, uses) == {all[i].actor : i \in uses}
UsesBy(all, uses, a) == {i \in uses : all[i].actor = a}
TopCount(all, uses) == Max({Cardinality(UsesBy(all, uses, a)) : a \in ActorsOf(all, uses)})
DaysOf(all, uses)   == {all[i].timestamp \div DaySeconds : i \in uses}
TimesOf(all, uses)  == [i \in uses |-> all[i].timestamp]

(* What S5 finds wrong with a cohort: projected are the live uses and the    *)
(* own one, durable all uses in the observation window and the own one.      *)
Failures(all, projected, durable) ==
  {f \in {"THIN_COHORT", "LOW_ADDRESS_DIVERSITY", "TOP_ADDRESS_CONCENTRATION",
          "INSUFFICIENT_ACTIVE_DAYS", "BURST_CONCENTRATION"} :
     \/ f = "THIN_COHORT" /\ Cardinality(projected) <= ThinCohort
     \/ f = "LOW_ADDRESS_DIVERSITY" /\ Cardinality(ActorsOf(all, projected)) < MinAddresses
     \/ /\ f = "TOP_ADDRESS_CONCENTRATION"
        /\ 2 * TopCount(all, projected) > Cardinality(projected)
     \/ f = "INSUFFICIENT_ACTIVE_DAYS" /\ Cardinality(DaysOf(all, durable)) < MinActiveDays
     \/ /\ f = "BURST_CONCENTRATION"
        /\ 5 * MaximumBurst(TimesOf(all, durable)) > 3 * Cardinality(durable)}

(* cohortFor, cohortForV14 *)
CohortFor(actor, token, amount, now, observations) ==
  LET own       == [timestamp |-> now, actor |-> actor, token |-> token, amount |-> amount]
      all       == Joined(observations, own)
      matching  == Matching(observations, token, amount, now)
      trailing  == {i \in matching : Within(observations[i], now, CohortSeconds)}
      projected == trailing \cup {0}
      failures  == Failures(all, projected, matching \cup {0})
  IN [projected |-> Cardinality(projected), healthy |-> failures = {}, failures |-> failures]

(* observationsForV14: an action hides among those of its own kind. *)
ObservationsFor(intent, e) == IF intent.action = "shield" THEN e.deposits ELSE e.withdrawals
ActorOf(intent) == IF intent.action = "shield" THEN intent.account ELSE intent.recipient

Cohort(intent, amount, now, e) ==
  CohortFor(ActorOf(intent), intent.token, amount, now, ObservationsFor(intent, e))

---------------------------------------------------------------------------
(* Signals and bands *)

Fires(condition) == IF condition THEN "FIRED" ELSE "CLEAR"

(* Deposits of exactly this amount that a withdrawal could be matched with *)
Counterparts(intent, now, e) == Matching(e.deposits, intent.token, intent.amount, now)

RecentlyRegistered(intent, now, e) ==
  \E r \in Range(e.registrations) : r.actor = intent.account /\ Within(r, now, ChannelSeconds)

(* Seeded fault: looks for uses among the other kind of events. *)
UnusedElsewhere(intent, now, e) ==
  Matching(IF intent.action = "shield" THEN e.withdrawals ELSE e.deposits,
           intent.token, intent.amount, now) = {}

Unused(intent, now, e) ==
  Matching(ObservationsFor(intent, e), intent.token, intent.amount, now) = {}

IsRoundAmount(amount) == amount > 0 /\ amount % RoundUnit = 0

(* The signals of evaluatePreflightV14; evaluatePreflight (CUTOUT-v1.3),     *)
(* which rates shields only, has no S7.                                      *)
SignalsV14(intent, now, e) ==
  LET shields  == intent.action = "shield"
      near(o)  == now - o.timestamp <= ProximitySeconds
  IN [S1 |-> Fires(Unused(intent, now, e)),
      S2 |-> IF shields THEN "NOT_APPLICABLE" ELSE Fires(Counterparts(intent, now, e) # {}),
      S3 |-> IF shields THEN "NOT_APPLICABLE"
             ELSE Fires(\E i \in Counterparts(intent, now, e) : near(e.deposits[i])),
      S4 |-> IF shields THEN Fires(RecentlyRegistered(intent, now, e)) ELSE "NOT_APPLICABLE",
      S5 |-> Fires(~Cohort(intent, intent.amount, now, e).healthy),
      S7 |-> Fires(Unused(intent, now, e) /\ IsRoundAmount(intent.amount))]

Supported(intent, e) == intent.action = "shield" \/ e.engineVersion = "CUTOUT-v1.4"

Signals(intent, now, e) ==
  LET all == SignalsV14(intent, now, e)
  IN IF e.engineVersion = "CUTOUT-v1.4" THEN all
     ELSE [s \in DOMAIN all \ {"S7"} |-> all[s]]

Fired(signals) == {s \in DOMAIN signals : signals[s] = "FIRED"}

(* bandForV14; bandFor is the same where S2 and S3 are not applicable. *)
BandFor(signals) ==
  IF {"S2", "S3"} \subseteq Fired(signals) \/ Cardinality(Fired(signals)) >= 3 THEN "HIGH"
  ELSE IF Cardinality(Fired(signals)) = 2 THEN "MEDIUM" ELSE "LOW"

DecisionFor(band) == CASE band = "HIGH" -> "DENY" [] band = "MEDIUM" -> "WARN" [] OTHER -> "ALLOW"

---------------------------------------------------------------------------
(* Recommendations *)

Deviation(amount, from) == IF amount >= from THEN amount - from ELSE from - amount

(* Seeded faults: the largest cohort first; and ties left as they come. *)
PreferredByCohort(left, right, from, cohorts) == cohorts[left].projected > cohorts[right].projected
PreferredByChange(left, right, from, cohorts) == Deviation(left, from) < Deviation(right, from)

(* The comparison that sorts healthy candidates: smallest change, then       *)
(* largest cohort, then smallest amount.                                     *)
Preferred(left, right, from, cohorts) ==
  LET leftDeviation  == Deviation(left, from)
      rightDeviation == Deviation(right, from)
  IN \/ leftDeviation < rightDeviation
     \/ /\ leftDeviation = rightDeviation
        /\ \/ cohorts[left].projected > cohorts[right].projected
           \/ /\ cohorts[left].projected = cohorts[right].projected
              /\ left < right

(* The trailing events whose amounts are considered: those of another amount *)
(* that the user permits.                                                    *)
Candidates(intent, now, e) ==
  LET all == ObservationsFor(intent, e)
  IN {i \in DOMAIN all : /\ Within(all[i], now, CohortSeconds)
                         /\ all[i].token = intent.token
                         /\ all[i].amount # intent.amount
                         /\ all[i].amount \in intent.min..intent.max}

(* The head of the stable sort: the first candidate no other is preferred to *)
Best(all, candidates, from, cohorts) ==
  CHOOSE i \in candidates :
    \A j \in candidates :
      /\ ~Preferred(all[j].amount, all[i].amount, from, cohorts)
      /\ j < i => Preferred(all[i].amount, all[j].amount, from, cohorts)

(* Seeded fault: the proximity window instead of the cohort window. *)
WaitAnHour == ProximitySeconds

WaitHorizon == CohortSeconds

Recommend(kind, amount) == [kind |-> kind, to |-> amount]

(* recommendationForV14, and recommendationFor (CUTOUT-v1.3), which never    *)
(* says WAIT; `to` is the amount itself unless it is to change.              *)
Recommendation(intent, now, e) ==
  LET all == ObservationsFor(intent, e)
      candidates == Candidates(intent, now, e)
      cohorts == [a \in {all[i].amount : i \in candidates} |-> Cohort(intent, a, now, e)]
      healthy == {i \in candidates : cohorts[all[i].amount].healthy}
      current == Cohort(intent, intent.amount, now, e)
  IN IF current.healthy THEN Recommend("NONE", intent.amount)
     ELSE IF intent.mode = "flexible" /\ healthy # {}
     THEN Recommend("CHANGE_AMOUNT", all[Best(all, healthy, intent.amount, cohorts)].amount)
     ELSE IF /\ e.engineVersion = "CUTOUT-v1.4"
             /\ \/ current.projected <= ThinCohort
                \/ "BURST_CONCENTRATION" \in current.failures
             /\ intent.deadline - now >= WaitHorizon
     THEN Recommend("WAIT", intent.amount)
     ELSE Recommend("NO_SAFER_EXECUTION", intent.amount)

(* evaluatePreflightV14 and evaluatePreflight of a supported intent *)
Evaluate(intent, now, e) ==
  LET signals == Signals(intent, now, e)
  IN [at |-> now, signals |-> signals, band |-> BandFor(signals),
      decision |-> DecisionFor(BandFor(signals)),
      healthy |-> Cohort(intent, intent.amount, now, e).healthy,
      recommendation |-> Recommendation(intent, now, e)]

---------------------------------------------------------------------------
(* Public cover *)

ExactIntent(action, account, token, amount, deadline) ==
  [action |-> action, account |-> account, recipient |-> account, token |-> token,
   mode |-> "exact", amount |-> amount, min |-> amount, max |-> amount, deadline |-> deadline]

(* Seeded fault: withdrawals are rated as deposits. *)
RatedAsDeposit(action, token, amount, now, e) ==
  Evaluate(ExactIntent("shield", Synthetic, token, amount, now + CoverDeadline), now, e)

(* evaluatedCohort *)
Rated(action, token, amount, now, e) ==
  Evaluate(ExactIntent(action, Synthetic, token, amount, now + CoverDeadline), now, e)

(* coverAction: the amounts in live use, most used first and at most         *)
(* RowLimit of them, each with the answer to an account that has done        *)
(* nothing.                                                                  *)
CoverRows(action, token, now, e) ==
  LET all     == IF action = "shield" THEN e.deposits ELSE e.withdrawals
      live    == {i \in DOMAIN all : all[i].token = token /\ Within(all[i], now, CohortSeconds)}
      amounts == {all[i].amount : i \in live}
      uses(a) == Cardinality({i \in live : all[i].amount = a})
      before(a, b) == \/ uses(a) > uses(b)
                      \/ uses(a) = uses(b) /\ a < b
      rows == {a \in amounts : Cardinality({b \in amounts : before(b, a)}) < RowLimit}
  IN [a \in rows |-> Rated(action, token, a, now, e)]
=============================================================================
