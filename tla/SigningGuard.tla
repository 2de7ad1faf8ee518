---------------------------- MODULE SigningGuard ----------------------------
(***************************************************************************)
(* The decisions between a typed intent and a wallet call, as functions of *)
(* what they are given: the answer of the preflight service                *)
(* (src/api/preflight.ts), and the guard's plan, simulation evidence and   *)
(* authorisation (src/workflow/guard.ts).                                  *)
(*                                                                         *)
(* The engine is deterministic: the decision and the recommendation are    *)
(* functions of the snapshot's hash and of the intent with its timestamp.  *)
(* An available answer to an intent is therefore just the snapshot it was  *)
(* computed from.  (Withdrawals share the constants with deposits: no      *)
(* property compares the two.)  A decision ID commits to intent and snapshot; the model *)
(* compares these themselves.                                              *)
(***************************************************************************)
EXTENDS Integers

CONSTANTS
  Accounts,
  Amounts,
  MaximumAge,     \* FRESHNESS_POLICY.maximumSourceAgeSeconds, in ticks
  MaxSnapshots,   \* bound: snapshots published in one behaviour
  MaxTime,        \* bound: ticks in one behaviour
  Verdict,        \* the guard decision of the engine's band
  Advice,         \* the amount the engine prefers, or None
  None            \* no value

Decisions == {"ALLOW", "WARN", "DENY"}
Hashes    == 1..MaxSnapshots
Times     == 0..MaxTime
Cases     == Hashes \X Times \X Accounts \X Amounts

ASSUME GuardAssumption ==
  /\ MaximumAge \in Nat
  /\ MaxSnapshots \in Nat \ {0}
  /\ MaxTime \in Nat
  /\ Verdict \in [Cases -> Decisions]
  /\ Advice \in [Cases -> Amounts \cup {None}]
  /\ None \notin Accounts \cup Amounts

Snapshots == [hash : Hashes, block : Nat, at : Times]  \* at: indexedThroughTimestamp

(* A typed intent; permitted is the amount alone, or the user's range.       *)
Intents == [action : {"shield", "withdraw"}, account : Accounts, amount : Amounts,
            permitted : SUBSET Amounts, block : Nat, time : Times]

(* GuardedDepositPlan: account and amount (of the action, the final intent   *)
(* and the display alike), the time of the final intent, and the snapshot    *)
(* that justified it.                                                        *)
Plans == [account : Accounts, amount : Amounts, time : Times, snapshot : Snapshots]

---------------------------------------------------------------------------
(* Preflight service *)

(* x is an intent or a plan. *)
Case(snapshot, x)     == <<snapshot.hash, x.time, x.account, x.amount>>
Decision(snapshot, x) == Verdict[Case(snapshot, x)]

Fresh(snapshot, time) == time - snapshot.at \in 0..MaximumAge

(* An intent is evaluated on the served snapshot when that is at the block   *)
(* the intent names and was fresh at the intent's time.                      *)
Evaluates(snapshot, block, time) == snapshot.block = block /\ Fresh(snapshot, time)

(* The recommendation that comes with the answer to an intent *)
Recommended(intent, snapshot) ==
  LET advice == Advice[Case(snapshot, intent)]
  IN IF advice \in intent.permitted \ {intent.amount} THEN advice ELSE None

---------------------------------------------------------------------------
(* Guard *)

(* What createGuardedDepositPlan is given: the reviewed snapshot, the first  *)
(* intent with its answer, the selected amount, and the connected wallet.    *)
Requests == [intent : Intents, answer : Snapshots, selected : Amounts,
             reviewed : Snapshots, wallet : Accounts, time : Times]

(* validateSelection: the proposed amount, or the recommended one *)
ValidSelection(r) ==
  r.selected \in r.intent.permitted \cap {r.intent.amount, Recommended(r.intent, r.answer)}

PlanOf(r) == [account |-> r.intent.account, amount |-> r.selected, time |-> r.time,
              snapshot |-> r.reviewed]

(* createGuardedDepositPlan, with the answer to the exact final intent *)
PlanAllowed(r, final) ==
  /\ r.intent.block = r.reviewed.block
  /\ r.answer = r.reviewed /\ final = r.reviewed
  /\ Fresh(r.reviewed, r.time)
  /\ ValidSelection(r)
  /\ Decision(final, PlanOf(r)) # "DENY"
  /\ r.wallet = r.intent.account

DecisionOf(plan)      == Decision(plan.snapshot, plan)
MustAcknowledge(plan) == DecisionOf(plan) = "WARN"

(* assertGuardedDepositPlan *)
PlanHolds(plan, time) == DecisionOf(plan) # "DENY" /\ Fresh(plan.snapshot, time)

(* Seeded fault: the evidence is not checked again. *)
AuthorizesForever(simulated, acknowledged, time) ==
  MustAcknowledge(simulated) => acknowledged

(* authorizeSubmission, of a simulated plan *)
Authorizes(simulated, acknowledged, time) ==
  /\ PlanHolds(simulated, time)
  /\ MustAcknowledge(simulated) => acknowledged

(* verifyDepositReceipt: the one Deposit event of the receipt *)
ReceiptMatches(deposit, plan) ==
  deposit.account = plan.account /\ deposit.amount = plan.amount
=============================================================================
