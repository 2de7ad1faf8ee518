----------------------------- MODULE RpcFailover -----------------------------
(***************************************************************************)
(* RpcFailoverManager of src/operations/rpc-failover.ts: which of the two  *)
(* endpoints a sync attempt runs on.  select() probes the primary, then    *)
(* the secondary, compares the two at their common block, and hands one of *)
(* them out for the whole attempt.  Each await is a step; time is counted  *)
(* in ticks, and primarySuppressedUntil is the ticks left until it.        *)
(*                                                                         *)
(* The endpoints are the environment: a good one answers, a dead one       *)
(* fails, a flaky one does either at every call; when the two are split    *)
(* their blocks may differ.                                                *)
(***************************************************************************)
EXTENDS Integers

CONSTANTS
  MaximumBackoff,   \* maximumBackoffMs, in ticks
  MaxChanges        \* bound: changes of the environment in one behaviour

ASSUME FailoverAssumption ==
  /\ MaximumBackoff \in Nat \ {0}
  /\ MaxChanges \in Nat

VARIABLES
  stage,       \* the await select() is at, or how it ended
  status,      \* states: the published status of each provider
  inUse,       \* the provider last handed out
  degraded,    \* RpcSelection.degraded of that hand-out
  suppressed,  \* ticks until primarySuppressedUntil
  force,       \* forceSecondaryOnce
  quality,     \* environment: what each endpoint is like
  split,       \* environment: the endpoints are on different branches
  changes      \* environment changes so far

endpointVars == <<quality, split, changes>>
failoverVars == <<stage, status, inUse, degraded, suppressed, force>>

Providers == {"primary", "secondary"}
Stages    == {"idle", "primary", "secondary", "compare", "selected", "refused"}
Qualities == {"good", "flaky", "dead"}

FailoverTypeOK ==
  /\ stage \in Stages
  /\ status \in [Providers -> {"HEALTHY", "DEGRADED", "UNAVAILABLE"}]
  /\ inUse \in Providers
  /\ degraded \in BOOLEAN
  /\ suppressed \in 0..MaximumBackoff
  /\ force \in BOOLEAN
  /\ quality \in [Providers -> Qualities]
  /\ split \in BOOLEAN
  /\ changes \in 0..MaxChanges

FailoverInit ==
  /\ stage = "idle"
  /\ status = [p \in Providers |-> "UNAVAILABLE"]
  /\ inUse = "primary"
  /\ degraded = FALSE
  /\ suppressed = 0
  /\ force = FALSE
  /\ quality \in [Providers -> Qualities]
  /\ split \in BOOLEAN
  /\ changes = 0

(* What a call to a provider can come to: TRUE when it answers. *)
Answers(p) == CASE quality[p] = "good"  -> {TRUE}
                [] quality[p] = "dead"  -> {FALSE}
                [] quality[p] = "flaky" -> BOOLEAN

---------------------------------------------------------------------------
(* select() *)

Probed(answered) == IF answered THEN "HEALTHY" ELSE "UNAVAILABLE"

(* The end of select(): one provider is handed out, or the attempt is        *)
(* refused.  usable says which providers can serve; primaryFailed, whether   *)
(* the cross-check has just marked a runtime failure of the primary.         *)
Conclude(usable, primaryFailed) ==
  LET rest == IF primaryFailed THEN MaximumBackoff ELSE suppressed
  IN /\ suppressed' = rest
     /\ \/ /\ usable["secondary"] /\ (~usable["primary"] \/ rest > 0 \/ force)
           /\ inUse' = "secondary"
           /\ degraded' = TRUE
           /\ force' = FALSE
           /\ stage' = "selected"
        \/ /\ usable["primary"]
           /\ ~(usable["secondary"] /\ (rest > 0 \/ force))
           /\ inUse' = "primary"
           /\ degraded' = ~usable["secondary"]
           /\ stage' = "selected"
           /\ UNCHANGED force
        \/ /\ \A p \in Providers : ~usable[p]
           /\ force' = (force \/ primaryFailed)
           /\ stage' = "refused"
           /\ UNCHANGED <<inUse, degraded>>

ProbePrimary ==
  /\ stage = "primary"
  /\ \E answered \in Answers("primary") :
       status' = [status EXCEPT !["primary"] = Probed(answered)]
  /\ stage' = "secondary"
  /\ UNCHANGED <<inUse, degraded, suppressed, force, endpointVars>>

(* With two answering providers select() goes on to compare them; otherwise  *)
(* it is decided here.                                                       *)
ProbeSecondary ==
  /\ stage = "secondary"
  /\ \E answered \in Answers("secondary") :
       LET probed == [status EXCEPT !["secondary"] = Probed(answered)]
           usable == [p \in Providers |-> probed[p] = "HEALTHY"]
       IN /\ status' = probed
          /\ IF \A p \in Providers : usable[p]
             THEN stage' = "compare" /\ UNCHANGED <<inUse, degraded, suppressed, force>>
             ELSE Conclude(usable, FALSE)
  /\ UNCHANGED endpointVars

(* Seeded fault: when the two disagree, the primary is believed. *)
CrossCheckTrustingPrimary ==
  /\ stage = "compare"
  /\ \E answered \in {f \in [Providers -> BOOLEAN] : \A p \in Providers : f[p] \in Answers(p)},
        differ \in IF split THEN BOOLEAN ELSE {FALSE} :
       IF (\A p \in Providers : answered[p]) /\ differ
       THEN /\ status' = [p \in Providers |-> "DEGRADED"]
            /\ Conclude([p \in Providers |-> p = "primary"], FALSE)
       ELSE /\ status' = [p \in Providers |-> Probed(answered[p])]
            /\ Conclude(answered, ~answered["primary"])
  /\ UNCHANGED endpointVars

(* crossCheck reads the common block from both; a call that fails is a       *)
(* runtime failure, and a disagreement refuses the attempt.                  *)
CrossCheck ==
  /\ stage = "compare"
  /\ \E answered \in {f \in [Providers -> BOOLEAN] : \A p \in Providers : f[p] \in Answers(p)},
        differ \in IF split THEN BOOLEAN ELSE {FALSE} :
       IF (\A p \in Providers : answered[p]) /\ differ
       THEN /\ status' = [p \in Providers |-> "DEGRADED"]
            /\ stage' = "refused"
            /\ UNCHANGED <<inUse, degraded, suppressed, force>>
       ELSE /\ status' = [p \in Providers |-> Probed(answered[p])]
            /\ Conclude(answered, ~answered["primary"])
  /\ UNCHANGED endpointVars

SelectStep == ProbePrimary \/ ProbeSecondary \/ CrossCheck

---------------------------------------------------------------------------
(* Seeded fault: only the published state changes. *)
MarkStatusOnly(provider) ==
  /\ status' = [status EXCEPT ![provider] = "UNAVAILABLE"]
  /\ UNCHANGED <<suppressed, force>>

(* markRuntimeFailure, through the TrackedRpc of the hand-out *)
MarkRuntimeFailure(provider) ==
  /\ status' = [status EXCEPT ![provider] = "UNAVAILABLE"]
  /\ suppressed' = IF provider = "primary" THEN MaximumBackoff ELSE suppressed
  /\ force' = (force \/ provider = "primary")

---------------------------------------------------------------------------
(* Environment *)

EndpointChanges ==
  /\ changes < MaxChanges
  /\ changes' = changes + 1
  /\ \/ /\ \E p \in Providers, q \in Qualities : quality' = [quality EXCEPT ![p] = q]
        /\ UNCHANGED split
     \/ /\ split' = ~split
        /\ UNCHANGED quality
=============================================================================
