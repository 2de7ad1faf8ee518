-------------------------- MODULE IndexerSupervisor --------------------------
(***************************************************************************)
(* IndexerSupervisor of src/operations/indexer-supervisor.ts: the loop     *)
(* that selects a provider, runs one sync attempt on it, and sleeps; a     *)
(* success is followed by the poll interval, a failure by a bounded        *)
(* exponential backoff.  requestStop comes from a signal handler at any    *)
(* await and cuts the sleep short.                                         *)
(*                                                                         *)
(* An attempt is one step here (its inside is IncrementalIndexer): it      *)
(* succeeds, fails in a call to the provider in use, or fails for a reason *)
(* that is not the provider's, such as an inconsistent block.              *)
(***************************************************************************)
EXTENDS RpcFailover

CONSTANTS
  Interval,         \* intervalSeconds, in ticks
  InitialBackoff    \* initialBackoffMs, in ticks

ASSUME SupervisorAssumption ==
  /\ Interval \in Nat \ {0}
  /\ InitialBackoff \in 1..MaximumBackoff

VARIABLES
  place,     \* where run() is
  once,      \* options.once
  stopping,  \* this.stopping
  backoff,   \* backoffMs
  timer      \* ticks left of the sleep

supervisorVars == <<place, once, stopping, backoff, timer>>
vars == <<failoverVars, endpointVars, supervisorVars>>

Longest == IF Interval < MaximumBackoff THEN MaximumBackoff ELSE Interval

TypeOK ==
  /\ FailoverTypeOK
  /\ place \in {"check", "select", "sync", "asleep", "stopped"}
  /\ once \in BOOLEAN
  /\ stopping \in BOOLEAN
  /\ backoff \in InitialBackoff..MaximumBackoff
  /\ timer \in 0..Longest

Init ==
  /\ FailoverInit
  /\ place = "check"
  /\ once \in BOOLEAN
  /\ stopping = FALSE
  /\ backoff = InitialBackoff
  /\ timer = 0

---------------------------------------------------------------------------
(* run() *)

(* Seeded fault: a stop requested during the attempt is not looked at. *)
SleepRegardless(ticks) ==
  /\ place' = IF once THEN "stopped" ELSE "asleep"
  /\ timer' = IF once THEN 0 ELSE ticks

(* sleepInterruptibly, which does not sleep once a stop was requested *)
SleepFor(ticks) ==
  /\ place' = IF once THEN "stopped" ELSE IF stopping THEN "check" ELSE "asleep"
  /\ timer' = IF once \/ stopping THEN 0 ELSE ticks

(* Seeded fault: the loop does not test the flag. *)
KeepRunning ==
  /\ place = "check"
  /\ place' = "select" /\ stage' = "primary"
  /\ UNCHANGED <<status, inUse, degraded, suppressed, force, endpointVars,
                 once, stopping, backoff, timer>>

(* The loop's two tests of the flag are made in the same state. *)
CheckStopping ==
  /\ place = "check"
  /\ IF stopping
     THEN place' = "stopped" /\ UNCHANGED stage
     ELSE place' = "select" /\ stage' = "primary"
  /\ UNCHANGED <<status, inUse, degraded, suppressed, force, endpointVars,
                 once, stopping, backoff, timer>>

(* Seeded fault: the delay doubles without a limit. *)
RetryUnbounded ==
  /\ SleepFor(backoff)
  /\ backoff' = 2 * backoff
  /\ UNCHANGED <<once, stopping>>

(* The catch of run().  The code doubles after the sleep; nothing reads      *)
(* backoffMs in between.                                                     *)
Retry ==
  /\ SleepFor(backoff)
  /\ backoff' = IF 2 * backoff < MaximumBackoff THEN 2 * backoff ELSE MaximumBackoff
  /\ UNCHANGED <<once, stopping>>

(* select() hands out a provider ... *)
SelectionMade ==
  /\ place = "select" /\ stage = "selected"
  /\ place' = "sync"
  /\ stage' = "idle"
  /\ UNCHANGED <<status, inUse, degraded, suppressed, force, endpointVars,
                 once, stopping, backoff, timer>>

(* ... or throws, which fails the attempt. *)
SelectionRefused ==
  /\ place = "select" /\ stage = "refused"
  /\ stage' = "idle"
  /\ Retry
  /\ UNCHANGED <<status, inUse, degraded, suppressed, force, endpointVars>>

SyncSucceeds ==
  /\ place = "sync"
  /\ TRUE \in Answers(inUse)
  /\ backoff' = InitialBackoff
  /\ SleepFor(Interval)
  /\ UNCHANGED <<failoverVars, endpointVars, once, stopping>>

ProviderFails ==
  /\ place = "sync"
  /\ FALSE \in Answers(inUse)
  /\ MarkRuntimeFailure(inUse)
  /\ Retry
  /\ UNCHANGED <<stage, inUse, degraded, endpointVars>>

(* A failure of the attempt outside the calls to the provider. *)
DataFails ==
  /\ place = "sync"
  /\ changes < MaxChanges
  /\ changes' = changes + 1
  /\ Retry
  /\ UNCHANGED <<failoverVars, quality, split>>

Wake ==
  /\ place = "asleep"
  /\ timer = 0
  /\ place' = "check"
  /\ UNCHANGED <<failoverVars, endpointVars, once, stopping, backoff, timer>>

RunStep ==
  \/ SelectStep /\ UNCHANGED supervisorVars
  \/ CheckStopping
  \/ SelectionMade
  \/ SelectionRefused
  \/ SyncSucceeds
  \/ ProviderFails
  \/ Wake

---------------------------------------------------------------------------
(* Environment *)

(* requestStop, from SIGINT or SIGTERM (each at most once) *)
RequestStop ==
  /\ ~stopping
  /\ stopping' = TRUE
  /\ timer' = 0
  /\ UNCHANGED <<failoverVars, endpointVars, place, once, backoff>>

Tick ==
  /\ suppressed > 0 \/ timer > 0
  /\ suppressed' = IF suppressed > 0 THEN suppressed - 1 ELSE 0
  /\ timer' = IF timer > 0 THEN timer - 1 ELSE 0
  /\ UNCHANGED <<stage, status, inUse, degraded, force, endpointVars,
                 place, once, stopping, backoff>>

Next ==
  \/ RunStep
  \/ DataFails
  \/ RequestStop
  \/ Tick
  \/ EndpointChanges /\ UNCHANGED <<failoverVars, supervisorVars>>

Spec == Init /\ [][Next]_vars

(* The event loop runs what is ready and time passes.  Nothing makes an      *)
(* endpoint recover or a signal arrive.                                      *)
FairSpec == Spec /\ WF_vars(RunStep) /\ WF_vars(Tick)

---------------------------------------------------------------------------
(* Properties *)

(* The provider an attempt runs on answered its probe and its cross-check,   *)
(* and the other provider did not contradict it; a selection that does not   *)
(* call itself degraded was made with both providers healthy.                *)
HandedOutIsSound ==
  place = "sync" =>
    /\ status[inUse] = "HEALTHY"
    /\ ~degraded => inUse = "primary" /\ \A p \in Providers : status[p] = "HEALTHY"
    /\ \A p \in Providers : status[p] # "DEGRADED"

(* A stop is never left waiting for a timer: whenever it arrives, during an  *)
(* attempt, on the way into the sleep or in it, no ticks are left to sleep.  *)
NeverSleepsStopping == stopping => timer = 0

(* A requested stop ends run(). *)
StopsEventually == stopping ~> place = "stopped"

(* One provider that stays good is enough: whatever the other one does, and  *)
(* whichever of the two it is, attempts keep succeeding.  A flaky provider   *)
(* that passes every probe and fails every sync does not hold the indexer.   *)
Recovers ==
  (/\ <>[](~stopping /\ ~once)
   /\ <>[](~split)
   /\ \E p \in Providers : <>[](quality[p] = "good"))
  => []<><<SyncSucceeds>>_vars
=============================================================================
