-------------------------- MODULE SupervisorProofs --------------------------
(***************************************************************************)
(* Safety of provider selection and of stopping, for every backoff,        *)
(* interval and number of environment changes.                             *)
(***************************************************************************)
EXTENDS IndexerSupervisor, TLAPS

(* What a hand-out promises, from the end of select() to the end of the      *)
(* attempt that runs on it.                                                  *)
Sound ==
  /\ status[inUse] = "HEALTHY"
  /\ ~degraded => inUse = "primary" /\ \A p \in Providers : status[p] = "HEALTHY"
  /\ \A p \in Providers : status[p] # "DEGRADED"

(* select() runs only inside an attempt, and what the last attempt published *)
(* about a provider is replaced by its probe before it is used.              *)
SelectionInv ==
  /\ place # "select" => stage = "idle"
  /\ stage = "secondary" => status["primary"] # "DEGRADED"
  /\ place = "sync" \/ stage = "selected" => Sound

SupervisorInv == TypeOK /\ SelectionInv /\ NeverSleepsStopping

(* When the published states say which providers can serve, the one handed   *)
(* out can.                                                                  *)
LEMMA ConcludeSound ==
  ASSUME NEW usable \in [Providers -> BOOLEAN], NEW primaryFailed,
         Conclude(usable, primaryFailed),
         status' = [p \in Providers |-> Probed(usable[p])]
  PROVE  stage' = "selected" => Sound'
BY DEF Conclude, Sound, Probed, Providers

LEMMA ConcludeType ==
  ASSUME FailoverTypeOK,
         NEW usable \in [Providers -> BOOLEAN], NEW primaryFailed \in BOOLEAN,
         Conclude(usable, primaryFailed)
  PROVE  /\ inUse' \in Providers /\ degraded' \in BOOLEAN /\ force' \in BOOLEAN
         /\ suppressed' \in 0..MaximumBackoff
         /\ stage' \in {"selected", "refused"}
<1>1. suppressed' \in 0..MaximumBackoff
  BY FailoverAssumption DEF Conclude, FailoverTypeOK
<1>2. /\ inUse' \in Providers /\ degraded' \in BOOLEAN /\ force' \in BOOLEAN
      /\ stage' \in {"selected", "refused"}
  BY DEF Conclude, FailoverTypeOK, Providers
<1>. QED
  BY <1>1, <1>2

LEMMA LongestBounds ==
  /\ Longest \in Nat
  /\ Interval \in 0..Longest
  /\ InitialBackoff \in Nat \ {0}
  /\ InitialBackoff..MaximumBackoff \subseteq 0..Longest
  /\ InitialBackoff \in InitialBackoff..MaximumBackoff
BY FailoverAssumption, SupervisorAssumption DEF Longest

(* A sleep is no longer than the longest delay, and none when stopping. *)
LEMMA SleepForBounded ==
  ASSUME TypeOK, NEW ticks \in 0..Longest, SleepFor(ticks)
  PROVE  /\ place' \in {"check", "asleep", "stopped"}
         /\ timer' \in 0..Longest
         /\ stopping => timer' = 0
<1>1. 0 \in 0..Longest
  BY LongestBounds
<1>. QED
  BY <1>1 DEF SleepFor

LEMMA RetryBounded ==
  ASSUME TypeOK, NeverSleepsStopping, Retry
  PROVE  /\ place' \in {"check", "asleep", "stopped"}
         /\ timer' \in 0..Longest
         /\ stopping' => timer' = 0
         /\ backoff' \in InitialBackoff..MaximumBackoff
         /\ once' \in BOOLEAN /\ stopping' \in BOOLEAN
<1>1. backoff \in 0..Longest
  BY LongestBounds DEF TypeOK
<1>2. /\ place' \in {"check", "asleep", "stopped"}
      /\ timer' \in 0..Longest
      /\ stopping => timer' = 0
  BY <1>1, SleepForBounded DEF Retry
<1>3. backoff' \in InitialBackoff..MaximumBackoff
  BY FailoverAssumption, SupervisorAssumption DEF Retry, TypeOK
<1>. QED
  BY <1>2, <1>3 DEF Retry, TypeOK

LEMMA InitSupervisor == Init => SupervisorInv
<1>. SUFFICES ASSUME Init PROVE SupervisorInv
  OBVIOUS
<1>1. /\ 0 \in 0..Longest /\ 0 \in 0..MaximumBackoff /\ 0 \in 0..MaxChanges
      /\ InitialBackoff \in InitialBackoff..MaximumBackoff
  BY LongestBounds, FailoverAssumption
<1>2. FailoverTypeOK
  BY <1>1 DEF Init, FailoverInit, FailoverTypeOK, Stages, Providers
<1>3. TypeOK
  BY <1>1, <1>2 DEF Init, TypeOK
<1>4. SelectionInv /\ NeverSleepsStopping
  BY DEF Init, FailoverInit, SelectionInv, NeverSleepsStopping
<1>. QED
  BY <1>3, <1>4 DEF SupervisorInv

LEMMA NextSupervisor == SupervisorInv /\ [Next]_vars => SupervisorInv'
<1>. SUFFICES ASSUME SupervisorInv, [Next]_vars PROVE SupervisorInv'
  OBVIOUS
<1>. USE DEF SupervisorInv
<1>1. CASE SelectStep /\ UNCHANGED supervisorVars
  <2>1. place = "select" /\ UNCHANGED supervisorVars /\ UNCHANGED endpointVars
    BY <1>1 DEF SelectStep, ProbePrimary, ProbeSecondary, CrossCheck, SelectionInv
  <2>2. NeverSleepsStopping'
    BY <2>1 DEF NeverSleepsStopping, supervisorVars
  <2>3. ASSUME NEW usable \in [Providers -> BOOLEAN], NEW primaryFailed \in BOOLEAN,
               Conclude(usable, primaryFailed),
               status' = [p \in Providers |-> Probed(usable[p])]
        PROVE  SupervisorInv'
    <3>1. /\ inUse' \in Providers /\ degraded' \in BOOLEAN /\ force' \in BOOLEAN
          /\ suppressed' \in 0..MaximumBackoff
          /\ stage' \in {"selected", "refused"}
      BY <2>3, ConcludeType DEF TypeOK
    <3>2. TypeOK'
      BY <2>1, <2>3, <3>1
         DEF TypeOK, FailoverTypeOK, supervisorVars, endpointVars, Stages, Probed
    <3>3. SelectionInv'
      BY <2>1, <2>3, <3>1, ConcludeSound DEF SelectionInv, supervisorVars
    <3>. QED
      BY <2>2, <3>2, <3>3
  <2>4. CASE ProbePrimary
    <3>1. TypeOK'
      BY <2>1, <2>4 DEF ProbePrimary, TypeOK, FailoverTypeOK, supervisorVars,
                        endpointVars, Stages, Probed, Providers
    <3>2. SelectionInv'
      BY <2>1, <2>4 DEF ProbePrimary, SelectionInv, supervisorVars, Probed, TypeOK,
                        FailoverTypeOK, Providers
    <3>. QED
      BY <2>2, <3>1, <3>2
  <2>5. CASE ProbeSecondary
    <3>1. PICK answered \in Answers("secondary") :
            LET probed == [status EXCEPT !["secondary"] = Probed(answered)]
                usable == [p \in Providers |-> probed[p] = "HEALTHY"]
            IN /\ status' = probed
               /\ IF \A p \in Providers : usable[p]
                  THEN stage' = "compare" /\ UNCHANGED <<inUse, degraded, suppressed, force>>
                  ELSE Conclude(usable, FALSE)
      BY <2>5 DEF ProbeSecondary
    <3>. DEFINE usable == [p \in Providers |-> status'[p] = "HEALTHY"]
    <3>2. /\ status' \in [Providers -> {"HEALTHY", "UNAVAILABLE"}]
      BY <2>5, <3>1 DEF ProbeSecondary, SelectionInv, TypeOK, FailoverTypeOK, Probed, Providers
    <3>3. CASE stage' = "compare" /\ UNCHANGED <<inUse, degraded, suppressed, force>>
      BY <2>1, <2>2, <3>2, <3>3
         DEF TypeOK, FailoverTypeOK, SelectionInv, supervisorVars, endpointVars, Stages
    <3>4. CASE Conclude(usable, FALSE)
      <4>1. status' = [p \in Providers |-> Probed(usable[p])]
        BY <3>2 DEF Probed
      <4>. QED
        BY <2>3, <3>4, <4>1
    <3>. QED
      BY <3>1, <3>3, <3>4
  <2>6. CASE CrossCheck
    <3>1. PICK answered \in [Providers -> BOOLEAN] :
            \/ /\ status' = [p \in Providers |-> "DEGRADED"]
               /\ stage' = "refused"
               /\ UNCHANGED <<inUse, degraded, suppressed, force>>
            \/ /\ status' = [p \in Providers |-> Probed(answered[p])]
               /\ Conclude(answered, ~answered["primary"])
      BY <2>6 DEF CrossCheck
    <3>2. CASE Conclude(answered, ~answered["primary"])
               /\ status' = [p \in Providers |-> Probed(answered[p])]
      BY <2>3, <3>2 DEF Providers
    <3>3. CASE /\ status' = [p \in Providers |-> "DEGRADED"]
               /\ stage' = "refused"
               /\ UNCHANGED <<inUse, degraded, suppressed, force>>
      BY <2>1, <2>2, <3>3
         DEF TypeOK, FailoverTypeOK, SelectionInv, supervisorVars, endpointVars, Stages
    <3>. QED
      BY <3>1, <3>2, <3>3
  <2>. QED
    BY <1>1, <2>4, <2>5, <2>6 DEF SelectStep
<1>2. CASE CheckStopping
  BY <1>2 DEF CheckStopping, TypeOK, FailoverTypeOK, SelectionInv, NeverSleepsStopping,
              endpointVars, Stages, Sound
<1>3. CASE SelectionMade
  BY <1>3 DEF SelectionMade, TypeOK, FailoverTypeOK, SelectionInv, NeverSleepsStopping,
              endpointVars, Stages, Sound
<1>4. CASE SelectionRefused
  <2>1. FailoverTypeOK' /\ stage' = "idle"
    BY <1>4 DEF SelectionRefused, TypeOK, FailoverTypeOK, endpointVars, Stages
  <2>. QED
    BY <1>4, <2>1, RetryBounded
       DEF SelectionRefused, TypeOK, SelectionInv, NeverSleepsStopping
<1>5. CASE SyncSucceeds
  <2>1. /\ place' \in {"check", "asleep", "stopped"} /\ timer' \in 0..Longest
        /\ stopping => timer' = 0
    BY <1>5, LongestBounds, SleepForBounded DEF SyncSucceeds
  <2>2. FailoverTypeOK' /\ stage' = "idle"
    BY <1>5 DEF SyncSucceeds, TypeOK, FailoverTypeOK, failoverVars, endpointVars, SelectionInv
  <2>. QED
    BY <1>5, <2>1, <2>2, LongestBounds
       DEF SyncSucceeds, TypeOK, SelectionInv, NeverSleepsStopping
<1>6. CASE ProviderFails
  <2>1. FailoverTypeOK' /\ stage' = "idle"
    BY <1>6, FailoverAssumption
       DEF ProviderFails, MarkRuntimeFailure, TypeOK, FailoverTypeOK, endpointVars, SelectionInv
  <2>. QED
    BY <1>6, <2>1, RetryBounded
       DEF ProviderFails, TypeOK, SelectionInv, NeverSleepsStopping
<1>7. CASE DataFails
  <2>1. FailoverTypeOK' /\ stage' = "idle"
    BY <1>7, FailoverAssumption DEF DataFails, TypeOK, FailoverTypeOK, failoverVars, SelectionInv
  <2>. QED
    BY <1>7, <2>1, RetryBounded DEF DataFails, TypeOK, SelectionInv, NeverSleepsStopping
<1>8. CASE Wake
  BY <1>8 DEF Wake, TypeOK, FailoverTypeOK, SelectionInv, NeverSleepsStopping,
              failoverVars, endpointVars, Sound
<1>9. CASE RequestStop
  BY <1>9, LongestBounds
     DEF RequestStop, TypeOK, FailoverTypeOK, SelectionInv, NeverSleepsStopping,
         failoverVars, endpointVars, Sound
<1>10. CASE Tick
  <2>1. suppressed' \in 0..MaximumBackoff /\ timer' \in 0..Longest /\ (timer = 0 => timer' = 0)
    BY <1>10, LongestBounds, FailoverAssumption DEF Tick, TypeOK, FailoverTypeOK
  <2>. QED
    BY <1>10, <2>1
       DEF Tick, TypeOK, FailoverTypeOK, SelectionInv, NeverSleepsStopping, endpointVars, Sound
<1>11. CASE EndpointChanges /\ UNCHANGED <<failoverVars, supervisorVars>>
  <2>1. FailoverTypeOK'
    <3>1. changes' \in 0..MaxChanges
      BY <1>11, FailoverAssumption DEF EndpointChanges, TypeOK, FailoverTypeOK
    <3>2. quality' \in [Providers -> Qualities] /\ split' \in BOOLEAN
      BY <1>11 DEF EndpointChanges, TypeOK, FailoverTypeOK
    <3>. QED
      BY <1>11, <3>1, <3>2 DEF TypeOK, FailoverTypeOK, failoverVars
  <2>. QED
    BY <1>11, <2>1
       DEF TypeOK, SelectionInv, NeverSleepsStopping, failoverVars, supervisorVars, Sound
<1>12. CASE UNCHANGED vars
  BY <1>12 DEF vars, failoverVars, endpointVars, supervisorVars, TypeOK, FailoverTypeOK,
               SelectionInv, NeverSleepsStopping, Sound
<1>. QED
  BY <1>1, <1>2, <1>3, <1>4, <1>5, <1>6, <1>7, <1>8, <1>9, <1>10, <1>11, <1>12
     DEF Next, RunStep

LEMMA SupervisorInvariant == Spec => []SupervisorInv
BY InitSupervisor, NextSupervisor, PTL DEF Spec

(* Whatever the endpoints do and whenever they change, an attempt runs on a  *)
(* provider that answered last, never on one of two that disagree.           *)
THEOREM SoundHandOut == Spec => []HandedOutIsSound
<1>1. SupervisorInv => HandedOutIsSound
  BY DEF SupervisorInv, SelectionInv, Sound, HandedOutIsSound
<1>. QED
  BY SupervisorInvariant, <1>1, PTL

(* A stop, at whatever step of the loop it arrives, leaves nothing to sleep. *)
THEOREM StopIsNotSlept == Spec => []NeverSleepsStopping
<1>1. SupervisorInv => NeverSleepsStopping
  BY DEF SupervisorInv
<1>. QED
  BY SupervisorInvariant, <1>1, PTL

(* The delays stay within the configured bounds and every variable keeps its *)
(* type.                                                                     *)
THEOREM SupervisorTypes == Spec => []TypeOK
<1>1. SupervisorInv => TypeOK
  BY DEF SupervisorInv
<1>. QED
  BY SupervisorInvariant, <1>1, PTL
=============================================================================
