----------------------------- MODULE ApiService -----------------------------
(***************************************************************************)
(* The processes that read the indexer's database: GET /api/health,        *)
(* POST /api/preflight and the page's bootstrap, as the web application    *)
(* serves them (apps/web/app/api, apps/web/lib/server-runtime.ts: a        *)
(* read-only store is opened for every request) and as the standalone      *)
(* server does (scripts/preflight-api.ts: one store, opened at its start). *)
(*                                                                         *)
(* Requests share nothing but the database, so one is followed at a time.  *)
(* The indexer is another process: each of its transactions can fall       *)
(* between any two of a request's, and the clock runs all the while.       *)
(*                                                                         *)
(* The chain has one block a second, so a block's number is its timestamp. *)
(* A snapshot is the block it is indexed through; all snapshots of a       *)
(* database are of the model version of its row, because a change of       *)
(* version deletes them.  Index lag is fixed when a snapshot is published, *)
(* under the limit readers apply, and never refuses one later; a row that  *)
(* does not parse and a hash that does not match are left out.             *)
(***************************************************************************)
EXTENDS Integers, FiniteSets

CONSTANTS
  None,
  Configured,    \* the model version the API is built for
  OtherModels,   \* versions an indexer started otherwise can write
  Errors,        \* codes a sync can fail with
  MaxSourceAge,  \* FRESHNESS_POLICY.maximumSourceAgeSeconds
  MaxSkew,       \* maximumIntentClockSkewSeconds
  MaxTime,       \* bound: the clock stops here
  KilledAt       \* bound: the indexer process runs no longer than this

ASSUME ApiAssumption ==
  /\ Configured \notin OtherModels /\ None \notin OtherModels \cup {Configured}
  /\ None \notin Nat
  /\ "AVAILABLE" \notin Errors
  /\ MaxSourceAge \in Nat /\ MaxSkew \in Nat
  /\ MaxTime \in Nat /\ KilledAt \in Nat

VARIABLES
  clock,      \* wall clock of the host
  model,      \* model_version of the row, None before the row exists
  status,     \* indexer_state.status
  lastError,  \* last_error_code
  active,     \* active_snapshot_hash
  stored,     \* the snapshots table
  server,     \* "web", or the standalone process: "down", "up"
  pc,         \* the step the request is at
  stateRead,  \* health: the row read first
  redundant,  \* health: both provider rows are HEALTHY and recent
  candidate,  \* health: currentCandidate
  latest,     \* health: the latest persisted snapshot
  intent,     \* preflight: evaluationBlock and evaluationTimestamp
  now,        \* bootstrap: the time read on entry
  seen,       \* history: what was served at each moment since the request began
  answer      \* the answer, in the state after it is given

rowVars     == <<model, status, lastError, active, stored>>
requestVars == <<stateRead, redundant, candidate, latest, intent, now>>
vars == <<clock, rowVars, server, pc, requestVars, seen, answer>>

Models   == OtherModels \cup {Configured}
Times    == 0..MaxTime
Statuses == {"EMPTY", "SYNCING", "REORGING", "COMPLETE", "ERROR"}

Snapshots == [through : Times, model : Models]
Intents   == [block : Times, at : Times]

Places == {"idle", "openHealth", "state", "active", "latest", "report",
           "openPreflight", "accept", "load", "openBootstrap", "loadBootstrap"}

(* DataAvailabilityCode, with AVAILABLE for a decision, and the states of a   *)
(* health report.                                                            *)
Codes == Errors \cup
  {"AVAILABLE", "INVALID_INTENT", "SNAPSHOT_UNAVAILABLE", "MODEL_VERSION_MISMATCH",
   "STALE_RPC", "INCONSISTENT_BLOCK_DATA", "INDEX_CORRUPT"} \cup
  {"HEALTHY", "DEGRADED", "REORG_RECOVERY", "SCHEMA_MISMATCH", "UNAVAILABLE"}

Answers == [kind : {"health", "preflight", "bootstrap"}, http : {200, 400, 409, 503},
            code : Codes, snapshot : Snapshots \cup {None}, at : Times]

(* None is no value of these types. *)
ASSUME NoneAssumption ==
  None \notin {"SNAPSHOT_INCOMPLETE", "RPC_HEAD_INCONSISTENT", "RPC_DATA_STALE"} \cup
           Codes \cup Snapshots \cup Intents \cup Answers \cup
           [status : Statuses, error : Errors \cup {None}]

(* Every variable has its type. *)
TypeOK ==
  /\ clock \in Times
  /\ model \in Models \cup {None}
  /\ status \in Statuses
  /\ lastError \in Errors \cup {None}
  /\ active \in stored \cup {None}
  /\ stored \subseteq Times
  /\ server \in {"web", "down", "up"}
  /\ pc \in Places
  /\ stateRead \in [status : Statuses, error : Errors \cup {None}] \cup {None}
  /\ redundant \in BOOLEAN
  /\ candidate \in Snapshots \cup {None}
  /\ latest \in Snapshots \cup {None}
  /\ intent \in Intents \cup {None}
  /\ now \in Times \cup {None}
  /\ seen \subseteq Snapshots \cup {None}
  /\ answer \in Answers \cup {None}

Init ==
  /\ clock = 0
  /\ model = None /\ status = "EMPTY" /\ lastError = None
  /\ active = None /\ stored = {}
  /\ server \in {"web", "down"}
  /\ pc = "idle"
  /\ stateRead = None /\ redundant = FALSE /\ candidate = None /\ latest = None
  /\ intent = None /\ now = None
  /\ seen = {} /\ answer = None

---------------------------------------------------------------------------
(* What the store says (src/indexer/store.ts) *)

(* isTransientSnapshotAvailabilityError *)
Transient == {"RPC_UNAVAILABLE"}

(* The statuses in which loadCompleteSnapshotRow hands the active snapshot out. *)
Usable(s, error) ==
  \/ s \in {"COMPLETE", "SYNCING"}
  \/ s = "ERROR" /\ error \in Transient

(* loadCompleteSnapshot: the snapshot, or None and the code of the refusal. *)
Served ==
  IF active # None /\ Usable(status, lastError)
  THEN [through |-> active, model |-> model] ELSE None

RefusalCode ==
  IF status = "ERROR" /\ lastError # None THEN lastError ELSE "SNAPSHOT_UNAVAILABLE"

(* loadLatestPersistedSnapshot *)
LatestStored ==
  IF stored = {} THEN None
  ELSE [through |-> CHOOSE t \in stored : \A u \in stored : u <= t, model |-> model]

(* What opening the read-only store can fail with: there is no database yet, *)
(* or verifySchema finds a schema without the row, or ensureIdentity a row   *)
(* of another version.                                                       *)
OpenErrors ==
  IF model = None THEN {"SNAPSHOT_UNAVAILABLE", "INDEX_CORRUPT"}
  ELSE IF model # Configured THEN {"MODEL_VERSION_MISMATCH"} ELSE {}

(* Seeded fault: the age of the source is not looked at. *)
ValidationAgeless(s, i) ==
  IF i.block # s.through THEN "SNAPSHOT_INCOMPLETE"
  ELSE IF i.at < s.through THEN "RPC_HEAD_INCONSISTENT" ELSE None

(* validatePublicSnapshot of a served snapshot for an intent: None, or the code *)
Validation(s, i) ==
  IF i.block # s.through THEN "SNAPSHOT_INCOMPLETE"
  ELSE IF i.at < s.through THEN "RPC_HEAD_INCONSISTENT"
  ELSE IF i.at - s.through > MaxSourceAge THEN "RPC_DATA_STALE" ELSE None

---------------------------------------------------------------------------
(* The indexer's transactions *)

(* The indexer of some version creates the database. *)
Initialise ==
  /\ model = None
  /\ model' \in Models
  /\ UNCHANGED <<status, lastError, active, stored>>

(* syncOnce sets SYNCING, which keeps the active snapshot. *)
BeginSync ==
  /\ model # None
  /\ status' = "SYNCING"
  /\ UNCHANGED <<model, lastError, active, stored>>

(* persistCompleteSnapshot, after the indexer's own validation: the cursor   *)
(* only moves forward, is not ahead of the clock and is not stale.           *)
Publish ==
  /\ status = "SYNCING"
  /\ \E t \in 0..clock :
       /\ clock - t <= MaxSourceAge
       /\ \A u \in stored : u <= t
       /\ stored' = stored \cup {t}
       /\ active' = t
  /\ status' = "COMPLETE"
  /\ UNCHANGED <<model, lastError>>

(* syncOnce's catch *)
Fail ==
  /\ status \in {"EMPTY", "SYNCING", "REORGING"} /\ model # None
  /\ \E code \in Errors :
       /\ lastError' = code
       /\ active' = IF code \in Transient THEN active ELSE None
  /\ status' = "ERROR"
  /\ UNCHANGED <<model, stored>>

(* recoverReorg: the orphaned snapshot is withdrawn first, ... *)
BeginReorg ==
  /\ status = "SYNCING"
  /\ status' = "REORGING"
  /\ active' = None
  /\ UNCHANGED <<model, lastError, stored>>

(* ... then the snapshots above the fork point are deleted. *)
Rollback ==
  /\ status = "REORGING"
  /\ \E n \in Times : stored' = {t \in stored : t <= n}
  /\ status' = "SYNCING"
  /\ active' = None
  /\ UNCHANGED <<model, lastError>>

(* Seeded fault: the reset leaves the active snapshot in the row. *)
ResetKeepingActive ==
  /\ model # None
  /\ \/ status \in {"REORGING", "SYNCING"} /\ UNCHANGED model
     \/ model' \in Models \ {model}
  /\ status' = "EMPTY" /\ stored' = {}
  /\ UNCHANGED <<lastError, active>>

(* resetForReplay: a fork too deep, an earlier horizon, or an indexer of     *)
(* another version.                                                          *)
Reset ==
  /\ model # None
  /\ \/ status \in {"REORGING", "SYNCING"} /\ UNCHANGED model
     \/ model' \in Models \ {model}
  /\ status' = "EMPTY" /\ active' = None /\ stored' = {}
  /\ UNCHANGED <<lastError>>

Indexer ==
  /\ clock <= KilledAt
  /\ Initialise \/ BeginSync \/ Publish \/ Fail \/ BeginReorg \/ Rollback \/ Reset

---------------------------------------------------------------------------
(* Requests *)

Answered(kind, http, code, s, at) ==
  /\ answer' = [kind |-> kind, http |-> http, code |-> code, snapshot |-> s, at |-> at]
  /\ pc' = "idle"
  /\ stateRead' = None /\ redundant' = FALSE /\ candidate' = None /\ latest' = None
  /\ intent' = None /\ now' = None

(* scripts/preflight-api.ts opens its store once; a signal stops it. *)
StartServer ==
  /\ server = "down" /\ OpenErrors = {}
  /\ server' = "up" /\ answer' = None
  /\ UNCHANGED <<pc, requestVars>>

StopServer ==
  /\ server = "up" /\ pc = "idle"
  /\ server' = "down" /\ answer' = None
  /\ UNCHANGED <<pc, requestVars>>

(* A request arrives at a process that serves. *)
Begin(webPlace, upPlace) ==
  /\ pc = "idle"
  /\ \/ server = "web" /\ pc' = webPlace
     \/ server = "up" /\ pc' = upPlace
  /\ answer' = None
  /\ UNCHANGED <<server, stateRead, redundant, candidate, latest, now>>

StartHealth == Begin("openHealth", "state") /\ UNCHANGED intent

(* A body that does not parse, or an intent for a block that exists.  Times  *)
(* further from the clock are refused like the nearest one out of reach.     *)
StartPreflight ==
  /\ Begin("openPreflight", "accept")
  /\ intent' \in {None} \cup
       {i \in Intents : i.block <= clock /\ i.at - clock \in (-MaxSkew - 2)..(MaxSkew + 1)}

(* loadWebBootstrap reads the clock before anything else. *)
StartBootstrap ==
  /\ pc = "idle" /\ server = "web"
  /\ pc' = "openBootstrap"
  /\ now' = clock
  /\ answer' = None
  /\ UNCHANGED <<server, stateRead, redundant, candidate, latest, intent>>

(* openHealthRuntime, openPreflightRuntime and the store of loadWebBootstrap *)
Open(place, next, kind) ==
  /\ pc = place
  /\ \/ \E code \in OpenErrors : Answered(kind, 503, code, None, clock)
     \/ OpenErrors = {} /\ pc' = next /\ UNCHANGED <<requestVars, answer>>
  /\ UNCHANGED server

OpenStore ==
  \/ Open("openHealth", "state", "health")
  \/ Open("openPreflight", "accept", "preflight")
  \/ Open("openBootstrap", "loadBootstrap", "bootstrap")

---------------------------------------------------------------------------
(* GET /api/health *)

(* The row, and whether both provider rows will be HEALTHY and checked within *)
(* the limit when the report is made: the supervisor's checks are not here.  *)
ReadState ==
  /\ pc = "state"
  /\ stateRead' = [status |-> status, error |-> lastError]
  /\ redundant' \in BOOLEAN
  /\ pc' = "active"
  /\ UNCHANGED <<server, candidate, latest, intent, now, answer>>

ReadActive ==
  /\ pc = "active"
  /\ candidate' = Served
  /\ latest' = Served
  /\ pc' = IF Served = None THEN "latest" ELSE "report"
  /\ UNCHANGED <<server, stateRead, redundant, intent, now, answer>>

(* Seeded fault: what is stored is reported as if it were served. *)
ReadLatestAsCurrent ==
  /\ pc = "latest"
  /\ latest' = LatestStored
  /\ candidate' = LatestStored
  /\ pc' = "report"
  /\ UNCHANGED <<server, stateRead, redundant, intent, now, answer>>

ReadLatest ==
  /\ pc = "latest"
  /\ latest' = LatestStored
  /\ pc' = "report"
  /\ UNCHANGED <<server, stateRead, redundant, candidate, intent, now, answer>>

(* validationIntent: the snapshot's own block, at the time of the report *)
ValidationNow == Validation(candidate, [block |-> candidate.through, at |-> clock])

SnapshotStatus ==
  CASE candidate = None /\ latest = None  -> "NO_USABLE_SNAPSHOT"
    [] candidate = None /\ latest # None  -> "STALE_SNAPSHOT"
    [] candidate # None -> IF ValidationNow = None THEN "CURRENT_COMPLETE_SNAPSHOT"
                           ELSE IF ValidationNow = "RPC_DATA_STALE"
                                   \/ stateRead.status # "COMPLETE" THEN "STALE_SNAPSHOT"
                           ELSE "NO_USABLE_SNAPSHOT"

(* Seeded fault: an outage of the RPC is reported like any other error. *)
DownOnAnyError == stateRead.status \in {"EMPTY", "ERROR"}

Down ==
  \/ stateRead.status = "EMPTY"
  \/ stateRead.status = "ERROR" /\ stateRead.error \notin Transient

(* operationalStatus *)
OperationalStatus ==
  IF stateRead.status = "REORGING" THEN "REORG_RECOVERY"
  ELSE IF stateRead = [status |-> "ERROR", error |-> "POOL_SCHEMA_MISMATCH"] THEN "SCHEMA_MISMATCH"
  ELSE IF Down THEN "UNAVAILABLE"
  ELSE IF stateRead.status # "COMPLETE" \/ SnapshotStatus # "CURRENT_COMPLETE_SNAPSHOT"
  THEN IF SnapshotStatus = "NO_USABLE_SNAPSHOT" THEN "UNAVAILABLE" ELSE "DEGRADED"
  ELSE IF redundant THEN "HEALTHY" ELSE "DEGRADED"

Ready ==
  /\ OperationalStatus \in {"HEALTHY", "DEGRADED"}
  /\ SnapshotStatus = "CURRENT_COMPLETE_SNAPSHOT"

(* The clock is read last. *)
Report ==
  /\ pc = "report"
  /\ Answered("health", IF Ready THEN 200 ELSE 503, OperationalStatus, latest, clock)
  /\ UNCHANGED server

---------------------------------------------------------------------------
(* POST /api/preflight and the bootstrap *)

(* statusCode of http.ts *)
HttpCode(code) ==
  CASE code = "AVAILABLE" -> 200
    [] code \in {"INVALID_INTENT", "UNKNOWN_POOL"} -> 400
    [] code \in {"INDEX_CORRUPT", "INCONSISTENT_BLOCK_DATA", "MODEL_VERSION_MISMATCH",
                 "POOL_SCHEMA_MISMATCH"} -> 409
    [] OTHER -> 503

(* mapSpikeError, of the codes of Validation *)
MapSpikeError(code) ==
  CASE code = "RPC_DATA_STALE"        -> "STALE_RPC"
    [] code = "RPC_HEAD_INCONSISTENT" -> "INCONSISTENT_BLOCK_DATA"
    [] OTHER                          -> "INDEX_CORRUPT"

(* The answer to an accepted intent when s is what the store serves. *)
PreflightCode(s, i) ==
  IF s.model # Configured THEN "MODEL_VERSION_MISMATCH"
  ELSE IF Validation(s, i) # None THEN MapSpikeError(Validation(s, i))
  ELSE "AVAILABLE"

(* Seeded fault: only an intent dated ahead is refused. *)
NotAhead(at) == at - clock <= MaxSkew

Current(at) == at - clock \in (-MaxSkew)..MaxSkew

(* The intent is parsed and its time compared with the server's clock. *)
Accept ==
  /\ pc = "accept"
  /\ IF intent = None THEN Answered("preflight", 400, "INVALID_INTENT", None, clock)
     ELSE IF ~Current(intent.at) THEN Answered("preflight", 400, "INVALID_INTENT", None, clock)
     ELSE /\ now' = clock
          /\ pc' = "load"
          /\ UNCHANGED <<stateRead, redundant, candidate, latest, intent, answer>>
  /\ UNCHANGED server

Load ==
  /\ pc = "load"
  /\ LET code == IF Served = None THEN RefusalCode ELSE PreflightCode(Served, intent)
     IN Answered("preflight", HttpCode(code), code,
                 IF code = "AVAILABLE" THEN Served ELSE None, now)
  /\ UNCHANGED server

(* buildPublicCover, which validates the snapshot first *)
CoverIsBuilt(s, at) == Validation(s, [block |-> s.through, at |-> at]) = None

(* The cover of the snapshot is built for the time read on entry. *)
LoadBootstrap ==
  /\ pc = "loadBootstrap"
  /\ IF Served = None THEN Answered("bootstrap", 503, RefusalCode, None, now)
     ELSE IF ~CoverIsBuilt(Served, now) THEN Answered("bootstrap", 503, "SNAPSHOT_UNAVAILABLE", None, now)
     ELSE Answered("bootstrap", 200, "AVAILABLE", Served, now)
  /\ UNCHANGED server

---------------------------------------------------------------------------
Request ==
  \/ OpenStore
  \/ ReadState \/ ReadActive \/ ReadLatest \/ Report
  \/ Accept \/ Load \/ LoadBootstrap

Arrival == StartServer \/ StopServer \/ StartHealth \/ StartPreflight \/ StartBootstrap

Tick ==
  /\ clock < MaxTime
  /\ clock' = clock + 1
  /\ answer' = None
  /\ UNCHANGED <<rowVars, server, pc, requestVars>>

(* What was served: remembered from the arrival of a request to its answer. *)
Remember ==
  seen' = IF pc = "idle" THEN IF pc' = "idle" THEN {} ELSE {Served}
          ELSE seen \cup {Served'}

Next ==
  /\ \/ Indexer /\ answer' = None /\ UNCHANGED <<clock, server, pc, requestVars>>
     \/ (Arrival \/ Request) /\ UNCHANGED <<clock, rowVars>>
     \/ Tick
  /\ Remember

Spec == Init /\ [][Next]_vars

(* Time passes. *)
FairSpec == Spec /\ WF_vars(Tick /\ Remember)

---------------------------------------------------------------------------
(* Correctness *)

(* The health report joins three reads of a row that another process writes. *)
(* Whatever falls between them, 200 means: the snapshot it names was served  *)
(* at a moment of this request, and a preflight of that snapshot at the time *)
(* of the report is answered, unless the database is of another version.     *)
ReadyMeansPreflight ==
  answer # None /\ answer.kind = "health" /\ answer.http = 200 =>
    /\ answer.snapshot \in seen
    /\ answer.snapshot.model = Configured =>
         PreflightCode(answer.snapshot,
           [block |-> answer.snapshot.through, at |-> answer.at]) = "AVAILABLE"

(* A decision is about evidence that the indexer served during the request,  *)
(* of the configured version, and, however the client dates its intent, not  *)
(* older by the server's clock than the policy and the skew allow together.  *)
AvailableIsBacked ==
  answer # None /\ answer.kind # "health" /\ answer.http = 200 =>
    /\ answer.snapshot \in seen
    /\ answer.kind = "preflight" => answer.snapshot.model = Configured
    /\ answer.at - answer.snapshot.through \in (-MaxSkew)..(MaxSourceAge + MaxSkew)

(* The list of statuses in which the store serves (store.ts) and the lists   *)
(* by which health reports (health.ts) are kept by hand in two modules: if   *)
(* one fresh snapshot of the configured version was served all through the   *)
(* request, health is ready and the bootstrap succeeds.                      *)
NoFalseAlarm ==
  answer # None /\ answer.kind # "preflight" =>
    \A s \in Snapshots :
      seen = {s} /\ s.model = Configured /\ answer.at - s.through <= MaxSourceAge
        => answer.http = 200

(* A killed indexer leaves its row COMPLETE for good.  Only the clock tells: *)
(* from some time on nothing is answered with 200.                           *)
DeadIndexerIsNoticed == <>[][answer' # None => answer'.http # 200]_answer
=============================================================================
