------------------------------ MODULE ApiProofs ------------------------------
(***************************************************************************)
(* Safety of the API's answers, for every length of history, limit of age, *)
(* clock skew, set of model versions and set of error codes: what a        *)
(* request concludes from several reads of a database that another process *)
(* writes between them.                                                    *)
(***************************************************************************)
EXTENDS ApiService, FiniteSetTheorems, TLAPS

(* A database without a row has neither status nor snapshots, and no         *)
(* snapshot is published ahead of the clock.                                 *)
RowInv ==
  /\ model = None => status = "EMPTY" /\ stored = {}
  /\ \A t \in stored : t <= clock

(* What is served now is remembered while a request runs; an answer is gone  *)
(* with the next step.                                                       *)
SeenInv ==
  /\ pc # "idle" => answer = None /\ Served \in seen
  /\ \A s \in seen : s # None => s.through <= clock

(* The health report holds a row that was read before the snapshot: when the *)
(* two disagree, something was withdrawn during the request.                 *)
HealthInv ==
  /\ pc = "idle" => stateRead = None /\ candidate = None
  /\ pc \in {"active", "latest", "report"} => stateRead # None
  /\ stateRead # None => None \in seen \/ Usable(stateRead.status, stateRead.error)
  /\ pc = "latest" => candidate = None
  /\ pc \in {"latest", "report"} /\ candidate = None => None \in seen
  /\ candidate # None => latest = candidate /\ candidate \in seen

(* An accepted intent was close to the clock when it was accepted. *)
IntentInv ==
  pc = "load" => intent # None /\ now # None /\ intent.at - now \in (-MaxSkew)..MaxSkew

(* A bootstrap began at a moment of which it remembers what was served. *)
BootstrapInv ==
  pc \in {"openBootstrap", "loadBootstrap"} =>
    now # None /\ \E s \in seen : s = None \/ s.through <= now

(* The two halves of TypeOK, the database's and the request's. *)
RowTypeOK ==
  /\ clock \in Times
  /\ model \in Models \cup {None}
  /\ status \in Statuses
  /\ lastError \in Errors \cup {None}
  /\ active \in stored \cup {None}
  /\ stored \subseteq Times

RequestTypeOK ==
  /\ server \in {"web", "down", "up"}
  /\ pc \in Places
  /\ stateRead \in [status : Statuses, error : Errors \cup {None}] \cup {None}
  /\ redundant \in BOOLEAN
  /\ candidate \in Snapshots \cup {None}
  /\ latest \in Snapshots \cup {None}
  /\ intent \in Intents \cup {None}
  /\ now \in Times \cup {None}
  /\ answer \in Answers \cup {None}

ApiInv == TypeOK /\ RowInv /\ SeenInv /\ HealthInv /\ IntentInv /\ BootstrapInv

Promises == ReadyMeansPreflight /\ AvailableIsBacked /\ NoFalseAlarm

---------------------------------------------------------------------------
(* Values *)

(* A finite history has a latest snapshot. *)
LEMMA LatestExists ==
  ASSUME RowTypeOK, stored # {}
  PROVE  \E t \in stored : \A u \in stored : u <= t
<1> DEFINE From(t) == {u \in stored : t <= u}
           Tails == {From(t) : t \in stored}
<1>1. IsFiniteSet(stored)
  BY FS_BoundedSetOfNaturals, ApiAssumption DEF RowTypeOK, Times
<1>2. IsWellFoundedOn(StrictSubsetOrdering(stored), SUBSET stored)
  BY <1>1, FS_StrictSubsetOrderingWellFounded, FS_FiniteSubsetsOfFinite
<1>3. Tails \subseteq SUBSET stored /\ Tails # {}
  OBVIOUS
<1>4. PICK least \in Tails : \A T \in Tails : <<T, least>> \notin StrictSubsetOrdering(stored)
  <2> HIDE DEF Tails
  <2> DEFINE R == StrictSubsetOrdering(stored)
             S == SUBSET stored
  <2>1. IsWellFoundedOn(R, S) /\ Tails \subseteq S /\ Tails # {}
    BY <1>2, <1>3
  <2> HIDE DEF R, S
  <2>2. \E x \in Tails : \A y \in Tails : ~ (<<y, x>> \in R)
    BY <2>1, WFMin
  <2>. QED  BY <2>2 DEF R
<1>5. PICK t \in stored : least = From(t)
  OBVIOUS
<1>6. ASSUME NEW u \in stored, ~(u <= t)  PROVE FALSE
  <2>1. From(u) \subseteq From(t) /\ t \notin From(u) /\ t \in From(t)
    <3>1. \A w \in stored : w \in Int
      BY ApiAssumption DEF RowTypeOK, Times
    <3>. QED
      BY <1>6, <3>1
  <2>2. <<From(u), From(t)>> \in StrictSubsetOrdering(stored)
    BY <2>1 DEF StrictSubsetOrdering
  <2>. QED
    BY <2>2, <1>4, <1>5
<1>. QED
  BY <1>6

LEMMA ServedType ==
  ASSUME RowTypeOK, RowInv
  PROVE  Served \in Snapshots \cup {None}
BY DEF RowTypeOK, RowInv, Served, Snapshots

LEMMA LatestType ==
  ASSUME RowTypeOK, RowInv
  PROVE  LatestStored \in Snapshots \cup {None}
<1>1. CASE stored = {}
  BY <1>1 DEF LatestStored
<1>2. CASE stored # {}
  <2>1. (CHOOSE t \in stored : \A u \in stored : u <= t) \in stored
    BY <1>2, LatestExists
  <2>. QED
    BY <1>2, <2>1 DEF LatestStored, RowTypeOK, RowInv, Snapshots
<1>. QED
  BY <1>1, <1>2

(* Snapshots of the past are served. *)
LEMMA ServedIsPast ==
  ASSUME RowTypeOK, RowInv, Served # None
  PROVE  Served.through <= clock
BY ApiAssumption DEF RowTypeOK, RowInv, Served, Times

(* What the standalone server and the routes answer has the type of answers. *)
LEMMA AnswerType ==
  ASSUME NEW kind \in {"health", "preflight", "bootstrap"}, NEW http \in {200, 400, 409, 503},
         NEW code \in Codes, NEW s \in Snapshots \cup {None}, NEW at \in Times,
         Answered(kind, http, code, s, at)
  PROVE  answer' \in Answers
BY DEF Answered, Answers

LEMMA CodesTyped ==
  ASSUME RowTypeOK
  PROVE  /\ OpenErrors \subseteq Codes
         /\ RefusalCode \in Codes \ {"AVAILABLE"}
         /\ \A s, i : PreflightCode(s, i) \in Codes
         /\ OperationalStatus \in Codes
<1>1. OpenErrors \subseteq Codes
  BY DEF OpenErrors, Codes
<1>2. RefusalCode \in Codes \ {"AVAILABLE"}
  BY ApiAssumption DEF RefusalCode, RowTypeOK, Codes
<1>3. ASSUME NEW s, NEW i  PROVE PreflightCode(s, i) \in Codes
  BY DEF PreflightCode, MapSpikeError, Codes
<1>4. OperationalStatus \in Codes
  BY DEF OperationalStatus, Codes
<1>. QED
  BY <1>1, <1>2, <1>3, <1>4

(* 200 is the answer to a decision, and to nothing else. *)
LEMMA HttpCodes ==
  ASSUME NEW code
  PROVE  /\ HttpCode(code) \in {200, 400, 409, 503}
         /\ HttpCode(code) = 200 <=> code = "AVAILABLE"
BY DEF HttpCode
---------------------------------------------------------------------------
(* The database *)

LEMMA IndexerKeepsRow ==
  ASSUME RowTypeOK, RowInv, Indexer, UNCHANGED clock
  PROVE  RowTypeOK' /\ RowInv'
<1> USE DEF RowTypeOK, RowInv
<1>1. CASE Initialise
  BY <1>1, ApiAssumption DEF Initialise, Models
<1>2. CASE BeginSync
  BY <1>2 DEF BeginSync, Statuses
<1>3. CASE Publish
  <2>1. PICK t \in 0..clock : stored' = stored \cup {t} /\ active' = t
    BY <1>3 DEF Publish
  <2>2. t \in Times /\ t <= clock /\ model # None
    BY <1>3, ApiAssumption DEF Publish, Times
  <2>. QED
    BY <1>3, <2>1, <2>2 DEF Publish, Statuses
<1>4. CASE Fail
  BY <1>4 DEF Fail, Statuses
<1>5. CASE BeginReorg
  BY <1>5 DEF BeginReorg, Statuses
<1>6. CASE Rollback
  BY <1>6 DEF Rollback, Statuses
<1>7. CASE Reset
  BY <1>7, ApiAssumption DEF Reset, Statuses, Models
<1>. QED
  BY <1>1, <1>2, <1>3, <1>4, <1>5, <1>6, <1>7 DEF Indexer

LEMMA NextRow ==
  ASSUME TypeOK, RowInv, Next
  PROVE  RowTypeOK' /\ RowInv'
<1>0. RowTypeOK
  BY DEF TypeOK, RowTypeOK
<1>1. CASE Indexer /\ UNCHANGED clock
  BY <1>0, <1>1, IndexerKeepsRow
<1>2. CASE UNCHANGED <<clock, rowVars>>
  BY <1>0, <1>2 DEF RowTypeOK, RowInv, rowVars
<1>3. CASE Tick
  <2>1. clock' \in Times /\ clock \in Int /\ clock' = clock + 1
    BY <1>0, <1>3, ApiAssumption DEF Tick, RowTypeOK, Times
  <2>2. \A t \in stored : t \in Int
    BY <1>0, ApiAssumption DEF RowTypeOK, Times
  <2>. QED
    BY <1>0, <1>3, <2>1, <2>2 DEF Tick, RowTypeOK, RowInv, rowVars
<1>. QED
  BY <1>1, <1>2, <1>3 DEF Next

---------------------------------------------------------------------------
(* The request *)

LEMMA AnsweredTypes ==
  ASSUME RequestTypeOK,
         NEW kind \in {"health", "preflight", "bootstrap"}, NEW http \in {200, 400, 409, 503},
         NEW code \in Codes, NEW s \in Snapshots \cup {None}, NEW at \in Times,
         Answered(kind, http, code, s, at), UNCHANGED server
  PROVE  RequestTypeOK'
<1>1. answer' \in Answers
  BY AnswerType
<1>. QED
  BY <1>1 DEF Answered, RequestTypeOK, Places

LEMMA ArrivalTypes ==
  ASSUME RequestTypeOK, RowTypeOK, Arrival
  PROVE  RequestTypeOK'
<1> USE DEF RequestTypeOK
<1>1. CASE StartServer
  BY <1>1 DEF StartServer, requestVars
<1>2. CASE StopServer
  BY <1>2 DEF StopServer, requestVars
<1>3. CASE StartHealth
  BY <1>3 DEF StartHealth, Begin, Places
<1>4. CASE StartPreflight
  BY <1>4 DEF StartPreflight, Begin, Places
<1>5. CASE StartBootstrap
  BY <1>5 DEF StartBootstrap, RowTypeOK, Places
<1>. QED
  BY <1>1, <1>2, <1>3, <1>4, <1>5 DEF Arrival

LEMMA OpenTypes ==
  ASSUME RequestTypeOK, RowTypeOK, OpenStore
  PROVE  RequestTypeOK'
<1>1. ASSUME NEW place, NEW next \in Places, NEW kind \in {"health", "preflight", "bootstrap"},
             Open(place, next, kind)
      PROVE  RequestTypeOK'
  <2>1. CASE OpenErrors # {}
    <3>1. PICK code \in OpenErrors : Answered(kind, 503, code, None, clock)
      BY <1>1, <2>1 DEF Open
    <3>2. code \in Codes
      BY CodesTyped
    <3>. QED
      BY <1>1, <3>1, <3>2, AnsweredTypes DEF Open, RowTypeOK
  <2>2. CASE OpenErrors = {}
    BY <1>1, <2>2 DEF Open, RequestTypeOK, requestVars
  <2>. QED  BY <2>1, <2>2
<1>. QED
  BY <1>1 DEF OpenStore, Places

LEMMA RequestTypes ==
  ASSUME RequestTypeOK, RowTypeOK, RowInv, IntentInv, BootstrapInv, Request
  PROVE  RequestTypeOK'
<1>1. CASE OpenStore
  BY <1>1, OpenTypes
<1>2. CASE ReadState
  BY <1>2 DEF ReadState, RequestTypeOK, RowTypeOK, Places
<1>3. CASE ReadActive
  BY <1>3, ServedType DEF ReadActive, RequestTypeOK, Places
<1>4. CASE ReadLatest
  BY <1>4, LatestType DEF ReadLatest, RequestTypeOK, Places
<1>5. CASE Report
  BY <1>5, AnsweredTypes, CodesTyped DEF Report, RequestTypeOK, RowTypeOK
<1>6. CASE Accept
  <2>1. CASE intent # None /\ Current(intent.at)
    BY <1>6, <2>1 DEF Accept, RequestTypeOK, RowTypeOK, Places
  <2>2. CASE ~(intent # None /\ Current(intent.at))
    <3>1. "INVALID_INTENT" \in Codes
      BY DEF Codes
    <3>. QED
      BY <1>6, <2>2, <3>1, AnsweredTypes DEF Accept, RowTypeOK
  <2>. QED  BY <2>1, <2>2
<1>7. CASE Load
  <2> DEFINE code == IF Served = None THEN RefusalCode ELSE PreflightCode(Served, intent)
             s == IF code = "AVAILABLE" THEN Served ELSE None
  <2>1. code \in Codes /\ HttpCode(code) \in {200, 400, 409, 503}
    BY CodesTyped, HttpCodes
  <2>2. s \in Snapshots \cup {None} /\ now \in Times
    BY <1>7, ServedType DEF Load, IntentInv, RequestTypeOK
  <2>3. Answered("preflight", HttpCode(code), code, s, now) /\ UNCHANGED server
    BY <1>7 DEF Load
  <2> HIDE DEF code, s
  <2>. QED
    BY <2>1, <2>2, <2>3, AnsweredTypes
<1>8. CASE LoadBootstrap
  <2>1. now \in Times
    BY <1>8 DEF LoadBootstrap, BootstrapInv, RequestTypeOK
  <2>2. {"AVAILABLE", "SNAPSHOT_UNAVAILABLE", RefusalCode} \subseteq Codes
    BY CodesTyped DEF Codes
  <2>. QED
    BY <1>8, <2>1, <2>2, ServedType, AnsweredTypes DEF LoadBootstrap
<1>. QED
  BY <1>1, <1>2, <1>3, <1>4, <1>5, <1>6, <1>7, <1>8 DEF Request

LEMMA NextTypes ==
  ASSUME ApiInv, Next
  PROVE  TypeOK'
<1>0. RowTypeOK /\ RequestTypeOK
  BY DEF ApiInv, TypeOK, RowTypeOK, RequestTypeOK
<1>1. RowTypeOK' /\ RowInv'
  BY NextRow DEF ApiInv
<1>2. RequestTypeOK'
  <2>1. CASE (Indexer /\ answer' = None /\ UNCHANGED <<clock, server, pc, requestVars>>) \/ Tick
    BY <1>0, <2>1 DEF Tick, RequestTypeOK, requestVars
  <2>2. CASE Arrival \/ Request
    BY <1>0, <2>2, ArrivalTypes, RequestTypes DEF ApiInv
  <2>. QED  BY <2>1, <2>2 DEF Next
<1>3. Served \in Snapshots \cup {None} /\ Served' \in Snapshots \cup {None}
  <2>1. Served \in Snapshots \cup {None}
    BY <1>0, ServedType DEF ApiInv
  <2>2. Served' \in Snapshots \cup {None}
    BY <1>1 DEF RowTypeOK, RowInv, Served, Snapshots
  <2>. QED  BY <2>1, <2>2
<1>4. seen' \subseteq Snapshots \cup {None}
  BY <1>3 DEF ApiInv, TypeOK, Next, Remember
<1>. QED
  BY <1>1, <1>2, <1>4 DEF TypeOK, RowTypeOK, RequestTypeOK

---------------------------------------------------------------------------
(* What a request remembers *)

(* A request begins without the database or the clock moving. *)
LEMMA Beginning ==
  ASSUME Next, pc = "idle", pc' # "idle"
  PROVE  Arrival /\ UNCHANGED <<clock, rowVars>>
BY DEF Next, Tick, Request, OpenStore, Open, ReadState, ReadActive, ReadLatest, Report,
     Accept, Load, LoadBootstrap

LEMMA SeenGrows ==
  ASSUME Next, pc # "idle"
  PROVE  seen' = seen \cup {Served'}
BY DEF Next, Remember

(* An answer is given by a step of a request, which it ends. *)
LEMMA Answering ==
  ASSUME SeenInv, RequestTypeOK, Next, answer' # None
  PROVE  pc # "idle" /\ pc' = "idle" /\ Request
<1>1. Request
  BY DEF Next, Tick, Arrival, StartServer, StopServer, StartHealth, StartPreflight, Begin,
         StartBootstrap
<1>2. pc # "idle"
  BY <1>1 DEF Request, OpenStore, Open, ReadState, ReadActive, ReadLatest, Report,
         Accept, Load, LoadBootstrap
<1>3. pc' = "idle" \/ UNCHANGED answer
  BY <1>1 DEF Request, OpenStore, Open, ReadState, ReadActive, ReadLatest, Report,
         Accept, Load, LoadBootstrap, Answered
<1>. QED
  BY <1>1, <1>2, <1>3 DEF SeenInv

LEMMA NextSeen ==
  ASSUME ApiInv, Next
  PROVE  SeenInv'
<1>0. RowTypeOK /\ RequestTypeOK /\ RowInv /\ SeenInv
  BY DEF ApiInv, TypeOK, RowTypeOK, RequestTypeOK
<1>1. RowTypeOK' /\ RowInv'
  BY NextRow DEF ApiInv
<1>2. pc' # "idle" => answer' = None
  BY <1>0, Answering
<1>3. pc' # "idle" => Served' \in seen'
  <2>1. CASE pc = "idle" /\ pc' # "idle"
    <3>1. Served' = Served
      BY <2>1, Beginning DEF Served, rowVars
    <3>. QED  BY <2>1, <3>1 DEF Next, Remember
  <2>2. CASE pc # "idle"
    BY <2>2, SeenGrows
  <2>. QED  BY <2>1, <2>2
<1>4. clock \in Int /\ clock' \in Int /\ clock <= clock'
  BY <1>0, <1>1, ApiAssumption DEF Next, Tick, RowTypeOK, Times
<1>5. Served # None => Served.through <= clock
  BY <1>0, ServedIsPast
<1>6. Served' # None => Served'.through <= clock'
  BY <1>1, ApiAssumption DEF RowTypeOK, RowInv, Served, Times
<1>7. ASSUME NEW s \in seen', s # None  PROVE s.through <= clock'
  <2>1. CASE s = Served'
    BY <1>6, <1>7, <2>1
  <2>2. CASE s = Served /\ s # Served'
    <3>1. Served \in Snapshots
      BY <1>0, <1>7, <2>2, ServedType
    <3>. QED  BY <1>4, <1>5, <1>7, <2>2, <3>1, ApiAssumption DEF Snapshots, Times
  <2>3. CASE s \in seen
    <3>1. s \in Snapshots /\ s.through <= clock
      BY <1>0, <1>7, <2>3 DEF ApiInv, TypeOK, SeenInv
    <3>. QED  BY <1>4, <3>1, ApiAssumption DEF Snapshots, Times
  <2>. QED
    BY <1>7, <2>1, <2>2, <2>3 DEF Next, Remember
<1>. QED
  BY <1>2, <1>3, <1>7 DEF SeenInv

LEMMA NextHealth ==
  ASSUME ApiInv, Next
  PROVE  HealthInv'
<1>0. RequestTypeOK /\ SeenInv /\ HealthInv
  BY DEF ApiInv, TypeOK, RequestTypeOK
<1>1. pc # "idle" => seen \subseteq seen'
  BY SeenGrows
<1>2. CASE UNCHANGED <<pc, stateRead, candidate, latest>>
  BY <1>0, <1>1, <1>2 DEF HealthInv
<1>3. CASE Arrival
  BY <1>0, <1>1, <1>3 DEF HealthInv, Arrival, StartServer, StopServer, StartHealth,
       StartPreflight, Begin, StartBootstrap, requestVars
<1>4. CASE Request
  <2>0. pc # "idle" /\ Served \in seen
    BY <1>0, <1>4 DEF SeenInv, Request, OpenStore, Open, ReadState, ReadActive, ReadLatest,
         Report, Accept, Load, LoadBootstrap
  <2>1. CASE pc' = "idle" /\ stateRead' = None /\ candidate' = None
    BY <2>1 DEF HealthInv
  <2>2. CASE OpenStore
    BY <1>0, <1>1, <2>0, <2>1, <2>2, NoneAssumption
      DEF HealthInv, OpenStore, Open, Answered, requestVars
  <2>3. CASE ReadState
    <3>1. stateRead' = [status |-> status, error |-> lastError] /\ stateRead' # None
      BY <2>3, NoneAssumption DEF ReadState, ApiInv, TypeOK
    <3>2. None \in seen' \/ Usable(status, lastError)
      BY <1>1, <2>0 DEF Served
    <3>. QED
      BY <1>0, <1>1, <2>0, <2>3, <3>1, <3>2 DEF HealthInv, ReadState
  <2>4. CASE ReadActive
    BY <1>0, <1>1, <2>0, <2>4 DEF HealthInv, ReadActive
  <2>5. CASE ReadLatest
    BY <1>0, <1>1, <2>0, <2>5 DEF HealthInv, ReadLatest
  <2>6. CASE Report \/ Load \/ LoadBootstrap
    BY <2>1, <2>6 DEF Report, Load, LoadBootstrap, Answered
  <2>7. CASE Accept
    BY <1>0, <1>1, <2>0, <2>1, <2>7 DEF HealthInv, Accept, Answered
  <2>. QED
    BY <1>4, <2>2, <2>3, <2>4, <2>5, <2>6, <2>7 DEF Request
<1>. QED
  BY <1>2, <1>3, <1>4 DEF Next, Tick, requestVars

LEMMA NextIntent ==
  ASSUME ApiInv, Next
  PROVE  IntentInv' /\ BootstrapInv'
<1>0. RequestTypeOK /\ RowTypeOK /\ RowInv /\ SeenInv /\ IntentInv /\ BootstrapInv
  BY DEF ApiInv, TypeOK, RequestTypeOK, RowTypeOK
<1>1. pc # "idle" => seen \subseteq seen'
  BY SeenGrows
<1>2. CASE UNCHANGED <<pc, intent, now>>
  BY <1>0, <1>1, <1>2 DEF IntentInv, BootstrapInv
<1>3. CASE pc' \notin {"load", "openBootstrap", "loadBootstrap"}
  BY <1>3 DEF IntentInv, BootstrapInv
<1>4. CASE Accept /\ pc' = "load"
  <2>1. intent # None /\ intent' = intent /\ now' = clock /\ Current(intent.at)
    BY <1>4 DEF Accept, Answered
  <2>2. now' # None
    BY <1>0, <2>1, ApiAssumption DEF RowTypeOK, Times
  <2>. QED
    BY <1>4, <2>1, <2>2 DEF IntentInv, BootstrapInv, Current
<1>5. CASE StartBootstrap
  <2>1. pc = "idle" /\ pc' = "openBootstrap" /\ now' = clock
    BY <1>5 DEF StartBootstrap
  <2>2. UNCHANGED <<clock, rowVars>>
    BY <2>1, Beginning
  <2>3. seen' = {Served}
    BY <2>1 DEF Next, Remember
  <2>4. now' # None
    BY <1>0, <2>1, ApiAssumption DEF RowTypeOK, Times
  <2>. QED
    BY <1>0, <2>1, <2>3, <2>4, ServedIsPast DEF IntentInv, BootstrapInv
<1>6. CASE OpenStore /\ pc' = "loadBootstrap"
  <2>1. pc = "openBootstrap" /\ UNCHANGED requestVars
    BY <1>6 DEF OpenStore, Open, Answered
  <2>. QED
    BY <1>0, <1>1, <1>6, <2>1 DEF IntentInv, BootstrapInv, requestVars
<1>. QED
  BY <1>2, <1>3, <1>4, <1>5, <1>6
    DEF Next, Tick, requestVars, Arrival, StartServer, StopServer, StartHealth, StartPreflight,
        Begin, Request, OpenStore, Open, ReadState, ReadActive, ReadLatest, Report, Accept,
        Load, LoadBootstrap, Answered

---------------------------------------------------------------------------
(* What the answers promise *)

(* Validation says in numbers what it accepts. *)
LEMMA ValidationAccepts ==
  ASSUME NEW s \in Snapshots, NEW i \in Intents
  PROVE  Validation(s, i) = None <=>
           i.block = s.through /\ s.through <= i.at /\ i.at - s.through <= MaxSourceAge
<1>1. s.through \in Int /\ i.at \in Int /\ MaxSourceAge \in Int
  BY ApiAssumption DEF Snapshots, Intents, Times
<1>2. /\ None # "SNAPSHOT_INCOMPLETE" /\ None # "RPC_HEAD_INCONSISTENT"
      /\ None # "RPC_DATA_STALE"
  BY NoneAssumption
<1>. QED
  BY <1>1, <1>2 DEF Validation

(* Which step answers what. *)
LEMMA StepAnswers ==
  ASSUME SeenInv, RequestTypeOK, Next, answer' # None
  PROVE  \/ OpenStore /\ OpenErrors # {} /\ answer'.http = 503
         \/ answer'.kind = "health" /\ Report
         \/ answer'.kind = "preflight" /\ Accept /\ answer'.http = 400
         \/ answer'.kind = "preflight" /\ Load
         \/ answer'.kind = "bootstrap" /\ LoadBootstrap
<1>1. Request /\ answer = None
  BY Answering DEF SeenInv
<1>2. CASE OpenStore
  <2>1. PICK place, next, kind : Open(place, next, kind)
    BY <1>2 DEF OpenStore
  <2>2. OpenErrors # {}
    BY <1>1, <2>1 DEF Open
  <2>3. answer'.http = 503
    BY <2>1, <2>2 DEF Open, Answered
  <2>. QED  BY <1>2, <2>2, <2>3
<1>3. CASE ReadState \/ ReadActive \/ ReadLatest
  BY <1>1, <1>3 DEF ReadState, ReadActive, ReadLatest
<1>4. CASE Report
  BY <1>4 DEF Report, Answered
<1>5. CASE Accept
  BY <1>1, <1>5 DEF Accept, Answered
<1>6. CASE Load
  <2>1. PICK http, code, s : Answered("preflight", http, code, s, now)
    BY <1>6 DEF Load
  <2>. QED  BY <1>6, <2>1 DEF Answered
<1>7. CASE LoadBootstrap
  BY <1>7 DEF LoadBootstrap, Answered
<1>. QED
  BY <1>1, <1>2, <1>3, <1>4, <1>5, <1>6, <1>7 DEF Request

LEMMA NextReady ==
  ASSUME ApiInv, Next
  PROVE  ReadyMeansPreflight'
<1> SUFFICES ASSUME answer' # None, answer'.kind = "health", answer'.http = 200
             PROVE  /\ answer'.snapshot \in seen'
                    /\ answer'.snapshot.model = Configured =>
                         PreflightCode(answer'.snapshot,
                           [block |-> answer'.snapshot.through, at |-> answer'.at]) = "AVAILABLE"
  BY DEF ReadyMeansPreflight
<1>0. SeenInv /\ RequestTypeOK /\ HealthInv
  BY DEF ApiInv, TypeOK, RequestTypeOK
<1>1. Report /\ Ready
  <2>1. Report
    BY <1>0, StepAnswers
  <2>. QED
    BY <2>1 DEF Report, Answered
<1>2. answer'.snapshot = latest /\ answer'.at = clock
  BY <1>1 DEF Report, Answered
<1>3. candidate # None /\ ValidationNow = None
  BY <1>1 DEF Ready, SnapshotStatus
<1>4. latest = candidate /\ candidate \in seen
  BY <1>0, <1>3 DEF HealthInv
<1>5. seen \subseteq seen'
  BY <1>1, SeenGrows DEF Report
<1>6. ASSUME candidate.model = Configured
      PROVE  PreflightCode(candidate, [block |-> candidate.through, at |-> clock]) = "AVAILABLE"
  BY <1>3, <1>6 DEF PreflightCode, ValidationNow
<1>. QED
  BY <1>2, <1>4, <1>5, <1>6

LEMMA NextBacked ==
  ASSUME ApiInv, Next
  PROVE  AvailableIsBacked'
<1> SUFFICES ASSUME answer' # None, answer'.kind # "health", answer'.http = 200
             PROVE  /\ answer'.snapshot \in seen'
                    /\ answer'.kind = "preflight" => answer'.snapshot.model = Configured
                    /\ answer'.at - answer'.snapshot.through \in (-MaxSkew)..(MaxSourceAge + MaxSkew)
  BY DEF AvailableIsBacked
<1>0. SeenInv /\ RequestTypeOK /\ RowTypeOK /\ RowInv /\ IntentInv /\ BootstrapInv
  BY DEF ApiInv, TypeOK, RequestTypeOK, RowTypeOK
<1>1. pc # "idle" /\ Served \in seen /\ seen \subseteq seen'
  BY <1>0, Answering, SeenGrows DEF SeenInv
<1>2. Served # None => Served \in Snapshots
  BY <1>0, ServedType
<1>3. MaxSkew \in Nat /\ MaxSourceAge \in Nat
  BY ApiAssumption
<1>4. CASE answer'.kind = "preflight" /\ Load
  <2> DEFINE code == IF Served = None THEN RefusalCode ELSE PreflightCode(Served, intent)
  <2>1. HttpCode(code) = 200 /\ answer'.at = now
        /\ answer'.snapshot = IF code = "AVAILABLE" THEN Served ELSE None
    BY <1>4 DEF Load, Answered
  <2>2. code = "AVAILABLE"
    <3> HIDE DEF code
    <3>. QED  BY <2>1, HttpCodes
  <2>3. Served # None /\ PreflightCode(Served, intent) = "AVAILABLE"
    BY <1>0, <2>2, CodesTyped
  <2>4. Served.model = Configured /\ Validation(Served, intent) = None
    BY <2>3 DEF PreflightCode, MapSpikeError
  <2>5. intent \in Intents /\ now \in Times /\ intent.at - now \in (-MaxSkew)..MaxSkew
    BY <1>0, <1>4 DEF Load, IntentInv, RequestTypeOK
  <2>6. Served.through <= intent.at /\ intent.at - Served.through <= MaxSourceAge
    BY <1>2, <2>3, <2>4, <2>5, ValidationAccepts
  <2>7. Served.through \in Int /\ intent.at \in Int /\ now \in Int
    BY <1>2, <2>3, <2>5, ApiAssumption DEF Snapshots, Intents, Times
  <2>8. now - Served.through \in (-MaxSkew)..(MaxSourceAge + MaxSkew)
    BY <1>3, <2>5, <2>6, <2>7
  <2>. QED
    BY <1>1, <2>1, <2>2, <2>4, <2>8
<1>5. CASE answer'.kind = "bootstrap" /\ LoadBootstrap
  <2>1. Served # None /\ CoverIsBuilt(Served, now) /\ answer'.snapshot = Served /\ answer'.at = now
    BY <1>5 DEF LoadBootstrap, Answered
  <2>2. now \in Times
    BY <1>0, <1>5 DEF LoadBootstrap, BootstrapInv, RequestTypeOK
  <2>3. Served.through \in Times
    BY <1>2, <2>1 DEF Snapshots
  <2>4. Served.through <= now /\ now - Served.through <= MaxSourceAge
    BY <1>2, <2>1, <2>2, <2>3, ValidationAccepts DEF CoverIsBuilt, Intents
  <2>5. now - Served.through \in (-MaxSkew)..(MaxSourceAge + MaxSkew)
    BY <1>3, <2>2, <2>3, <2>4, ApiAssumption DEF Times
  <2>. QED
    BY <1>1, <1>5, <2>1, <2>5
<1>. QED
  BY <1>0, <1>4, <1>5, StepAnswers

LEMMA NextNoFalseAlarm ==
  ASSUME ApiInv, Next
  PROVE  NoFalseAlarm'
<1> SUFFICES ASSUME answer' # None, answer'.kind # "preflight",
                    NEW s \in Snapshots, seen' = {s}, s.model = Configured,
                    answer'.at - s.through <= MaxSourceAge
             PROVE  answer'.http = 200
  BY DEF NoFalseAlarm
<1>0. SeenInv /\ RequestTypeOK /\ RowTypeOK /\ RowInv /\ HealthInv /\ BootstrapInv
  BY DEF ApiInv, TypeOK, RequestTypeOK, RowTypeOK
<1>1. pc # "idle" /\ Served = s /\ seen = {s} /\ s # None
  BY <1>0, Answering, SeenGrows, NoneAssumption DEF SeenInv
<1>2. OpenErrors = {}
  BY <1>1, ApiAssumption DEF OpenErrors, Served
<1>3. CASE Report
  <2>1. stateRead # None /\ Usable(stateRead.status, stateRead.error)
    BY <1>0, <1>1, <1>3 DEF HealthInv, Report
  <2>2. candidate = s
    BY <1>0, <1>1, <1>3 DEF HealthInv, Report
  <2>3. answer'.at = clock /\ clock \in Times /\ s.through \in Times /\ s.through <= clock
    BY <1>0, <1>1, <1>3 DEF Report, Answered, SeenInv, RowTypeOK, Snapshots
  <2>4. ValidationNow = None
    BY <2>2, <2>3, ValidationAccepts DEF ValidationNow, Intents
  <2>5. SnapshotStatus = "CURRENT_COMPLETE_SNAPSHOT"
    BY <1>1, <2>2, <2>4 DEF SnapshotStatus
  <2>6. /\ stateRead.status \notin {"EMPTY", "REORGING"}
        /\ stateRead.status = "ERROR" => stateRead.error = "RPC_UNAVAILABLE"
    BY <2>1 DEF Usable, Transient
  <2>7. ~Down /\ stateRead # [status |-> "ERROR", error |-> "POOL_SCHEMA_MISMATCH"]
    BY <2>6 DEF Down, Transient
  <2>8. OperationalStatus \in {"HEALTHY", "DEGRADED"}
    BY <2>5, <2>6, <2>7 DEF OperationalStatus
  <2>. QED
    BY <1>3, <2>5, <2>8 DEF Report, Answered, Ready
<1>4. CASE LoadBootstrap
  <2>1. answer'.at = now
    BY <1>1, <1>4 DEF LoadBootstrap, Answered
  <2>2. now \in Times /\ s.through <= now
    BY <1>0, <1>1, <1>4 DEF LoadBootstrap, BootstrapInv, RequestTypeOK
  <2>3. CoverIsBuilt(s, now)
    BY <2>1, <2>2, ValidationAccepts DEF CoverIsBuilt, Intents, Snapshots
  <2>. QED
    BY <1>1, <1>4, <2>3 DEF LoadBootstrap, Answered
<1>. QED
  BY <1>0, <1>2, <1>3, <1>4, StepAnswers

---------------------------------------------------------------------------
LEMMA Initially == Init => ApiInv /\ Promises
<1> SUFFICES ASSUME Init  PROVE ApiInv /\ Promises
  OBVIOUS
<1>1. 0 \in Times
  BY ApiAssumption DEF Times
<1>. QED
  BY <1>1 DEF Init, ApiInv, TypeOK, RowInv, SeenInv, HealthInv, IntentInv, BootstrapInv, Promises,
       ReadyMeansPreflight, AvailableIsBacked, NoFalseAlarm, Statuses, Places

LEMMA Stutters ==
  ASSUME ApiInv, Promises, UNCHANGED vars
  PROVE  ApiInv' /\ Promises'
<1>1. ApiInv'
  BY DEF ApiInv, TypeOK, RowInv, SeenInv, HealthInv, IntentInv, BootstrapInv, Served, vars,
       rowVars, requestVars
<1>2. Promises'
  BY DEF Promises, ReadyMeansPreflight, AvailableIsBacked, NoFalseAlarm, vars
<1>. QED
  BY <1>1, <1>2

LEMMA Inductive == Spec => [](ApiInv /\ Promises)
<1>1. ASSUME ApiInv, Promises, [Next]_vars  PROVE ApiInv' /\ Promises'
  <2>1. CASE Next
    <3>1. TypeOK' /\ RowInv'
      BY <1>1, <2>1, NextTypes, NextRow DEF ApiInv
    <3>2. SeenInv' /\ HealthInv' /\ IntentInv' /\ BootstrapInv'
      BY <1>1, <2>1, NextSeen, NextHealth, NextIntent
    <3>3. ReadyMeansPreflight' /\ AvailableIsBacked' /\ NoFalseAlarm'
      BY <1>1, <2>1, NextReady, NextBacked, NextNoFalseAlarm
    <3>. QED
      BY <3>1, <3>2, <3>3 DEF ApiInv, Promises
  <2>2. CASE UNCHANGED vars
    BY <1>1, <2>2, Stutters
  <2>. QED  BY <1>1, <2>1, <2>2
<1>. QED
  BY <1>1, Initially, PTL DEF Spec

(* Every variable of the database, the clock and the request keeps its type. *)
THEOREM ApiTypes == Spec => []TypeOK
BY Inductive, PTL DEF ApiInv

(* For every sequence of the indexer's transactions between the reads of a   *)
(* health report: ready means that the snapshot it names was served during   *)
(* the request and that a preflight of it is answered.                       *)
THEOREM ReadyIsServed == Spec => []ReadyMeansPreflight
BY Inductive, PTL DEF Promises

(* A decision rests on evidence served during the request, of the configured *)
(* version and, however the client dates it, within age and skew.            *)
THEOREM DecisionsAreBacked == Spec => []AvailableIsBacked
BY Inductive, PTL DEF Promises

(* A service that serves one fresh snapshot all through a request is never   *)
(* reported as down.                                                         *)
THEOREM NoAlarmWhileServing == Spec => []NoFalseAlarm
BY Inductive, PTL DEF Promises
=============================================================================
