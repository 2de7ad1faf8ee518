--------------------------- MODULE CanonicalStore ---------------------------
(***************************************************************************)
(* The SQLite read model of src/indexer/store.ts.  Its variables are the   *)
(* durable state: they survive a crash of the indexer process and are what *)
(* the read-only API process sees.  One operator per store method; each is *)
(* one SQLite transaction (BEGIN IMMEDIATE ... COMMIT, or one UPDATE), so  *)
(* it is one atomic step.                                                  *)
(*                                                                         *)
(* An event is identified by the block that carries it (at most one event  *)
(* per block): the store keys events by block, transaction and ordinal and *)
(* deletes them with their block (ON DELETE CASCADE).  Snapshot hashes are *)
(* injective, so a snapshot stands for its hash.  The ingestion_batches    *)
(* rows, the sync metrics and the provider rows are not modelled here.     *)
(***************************************************************************)
EXTENDS PublicChain, FiniteSets

CONSTANTS
  None,          \* SQL NULL
  Versions,      \* engine model versions, e.g. CUTOUT-v1.3 and CUTOUT-v1.4
  Selectors,     \* [Versions -> SUBSET Contents]: contents a version queries
  MaxHistory     \* MAX_SNAPSHOT_HISTORY

ErrorCodes == {"UNKNOWN_POOL", "RPC_UNAVAILABLE", "STALE_RPC", "INDEX_LAG",
               "INDEX_CORRUPT", "INCONSISTENT_BLOCK_DATA", "INSUFFICIENT_HISTORY",
               "MODEL_VERSION_MISMATCH", "POOL_SCHEMA_MISMATCH",
               "SNAPSHOT_UNAVAILABLE"}

Snapshots == [through : Blocks, source : Blocks, events : SUBSET Blocks,
              model : Versions]

ASSUME StoreAssumption ==
  /\ None \notin Blocks
  /\ None \notin Nat
  /\ None \notin ErrorCodes
  /\ None \notin Snapshots
  /\ Selectors \in [Versions -> SUBSET Contents]
  /\ MaxHistory \in Nat \ {0}

VARIABLES
  status,        \* indexer_state.status
  lastError,     \* indexer_state.last_error_code
  modelVersion,  \* indexer_state.model_version
  source,        \* indexer_state.source_from_block and _hash: a block or None
  requiredFrom,  \* indexer_state.required_from_timestamp, as a height or None
  cursor,        \* indexer_state.indexed_through_block and _hash: a block or None
  headers,       \* canonical_blocks: the retained headers
  events,        \* public_events and public_withdrawals: the blocks carrying them
  snapshots,     \* the snapshots table
  active         \* the snapshot of active_snapshot_hash, or None

storeVars == <<status, lastError, modelVersion, source, requiredFrom, cursor,
               headers, events, snapshots, active>>

Statuses   == {"EMPTY", "SYNCING", "REORGING", "COMPLETE", "ERROR"}

StoreTypeOK ==
  /\ status \in Statuses
  /\ lastError \in ErrorCodes \cup {None}
  /\ modelVersion \in Versions
  /\ source \in Blocks \cup {None}
  /\ requiredFrom \in Nat \cup {None}
  /\ cursor \in Blocks \cup {None}
  /\ headers \subseteq Blocks
  /\ events \subseteq Blocks
  /\ snapshots \subseteq Snapshots
  /\ active \in Snapshots \cup {None}

StoreInit ==
  /\ status = "EMPTY"
  /\ lastError = None
  /\ modelVersion \in Versions
  /\ source = None
  /\ requiredFrom = None
  /\ cursor = None
  /\ headers = {}
  /\ events = {}
  /\ snapshots = {}
  /\ active = None

---------------------------------------------------------------------------
(* Helpers *)

(* isTransientSnapshotAvailabilityError *)
Transient(code) == code \in {"RPC_UNAVAILABLE"}

(* The statuses under which setStatus leaves active_snapshot_hash alone. *)
RetainsActive(newStatus, code) ==
  \/ newStatus \in {"COMPLETE", "SYNCING"}
  \/ newStatus = "ERROR" /\ Transient(code)

(* getHeader: the retained header of a number, as a set of at most one. *)
HeaderAt(n) == {h \in headers : Height(h) = n}

(* upsertHeader raises INCONSISTENT_BLOCK_DATA unless this holds. *)
Agrees(hs) == \A h \in hs : \A g \in HeaderAt(Height(h)) : g = h

(* Seeded fault: the query orders ascending. *)
OldestHeaders(maximum) ==
  {h \in headers : Cardinality({g \in headers : Height(g) < Height(h)}) < maximum}

(* recentHeadersDescending(maximum), as a set *)
RecentHeaders(maximum) ==
  {h \in headers : Cardinality({g \in headers : Height(g) > Height(h)}) < maximum}

(* loadCompleteSnapshotRow: what the API process is served, None for any    *)
(* of its errors.                                                           *)
Served ==
  IF /\ \/ status \in {"COMPLETE", "SYNCING"}
        \/ status = "ERROR" /\ Transient(lastError)
     /\ active \in snapshots
  THEN active
  ELSE None

---------------------------------------------------------------------------
(* Transactions *)

(* Seeded fault: the two parameters of the error UPDATE are swapped. *)
SetStatusSwapped(newStatus, code) ==
  /\ status' = IF code = None THEN newStatus ELSE code
  /\ lastError' = IF code = None THEN lastError ELSE newStatus
  /\ active' = IF RetainsActive(newStatus, code) THEN active ELSE None
  /\ UNCHANGED <<modelVersion, source, requiredFrom, cursor, headers, events,
                 snapshots>>

SetStatus(newStatus, code) ==
  /\ status' = newStatus
  /\ lastError' = IF code = None THEN lastError ELSE code
  /\ active' = IF RetainsActive(newStatus, code) THEN active ELSE None
  /\ UNCHANGED <<modelVersion, source, requiredFrom, cursor, headers, events,
                 snapshots>>

InitializeSource(block, required) ==
  /\ source' = block
  /\ requiredFrom' = required
  /\ UNCHANGED <<status, lastError, modelVersion, cursor, headers, events,
                 snapshots, active>>

RetainHeaders(hs) ==
  /\ Agrees(hs)
  /\ headers' = headers \cup hs
  /\ UNCHANGED <<status, lastError, modelVersion, source, requiredFrom, cursor,
                 events, snapshots, active>>

CommitBatch(through, hs, es) ==
  /\ Agrees(hs)
  /\ headers' = headers \cup hs
  /\ events' = events \cup es
  /\ status' = "SYNCING"
  /\ cursor' = through
  /\ UNCHANGED <<lastError, modelVersion, source, requiredFrom, snapshots, active>>

(* Seeded fault: the retained headers of the orphaned branch stay. *)
RollbackKeepingHeaders(ancestor) ==
  /\ ancestor \in headers
  /\ snapshots' = {s \in snapshots : Height(s.through) <= Height(ancestor)}
  /\ status' = "SYNCING"
  /\ cursor' = ancestor
  /\ active' = None
  /\ UNCHANGED <<lastError, modelVersion, source, requiredFrom, headers, events>>

(* Seeded fault: foreign keys are off, so no event goes with its block. *)
RollbackKeepingEvents(ancestor) ==
  /\ ancestor \in headers
  /\ snapshots' = {s \in snapshots : Height(s.through) <= Height(ancestor)}
  /\ headers' = {h \in headers : Height(h) <= Height(ancestor)}
  /\ status' = "SYNCING"
  /\ cursor' = ancestor
  /\ active' = None
  /\ UNCHANGED <<lastError, modelVersion, source, requiredFrom, events>>

RollbackTo(ancestor) ==
  /\ ancestor \in headers
  /\ snapshots' = {s \in snapshots : Height(s.through) <= Height(ancestor)}
  /\ headers' = {h \in headers : Height(h) <= Height(ancestor)}
  /\ events' = {e \in events : Height(e) <= Height(ancestor)}
  /\ status' = "SYNCING"
  /\ cursor' = ancestor
  /\ active' = None
  /\ UNCHANGED <<lastError, modelVersion, source, requiredFrom>>

(* Seeded fault: the active snapshot outlives the data it was built from. *)
ResetKeepingActive(version) ==
  /\ status' = "EMPTY"
  /\ modelVersion' = version
  /\ source' = None
  /\ requiredFrom' = None
  /\ cursor' = None
  /\ headers' = {}
  /\ events' = {}
  /\ UNCHANGED <<lastError, snapshots, active>>

(* resetForReplay, also run when the process opens the store under another  *)
(* model version.                                                           *)
ResetForReplay(version) ==
  /\ status' = "EMPTY"
  /\ modelVersion' = version
  /\ source' = None
  /\ requiredFrom' = None
  /\ cursor' = None
  /\ headers' = {}
  /\ events' = {}
  /\ snapshots' = {}
  /\ active' = None
  /\ UNCHANGED lastError

(* Seeded fault: the history limit does not spare the new snapshot. *)
PersistWithoutExemption(s) ==
  /\ \E kept \in SUBSET (snapshots \cup {s}) :
       /\ Cardinality(kept) <= MaxHistory
       /\ snapshots' = kept
  /\ status' = "COMPLETE"
  /\ active' = s
  /\ UNCHANGED <<lastError, modelVersion, source, requiredFrom, cursor, headers,
                 events>>

(* The rows that survive the history limit beside the new one are the most  *)
(* recently created; created_at is the wall clock, which can step back, so  *)
(* which of the older rows survive is left open.                            *)
PersistCompleteSnapshot(s) ==
  /\ LET older == snapshots \ {s}
         room  == IF Cardinality(older) < MaxHistory THEN Cardinality(older)
                  ELSE MaxHistory - 1
     IN \E kept \in SUBSET older :
          /\ Cardinality(kept) = room
          /\ snapshots' = kept \cup {s}
  /\ status' = "COMPLETE"
  /\ active' = s
  /\ UNCHANGED <<lastError, modelVersion, source, requiredFrom, cursor, headers,
                 events>>
=============================================================================
