------------------------- MODULE IncrementalIndexer -------------------------
(***************************************************************************)
(* IncrementalPublicIndexer.syncOnce (src/indexer/indexer.ts) over the     *)
(* canonical store, with the chain moving underneath it.                   *)
(*                                                                         *)
(* The indexer is one asynchronous process.  Every `await this.rpc...` is  *)
(* a point where the chain may grow or reorg, the endpoint may fail, or    *)
(* the process may be killed, so each action runs from the answer of one   *)
(* call (or one batch request) to the next await, and every store          *)
(* transaction is a step of its own where a kill can separate it from the  *)
(* next.  pc names the await, or the transaction, the process is at.       *)
(***************************************************************************)
EXTENDS CanonicalStore

CONSTANTS
  DeploymentBlock,  \* config.poolDeploymentBlock, as a height
  MaxRange,         \* maxRangeBlocks
  Window,           \* reorgWindowBlocks
  Horizons,         \* values of requiredFromTimestamp, as heights
  HorizonMovesBack, \* may an attempt ask for an earlier horizon than the one
                    \*   before it (a clock set back, a longer buffer)?
  FaultCodes,       \* codes the endpoint, the provider selection or the
                    \*   freshness validation can fail an attempt with
  MaxFaults,        \* bound: faults and crashes in one behaviour
  ReorgMidSync      \* may the chain reorg while a sync is in flight?

ASSUME IndexerAssumption ==
  /\ DeploymentBlock \in Nat \ {0}
  /\ MaxRange \in Nat \ {0}
  /\ Window \in Nat \ {0, 1}
  /\ Horizons \subseteq Nat
  /\ HorizonMovesBack \in BOOLEAN
  /\ FaultCodes \subseteq ErrorCodes
  /\ MaxFaults \in Nat
  /\ ReorgMidSync \in BOOLEAN

VARIABLES
  pc,          \* the await (or transaction) the process is at
  horizon,     \* requiredFromTimestamp of the running sync, or of the latest
  knownHead,   \* initialHead, then targetHead
  boundary,    \* the source header being established
  scanFrom,    \* first block whose events the range still has to page in
  found,       \* events collected for the range so far
  fetched,     \* headers fetched for the range
  faults       \* faults and crashes so far

localVars == <<pc, horizon, knownHead, boundary, scanFrom, found, fetched>>
vars == <<chainVars, storeVars, localVars, faults>>

Places == {"down", "idle", "again", "head", "recover", "locate", "source",
           "retain", "init", "target", "collect", "headers", "commit", "dense",
           "cursor", "parent", "publish", "persist", "disagree"}

(* The places where the process waits for the endpoint or for the provider   *)
(* selection, or where the freshness validation can reject the snapshot.     *)
Fallible == Places \ {"down", "again", "init", "disagree"}

LocalTypeOK ==
  /\ pc \in Places
  /\ horizon \in Horizons \cup {None}
  /\ knownHead \in Nat
  /\ boundary \in Blocks \cup {None}
  /\ scanFrom \in Nat
  /\ found \subseteq Blocks
  /\ fetched \subseteq Blocks
  /\ faults \in 0..MaxFaults

Init ==
  /\ chain \in [1..DeploymentBlock -> Contents]
  /\ reverts = 0
  /\ StoreInit
  /\ pc = "idle"
  /\ horizon = None
  /\ knownHead = 0
  /\ boundary = None
  /\ scanFrom = 0
  /\ found = {}
  /\ fetched = {}
  /\ faults = 0

---------------------------------------------------------------------------
(* Control *)

(* What an attempt leaves behind is the store, and the time it was made at.  *)
Forget ==
  /\ UNCHANGED horizon
  /\ knownHead' = 0
  /\ boundary' = None
  /\ scanFrom' = 0
  /\ found' = {}
  /\ fetched' = {}

Goto(place) ==
  /\ pc' = place
  /\ UNCHANGED <<horizon, knownHead, boundary, scanFrom, found, fetched>>

(* The catch block of syncOnce, and of runAttempt around it: the attempt     *)
(* ends with its code recorded.                                              *)
Fail(code) ==
  /\ SetStatus("ERROR", code)
  /\ pc' = "idle"
  /\ Forget

(* The code of a getBlock of a number the endpoint does not have. *)
NotFound == "RPC_UNAVAILABLE"

(* First and last block of the range being ingested. *)
RangeStart == IF cursor = None THEN Height(source) ELSE Height(cursor) + 1
RangeEnd   == IF RangeStart + MaxRange - 1 < knownHead
              THEN RangeStart + MaxRange - 1
              ELSE knownHead

(* The head of syncOnce's loop: page in the range after `through`, or finish. *)
NextRange(through, target) ==
  LET start == IF through = None THEN Height(source) ELSE Height(through) + 1
  IN /\ knownHead' = target
     /\ scanFrom' = start
     /\ found' = {}
     /\ fetched' = {}
     /\ pc' = IF start <= target THEN "collect" ELSE "dense"
     /\ UNCHANGED <<horizon, boundary>>

(* The events the range query asks the endpoint for. *)
Selected(b) == Content(b) \in Selectors[modelVersion]

---------------------------------------------------------------------------
(* One sync attempt *)

(* runAttempt dates the horizon from the clock at every attempt. *)
DateHorizon ==
  \E h \in Horizons :
    /\ ~HorizonMovesBack /\ horizon # None => h >= horizon
    /\ horizon' = h

(* syncOnce is called by the supervisor, or calls itself after a reset with  *)
(* the horizon it was given: it marks the store SYNCING.                     *)
StartSync ==
  /\ \/ pc = "idle" /\ DateHorizon
     \/ pc = "again" /\ UNCHANGED horizon
  /\ SetStatus("SYNCING", None)
  /\ pc' = "head"
  /\ UNCHANGED <<knownHead, boundary, scanFrom, found, fetched>>

(* initialHead = await getBlockNumber() *)
ReadHead ==
  /\ pc = "head"
  /\ knownHead' = HeadNumber
  /\ pc' = "recover"
  /\ UNCHANGED <<storeVars, horizon, boundary, scanFrom, found, fetched>>

(* Seeded fault: an orphaned cursor is reported and never rolled back. *)
ReportReorgOnly ==
  /\ pc = "recover"
  /\ IF cursor = None THEN Goto("source") /\ UNCHANGED storeVars
     ELSE IF ~Exists(Height(cursor)) THEN Fail(NotFound)
     ELSE IF ~Live(cursor) THEN Fail("INCONSISTENT_BLOCK_DATA")
     ELSE Goto("source") /\ UNCHANGED storeVars

(* recoverReorg up to its second await: the stored cursor against the chain. *)
CompareCursor ==
  /\ pc = "recover"
  /\ IF cursor = None THEN Goto("source") /\ UNCHANGED storeVars
     ELSE IF ~Exists(Height(cursor)) THEN Fail(NotFound)
     ELSE IF ~Live(cursor) THEN SetStatus("REORGING", None) /\ Goto("locate")
     ELSE IF ~Agrees({Parent(cursor)}) THEN Fail("INCONSISTENT_BLOCK_DATA")
     ELSE Goto("source") /\ UNCHANGED storeVars

(* The rest of recoverReorg: the highest retained header still canonical, or *)
(* a full replay.                                                            *)
LocateAncestor ==
  /\ pc = "locate"
  /\ LET candidates == RecentHeaders(Window)
         matching   == {c \in candidates : Live(c)}
     IN IF \E c \in candidates : ~Exists(Height(c)) THEN Fail(NotFound)
        ELSE /\ IF matching = {}
                THEN ResetForReplay(modelVersion)
                ELSE \E a \in matching :
                       /\ \A c \in matching : Height(c) <= Height(a)
                       /\ RollbackTo(a)
             /\ Goto("source")

(* Source establishment, up to the identity check of the block found; or the *)
(* check that the stored boundary still reaches far enough back.  When it    *)
(* does not, the store is reset and syncOnce calls itself.  The search by    *)
(* timestamp is one reading of the chain.                                    *)
FindSource ==
  /\ pc = "source"
  /\ LET at == IF horizon <= DeploymentBlock \/ knownHead < DeploymentBlock
               THEN DeploymentBlock
               ELSE IF horizon < knownHead THEN horizon ELSE knownHead
     IN IF source # None
        THEN IF requiredFrom > horizon
             THEN ResetForReplay(modelVersion) /\ Goto("again")
             ELSE Goto("target") /\ UNCHANGED storeVars
        ELSE IF ~Exists(DeploymentBlock) \/ ~Exists(at) THEN Fail(NotFound)
        ELSE IF at > horizon THEN Fail("INSUFFICIENT_HISTORY")
        ELSE /\ boundary' = BlockAt(at)
             /\ pc' = "retain"
             /\ UNCHANGED <<storeVars, horizon, knownHead, scanFrom, found, fetched>>

(* retainHeaders([sourceHeader], "source_boundary") *)
RetainSource ==
  /\ pc = "retain"
  /\ IF Agrees({boundary})
     THEN RetainHeaders({boundary}) /\ Goto("init")
     ELSE Fail("INCONSISTENT_BLOCK_DATA")

(* initializeSource, a transaction of its own *)
EstablishSource ==
  /\ pc = "init"
  /\ InitializeSource(boundary, horizon)
  /\ Goto("target")

(* targetHead = await getBlockNumber() *)
ReadTarget ==
  /\ pc = "target"
  /\ UNCHANGED storeVars
  /\ NextRange(cursor, HeadNumber)

(* One page of collectRangeEvents: the events of the blocks scanFrom..last   *)
(* as the endpoint has them now.                                             *)
CollectPage ==
  /\ pc = "collect"
  /\ \E last \in scanFrom..RangeEnd :
       /\ found' = found \cup {BlockAt(n) : n \in
                     {m \in scanFrom..last : Exists(m) /\ Selected(BlockAt(m))}}
       /\ scanFrom' = last + 1
       /\ pc' = IF last = RangeEnd THEN "headers" ELSE "collect"
  /\ UNCHANGED <<storeVars, horizon, knownHead, boundary, fetched>>

(* The blocks buildBatch fetches: the ends of the range, the block before    *)
(* its end, and every block that carries an event.                           *)
RangeNumbers == ({RangeStart, RangeEnd, RangeEnd - 1} \cap Nat)
                  \cup {Height(e) : e \in found}

(* Seeded fault: the first block's parent is not compared with the store. *)
FetchUnlinkedHeaders ==
  /\ pc = "headers"
  /\ IF \E n \in RangeNumbers : ~Exists(n) THEN Fail(NotFound)
     ELSE IF \E e \in found : ~Live(e) THEN Fail("INCONSISTENT_BLOCK_DATA")
     ELSE /\ fetched' = {BlockAt(n) : n \in RangeNumbers}
          /\ pc' = "commit"
          /\ UNCHANGED <<storeVars, horizon, knownHead, boundary, scanFrom, found>>

(* The getBlocks of buildBatch and the checks on its answer: the first block *)
(* extends the stored prior header, and every event names the block the      *)
(* endpoint now has at its number.                                           *)
FetchHeaders ==
  /\ pc = "headers"
  /\ LET prior  == HeaderAt(RangeStart - 1)
         linked == RangeStart > Height(source)
     IN IF linked /\ prior = {} THEN Fail("INDEX_CORRUPT")
        ELSE IF \E n \in RangeNumbers : ~Exists(n) THEN Fail(NotFound)
        ELSE IF \/ linked /\ \E p \in prior : ~Live(p)
                \/ \E e \in found : ~Live(e)
        THEN Fail("INCONSISTENT_BLOCK_DATA")
        ELSE /\ fetched' = {BlockAt(n) : n \in RangeNumbers}
             /\ pc' = "commit"
             /\ UNCHANGED <<storeVars, horizon, knownHead, boundary, scanFrom, found>>

(* The range head is read again, then commitBatch. *)
CommitRange ==
  /\ pc = "commit"
  /\ \E through \in fetched :
       /\ Height(through) = RangeEnd
       /\ IF ~Exists(RangeEnd) THEN Fail(NotFound)
          ELSE IF ~Live(through) \/ ~Agrees(fetched)
          THEN Fail("INCONSISTENT_BLOCK_DATA")
          ELSE /\ CommitBatch(through, fetched, found)
               /\ NextRange(through, knownHead)

(* First block of the dense window that ends at the cursor. *)
WindowStart ==
  IF Height(cursor) - Window + 1 > Height(source)
  THEN Height(cursor) - Window + 1
  ELSE Height(source)

(* Seeded fault: the window is one block short. *)
RetainShortWindow ==
  /\ pc = "dense"
  /\ LET dense == {BlockAt(n) : n \in (WindowStart + 1)..Height(cursor)}
     IN IF cursor = None THEN Goto("cursor") /\ UNCHANGED storeVars
        ELSE IF ~Exists(Height(cursor)) THEN Fail(NotFound)
        ELSE IF ~Agrees(dense) THEN Fail("INCONSISTENT_BLOCK_DATA")
        ELSE RetainHeaders(dense) /\ Goto("cursor")

(* retainDenseCursorWindow *)
RetainWindow ==
  /\ pc = "dense"
  /\ LET numbers == WindowStart..Height(cursor)
         dense   == {BlockAt(n) : n \in numbers}
     IN IF cursor = None THEN Goto("cursor") /\ UNCHANGED storeVars
        ELSE IF \E n \in numbers : ~Exists(n) THEN Fail(NotFound)
        ELSE IF ~Agrees(dense) THEN Fail("INCONSISTENT_BLOCK_DATA")
        ELSE RetainHeaders(dense) /\ Goto("cursor")

(* finalizeSnapshot: the cursor is read again ... *)
ConfirmCursor ==
  /\ pc = "cursor"
  /\ IF cursor = None THEN Fail("INSUFFICIENT_HISTORY")
     ELSE IF ~Exists(Height(cursor)) THEN Fail(NotFound)
     ELSE IF ~Live(cursor) THEN Fail("INCONSISTENT_BLOCK_DATA")
     ELSE Goto("parent") /\ UNCHANGED storeVars

(* ... then its parent ... *)
ConfirmParent ==
  /\ pc = "parent"
  /\ IF ~Exists(Height(cursor) - 1) THEN Fail(NotFound)
     ELSE IF ~Live(Parent(cursor)) THEN Fail("INCONSISTENT_BLOCK_DATA")
     ELSE Goto("publish") /\ UNCHANGED storeVars

(* ... then the head and its parent (as one reading); cursor and parent are  *)
(* retained, whatever the head and its parent turn out to say about them     *)
(* (they can say something when one of them is the cursor or its successor). *)
ConfirmHead ==
  /\ pc = "publish"
  /\ LET retained   == {Parent(cursor), cursor}
         contradict == HeadNumber <= Height(cursor) + 2 /\ ~Live(cursor)
     IN IF HeadNumber < Height(cursor) \/ ~Agrees(retained)
        THEN Fail("INCONSISTENT_BLOCK_DATA")
        ELSE /\ RetainHeaders(retained)
             /\ Goto(IF contradict THEN "disagree" ELSE "persist")

(* The snapshot that loadObservations, blockReferencesForSnapshot and the row *)
(* make up.                                                                  *)
Assembled == [through |-> cursor, source |-> source, events |-> events,
              model |-> modelVersion]

(* The snapshot is assembled from the store: its source header must be       *)
(* retained and its references must agree with the head.  Then               *)
(* persistCompleteSnapshot activates it; recordSyncSuccess writes metrics.   *)
Publish ==
  /\ pc \in {"persist", "disagree"}
  /\ IF source \notin headers THEN Fail("INDEX_CORRUPT")
     ELSE IF pc = "disagree" THEN Fail("INCONSISTENT_BLOCK_DATA")
     ELSE /\ PersistCompleteSnapshot(Assembled)
          /\ pc' = "idle"
          /\ Forget

---------------------------------------------------------------------------
(* Environment *)

(* An RPC call times out or answers an error, the provider selection fails,  *)
(* or the freshness validation rejects the snapshot.                         *)
Fault ==
  /\ pc \in Fallible
  /\ faults < MaxFaults
  /\ faults' = faults + 1
  /\ \E code \in FaultCodes : Fail(code)
  /\ UNCHANGED chainVars

(* The process is killed; the store keeps what its transactions committed. *)
Crash ==
  /\ pc # "down"
  /\ faults < MaxFaults
  /\ faults' = faults + 1
  /\ pc' = "down"
  /\ Forget
  /\ UNCHANGED <<chainVars, storeVars>>

(* A new process opens the store, perhaps configured for another model       *)
(* version (ensureIdentity, ensureModelVersion), whose observation window    *)
(* dates its horizons anew.                                                  *)
Restart ==
  /\ pc = "down"
  /\ pc' = "idle"
  /\ \E v \in Versions :
       IF v = modelVersion THEN UNCHANGED <<storeVars, horizon>>
                           ELSE ResetForReplay(v) /\ horizon' = None
  /\ UNCHANGED <<knownHead, boundary, scanFrom, found, fetched>>
  /\ UNCHANGED <<chainVars, faults>>

ChainGrows ==
  /\ Extend
  /\ UNCHANGED <<storeVars, localVars, faults>>

ChainReorgs ==
  /\ ReorgMidSync \/ pc \in {"idle", "down"}
  /\ Revert
  /\ UNCHANGED <<storeVars, localVars, faults>>

SyncStep ==
  /\ \/ StartSync
     \/ ReadHead
     \/ CompareCursor
     \/ LocateAncestor
     \/ FindSource
     \/ RetainSource
     \/ EstablishSource
     \/ ReadTarget
     \/ CollectPage
     \/ FetchHeaders
     \/ CommitRange
     \/ RetainWindow
     \/ ConfirmCursor
     \/ ConfirmParent
     \/ ConfirmHead
     \/ Publish
  /\ UNCHANGED <<chainVars, faults>>

Next == SyncStep \/ Fault \/ Crash \/ Restart \/ ChainGrows \/ ChainReorgs

Spec == Init /\ [][Next]_vars

(* The supervisor keeps calling syncOnce, the process manager restarts a     *)
(* dead process, and a public chain keeps producing blocks (up to the bound).*)
FairSpec == Spec /\ WF_vars(SyncStep) /\ WF_vars(Restart) /\ WF_vars(ChainGrows)

---------------------------------------------------------------------------
(* Properties *)

(* Every variable has its type. *)
TypeOK == ChainTypeOK /\ StoreTypeOK /\ LocalTypeOK

(* An active snapshot is always one the store still holds and can account    *)
(* for: it was built by the current model version from the current source    *)
(* boundary, its head is retained and is the cursor or an ancestor of it,    *)
(* and its events are exactly the committed events up to that head.  No      *)
(* crash between two transactions, failed attempt, history eviction,         *)
(* rollback, replay or model upgrade leaves a snapshot active that the rest  *)
(* of the database contradicts.                                              *)
ServedIsBacked ==
  active # None =>
    /\ active \in snapshots
    /\ active.source = source
    /\ active.model = modelVersion
    /\ cursor # None
    /\ active.through \in headers
    /\ IsAncestor(active.through, cursor)
    /\ active.events = {e \in events : Height(e) <= Height(active.through)}

(* The retained headers never mix branches: there is one per number, events  *)
(* belong to retained headers (the foreign key), and once a batch has been   *)
(* committed every retained header is the cursor or an ancestor of it, so no *)
(* event row is newer than the cursor or from an orphaned branch.  This      *)
(* holds when the horizon does not move back between two attempts.           *)
StoreIsOneChain ==
  /\ \A g, h \in headers : Height(g) = Height(h) => g = h
  /\ events \subseteq headers
  /\ cursor # None =>
       /\ cursor \in headers
       /\ \A h \in headers : IsAncestor(h, cursor)

(* What a version's query has to return for the blocks of b's history from   *)
(* a's number on.                                                            *)
Expected(a, b, version) ==
  {Ancestor(b, n) : n \in {m \in Height(a)..Height(b) :
                             Content(Ancestor(b, m)) \in Selectors[version]}}

(* The meaning of the cursor: every event of the cursor's own history, from  *)
(* the source boundary through the cursor, is committed and nothing else is. *)
(* Holds across crashes, rollbacks, replays, earlier horizons and model      *)
(* upgrades as long as no reorg lands inside a running attempt.              *)
IndexIsExact == cursor # None => events = Expected(source, cursor, modelVersion)

(* A published snapshot leaves the store with the dense trailing window that *)
(* the next reorg recovery searches: every block of the cursor's history     *)
(* from the window's start through the cursor is retained.                   *)
DenseWhenComplete ==
  status = "COMPLETE" =>
    \A n \in WindowStart..Height(cursor) : Ancestor(cursor, n) \in headers

(* The last block of the cursor's history that is still canonical. *)
ForkHeight ==
  CHOOSE n \in 0..Height(cursor) :
    /\ Live(Ancestor(cursor, n))
    /\ \A m \in 0..Height(cursor) : Live(Ancestor(cursor, m)) => m <= n

(* When the cursor was published and the fork is inside the window,          *)
(* recovery rolls back to the fork point itself: no canonical block is       *)
(* dropped, no orphaned block survives, and there is no full replay.         *)
RecoversToForkPoint ==
  [][ /\ pc = "locate" /\ pc' = "source"
      /\ \E s \in snapshots : s.through = cursor
      /\ ForkHeight >= WindowStart
      => cursor' = Ancestor(cursor, ForkHeight) ]_vars

(* However the chain reorganises and the endpoint fails, the API is in the   *)
(* end served the snapshot of the chain's final head, and keeps being        *)
(* served it.                                                                *)
Converges == <>[](Served # None /\ Served.through = chain)

(* The database implements the service its readers rely on: whatever reorgs, *)
(* rolls back, replays, fails or is upgraded, readers who are served without *)
(* a refusal are served one growing history.                                 *)
Service == INSTANCE SnapshotService WITH served <- Served

ServesOneHistory == Service!Spec

---------------------------------------------------------------------------
(* What the documents say, which the code does not do *)

(* docs/INDEXER.md:109: every selector page from the source boundary through *)
(* the cursor completed; a served snapshot lacks no event of its history.    *)
ServedIsExact ==
  Served # None =>
    Served.events = Expected(Served.source, Served.through, Served.model)

(* docs/REORG_HANDLING.md:34: when no retained header matches, the read      *)
(* model is cleared and replayed; so indexing always gets back to the head.  *)
ReplaysAfterDeepReorg == Converges
=============================================================================
