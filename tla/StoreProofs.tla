----------------------------- MODULE StoreProofs -----------------------------
(***************************************************************************)
(* What the store's rows mean, for every chain, window, range size, fault  *)
(* and crash: the indexer implements SnapshotService, a published snapshot *)
(* leaves a dense window, and, where the requested horizons lie in final   *)
(* history, the rows are one chain, a reorg is rolled back to the fork     *)
(* itself, and the events are exactly those of the cursor's history.       *)
(***************************************************************************)
EXTENDS IndexerProofs, FiniteSets, FiniteSetTheorems

(* A snapshot stays active only under the statuses that readers accept, so   *)
(* what they are served is the active snapshot itself.                       *)
ActiveAllowed == active # None => RetainsActive(status, lastError)

ServiceInv == BackedInv /\ ActiveAllowed

LEMMA ServedIsActive == ServiceInv => Served = active
BY DEF ServiceInv, ActiveAllowed, RetainsActive, Served, BackedInv, RowsInv, ServedIsBacked

---------------------------------------------------------------------------
(* Seen from the store, a step of the indexer is one transaction or none. *)

ActivateCursor ==
  /\ cursor # None
  /\ PersistCompleteSnapshot([through |-> cursor, source |-> source,
                              events |-> events, model |-> modelVersion])

StoreStep ==
  \/ UNCHANGED storeVars
  \/ \E new \in Statuses \ {"ERROR"} : SetStatus(new, None)
  \/ \E code \in ErrorCodes : SetStatus("ERROR", code)
  \/ \E block, required : InitializeSource(block, required)
  \/ \E hs : RetainHeaders(hs)
  \/ \E through, hs, es : CommitBatch(through, hs, es)
  \/ \E ancestor : RollbackTo(ancestor)
  \/ \E version : ResetForReplay(version)
  \/ ActivateCursor

LEMMA NextIsStoreStep == PlaceOK /\ [Next]_vars => StoreStep
<1>. SUFFICES ASSUME PlaceOK, [Next]_vars PROVE StoreStep
  OBVIOUS
<1>f. ASSUME NEW code \in ErrorCodes, Fail(code) PROVE StoreStep
  BY <1>f DEF Fail, StoreStep
<1>. USE DEF NotFound, ErrorCodes, Statuses
<1>1. CASE StartSync \/ ReadHead \/ CompareCursor \/ LocateAncestor
  BY <1>1, <1>f DEF StartSync, ReadHead, CompareCursor, LocateAncestor, StoreStep, storeVars
<1>2. CASE FindSource \/ RetainSource \/ EstablishSource \/ ReadTarget
  BY <1>2, <1>f DEF FindSource, RetainSource, EstablishSource, ReadTarget, StoreStep, storeVars
<1>3. CASE CollectPage \/ FetchHeaders
  BY <1>3, <1>f DEF CollectPage, FetchHeaders, StoreStep, storeVars
<1>4. CASE CommitRange
  BY <1>4, <1>f DEF CommitRange, StoreStep
<1>5. CASE RetainWindow \/ ConfirmCursor \/ ConfirmParent \/ ConfirmHead
  BY <1>5, <1>f DEF RetainWindow, ConfirmCursor, ConfirmParent, ConfirmHead, StoreStep
<1>6. CASE Publish
  <2>1. cursor # None
    BY <1>6 DEF Publish, PlaceOK
  <2>. QED
    BY <1>6, <2>1, <1>f DEF Publish, Assembled, ActivateCursor, StoreStep
<1>7. CASE Fault \/ Crash \/ Restart
  BY <1>7, <1>f, IndexerAssumption DEF Fault, Crash, Restart, StoreStep, storeVars
<1>8. CASE ChainGrows \/ ChainReorgs \/ UNCHANGED vars
  BY <1>8 DEF ChainGrows, ChainReorgs, vars, StoreStep, storeVars
<1>. QED
  BY <1>1, <1>2, <1>3, <1>4, <1>5, <1>6, <1>7, <1>8 DEF Next, SyncStep

LEMMA StoreStepAllowed == ActiveAllowed /\ StoreStep => ActiveAllowed'
BY StoreAssumption
   DEF ActiveAllowed, RetainsActive, Transient, StoreStep, storeVars, SetStatus, InitializeSource,
       RetainHeaders, CommitBatch, RollbackTo, ResetForReplay, ActivateCursor,
       PersistCompleteSnapshot

(* No transaction activates anything but a snapshot of the cursor. *)
LEMMA StoreStepActive ==
  StoreStep => \/ active' \in {active, None}
               \/ ActivateCursor
BY DEF StoreStep, storeVars, SetStatus, InitializeSource, RetainHeaders, CommitBatch,
       RollbackTo, ResetForReplay

---------------------------------------------------------------------------
(* Activating the cursor continues what is active. *)

LEMMA ActivateContinues ==
  ASSUME TypeInv, RowsInv, ActivateCursor
  PROVE  /\ active' # None
         /\ active # None => Service!Continues(active', active)
         /\ active'.events = Service!EventsThrough(active', Height(active'.through))
<1>. DEFINE new == [through |-> cursor, source |-> source,
                    events |-> events, model |-> modelVersion]
<1>1. active' = new
  BY DEF ActivateCursor, PersistCompleteSnapshot
<1>2. new # None
  <2>1. cursor \in Blocks /\ source \in Blocks /\ StoreTypeOK
    BY DEF ActivateCursor, TypeInv, TypeOK, PlaceOK, StoreTypeOK
  <2>2. active' \in Snapshots
    BY <1>1, <2>1 DEF Snapshots, StoreTypeOK
  <2>. QED
    BY <1>1, <2>2, StoreAssumption
<1>3. events = {e \in events : Height(e) <= Height(cursor)}
  BY DEF RowsInv, EventsBelowCursor
<1>4. ASSUME active # None PROVE Service!Continues(new, active)
  <2>1. /\ active.source = source /\ active.model = modelVersion
        /\ IsAncestor(active.through, cursor)
        /\ active.events = {e \in events : Height(e) <= Height(active.through)}
    BY <1>4 DEF RowsInv, ServedIsBacked
  <2>. QED
    BY <2>1 DEF Service!Continues, Service!EventsThrough, Service!IsAncestor, Service!Ancestor,
                Service!Height, IsAncestor, Ancestor, Height
<1>5. new.events = Service!EventsThrough(new, Height(new.through))
  BY <1>3 DEF Service!EventsThrough, Service!Height, Height
<1>. QED
  BY <1>1, <1>2, <1>4, <1>5

LEMMA InitServed == Init => Service!Init /\ ServiceInv
<1>. SUFFICES ASSUME Init PROVE Service!Init /\ ServiceInv
  OBVIOUS
<1>1. BackedInv /\ active = None
  BY InitBacked DEF Init, StoreInit
<1>2. ServiceInv
  BY <1>1 DEF ServiceInv, ActiveAllowed
<1>. QED
  BY <1>1, <1>2, ServedIsActive DEF Service!Init

LEMMA NextServed == ServiceInv /\ [Next]_vars => ServiceInv' /\ [Service!Next]_Served
<1>. SUFFICES ASSUME ServiceInv, [Next]_vars PROVE ServiceInv' /\ [Service!Next]_Served
  OBVIOUS
<1>1. StoreStep
  BY NextIsStoreStep DEF ServiceInv, BackedInv, TypeInv
<1>2. ServiceInv'
  BY <1>1, NextBacked, StoreStepAllowed DEF ServiceInv
<1>3. Served = active
  BY ServedIsActive
<1>4. Served' = active'
  BY <1>2 DEF ServiceInv, ActiveAllowed, RetainsActive, Served, BackedInv, RowsInv,
              ServedIsBacked
<1>5. CASE active' = active
  BY <1>2, <1>3, <1>4, <1>5
<1>6. CASE active' = None
  BY <1>2, <1>4, <1>6 DEF Service!Next, Service!Withdraw
<1>7. CASE ActivateCursor
  <2>1. /\ Served' # None
        /\ Served # None => Service!Continues(Served', Served)
        /\ Served'.events = Service!EventsThrough(Served', Height(Served'.through))
    BY <1>3, <1>4, <1>7, ActivateContinues DEF ServiceInv, BackedInv
  <2>. QED
    BY <1>2, <2>1 DEF Service!Next, Service!Publish, Service!Height, Height
<1>. QED
  BY <1>1, <1>5, <1>6, <1>7, StoreStepActive

(* The refinement: every behaviour of the indexer and its database, seen     *)
(* through what loadCompleteSnapshot answers, is a behaviour of the service. *)
THEOREM Implements == Spec => ServesOneHistory
BY InitServed, NextServed, PTL DEF Spec, ServesOneHistory, Service!Spec
---------------------------------------------------------------------------
(* Blocks against the canonical chain *)

LEMMA CanonicalBlock ==
  ASSUME chain \in Blocks, NEW n \in 0..HeadNumber
  PROVE  BlockAt(n) \in Blocks /\ Height(BlockAt(n)) = n /\ Live(BlockAt(n))
<1>1. BlockAt(n) \in Blocks /\ Height(BlockAt(n)) = n
  BY AncestorType DEF BlockAt, HeadNumber
<1>. QED
  BY <1>1 DEF Live, IsAncestor, BlockAt, HeadNumber

(* The ancestors of a canonical block are the canonical blocks. *)
LEMMA CanonicalHistory ==
  ASSUME chain \in Blocks, NEW b \in Blocks, Live(b)
  PROVE  /\ Height(b) \in 0..HeadNumber /\ BlockAt(Height(b)) = b
         /\ \A n \in 0..Height(b) : BlockAt(n) = Ancestor(b, n) /\ Live(Ancestor(b, n))
<1>1. Height(b) \in 0..HeadNumber /\ BlockAt(Height(b)) = b
  BY DEF Live, IsAncestor, BlockAt, HeadNumber, Blocks, Height
<1>2. ASSUME NEW n \in 0..Height(b)
      PROVE  BlockAt(n) = Ancestor(b, n) /\ Live(Ancestor(b, n))
  <2>1. BlockAt(n) = Ancestor(b, n)
    BY AncestorsOf DEF Live, BlockAt
  <2>2. n \in 0..HeadNumber
    BY <1>1 DEF HeadNumber, Height, Blocks
  <2>. QED
    BY <2>1, <2>2, CanonicalBlock
<1>. QED
  BY <1>1, <1>2

(* The blocks retainDenseCursorWindow retains are the cursor's own history:  *)
(* the last of them agrees with the retained cursor, so it is the cursor.    *)
LEMMA WindowIsHistory ==
  ASSUME chain \in Blocks, cursor \in Blocks, cursor \in headers, source \in Blocks,
         \A n \in WindowStart..Height(cursor) : Exists(n),
         Agrees({BlockAt(n) : n \in WindowStart..Height(cursor)}),
         NEW n \in WindowStart..Height(cursor)
  PROVE  /\ n \in 0..Height(cursor)
         /\ BlockAt(n) = Ancestor(cursor, n)
         /\ IsAncestor(BlockAt(n), cursor)
<1>1. Height(cursor) \in Nat /\ WindowStart \in Nat
  BY IndexerAssumption DEF WindowStart, Blocks, Height
<1>2. Height(cursor) \in WindowStart..Height(cursor) /\ n \in 0..Height(cursor)
  BY <1>1
<1>3. Height(cursor) \in 0..HeadNumber
  BY <1>2 DEF Exists
<1>4. Height(BlockAt(Height(cursor))) = Height(cursor)
  BY <1>3, CanonicalBlock
<1>5. BlockAt(Height(cursor)) = cursor
  BY <1>2, <1>4 DEF Agrees, HeaderAt
<1>6. Live(cursor)
  BY <1>3, <1>5, CanonicalBlock
<1>7. BlockAt(n) = Ancestor(cursor, n)
  BY <1>2, <1>6, CanonicalHistory
<1>. QED
  BY <1>2, <1>7, AncestorType DEF IsAncestor

---------------------------------------------------------------------------
(* The dense window *)

(* Every block of b's history from the window's start through b is retained. *)
DenseUpTo(b) ==
  \A n \in 0..Height(b) :
    Height(source) <= n /\ Height(b) - Window < n => Ancestor(b, n) \in headers

(* A stored snapshot keeps its window for as long as it is stored: a         *)
(* rollback drops the snapshots above the ancestor and no header below it.   *)
DenseSnapshots == \A s \in snapshots : source # None /\ DenseUpTo(s.through)

(* Once the window is retained it stays so while the cursor is checked, and  *)
(* a store says COMPLETE only between the publication and the next attempt.  *)
DensePlaces ==
  /\ status = "COMPLETE" => pc \in {"idle", "down"} /\ cursor # None /\ DenseUpTo(cursor)
  /\ pc \in {"cursor", "parent", "publish", "persist", "disagree"} /\ cursor # None
       => DenseUpTo(cursor)

DenseInv == BackedInv /\ DenseSnapshots /\ DensePlaces

LEMMA KeepDense ==
  ASSUME DenseSnapshots, source' = source, headers \subseteq headers',
         snapshots' \subseteq snapshots
  PROVE  DenseSnapshots'
BY DEF DenseSnapshots, DenseUpTo

LEMMA RollbackDense ==
  ASSUME StoreTypeOK, DenseSnapshots, NEW ancestor, RollbackTo(ancestor)
  PROVE  DenseSnapshots'
<1>. SUFFICES ASSUME NEW s \in snapshots', NEW n \in 0..Height(s.through),
                     Height(source) <= n, Height(s.through) - Window < n
              PROVE  source # None /\ Ancestor(s.through, n) \in headers'
  BY DEF RollbackTo, DenseSnapshots, DenseUpTo
<1>1. /\ s \in snapshots /\ s.through \in Blocks /\ ancestor \in Blocks
      /\ Height(s.through) <= Height(ancestor)
  BY DEF RollbackTo, StoreTypeOK, Snapshots
<1>2. source # None /\ Ancestor(s.through, n) \in headers
  BY <1>1 DEF DenseSnapshots, DenseUpTo
<1>3. Height(Ancestor(s.through, n)) <= Height(ancestor)
  BY <1>1, AncestorType DEF Blocks, Height
<1>. QED
  BY <1>2, <1>3 DEF RollbackTo

LEMMA ResetDense ==
  ASSUME NEW version, ResetForReplay(version)
  PROVE  DenseSnapshots' /\ status' = "EMPTY" /\ cursor' = None
BY DEF ResetForReplay, DenseSnapshots

LEMMA InitDense == Init => DenseInv
BY InitBacked DEF Init, StoreInit, DenseInv, DenseSnapshots, DensePlaces

(* One step per action: only RetainWindow makes the window dense and only    *)
(* Publish stores a snapshot and says COMPLETE.                              *)
LEMMA NextDense == DenseInv /\ [Next]_vars => DenseInv'
<1>. SUFFICES ASSUME DenseInv, [Next]_vars PROVE DenseSnapshots' /\ DensePlaces'
  BY NextBacked DEF DenseInv
<1>. USE ChainAssumption, StoreAssumption, IndexerAssumption
<1>a. /\ ChainTypeOK /\ StoreTypeOK /\ LocalTypeOK /\ PlaceOK /\ RowsInv
      /\ DenseSnapshots /\ DensePlaces
  BY DEF DenseInv, BackedInv, TypeInv, TypeOK
<1>b. chain \in Blocks
  BY <1>a DEF ChainTypeOK
<1>d. DEFINE checking == {"cursor", "parent", "publish", "persist", "disagree"}
<1>f. ASSUME NEW code, Fail(code) PROVE DenseSnapshots' /\ DensePlaces'
  BY <1>f, <1>a, KeepDense DEF Fail, SetStatus, DensePlaces
<1>g. ASSUME UNCHANGED storeVars, pc \notin {"idle", "down"} \/ pc' \in {"idle", "down"},
             pc' \in checking => pc \in checking \/ cursor = None
      PROVE  DenseSnapshots' /\ DensePlaces'
  BY <1>g, <1>a, KeepDense DEF storeVars, DensePlaces, DenseUpTo
<1>h. ASSUME UNCHANGED <<storeVars, localVars>> PROVE DenseSnapshots' /\ DensePlaces'
  BY <1>h, <1>a, KeepDense DEF storeVars, localVars, DensePlaces, DenseUpTo
<1>1. CASE SyncStep
  <2>1. CASE StartSync
    BY <2>1, <1>a, KeepDense DEF StartSync, SetStatus, DensePlaces
  <2>2. CASE ReadHead
    BY <2>2, <1>g DEF ReadHead
  <2>3. CASE CompareCursor
    <3>1. CASE SetStatus("REORGING", None) /\ Goto("locate")
      BY <3>1, <1>a, KeepDense DEF SetStatus, Goto, DensePlaces
    <3>. QED
      BY <2>3, <3>1, <1>f, <1>g DEF CompareCursor, Goto
  <2>4. CASE LocateAncestor
    <3>1. ASSUME NEW a, RollbackTo(a), Goto("source")
          PROVE  DenseSnapshots' /\ DensePlaces'
      BY <3>1, <1>a, RollbackDense DEF RollbackTo, Goto, DensePlaces
    <3>2. ASSUME ResetForReplay(modelVersion), Goto("source")
          PROVE  DenseSnapshots' /\ DensePlaces'
      BY <3>2, ResetDense DEF Goto, DensePlaces
    <3>. QED
      BY <2>4, <3>1, <3>2, <1>f DEF LocateAncestor
  <2>5. CASE FindSource
    <3>1. ASSUME ResetForReplay(modelVersion), Goto("again")
          PROVE  DenseSnapshots' /\ DensePlaces'
      BY <3>1, ResetDense DEF Goto, DensePlaces
    <3>. QED
      BY <2>5, <3>1, <1>f, <1>g DEF FindSource, Goto
  <2>6. CASE RetainSource
    <3>1. ASSUME RetainHeaders({boundary}), Goto("init")
          PROVE  DenseSnapshots' /\ DensePlaces'
      BY <2>6, <3>1, <1>a, KeepDense DEF RetainSource, RetainHeaders, Goto, DensePlaces
    <3>. QED
      BY <2>6, <3>1, <1>f DEF RetainSource
  <2>7. CASE EstablishSource
    <3>1. snapshots = {}
      BY <2>7, <1>a DEF EstablishSource, PlaceOK, DenseSnapshots
    <3>. QED
      BY <2>7, <3>1, <1>a
         DEF EstablishSource, InitializeSource, Goto, DenseSnapshots, DensePlaces
  <2>8. CASE ReadTarget
    BY <2>8, <1>g DEF ReadTarget, NextRange
  <2>9. CASE CollectPage
    BY <2>9, <1>g DEF CollectPage
  <2>10. CASE FetchHeaders
    BY <2>10, <1>f, <1>g DEF FetchHeaders
  <2>11. CASE CommitRange
    <3>1. ASSUME NEW through, CommitBatch(through, fetched, found), NextRange(through, knownHead)
          PROVE  DenseSnapshots' /\ DensePlaces'
      BY <3>1, <1>a, KeepDense DEF CommitBatch, NextRange, DensePlaces
    <3>. QED
      BY <2>11, <3>1, <1>f DEF CommitRange
  <2>12. CASE RetainWindow
    <3>. DEFINE dense == {BlockAt(n) : n \in WindowStart..Height(cursor)}
    <3>1. CASE UNCHANGED storeVars /\ Goto("cursor") /\ cursor = None
      BY <2>12, <3>1, <1>g DEF RetainWindow, Goto
    <3>2. CASE /\ cursor # None
               /\ \A n \in WindowStart..Height(cursor) : Exists(n)
               /\ RetainHeaders(dense)
               /\ Goto("cursor")
      <4>1. /\ cursor \in Blocks /\ cursor \in headers /\ source \in Blocks
            /\ Height(cursor) \in Nat /\ Height(source) \in Nat
        BY <3>2, <1>a DEF StoreTypeOK, RowsInv, CursorRetained, PlaceOK, Blocks, Height
      <4>2. ASSUME NEW n \in 0..Height(cursor), Height(source) <= n, Height(cursor) - Window < n
            PROVE  Ancestor(cursor, n) \in headers'
        <5>1. n \in WindowStart..Height(cursor)
          BY <4>1, <4>2 DEF WindowStart
        <5>2. Agrees(dense)
          BY <3>2 DEF RetainHeaders
        <5>3. BlockAt(n) = Ancestor(cursor, n)
          BY <3>2, <4>1, <5>1, <5>2, <1>b, WindowIsHistory
        <5>. QED
          BY <3>2, <5>1, <5>3 DEF RetainHeaders
      <4>3. DenseUpTo(cursor)' /\ cursor' = cursor
        BY <3>2, <4>2 DEF RetainHeaders, DenseUpTo
      <4>. QED
        BY <2>12, <3>2, <4>3, <1>a, KeepDense
           DEF RetainWindow, RetainHeaders, Goto, DensePlaces
    <3>. QED
      BY <2>12, <3>1, <3>2, <1>f DEF RetainWindow
  <2>13. CASE ConfirmCursor
    BY <2>13, <1>f, <1>g DEF ConfirmCursor, Goto
  <2>14. CASE ConfirmParent
    BY <2>14, <1>f, <1>g DEF ConfirmParent, Goto
  <2>15. CASE ConfirmHead
    <3>1. ASSUME RetainHeaders({Parent(cursor), cursor}), pc' \in {"disagree", "persist"}
          PROVE  DenseSnapshots' /\ DensePlaces'
      <4>1. cursor' = cursor /\ DenseUpTo(cursor)'
        BY <2>15, <3>1, <1>a DEF ConfirmHead, RetainHeaders, DensePlaces, DenseUpTo, PlaceOK
      <4>. QED
        BY <2>15, <3>1, <4>1, <1>a, KeepDense DEF ConfirmHead, RetainHeaders, DensePlaces
    <3>. QED
      BY <2>15, <3>1, <1>f DEF ConfirmHead, Goto
  <2>16. CASE Publish
    <3>1. cursor # None /\ source # None /\ DenseUpTo(cursor)
      BY <2>16, <1>a DEF Publish, PlaceOK, DensePlaces
    <3>2. ASSUME PersistCompleteSnapshot(Assembled), pc' = "idle"
          PROVE  DenseSnapshots' /\ DensePlaces'
      <4>1. /\ snapshots' \subseteq snapshots \cup {Assembled}
            /\ UNCHANGED <<source, cursor, headers>>
        BY <3>2 DEF PersistCompleteSnapshot
      <4>2. Assembled.through = cursor
        BY DEF Assembled
      <4>. QED
        BY <3>1, <3>2, <4>1, <4>2, <1>a DEF DenseSnapshots, DenseUpTo, DensePlaces
    <3>. QED
      BY <2>16, <3>2, <1>f DEF Publish
  <2>. QED
    BY <1>1, <2>1, <2>2, <2>3, <2>4, <2>5, <2>6, <2>7, <2>8, <2>9, <2>10, <2>11,
       <2>12, <2>13, <2>14, <2>15, <2>16 DEF SyncStep
<1>2. CASE Fault
  BY <1>2, <1>f DEF Fault
<1>3. CASE Crash
  BY <1>3, <1>g DEF Crash
<1>4. CASE Restart
  <2>1. ASSUME NEW v, ResetForReplay(v), pc' = "idle"
        PROVE  DenseSnapshots' /\ DensePlaces'
    BY <2>1, ResetDense DEF DensePlaces
  <2>. QED
    BY <1>4, <2>1, <1>g DEF Restart
<1>5. CASE ChainGrows
  BY <1>5, <1>h DEF ChainGrows
<1>6. CASE ChainReorgs
  BY <1>6, <1>h DEF ChainReorgs
<1>7. CASE UNCHANGED vars
  BY <1>7, <1>h DEF vars
<1>. QED
  BY <1>1, <1>2, <1>3, <1>4, <1>5, <1>6, <1>7 DEF Next

LEMMA DenseInvariant == Spec => []DenseInv
BY InitDense, NextDense, PTL DEF Spec

(* DenseWhenComplete for every window and every interleaving of attempts,    *)
(* reorgs, faults and kills: whenever the store says COMPLETE, the trailing  *)
(* window that the next recoverReorg searches is retained in full.           *)
THEOREM Dense == Spec => []DenseWhenComplete
<1>1. DenseInv => DenseWhenComplete
  <2>. SUFFICES ASSUME DenseInv, status = "COMPLETE",
                       NEW n \in WindowStart..Height(cursor)
                PROVE  Ancestor(cursor, n) \in headers
    BY DEF DenseWhenComplete
  <2>1. /\ cursor \in Blocks /\ source \in Blocks /\ DenseUpTo(cursor)
        /\ Height(cursor) \in Nat /\ Height(source) \in Nat
    BY DEF DenseInv, DensePlaces, BackedInv, TypeInv, TypeOK, StoreTypeOK, PlaceOK, Blocks, Height
  <2>2. /\ n \in 0..Height(cursor)
        /\ Height(source) <= n /\ Height(cursor) - Window < n
    BY <2>1, IndexerAssumption DEF WindowStart
  <2>. QED
    BY <2>1, <2>2 DEF DenseUpTo
<1>. QED
  BY DenseInvariant, <1>1, PTL
---------------------------------------------------------------------------
(* Final history *)

(* The requested windows start in final history: in the source the boundary  *)
(* is weeks behind the head.  Without it a reorg can remove the boundary the *)
(* rows start from, and neither the shape of the rows nor the events survive *)
(* (TLC shows both for small instances).                                     *)
HorizonsAreFinal == \A h \in Horizons : h <= Finalized

(* b is on chain c and no reorg removes it; the part of b's history that no  *)
(* reorg removes is on chain c.                                              *)
FinalOn(c, b)    == IsAncestor(b, c) /\ Height(b) <= Finalized
GroundedOn(c, b) ==
  \A n \in 0..Height(b) : n <= Finalized => IsAncestor(Ancestor(b, n), c)

(* Final blocks stay final, whether the chain grows or reorgs. *)
LEMMA FinalStays ==
  ASSUME chain \in Blocks, Extend \/ Revert \/ UNCHANGED chain,
         NEW b \in Blocks, FinalOn(chain, b)
  PROVE  FinalOn(chain', b)
<1>. USE ChainAssumption
<1>1. CASE Extend
  BY <1>1, AppendedAncestry, AncestryIsTransitive DEF Extend, FinalOn
<1>2. CASE Revert
  <2>1. PICK n \in Finalized..(HeadNumber - 1) : chain' = BlockAt(n)
    BY <1>2 DEF Revert
  <2>2. n \in Height(b)..HeadNumber /\ Live(b)
    BY <2>1 DEF FinalOn, Live, HeadNumber, Blocks, Height
  <2>. QED
    BY <2>1, <2>2, LiveIsAncestor DEF FinalOn
<1>. QED
  BY <1>1, <1>2

LEMMA GroundedStays ==
  ASSUME chain \in Blocks, Extend \/ Revert \/ UNCHANGED chain,
         NEW b \in Blocks, GroundedOn(chain, b)
  PROVE  GroundedOn(chain', b)
<1>. SUFFICES ASSUME NEW n \in 0..Height(b), n <= Finalized
              PROVE  IsAncestor(Ancestor(b, n), chain')
  BY DEF GroundedOn
<1>1. Ancestor(b, n) \in Blocks /\ Height(Ancestor(b, n)) = n
  BY AncestorType
<1>2. FinalOn(chain, Ancestor(b, n))
  BY <1>1 DEF GroundedOn, FinalOn
<1>. QED
  BY <1>1, <1>2, FinalStays DEF FinalOn

LEMMA LiveIsGrounded ==
  ASSUME chain \in Blocks, NEW b \in Blocks, Live(b)
  PROVE  GroundedOn(chain, b)
BY CanonicalHistory DEF GroundedOn, Live

(* A final block not above a grounded one is in the grounded one's history. *)
LEMMA FinalIsAncestor ==
  ASSUME chain \in Blocks, NEW g \in Blocks, NEW b \in Blocks,
         FinalOn(chain, g), GroundedOn(chain, b), Height(g) <= Height(b)
  PROVE  IsAncestor(g, b)
<1>1. Height(g) \in 0..Height(b)
  BY DEF Blocks, Height
<1>2. Ancestor(b, Height(g)) \in Blocks /\ Height(Ancestor(b, Height(g))) = Height(g)
  BY <1>1, AncestorType
<1>3. IsAncestor(Ancestor(b, Height(g)), chain)
  BY <1>1 DEF GroundedOn, FinalOn
<1>4. Ancestor(b, Height(g)) = g
  BY <1>2, <1>3, AncestorsAgree DEF FinalOn
<1>. QED
  BY <1>4 DEF IsAncestor

(* Blocks of different numbers in an interval are finitely many. *)
LEMMA OnePerNumberFinite ==
  ASSUME NEW hs \in SUBSET Blocks, OnePerNumber(hs), NEW m \in Int, NEW n \in Int,
         \A h \in hs : Height(h) \in m..n
  PROVE  IsFiniteSet(hs) /\ Cardinality(hs) <= IF m > n THEN 0 ELSE n - m + 1
<1>. DEFINE number == [h \in hs |-> Height(h)]
<1>1. number \in Injection(hs, m..n)
  BY DEF Injection, IsInjective, OnePerNumber
<1>. QED
  BY <1>1, FS_Injection, FS_Interval

---------------------------------------------------------------------------
(* The rows are one chain, but for final headers *)

SourceFinal == source # None => FinalOn(chain, source) /\ source \in headers

HeadersSettled ==
  /\ events \subseteq headers
  /\ cursor = None => \A g \in headers : FinalOn(chain, g)
  /\ cursor # None => /\ GroundedOn(chain, cursor)
                      /\ \A g \in headers : IsAncestor(g, cursor) \/ FinalOn(chain, g)

RowsSettled == SourceFinal /\ HeadersSettled

(* What the process is about to write: a final boundary, a batch whose       *)
(* headers are the history of its end; and it looks for a common ancestor    *)
(* only of a cursor above the final history.                                 *)
PlacesSettled ==
  /\ pc \notin {"down", "idle"} => horizon \in Horizons
  /\ pc \in {"retain", "init"} => FinalOn(chain, boundary)
  /\ pc = "init" => boundary \in headers
  /\ pc = "locate" => Height(cursor) > Finalized
  /\ pc = "commit" =>
       /\ found \subseteq fetched
       /\ \A t \in fetched : Height(t) = RangeEnd =>
            GroundedOn(chain, t) /\ \A h \in fetched : IsAncestor(h, t)

ChainInv == HorizonsAreFinal /\ BackedInv /\ RowsSettled /\ PlacesSettled

(* While a common ancestor is looked for, every retained header is one of    *)
(* the orphaned cursor's ancestors.                                          *)
LEMMA LocateOnOneChain ==
  ASSUME ChainInv, pc = "locate"
  PROVE  /\ cursor \in Blocks /\ headers \subseteq Blocks
         /\ \A g \in headers : IsAncestor(g, cursor)
<1>1. /\ chain \in Blocks /\ cursor # None /\ cursor \in Blocks /\ headers \subseteq Blocks
      /\ Height(cursor) > Finalized
  BY DEF ChainInv, BackedInv, TypeInv, TypeOK, ChainTypeOK, StoreTypeOK, PlaceOK, PlacesSettled
<1>2. ASSUME NEW g \in headers, FinalOn(chain, g) PROVE IsAncestor(g, cursor)
  <2>1. Height(g) <= Height(cursor)
    BY <1>1, <1>2, ChainAssumption DEF FinalOn, Blocks, Height
  <2>. QED
    BY <1>1, <1>2, <2>1, FinalIsAncestor DEF ChainInv, RowsSettled, HeadersSettled
<1>. QED
  BY <1>1, <1>2 DEF ChainInv, RowsSettled, HeadersSettled

(* The retained headers are finitely many. *)
LEMMA HeadersFinite ==
  ASSUME ChainInv
  PROVE  IsFiniteSet(headers)
<1>1. headers \in SUBSET Blocks /\ OnePerNumber(headers) /\ cursor \in Blocks \cup {None}
  BY DEF ChainInv, BackedInv, TypeInv, TypeOK, StoreTypeOK, RowsInv, HeadersUnique
<1>2. Finalized \in Nat /\ \A b \in Blocks : Height(b) \in Nat
  BY ChainAssumption DEF Blocks, Height
<1>3. CASE cursor = None
  <2>1. \A h \in headers : Height(h) \in 0..Finalized
    BY <1>1, <1>2, <1>3 DEF ChainInv, RowsSettled, HeadersSettled, FinalOn
  <2>. QED
    BY <1>1, <1>2, <2>1, OnePerNumberFinite
<1>4. CASE cursor # None
  <2>1. \A h \in headers : Height(h) \in 0..(Height(cursor) + Finalized)
    BY <1>1, <1>2, <1>4 DEF ChainInv, RowsSettled, HeadersSettled, FinalOn, IsAncestor
  <2>2. Height(cursor) + Finalized \in Int
    BY <1>1, <1>2, <1>4
  <2>. QED
    BY <1>1, <2>1, <2>2, OnePerNumberFinite
<1>. QED
  BY <1>3, <1>4

LEMMA SameRowsSettled ==
  ASSUME RowsSettled, UNCHANGED <<chain, source, cursor, headers, events>>
  PROVE  RowsSettled'
BY DEF RowsSettled, SourceFinal, HeadersSettled

LEMMA ResetSettled ==
  ASSUME NEW version, ResetForReplay(version)
  PROVE  RowsSettled'
BY DEF ResetForReplay, RowsSettled, SourceFinal, HeadersSettled

LEMMA RetainSettled ==
  ASSUME RowsSettled, NEW hs, RetainHeaders(hs), UNCHANGED chain,
         \A h \in hs : IF cursor = None THEN FinalOn(chain, h) ELSE IsAncestor(h, cursor)
  PROVE  RowsSettled'
BY DEF RetainHeaders, RowsSettled, SourceFinal, HeadersSettled

LEMMA CommitSettled ==
  ASSUME StoreTypeOK, RowsSettled, UNCHANGED chain, source # None,
         NEW through \in Blocks, NEW hs \in SUBSET Blocks, NEW es \in SUBSET hs,
         CommitBatch(through, hs, es),
         GroundedOn(chain, through),
         \A h \in hs : IsAncestor(h, through),
         cursor # None => IsAncestor(cursor, through)
  PROVE  RowsSettled'
<1>1. through # None
  BY StoreAssumption
<1>2. ASSUME NEW g \in headers
      PROVE  IsAncestor(g, through) \/ FinalOn(chain, g)
  <2>1. CASE cursor = None
    BY <2>1 DEF RowsSettled, HeadersSettled
  <2>2. CASE cursor # None /\ IsAncestor(g, cursor)
    BY <2>2, AncestryIsTransitive DEF StoreTypeOK
  <2>. QED
    BY <2>1, <2>2 DEF RowsSettled, HeadersSettled
<1>. QED
  BY <1>1, <1>2 DEF CommitBatch, RowsSettled, SourceFinal, HeadersSettled

(* recoverReorg never rolls back below the source boundary: the boundary's   *)
(* own header is retained and canonical, and it is among the searched        *)
(* headers whenever a lower one is.                                          *)
LEMMA RollbackSettled ==
  ASSUME ChainInv, pc = "locate", UNCHANGED chain, NEW a, RollbackTo(a),
         a \in RecentHeaders(Window), Live(a),
         \A b \in RecentHeaders(Window) : Live(b) => Height(b) <= Height(a)
  PROVE  RowsSettled' /\ Height(source) <= Height(a) /\ IsAncestor(a, cursor)
<1>1. /\ chain \in Blocks /\ headers \subseteq Blocks /\ cursor \in Blocks /\ source \in Blocks
      /\ a \in headers /\ a \in Blocks /\ a # None
      /\ \A g \in headers : IsAncestor(g, cursor)
      /\ \A b \in Blocks : Height(b) \in Nat
  BY LocateOnOneChain, StoreAssumption
     DEF ChainInv, BackedInv, TypeInv, TypeOK, ChainTypeOK, StoreTypeOK, PlaceOK, RollbackTo,
         Blocks, Height
<1>2. source \in headers /\ FinalOn(chain, source) /\ Live(source)
  BY <1>1, StoreAssumption DEF ChainInv, RowsSettled, SourceFinal, FinalOn, Live
<1>3. Height(source) <= Height(a)
  <2>. SUFFICES ASSUME Height(a) < Height(source) PROVE FALSE
    BY <1>1
  <2>. DEFINE aboveSource == {g \in headers : Height(g) > Height(source)}
              above       == {g \in headers : Height(g) > Height(a)}
  <2>1. aboveSource \in SUBSET above
    BY <1>1
  <2>2. IsFiniteSet(above)
    BY HeadersFinite, FS_Subset
  <2>3. Cardinality(aboveSource) <= Cardinality(above)
    BY <2>1, <2>2, FS_Subset
  <2>4. Cardinality(above) < Window
    BY DEF RecentHeaders
  <2>5. Cardinality(aboveSource) \in Nat /\ Cardinality(above) \in Nat
    BY <2>1, <2>2, FS_Subset, FS_CardinalityType
  <2>6. Cardinality(aboveSource) < Window
    BY <2>3, <2>4, <2>5, IndexerAssumption
  <2>7. source \in RecentHeaders(Window)
    BY <1>2, <2>6 DEF RecentHeaders
  <2>. QED
    BY <1>1, <1>2, <2>7
<1>4. GroundedOn(chain, a)
  BY <1>1, LiveIsGrounded
<1>5. ASSUME NEW g \in headers, Height(g) <= Height(a) PROVE IsAncestor(g, a)
  BY <1>1, <1>5, AncestorsNest
<1>6. SourceFinal'
  BY <1>1, <1>2, <1>3 DEF RollbackTo, SourceFinal
<1>7. HeadersSettled'
  BY <1>1, <1>4, <1>5 DEF RollbackTo, HeadersSettled, ChainInv, RowsSettled
<1>. QED
  BY <1>1, <1>3, <1>6, <1>7 DEF RowsSettled
LEMMA InitChain == HorizonsAreFinal /\ Init => ChainInv
BY InitBacked
   DEF Init, StoreInit, ChainInv, RowsSettled, SourceFinal, HeadersSettled, PlacesSettled

(* The environment moves the chain and nothing else. *)
LEMMA ChainMovesSettled ==
  ASSUME ChainInv, Extend \/ Revert \/ UNCHANGED chain, UNCHANGED <<storeVars, localVars>>
  PROVE  RowsSettled' /\ PlacesSettled'
<1>a. /\ chain \in Blocks /\ headers \subseteq Blocks /\ fetched \subseteq Blocks
      /\ source \in Blocks \cup {None} /\ cursor \in Blocks \cup {None}
      /\ pc \in {"retain", "init"} => boundary \in Blocks
  BY DEF ChainInv, BackedInv, TypeInv, TypeOK, ChainTypeOK, StoreTypeOK, LocalTypeOK, PlaceOK
<1>b. ASSUME NEW b \in Blocks
      PROVE  /\ FinalOn(chain, b) => FinalOn(chain', b)
             /\ GroundedOn(chain, b) => GroundedOn(chain', b)
  BY <1>a, FinalStays, GroundedStays
<1>1. SourceFinal'
  BY <1>a, <1>b DEF ChainInv, RowsSettled, SourceFinal, storeVars
<1>2. HeadersSettled'
  BY <1>a, <1>b DEF ChainInv, RowsSettled, HeadersSettled, storeVars
<1>3. RangeEnd' = RangeEnd
  BY DEF RangeEnd, RangeStart, storeVars, localVars
<1>4. pc \in {"retain", "init"} => FinalOn(chain', boundary)
  BY <1>a, <1>b DEF ChainInv, PlacesSettled
<1>5. pc = "commit" =>
        \A t \in fetched : Height(t) = RangeEnd =>
          GroundedOn(chain', t) /\ \A h \in fetched : IsAncestor(h, t)
  BY <1>a, <1>b DEF ChainInv, PlacesSettled
<1>6. PlacesSettled'
  BY <1>3, <1>4, <1>5 DEF ChainInv, PlacesSettled, storeVars, localVars
<1>. QED
  BY <1>1, <1>2, <1>6 DEF RowsSettled

(* One step per action. *)
LEMMA NextChain == ChainInv /\ [Next]_vars => ChainInv'
<1>. SUFFICES ASSUME ChainInv, [Next]_vars PROVE RowsSettled' /\ PlacesSettled'
  BY NextBacked DEF ChainInv, HorizonsAreFinal
<1>. USE ChainAssumption, StoreAssumption, IndexerAssumption
<1>a. /\ ChainTypeOK /\ StoreTypeOK /\ LocalTypeOK /\ PlaceOK /\ RowsInv /\ RangeOK /\ FetchedOK
      /\ RowsSettled /\ PlacesSettled /\ HorizonsAreFinal
  BY DEF ChainInv, BackedInv, TypeInv, TypeOK
<1>b. /\ chain \in Blocks /\ HeadNumber \in Nat /\ \A b \in Blocks : Height(b) \in Nat
      /\ headers \subseteq Blocks /\ cursor \in Blocks \cup {None}
  BY <1>a DEF ChainTypeOK, StoreTypeOK, HeadNumber, Height, Blocks
<1>c. DEFINE plain == Places \ {"retain", "init", "locate", "commit"}
<1>f. ASSUME NEW code, Fail(code), UNCHANGED chain PROVE RowsSettled' /\ PlacesSettled'
  BY <1>f, <1>a, SameRowsSettled DEF Fail, SetStatus, PlacesSettled
<1>g. ASSUME UNCHANGED storeVars, UNCHANGED chain, pc' \in plain,
             pc' \in {"idle", "down"} \/ horizon' \in Horizons
      PROVE  RowsSettled' /\ PlacesSettled'
  BY <1>g, <1>a, SameRowsSettled DEF storeVars, PlacesSettled
<1>1. CASE SyncStep
  <2>. SUFFICES ASSUME UNCHANGED chain PROVE RowsSettled' /\ PlacesSettled'
    BY <1>1 DEF SyncStep, chainVars
  <2>1. CASE StartSync
    <3>1. horizon' \in Horizons
      BY <2>1, <1>a DEF StartSync, DateHorizon, PlacesSettled
    <3>. QED
      BY <2>1, <3>1, <1>a, SameRowsSettled DEF StartSync, SetStatus, PlacesSettled
  <2>2. CASE ReadHead
    BY <2>2, <1>g, <1>a DEF ReadHead, PlacesSettled, Places
  <2>3. CASE CompareCursor
    <3>1. CASE /\ cursor # None /\ Exists(Height(cursor)) /\ ~Live(cursor)
               /\ SetStatus("REORGING", None) /\ Goto("locate")
      <4>1. cursor \in Blocks /\ GroundedOn(chain, cursor)
        BY <3>1, <1>a, <1>b DEF RowsSettled, HeadersSettled
      <4>2. Ancestor(cursor, Height(cursor)) = cursor /\ Height(cursor) \in 0..Height(cursor)
        BY <4>1, <1>b, AncestorSelf
      <4>3. Height(cursor) > Finalized
        BY <3>1, <4>1, <4>2, <1>b DEF GroundedOn, Live
      <4>. QED
        BY <2>3, <3>1, <4>3, <1>a, SameRowsSettled DEF CompareCursor, SetStatus, Goto, PlacesSettled
    <3>. QED
      BY <2>3, <3>1, <1>a, <1>f, <1>g DEF CompareCursor, Goto, PlacesSettled, Places
  <2>4. CASE LocateAncestor
    <3>1. ASSUME NEW a, RollbackTo(a), Goto("source"), a \in RecentHeaders(Window), Live(a),
                 \A b \in RecentHeaders(Window) : Live(b) => Height(b) <= Height(a)
          PROVE  RowsSettled' /\ PlacesSettled'
      <4>1. RowsSettled'
        BY <2>4, <3>1, RollbackSettled DEF LocateAncestor
      <4>. QED
        BY <2>4, <3>1, <4>1, <1>a DEF LocateAncestor, RollbackTo, Goto, PlacesSettled
    <3>2. ASSUME ResetForReplay(modelVersion), Goto("source")
          PROVE  RowsSettled' /\ PlacesSettled'
      BY <2>4, <3>2, <1>a, ResetSettled DEF LocateAncestor, Goto, PlacesSettled
    <3>. QED
      BY <2>4, <3>1, <3>2, <1>f DEF LocateAncestor
  <2>5. CASE FindSource
    <3>1. ASSUME ResetForReplay(modelVersion), Goto("again")
          PROVE  RowsSettled' /\ PlacesSettled'
      BY <2>5, <3>1, <1>a, ResetSettled DEF FindSource, Goto, PlacesSettled
    <3>2. ASSUME NEW at, Exists(at), ~(at > horizon), boundary' = BlockAt(at), pc' = "retain",
                 UNCHANGED <<storeVars, horizon>>
          PROVE  RowsSettled' /\ PlacesSettled'
      <4>1. horizon \in Horizons /\ horizon \in Nat /\ horizon <= Finalized
        BY <2>5, <1>a DEF FindSource, PlacesSettled, HorizonsAreFinal
      <4>2. at \in 0..HeadNumber /\ at <= Finalized
        BY <3>2, <4>1, <1>b DEF Exists
      <4>3. FinalOn(chain, boundary)'
        BY <3>2, <4>2, <1>b, CanonicalBlock DEF FinalOn, Live
      <4>. QED
        BY <3>2, <4>1, <4>3, <1>a, SameRowsSettled DEF storeVars, PlacesSettled
    <3>. QED
      BY <2>5, <3>1, <3>2, <1>a, <1>f, <1>g DEF FindSource, Goto, PlacesSettled, Places
  <2>6. CASE RetainSource
    <3>1. ASSUME RetainHeaders({boundary}), Goto("init")
          PROVE  RowsSettled' /\ PlacesSettled'
      <4>1. cursor = None /\ FinalOn(chain, boundary)
        BY <2>6, <1>a DEF RetainSource, PlaceOK, PlacesSettled
      <4>2. RowsSettled'
        BY <3>1, <4>1, <1>a, RetainSettled
      <4>. QED
        BY <2>6, <3>1, <4>1, <4>2, <1>a DEF RetainSource, RetainHeaders, Goto, PlacesSettled
    <3>. QED
      BY <2>6, <3>1, <1>f DEF RetainSource
  <2>7. CASE EstablishSource
    <3>1. FinalOn(chain, boundary) /\ boundary \in headers /\ horizon \in Horizons
      BY <2>7, <1>a DEF EstablishSource, PlacesSettled
    <3>. QED
      BY <2>7, <3>1, <1>a
         DEF EstablishSource, InitializeSource, Goto, RowsSettled, SourceFinal, HeadersSettled,
             PlacesSettled
  <2>8. CASE ReadTarget
    BY <2>8, <1>g, <1>a DEF ReadTarget, NextRange, PlacesSettled, Places
  <2>9. CASE CollectPage
    BY <2>9, <1>g, <1>a DEF CollectPage, PlacesSettled, Places
  <2>10. CASE FetchHeaders
    <3>1. CASE /\ \A n \in RangeNumbers : Exists(n)
               /\ \A e \in found : Live(e)
               /\ fetched' = {BlockAt(n) : n \in RangeNumbers}
               /\ pc' = "commit"
               /\ UNCHANGED <<storeVars, horizon, knownHead, boundary, scanFrom, found>>
      <4>1. \A n \in RangeNumbers :
              /\ n \in 0..HeadNumber
              /\ BlockAt(n) \in Blocks /\ Height(BlockAt(n)) = n /\ Live(BlockAt(n))
        BY <3>1, <1>b, CanonicalBlock DEF Exists
      <4>2. RangeEnd' = RangeEnd /\ RangeStart' = RangeStart
        BY <3>1 DEF RangeEnd, RangeStart, storeVars
      <4>3. found' \subseteq fetched'
        <5>. SUFFICES ASSUME NEW e \in found PROVE e \in fetched'
          BY <3>1
        <5>1. e \in Blocks /\ BlockAt(Height(e)) = e
          BY <3>1, <1>a, <1>b, CanonicalHistory DEF LocalTypeOK
        <5>2. Height(e) \in RangeNumbers
          BY DEF RangeNumbers
        <5>. QED
          BY <3>1, <5>1, <5>2
      <4>4. \A n \in RangeNumbers : n <= RangeEnd
        BY <2>10, <4>1, <1>a, <1>b
           DEF FetchHeaders, RangeNumbers, RangeOK, RangeStart, RangeEnd, PlaceOK, StoreTypeOK,
               LocalTypeOK
      <4>5. ASSUME NEW t \in fetched', Height(t) = RangeEnd
            PROVE  GroundedOn(chain, t) /\ \A h \in fetched' : IsAncestor(h, t)
        <5>1. t \in Blocks /\ Live(t)
          BY <3>1, <4>1
        <5>2. ASSUME NEW h \in fetched' PROVE IsAncestor(h, t)
          <6>1. h \in Blocks /\ Live(h) /\ Height(h) <= Height(t)
            BY <3>1, <4>1, <4>4, <4>5
          <6>. QED
            BY <5>1, <6>1, <1>b, AncestorsNest DEF Live
        <5>. QED
          BY <5>1, <5>2, <1>b, LiveIsGrounded
      <4>6. RowsSettled'
        BY <3>1, <1>a, SameRowsSettled DEF storeVars
      <4>. QED
        BY <2>10, <3>1, <4>2, <4>3, <4>5, <4>6, <1>a DEF FetchHeaders, PlacesSettled
    <3>. QED
      BY <2>10, <3>1, <1>f DEF FetchHeaders
  <2>11. CASE CommitRange
    <3>1. ASSUME NEW through \in fetched, Height(through) = RangeEnd,
                 CommitBatch(through, fetched, found), NextRange(through, knownHead)
          PROVE  RowsSettled' /\ PlacesSettled'
      <4>1. /\ through \in Blocks /\ fetched \in SUBSET Blocks /\ source # None
            /\ found \in SUBSET fetched
            /\ GroundedOn(chain, through) /\ \A h \in fetched : IsAncestor(h, through)
        BY <2>11, <3>1, <1>a DEF CommitRange, LocalTypeOK, PlaceOK, PlacesSettled
      <4>2. cursor # None => IsAncestor(cursor, through)
        BY <2>11, <3>1, <4>1, <1>a DEF CommitRange, FetchedOK, RowsSettled, SourceFinal
      <4>3. RowsSettled'
        BY <3>1, <4>1, <4>2, <1>a, CommitSettled
      <4>. QED
        BY <2>11, <3>1, <4>3, <1>a DEF CommitRange, NextRange, PlacesSettled
    <3>. QED
      BY <2>11, <3>1, <1>f DEF CommitRange
  <2>12. CASE RetainWindow
    <3>. DEFINE dense == {BlockAt(n) : n \in WindowStart..Height(cursor)}
    <3>1. CASE /\ cursor # None
               /\ \A n \in WindowStart..Height(cursor) : Exists(n)
               /\ RetainHeaders(dense)
               /\ Goto("cursor")
      <4>1. cursor \in Blocks /\ cursor \in headers /\ source \in Blocks /\ Agrees(dense)
        BY <3>1, <1>a DEF StoreTypeOK, RowsInv, CursorRetained, PlaceOK, RetainHeaders
      <4>2. \A h \in dense : IsAncestor(h, cursor)
        BY <3>1, <4>1, <1>b, WindowIsHistory
      <4>3. RowsSettled'
        BY <3>1, <4>2, <1>a, RetainSettled
      <4>. QED
        BY <2>12, <3>1, <4>3, <1>a DEF RetainWindow, Goto, PlacesSettled
    <3>. QED
      BY <2>12, <3>1, <1>a, <1>f, <1>g DEF RetainWindow, Goto, PlacesSettled, Places
  <2>13. CASE ConfirmCursor
    BY <2>13, <1>a, <1>f, <1>g DEF ConfirmCursor, Goto, PlacesSettled, Places
  <2>14. CASE ConfirmParent
    BY <2>14, <1>a, <1>f, <1>g DEF ConfirmParent, Goto, PlacesSettled, Places
  <2>15. CASE ConfirmHead
    <3>1. ASSUME RetainHeaders({Parent(cursor), cursor}), pc' \in {"disagree", "persist"},
                 horizon' = horizon
          PROVE  RowsSettled' /\ PlacesSettled'
      <4>1. cursor \in Blocks /\ cursor # None
        BY <2>15, <1>a DEF ConfirmHead, PlaceOK, StoreTypeOK
      <4>2. IsAncestor(cursor, cursor) /\ IsAncestor(Parent(cursor), cursor)
        BY <4>1, IsAncestorSelf, ParentIsAncestor
      <4>3. RowsSettled'
        BY <3>1, <4>1, <4>2, <1>a, RetainSettled
      <4>. QED
        BY <2>15, <3>1, <4>3, <1>a DEF ConfirmHead, PlacesSettled
    <3>. QED
      BY <2>15, <3>1, <1>f DEF ConfirmHead, Goto
  <2>16. CASE Publish
    <3>1. ASSUME PersistCompleteSnapshot(Assembled), pc' = "idle"
          PROVE  RowsSettled' /\ PlacesSettled'
      BY <3>1, <1>a, SameRowsSettled DEF PersistCompleteSnapshot, PlacesSettled
    <3>. QED
      BY <2>16, <3>1, <1>f DEF Publish
  <2>. QED
    BY <1>1, <2>1, <2>2, <2>3, <2>4, <2>5, <2>6, <2>7, <2>8, <2>9, <2>10, <2>11,
       <2>12, <2>13, <2>14, <2>15, <2>16 DEF SyncStep
<1>2. CASE Fault
  BY <1>2, <1>f DEF Fault, chainVars
<1>3. CASE Crash
  BY <1>3, <1>g DEF Crash, chainVars, Places
<1>4. CASE Restart
  <2>1. ASSUME NEW v, ResetForReplay(v), pc' = "idle" PROVE RowsSettled' /\ PlacesSettled'
    BY <2>1, ResetSettled DEF PlacesSettled
  <2>. QED
    BY <1>4, <2>1, <1>g DEF Restart, chainVars, Places
<1>5. CASE ChainGrows
  BY <1>5, ChainMovesSettled DEF ChainGrows
<1>6. CASE ChainReorgs
  BY <1>6, ChainMovesSettled DEF ChainReorgs
<1>7. CASE UNCHANGED vars
  BY <1>7, ChainMovesSettled DEF vars, chainVars
<1>. QED
  BY <1>1, <1>2, <1>3, <1>4, <1>5, <1>6, <1>7 DEF Next

LEMMA ChainInvariant == HorizonsAreFinal /\ Spec => []ChainInv
BY InitChain, NextChain, PTL DEF Spec
---------------------------------------------------------------------------
(* The horizon moves forward: no header above the cursor *)

(* A boundary that a killed attempt retained under a later horizon would     *)
(* stay above the cursor of an attempt with an earlier one.                  *)
RowsBelow ==
  /\ cursor # None => \A g \in headers : Height(g) <= Height(cursor)
  /\ cursor = None /\ source # None => \A g \in headers : Height(g) <= Height(source)
  /\ source = None => \A g \in headers : horizon # None /\ Height(g) <= horizon

(* A boundary that is being established is not below one that an earlier     *)
(* attempt retained: that one is final, so the head is not below it either.  *)
PlacesBelow ==
  /\ pc \in {"recover", "source"} /\ source = None =>
       \A g \in headers : Height(g) <= knownHead
  /\ pc \in {"retain", "init"} =>
       /\ \A g \in headers : Height(g) <= Height(boundary)
       /\ horizon # None /\ Height(boundary) <= horizon

OneChainInv == ~HorizonMovesBack /\ ChainInv /\ RowsBelow /\ PlacesBelow

LEMMA SameRowsBelow ==
  ASSUME RowsBelow, UNCHANGED <<source, cursor, headers, horizon>>
  PROVE  RowsBelow'
BY DEF RowsBelow

LEMMA ResetBelow ==
  ASSUME NEW version, ResetForReplay(version)
  PROVE  RowsBelow' /\ headers' = {}
BY DEF ResetForReplay, RowsBelow

LEMMA InitOneChain == HorizonsAreFinal /\ ~HorizonMovesBack /\ Init => OneChainInv
BY InitChain DEF Init, StoreInit, OneChainInv, RowsBelow, PlacesBelow

LEMMA NextOneChain == OneChainInv /\ [Next]_vars => OneChainInv'
<1>. SUFFICES ASSUME OneChainInv, [Next]_vars PROVE RowsBelow' /\ PlacesBelow'
  BY NextChain DEF OneChainInv
<1>. USE ChainAssumption, StoreAssumption, IndexerAssumption
<1>a. /\ ChainTypeOK /\ StoreTypeOK /\ LocalTypeOK /\ PlaceOK /\ RowsInv /\ RangeOK /\ FetchedOK
      /\ RowsSettled /\ PlacesSettled /\ RowsBelow /\ PlacesBelow /\ ChainInv
  BY DEF OneChainInv, ChainInv, BackedInv, TypeInv, TypeOK
<1>b. /\ chain \in Blocks /\ HeadNumber \in Nat /\ \A b \in Blocks : Height(b) \in Nat
      /\ headers \subseteq Blocks /\ cursor \in Blocks \cup {None}
  BY <1>a DEF ChainTypeOK, StoreTypeOK, HeadNumber, Height, Blocks
<1>f. ASSUME NEW code, Fail(code) PROVE RowsBelow' /\ PlacesBelow'
  BY <1>f, <1>a, SameRowsBelow DEF Fail, Forget, SetStatus, PlacesBelow
<1>g. ASSUME UNCHANGED storeVars, UNCHANGED horizon, pc' \notin {"recover", "source", "retain", "init"}
      PROVE  RowsBelow' /\ PlacesBelow'
  BY <1>g, <1>a, SameRowsBelow DEF storeVars, PlacesBelow
<1>h. ASSUME UNCHANGED <<storeVars, localVars>> PROVE RowsBelow' /\ PlacesBelow'
  BY <1>h, <1>a, SameRowsBelow DEF storeVars, localVars, PlacesBelow
<1>i. ASSUME NEW hs, RetainHeaders(hs), cursor \in Blocks, \A h \in hs : IsAncestor(h, cursor),
             UNCHANGED horizon, pc' \notin {"recover", "source", "retain", "init"}
      PROVE  RowsBelow' /\ PlacesBelow'
  BY <1>i, <1>a DEF RetainHeaders, IsAncestor, RowsBelow, PlacesBelow, PlaceOK
<1>1. CASE SyncStep
  <2>1. CASE StartSync
    <3>1. UNCHANGED <<source, cursor, headers>> /\ pc' = "head"
      BY <2>1 DEF StartSync, SetStatus
    <3>2. CASE horizon = None
      BY <3>1, <3>2, <1>a DEF RowsBelow, PlacesBelow
    <3>3. CASE horizon # None
      <4>1. horizon \in Nat
        BY <3>3, <1>a DEF LocalTypeOK
      <4>2. CASE UNCHANGED horizon
        BY <3>1, <3>3, <4>2, <1>a DEF RowsBelow, PlacesBelow
      <4>3. CASE DateHorizon
        <5>1. horizon' \in Nat /\ horizon' # None
          BY <4>3 DEF DateHorizon
        <5>2. ~HorizonMovesBack
          BY DEF OneChainInv
        <5>3. horizon' >= horizon
          BY <3>3, <4>3, <5>2 DEF DateHorizon
        <5>. QED
          BY <3>1, <4>1, <5>1, <5>3, <1>a, <1>b DEF RowsBelow, PlacesBelow
      <4>. QED
        BY <2>1, <4>2, <4>3 DEF StartSync
    <3>. QED
      BY <3>2, <3>3
  <2>2. CASE ReadHead
    <3>1. ASSUME source = None, NEW g \in headers PROVE Height(g) <= HeadNumber
      BY <3>1, <1>a DEF PlaceOK, RowsSettled, HeadersSettled, FinalOn, IsAncestor, HeadNumber
    <3>. QED
      BY <2>2, <3>1, <1>a, SameRowsBelow DEF ReadHead, storeVars, PlacesBelow
  <2>3. CASE CompareCursor
    <3>1. CASE UNCHANGED storeVars /\ Goto("source")
      BY <2>3, <3>1, <1>a, SameRowsBelow DEF CompareCursor, storeVars, Goto, PlacesBelow
    <3>2. CASE SetStatus("REORGING", None) /\ Goto("locate")
      BY <3>2, <1>a, SameRowsBelow DEF SetStatus, Goto, PlacesBelow
    <3>. QED
      BY <2>3, <3>1, <3>2, <1>f DEF CompareCursor
  <2>4. CASE LocateAncestor
    <3>1. ASSUME NEW a, RollbackTo(a), Goto("source") PROVE RowsBelow' /\ PlacesBelow'
      BY <2>4, <3>1, <1>a DEF LocateAncestor, RollbackTo, Goto, RowsBelow, PlacesBelow, PlaceOK,
                              StoreTypeOK
    <3>2. ASSUME ResetForReplay(modelVersion), Goto("source")
          PROVE  RowsBelow' /\ PlacesBelow'
      BY <3>2, ResetBelow DEF Goto, PlacesBelow
    <3>. QED
      BY <2>4, <3>1, <3>2, <1>f DEF LocateAncestor
  <2>5. CASE FindSource
    <3>. DEFINE at == IF horizon <= DeploymentBlock \/ knownHead < DeploymentBlock
                      THEN DeploymentBlock
                      ELSE IF horizon < knownHead THEN horizon ELSE knownHead
    <3>1. ASSUME ResetForReplay(modelVersion), Goto("again")
          PROVE  RowsBelow' /\ PlacesBelow'
      BY <3>1, ResetBelow DEF Goto, PlacesBelow
    <3>2. ASSUME source = None, Exists(at), ~(at > horizon), boundary' = BlockAt(at),
                 pc' = "retain", UNCHANGED <<storeVars, horizon>>
          PROVE  RowsBelow' /\ PlacesBelow'
      <4>1. horizon \in Horizons /\ horizon \in Nat /\ knownHead \in Nat
        BY <2>5, <1>a DEF FindSource, PlacesSettled, LocalTypeOK
      <4>2. Height(BlockAt(at)) = at
        BY <3>2, <1>b, CanonicalBlock DEF Exists
      <4>3. \A g \in headers : Height(g) <= knownHead /\ Height(g) <= horizon
        BY <2>5, <3>2, <4>1, <1>a DEF FindSource, RowsBelow, PlacesBelow
      <4>4. \A g \in headers : Height(g) <= at
        BY <3>2, <4>1, <4>3, <1>b
      <4>5. at <= horizon
        BY <3>2, <4>1
      <4>. QED
        BY <3>2, <4>1, <4>2, <4>4, <4>5, <1>a, SameRowsBelow DEF storeVars, PlacesBelow
    <3>. QED
      BY <2>5, <3>1, <3>2, <1>f, <1>g DEF FindSource, Goto
  <2>6. CASE RetainSource
    <3>1. ASSUME RetainHeaders({boundary}), Goto("init") PROVE RowsBelow' /\ PlacesBelow'
      <4>1. source = None /\ cursor = None /\ boundary \in Blocks
        BY <2>6, <1>a DEF RetainSource, PlaceOK, LocalTypeOK
      <4>. QED
        BY <2>6, <3>1, <4>1, <1>a, <1>b
           DEF RetainSource, RetainHeaders, Goto, RowsBelow, PlacesBelow
    <3>. QED
      BY <2>6, <3>1, <1>f DEF RetainSource
  <2>7. CASE EstablishSource
    <3>1. cursor = None /\ boundary # None
      BY <2>7, <1>a DEF EstablishSource, PlaceOK
    <3>. QED
      BY <2>7, <3>1, <1>a DEF EstablishSource, InitializeSource, Goto, RowsBelow, PlacesBelow
  <2>8. CASE ReadTarget
    BY <2>8, <1>g DEF ReadTarget, NextRange
  <2>9. CASE CollectPage
    BY <2>9, <1>g DEF CollectPage
  <2>10. CASE FetchHeaders
    BY <2>10, <1>f, <1>g DEF FetchHeaders
  <2>11. CASE CommitRange
    <3>1. ASSUME NEW through \in fetched, Height(through) = RangeEnd,
                 CommitBatch(through, fetched, found), NextRange(through, knownHead)
          PROVE  RowsBelow' /\ PlacesBelow'
      <4>1. /\ through \in Blocks /\ through # None /\ source \in Blocks
            /\ \A h \in fetched : Height(h) <= Height(through)
        BY <2>11, <3>1, <1>a DEF CommitRange, LocalTypeOK, PlaceOK, StoreTypeOK, FetchedOK
      <4>2. RangeStart <= RangeEnd /\ RangeStart \in Nat
        BY <2>11, <4>1, <1>a, <1>b
           DEF CommitRange, RangeOK, RangeStart, RangeEnd, LocalTypeOK
      <4>3. \A g \in headers : Height(g) <= RangeStart
        BY <4>1, <1>a, <1>b DEF RowsBelow, RangeStart
      <4>4. \A g \in headers : Height(g) <= Height(through)
        BY <3>1, <4>1, <4>2, <4>3, <1>b
      <4>. QED
        BY <3>1, <4>1, <4>4 DEF CommitBatch, NextRange, RowsBelow, PlacesBelow
    <3>. QED
      BY <2>11, <3>1, <1>f DEF CommitRange
  <2>12. CASE RetainWindow
    <3>. DEFINE dense == {BlockAt(n) : n \in WindowStart..Height(cursor)}
    <3>1. CASE /\ cursor # None
               /\ \A n \in WindowStart..Height(cursor) : Exists(n)
               /\ RetainHeaders(dense)
               /\ Goto("cursor")
      <4>1. cursor \in Blocks /\ cursor \in headers /\ source \in Blocks /\ Agrees(dense)
        BY <3>1, <1>a DEF StoreTypeOK, RowsInv, CursorRetained, PlaceOK, RetainHeaders
      <4>2. \A h \in dense : IsAncestor(h, cursor)
        BY <3>1, <4>1, <1>b, WindowIsHistory
      <4>. QED
        BY <3>1, <4>1, <4>2, <1>i DEF Goto
    <3>. QED
      BY <2>12, <3>1, <1>f, <1>g DEF RetainWindow, Goto
  <2>13. CASE ConfirmCursor
    BY <2>13, <1>f, <1>g DEF ConfirmCursor, Goto
  <2>14. CASE ConfirmParent
    BY <2>14, <1>f, <1>g DEF ConfirmParent, Goto
  <2>15. CASE ConfirmHead
    <3>1. cursor \in Blocks
      BY <2>15, <1>a DEF ConfirmHead, PlaceOK, StoreTypeOK
    <3>2. \A h \in {Parent(cursor), cursor} : IsAncestor(h, cursor)
      BY <3>1, IsAncestorSelf, ParentIsAncestor
    <3>. QED
      BY <2>15, <3>1, <3>2, <1>f, <1>i DEF ConfirmHead, Goto
  <2>16. CASE Publish
    <3>1. ASSUME PersistCompleteSnapshot(Assembled), pc' = "idle", Forget
          PROVE  RowsBelow' /\ PlacesBelow'
      BY <3>1, <1>a, SameRowsBelow DEF PersistCompleteSnapshot, Forget, PlacesBelow
    <3>. QED
      BY <2>16, <3>1, <1>f DEF Publish
  <2>. QED
    BY <1>1, <2>1, <2>2, <2>3, <2>4, <2>5, <2>6, <2>7, <2>8, <2>9, <2>10, <2>11,
       <2>12, <2>13, <2>14, <2>15, <2>16 DEF SyncStep
<1>2. CASE Fault
  BY <1>2, <1>f DEF Fault
<1>3. CASE Crash
  BY <1>3, <1>g DEF Crash, Forget
<1>4. CASE Restart
  <2>1. ASSUME NEW v, ResetForReplay(v), pc' = "idle" PROVE RowsBelow' /\ PlacesBelow'
    BY <2>1, ResetBelow DEF PlacesBelow
  <2>. QED
    BY <1>4, <2>1, <1>g DEF Restart
<1>5. CASE ChainGrows
  BY <1>5, <1>h DEF ChainGrows
<1>6. CASE ChainReorgs
  BY <1>6, <1>h DEF ChainReorgs
<1>7. CASE UNCHANGED vars
  BY <1>7, <1>h DEF vars
<1>. QED
  BY <1>1, <1>2, <1>3, <1>4, <1>5, <1>6, <1>7 DEF Next

(* StoreIsOneChain for every chain, window, range size, fault and number of  *)
(* reorgs at any await, where every attempt asks for a horizon in final      *)
(* history and none before the horizon of the attempt before it: the         *)
(* retained headers, the cursor and the events are one branch, whatever      *)
(* boundaries killed attempts left under earlier horizons.                   *)
THEOREM OneChain == HorizonsAreFinal /\ ~HorizonMovesBack /\ Spec => []StoreIsOneChain
<1>1. OneChainInv => StoreIsOneChain
  <2>. SUFFICES ASSUME OneChainInv PROVE StoreIsOneChain
    OBVIOUS
  <2>1. /\ chain \in Blocks /\ headers \subseteq Blocks /\ cursor \in Blocks \cup {None}
        /\ RowsInv /\ RowsSettled /\ RowsBelow
    BY DEF OneChainInv, ChainInv, BackedInv, TypeInv, TypeOK, ChainTypeOK, StoreTypeOK
  <2>2. ASSUME cursor # None, NEW g \in headers PROVE IsAncestor(g, cursor)
    BY <2>1, <2>2, FinalIsAncestor DEF RowsSettled, HeadersSettled, RowsBelow
  <2>. QED
    BY <2>1, <2>2
       DEF StoreIsOneChain, RowsInv, HeadersUnique, OnePerNumber, CursorRetained, RowsSettled,
           HeadersSettled
<1>2. HorizonsAreFinal /\ ~HorizonMovesBack /\ Spec => []OneChainInv
  BY InitOneChain, NextOneChain, PTL DEF Spec
<1>. QED
  BY <1>1, <1>2, PTL
---------------------------------------------------------------------------
(* Recovery finds the fork point *)

LEMMA HighestExists ==
  ASSUME NEW n \in Nat, NEW S \in SUBSET (0..n), S # {}
  PROVE  \E t \in S : \A u \in S : u <= t
<1>. DEFINE From(t) == {u \in S : t <= u}
            Tails == {From(t) : t \in S}
<1>1. IsFiniteSet(S)
  <2>1. IsFiniteSet(0..n)
    BY FS_Interval
  <2>. QED
    BY <2>1, FS_Subset
<1>2. IsWellFoundedOn(StrictSubsetOrdering(S), SUBSET S)
  BY <1>1, FS_StrictSubsetOrderingWellFounded, FS_FiniteSubsetsOfFinite
<1>3. Tails \subseteq SUBSET S /\ Tails # {}
  OBVIOUS
<1>4. PICK least \in Tails : \A T \in Tails : <<T, least>> \notin StrictSubsetOrdering(S)
  <2>. HIDE DEF Tails
  <2>. DEFINE R == StrictSubsetOrdering(S)
              W == SUBSET S
  <2>1. IsWellFoundedOn(R, W) /\ Tails \subseteq W /\ Tails # {}
    BY <1>2, <1>3
  <2>. HIDE DEF R, W
  <2>2. \E x \in Tails : \A y \in Tails : ~ (<<y, x>> \in R)
    BY <2>1, WFMin
  <2>. QED
    BY <2>2 DEF R
<1>5. PICK t \in S : least = From(t)
  OBVIOUS
<1>6. ASSUME NEW u \in S, ~(u <= t) PROVE FALSE
  <2>1. From(u) \subseteq From(t) /\ t \notin From(u) /\ t \in From(t)
    <3>1. \A w \in S : w \in Int
      OBVIOUS
    <3>2. t < u /\ t <= t
      BY <1>6, <3>1
    <3>3. \A w \in From(u) : w \in S /\ t <= w
      BY <3>1, <3>2
    <3>. QED
      BY <1>6, <3>2, <3>3
  <2>2. <<From(u), From(t)>> \in StrictSubsetOrdering(S)
    BY <2>1 DEF StrictSubsetOrdering
  <2>. QED
    BY <2>2, <1>4, <1>5
<1>. QED
  BY <1>6

(* The genesis is canonical, so there is a last canonical ancestor. *)
LEMMA ForkIsHighest ==
  ASSUME chain \in Blocks, cursor \in Blocks
  PROVE  /\ ForkHeight \in 0..Height(cursor)
         /\ Live(Ancestor(cursor, ForkHeight))
         /\ \A m \in 0..Height(cursor) : Live(Ancestor(cursor, m)) => m <= ForkHeight
<1>. DEFINE canonical == {n \in 0..Height(cursor) : Live(Ancestor(cursor, n))}
<1>1. Height(cursor) \in Nat /\ 0 \in 0..Height(cursor)
  BY DEF Blocks, Height
<1>2. Ancestor(cursor, 0) = << >> /\ Ancestor(chain, 0) = << >>
  BY DEF Ancestor, Blocks
<1>3. 0 \in canonical
  BY <1>1, <1>2 DEF Live, IsAncestor, Height, Blocks
<1>4. PICK t \in canonical : \A u \in canonical : u <= t
  BY <1>1, <1>3, HighestExists
<1>. QED
  BY <1>4 DEF ForkHeight

(* Above the fork the cursor has fewer than Window ancestors when the fork   *)
(* is inside the window, so the retained fork point is among the headers     *)
(* that recoverReorg searches.                                               *)
LEMMA ForkIsSearched ==
  ASSUME DenseInv, ChainInv, pc = "locate", NEW s \in snapshots, s.through = cursor,
         ForkHeight >= WindowStart
  PROVE  Ancestor(cursor, ForkHeight) \in RecentHeaders(Window)
<1>. DEFINE fork  == Ancestor(cursor, ForkHeight)
            above == {g \in headers : Height(g) > Height(fork)}
<1>1. /\ chain \in Blocks /\ cursor \in Blocks /\ source \in Blocks /\ headers \subseteq Blocks
      /\ OnePerNumber(headers) /\ \A g \in headers : IsAncestor(g, cursor)
      /\ \A b \in Blocks : Height(b) \in Nat
  BY LocateOnOneChain
     DEF ChainInv, BackedInv, TypeInv, TypeOK, ChainTypeOK, StoreTypeOK, PlaceOK, RowsInv,
         HeadersUnique, Blocks, Height
<1>2. ForkHeight \in 0..Height(cursor) /\ Height(fork) = ForkHeight
  BY <1>1, ForkIsHighest, AncestorType
<1>3. Height(source) <= ForkHeight /\ Height(cursor) - Window < ForkHeight
  BY <1>1, <1>2, IndexerAssumption DEF WindowStart
<1>4. fork \in headers
  BY <1>2, <1>3 DEF DenseInv, DenseSnapshots, DenseUpTo
<1>5. \A g \in above : Height(g) \in (ForkHeight + 1)..Height(cursor)
  BY <1>1, <1>2 DEF IsAncestor
<1>6. /\ IsFiniteSet(above)
      /\ Cardinality(above) <= IF ForkHeight + 1 > Height(cursor) THEN 0
                               ELSE Height(cursor) - (ForkHeight + 1) + 1
  <2>1. above \in SUBSET Blocks /\ OnePerNumber(above)
    BY <1>1 DEF OnePerNumber
  <2>2. ForkHeight + 1 \in Int /\ Height(cursor) \in Int
    BY <1>1, <1>2
  <2> HIDE DEF above
  <2>. QED
    BY <1>5, <2>1, <2>2, OnePerNumberFinite
<1>7. Cardinality(above) \in Nat
  BY <1>6, FS_CardinalityType
<1>8. Cardinality(above) < Window
  BY <1>1, <1>2, <1>3, <1>6, <1>7, IndexerAssumption
<1>. QED
  BY <1>4, <1>8 DEF RecentHeaders

(* RecoversToForkPoint for every window, reorg depth, fault and crash, where *)
(* the horizons lie in final history: the rollback of a published cursor     *)
(* whose fork is inside the window stops at the fork itself.                 *)
THEOREM Recovery == HorizonsAreFinal /\ Spec => RecoversToForkPoint
<1>. DEFINE ToForkPoint ==
       /\ pc = "locate" /\ pc' = "source"
       /\ \E s \in snapshots : s.through = cursor
       /\ ForkHeight >= WindowStart
       => cursor' = Ancestor(cursor, ForkHeight)
<1>1. DenseInv /\ ChainInv /\ [Next]_vars => ToForkPoint
  <2>. SUFFICES ASSUME DenseInv, ChainInv, [Next]_vars, pc = "locate", pc' = "source",
                       NEW s \in snapshots, s.through = cursor, ForkHeight >= WindowStart
                PROVE  cursor' = Ancestor(cursor, ForkHeight)
    OBVIOUS
  <2>. DEFINE fork == Ancestor(cursor, ForkHeight)
  <2>1. LocateAncestor /\ UNCHANGED chain
    BY DEF Next, vars, localVars, SyncStep, chainVars, StartSync, ReadHead, CompareCursor,
           FindSource, RetainSource, EstablishSource, ReadTarget, CollectPage, FetchHeaders,
           CommitRange, RetainWindow, ConfirmCursor, ConfirmParent, ConfirmHead, Publish,
           Fault, Fail, Crash, Restart, ChainGrows, ChainReorgs
  <2>2. /\ chain \in Blocks /\ cursor \in Blocks
        /\ \A b \in Blocks : Height(b) \in Nat
    BY LocateOnOneChain
       DEF ChainInv, BackedInv, TypeInv, TypeOK, ChainTypeOK, Blocks, Height
  <2>3. fork \in RecentHeaders(Window) /\ Live(fork) /\ Height(fork) = ForkHeight
        /\ ForkHeight \in 0..Height(cursor)
    BY <2>2, ForkIsSearched, ForkIsHighest, AncestorType
  <2>4. PICK a \in {c \in RecentHeaders(Window) : Live(c)} :
          /\ \A c \in {c \in RecentHeaders(Window) : Live(c)} : Height(c) <= Height(a)
          /\ RollbackTo(a)
    BY <2>1, <2>3 DEF LocateAncestor, Fail
  <2>5. a \in Blocks /\ IsAncestor(a, cursor)
    BY <2>4, LocateOnOneChain DEF RecentHeaders
  <2>6. Height(a) \in 0..Height(cursor) /\ Ancestor(cursor, Height(a)) = a
    BY <2>2, <2>5 DEF IsAncestor
  <2>7. Height(a) = ForkHeight
    BY <2>2, <2>3, <2>4, <2>6, ForkIsHighest
  <2>. QED
    BY <2>4, <2>6, <2>7 DEF RollbackTo
<1>. QED
  BY DenseInvariant, ChainInvariant, <1>1, PTL DEF Spec, RecoversToForkPoint
---------------------------------------------------------------------------
(* The events are exactly those of the cursor's history *)

(* While no reorg lands inside an attempt, the chain below the head the      *)
(* attempt read only grows, so the pages collected so far are the canonical  *)
(* events of the range up to scanFrom.                                       *)
FoundExact ==
  pc \in {"collect", "headers", "commit"} =>
    /\ knownHead <= HeadNumber
    /\ scanFrom <= RangeEnd + 1
    /\ pc # "collect" => scanFrom = RangeEnd + 1
    /\ found = {BlockAt(n) : n \in {m \in RangeStart..(scanFrom - 1) : Selected(BlockAt(m))}}

ExactInv == ReorgMidSync = FALSE /\ ChainInv /\ IndexIsExact /\ FoundExact

LEMMA SameRowsExact ==
  ASSUME IndexIsExact, UNCHANGED <<source, cursor, events, modelVersion>>
  PROVE  IndexIsExact'
BY DEF IndexIsExact

LEMMA ResetExact ==
  ASSUME NEW version, ResetForReplay(version)
  PROVE  IndexIsExact'
BY DEF ResetForReplay, IndexIsExact

(* A rollback cuts events and history at the same number. *)
LEMMA RollbackExact ==
  ASSUME StoreTypeOK, cursor \in Blocks, source \in Blocks, IndexIsExact, NEW a,
         RollbackTo(a), IsAncestor(a, cursor)
  PROVE  IndexIsExact'
<1>1. /\ a \in Blocks /\ cursor # None
      /\ Height(source) \in Nat /\ Height(a) \in Nat /\ Height(cursor) \in Nat
      /\ Height(a) <= Height(cursor)
  BY StoreAssumption DEF StoreTypeOK, RollbackTo, IsAncestor, Blocks, Height
<1>2. \A n \in 0..Height(a) : Ancestor(cursor, n) = Ancestor(a, n)
  BY <1>1, AncestorsOf
<1>3. \A n \in 0..Height(cursor) : Height(Ancestor(cursor, n)) = n
  BY AncestorType
<1>4. events = Expected(source, cursor, modelVersion)
  BY <1>1 DEF IndexIsExact
<1>5. {e \in events : Height(e) <= Height(a)} = Expected(source, a, modelVersion)
  <2>1. ASSUME NEW e \in events, Height(e) <= Height(a)
        PROVE  e \in Expected(source, a, modelVersion)
    <3>1. PICK n \in Height(source)..Height(cursor) :
            /\ e = Ancestor(cursor, n)
            /\ Content(Ancestor(cursor, n)) \in Selectors[modelVersion]
      BY <1>4, <2>1 DEF Expected
    <3>2. n \in Height(source)..Height(a) /\ n \in 0..Height(a)
      BY <1>1, <1>3, <2>1, <3>1
    <3>. QED
      BY <1>2, <3>1, <3>2 DEF Expected
  <2>2. ASSUME NEW e \in Expected(source, a, modelVersion)
        PROVE  e \in events /\ Height(e) <= Height(a)
    <3>1. PICK n \in Height(source)..Height(a) :
            e = Ancestor(a, n) /\ Content(Ancestor(a, n)) \in Selectors[modelVersion]
      BY <2>2 DEF Expected
    <3>2. /\ n \in 0..Height(a) /\ n \in Height(source)..Height(cursor)
          /\ n \in 0..Height(cursor)
      BY <1>1, <3>1
    <3>3. e = Ancestor(cursor, n)
      BY <1>2, <3>1, <3>2
    <3>4. e \in events
      BY <1>4, <3>1, <3>2, <3>3 DEF Expected
    <3>. QED
      BY <1>1, <1>3, <3>2, <3>3, <3>4
  <2>. QED
    BY <2>1, <2>2
<1>. QED
  BY <1>5 DEF RollbackTo, IndexIsExact

(* A committed range extends events and history by the same blocks. *)
LEMMA CommitExact ==
  ASSUME ExactInv, pc = "commit", NEW through \in fetched, Height(through) = RangeEnd,
         Live(through), CommitBatch(through, fetched, found)
  PROVE  IndexIsExact'
<1>1. /\ chain \in Blocks /\ through \in Blocks /\ source \in Blocks
      /\ cursor \in Blocks \cup {None}
      /\ \A b \in Blocks : Height(b) \in Nat
  BY DEF ExactInv, ChainInv, BackedInv, TypeInv, TypeOK, ChainTypeOK, StoreTypeOK, LocalTypeOK,
         PlaceOK, Blocks, Height
<1>2. \A n \in 0..Height(through) : BlockAt(n) = Ancestor(through, n)
  BY <1>1, CanonicalHistory
<1>3. /\ RangeStart \in Nat /\ RangeStart <= RangeEnd
      /\ Height(source) <= RangeStart
  <2>1. source \in headers /\ (cursor # None => Height(source) <= Height(cursor))
    BY <1>1, StoreAssumption
       DEF ExactInv, ChainInv, BackedInv, RowsSettled, SourceFinal, RowsInv, SourceBelowCursor
  <2>2. RangeStart <= knownHead /\ knownHead \in Nat
    BY DEF ExactInv, ChainInv, BackedInv, TypeInv, TypeOK, LocalTypeOK, RangeOK
  <2>. QED
    BY <1>1, <2>1, <2>2, IndexerAssumption DEF RangeStart, RangeEnd
<1>4. found = {Ancestor(through, n) :
                 n \in {m \in RangeStart..RangeEnd :
                          Content(Ancestor(through, m)) \in Selectors[modelVersion]}}
  <2>1. scanFrom - 1 = RangeEnd
    BY <1>1, <1>3 DEF ExactInv, FoundExact
  <2>2. found = {BlockAt(n) : n \in {m \in RangeStart..RangeEnd : Selected(BlockAt(m))}}
    BY <2>1 DEF ExactInv, FoundExact
  <2>3. \A n \in RangeStart..RangeEnd : n \in 0..Height(through)
    BY <1>3
  <2>. QED
    BY <1>2, <2>2, <2>3 DEF Selected
<1>5. events = {Ancestor(through, n) :
                  n \in {m \in Height(source)..(RangeStart - 1) :
                           Content(Ancestor(through, m)) \in Selectors[modelVersion]}}
  <2>1. CASE cursor = None
    <3>1. events = {}
      BY <2>1 DEF ExactInv, ChainInv, BackedInv, RowsInv, EventsBelowCursor
    <3>2. Height(source)..(RangeStart - 1) = {}
      BY <1>1, <2>1 DEF RangeStart
    <3>. QED
      BY <3>1, <3>2
  <2>2. CASE cursor # None
    <3>1. cursor \in Blocks /\ RangeStart - 1 = Height(cursor)
      BY <1>1, <2>2 DEF RangeStart
    <3>2. IsAncestor(cursor, through)
      BY <2>2 DEF ExactInv, ChainInv, BackedInv, FetchedOK, RowsSettled, SourceFinal, PlaceOK,
                  TypeInv
    <3>3. \A n \in 0..Height(cursor) : Ancestor(through, n) = Ancestor(cursor, n)
      BY <1>1, <3>1, <3>2, AncestorsOf
    <3>4. \A n \in Height(source)..Height(cursor) : n \in 0..Height(cursor)
      BY <1>1, <3>1
    <3>5. events = Expected(source, cursor, modelVersion)
      BY <2>2 DEF ExactInv, IndexIsExact
    <3>. QED
      BY <3>1, <3>3, <3>4, <3>5 DEF Expected
  <2>. QED
    BY <2>1, <2>2
<1>6. \A m : m \in Height(source)..RangeEnd <=>
               m \in Height(source)..(RangeStart - 1) \/ m \in RangeStart..RangeEnd
  BY <1>1, <1>3
<1>7. events \cup found = Expected(source, through, modelVersion)
  BY <1>4, <1>5, <1>6 DEF Expected
<1>. QED
  BY <1>7 DEF CommitBatch, IndexIsExact

(* The range that NextRange starts has collected nothing. *)
LEMMA NextRangeExact ==
  ASSUME NEW through \in Blocks \cup {None}, NEW target \in Nat, NextRange(through, target),
         cursor' = through, source' = source, source \in Blocks, target <= HeadNumber',
         HeadNumber' \in Nat
  PROVE  FoundExact'
<1>1. pc' \in {"collect", "dense"} /\ found' = {} /\ knownHead' = target
  BY DEF NextRange
<1>2. RangeStart' = scanFrom'
  BY DEF NextRange, RangeStart
<1>3. scanFrom' \in Nat
  BY DEF NextRange, Blocks, Height
<1>4. pc' = "collect" => scanFrom' <= target
  BY DEF NextRange
<1>5. pc' = "collect" => scanFrom' <= RangeEnd' + 1
  BY <1>1, <1>3, <1>4, IndexerAssumption DEF NextRange, RangeStart, RangeEnd
<1>6. RangeStart'..(scanFrom' - 1) = {}
  BY <1>3 DEF NextRange, RangeStart
<1>. QED
  BY <1>1, <1>5, <1>6 DEF FoundExact

(* A longer chain has the same blocks below the old head. *)
LEMMA GrowthKeepsFound ==
  ASSUME ExactInv, Extend, UNCHANGED <<storeVars, localVars>>
  PROVE  FoundExact'
<1>. SUFFICES ASSUME pc \in {"collect", "headers", "commit"} PROVE FoundExact'
  BY DEF FoundExact, localVars
<1>1. /\ chain \in Blocks /\ source \in Blocks /\ cursor \in Blocks \cup {None}
      /\ knownHead \in Nat /\ scanFrom \in Nat
      /\ \A b \in Blocks : Height(b) \in Nat
  BY DEF ExactInv, ChainInv, BackedInv, TypeInv, TypeOK, ChainTypeOK, StoreTypeOK, LocalTypeOK,
         PlaceOK, Blocks, Height
<1>2. PICK c \in Contents : chain' = Append(chain, c)
  BY DEF Extend
<1>3. /\ chain' \in Blocks /\ HeadNumber' = HeadNumber + 1 /\ HeadNumber \in Nat
      /\ IsAncestor(chain, chain')
  BY <1>1, <1>2, AppendedAncestry DEF HeadNumber
<1>4. ASSUME NEW n \in 0..HeadNumber PROVE Ancestor(chain', n) = Ancestor(chain, n)
  BY <1>1, <1>3, AncestorsOf DEF HeadNumber
<1>5. RangeStart' = RangeStart /\ RangeEnd' = RangeEnd
  BY DEF RangeStart, RangeEnd, storeVars, localVars
<1>6. /\ RangeStart \in Nat /\ RangeEnd <= knownHead /\ RangeEnd \in Int
      /\ knownHead <= HeadNumber /\ scanFrom <= RangeEnd + 1
  BY <1>1, <1>3, IndexerAssumption DEF ExactInv, FoundExact, RangeStart, RangeEnd
<1>7. \A n \in RangeStart..(scanFrom - 1) : Ancestor(chain', n) = Ancestor(chain, n)
  BY <1>1, <1>3, <1>4, <1>6
<1>8. found = {Ancestor(chain, n) : n \in {m \in RangeStart..(scanFrom - 1) :
                 Content(Ancestor(chain, m)) \in Selectors[modelVersion]}}
  BY DEF ExactInv, FoundExact, BlockAt, Selected
<1>9. found = {Ancestor(chain', n) : n \in {m \in RangeStart..(scanFrom - 1) :
                 Content(Ancestor(chain', m)) \in Selectors[modelVersion]}}
  BY <1>7, <1>8
<1>10. found' = {BlockAt(n)' : n \in {m \in RangeStart'..(scanFrom' - 1) : Selected(BlockAt(m))'}}
  BY <1>5, <1>9 DEF BlockAt, Selected, storeVars, localVars
<1>11. knownHead' <= HeadNumber'
  BY <1>1, <1>3, <1>6 DEF localVars
<1>. QED
  BY <1>5, <1>10, <1>11 DEF ExactInv, FoundExact, localVars

LEMMA InitExact == HorizonsAreFinal /\ ReorgMidSync = FALSE /\ Init => ExactInv
BY InitChain DEF Init, StoreInit, ExactInv, IndexIsExact, FoundExact

LEMMA NextExact == ExactInv /\ [Next]_vars => ExactInv'
<1>. SUFFICES ASSUME ExactInv, [Next]_vars PROVE IndexIsExact' /\ FoundExact'
  BY NextChain DEF ExactInv
<1>. USE ChainAssumption, StoreAssumption, IndexerAssumption
<1>a. /\ ChainTypeOK /\ StoreTypeOK /\ LocalTypeOK /\ PlaceOK /\ RowsInv /\ RangeOK /\ FetchedOK
      /\ RowsSettled /\ PlacesSettled /\ IndexIsExact /\ FoundExact /\ ChainInv
  BY DEF ExactInv, ChainInv, BackedInv, TypeInv, TypeOK
<1>b. /\ chain \in Blocks /\ HeadNumber \in Nat /\ \A b \in Blocks : Height(b) \in Nat
  BY <1>a DEF ChainTypeOK, HeadNumber, Height, Blocks
<1>c. DEFINE scanning == {"collect", "headers", "commit"}
<1>e. ASSUME UNCHANGED <<source, cursor, events, modelVersion>>, pc' \notin scanning
      PROVE  IndexIsExact' /\ FoundExact'
  BY <1>e, <1>a, SameRowsExact DEF FoundExact
<1>f. ASSUME NEW code, Fail(code) PROVE IndexIsExact' /\ FoundExact'
  BY <1>f, <1>e DEF Fail, SetStatus
<1>g. ASSUME UNCHANGED storeVars, pc' \notin scanning PROVE IndexIsExact' /\ FoundExact'
  BY <1>g, <1>e DEF storeVars
<1>r. ASSUME NEW v, ResetForReplay(v), pc' \notin scanning PROVE IndexIsExact' /\ FoundExact'
  BY <1>r, ResetExact DEF FoundExact
<1>1. CASE SyncStep
  <2>. SUFFICES ASSUME UNCHANGED chain PROVE IndexIsExact' /\ FoundExact'
    BY <1>1 DEF SyncStep, chainVars
  <2>1. CASE StartSync
    BY <2>1, <1>e DEF StartSync, SetStatus
  <2>2. CASE ReadHead
    BY <2>2, <1>g DEF ReadHead
  <2>3. CASE CompareCursor
    <3>1. CASE SetStatus("REORGING", None) /\ Goto("locate")
      BY <3>1, <1>e DEF SetStatus, Goto
    <3>. QED
      BY <2>3, <3>1, <1>f, <1>g DEF CompareCursor, Goto
  <2>4. CASE LocateAncestor
    <3>1. ASSUME NEW a, RollbackTo(a), Goto("source"), a \in RecentHeaders(Window), Live(a),
                 \A b \in RecentHeaders(Window) : Live(b) => Height(b) <= Height(a)
          PROVE  IndexIsExact' /\ FoundExact'
      <4>1. cursor \in Blocks /\ source \in Blocks /\ IsAncestor(a, cursor)
        BY <2>4, <3>1, <1>a, RollbackSettled DEF LocateAncestor, PlaceOK, StoreTypeOK
      <4>2. IndexIsExact'
        BY <3>1, <4>1, <1>a, RollbackExact
      <4>. QED
        BY <3>1, <4>2 DEF Goto, FoundExact
    <3>. QED
      BY <2>4, <3>1, <1>f, <1>r DEF LocateAncestor, Goto
  <2>5. CASE FindSource
    BY <2>5, <1>f, <1>g, <1>r DEF FindSource, Goto
  <2>6. CASE RetainSource
    BY <2>6, <1>e, <1>f DEF RetainSource, RetainHeaders, Goto
  <2>7. CASE EstablishSource
    <3>1. cursor = None
      BY <2>7, <1>a DEF EstablishSource, PlaceOK
    <3>. QED
      BY <2>7, <3>1 DEF EstablishSource, InitializeSource, Goto, IndexIsExact, FoundExact
  <2>8. CASE ReadTarget
    <3>1. /\ source \in Blocks /\ cursor \in Blocks \cup {None}
          /\ source' = source /\ cursor' = cursor /\ HeadNumber' = HeadNumber
      BY <2>8, <1>a DEF ReadTarget, PlaceOK, StoreTypeOK, storeVars, HeadNumber
    <3>2. FoundExact'
      BY <2>8, <3>1, <1>b, NextRangeExact DEF ReadTarget
    <3>. QED
      BY <2>8, <3>2, <1>a, SameRowsExact DEF ReadTarget, storeVars
  <2>9. CASE CollectPage
    <3>1. PICK last \in scanFrom..RangeEnd :
            /\ found' = found \cup {BlockAt(n) : n \in
                     {m \in scanFrom..last : Exists(m) /\ Selected(BlockAt(m))}}
            /\ scanFrom' = last + 1
            /\ pc' = IF last = RangeEnd THEN "headers" ELSE "collect"
      BY <2>9 DEF CollectPage
    <3>2. /\ RangeStart' = RangeStart /\ RangeEnd' = RangeEnd /\ HeadNumber' = HeadNumber
          /\ \A n : BlockAt(n)' = BlockAt(n) /\ Selected(BlockAt(n))' = Selected(BlockAt(n))
      BY <2>9 DEF CollectPage, storeVars, RangeStart, RangeEnd, HeadNumber, BlockAt, Selected
    <3>3. /\ RangeStart \in Nat /\ RangeEnd \in Int /\ RangeEnd <= knownHead
          /\ knownHead <= HeadNumber /\ scanFrom \in Nat /\ knownHead \in Nat
          /\ RangeStart <= scanFrom
          /\ found = {BlockAt(n) : n \in {m \in RangeStart..(scanFrom - 1) :
                                             Selected(BlockAt(m))}}
      BY <2>9, <1>a, <1>b
         DEF CollectPage, RangeOK, FoundExact, RangeStart, RangeEnd, PlaceOK, StoreTypeOK,
             LocalTypeOK
    <3>4. \A m \in scanFrom..last : Exists(m)
      BY <3>1, <3>3, <1>b DEF Exists
    <3>5. \A m : m \in RangeStart..last <=>
                   m \in RangeStart..(scanFrom - 1) \/ m \in scanFrom..last
      BY <3>1, <3>3
    <3>6. found' = {BlockAt(n) : n \in {m \in RangeStart..last : Selected(BlockAt(m))}}
      BY <3>1, <3>3, <3>4, <3>5
    <3>7. scanFrom' - 1 = last /\ scanFrom' <= RangeEnd + 1
      BY <3>1, <3>3
    <3>8. found' = {BlockAt(n)' : n \in {m \in RangeStart'..(scanFrom' - 1) :
                                            Selected(BlockAt(m))'}}
      BY <3>2, <3>6, <3>7
    <3>9. pc' # "collect" => scanFrom' = RangeEnd' + 1
      BY <3>1, <3>2
    <3>10. FoundExact'
      BY <2>9, <3>2, <3>3, <3>7, <3>8, <3>9 DEF CollectPage, FoundExact
    <3>. QED
      BY <2>9, <3>10, <1>a, SameRowsExact DEF CollectPage, storeVars
  <2>10. CASE FetchHeaders
    <3>1. ASSUME pc' = "commit", UNCHANGED <<storeVars, knownHead, scanFrom, found>>
          PROVE  IndexIsExact' /\ FoundExact'
      <4>1. /\ RangeStart' = RangeStart /\ RangeEnd' = RangeEnd /\ HeadNumber' = HeadNumber
            /\ \A n : BlockAt(n)' = BlockAt(n) /\ Selected(BlockAt(n))' = Selected(BlockAt(n))
        BY <3>1 DEF storeVars, RangeStart, RangeEnd, HeadNumber, BlockAt, Selected
      <4>2. FoundExact'
        BY <2>10, <3>1, <4>1, <1>a DEF FetchHeaders, FoundExact
      <4>. QED
        BY <3>1, <4>2, <1>a, SameRowsExact DEF storeVars
    <3>. QED
      BY <2>10, <3>1, <1>f DEF FetchHeaders
  <2>11. CASE CommitRange
    <3>1. ASSUME NEW through \in fetched, Height(through) = RangeEnd, Live(through),
                 CommitBatch(through, fetched, found), NextRange(through, knownHead)
          PROVE  IndexIsExact' /\ FoundExact'
      <4>1. IndexIsExact'
        BY <2>11, <3>1, CommitExact DEF CommitRange
      <4>2. /\ through \in Blocks /\ source \in Blocks /\ knownHead \in Nat
            /\ knownHead <= HeadNumber /\ HeadNumber' = HeadNumber
            /\ cursor' = through /\ source' = source
        BY <2>11, <3>1, <1>a
           DEF CommitRange, LocalTypeOK, PlaceOK, StoreTypeOK, FoundExact, CommitBatch, HeadNumber
      <4>3. FoundExact'
        BY <3>1, <4>2, <1>b, NextRangeExact
      <4>. QED
        BY <4>1, <4>3
    <3>. QED
      BY <2>11, <3>1, <1>f DEF CommitRange
  <2>12. CASE RetainWindow
    BY <2>12, <1>e, <1>f, <1>g DEF RetainWindow, RetainHeaders, Goto
  <2>13. CASE ConfirmCursor
    BY <2>13, <1>f, <1>g DEF ConfirmCursor, Goto
  <2>14. CASE ConfirmParent
    BY <2>14, <1>f, <1>g DEF ConfirmParent, Goto
  <2>15. CASE ConfirmHead
    BY <2>15, <1>e, <1>f DEF ConfirmHead, RetainHeaders, Goto
  <2>16. CASE Publish
    BY <2>16, <1>e, <1>f DEF Publish, PersistCompleteSnapshot
  <2>. QED
    BY <1>1, <2>1, <2>2, <2>3, <2>4, <2>5, <2>6, <2>7, <2>8, <2>9, <2>10, <2>11,
       <2>12, <2>13, <2>14, <2>15, <2>16 DEF SyncStep
<1>2. CASE Fault
  BY <1>2, <1>f DEF Fault
<1>3. CASE Crash
  BY <1>3, <1>g DEF Crash
<1>4. CASE Restart
  BY <1>4, <1>g, <1>r DEF Restart
<1>5. CASE ChainGrows
  <2>1. FoundExact'
    BY <1>5, GrowthKeepsFound DEF ChainGrows
  <2>. QED
    BY <1>5, <2>1, <1>a, SameRowsExact DEF ChainGrows, storeVars
<1>6. CASE ChainReorgs
  <2>1. pc' \in {"idle", "down"}
    BY <1>6 DEF ChainReorgs, ExactInv, localVars
  <2>. QED
    BY <1>6, <2>1, <1>g DEF ChainReorgs
<1>7. CASE UNCHANGED vars
  <2>1. /\ RangeStart' = RangeStart /\ RangeEnd' = RangeEnd /\ HeadNumber' = HeadNumber
        /\ \A n : BlockAt(n)' = BlockAt(n) /\ Selected(BlockAt(n))' = Selected(BlockAt(n))
    BY <1>7 DEF vars, chainVars, storeVars, localVars, RangeStart, RangeEnd, HeadNumber, BlockAt,
                Selected
  <2>2. FoundExact'
    BY <1>7, <2>1, <1>a DEF vars, localVars, FoundExact
  <2>. QED
    BY <1>7, <2>2, <1>a, SameRowsExact DEF vars, storeVars
<1>. QED
  BY <1>1, <1>2, <1>3, <1>4, <1>5, <1>6, <1>7 DEF Next

(* IndexIsExact for every chain, window, range size, page size, horizon,     *)
(* model version, fault and crash, where the horizons lie in final history   *)
(* and no reorg lands inside a running attempt: the committed events are     *)
(* the selected blocks of the cursor's history, none missing and none more.  *)
THEOREM Exact ==
  HorizonsAreFinal /\ ReorgMidSync = FALSE /\ Spec => []IndexIsExact
<1>1. ExactInv => IndexIsExact
  BY DEF ExactInv
<1>2. HorizonsAreFinal /\ ReorgMidSync = FALSE /\ Spec => []ExactInv
  BY InitExact, NextExact, PTL DEF Spec
<1>. QED
  BY <1>1, <1>2, PTL
=============================================================================
