---------------------------- MODULE IndexerProofs ----------------------------
(***************************************************************************)
(* Type correctness of the indexer and the invariant ServedIsBacked, for   *)
(* every chain, range size, window, horizon set, fault set and bound.      *)
(***************************************************************************)
EXTENDS IncrementalIndexer, BlockProofs, TLAPS

---------------------------------------------------------------------------
(* The store's transactions keep the store's type. *)

LEMMA SetStatusType ==
  ASSUME StoreTypeOK,
         NEW new \in Statuses, NEW code \in ErrorCodes \cup {None},
         SetStatus(new, code)
  PROVE  StoreTypeOK'
BY DEF StoreTypeOK, SetStatus

LEMMA RetainHeadersType ==
  ASSUME StoreTypeOK, NEW hs \in SUBSET Blocks, RetainHeaders(hs)
  PROVE  StoreTypeOK'
BY DEF StoreTypeOK, RetainHeaders

LEMMA CommitBatchType ==
  ASSUME StoreTypeOK,
         NEW through \in Blocks, NEW hs \in SUBSET Blocks, NEW es \in SUBSET Blocks,
         CommitBatch(through, hs, es)
  PROVE  StoreTypeOK'
BY DEF StoreTypeOK, CommitBatch, Statuses

LEMMA RollbackType ==
  ASSUME StoreTypeOK, NEW ancestor, RollbackTo(ancestor)
  PROVE  StoreTypeOK'
BY DEF StoreTypeOK, RollbackTo, Statuses

LEMMA ResetType ==
  ASSUME StoreTypeOK, NEW version \in Versions, ResetForReplay(version)
  PROVE  StoreTypeOK'
BY DEF StoreTypeOK, ResetForReplay, Statuses

LEMMA PersistType ==
  ASSUME StoreTypeOK, NEW s \in Snapshots, PersistCompleteSnapshot(s)
  PROVE  StoreTypeOK'
BY DEF StoreTypeOK, PersistCompleteSnapshot, Statuses

LEMMA StoreStutterType ==
  ASSUME StoreTypeOK, UNCHANGED storeVars
  PROVE  StoreTypeOK'
BY DEF StoreTypeOK, storeVars

---------------------------------------------------------------------------
(* Type correctness *)

(* What the process knows at each place: a source while it establishes none, *)
(* a cursor while it publishes.                                              *)
PlaceOK ==
  /\ pc \in {"retain", "init"} => source = None /\ boundary # None
  /\ pc \in {"target", "collect", "headers", "commit"} => source # None
  /\ pc \in {"locate", "parent", "publish", "persist", "disagree"} => cursor # None
  /\ cursor # None => source # None

TypeInv == TypeOK /\ PlaceOK

LEMMA FailType ==
  ASSUME StoreTypeOK, NEW code \in ErrorCodes, Fail(code), PlaceOK
  PROVE  /\ StoreTypeOK'
         /\ pc' = "idle" /\ horizon' = horizon /\ knownHead' = 0 /\ boundary' = None
         /\ scanFrom' = 0 /\ found' = {} /\ fetched' = {}
         /\ PlaceOK'
<1>1. SetStatus("ERROR", code)
  BY DEF Fail
<1>2. StoreTypeOK'
  BY <1>1, SetStatusType DEF Statuses
<1>. QED
  BY <1>1, <1>2 DEF Fail, Forget, SetStatus, PlaceOK

LEMMA InitType == Init => TypeInv
BY ChainAssumption, StoreAssumption, IndexerAssumption
   DEF Init, StoreInit, TypeInv, TypeOK, ChainTypeOK, StoreTypeOK, LocalTypeOK,
       PlaceOK, Blocks, Places, Statuses

(* One step per action.  A step that fails the attempt is FailType; every    *)
(* other one writes blocks it took from the chain or from its own variables. *)
LEMMA NextType == TypeInv /\ [Next]_vars => TypeInv'
<1>. SUFFICES ASSUME TypeInv, [Next]_vars PROVE TypeInv'
  OBVIOUS
<1>. USE ChainAssumption, StoreAssumption, IndexerAssumption
<1>a. ChainTypeOK /\ StoreTypeOK /\ LocalTypeOK /\ PlaceOK
  BY DEF TypeInv, TypeOK
<1>b. chain \in Blocks /\ HeadNumber \in Nat
  BY <1>a DEF ChainTypeOK, HeadNumber, Height, Blocks
<1>c. \A n : Exists(n) => BlockAt(n) \in Blocks /\ Height(BlockAt(n)) = n /\ n \in Nat
  BY <1>b, AncestorType DEF Exists, BlockAt, HeadNumber
<1>d. \A c \in Blocks : Height(c) \in Nat
  BY DEF Blocks, Height
<1>e. NotFound \in ErrorCodes /\ "INDEX_CORRUPT" \in ErrorCodes
      /\ "INCONSISTENT_BLOCK_DATA" \in ErrorCodes /\ "INSUFFICIENT_HISTORY" \in ErrorCodes
  BY DEF NotFound, ErrorCodes
<1>f. ASSUME NEW code \in ErrorCodes, Fail(code), UNCHANGED chainVars, faults' \in 0..MaxFaults
      PROVE  TypeInv'
  <2>1. /\ StoreTypeOK' /\ PlaceOK'
        /\ pc' = "idle" /\ horizon' = horizon /\ knownHead' = 0 /\ boundary' = None
        /\ scanFrom' = 0 /\ found' = {} /\ fetched' = {}
    BY <1>a, <1>f, FailType
  <2>2. ChainTypeOK'
    BY <1>a, <1>f DEF ChainTypeOK, chainVars
  <2>. QED
    BY <2>1, <2>2, <1>f DEF TypeInv, TypeOK, LocalTypeOK, Places
<1>1. CASE SyncStep
  <2>. SUFFICES ASSUME UNCHANGED <<chainVars, faults>> PROVE TypeInv'
    BY <1>1 DEF SyncStep
  <2>a. ChainTypeOK' /\ faults' \in 0..MaxFaults
    BY <1>a DEF ChainTypeOK, chainVars, LocalTypeOK
  <2>b. ASSUME NEW code \in ErrorCodes, Fail(code) PROVE TypeInv'
    BY <1>f, <2>a, <2>b DEF chainVars
  <2>1. CASE StartSync
    <3>1. StoreTypeOK'
      BY <2>1, <1>a, SetStatusType DEF StartSync, Statuses
    <3>2. horizon' \in Horizons \cup {None}
      BY <2>1, <1>a DEF StartSync, DateHorizon, LocalTypeOK
    <3>. QED
      BY <2>1, <3>1, <3>2, <2>a, <1>a
         DEF StartSync, SetStatus, TypeInv, TypeOK, LocalTypeOK, PlaceOK, Places
  <2>2. CASE ReadHead
    <3>1. StoreTypeOK'
      BY <2>2, <1>a, StoreStutterType DEF ReadHead
    <3>. QED
      BY <2>2, <3>1, <2>a, <1>a, <1>b DEF ReadHead, storeVars, TypeInv, TypeOK, LocalTypeOK, PlaceOK, Places
  <2>3. CASE CompareCursor
    <3>1. CASE \E code \in ErrorCodes : Fail(code)
      BY <3>1, <2>b
    <3>2. CASE UNCHANGED storeVars /\ Goto("source")
      BY <3>2, <2>a, <1>a, StoreStutterType
         DEF Goto, storeVars, TypeInv, TypeOK, LocalTypeOK, PlaceOK, Places
    <3>3. CASE cursor # None /\ SetStatus("REORGING", None) /\ Goto("locate")
      <4>1. StoreTypeOK'
        BY <3>3, <1>a, SetStatusType DEF Statuses
      <4>. QED
        BY <3>3, <4>1, <2>a, <1>a
           DEF SetStatus, Goto, TypeInv, TypeOK, LocalTypeOK, PlaceOK, Places
    <3>. QED
      BY <2>3, <3>1, <3>2, <3>3, <1>e DEF CompareCursor
  <2>4. CASE LocateAncestor
    <3>1. CASE \E code \in ErrorCodes : Fail(code)
      BY <3>1, <2>b
    <3>2. CASE ResetForReplay(modelVersion) /\ Goto("source")
      <4>1. StoreTypeOK'
        BY <3>2, <1>a, ResetType DEF StoreTypeOK
      <4>. QED
        BY <3>2, <4>1, <2>a, <1>a
           DEF ResetForReplay, Goto, TypeInv, TypeOK, LocalTypeOK, PlaceOK, Places
    <3>3. CASE (\E x : RollbackTo(x)) /\ Goto("source") /\ cursor # None
      <4>1. StoreTypeOK'
        BY <3>3, <1>a, RollbackType
      <4>. QED
        BY <3>3, <4>1, <2>a, <1>a
           DEF RollbackTo, Goto, TypeInv, TypeOK, LocalTypeOK, PlaceOK, Places
    <3>4. cursor # None
      BY <2>4, <1>a DEF LocateAncestor, PlaceOK
    <3>. QED
      BY <2>4, <3>1, <3>2, <3>3, <3>4, <1>e DEF LocateAncestor
  <2>5. CASE FindSource
    <3>1. CASE \E code \in ErrorCodes : Fail(code)
      BY <3>1, <2>b
    <3>2. CASE ResetForReplay(modelVersion) /\ Goto("again")
      <4>1. StoreTypeOK'
        BY <3>2, <1>a, ResetType DEF StoreTypeOK
      <4>. QED
        BY <3>2, <4>1, <2>a, <1>a
           DEF ResetForReplay, Goto, TypeInv, TypeOK, LocalTypeOK, PlaceOK, Places
    <3>3. CASE source # None /\ Goto("target") /\ UNCHANGED storeVars
      BY <3>3, <2>a, <1>a, StoreStutterType
         DEF Goto, storeVars, TypeInv, TypeOK, LocalTypeOK, PlaceOK, Places
    <3>4. CASE /\ source = None
               /\ \E n : Exists(n) /\ boundary' = BlockAt(n)
               /\ pc' = "retain"
               /\ UNCHANGED <<storeVars, horizon, knownHead, scanFrom, found, fetched>>
      BY <3>4, <2>a, <1>a, <1>c, StoreStutterType
         DEF storeVars, TypeInv, TypeOK, LocalTypeOK, PlaceOK, Places
    <3>. QED
      BY <2>5, <3>1, <3>2, <3>3, <3>4, <1>e DEF FindSource
  <2>6. CASE RetainSource
    <3>1. CASE Fail("INCONSISTENT_BLOCK_DATA")
      BY <3>1, <2>b, <1>e
    <3>2. CASE RetainHeaders({boundary}) /\ Goto("init")
      <4>1. boundary \in Blocks
        BY <2>6, <1>a DEF RetainSource, PlaceOK, LocalTypeOK
      <4>2. StoreTypeOK'
        BY <3>2, <4>1, <1>a, RetainHeadersType
      <4>. QED
        BY <2>6, <3>2, <4>2, <2>a, <1>a
           DEF RetainSource, RetainHeaders, Goto, TypeInv, TypeOK, LocalTypeOK, PlaceOK, Places
    <3>. QED
      BY <2>6, <3>1, <3>2 DEF RetainSource
  <2>7. CASE EstablishSource
    <3>1. boundary \in Blocks /\ horizon \in Nat \cup {None}
      BY <2>7, <1>a DEF EstablishSource, PlaceOK, LocalTypeOK
    <3>2. StoreTypeOK'
      BY <2>7, <3>1, <1>a DEF EstablishSource, InitializeSource, StoreTypeOK
    <3>. QED
      BY <2>7, <3>1, <3>2, <2>a, <1>a
         DEF EstablishSource, InitializeSource, Goto, TypeInv, TypeOK, LocalTypeOK, PlaceOK, Places
  <2>8. CASE ReadTarget
    <3>1. StoreTypeOK' /\ source \in Blocks
      BY <2>8, <1>a, StoreStutterType DEF ReadTarget, PlaceOK, StoreTypeOK
    <3>2. \/ cursor = None
          \/ cursor \in Blocks
      BY <1>a DEF StoreTypeOK
    <3>. QED
      BY <2>8, <3>1, <3>2, <2>a, <1>a, <1>b, <1>d
         DEF ReadTarget, NextRange, storeVars, TypeInv, TypeOK, LocalTypeOK, PlaceOK, Places
  <2>9. CASE CollectPage
    <3>1. StoreTypeOK'
      BY <2>9, <1>a, StoreStutterType DEF CollectPage
    <3>2. PICK last \in scanFrom..RangeEnd :
            /\ found' = found \cup {BlockAt(n) : n \in
                     {m \in scanFrom..last : Exists(m) /\ Selected(BlockAt(m))}}
            /\ scanFrom' = last + 1
            /\ pc' = IF last = RangeEnd THEN "headers" ELSE "collect"
      BY <2>9 DEF CollectPage
    <3>3. found' \subseteq Blocks
      BY <3>2, <1>a, <1>c DEF LocalTypeOK
    <3>4. scanFrom' \in Nat
      BY <3>2, <1>a DEF LocalTypeOK
    <3>. QED
      BY <2>9, <3>1, <3>2, <3>3, <3>4, <2>a, <1>a
         DEF CollectPage, storeVars, TypeInv, TypeOK, LocalTypeOK, PlaceOK, Places
  <2>10. CASE FetchHeaders
    <3>1. CASE \E code \in ErrorCodes : Fail(code)
      BY <3>1, <2>b
    <3>2. CASE /\ \E N : (\A n \in N : Exists(n)) /\ fetched' = {BlockAt(n) : n \in N}
               /\ pc' = "commit"
               /\ UNCHANGED <<storeVars, horizon, knownHead, boundary, scanFrom, found>>
      <4>1. fetched' \subseteq Blocks
        BY <3>2, <1>c
      <4>2. StoreTypeOK'
        BY <3>2, <1>a, StoreStutterType
      <4>. QED
        BY <2>10, <3>2, <4>1, <4>2, <2>a, <1>a
           DEF FetchHeaders, storeVars, TypeInv, TypeOK, LocalTypeOK, PlaceOK, Places
    <3>. QED
      BY <2>10, <3>1, <3>2, <1>e DEF FetchHeaders
  <2>11. CASE CommitRange
    <3>1. CASE \E code \in ErrorCodes : Fail(code)
      BY <3>1, <2>b
    <3>2. CASE \E through \in fetched : /\ CommitBatch(through, fetched, found)
                                       /\ NextRange(through, knownHead)
      <4>1. PICK through \in fetched : /\ CommitBatch(through, fetched, found)
                                       /\ NextRange(through, knownHead)
        BY <3>2
      <4>2. through \in Blocks /\ through # None /\ Height(through) \in Nat
        BY <4>1, <1>a, <1>d DEF LocalTypeOK
      <4>3. StoreTypeOK'
        BY <4>1, <4>2, <1>a, CommitBatchType DEF LocalTypeOK
      <4>. QED
        BY <2>11, <4>1, <4>2, <4>3, <2>a, <1>a
           DEF CommitRange, CommitBatch, NextRange, TypeInv, TypeOK, LocalTypeOK, PlaceOK, Places
    <3>. QED
      BY <2>11, <3>1, <3>2, <1>e DEF CommitRange
  <2>12. CASE RetainWindow
    <3>1. CASE \E code \in ErrorCodes : Fail(code)
      BY <3>1, <2>b
    <3>2. CASE UNCHANGED storeVars /\ Goto("cursor")
      BY <3>2, <2>a, <1>a, StoreStutterType
         DEF Goto, storeVars, TypeInv, TypeOK, LocalTypeOK, PlaceOK, Places
    <3>3. CASE \E N : /\ \A n \in N : Exists(n)
                      /\ RetainHeaders({BlockAt(n) : n \in N})
                      /\ Goto("cursor")
      <4>1. StoreTypeOK'
        BY <3>3, <1>a, <1>c, RetainHeadersType
      <4>. QED
        BY <3>3, <4>1, <2>a, <1>a
           DEF RetainHeaders, Goto, TypeInv, TypeOK, LocalTypeOK, PlaceOK, Places
    <3>. QED
      BY <2>12, <3>1, <3>2, <3>3, <1>e DEF RetainWindow
  <2>13. CASE ConfirmCursor
    <3>1. CASE \E code \in ErrorCodes : Fail(code)
      BY <3>1, <2>b
    <3>2. CASE cursor # None /\ UNCHANGED storeVars /\ Goto("parent")
      BY <3>2, <2>a, <1>a, StoreStutterType
         DEF Goto, storeVars, TypeInv, TypeOK, LocalTypeOK, PlaceOK, Places
    <3>. QED
      BY <2>13, <3>1, <3>2, <1>e DEF ConfirmCursor
  <2>14. CASE ConfirmParent
    <3>1. CASE \E code \in ErrorCodes : Fail(code)
      BY <3>1, <2>b
    <3>2. CASE pc = "parent" /\ UNCHANGED storeVars /\ Goto("publish")
      BY <3>2, <2>a, <1>a, StoreStutterType
         DEF Goto, storeVars, TypeInv, TypeOK, LocalTypeOK, PlaceOK, Places
    <3>. QED
      BY <2>14, <3>1, <3>2, <1>e DEF ConfirmParent
  <2>15. CASE ConfirmHead
    <3>1. CASE \E code \in ErrorCodes : Fail(code)
      BY <3>1, <2>b
    <3>2. CASE /\ pc = "publish"
               /\ RetainHeaders({Parent(cursor), cursor})
               /\ \E place \in {"disagree", "persist"} : Goto(place)
      <4>1. cursor \in Blocks /\ Parent(cursor) \in Blocks
        BY <3>2, <1>a, ParentType DEF PlaceOK, StoreTypeOK
      <4>2. StoreTypeOK'
        BY <3>2, <4>1, <1>a, RetainHeadersType
      <4>. QED
        BY <3>2, <4>1, <4>2, <2>a, <1>a
           DEF RetainHeaders, Goto, TypeInv, TypeOK, LocalTypeOK, PlaceOK, Places
    <3>. QED
      BY <2>15, <3>1, <3>2, <1>e DEF ConfirmHead
  <2>16. CASE Publish
    <3>1. CASE \E code \in ErrorCodes : Fail(code)
      BY <3>1, <2>b
    <3>2. CASE \E s : /\ s = [through |-> cursor, source |-> source,
                             events |-> events, model |-> modelVersion]
                      /\ PersistCompleteSnapshot(s) /\ pc' = "idle" /\ Forget
      <4>1. cursor \in Blocks /\ source \in Blocks
        BY <2>16, <1>a DEF Publish, Assembled, PlaceOK, StoreTypeOK
      <4>2. [through |-> cursor, source |-> source,
             events |-> events, model |-> modelVersion] \in Snapshots
        BY <4>1, <1>a DEF Snapshots, StoreTypeOK
      <4>3. StoreTypeOK'
        BY <3>2, <4>2, <1>a, PersistType
      <4>. QED
        BY <3>2, <4>3, <2>a, <1>a
           DEF PersistCompleteSnapshot, Forget, TypeInv, TypeOK, LocalTypeOK, PlaceOK, Places
    <3>. QED
      BY <2>16, <3>1, <3>2, <1>e DEF Publish, Assembled
  <2>. QED
    BY <1>1, <2>1, <2>2, <2>3, <2>4, <2>5, <2>6, <2>7, <2>8, <2>9, <2>10, <2>11,
       <2>12, <2>13, <2>14, <2>15, <2>16 DEF SyncStep
<1>2. CASE Fault
  BY <1>2, <1>a, <1>f DEF Fault, LocalTypeOK
<1>3. CASE Crash
  <2>1. StoreTypeOK' /\ ChainTypeOK'
    BY <1>3, <1>a, StoreStutterType DEF Crash, ChainTypeOK, chainVars
  <2>. QED
    BY <1>3, <2>1, <1>a DEF Crash, Forget, storeVars, TypeInv, TypeOK, LocalTypeOK, PlaceOK, Places
<1>4. CASE Restart
  <2>1. ChainTypeOK'
    BY <1>4, <1>a DEF Restart, ChainTypeOK, chainVars
  <2>2. CASE UNCHANGED storeVars
    BY <1>4, <2>1, <2>2, <1>a, StoreStutterType
       DEF Restart, storeVars, TypeInv, TypeOK, LocalTypeOK, PlaceOK, Places
  <2>3. CASE \E v \in Versions : ResetForReplay(v)
    <3>1. StoreTypeOK'
      BY <2>3, <1>a, ResetType
    <3>. QED
      BY <1>4, <2>1, <2>3, <3>1, <1>a
         DEF Restart, ResetForReplay, TypeInv, TypeOK, LocalTypeOK, PlaceOK, Places
  <2>. QED
    BY <1>4, <2>2, <2>3 DEF Restart
<1>5. CASE ChainGrows
  <2>1. StoreTypeOK'
    BY <1>5, <1>a, StoreStutterType DEF ChainGrows
  <2>2. ChainTypeOK'
    BY <1>5, <1>a DEF ChainGrows, Extend, ChainTypeOK, Blocks
  <2>. QED
    BY <1>5, <2>1, <2>2, <1>a
       DEF ChainGrows, storeVars, localVars, TypeInv, TypeOK, LocalTypeOK, PlaceOK
<1>6. CASE ChainReorgs
  <2>1. StoreTypeOK'
    BY <1>6, <1>a, StoreStutterType DEF ChainReorgs
  <2>2. PICK n \in Finalized..(HeadNumber - 1) : chain' = BlockAt(n)
    BY <1>6 DEF ChainReorgs, Revert
  <2>3. Exists(n)
    BY <2>2, <1>b DEF Exists
  <2>4. ChainTypeOK'
    BY <1>6, <2>2, <2>3, <1>a, <1>c DEF ChainReorgs, Revert, ChainTypeOK
  <2>. QED
    BY <1>6, <2>1, <2>4, <1>a
       DEF ChainReorgs, storeVars, localVars, TypeInv, TypeOK, LocalTypeOK, PlaceOK
<1>7. CASE UNCHANGED vars
  <2>1. StoreTypeOK'
    BY <1>7, <1>a, StoreStutterType DEF vars
  <2>. QED
    BY <1>7, <2>1, <1>a
       DEF vars, chainVars, storeVars, localVars, TypeInv, TypeOK, ChainTypeOK, LocalTypeOK, PlaceOK
<1>. QED
  BY <1>1, <1>2, <1>3, <1>4, <1>5, <1>6, <1>7 DEF Next

LEMMA TypeInvariant == Spec => []TypeInv
<1>. QED
  BY InitType, NextType, PTL DEF Spec

(* Every variable of the indexer keeps its type: in particular no step       *)
(* publishes a snapshot without a cursor or a source boundary, or retains    *)
(* anything but a block.                                                     *)
THEOREM TypeCorrect == Spec => []TypeOK
<1>1. TypeInv => TypeOK
  BY DEF TypeInv
<1>. QED
  BY TypeInvariant, <1>1, PTL

---------------------------------------------------------------------------
(* Ancestry and the chain *)

LEMMA IsAncestorSelf ==
  ASSUME NEW b \in Blocks
  PROVE  IsAncestor(b, b)
BY AncestorSelf DEF IsAncestor, Blocks, Height

LEMMA IsAncestorTransitive ==
  ASSUME NEW a \in Blocks, NEW b \in Blocks, NEW c \in Blocks,
         IsAncestor(a, b), IsAncestor(b, c)
  PROVE  IsAncestor(a, c)
<1>1. /\ Height(a) \in 0..Height(b) /\ Height(b) \in 0..Height(c)
      /\ Ancestor(b, Height(a)) = a /\ Ancestor(c, Height(b)) = b
      /\ Height(a) \in Nat /\ Height(b) \in Nat /\ Height(c) \in Nat
  BY DEF IsAncestor, Blocks, Height
<1>2. Ancestor(Ancestor(c, Height(b)), Height(a)) = Ancestor(c, Height(a))
  BY <1>1, AncestorOfAncestor
<1>3. Ancestor(c, Height(a)) = a
  BY <1>1, <1>2
<1>4. Height(a) <= Height(c)
  BY <1>1
<1>. QED
  BY <1>3, <1>4 DEF IsAncestor

(* A canonical block is an ancestor of every canonical block not below it. *)
LEMMA LiveIsAncestor ==
  ASSUME chain \in Blocks, NEW a \in Blocks, Live(a),
         NEW n \in Height(a)..HeadNumber
  PROVE  IsAncestor(a, BlockAt(n))
<1>1. /\ Height(a) \in 0..n /\ n \in 0..Height(chain)
      /\ Ancestor(chain, Height(a)) = a
  BY DEF Live, IsAncestor, Blocks, Height, HeadNumber
<1>2. Ancestor(Ancestor(chain, n), Height(a)) = Ancestor(chain, Height(a))
  BY <1>1, AncestorOfAncestor
<1>3. Height(Ancestor(chain, n)) = n
  BY <1>1, AncestorType
<1>. QED
  BY <1>1, <1>2, <1>3 DEF IsAncestor, BlockAt

---------------------------------------------------------------------------
(* The strengthening of ServedIsBacked that every step preserves.  The rows  *)
(* of the store: *)

(* At most one block per number. *)
OnePerNumber(hs) == \A g, h \in hs : Height(g) = Height(h) => g = h

HeadersUnique == OnePerNumber(headers)

CursorRetained == cursor # None => cursor \in headers

EventsBelowCursor == \A e \in events : cursor # None /\ Height(e) <= Height(cursor)

(* A rollback below the source removes the source header, so while the       *)
(* header is there the cursor is not below it; this is why the link check of *)
(* FetchHeaders, which a range that starts at the source skips, protects an  *)
(* active snapshot.                                                          *)
SourceBelowCursor ==
  cursor # None /\ source \in headers => Height(source) <= Height(cursor)

ActiveOnSource == active # None => source \in headers

RowsInv == /\ HeadersUnique /\ CursorRetained /\ EventsBelowCursor
           /\ SourceBelowCursor /\ ActiveOnSource /\ ServedIsBacked

(* The range in flight: *)

RangeOK ==
  pc \in {"collect", "headers", "commit"} =>
    /\ RangeStart <= knownHead
    /\ \A e \in found : RangeStart <= Height(e) /\ Height(e) <= RangeEnd
    /\ RangeStart <= scanFrom

FetchedOK ==
  pc = "commit" =>
    /\ OnePerNumber(fetched)
    /\ \A h \in fetched :
         /\ Height(h) <= RangeEnd
         /\ Height(h) = RangeEnd /\ cursor # None /\ source \in headers
              => IsAncestor(cursor, h)

BackedInv == TypeInv /\ RowsInv /\ RangeOK /\ FetchedOK

---------------------------------------------------------------------------
(* The store's transactions keep the rows consistent. *)

LEMMA StoreStutterRows ==
  ASSUME RowsInv, UNCHANGED storeVars
  PROVE  RowsInv'
BY DEF storeVars, RowsInv, HeadersUnique, OnePerNumber, CursorRetained, EventsBelowCursor,
       SourceBelowCursor, ActiveOnSource, ServedIsBacked

LEMMA SetStatusRows ==
  ASSUME RowsInv, NEW new, NEW code, SetStatus(new, code)
  PROVE  RowsInv'
BY DEF SetStatus, RowsInv, HeadersUnique, OnePerNumber, CursorRetained, EventsBelowCursor,
       SourceBelowCursor, ActiveOnSource, ServedIsBacked

LEMMA RetainHeadersRows ==
  ASSUME RowsInv, NEW hs, RetainHeaders(hs), OnePerNumber(hs),
         cursor # None /\ source \in hs => Height(source) <= Height(cursor)
  PROVE  RowsInv'
<1>1. HeadersUnique'
  BY DEF RetainHeaders, Agrees, HeaderAt, RowsInv, HeadersUnique, OnePerNumber
<1>. QED
  BY <1>1 DEF RetainHeaders, RowsInv, CursorRetained, EventsBelowCursor,
              SourceBelowCursor, ActiveOnSource, ServedIsBacked

LEMMA ResetRows ==
  ASSUME NEW version, ResetForReplay(version)
  PROVE  RowsInv'
BY DEF ResetForReplay, RowsInv, HeadersUnique, OnePerNumber, CursorRetained,
       EventsBelowCursor, SourceBelowCursor, ActiveOnSource, ServedIsBacked

LEMMA RollbackRows ==
  ASSUME StoreTypeOK, RowsInv, NEW ancestor, RollbackTo(ancestor)
  PROVE  RowsInv'
<1>1. ancestor \in headers /\ ancestor \in Blocks /\ ancestor # None
  BY StoreAssumption DEF RollbackTo, StoreTypeOK
<1>2. Height(ancestor) \in Nat
  BY <1>1 DEF Blocks, Height
<1>. QED
  BY <1>1, <1>2
     DEF RollbackTo, RowsInv, HeadersUnique, OnePerNumber, CursorRetained, EventsBelowCursor,
         SourceBelowCursor, ActiveOnSource, ServedIsBacked

LEMMA PersistRows ==
  ASSUME StoreTypeOK, RowsInv, cursor # None, source \in headers,
         PersistCompleteSnapshot([through |-> cursor, source |-> source,
                                  events |-> events, model |-> modelVersion])
  PROVE  RowsInv'
<1>1. cursor \in Blocks
  BY DEF StoreTypeOK
<1>2. IsAncestor(cursor, cursor)
  BY <1>1, IsAncestorSelf
<1>3. events = {e \in events : Height(e) <= Height(cursor)}
  BY DEF RowsInv, EventsBelowCursor
<1>. QED
  BY <1>2, <1>3
     DEF PersistCompleteSnapshot, RowsInv, HeadersUnique, OnePerNumber, CursorRetained,
         EventsBelowCursor, SourceBelowCursor, ActiveOnSource, ServedIsBacked

LEMMA CommitBatchRows ==
  ASSUME StoreTypeOK, RowsInv, source # None,
         NEW through \in Blocks, NEW hs \in SUBSET Blocks, NEW es \in SUBSET Blocks,
         CommitBatch(through, hs, es),
         through \in hs,
         OnePerNumber(hs),
         \A h \in hs : Height(h) <= Height(through),
         \A e \in es : RangeStart <= Height(e) /\ Height(e) <= Height(through),
         RangeStart <= Height(through),
         cursor # None /\ source \in headers => IsAncestor(cursor, through)
  PROVE  RowsInv'
<1>1. HeadersUnique'
  BY DEF CommitBatch, Agrees, HeaderAt, RowsInv, HeadersUnique, OnePerNumber
<1>2. through # None /\ CursorRetained'
  BY StoreAssumption DEF CommitBatch, CursorRetained
<1>3. /\ Height(through) \in Nat
      /\ \A b \in Blocks : Height(b) \in Nat
      /\ cursor \in Blocks \cup {None} /\ source \in Blocks /\ events \subseteq Blocks
  BY DEF Blocks, Height, StoreTypeOK
<1>4. EventsBelowCursor'
  <2>1. \A e \in events : cursor # None /\ Height(e) <= Height(cursor)
    BY DEF RowsInv, EventsBelowCursor
  <2>. QED
    BY <1>2, <1>3, <2>1 DEF CommitBatch, EventsBelowCursor, RangeStart
<1>5. SourceBelowCursor'
  <2>1. CASE source \in hs
    BY <2>1, <1>3 DEF CommitBatch, SourceBelowCursor
  <2>2. CASE source \in headers
    BY <2>2, <1>3 DEF CommitBatch, SourceBelowCursor, RowsInv, RangeStart
  <2>. QED
    BY <2>1, <2>2 DEF CommitBatch, SourceBelowCursor
<1>6. ActiveOnSource'
  BY DEF CommitBatch, RowsInv, ActiveOnSource
<1>7. ServedIsBacked'
  <2>. SUFFICES ASSUME active # None PROVE ServedIsBacked'
    BY DEF CommitBatch, ServedIsBacked
  <2>1. /\ active \in snapshots /\ active.source = source /\ active.model = modelVersion
        /\ cursor # None /\ active.through \in headers
        /\ IsAncestor(active.through, cursor)
        /\ active.events = {e \in events : Height(e) <= Height(active.through)}
    BY DEF RowsInv, ServedIsBacked
  <2>2. active.through \in Blocks /\ cursor \in Blocks
    BY <2>1, <1>3 DEF StoreTypeOK, Snapshots
  <2>3. IsAncestor(cursor, through)
    BY <2>1 DEF RowsInv, ActiveOnSource
  <2>4. IsAncestor(active.through, through)
    BY <2>1, <2>2, <2>3, IsAncestorTransitive
  <2>5. \A e \in es : Height(active.through) < Height(e)
    BY <2>1, <2>2, <1>3 DEF IsAncestor, RangeStart
  <2>6. {e \in events \cup es : Height(e) <= Height(active.through)}
          = {e \in events : Height(e) <= Height(active.through)}
    BY <2>2, <2>5, <1>3
  <2>. QED
    BY <1>2, <2>1, <2>4, <2>6 DEF CommitBatch, ServedIsBacked
<1>. QED
  BY <1>1, <1>2, <1>4, <1>5, <1>6, <1>7 DEF RowsInv

LEMMA FailRows ==
  ASSUME RowsInv, NEW code, Fail(code)
  PROVE  RowsInv' /\ pc' = "idle"
BY SetStatusRows DEF Fail

LEMMA InitBacked == Init => BackedInv
BY InitType
   DEF Init, StoreInit, BackedInv, RowsInv, HeadersUnique, OnePerNumber, CursorRetained,
       EventsBelowCursor, SourceBelowCursor, ActiveOnSource, ServedIsBacked, RangeOK, FetchedOK

(* The range that NextRange starts is empty of events and not past the head. *)
LEMMA NextRangeOK ==
  ASSUME NEW through, NEW target, NextRange(through, target), cursor' = through,
         source' = source, source \in Blocks, through \in Blocks \cup {None}
  PROVE  RangeOK' /\ FetchedOK'
<1>1. pc' \in {"collect", "dense"} /\ found' = {} /\ knownHead' = target
  BY DEF NextRange
<1>2. RangeStart' = scanFrom'
  BY DEF NextRange, RangeStart
<1>3. scanFrom' \in Nat
  BY <1>1 DEF NextRange, Blocks, Height
<1>4. pc' = "collect" => scanFrom' <= knownHead'
  BY DEF NextRange
<1>. QED
  BY <1>1, <1>2, <1>3, <1>4 DEF RangeOK, FetchedOK

(* One step per action.  Outside the three places of a range in flight only  *)
(* the rows matter, and each transaction has its lemma.                      *)
LEMMA NextBacked == BackedInv /\ [Next]_vars => BackedInv'
<1>. SUFFICES ASSUME BackedInv, [Next]_vars PROVE BackedInv'
  OBVIOUS
<1>. USE ChainAssumption, StoreAssumption, IndexerAssumption
<1>a. /\ ChainTypeOK /\ StoreTypeOK /\ LocalTypeOK /\ PlaceOK
      /\ RowsInv /\ RangeOK /\ FetchedOK
  BY DEF BackedInv, TypeInv, TypeOK
<1>b. TypeInv'
  BY NextType DEF BackedInv
<1>c. /\ chain \in Blocks /\ HeadNumber \in Nat
      /\ \A b \in Blocks : Height(b) \in Nat
  BY <1>a DEF ChainTypeOK, HeadNumber, Height, Blocks
<1>d. \A n : Exists(n) => /\ BlockAt(n) \in Blocks /\ Height(BlockAt(n)) = n
                          /\ n \in 0..HeadNumber
  BY <1>c, AncestorType DEF Exists, BlockAt, HeadNumber
<1>e. ASSUME RowsInv', pc' \notin {"collect", "headers", "commit"}
      PROVE  BackedInv'
  BY <1>e, <1>b DEF BackedInv, RangeOK, FetchedOK
<1>f. ASSUME NEW code, Fail(code) PROVE BackedInv'
  BY <1>f, <1>a, <1>e, FailRows
<1>g. ASSUME UNCHANGED storeVars, pc' \notin {"collect", "headers", "commit"}
      PROVE  BackedInv'
  BY <1>g, <1>a, <1>e, StoreStutterRows
<1>h. ASSUME UNCHANGED <<storeVars, localVars>> PROVE BackedInv'
  <2>1. RowsInv'
    BY <1>h, <1>a, StoreStutterRows
  <2>. QED
    BY <2>1, <1>h, <1>a, <1>b
       DEF storeVars, localVars, BackedInv, RangeOK, FetchedOK, OnePerNumber, RangeStart, RangeEnd
<1>1. CASE SyncStep
  <2>1. CASE StartSync
    BY <2>1, <1>a, <1>e, SetStatusRows DEF StartSync
  <2>2. CASE ReadHead
    BY <2>2, <1>g DEF ReadHead
  <2>3. CASE CompareCursor
    BY <2>3, <1>a, <1>e, <1>f, <1>g, SetStatusRows DEF CompareCursor, Goto
  <2>4. CASE LocateAncestor
    BY <2>4, <1>a, <1>e, <1>f, ResetRows, RollbackRows DEF LocateAncestor, Goto
  <2>5. CASE FindSource
    BY <2>5, <1>e, <1>f, <1>g, ResetRows DEF FindSource, Goto
  <2>6. CASE RetainSource
    <3>1. cursor = None
      BY <2>6, <1>a DEF RetainSource, PlaceOK
    <3>2. ASSUME RetainHeaders({boundary}), Goto("init") PROVE BackedInv'
      BY <3>1, <3>2, <1>a, <1>e, RetainHeadersRows DEF Goto, OnePerNumber
    <3>. QED
      BY <2>6, <3>2, <1>f DEF RetainSource
  <2>7. CASE EstablishSource
    <3>1. cursor = None /\ source = None /\ active = None
      BY <2>7, <1>a DEF EstablishSource, PlaceOK, RowsInv, ActiveOnSource, StoreTypeOK
    <3>2. RowsInv'
      BY <2>7, <3>1, <1>a
         DEF EstablishSource, InitializeSource, RowsInv, HeadersUnique, OnePerNumber,
             CursorRetained, EventsBelowCursor, SourceBelowCursor, ActiveOnSource, ServedIsBacked
    <3>. QED
      BY <2>7, <3>2, <1>e DEF EstablishSource, Goto
  <2>8. CASE ReadTarget
    <3>1. RowsInv'
      BY <2>8, <1>a, StoreStutterRows DEF ReadTarget
    <3>2. /\ source \in Blocks /\ cursor \in Blocks \cup {None}
          /\ source' = source /\ cursor' = cursor
      BY <2>8, <1>a DEF ReadTarget, PlaceOK, StoreTypeOK, storeVars
    <3>3. RangeOK' /\ FetchedOK'
      BY <2>8, <3>2, NextRangeOK DEF ReadTarget
    <3>. QED
      BY <3>1, <3>3, <1>b DEF BackedInv
  <2>9. CASE CollectPage
    <3>1. RowsInv'
      BY <2>9, <1>a, StoreStutterRows DEF CollectPage
    <3>2. PICK last \in scanFrom..RangeEnd :
            /\ found' = found \cup {BlockAt(n) : n \in
                     {m \in scanFrom..last : Exists(m) /\ Selected(BlockAt(m))}}
            /\ scanFrom' = last + 1
            /\ pc' = IF last = RangeEnd THEN "headers" ELSE "collect"
      BY <2>9 DEF CollectPage
    <3>3. RangeStart' = RangeStart /\ RangeEnd' = RangeEnd /\ knownHead' = knownHead
      BY <2>9 DEF CollectPage, storeVars, RangeStart, RangeEnd
    <3>4. /\ RangeStart \in Nat /\ RangeEnd \in Int /\ scanFrom \in Nat
          /\ RangeStart <= knownHead /\ RangeStart <= scanFrom
          /\ \A e \in found : RangeStart <= Height(e) /\ Height(e) <= RangeEnd
      BY <2>9, <1>a, <1>c
         DEF CollectPage, RangeOK, RangeStart, RangeEnd, PlaceOK, StoreTypeOK, LocalTypeOK
    <3>5. \A e \in found' : RangeStart <= Height(e) /\ Height(e) <= RangeEnd
      <4>. SUFFICES ASSUME NEW n \in scanFrom..last, Exists(n)
                    PROVE  RangeStart <= Height(BlockAt(n)) /\ Height(BlockAt(n)) <= RangeEnd
        BY <3>2, <3>4
      <4>. QED
        BY <3>4, <1>d
    <3>6. RangeOK' /\ FetchedOK'
      BY <3>2, <3>3, <3>4, <3>5 DEF RangeOK, FetchedOK
    <3>. QED
      BY <3>1, <3>6, <1>b DEF BackedInv
  <2>10. CASE FetchHeaders
    <3>. DEFINE numbers == RangeNumbers
    <3>1. CASE \E code \in ErrorCodes : Fail(code)
      BY <3>1, <1>f
    <3>2. CASE /\ \A n \in numbers : Exists(n)
               /\ RangeStart > Height(source) =>
                    HeaderAt(RangeStart - 1) # {} /\ \A p \in HeaderAt(RangeStart - 1) : Live(p)
               /\ fetched' = {BlockAt(n) : n \in numbers}
               /\ pc' = "commit"
               /\ UNCHANGED <<storeVars, horizon, knownHead, boundary, scanFrom, found>>
      <4>1. RowsInv'
        BY <3>2, <1>a, StoreStutterRows
      <4>2. /\ RangeStart' = RangeStart /\ RangeEnd' = RangeEnd
            /\ cursor' = cursor /\ source' = source /\ headers' = headers
        BY <3>2 DEF storeVars, RangeStart, RangeEnd
      <4>3. RangeOK'
        BY <2>10, <3>2, <4>2, <1>a DEF FetchHeaders, RangeOK
      <4>4. OnePerNumber(fetched')
        BY <3>2, <1>d DEF OnePerNumber
      <4>5. /\ RangeStart \in Nat /\ RangeEnd \in Int /\ RangeStart <= RangeEnd
            /\ \A e \in found : Height(e) <= RangeEnd
            /\ source \in Blocks
        BY <2>10, <1>a, <1>c
           DEF FetchHeaders, RangeOK, RangeStart, RangeEnd, PlaceOK, StoreTypeOK, LocalTypeOK
      <4>6. \A n \in numbers : n <= RangeEnd /\ Exists(n)
        BY <3>2, <4>5 DEF RangeNumbers
      <4>7. \A h \in fetched' : Height(h) <= RangeEnd
        BY <3>2, <4>6, <1>d
      <4>8. ASSUME NEW h \in fetched', Height(h) = RangeEnd, cursor # None, source \in headers
            PROVE  IsAncestor(cursor, h)
        <5>1. cursor \in Blocks /\ cursor \in headers /\ Height(source) <= Height(cursor)
          BY <4>8, <1>a DEF StoreTypeOK, RowsInv, CursorRetained, SourceBelowCursor
        <5>2. Height(cursor) \in Nat /\ Height(source) \in Nat /\ RangeStart = Height(cursor) + 1
          BY <4>5, <4>8, <5>1, <1>c DEF RangeStart
        <5>3. Live(cursor)
          BY <3>2, <5>1, <5>2 DEF HeaderAt
        <5>4. h = BlockAt(RangeEnd) /\ Exists(RangeEnd)
          BY <3>2, <4>6, <4>8, <1>d
        <5>5. RangeEnd \in Height(cursor)..HeadNumber
          BY <5>2, <5>4, <4>5, <1>d
        <5>. QED
          BY <5>1, <5>3, <5>4, <5>5, <1>c, LiveIsAncestor
      <4>9. FetchedOK'
        BY <4>2, <4>4, <4>7, <4>8 DEF FetchedOK
      <4>. QED
        BY <4>1, <4>3, <4>9, <1>b DEF BackedInv
    <3>. QED
      BY <2>10, <3>1, <3>2 DEF FetchHeaders, NotFound, ErrorCodes
  <2>11. CASE CommitRange
    <3>1. CASE \E code \in ErrorCodes : Fail(code)
      BY <3>1, <1>f
    <3>2. CASE \E through \in fetched : /\ Height(through) = RangeEnd
                                       /\ CommitBatch(through, fetched, found)
                                       /\ NextRange(through, knownHead)
      <4>1. PICK through \in fetched : /\ Height(through) = RangeEnd
                                       /\ CommitBatch(through, fetched, found)
                                       /\ NextRange(through, knownHead)
        BY <3>2
      <4>2. /\ through \in Blocks /\ fetched \in SUBSET Blocks /\ found \in SUBSET Blocks
            /\ source \in Blocks /\ source # None
        BY <2>11, <4>1, <1>a DEF CommitRange, LocalTypeOK, PlaceOK, StoreTypeOK
      <4>3. RangeStart <= RangeEnd
        BY <2>11, <4>2, <1>a, <1>c
           DEF CommitRange, RangeOK, RangeStart, RangeEnd, StoreTypeOK, LocalTypeOK
      <4>4. /\ OnePerNumber(fetched)
            /\ \A h \in fetched : Height(h) <= Height(through)
            /\ \A e \in found : RangeStart <= Height(e) /\ Height(e) <= Height(through)
            /\ cursor # None /\ source \in headers => IsAncestor(cursor, through)
        BY <2>11, <4>1, <1>a DEF CommitRange, RangeOK, FetchedOK
      <4>5. RowsInv'
        BY <4>1, <4>2, <4>3, <4>4, <1>a, CommitBatchRows
      <4>6. cursor' = through /\ source' = source
        BY <4>1 DEF CommitBatch
      <4>7. RangeOK' /\ FetchedOK'
        BY <4>1, <4>2, <4>6, NextRangeOK
      <4>. QED
        BY <4>5, <4>7, <1>b DEF BackedInv
    <3>. QED
      BY <2>11, <3>1, <3>2 DEF CommitRange, NotFound, ErrorCodes
  <2>12. CASE RetainWindow
    <3>1. CASE \E code \in ErrorCodes : Fail(code)
      BY <3>1, <1>f
    <3>2. CASE UNCHANGED storeVars /\ Goto("cursor")
      BY <3>2, <1>g DEF Goto
    <3>3. CASE /\ cursor # None
               /\ \A n \in WindowStart..Height(cursor) : Exists(n)
               /\ RetainHeaders({BlockAt(n) : n \in WindowStart..Height(cursor)})
               /\ Goto("cursor")
      <4>. DEFINE dense == {BlockAt(n) : n \in WindowStart..Height(cursor)}
      <4>1. OnePerNumber(dense)
        BY <3>3, <1>d DEF OnePerNumber
      <4>2. \A h \in dense : Height(h) <= Height(cursor)
        BY <3>3, <1>d
      <4>3. RowsInv'
        BY <3>3, <4>1, <4>2, <1>a, RetainHeadersRows
      <4>. QED
        BY <3>3, <4>3, <1>e DEF Goto
    <3>. QED
      BY <2>12, <3>1, <3>2, <3>3 DEF RetainWindow, NotFound, ErrorCodes
  <2>13. CASE ConfirmCursor
    BY <2>13, <1>f, <1>g DEF ConfirmCursor, Goto
  <2>14. CASE ConfirmParent
    BY <2>14, <1>f, <1>g DEF ConfirmParent, Goto
  <2>15. CASE ConfirmHead
    <3>1. cursor \in Blocks
      BY <2>15, <1>a DEF ConfirmHead, PlaceOK, StoreTypeOK
    <3>2. ASSUME RetainHeaders({Parent(cursor), cursor}), pc' \in {"disagree", "persist"}
          PROVE  BackedInv'
      <4>1. OnePerNumber({Parent(cursor), cursor})
        BY <3>1, ParentType DEF OnePerNumber
      <4>2. \A h \in {Parent(cursor), cursor} : Height(h) <= Height(cursor)
        BY <3>1, <1>c, ParentType
      <4>3. RowsInv'
        BY <3>2, <4>1, <4>2, <1>a, RetainHeadersRows
      <4>. QED
        BY <3>2, <4>3, <1>e
    <3>. QED
      BY <2>15, <3>2, <1>f DEF ConfirmHead, Goto
  <2>16. CASE Publish
    <3>1. cursor # None
      BY <2>16, <1>a DEF Publish, PlaceOK
    <3>. QED
      BY <2>16, <3>1, <1>a, <1>e, <1>f, PersistRows DEF Publish, Assembled
  <2>. QED
    BY <1>1, <2>1, <2>2, <2>3, <2>4, <2>5, <2>6, <2>7, <2>8, <2>9, <2>10, <2>11,
       <2>12, <2>13, <2>14, <2>15, <2>16 DEF SyncStep
<1>2. CASE Fault
  BY <1>2, <1>f DEF Fault
<1>3. CASE Crash
  BY <1>3, <1>g DEF Crash
<1>4. CASE Restart
  BY <1>4, <1>e, <1>g, ResetRows DEF Restart
<1>5. CASE ChainGrows
  BY <1>5, <1>h DEF ChainGrows
<1>6. CASE ChainReorgs
  BY <1>6, <1>h DEF ChainReorgs
<1>7. CASE UNCHANGED vars
  BY <1>7, <1>h DEF vars
<1>. QED
  BY <1>1, <1>2, <1>3, <1>4, <1>5, <1>6, <1>7 DEF Next

(* ServedIsBacked for every chain, window, range size, horizon and fault:    *)
(* whatever sequence of attempts, failures, kills, restarts, replays and     *)
(* reorgs happened, the active snapshot is held and is what the committed    *)
(* rows up to its head say.                                                  *)
THEOREM Backed == Spec => []ServedIsBacked
<1>1. BackedInv => ServedIsBacked
  BY DEF BackedInv, RowsInv
<1>. QED
  BY InitBacked, NextBacked, <1>1, PTL DEF Spec
=============================================================================
