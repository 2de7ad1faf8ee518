--------------------------- MODULE SpikeIngestion ---------------------------
(***************************************************************************)
(* The one-shot ingestion of src/starknet/ingest.ts followed by the        *)
(* validation of its snapshot (src/starknet/freshness.ts), as              *)
(* scripts/mainnet-spike.ts runs them: no database, one snapshot, every    *)
(* header kept in a map by number and never read again unless the code     *)
(* says so.  Each action is the answer of one RPC call, and the chain may  *)
(* grow or reorganise between any two of them.                             *)
(*                                                                         *)
(* An event is the block that carries it (at most one per block).  The     *)
(* class hash and the chain id have one value; the ABI, the decoding of an *)
(* event and the shape checks of a snapshot's fields are left out.         *)
(***************************************************************************)
EXTENDS PublicChain, FiniteSets

CONSTANTS
  None,             \* undefined
  DeploymentBlock,  \* config.poolDeploymentBlock
  Timestamp,        \* [0..MaxHeight -> Nat]: block timestamps by number
  Required,         \* requiredFromTimestamp
  SourceOptions,    \* values of the option sourceFromBlock, or None
  Queries,          \* the contents asked for, one query each, in order
  MaxSourceAge,     \* FRESHNESS_POLICY.maximumSourceAgeSeconds
  MaxIndexLag,      \* FRESHNESS_POLICY.maximumIndexLagSeconds
  Evaluations       \* the wall clock's readings when the snapshot is evaluated

ASSUME SpikeAssumption ==
  /\ None \notin Blocks /\ None \notin Nat
  /\ DeploymentBlock \in 1..MaxHeight
  /\ Timestamp \in [0..MaxHeight -> Nat]
  /\ \A m, n \in 0..MaxHeight : m <= n => Timestamp[m] <= Timestamp[n]
  /\ Required \in Nat
  /\ SourceOptions \subseteq Nat \cup {None}
  /\ Queries \in Seq(Contents) /\ Len(Queries) > 0
  /\ MaxSourceAge \in Nat /\ MaxIndexLag \in Nat
  /\ Evaluations \subseteq Nat

VARIABLES
  pc,          \* the call whose answer is awaited
  option,      \* options.sourceFromBlock
  number,      \* the block number last answered: sourceThroughBlock, rpcHeadBlock
  source,      \* sourceHeader
  parent,      \* sourceParent
  low, high,   \* the bounds of the search by timestamp
  from,        \* sourceFromHeader
  query,       \* the query being paged, an index of Queries
  scanFrom,    \* first block the query still has to page in
  found,       \* the events collected by all queries so far
  cache,       \* headerCache: at most one header per number
  head,        \* rpcHead
  outcome,     \* "running", "accepted" or the code of the error
  orphaned,    \* history: the blocks reorgs have removed
  returned     \* history: has an orphaned block become canonical again?

localVars == <<pc, option, number, source, parent, low, high, from, query,
               scanFrom, found, cache, head, outcome>>
vars == <<chainVars, localVars, orphaned, returned>>

Places == {"head", "source", "parent", "first", "search", "from", "events",
           "headers", "headAgain", "rpcHead", "rpcParent", "revalidate",
           "evaluate", "done"}

(* Codes by which the answers are found to contradict each other, and the    *)
(* others.  A wall clock behind the source is reported as                    *)
(* RPC_HEAD_INCONSISTENT too; here it has a name of its own.                 *)
Contradictions == {"PARENT_LINK_BROKEN", "BLOCK_HASH_INCONSISTENT", "RPC_HEAD_INCONSISTENT"}
Refusals == Contradictions \cup
            {"RPC_ERROR", "SOURCE_INCOMPLETE", "RPC_DATA_STALE", "INDEX_LAG_EXCEEDED",
             "EVALUATION_TOO_EARLY"}

(* Every variable has its type. *)
TypeOK ==
  /\ ChainTypeOK
  /\ pc \in Places
  /\ option \in SourceOptions
  /\ number \in 0..MaxHeight
  /\ source \in Blocks \cup {None} /\ parent \in Blocks \cup {None}
  /\ low \in Nat /\ high \in Nat
  /\ from \in Blocks \cup {None}
  /\ query \in 1..(Len(Queries) + 1)
  /\ scanFrom \in Nat
  /\ found \subseteq Blocks
  /\ cache \subseteq Blocks
  /\ \A a, b \in cache : Height(a) = Height(b) => a = b
  /\ head \in Blocks \cup {None}
  /\ outcome \in Refusals \cup {"running", "accepted"}
  /\ orphaned \subseteq Blocks
  /\ returned \in BOOLEAN

Init ==
  /\ chain \in UNION {[1..n -> Contents] : n \in DeploymentBlock..MaxHeight}
  /\ reverts = 0
  /\ pc = "head"
  /\ option \in SourceOptions
  /\ number = 0
  /\ source = None /\ parent = None
  /\ low = 0 /\ high = 0
  /\ from = None
  /\ query = 1
  /\ scanFrom = 0
  /\ found = {}
  /\ cache = {}
  /\ head = None
  /\ outcome = "running"
  /\ orphaned = {}
  /\ returned = FALSE

---------------------------------------------------------------------------
(* Control *)

(* The ingestion ends: main() reports the error, or the preflight runs. *)
End(code) ==
  /\ pc' = "done"
  /\ outcome' = code
  /\ UNCHANGED <<option, number, source, parent, low, high, from, query,
                 scanFrom, found, cache, head>>

(* A header of that number, if the cache has one. *)
CachedAt(n) == {b \in cache : Height(b) = n}

(* Seeded fault: headers are kept beside those of the same number. *)
Accumulated(bs) == cache \cup bs

(* headerCache.set *)
Cached(bs) == {c \in cache : \A b \in bs : Height(c) # Height(b)} \cup bs

---------------------------------------------------------------------------
(* Ingestion *)

(* sourceThroughBlock = await getBlockNumber() *)
ReadHead ==
  /\ pc = "head"
  /\ number' = HeadNumber
  /\ pc' = "source"
  /\ UNCHANGED <<option, source, parent, low, high, from, query, scanFrom,
                 found, cache, head, outcome>>

ReadSource ==
  /\ pc = "source"
  /\ IF ~Exists(number) THEN End("RPC_ERROR")
     ELSE /\ source' = BlockAt(number)
          /\ pc' = "parent"
          /\ UNCHANGED <<option, number, parent, low, high, from, query, scanFrom,
                         found, cache, head, outcome>>

(* The parent is read by number and has to be the one the header declares.   *)
(* Without the option the boundary is then searched for.                     *)
ReadSourceParent ==
  /\ pc = "parent"
  /\ IF ~Exists(number - 1) THEN End("RPC_ERROR")
     ELSE IF Parent(source) # BlockAt(number - 1) THEN End("PARENT_LINK_BROKEN")
     ELSE /\ parent' = BlockAt(number - 1)
          /\ cache' = {source, BlockAt(number - 1)}
          /\ low' = IF option = None THEN DeploymentBlock ELSE option
          /\ high' = number
          /\ pc' = IF option = None THEN "first" ELSE "from"
          /\ UNCHANGED <<option, number, source, from, query, scanFrom, found, head,
                         outcome>>

(* The header of a number as get() returns it: the cached one, or the one    *)
(* the endpoint has now.                                                     *)
Get(n) == IF CachedAt(n) # {} THEN CachedAt(n) ELSE {BlockAt(n)}
Has(n) == CachedAt(n) # {} \/ Exists(n)

(* findBlockAtOrBeforeTimestamp: the first block ... *)
SearchFirst ==
  /\ pc = "first"
  /\ IF ~Has(low) THEN End("RPC_ERROR")
     ELSE /\ cache' = Cached(Get(low))
          /\ pc' = IF Required <= Timestamp[low] THEN "from" ELSE "search"
          /\ UNCHANGED <<option, number, source, parent, low, high, from, query,
                         scanFrom, found, head, outcome>>

(* Seeded fault: the middle is rounded down. *)
MiddleDown == (low + high) \div 2

Middle == (low + high + 1) \div 2

(* Seeded fault: a block of exactly the required time is taken for later. *)
Before(n) == Timestamp[n] < Required

NotAfter(n) == Timestamp[n] <= Required

(* ... and one probe of the bisection. *)
SearchStep ==
  /\ pc = "search"
  /\ IF low >= high
     THEN /\ pc' = "from"
          /\ UNCHANGED <<cache, low, high, outcome>>
     ELSE IF ~Has(Middle)
     THEN /\ pc' = "done"
          /\ outcome' = "RPC_ERROR"
          /\ UNCHANGED <<cache, low, high>>
     ELSE /\ cache' = Cached(Get(Middle))
          /\ IF NotAfter(Middle)
             THEN low' = Middle /\ UNCHANGED high
             ELSE high' = Middle - 1 /\ UNCHANGED low
          /\ UNCHANGED <<pc, outcome>>
  /\ UNCHANGED <<option, number, source, parent, from, query, scanFrom, found, head>>

ReadFrom ==
  /\ pc = "from"
  /\ IF low \notin DeploymentBlock..number THEN End("SOURCE_INCOMPLETE")
     ELSE IF ~Has(low) THEN End("RPC_ERROR")
     ELSE /\ \E b \in Get(low) : from' = b
          /\ cache' = Cached(Get(low))
          /\ scanFrom' = low
          /\ pc' = "events"
          /\ UNCHANGED <<option, number, source, parent, low, high, query, found,
                         head, outcome>>

(* A query is through: the next one starts at the boundary again.            *)
NextQuery ==
  /\ scanFrom' = Height(from)
  /\ query' = query + 1
  /\ pc' = IF query = Len(Queries) THEN "headers" ELSE "events"

(* One page of collectSelectorEvents: the events of the query in the blocks  *)
(* scanFrom..last, as the endpoint has them now.  Ranges and continuation    *)
(* tokens cut a query into pages anywhere.                                   *)
CollectPage ==
  /\ pc = "events"
  /\ \E last \in scanFrom..number :
       /\ found' = found \cup
            {BlockAt(n) : n \in {m \in scanFrom..last :
                             Exists(m) /\ Content(BlockAt(m)) = Queries[query]}}
       /\ \/ last < number /\ scanFrom' = last + 1 /\ UNCHANGED <<query, pc>>
          \/ last = number /\ NextQuery
  /\ UNCHANGED <<option, number, source, parent, low, high, from, cache, head, outcome>>

(* decodePoolEvent: the event names the block whose header is kept for its   *)
(* number.                                                                   *)
Decodable(headers) == found \subseteq headers

(* getBlocks of the event blocks that are not cached, then the decoding of   *)
(* every event.                                                              *)
ReadEventHeaders ==
  /\ pc = "headers"
  /\ LET missing == {n \in {Height(e) : e \in found} : CachedAt(n) = {}}
         headers == {BlockAt(n) : n \in missing}
     IN IF \E n \in missing : ~Exists(n) THEN End("RPC_ERROR")
        ELSE IF ~Decodable(Cached(headers)) THEN End("BLOCK_HASH_INCONSISTENT")
        ELSE /\ cache' = Cached(headers)
             /\ pc' = "headAgain"
             /\ UNCHANGED <<option, number, source, parent, low, high, from, query,
                            scanFrom, found, head, outcome>>

(* rpcHeadBlock = await getBlockNumber() *)
ReadHeadAgain ==
  /\ pc = "headAgain"
  /\ IF HeadNumber < Height(source) THEN End("RPC_HEAD_INCONSISTENT")
     ELSE /\ number' = HeadNumber
          /\ pc' = "rpcHead"
          /\ UNCHANGED <<option, source, parent, low, high, from, query, scanFrom,
                         found, cache, head, outcome>>

ReadRpcHead ==
  /\ pc = "rpcHead"
  /\ IF ~Exists(number) THEN End("RPC_ERROR")
     ELSE /\ head' = BlockAt(number)
          /\ cache' = Cached({BlockAt(number)})
          /\ pc' = "rpcParent"
          /\ UNCHANGED <<option, number, source, parent, low, high, from, query,
                         scanFrom, found, outcome>>

(* The head's parent is read unless the head is the source again. *)
ReadRpcHeadParent ==
  /\ pc = "rpcParent"
  /\ LET same  == number = Height(source)
         above == IF same THEN parent ELSE BlockAt(number - 1)
     IN IF ~same /\ ~Exists(number - 1) THEN End("RPC_ERROR")
        ELSE IF Parent(head) # above THEN End("PARENT_LINK_BROKEN")
        ELSE /\ cache' = Cached({above})
             /\ pc' = "revalidate"
             /\ UNCHANGED <<option, number, source, parent, low, high, from,
                            query, scanFrom, found, head, outcome>>

(* Seeded fault: the newest head is compared with the source head. *)
RevalidateHead ==
  /\ pc = "revalidate"
  /\ IF ~Exists(number) THEN End("RPC_ERROR")
     ELSE IF BlockAt(number) # source THEN End("BLOCK_HASH_INCONSISTENT")
     ELSE /\ cache' = Cached({source})
          /\ pc' = "evaluate"
          /\ UNCHANGED <<option, number, source, parent, low, high, from, query,
                         scanFrom, found, head, outcome>>

(* Seeded fault: the first reading of the source head is trusted. *)
TrustSource ==
  /\ pc = "revalidate"
  /\ cache' = Cached({source})
  /\ pc' = "evaluate"
  /\ UNCHANGED <<option, number, source, parent, low, high, from, query, scanFrom,
                 found, head, outcome>>

(* The source header is read a second time. *)
RevalidateSource ==
  /\ pc = "revalidate"
  /\ IF ~Exists(Height(source)) THEN End("RPC_ERROR")
     ELSE IF ~Live(source) THEN End("BLOCK_HASH_INCONSISTENT")
     ELSE /\ cache' = Cached({source})
          /\ pc' = "evaluate"
          /\ UNCHANGED <<option, number, source, parent, low, high, from, query,
                         scanFrom, found, head, outcome>>

---------------------------------------------------------------------------
(* validatePublicSnapshot, over the references of the snapshot: the cache *)

BlocksInOrder ==
  /\ Height(source) <= Height(head)
  /\ Height(from) \in DeploymentBlock..Height(source)

(* referenceMap *)
ReferencesAgree == \A a, b \in cache : Height(a) = Height(b) => a = b

(* validateAdjacentReferences *)
AdjacentLink == \A a, b \in cache : Height(b) = Height(a) + 1 => Parent(b) = a

(* requireReference of the blocks the snapshot names; a header is kept for   *)
(* the number of each.                                                       *)
Retained(b) == b \in cache
NamedAreRetained == \A b \in {source, head, from, parent} : Retained(b)

ParentIsDeclared == Parent(source) = parent

SourceComplete == Timestamp[Height(from)] <= Required

(* validateObservation of every event *)
ObservationsCovered ==
  \A e \in found : Retained(e) /\ Height(e) \in Height(from)..Height(source)

(* The verdict on the snapshot at a wall clock reading, in the order of the  *)
(* checks.                                                                   *)
Verdict(at) ==
  IF ~BlocksInOrder THEN "RPC_HEAD_INCONSISTENT"
  ELSE IF at < Timestamp[Height(source)] THEN "EVALUATION_TOO_EARLY"
  ELSE IF ~ReferencesAgree THEN "BLOCK_HASH_INCONSISTENT"
  ELSE IF ~AdjacentLink THEN "PARENT_LINK_BROKEN"
  ELSE IF ~NamedAreRetained THEN "BLOCK_HASH_INCONSISTENT"
  ELSE IF ~ParentIsDeclared THEN "PARENT_LINK_BROKEN"
  ELSE IF ~SourceComplete THEN "SOURCE_INCOMPLETE"
  ELSE IF ~ObservationsCovered THEN "BLOCK_HASH_INCONSISTENT"
  ELSE IF at - Timestamp[Height(source)] > MaxSourceAge THEN "RPC_DATA_STALE"
  ELSE IF Timestamp[Height(head)] - Timestamp[Height(source)] > MaxIndexLag
  THEN "INDEX_LAG_EXCEEDED"
  ELSE "accepted"

Evaluate ==
  /\ pc = "evaluate"
  /\ \E at \in Evaluations : End(Verdict(at))

(* An RPC call fails: transport, timeout or a malformed answer. *)
RpcFails == pc \notin {"evaluate", "done"} /\ End("RPC_ERROR")

---------------------------------------------------------------------------
(* The chain, while the process runs *)

ChainGrows ==
  /\ pc # "done"
  /\ Extend
  /\ returned' = (returned \/ chain' \in orphaned)
  /\ UNCHANGED <<localVars, orphaned>>

ChainReorgs ==
  /\ pc # "done"
  /\ Revert
  /\ orphaned' = orphaned \cup {Ancestor(chain, n) : n \in (Height(chain') + 1)..HeadNumber}
  /\ UNCHANGED <<localVars, returned>>

Answered ==
  \/ ReadHead \/ ReadSource \/ ReadSourceParent
  \/ SearchFirst \/ SearchStep \/ ReadFrom
  \/ CollectPage \/ ReadEventHeaders
  \/ ReadHeadAgain \/ ReadRpcHead \/ ReadRpcHeadParent \/ RevalidateSource
  \/ Evaluate

Ingest  == Answered /\ UNCHANGED <<chainVars, orphaned, returned>>
Failure == RpcFails /\ UNCHANGED <<chainVars, orphaned, returned>>

Next == Ingest \/ Failure \/ ChainGrows \/ ChainReorgs

Spec == Init /\ [][Next]_vars

(* Every request of rpc.ts ends: with an answer, an error or its timeout. *)
FairSpec == Spec /\ WF_vars(Ingest)

---------------------------------------------------------------------------
(* Correctness *)

(* What a snapshot of that head should contain. *)
Carriers ==
  {Ancestor(source, n) :
     n \in {m \in Height(from)..Height(source) :
              \E q \in 1..Len(Queries) : Content(Ancestor(source, m)) = Queries[q]}}

(* A dozen calls answered at different times, over a chain that may change   *)
(* between any two of them, give the events of one history: those of every   *)
(* query in every block from the boundary to the source head, with no event  *)
(* of a block outside it and none missing.  What makes it true is the second *)
(* reading of the source head: its hash can only be there again if it was    *)
(* there all the time - unless an orphaned block comes back, which a chain   *)
(* does not do but an endpoint that balances over lagging nodes can.         *)
AcceptedIsExact ==
  outcome = "accepted" /\ ~returned =>
    /\ IsAncestor(source, head)
    /\ IsAncestor(from, source)
    /\ found = Carriers
    /\ \A b \in cache : Height(b) <= Height(source) => IsAncestor(b, source)

(* An ingestion fails closed on contradictions of the chain, but only on     *)
(* them: with no reorg while it ran, however far the head moved and the pages *)
(* were cut, no check of headers, links and event hashes refuses.            *)
RefusesOnlyAfterReorg == outcome \in Contradictions => reverts > 0

(* Without the option the accepted history starts at the last block that is  *)
(* not later than the required time: a block later and the first of the      *)
(* window's events are lost, blocks earlier and pages are read for nothing.  *)
(* (A deployment block of exactly that time is taken without a search.)      *)
BoundaryIsTight ==
  outcome = "accepted" /\ option = None =>
    /\ Timestamp[Height(from)] <= Required
    /\ Timestamp[DeploymentBlock] < Required =>
         \A n \in (Height(from) + 1)..Height(source) : Timestamp[n] > Required

(* Whatever the chain does the ingestion comes to an end: the bisection and  *)
(* the paging have a fixed upper block and never run after a moving head.    *)
Completes == <>(outcome # "running")
=============================================================================
